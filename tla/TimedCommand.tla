----------------------------- MODULE TimedCommand -----------------------------
(***************************************************************************)
(* One call of a Python function that runs a command under a wall timeout: *)
(* the caller's thread, the child (leader of a session and process group   *)
(* of its own), the processes the child forks, and the kernel's table of   *)
(* process numbers.  Five functions share the protocol and differ in two   *)
(* points, which the variable `runner' selects:                            *)
(*   "process"      mathzip_bench/process.py run_command                   *)
(*   "measured"     benchmarks/runner.py run_measured                      *)
(*   "control"      benchmarks/runner.py _run_control                      *)
(*   "repro"        repro/common.py run_command                            *)
(*   "determinism"  determinism/runner.py _run_argv                        *)
(* A signal is delivered at once: a killed process runs no further step.   *)
(***************************************************************************)
EXTENDS Naturals, FiniteSets

CONSTANTS Helpers,   \* processes forked into the child's process group
          Daemons    \* forked processes that leave it (setsid)

Leader == "leader"
ASSUME ProcessesDiffer == /\ Helpers \cap Daemons = {}
                          /\ {Leader, "stranger"} \cap (Helpers \cup Daemons) = {}

Group == {Leader} \cup Helpers
Procs == Group \cup Daemons
Runners == {"process", "measured", "control", "repro", "determinism"}

VARIABLES runner,     \* which of the five functions is running
          proc,       \* state of each process
          writers,    \* who holds the write end of stdout or stderr
          status,     \* how the leader ended
          pid,        \* whose process the child's number names
          late,       \* the timeout has elapsed
          pc,         \* the caller
          timedOut,   \* timed_out of the result
          struck      \* what the caller's killpg was delivered to

vars == <<runner, proc, writers, status, pid, late, pc, timedOut, struck>>
caller == <<pc, timedOut, struck>>
kernel == <<proc, writers, status, pid>>

\* run_command of mathzip_bench reads two pipes to their end before it waits
\* for the child; the others send the output to files and only wait.
ReadsPipes == runner = "process"

\* Which of them kill the group when the user interrupts the wait.
KillsOnInterrupt == runner \in {"measured", "control", "repro"}

Init ==
  /\ runner \in Runners
  /\ proc = [p \in Procs |-> IF p = Leader THEN "running" ELSE "unborn"]
  /\ writers = {Leader}
  /\ status = "none" /\ pid = Leader
  /\ late = FALSE
  /\ pc = "waiting" /\ timedOut = FALSE
  /\ struck = {}

-----------------------------------------------------------------------------
(* The child and its descendants.                                          *)

Running(p) == proc[p] = "running"

Fork(p, c) ==
  /\ Running(p) /\ proc[c] = "unborn"
  /\ c \in Helpers => p \in Group
  /\ proc' = [proc EXCEPT ![c] = "running"]
  /\ writers' = IF p \in writers THEN writers \cup {c} ELSE writers
  /\ UNCHANGED <<runner, status, pid, late, caller>>

CloseOutput(p) ==
  /\ Running(p) /\ p \in writers
  /\ writers' = writers \ {p}
  /\ UNCHANGED <<runner, proc, status, pid, late, caller>>

\* The leader stays a zombie until its parent, the caller, waits for it.
Exit(p, code) ==
  /\ Running(p)
  /\ proc' = [proc EXCEPT ![p] = IF p = Leader THEN "zombie" ELSE "gone"]
  /\ writers' = writers \ {p}
  /\ status' = IF p = Leader THEN code ELSE status
  /\ UNCHANGED <<runner, pid, late, caller>>

\* A number is given out again once neither a process nor a group uses it.
GroupExists == \E p \in Group : proc[p] \in {"running", "zombie"}
RecyclePid ==
  /\ pid = Leader /\ ~GroupExists
  /\ pid' = "stranger"
  /\ UNCHANGED <<runner, proc, writers, status, late, caller>>

Elapse ==
  /\ ~late /\ late' = TRUE
  /\ UNCHANGED <<runner, kernel, caller>>

-----------------------------------------------------------------------------
(* The caller.                                                             *)

\* Mutant: every function reads its output to the end.
AllRead == proc[Leader] = "zombie" /\ writers = {}
\* Mutant: communicate() stops reading when the child has ended.
EndsWithChild == proc[Leader] = "zombie"
\* wait() and communicate() look once more before they give up, so a child
\* that ends at the deadline may still be a result.
Waitable == /\ proc[Leader] = "zombie"
            /\ ReadsPipes => writers = {}

Reap == proc' = [proc EXCEPT ![Leader] = "gone"]

Finish ==
  /\ pc = "waiting" /\ Waitable
  /\ Reap
  /\ pc' = "returned"
  /\ UNCHANGED <<runner, writers, status, pid, late, timedOut, struck>>

\* Mutant: the child is polled, and so reaped, before the group is killed.
PolledExpire ==
  /\ pc = "waiting" /\ late
  /\ pc' = "expired" /\ timedOut' = TRUE
  /\ proc' = IF proc[Leader] = "zombie" THEN [proc EXCEPT ![Leader] = "gone"]
             ELSE proc
  /\ UNCHANGED <<runner, writers, status, pid, late, struck>>
Expire ==
  /\ pc = "waiting" /\ late
  /\ pc' = "expired" /\ timedOut' = TRUE
  /\ UNCHANGED <<runner, kernel, late, struck>>

Interrupt ==
  /\ pc = "waiting"
  /\ pc' = IF KillsOnInterrupt THEN "interrupted" ELSE "raised"
  /\ UNCHANGED <<runner, kernel, late, timedOut, struck>>

\* Mutant: process.kill() instead of the group.
KillChild ==
  /\ proc' = [proc EXCEPT ![Leader] = "zombie"]
  /\ writers' = writers \ {Leader}
  /\ status' = IF Running(Leader) THEN "killed" ELSE status
  /\ struck' = struck \cup {pid}
\* Mutant: the processes of the group die and keep their descriptors.
KillLeaky ==
  LET hit == {p \in Group : Running(p)}
  IN  /\ proc' = [p \in Procs |-> IF p \notin hit THEN proc[p]
                                  ELSE IF p = Leader THEN "zombie" ELSE "gone"]
      /\ status' = IF Leader \in hit THEN "killed" ELSE status
      /\ struck' = struck \cup hit
      /\ UNCHANGED writers
\* os.killpg(process.pid, SIGKILL): the group if the number still names it.
KillGroup ==
  LET hit == {p \in Group : Running(p)}
  IN  /\ proc' = [p \in Procs |-> IF p \notin hit THEN proc[p]
                                  ELSE IF p = Leader THEN "zombie" ELSE "gone"]
      /\ writers' = writers \ hit
      /\ status' = IF Leader \in hit THEN "killed" ELSE status
      /\ struck' = IF pid = Leader THEN struck \cup hit ELSE struck \cup {pid}

Kill ==
  /\ pc \in {"expired", "interrupted"}
  /\ KillGroup
  /\ pc' = IF pc = "expired" THEN "reaping" ELSE "abandoning"
  /\ UNCHANGED <<runner, pid, late, timedOut>>

\* process.wait(), or the second communicate(): neither has a timeout.
ReapKilled ==
  /\ pc \in {"reaping", "abandoning"} /\ Waitable
  /\ Reap
  /\ pc' = IF pc = "reaping" THEN "returned" ELSE "raised"
  /\ UNCHANGED <<runner, writers, status, pid, late, timedOut, struck>>

Call == Finish \/ Expire \/ Kill \/ ReapKilled

Descendants ==
  \/ \E p \in Procs, c \in Procs \ {Leader} : Fork(p, c)
  \/ \E p \in Procs : CloseOutput(p)
  \/ \E p \in Procs, code \in {"ok", "fail"} : Exit(p, code)

Next == Descendants \/ RecyclePid \/ Elapse \/ Interrupt \/ Call

\* The clock advances and the caller's thread is scheduled; nothing is
\* assumed of the command or of anything it started.
Spec == Init /\ [][Next]_vars /\ WF_vars(Elapse) /\ WF_vars(Call)

-----------------------------------------------------------------------------

\* What the caller's caller makes of the result: timed_out is read before
\* returncode, which may be 0 even though the call timed out.
Verdict == IF timedOut THEN "timeout"
           ELSE IF status = "ok" THEN "ok" ELSE "failed"

TypeOK ==
  /\ runner \in Runners
  /\ proc \in [Procs -> {"unborn", "running", "zombie", "gone"}]
  /\ writers \subseteq {p \in Procs : Running(p)}
  /\ status \in {"none", "ok", "fail", "killed"}
  /\ pid \in {Leader, "stranger"} /\ late \in BOOLEAN
  /\ pc \in {"waiting", "expired", "interrupted", "reaping", "abandoning",
             "returned", "raised"}
  /\ timedOut \in BOOLEAN
  /\ struck \subseteq Group \cup {"stranger"}

\* The signal never reaches a process the call did not start, and os.killpg
\* always finds its group, although the child may end at the very moment the
\* timeout strikes: _run_argv does not even catch ProcessLookupError.
KillHitsOwnGroup ==
  /\ "stranger" \notin struck
  /\ pc \in {"expired", "interrupted"} => pid = Leader /\ GroupExists

\* When a call ends by a timeout, or by an interrupt that the function
\* handles, nothing of the command's process group runs on and disturbs the
\* next measurement.
NothingOutlivesTheCall ==
  \/ pc = "returned" /\ timedOut
  \/ pc = "raised" /\ KillsOnInterrupt
  => \A p \in Group : ~Running(p)

\* A verdict of success or failure is about a command that ended by itself
\* and, where the output is read from pipes, whose whole output was read; a
\* verdict of timeout is never given before the timeout has elapsed.
VerdictIsHonest ==
  pc = "returned" =>
    /\ Verdict # "timeout" => status \in {"ok", "fail"} /\ proc[Leader] = "gone"
    /\ Verdict # "timeout" /\ ReadsPipes => writers = {}
    /\ Verdict = "timeout" => late

\* Every function that sends the output to files returns once the timeout
\* has elapsed, whatever the command has started.
FilesReturn == (late /\ ~ReadsPipes) ~> pc \in {"returned", "raised"}

\* What a measurement relies on when it runs a command under a timeout: the
\* kill strikes its own group, the group is gone when the call has timed out,
\* and the verdict is about the whole command (process.py:107, runner.py:1239).
CallsAreHonest ==
  /\ TypeOK
  /\ KillHitsOwnGroup /\ NothingOutlivesTheCall /\ VerdictIsHonest
===============================================================================
