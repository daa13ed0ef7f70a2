---------------------------- MODULE BenchmarkRun ----------------------------
(***************************************************************************)
(* Resumable benchmark campaigns (python/mathzip_bench/runner.py).         *)
(*                                                                         *)
(* Invocations share an output root.  Each takes the root's lock, records  *)
(* the identity of its environment, creates a run directory or validates   *)
(* and reopens one, measures the missing rows one by one, and publishes    *)
(* the results once the grid is complete.  An invocation may be stopped    *)
(* between any two steps, and the machine may lose power.                  *)
(*                                                                         *)
(* Files hold values; Absent stands for a missing one.  `disk` is what     *)
(* programs see and `stable` what a power failure is sure to keep: a name  *)
(* is stable once its directory was synced.  An atomic checkpoint write    *)
(* (mkstemp, fsync, replace, fsync of the directory) is one step, because  *)
(* an interruption inside it leaves what one before or after it leaves.    *)
(* The identity (config, source, binaries, grid, host, policy) is one      *)
(* value of Envs; a measurement takes one tick of the invocation's clock.  *)
(***************************************************************************)
EXTENDS Naturals, Sequences, FiniteSets, FiniteSetsExt

CONSTANTS
    Procs,           \* processes that may run invocations
    RunCount,        \* bound: run directories 1 .. RunCount
    Keys,            \* the expected grid
    Envs,            \* identities an environment can have
    Clean,           \* those with a clean source revision or tree
    Strict,          \* --require-publication-evidence
    EntryJournaled,  \* syncing a new directory also keeps its own name
    MaxStops,        \* bound: invocations stopped, and power failures
    MaxChanges,      \* bound: changes of the environment
    Absent, NoOne

Runs == 1 .. RunCount

ASSUME Setting ==
    /\ RunCount \in Nat /\ MaxStops \in Nat /\ MaxChanges \in Nat
    /\ IsFiniteSet(Keys)
    /\ Clean \subseteq Envs
    /\ Strict \in BOOLEAN /\ EntryJournaled \in BOOLEAN
    /\ NoOne \notin Procs /\ Absent \notin Runs /\ Absent \notin Envs

\* What the files hold: execution intervals, row envelopes, tables, result
\* documents and checkpoints.
Intervals == [active : Nat, completed : BOOLEAN, interrupted : BOOLEAN]
RowValues == [interval : Nat, active : Nat, start : Envs]
Tables == [Keys -> RowValues]
Docs == [rows : Tables, ivs : Seq(Intervals), evidence : BOOLEAN]
CheckpointValues ==
    [state : {"running", "finalizing", "complete"}, identity : Envs, grid : Envs,
     count : Nat, ivs : Seq(Intervals), results : Docs \union {Absent}]

ASSUME MissingIsNoValue ==
    /\ Absent # "made"
    /\ Absent \notin RowValues /\ Absent \notin Tables
    /\ Absent \notin Docs /\ Absent \notin CheckpointValues

VARIABLES disk, stable, lock, env, proc, spent, stops, changes

vars == <<disk, stable, lock, env, proc, spent, stops, changes>>

-----------------------------------------------------------------------------
(* The files of an output root.                                            *)

\* Run 0 stands for the output root: its own files are the two pointers.
LatestTxt == <<0, "txt">>
LatestJson == <<0, "json">>
Latest == {LatestTxt, LatestJson}
Folder(r) == <<r, "folder">>
Grid(r) == <<r, "grid">>
Identity(r) == <<r, "identity">>
Checkpoint(r) == <<r, "checkpoint">>
Results(r) == <<r, "results">>
Csv(r) == <<r, "csv">>
Row(r, k) == <<r, "row", k>>

RowFiles(r) == {Row(r, k) : k \in Keys}
RunFiles(r) == {Grid(r), Identity(r), Checkpoint(r), Results(r), Csv(r)}
Folders == {Folder(r) : r \in Runs}
Files == Latest \union Folders \union UNION {RunFiles(r) \union RowFiles(r) : r \in Runs}

\* The names a sync of the directory of f makes stable.
Siblings(f) ==
    IF f \in Latest \union Folders THEN Latest \union Folders
    ELSE IF f \in RowFiles(f[1]) THEN RowFiles(f[1])
    ELSE RunFiles(f[1]) \union (IF EntryJournaled THEN {Folder(f[1])} ELSE {})

Synced(f, d) == [g \in Files |-> IF g \in Siblings(f) THEN d[g] ELSE stable[g]]

Replace(f, v) == disk' = [disk EXCEPT ![f] = v] /\ UNCHANGED stable

DurableWrite(f, v) ==
    /\ disk' = [disk EXCEPT ![f] = v]
    /\ stable' = Synced(f, disk')

Exists(f) == disk[f] # Absent

RowsOf(r) == {k \in Keys : Exists(Row(r, k))}

-----------------------------------------------------------------------------
(* Execution intervals: one per invocation that reached its first row.     *)

Opened == [active |-> 0, completed |-> FALSE, interrupted |-> FALSE]

Later(m, n) == IF m > n THEN m ELSE n

\* update_checkpoint: the last interval's clock only moves forward.
Advanced(ivs, clock) ==
    [ivs EXCEPT ![Len(ivs)].active = Later(@, clock)]

Closed(ivs) == [ivs EXCEPT ![Len(ivs)].completed = TRUE]

\* The time durable rows prove for interval i.
Proved(r, i) ==
    Max({0} \union {disk[Row(r, k)].active : k \in {j \in RowsOf(r) : disk[Row(r, j)].interval = i}})

\* Mutant: a resume trusts the clock of the last checkpoint.
Forgotten(r, ivs) ==
    [i \in DOMAIN ivs |->
        [ivs[i] EXCEPT !.interrupted = @ \/ (i = Len(ivs) /\ ~ivs[i].completed)]]

\* A resume credits every interval with its rows, and marks the last one
\* interrupted unless it completed.
Recovered(r, ivs) ==
    [i \in DOMAIN ivs |->
        [ivs[i] EXCEPT !.active = Later(@, Proved(r, i)),
                       !.interrupted = @ \/ (i = Len(ivs) /\ ~ivs[i].completed)]]

-----------------------------------------------------------------------------
Idle == [pc |-> "idle", run |-> 0, start |-> Absent, stored |-> Absent,
         rows |-> {}, ivs |-> <<>>, clock |-> 0, key |-> Absent, doc |-> Absent]

Init ==
    /\ disk = [f \in Files |-> Absent]
    /\ stable = disk
    /\ lock = NoOne
    /\ env \in Envs
    /\ proc = [p \in Procs |-> Idle]
    /\ spent = [r \in Runs |-> 0]
    /\ stops = 0
    /\ changes = 0

At(p, pc) == proc[p].pc = pc
Run(p) == proc[p].run
Goto(p, pc) == proc' = [proc EXCEPT ![p].pc = pc]

\* The environment may change at any time.
ChangeEnvironment ==
    /\ changes < MaxChanges
    /\ changes' = changes + 1
    /\ env' \in Envs \ {env}
    /\ UNCHANGED <<disk, stable, lock, proc, spent, stops>>

\* The invocation ends, normally or by an exception: the lock is released.
End(p) ==
    /\ proc' = [proc EXCEPT ![p] = Idle]
    /\ lock' = IF lock = p THEN NoOne ELSE lock

\* A kill, an interrupt or a failing system call, anywhere.
Stop(p) ==
    /\ ~At(p, "idle")
    /\ stops < MaxStops
    /\ stops' = stops + 1
    /\ End(p)
    /\ UNCHANGED <<disk, stable, env, spent, changes>>

\* Unsynced names keep their old or their new value, each on its own; the
\* files of a run directory whose own name is lost are lost with it.
PowerLoss ==
    /\ stops < MaxStops
    /\ stops' = stops + 1
    /\ \E kept \in SUBSET {f \in Files : disk[f] # stable[f]} :
           LET left == [f \in Files |-> IF f \in kept THEN disk[f] ELSE stable[f]]
           IN  disk' = [f \in Files |->
                            IF f \notin Latest /\ left[Folder(f[1])] = Absent
                            THEN Absent ELSE left[f]]
    /\ stable' = disk'
    /\ proc' = [p \in Procs |-> Idle]
    /\ lock' = NoOne
    /\ UNCHANGED <<env, spent, changes>>

-----------------------------------------------------------------------------
(* Starting an invocation.                                                 *)

\* run_benchmarks: a new run (run 0 until its directory is made) ...
InvokeNew(p) ==
    /\ At(p, "idle")
    /\ proc' = [proc EXCEPT ![p].pc = "lock"]
    /\ UNCHANGED <<disk, stable, lock, env, spent, stops, changes>>

\* ... or --resume, which needs the checkpoint file before it asks the lock.
InvokeResume(p, r) ==
    /\ At(p, "idle")
    /\ Exists(Checkpoint(r))
    /\ proc' = [proc EXCEPT ![p].pc = "lock", ![p].run = r]
    /\ UNCHANGED <<disk, stable, lock, env, spent, stops, changes>>

\* Mutant: the lock is advisory and nobody asks for it.
Unlocked(p) == TRUE

LockFree(p) == lock = NoOne

Lock(p) ==
    /\ At(p, "lock")
    /\ LockFree(p)
    /\ lock' = p
    /\ Goto(p, "discover")
    /\ UNCHANGED <<disk, stable, env, spent, stops, changes>>

\* flock with LOCK_NB: a second invocation is refused, it does not wait.
Refused(p) ==
    /\ At(p, "lock")
    /\ ~LockFree(p)
    /\ End(p)
    /\ UNCHANGED <<disk, stable, env, spent, stops, changes>>

\* Bound: every run directory is taken.
Full == \A r \in Runs : Exists(Folder(r))

\* Config, source, executables, inputs and host are read and hashed.
Discover(p) ==
    /\ At(p, "discover")
    /\ IF (Strict /\ env \notin Clean) \/ (Run(p) = 0 /\ Full)
       THEN End(p)
       ELSE /\ proc' = [proc EXCEPT ![p].start = env,
                                    ![p].pc = IF Run(p) = 0 THEN "make" ELSE "check"]
            /\ UNCHANGED lock
    /\ UNCHANGED <<disk, stable, env, spent, stops, changes>>

-----------------------------------------------------------------------------
(* A new run directory.                                                    *)

MakeFolder(p) ==
    /\ At(p, "make")
    /\ \E r \in Runs :
           /\ ~Exists(Folder(r))
           /\ \A s \in Runs : s < r => Exists(Folder(s))
           /\ Replace(Folder(r), "made")
           /\ proc' = [proc EXCEPT ![p].run = r, ![p].stored = proc[p].start, ![p].pc = "grid"]
    /\ UNCHANGED <<lock, env, spent, stops, changes>>

WriteGrid(p) ==
    /\ At(p, "grid")
    /\ DurableWrite(Grid(Run(p)), proc[p].start)
    /\ Goto(p, "identity")
    /\ UNCHANGED <<lock, env, spent, stops, changes>>

WriteIdentity(p) ==
    /\ At(p, "identity")
    /\ DurableWrite(Identity(Run(p)), proc[p].start)
    /\ Goto(p, "first")
    /\ UNCHANGED <<lock, env, spent, stops, changes>>

FirstCheckpoint(p) ==
    /\ At(p, "first")
    /\ DurableWrite(Checkpoint(Run(p)),
                    [state |-> "running", identity |-> disk[Identity(Run(p))],
                     grid |-> proc[p].start, count |-> 0, ivs |-> <<Opened>>,
                     results |-> Absent])
    /\ proc' = [proc EXCEPT ![p].ivs = <<Opened>>, ![p].pc = "next"]
    /\ UNCHANGED <<lock, env, spent, stops, changes>>

-----------------------------------------------------------------------------
(* Reopening one.                                                          *)

\* Mutant: the stored identity is read and not compared.
Unchecked(p, r) == disk[Identity(r)] # Absent

IdentityMatches(p, r) == disk[Identity(r)] = proc[p].start

\* Mutant: the state of the checkpoint is not looked at.
AcceptsComplete(p, r) ==
    LET c == disk[Checkpoint(r)]
    IN  /\ c # Absent
        /\ c.identity = disk[Identity(r)] /\ IdentityMatches(p, r)
        /\ disk[Identity(r)] \in Clean

\* Mutant: only a run that is still measuring can be resumed.
AcceptsRunning(p, r) ==
    /\ disk[Checkpoint(r)] # Absent
    /\ disk[Checkpoint(r)].state = "running"
    /\ disk[Identity(r)] \in Clean /\ IdentityMatches(p, r)

\* Everything a resume checks before it trusts a run directory.
Accepts(p, r) ==
    LET c == disk[Checkpoint(r)]
    IN  /\ c # Absent
        /\ c.state # "complete"
        /\ c.grid = disk[Grid(r)] /\ c.identity = disk[Identity(r)]
        /\ disk[Identity(r)] \in Clean /\ proc[p].start \in Clean
        /\ IdentityMatches(p, r)
        /\ c.count <= Cardinality(RowsOf(r))
        /\ \A k \in RowsOf(r) : disk[Row(r, k)].interval \in DOMAIN c.ivs

Check(p) ==
    LET r == Run(p)
    IN  /\ At(p, "check")
        /\ IF Accepts(p, r)
           THEN /\ proc' = [proc EXCEPT
                       ![p].stored = disk[Identity(r)],
                       ![p].rows = RowsOf(r),
                       ![p].ivs = Append(Recovered(r, disk[Checkpoint(r)].ivs), Opened),
                       ![p].pc = "reopen"]
                /\ UNCHANGED lock
           ELSE End(p)
        /\ UNCHANGED <<disk, stable, env, spent, stops, changes>>

\* The checkpoint this invocation writes in the given state.
Progress(p, state, ivs) ==
    [disk[Checkpoint(Run(p))] EXCEPT !.state = state, !.count = Cardinality(proc[p].rows),
                                     !.ivs = ivs]

\* Mutant: the new interval is persisted with the first row's progress.
ReopenInMemory(p) ==
    /\ At(p, "reopen")
    /\ Goto(p, "next")
    /\ UNCHANGED <<disk, stable, lock, env, spent, stops, changes>>

\* The new interval is persisted before any row can refer to it.
Reopen(p) ==
    /\ At(p, "reopen")
    /\ DurableWrite(Checkpoint(Run(p)), Progress(p, "running", proc[p].ivs))
    /\ Goto(p, "next")
    /\ UNCHANGED <<lock, env, spent, stops, changes>>

-----------------------------------------------------------------------------
(* Measuring the missing rows.                                             *)

Pending(p) == Keys \ proc[p].rows

Measure(p, k) ==
    /\ At(p, "next")
    /\ k \in Pending(p)
    /\ spent' = [spent EXCEPT ![Run(p)] = @ + 1]
    /\ IF Exists(Row(Run(p), k))
       THEN End(p)
       ELSE /\ proc' = [proc EXCEPT ![p].clock = @ + 1, ![p].key = k, ![p].pc = "row"]
            /\ UNCHANGED lock
    /\ UNCHANGED <<disk, stable, env, stops, changes>>

\* Mutant: the row names the interval before its own.
WriteRowEarly(p) ==
    /\ At(p, "row")
    /\ DurableWrite(Row(Run(p), proc[p].key),
                    [interval |-> Len(proc[p].ivs) - 1, active |-> proc[p].clock,
                     start |-> proc[p].start])
    /\ proc' = [proc EXCEPT ![p].rows = @ \union {proc[p].key}, ![p].pc = "progress"]
    /\ UNCHANGED <<lock, env, spent, stops, changes>>

\* commit_row, first half: the envelope becomes durable.
WriteRow(p) ==
    /\ At(p, "row")
    /\ DurableWrite(Row(Run(p), proc[p].key),
                    [interval |-> Len(proc[p].ivs), active |-> proc[p].clock,
                     start |-> proc[p].start])
    /\ proc' = [proc EXCEPT ![p].rows = @ \union {proc[p].key}, ![p].pc = "progress"]
    /\ UNCHANGED <<lock, env, spent, stops, changes>>

\* commit_row, second half: update_checkpoint.
UpdateProgress(p) ==
    LET ivs == Advanced(proc[p].ivs, proc[p].clock)
    IN  /\ At(p, "progress")
        /\ DurableWrite(Checkpoint(Run(p)), Progress(p, "running", ivs))
        /\ proc' = [proc EXCEPT ![p].ivs = ivs, ![p].key = Absent, ![p].pc = "next"]
        /\ UNCHANGED <<lock, env, spent, stops, changes>>

-----------------------------------------------------------------------------
(* Publishing a complete grid.                                             *)

Finalize(p) ==
    LET ivs == Closed(Advanced(proc[p].ivs, proc[p].clock))
    IN  /\ At(p, "next")
        /\ Pending(p) = {}
        /\ DurableWrite(Checkpoint(Run(p)), Progress(p, "finalizing", ivs))
        /\ proc' = [proc EXCEPT ![p].ivs = ivs, ![p].pc = "recheck"]
        /\ UNCHANGED <<lock, env, spent, stops, changes>>

\* Everything is hashed again and compared with the stored identity; a
\* strict run does not publish without its evidence.
Evidence(p) == env = proc[p].stored /\ env \in Clean

Recheck(p) ==
    /\ At(p, "recheck")
    /\ IF Strict /\ ~Evidence(p)
       THEN End(p)
       ELSE /\ proc' = [proc EXCEPT
                   ![p].doc = [rows |-> [k \in Keys |-> disk[Row(Run(p), k)]],
                               ivs |-> proc[p].ivs, evidence |-> Evidence(p)],
                   ![p].pc = "results"]
            /\ UNCHANGED lock
    /\ UNCHANGED <<disk, stable, env, spent, stops, changes>>

WriteResults(p) ==
    /\ At(p, "results")
    /\ Replace(Results(Run(p)), proc[p].doc)
    /\ Goto(p, "csv")
    /\ UNCHANGED <<lock, env, spent, stops, changes>>

WriteCsv(p) ==
    /\ At(p, "csv")
    /\ Replace(Csv(Run(p)), proc[p].doc.rows)
    /\ Goto(p, "sync")
    /\ UNCHANGED <<lock, env, spent, stops, changes>>

\* Mutant: the run directory is not synced.
SkipSyncRun(p) ==
    /\ At(p, "sync")
    /\ Goto(p, "txt")
    /\ UNCHANGED <<disk, stable, lock, env, spent, stops, changes>>

\* _fsync_directory(run_directory), before anything names the results.
SyncRun(p) ==
    /\ At(p, "sync")
    /\ stable' = Synced(Results(Run(p)), disk)
    /\ Goto(p, "txt")
    /\ UNCHANGED <<disk, lock, env, spent, stops, changes>>

PointTxt(p) ==
    /\ At(p, "txt")
    /\ Replace(LatestTxt, Run(p))
    /\ Goto(p, "json")
    /\ UNCHANGED <<lock, env, spent, stops, changes>>

PointJson(p) ==
    /\ At(p, "json")
    /\ Replace(LatestJson, Run(p))
    /\ Goto(p, "root")
    /\ UNCHANGED <<lock, env, spent, stops, changes>>

\* Mutant: the output root is not synced before the run is marked complete.
SkipSyncRoot(p) ==
    /\ At(p, "root")
    /\ Goto(p, "complete")
    /\ UNCHANGED <<disk, stable, lock, env, spent, stops, changes>>

SyncRoot(p) ==
    /\ At(p, "root")
    /\ stable' = Synced(LatestJson, disk)
    /\ Goto(p, "complete")
    /\ UNCHANGED <<disk, lock, env, spent, stops, changes>>

Complete(p) ==
    /\ At(p, "complete")
    /\ DurableWrite(Checkpoint(Run(p)),
                    [Progress(p, "complete", proc[p].ivs) EXCEPT !.results = disk[Results(Run(p))]])
    /\ End(p)
    /\ UNCHANGED <<env, spent, stops, changes>>

-----------------------------------------------------------------------------
Step(p) ==
    \/ Lock(p) \/ Refused(p) \/ Discover(p)
    \/ MakeFolder(p) \/ WriteGrid(p) \/ WriteIdentity(p) \/ FirstCheckpoint(p)
    \/ Check(p) \/ Reopen(p)
    \/ \E k \in Keys : Measure(p, k)
    \/ WriteRow(p) \/ UpdateProgress(p)
    \/ Finalize(p) \/ Recheck(p) \/ WriteResults(p) \/ WriteCsv(p) \/ SyncRun(p)
    \/ PointTxt(p) \/ PointJson(p) \/ SyncRoot(p) \/ Complete(p)

Next ==
    \/ \E p \in Procs : Step(p) \/ InvokeNew(p) \/ Stop(p)
    \/ \E p \in Procs, r \in Runs : InvokeResume(p, r)
    \/ PowerLoss
    \/ ChangeEnvironment

Spec == Init /\ [][Next]_vars
-----------------------------------------------------------------------------
FilesOK(d) ==
    /\ DOMAIN d = Files
    /\ \A f \in Latest : d[f] \in Runs \union {Absent}
    /\ \A r \in Runs :
           /\ d[Folder(r)] \in {"made", Absent}
           /\ {d[Grid(r)], d[Identity(r)]} \subseteq Envs \union {Absent}
           /\ d[Checkpoint(r)] \in CheckpointValues \union {Absent}
           /\ d[Results(r)] \in Docs \union {Absent}
           /\ d[Csv(r)] \in Tables \union {Absent}
           /\ \A k \in Keys : d[Row(r, k)] \in RowValues \union {Absent}

Steps == {"idle", "lock", "discover", "make", "grid", "identity", "first", "check", "reopen",
          "next", "row", "progress", "recheck", "results", "csv", "sync", "txt", "json", "root",
          "complete"}

\* Every file holds a value of its kind, and every process one state.
TypeOK ==
    /\ FilesOK(disk) /\ FilesOK(stable)
    /\ lock \in Procs \union {NoOne}
    /\ env \in Envs
    /\ proc \in [Procs -> [pc : Steps, run : Runs \union {0}, start : Envs \union {Absent},
                           stored : Envs \union {Absent}, rows : SUBSET Keys,
                           ivs : Seq(Intervals), clock : Nat, key : Keys \union {Absent},
                           doc : Docs \union {Absent}]]
    /\ stops \in 0 .. MaxStops /\ changes \in 0 .. MaxChanges

\* Wherever an invocation was stopped, the directory it left with a
\* checkpoint is one a resume in the same clean environment accepts: the
\* program's own crashes are never mistaken for tampering.
CrashesResumable ==
    \A r \in Runs :
        (lock = NoOne /\ Exists(Checkpoint(r))) =>
            LET c == disk[Checkpoint(r)]
            IN  /\ c.state # "complete" =>
                       \A e \in Clean : disk[Identity(r)] = e =>
                           /\ c.grid = disk[Grid(r)] /\ c.identity = e
                           /\ c.count <= Cardinality(RowsOf(r))
                           /\ \A k \in RowsOf(r) : disk[Row(r, k)].interval \in DOMAIN c.ivs
                /\ c.state # "running" => RowsOf(r) = Keys

\* "one atomic durable file per completed row" (benchmarks/README.md:29):
\* once written, a row is never measured again, replaced or lost, whatever
\* other invocations do and wherever they or the machine stop.
RowsAreFinal ==
    [][\A r \in Runs, k \in Keys : Exists(Row(r, k)) => disk'[Row(r, k)] = disk[Row(r, k)]]_vars

\* "latest.* are published only after every key in the expected grid has
\* exactly one row" (benchmarks/README.md:35): a pointer, also one a power
\* failure preserved, names a run whose results and table are both there
\* and hold exactly the durable rows of the grid.
PointersNameWholeResults ==
    \A f \in Latest : Exists(f) =>
        LET r == disk[f]
        IN  /\ RowsOf(r) = Keys
            /\ Exists(Results(r)) /\ Exists(Csv(r))
            /\ disk[Results(r)].rows = [k \in Keys |-> disk[Row(r, k)]]
            /\ disk[Csv(r)] = disk[Results(r)].rows

\* Results that claim publication evidence hold only rows measured by
\* invocations that started in the recorded clean environment.
EvidenceCoversEveryRow ==
    \A r \in Runs : (Exists(Results(r)) /\ disk[Results(r)].evidence) =>
        /\ disk[Identity(r)] \in Clean
        /\ \A k \in Keys : disk[Results(r)].rows[k].start = disk[Identity(r)]

Total(times) ==
    LET sum[i \in 0 .. Len(times)] == IF i = 0 THEN 0 ELSE sum[i - 1] + times[i]
    IN  sum[Len(times)]

TotalActive(ivs) == Total([i \in DOMAIN ivs |-> ivs[i].active])

\* The active time results report is never more than was spent measuring,
\* and never less than the rows of every interval prove, resumes included.
ActiveTimeIsHonest ==
    \A r \in Runs : Exists(Results(r)) =>
        LET ivs == disk[Results(r)].ivs
        IN  /\ TotalActive(ivs) <= spent[r]
            /\ \A k \in Keys : disk[Row(r, k)].active <= ivs[disk[Row(r, k)].interval].active

\* A run marked complete is evidence: its files never change again, and the
\* digest in its checkpoint is that of its results.
CompleteIsFrozen ==
    [][\A r \in Runs :
           (Exists(Checkpoint(r)) /\ disk[Checkpoint(r)].state = "complete") =>
               \A f \in RunFiles(r) \union RowFiles(r) : disk'[f] = disk[f]]_vars

-----------------------------------------------------------------------------
(* The abstract campaigns: rows and completion as programs see them, the   *)
(* pointer as it is known to last.                                         *)

Abstract == INSTANCE Campaigns WITH
    None <- Absent,
    rows <- [r \in Runs |-> RowsOf(r)],
    done <- {r \in Runs : Exists(Checkpoint(r)) /\ disk[Checkpoint(r)].state = "complete"},
    latest <- stable[LatestJson]

\* Stopped, resumed and concurrent invocations implement the abstract root.
ImplementsCampaigns == Abstract!Spec

-----------------------------------------------------------------------------
(* Scheduling: a running invocation takes its steps, and the operator      *)
(* resumes every run that has a checkpoint.                                *)

FairSpec ==
    /\ Spec
    /\ \A p \in Procs : WF_vars(Step(p))
    /\ \A r \in Runs : SF_vars(\E p \in Procs : lock = NoOne /\ InvokeResume(p, r))

\* A run with a checkpoint completes if its environment stays what it was,
\* one operator is left and resumes it as often as it is stopped.
CampaignsComplete ==
    \A r \in Runs, p \in Procs :
        (<>[](/\ Exists(Checkpoint(r)) /\ env = disk[Identity(r)] /\ env \in Clean
              /\ \A q \in Procs \ {p} : At(q, "idle")))
            => <>(Exists(Checkpoint(r)) /\ disk[Checkpoint(r)].state = "complete")

\* An invocation that is stopped anywhere leaves a directory of known files
\* that the next one can take up.
StopsAreResumable == TypeOK /\ CrashesResumable

\* What is evidence does not change: a row once it is written, every file of
\* a run once its checkpoint says complete.
EvidenceIsFinal == RowsAreFinal /\ CompleteIsFrozen
=============================================================================
