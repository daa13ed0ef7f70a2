------------------------------ MODULE TrialProofs ------------------------------
(***************************************************************************)
(* What the evidence run shows of the commands, of the trials, of the      *)
(* summary table, of the dominance certificates and of the paired table.   *)
(*                                                                         *)
(* Commands: what it shows for one helper and one daemon holds for every   *)
(* set of helpers and every set of daemons.                                *)
(*                                                                         *)
(* Trials: what it shows for two trials, two contents and two sizes holds  *)
(* for any number of trials of a cell, all contents, sizes, limits and     *)
(* answers of the inspection: a row never says more than its trial.  The   *)
(* invariant relates every row to the first hash of the cell (known); that *)
(* a row satisfies the schema follows path by path through the trial.      *)
(*                                                                         *)
(* Table and certificates: what it shows for two codecs, two files and     *)
(* three repetitions, and for the evidence of four configurations, holds   *)
(* for every schedule, every outcome and all evidence.  The trials         *)
(* written before an interruption are the first of the schedule (IsLog),   *)
(* so the repetitions of a cell have no gap; sums and medians are related  *)
(* to their parts by induction over the subsets of a finite set.           *)
(*                                                                         *)
(* Pairs: what it shows for two files and three repetitions holds for any  *)
(* files, repetitions and outcomes.  A complete protocol is a run that is  *)
(* whole (Whole), so sizes repeat (Sized) and totals are sums of sums.     *)
(***************************************************************************)
EXTENDS TimedCommand, TrialPipeline, DominanceAnalysis, AblationAnalysis,
        SequenceTheorems, FiniteSetTheorems, WellFoundedInduction, TLAPS

-------------------------------------------------------------------------------
(* Commands under a timeout.                                               *)


Codes == {"none", "ok", "fail", "killed"}

\* Until the caller has waited for the child it is running or a zombie, which
\* keeps its number; it has a status once it no longer runs, and none but the
\* caller's own kill makes it "killed".
ChildInv ==
  /\ proc[Leader] \in {"running", "zombie", "gone"}
  /\ pc \notin {"returned", "raised"} => proc[Leader] # "gone"
  /\ Running(Leader) <=> status = "none"
  /\ pc \in {"waiting", "expired", "interrupted"} => status # "killed"

\* A number that went to a stranger had no process left in its group.
PidInv == pid # Leader => ~GroupExists

\* After a kill nothing of the group runs, and a dead group forks nothing.
KillInv ==
  \/ pc \in {"reaping", "abandoning"}
  \/ pc = "returned" /\ timedOut
  \/ pc = "raised" /\ KillsOnInterrupt
  => \A p \in Group : ~Running(p)

\* timed_out is set by the expired wait alone.
TimeoutInv ==
  /\ pc \in {"expired", "reaping"} => timedOut
  /\ pc \in {"waiting", "interrupted", "abandoning"} => ~timedOut
  /\ timedOut => late
  /\ pc = "interrupted" => KillsOnInterrupt

\* A call that returned without a timeout waited for a child that had ended.
FinishInv ==
  pc = "returned" =>
    /\ proc[Leader] = "gone"
    /\ ~timedOut => status # "killed"
    /\ ~timedOut /\ ReadsPipes => writers = {}

IInv ==
  /\ TypeOK /\ "stranger" \notin struck
  /\ ChildInv /\ PidInv /\ KillInv /\ TimeoutInv /\ FinishInv

USE DEF Leader

LEMMA LeaderIsAProcess ==
  /\ Leader \in Group /\ Leader \in Procs /\ Group \subseteq Procs
  /\ Group = Procs \ Daemons
  /\ \A c \in Helpers : c # Leader
  BY ProcessesDiffer DEF Group, Procs

-------------------------------------------------------------------------------

\* While the call has not ended its group exists, so that the number is its own.
LEMMA WaitedForExists ==
  ASSUME IInv, pc \notin {"returned", "raised"}
  PROVE  GroupExists /\ pid = Leader
  BY LeaderIsAProcess DEF IInv, ChildInv, PidInv, GroupExists

LEMMA InitIInv == Init => IInv
  BY LeaderIsAProcess
  DEF Init, IInv, TypeOK, ChildInv, PidInv, KillInv, TimeoutInv, FinishInv,
      GroupExists, Running, KillsOnInterrupt, ReadsPipes, Runners

LEMMA ForkIInv ==
  ASSUME IInv, NEW p \in Procs, NEW c \in Procs \ {Leader}, Fork(p, c)
  PROVE  IInv'
  <1> USE LeaderIsAProcess DEF IInv, Fork, Running, caller
  <1>1. TypeOK' BY DEF TypeOK
  <1>2. proc'[Leader] = proc[Leader]
    BY DEF TypeOK
  <1>3. ChildInv' BY <1>2 DEF ChildInv
  <1>4. \A q \in Group : Running(q)' => \E r \in Group : Running(r)
    BY DEF TypeOK, Group, Procs
  <1>5. PidInv' BY <1>4 DEF PidInv, GroupExists, TypeOK
  <1>6. KillInv' BY <1>4 DEF KillInv, KillsOnInterrupt
  <1>7. TimeoutInv' BY DEF TimeoutInv, KillsOnInterrupt
  <1>8. FinishInv' BY <1>2 DEF FinishInv, ReadsPipes
  <1> QED BY <1>1, <1>3, <1>5, <1>6, <1>7, <1>8

LEMMA CloseIInv ==
  ASSUME IInv, NEW p \in Procs, CloseOutput(p)
  PROVE  IInv'
  BY DEF IInv, CloseOutput, Running, caller, TypeOK, ChildInv, PidInv,
         GroupExists, KillInv, KillsOnInterrupt, TimeoutInv, FinishInv, ReadsPipes

LEMMA ExitIInv ==
  ASSUME IInv, NEW p \in Procs, NEW code \in {"ok", "fail"}, Exit(p, code)
  PROVE  IInv'
  <1> USE LeaderIsAProcess DEF IInv, Exit, Running, caller
  <1>1. TypeOK' BY DEF TypeOK
  <1>2. ChildInv' BY DEF ChildInv, TypeOK
  <1>3. \A q \in Procs : proc'[q] # proc[q] => proc[q] = "running" /\ proc'[q] # "running"
    BY DEF TypeOK
  <1>4. PidInv' BY <1>3 DEF PidInv, GroupExists, TypeOK
  <1>5. KillInv' BY <1>3 DEF KillInv, KillsOnInterrupt
  <1>6. TimeoutInv' BY DEF TimeoutInv, KillsOnInterrupt
  <1>7. FinishInv' BY <1>3 DEF FinishInv, ReadsPipes
  <1> QED BY <1>1, <1>2, <1>4, <1>5, <1>6, <1>7

LEMMA RecycleIInv ==
  ASSUME IInv, RecyclePid
  PROVE  IInv'
  BY DEF IInv, RecyclePid, Running, caller, TypeOK, ChildInv, PidInv,
         GroupExists, KillInv, KillsOnInterrupt, TimeoutInv, FinishInv, ReadsPipes

LEMMA ElapseIInv ==
  ASSUME IInv, Elapse
  PROVE  IInv'
  BY DEF IInv, Elapse, Running, caller, kernel, TypeOK, ChildInv, PidInv,
         GroupExists, KillInv, KillsOnInterrupt, TimeoutInv, FinishInv, ReadsPipes

-------------------------------------------------------------------------------
(* The caller.                                                             *)

LEMMA FinishIInv ==
  ASSUME IInv, Finish
  PROVE  IInv'
  <1> USE LeaderIsAProcess DEF IInv, Finish, Reap, Waitable, Running
  <1>1. TypeOK' BY DEF TypeOK
  <1>2. ChildInv' BY DEF ChildInv, TypeOK
  <1>3. PidInv' BY DEF PidInv, GroupExists, TypeOK
  <1>4. KillInv' BY DEF KillInv, KillsOnInterrupt, TimeoutInv
  <1>5. TimeoutInv' BY DEF TimeoutInv, KillsOnInterrupt
  <1>6. FinishInv' BY DEF FinishInv, ReadsPipes, TypeOK, ChildInv
  <1> QED BY <1>1, <1>2, <1>3, <1>4, <1>5, <1>6

LEMMA ExpireIInv ==
  ASSUME IInv, Expire
  PROVE  IInv'
  BY DEF IInv, Expire, Running, kernel, TypeOK, ChildInv, PidInv,
         GroupExists, KillInv, KillsOnInterrupt, TimeoutInv, FinishInv, ReadsPipes

LEMMA InterruptIInv ==
  ASSUME IInv, Interrupt
  PROVE  IInv'
  <1> USE DEF IInv, Interrupt, Running, kernel, KillsOnInterrupt
  <1>1. TypeOK' BY DEF TypeOK
  <1>2. ChildInv' /\ PidInv' /\ KillInv' /\ FinishInv'
    BY DEF ChildInv, PidInv, GroupExists, KillInv, FinishInv, ReadsPipes
  <1>3. TimeoutInv' BY DEF TimeoutInv
  <1> QED BY <1>1, <1>2, <1>3

\* os.killpg finds the group, whatever the child does at that moment.
LEMMA KillIInv ==
  ASSUME IInv, Kill
  PROVE  IInv'
  <1> USE LeaderIsAProcess DEF IInv, Running
  <1>1. GroupExists /\ pid = Leader
    BY WaitedForExists DEF Kill
  <1> DEFINE hit == {p \in Group : Running(p)}
  <1>2. /\ proc' = [p \in Procs |-> IF p \notin hit THEN proc[p]
                                    ELSE IF p = Leader THEN "zombie" ELSE "gone"]
        /\ writers' = writers \ hit
        /\ status' = IF Leader \in hit THEN "killed" ELSE status
        /\ struck' = struck \cup hit
        /\ pc' = IF pc = "expired" THEN "reaping" ELSE "abandoning"
        /\ UNCHANGED <<runner, pid, late, timedOut>>
    BY <1>1 DEF Kill, KillGroup
  <1>3. hit \subseteq Group
    OBVIOUS
  <1>4. TypeOK' BY <1>2, <1>3 DEF TypeOK
  <1>5. "stranger" \notin struck'
    BY <1>2, ProcessesDiffer DEF Group
  <1>6. ChildInv' BY <1>2 DEF ChildInv, TypeOK, Kill
  <1>7. PidInv' BY <1>1, <1>2 DEF PidInv
  <1>8. \A p \in Group : ~Running(p)'
    BY <1>2
  <1>9. KillInv' BY <1>8 DEF KillInv, KillsOnInterrupt
  <1>10. TimeoutInv' BY <1>2 DEF TimeoutInv, KillsOnInterrupt, Kill
  <1>11. FinishInv' BY <1>2 DEF FinishInv, Kill
  <1> QED BY <1>4, <1>5, <1>6, <1>7, <1>9, <1>10, <1>11

LEMMA ReapIInv ==
  ASSUME IInv, ReapKilled
  PROVE  IInv'
  <1> USE LeaderIsAProcess DEF IInv, ReapKilled, Reap, Waitable, Running
  <1>1. TypeOK' BY DEF TypeOK
  <1>2. ChildInv' BY DEF ChildInv, TypeOK
  <1>3. PidInv' BY DEF PidInv, GroupExists, TypeOK
  <1>4. KillInv' BY DEF KillInv, KillsOnInterrupt, TypeOK
  <1>5. TimeoutInv' BY DEF TimeoutInv, KillsOnInterrupt
  <1>6. FinishInv' BY DEF FinishInv, TimeoutInv, TypeOK
  <1> QED BY <1>1, <1>2, <1>3, <1>4, <1>5, <1>6

-------------------------------------------------------------------------------

LEMMA StepIInv == IInv /\ [Next]_vars => IInv'
  <1> SUFFICES ASSUME IInv, [Next]_vars PROVE IInv'
    OBVIOUS
  <1>1. CASE Descendants
    BY <1>1, ForkIInv, CloseIInv, ExitIInv DEF Descendants
  <1>2. CASE RecyclePid BY <1>2, RecycleIInv
  <1>3. CASE Elapse BY <1>3, ElapseIInv
  <1>4. CASE Interrupt BY <1>4, InterruptIInv
  <1>5. CASE Call
    BY <1>5, FinishIInv, ExpireIInv, KillIInv, ReapIInv DEF Call
  <1>6. CASE UNCHANGED vars
    BY <1>6 DEF vars, IInv, Running, TypeOK, ChildInv, PidInv, GroupExists, KillInv,
                KillsOnInterrupt, TimeoutInv, FinishInv, ReadsPipes
  <1> QED BY <1>1, <1>2, <1>3, <1>4, <1>5, <1>6 DEF Next

LEMMA IInvIsHonest == IInv => CallsAreHonest
  <1> SUFFICES ASSUME IInv PROVE CallsAreHonest
    OBVIOUS
  <1>1. TypeOK BY DEF IInv
  <1>2. KillHitsOwnGroup
    BY WaitedForExists DEF KillHitsOwnGroup, IInv
  <1>3. NothingOutlivesTheCall
    BY DEF NothingOutlivesTheCall, IInv, KillInv
  <1>4. VerdictIsHonest
    BY DEF VerdictIsHonest, Verdict, IInv, TypeOK, ChildInv, FinishInv, TimeoutInv, Running
  <1> QED BY <1>1, <1>2, <1>3, <1>4 DEF CallsAreHonest

\* Every call of the five functions is honest, whatever the command forks and
\* however many processes it forks (process.py:107, runner.py:1239).
THEOREM SafeCalls == Spec => []CallsAreHonest
  <1>1. Init => IInv BY InitIInv
  <1>2. IInv /\ [Next]_vars => IInv' BY StepIInv
  <1>3. IInv => CallsAreHonest BY IInvIsHonest
  <1> QED BY <1>1, <1>2, <1>3, PTL DEF Spec

-------------------------------------------------------------------------------
(* Trials.                                                                 *)

\* The fields of a row have their types.
Row(r) ==
  /\ r.status \in {"ok", "failed", "timeout", "unavailable"}
  /\ r.hash \in {""} \cup ArchiveHashes
  /\ r.archive \in Optional
  /\ r.restored \in {"", "input", "other"}
  /\ r.breakdown.saved \in Int /\ r.breakdown.saved >= Blank
  /\ r.breakdown.penalty \in Int /\ r.breakdown.penalty >= Blank

\* AttributionAddsUp of one row.
Adds(r) ==
  r.native /\ r.status = "ok" =>
    LET b == r.breakdown
    IN  /\ b.wire = r.archive
        /\ b.preEntropy # Blank => b.saved - b.penalty = b.preEntropy - r.archive
        /\ b.preEntropy = Blank => b.saved = Blank /\ b.penalty = Blank

Good(r) == Row(r) /\ Validate(r) /\ Adds(r)

\* A scenario that was drawn.
World(s) ==
  /\ s.native \in BOOLEAN /\ s.payload \in BOOLEAN /\ s.executable \in BOOLEAN
  /\ s.encode \in {"ok", "fail", "timeout", "unmeasured"}
  /\ s.archive \in {"file", "missing"}
  /\ s.hash \in ArchiveHashes /\ s.size \in Sizes
  /\ s.decode \in {"ok", "fail", "timeout", "unmeasured"}
  /\ s.restored \in {"input", "other", "missing"}
  /\ s.inspect \in Attributed

\* A row of a trial that ended early, or of a refused attribution.
Failed(r) ==
  /\ r.status \in {"failed", "timeout", "unavailable"}
  /\ r.hash \in {""} \cup ArchiveHashes /\ r.archive \in Optional
  /\ r.restored \in {"", "input", "other"}
  /\ r.error /\ r.breakdown = NoBreakdown
  /\ r.roundtrip => r.status = "failed" /\ r.restored = "input"

\* A failure satisfies the schema (_failure_record, TrialRecord.validate).
LEMMA FailedIsGood ==
  ASSUME NEW r, Failed(r)
  PROVE  Good(r) /\ r.status # "ok"
  <1>1. r.breakdown.saved = Blank /\ r.breakdown.penalty = Blank
    <2>1. r.breakdown = NoBreakdown
      BY DEF Failed
    <2>2. NoBreakdown.saved = Blank /\ NoBreakdown.penalty = Blank
      BY DEF NoBreakdown
    <2> QED BY <2>1, <2>2
  <1>a. Blank \in Int /\ Blank >= Blank
    BY DEF Blank
  <1>2. Row(r)
    BY <1>1, <1>a DEF Failed, Row
  <1>3. Validate(r)
    BY DEF Failed, Validate, ValidFailure, ValidNative
  <1> QED BY <1>2, <1>3 DEF Failed, Good, Adds

\* What a trial leaves without a hash that is compared.
Unhashed(r) == Failed(r) /\ ~r.deterministic /\ ~r.roundtrip /\ r.decompression = Unmeasured

\* Nothing that fails before its archive is hashed is compared with others.
LEMMA EarlyFailure ==
  ASSUME NEW s, World(s), ~Hashed(s)
  PROVE  Unhashed(AfterCompression(s))
  <1> DEFINE r == AfterCompression(s)
  <1>0. Base(s).hash = "" /\ Base(s).archive = Blank /\ Blank \in Optional /\ s.size \in Optional
    BY DEF Base, Optional, Amounts, World
  <1>1. CASE ~s.payload
    <2>1. r = Failure(Base(s), "failed")
      BY <1>1 DEF AfterCompression, Started
    <2> QED BY <2>1, <1>0 DEF Unhashed, Failed, Failure, Base
  <1>2. CASE s.payload /\ ~s.executable
    <2>1. r = Failure(Base(s), "unavailable")
      BY <1>2 DEF AfterCompression, Started
    <2> QED BY <2>1, <1>0 DEF Unhashed, Failed, Failure, Base
  <1>3. CASE Started(s) /\ s.encode = "timeout"
    <2>1. r = Failure([Base(s) EXCEPT !.compression = TimedOut], "timeout")
      BY <1>3 DEF AfterCompression, Started
    <2> QED BY <2>1, <1>0 DEF Unhashed, Failed, Failure, Base
  <1>4. CASE Started(s) /\ s.encode = "fail"
    <2>1. r = Failure([Base(s) EXCEPT !.compression = Measured], "failed")
      BY <1>4 DEF AfterCompression, Started
    <2> QED BY <2>1, <1>0 DEF Unhashed, Failed, Failure, Base
  <1>5. CASE Started(s) /\ s.encode = "unmeasured"
    <2>1. r = Failure(Base(s), "failed")
      BY <1>5 DEF AfterCompression, Started
    <2> QED BY <2>1, <1>0 DEF Unhashed, Failed, Failure, Base
  <1>6. CASE Started(s) /\ s.encode = "ok" /\ s.archive = "missing"
    <2>1. r = Failure([Base(s) EXCEPT !.compression = Measured], "failed")
      BY <1>6 DEF AfterCompression, Started
    <2> QED BY <2>1, <1>0 DEF Unhashed, Failed, Failure, Base
  <1>7. CASE Started(s) /\ s.encode = "ok" /\ s.archive # "missing"
    <2>1. r = Failure([Base(s) EXCEPT !.compression = Measured, !.archive = s.size,
                                      !.hash = s.hash], "failed")
      BY <1>7 DEF AfterCompression, Started
    <2> QED BY <2>1, <1>0 DEF Unhashed, Failed, Failure, Base, World
  <1> QED BY <1>1, <1>2, <1>3, <1>4, <1>5, <1>6, <1>7 DEF World, Started

\* A row of a hashed archive: its hash is compared, whatever comes after.
Compared(r, s, k) ==
  r.hash = s.hash /\ r.deterministic = SameAsFirst(k, s)

\* A trial that fails after it keeps the flag and claims no round trip.
LEMMA LateFailure ==
  ASSUME NEW s, World(s), Hashed(s), NEW k,
         s.decode # "ok" \/ s.restored # "input",
         NEW r, r = AfterDecompression(s, Archived(s, k))
  PROVE  Failed(r) /\ Compared(r, s, k) /\ ~r.roundtrip
  <1>1. s.size \in Optional /\ s.hash \in ArchiveHashes
    BY DEF Optional, Amounts, World
  <1>2. CASE s.decode = "timeout"
    <2>1. r = Failure([Archived(s, k) EXCEPT !.decompression = TimedOut], "timeout")
      BY <1>2 DEF AfterDecompression
    <2> QED BY <2>1, <1>1 DEF Failed, Failure, Compared, Archived, Base
  <1>3. CASE s.decode = "fail"
    <2>1. r = Failure([Archived(s, k) EXCEPT !.decompression = Measured], "failed")
      BY <1>3 DEF AfterDecompression
    <2> QED BY <2>1, <1>1 DEF Failed, Failure, Compared, Archived, Base
  <1>4. CASE s.decode = "unmeasured"
    <2>1. r = Failure(Archived(s, k), "failed")
      BY <1>4 DEF AfterDecompression
    <2> QED BY <2>1, <1>1 DEF Failed, Failure, Compared, Archived, Base
  <1>5. CASE s.decode = "ok" /\ s.restored = "missing"
    <2>1. r = Failure([Archived(s, k) EXCEPT !.decompression = Measured], "failed")
      BY <1>5 DEF AfterDecompression
    <2> QED BY <2>1, <1>1 DEF Failed, Failure, Compared, Archived, Base
  <1>6. CASE s.decode = "ok" /\ s.restored = "other"
    <2>1. r = Failure([Archived(s, k) EXCEPT !.decompression = Measured, !.restored = s.restored],
                      "failed")
      BY <1>6 DEF AfterDecompression
    <2> QED BY <2>1, <1>1, <1>6 DEF Failed, Failure, Compared, Archived, Base
  <1> QED BY <1>2, <1>3, <1>4, <1>5, <1>6 DEF World

-----------------------------------------------------------------------------
(* The rows of a restored input.                                           *)

Restored(s) == Hashed(s) /\ s.decode = "ok" /\ s.restored = "input"

\* Of a gain and a loss at least one is zero.
LEMMA HigherOf ==
  ASSUME NEW a \in Int, NEW b \in Int
  PROVE  Higher(a - b, 0) \in Nat /\ Higher(a - b, 0) - Higher(b - a, 0) = a - b
  BY DEF Higher

\* _native_breakdown: an accepted attribution is that of the archive.
LEMMA BreakdownIsExact ==
  ASSUME NEW i, i \in Attributed, NEW size, size \in Sizes,
         BreakdownAccepted(i, size)
  PROVE  LET b == Breakdown(i, size)
         IN  /\ i \in Inspections /\ i.verified
             /\ b.wire = size /\ b.covered = OriginalBytes
             /\ b.preEntropy = Blank => b.saved = Blank /\ b.penalty = Blank
             /\ b.preEntropy # Blank =>
                  /\ b.saved \in Nat /\ b.penalty \in Nat
                  /\ b.saved = Higher(b.preEntropy - size, 0)
                  /\ b.penalty = Higher(size - b.preEntropy, 0)
                  /\ b.saved - b.penalty = b.preEntropy - size
  <1> DEFINE b == Breakdown(i, size)
  <1>1. i \in Inspections
    BY DEF BreakdownAccepted, Attributed, Refused
  <1>2. i.verified /\ i.wire = size /\ i.covered = OriginalBytes
    BY DEF BreakdownAccepted, Invariants
  <1>3. /\ b.wire = i.wire /\ b.covered = i.covered /\ b.preEntropy = i.preEntropy
        /\ b.saved = IF i.preEntropy = Blank THEN Blank ELSE Higher(i.preEntropy - size, 0)
        /\ b.penalty = IF i.preEntropy = Blank THEN Blank ELSE Higher(size - i.preEntropy, 0)
    BY DEF Breakdown
  <1>4. size \in Int /\ (i.preEntropy # Blank => i.preEntropy \in Int)
    <2>1. i.preEntropy \in Optional
      BY <1>1 DEF Inspections
    <2>2. Sizes \subseteq Nat
      BY InputsAssumption
    <2>3. i.preEntropy \in Sizes \/ i.preEntropy = 0 \/ i.preEntropy = Blank
      BY <2>1 DEF Optional, Amounts
    <2>4. size \in Int
      BY <2>2
    <2>5. \A x \in Sizes : x \in Int
      BY <2>2
    <2>6. CASE i.preEntropy \in Sizes
      BY <2>4, <2>5, <2>6
    <2>7. CASE i.preEntropy = 0
      BY <2>4, <2>7
    <2>8. CASE i.preEntropy = Blank
      BY <2>4, <2>8
    <2> QED BY <2>3, <2>6, <2>7, <2>8
  <1> HIDE DEF b
  <1>5. CASE i.preEntropy = Blank
    BY <1>1, <1>2, <1>3, <1>5 DEF b
  <1>6. CASE i.preEntropy # Blank
    <2>1. i.preEntropy \in Int
      BY <1>4, <1>6
    <2>2. /\ Higher(i.preEntropy - size, 0) \in Nat
          /\ Higher(i.preEntropy - size, 0) - Higher(size - i.preEntropy, 0)
               = i.preEntropy - size
          /\ Higher(size - i.preEntropy, 0) \in Nat
      BY <1>4, <2>1, HigherOf
    <2> QED BY <1>1, <1>2, <1>3, <1>6, <2>2 DEF b
  <1> QED BY <1>5, <1>6

\* A trial that restored its input.
LEMMA RestoredRow ==
  ASSUME NEW s, World(s), Restored(s), NEW k,
         NEW r, r = ExecuteTrial(s, k)
  PROVE  /\ Good(r) /\ Compared(r, s, k) /\ r.roundtrip
         /\ r.status = "ok" <=> (s.native => BreakdownAccepted(s.inspect, s.size))
  <1> DEFINE w == Verified(s, Archived(s, k))
             b == Breakdown(s.inspect, s.size)
  <1>1. /\ s.executable = TRUE /\ s.restored = "input" /\ s.size \in Optional
        /\ s.hash \in ArchiveHashes /\ s.hash # "" /\ s.size # Blank /\ s.native \in BOOLEAN
    <2>1. s.size \in Nat
      BY InputsAssumption DEF World
    <2>2. s.size # Blank /\ s.size \in Optional
      BY <2>1 DEF World, Optional, Amounts, Blank
    <2>3. s.executable = TRUE /\ s.restored = "input"
      BY DEF Restored, Hashed, Started, World
    <2>4. s.hash \in ArchiveHashes /\ s.hash # "" /\ s.native \in BOOLEAN
      BY InputsAssumption DEF World
    <2> QED BY <2>2, <2>3, <2>4
  <1>2. CASE ~s.native
    <2>1. r = [w EXCEPT !.status = "ok"]
      BY <1>2 DEF ExecuteTrial, Restored
    <2>2. /\ r.status = "ok" /\ r.error = FALSE /\ r.native = s.native /\ r.executable = TRUE
          /\ r.archive = s.size /\ r.hash = s.hash /\ r.restored = "input"
          /\ r.roundtrip = TRUE /\ r.deterministic = SameAsFirst(k, s)
          /\ r.compression = Measured /\ r.decompression = Measured
          /\ r.breakdown = NoBreakdown
      BY <2>1, <1>1 DEF Verified, Archived, Base
    <2>3. /\ NoBreakdown.saved = Blank /\ NoBreakdown.penalty = Blank
          /\ Blank \in Int /\ Blank >= Blank
      BY DEF NoBreakdown, Blank
    <2>4. Row(r)
      BY <2>2, <2>3, <1>1 DEF Row
    <2>5. Validate(r)
      BY <2>2, <1>1, <1>2 DEF Validate, ValidOk
    <2> QED BY <2>2, <2>4, <2>5, <1>2 DEF Good, Adds, Compared
  <1>3. CASE s.native /\ BreakdownAccepted(s.inspect, s.size)
    <2>1. r = [w EXCEPT !.status = "ok", !.breakdown = b]
      BY <1>3 DEF ExecuteTrial, Restored
    <2>2. /\ r.status = "ok" /\ r.error = FALSE /\ r.native = s.native /\ r.executable = TRUE
          /\ r.archive = s.size /\ r.hash = s.hash /\ r.restored = "input"
          /\ r.roundtrip = TRUE /\ r.deterministic = SameAsFirst(k, s)
          /\ r.compression = Measured /\ r.decompression = Measured
          /\ r.breakdown = b
      BY <2>1, <1>1 DEF Verified, Archived, Base
    <2>3. /\ b.wire = s.size /\ b.covered = OriginalBytes
          /\ b.preEntropy = Blank => b.saved = Blank /\ b.penalty = Blank
          /\ b.preEntropy # Blank =>
               /\ b.saved \in Nat /\ b.penalty \in Nat
               /\ b.saved = Higher(b.preEntropy - s.size, 0)
               /\ b.penalty = Higher(s.size - b.preEntropy, 0)
               /\ b.saved - b.penalty = b.preEntropy - s.size
      <3>1. s.inspect \in Attributed /\ s.size \in Sizes
        BY DEF World
      <3> QED BY <3>1, <1>3, BreakdownIsExact
    <2> HIDE DEF b
    <2>4. /\ b.saved \in Int /\ b.saved >= Blank
          /\ b.penalty \in Int /\ b.penalty >= Blank
      BY <2>3 DEF Blank
    <2>5. Row(r)
      BY <2>2, <2>4, <1>1 DEF Row
    <2>6. Validate(r)
      <3>1. ValidOk(r)
        BY <2>2, <1>1 DEF ValidOk
      <3>2. ValidNative(r)
        BY <2>2, <2>3 DEF ValidNative
      <3> QED BY <3>1, <3>2, <2>2, <1>3 DEF Validate
    <2>7. Adds(r)
      BY <2>2, <2>3 DEF Adds
    <2> QED BY <2>2, <2>5, <2>6, <2>7, <1>3 DEF Good, Compared
  <1>4. CASE s.native /\ ~BreakdownAccepted(s.inspect, s.size)
    <2>1. r = Failure(w, "failed")
      BY <1>4 DEF ExecuteTrial, Restored
    <2>2. Failed(r) /\ r.hash = s.hash /\ r.deterministic = SameAsFirst(k, s) /\ r.roundtrip = TRUE
      BY <2>1, <1>1 DEF Failed, Failure, Verified, Archived, Base
    <2>3. Good(r) /\ r.status # "ok"
      BY <2>2, FailedIsGood
    <2> QED BY <2>2, <2>3, <1>4 DEF Compared
  <1> QED BY <1>1, <1>2, <1>3, <1>4

\* What every trial leaves.
LEMMA TrialRow ==
  ASSUME NEW s, World(s), NEW k, NEW r, r = ExecuteTrial(s, k)
  PROVE  /\ Good(r)
         /\ r.roundtrip <=> Restored(s)
         /\ r.status = "ok" <=>
              Restored(s) /\ (s.native => BreakdownAccepted(s.inspect, s.size))
         /\ IF Hashed(s) THEN Compared(r, s, k)
            ELSE ~r.deterministic /\ r.decompression = Unmeasured
  <1>1. CASE ~Hashed(s)
    <2>1. r = AfterCompression(s)
      BY <1>1 DEF ExecuteTrial
    <2>2. Unhashed(r)
      BY <1>1, <2>1, EarlyFailure
    <2>3. Failed(r) /\ ~r.deterministic /\ ~r.roundtrip /\ r.decompression = Unmeasured
      BY <2>2 DEF Unhashed
    <2>4. Good(r) /\ r.status # "ok"
      BY <2>3, FailedIsGood
    <2> QED BY <2>3, <2>4, <1>1 DEF Restored
  <1>2. CASE Hashed(s) /\ ~Restored(s)
    <2>1. s.decode # "ok" \/ s.restored # "input"
      BY <1>2 DEF Restored
    <2>2. r = AfterDecompression(s, Archived(s, k))
      BY <1>2, <2>1 DEF ExecuteTrial
    <2>3. Failed(r) /\ Compared(r, s, k) /\ ~r.roundtrip
      BY <1>2, <2>1, <2>2, LateFailure
    <2>4. Good(r) /\ r.status # "ok"
      BY <2>3, FailedIsGood
    <2> QED BY <2>3, <2>4, <1>2
  <1>3. CASE Restored(s)
    <2>1. /\ Good(r) /\ Compared(r, s, k) /\ r.roundtrip
          /\ r.status = "ok" <=> (s.native => BreakdownAccepted(s.inspect, s.size))
      BY <1>3, RestoredRow
    <2>2. Hashed(s)
      BY <1>3 DEF Restored
    <2> QED BY <1>3, <2>1, <2>2
  <1> QED BY <1>1, <1>2, <1>3

-----------------------------------------------------------------------------
(* The inductive invariant.                                                *)

\* A deterministic row has the first archive's hash; a row of that archive
\* whose decompressor ran is deterministic; before the first archive is
\* hashed there is nothing to compare.
Flagged(r, k) ==
  /\ r.deterministic => k # "" /\ r.hash = k
  /\ k # "" /\ r.hash = k /\ r.decompression # Unmeasured => r.deterministic
  /\ k = "" => r.decompression = Unmeasured

RowsInv ==
  /\ known \in {""} \cup ArchiveHashes
  /\ scenario = NoScenario \/ World(scenario)
  /\ \E S : rows \in Seq(S)
  /\ Len(rows) <= Trials
  /\ scenario # NoScenario => Len(rows) < Trials
  /\ \A n \in DOMAIN rows : Good(rows[n]) /\ Flagged(rows[n], known)

\* No rows, nothing known.
LEMMA RowsInit ==
  ASSUME TrialInit
  PROVE  RowsInv
  <1>1. rows = << >> /\ known = "" /\ scenario = NoScenario
    BY DEF TrialInit
  <1>2. << >> \in Seq({})
    OBVIOUS
  <1>3. \E S : rows \in Seq(S)
    BY <1>1, <1>2
  <1>4. Len(rows) = 0 /\ \A n \in DOMAIN rows : FALSE
    <2>1. Len(<< >>) = 0
      OBVIOUS
    <2>2. DOMAIN << >> = {}
      OBVIOUS
    <2> QED BY <1>1, <2>1, <2>2
  <1>5. Len(rows) <= Trials
    <2>1. Trials \in Nat
      BY InputsAssumption
    <2> QED BY <1>4, <2>1
  <1> QED BY <1>1, <1>3, <1>4, <1>5 DEF RowsInv

\* Drawing a scenario leaves the rows, running it adds one.
LEMMA RowsNext ==
  ASSUME RowsInv, [TrialNext]_trialVars
  PROVE  RowsInv'
  <1>1. CASE Draw
    <2>1. UNCHANGED <<known, rows>>
      BY <1>1 DEF Draw
    <2>2. PICK s \in Stages : \E i \in Attributed : scenario' = [s EXCEPT !.inspect = i]
      BY <1>1 DEF Draw, Attributed
    <2>3. PICK i \in Attributed : scenario' = [s EXCEPT !.inspect = i]
      BY <2>2
    <2>4. World([s EXCEPT !.inspect = i])
      BY DEF Stages, World
    <2>5. Len(rows) < Trials
      BY <1>1 DEF Draw
    <2> QED BY <2>1, <2>3, <2>4, <2>5 DEF RowsInv
  <1>2. CASE Run
    <2> DEFINE r == ExecuteTrial(scenario, known)
    <2>1. World(scenario)
      BY <1>2 DEF Run, RowsInv
    <2>2. /\ Good(r)
          /\ IF Hashed(scenario) THEN Compared(r, scenario, known)
             ELSE ~r.deterministic /\ r.decompression = Unmeasured
      BY <2>1, TrialRow
    <2> HIDE DEF r
    <2>3. rows' = Append(rows, r) /\ scenario' = NoScenario
      BY <1>2 DEF Run, r
    <2>4. known' = IF Hashed(scenario) THEN FirstHash(known, scenario) ELSE known
      BY <1>2 DEF Run, Hashed
    <2>5. scenario.hash \in ArchiveHashes /\ scenario.hash # ""
      BY <2>1, InputsAssumption DEF World
    <2>6. known' \in {""} \cup ArchiveHashes
      BY <2>4, <2>5 DEF RowsInv, FirstHash
    <2>7. Flagged(r, known')
      BY <2>2, <2>4, <2>5 DEF Flagged, Compared, SameAsFirst, FirstHash
    <2>8. \A n \in DOMAIN rows : Flagged(rows[n], known')
      <3> SUFFICES ASSUME NEW n \in DOMAIN rows PROVE Flagged(rows[n], known')
        OBVIOUS
      <3>1. Flagged(rows[n], known)
        BY DEF RowsInv
      <3>2. known # "" => known' = known
        BY <2>4 DEF FirstHash
      <3> QED BY <3>1, <3>2 DEF Flagged
    <2>9. PICK S : rows \in Seq(S)
      BY DEF RowsInv
    <2>10. /\ rows' \in Seq(S \cup {r})
           /\ Len(rows') = Len(rows) + 1
           /\ \A n \in DOMAIN rows' : rows'[n] = r \/ (n \in DOMAIN rows /\ rows'[n] = rows[n])
      BY <2>3, <2>9
    <2>11. \A n \in DOMAIN rows' : Good(rows'[n]) /\ Flagged(rows'[n], known')
      BY <2>2, <2>7, <2>8, <2>10 DEF RowsInv
    <2>12. Len(rows) < Trials /\ Len(rows) \in Nat
      <3>1. Len(rows) < Trials
        BY <1>2 DEF RowsInv, Run
      <3>2. Len(rows) \in Nat
        BY <2>9
      <3> QED BY <3>1, <3>2
    <2>13. Len(rows') <= Trials
      <3>1. Trials \in Nat
        BY InputsAssumption
      <3> QED BY <2>10, <2>12, <3>1
    <2>14. \E T : rows' \in Seq(T)
      BY <2>10
    <2> QED BY <2>3, <2>6, <2>11, <2>13, <2>14 DEF RowsInv
  <1>3. CASE UNCHANGED trialVars
    BY <1>3 DEF trialVars, RowsInv
  <1> QED BY <1>1, <1>2, <1>3 DEF TrialNext

\* The invariant is the property, row by row.
LEMMA RowsSafe == RowsInv => RowsAreEvidence
  <1> SUFFICES ASSUME RowsInv PROVE RowsAreEvidence
    OBVIOUS
  <1>1. \A r \in Rows : Good(r) /\ Flagged(r, known)
    BY DEF RowsInv, Rows
  <1>2. RowsTyped
    BY <1>1 DEF RowsTyped, RowsInv, Good, Row
  <1>3. RowsValidate
    BY <1>1 DEF RowsValidate, Good
  <1>4. FlagMeansSameArchive
    <2>1. \A r, q \in Rows : r.deterministic /\ q.deterministic => r.hash = q.hash
      BY <1>1 DEF Flagged
    <2>2. \A n \in DOMAIN rows : Flagged(rows[n], known)
      BY DEF RowsInv
    <2> QED BY <2>1, <2>2 DEF FlagMeansSameArchive, Flagged
  <1>5. AttributionAddsUp
    BY <1>1 DEF AttributionAddsUp, Good, Adds
  <1> QED BY <1>2, <1>3, <1>4, <1>5 DEF RowsAreEvidence

\* Whatever compressors, decompressors and inspections answer, every row
\* of the cell satisfies the schema, its flag is true of the archives before
\* it and its breakdown adds up to the archive's bytes.
THEOREM EvidentRows == TrialSpec => []RowsAreEvidence
  <1>1. TrialInit => RowsInv
    BY RowsInit
  <1>2. RowsInv /\ [TrialNext]_trialVars => RowsInv'
    BY RowsNext
  <1>3. RowsInv => RowsAreEvidence
    BY RowsSafe
  <1> QED BY <1>1, <1>2, <1>3, PTL DEF TrialSpec

\* A row says ok exactly when the input came back and, for a native codec,
\* the verified attribution was accepted.
THEOREM TruthfulRows == TrialSpec => RowsTellWhatHappened
  <1> DEFINE Tells ==
        rows' # rows =>
          LET r == rows'[Len(rows')]
              restored == Hashed(scenario) /\ scenario.decode = "ok"
                            /\ scenario.restored = "input"
          IN  /\ r.roundtrip <=> restored
              /\ r.status = "ok" <=>
                   restored /\ (scenario.native =>
                       /\ "verified" \in DOMAIN scenario.inspect
                       /\ scenario.inspect.verified
                       /\ BreakdownAccepted(scenario.inspect, scenario.size))
  <1>1. TrialInit => RowsInv
    BY RowsInit
  <1>2. RowsInv /\ [TrialNext]_trialVars => RowsInv'
    BY RowsNext
  <1>3. RowsInv /\ [TrialNext]_trialVars => [Tells]_trialVars
    <2> SUFFICES ASSUME RowsInv, TrialNext, rows' # rows PROVE Tells
      BY DEF trialVars
    <2>1. World(scenario) /\ rows' = Append(rows, ExecuteTrial(scenario, known))
      BY DEF TrialNext, Draw, Run, RowsInv
    <2>2. PICK S : rows \in Seq(S)
      BY DEF RowsInv
    <2>3. rows'[Len(rows')] = ExecuteTrial(scenario, known)
      BY <2>1, <2>2
    <2> SUFFICES ASSUME NEW r, r = ExecuteTrial(scenario, known)
                 PROVE  /\ r.roundtrip <=> Restored(scenario)
                        /\ r.status = "ok" <=>
                             Restored(scenario) /\ (scenario.native =>
                               /\ "verified" \in DOMAIN scenario.inspect
                               /\ scenario.inspect.verified
                               /\ BreakdownAccepted(scenario.inspect, scenario.size))
      BY <2>3 DEF Restored
    <2>4. /\ r.roundtrip <=> Restored(scenario)
          /\ r.status = "ok" <=>
               Restored(scenario)
                 /\ (scenario.native => BreakdownAccepted(scenario.inspect, scenario.size))
      BY <2>1, TrialRow
    <2>5. BreakdownAccepted(scenario.inspect, scenario.size) =>
            "verified" \in DOMAIN scenario.inspect /\ scenario.inspect.verified
      <3> SUFFICES ASSUME BreakdownAccepted(scenario.inspect, scenario.size)
                   PROVE  "verified" \in DOMAIN scenario.inspect /\ scenario.inspect.verified
        OBVIOUS
      <3>1. scenario.inspect \in Attributed /\ scenario.size \in Sizes
        BY <2>1 DEF World
      <3>2. scenario.inspect \in Inspections /\ scenario.inspect.verified
        BY <3>1, BreakdownIsExact
      <3> QED BY <3>2 DEF Inspections
    <2> QED BY <2>4, <2>5
  <1> QED BY <1>1, <1>2, <1>3, PTL DEF TrialSpec, RowsTellWhatHappened

-------------------------------------------------------------------------------
(* Finite sets: induction, greatest numbers and sums.                      *)

\* Induction over the subsets of a finite set, with a set in place of the
\* predicate.
LEMMA SubsetsFrom ==
  ASSUME NEW S, IsFiniteSet(S), NEW Q, {} \in Q,
         \A T \in SUBSET S : T # {} /\ (\A x \in T : T \ {x} \in Q) => T \in Q
  PROVE  SUBSET S \subseteq Q
<1> DEFINE Counts == {Cardinality(T) : T \in (SUBSET S) \ Q}
<1> SUFFICES ASSUME NEW T \in (SUBSET S) \ Q PROVE FALSE
  OBVIOUS
<1>1. \A U \in SUBSET S : IsFiniteSet(U) /\ Cardinality(U) \in Nat
  BY FS_Subset, FS_CardinalityType
<1>2. Counts # {} /\ Counts \subseteq Nat
  BY <1>1
<1>3. PICK m \in Counts : \A k \in Counts : <<k, m>> \notin OpToRel(<, Nat)
  <2> HIDE DEF Counts
  <2> QED
    BY <1>2, NatLessThanWellFounded, WFMin
<1>4. PICK U \in (SUBSET S) \ Q : m = Cardinality(U)
  BY <1>3
<1>5. PICK x \in U : U \ {x} \notin Q
  BY <1>4
<1>6. IsFiniteSet(U) /\ Cardinality(U \ {x}) = Cardinality(U) - 1
  BY <1>1, <1>4, <1>5, FS_RemoveElement
<1>7. Cardinality(U \ {x}) \in Counts
  BY <1>4, <1>5
<1>8. Cardinality(U \ {x}) \in Nat /\ m \in Nat /\ Cardinality(U \ {x}) < m
  BY <1>1, <1>4, <1>6
<1>9. <<Cardinality(U \ {x}), m>> \in OpToRel(<, Nat)
  BY <1>8 DEF OpToRel
<1> QED
  BY <1>3, <1>7, <1>9

LEMMA MaxIs ==
  ASSUME NEW S, IsFiniteSet(S), S # {}, S \subseteq Int
  PROVE  Max(S) \in S /\ \A x \in S : Max(S) >= x
<1> DEFINE HasMax(T) == \E x \in T : \A y \in T : x >= y
           Q == {T \in SUBSET S : T = {} \/ HasMax(T)}
<1>1. {} \in Q
  OBVIOUS
<1>2. ASSUME NEW T \in SUBSET S, T # {}, \A x \in T : T \ {x} \in Q
      PROVE  T \in Q
  <2>1. PICK x \in T : TRUE
    BY <1>2
  <2>2. T \ {x} = {} \/ HasMax(T \ {x})
    BY <1>2, <2>1
  <2>3. CASE T \ {x} = {}
    <3>1. \A y \in T : x >= y
      BY <2>1, <2>3
    <3> QED
      BY <2>1, <3>1
  <2>4. CASE HasMax(T \ {x})
    <3>1. PICK z \in T \ {x} : \A y \in T \ {x} : z >= y
      BY <2>4
    <3>2. x \in Int /\ z \in Int /\ \A y \in T : y \in Int
      BY <2>1, <3>1
    <3>3. CASE x >= z
      <4>1. \A y \in T : x >= y
        BY <3>1, <3>2, <3>3
      <4> QED
        BY <2>1, <4>1
    <3>4. CASE ~(x >= z)
      <4>1. \A y \in T : z >= y
        BY <3>1, <3>2, <3>4
      <4> QED
        BY <3>1, <4>1
    <3> QED
      BY <3>3, <3>4
  <2> QED
    BY <2>2, <2>3, <2>4
<1>3. SUBSET S \subseteq Q
  <2> HIDE DEF Q
  <2> QED
    BY <1>1, <1>2, SubsetsFrom
<1>4. HasMax(S)
  BY <1>3
<1> QED
  BY <1>4 DEF Max

\* What SumOver computes, as a relation.
SumAt(f, T, g) ==
  IF T = {} THEN 0 ELSE f[CHOOSE x \in T : TRUE] + g[T \ {CHOOSE x \in T : TRUE}]
SumsOn(f, G, g) == g = [T \in G |-> SumAt(f, T, g)]

LEMMA SumDef ==
  ASSUME NEW f, NEW S
  PROVE  SumOver(f, S) = (CHOOSE g : SumsOn(f, SUBSET S, g))[S]
BY DEF SumOver, SumsOn, SumAt, MapThenSumSet, MapThenFoldSet

LEMMA SumExists ==
  ASSUME NEW f, NEW S, IsFiniteSet(S)
  PROVE  \E g : SumsOn(f, SUBSET S, g)
<1> DEFINE Small(n) == {T \in SUBSET S : Cardinality(T) <= n}
           K == {n \in Nat : \E g : SumsOn(f, Small(n), g)}
<1>0. \A T \in SUBSET S : IsFiniteSet(T) /\ Cardinality(T) \in Nat
  BY FS_Subset, FS_CardinalityType
<1>1. 0 \in K
  <2>1. \A T \in Small(0) : T = {}
    BY <1>0, FS_EmptySet
  <2> DEFINE g == [T \in Small(0) |-> 0]
  <2>2. g = [T \in Small(0) |-> SumAt(f, T, g)]
    BY <2>1 DEF SumAt
  <2> HIDE DEF g
  <2>3. SumsOn(f, Small(0), g)
    BY <2>2 DEF SumsOn
  <2> QED
    BY <2>3
<1>2. ASSUME NEW n \in Nat, n \in K PROVE n + 1 \in K
  <2>1. PICK g : SumsOn(f, Small(n), g)
    BY <1>2
  <2> DEFINE pick(T) == CHOOSE x \in T : TRUE
             more == [T \in Small(n + 1) |-> SumAt(f, T, g)]
  <2>2. ASSUME NEW T \in Small(n + 1), T # {}
        PROVE  T \ {pick(T)} \in Small(n)
    <3>1. pick(T) \in T
      BY <2>2
    <3>2. Cardinality(T \ {pick(T)}) = Cardinality(T) - 1
      BY <1>0, <2>2, <3>1, FS_RemoveElement
    <3> QED
      BY <1>0, <2>2, <3>2
  <2>3. ASSUME NEW T \in Small(n)
        PROVE  T \in Small(n + 1) /\ more[T] = g[T]
    <3>1. T \in Small(n + 1)
      BY <1>0
    <3>2. g[T] = SumAt(f, T, g)
      BY <2>1 DEF SumsOn
    <3> QED
      BY <3>1, <3>2
  <2>4. ASSUME NEW T \in Small(n + 1)
        PROVE  more[T] = SumAt(f, T, more)
    <3>1. CASE T = {}
      BY <3>1 DEF SumAt
    <3>2. CASE T # {}
      <4>1. more[T \ {pick(T)}] = g[T \ {pick(T)}]
        BY <2>2, <2>3, <3>2
      <4> QED
        BY <3>2, <4>1 DEF SumAt
    <3> QED
      BY <3>1, <3>2
  <2>5. more = [T \in Small(n + 1) |-> SumAt(f, T, more)]
    BY <2>4
  <2>6. SumsOn(f, Small(n + 1), more)
    <3> HIDE DEF more, Small
    <3> QED
      BY ONLY <2>5 DEF SumsOn
  <2>7. \E h : SumsOn(f, Small(n + 1), h)
    <3> HIDE DEF more, Small
    <3> QED
      BY <2>6
  <2> QED
    BY <2>7
<1>3. Nat \subseteq K
  <2> DEFINE Rest == Nat \ K
  <2> SUFFICES ASSUME Rest # {} PROVE FALSE
    BY DEF Rest
  <2> HIDE DEF K
  <2>1. PICK m \in Rest : \A k \in Rest : <<k, m>> \notin OpToRel(<, Nat)
    <3>1. Rest \subseteq Nat
      BY DEF Rest
    <3> HIDE DEF Rest
    <3> QED
      BY <3>1, NatLessThanWellFounded, WFMin
  <2>2. m # 0 /\ m \in Nat /\ m - 1 \in Nat /\ m - 1 < m /\ (m - 1) + 1 = m
    BY <1>1
  <2>3. <<m - 1, m>> \in OpToRel(<, Nat)
    BY <2>2 DEF OpToRel
  <2> QED
    BY <1>2, <2>1, <2>2, <2>3
<1>4. Cardinality(S) \in K /\ Small(Cardinality(S)) = SUBSET S
  <2>1. Cardinality(S) \in K
    <3> HIDE DEF K
    <3> QED
      BY <1>3, <1>0
  <2>2. \A T \in SUBSET S : Cardinality(T) <= Cardinality(S)
    BY FS_Subset
  <2> QED
    BY <2>1, <2>2
<1> QED
  BY <1>4

\* What holds of the empty sum and is kept by one more summand holds of a sum.
LEMMA SumFrom ==
  ASSUME NEW f, NEW S, IsFiniteSet(S), NEW Q, <<{}, 0>> \in Q,
         \A T \in SUBSET S : \A x \in T : \A n :
           <<T \ {x}, n>> \in Q => <<T, f[x] + n>> \in Q
  PROVE  <<S, SumOver(f, S)>> \in Q
<1> DEFINE g == CHOOSE h : SumsOn(f, SUBSET S, h)
           R == {T \in SUBSET S : <<T, g[T]>> \in Q}
<1>1. SumsOn(f, SUBSET S, g)
  BY SumExists
<1>2. SumOver(f, S) = g[S]
  BY SumDef
<1> HIDE DEF g
<1>3. \A T \in SUBSET S :
        g[T] = IF T = {} THEN 0
               ELSE f[CHOOSE x \in T : TRUE] + g[T \ {CHOOSE x \in T : TRUE}]
  BY <1>1 DEF SumsOn, SumAt
<1>4. {} \in R
  BY <1>3
<1>5. ASSUME NEW T \in SUBSET S, T # {}, \A x \in T : T \ {x} \in R
      PROVE  T \in R
  <2> DEFINE x == CHOOSE y \in T : TRUE
  <2>1. x \in T
    BY <1>5
  <2>2. g[T] = f[x] + g[T \ {x}]
    BY <1>3, <1>5
  <2> HIDE DEF x
  <2>3. <<T \ {x}, g[T \ {x}]>> \in Q
    BY <1>5, <2>1
  <2> QED
    BY <2>1, <2>2, <2>3
<1>6. SUBSET S \subseteq R
  <2> HIDE DEF R
  <2> QED
    BY <1>4, <1>5, SubsetsFrom
<1> QED
  BY <1>2, <1>6

LEMMA SumIsNat ==
  ASSUME NEW S, IsFiniteSet(S), NEW f, \A x \in S : f[x] \in Nat
  PROVE  SumOver(f, S) \in Nat
<1> DEFINE Q == (SUBSET S) \X Nat
<1>1. <<{}, 0>> \in Q
  OBVIOUS
<1>2. ASSUME NEW T \in SUBSET S, NEW x \in T, NEW n, <<T \ {x}, n>> \in Q
      PROVE  <<T, f[x] + n>> \in Q
  BY <1>2
<1>3. <<S, SumOver(f, S)>> \in Q
  <2> HIDE DEF Q
  <2> QED
    BY <1>1, <1>2, SumFrom
<1> QED
  BY <1>3

\* The sizes of disjoint sets add up to the size of their union.
LEMMA SumOfParts ==
  ASSUME NEW S, IsFiniteSet(S), NEW part, NEW f,
         \A x \in S : IsFiniteSet(part[x]) /\ f[x] = Cardinality(part[x]),
         \A x, y \in S : x # y => part[x] \cap part[y] = {}
  PROVE  SumOver(f, S) = Cardinality(UNION {part[x] : x \in S})
<1> DEFINE all == [T \in SUBSET S |-> UNION {part[x] : x \in T}]
           Q == {p \in (SUBSET S) \X Nat :
                   IsFiniteSet(all[p[1]]) /\ p[2] = Cardinality(all[p[1]])}
<1>1. <<{}, 0>> \in Q
  <2>1. all[{}] = {}
    OBVIOUS
  <2>2. IsFiniteSet(all[{}]) /\ Cardinality(all[{}]) = 0
    BY <2>1, FS_EmptySet
  <2> HIDE DEF all
  <2> QED
    BY <2>2
<1>2. ASSUME NEW T \in SUBSET S, NEW x \in T, NEW n, <<T \ {x}, n>> \in Q
      PROVE  <<T, f[x] + n>> \in Q
  <2> DEFINE rest == all[T \ {x}]
             this == part[x]
  <2>1. IsFiniteSet(rest) /\ n = Cardinality(rest)
    <3> DEFINE p == <<T \ {x}, n>>
    <3>1. p \in Q /\ p[1] = T \ {x} /\ p[2] = n
      BY <1>2
    <3> HIDE DEF p, all
    <3>2. IsFiniteSet(all[p[1]]) /\ p[2] = Cardinality(all[p[1]])
      BY <3>1
    <3> HIDE DEF Q
    <3> QED
      BY <3>1, <3>2
  <2>2. all[T] = rest \cup this
    OBVIOUS
  <2>3. rest \cap this = {}
    OBVIOUS
  <2>4. IsFiniteSet(this) /\ f[x] = Cardinality(this)
    OBVIOUS
  <2> HIDE DEF rest, this
  <2>5. IsFiniteSet(rest \cup this) /\ IsFiniteSet({})
    BY <2>1, <2>4, FS_Union, FS_EmptySet
  <2>6. Cardinality(rest \cup this)
          = Cardinality(rest) + Cardinality(this) - Cardinality(rest \cap this)
    BY <2>1, <2>4, FS_Union
  <2>7. Cardinality(rest) \in Nat /\ Cardinality(this) \in Nat /\ Cardinality({}) = 0
    BY <2>1, <2>4, FS_CardinalityType, FS_EmptySet
  <2>8. f[x] + n = Cardinality(rest \cup this) /\ f[x] + n \in Nat
    <3>1. Cardinality(rest \cap this) = 0
      BY <2>3, <2>7
    <3> QED
      BY ONLY <3>1, <2>1, <2>4, <2>6, <2>7
  <2>9. IsFiniteSet(all[T]) /\ f[x] + n = Cardinality(all[T])
    BY <2>2, <2>5, <2>8
  <2> DEFINE k == f[x] + n
             p == <<T, k>>
  <2>10. k \in Nat /\ IsFiniteSet(all[T]) /\ k = Cardinality(all[T])
    BY <2>8, <2>9
  <2> HIDE DEF all, k
  <2>11. p \in (SUBSET S) \X Nat /\ p[1] = T /\ p[2] = k
    BY <2>10
  <2>12. p \in Q
    BY <2>10, <2>11
  <2> QED
    BY <2>12 DEF k
<1>3. <<S, SumOver(f, S)>> \in Q
  <2> HIDE DEF Q
  <2> QED
    BY <1>1, <1>2, SumFrom
<1> QED
  BY <1>3

-------------------------------------------------------------------------------
(* Sums of integers.                                                       *)

\* One summand of a sum can be taken out, whichever it is.
LEMMA SumStep ==
  ASSUME NEW S, IsFiniteSet(S), NEW f, \A x \in S : f[x] \in Int
  PROVE  /\ SumOver(f, {}) = 0
         /\ \A T \in SUBSET S :
              /\ SumOver(f, T) \in Int
              /\ \A x \in T : SumOver(f, T) = f[x] + SumOver(f, T \ {x})
<1>1. PICK g : SumsOn(f, SUBSET S, g)
  BY SumExists
<1>2. \A T \in SUBSET S :
        g[T] = IF T = {} THEN 0
               ELSE f[CHOOSE x \in T : TRUE] + g[T \ {CHOOSE x \in T : TRUE}]
  BY <1>1 DEF SumsOn, SumAt
<1> DEFINE Q == {T \in SUBSET S : /\ \A U \in SUBSET T : g[U] \in Int
                                  /\ \A x \in T : g[T] = f[x] + g[T \ {x}]}
<1>3. {} \in Q
  <2>1. g[{}] = 0
    BY <1>2
  <2>2. \A U \in SUBSET {} : U = {}
    OBVIOUS
  <2> QED
    BY <2>1, <2>2
<1>4. ASSUME NEW T \in SUBSET S, T # {}, \A x \in T : T \ {x} \in Q
      PROVE  T \in Q
  <2> DEFINE c == CHOOSE x \in T : TRUE
  <2>1. c \in T /\ g[T] = f[c] + g[T \ {c}]
    BY <1>2, <1>4
  <2> HIDE DEF c
  <2>2. ASSUME NEW x \in T, NEW U \in SUBSET (T \ {x}) PROVE g[U] \in Int
    BY <1>4
  <2>3. g[T] \in Int
    BY <2>1, <2>2
  <2>4. ASSUME NEW x \in T, x # c PROVE g[T] = f[x] + g[T \ {x}]
    <3> DEFINE R == (T \ {c}) \ {x}
    <3>1. g[T \ {c}] = f[x] + g[R]
      BY <1>4, <2>1, <2>4
    <3>2. g[T \ {x}] = f[c] + g[R]
      <4>1. R = (T \ {x}) \ {c}
        OBVIOUS
      <4> QED
        BY <1>4, <2>1, <2>4, <4>1
    <3>3. g[R] \in Int /\ f[x] \in Int /\ f[c] \in Int
      BY <2>1, <2>2
    <3> HIDE DEF R
    <3> QED
      BY <2>1, <3>1, <3>2, <3>3
  <2>5. ASSUME NEW U \in SUBSET T PROVE g[U] \in Int
    <3>1. CASE U = T
      BY <2>3, <3>1
    <3>2. CASE U # T
      <4>1. PICK x \in T : x \notin U
        BY <3>2
      <4> QED
        BY <2>2, <4>1
    <3> QED
      BY <3>1, <3>2
  <2> QED
    BY <2>1, <2>4, <2>5
<1>5. SUBSET S \subseteq Q
  <2> HIDE DEF Q
  <2> QED
    BY <1>3, <1>4, SubsetsFrom
<1>6. ASSUME NEW T \in SUBSET S PROVE SumOver(f, T) = g[T]
  <2> DEFINE P == {<<U, g[U]>> : U \in SUBSET T}
  <2>1. <<{}, 0>> \in P
    BY <1>2
  <2>2. ASSUME NEW U \in SUBSET T, NEW x \in U, NEW n, <<U \ {x}, n>> \in P
        PROVE  <<U, f[x] + n>> \in P
    <3>1. n = g[U \ {x}]
      BY <2>2
    <3>2. U \in Q
      BY <1>5
    <3>3. g[U] = f[x] + n
      BY <3>1, <3>2
    <3> QED
      BY <3>3
  <2>3. IsFiniteSet(T)
    BY FS_Subset
  <2>4. <<T, SumOver(f, T)>> \in P
    <3> HIDE DEF P
    <3> QED
      BY <2>1, <2>2, <2>3, SumFrom
  <2> QED
    BY <2>4
<1>7. ASSUME NEW T \in SUBSET S
      PROVE  /\ SumOver(f, T) \in Int
             /\ \A x \in T : SumOver(f, T) = f[x] + SumOver(f, T \ {x})
  <2>1. T \in Q /\ SumOver(f, T) = g[T]
    BY <1>5, <1>6
  <2>2. \A x \in T : SumOver(f, T \ {x}) = g[T \ {x}]
    BY <1>6
  <2> QED
    BY <2>1, <2>2
<1>8. SumOver(f, {}) = 0
  BY <1>2, <1>6
<1> QED
  BY <1>7, <1>8

\* Sums are taken summand by summand.
LEMMA SumOfDifferences ==
  ASSUME NEW S, IsFiniteSet(S), NEW f, NEW g, NEW h,
         \A x \in S : f[x] \in Int /\ g[x] \in Int /\ h[x] = f[x] - g[x]
  PROVE  SumOver(h, S) = SumOver(f, S) - SumOver(g, S)
<1> DEFINE Q == {T \in SUBSET S : SumOver(h, T) = SumOver(f, T) - SumOver(g, T)}
<1>1. {} \in Q
  BY SumStep
<1>2. ASSUME NEW T \in SUBSET S, T # {}, \A x \in T : T \ {x} \in Q
      PROVE  T \in Q
  <2>1. PICK x \in T : TRUE
    BY <1>2
  <2> DEFINE a == SumOver(f, T \ {x})
             b == SumOver(g, T \ {x})
  <2>2. a \in Int /\ SumOver(f, T) = f[x] + a
    BY SumStep
  <2>3. b \in Int /\ SumOver(g, T) = g[x] + b
    BY SumStep
  <2>4. SumOver(h, T) = h[x] + SumOver(h, T \ {x})
    BY SumStep
  <2>5. SumOver(h, T \ {x}) = a - b
    BY <1>2, <2>1
  <2>6. f[x] \in Int /\ g[x] \in Int /\ h[x] = f[x] - g[x]
    OBVIOUS
  <2> HIDE DEF a, b
  <2>7. SumOver(h, T) = SumOver(f, T) - SumOver(g, T)
    BY <2>2, <2>3, <2>4, <2>5, <2>6
  <2> QED
    BY <2>7
<1>3. SUBSET S \subseteq Q
  <2> HIDE DEF Q
  <2> QED
    BY <1>1, <1>2, SubsetsFrom
<1> QED
  BY <1>3

\* What is nowhere positive has no positive sum.
LEMMA SumNotPositive ==
  ASSUME NEW S, IsFiniteSet(S), NEW f, \A x \in S : f[x] \in Int /\ f[x] <= 0
  PROVE  SumOver(f, S) <= 0
<1> DEFINE Q == {T \in SUBSET S : SumOver(f, T) <= 0}
<1>1. {} \in Q
  BY SumStep
<1>2. ASSUME NEW T \in SUBSET S, T # {}, \A x \in T : T \ {x} \in Q
      PROVE  T \in Q
  <2>1. PICK x \in T : TRUE
    BY <1>2
  <2>2. /\ SumOver(f, T \ {x}) \in Int
        /\ SumOver(f, T) = f[x] + SumOver(f, T \ {x})
    BY SumStep
  <2>3. SumOver(f, T \ {x}) <= 0 /\ f[x] \in Int /\ f[x] <= 0
    BY <1>2, <2>1
  <2>4. SumOver(f, T) <= 0
    BY <2>2, <2>3
  <2> QED
    BY <2>4
<1>3. SUBSET S \subseteq Q
  <2> HIDE DEF Q
  <2> QED
    BY <1>1, <1>2, SubsetsFrom
<1> QED
  BY <1>3

LEMMA SumOfOne ==
  ASSUME NEW x, NEW f, f[x] \in Int
  PROVE  SumOver(f, {x}) = f[x]
<1>1. IsFiniteSet({x})
  BY FS_Singleton
<1>2. SumOver(f, {}) = 0 /\ SumOver(f, {x}) = f[x] + SumOver(f, {x} \ {x})
  <2>1. \A y \in {x} : f[y] \in Int
    OBVIOUS
  <2> QED
    BY <1>1, <2>1, SumStep
<1>3. {x} \ {x} = {}
  OBVIOUS
<1>4. SumOver(f, {x}) = f[x] + 0
  BY <1>2, <1>3
<1> QED
  BY <1>4

LEMMA SumOfUnion ==
  ASSUME NEW S, IsFiniteSet(S), NEW f, \A x \in S : f[x] \in Int,
         NEW A \in SUBSET S, NEW B \in SUBSET S, A \cap B = {}
  PROVE  SumOver(f, A \cup B) = SumOver(f, A) + SumOver(f, B)
<1> DEFINE Q == {T \in SUBSET B : SumOver(f, A \cup T) = SumOver(f, A) + SumOver(f, T)}
<1>0. IsFiniteSet(B) /\ SumOver(f, A) \in Int /\ SumOver(f, {}) = 0
  BY FS_Subset, SumStep
<1>1. {} \in Q
  <2>1. A \cup {} = A
    OBVIOUS
  <2> QED
    BY <1>0, <2>1
<1>2. ASSUME NEW T \in SUBSET B, T # {}, \A x \in T : T \ {x} \in Q
      PROVE  T \in Q
  <2>1. PICK x \in T : TRUE
    BY <1>2
  <2>2. SumOver(f, T \ {x}) \in Int /\ SumOver(f, T) = f[x] + SumOver(f, T \ {x})
    BY SumStep
  <2>3. SumOver(f, A \cup T) = f[x] + SumOver(f, A \cup (T \ {x}))
    <3>1. (A \cup T) \ {x} = A \cup (T \ {x})
      BY <2>1
    <3>2. A \cup T \in SUBSET S /\ x \in A \cup T
      OBVIOUS
    <3>3. SumOver(f, A \cup T) = f[x] + SumOver(f, (A \cup T) \ {x})
      BY <3>2, SumStep
    <3> QED
      BY <3>1, <3>3
  <2>4. SumOver(f, A \cup (T \ {x})) = SumOver(f, A) + SumOver(f, T \ {x})
    BY <1>2, <2>1
  <2>5. f[x] \in Int
    OBVIOUS
  <2>6. SumOver(f, A \cup T) = SumOver(f, A) + SumOver(f, T)
    BY <1>0, <2>2, <2>3, <2>4, <2>5
  <2> QED
    BY <2>6
<1>3. SUBSET B \subseteq Q
  <2> HIDE DEF Q
  <2> QED
    BY <1>0, <1>1, <1>2, SubsetsFrom
<1> QED
  BY <1>3

LEMMA ImagesAreFinite ==
  ASSUME NEW S, IsFiniteSet(S), NEW at
  PROVE  IsFiniteSet({at[x] : x \in S})
<1>1. [x \in S |-> at[x]] \in Surjection(S, {at[x] : x \in S})
  BY DEF Surjection
<1> QED
  BY <1>1, FS_Surjection

\* A sum over the images of a one-to-one function is the sum over their origins.
LEMMA SumOfImages ==
  ASSUME NEW S, IsFiniteSet(S), NEW at, NEW f, NEW g,
         \A x \in S : f[at[x]] \in Int /\ g[x] = f[at[x]],
         \A x, y \in S : x # y => at[x] # at[y]
  PROVE  SumOver(f, {at[x] : x \in S}) = SumOver(g, S)
<1> DEFINE Images(T) == {at[x] : x \in T}
           Q == {T \in SUBSET S : SumOver(f, Images(T)) = SumOver(g, T)}
<1>0. IsFiniteSet(Images(S)) /\ \A y \in Images(S) : f[y] \in Int
  BY ImagesAreFinite
<1>1. {} \in Q
  <2>1. Images({}) = {}
    OBVIOUS
  <2>2. SumOver(f, {}) = 0 /\ SumOver(g, {}) = 0
    <3> HIDE DEF Images
    <3> QED
      BY <1>0, SumStep
  <2> QED
    BY <2>1, <2>2
<1>2. ASSUME NEW T \in SUBSET S, T # {}, \A x \in T : T \ {x} \in Q
      PROVE  T \in Q
  <2>1. PICK x \in T : TRUE
    BY <1>2
  <2>2. SumOver(g, T) = g[x] + SumOver(g, T \ {x})
    BY SumStep
  <2>3. Images(T) \ {at[x]} = Images(T \ {x})
    OBVIOUS
  <2>4. Images(T) \in SUBSET Images(S) /\ at[x] \in Images(T)
    OBVIOUS
  <2>5. SumOver(f, Images(T)) = f[at[x]] + SumOver(f, Images(T) \ {at[x]})
    <3> HIDE DEF Images
    <3> QED
      BY <1>0, <2>4, SumStep
  <2>6. SumOver(f, Images(T \ {x})) = SumOver(g, T \ {x})
    BY <1>2, <2>1
  <2>7. SumOver(f, Images(T)) = SumOver(g, T)
    <3>1. g[x] = f[at[x]]
      OBVIOUS
    <3> HIDE DEF Images
    <3> QED
      BY <2>2, <2>3, <2>5, <2>6, <3>1
  <2> QED
    BY <2>7
<1>3. SUBSET S \subseteq Q
  <2> HIDE DEF Q
  <2> QED
    BY <1>1, <1>2, SubsetsFrom
<1> QED
  BY <1>3

LEMMA SumOfSigned ==
  ASSUME NEW S, IsFiniteSet(S), NEW sign \in {1, -1}, NEW f, NEW h,
         \A x \in S : f[x] \in Int /\ h[x] = sign * f[x]
  PROVE  SumOver(h, S) = sign * SumOver(f, S)
<1> DEFINE Q == {T \in SUBSET S : SumOver(h, T) = sign * SumOver(f, T)}
<1>0. \A x \in S : h[x] \in Int
  OBVIOUS
<1>1. {} \in Q
  <2>1. SumOver(h, {}) = 0 /\ SumOver(f, {}) = 0
    BY <1>0, SumStep
  <2> QED
    BY <2>1
<1>2. ASSUME NEW T \in SUBSET S, T # {}, \A x \in T : T \ {x} \in Q
      PROVE  T \in Q
  <2>1. PICK x \in T : TRUE
    BY <1>2
  <2> DEFINE a == SumOver(f, T \ {x})
  <2>2. a \in Int /\ SumOver(f, T) = f[x] + a
    BY SumStep
  <2>3. SumOver(h, T) = h[x] + SumOver(h, T \ {x})
    BY <1>0, SumStep
  <2>4. SumOver(h, T \ {x}) = sign * a
    BY <1>2, <2>1
  <2>5. f[x] \in Int /\ h[x] = sign * f[x]
    OBVIOUS
  <2> HIDE DEF a
  <2>6. CASE sign = 1
    BY <2>2, <2>3, <2>4, <2>5, <2>6
  <2>7. CASE sign = -1
    BY <2>2, <2>3, <2>4, <2>5, <2>7
  <2> QED
    BY <2>6, <2>7
<1>3. SUBSET S \subseteq Q
  <2> HIDE DEF Q
  <2> QED
    BY <1>1, <1>2, SubsetsFrom
<1> QED
  BY <1>3

\* A sum over the triples of s, A and B is the sum of its rows, one for each
\* member of B.
AreRows(f, all, s, A, B, row, total) ==
  /\ \A x \in A, y \in B : f[<<s, x, y>>] \in Int
  /\ \A x \in A, y \in B : row[y][x] = f[<<s, x, y>>]
  /\ \A y \in B : total[y] = SumOver(row[y], A)
  /\ \A c : c \in all <=> \E x \in A, y \in B : c = <<s, x, y>>

LEMMA SumOfCells ==
  ASSUME NEW s, NEW A, IsFiniteSet(A), NEW B, IsFiniteSet(B), NEW f, NEW row, NEW total,
         NEW all, AreRows(f, all, s, A, B, row, total)
  PROVE  SumOver(f, all) = SumOver(total, B)
<1> USE DEF AreRows
<1> DEFINE cells(T) == {<<s, x, y>> : x \in A, y \in T}
           Q == {T \in SUBSET B : /\ IsFiniteSet(cells(T))
                                  /\ SumOver(f, cells(T)) = SumOver(total, T)}
<1>1. ASSUME NEW y \in B
      PROVE  /\ cells({y}) = {<<s, x, y>> : x \in A} /\ IsFiniteSet(cells({y}))
             /\ SumOver(f, cells({y})) = total[y] /\ total[y] \in Int
  <2> DEFINE at == [x \in A |-> <<s, x, y>>]
             g == row[y]
  <2>1. cells({y}) = {at[x] : x \in A}
    OBVIOUS
  <2>2. \A x \in A : f[at[x]] \in Int /\ g[x] = f[at[x]] /\ g[x] \in Int
    OBVIOUS
  <2>3. \A x, z \in A : x # z => at[x] # at[z]
    OBVIOUS
  <2>4. cells({y}) = {<<s, x, y>> : x \in A}
    OBVIOUS
  <2>6. total[y] = SumOver(g, A)
    OBVIOUS
  <2> HIDE DEF at, g, cells
  <2>5. IsFiniteSet({at[x] : x \in A})
    BY ImagesAreFinite
  <2>7. IsFiniteSet(cells({y}))
    BY <2>1, <2>5
  <2>8. SumOver(f, {at[x] : x \in A}) = SumOver(g, A)
    BY ONLY IsFiniteSet(A), <2>2, <2>3, SumOfImages
  <2>9. SumOver(g, A) \in Int
    BY <2>2, SumStep
  <2> QED
    BY <2>1, <2>4, <2>6, <2>7, <2>8, <2>9
<1>2. /\ \A T \in SUBSET B : \A c \in cells(T) : f[c] \in Int
      /\ \A y \in B : total[y] \in Int
  <2>1. \A T \in SUBSET B : \A c \in cells(T) : f[c] \in Int
    OBVIOUS
  <2> HIDE DEF cells
  <2> QED
    BY <1>1, <2>1
<1>3. {} \in Q
  <2>1. cells({}) = {}
    OBVIOUS
  <2>2. IsFiniteSet({}) /\ SumOver(f, {}) = 0 /\ SumOver(total, {}) = 0
    <3>1. IsFiniteSet({})
      BY FS_EmptySet
    <3>2. SumOver(f, {}) = 0
      <4>1. \A x \in {} : f[x] \in Int
        OBVIOUS
      <4> QED
        BY <3>1, <4>1, SumStep
    <3>3. SumOver(total, {}) = 0
      <4>1. \A x \in {} : total[x] \in Int
        OBVIOUS
      <4> QED
        BY <3>1, <4>1, SumStep
    <3> QED
      BY <3>1, <3>2, <3>3
  <2> HIDE DEF cells
  <2> QED
    BY <2>1, <2>2
<1>4. ASSUME NEW T \in SUBSET B, T # {}, \A y \in T : T \ {y} \in Q
      PROVE  T \in Q
  <2>1. PICK y \in T : TRUE
    BY <1>4
  <2> DEFINE rest == cells(T \ {y})
             here == cells({y})
             both == cells(T)
  <2>2. both = rest \cup here /\ rest \cap here = {}
    OBVIOUS
  <2>3. IsFiniteSet(rest) /\ SumOver(f, rest) = SumOver(total, T \ {y})
    <3> HIDE DEF cells
    <3> QED
      BY <1>4, <2>1
  <2>4. IsFiniteSet(here) /\ SumOver(f, here) = total[y]
    BY <1>1
  <2>5. \A c \in both : f[c] \in Int
    BY <1>2
  <2>6. \A z \in B : total[z] \in Int
    BY <1>2
  <2> HIDE DEF rest, here, both
  <2>7. IsFiniteSet(both)
    BY <2>2, <2>3, <2>4, FS_Union
  <2>8. SumOver(f, both) = SumOver(f, rest) + SumOver(f, here)
    BY <2>2, <2>5, <2>7, SumOfUnion
  <2>9. SumOver(total, T) = total[y] + SumOver(total, T \ {y}) /\ SumOver(total, T \ {y}) \in Int
    BY <2>6, SumStep
  <2>10. SumOver(f, both) = SumOver(total, T)
    BY <2>3, <2>4, <2>6, <2>8, <2>9
  <2> QED
    BY <2>7, <2>10 DEF both
<1>5. SUBSET B \subseteq Q
  <2> HIDE DEF Q
  <2> QED
    BY <1>3, <1>4, SubsetsFrom
<1>6. SumOver(f, cells(B)) = SumOver(total, B)
  <2> HIDE DEF cells
  <2> QED
    BY <1>5
<1>7. all = cells(B)
  OBVIOUS
<1> HIDE DEF cells
<1> QED
  BY <1>6, <1>7

-------------------------------------------------------------------------------
(* Certificates: what the summary row of a configuration says.             *)

Everyone == Profiles \cup Baselines
Evident(ev) ==
  \A c \in Everyone, d \in DatasetSet :
    ev[c][d] \in {NoEvidence} \cup Attempts \cup Successes

\* The sum of one number of a metric over the files of a scope.
SumOf(ev, c, scope, m, field) ==
  SumOver([d \in FilesIn(ev, c, scope) |-> ev[c][d].metric[m][field]],
          FilesIn(ev, c, scope))

LEMMA FilesAreFinite ==
  ASSUME NEW ev, NEW c, NEW scope
  PROVE  /\ FilesIn(ev, c, scope) \subseteq DatasetSet
         /\ IsFiniteSet(FilesIn(ev, c, scope))
<1>1. FilesIn(ev, c, scope) \subseteq DatasetSet
  BY DEF FilesIn, FilesOf
<1>2. IsFiniteSet(DOMAIN Datasets)
  <2>1. Len(Datasets) \in Nat /\ DOMAIN Datasets = 1..Len(Datasets)
    BY SummaryAssumption
  <2>2. 1 \in Int /\ Len(Datasets) \in Int
    BY <2>1
  <2> QED
    BY <2>1, <2>2, FS_Interval
<1>3. IsFiniteSet(DatasetSet)
  <2> DEFINE f == [k \in DOMAIN Datasets |-> Datasets[k]]
  <2>1. f \in Surjection(DOMAIN Datasets, DatasetSet)
    BY DEF Surjection, DatasetSet
  <2> HIDE DEF f
  <2> QED
    BY <1>2, <2>1, FS_Surjection
<1> QED
  BY <1>1, <1>3, FS_Subset

LEMMA EvidenceIs ==
  ASSUME NEW ev, Evident(ev), NEW c \in Everyone, NEW scope,
         NEW d \in FilesIn(ev, c, scope), NEW e, e = ev[c][d]
  PROVE  /\ e \in Attempts \cup Successes
         /\ e.reps \in Nat
         /\ "metric" \in DOMAIN e =>
              e.metric \in [Metrics -> Measurement]
<1>1. d \in DatasetSet /\ HasEvidence(e)
  BY DEF FilesIn, FilesOf
<1>2. e \in {NoEvidence} \cup Attempts \cup Successes
  BY <1>1 DEF Evident
<1>3. e # NoEvidence
  BY <1>1 DEF HasEvidence, NoEvidence
<1>4. e \in Attempts => e.reps \in Nat /\ "metric" \notin DOMAIN e
  BY DEF Attempts
<1>5. e \in Successes => e.reps \in Nat /\ e.metric \in [Metrics -> Measurement]
  BY DEF Successes
<1> QED
  BY <1>2, <1>3, <1>4, <1>5

LEMMA RowIs ==
  ASSUME NEW ev, Evident(ev), NEW c \in Everyone, NEW scope, HasRow(ev, c, scope),
         NEW r, r = EvidenceRow(ev, c, scope)
  PROVE  /\ r.status = "complete" <=>
              \A d \in FilesIn(ev, c, scope) : ev[c][d].status = "complete"
         /\ r.roundtrip <=> \A d \in FilesIn(ev, c, scope) : ev[c][d].roundtrip
         /\ r.det <=> \A d \in FilesIn(ev, c, scope) : ev[c][d].det
         /\ r.reps \in Nat
         /\ \E d \in FilesIn(ev, c, scope) : r.reps = ev[c][d].reps
<1> DEFINE ds == FilesIn(ev, c, scope)
           st == IF \A d \in ds : ev[c][d].status = "complete" THEN "complete" ELSE "partial"
           rt == \A d \in ds : ev[c][d].roundtrip
           dt == \A d \in ds : ev[c][d].det
           all == {ev[c][d].reps : d \in ds}
           rp == Max(all)
           mt == IF \A d \in ds : "metric" \in DOMAIN ev[c][d]
                 THEN [m \in Metrics |->
                         [median |-> SumOf(ev, c, scope, m, "median"),
                          low |-> SumOf(ev, c, scope, m, "low"),
                          high |-> SumOf(ev, c, scope, m, "high")]]
                 ELSE <<>>
<1>1. r = [status |-> st, roundtrip |-> rt, det |-> dt, reps |-> rp, metric |-> mt]
  BY DEF EvidenceRow, SumOf
<1>2. rp \in Nat /\ \E d \in ds : rp = ev[c][d].reps
  <2>1. \A d \in ds : ev[c][d].reps \in Nat
    BY EvidenceIs
  <2>2. all \subseteq Int
    BY <2>1
  <2>3. ds # {} /\ IsFiniteSet(ds)
    BY FilesAreFinite DEF HasRow
  <2>4. IsFiniteSet(all) /\ all # {}
    <3> DEFINE f == [d \in ds |-> ev[c][d].reps]
    <3>1. f \in Surjection(ds, all)
      BY DEF Surjection
    <3>2. all # {}
      BY <2>3
    <3> HIDE DEF f, all, ds
    <3> QED
      BY <2>3, <3>1, <3>2, FS_Surjection
  <2>5. rp \in all
    <3> HIDE DEF all
    <3> QED
      BY <2>2, <2>4, MaxIs
  <2> QED
    BY <2>1, <2>5
<1>3. st = "complete" <=> \A d \in ds : ev[c][d].status = "complete"
  OBVIOUS
<1>4. /\ rt <=> \A d \in ds : ev[c][d].roundtrip
      /\ dt <=> \A d \in ds : ev[c][d].det
  OBVIOUS
<1> HIDE DEF st, rt, dt, rp, mt
<1>5. r.status = st /\ r.roundtrip = rt /\ r.det = dt /\ r.reps = rp
  BY <1>1
<1> QED
  BY <1>2, <1>3, <1>4, <1>5

LEMMA PointIs ==
  ASSUME NEW ev, Evident(ev), NEW c \in Everyone, NEW scope, HasPoint(ev, c, scope),
         NEW r, r = EvidenceRow(ev, c, scope), NEW m \in Metrics
  PROVE  /\ r.metric[m].median = SumOf(ev, c, scope, m, "median")
         /\ r.metric[m].low = SumOf(ev, c, scope, m, "low")
         /\ r.metric[m].high = SumOf(ev, c, scope, m, "high")
         /\ r.metric[m].median \in Nat /\ r.metric[m].low \in Nat
         /\ r.metric[m].high \in Nat
<1> DEFINE ds == FilesIn(ev, c, scope)
           there == \A d \in ds : "metric" \in DOMAIN ev[c][d]
           full == [k \in Metrics |->
                         [median |-> SumOf(ev, c, scope, k, "median"),
                          low |-> SumOf(ev, c, scope, k, "low"),
                          high |-> SumOf(ev, c, scope, k, "high")]]
<1>1. r.metric = IF there THEN full ELSE <<>>
  BY DEF EvidenceRow, SumOf
<1>2. DOMAIN r.metric = Metrics
  BY DEF HasPoint
<1>3. there
  <2>1. DOMAIN <<>> = {}
    OBVIOUS
  <2> HIDE DEF there, full
  <2> QED
    BY <1>1, <1>2, <2>1
<1>4. /\ r.metric[m].median = SumOf(ev, c, scope, m, "median")
      /\ r.metric[m].low = SumOf(ev, c, scope, m, "low")
      /\ r.metric[m].high = SumOf(ev, c, scope, m, "high")
  BY <1>1, <1>3
<1>5. ASSUME NEW field \in {"median", "low", "high"}
      PROVE  SumOf(ev, c, scope, m, field) \in Nat
  <2> DEFINE f == [d \in ds |-> ev[c][d].metric[m][field]]
  <2>1. ASSUME NEW d \in ds PROVE f[d] \in Nat
    <3>1. ev[c][d].metric \in [Metrics -> Measurement]
      BY <1>3, EvidenceIs
    <3>2. ev[c][d].metric[m] \in Measurement
      BY <3>1
    <3>3. \A k \in Measurement : k[field] \in Nat
      BY <1>5 DEF Measurement
    <3> QED
      BY <3>2, <3>3
  <2>2. IsFiniteSet(ds)
    BY FilesAreFinite
  <2> HIDE DEF f
  <2>3. SumOver(f, ds) \in Nat
    <3> HIDE DEF ds
    <3> QED
      BY <2>1, <2>2, SumIsNat
  <2> QED
    BY <2>3 DEF SumOf, f
<1> QED
  BY <1>4, <1>5

LEMMA PassMeans ==
  ASSUME NEW ev, Evident(ev), NEW p \in Profiles, NEW b \in Baselines, NEW s \in Scopes,
         Passes(ev, p, b, s)
  PROVE  /\ FilesIn(ev, p, s) = FilesIn(ev, b, s) /\ FilesIn(ev, p, s) # {}
         /\ \A d \in FilesIn(ev, p, s) :
              /\ ev[p][d].status = "complete" /\ ev[b][d].status = "complete"
              /\ ev[p][d].roundtrip /\ ev[b][d].roundtrip /\ ev[p][d].det
              /\ ev[p][d].input = ev[b][d].input
         /\ \A m \in Metrics : SumOf(ev, p, s, m, "high") <= SumOf(ev, b, s, m, "low")
         /\ \/ \E d \in FilesIn(ev, p, s) : ev[p][d].reps >= StrictReps
            \/ \A m \in Metrics : 50 * (SumOf(ev, b, s, m, "median") - SumOf(ev, p, s, m, "median"))
                                     >= SumOf(ev, b, s, m, "median")
         /\ \E m \in Metrics : SumOf(ev, p, s, m, "median") < SumOf(ev, b, s, m, "median")
<1> DEFINE r == EvidenceRow(ev, p, s)
           q == EvidenceRow(ev, b, s)
<1>1. p \in Everyone /\ b \in Everyone
  BY DEF Everyone
<1>2. /\ HasRow(ev, p, s) /\ HasRow(ev, b, s)
      /\ HasPoint(ev, p, s) /\ HasPoint(ev, b, s)
      /\ IdentityOk(ev, p, b, s)
      /\ \A m \in Metrics : Direction(ev, p, b, s, m) = "confirmed"
  BY DEF Passes, PairConfidence
<1>3. /\ r.roundtrip /\ q.roundtrip /\ r.det
      /\ \A m \in Metrics : NotWorse(r, q, m)
      /\ Strict(r, q) # {}
  BY DEF Passes
<1>4. PICK better \in Metrics : r.metric[better].median < q.metric[better].median
  BY <1>3 DEF Strict
<1>5. \A m \in Metrics : /\ SummaryReady(ev, p, s) /\ SummaryReady(ev, b, s)
                         /\ PairProtocolOk(r, q) /\ Separated(r, q, m)
  BY <1>2 DEF Direction
<1>6. r.status = "complete" /\ q.status = "complete"
  BY <1>4, <1>5 DEF SummaryReady
<1>7. PairProtocolOk(r, q)
  BY <1>4, <1>5
<1>8. \A m \in Metrics : r.metric[m].high <= q.metric[m].low
  BY <1>3, <1>5 DEF Separated
<1>9. \A m \in Metrics :
        /\ r.metric[m].median = SumOf(ev, p, s, m, "median")
        /\ r.metric[m].high = SumOf(ev, p, s, m, "high")
        /\ q.metric[m].median = SumOf(ev, b, s, m, "median")
        /\ q.metric[m].low = SumOf(ev, b, s, m, "low")
        /\ r.metric[m].median \in Nat /\ q.metric[m].median \in Nat
  BY <1>1, <1>2, PointIs
<1> HIDE DEF r, q
<1>10. /\ \A d \in FilesIn(ev, p, s) : ev[p][d].status = "complete"
       /\ \A d \in FilesIn(ev, p, s) : ev[p][d].roundtrip
       /\ \A d \in FilesIn(ev, p, s) : ev[p][d].det
       /\ \E d \in FilesIn(ev, p, s) : r.reps = ev[p][d].reps
  <2>1. r = EvidenceRow(ev, p, s)
    BY DEF r
  <2> QED
    BY <1>1, <1>2, <1>3, <1>6, <2>1, RowIs
<1>11. /\ \A d \in FilesIn(ev, b, s) : ev[b][d].status = "complete"
       /\ \A d \in FilesIn(ev, b, s) : ev[b][d].roundtrip
  <2>1. q = EvidenceRow(ev, b, s)
    BY DEF q
  <2> QED
    BY <1>1, <1>2, <1>3, <1>6, <2>1, RowIs
<1>12. /\ FilesIn(ev, p, s) = FilesIn(ev, b, s) /\ FilesIn(ev, p, s) # {}
       /\ \A d \in FilesIn(ev, p, s) : ev[p][d].input = ev[b][d].input
  BY <1>2 DEF IdentityOk, HasRow
<1>13. \/ \E d \in FilesIn(ev, p, s) : ev[p][d].reps >= StrictReps
       \/ \A m \in Metrics : 50 * (SumOf(ev, b, s, m, "median") - SumOf(ev, p, s, m, "median"))
                                >= SumOf(ev, b, s, m, "median")
  <2>1. CASE CloseMedians(r, q)
    <3>1. r.reps >= StrictReps
      BY <1>7, <2>1 DEF PairProtocolOk
    <3> QED
      BY <1>10, <3>1
  <2>2. CASE ~CloseMedians(r, q)
    <3>1. ASSUME NEW m \in Metrics
          PROVE  50 * (SumOf(ev, b, s, m, "median") - SumOf(ev, p, s, m, "median"))
                   >= SumOf(ev, b, s, m, "median")
      <4> DEFINE x == r.metric[m].median
                 y == q.metric[m].median
      <4>1. ~(50 * Gap(x, y) < Larger(x, y))
        BY <2>2 DEF CloseMedians
      <4>2. x <= y
        BY <1>3 DEF NotWorse
      <4>3. x \in Nat /\ y \in Nat
        BY <1>9
      <4>4. x = SumOf(ev, p, s, m, "median") /\ y = SumOf(ev, b, s, m, "median")
        BY <1>9
      <4> HIDE DEF x, y
      <4>5. 50 * (y - x) >= y
        BY <4>1, <4>2, <4>3 DEF Gap, Larger
      <4> QED
        BY <4>4, <4>5
    <3> QED
      BY <3>1
  <2> QED
    BY <2>1, <2>2
<1> QED
  <2>1. \A m \in Metrics : SumOf(ev, p, s, m, "high") <= SumOf(ev, b, s, m, "low")
    BY <1>8, <1>9
  <2>2. \E m \in Metrics : SumOf(ev, p, s, m, "median") < SumOf(ev, b, s, m, "median")
    BY <1>4, <1>9
  <2> QED
    BY <1>10, <1>11, <1>12, <1>13, <2>1, <2>2

-------------------------------------------------------------------------------
(* Certificates: the invariant.                                            *)

\* Every cell was drawn from its evidence, and the artifacts are those of the
\* whole of it.
CertificateInv ==
  /\ DOMAIN drawn \subseteq CellSet
  /\ \A cell \in DOMAIN drawn : drawn[cell] \in Evidence[cell[1]]
  /\ \/ artifacts = Nothing
     \/ DOMAIN drawn = CellSet /\ artifacts = Artifacts(EvidenceOf(drawn))

LEMMA DrawnIsEvident ==
  ASSUME CertificateInv, DOMAIN drawn = CellSet,
         NEW ev, ev = EvidenceOf(drawn)
  PROVE  Evident(ev) /\ \A c \in Everyone, d \in DatasetSet : ev[c][d] = drawn[<<c, d>>]
<1>1. \A c \in Everyone, d \in DatasetSet : ev[c][d] = drawn[<<c, d>>]
  BY DEF EvidenceOf, Everyone
<1>2. ASSUME NEW c \in Everyone, NEW d \in DatasetSet
      PROVE  ev[c][d] \in {NoEvidence} \cup Attempts \cup Successes
  <2>1. <<c, d>> \in CellSet /\ <<c, d>>[1] = c
    BY DEF CellSet, Everyone
  <2>2. drawn[<<c, d>>] \in Evidence[c]
    BY <2>1 DEF CertificateInv
  <2>3. Evidence[c] \subseteq {NoEvidence} \cup Attempts \cup Successes
    BY EvidenceAssumption DEF Everyone
  <2> QED
    BY <1>1, <2>2, <2>3
<1> QED
  BY <1>1, <1>2 DEF Evident

LEMMA CertificatesKeep ==
  ASSUME CertificateInv, [CertificateNext]_certificateVars
  PROVE  CertificateInv'
<1>1. CASE Measure
  <2> DEFINE cell == CHOOSE c \in CellSet \ DOMAIN drawn : TRUE
  <2>1. cell \in CellSet \ DOMAIN drawn
    BY <1>1 DEF CertificateInv, Measure
  <2> HIDE DEF cell
  <2>2. PICK e \in Evidence[cell[1]] :
          drawn' = [c \in DOMAIN drawn \cup {cell} |-> IF c = cell THEN e ELSE drawn[c]]
    BY <1>1 DEF Measure, cell
  <2>3. artifacts = Nothing /\ artifacts' = Nothing' /\ Nothing' = Nothing
    BY <1>1 DEF Measure, Nothing
  <2>4. DOMAIN drawn' = DOMAIN drawn \cup {cell} /\ DOMAIN drawn' \subseteq CellSet
    BY <2>1, <2>2 DEF CertificateInv
  <2>5. \A c \in DOMAIN drawn' : drawn'[c] \in Evidence[c[1]]
    BY <2>2 DEF CertificateInv
  <2> QED
    BY <2>3, <2>4, <2>5 DEF CertificateInv, CellSet
<1>2. CASE Analyse
  <2>1. /\ DOMAIN drawn = CellSet /\ drawn' = drawn
        /\ artifacts' = Artifacts(EvidenceOf(drawn))
    BY <1>2 DEF Analyse
  <2>2. artifacts' = Artifacts(EvidenceOf(drawn'))
    BY <2>1
  <2> QED
    BY <2>1, <2>2 DEF CertificateInv, CellSet
<1>3. CASE UNCHANGED certificateVars
  BY <1>3 DEF CertificateInv, certificateVars, CellSet
<1> QED
  BY <1>1, <1>2, <1>3 DEF CertificateNext

LEMMA RowOfBuilt ==
  ASSUME NEW ev, NEW r \in Built(ev)
  PROVE  \E p \in Profiles, b \in Baselines, s \in Scopes :
           /\ r.profile = p /\ r.baseline = b /\ r.scope = s
           /\ r.status = ComparisonStatus(ev, p, b, s)
           /\ r.pass <=> Passes(ev, p, b, s)
           /\ r = ComparisonRow(ev, p, b, s)
<1>1. PICK p \in Profiles, b \in Baselines, s \in Scopes : r = ComparisonRow(ev, p, b, s)
  BY DEF Built
<1> DEFINE ok == Passes(ev, p, b, s)
           st == ComparisonStatus(ev, p, b, s)
<1>2. r = [profile |-> p, baseline |-> b, scope |-> s, status |-> st, pass |-> ok]
  BY <1>1 DEF ComparisonRow
<1> HIDE DEF ok, st
<1>3. /\ r.profile = p /\ r.baseline = b /\ r.scope = s /\ r.status = st /\ r.pass = ok
  BY <1>2
<1>4. r.pass <=> ok
  BY <1>3
<1> QED
  BY <1>1, <1>3, <1>4 DEF ok, st

LEMMA WhatIsWritten ==
  ASSUME CertificateInv
  PROVE  \/ /\ artifacts = Nothing
            /\ artifacts.rows = {} /\ artifacts.failures = {}
            /\ \A s \in Scopes : artifacts.pareto[s] = {}
         \/ /\ DOMAIN drawn = CellSet /\ artifacts = Artifacts(EvidenceOf(drawn))
            /\ artifacts.rows = Built(EvidenceOf(drawn))
            /\ artifacts.failures = Failures(EvidenceOf(drawn))
            /\ \A s \in Scopes : artifacts.pareto[s] = Envelope(EvidenceOf(drawn), s)
<1>1. CASE artifacts = Nothing
  BY <1>1 DEF Nothing
<1>2. CASE artifacts = Artifacts(EvidenceOf(drawn)) /\ DOMAIN drawn = CellSet
  BY <1>2 DEF Artifacts
<1> QED
  BY <1>1, <1>2 DEF CertificateInv

LEMMA HereIs ==
  ASSUME CertificateInv, DOMAIN drawn = CellSet, NEW ev, ev = EvidenceOf(drawn),
         NEW c \in Everyone, NEW s \in Scopes
  PROVE  FilesIn(ev, c, s)
           = {d \in (IF s = Corpus THEN DatasetSet ELSE {s}) : HasEvidence(drawn[<<c, d>>])}
<1>1. \A d \in DatasetSet : ev[c][d] = drawn[<<c, d>>]
  BY DrawnIsEvident
<1>2. CASE s = Corpus
  BY <1>1, <1>2 DEF FilesIn, FilesOf
<1>3. CASE s # Corpus
  <2>1. s \in DatasetSet
    BY <1>3 DEF Scopes
  <2> QED
    BY <1>1, <1>3, <2>1 DEF FilesIn, FilesOf
<1> QED
  BY <1>2, <1>3

LEMMA CertificatesDominate ==
  ASSUME CertificateInv
  PROVE  PassMeansDominates
<1> SUFFICES ASSUME NEW r \in artifacts.rows, r.pass
    PROVE
    LET ds == IF r.scope = Corpus THEN DatasetSet ELSE {r.scope}
        here == {d \in ds : HasEvidence(drawn[<<r.profile, d>>])}
        p(d) == drawn[<<r.profile, d>>]
        b(d) == drawn[<<r.baseline, d>>]
        total(m, c, field) ==
          SumOver([d \in here |-> drawn[<<c, d>>].metric[m][field]], here)
    IN  /\ here = {d \in ds : HasEvidence(drawn[<<r.baseline, d>>])} /\ here # {}
        /\ \A d \in here : /\ p(d).status = "complete" /\ b(d).status = "complete"
                           /\ p(d).roundtrip /\ b(d).roundtrip /\ p(d).det
                           /\ p(d).input = b(d).input
        /\ \A m \in Metrics : total(m, r.profile, "high") <= total(m, r.baseline, "low")
        /\ \/ \E d \in here : p(d).reps >= StrictReps
           \/ \A m \in Metrics : 50 * (total(m, r.baseline, "median")
                                         - total(m, r.profile, "median"))
                                    >= total(m, r.baseline, "median")
        /\ \E m \in Metrics :
             total(m, r.profile, "median") < total(m, r.baseline, "median")
  BY DEF PassMeansDominates
<1> DEFINE ev == EvidenceOf(drawn)
<1>1. DOMAIN drawn = CellSet /\ r \in Built(ev)
  BY WhatIsWritten
<1> HIDE DEF ev
<1> DEFINE p == r.profile
           b == r.baseline
           s == r.scope
<1>2. p \in Profiles /\ b \in Baselines /\ s \in Scopes /\ Passes(ev, p, b, s)
  BY <1>1, RowOfBuilt
<1> HIDE DEF p, b, s
<1> DEFINE ds == IF s = Corpus THEN DatasetSet ELSE {s}
           here == {d \in ds : HasEvidence(drawn[<<p, d>>])}
           total(m, c, field) ==
             SumOver([d \in here |-> drawn[<<c, d>>].metric[m][field]], here)
<1>3. p \in Everyone /\ b \in Everyone
  BY <1>2 DEF Everyone
<1>4. /\ Evident(ev) /\ ev = EvidenceOf(drawn)
      /\ \A c \in Everyone, d \in DatasetSet : ev[c][d] = drawn[<<c, d>>]
  BY <1>1, DrawnIsEvident DEF ev
<1>5. /\ FilesIn(ev, p, s) = here
      /\ FilesIn(ev, b, s) = {d \in ds : HasEvidence(drawn[<<b, d>>])}
  BY <1>1, <1>2, <1>3, <1>4, HereIs
<1>6. here \subseteq DatasetSet
  BY <1>5, FilesAreFinite
<1> HIDE DEF here
<1>7. FilesIn(ev, p, s) = FilesIn(ev, b, s)
  BY <1>2, <1>4, PassMeans
<1>8. ASSUME NEW c \in {p, b}, NEW m \in Metrics, NEW field \in {"low", "median", "high"}
      PROVE  SumOf(ev, c, s, m, field) = total(m, c, field)
  <2>1. FilesIn(ev, c, s) = here /\ c \in Everyone
    BY <1>3, <1>5, <1>7
  <2>2. [d \in here |-> ev[c][d].metric[m][field]]
          = [d \in here |-> drawn[<<c, d>>].metric[m][field]]
    BY <1>4, <1>6, <2>1
  <2> QED
    BY <2>1, <2>2 DEF SumOf
<1>9. \A d \in here : /\ ev[p][d] = drawn[<<p, d>>] /\ ev[b][d] = drawn[<<b, d>>]
  BY <1>3, <1>4, <1>6
<1> HIDE DEF ds, total
<1>10. /\ FilesIn(ev, p, s) = FilesIn(ev, b, s) /\ FilesIn(ev, p, s) # {}
       /\ \A d \in FilesIn(ev, p, s) :
            /\ ev[p][d].status = "complete" /\ ev[b][d].status = "complete"
            /\ ev[p][d].roundtrip /\ ev[b][d].roundtrip /\ ev[p][d].det
            /\ ev[p][d].input = ev[b][d].input
       /\ \A m \in Metrics : SumOf(ev, p, s, m, "high") <= SumOf(ev, b, s, m, "low")
       /\ \/ \E d \in FilesIn(ev, p, s) : ev[p][d].reps >= StrictReps
          \/ \A m \in Metrics : 50 * (SumOf(ev, b, s, m, "median") - SumOf(ev, p, s, m, "median"))
                                   >= SumOf(ev, b, s, m, "median")
       /\ \E m \in Metrics : SumOf(ev, p, s, m, "median") < SumOf(ev, b, s, m, "median")
  BY <1>2, <1>4, PassMeans
<1>11. /\ here = {d \in ds : HasEvidence(drawn[<<b, d>>])} /\ here # {}
       /\ \A d \in here :
            /\ drawn[<<p, d>>].status = "complete" /\ drawn[<<b, d>>].status = "complete"
            /\ drawn[<<p, d>>].roundtrip /\ drawn[<<b, d>>].roundtrip /\ drawn[<<p, d>>].det
            /\ drawn[<<p, d>>].input = drawn[<<b, d>>].input
  BY <1>5, <1>9, <1>10
<1>12. \A m \in Metrics : total(m, p, "high") <= total(m, b, "low")
  BY <1>8, <1>10
<1>13. \/ \E d \in here : drawn[<<p, d>>].reps >= StrictReps
       \/ \A m \in Metrics : 50 * (total(m, b, "median") - total(m, p, "median"))
                                >= total(m, b, "median")
  BY <1>5, <1>8, <1>9, <1>10
<1>14. \E m \in Metrics : total(m, p, "median") < total(m, b, "median")
  BY <1>8, <1>10
<1> QED
  BY ONLY <1>11, <1>12, <1>13, <1>14, Zenon DEF here, ds, total, p, b, s

LEMMA CertificatesAreComplete ==
  ASSUME CertificateInv
  PROVE  NothingIsOmitted
<1> SUFFICES ASSUME artifacts # Nothing
    PROVE
    /\ \A p \in Profiles, b \in Baselines, s \in Scopes :
         Cardinality({r \in artifacts.rows :
                        r.profile = p /\ r.baseline = b /\ r.scope = s}) = 1
    /\ \A r \in artifacts.rows : r \in artifacts.failures <=> r.status # "pass"
    /\ \A r \in artifacts.rows :
         (r.scope # Corpus /\ r.status = "missing") =>
           \E c \in {r.profile, r.baseline} : ~HasEvidence(drawn[<<c, r.scope>>])
  BY DEF NothingIsOmitted
<1> DEFINE ev == EvidenceOf(drawn)
<1>1. /\ DOMAIN drawn = CellSet
      /\ artifacts.rows = Built(ev) /\ artifacts.failures = Failures(ev)
  BY WhatIsWritten
<1> HIDE DEF ev
<1>2. ev = EvidenceOf(drawn)
  BY DEF ev
<1>3. ASSUME NEW p \in Profiles, NEW b \in Baselines, NEW s \in Scopes
      PROVE  Cardinality({r \in artifacts.rows :
                            r.profile = p /\ r.baseline = b /\ r.scope = s}) = 1
  <2> DEFINE x == ComparisonRow(ev, p, b, s)
             S == {r \in artifacts.rows : r.profile = p /\ r.baseline = b /\ r.scope = s}
  <2>1. x \in Built(ev)
    BY DEF Built
  <2>2. x.profile = p /\ x.baseline = b /\ x.scope = s
    BY DEF ComparisonRow
  <2>3. ASSUME NEW r \in Built(ev), r.profile = p, r.baseline = b, r.scope = s
        PROVE  r = x
    BY <2>3, RowOfBuilt
  <2> HIDE DEF x
  <2>4. S = {x}
    BY <1>1, <2>1, <2>2, <2>3
  <2> HIDE DEF S
  <2>5. Cardinality(S) = 1
    BY <2>4, FS_Singleton
  <2> QED
    BY <2>5 DEF S
<1>4. ASSUME NEW r \in artifacts.rows
      PROVE  /\ r \in artifacts.failures <=> r.status # "pass"
             /\ (r.scope # Corpus /\ r.status = "missing") =>
                  \E c \in {r.profile, r.baseline} : ~HasEvidence(drawn[<<c, r.scope>>])
  <2>1. r \in Built(ev)
    BY <1>1
  <2>2. PICK p \in Profiles, b \in Baselines, s \in Scopes :
          /\ r.profile = p /\ r.baseline = b /\ r.scope = s
          /\ r.status = ComparisonStatus(ev, p, b, s)
          /\ r.pass <=> Passes(ev, p, b, s)
    BY <2>1, RowOfBuilt
  <2>3. r \in artifacts.failures <=> ~Passes(ev, p, b, s)
    BY <1>1, <2>1, <2>2 DEF Failures
  <2>4. ComparisonStatus(ev, p, b, s) = "pass" <=> Passes(ev, p, b, s)
    BY DEF ComparisonStatus
  <2>5. ASSUME s # Corpus, r.status = "missing"
        PROVE  \E c \in {p, b} : ~HasEvidence(drawn[<<c, s>>])
    <3>1. PICK c \in {p, b} : ~HasRow(ev, c, s)
      BY <2>2, <2>5 DEF ComparisonStatus
    <3>2. c \in Everyone /\ s \in Scopes
      BY DEF Everyone
    <3>3. FilesIn(ev, c, s) = {d \in {s} : HasEvidence(drawn[<<c, d>>])}
      BY <1>1, <1>2, <2>5, <3>2, HereIs
    <3> QED
      BY <3>1, <3>3 DEF HasRow
  <2> QED
    BY <2>2, <2>3, <2>4, <2>5
<1> QED
  BY <1>3, <1>4

\* Domination is a strict order on the points of a scope.
LEMMA DominatesIsStrict ==
  ASSUME NEW ev, Evident(ev), NEW s, NEW P, P \subseteq Everyone,
         \A p \in P : HasPoint(ev, p, s)
  PROVE  /\ \A p \in P : ~Dominates(EvidenceRow(ev, p, s), EvidenceRow(ev, p, s))
         /\ \A o, p, q \in P :
              /\ Dominates(EvidenceRow(ev, o, s), EvidenceRow(ev, p, s))
              /\ Dominates(EvidenceRow(ev, p, s), EvidenceRow(ev, q, s))
              => Dominates(EvidenceRow(ev, o, s), EvidenceRow(ev, q, s))
<1> DEFINE v == [p \in P |-> [m \in Metrics |-> EvidenceRow(ev, p, s).metric[m].median]]
           beats(p, q) == /\ \A m \in Metrics : v[p][m] <= v[q][m]
                          /\ \E m \in Metrics : v[p][m] < v[q][m]
<1>1. \A p \in P, m \in Metrics : v[p][m] \in Nat
  BY PointIs
<1>2. \A p, q \in P :
        Dominates(EvidenceRow(ev, p, s), EvidenceRow(ev, q, s)) <=> beats(p, q)
  BY DEF Dominates
<1> HIDE DEF v
<1>3. \A p \in P : ~beats(p, p)
  BY <1>1
<1>4. ASSUME NEW o \in P, NEW p \in P, NEW q \in P, beats(o, p), beats(p, q)
      PROVE  beats(o, q)
  <2>1. \A m \in Metrics : v[o][m] \in Nat /\ v[p][m] \in Nat /\ v[q][m] \in Nat
    BY <1>1
  <2>2. \A m \in Metrics : v[o][m] <= v[q][m]
    BY <1>4, <2>1
  <2>3. \E m \in Metrics : v[o][m] < v[q][m]
    BY <1>4, <2>1
  <2> QED
    BY <2>2, <2>3
<1> HIDE DEF beats
<1> QED
  BY <1>2, <1>3, <1>4

StrictOrder(P, Beats) ==
  /\ Beats \subseteq P \X P /\ \A p \in P : <<p, p>> \notin Beats
  /\ \A o, p, q \in P : <<o, p>> \in Beats /\ <<p, q>> \in Beats => <<o, q>> \in Beats

\* In a finite strict order whatever is beaten is beaten by something that is
\* not beaten itself.
LEMMA BestExists ==
  ASSUME NEW P, IsFiniteSet(P), NEW Beats, StrictOrder(P, Beats),
         NEW q \in P, NEW o \in P, <<o, q>> \in Beats
  PROVE  \E p \in P : <<p, q>> \in Beats /\ \A r \in P : <<r, p>> \notin Beats
<1> USE DEF StrictOrder
<1> DEFINE above(p) == {r \in P : <<r, p>> \in Beats}
           Counts == {Cardinality(above(p)) : p \in above(q)}
<1>1. \A p \in P : IsFiniteSet(above(p)) /\ Cardinality(above(p)) \in Nat
  <2> SUFFICES ASSUME NEW p \in P PROVE IsFiniteSet(above(p)) /\ Cardinality(above(p)) \in Nat
    OBVIOUS
  <2>1. above(p) \subseteq P
    OBVIOUS
  <2> HIDE DEF above
  <2> QED
    BY <2>1, FS_Subset, FS_CardinalityType
<1>2. o \in above(q) /\ above(q) \subseteq P
  OBVIOUS
<1>3. Counts # {} /\ Counts \subseteq Nat
  <2> HIDE DEF above
  <2> QED
    BY <1>1, <1>2
<1>4. PICK k \in Counts : \A j \in Counts : <<j, k>> \notin OpToRel(<, Nat)
  <2> HIDE DEF Counts
  <2> QED
    BY <1>3, NatLessThanWellFounded, WFMin
<1>5. PICK p \in above(q) : k = Cardinality(above(p))
  BY <1>4
<1>6. ASSUME NEW r \in P, <<r, p>> \in Beats PROVE FALSE
  <2>1. r \in above(q) /\ r \in above(p)
    BY <1>5, <1>6
  <2>2. above(r) \subseteq above(p) \ {r}
    BY <1>5, <1>6
  <2>3. p \in P
    BY <1>5
  <2> HIDE DEF above
  <2>4. Cardinality(above(p) \ {r}) = Cardinality(above(p)) - 1 /\ IsFiniteSet(above(p) \ {r})
    BY <1>1, <2>1, <2>3, FS_RemoveElement
  <2>5. Cardinality(above(r)) <= Cardinality(above(p) \ {r})
    BY <2>2, <2>4, FS_Subset
  <2>6. Cardinality(above(r)) \in Counts
    BY <2>1
  <2>7. /\ Cardinality(above(r)) \in Nat /\ k \in Nat
        /\ Cardinality(above(r)) < k
    BY <1>1, <1>5, <2>1, <2>3, <2>4, <2>5
  <2>8. <<Cardinality(above(r)), k>> \in OpToRel(<, Nat)
    BY <2>7 DEF OpToRel
  <2> QED
    BY <1>4, <2>6, <2>8
<1> QED
  BY <1>5, <1>6

LEMMA EnvelopeHolds ==
  ASSUME CertificateInv
  PROVE  EnvelopeIsMaximal
<1> DEFINE ev == EvidenceOf(drawn)
<1> SUFFICES ASSUME artifacts # Nothing, NEW s \in Scopes
    PROVE  /\ \A p, q \in artifacts.pareto[s] :
                ~Dominates(EvidenceRow(ev, p, s), EvidenceRow(ev, q, s))
           /\ \A p \in Profiles \ artifacts.pareto[s] : PointAvailable(ev, p, s) =>
                \E q \in artifacts.pareto[s] :
                  Dominates(EvidenceRow(ev, q, s), EvidenceRow(ev, p, s))
  BY DEF EnvelopeIsMaximal
<1>1. DOMAIN drawn = CellSet /\ artifacts.pareto[s] = Envelope(ev, s)
  BY WhatIsWritten
<1>2. Evident(ev)
  BY <1>1, DrawnIsEvident
<1> HIDE DEF ev
<1> DEFINE P == {p \in Profiles : PointAvailable(ev, p, s)}
           B == {pq \in P \X P : Dominates(EvidenceRow(ev, pq[1], s), EvidenceRow(ev, pq[2], s))}
<1>3. /\ P \subseteq Everyone /\ \A p \in P : HasPoint(ev, p, s)
      /\ P \subseteq Profiles
  BY DEF Everyone, PointAvailable
<1>4. IsFiniteSet(P)
  <2> HIDE DEF P
  <2> QED
    BY <1>3, EvidenceAssumption, FS_Subset
<1>5. artifacts.pareto[s]
        = {p \in P : ~\E o \in P : Dominates(EvidenceRow(ev, o, s), EvidenceRow(ev, p, s))}
  BY <1>1 DEF Envelope
<1>6. \A p \in Profiles : PointAvailable(ev, p, s) => p \in P
  OBVIOUS
<1> HIDE DEF P
<1>7. \A p, q \in P : <<p, q>> \in B <=> Dominates(EvidenceRow(ev, p, s), EvidenceRow(ev, q, s))
  OBVIOUS
<1>8. B \subseteq P \X P
  OBVIOUS
<1> HIDE DEF B
<1>9. /\ \A p \in P : <<p, p>> \notin B
      /\ \A o, p, q \in P : <<o, p>> \in B /\ <<p, q>> \in B => <<o, q>> \in B
  BY <1>2, <1>3, <1>7, DominatesIsStrict
<1>10. artifacts.pareto[s] = {p \in P : \A o \in P : <<o, p>> \notin B}
  BY <1>5, <1>7
<1>11. \A p, q \in artifacts.pareto[s] :
         ~Dominates(EvidenceRow(ev, p, s), EvidenceRow(ev, q, s))
  BY <1>7, <1>10
<1>12. ASSUME NEW p \in Profiles \ artifacts.pareto[s], PointAvailable(ev, p, s)
       PROVE  \E q \in artifacts.pareto[s] :
                Dominates(EvidenceRow(ev, q, s), EvidenceRow(ev, p, s))
  <2>1. p \in P
    BY <1>6, <1>12
  <2>2. PICK o \in P : <<o, p>> \in B
    BY <1>10, <2>1
  <2>3. StrictOrder(P, B)
    BY <1>8, <1>9 DEF StrictOrder
  <2>4. \E q \in P : <<q, p>> \in B /\ \A r \in P : <<r, q>> \notin B
    BY ONLY <1>4, <2>1, <2>2, <2>3, BestExists
  <2>5. PICK q \in P : <<q, p>> \in B /\ \A r \in P : <<r, q>> \notin B
    BY <2>4
  <2> QED
    BY <1>7, <1>10, <2>1, <2>5
<1> QED
  BY <1>11, <1>12

LEMMA ArtifactsAreTyped ==
  ASSUME CertificateInv
  PROVE  ArtifactsTyped
<1> DEFINE ev == EvidenceOf(drawn)
<1>1. DOMAIN drawn \subseteq CellSet
  BY DEF CertificateInv
<1>2. artifacts.failures \subseteq artifacts.rows
  BY WhatIsWritten DEF Failures
<1>3. ASSUME NEW s \in Scopes, NEW p \in artifacts.pareto[s],
             NEW d \in FilesIn(ev, p, s)
      PROVE  drawn[<<p, d>>].status = "complete"
  <2>1. DOMAIN drawn = CellSet /\ p \in Envelope(ev, s)
    BY <1>3, WhatIsWritten
  <2>2. p \in Everyone /\ PointAvailable(ev, p, s)
    BY <2>1 DEF Envelope, Everyone
  <2>3. Evident(ev) /\ \A f \in DatasetSet : ev[p][f] = drawn[<<p, f>>]
    BY <2>1, <2>2, DrawnIsEvident
  <2> HIDE DEF ev
  <2> DEFINE r == EvidenceRow(ev, p, s)
  <2>4. HasRow(ev, p, s) /\ r.status = "complete"
    BY <2>2 DEF PointAvailable, HasPoint
  <2> HIDE DEF r
  <2>5. r = EvidenceRow(ev, p, s)
    BY DEF r
  <2>6. ev[p][d].status = "complete"
    BY <1>3, <2>2, <2>3, <2>4, <2>5, RowIs
  <2>7. d \in DatasetSet
    BY <1>3, FilesAreFinite
  <2> QED
    BY <2>3, <2>6, <2>7
<1> QED
  BY <1>1, <1>2, <1>3 DEF ArtifactsTyped

LEMMA CertificatesStart ==
  ASSUME CertificateInit
  PROVE  CertificateInv
<1>1. DOMAIN drawn = {} /\ artifacts = Nothing
  BY DEF CertificateInit
<1> QED
  BY <1>1 DEF CertificateInv

\* A certificate that passes dominates, nothing that is required is passed
\* over, and the envelope is the set of maximal points, for all evidence
\* (build_dominance_artifacts).
THEOREM Certificates == CertificateSpec => []CertificatesHold
<1>1. CertificateInit => CertificateInv
  BY CertificatesStart
<1>2. CertificateInv /\ [CertificateNext]_certificateVars => CertificateInv'
  BY CertificatesKeep
<1>3. CertificateInv => CertificatesHold
  BY ArtifactsAreTyped, CertificatesDominate, CertificatesAreComplete, EnvelopeHolds
     DEF CertificatesHold
<1> QED
  BY <1>1, <1>2, <1>3, PTL DEF CertificateSpec

-------------------------------------------------------------------------------
(* The schedule: every codec once in a block, every workload once in a     *)
(* repetition.                                                             *)

LEMMA DivMod ==
  ASSUME NEW W \in Nat \ {0}, NEW a \in Nat
  PROVE  a \div W \in Nat /\ a % W \in 0..W-1 /\ a = W * (a \div W) + (a % W)
<1>1. a % W \in 0..W-1
  OBVIOUS
<1>2. a = W * (a \div W) + (a % W)
  OBVIOUS
<1>3. a \div W \in Int
  OBVIOUS
<1>4. a \div W >= 0
  BY <1>1, <1>2, <1>3
<1> QED
  BY <1>1, <1>2, <1>3, <1>4

LEMMA QuotientBound ==
  ASSUME NEW W \in Nat \ {0}, NEW L \in Nat, NEW q \in Nat, NEW r \in 0..W-1,
         W * q + r < L * W
  PROVE  q < L
<1> SUFFICES ASSUME q >= L PROVE FALSE
  OBVIOUS
<1>1. PICK d \in Nat : q = L + d
  <2>1. q - L \in Nat /\ q = L + (q - L)
    OBVIOUS
  <2> QED
    BY <2>1
<1>2. W * q = L * W + W * d
  BY <1>1
<1>3. W * d >= 0
  OBVIOUS
<1>4. W * q \in Int /\ L * W \in Int /\ W * d \in Int
  BY <1>1
<1> QED
  BY <1>2, <1>3, <1>4

\* W * q grows with q, by at least W a step.
LEMMA ProductGrows ==
  ASSUME NEW W \in Nat, NEW p \in Nat, NEW q \in Nat, p < q
  PROVE  W * p + W <= W * q
<1>1. PICK d \in Nat : q = (p + 1) + d
  <2>1. q - (p + 1) \in Nat /\ q = (p + 1) + (q - (p + 1))
    OBVIOUS
  <2> QED
    BY <2>1
<1>2. W * q = (W * p + W) + W * d
  BY <1>1
<1>3. W * d >= 0
  OBVIOUS
<1>4. W * q \in Int /\ W * p \in Int /\ W * d \in Int
  BY <1>1
<1> QED
  BY <1>2, <1>3, <1>4

LEMMA DivUnique ==
  ASSUME NEW W \in Nat \ {0}, NEW q \in Nat, NEW r \in 0..W-1, NEW a, a = W * q + r
  PROVE  a \in Nat /\ a \div W = q /\ a % W = r
<1>0. W * q \in Nat
  OBVIOUS
<1>1. a \in Nat
  <2> DEFINE p == W * q
  <2>1. p \in Nat /\ a = p + r
    BY <1>0
  <2> HIDE DEF p
  <2> QED
    BY <2>1
<1> DEFINE y == a \div W
           z == a % W
<1>2. y \in Nat /\ z \in 0..W-1 /\ a = W * y + z
  BY <1>1, DivMod
<1> HIDE DEF y, z
<1>3. W * y \in Nat /\ W * q \in Nat
  BY <1>2
<1>4. ~(y < q)
  <2> SUFFICES ASSUME y < q PROVE FALSE
    OBVIOUS
  <2>1. W * y + W <= W * q
    BY <1>2, ProductGrows
  <2> QED
    BY <1>2, <1>3, <2>1
<1>5. ~(q < y)
  <2> SUFFICES ASSUME q < y PROVE FALSE
    OBVIOUS
  <2>1. W * q + W <= W * y
    BY <1>2, ProductGrows
  <2> QED
    BY <1>2, <1>3, <2>1
<1>6. y = q
  BY <1>2, <1>4, <1>5
<1>7. z = r
  BY <1>2, <1>3, <1>6
<1> QED
  BY <1>1, <1>6, <1>7 DEF y, z

Width == Len(Datasets)
\* The place of codec k on workload j in repetition r.
Slot(k, j, r) == BlockSize * (Width * r + (j - 1)) + k

LEMMA Widths == Width \in Nat /\ BlockSize \in Nat /\ Repetitions \in Nat
                /\ DOMAIN Datasets = 1..Width /\ DOMAIN Codecs = 1..BlockSize
BY SummaryAssumption DEF Width, BlockSize

LEMMA SlotIs ==
  ASSUME NEW k \in 1..BlockSize, NEW j \in 1..Width, NEW r \in Nat
  PROVE  /\ Slot(k, j, r) \in Nat \ {0}
         /\ Cell(Slot(k, j, r))
              = [block |-> Width * r + (j - 1), order |-> k - 1, rep |-> r,
                 data |-> Datasets[j], codec |-> Codecs[k]]
<1> DEFINE i == j - 1
           o == k - 1
           b == Width * r + i
           a == BlockSize * b + o
<1>1. Width \in Nat \ {0} /\ BlockSize \in Nat \ {0}
  BY Widths
<1>2. i \in 0..Width-1 /\ o \in 0..BlockSize-1 /\ o + 1 = k /\ i + 1 = j
  BY <1>1
<1> HIDE DEF i, o
<1>3. b \in Nat /\ b \div Width = r /\ b % Width = i
  <2>1. b = Width * r + i
    OBVIOUS
  <2> HIDE DEF b
  <2> QED
    BY <1>1, <1>2, <2>1, DivUnique
<1> HIDE DEF b
<1>4. a \in Nat /\ a \div BlockSize = b /\ a % BlockSize = o
  <2>1. a = BlockSize * b + o
    OBVIOUS
  <2> HIDE DEF a
  <2> QED
    BY <1>1, <1>2, <1>3, <2>1, DivUnique
<1> DEFINE p == BlockSize * b
<1>5. p \in Int /\ a = p + o /\ Slot(k, j, r) = p + k
  BY <1>1, <1>3 DEF Slot, b, i
<1> HIDE DEF p, a
<1>6. Slot(k, j, r) \in Nat \ {0} /\ Slot(k, j, r) - 1 = a
  BY <1>2, <1>4, <1>5
<1>7. Cell(Slot(k, j, r)) = [block |-> b, order |-> o, rep |-> r,
                             data |-> Datasets[j], codec |-> Codecs[k]]
  BY <1>2, <1>3, <1>4, <1>6 DEF Cell, Width
<1> QED
  BY <1>6, <1>7 DEF b, o, i

LEMMA SlotsFill ==
  ASSUME NEW n \in 1..ScheduleLength
  PROVE  \E k \in 1..BlockSize, j \in 1..Width, r \in 0..Repetitions-1 : n = Slot(k, j, r)
<1> DEFINE L == Repetitions * Width
           a == n - 1
           b == a \div BlockSize
           o == a % BlockSize
           r == b \div Width
           i == b % Width
<1>1. L \in Nat /\ ScheduleLength = L * BlockSize
  BY Widths DEF ScheduleLength, Width
<1>2. BlockSize \in Nat \ {0} /\ L # 0
  <2>1. BlockSize = 0 => L * BlockSize = 0
    BY <1>1
  <2>2. L = 0 => L * BlockSize = 0
    BY Widths
  <2>3. L * BlockSize # 0
    BY <1>1
  <2> QED
    BY <2>1, <2>2, <2>3, Widths
<1>3. Width \in Nat \ {0}
  <2>1. Width = 0 => L = 0
    BY Widths
  <2> QED
    BY <1>2, <2>1, Widths
<1> HIDE DEF L
<1>4. a \in Nat /\ a < L * BlockSize /\ n = a + 1
  <2>1. L * BlockSize \in Nat /\ n \in 1..(L * BlockSize)
    BY <1>1, <1>2
  <2> QED
    BY <2>1
<1> HIDE DEF a
<1>5. b \in Nat /\ o \in 0..BlockSize-1 /\ a = BlockSize * b + o
  BY <1>2, <1>4, DivMod
<1> HIDE DEF b, o
<1>6. b < L
  BY <1>1, <1>2, <1>4, <1>5, QuotientBound
<1>7. r \in Nat /\ i \in 0..Width-1 /\ b = Width * r + i
  BY <1>3, <1>5, DivMod
<1> HIDE DEF r, i
<1>8. r < Repetitions
  BY <1>3, <1>6, <1>7, Widths, QuotientBound DEF L
<1>9. o + 1 \in 1..BlockSize /\ i + 1 \in 1..Width /\ r \in 0..Repetitions-1
  BY <1>2, <1>3, <1>5, <1>7, <1>8, Widths
<1>10. n = Slot(o + 1, i + 1, r)
  <2>1. (i + 1) - 1 = i
    BY <1>7, <1>3
  <2>2. Slot(o + 1, i + 1, r) = BlockSize * b + (o + 1)
    BY <1>7, <2>1 DEF Slot
  <2>3. BlockSize * b \in Int
    BY <1>2, <1>5
  <2> QED
    BY <1>2, <1>4, <1>5, <2>2, <2>3
<1> QED
  BY <1>9, <1>10

\* Slots of one codec and workload come in the order of the repetitions.
LEMMA SlotsGrow ==
  ASSUME NEW k \in 1..BlockSize, NEW j \in 1..Width, NEW q \in Nat, NEW r \in Nat, q < r
  PROVE  Slot(k, j, q) <= Slot(k, j, r)
<1> DEFINE x == Width * q
           y == Width * r
<1>1. x + Width <= y
  BY Widths, ProductGrows
<1>2. x \in Nat /\ y \in Nat
  BY Widths
<1>3. Slot(k, j, q) = BlockSize * (x + (j - 1)) + k /\ Slot(k, j, r) = BlockSize * (y + (j - 1)) + k
  BY DEF Slot
<1> HIDE DEF x, y
<1> DEFINE u == x + (j - 1)
           v == y + (j - 1)
<1>4. u \in Nat /\ v \in Nat /\ u < v
  <2>1. Width > 0 /\ Width \in Nat
    BY Widths
  <2> QED
    BY <1>1, <1>2, <2>1
<1> HIDE DEF u, v
<1>5. BlockSize * u + BlockSize <= BlockSize * v
  BY <1>4, Widths, ProductGrows
<1>6. BlockSize * u \in Nat /\ BlockSize * v \in Nat /\ BlockSize \in Nat
  BY <1>4, Widths
<1>7. Slot(k, j, q) = BlockSize * u + k /\ Slot(k, j, r) = BlockSize * v + k
  BY <1>3 DEF u, v
<1> QED
  BY <1>5, <1>6, <1>7

-------------------------------------------------------------------------------
(* The rows of an interrupted campaign.                                    *)

OutcomeSet == [status : STRING, bytes : Nat, det : BOOLEAN]
RecordSet == {TrialRecord(Cell(n), o) : n \in 1..ScheduleLength, o \in OutcomeSet}

\* The log is the first trials of the schedule.
IsLog(l) ==
  /\ l \in Seq(RecordSet) /\ Len(l) <= ScheduleLength
  /\ \A n \in 1..Len(l) : \E o \in OutcomeSet : l[n] = TrialRecord(Cell(n), o)

\* What trial n of a log is, when it is codec k on workload j in repetition r.
IsTrial(x, k, j, r) ==
  /\ x.block = Width * r + (j - 1) /\ x.order = k - 1 /\ x.rep = r
  /\ x.data = Datasets[j] /\ x.codec = Codecs[k]
  /\ x.status \in STRING /\ x.bytes \in Nat /\ x.det \in BOOLEAN

LEMMA LogHas ==
  ASSUME NEW l, IsLog(l)
  PROVE  DOMAIN l = 1..Len(l) /\ Len(l) \in Nat
BY DEF IsLog

LEMMA LogAt ==
  ASSUME NEW l, IsLog(l), NEW k \in 1..BlockSize, NEW j \in 1..Width, NEW r \in Nat,
         NEW n, n = Slot(k, j, r), n <= Len(l)
  PROVE  n \in DOMAIN l /\ IsTrial(l[n], k, j, r)
<1>1. n \in Nat \ {0} /\ n \in DOMAIN l /\ n \in 1..Len(l)
  <2>1. n \in Nat \ {0}
    BY SlotIs
  <2> QED
    BY <2>1, LogHas
<1>2. PICK o \in OutcomeSet : l[n] = TrialRecord(Cell(n), o)
  BY <1>1 DEF IsLog
<1>3. o.status \in STRING /\ o.bytes \in Nat /\ o.det \in BOOLEAN
  BY DEF OutcomeSet
<1> DEFINE c == Cell(n)
<1>4. l[n] = [block |-> c.block, order |-> c.order, rep |-> c.rep, data |-> c.data,
              codec |-> c.codec, status |-> o.status, bytes |-> o.bytes, det |-> o.det]
  BY <1>2 DEF TrialRecord
<1>5. c = [block |-> Width * r + (j - 1), order |-> k - 1, rep |-> r,
           data |-> Datasets[j], codec |-> Codecs[k]]
  BY SlotIs
<1> HIDE DEF c
<1>6. /\ l[n].block = c.block /\ l[n].order = c.order /\ l[n].rep = c.rep
      /\ l[n].data = c.data /\ l[n].codec = c.codec
      /\ l[n].status = o.status /\ l[n].bytes = o.bytes /\ l[n].det = o.det
  BY <1>4
<1>7. /\ c.block = Width * r + (j - 1) /\ c.order = k - 1 /\ c.rep = r
      /\ c.data = Datasets[j] /\ c.codec = Codecs[k]
  BY <1>5
<1> QED
  BY <1>1, <1>3, <1>6, <1>7 DEF IsTrial

LEMMA LogIs ==
  ASSUME NEW l, IsLog(l), NEW n \in DOMAIN l
  PROVE  \E k \in 1..BlockSize, j \in 1..Width, r \in 0..Repetitions-1 :
           n = Slot(k, j, r) /\ IsTrial(l[n], k, j, r)
<1>1. n \in 1..ScheduleLength /\ n <= Len(l)
  <2>1. ScheduleLength \in Nat
    <3>1. Repetitions * Width \in Nat
      BY Widths
    <3> QED
      BY <3>1, Widths DEF ScheduleLength, Width
  <2> QED
    BY <2>1, LogHas DEF IsLog
<1>2. PICK k \in 1..BlockSize, j \in 1..Width, r \in 0..Repetitions-1 : n = Slot(k, j, r)
  BY <1>1, SlotsFill
<1>3. r \in Nat
  BY Widths
<1>4. IsTrial(l[n], k, j, r)
  BY <1>1, <1>2, <1>3, LogAt
<1> QED
  BY <1>2, <1>4

\* A finite set of numbers without gaps is an interval.
LEMMA DownwardClosed ==
  ASSUME NEW S, IsFiniteSet(S), S \subseteq Nat,
         \A x \in S : \A y \in Nat : y < x => y \in S
  PROVE  S = 0..(Cardinality(S) - 1)
<1>1. CASE S = {}
  <2>1. Cardinality(S) = 0
    BY <1>1, FS_EmptySet
  <2> QED
    BY <1>1, <2>1
<1>2. CASE S # {}
  <2> DEFINE m == Max(S)
  <2>1. m \in S /\ \A x \in S : m >= x
    <3>1. S \subseteq Int
      OBVIOUS
    <3> QED
      BY <1>2, <3>1, MaxIs
  <2> HIDE DEF m
  <2>2. m \in Nat /\ 0 \in Int /\ m \in Int
    BY <2>1
  <2>3. S = 0..m
    <3>1. S \subseteq 0..m
      BY <2>1, <2>2
    <3>2. ASSUME NEW y \in 0..m PROVE y \in S
      <4>1. y \in Nat /\ (y < m \/ y = m)
        BY <2>2
      <4> QED
        BY <2>1, <4>1
    <3> QED
      BY <3>1, <3>2
  <2>4. Cardinality(0..m) = m - 0 + 1
    BY <2>2, FS_Interval
  <2> QED
    BY <2>2, <2>3, <2>4
<1> QED
  BY <1>1, <1>2

LEMMA OfIs ==
  ASSUME NEW l, IsLog(l), NEW k \in 1..BlockSize, NEW j \in 1..Width,
         NEW ns, ns = Of(l, Codecs[k], Datasets[j])
  PROVE  /\ ns \subseteq DOMAIN l /\ IsFiniteSet(ns)
         /\ \A n \in ns : /\ l[n].rep \in 0..Repetitions-1
                          /\ n = Slot(k, j, l[n].rep)
<1>1. ns \subseteq DOMAIN l
  BY DEF Of
<1>2. IsFiniteSet(DOMAIN l)
  <2>1. 1 \in Int /\ Len(l) \in Int
    BY LogHas
  <2> QED
    BY <2>1, LogHas, FS_Interval
<1>3. ASSUME NEW n \in ns
      PROVE  l[n].rep \in 0..Repetitions-1 /\ n = Slot(k, j, l[n].rep)
  <2>1. n \in DOMAIN l /\ l[n].codec = Codecs[k] /\ l[n].data = Datasets[j]
    BY DEF Of
  <2>2. PICK x \in 1..BlockSize, y \in 1..Width, r \in 0..Repetitions-1 :
          n = Slot(x, y, r) /\ IsTrial(l[n], x, y, r)
    BY <2>1, LogIs
  <2>3. l[n].rep = r /\ Codecs[x] = Codecs[k] /\ Datasets[y] = Datasets[j]
    BY <2>1, <2>2 DEF IsTrial
  <2>4. x = k /\ y = j
    BY <2>3, Widths, SummaryAssumption
  <2> QED
    BY <2>2, <2>3, <2>4
<1> QED
  BY <1>1, <1>2, <1>3, FS_Subset

LEMMA GroupIsDense ==
  ASSUME NEW l, IsLog(l), NEW k \in 1..BlockSize, NEW j \in 1..Width
  PROVE  Dense(l, Of(l, Codecs[k], Datasets[j]))
<1> DEFINE ns == Of(l, Codecs[k], Datasets[j])
           reps == RepsOf(l, ns)
           f == [n \in ns |-> l[n].rep]
<1>1. /\ ns \subseteq DOMAIN l /\ IsFiniteSet(ns)
      /\ \A n \in ns : l[n].rep \in 0..Repetitions-1 /\ n = Slot(k, j, l[n].rep)
  BY OfIs
<1>2. \A n \in DOMAIN l : l[n].codec = Codecs[k] /\ l[n].data = Datasets[j] => n \in ns
  BY DEF Of
<1> HIDE DEF ns
<1>3. f \in Surjection(ns, reps)
  BY DEF Surjection, RepsOf
<1>4. f \in Injection(ns, reps)
  <2>1. \A m, n \in ns : f[m] = f[n] => m = n
    BY <1>1
  <2>2. f \in [ns -> reps]
    BY DEF RepsOf
  <2> HIDE DEF f, reps
  <2> QED
    BY <2>1, <2>2 DEF Injection, IsInjective
<1>5. IsFiniteSet(reps) /\ Cardinality(reps) = Cardinality(ns)
  <2> HIDE DEF f, reps
  <2> QED
    BY <1>1, <1>3, <1>4, FS_Surjection
<1>6. reps \subseteq Nat
  BY <1>1 DEF RepsOf
<1>7. ASSUME NEW r \in reps, NEW q \in Nat, q < r PROVE q \in reps
  <2>1. PICK n \in ns : r = l[n].rep
    BY DEF RepsOf
  <2>2. r \in Nat /\ n = Slot(k, j, r)
    BY <1>1, <1>6, <2>1
  <2> DEFINE m == Slot(k, j, q)
  <2>3. m <= n /\ m \in Nat
    BY <1>7, <2>2, SlotsGrow, SlotIs
  <2>4. n <= Len(l) /\ n \in Nat /\ Len(l) \in Nat
    BY <1>1, LogHas
  <2>5. m <= Len(l) /\ m = Slot(k, j, q)
    BY <2>3, <2>4
  <2> HIDE DEF m
  <2>6. m \in DOMAIN l /\ IsTrial(l[m], k, j, q)
    BY <2>5, LogAt
  <2>7. l[m].rep = q /\ l[m].codec = Codecs[k] /\ l[m].data = Datasets[j]
    BY <2>6 DEF IsTrial
  <2>8. m \in ns
    BY <1>2, <2>6, <2>7
  <2> QED
    BY <2>7, <2>8 DEF RepsOf
<1>8. reps = 0..(Cardinality(reps) - 1)
  <2> HIDE DEF reps
  <2> QED
    BY <1>5, <1>6, <1>7, DownwardClosed
<1>9. reps = 0..(Cardinality(ns) - 1)
  BY <1>5, <1>8
<1> QED
  BY <1>5, <1>9 DEF Dense, ns

LEMMA LogIsAccepted ==
  ASSUME NEW l, IsLog(l), l # <<>>
  PROVE  Accepts(l)
<1>1. ASSUME NEW c \in CodecSet, NEW d \in DatasetSet PROVE Dense(l, Of(l, c, d))
  <2>1. PICK k \in 1..BlockSize : c = Codecs[k]
    BY Widths DEF CodecSet
  <2>2. PICK j \in 1..Width : d = Datasets[j]
    BY Widths DEF DatasetSet
  <2> QED
    BY <2>1, <2>2, GroupIsDense
<1>2. ASSUME NEW m \in DOMAIN l, NEW n \in DOMAIN l, m < n,
             l[m].block = l[n].block, l[m].order = l[n].order, l[m].rep = l[n].rep
      PROVE  FALSE
  <2>1. PICK k \in 1..BlockSize, j \in 1..Width, r \in 0..Repetitions-1 :
          m = Slot(k, j, r) /\ IsTrial(l[m], k, j, r)
    BY LogIs
  <2>2. PICK x \in 1..BlockSize, y \in 1..Width, q \in 0..Repetitions-1 :
          n = Slot(x, y, q) /\ IsTrial(l[n], x, y, q)
    BY LogIs
  <2>place. r = q /\ k - 1 = x - 1 /\ Width * r + (j - 1) = Width * q + (y - 1)
    BY <1>2, <2>1, <2>2 DEF IsTrial
  <2>4. k = x
    BY <2>place, Widths
  <2> DEFINE p == Width * r
  <2>5. p \in Int /\ p + (j - 1) = p + (y - 1)
    BY <2>place, Widths
  <2> HIDE DEF p
  <2>6. j = y
    BY <2>5, Widths
  <2>7. m = n /\ m \in Nat
    BY <2>1, <2>2, <2>place, <2>4, <2>6, LogHas
  <2> QED
    BY <1>2, <2>7
<1> QED
  BY <1>1, <1>2 DEF Accepts, DuplicateCell

-------------------------------------------------------------------------------
(* Medians.                                                                *)

Below(f, S, v) == {x \in S : f[x] < v}
UpTo(f, S, v) == {x \in S : f[x] <= v}
Ranked(f, S, v, k) == Cardinality(Below(f, S, v)) < k /\ k <= Cardinality(UpTo(f, S, v))

\* Every rank of a finite set of numbers is taken by one of them.
LEMMA RankExists ==
  ASSUME NEW S, IsFiniteSet(S), NEW f, \A x \in S : f[x] \in Nat,
         NEW k \in 1..Cardinality(S)
  PROVE  \E v \in {f[x] : x \in S} : Ranked(f, S, v, k)
<1> DEFINE vals == {f[x] : x \in S}
           V == {v \in vals : k <= Cardinality(UpTo(f, S, v))}
<1>1. \A v : /\ Below(f, S, v) \subseteq S /\ IsFiniteSet(Below(f, S, v))
             /\ Cardinality(Below(f, S, v)) \in Nat
             /\ UpTo(f, S, v) \subseteq S /\ Cardinality(UpTo(f, S, v)) \in Nat
  <2> SUFFICES ASSUME NEW v
      PROVE  /\ Below(f, S, v) \subseteq S /\ IsFiniteSet(Below(f, S, v))
             /\ Cardinality(Below(f, S, v)) \in Nat
             /\ UpTo(f, S, v) \subseteq S /\ Cardinality(UpTo(f, S, v)) \in Nat
    OBVIOUS
  <2>1. Below(f, S, v) \subseteq S /\ UpTo(f, S, v) \subseteq S
    BY DEF Below, UpTo
  <2> QED
    BY <2>1, FS_Subset, FS_CardinalityType
<1>2. vals \subseteq Nat /\ vals \subseteq Int
  OBVIOUS
<1>3. Cardinality(S) \in Nat /\ k \in Nat /\ k >= 1 /\ k <= Cardinality(S)
  BY FS_CardinalityType
<1>4. S # {}
  BY <1>3, FS_EmptySet
<1>5. ASSUME NEW T \in SUBSET S, T # {}
      PROVE  \E x \in T : \A y \in T : f[y] <= f[x]
  <2> DEFINE img == {f[x] : x \in T}
             g == [x \in T |-> f[x]]
  <2>1. IsFiniteSet(T)
    BY FS_Subset
  <2>2. g \in Surjection(T, img)
    BY DEF Surjection
  <2>3. img # {} /\ img \subseteq Int
    BY <1>5
  <2>4. IsFiniteSet(img)
    <3> HIDE DEF g, img
    <3> QED
      BY <2>1, <2>2, FS_Surjection
  <2>5. Max(img) \in img /\ \A v \in img : Max(img) >= v
    <3> HIDE DEF img
    <3> QED
      BY <2>3, <2>4, MaxIs
  <2>6. PICK x \in T : Max(img) = f[x]
    BY <2>5
  <2>7. \A y \in T : f[x] >= f[y] /\ f[x] \in Nat /\ f[y] \in Nat
    BY <2>5, <2>6
  <2> QED
    BY <2>7
<1>6. V # {}
  <2>1. PICK x \in S : \A y \in S : f[y] <= f[x]
    BY <1>4, <1>5
  <2>2. UpTo(f, S, f[x]) = S
    BY <2>1 DEF UpTo
  <2> QED
    BY <1>3, <2>2
<1>7. PICK v \in V : \A u \in V : <<u, v>> \notin OpToRel(<, Nat)
  <2>1. V \subseteq Nat
    BY <1>2
  <2> HIDE DEF V
  <2> QED
    BY <1>6, <2>1, NatLessThanWellFounded, WFMin
<1>8. v \in vals /\ v \in Nat /\ k <= Cardinality(UpTo(f, S, v))
  BY <1>2
<1>9. Cardinality(Below(f, S, v)) < k
  <2>1. CASE Below(f, S, v) = {}
    <3>1. Cardinality(Below(f, S, v)) = 0
      BY <2>1, FS_EmptySet
    <3> QED
      BY <1>3, <3>1
  <2>2. CASE Below(f, S, v) # {}
    <3>1. PICK x \in Below(f, S, v) : \A y \in Below(f, S, v) : f[y] <= f[x]
      BY <1>1, <1>5, <2>2
    <3>2. x \in S /\ f[x] < v /\ f[x] \in Nat /\ f[x] \in vals
      BY DEF Below
    <3>3. Below(f, S, v) = UpTo(f, S, f[x])
      BY <1>8, <3>1, <3>2 DEF Below, UpTo
    <3>4. f[x] \notin V
      <4>1. <<f[x], v>> \in OpToRel(<, Nat)
        BY <1>8, <3>2 DEF OpToRel
      <4> HIDE DEF V
      <4> QED
        BY <1>7, <4>1
    <3>5. ~(k <= Cardinality(UpTo(f, S, f[x])))
      BY <3>2, <3>4
    <3> QED
      BY <1>1, <1>3, <3>3, <3>5
  <2> QED
    BY <2>1, <2>2
<1> QED
  BY <1>8, <1>9 DEF Ranked

LEMMA MedianIs ==
  ASSUME NEW S, IsFiniteSet(S), NEW f, \A x \in S : f[x] \in Nat
  PROVE  /\ S = {} => Median2(f, S) = NoSize
         /\ S # {} => Median2(f, S) \in Nat
<1> DEFINE nth(k) == CHOOSE v \in {f[x] : x \in S} : Ranked(f, S, v, k)
           size == Cardinality(S)
<1>1. Median2(f, S) = IF size = 0 THEN NoSize
                      ELSE IF size % 2 = 1 THEN 2 * nth((size + 1) \div 2)
                      ELSE nth(size \div 2) + nth(size \div 2 + 1)
  BY DEF Median2, Ranked, Below, UpTo
<1>2. size \in Nat /\ (size = 0 <=> S = {})
  BY FS_CardinalityType, FS_EmptySet
<1>3. ASSUME NEW k \in 1..size PROVE nth(k) \in Nat
  <2>1. \E v \in {f[x] : x \in S} : Ranked(f, S, v, k)
    BY RankExists
  <2>2. nth(k) \in {f[x] : x \in S}
    BY <2>1
  <2> QED
    BY <2>2
<1> HIDE DEF nth, size
<1>4. ASSUME S # {} PROVE Median2(f, S) \in Nat
  <2>1. size \in Nat \ {0}
    BY <1>2, <1>4
  <2>2. size % 2 = 1 => (size + 1) \div 2 \in 1..size
    BY <2>1
  <2>3. size % 2 # 1 => size \div 2 \in 1..size /\ size \div 2 + 1 \in 1..size
    BY <2>1
  <2>4. CASE size % 2 = 1
    <3>1. nth((size + 1) \div 2) \in Nat
      BY <1>3, <2>2, <2>4
    <3> QED
      BY <1>1, <2>1, <2>4, <3>1
  <2>5. CASE size % 2 # 1
    <3>1. nth(size \div 2) \in Nat /\ nth(size \div 2 + 1) \in Nat
      BY <1>3, <2>3, <2>5
    <3> QED
      BY <1>1, <2>1, <2>5, <3>1
  <2> QED
    BY <2>4, <2>5
<1> QED
  BY <1>1, <1>2, <1>4

-------------------------------------------------------------------------------
(* The rows of the table.                                                  *)

Plain(l) == {r \in PlainTable(l) : r.scheduled > 0}
FinalRow(l, x) == [x EXCEPT !.confidence = Confidence(x, Plain(l))]

\* What a row says of the trials ns.
Describes(r, l, c, d, ns, samples, size) ==
  /\ r.codec = c /\ r.data = d /\ r.scheduled = Cardinality(ns)
  /\ r.successful = Cardinality(Ok(l, ns)) /\ r.samples = samples
  /\ r.reps = Cardinality(RepsOf(l, ns)) /\ r.status = OverallStatus(l, ns)
  /\ r.deterministic <=> \A n \in ns : l[n].det
  /\ r.size = size

LEMMA SummaryRowIs ==
  ASSUME NEW l, NEW c, NEW d, NEW ns, NEW samples, NEW size,
         NEW x, x = SummaryRow(l, c, d, ns, samples, size), NEW r, r = FinalRow(l, x)
  PROVE  /\ Describes(x, l, c, d, ns, samples, size)
         /\ Describes(r, l, c, d, ns, samples, size)
         /\ r.confidence = Confidence(x, Plain(l))
<1> DEFINE sc == Cardinality(ns)
           su == Cardinality(Ok(l, ns))
           rp == Cardinality(RepsOf(l, ns))
           st == OverallStatus(l, ns)
           dt == \A n \in ns : l[n].det
           cf == Confidence(x, Plain(l))
<1>1. x = [codec |-> c, data |-> d, scheduled |-> sc, successful |-> su, samples |-> samples,
           reps |-> rp, status |-> st, deterministic |-> dt, size |-> size,
           confidence |-> "none"]
  BY DEF SummaryRow
<1>2. r = [x EXCEPT !.confidence = cf]
  BY DEF FinalRow
<1> HIDE DEF sc, su, rp, st, dt, cf
<1>3. /\ x.codec = c /\ x.data = d /\ x.scheduled = sc /\ x.successful = su
      /\ x.samples = samples /\ x.reps = rp /\ x.status = st /\ x.deterministic = dt
      /\ x.size = size
  BY <1>1
<1>4. r = [codec |-> c, data |-> d, scheduled |-> sc, successful |-> su, samples |-> samples,
           reps |-> rp, status |-> st, deterministic |-> dt, size |-> size,
           confidence |-> cf]
  BY <1>1, <1>2
<1>5. /\ r.codec = c /\ r.data = d /\ r.scheduled = sc /\ r.successful = su
      /\ r.samples = samples /\ r.reps = rp /\ r.status = st /\ r.deterministic = dt
      /\ r.size = size /\ r.confidence = cf
  BY <1>4
<1>6. (x.deterministic <=> dt) /\ (r.deterministic <=> dt)
  BY <1>3, <1>5
<1> QED
  BY <1>3, <1>5, <1>6 DEF Describes, sc, su, rp, st, dt, cf

LEMMA FileRowIs ==
  ASSUME NEW l, NEW c, NEW d, NEW x, x = FileRow(l, c, d), NEW r, r = FinalRow(l, x),
         NEW ns, ns = Of(l, c, d)
  PROVE  /\ Describes(x, l, c, d, ns, Cardinality(Ok(l, ns)), Median2(Bytes(l), Ok(l, ns)))
         /\ Describes(r, l, c, d, ns, Cardinality(Ok(l, ns)), Median2(Bytes(l), Ok(l, ns)))
         /\ r.confidence = Confidence(x, Plain(l))
<1>1. x = SummaryRow(l, c, d, ns, Cardinality(Ok(l, ns)), Median2(Bytes(l), Ok(l, ns)))
  BY DEF FileRow
<1> QED
  BY ONLY <1>1, r = FinalRow(l, x), SummaryRowIs

LEMMA CorpusRowIs ==
  ASSUME NEW l, NEW c, NEW x, x = CorpusRow(l, c), NEW r, r = FinalRow(l, x),
         NEW ns, ns = OfCodec(l, c)
  PROVE  /\ \E size : /\ Describes(x, l, c, Corpus, ns, Cardinality(WholeReps(l, ns)), size)
                      /\ Describes(r, l, c, Corpus, ns, Cardinality(WholeReps(l, ns)), size)
         /\ r.confidence = Confidence(x, Plain(l))
<1> DEFINE whole == WholeReps(l, ns)
           total == [q \in whole |->
                       SumOver([n \in ns |-> l[n].bytes], {n \in ns : l[n].rep = q})]
           size == Median2(total, whole)
<1>1. x = SummaryRow(l, c, Corpus, ns, Cardinality(whole), size)
  BY DEF CorpusRow
<1> HIDE DEF size, whole
<1>2. /\ Describes(x, l, c, Corpus, ns, Cardinality(whole), size)
      /\ Describes(r, l, c, Corpus, ns, Cardinality(whole), size)
      /\ r.confidence = Confidence(x, Plain(l))
  BY ONLY <1>1, r = FinalRow(l, x), SummaryRowIs
<1> QED
  BY <1>2 DEF whole

LEMMA RowKinds ==
  ASSUME NEW l, NEW r \in BuildSummaryRows(l)
  PROVE  \/ \E c \in CodecSet, d \in DatasetSet :
              r = FinalRow(l, FileRow(l, c, d)) /\ FileRow(l, c, d) \in Plain(l)
         \/ \E c \in CodecSet :
              r = FinalRow(l, CorpusRow(l, c)) /\ CorpusRow(l, c) \in Plain(l)
<1>1. PICK x \in Plain(l) : r = FinalRow(l, x)
  BY DEF BuildSummaryRows, Plain, FinalRow
<1>2. \/ \E c \in CodecSet, d \in DatasetSet : x = FileRow(l, c, d)
      \/ \E c \in CodecSet : x = CorpusRow(l, c)
  BY <1>1 DEF Plain, PlainTable
<1> QED
  BY <1>1, <1>2

LEMMA RowsAreMade ==
  ASSUME NEW l, NEW x \in PlainTable(l), x.scheduled > 0
  PROVE  x \in Plain(l) /\ FinalRow(l, x) \in BuildSummaryRows(l)
BY DEF BuildSummaryRows, Plain, FinalRow

LEMMA CorpusIsNoFile == \A d \in DatasetSet : d # Corpus
BY SummaryAssumption DEF DatasetSet, Corpus

\* A file row is known by its codec and workload, and a corpus row by its codec.
LEMMA FileRowsAre ==
  ASSUME NEW l, NEW r \in BuildSummaryRows(l), r.data # Corpus
  PROVE  /\ r.codec \in CodecSet /\ r.data \in DatasetSet
         /\ FileRow(l, r.codec, r.data) \in Plain(l)
         /\ r = FinalRow(l, FileRow(l, r.codec, r.data))
<1>1. ASSUME NEW c \in CodecSet, r = FinalRow(l, CorpusRow(l, c)) PROVE FALSE
  <2>1. r.data = Corpus
    BY <1>1, CorpusRowIs DEF Describes
  <2> QED
    BY <2>1
<1>2. PICK c \in CodecSet, d \in DatasetSet :
        r = FinalRow(l, FileRow(l, c, d)) /\ FileRow(l, c, d) \in Plain(l)
  BY <1>1, RowKinds
<1>3. r.codec = c /\ r.data = d
  BY <1>2, FileRowIs DEF Describes
<1> QED
  BY <1>2, <1>3

LEMMA CorpusRowsAre ==
  ASSUME NEW l, NEW r \in BuildSummaryRows(l), r.data = Corpus
  PROVE  /\ r.codec \in CodecSet
         /\ CorpusRow(l, r.codec) \in Plain(l)
         /\ r = FinalRow(l, CorpusRow(l, r.codec))
<1>1. ASSUME NEW c \in CodecSet, NEW d \in DatasetSet, r = FinalRow(l, FileRow(l, c, d))
      PROVE  FALSE
  <2>1. r.data = d
    BY <1>1, FileRowIs DEF Describes
  <2> QED
    BY <2>1, CorpusIsNoFile
<1>2. PICK c \in CodecSet : r = FinalRow(l, CorpusRow(l, c)) /\ CorpusRow(l, c) \in Plain(l)
  BY <1>1, RowKinds
<1>3. r.codec = c
  BY <1>2, CorpusRowIs DEF Describes
<1> QED
  BY <1>2, <1>3

\* Rows that partition the trials count each of them once.
LEMMA TrialsAreCounted ==
  ASSUME NEW l, IsLog(l), NEW group, NEW part, NEW row, NEW f,
         \A r \in group : part[r] \subseteq DOMAIN l /\ part[r] # {}
                         /\ f[r] = Cardinality(part[r]),
         \A n \in DOMAIN l : row[n] \in group,
         \A r \in group, n \in DOMAIN l : n \in part[r] <=> row[n] = r
  PROVE  SumOver(f, group) = Len(l)
<1>1. IsFiniteSet(DOMAIN l) /\ Cardinality(DOMAIN l) = Len(l)
  <2>1. 1 \in Int /\ Len(l) \in Int /\ Len(l) \in Nat /\ DOMAIN l = 1..Len(l)
    BY LogHas
  <2>2. IsFiniteSet(1..Len(l))
        /\ Cardinality(1..Len(l)) = IF 1 > Len(l) THEN 0 ELSE Len(l) - 1 + 1
    BY <2>1, FS_Interval
  <2> QED
    BY <2>1, <2>2
<1>2. IsFiniteSet(group)
  <2> DEFINE g == [n \in DOMAIN l |-> row[n]]
  <2>1. g \in Surjection(DOMAIN l, group)
    <3>1. g \in [DOMAIN l -> group]
      OBVIOUS
    <3>2. \A r \in group : \E n \in DOMAIN l : g[n] = r
      OBVIOUS
    <3> HIDE DEF g
    <3> QED
      BY <3>1, <3>2 DEF Surjection
  <2> HIDE DEF g
  <2> QED
    BY <1>1, <2>1, FS_Surjection
<1>3. \A r \in group : IsFiniteSet(part[r]) /\ f[r] = Cardinality(part[r])
  BY <1>1, FS_Subset
<1>4. \A r, q \in group : r # q => part[r] \cap part[q] = {}
  OBVIOUS
<1>5. SumOver(f, group) = Cardinality(UNION {part[r] : r \in group})
  BY ONLY <1>2, <1>3, <1>4, SumOfParts
<1>6. UNION {part[r] : r \in group} = DOMAIN l
  <2>1. ASSUME NEW n \in DOMAIN l PROVE \E r \in group : n \in part[r]
    <3>1. row[n] \in group /\ n \in part[row[n]]
      OBVIOUS
    <3> QED
      BY <3>1
  <2>2. ASSUME NEW r \in group, NEW n \in part[r] PROVE n \in DOMAIN l
    OBVIOUS
  <2> QED
    BY ONLY <2>1, <2>2, Zenon
<1> QED
  BY <1>1, <1>5, <1>6

LEMMA TrialIs ==
  ASSUME NEW l, IsLog(l), NEW n \in DOMAIN l
  PROVE  l[n].codec \in CodecSet /\ l[n].data \in DatasetSet /\ l[n].bytes \in Nat
<1>1. PICK k \in 1..BlockSize, j \in 1..Width, r \in 0..Repetitions-1 :
        IsTrial(l[n], k, j, r)
  BY LogIs
<1> QED
  BY <1>1, Widths DEF IsTrial, CodecSet, DatasetSet

LEMMA LogIsFinite ==
  ASSUME NEW l, IsLog(l), NEW ns, ns \subseteq DOMAIN l
  PROVE  IsFiniteSet(ns) /\ Cardinality(ns) \in Nat /\ (ns # {} <=> Cardinality(ns) > 0)
<1>1. 1 \in Int /\ Len(l) \in Int /\ DOMAIN l = 1..Len(l)
  BY LogHas
<1>2. IsFiniteSet(1..Len(l))
  BY <1>1, FS_Interval
<1>3. IsFiniteSet(ns)
  BY <1>1, <1>2, FS_Subset
<1> QED
  BY <1>3, FS_CardinalityType, FS_EmptySet

LEMMA FilesCount ==
  ASSUME NEW l, IsLog(l), NEW group, group = {r \in BuildSummaryRows(l) : r.data # Corpus}
  PROVE  SumOver([r \in group |-> r.scheduled], group) = Len(l)
<1> DEFINE f == [r \in group |-> r.scheduled]
           part == [r \in group |-> Of(l, r.codec, r.data)]
           row == [n \in DOMAIN l |-> FinalRow(l, FileRow(l, l[n].codec, l[n].data))]
<1>1. ASSUME NEW r \in group
      PROVE  part[r] \subseteq DOMAIN l /\ part[r] # {} /\ f[r] = Cardinality(part[r])
  <2> DEFINE x == FileRow(l, r.codec, r.data)
             ns == Of(l, r.codec, r.data)
  <2>1. x \in Plain(l) /\ r = FinalRow(l, x)
    BY FileRowsAre
  <2> HIDE DEF x, ns
  <2>2. x = FileRow(l, r.codec, r.data) /\ ns = Of(l, r.codec, r.data)
    BY DEF x, ns
  <2>3. x.scheduled = Cardinality(ns) /\ r.scheduled = Cardinality(ns)
    BY <2>1, <2>2, FileRowIs DEF Describes
  <2>4. x.scheduled > 0
    BY <2>1 DEF Plain
  <2>5. ns \subseteq DOMAIN l
    BY DEF Of, ns
  <2>6. ns # {}
    BY <2>3, <2>4, <2>5, LogIsFinite
  <2> QED
    BY <2>2, <2>3, <2>5, <2>6
<1>2. ASSUME NEW n \in DOMAIN l
      PROVE  /\ row[n] \in group
             /\ row[n].codec = l[n].codec /\ row[n].data = l[n].data
  <2> DEFINE c == l[n].codec
             d == l[n].data
             x == FileRow(l, c, d)
             ns == Of(l, c, d)
  <2>1. c \in CodecSet /\ d \in DatasetSet
    BY TrialIs
  <2>2. n \in ns /\ ns \subseteq DOMAIN l
    BY DEF Of
  <2>3. x \in PlainTable(l)
    BY <2>1 DEF PlainTable
  <2>4. row[n] = FinalRow(l, x)
    OBVIOUS
  <2> HIDE DEF x, ns, row, c, d
  <2>5. x = FileRow(l, c, d) /\ ns = Of(l, c, d)
    BY DEF x, ns
  <2>6. x.scheduled = Cardinality(ns) /\ row[n].codec = c /\ row[n].data = d
    BY <2>4, <2>5, FileRowIs DEF Describes
  <2>7. x.scheduled > 0
    BY <2>2, <2>6, LogIsFinite
  <2>8. row[n] \in BuildSummaryRows(l)
    BY <2>3, <2>4, <2>7, RowsAreMade
  <2> QED
    BY <2>1, <2>6, <2>8, CorpusIsNoFile DEF c, d
<1>3. ASSUME NEW r \in group, NEW n \in DOMAIN l
      PROVE  n \in part[r] <=> row[n] = r
  <2>1. n \in part[r] <=> l[n].codec = r.codec /\ l[n].data = r.data
    BY DEF Of
  <2>2. r = FinalRow(l, FileRow(l, r.codec, r.data))
    BY FileRowsAre
  <2> QED
    BY <1>2, <2>1, <2>2
<1> HIDE DEF f, part, row
<1>4. SumOver(f, group) = Len(l)
  <2>1. /\ \A r \in group : part[r] \subseteq DOMAIN l /\ part[r] # {}
                           /\ f[r] = Cardinality(part[r])
        /\ \A n \in DOMAIN l : row[n] \in group
        /\ \A r \in group, n \in DOMAIN l : n \in part[r] <=> row[n] = r
    BY <1>1, <1>2, <1>3
  <2> QED
    BY ONLY <2>1, IsLog(l), TrialsAreCounted
<1> QED
  BY <1>4 DEF f

LEMMA CorporaCount ==
  ASSUME NEW l, IsLog(l), NEW group, group = {r \in BuildSummaryRows(l) : r.data = Corpus}
  PROVE  SumOver([r \in group |-> r.scheduled], group) = Len(l)
<1> DEFINE f == [r \in group |-> r.scheduled]
           part == [r \in group |-> OfCodec(l, r.codec)]
           row == [n \in DOMAIN l |-> FinalRow(l, CorpusRow(l, l[n].codec))]
<1>1. ASSUME NEW r \in group
      PROVE  part[r] \subseteq DOMAIN l /\ part[r] # {} /\ f[r] = Cardinality(part[r])
  <2> DEFINE x == CorpusRow(l, r.codec)
             ns == OfCodec(l, r.codec)
  <2>1. x \in Plain(l) /\ r = FinalRow(l, x)
    BY CorpusRowsAre
  <2> HIDE DEF x, ns
  <2>2. x = CorpusRow(l, r.codec) /\ ns = OfCodec(l, r.codec)
    BY DEF x, ns
  <2>3. x.scheduled = Cardinality(ns) /\ r.scheduled = Cardinality(ns)
    BY <2>1, <2>2, CorpusRowIs DEF Describes
  <2>4. x.scheduled > 0
    BY <2>1 DEF Plain
  <2>5. ns \subseteq DOMAIN l
    BY DEF OfCodec, ns
  <2>6. ns # {}
    BY <2>3, <2>4, <2>5, LogIsFinite
  <2> QED
    BY <2>2, <2>3, <2>5, <2>6
<1>2. ASSUME NEW n \in DOMAIN l
      PROVE  row[n] \in group /\ row[n].codec = l[n].codec
  <2> DEFINE c == l[n].codec
             x == CorpusRow(l, c)
             ns == OfCodec(l, c)
  <2>1. c \in CodecSet
    BY TrialIs
  <2>2. n \in ns /\ ns \subseteq DOMAIN l
    BY DEF OfCodec
  <2>3. x \in PlainTable(l)
    BY <2>1 DEF PlainTable
  <2>4. row[n] = FinalRow(l, x)
    OBVIOUS
  <2> HIDE DEF x, ns, row, c
  <2>5. x = CorpusRow(l, c) /\ ns = OfCodec(l, c)
    BY DEF x, ns
  <2>6. x.scheduled = Cardinality(ns) /\ row[n].codec = c /\ row[n].data = Corpus
    BY <2>4, <2>5, CorpusRowIs DEF Describes
  <2>7. x.scheduled > 0
    BY <2>2, <2>6, LogIsFinite
  <2>8. row[n] \in BuildSummaryRows(l)
    BY <2>3, <2>4, <2>7, RowsAreMade
  <2> QED
    BY <2>6, <2>8 DEF c
<1>3. ASSUME NEW r \in group, NEW n \in DOMAIN l
      PROVE  n \in part[r] <=> row[n] = r
  <2>1. n \in part[r] <=> l[n].codec = r.codec
    BY DEF OfCodec
  <2>2. r = FinalRow(l, CorpusRow(l, r.codec))
    BY CorpusRowsAre
  <2> QED
    BY <1>2, <2>1, <2>2
<1> HIDE DEF f, part, row
<1>4. SumOver(f, group) = Len(l)
  <2>1. /\ \A r \in group : part[r] \subseteq DOMAIN l /\ part[r] # {}
                           /\ f[r] = Cardinality(part[r])
        /\ \A n \in DOMAIN l : row[n] \in group
        /\ \A r \in group, n \in DOMAIN l : n \in part[r] <=> row[n] = r
    BY <1>1, <1>2, <1>3
  <2> QED
    BY ONLY <2>1, IsLog(l), TrialsAreCounted
<1> QED
  BY <1>4 DEF f

\* What a file row says, by its codec and workload.
FileSays(l, c, d, ns, x, r) ==
  /\ ns \subseteq DOMAIN l /\ IsFiniteSet(ns) /\ Cardinality(ns) \in Nat
  /\ Describes(x, l, c, d, ns, Cardinality(Ok(l, ns)), Median2(Bytes(l), Ok(l, ns)))
  /\ Describes(r, l, c, d, ns, Cardinality(Ok(l, ns)), Median2(Bytes(l), Ok(l, ns)))
  /\ r.confidence = Confidence(x, Plain(l))
  /\ x.reps = Cardinality(ns) /\ r.reps = Cardinality(ns)
  /\ x.status = "complete" <=> Ok(l, ns) = ns
  /\ x.scheduled = Cardinality(ns)
  /\ r.status = "complete" <=> Ok(l, ns) = ns
  /\ Cardinality(Ok(l, ns)) <= Cardinality(ns)
  /\ Cardinality(Ok(l, ns)) = Cardinality(ns) => Ok(l, ns) = ns

LEMMA FileRowSays ==
  ASSUME NEW l, IsLog(l), NEW c \in CodecSet, NEW d \in DatasetSet,
         NEW ns, ns = Of(l, c, d), NEW x, x = FileRow(l, c, d), NEW r, r = FinalRow(l, x)
  PROVE  FileSays(l, c, d, ns, x, r)
<1>1. ns \subseteq DOMAIN l
  BY DEF Of
<1>2. /\ Describes(x, l, c, d, ns, Cardinality(Ok(l, ns)), Median2(Bytes(l), Ok(l, ns)))
      /\ Describes(r, l, c, d, ns, Cardinality(Ok(l, ns)), Median2(Bytes(l), Ok(l, ns)))
      /\ r.confidence = Confidence(x, Plain(l))
  BY FileRowIs
<1>3. Dense(l, ns)
  <2>1. PICK k \in 1..BlockSize : c = Codecs[k]
    BY Widths DEF CodecSet
  <2>2. PICK j \in 1..Width : d = Datasets[j]
    BY Widths DEF DatasetSet
  <2> QED
    BY <2>1, <2>2, GroupIsDense
<1>4. OverallStatus(l, ns) = "complete" <=> Ok(l, ns) = ns
  BY DEF OverallStatus
<1>5. /\ x.reps = Cardinality(ns) /\ r.reps = Cardinality(ns)
      /\ x.status = OverallStatus(l, ns) /\ r.status = OverallStatus(l, ns)
      /\ x.scheduled = Cardinality(ns)
  BY <1>2, <1>3 DEF Describes, Dense
<1>6. Ok(l, ns) \subseteq ns
  BY DEF Ok
<1>7. IsFiniteSet(ns) /\ Cardinality(ns) \in Nat
  BY <1>1, LogIsFinite
<1>8. /\ Cardinality(Ok(l, ns)) <= Cardinality(ns)
      /\ Cardinality(ns) = Cardinality(Ok(l, ns)) => ns = Ok(l, ns)
  BY <1>6, <1>7, FS_Subset
<1> QED
  BY <1>1, <1>2, <1>4, <1>5, <1>7, <1>8 DEF FileSays

LEMMA NothingIsLost ==
  ASSUME IsLog(log), stopped => table = BuildSummaryRows(log), ~stopped => table = {}
  PROVE  NothingDisappears
<1> DEFINE files == {r \in table : r.data # Corpus}
           corpora == {r \in table : r.data = Corpus}
<1>1. ASSUME stopped
      PROVE  /\ SumOver([r \in files |-> r.scheduled], files) = Len(log)
             /\ SumOver([r \in corpora |-> r.scheduled], corpora) = Len(log)
  <2>1. /\ files = {r \in BuildSummaryRows(log) : r.data # Corpus}
        /\ corpora = {r \in BuildSummaryRows(log) : r.data = Corpus}
    BY <1>1
  <2> HIDE DEF files, corpora
  <2> QED
    BY <2>1, FilesCount, CorporaCount
<1>2. ASSUME NEW r \in files PROVE (r.status = "complete") <=> r.successful = r.scheduled
  <2>1. r \in BuildSummaryRows(log) /\ r.data # Corpus
    OBVIOUS
  <2> DEFINE x == FileRow(log, r.codec, r.data)
             ns == Of(log, r.codec, r.data)
  <2>2. r.codec \in CodecSet /\ r.data \in DatasetSet /\ r = FinalRow(log, x)
    BY <2>1, FileRowsAre
  <2> HIDE DEF x, ns
  <2>3. x = FileRow(log, r.codec, r.data) /\ ns = Of(log, r.codec, r.data)
    BY DEF x, ns
  <2>4. FileSays(log, r.codec, r.data, ns, x, r)
    BY <2>2, <2>3, FileRowSays
  <2>5. /\ r.status = "complete" <=> Ok(log, ns) = ns
        /\ Cardinality(Ok(log, ns)) = Cardinality(ns) => Ok(log, ns) = ns
        /\ Describes(r, log, r.codec, r.data, ns, Cardinality(Ok(log, ns)),
                     Median2(Bytes(log), Ok(log, ns)))
    BY ONLY <2>4 DEF FileSays
  <2>6. r.successful = Cardinality(Ok(log, ns)) /\ r.scheduled = Cardinality(ns)
    BY <2>5 DEF Describes
  <2> QED
    BY <2>5, <2>6
<1> QED
  BY <1>1, <1>2 DEF NothingDisappears

LEMMA SizesAre ==
  ASSUME NEW l, IsLog(l), NEW ns, ns \subseteq DOMAIN l, ns # {}
  PROVE  Median2(Bytes(l), ns) \in Nat
<1>1. IsFiniteSet(ns)
  BY LogIsFinite
<1>2. \A n \in ns : Bytes(l)[n] \in Nat
  BY TrialIs DEF Bytes
<1> DEFINE f == Bytes(l)
<1> HIDE DEF f
<1>3. \A n \in ns : f[n] \in Nat
  BY <1>2 DEF f
<1>4. Median2(f, ns) \in Nat
  BY ONLY <1>1, <1>3, ns # {}, MedianIs
<1> QED
  BY <1>4 DEF f

\* Two complete file rows within 2% are close.
LEMMA NearIsClose ==
  ASSUME NEW x, NEW y, x.status = "complete", y.status = "complete",
         x.codec # y.codec, x.data = y.data, x.size \in Nat, y.size \in Nat,
         49 * y.size < 50 * x.size, 49 * x.size < 50 * y.size
  PROVE  Close(x, y)
<1> DEFINE a == x.size
           b == y.size
<1>1. a \in Nat /\ b \in Nat /\ 49 * b < 50 * a /\ 49 * a < 50 * b
  OBVIOUS
<1> HIDE DEF a, b
<1>2. a # NoSize /\ b # NoSize
  BY <1>1 DEF NoSize
<1>3. 50 * (IF a > b THEN a - b ELSE b - a) < (IF a > b THEN a ELSE b)
  BY <1>1
<1> QED
  BY <1>2, <1>3 DEF Close, a, b

LEMMA FilesAreReplicated ==
  ASSUME IsLog(log), stopped => table = BuildSummaryRows(log), ~stopped => table = {},
         stopped \in BOOLEAN
  PROVE  ConfirmedFileIsReplicated
<1> SUFFICES ASSUME NEW r \in table, r.confidence = "confirmed", r.data # Corpus
    PROVE
    LET mine == Of(log, r.codec, r.data)
        rivals == {c \in CodecSet \ {r.codec} :
                     LET ns == Of(log, c, r.data)
                     IN  ns # {} /\ Ok(log, ns) = ns}
        size(c) == Median2(Bytes(log), Of(log, c, r.data))
        near(c) == 49 * size(c) < 50 * r.size /\ 49 * r.size < 50 * size(c)
    IN  /\ Ok(log, mine) = mine /\ Cardinality(mine) >= MinReps
        /\ r.codec \in Native => \A n \in mine : log[n].det
        /\ (\E c \in rivals : near(c)) => Cardinality(mine) >= StrictReps
  BY DEF ConfirmedFileIsReplicated
<1>1. r \in BuildSummaryRows(log)
  OBVIOUS
<1> DEFINE x == FileRow(log, r.codec, r.data)
           mine == Of(log, r.codec, r.data)
           plain == Plain(log)
<1>2. r.codec \in CodecSet /\ r.data \in DatasetSet /\ x \in plain /\ r = FinalRow(log, x)
  BY <1>1, FileRowsAre
<1> HIDE DEF x, mine, plain
<1>3. x = FileRow(log, r.codec, r.data) /\ mine = Of(log, r.codec, r.data)
  BY DEF x, mine
<1>4. FileSays(log, r.codec, r.data, mine, x, r)
  BY <1>2, <1>3, FileRowSays
<1>5. /\ mine \subseteq DOMAIN log /\ Cardinality(mine) \in Nat
      /\ Describes(x, log, r.codec, r.data, mine, Cardinality(Ok(log, mine)),
                   Median2(Bytes(log), Ok(log, mine)))
      /\ Describes(r, log, r.codec, r.data, mine, Cardinality(Ok(log, mine)),
                   Median2(Bytes(log), Ok(log, mine)))
      /\ r.confidence = Confidence(x, plain)
      /\ x.reps = Cardinality(mine)
      /\ x.status = "complete" <=> Ok(log, mine) = mine
  BY ONLY <1>4 DEF FileSays, plain
<1>6. /\ x.codec = r.codec /\ x.data = r.data /\ x.size = r.size
      /\ x.deterministic <=> \A n \in mine : log[n].det
      /\ x.scheduled = Cardinality(mine)
      /\ x.size = Median2(Bytes(log), Ok(log, mine))
  BY <1>5 DEF Describes
<1>7. /\ x.status = "complete" /\ (x.codec \in Native => x.deterministic)
      /\ x.reps >= IF \E other \in plain : Close(x, other) THEN StrictReps ELSE MinReps
  BY <1>5 DEF Confidence
<1>8. x.reps >= MinReps
  <2>1. MinReps \in Nat /\ StrictReps \in Nat /\ MinReps <= StrictReps /\ x.reps \in Nat
    BY <1>5, SummaryAssumption
  <2> QED
    BY <1>7, <2>1
<1>9. Ok(log, mine) = mine /\ Cardinality(mine) >= MinReps
  BY <1>5, <1>7, <1>8
<1>10. r.codec \in Native => \A n \in mine : log[n].det
  BY <1>6, <1>7
<1>11. ASSUME NEW c \in CodecSet \ {r.codec}, NEW ns, ns = Of(log, c, r.data),
              ns # {}, Ok(log, ns) = ns, NEW size, size = Median2(Bytes(log), ns),
              49 * size < 50 * r.size, 49 * r.size < 50 * size
       PROVE  Cardinality(mine) >= StrictReps
  <2> DEFINE y == FileRow(log, c, r.data)
             q == FinalRow(log, y)
  <2>1. y \in PlainTable(log)
    BY <1>2 DEF PlainTable
  <2> HIDE DEF y, q
  <2>2. y = FileRow(log, c, r.data) /\ q = FinalRow(log, y)
    BY DEF y, q
  <2>3. FileSays(log, c, r.data, ns, y, q)
    BY <1>2, <1>11, <2>2, FileRowSays
  <2>4. /\ ns \subseteq DOMAIN log /\ y.scheduled = Cardinality(ns)
        /\ Describes(y, log, c, r.data, ns, Cardinality(Ok(log, ns)),
                     Median2(Bytes(log), Ok(log, ns)))
        /\ y.status = "complete"
    BY ONLY <1>11, <2>3 DEF FileSays
  <2>5. y.codec = c /\ y.data = r.data /\ y.size = size
    BY <1>11, <2>4 DEF Describes
  <2>6. y \in plain
    BY <1>11, <2>1, <2>4, LogIsFinite, RowsAreMade DEF plain
  <2>7. size \in Nat
    BY <1>11, <2>4, SizesAre
  <2>8. r.size \in Nat
    <3>1. mine # {}
      BY <1>2, <1>5, <1>6, LogIsFinite DEF Plain, plain
    <3> QED
      BY <1>5, <1>6, <1>9, <3>1, SizesAre
  <2>9. /\ x.codec # y.codec /\ x.data = y.data /\ x.size \in Nat /\ y.size \in Nat
        /\ 49 * y.size < 50 * x.size /\ 49 * x.size < 50 * y.size
    BY <1>6, <1>11, <2>5, <2>7, <2>8
  <2>10. Close(x, y)
    BY ONLY <1>7, <2>4, <2>9, NearIsClose
  <2> QED
    BY <1>5, <1>7, <2>6, <2>10
<1>12. ASSUME NEW c \in CodecSet \ {r.codec},
              Of(log, c, r.data) # {}, Ok(log, Of(log, c, r.data)) = Of(log, c, r.data),
              49 * Median2(Bytes(log), Of(log, c, r.data)) < 50 * r.size,
              49 * r.size < 50 * Median2(Bytes(log), Of(log, c, r.data))
       PROVE  Cardinality(mine) >= StrictReps
  BY <1>11, <1>12
<1> HIDE DEF mine
<1> QED
  BY ONLY <1>9, <1>10, <1>12, Zenon DEF mine

LEMMA TableIsTyped ==
  ASSUME IsLog(log), stopped => table = BuildSummaryRows(log), ~stopped => table = {},
         stopped \in BOOLEAN
  PROVE  TableTyped
<1> SUFFICES ASSUME NEW r \in table
    PROVE  /\ r.codec \in CodecSet /\ r.data \in DatasetSet \cup {Corpus}
           /\ r.confidence \in {"confirmed", "inconclusive", "not-measured"}
           /\ r.samples <= r.reps
  BY DEF TableTyped, IsLog
<1>1. r \in BuildSummaryRows(log)
  OBVIOUS
<1>2. \A x, P : Confidence(x, P) \in {"confirmed", "inconclusive", "not-measured"}
  BY DEF Confidence
<1>3. CASE r.data # Corpus
  <2> DEFINE x == FileRow(log, r.codec, r.data)
             ns == Of(log, r.codec, r.data)
  <2>1. r.codec \in CodecSet /\ r.data \in DatasetSet /\ r = FinalRow(log, x)
    BY <1>1, <1>3, FileRowsAre
  <2> HIDE DEF x, ns
  <2>2. x = FileRow(log, r.codec, r.data) /\ ns = Of(log, r.codec, r.data)
    BY DEF x, ns
  <2>3. FileSays(log, r.codec, r.data, ns, x, r)
    BY <2>1, <2>2, FileRowSays
  <2>4. /\ Describes(r, log, r.codec, r.data, ns, Cardinality(Ok(log, ns)),
                     Median2(Bytes(log), Ok(log, ns)))
        /\ r.confidence = Confidence(x, Plain(log)) /\ r.reps = Cardinality(ns)
        /\ Cardinality(Ok(log, ns)) <= Cardinality(ns)
    BY ONLY <2>3 DEF FileSays
  <2>5. r.samples = Cardinality(Ok(log, ns))
    BY <2>4 DEF Describes
  <2> QED
    BY <1>2, <2>1, <2>4, <2>5
<1>4. CASE r.data = Corpus
  <2> DEFINE x == CorpusRow(log, r.codec)
             ns == OfCodec(log, r.codec)
             reps == RepsOf(log, ns)
             f == [n \in ns |-> log[n].rep]
  <2>1. r.codec \in CodecSet /\ r = FinalRow(log, x)
    BY <1>1, <1>4, CorpusRowsAre
  <2>2. ns \subseteq DOMAIN log
    BY DEF OfCodec
  <2> HIDE DEF x, ns
  <2>3. x = CorpusRow(log, r.codec) /\ ns = OfCodec(log, r.codec)
    BY DEF x, ns
  <2>4. PICK size : Describes(r, log, r.codec, Corpus, ns, Cardinality(WholeReps(log, ns)), size)
    BY <2>1, <2>3, CorpusRowIs
  <2>5. r.confidence = Confidence(x, Plain(log))
    BY <2>1, <2>3, CorpusRowIs
  <2>6. r.samples = Cardinality(WholeReps(log, ns)) /\ r.reps = Cardinality(reps)
    BY <2>4 DEF Describes
  <2>7. f \in Surjection(ns, reps) /\ IsFiniteSet(ns)
    BY <2>2, LogIsFinite DEF Surjection, RepsOf
  <2>8. WholeReps(log, ns) \subseteq reps
    BY DEF WholeReps
  <2> HIDE DEF f, reps
  <2>9. IsFiniteSet(reps)
    BY <2>7, FS_Surjection
  <2>10. Cardinality(WholeReps(log, ns)) <= Cardinality(reps)
    BY <2>8, <2>9, FS_Subset
  <2> QED
    BY <1>2, <1>4, <2>1, <2>5, <2>6, <2>10
<1> QED
  BY <1>3, <1>4

\* The log is the first trials of the schedule, and the table was made of it.
SummaryInv ==
  /\ IsLog(log) /\ stopped \in BOOLEAN
  /\ stopped => table = BuildSummaryRows(log)
  /\ ~stopped => table = {}

LEMMA SummaryStarts == SummaryInit => SummaryInv
<1> SUFFICES ASSUME SummaryInit PROVE SummaryInv
  OBVIOUS
<1>1. log = <<>> /\ table = {} /\ stopped = FALSE
  BY DEF SummaryInit
<1>2. log \in Seq(RecordSet) /\ Len(log) = 0
  BY <1>1
<1>3. ScheduleLength \in Nat
  <2>1. Repetitions * Width \in Nat
    BY Widths
  <2> QED
    BY <2>1, Widths DEF ScheduleLength, Width
<1>4. IsLog(log)
  BY <1>2, <1>3 DEF IsLog
<1> QED
  BY <1>1, <1>4 DEF SummaryInv

LEMMA LogGrows ==
  ASSUME NEW l, IsLog(l), Len(l) < ScheduleLength,
         NEW o \in Outcomes[Cell(Len(l) + 1).codec],
         NEW m, m = Append(l, TrialRecord(Cell(Len(l) + 1), o))
  PROVE  IsLog(m)
<1> DEFINE n == Len(l) + 1
           x == TrialRecord(Cell(n), o)
<1>1. ScheduleLength \in Nat
  <2>1. Repetitions * Width \in Nat
    BY Widths
  <2> QED
    BY <2>1, Widths DEF ScheduleLength, Width
<1>2. Len(l) \in Nat /\ n \in 1..ScheduleLength /\ l \in Seq(RecordSet)
  BY <1>1, LogHas DEF IsLog
<1>3. o \in OutcomeSet
  <2>1. PICK k \in 1..BlockSize, j \in 1..Width, r \in 0..Repetitions-1 : n = Slot(k, j, r)
    BY <1>2, SlotsFill
  <2>2. r \in Nat
    BY Widths
  <2> HIDE DEF n
  <2>3. Cell(n) = [block |-> Width * r + (j - 1), order |-> k - 1, rep |-> r,
                   data |-> Datasets[j], codec |-> Codecs[k]]
    BY <2>1, <2>2, SlotIs
  <2>4. Cell(n).codec = Codecs[k] /\ k \in DOMAIN Codecs
    BY <2>3, Widths
  <2>5. Outcomes[Codecs[k]] \subseteq OutcomeSet
    BY <2>4, SummaryAssumption DEF OutcomeSet
  <2> QED
    BY <2>4, <2>5 DEF n
<1>4. x \in RecordSet
  BY <1>2, <1>3 DEF RecordSet
<1>5. m = Append(l, x)
  OBVIOUS
<1> HIDE DEF x
<1>6. /\ m \in Seq(RecordSet) /\ Len(m) = n /\ m[n] = x
      /\ \A i \in 1..Len(l) : m[i] = l[i]
  BY <1>2, <1>4, <1>5
<1>7. ASSUME NEW i \in 1..Len(m) PROVE \E v \in OutcomeSet : m[i] = TrialRecord(Cell(i), v)
  <2>1. CASE i = n
    BY <1>3, <1>6, <2>1 DEF x
  <2>2. CASE i # n
    <3>1. i \in 1..Len(l)
      BY <1>2, <1>6, <2>2
    <3> QED
      BY <1>6, <3>1 DEF IsLog
  <2> QED
    BY <2>1, <2>2
<1>8. Len(m) <= ScheduleLength
  BY <1>1, <1>2, <1>6
<1> QED
  BY <1>6, <1>7, <1>8 DEF IsLog

LEMMA SummaryKeeps == SummaryInv /\ [SummaryNext]_summaryVars => SummaryInv'
<1> SUFFICES ASSUME SummaryInv, [SummaryNext]_summaryVars PROVE SummaryInv'
  OBVIOUS
<1>1. CASE AppendTrial
  <2>1. /\ ~stopped /\ Len(log) < ScheduleLength
        /\ table' = table /\ stopped' = stopped
    BY <1>1 DEF AppendTrial
  <2>2. PICK o \in Outcomes[Cell(Len(log) + 1).codec] :
          log' = Append(log, TrialRecord(Cell(Len(log) + 1), o))
    BY <1>1 DEF AppendTrial
  <2>3. IsLog(log) /\ table = {} /\ stopped \in BOOLEAN
    BY <2>1 DEF SummaryInv
  <2>4. IsLog(log')
    BY ONLY <2>1, <2>2, <2>3, LogGrows
  <2> QED
    BY <2>1, <2>3, <2>4 DEF SummaryInv
<1>2. CASE Summarize
  <2>1. table' = BuildSummaryRows(log) /\ stopped' = TRUE /\ log' = log
    BY <1>2 DEF Summarize
  <2>2. table' = BuildSummaryRows(log')
    BY <2>1
  <2> QED
    BY <2>1, <2>2 DEF SummaryInv
<1>3. CASE UNCHANGED summaryVars
  <2>1. log' = log /\ table' = table /\ stopped' = stopped
    BY <1>3 DEF summaryVars
  <2>2. BuildSummaryRows(log') = BuildSummaryRows(log)
    BY <2>1
  <2> QED
    BY <2>1, <2>2 DEF SummaryInv
<1> QED
  BY <1>1, <1>2, <1>3 DEF SummaryNext

LEMMA TableHolds == SummaryInv => TableKeepsFailures
<1> SUFFICES ASSUME SummaryInv PROVE TableKeepsFailures
  OBVIOUS
<1>1. /\ IsLog(log) /\ stopped \in BOOLEAN
      /\ stopped => table = BuildSummaryRows(log)
      /\ ~stopped => table = {}
  BY DEF SummaryInv
<1>2. InterruptedRowsSummarize
  BY <1>1, LogIsAccepted DEF InterruptedRowsSummarize
<1> QED
  BY <1>1, <1>2, TableIsTyped, FilesAreReplicated, NothingIsLost DEF TableKeepsFailures

\* SummarySpec keeps the table: it is made, it loses no trial, and what it
\* confirms of a file was measured often enough (build_summary_rows).
THEOREM SummaryTable == SummarySpec => []TableKeepsFailures
BY SummaryStarts, SummaryKeeps, TableHolds, PTL DEF SummarySpec

\* What an interrupted campaign's table and the certificates made of such rows
\* say of the trials behind them, for all schedules and all evidence.
THEOREM Tables == SummarySpec /\ CertificateSpec => []TablesHold
<1>1. TableKeepsFailures /\ CertificatesHold => TablesHold
  BY DEF TablesHold
<1> QED
  BY <1>1, SummaryTable, Certificates, PTL

-------------------------------------------------------------------------------
(* The paired table: what a complete protocol says of the records.         *)

\* Every pair is there, restored, and one archive on each side.
Whole(rec, units, n) ==
  /\ \A s \in Sides, f \in units, k \in Reps(n) :
       Worked(rec[s][f][k]) /\ rec[s][f][k].roundtrip /\ rec[s][f][k].det
  /\ \A f \in units, k \in Reps(n) :
       rec["baseline"][f][k].block = rec["ablated"][f][k].block
  /\ \A s \in Sides, f \in units : \A k, l \in Reps(n) :
       rec[s][f][k].hash = rec[s][f][l].hash

LEMMA TwoOrMore ==
  ASSUME NEW S, IsFiniteSet(S), NEW x \in S, NEW y \in S, x # y
  PROVE  Cardinality(S) > 1
<1>1. IsFiniteSet(S \ {x}) /\ Cardinality(S \ {x}) = Cardinality(S) - 1
  BY FS_RemoveElement
<1>2. Cardinality(S \ {x}) # 0 /\ Cardinality(S \ {x}) \in Nat /\ Cardinality(S) \in Nat
  BY <1>1, FS_EmptySet, FS_CardinalityType
<1> QED
  BY <1>1, <1>2

LEMMA AtMostOne ==
  ASSUME NEW S, \A x, y \in S : x = y
  PROVE  IsFiniteSet(S) /\ Cardinality(S) \in 0..1
<1>1. CASE S = {}
  BY <1>1, FS_EmptySet
<1>2. CASE S # {}
  <2>1. PICK x : S = {x}
    BY <1>2
  <2> QED
    BY <2>1, FS_Singleton
<1> QED
  BY <1>1, <1>2

LEMMA RepsAre ==
  ASSUME NEW n \in Nat
  PROVE  IsFiniteSet(Reps(n)) /\ Cardinality(Reps(n)) = n
BY FS_Interval DEF Reps

\* The archives of one file on one side have one hash, or there are several.
LEMMA HashesOf ==
  ASSUME NEW rec, NEW s, NEW f, NEW n \in Nat
  PROVE  LET ok == {r \in RecordsOf(rec, s, {f}, n) : Worked(r)}
         IN  ~(Cardinality({r.hash : r \in ok}) > 1)
               <=> \A k, l \in Reps(n) : Worked(rec[s][f][k]) /\ Worked(rec[s][f][l])
                                           => rec[s][f][k].hash = rec[s][f][l].hash
<1> DEFINE ok == {r \in RecordsOf(rec, s, {f}, n) : Worked(r)}
           good == {k \in Reps(n) : Worked(rec[s][f][k])}
           hashes == {r.hash : r \in ok}
<1>1. ok = {rec[s][f][k] : k \in good}
  BY DEF RecordsOf
<1>2. hashes = {rec[s][f][k].hash : k \in good}
  BY <1>1
<1>3. IsFiniteSet(hashes)
  <2>1. [k \in good |-> rec[s][f][k].hash] \in Surjection(good, hashes)
    <3> HIDE DEF ok, good, hashes
    <3> QED
      BY <1>2 DEF Surjection
  <2>2. IsFiniteSet(good)
    BY RepsAre, FS_Subset
  <2> HIDE DEF hashes, good
  <2> QED
    BY <2>1, <2>2, FS_Surjection
<1>4. ASSUME ~(Cardinality(hashes) > 1), NEW k \in good, NEW l \in good
      PROVE  rec[s][f][k].hash = rec[s][f][l].hash
  <2>1. rec[s][f][k].hash \in hashes /\ rec[s][f][l].hash \in hashes
    BY <1>2
  <2> HIDE DEF hashes
  <2> QED
    BY <1>3, <1>4, <2>1, TwoOrMore
<1>5. ASSUME \A k, l \in good : rec[s][f][k].hash = rec[s][f][l].hash
      PROVE  ~(Cardinality(hashes) > 1)
  <2>1. \A x, y \in hashes : x = y
    BY <1>2, <1>5
  <2> HIDE DEF hashes
  <2>2. Cardinality(hashes) \in 0..1
    BY <2>1, AtMostOne
  <2> QED
    BY <2>2
<1> HIDE DEF hashes
<1>6. ~(Cardinality(hashes) > 1)
        <=> \A k, l \in good : rec[s][f][k].hash = rec[s][f][l].hash
  BY <1>4, <1>5
<1> QED
  BY <1>6 DEF hashes

\* A run of one status has that status everywhere, and somewhere.
LEMMA SideIsOk ==
  ASSUME NEW rec, NEW s, NEW units, IsFiniteSet(units), NEW n \in Nat
  PROVE  SideStatus(rec, s, units, n) = "ok"
           <=> /\ units # {} /\ Reps(n) # {}
               /\ \A f \in units, k \in Reps(n) : Worked(rec[s][f][k])
<1> DEFINE statuses == {r.status : r \in RecordsOf(rec, s, units, n)}
<1>1. statuses = {rec[s][f][k].status : f \in units, k \in Reps(n)}
  BY DEF RecordsOf
<1>2. SideStatus(rec, s, units, n)
        = IF Cardinality(statuses) = 1 THEN CHOOSE t \in statuses : TRUE ELSE "mixed"
  BY DEF SideStatus
<1>3. ASSUME SideStatus(rec, s, units, n) = "ok"
      PROVE  statuses = {"ok"}
  <2> HIDE DEF statuses
  <2>1. Cardinality(statuses) = 1 /\ (CHOOSE t \in statuses : TRUE) = "ok"
    BY <1>2, <1>3
  <2>2. IsFiniteSet(statuses)
    <3> DEFINE at == [p \in units \X Reps(n) |-> rec[s][p[1]][p[2]].status]
    <3>1. IsFiniteSet(units \X Reps(n))
      BY RepsAre, FS_Product
    <3>2. at \in [units \X Reps(n) -> statuses]
      BY <1>1
    <3>3. ASSUME NEW t \in statuses PROVE \E p \in units \X Reps(n) : at[p] = t
      <4>1. PICK f \in units, k \in Reps(n) : t = rec[s][f][k].status
        BY <1>1
      <4>2. <<f, k>> \in units \X Reps(n) /\ at[<<f, k>>] = t
        BY <4>1
      <4> HIDE DEF at
      <4> QED
        BY <4>2
    <3> HIDE DEF at
    <3>4. at \in Surjection(units \X Reps(n), statuses)
      BY <3>2, <3>3 DEF Surjection
    <3> QED
      BY <3>1, <3>4, FS_Surjection
  <2> QED
    BY <2>1, <2>2, FS_Singleton
<1>4. ASSUME statuses = {"ok"}
      PROVE  SideStatus(rec, s, units, n) = "ok"
  <2>1. Cardinality({"ok"}) = 1
    BY FS_Singleton
  <2> HIDE DEF statuses
  <2> QED
    BY <1>2, <1>4, <2>1
<1>5. statuses = {"ok"} <=> /\ units # {} /\ Reps(n) # {}
                            /\ \A f \in units, k \in Reps(n) : Worked(rec[s][f][k])
  <2> HIDE DEF statuses
  <2>1. ASSUME statuses = {"ok"}
        PROVE  /\ units # {} /\ Reps(n) # {}
               /\ \A f \in units, k \in Reps(n) : Worked(rec[s][f][k])
    <3>1. "ok" \in {rec[s][f][k].status : f \in units, k \in Reps(n)}
      BY <1>1, <2>1
    <3>2. units # {} /\ Reps(n) # {}
      BY <3>1
    <3>3. \A f \in units, k \in Reps(n) : rec[s][f][k].status \in statuses
      BY <1>1
    <3> QED
      BY <2>1, <3>2, <3>3 DEF Worked
  <2>2. ASSUME units # {}, Reps(n) # {},
               \A f \in units, k \in Reps(n) : Worked(rec[s][f][k])
        PROVE  statuses = {"ok"}
    <3>1. \A f \in units, k \in Reps(n) : rec[s][f][k].status = "ok"
      BY <2>2 DEF Worked
    <3>2. PICK f \in units, k \in Reps(n) : TRUE
      BY <2>2
    <3> QED
      BY <1>1, <3>1, <3>2
  <2> QED
    BY <2>1, <2>2
<1> HIDE DEF statuses
<1> QED
  BY <1>3, <1>4, <1>5

LEMMA AllAre ==
  ASSUME NEW rec, NEW units, NEW n
  PROVE  All(rec, units, n) = {rec[s][f][k] : s \in Sides, f \in units, k \in Reps(n)}
BY DEF All, RecordsOf

LEMMA CorrectnessIs ==
  ASSUME NEW rec, NEW units, NEW n
  PROVE  /\ CorrectnessStatus(rec, units, n) = "fail"
              <=> \E s \in Sides, f \in units, k \in Reps(n) :
                    rec[s][f][k].status = "failed" /\ ~rec[s][f][k].roundtrip
         /\ CorrectnessStatus(rec, units, n) = "pass"
              => \A s \in Sides, f \in units, k \in Reps(n) : rec[s][f][k].roundtrip
         /\ (\A s \in Sides, f \in units, k \in Reps(n) :
               Worked(rec[s][f][k]) /\ rec[s][f][k].roundtrip)
              => CorrectnessStatus(rec, units, n) = "pass"
<1> DEFINE all == All(rec, units, n)
           fails == \E r \in all : r.status = "failed" /\ ~r.roundtrip
           passes == \A r \in all : Recorded(r) /\ r.roundtrip
<1>1. CorrectnessStatus(rec, units, n)
        = IF fails THEN "fail" ELSE IF passes THEN "pass" ELSE "incomplete"
  BY DEF CorrectnessStatus
<1>2. fails <=> \E s \in Sides, f \in units, k \in Reps(n) :
                  rec[s][f][k].status = "failed" /\ ~rec[s][f][k].roundtrip
  BY AllAre
<1>3. passes <=> \A s \in Sides, f \in units, k \in Reps(n) :
                   Recorded(rec[s][f][k]) /\ rec[s][f][k].roundtrip
  BY AllAre
<1> HIDE DEF fails, passes
<1>4. \A s \in Sides, f \in units, k \in Reps(n) :
        Worked(rec[s][f][k]) => Recorded(rec[s][f][k]) /\ rec[s][f][k].status # "failed"
  BY DEF Worked, Recorded
<1> QED
  BY <1>1, <1>2, <1>3, <1>4

\* An archive that differs in one repetition, or from that of another one.
Unstable(rec, s, f, n) ==
  \/ \E k \in Reps(n) : Worked(rec[s][f][k]) /\ ~rec[s][f][k].det
  \/ \E k, l \in Reps(n) : /\ Worked(rec[s][f][k]) /\ Worked(rec[s][f][l])
                           /\ rec[s][f][k].hash # rec[s][f][l].hash

LEMMA DeterminismIs ==
  ASSUME NEW rec, NEW units, NEW n \in Nat
  PROVE  /\ DeterminismStatus(rec, units, n) = "fail"
              <=> \E s \in Sides, f \in units : Unstable(rec, s, f, n)
         /\ (/\ \A s \in Sides, f \in units : ~Unstable(rec, s, f, n)
             /\ \A s \in Sides, f \in units, k \in Reps(n) :
                  Worked(rec[s][f][k]) /\ rec[s][f][k].det)
              <=> DeterminismStatus(rec, units, n) = "pass"
<1> DEFINE all == All(rec, units, n)
           ok(s, f) == {r \in RecordsOf(rec, s, {f}, n) : Worked(r)}
           unstable(s, f) == \/ \E r \in ok(s, f) : ~r.det
                             \/ Cardinality({r.hash : r \in ok(s, f)}) > 1
           stable == \A r \in all : Worked(r) /\ r.det
<1>1. DeterminismStatus(rec, units, n)
        = IF \E s \in Sides, f \in units : unstable(s, f) THEN "fail"
          ELSE IF stable THEN "pass" ELSE "incomplete"
  BY DEF DeterminismStatus
<1>2. ASSUME NEW s \in Sides, NEW f \in units
      PROVE  unstable(s, f) <=> Unstable(rec, s, f, n)
  <2>1. ok(s, f) = {rec[s][f][k] : k \in {l \in Reps(n) : Worked(rec[s][f][l])}}
    BY DEF RecordsOf
  <2>2. (\E r \in ok(s, f) : ~r.det)
          <=> \E k \in Reps(n) : Worked(rec[s][f][k]) /\ ~rec[s][f][k].det
    BY <2>1
  <2>3. Cardinality({r.hash : r \in ok(s, f)}) > 1
          <=> \E k, l \in Reps(n) : /\ Worked(rec[s][f][k]) /\ Worked(rec[s][f][l])
                                    /\ rec[s][f][k].hash # rec[s][f][l].hash
    BY HashesOf
  <2> HIDE DEF ok
  <2> QED
    BY <2>2, <2>3 DEF Unstable
<1>3. stable <=> \A s \in Sides, f \in units, k \in Reps(n) :
                   Worked(rec[s][f][k]) /\ rec[s][f][k].det
  BY AllAre
<1> HIDE DEF unstable, stable
<1> QED
  BY <1>1, <1>2, <1>3

LEMMA PairingIs ==
  ASSUME NEW rec, NEW units, NEW n
  PROVE  PairingStatus(rec, units, n) = "complete"
           <=> \A f \in units, k \in Reps(n) :
                 LET b == rec["baseline"][f][k]
                     a == rec["ablated"][f][k]
                 IN  Recorded(b) /\ Recorded(a) /\ b.block = a.block
<1> DEFINE pairs == units \X Reps(n)
           b(fk) == rec["baseline"][fk[1]][fk[2]]
           a(fk) == rec["ablated"][fk[1]][fk[2]]
           mismatch == \E fk \in pairs : /\ Recorded(b(fk)) /\ Recorded(a(fk))
                                         /\ b(fk).block # a(fk).block
           missing == \E fk \in pairs : ~Recorded(b(fk)) \/ ~Recorded(a(fk))
           good(f, k) == /\ Recorded(rec["baseline"][f][k]) /\ Recorded(rec["ablated"][f][k])
                         /\ rec["baseline"][f][k].block = rec["ablated"][f][k].block
<1>1. PairingStatus(rec, units, n)
        = IF missing THEN IF mismatch THEN "incomplete" ELSE "missing"
          ELSE IF mismatch THEN "schedule-mismatch" ELSE "complete"
  BY DEF PairingStatus
<1>2. PairingStatus(rec, units, n) = "complete" <=> ~missing /\ ~mismatch
  <2> HIDE DEF missing, mismatch
  <2> QED
    BY <1>1
<1>3. ~missing /\ ~mismatch <=> \A fk \in pairs : good(fk[1], fk[2])
  OBVIOUS
<1>4. (\A fk \in pairs : good(fk[1], fk[2])) <=> \A f \in units, k \in Reps(n) : good(f, k)
  <2> HIDE DEF good
  <2>1. ASSUME \A fk \in pairs : good(fk[1], fk[2]), NEW f \in units, NEW k \in Reps(n)
        PROVE  good(f, k)
    <3>1. <<f, k>> \in pairs /\ <<f, k>>[1] = f /\ <<f, k>>[2] = k
      OBVIOUS
    <3> QED
      BY <2>1, <3>1
  <2>2. ASSUME \A f \in units, k \in Reps(n) : good(f, k), NEW fk \in pairs
        PROVE  good(fk[1], fk[2])
    BY <2>2
  <2> QED
    BY <2>1, <2>2
<1> HIDE DEF missing, mismatch
<1> QED
  BY <1>2, <1>3, <1>4

\* A protocol that found nothing missing or unstable, over the repetitions.
LEMMA ProtocolMeans ==
  ASSUME NEW rec, NEW units, IsFiniteSet(units), NEW n \in Nat,
         ProtocolStatus(rec, units, n) \in {"complete", "insufficient-repetitions"}
  PROVE  /\ Whole(rec, units, n) /\ units # {} /\ Reps(n) # {}
         /\ PairedSuccesses(rec, units, n) = Reps(n)
         /\ ProtocolStatus(rec, units, n) = "complete" =>
              /\ ~(n < MinPairs)
              /\ ~(n < StrictPairs /\ CloseDelta(rec, units, n))
<1>1. /\ CorrectnessStatus(rec, units, n) = "pass"
      /\ DeterminismStatus(rec, units, n) = "pass"
      /\ PairingStatus(rec, units, n) = "complete"
      /\ \A s \in Sides : SideStatus(rec, s, units, n) = "ok"
      /\ ProtocolStatus(rec, units, n) = "complete" =>
           /\ ~(n < MinPairs)
           /\ ~(n < StrictPairs /\ CloseDelta(rec, units, n))
  BY DEF ProtocolStatus
<1>2. \A s \in Sides, f \in units, k \in Reps(n) :
        Worked(rec[s][f][k]) /\ rec[s][f][k].roundtrip /\ rec[s][f][k].det
  BY <1>1, SideIsOk, CorrectnessIs, DeterminismIs
<1>3. units # {} /\ Reps(n) # {}
  BY <1>1, SideIsOk DEF Sides
<1>4. \A f \in units, k \in Reps(n) :
        rec["baseline"][f][k].block = rec["ablated"][f][k].block
  BY <1>1, PairingIs
<1>5. \A s \in Sides, f \in units : \A k, l \in Reps(n) :
        rec[s][f][k].hash = rec[s][f][l].hash
  <2>1. \A s \in Sides, f \in units : ~Unstable(rec, s, f, n)
    BY <1>1, DeterminismIs
  <2> QED
    BY <1>2, <2>1 DEF Unstable
<1>6. PairedSuccesses(rec, units, n) = Reps(n)
  BY <1>2, <1>4 DEF PairedSuccesses, PairedIn, SuccessfulPair, Sides
<1> QED
  BY <1>1, <1>2, <1>3, <1>4, <1>5, <1>6 DEF Whole

LEMMA WholeProtocol ==
  ASSUME NEW rec, NEW units, IsFiniteSet(units), units # {}, NEW n \in Nat, Reps(n) # {},
         Whole(rec, units, n)
  PROVE  ProtocolStatus(rec, units, n) \in {"complete", "insufficient-repetitions"}
<1>1. \A s \in Sides, f \in units, k \in Reps(n) :
        Worked(rec[s][f][k]) /\ rec[s][f][k].roundtrip /\ rec[s][f][k].det
  BY DEF Whole
<1>2. CorrectnessStatus(rec, units, n) = "pass"
  BY <1>1, CorrectnessIs
<1>3. DeterminismStatus(rec, units, n) = "pass"
  <2>1. \A s \in Sides, f \in units : ~Unstable(rec, s, f, n)
    BY DEF Whole, Unstable
  <2> QED
    BY <1>1, <2>1, DeterminismIs
<1>4. PairingStatus(rec, units, n) = "complete"
  <2>1. \A f \in units, k \in Reps(n) :
          /\ Recorded(rec["baseline"][f][k]) /\ Recorded(rec["ablated"][f][k])
          /\ rec["baseline"][f][k].block = rec["ablated"][f][k].block
    BY <1>1 DEF Whole, Recorded, Worked, Sides
  <2> QED
    BY <2>1, PairingIs
<1>5. \A s \in Sides : SideStatus(rec, s, units, n) = "ok"
  BY <1>1, SideIsOk
<1>6. PairedSuccesses(rec, units, n) = Reps(n)
  BY DEF Whole, PairedSuccesses, PairedIn, SuccessfulPair, Sides
<1>7. Cardinality(PairedSuccesses(rec, units, n)) = n
  BY <1>6, RepsAre
<1> QED
  BY <1>2, <1>3, <1>4, <1>5, <1>7 DEF ProtocolStatus

\* A corpus fails with its files.
LEMMA CorpusFails ==
  ASSUME NEW rec, NEW units, NEW n \in Nat
  PROVE  ProtocolStatus(rec, units, n) = "failed"
           <=> \E f \in units : ProtocolStatus(rec, {f}, n) = "failed"
<1>1. \A us : ProtocolStatus(rec, us, n) = "failed"
                <=> \/ CorrectnessStatus(rec, us, n) = "fail"
                    \/ DeterminismStatus(rec, us, n) = "fail"
  BY DEF ProtocolStatus
<1>2. CorrectnessStatus(rec, units, n) = "fail"
        <=> \E f \in units : CorrectnessStatus(rec, {f}, n) = "fail"
  <2> DEFINE fails(f) == \E s \in Sides, k \in Reps(n) :
                           rec[s][f][k].status = "failed" /\ ~rec[s][f][k].roundtrip
  <2>1. \A f : CorrectnessStatus(rec, {f}, n) = "fail" <=> fails(f)
    BY CorrectnessIs
  <2>2. CorrectnessStatus(rec, units, n) = "fail" <=> \E f \in units : fails(f)
    BY CorrectnessIs
  <2> HIDE DEF fails
  <2> QED
    BY <2>1, <2>2
<1>3. DeterminismStatus(rec, units, n) = "fail"
        <=> \E f \in units : DeterminismStatus(rec, {f}, n) = "fail"
  <2>1. \A f : DeterminismStatus(rec, {f}, n) = "fail"
                 <=> \E s \in Sides : Unstable(rec, s, f, n)
    BY DeterminismIs
  <2>2. DeterminismStatus(rec, units, n) = "fail"
          <=> \E s \in Sides, f \in units : Unstable(rec, s, f, n)
    BY DeterminismIs
  <2> QED
    BY <2>1, <2>2
<1> QED
  BY <1>1, <1>2, <1>3

-------------------------------------------------------------------------------
(* The paired table: what a benefit says of the sizes.                     *)

\* The sizes of successful archives are numbers, and those of one hash equal.
Sized(rec, units, n) ==
  \A s \in Sides, f \in units : \A k, l \in Reps(n) :
    /\ rec[s][f][k].bytes \in Int
    /\ rec[s][f][k].hash = rec[s][f][l].hash => rec[s][f][k].bytes = rec[s][f][l].bytes

LEMMA DeltaOfOne ==
  ASSUME NEW rec, NEW f, NEW n, Sized(rec, {f}, n), NEW k \in Reps(n)
  PROVE  /\ rec["ablated"][f][k].bytes \in Int /\ rec["baseline"][f][k].bytes \in Int
         /\ Delta(rec, {f}, k) = rec["ablated"][f][k].bytes - rec["baseline"][f][k].bytes
<1>1. \A s \in Sides : rec[s][f][k].bytes \in Int
  BY DEF Sized
<1>2. ASSUME NEW s \in Sides PROVE Total(rec, s, {f}, k) = rec[s][f][k].bytes
  <2> DEFINE sizes == [g \in {f} |-> rec[s][g][k].bytes]
  <2>1. sizes[f] = rec[s][f][k].bytes /\ Total(rec, s, {f}, k) = SumOver(sizes, {f})
    BY DEF Total
  <2> HIDE DEF sizes
  <2>2. SumOver(sizes, {f}) = sizes[f]
    BY <1>1, <2>1, SumOfOne
  <2> QED
    BY <2>1, <2>2
<1> QED
  BY <1>1, <1>2 DEF Delta, Sides

LEMMA TotalIsInt ==
  ASSUME NEW rec, NEW units, IsFiniteSet(units), NEW n, Sized(rec, units, n),
         NEW s \in Sides, NEW k \in Reps(n)
  PROVE  Total(rec, s, units, k) \in Int
<1> DEFINE sizes == [f \in units |-> rec[s][f][k].bytes]
<1>1. (\A f \in units : sizes[f] \in Int) /\ Total(rec, s, units, k) = SumOver(sizes, units)
  BY DEF Sized, Total
<1> HIDE DEF sizes
<1>2. SumOver(sizes, units) \in Int
  BY <1>1, SumStep
<1> QED
  BY <1>1, <1>2

\* The deltas of the repetitions add up to the difference of the totals.
LEMMA DeltaSumIs ==
  ASSUME NEW rec, NEW units, IsFiniteSet(units), NEW n \in Nat, Sized(rec, units, n)
  PROVE  LET of(s) == SumOver([k \in Reps(n) |-> Total(rec, s, units, k)], Reps(n))
         IN  /\ of("ablated") \in Int /\ of("baseline") \in Int
             /\ DeltaSum(rec, units, Reps(n)) = of("ablated") - of("baseline")
<1> DEFINE a == [k \in Reps(n) |-> Total(rec, "ablated", units, k)]
           b == [k \in Reps(n) |-> Total(rec, "baseline", units, k)]
           delta == [k \in Reps(n) |-> Delta(rec, units, k)]
<1>1. \A k \in Reps(n) : a[k] \in Int /\ b[k] \in Int /\ delta[k] = a[k] - b[k]
  BY TotalIsInt DEF Delta, Sides
<1>2. IsFiniteSet(Reps(n)) /\ DeltaSum(rec, units, Reps(n)) = SumOver(delta, Reps(n))
  BY RepsAre DEF DeltaSum
<1> HIDE DEF a, b, delta
<1>3. SumOver(delta, Reps(n)) = SumOver(a, Reps(n)) - SumOver(b, Reps(n))
  BY <1>1, <1>2, SumOfDifferences
<1>4. SumOver(a, Reps(n)) \in Int /\ SumOver(b, Reps(n)) \in Int
  BY <1>1, <1>2, SumStep
<1> QED
  BY <1>2, <1>3, <1>4 DEF a, b

\* The gains of a file add up to the gain of its total.
LEMMA GainsAddUp ==
  ASSUME NEW rec, NEW f, NEW n \in Nat, Sized(rec, {f}, n), NEW sign \in {1, -1}
  PROVE  LET gain == [k \in Reps(n) |->
                 sign * (rec["ablated"][f][k].bytes - rec["baseline"][f][k].bytes)]
         IN  /\ \A k \in Reps(n) : gain[k] \in Int
             /\ SumOver(gain, Reps(n)) \in Int
             /\ SumOver(gain, Reps(n)) = sign * DeltaSum(rec, {f}, Reps(n))
<1> DEFINE gain == [k \in Reps(n) |->
                      sign * (rec["ablated"][f][k].bytes - rec["baseline"][f][k].bytes)]
           delta == [k \in Reps(n) |-> Delta(rec, {f}, k)]
<1>1. ASSUME NEW k \in Reps(n)
      PROVE  delta[k] \in Int /\ gain[k] = sign * delta[k] /\ gain[k] \in Int
  <2> DEFINE a == rec["ablated"][f][k].bytes
             b == rec["baseline"][f][k].bytes
  <2>1. a \in Int /\ b \in Int /\ delta[k] = a - b
    BY DeltaOfOne
  <2>2. gain[k] = sign * (a - b)
    OBVIOUS
  <2> HIDE DEF a, b, gain, delta
  <2>3. a - b \in Int /\ sign * (a - b) \in Int
    BY <2>1
  <2> QED
    BY <2>1, <2>2, <2>3
<1>2. IsFiniteSet(Reps(n)) /\ DeltaSum(rec, {f}, Reps(n)) = SumOver(delta, Reps(n))
  BY RepsAre DEF DeltaSum
<1> HIDE DEF gain, delta
<1>3. SumOver(gain, Reps(n)) = sign * SumOver(delta, Reps(n))
  BY <1>1, <1>2, SumOfSigned
<1>4. SumOver(gain, Reps(n)) \in Int
  BY <1>1, <1>2, SumStep
<1> QED
  BY <1>1, <1>2, <1>3, <1>4 DEF gain

\* Archives that are the same in every repetition gain the same: a gain of the
\* total is one of each.
LEMMA GainIsEverywhere ==
  ASSUME NEW rec, NEW f, NEW n \in Nat, Sized(rec, {f}, n), Whole(rec, {f}, n),
         NEW sign \in {1, -1}, sign * DeltaSum(rec, {f}, Reps(n)) > 0, NEW k \in Reps(n)
  PROVE  sign * (rec["ablated"][f][k].bytes - rec["baseline"][f][k].bytes) > 0
<1> DEFINE gain == [l \in Reps(n) |->
                      sign * (rec["ablated"][f][l].bytes - rec["baseline"][f][l].bytes)]
<1>1. /\ \A l \in Reps(n) : gain[l] \in Int
      /\ SumOver(gain, Reps(n)) \in Int
      /\ SumOver(gain, Reps(n)) = sign * DeltaSum(rec, {f}, Reps(n))
  BY GainsAddUp
<1>2. \A l \in Reps(n) : gain[l] = gain[k]
  <2> SUFFICES ASSUME NEW l \in Reps(n) PROVE gain[l] = gain[k]
    OBVIOUS
  <2>1. \A s \in Sides : rec[s][f][l].bytes = rec[s][f][k].bytes
    BY DEF Whole, Sized
  <2> QED
    BY <2>1 DEF Sides
<1>3. gain[k] = sign * (rec["ablated"][f][k].bytes - rec["baseline"][f][k].bytes)
  OBVIOUS
<1>4. IsFiniteSet(Reps(n))
  BY RepsAre
<1> HIDE DEF gain
<1>5. ASSUME ~(gain[k] > 0) PROVE FALSE
  <2>1. \A l \in Reps(n) : gain[l] \in Int /\ gain[l] <= 0
    BY <1>1, <1>2, <1>5
  <2>2. SumOver(gain, Reps(n)) <= 0
    BY <1>4, <2>1, SumNotPositive
  <2> QED
    BY <1>1, <2>2
<1> QED
  BY <1>3, <1>5

-------------------------------------------------------------------------------
(* The paired table: its rows, of the records of a complete run.           *)

\* The records of a measured run.
PairsMeasured(d, sh) ==
  \A s \in Sides, f \in sh.files, k \in Reps(sh.reps) :
    d[<<s, f, k>>] \in SideOutcomes[s] \cup {Missing}

LEMMA RecIs ==
  ASSUME NEW d, NEW sh, NEW s \in Sides, NEW f \in sh.files, NEW k \in Reps(sh.reps)
  PROVE  Rec(d, sh)[s][f][k] = d[<<s, f, k>>]
BY DEF Rec

\* Where every trial worked, sizes are numbers and follow the hashes.
LEMMA WorkedIsSized ==
  ASSUME NEW sh \in Shapes, NEW d, PairsMeasured(d, sh), NEW units \in SUBSET sh.files,
         Whole(Rec(d, sh), units, sh.reps)
  PROVE  Sized(Rec(d, sh), units, sh.reps)
<1> DEFINE rec == Rec(d, sh)
<1> SUFFICES ASSUME NEW s \in Sides, NEW f \in units,
                    NEW k \in Reps(sh.reps), NEW l \in Reps(sh.reps)
             PROVE  /\ rec[s][f][k].bytes \in Int
                    /\ rec[s][f][k].hash = rec[s][f][l].hash
                         => rec[s][f][k].bytes = rec[s][f][l].bytes
  BY DEF Sized
<1> DEFINE o == rec[s][f][k]
           p == rec[s][f][l]
<1>1. Worked(o) /\ Worked(p)
  BY DEF Whole
<1>2. o \in SideOutcomes[s] \cup {Missing} /\ p \in SideOutcomes[s] \cup {Missing}
  <2>1. f \in sh.files
    OBVIOUS
  <2>2. o = d[<<s, f, k>>] /\ p = d[<<s, f, l>>]
    BY <2>1, RecIs
  <2> HIDE DEF o, p
  <2> QED
    BY <2>1, <2>2 DEF PairsMeasured
<1> HIDE DEF o, p
<1>3. o \in SideOutcomes[s] /\ p \in SideOutcomes[s]
  BY <1>1, <1>2 DEF Worked, Missing
<1>4. Recorded(o)
  BY <1>1 DEF Worked, Recorded
<1>5. o.bytes \in Int /\ (o.hash = p.hash => o.bytes = p.bytes)
  BY <1>1, <1>3, <1>4, PairsAssumption
<1> QED
  BY <1>5 DEF o, p

LEMMA PairedIsCount ==
  ASSUME NEW rec, NEW units, NEW n \in Nat
  PROVE  Cardinality(PairedSuccesses(rec, units, n)) \in 0..n
<1>1. PairedSuccesses(rec, units, n) \subseteq Reps(n)
  BY DEF PairedSuccesses
<1>2. IsFiniteSet(Reps(n)) /\ Cardinality(Reps(n)) = n
  BY RepsAre
<1>3. /\ IsFiniteSet(PairedSuccesses(rec, units, n))
      /\ Cardinality(PairedSuccesses(rec, units, n)) <= n
  BY <1>1, <1>2, FS_Subset
<1> QED
  BY <1>3, FS_CardinalityType

\* What the code writes in a row of one file and in that of the corpus.
LEMMA PairRowIs ==
  ASSUME NEW rec, NEW files, NEW n, NEW r \in BuildAblationRows(rec, files, n)
  PROVE  /\ r.corpus \in BOOLEAN
         /\ IF r.corpus THEN r.units = files ELSE \E f \in files : r.units = {f}
         /\ r.paired = Cardinality(PairedSuccesses(rec, r.units, n))
         /\ r.protocol = ProtocolStatus(rec, r.units, n)
         /\ r.confidence = PairedConfidence(rec, r.units, n)
         /\ r.decision = Decision(rec, r.units, n, r.corpus)
<1>1. ASSUME NEW us, NEW corpus
      PROVE  LET q == BuildRow(rec, us, n, corpus)
             IN  /\ q.corpus = corpus /\ q.units = us
                 /\ q.paired = Cardinality(PairedSuccesses(rec, us, n))
                 /\ q.protocol = ProtocolStatus(rec, us, n)
                 /\ q.confidence = PairedConfidence(rec, us, n)
                 /\ q.decision = Decision(rec, us, n, corpus)
  BY DEF BuildRow
<1>2. PICK us \in SUBSET files, corpus \in BOOLEAN :
        /\ r = BuildRow(rec, us, n, corpus)
        /\ IF corpus THEN us = files ELSE \E f \in files : us = {f}
  <2>1. \/ r = BuildRow(rec, files, n, TRUE)
        \/ \E f \in files : r = BuildRow(rec, {f}, n, FALSE)
    BY Zenon DEF BuildAblationRows
  <2>2. CASE r = BuildRow(rec, files, n, TRUE)
    <3> WITNESS files \in SUBSET files, TRUE \in BOOLEAN
    <3> QED
      BY <2>2
  <2>3. CASE \E f \in files : r = BuildRow(rec, {f}, n, FALSE)
    <3>1. PICK f \in files : r = BuildRow(rec, {f}, n, FALSE)
      BY <2>3
    <3> WITNESS {f} \in SUBSET files, FALSE \in BOOLEAN
    <3> QED
      BY <3>1
  <2> QED
    BY <2>1, <2>2, <2>3
<1>3. /\ r.corpus = corpus /\ r.units = us
      /\ r.paired = Cardinality(PairedSuccesses(rec, us, n))
      /\ r.protocol = ProtocolStatus(rec, us, n)
      /\ r.confidence = PairedConfidence(rec, us, n)
      /\ r.decision = Decision(rec, us, n, corpus)
  BY <1>1, <1>2
<1>4. corpus = r.corpus /\ us = r.units
  BY <1>3
<1> QED
  BY <1>2, <1>3, <1>4

\* What is recorded of a cell is an outcome of its side or nothing, and rows
\* are those of all cells.
PairInv ==
  /\ pairShape \in Shapes /\ DOMAIN paired \subseteq CellsOf(pairShape)
  /\ \A c \in DOMAIN paired : paired[c] \in SideOutcomes[c[1]] \cup {Missing}
  /\ pairRows # {} =>
       /\ DOMAIN paired = CellsOf(pairShape)
       /\ pairRows = BuildAblationRows(Rec(paired, pairShape), pairShape.files, pairShape.reps)

LEMMA PairsStart == PairInit => PairInv
<1> SUFFICES ASSUME PairInit PROVE PairInv
  OBVIOUS
<1>1. DOMAIN paired = {}
  BY DEF PairInit
<1> QED
  BY <1>1 DEF PairInit, PairInv

LEMMA PairsKeep == PairInv /\ [PairNext]_pairVars => PairInv'
<1> SUFFICES ASSUME PairInv, [PairNext]_pairVars PROVE PairInv'
  OBVIOUS
<1> USE DEF PairInv
<1>1. CASE MeasurePair
  <2> DEFINE cell == CHOOSE c \in CellsOf(pairShape) \ DOMAIN paired : TRUE
  <2>1. cell \in CellsOf(pairShape)
    BY <1>1 DEF MeasurePair
  <2>2. PICK o \in OutcomesOf(cell) :
          paired' = [c \in DOMAIN paired \cup {cell} |-> IF c = cell THEN o ELSE paired[c]]
    BY <1>1 DEF MeasurePair
  <2>3. o \in SideOutcomes[cell[1]] \cup {Missing}
    BY <2>2 DEF OutcomesOf
  <2>4. UNCHANGED <<pairShape, pairRows>> /\ pairRows = {}
    BY <1>1 DEF MeasurePair
  <2> HIDE DEF cell
  <2>5. DOMAIN paired' = DOMAIN paired \cup {cell}
    BY <2>2
  <2>6. \A c \in DOMAIN paired' : paired'[c] \in SideOutcomes[c[1]] \cup {Missing}
    BY <2>2, <2>3, <2>5
  <2> QED
    BY <2>1, <2>4, <2>5, <2>6
<1>2. CASE AnalysePairs
  BY <1>2 DEF AnalysePairs
<1>3. CASE UNCHANGED pairVars
  BY <1>3 DEF pairVars
<1> QED
  BY <1>1, <1>2, <1>3 DEF PairNext

\* The rows of a state, and the records they are made of.
LEMMA RowsOfPairs ==
  ASSUME PairInv, NEW r \in pairRows
  PROVE  LET rec == Rec(paired, pairShape)
             n == pairShape.reps
         IN  /\ pairShape \in Shapes /\ n \in Nat /\ IsFiniteSet(pairShape.files)
             /\ PairsMeasured(paired, pairShape)
             /\ r.units \subseteq pairShape.files /\ IsFiniteSet(r.units)
             /\ r.corpus \in BOOLEAN
             /\ IF r.corpus THEN r.units = pairShape.files
                ELSE \E f \in pairShape.files : r.units = {f}
             /\ r.paired = Cardinality(PairedSuccesses(rec, r.units, n))
             /\ r.protocol = ProtocolStatus(rec, r.units, n)
             /\ r.confidence = PairedConfidence(rec, r.units, n)
             /\ r.decision = Decision(rec, r.units, n, r.corpus)
<1>1. pairShape \in Shapes /\ pairShape.reps \in Nat /\ IsFiniteSet(pairShape.files)
  BY PairsAssumption DEF PairInv
<1>2. PairsMeasured(paired, pairShape)
  <2>1. DOMAIN paired = CellsOf(pairShape)
    BY DEF PairInv
  <2>2. \A s \in Sides, f \in pairShape.files, k \in Reps(pairShape.reps) :
          <<s, f, k>> \in DOMAIN paired /\ <<s, f, k>>[1] = s
    BY <2>1 DEF CellsOf
  <2> QED
    BY <2>2 DEF PairsMeasured, PairInv
<1>3. r \in BuildAblationRows(Rec(paired, pairShape), pairShape.files, pairShape.reps)
  BY DEF PairInv
<1>4. /\ r.corpus \in BOOLEAN
      /\ IF r.corpus THEN r.units = pairShape.files
         ELSE \E f \in pairShape.files : r.units = {f}
      /\ r.paired = Cardinality(PairedSuccesses(Rec(paired, pairShape), r.units, pairShape.reps))
      /\ r.protocol = ProtocolStatus(Rec(paired, pairShape), r.units, pairShape.reps)
      /\ r.confidence = PairedConfidence(Rec(paired, pairShape), r.units, pairShape.reps)
      /\ r.decision = Decision(Rec(paired, pairShape), r.units, pairShape.reps, r.corpus)
  BY <1>3, PairRowIs
<1>5. r.units \subseteq pairShape.files
  BY <1>4
<1>6. IsFiniteSet(r.units)
  BY <1>1, <1>5, FS_Subset
<1> QED
  BY <1>1, <1>2, <1>4, <1>5, <1>6

\* A confirmed row has a complete protocol.
LEMMA ConfirmedIs ==
  ASSUME PairInv, NEW r \in pairRows, r.confidence = "confirmed"
  PROVE  LET rec == Rec(paired, pairShape)
             n == pairShape.reps
         IN  /\ Whole(rec, r.units, n) /\ Sized(rec, r.units, n)
             /\ Reps(n) # {} /\ PairedSuccesses(rec, r.units, n) = Reps(n)
             /\ r.protocol = "complete"
             /\ ~(n < MinPairs) /\ ~(n < StrictPairs /\ CloseDelta(rec, r.units, n))
<1> DEFINE rec == Rec(paired, pairShape)
           n == pairShape.reps
<1>1. /\ pairShape \in Shapes /\ n \in Nat /\ PairsMeasured(paired, pairShape)
      /\ r.units \subseteq pairShape.files /\ IsFiniteSet(r.units)
      /\ r.protocol = ProtocolStatus(rec, r.units, n)
      /\ PairedConfidence(rec, r.units, n) = "confirmed"
  BY RowsOfPairs
<1>2. ProtocolStatus(rec, r.units, n) = "complete"
  BY <1>1 DEF PairedConfidence
<1>3. /\ Whole(rec, r.units, n) /\ Reps(n) # {}
      /\ PairedSuccesses(rec, r.units, n) = Reps(n)
      /\ ~(n < MinPairs) /\ ~(n < StrictPairs /\ CloseDelta(rec, r.units, n))
  BY <1>1, <1>2, ProtocolMeans
<1>4. Sized(rec, r.units, n)
  BY <1>1, <1>3, WorkedIsSized
<1> QED
  BY <1>1, <1>2, <1>3, <1>4

LEMMA BytesOfSide ==
  ASSUME PairInv, NEW r \in pairRows, r.confidence = "confirmed", NEW s \in Sides
  PROVE  LET cells == {c \in CellsOf(pairShape) : c[2] \in r.units}
             side == {c \in cells : c[1] = s}
         IN  SumOver([c \in side |-> paired[c].bytes], side)
               = SumOver([k \in Reps(pairShape.reps) |->
                            Total(Rec(paired, pairShape), s, r.units, k)],
                         Reps(pairShape.reps))
<1> DEFINE rec == Rec(paired, pairShape)
           n == pairShape.reps
           cells == {c \in CellsOf(pairShape) : c[2] \in r.units}
           side == {c \in cells : c[1] = s}
           w == [c \in side |-> paired[c].bytes]
           units == r.units
<1>1. /\ n \in Nat /\ units \subseteq pairShape.files /\ IsFiniteSet(units)
      /\ Sized(rec, units, n)
  BY RowsOfPairs, ConfirmedIs
<1>2. side = {<<s, f, k>> : f \in units, k \in Reps(n)}
  <2>1. ASSUME NEW c \in side PROVE c \in {<<s, f, k>> : f \in units, k \in Reps(n)}
    <3>1. c \in CellsOf(pairShape) /\ c[2] \in units /\ c[1] = s
      OBVIOUS
    <3>2. PICK t \in Sides, f \in pairShape.files, k \in Reps(n) : c = <<t, f, k>>
      BY <3>1 DEF CellsOf
    <3> QED
      BY <3>1, <3>2
  <2>2. ASSUME NEW f \in units, NEW k \in Reps(n) PROVE <<s, f, k>> \in side
    <3>1. f \in pairShape.files
      BY <1>1
    <3>2. <<s, f, k>> \in CellsOf(pairShape)
      BY <3>1 DEF CellsOf
    <3> QED
      BY <3>2
  <2> HIDE DEF side, units
  <2> QED
    BY <2>1, <2>2
<1>3. ASSUME NEW f \in units, NEW k \in Reps(n)
      PROVE  w[<<s, f, k>>] = rec[s][f][k].bytes /\ w[<<s, f, k>>] \in Int
  <2>1. <<s, f, k>> \in side /\ f \in pairShape.files
    BY <1>1, <1>2
  <2>2. rec[s][f][k] = paired[<<s, f, k>>]
    BY <2>1, RecIs
  <2>3. rec[s][f][k].bytes \in Int
    BY <1>1 DEF Sized
  <2>4. w[<<s, f, k>>] = paired[<<s, f, k>>].bytes
    BY <2>1
  <2> QED
    BY <2>2, <2>3, <2>4
<1>4. IsFiniteSet(Reps(n))
  BY <1>1, RepsAre
<1> DEFINE row == [k \in Reps(n) |-> [f \in units |-> rec[s][f][k].bytes]]
           total == [k \in Reps(n) |-> Total(rec, s, units, k)]
<1>5. /\ \A k \in Reps(n) : total[k] = SumOver(row[k], units)
      /\ \A f \in units, k \in Reps(n) : row[k][f] = w[<<s, f, k>>] /\ w[<<s, f, k>>] \in Int
  <2> HIDE DEF w, side, units, n, rec
  <2> QED
    BY <1>3 DEF Total
<1>6. \A c : c \in side <=> \E f \in units, k \in Reps(n) : c = <<s, f, k>>
  <2> HIDE DEF side, units, n
  <2> QED
    BY <1>2
<1> HIDE DEF w, side, units, n, rec, total, row
<1>7. SumOver(w, side) = SumOver(total, Reps(n))
  <2>1. IsFiniteSet(units)
    BY <1>1
  <2>2. AreRows(w, side, s, units, Reps(n), row, total)
    BY ONLY <1>5, <1>6 DEF AreRows
  <2> QED
    BY ONLY <1>4, <2>1, <2>2, SumOfCells
<1> QED
  BY <1>7 DEF w, side, units, n, rec, total

LEMMA PairsAreComplete == PairInv => ConfirmedIsComplete
<1> SUFFICES ASSUME PairInv, NEW r \in pairRows, r.confidence = "confirmed"
    PROVE  LET cells == {c \in CellsOf(pairShape) : c[2] \in r.units}
               bytes(s) == LET side == {c \in cells : c[1] = s}
                           IN  SumOver([c \in side |-> paired[c].bytes], side)
           IN  /\ \A c \in cells : paired[c].status = "ok" /\ paired[c].roundtrip
               /\ \A c, d \in cells :
                    c[1] = d[1] /\ c[2] = d[2] => paired[c].hash = paired[d].hash
               /\ \A c, d \in cells :
                    c[2] = d[2] /\ c[3] = d[3] => paired[c].block = paired[d].block
               /\ pairShape.reps >= MinPairs
               /\ \/ pairShape.reps >= StrictPairs
                  \/ 50 * (bytes("ablated") - bytes("baseline")) >= bytes("baseline")
                  \/ 50 * (bytes("baseline") - bytes("ablated")) >= bytes("baseline")
  BY DEF ConfirmedIsComplete
<1> DEFINE rec == Rec(paired, pairShape)
           n == pairShape.reps
           cells == {c \in CellsOf(pairShape) : c[2] \in r.units}
           bytes(s) == LET side == {c \in cells : c[1] = s}
                       IN  SumOver([c \in side |-> paired[c].bytes], side)
<1>1. /\ n \in Nat /\ r.units \subseteq pairShape.files /\ IsFiniteSet(r.units)
      /\ Whole(rec, r.units, n) /\ Sized(rec, r.units, n)
      /\ Reps(n) # {} /\ PairedSuccesses(rec, r.units, n) = Reps(n)
      /\ ~(n < MinPairs) /\ ~(n < StrictPairs /\ CloseDelta(rec, r.units, n))
  BY RowsOfPairs, ConfirmedIs
<1>2. ASSUME NEW c \in cells
      PROVE  /\ c[1] \in Sides /\ c[2] \in r.units /\ c[3] \in Reps(n)
             /\ paired[c] = rec[c[1]][c[2]][c[3]]
  <2>1. c \in CellsOf(pairShape) /\ c[2] \in r.units
    OBVIOUS
  <2>2. PICK s \in Sides, f \in pairShape.files, k \in Reps(n) : c = <<s, f, k>>
    BY <2>1 DEF CellsOf
  <2>3. rec[s][f][k] = paired[<<s, f, k>>]
    BY RecIs
  <2>4. c[1] = s /\ c[2] = f /\ c[3] = k
    BY <2>2
  <2> HIDE DEF rec, cells, n
  <2> QED
    BY <2>1, <2>2, <2>3, <2>4
<1>3. \A c \in cells : paired[c].status = "ok" /\ paired[c].roundtrip
  <2> HIDE DEF rec, cells, n
  <2> QED
    BY <1>1, <1>2 DEF Whole, Worked
<1>4. ASSUME NEW c \in cells, NEW d \in cells, c[1] = d[1], c[2] = d[2]
      PROVE  paired[c].hash = paired[d].hash
  <2>1. paired[c] = rec[c[1]][c[2]][c[3]] /\ paired[d] = rec[c[1]][c[2]][d[3]]
    BY <1>2, <1>4
  <2>2. c[1] \in Sides /\ c[2] \in r.units /\ c[3] \in Reps(n) /\ d[3] \in Reps(n)
    BY <1>2
  <2> HIDE DEF rec, cells, n
  <2>3. rec[c[1]][c[2]][c[3]].hash = rec[c[1]][c[2]][d[3]].hash
    BY <1>1, <2>2 DEF Whole
  <2> QED
    BY <2>1, <2>3
<1>5. ASSUME NEW c \in cells, NEW d \in cells, c[2] = d[2], c[3] = d[3]
      PROVE  paired[c].block = paired[d].block
  <2>1. paired[c] = rec[c[1]][c[2]][c[3]] /\ paired[d] = rec[d[1]][c[2]][c[3]]
    BY <1>2, <1>5
  <2>2. c[1] \in Sides /\ d[1] \in Sides /\ c[2] \in r.units /\ c[3] \in Reps(n)
    BY <1>2
  <2> HIDE DEF rec, cells, n
  <2>3. rec["baseline"][c[2]][c[3]].block = rec["ablated"][c[2]][c[3]].block
    BY <1>1, <2>2 DEF Whole
  <2>4. rec[c[1]][c[2]][c[3]].block = rec[d[1]][c[2]][c[3]].block
    BY <2>2, <2>3 DEF Sides
  <2> QED
    BY <2>1, <2>4
<1>6. MinPairs \in Nat /\ StrictPairs \in Nat
  BY PairsAssumption
<1>7. ASSUME n < StrictPairs
      PROVE  \/ 50 * (bytes("ablated") - bytes("baseline")) >= bytes("baseline")
             \/ 50 * (bytes("baseline") - bytes("ablated")) >= bytes("baseline")
  <2> DEFINE a == bytes("ablated")
             b == bytes("baseline")
             of(s) == SumOver([k \in Reps(n) |-> Total(rec, s, r.units, k)], Reps(n))
  <2>1. a = of("ablated") /\ b = of("baseline")
    BY BytesOfSide DEF Sides
  <2>2. /\ of("ablated") \in Int /\ of("baseline") \in Int
        /\ DeltaSum(rec, r.units, Reps(n)) = of("ablated") - of("baseline")
    BY <1>1, DeltaSumIs
  <2>3. ~CloseDelta(rec, r.units, n)
    BY <1>1, <1>7
  <2>4. LET delta == Magnitude(DeltaSum(rec, r.units, Reps(n)))
        IN  ~(IF of("baseline") = 0 THEN delta = 0 ELSE 50 * delta < of("baseline"))
    BY <1>1, <2>3 DEF CloseDelta
  <2> HIDE DEF a, b, of
  <2>5. ~(IF b = 0 THEN Magnitude(a - b) = 0 ELSE 50 * Magnitude(a - b) < b)
    BY <2>1, <2>2, <2>4
  <2>6. 50 * (a - b) >= b \/ 50 * (b - a) >= b
    BY <2>1, <2>2, <2>5 DEF Magnitude
  <2> QED
    BY <2>6 DEF a, b
<1> HIDE DEF cells, bytes
<1>8. n >= MinPairs /\ (n < StrictPairs \/ n >= StrictPairs)
  BY <1>1, <1>6
<1> QED
  BY <1>3, <1>4, <1>5, <1>7, <1>8 DEF cells, bytes

LEMMA PairsFail == PairInv => CorpusFollowsFiles
<1> SUFFICES ASSUME PairInv, NEW r \in pairRows, r.corpus
    PROVE  LET files == {q \in pairRows : ~q.corpus}
           IN  /\ r.protocol = "failed" <=> \E q \in files : q.protocol = "failed"
               /\ r.confidence = "confirmed" =>
                    \A q \in files : q.protocol \in {"complete", "insufficient-repetitions"}
  BY DEF CorpusFollowsFiles
<1> DEFINE rec == Rec(paired, pairShape)
           n == pairShape.reps
           files == {q \in pairRows : ~q.corpus}
<1>1. /\ n \in Nat /\ r.units = pairShape.files
      /\ r.protocol = ProtocolStatus(rec, pairShape.files, n)
  BY RowsOfPairs
<1>2. ASSUME NEW q \in files
      PROVE  \E f \in pairShape.files : q.units = {f} /\ q.protocol = ProtocolStatus(rec, {f}, n)
  BY RowsOfPairs
<1>3. ASSUME NEW f \in pairShape.files
      PROVE  \E q \in files : q.units = {f} /\ q.protocol = ProtocolStatus(rec, {f}, n)
  <2>1. pairRows = BuildAblationRows(rec, pairShape.files, n)
    BY DEF PairInv
  <2> DEFINE q == BuildRow(rec, {f}, n, FALSE)
  <2>2. q \in pairRows
    BY <2>1 DEF BuildAblationRows
  <2>3. q.corpus = FALSE /\ q.units = {f}
    BY DEF BuildRow
  <2>4. q.protocol = ProtocolStatus(rec, {f}, n)
    BY DEF BuildRow
  <2> HIDE DEF q
  <2> QED
    BY <2>2, <2>3, <2>4
<1>4. r.protocol = "failed" <=> \E f \in pairShape.files : ProtocolStatus(rec, {f}, n) = "failed"
  <2> HIDE DEF rec, n, files
  <2>1. n \in Nat
    BY <1>1
  <2>2. ProtocolStatus(rec, pairShape.files, n) = "failed"
          <=> \E f \in pairShape.files : ProtocolStatus(rec, {f}, n) = "failed"
    BY ONLY <2>1, CorpusFails, Zenon
  <2> QED
    BY <1>1, <2>2, Zenon
<1>5. (\E q \in files : q.protocol = "failed")
        <=> \E f \in pairShape.files : ProtocolStatus(rec, {f}, n) = "failed"
  <2> HIDE DEF files, rec, n
  <2> QED
    BY <1>2, <1>3
<1>6. ASSUME r.confidence = "confirmed", NEW q \in files
      PROVE  q.protocol \in {"complete", "insufficient-repetitions"}
  <2>1. PICK f \in pairShape.files : q.protocol = ProtocolStatus(rec, {f}, n)
    BY <1>2
  <2>2. Whole(rec, pairShape.files, n) /\ Reps(n) # {}
    BY <1>1, <1>6, ConfirmedIs
  <2>3. Whole(rec, {f}, n)
    BY <2>2 DEF Whole
  <2>4. IsFiniteSet({f}) /\ {f} # {}
    BY FS_Singleton
  <2>5. ProtocolStatus(rec, {f}, n) \in {"complete", "insufficient-repetitions"}
    BY <1>1, <2>2, <2>3, <2>4, WholeProtocol
  <2> QED
    BY <2>1, <2>5
<1> QED
  BY <1>4, <1>5, <1>6

LEMMA PairsGain == PairInv => BenefitsAreEverywhere
<1> SUFFICES ASSUME PairInv, NEW r \in pairRows,
                    r.decision \in {"enabled-benefit", "ablated-benefit"}
    PROVE  LET sign == IF r.decision = "enabled-benefit" THEN 1 ELSE -1
               gain(f, k) == sign * (paired[<<"ablated", f, k>>].bytes
                                       - paired[<<"baseline", f, k>>].bytes)
           IN  \A f \in r.units :
                 IF r.corpus
                 THEN SumOver([k \in Reps(pairShape.reps) |-> gain(f, k)],
                              Reps(pairShape.reps)) > 0
                 ELSE \A k \in Reps(pairShape.reps) : gain(f, k) > 0
  BY DEF BenefitsAreEverywhere
<1> DEFINE rec == Rec(paired, pairShape)
           n == pairShape.reps
           sign == IF r.decision = "enabled-benefit" THEN 1 ELSE -1
           gain(f, k) == sign * (paired[<<"ablated", f, k>>].bytes
                                   - paired[<<"baseline", f, k>>].bytes)
<1>1. /\ n \in Nat /\ r.units \subseteq pairShape.files
      /\ r.corpus \in BOOLEAN
      /\ ~r.corpus => \E f \in pairShape.files : r.units = {f}
      /\ r.confidence = PairedConfidence(rec, r.units, n)
      /\ r.decision = Decision(rec, r.units, n, r.corpus)
  BY RowsOfPairs
<1>2. r.confidence = "confirmed" /\ Beyond(rec, r.units, n, r.corpus, sign)
  BY <1>1 DEF Decision
<1>3. /\ Whole(rec, r.units, n) /\ Sized(rec, r.units, n)
      /\ PairedSuccesses(rec, r.units, n) = Reps(n)
  BY <1>2, ConfirmedIs
<1>4. sign \in {1, -1}
  OBVIOUS
<1> HIDE DEF sign
<1> SUFFICES ASSUME NEW f \in r.units
    PROVE  IF r.corpus
           THEN SumOver([k \in Reps(n) |-> gain(f, k)], Reps(n)) > 0
           ELSE \A k \in Reps(n) : gain(f, k) > 0
  BY DEF sign
<1>5. Whole(rec, {f}, n) /\ Sized(rec, {f}, n)
  BY <1>3 DEF Whole, Sized
<1>6. \A k \in Reps(n) :
        gain(f, k) = sign * (rec["ablated"][f][k].bytes - rec["baseline"][f][k].bytes)
  <2>1. f \in pairShape.files
    BY <1>1
  <2>2. \A s \in Sides, k \in Reps(n) : rec[s][f][k] = paired[<<s, f, k>>]
    BY <2>1, RecIs
  <2> QED
    BY <2>2 DEF Sides
<1>7. CASE r.corpus
  <2>1. sign * DeltaSum(rec, {f}, Reps(n)) > 0
    BY <1>2, <1>3, <1>7 DEF Beyond, BootstrapBeyond
  <2> DEFINE gains == [k \in Reps(n) |->
                sign * (rec["ablated"][f][k].bytes - rec["baseline"][f][k].bytes)]
  <2>2. SumOver(gains, Reps(n)) = sign * DeltaSum(rec, {f}, Reps(n))
    <3>1. n \in Nat /\ Sized(rec, {f}, n)
      BY <1>1, <1>5
    <3> HIDE DEF rec, n, gain
    <3> QED
      BY ONLY <3>1, <1>4, GainsAddUp, Zenon DEF gains
  <2>3. [k \in Reps(n) |-> gain(f, k)] = gains
    BY <1>6
  <2> HIDE DEF gains, gain, rec, n
  <2> QED
    BY <1>7, <2>1, <2>2, <2>3
<1>8. CASE ~r.corpus
  <2>1. r.units = {f}
    BY <1>1, <1>8
  <2>2. sign * DeltaSum(rec, {f}, Reps(n)) > 0
    BY <1>2, <1>3, <2>1 DEF Beyond, StudentBeyond
  <2>3. \A k \in Reps(n) :
          sign * (rec["ablated"][f][k].bytes - rec["baseline"][f][k].bytes) > 0
    BY <1>1, <1>4, <1>5, <2>2, GainIsEverywhere
  <2> HIDE DEF gain, rec, n
  <2> QED
    BY <1>6, <1>8, <2>3
<1> QED
  BY <1>7, <1>8

LEMMA PairsAreTyped == PairInv => PairTypeOK
<1> SUFFICES ASSUME PairInv PROVE PairTypeOK
  OBVIOUS
<1>1. ASSUME NEW r \in pairRows
      PROVE  r.units \subseteq pairShape.files /\ r.paired \in 0..pairShape.reps
  <2>1. /\ r.units \subseteq pairShape.files /\ pairShape.reps \in Nat
        /\ r.paired = Cardinality(
             PairedSuccesses(Rec(paired, pairShape), r.units, pairShape.reps))
    BY RowsOfPairs
  <2> QED
    BY <2>1, PairedIsCount
<1> QED
  BY <1>1 DEF PairTypeOK, PairInv

\* The paired ablation table of ablation_pipeline.py claims what its pairs show:
\* a confirmed row is measured, restored and reproduced in every repetition of
\* every file, often enough for the difference it claims; a corpus fails with
\* its files; a benefit is there in every repetition of a file, and of a corpus
\* in every file.
THEOREM PairedClaims == PairSpec => []ClaimsHold
<1>1. PairInv => ClaimsHold
  BY PairsAreTyped, PairsAreComplete, PairsFail, PairsGain DEF ClaimsHold
<1> QED
  BY <1>1, PairsStart, PairsKeep, PTL DEF PairSpec
================================================================================
