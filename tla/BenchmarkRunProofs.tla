-------------------------- MODULE BenchmarkRunProofs --------------------------
(***************************************************************************)
(* What the runs of BenchmarkRun show for two invocations holds for every  *)
(* grid, any number of invocations, run directories, stops and changes of  *)
(* the environment, on a file system that keeps a directory's name with    *)
(* its first synced entry (EntryJournaled).                                *)
(***************************************************************************)
EXTENDS BenchmarkRun, SequenceTheorems, FiniteSetTheorems, WellFoundedInduction,
        TLAPS

\* Written durably: what programs see of these files is on disk.
Kept(r) == {Grid(r), Identity(r), Checkpoint(r)} \union RowFiles(r)
Made(r) == stable[Folder(r)] = "made"
Table(r) == [k \in Keys |-> disk[Row(r, k)]]
IsComplete(r) == Exists(Checkpoint(r)) /\ disk[Checkpoint(r)].state = "complete"

\* An invocation past the lock holds it.
LockInv == \A p \in Procs : proc[p].pc \notin {"idle", "lock"} => lock = p

\* Nothing is in a directory whose name may be lost.
FolderInv(r) ==
    /\ Made(r) => disk[Folder(r)] = "made"
    /\ \A f \in RunFiles(r) \union RowFiles(r) :
           disk[f] # Absent \/ stable[f] # Absent => Made(r)
    /\ \A f \in Kept(r) : stable[f] = disk[f]

\* A resume would accept the checkpoint.
CheckpointInv(r) ==
    /\ RowsOf(r) # {} => Exists(Checkpoint(r))
    /\ \A k \in RowsOf(r) : disk[Row(r, k)].start = disk[Identity(r)]
    /\ Exists(Checkpoint(r)) =>
           LET c == disk[Checkpoint(r)]
           IN  /\ disk[Identity(r)] \in Envs
               /\ c.grid = disk[Grid(r)] /\ c.identity = disk[Identity(r)]
               /\ c.count <= Cardinality(RowsOf(r))
               /\ \A k \in RowsOf(r) : disk[Row(r, k)].interval \in DOMAIN c.ivs
               /\ c.state # "running" => RowsOf(r) = Keys
               /\ c.state = "complete" => /\ stable[Results(r)] = disk[Results(r)]
                                          /\ stable[Csv(r)] = disk[Csv(r)]

\* Results are those of all the rows, in memory and on disk.
ResultsInv(r) == \A d \in {disk, stable} :
    /\ d[Results(r)] # Absent =>
           /\ Exists(Checkpoint(r)) /\ RowsOf(r) = Keys
           /\ d[Results(r)].rows = Table(r)
           /\ d[Results(r)].evidence => disk[Identity(r)] \in Clean
    /\ d[Csv(r)] # Absent => RowsOf(r) = Keys /\ d[Csv(r)] = Table(r)

RunInv == \A r \in Runs : FolderInv(r) /\ CheckpointInv(r) /\ ResultsInv(r)

\* A pointer, seen or kept, names results that are on disk, and lags behind
\* only while the run it will name is not complete.
Published(r) == \A d \in {disk, stable} : d[Results(r)] # Absent /\ d[Csv(r)] # Absent
LatestInv ==
    /\ \A f \in Latest : \A d \in {disk, stable} : d[f] # Absent => Published(d[f])
    /\ disk[LatestJson] # stable[LatestJson] =>
           disk[LatestJson] # Absent /\ ~IsComplete(disk[LatestJson])

Creating == {"grid", "identity", "first"}
Pointing == {"txt", "json", "root", "complete"}
Publishing == {"results", "csv", "sync"} \union Pointing
Working == {"reopen", "next", "row", "progress", "recheck"} \union Publishing

\* The directory of a new run holds nothing but its grid and identity.
CreatingInv(p, r) ==
    /\ disk[Folder(r)] = "made" /\ proc[p].stored = proc[p].start
    /\ \A f \in {Checkpoint(r), Results(r), Csv(r)} \union RowFiles(r) :
           disk[f] = Absent /\ stable[f] = Absent
    /\ proc[p].pc \in {"identity", "first"} => disk[Grid(r)] = proc[p].start /\ Made(r)
    /\ proc[p].pc = "first" => disk[Identity(r)] = proc[p].start

WorkingInv(p, r) ==
    /\ Exists(Checkpoint(r)) /\ disk[Checkpoint(r)].state # "complete"
    /\ proc[p].stored = disk[Identity(r)] /\ proc[p].start = disk[Identity(r)]
    /\ proc[p].ivs # <<>>
    /\ proc[p].rows \subseteq RowsOf(r)
    /\ \A k \in RowsOf(r) : disk[Row(r, k)].interval \in DOMAIN proc[p].ivs
    /\ proc[p].pc # "reopen" => Len(disk[Checkpoint(r)].ivs) = Len(proc[p].ivs)
    /\ proc[p].pc = "row" => proc[p].key \in Keys /\ ~Exists(Row(r, proc[p].key))
    /\ proc[p].pc \in {"recheck"} \union Publishing => proc[p].rows = Keys

PublishingInv(p, r) ==
    /\ proc[p].doc \in Docs /\ proc[p].doc.rows = Table(r)
    /\ proc[p].doc.evidence => disk[Identity(r)] \in Clean
    /\ proc[p].pc # "results" => disk[Results(r)] = proc[p].doc
    /\ proc[p].pc \in {"sync"} \union Pointing => disk[Csv(r)] = proc[p].doc.rows
    /\ proc[p].pc \in Pointing => /\ stable[Results(r)] = disk[Results(r)]
                                  /\ stable[Csv(r)] = disk[Csv(r)]
    /\ proc[p].pc \in {"root", "complete"} => disk[LatestJson] = r
    /\ proc[p].pc = "complete" => stable[LatestJson] = r

ProcInv(p) ==
    /\ proc[p].pc = "make" => proc[p].run = 0
    /\ proc[p].pc \notin Working => proc[p].rows = {}
    /\ proc[p].pc \in {"check"} \union Creating \union Working => proc[p].run \in Runs
    /\ proc[p].pc \in {"make", "check"} \union Creating \union Working => proc[p].start \in Envs
    /\ proc[p].pc \in Creating => CreatingInv(p, proc[p].run)
    /\ proc[p].pc \in Working => WorkingInv(p, proc[p].run)
    /\ proc[p].pc \in Publishing => PublishingInv(p, proc[p].run)

IInv ==
    /\ EntryJournaled
    /\ TypeOK /\ LockInv /\ RunInv /\ LatestInv
    /\ \A p \in Procs : ProcInv(p)

-----------------------------------------------------------------------------
(* Names of files.                                                         *)

LEMMA RunNames ==
  ASSUME NEW r \in Runs
  PROVE  /\ r # 0 /\ Folder(r) \in Files /\ RunFiles(r) \subseteq Files /\ RowFiles(r) \subseteq Files
         /\ \A k \in Keys : Row(r, k) \in RowFiles(r)
  BY Setting DEF Runs, Files, Folders, RowFiles

LEMMA Lengths ==
  /\ \A r : Len(Folder(r)) = 2 /\ Len(Grid(r)) = 2 /\ Len(Identity(r)) = 2
  /\ \A r : Len(Checkpoint(r)) = 2 /\ Len(Results(r)) = 2 /\ Len(Csv(r)) = 2
  /\ \A r, k : Len(Row(r, k)) = 3
  /\ Len(LatestTxt) = 2 /\ Len(LatestJson) = 2
  BY DEF Folder, Grid, Identity, Checkpoint, Results, Csv, Row, LatestTxt, LatestJson

LEMMA RunFilesDiffer ==
  ASSUME NEW r, NEW s
  PROVE  /\ RunFiles(r) = {Grid(r), Identity(r), Checkpoint(r), Results(r), Csv(r)}
         /\ \A f \in RunFiles(r) \union {Folder(r)} : f[1] = r /\ Len(f) = 2
         /\ Folder(r) \notin RunFiles(s)
         /\ Grid(r) \notin {Identity(s), Checkpoint(s), Results(s), Csv(s)}
         /\ Identity(r) \notin {Checkpoint(s), Results(s), Csv(s)}
         /\ Checkpoint(r) \notin {Results(s), Csv(s)}
         /\ Results(r) # Csv(s)
  BY Lengths DEF RunFiles, Folder, Grid, Identity, Checkpoint, Results, Csv

LEMMA RowFilesDiffer ==
  ASSUME NEW r
  PROVE  /\ \A f \in RowFiles(r) : f[1] = r /\ Len(f) = 3
         /\ \A k, j : Row(r, k) = Row(r, j) => k = j
  BY Lengths DEF RowFiles, Row

LEMMA RowIsNoCheckpoint ==
  ASSUME NEW r, NEW k
  PROVE  Row(r, k) # Checkpoint(r)
  BY Lengths

LEMMA LatestFiles ==
  /\ Latest = {LatestTxt, LatestJson} /\ LatestTxt # LatestJson
  /\ \A f \in Latest : f[1] = 0 /\ Len(f) = 2 /\ f \in Files
  BY Lengths DEF Latest, LatestTxt, LatestJson, Files

LEMMA LatestDiffer ==
  ASSUME NEW r \in Runs, NEW f \in Latest
  PROVE  f \notin RunFiles(r) \union RowFiles(r) /\ f # Folder(r)
  BY RunNames, RunFilesDiffer, RowFilesDiffer, LatestFiles

LEMMA SiblingsOf ==
  ASSUME EntryJournaled, NEW r \in Runs
  PROVE  /\ \A f \in RunFiles(r) : Siblings(f) = RunFiles(r) \union {Folder(r)}
         /\ \A f \in RowFiles(r) : Siblings(f) = RowFiles(r)
         /\ Siblings(LatestJson) = Latest \union Folders
  <1>1. ASSUME NEW f \in RunFiles(r) \union RowFiles(r) PROVE f \notin Latest \union Folders /\ f[1] = r
    <2>1. f \notin Latest /\ f[1] = r
      BY LatestDiffer, RunFilesDiffer, RowFilesDiffer
    <2>2. \A s \in Runs : Folder(s) # f
      BY RunFilesDiffer, RowFilesDiffer, Lengths
    <2> QED BY <2>1, <2>2 DEF Folders
  <1>2. \A f \in RunFiles(r) : f \notin RowFiles(r)
    BY RunFilesDiffer, RowFilesDiffer
  <1>3. \A f \in RunFiles(r) : Siblings(f) = RunFiles(r) \union {Folder(r)}
    BY <1>1, <1>2 DEF Siblings
  <1>4. \A f \in RowFiles(r) : Siblings(f) = RowFiles(r)
    BY <1>1 DEF Siblings
  <1> QED BY <1>3, <1>4, LatestFiles DEF Siblings

-----------------------------------------------------------------------------
(* The clocks of a resume.                                                 *)

LEMMA MaximumExists ==
  ASSUME NEW S, IsFiniteSet(S), S \subseteq Nat, S # {}
  PROVE  \E m \in S : \A n \in S : m >= n
  <1> DEFINE Bounded(T) == \E m \in T : \A n \in T : m >= n
             Unbounded == {T \in SUBSET S : T # {} /\ ~Bounded(T)}
  <1> SUFFICES ASSUME Unbounded # {} PROVE FALSE
    OBVIOUS
  <1>1. IsWellFoundedOn(StrictSubsetOrdering(S), SUBSET S)
    BY FS_StrictSubsetOrderingWellFounded, FS_FiniteSubsetsOfFinite
  <1>2. Unbounded \subseteq SUBSET S
    OBVIOUS
  <1> HIDE DEF Unbounded
  <1>3. PICK T \in Unbounded : \A U \in Unbounded : <<U, T>> \notin StrictSubsetOrdering(S)
    BY <1>1, <1>2, WFMin
  <1> USE DEF Unbounded
  <1>4. PICK x \in T : x \in Nat
    OBVIOUS
  <1>5. CASE T = {x}
    BY <1>4, <1>5
  <1>6. CASE T # {x}
    <2> DEFINE U == T \ {x}
    <2>1. U \in SUBSET S /\ U # {} /\ U \subseteq T /\ U # T
      BY <1>4, <1>6
    <2>2. <<U, T>> \in StrictSubsetOrdering(S)
      BY <2>1 DEF StrictSubsetOrdering
    <2>3. Bounded(U)
      BY <1>3, <2>1, <2>2
    <2>4. PICK m \in U : \A n \in U : m >= n
      BY <2>3
    <2>5. m \in Nat /\ x \in Nat /\ \A n \in T : n \in Nat /\ (n = x \/ m >= n)
      BY <1>4, <2>4
    <2>6. Bounded(T)
      <3>1. CASE m >= x
        BY <2>4, <2>5, <3>1
      <3>2. CASE x >= m
        BY <1>4, <2>4, <2>5, <3>2
      <3> QED BY <2>5, <3>1, <3>2
    <2> QED BY <2>6
  <1> QED BY <1>5, <1>6

\* The time rows prove for an interval is that of one of them, and no less
\* than that of any.
LEMMA ProvedIs ==
  ASSUME TypeOK, NEW r \in Runs, NEW i
  PROVE  /\ Proved(r, i) \in Nat
         /\ \A k \in RowsOf(r) : disk[Row(r, k)].interval = i => disk[Row(r, k)].active <= Proved(r, i)
         /\ Proved(r, i) = 0 \/ \E k \in RowsOf(r) : /\ disk[Row(r, k)].interval = i
                                                     /\ disk[Row(r, k)].active = Proved(r, i)
  <1> DEFINE R == {j \in RowsOf(r) : disk[Row(r, j)].interval = i}
             f == [k \in R |-> disk[Row(r, k)].active]
             T == {disk[Row(r, k)].active : k \in R}
  <1>1. \A k \in R : disk[Row(r, k)] \in RowValues
    BY DEF TypeOK, FilesOK, RowsOf, Exists
  <1>2. T \subseteq Nat
    BY <1>1 DEF RowValues
  <1>3. IsFiniteSet(R)
    BY Setting, FS_Subset DEF RowsOf
  <1>4. f \in Surjection(R, T)
    BY DEF Surjection
  <1>5. IsFiniteSet(T)
    BY <1>3, <1>4, FS_Surjection
  <1>6. IsFiniteSet({0} \union T)
    BY <1>5, FS_Singleton, FS_Union
  <1>7. \E m \in {0} \union T : \A n \in {0} \union T : m >= n
    <2> DEFINE S == {0} \union T
    <2>1. IsFiniteSet(S) /\ S \subseteq Nat /\ S # {}
      BY <1>2, <1>6
    <2> HIDE DEF S
    <2>2. \E m \in S : \A n \in S : m >= n
      BY <2>1, MaximumExists
    <2> QED BY <2>2 DEF S
  <1>8. /\ Max({0} \union T) \in {0} \union T
        /\ \A n \in {0} \union T : Max({0} \union T) >= n
    BY <1>7 DEF Max
  <1>9. PICK m \in {0} \union T : m = Proved(r, i) /\ \A n \in {0} \union T : m >= n
    BY <1>8 DEF Proved
  <1>10. m \in Nat /\ \A k \in R : disk[Row(r, k)].active \in Nat /\ disk[Row(r, k)].active <= m
    BY <1>1, <1>2, <1>9 DEF RowValues
  <1>11. m = 0 \/ \E k \in R : disk[Row(r, k)].active = m
    BY <1>9
  <1> QED BY <1>9, <1>10, <1>11

LEMMA IntervalUpdate ==
  ASSUME NEW v \in Intervals, NEW a \in Nat, NEW b \in BOOLEAN
  PROVE  [v EXCEPT !.active = a, !.interrupted = b] \in Intervals
  BY DEF Intervals

LEMMA RecoveredIntervals ==
  ASSUME TypeOK, NEW r \in Runs, NEW ivs \in Seq(Intervals)
  PROVE  /\ Recovered(r, ivs) \in Seq(Intervals) /\ Len(Recovered(r, ivs)) = Len(ivs)
         /\ Append(Recovered(r, ivs), Opened) \in Seq(Intervals)
         /\ Len(Append(Recovered(r, ivs), Opened)) = Len(ivs) + 1
  <1>1. Opened \in Intervals
    BY DEF Opened, Intervals
  <1> DEFINE Credited(i) == [ivs[i] EXCEPT !.active = Later(@, Proved(r, i)),
                                           !.interrupted = @ \/ (i = Len(ivs) /\ ~ivs[i].completed)]
  <1>2. ASSUME NEW i \in 1 .. Len(ivs) PROVE Credited(i) \in Intervals
    <2>1. Proved(r, i) \in Nat /\ ivs[i] \in Intervals
      BY ProvedIs
    <2>2. Later(ivs[i].active, Proved(r, i)) \in Nat
      BY <2>1 DEF Later, Intervals
    <2>3. (ivs[i].interrupted \/ (i = Len(ivs) /\ ~ivs[i].completed)) \in BOOLEAN
      OBVIOUS
    <2> DEFINE a == Later(ivs[i].active, Proved(r, i))
               b == ivs[i].interrupted \/ (i = Len(ivs) /\ ~ivs[i].completed)
    <2>4. [ivs[i] EXCEPT !.active = a, !.interrupted = b] \in Intervals
      <3> HIDE DEF a, b
      <3> QED BY <2>1, <2>2, <2>3, IntervalUpdate DEF a, b
    <2> QED BY <2>4
  <1>3. Recovered(r, ivs) = [i \in 1 .. Len(ivs) |-> Credited(i)]
    <2>1. DOMAIN ivs = 1 .. Len(ivs)
      OBVIOUS
    <2> QED BY <2>1 DEF Recovered
  <1>4. Recovered(r, ivs) \in Seq(Intervals) /\ Len(Recovered(r, ivs)) = Len(ivs)
    <2> HIDE DEF Credited
    <2>1. Recovered(r, ivs) \in [1 .. Len(ivs) -> Intervals]
      BY <1>2, <1>3
    <2> QED BY <2>1
  <1> QED BY <1>1, <1>4, AppendProperties

LEMMA AdvancedIntervals ==
  ASSUME NEW ivs \in Seq(Intervals), ivs # <<>>, NEW clock \in Nat
  PROVE  /\ Advanced(ivs, clock) \in Seq(Intervals)
         /\ Len(Advanced(ivs, clock)) = Len(ivs)
         /\ Closed(Advanced(ivs, clock)) \in Seq(Intervals)
         /\ Len(Closed(Advanced(ivs, clock))) = Len(ivs)
  <1>1. Len(ivs) \in 1 .. Len(ivs) /\ ivs \in [1 .. Len(ivs) -> Intervals]
    OBVIOUS
  <1>2. ivs[Len(ivs)] \in Intervals
    BY <1>1
  <1>3. Later(ivs[Len(ivs)].active, clock) \in Nat
    BY <1>2 DEF Later, Intervals
  <1>4. [ivs[Len(ivs)] EXCEPT !.active = Later(@, clock)] \in Intervals
    BY <1>2, <1>3 DEF Intervals
  <1>5. Advanced(ivs, clock) \in [1 .. Len(ivs) -> Intervals]
    BY <1>1, <1>4 DEF Advanced
  <1>6. Advanced(ivs, clock) \in Seq(Intervals) /\ Len(Advanced(ivs, clock)) = Len(ivs)
    BY <1>5
  <1>7. [Advanced(ivs, clock)[Len(ivs)] EXCEPT !.completed = TRUE] \in Intervals
    BY <1>1, <1>5 DEF Intervals
  <1>8. Closed(Advanced(ivs, clock)) \in [1 .. Len(ivs) -> Intervals]
    BY <1>1, <1>5, <1>6, <1>7 DEF Closed
  <1> QED BY <1>6, <1>8

-----------------------------------------------------------------------------
(* Steps that write no file.                                               *)

ProcStates ==
    [pc : Steps, run : Runs \union {0}, start : Envs \union {Absent},
     stored : Envs \union {Absent}, rows : SUBSET Keys, ivs : Seq(Intervals), clock : Nat,
     key : Keys \union {Absent}, doc : Docs \union {Absent}]

LEMMA SequenceEnds ==
  ASSUME NEW s \in Seq(Intervals), NEW t \in Seq(Intervals), s # <<>>, Len(t) = Len(s)
  PROVE  Len(s) \in Nat /\ Len(s) \in DOMAIN s /\ Len(s) \in DOMAIN t
  OBVIOUS

LEMMA QuietStep ==
  ASSUME IInv, UNCHANGED <<disk, stable>>, NEW p \in Procs,
         lock' \in Procs \union {NoOne}, env' \in Envs,
         stops' \in 0 .. MaxStops, changes' \in 0 .. MaxChanges,
         proc' \in [Procs -> ProcStates],
         \A q \in Procs \ {p} : proc'[q] = proc[q] /\ (lock = q => lock' = q),
         proc'[p].pc \notin {"idle", "lock"} => lock' = p,
         ProcInv(p)'
  PROVE  IInv'
  <1> USE DEF IInv
  <1>1. TypeOK'
    BY DEF TypeOK, FilesOK, ProcStates
  <1>2. LockInv'
    BY DEF LockInv
  <1>3. RunInv'
    BY DEF RunInv, FolderInv, CheckpointInv, ResultsInv, Made, RowsOf, Exists, Table
  <1>4. LatestInv'
    BY DEF LatestInv, Published, IsComplete, Exists
  <1>5. ASSUME NEW q \in Procs \ {p} PROVE ProcInv(q)'
    <2>1. proc'[q] = proc[q] /\ ProcInv(q)
      OBVIOUS
    <2> QED BY <2>1 DEF ProcInv, CreatingInv, WorkingInv, PublishingInv, Made, RowsOf, Exists, Table
  <1> QED BY <1>1, <1>2, <1>3, <1>4, <1>5

LEMMA TypeOfProc ==
  ASSUME TypeOK
  PROVE  /\ proc \in [Procs -> ProcStates]
         /\ Idle \in ProcStates
         /\ lock \in Procs \union {NoOne} /\ env \in Envs
         /\ stops \in 0 .. MaxStops /\ changes \in 0 .. MaxChanges
  BY DEF TypeOK, ProcStates, Idle, Steps

LEMMA GotoEffect ==
  ASSUME TypeOK, NEW p \in Procs, NEW label \in Steps, proc' = [proc EXCEPT ![p].pc = label]
  PROVE  /\ proc' \in [Procs -> ProcStates]
         /\ \A q \in Procs \ {p} : proc'[q] = proc[q]
         /\ proc'[p].pc = label /\ proc'[p].run = proc[p].run
         /\ proc'[p].start = proc[p].start /\ proc'[p].stored = proc[p].stored
         /\ proc'[p].rows = proc[p].rows /\ proc'[p].ivs = proc[p].ivs
         /\ proc'[p].clock = proc[p].clock /\ proc'[p].key = proc[p].key
         /\ proc'[p].doc = proc[p].doc
  <1>1. proc \in [Procs -> ProcStates] /\ proc[p] \in ProcStates
    BY TypeOfProc
  <1>2. proc'[p] = [proc[p] EXCEPT !.pc = label]
    BY <1>1
  <1>3. proc'[p] \in ProcStates
    BY <1>1, <1>2 DEF ProcStates
  <1>4. proc' \in [Procs -> ProcStates]
    BY <1>1, <1>3
  <1> QED BY <1>1, <1>2, <1>4 DEF ProcStates

\* An invocation ends without a trace.
LEMMA EndStep ==
  ASSUME IInv, UNCHANGED <<disk, stable, env, changes>>, stops' \in 0 .. MaxStops,
         NEW p \in Procs, End(p)
  PROVE  IInv'
  <1>1. /\ proc' \in [Procs -> ProcStates]
        /\ proc'[p] = Idle
        /\ \A q \in Procs \ {p} : proc'[q] = proc[q]
    BY TypeOfProc DEF End, IInv
  <1>2. lock' \in Procs \union {NoOne} /\ \A q \in Procs \ {p} : lock = q => lock' = q
    BY TypeOfProc DEF End, IInv
  <1>3. ProcInv(p)'
    BY <1>1 DEF ProcInv, Idle, Creating, Working, Publishing, Pointing
  <1>4. proc'[p].pc = "idle"
    BY <1>1 DEF Idle
  <1> QED BY <1>1, <1>2, <1>3, <1>4, TypeOfProc, QuietStep DEF IInv

LEMMA StartSteps ==
  ASSUME IInv, NEW p \in Procs,
         \/ InvokeNew(p) \/ (\E r \in Runs : InvokeResume(p, r))
         \/ Lock(p) \/ Refused(p) \/ Discover(p)
  PROVE  IInv'
  <1> USE TypeOfProc, Setting DEF IInv
  <1>1. CASE InvokeNew(p) \/ \E r \in Runs : InvokeResume(p, r)
    <2>1. /\ proc' \in [Procs -> ProcStates] /\ proc'[p].pc = "lock" /\ proc'[p].rows = {}
          /\ \A q \in Procs \ {p} : proc'[q] = proc[q]
      <3> USE DEF ProcStates, Steps
      <3>0. proc[p].rows = {}
        BY <1>1 DEF InvokeNew, InvokeResume, At, ProcInv, Working, Publishing, Pointing
      <3>1. CASE InvokeNew(p)
        BY ZenonT(60), <3>0, <3>1 DEF InvokeNew
      <3>2. ASSUME NEW r \in Runs, InvokeResume(p, r)
            PROVE  /\ proc' \in [Procs -> ProcStates] /\ proc'[p].pc = "lock" /\ proc'[p].rows = {}
                   /\ \A q \in Procs \ {p} : proc'[q] = proc[q]
        <4>1. proc[p] \in ProcStates
          OBVIOUS
        <4>2. proc' = [proc EXCEPT ![p].pc = "lock", ![p].run = r]
          BY <3>2 DEF InvokeResume
        <4>3. proc'[p] = [proc[p] EXCEPT !.pc = "lock", !.run = r]
          BY <4>1, <4>2
        <4>4. proc'[p] \in ProcStates /\ proc'[p].pc = "lock" /\ proc'[p].rows = {}
          BY <3>0, <4>1, <4>3
        <4> QED BY SMTT(40), <4>2, <4>4
      <3> QED BY <1>1, <3>1, <3>2
    <2>2. ProcInv(p)'
      BY <2>1 DEF ProcInv, Creating, Working, Publishing, Pointing
    <2> QED BY <1>1, <2>1, <2>2, QuietStep DEF InvokeNew, InvokeResume
  <1>2. CASE Lock(p)
    <2>1. /\ proc' \in [Procs -> ProcStates] /\ proc'[p].pc = "discover"
          /\ proc'[p].rows = {}
          /\ \A q \in Procs \ {p} : proc'[q] = proc[q]
      <3>1. proc[p].pc = "lock" /\ proc' = [proc EXCEPT ![p].pc = "discover"]
        BY <1>2 DEF Lock, Goto, At
      <3>2. proc[p].rows = {}
        BY <3>1 DEF ProcInv, Working, Publishing, Pointing
      <3>3. "discover" \in Steps
        BY DEF Steps
      <3> QED BY <3>1, <3>2, <3>3, GotoEffect
    <2>2. ProcInv(p)'
      BY <2>1 DEF ProcInv, Creating, Working, Publishing, Pointing
    <2>3. lock' = p /\ lock = NoOne
      BY <1>2 DEF Lock, LockFree
    <2> QED BY <1>2, <2>1, <2>2, <2>3, QuietStep DEF Lock
  <1>3. CASE Refused(p)
    BY <1>3, EndStep DEF Refused
  <1>4. CASE Discover(p) /\ End(p)
    BY <1>4, EndStep DEF Discover
  <1>5. CASE Discover(p) /\ ~((Strict /\ env \notin Clean) \/ (Run(p) = 0 /\ Full))
    <2>1. proc[p].pc = "discover" /\ lock = p /\ proc[p].run \in Runs \union {0}
      BY <1>5 DEF Discover, At, LockInv, ProcStates
    <2>2. /\ proc' = [proc EXCEPT ![p].start = env,
                                  ![p].pc = IF proc[p].run = 0 THEN "make" ELSE "check"]
          /\ lock' = lock
      BY <1>5 DEF Discover, Run
    <2>3. /\ proc' \in [Procs -> ProcStates]
          /\ \A q \in Procs \ {p} : proc'[q] = proc[q]
          /\ proc'[p].pc \in {"make", "check"} /\ proc'[p].start \in Envs
          /\ proc'[p].run = proc[p].run /\ proc'[p].rows = {}
          /\ proc'[p].pc = "make" => proc[p].run = 0
          /\ proc'[p].pc = "check" => proc[p].run \in Runs
      <3>1. proc[p].rows = {}
        BY <2>1 DEF ProcInv, Working, Publishing, Pointing
      <3> QED BY <2>1, <2>2, <3>1 DEF ProcStates, Steps
    <2>4. ProcInv(p)'
      BY <2>3 DEF ProcInv, Creating, Working, Publishing, Pointing
    <2> QED BY <1>5, <2>1, <2>2, <2>3, <2>4, QuietStep DEF Discover
  <1> QED BY <1>1, <1>2, <1>3, <1>4, <1>5 DEF Discover

\* What a step of an invocation past the lock has to show.
LEMMA HolderQuietStep ==
  ASSUME IInv, UNCHANGED <<disk, stable, lock, env, stops, changes>>, NEW p \in Procs,
         proc[p].pc \notin {"idle", "lock"},
         proc' \in [Procs -> ProcStates],
         \A q \in Procs \ {p} : proc'[q] = proc[q],
         ProcInv(p)'
  PROVE  IInv'
  <1>1. lock = p
    BY DEF IInv, LockInv
  <1> QED BY <1>1, TypeOfProc, QuietStep DEF IInv

LEMMA CheckStep ==
  ASSUME IInv, NEW p \in Procs, Check(p)
  PROVE  IInv'
  <1> USE DEF IInv
  <1>1. CASE End(p)
    BY <1>1, TypeOfProc, EndStep DEF Check
  <1>2. ASSUME NEW r, r = proc[p].run, Accepts(p, r), ~End(p)
        PROVE  IInv'
    <2> DEFINE c == disk[Checkpoint(r)]
               ivs == Append(Recovered(r, c.ivs), Opened)
    <2>1. proc[p].pc = "check" /\ r \in Runs /\ proc[p].start \in Envs
      BY <1>2 DEF Check, At, ProcInv
    <2>2. c \in CheckpointValues /\ c.state # "complete"
      BY <1>2, <2>1 DEF Accepts, TypeOK, FilesOK
    <2>3. c.ivs \in Seq(Intervals)
      BY <2>2 DEF CheckpointValues
    <2>4. ivs \in Seq(Intervals) /\ Len(ivs) = Len(c.ivs) + 1
      BY <2>1, <2>3, RecoveredIntervals
    <2>5. disk[Identity(r)] = proc[p].start /\ Exists(Checkpoint(r))
      BY <1>2 DEF Accepts, IdentityMatches, Exists
    <2>6. \A k \in RowsOf(r) : disk[Row(r, k)].interval \in DOMAIN ivs
      <3>1. \A k \in RowsOf(r) : disk[Row(r, k)].interval \in DOMAIN c.ivs
        BY <1>2 DEF Accepts
      <3>2. DOMAIN c.ivs = 1 .. Len(c.ivs) /\ Len(c.ivs) \in Nat /\ DOMAIN ivs = 1 .. Len(ivs)
        BY <2>3, <2>4
      <3> HIDE DEF c, ivs
      <3> QED BY <2>4, <3>1, <3>2
    <2>7. ivs # <<>>
      BY <2>3, <2>4
    <2> HIDE DEF ivs
    <2>8. /\ proc' = [proc EXCEPT ![p].stored = disk[Identity(r)], ![p].rows = RowsOf(r),
                                  ![p].ivs = ivs, ![p].pc = "reopen"]
          /\ UNCHANGED <<disk, stable, lock, env, stops, changes>>
      BY <1>2 DEF Check, Run, ivs
    <2>9. /\ proc' \in [Procs -> ProcStates]
          /\ \A q \in Procs \ {p} : proc'[q] = proc[q]
          /\ proc'[p].pc = "reopen" /\ proc'[p].run = r /\ proc'[p].ivs = ivs
          /\ proc'[p].start = proc[p].start /\ proc'[p].stored = disk[Identity(r)]
          /\ proc'[p].rows = RowsOf(r)
      <3>1. proc[p] \in ProcStates /\ RowsOf(r) \in SUBSET Keys /\ disk[Identity(r)] \in Envs
        BY <2>1, <2>5, TypeOfProc DEF RowsOf
      <3>2. proc'[p] = [proc[p] EXCEPT !.stored = disk[Identity(r)], !.rows = RowsOf(r),
                                       !.ivs = ivs, !.pc = "reopen"]
        BY <2>8, <3>1, TypeOfProc
      <3>3. proc'[p] \in ProcStates
        BY <2>4, <3>1, <3>2 DEF ProcStates, Steps
      <3>4. \A q \in Procs \ {p} : proc'[q] = proc[q]
        BY <2>8, TypeOfProc
      <3>5. proc' \in [Procs -> ProcStates]
        BY <2>8, <3>3, <3>4, TypeOfProc
      <3> QED BY <1>2, <3>1, <3>2, <3>4, <3>5 DEF ProcStates
    <2>10. WorkingInv(p, r)'
      BY <2>2, <2>5, <2>6, <2>7, <2>8, <2>9 DEF WorkingInv, Publishing, Pointing, RowsOf, Exists
    <2>11. ProcInv(p)'
      BY <2>1, <2>9, <2>10 DEF ProcInv, Creating, Working, Publishing, Pointing
    <2> QED BY <2>1, <2>8, <2>9, <2>11, HolderQuietStep
  <1> QED BY <1>1, <1>2 DEF Check, Run

\* The row measured is one the run does not have: End is for files that
\* appear from elsewhere.
LEMMA MeasureStep ==
  ASSUME IInv, NEW p \in Procs, NEW k \in Keys, Measure(p, k)
  PROVE  IInv'
  <1> USE DEF IInv
  <1>1. CASE End(p)
    BY <1>1, TypeOfProc, EndStep DEF Measure
  <1>2. CASE ~End(p)
    <2>1. /\ proc[p].pc = "next" /\ ~Exists(Row(proc[p].run, k))
          /\ proc' = [proc EXCEPT ![p].clock = @ + 1, ![p].key = k, ![p].pc = "row"]
          /\ UNCHANGED <<disk, stable, lock, env, stops, changes>>
      BY <1>2 DEF Measure, At, Run
    <2>2. proc[p] \in ProcStates /\ proc[p].clock + 1 \in Nat
      BY TypeOfProc DEF ProcStates
    <2>3. /\ proc' \in [Procs -> ProcStates]
          /\ \A q \in Procs \ {p} : proc'[q] = proc[q]
          /\ proc'[p] = [proc[p] EXCEPT !.clock = @ + 1, !.key = k, !.pc = "row"]
      BY <2>1, <2>2, TypeOfProc DEF ProcStates, Steps
    <2>4. /\ proc'[p].pc = "row" /\ proc'[p].key = k /\ proc'[p].run = proc[p].run
          /\ proc'[p].start = proc[p].start /\ proc'[p].stored = proc[p].stored
          /\ proc'[p].ivs = proc[p].ivs /\ proc'[p].rows = proc[p].rows
      BY <2>2, <2>3 DEF ProcStates
    <2>5. WorkingInv(p, proc[p].run) /\ proc[p].run \in Runs /\ proc[p].start \in Envs
      BY <2>1 DEF ProcInv, Working
    <2>6. WorkingInv(p, proc[p].run)'
      BY <2>1, <2>4, <2>5 DEF WorkingInv, Publishing, Pointing, RowsOf, Exists
    <2>7. ProcInv(p)'
      BY <2>4, <2>5, <2>6 DEF ProcInv, Creating, Working, Publishing, Pointing
    <2> QED BY <2>1, <2>3, <2>7, HolderQuietStep
  <1> QED BY <1>1, <1>2

LEMMA RecheckStep ==
  ASSUME IInv, NEW p \in Procs, Recheck(p)
  PROVE  IInv'
  <1> USE DEF IInv
  <1>1. CASE End(p)
    BY <1>1, TypeOfProc, EndStep DEF Recheck
  <1>2. ASSUME NEW r, r = proc[p].run, ~End(p)
        PROVE  IInv'
    <2> DEFINE doc == [rows |-> Table(r), ivs |-> proc[p].ivs, evidence |-> Evidence(p)]
    <2>1. /\ proc[p].pc = "recheck"
          /\ proc' = [proc EXCEPT ![p].doc = doc, ![p].pc = "results"]
          /\ UNCHANGED <<disk, stable, lock, env, stops, changes>>
      BY <1>2 DEF Recheck, At, Run, Table
    <2>2. WorkingInv(p, r) /\ r \in Runs /\ proc[p].start \in Envs /\ RowsOf(r) = Keys
      BY <1>2, <2>1 DEF ProcInv, Working, WorkingInv, RowsOf
    <2>3. doc \in Docs
      <3>1. \A k \in Keys : disk[Row(r, k)] \in RowValues
        BY <2>2 DEF RowsOf, Exists, TypeOK, FilesOK
      <3>2. Table(r) \in Tables
        BY <3>1 DEF Table, Tables
      <3>3. Evidence(p) \in BOOLEAN
        BY DEF Evidence
      <3>4. proc[p].ivs \in Seq(Intervals)
        BY TypeOfProc DEF ProcStates
      <3> QED BY <3>2, <3>3, <3>4 DEF Docs
    <2>4. doc.rows = Table(r) /\ (doc.evidence => disk[Identity(r)] \in Clean)
      BY <2>2 DEF Evidence, WorkingInv
    <2> HIDE DEF doc
    <2>5. proc[p] \in ProcStates /\ proc'[p] = [proc[p] EXCEPT !.doc = doc, !.pc = "results"]
      BY <2>1, TypeOfProc
    <2>6. proc'[p] \in ProcStates /\ \A q \in Procs \ {p} : proc'[q] = proc[q]
      <3>1. proc'[p] \in ProcStates
        BY <2>3, <2>5 DEF ProcStates, Steps
      <3> QED BY <2>1, <3>1, TypeOfProc
    <2>7. proc' \in [Procs -> ProcStates]
      BY <2>1, <2>6, TypeOfProc
    <2>8. /\ proc'[p].pc = "results" /\ proc'[p].doc = doc /\ proc'[p].run = r
          /\ proc'[p].start = proc[p].start /\ proc'[p].stored = proc[p].stored
          /\ proc'[p].ivs = proc[p].ivs /\ proc'[p].rows = proc[p].rows
      BY <1>2, <2>5 DEF ProcStates
    <2>9. WorkingInv(p, r)'
      BY <2>1, <2>2, <2>8 DEF WorkingInv, Publishing, Pointing, RowsOf, Exists
    <2>10. PublishingInv(p, r)'
      BY <2>1, <2>3, <2>4, <2>8 DEF PublishingInv, Pointing, Table
    <2>11. ProcInv(p)'
      BY <2>2, <2>8, <2>9, <2>10 DEF ProcInv, Creating, Working, Publishing, Pointing
    <2> QED BY <2>1, <2>6, <2>7, <2>11, HolderQuietStep
  <1> QED BY <1>1, <1>2

-----------------------------------------------------------------------------
(* Steps that write a file of the run.                                     *)

LEMMA DurableEffect ==
  ASSUME IInv, NEW r \in Runs, NEW f \in RunFiles(r) \union RowFiles(r), NEW v, DurableWrite(f, v)
  PROVE  /\ DOMAIN disk' = Files /\ DOMAIN stable' = Files
         /\ disk'[f] = v /\ \A g \in Files \ {f} : disk'[g] = disk[g]
         /\ \A g \in Files : stable'[g] = stable[g] \/ stable'[g] = disk'[g]
         /\ f \in RowFiles(r) => /\ \A g \in RowFiles(r) : stable'[g] = disk'[g]
                                 /\ \A g \in Files \ RowFiles(r) : stable'[g] = stable[g]
         /\ f \in RunFiles(r) => /\ \A g \in RunFiles(r) \union {Folder(r)} : stable'[g] = disk'[g]
                                 /\ \A g \in Files \ (RunFiles(r) \union {Folder(r)}) : stable'[g] = stable[g]
  <1>1. f \in Files /\ DOMAIN disk = Files
    BY RunNames DEF IInv, TypeOK, FilesOK
  <1>2. disk' = [disk EXCEPT ![f] = v] /\ stable' = [g \in Files |-> IF g \in Siblings(f) THEN disk'[g] ELSE stable[g]]
    BY DEF DurableWrite, Synced
  <1>3. /\ f \in RowFiles(r) => Siblings(f) = RowFiles(r)
        /\ f \in RunFiles(r) => Siblings(f) = RunFiles(r) \union {Folder(r)}
    BY SiblingsOf DEF IInv
  <1>4. RowFiles(r) \subseteq Files /\ RunFiles(r) \subseteq Files /\ Folder(r) \in Files
    BY RunNames
  <1> QED BY <1>1, <1>2, <1>3, <1>4

LEMMA ReplaceEffect ==
  ASSUME IInv, NEW f \in Files, NEW v, Replace(f, v)
  PROVE  /\ DOMAIN disk' = Files /\ DOMAIN stable' = Files /\ stable' = stable
         /\ disk'[f] = v /\ \A g \in Files \ {f} : disk'[g] = disk[g]
  BY DEF Replace, IInv, TypeOK, FilesOK

LEMMA AllFiles ==
  /\ Latest \subseteq Files
  /\ \A r \in Runs : /\ {Folder(r), Grid(r), Identity(r), Checkpoint(r), Results(r), Csv(r)} \subseteq Files
                     /\ \A k \in Keys : Row(r, k) \in Files
  BY DEF Files, Folders, RunFiles, RowFiles

LEMMA MixedFiles ==
  ASSUME NEW d, NEW e, NEW g, FilesOK(d), FilesOK(e), DOMAIN g = Files,
         \A f \in Files : g[f] = d[f] \/ g[f] = e[f] \/ g[f] = Absent
  PROVE  FilesOK(g)
  <1>1. \A f \in Latest : g[f] \in Runs \union {Absent}
    BY AllFiles DEF FilesOK
  <1>2. ASSUME NEW r \in Runs
        PROVE  /\ g[Folder(r)] \in {"made", Absent}
               /\ {g[Grid(r)], g[Identity(r)]} \subseteq Envs \union {Absent}
               /\ g[Checkpoint(r)] \in CheckpointValues \union {Absent}
               /\ g[Results(r)] \in Docs \union {Absent}
               /\ g[Csv(r)] \in Tables \union {Absent}
    BY AllFiles DEF FilesOK
  <1>3. \A r \in Runs : \A k \in Keys : g[Row(r, k)] \in RowValues \union {Absent}
    BY AllFiles DEF FilesOK
  <1> QED BY <1>1, <1>2, <1>3 DEF FilesOK

\* A value of the kind the file holds.
Fits(f, v) ==
    \/ f \in Latest /\ v \in Runs
    \/ \E r \in Runs : \/ f = Folder(r) /\ v = "made"
                       \/ f \in {Grid(r), Identity(r)} /\ v \in Envs
                       \/ f = Checkpoint(r) /\ v \in CheckpointValues
                       \/ f = Results(r) /\ v \in Docs
                       \/ f = Csv(r) /\ v \in Tables
                       \/ f \in RowFiles(r) /\ v \in RowValues

LEMMA WrittenFiles ==
  ASSUME NEW d, NEW g, FilesOK(d), DOMAIN g = Files,
         NEW x \in Files, Fits(x, g[x]), \A f \in Files \ {x} : g[f] = d[f]
  PROVE  FilesOK(g)
  <1>1. ASSUME NEW f \in Latest PROVE g[f] \in Runs \union {Absent}
    <2>1. CASE f # x
      BY <2>1, AllFiles DEF FilesOK
    <2>2. CASE f = x
      <3>1. \A r \in Runs : f \notin RunFiles(r) \union RowFiles(r) /\ f # Folder(r)
        BY LatestDiffer
      <3> QED BY <2>2, <3>1 DEF Fits, RunFiles
    <2> QED BY <2>1, <2>2
  <1>2. ASSUME NEW r \in Runs
        PROVE  /\ g[Folder(r)] \in {"made", Absent}
               /\ {g[Grid(r)], g[Identity(r)]} \subseteq Envs \union {Absent}
               /\ g[Checkpoint(r)] \in CheckpointValues \union {Absent}
               /\ g[Results(r)] \in Docs \union {Absent}
               /\ g[Csv(r)] \in Tables \union {Absent}
    <2>1. ASSUME NEW f \in RunFiles(r) \union {Folder(r)}, f = x
          PROVE  \/ f = Folder(r) /\ g[f] = "made"
                 \/ f \in {Grid(r), Identity(r)} /\ g[f] \in Envs
                 \/ f = Checkpoint(r) /\ g[f] \in CheckpointValues
                 \/ f = Results(r) /\ g[f] \in Docs
                 \/ f = Csv(r) /\ g[f] \in Tables
      <3>1. f \notin Latest /\ \A s \in Runs : f \notin RowFiles(s)
        BY LatestDiffer, RunFilesDiffer, RowFilesDiffer
      <3>2. \A s \in Runs : f \in RunFiles(s) \union {Folder(s)} => s = r
        BY RunFilesDiffer
      <3> QED BY <2>1, <3>1, <3>2 DEF Fits, RunFiles
    <2>2. \A f \in RunFiles(r) \union {Folder(r)} : f \in Files
      BY RunNames
    <2> QED BY <2>1, <2>2, RunFilesDiffer DEF FilesOK
  <1>3. ASSUME NEW r \in Runs, NEW k \in Keys PROVE g[Row(r, k)] \in RowValues \union {Absent}
    <2>1. CASE Row(r, k) # x
      BY <2>1, AllFiles DEF FilesOK
    <2>2. CASE Row(r, k) = x
      <3>1. Row(r, k) \in RowFiles(r)
        BY RunNames
      <3>2. \A s \in Runs : x \notin RunFiles(s) \union {Folder(s)}
        BY <2>2, <3>1, RunFilesDiffer, RowFilesDiffer
      <3> QED BY <2>2, <3>1, <3>2, LatestDiffer DEF Fits, RunFiles
    <2> QED BY <2>1, <2>2
  <1> QED BY <1>1, <1>2, <1>3 DEF FilesOK

\* An invocation past the lock changes files of its run only.
LEMMA RunStep ==
  ASSUME IInv, UNCHANGED <<env, stops, changes>>,
         FilesOK(disk)', FilesOK(stable)',
         NEW p \in Procs, NEW r \in Runs, proc[p].pc \notin {"idle", "lock"},
         proc' \in [Procs -> ProcStates],
         \A q \in Procs \ {p} : proc'[q] = proc[q],
         lock' = lock \/ (lock' = NoOne /\ proc'[p].pc = "idle"),
         \A f \in Files \ (RunFiles(r) \union RowFiles(r) \union {Folder(r)}) :
             disk'[f] = disk[f] /\ stable'[f] = stable[f],
         FolderInv(r)' /\ CheckpointInv(r)' /\ ResultsInv(r)',
         Published(r) => Published(r)',
         IsComplete(r)' => IsComplete(r) \/ disk[LatestJson] = stable[LatestJson],
         ProcInv(p)'
  PROVE  IInv'
  <1> USE DEF IInv
  <1>1. TypeOK'
    BY DEF TypeOK, ProcStates
  <1>2. lock = p /\ LockInv'
    BY DEF LockInv
  <1>3. ASSUME NEW s \in Runs, s # r
        PROVE  \A f \in RunFiles(s) \union RowFiles(s) \union {Folder(s)} :
                   disk'[f] = disk[f] /\ stable'[f] = stable[f]
    <2> TAKE f \in RunFiles(s) \union RowFiles(s) \union {Folder(s)}
    <2>1. f \in Files /\ f[1] = s
      BY RunNames, RunFilesDiffer, RowFilesDiffer
    <2>2. f \notin RunFiles(r) \union RowFiles(r) \union {Folder(r)}
      BY <1>3, <2>1, RunFilesDiffer, RowFilesDiffer
    <2> QED BY <2>1, <2>2
  <1>4. ASSUME NEW s \in Runs, s # r
        PROVE  FolderInv(s)' /\ CheckpointInv(s)' /\ ResultsInv(s)'
    <2>1. /\ \A f \in RunFiles(s) \union RowFiles(s) \union {Folder(s)} :
                 disk'[f] = disk[f] /\ stable'[f] = stable[f]
          /\ \A f \in {Grid(s), Identity(s), Checkpoint(s), Results(s), Csv(s)} : f \in RunFiles(s)
          /\ \A k \in Keys : Row(s, k) \in RowFiles(s)
      BY <1>3, <1>4, RunNames, RunFilesDiffer
    <2>2. FolderInv(s) /\ CheckpointInv(s) /\ ResultsInv(s)
      BY DEF RunInv
    <2>3. RowsOf(s)' = RowsOf(s)
      BY <2>1 DEF RowsOf, Exists
    <2>4. FolderInv(s)'
      BY <2>1, <2>2 DEF FolderInv, Made, Kept
    <2>5. CheckpointInv(s)'
      BY <2>1, <2>2, <2>3 DEF CheckpointInv, Exists, RowsOf
    <2>6. Table(s)' = Table(s)
      BY <2>1 DEF Table
    <2>7. ResultsInv(s)'
      BY <2>1, <2>2, <2>3, <2>6 DEF ResultsInv, Exists
    <2> QED BY <2>4, <2>5, <2>7
  <1>5. RunInv'
    BY <1>4 DEF RunInv
  <1>6. \A f \in Latest : disk'[f] = disk[f] /\ stable'[f] = stable[f]
    BY LatestDiffer, AllFiles
  <1>7. \A s \in Runs : Published(s) => Published(s)'
    <2> SUFFICES ASSUME NEW s \in Runs, s # r, Published(s) PROVE Published(s)'
      OBVIOUS
    <2> QED BY <1>3, RunFilesDiffer DEF Published
  <1>8. \A s \in Runs : IsComplete(s)' => IsComplete(s) \/ disk[LatestJson] = stable[LatestJson]
    <2> SUFFICES ASSUME NEW s \in Runs, s # r, IsComplete(s)' PROVE IsComplete(s)
      OBVIOUS
    <2> QED BY <1>3, RunFilesDiffer DEF IsComplete, Exists
  <1>9. \A f \in Latest : disk[f] \in Runs \union {Absent} /\ stable[f] \in Runs \union {Absent}
    BY DEF TypeOK, FilesOK
  <1>10. LatestInv'
    <2>1. ASSUME NEW f \in Latest, NEW d, d \in {disk', stable'}, d[f] # Absent
          PROVE  Published(d[f])'
      <3>1. d[f] \in Runs /\ Published(d[f])
        BY <1>6, <1>9, <2>1 DEF LatestInv
      <3> QED BY <1>7, <3>1
    <2> QED BY <1>6, <1>8, <1>9, <2>1, LatestFiles DEF LatestInv
  <1>11. ASSUME NEW q \in Procs \ {p} PROVE ProcInv(q)'
    <2>1. proc'[q] = proc[q] /\ proc[q].pc \in {"idle", "lock"}
      BY <1>2 DEF LockInv
    <2> QED BY <2>1 DEF ProcInv, Creating, Working, Publishing, Pointing
  <1> QED BY <1>1, <1>2, <1>5, <1>10, <1>11

LEMMA DurableRun ==
  ASSUME IInv, NEW r \in Runs, NEW f \in RunFiles(r) \union RowFiles(r), NEW v,
         DurableWrite(f, v), Fits(f, v), disk[Folder(r)] = "made", f \in RowFiles(r) => Made(r)
  PROVE  /\ FilesOK(disk)' /\ FilesOK(stable)'
         /\ FolderInv(r)' /\ Made(r)' /\ disk'[Folder(r)] = "made"
         /\ \A g \in Files \ (RunFiles(r) \union RowFiles(r) \union {Folder(r)}) :
                disk'[g] = disk[g] /\ stable'[g] = stable[g]
  <1> USE DEF IInv
  <1>1. f \in Files /\ RunFiles(r) \subseteq Files /\ RowFiles(r) \subseteq Files /\ Folder(r) \in Files
    BY RunNames
  <1>2. /\ DOMAIN disk' = Files /\ DOMAIN stable' = Files
        /\ disk'[f] = v /\ \A g \in Files \ {f} : disk'[g] = disk[g]
        /\ \A g \in Files : stable'[g] = stable[g] \/ stable'[g] = disk'[g]
        /\ f \in RowFiles(r) => /\ \A g \in RowFiles(r) : stable'[g] = disk'[g]
                                /\ \A g \in Files \ RowFiles(r) : stable'[g] = stable[g]
        /\ f \in RunFiles(r) => /\ \A g \in RunFiles(r) \union {Folder(r)} : stable'[g] = disk'[g]
                                /\ \A g \in Files \ (RunFiles(r) \union {Folder(r)}) : stable'[g] = stable[g]
    BY DurableEffect
  <1>3. FilesOK(disk) /\ FilesOK(stable)
    BY DEF TypeOK
  <1>4. FilesOK(disk)'
    BY <1>1, <1>2, <1>3, WrittenFiles
  <1>5. FilesOK(stable)'
    BY <1>2, <1>3, <1>4, MixedFiles
  <1>6. f # Folder(r) /\ disk'[Folder(r)] = "made"
    BY <1>1, <1>2, RunFilesDiffer, RowFilesDiffer
  <1>7. Folder(r) \notin RowFiles(r)
    BY RunFilesDiffer, RowFilesDiffer
  <1>8. Made(r)'
    BY <1>1, <1>2, <1>6, <1>7 DEF Made
  <1>9. \A g \in Kept(r) : stable'[g] = disk'[g]
    <2>1. FolderInv(r) /\ Kept(r) \subseteq RunFiles(r) \union RowFiles(r)
      BY RunFilesDiffer DEF RunInv, Kept
    <2>2. \A g \in RunFiles(r) : g \notin RowFiles(r)
      BY RunFilesDiffer, RowFilesDiffer
    <2> QED BY <1>1, <1>2, <2>1, <2>2 DEF FolderInv
  <1>10. FolderInv(r)'
    BY <1>6, <1>8, <1>9 DEF FolderInv, Made, Kept
  <1> QED BY <1>2, <1>4, <1>5, <1>6, <1>8, <1>10

LEMMA CreatingFiles ==
  ASSUME IInv, NEW p \in Procs, NEW r, r = proc[p].run, proc[p].pc \in Creating,
         NEW f \in {Grid(r), Identity(r)}, DurableWrite(f, proc[p].start)
  PROVE  /\ r \in Runs /\ proc[p].start \in Envs
         /\ FilesOK(disk)' /\ FilesOK(stable)'
         /\ FolderInv(r)' /\ Made(r)' /\ disk'[Folder(r)] = "made"
         /\ \A g \in Files \ (RunFiles(r) \union RowFiles(r) \union {Folder(r)}) :
                disk'[g] = disk[g] /\ stable'[g] = stable[g]
         /\ CheckpointInv(r)' /\ ResultsInv(r)' /\ ~Published(r) /\ ~IsComplete(r)'
         /\ \A g \in {Checkpoint(r), Results(r), Csv(r)} \union RowFiles(r) :
                disk'[g] = Absent /\ stable'[g] = Absent
         /\ disk'[f] = proc[p].start
         /\ f = Identity(r) => disk'[Grid(r)] = disk[Grid(r)]
  <1> USE DEF IInv
  <1>1. r \in Runs /\ proc[p].start \in Envs /\ CreatingInv(p, r)
    BY DEF ProcInv
  <1>2. f \in RunFiles(r) /\ f \notin RowFiles(r) /\ Fits(f, proc[p].start) /\ disk[Folder(r)] = "made"
    BY <1>1, RunFilesDiffer, RowFilesDiffer DEF Fits, CreatingInv
  <1>3. /\ FilesOK(disk)' /\ FilesOK(stable)'
        /\ FolderInv(r)' /\ Made(r)' /\ disk'[Folder(r)] = "made"
        /\ \A g \in Files \ (RunFiles(r) \union RowFiles(r) \union {Folder(r)}) :
               disk'[g] = disk[g] /\ stable'[g] = stable[g]
    BY <1>1, <1>2, DurableRun
  <1>4. /\ disk'[f] = proc[p].start /\ \A g \in Files \ {f} : disk'[g] = disk[g]
        /\ \A g \in Files : stable'[g] = stable[g] \/ stable'[g] = disk'[g]
    BY <1>1, <1>2, DurableEffect
  <1>5. \A g \in {Checkpoint(r), Results(r), Csv(r)} \union RowFiles(r) : g \in Files /\ g # f
    BY <1>1, RunNames, RunFilesDiffer, RowFilesDiffer DEF RunFiles
  <1>6. \A g \in {Checkpoint(r), Results(r), Csv(r)} \union RowFiles(r) :
           disk'[g] = Absent /\ stable'[g] = Absent
    BY <1>1, <1>4, <1>5 DEF CreatingInv
  <1>7. \A k \in Keys : Row(r, k) \in RowFiles(r)
    BY <1>1, RunNames
  <1>8. CheckpointInv(r)' /\ ~IsComplete(r)'
    BY <1>6, <1>7 DEF CheckpointInv, RowsOf, Exists, IsComplete
  <1>9. ResultsInv(r)'
    BY <1>6 DEF ResultsInv
  <1>10. ~Published(r)
    BY <1>1 DEF Published, CreatingInv
  <1>11. f = Identity(r) => disk'[Grid(r)] = disk[Grid(r)]
    BY <1>1, <1>4, RunNames, RunFilesDiffer
  <1> QED BY <1>1, <1>3, <1>4, <1>6, <1>8, <1>9, <1>10, <1>11

LEMMA CreateSteps ==
  ASSUME IInv, NEW p \in Procs, WriteGrid(p) \/ WriteIdentity(p)
  PROVE  IInv'
  <1> USE DEF IInv
  <1> SUFFICES ASSUME NEW r, r = proc[p].run PROVE IInv'
    OBVIOUS
  <1> DEFINE f == IF proc[p].pc = "grid" THEN Grid(r) ELSE Identity(r)
             next == IF proc[p].pc = "grid" THEN "identity" ELSE "first"
  <1>1. /\ proc[p].pc \in {"grid", "identity"} /\ DurableWrite(f, proc[p].start)
        /\ proc' = [proc EXCEPT ![p].pc = next]
        /\ UNCHANGED <<lock, env, stops, changes>>
    BY DEF WriteGrid, WriteIdentity, At, Goto, Run
  <1>2. proc[p].pc \in Creating /\ f \in {Grid(r), Identity(r)}
    BY <1>1 DEF Creating
  <1>3. /\ r \in Runs /\ proc[p].start \in Envs
        /\ FilesOK(disk)' /\ FilesOK(stable)'
        /\ FolderInv(r)' /\ Made(r)' /\ disk'[Folder(r)] = "made"
        /\ \A g \in Files \ (RunFiles(r) \union RowFiles(r) \union {Folder(r)}) :
               disk'[g] = disk[g] /\ stable'[g] = stable[g]
        /\ CheckpointInv(r)' /\ ResultsInv(r)' /\ ~Published(r) /\ ~IsComplete(r)'
        /\ \A g \in {Checkpoint(r), Results(r), Csv(r)} \union RowFiles(r) :
               disk'[g] = Absent /\ stable'[g] = Absent
        /\ disk'[f] = proc[p].start
        /\ f = Identity(r) => disk'[Grid(r)] = disk[Grid(r)]
    <2> HIDE DEF f
    <2> QED BY <1>1, <1>2, CreatingFiles
  <1>4. CreatingInv(p, r)
    BY <1>2 DEF ProcInv
  <1>5. /\ proc' \in [Procs -> ProcStates]
        /\ \A q \in Procs \ {p} : proc'[q] = proc[q]
        /\ proc'[p].pc = next /\ proc'[p].run = r
        /\ proc'[p].start = proc[p].start /\ proc'[p].stored = proc[p].stored
    <2>1. next \in Steps
      BY DEF Steps
    <2> HIDE DEF next
    <2> QED BY <1>1, <2>1, GotoEffect
  <1>6. CreatingInv(p, r)'
    BY <1>1, <1>3, <1>4, <1>5 DEF CreatingInv
  <1>7. ProcInv(p)'
    BY <1>1, <1>3, <1>5, <1>6 DEF ProcInv, Creating, Working, Publishing, Pointing
  <1> HIDE DEF f, next
  <1> QED BY <1>1, <1>3, <1>5, <1>7, RunStep

-----------------------------------------------------------------------------
(* Checkpoints.                                                            *)

LEMMA CheckpointFiles ==
  ASSUME IInv, NEW r \in Runs, NEW c \in CheckpointValues, DurableWrite(Checkpoint(r), c),
         disk[Folder(r)] = "made", disk[Identity(r)] \in Envs,
         c.identity = disk[Identity(r)], c.grid = disk[Grid(r)],
         c.count <= Cardinality(RowsOf(r)),
         \A k \in RowsOf(r) : disk[Row(r, k)].interval \in DOMAIN c.ivs,
         c.state # "running" => RowsOf(r) = Keys
  PROVE  /\ FilesOK(disk)' /\ FilesOK(stable)'
         /\ FolderInv(r)' /\ CheckpointInv(r)' /\ ResultsInv(r)'
         /\ \A g \in Files \ (RunFiles(r) \union RowFiles(r) \union {Folder(r)}) :
                disk'[g] = disk[g] /\ stable'[g] = stable[g]
         /\ Published(r) => Published(r)'
         /\ disk'[Checkpoint(r)] = c /\ Exists(Checkpoint(r))'
         /\ \A g \in Files \ {Checkpoint(r)} : disk'[g] = disk[g]
         /\ \A g \in RunFiles(r) : stable'[g] = disk'[g]
         /\ RowsOf(r)' = RowsOf(r) /\ Table(r)' = Table(r)
  <1> USE DEF IInv
  <1>1. /\ Checkpoint(r) \in RunFiles(r) /\ Checkpoint(r) \notin RowFiles(r)
        /\ Fits(Checkpoint(r), c) /\ RunFiles(r) \subseteq Files
    BY RunNames, RunFilesDiffer, RowFilesDiffer DEF Fits
  <1>2. /\ FilesOK(disk)' /\ FilesOK(stable)'
        /\ FolderInv(r)' /\ Made(r)' /\ disk'[Folder(r)] = "made"
        /\ \A g \in Files \ (RunFiles(r) \union RowFiles(r) \union {Folder(r)}) :
               disk'[g] = disk[g] /\ stable'[g] = stable[g]
    BY <1>1, DurableRun
  <1>3. /\ disk'[Checkpoint(r)] = c
        /\ \A g \in Files \ {Checkpoint(r)} : disk'[g] = disk[g]
        /\ \A g \in RunFiles(r) : stable'[g] = disk'[g]
    BY <1>1, DurableEffect
  <1>4. c # Absent
    BY MissingIsNoValue
  <1>5. \A k \in Keys : disk'[Row(r, k)] = disk[Row(r, k)]
    <2> TAKE k \in Keys
    <2>1. Row(r, k) \in Files /\ Row(r, k) # Checkpoint(r)
      BY <1>1, RunNames
    <2> QED BY <1>3, <2>1
  <1>6. RowsOf(r)' = RowsOf(r) /\ Table(r)' = Table(r)
    BY <1>5 DEF RowsOf, Exists, Table
  <1>7. /\ disk'[Identity(r)] = disk[Identity(r)] /\ disk'[Grid(r)] = disk[Grid(r)]
        /\ disk'[Results(r)] = disk[Results(r)] /\ disk'[Csv(r)] = disk[Csv(r)]
        /\ stable'[Results(r)] = disk[Results(r)] /\ stable'[Csv(r)] = disk[Csv(r)]
    BY <1>1, <1>3, RunFilesDiffer
  <1>8. CheckpointInv(r) /\ ResultsInv(r)
    BY DEF RunInv
  <1>9. CheckpointInv(r)'
    <2>1. \A k \in RowsOf(r) : /\ disk'[Row(r, k)].start = disk[Identity(r)]
                               /\ disk'[Row(r, k)].interval \in DOMAIN c.ivs
      BY <1>5, <1>8 DEF CheckpointInv, RowsOf
    <2> QED BY <1>3, <1>4, <1>6, <1>7, <2>1 DEF CheckpointInv, Exists
  <1>10. ResultsInv(r)'
    BY <1>3, <1>4, <1>6, <1>7, <1>8 DEF ResultsInv, Exists
  <1>11. Published(r) => Published(r)'
    BY <1>7 DEF Published
  <1> QED BY <1>2, <1>3, <1>4, <1>6, <1>9, <1>10, <1>11 DEF Exists

LEMMA FirstCheckpointStep ==
  ASSUME IInv, NEW p \in Procs, FirstCheckpoint(p)
  PROVE  IInv'
  <1> USE DEF IInv
  <1> SUFFICES ASSUME NEW r, r = proc[p].run PROVE IInv'
    OBVIOUS
  <1> DEFINE c == [state |-> "running", identity |-> disk[Identity(r)], grid |-> proc[p].start,
                   count |-> 0, ivs |-> <<Opened>>, results |-> Absent]
  <1>1. /\ proc[p].pc = "first" /\ DurableWrite(Checkpoint(r), c)
        /\ proc' = [proc EXCEPT ![p].ivs = <<Opened>>, ![p].pc = "next"]
        /\ UNCHANGED <<lock, env, stops, changes>>
    BY DEF FirstCheckpoint, At, Run
  <1>2. r \in Runs /\ proc[p].start \in Envs /\ CreatingInv(p, r)
    BY <1>1 DEF ProcInv, Creating
  <1>3. /\ disk[Identity(r)] = proc[p].start /\ disk[Grid(r)] = proc[p].start
        /\ proc[p].stored = proc[p].start /\ disk[Folder(r)] = "made"
    BY <1>1, <1>2 DEF CreatingInv
  <1>4. <<Opened>> \in Seq(Intervals) /\ Len(<<Opened>>) = 1 /\ <<Opened>> # <<>>
    <2>1. Opened \in Intervals
      BY DEF Opened, Intervals
    <2> QED BY <2>1
  <1>5. c \in CheckpointValues
    BY <1>2, <1>3, <1>4 DEF CheckpointValues
  <1>6. RowsOf(r) = {} /\ Cardinality(RowsOf(r)) = 0
    <2>1. RowsOf(r) = {}
      BY <1>2, RunNames DEF CreatingInv, RowsOf, Exists
    <2> QED BY <2>1, FS_EmptySet
  <1>7. /\ c.state = "running" /\ c.identity = disk[Identity(r)] /\ c.grid = disk[Grid(r)]
        /\ c.count = 0 /\ c.ivs = <<Opened>>
    BY <1>3
  <1> HIDE DEF c
  <1>8. /\ FilesOK(disk)' /\ FilesOK(stable)'
        /\ FolderInv(r)' /\ CheckpointInv(r)' /\ ResultsInv(r)'
        /\ \A g \in Files \ (RunFiles(r) \union RowFiles(r) \union {Folder(r)}) :
               disk'[g] = disk[g] /\ stable'[g] = stable[g]
        /\ Published(r) => Published(r)'
        /\ disk'[Checkpoint(r)] = c /\ Exists(Checkpoint(r))'
        /\ \A g \in Files \ {Checkpoint(r)} : disk'[g] = disk[g]
        /\ RowsOf(r)' = RowsOf(r)
    <2>1. /\ c.count <= Cardinality(RowsOf(r))
          /\ \A k \in RowsOf(r) : disk[Row(r, k)].interval \in DOMAIN c.ivs
          /\ c.state # "running" => RowsOf(r) = Keys
      BY <1>6, <1>7
    <2>2. c.identity = disk[Identity(r)] /\ c.grid = disk[Grid(r)] /\ disk[Identity(r)] \in Envs
      BY <1>2, <1>3, <1>7
    <2> QED BY <1>1, <1>2, <1>3, <1>5, <2>1, <2>2, CheckpointFiles
  <1>9. proc[p] \in ProcStates /\ proc'[p] = [proc[p] EXCEPT !.ivs = <<Opened>>, !.pc = "next"]
    BY <1>1, TypeOfProc
  <1>10. proc'[p] \in ProcStates /\ \A q \in Procs \ {p} : proc'[q] = proc[q]
    <2>1. proc'[p] \in ProcStates
      BY <1>4, <1>9 DEF ProcStates, Steps
    <2> QED BY <1>1, <2>1, TypeOfProc
  <1>11. proc' \in [Procs -> ProcStates]
    BY <1>1, <1>10, TypeOfProc
  <1>12. /\ proc'[p].pc = "next" /\ proc'[p].run = r /\ proc'[p].ivs = <<Opened>>
         /\ proc'[p].start = proc[p].start /\ proc'[p].stored = proc[p].stored
         /\ proc'[p].rows = {}
    <2>1. proc[p].rows = {}
      BY <1>1 DEF ProcInv, Working, Publishing, Pointing
    <2> QED BY <1>9, <2>1 DEF ProcStates
  <1>13. disk'[Identity(r)] = disk[Identity(r)]
    BY <1>2, <1>8, RunNames, RunFilesDiffer
  <1>14. WorkingInv(p, r)'
    BY <1>3, <1>4, <1>6, <1>7, <1>8, <1>12, <1>13 DEF WorkingInv, Publishing, Pointing
  <1>15. ProcInv(p)'
    BY <1>2, <1>12, <1>14 DEF ProcInv, Creating, Working, Publishing, Pointing
  <1>16. ~IsComplete(r)'
    BY <1>7, <1>8 DEF IsComplete
  <1> QED BY <1>1, <1>2, <1>8, <1>10, <1>11, <1>15, <1>16, RunStep

\* The checkpoint an invocation writes over the one it found.
Updates(c, p, state, ivs) ==
    \/ c = Progress(p, state, ivs)
    \/ c = [Progress(p, state, ivs) EXCEPT !.results = disk[Results(Run(p))]]

\* An update of the checkpoint by an invocation that measures.
LEMMA ProgressFiles ==
  ASSUME IInv, NEW p \in Procs, NEW r, r = proc[p].run, proc[p].pc \in Working,
         NEW state \in {"running", "finalizing", "complete"}, NEW ivs \in Seq(Intervals),
         Len(ivs) = Len(proc[p].ivs), state # "running" => proc[p].rows = Keys,
         NEW c, Updates(c, p, state, ivs), DurableWrite(Checkpoint(r), c)
  PROVE  /\ r \in Runs /\ FilesOK(disk)' /\ FilesOK(stable)'
         /\ FolderInv(r)' /\ CheckpointInv(r)' /\ ResultsInv(r)'
         /\ \A g \in Files \ (RunFiles(r) \union RowFiles(r) \union {Folder(r)}) :
                disk'[g] = disk[g] /\ stable'[g] = stable[g]
         /\ Published(r) => Published(r)'
         /\ disk'[Checkpoint(r)] = c /\ c.state = state /\ c.ivs = ivs /\ Exists(Checkpoint(r))'
         /\ \A k \in Keys : disk'[Row(r, k)] = disk[Row(r, k)]
         /\ disk'[Identity(r)] = disk[Identity(r)]
         /\ RowsOf(r)' = RowsOf(r)
  <1> USE DEF IInv
  <1>1. /\ r \in Runs /\ WorkingInv(p, r) /\ CheckpointInv(r) /\ FolderInv(r)
        /\ Exists(Checkpoint(r))
    BY DEF ProcInv, RunInv, WorkingInv
  <1>2. /\ Progress(p, state, ivs) = [disk[Checkpoint(r)] EXCEPT
               !.state = state, !.count = Cardinality(proc[p].rows), !.ivs = ivs]
        /\ disk[Checkpoint(r)] \in CheckpointValues
        /\ disk[Results(r)] \in Docs \union {Absent}
    BY <1>1 DEF Progress, Run, Exists, TypeOK, FilesOK
  <1>3. /\ proc[p].rows \subseteq RowsOf(r) /\ IsFiniteSet(RowsOf(r))
        /\ Cardinality(proc[p].rows) \in Nat /\ Cardinality(proc[p].rows) <= Cardinality(RowsOf(r))
    <2>1. proc[p].rows \subseteq RowsOf(r) /\ RowsOf(r) \subseteq Keys
      BY <1>1 DEF WorkingInv, RowsOf
    <2>2. IsFiniteSet(RowsOf(r)) /\ IsFiniteSet(proc[p].rows)
      BY <2>1, Setting, FS_Subset
    <2> QED BY <2>1, <2>2, FS_CardinalityType, FS_Subset
  <1>4. /\ c \in CheckpointValues /\ c.state = state /\ c.ivs = ivs
        /\ c.count = Cardinality(proc[p].rows)
        /\ c.identity = disk[Checkpoint(r)].identity /\ c.grid = disk[Checkpoint(r)].grid
    <2> DEFINE old == disk[Checkpoint(r)]
               new == Progress(p, state, ivs)
    <2>1. /\ old \in CheckpointValues
          /\ new = [old EXCEPT !.state = state, !.count = Cardinality(proc[p].rows), !.ivs = ivs]
      BY <1>2
    <2> HIDE DEF old, new
    <2>2. /\ new \in CheckpointValues /\ new.state = state /\ new.ivs = ivs
          /\ new.count = Cardinality(proc[p].rows)
          /\ new.identity = old.identity /\ new.grid = old.grid
      BY <1>3, <2>1 DEF CheckpointValues
    <2>3. CASE c = new
      BY <2>2, <2>3 DEF old
    <2>4. CASE c = [new EXCEPT !.results = disk[Results(r)]]
      BY <1>2, <2>2, <2>4 DEF old, CheckpointValues
    <2> QED BY <2>3, <2>4 DEF new, Updates, Run
  <1>5. /\ disk[Identity(r)] \in Envs
        /\ c.identity = disk[Identity(r)] /\ c.grid = disk[Grid(r)]
        /\ c.count <= Cardinality(RowsOf(r))
    BY <1>1, <1>3, <1>4 DEF CheckpointInv
  <1>6. \A k \in RowsOf(r) : disk[Row(r, k)].interval \in DOMAIN c.ivs
    <2>1. DOMAIN ivs = DOMAIN proc[p].ivs
      <3>1. proc[p].ivs \in Seq(Intervals)
        BY TypeOfProc DEF ProcStates
      <3>2. DOMAIN proc[p].ivs = 1 .. Len(proc[p].ivs) /\ DOMAIN ivs = 1 .. Len(ivs)
        BY <3>1
      <3> QED BY <3>2
    <2> QED BY <1>1, <1>4, <2>1 DEF WorkingInv
  <1>7. c.state # "running" => RowsOf(r) = Keys
    <2>1. c.state = state /\ proc[p].rows \subseteq RowsOf(r)
      BY <1>3, <1>4
    <2>2. RowsOf(r) \subseteq Keys
      BY DEF RowsOf
    <2> QED BY <2>1, <2>2
  <1>8. disk[Folder(r)] = "made"
    <2>1. Checkpoint(r) \in RunFiles(r)
      BY DEF RunFiles
    <2> QED BY <1>1, <2>1 DEF FolderInv, Exists
  <1>9. /\ FilesOK(disk)' /\ FilesOK(stable)'
        /\ FolderInv(r)' /\ CheckpointInv(r)' /\ ResultsInv(r)'
        /\ \A g \in Files \ (RunFiles(r) \union RowFiles(r) \union {Folder(r)}) :
               disk'[g] = disk[g] /\ stable'[g] = stable[g]
        /\ Published(r) => Published(r)'
        /\ disk'[Checkpoint(r)] = c /\ Exists(Checkpoint(r))'
        /\ \A g \in Files \ {Checkpoint(r)} : disk'[g] = disk[g]
        /\ RowsOf(r)' = RowsOf(r)
    BY <1>1, <1>4, <1>5, <1>6, <1>7, <1>8, CheckpointFiles
  <1>10. disk'[Identity(r)] = disk[Identity(r)]
    BY <1>1, <1>9, RunNames, RunFilesDiffer
  <1>11. \A k \in Keys : disk'[Row(r, k)] = disk[Row(r, k)]
    <2> TAKE k \in Keys
    <2>1. Row(r, k) \in Files
      BY <1>1, AllFiles
    <2>2. Row(r, k) # Checkpoint(r)
      BY RowIsNoCheckpoint
    <2> QED BY <1>9, <2>1, <2>2
  <1> QED BY <1>1, <1>4, <1>9, <1>10, <1>11

LEMMA IntervalsEffect ==
  ASSUME TypeOK, NEW p \in Procs, NEW next \in ProcStates, NEW ivs \in Seq(Intervals),
         NEW label \in Steps, proc' = [proc EXCEPT ![p] = [next EXCEPT !.ivs = ivs, !.pc = label]]
  PROVE  /\ proc' \in [Procs -> ProcStates] /\ \A q \in Procs \ {p} : proc'[q] = proc[q]
         /\ proc'[p].pc = label /\ proc'[p].run = next.run /\ proc'[p].ivs = ivs
         /\ proc'[p].start = next.start /\ proc'[p].stored = next.stored
         /\ proc'[p].rows = next.rows
  <1>0. proc'[p] = [next EXCEPT !.ivs = ivs, !.pc = label]
    BY TypeOfProc
  <1>1. \A q \in Procs \ {p} : proc'[q] = proc[q]
    BY TypeOfProc
  <1>2. proc'[p] \in ProcStates
    <2>1. [next EXCEPT !.ivs = ivs, !.pc = label] \in ProcStates
      BY DEF ProcStates
    <2> QED BY <1>0, <2>1
  <1>3. proc' \in [Procs -> ProcStates]
    BY <1>1, <1>2, TypeOfProc
  <1> QED BY <1>0, <1>1, <1>3 DEF ProcStates

LEMMA ProgressStep ==
  ASSUME IInv, UNCHANGED <<lock, env, stops, changes>>, NEW p \in Procs, NEW r, r = proc[p].run,
         proc[p].pc \in Working, NEW state \in {"running", "finalizing"},
         NEW ivs \in Seq(Intervals), Len(ivs) = Len(proc[p].ivs),
         state # "running" => proc[p].rows = Keys,
         DurableWrite(Checkpoint(r), Progress(p, state, ivs)),
         NEW next, next = proc[p] \/ next = [proc[p] EXCEPT !.key = Absent],
         NEW label \in {"next", "recheck"}, label = "recheck" => state = "finalizing",
         proc' = [proc EXCEPT ![p] = [next EXCEPT !.ivs = ivs, !.pc = label]]
  PROVE  IInv'
  <1> USE DEF IInv
  <1> SUFFICES ASSUME NEW c, c = Progress(p, state, ivs) PROVE IInv'
    OBVIOUS
  <1>0. Updates(c, p, state, ivs)
    BY DEF Updates
  <1>1. /\ r \in Runs /\ FilesOK(disk)' /\ FilesOK(stable)'
        /\ FolderInv(r)' /\ CheckpointInv(r)' /\ ResultsInv(r)'
        /\ \A g \in Files \ (RunFiles(r) \union RowFiles(r) \union {Folder(r)}) :
               disk'[g] = disk[g] /\ stable'[g] = stable[g]
        /\ Published(r) => Published(r)'
        /\ disk'[Checkpoint(r)] = c /\ c.state = state /\ c.ivs = ivs /\ Exists(Checkpoint(r))'
        /\ \A k \in Keys : disk'[Row(r, k)] = disk[Row(r, k)]
        /\ disk'[Identity(r)] = disk[Identity(r)]
        /\ RowsOf(r)' = RowsOf(r)
    BY <1>0, ProgressFiles
  <1>2. proc[p] \in ProcStates /\ next \in ProcStates
    <2>1. proc[p] \in ProcStates
      BY TypeOfProc
    <2> QED BY <2>1 DEF ProcStates
  <1>3. /\ proc' \in [Procs -> ProcStates] /\ \A q \in Procs \ {p} : proc'[q] = proc[q]
        /\ proc'[p].pc = label /\ proc'[p].run = next.run /\ proc'[p].ivs = ivs
        /\ proc'[p].start = next.start /\ proc'[p].stored = next.stored
        /\ proc'[p].rows = next.rows
    <2>1. label \in Steps
      BY DEF Steps
    <2> QED BY <1>2, <2>1, IntervalsEffect
  <1>6. /\ next.run = r /\ next.start = proc[p].start /\ next.stored = proc[p].stored
        /\ next.rows = proc[p].rows
    BY <1>2 DEF ProcStates
  <1>7. /\ proc'[p].pc = label /\ proc'[p].run = r /\ proc'[p].ivs = ivs
        /\ proc'[p].start = proc[p].start /\ proc'[p].stored = proc[p].stored
        /\ proc'[p].rows = proc[p].rows
    BY <1>3, <1>6
  <1>8. WorkingInv(p, r) /\ proc[p].start \in Envs
    BY DEF ProcInv
  <1>9. ivs # <<>> /\ DOMAIN ivs = DOMAIN proc[p].ivs
    <2>1. proc[p].ivs \in Seq(Intervals)
      BY <1>2 DEF ProcStates
    <2>2. proc[p].ivs # <<>>
      BY <1>8 DEF WorkingInv
    <2>3. DOMAIN proc[p].ivs = 1 .. Len(proc[p].ivs) /\ DOMAIN ivs = 1 .. Len(ivs)
          /\ Len(proc[p].ivs) # 0
      BY <2>1, <2>2
    <2> QED BY <2>3
  <1>10. WorkingInv(p, r)'
    <2>1. \A k \in RowsOf(r)' : disk'[Row(r, k)].interval \in DOMAIN ivs
      BY <1>1, <1>8, <1>9 DEF WorkingInv, RowsOf
    <2> QED BY <1>1, <1>7, <1>8, <1>9, <2>1 DEF WorkingInv, Publishing, Pointing
  <1>11. ProcInv(p)'
    BY <1>1, <1>7, <1>8, <1>10 DEF ProcInv, Creating, Working, Publishing, Pointing
  <1>12. ~IsComplete(r)'
    BY <1>1 DEF IsComplete
  <1>13. proc[p].pc \notin {"idle", "lock"}
    BY DEF Working, Publishing, Pointing
  <1> QED BY <1>1, <1>3, <1>11, <1>12, <1>13, RunStep

LEMMA ProgressSteps ==
  ASSUME IInv, NEW p \in Procs, Reopen(p) \/ UpdateProgress(p) \/ Finalize(p)
  PROVE  IInv'
  <1>1. proc[p].pc \in {"reopen", "progress", "next"} /\ proc[p].pc \in Working
    BY DEF Reopen, UpdateProgress, Finalize, At, Working
  <1>2. proc[p] \in ProcStates
    BY TypeOfProc DEF IInv
  <1>3. proc[p].ivs \in Seq(Intervals) /\ proc[p].ivs # <<>> /\ proc[p].clock \in Nat
    BY <1>1, <1>2 DEF ProcStates, IInv, ProcInv, WorkingInv
  <1>4. /\ Advanced(proc[p].ivs, proc[p].clock) \in Seq(Intervals)
        /\ Len(Advanced(proc[p].ivs, proc[p].clock)) = Len(proc[p].ivs)
        /\ Closed(Advanced(proc[p].ivs, proc[p].clock)) \in Seq(Intervals)
        /\ Len(Closed(Advanced(proc[p].ivs, proc[p].clock))) = Len(proc[p].ivs)
    BY <1>3, AdvancedIntervals
  <1>5. CASE Reopen(p)
    <2>1. proc' = [proc EXCEPT ![p] = [proc[p] EXCEPT !.ivs = proc[p].ivs, !.pc = "next"]]
      <3>1. [proc[p] EXCEPT !.ivs = proc[p].ivs, !.pc = "next"] = [proc[p] EXCEPT !.pc = "next"]
        BY <1>2 DEF ProcStates
      <3> QED BY <1>5, <3>1 DEF Reopen, Goto
    <2>2. /\ DurableWrite(Checkpoint(proc[p].run), Progress(p, "running", proc[p].ivs))
          /\ UNCHANGED <<lock, env, stops, changes>>
      BY <1>5 DEF Reopen, Run
    <2> QED BY <1>1, <1>3, <2>1, <2>2, ProgressStep
  <1>6. ASSUME NEW ivs, ivs = Advanced(proc[p].ivs, proc[p].clock), UpdateProgress(p)
        PROVE  IInv'
    <2> DEFINE next == [proc[p] EXCEPT !.key = Absent]
    <2>1. proc' = [proc EXCEPT ![p] = [next EXCEPT !.ivs = ivs, !.pc = "next"]]
      <3>1. [next EXCEPT !.ivs = ivs, !.pc = "next"]
                = [proc[p] EXCEPT !.ivs = ivs, !.key = Absent, !.pc = "next"]
        BY <1>2 DEF ProcStates
      <3> QED BY <1>6, <3>1 DEF UpdateProgress
    <2>2. /\ DurableWrite(Checkpoint(proc[p].run), Progress(p, "running", ivs))
          /\ UNCHANGED <<lock, env, stops, changes>>
      BY <1>6 DEF UpdateProgress, Run
    <2> HIDE DEF next
    <2>3. next = [proc[p] EXCEPT !.key = Absent]
      BY DEF next
    <2> QED BY <1>1, <1>4, <1>6, <2>1, <2>2, <2>3, ProgressStep
  <1>7. ASSUME NEW ivs, ivs = Closed(Advanced(proc[p].ivs, proc[p].clock)), Finalize(p)
        PROVE  IInv'
    <2>1. proc' = [proc EXCEPT ![p] = [proc[p] EXCEPT !.ivs = ivs, !.pc = "recheck"]]
      BY <1>7 DEF Finalize
    <2>2. /\ DurableWrite(Checkpoint(proc[p].run), Progress(p, "finalizing", ivs))
          /\ UNCHANGED <<lock, env, stops, changes>>
      BY <1>7 DEF Finalize, Run
    <2>3. proc[p].rows = Keys
      BY <1>2, <1>7 DEF Finalize, Pending, ProcStates
    <2> QED BY <1>1, <1>4, <1>7, <2>1, <2>2, <2>3, ProgressStep
  <1> QED BY <1>5, <1>6, <1>7

-----------------------------------------------------------------------------
(* Rows.                                                                   *)

LEMMA RowFilesOnly ==
  ASSUME NEW r \in Runs, NEW k \in Keys
  PROVE  /\ Row(r, k) \in RowFiles(r) /\ Row(r, k) \in Files
         /\ Row(r, k) \notin {Grid(r), Identity(r), Checkpoint(r), Results(r), Csv(r), Folder(r)}
         /\ {Grid(r), Identity(r), Checkpoint(r), Results(r), Csv(r), Folder(r)} \subseteq Files \ RowFiles(r)
  <1>1. Row(r, k) \in RowFiles(r) /\ Row(r, k) \in Files
    BY RunNames
  <1>2. \A f \in RunFiles(r) \union {Folder(r)} : f \in Files /\ f \notin RowFiles(r)
    BY RunNames, RunFilesDiffer, RowFilesDiffer
  <1>3. {Grid(r), Identity(r), Checkpoint(r), Results(r), Csv(r)} = RunFiles(r)
    BY DEF RunFiles
  <1> QED BY <1>1, <1>2, <1>3

LEMMA RowFilesWritten ==
  ASSUME IInv, NEW r \in Runs, NEW k \in Keys, NEW v \in RowValues, DurableWrite(Row(r, k), v),
         ~Exists(Row(r, k)), Exists(Checkpoint(r)),
         v.start = disk[Identity(r)], v.interval \in DOMAIN disk[Checkpoint(r)].ivs
  PROVE  /\ FilesOK(disk)' /\ FilesOK(stable)'
         /\ FolderInv(r)' /\ CheckpointInv(r)' /\ ResultsInv(r)'
         /\ \A g \in Files \ (RunFiles(r) \union RowFiles(r) \union {Folder(r)}) :
                disk'[g] = disk[g] /\ stable'[g] = stable[g]
         /\ ~Published(r) /\ disk'[Checkpoint(r)] = disk[Checkpoint(r)]
         /\ disk'[Identity(r)] = disk[Identity(r)]
         /\ disk'[Row(r, k)] = v /\ \A j \in Keys \ {k} : disk'[Row(r, j)] = disk[Row(r, j)]
         /\ RowsOf(r)' = RowsOf(r) \union {k}
  <1> USE DEF IInv
  <1>1. /\ Row(r, k) \in RowFiles(r) /\ Row(r, k) \in Files
        /\ {Grid(r), Identity(r), Checkpoint(r), Results(r), Csv(r), Folder(r)} \subseteq Files \ RowFiles(r)
    BY RowFilesOnly
  <1>2. Fits(Row(r, k), v)
    BY <1>1 DEF Fits
  <1>3. FolderInv(r) /\ CheckpointInv(r) /\ ResultsInv(r)
    BY DEF RunInv
  <1>4. Made(r) /\ disk[Folder(r)] = "made"
    <2>1. Checkpoint(r) \in RunFiles(r)
      BY RunFilesDiffer
    <2> QED BY <1>3, <2>1 DEF FolderInv, Exists
  <1>5. /\ FilesOK(disk)' /\ FilesOK(stable)' /\ FolderInv(r)'
        /\ \A g \in Files \ (RunFiles(r) \union RowFiles(r) \union {Folder(r)}) :
               disk'[g] = disk[g] /\ stable'[g] = stable[g]
    BY <1>1, <1>2, <1>4, DurableRun
  <1>6. /\ disk'[Row(r, k)] = v /\ \A g \in Files \ {Row(r, k)} : disk'[g] = disk[g]
        /\ \A g \in Files \ RowFiles(r) : stable'[g] = stable[g]
    BY <1>1, DurableEffect
  <1>7. /\ disk'[Grid(r)] = disk[Grid(r)] /\ disk'[Identity(r)] = disk[Identity(r)]
        /\ disk'[Checkpoint(r)] = disk[Checkpoint(r)]
        /\ disk'[Results(r)] = disk[Results(r)] /\ disk'[Csv(r)] = disk[Csv(r)]
        /\ stable'[Results(r)] = stable[Results(r)] /\ stable'[Csv(r)] = stable[Csv(r)]
    BY <1>1, <1>6
  <1>8. \A j \in Keys \ {k} : disk'[Row(r, j)] = disk[Row(r, j)]
    BY <1>6, RowFilesDiffer, RunNames
  <1>9. RowsOf(r)' = RowsOf(r) \union {k} /\ k \notin RowsOf(r)
    <2>1. v # Absent
      BY MissingIsNoValue
    <2> QED BY <1>6, <1>8, <2>1 DEF RowsOf, Exists
  <1>10. /\ disk[Results(r)] = Absent /\ stable[Results(r)] = Absent
         /\ disk[Csv(r)] = Absent /\ stable[Csv(r)] = Absent
    BY <1>3, <1>9 DEF ResultsInv
  <1>11. ResultsInv(r)' /\ ~Published(r)
    BY <1>7, <1>10 DEF ResultsInv, Published
  <1>12. Cardinality(RowsOf(r)) <= Cardinality(RowsOf(r)')
    <2>1. IsFiniteSet(RowsOf(r)')
      BY <1>9, Setting, FS_Subset DEF RowsOf
    <2> QED BY <1>9, <2>1, FS_Subset
  <1>13. CheckpointInv(r)'
    <2> DEFINE c == disk[Checkpoint(r)]
    <2>1. /\ disk[Identity(r)] \in Envs
          /\ c.grid = disk[Grid(r)] /\ c.identity = disk[Identity(r)]
          /\ c.count <= Cardinality(RowsOf(r)) /\ c.state = "running"
      BY <1>3, <1>9 DEF CheckpointInv
    <2>2. c.count \in Nat
      <3>1. c \in CheckpointValues
        BY DEF TypeOK, FilesOK, Exists
      <3> QED BY <3>1 DEF CheckpointValues
    <2>3. Cardinality(RowsOf(r)) \in Nat /\ Cardinality(RowsOf(r)') \in Nat
      <3>1. IsFiniteSet(RowsOf(r)) /\ IsFiniteSet(RowsOf(r)')
        BY <1>9, Setting, FS_Subset DEF RowsOf
      <3> QED BY <3>1, FS_CardinalityType
    <2>4. c.count <= Cardinality(RowsOf(r)')
      BY <1>12, <2>1, <2>2, <2>3
    <2>5. ASSUME NEW j \in RowsOf(r)'
          PROVE  disk'[Row(r, j)].start = disk[Identity(r)] /\ disk'[Row(r, j)].interval \in DOMAIN c.ivs
      <3>1. CASE j = k
        BY <1>6, <3>1
      <3>2. CASE j # k
        BY <1>3, <1>8, <1>9, <2>5, <3>2 DEF CheckpointInv, RowsOf
      <3> QED BY <3>1, <3>2
    <2>6. c' = c /\ c # Absent
      BY <1>7 DEF Exists
    <2> HIDE DEF c
    <2>7. c = disk[Checkpoint(r)] /\ c = disk'[Checkpoint(r)]
      BY <2>6 DEF c
    <2> QED BY <1>7, <2>1, <2>4, <2>5, <2>6, <2>7 DEF CheckpointInv, Exists
  <1> QED BY <1>5, <1>6, <1>7, <1>8, <1>9, <1>11, <1>13

LEMMA WriteRowStep ==
  ASSUME IInv, NEW p \in Procs, WriteRow(p)
  PROVE  IInv'
  <1> USE DEF IInv
  <1> SUFFICES ASSUME NEW r, r = proc[p].run, NEW k, k = proc[p].key PROVE IInv'
    OBVIOUS
  <1> DEFINE v == [interval |-> Len(proc[p].ivs), active |-> proc[p].clock, start |-> proc[p].start]
  <1>1. /\ proc[p].pc = "row" /\ DurableWrite(Row(r, k), v)
        /\ proc' = [proc EXCEPT ![p].rows = @ \union {k}, ![p].pc = "progress"]
        /\ UNCHANGED <<lock, env, stops, changes>>
    BY DEF WriteRow, At, Run
  <1>2. r \in Runs /\ proc[p].start \in Envs /\ WorkingInv(p, r)
    BY <1>1 DEF ProcInv, Working
  <1>3. /\ k \in Keys /\ ~Exists(Row(r, k)) /\ Exists(Checkpoint(r))
        /\ proc[p].start = disk[Identity(r)]
        /\ disk[Checkpoint(r)].state # "complete"
        /\ proc[p].ivs # <<>> /\ Len(disk[Checkpoint(r)].ivs) = Len(proc[p].ivs)
    BY <1>1, <1>2 DEF WorkingInv
  <1>4. proc[p].ivs \in Seq(Intervals) /\ disk[Checkpoint(r)].ivs \in Seq(Intervals)
        /\ proc[p].clock \in Nat
    <2>1. proc[p] \in ProcStates /\ disk[Checkpoint(r)] \in CheckpointValues
      BY <1>2, <1>3, TypeOfProc DEF Exists, TypeOK, FilesOK
    <2> QED BY <2>1 DEF ProcStates, CheckpointValues
  <1>5. /\ Len(proc[p].ivs) \in Nat
        /\ Len(proc[p].ivs) \in DOMAIN proc[p].ivs /\ Len(proc[p].ivs) \in DOMAIN disk[Checkpoint(r)].ivs
    BY <1>3, <1>4, SequenceEnds
  <1>6. v \in RowValues /\ v.start = disk[Identity(r)] /\ v.interval = Len(proc[p].ivs)
    BY <1>2, <1>3, <1>4, <1>5 DEF RowValues
  <1> HIDE DEF v
  <1>7. /\ FilesOK(disk)' /\ FilesOK(stable)'
        /\ FolderInv(r)' /\ CheckpointInv(r)' /\ ResultsInv(r)'
        /\ \A g \in Files \ (RunFiles(r) \union RowFiles(r) \union {Folder(r)}) :
               disk'[g] = disk[g] /\ stable'[g] = stable[g]
        /\ ~Published(r) /\ disk'[Checkpoint(r)] = disk[Checkpoint(r)]
        /\ disk'[Identity(r)] = disk[Identity(r)]
        /\ disk'[Row(r, k)] = v /\ \A j \in Keys \ {k} : disk'[Row(r, j)] = disk[Row(r, j)]
        /\ RowsOf(r)' = RowsOf(r) \union {k}
    BY <1>1, <1>2, <1>3, <1>5, <1>6, RowFilesWritten
  <1>8. proc[p] \in ProcStates /\ proc'[p] = [proc[p] EXCEPT !.rows = @ \union {k}, !.pc = "progress"]
    BY <1>1, TypeOfProc
  <1>9. \A q \in Procs \ {p} : proc'[q] = proc[q]
    BY <1>1, TypeOfProc
  <1>10. proc'[p] \in ProcStates
    <2>1. proc[p].rows \union {k} \in SUBSET Keys
      BY <1>3, <1>8 DEF ProcStates
    <2> QED BY <1>8, <2>1 DEF ProcStates, Steps
  <1>11. proc' \in [Procs -> ProcStates]
    BY <1>1, <1>9, <1>10, TypeOfProc
  <1>12. /\ proc'[p].pc = "progress" /\ proc'[p].run = r /\ proc'[p].ivs = proc[p].ivs
         /\ proc'[p].start = proc[p].start /\ proc'[p].stored = proc[p].stored
         /\ proc'[p].rows = proc[p].rows \union {k}
    BY <1>8 DEF ProcStates
  <1>13. WorkingInv(p, r)'
    <2>1. ASSUME NEW j \in RowsOf(r)' PROVE disk'[Row(r, j)].interval \in DOMAIN proc[p].ivs
      <3>1. CASE j = k
        BY <1>5, <1>6, <1>7, <3>1
      <3>2. CASE j # k
        BY <1>2, <1>7, <2>1, <3>2 DEF WorkingInv, RowsOf
      <3> QED BY <3>1, <3>2
    <2>2. proc[p].rows \union {k} \subseteq RowsOf(r)'
      BY <1>2, <1>7 DEF WorkingInv
    <2>3. Exists(Checkpoint(r))' /\ disk'[Checkpoint(r)].state # "complete"
          /\ Len(disk'[Checkpoint(r)].ivs) = Len(proc[p].ivs)
      BY <1>3, <1>7 DEF Exists
    <2> QED BY <1>2, <1>3, <1>7, <1>12, <2>1, <2>2, <2>3 DEF WorkingInv, Publishing, Pointing
  <1>14. ProcInv(p)'
    BY <1>2, <1>12, <1>13 DEF ProcInv, Creating, Working, Publishing, Pointing
  <1>15. ~IsComplete(r)'
    BY <1>3, <1>7 DEF IsComplete
  <1> QED BY <1>1, <1>2, <1>7, <1>9, <1>11, <1>14, <1>15, RunStep

-----------------------------------------------------------------------------
(* Publishing.                                                             *)

\* What the run's invocation knows while it publishes.
LEMMA PublishingFacts ==
  ASSUME IInv, NEW p \in Procs, NEW r, r = proc[p].run, proc[p].pc \in Publishing
  PROVE  /\ r \in Runs /\ proc[p].pc \notin {"idle", "lock"} /\ proc[p].pc \in Working
         /\ WorkingInv(p, r) /\ PublishingInv(p, r) /\ proc[p].start \in Envs
         /\ FolderInv(r) /\ CheckpointInv(r) /\ ResultsInv(r)
         /\ Exists(Checkpoint(r)) /\ ~IsComplete(r) /\ Made(r) /\ disk[Folder(r)] = "made"
         /\ RowsOf(r) = Keys
         /\ proc[p].doc \in Docs /\ proc[p].doc # Absent
         /\ proc[p].doc.rows \in Tables /\ proc[p].doc.rows # Absent
  <1> USE DEF IInv
  <1>1. proc[p].pc \notin {"idle", "lock"} /\ proc[p].pc \in Working
    BY DEF Publishing, Pointing, Working
  <1>2. /\ r \in Runs /\ WorkingInv(p, r) /\ PublishingInv(p, r) /\ proc[p].start \in Envs
    BY <1>1 DEF ProcInv
  <1>3. FolderInv(r) /\ CheckpointInv(r) /\ ResultsInv(r)
    BY <1>2 DEF RunInv
  <1>4. Exists(Checkpoint(r)) /\ ~IsComplete(r)
    BY <1>2 DEF WorkingInv, IsComplete
  <1>5. Made(r) /\ disk[Folder(r)] = "made"
    <2>1. Checkpoint(r) \in RunFiles(r)
      BY RunFilesDiffer
    <2> QED BY <1>3, <1>4, <2>1 DEF FolderInv, Exists
  <1>6. RowsOf(r) = Keys
    BY <1>2 DEF WorkingInv, RowsOf
  <1>7. /\ proc[p].doc \in Docs /\ proc[p].doc # Absent
        /\ proc[p].doc.rows \in Tables /\ proc[p].doc.rows # Absent
    BY <1>2, MissingIsNoValue DEF PublishingInv, Docs
  <1> QED BY <1>1, <1>2, <1>3, <1>4, <1>5, <1>6, <1>7

\* Writing the results or the table, not yet synced.
LEMMA OutputFiles ==
  ASSUME IInv, NEW p \in Procs, NEW r, r = proc[p].run, proc[p].pc \in Publishing, NEW f, NEW v,
         \/ f = Results(r) /\ v = proc[p].doc
         \/ f = Csv(r) /\ v = proc[p].doc.rows,
         Replace(f, v)
  PROVE  /\ FilesOK(disk)' /\ FilesOK(stable)'
         /\ FolderInv(r)' /\ CheckpointInv(r)' /\ ResultsInv(r)'
         /\ \A g \in Files \ (RunFiles(r) \union RowFiles(r) \union {Folder(r)}) :
                disk'[g] = disk[g] /\ stable'[g] = stable[g]
         /\ Published(r) => Published(r)'
         /\ disk'[f] = v /\ (f = Csv(r) => disk'[Results(r)] = disk[Results(r)])
         /\ disk'[Checkpoint(r)] = disk[Checkpoint(r)] /\ disk'[Identity(r)] = disk[Identity(r)]
         /\ RowsOf(r)' = RowsOf(r) /\ Table(r)' = Table(r)
         /\ \A k \in Keys : disk'[Row(r, k)] = disk[Row(r, k)]
  <1>1. /\ r \in Runs /\ PublishingInv(p, r)
        /\ FolderInv(r) /\ CheckpointInv(r) /\ ResultsInv(r)
        /\ Exists(Checkpoint(r)) /\ ~IsComplete(r) /\ Made(r) /\ disk[Folder(r)] = "made"
        /\ RowsOf(r) = Keys
        /\ proc[p].doc \in Docs /\ proc[p].doc # Absent
        /\ proc[p].doc.rows \in Tables /\ proc[p].doc.rows # Absent
    BY PublishingFacts
  <1>2. f \in RunFiles(r) /\ f \in Files /\ Fits(f, v)
    BY <1>1, AllFiles, RunFilesDiffer DEF Fits
  <1>3. /\ DOMAIN disk' = Files /\ stable' = stable
        /\ disk'[f] = v /\ \A g \in Files \ {f} : disk'[g] = disk[g]
    BY <1>2, ReplaceEffect
  <1>4. FilesOK(disk)' /\ FilesOK(stable)'
    <2>1. FilesOK(disk) /\ FilesOK(stable)
      BY DEF IInv, TypeOK
    <2>2. FilesOK(disk)'
      BY <1>2, <1>3, <2>1, WrittenFiles
    <2> QED BY <1>3, <2>1, <2>2
  <1>5. /\ disk'[Grid(r)] = disk[Grid(r)] /\ disk'[Identity(r)] = disk[Identity(r)]
        /\ disk'[Checkpoint(r)] = disk[Checkpoint(r)]
        /\ disk'[Folder(r)] = disk[Folder(r)]
        /\ f = Csv(r) => disk'[Results(r)] = disk[Results(r)]
        /\ f = Results(r) => disk'[Csv(r)] = disk[Csv(r)]
    BY <1>1, <1>2, <1>3, AllFiles, RunFilesDiffer
  <1>6. \A k \in Keys : disk'[Row(r, k)] = disk[Row(r, k)]
    <2> TAKE k \in Keys
    <2>1. Row(r, k) \in Files /\ Row(r, k) # f
      BY <1>1, RowFilesOnly
    <2> QED BY <1>3, <2>1
  <1>7. RowsOf(r)' = RowsOf(r) /\ Table(r)' = Table(r)
    BY <1>6 DEF RowsOf, Exists, Table
  <1>8. FolderInv(r)'
    <2>1. \A g \in Kept(r) : g \in Files /\ g # f
      BY <1>1, RunNames, RunFilesDiffer, RowFilesDiffer DEF Kept
    <2> QED BY <1>1, <1>3, <1>5, <2>1 DEF FolderInv, Made, Kept
  <1>9. CheckpointInv(r)'
    <2>1. disk[Checkpoint(r)].state # "complete"
      BY <1>1 DEF IsComplete
    <2> QED BY <1>1, <1>5, <1>6, <1>7, <2>1 DEF CheckpointInv, Exists, RowsOf
  <1>10. /\ \A d \in {disk', stable'} : /\ d[Results(r)] # Absent =>
                                               d[Results(r)].rows = Table(r)
                                               /\ (d[Results(r)].evidence => disk[Identity(r)] \in Clean)
                                        /\ d[Csv(r)] # Absent => d[Csv(r)] = Table(r)
    BY <1>1, <1>3, <1>5 DEF ResultsInv, PublishingInv
  <1>11. ResultsInv(r)'
    BY <1>1, <1>5, <1>7, <1>10 DEF ResultsInv, Exists
  <1>12. Published(r) => Published(r)'
    BY <1>1, <1>3, <1>5 DEF Published
  <1>13. \A g \in Files \ (RunFiles(r) \union RowFiles(r) \union {Folder(r)}) :
             disk'[g] = disk[g] /\ stable'[g] = stable[g]
    BY <1>2, <1>3
  <1> QED BY <1>3, <1>4, <1>5, <1>6, <1>7, <1>8, <1>9, <1>11, <1>12, <1>13

LEMMA OutputSteps ==
  ASSUME IInv, NEW p \in Procs, WriteResults(p) \/ WriteCsv(p)
  PROVE  IInv'
  <1> SUFFICES ASSUME NEW r, r = proc[p].run, NEW f, NEW v, NEW label,
                      \/ /\ proc[p].pc = "results" /\ f = Results(r) /\ v = proc[p].doc /\ label = "csv"
                      \/ /\ proc[p].pc = "csv" /\ f = Csv(r) /\ v = proc[p].doc.rows /\ label = "sync",
                      Replace(f, v), proc' = [proc EXCEPT ![p].pc = label],
                      UNCHANGED <<lock, env, stops, changes>>
               PROVE  IInv'
    BY DEF WriteResults, WriteCsv, At, Run, Goto
  <1>1. proc[p].pc \in Publishing /\ proc[p].pc \notin Pointing /\ label \in Steps
    BY DEF Publishing, Pointing, Steps
  <1>2. /\ r \in Runs /\ proc[p].pc \notin {"idle", "lock"} /\ proc[p].pc \in Working
        /\ WorkingInv(p, r) /\ PublishingInv(p, r) /\ proc[p].start \in Envs
        /\ Exists(Checkpoint(r)) /\ ~IsComplete(r)
    BY <1>1, PublishingFacts
  <1>3. /\ FilesOK(disk)' /\ FilesOK(stable)'
        /\ FolderInv(r)' /\ CheckpointInv(r)' /\ ResultsInv(r)'
        /\ \A g \in Files \ (RunFiles(r) \union RowFiles(r) \union {Folder(r)}) :
               disk'[g] = disk[g] /\ stable'[g] = stable[g]
        /\ Published(r) => Published(r)'
        /\ disk'[f] = v /\ (f = Csv(r) => disk'[Results(r)] = disk[Results(r)])
        /\ disk'[Checkpoint(r)] = disk[Checkpoint(r)] /\ disk'[Identity(r)] = disk[Identity(r)]
        /\ RowsOf(r)' = RowsOf(r) /\ Table(r)' = Table(r)
        /\ \A k \in Keys : disk'[Row(r, k)] = disk[Row(r, k)]
    BY <1>1, OutputFiles
  <1>4. /\ proc' \in [Procs -> ProcStates]
        /\ \A q \in Procs \ {p} : proc'[q] = proc[q]
        /\ proc'[p].pc = label /\ proc'[p].run = r
        /\ proc'[p].start = proc[p].start /\ proc'[p].stored = proc[p].stored
        /\ proc'[p].rows = proc[p].rows /\ proc'[p].ivs = proc[p].ivs
        /\ proc'[p].doc = proc[p].doc
    BY <1>1, GotoEffect DEF IInv
  <1>5. WorkingInv(p, r)'
    <2>1. proc[p].rows = Keys
      BY <1>1, <1>2 DEF WorkingInv
    <2> QED BY <1>1, <1>2, <1>3, <1>4, <2>1 DEF WorkingInv, Publishing, Pointing, Exists, RowsOf
  <1>6. PublishingInv(p, r)'
    <2>1. label \in {"csv", "sync"}
      OBVIOUS
    <2>2. proc[p].pc = "csv" => disk[Results(r)] = proc[p].doc
      BY <1>2 DEF PublishingInv
    <2>3. disk'[Results(r)] = proc[p].doc /\ (label = "sync" => disk'[Csv(r)] = proc[p].doc.rows)
      BY <1>3, <2>2
    <2> QED BY <1>2, <1>3, <1>4, <2>1, <2>3 DEF PublishingInv, Pointing
  <1>7. ProcInv(p)'
    BY <1>2, <1>4, <1>5, <1>6 DEF ProcInv, Creating, Working, Publishing, Pointing
  <1>8. ~IsComplete(r)'
    BY <1>2, <1>3 DEF IsComplete, Exists
  <1> QED BY <1>2, <1>3, <1>4, <1>7, <1>8, RunStep

LEMMA SyncRunStep ==
  ASSUME IInv, NEW p \in Procs, SyncRun(p)
  PROVE  IInv'
  <1> SUFFICES ASSUME NEW r, r = proc[p].run PROVE IInv'
    OBVIOUS
  <1>1. /\ proc[p].pc = "sync" /\ proc' = [proc EXCEPT ![p].pc = "txt"]
        /\ stable' = Synced(Results(r), disk)
        /\ UNCHANGED <<disk, lock, env, stops, changes>>
    BY DEF SyncRun, At, Run, Goto
  <1>2. /\ r \in Runs /\ proc[p].pc \notin {"idle", "lock"} /\ proc[p].pc \in Working
        /\ WorkingInv(p, r) /\ PublishingInv(p, r) /\ proc[p].start \in Envs
        /\ FolderInv(r) /\ CheckpointInv(r) /\ ResultsInv(r)
        /\ Exists(Checkpoint(r)) /\ ~IsComplete(r) /\ Made(r) /\ disk[Folder(r)] = "made"
        /\ proc[p].doc # Absent /\ proc[p].doc.rows # Absent
    BY <1>1, PublishingFacts DEF Publishing
  <1>3. /\ DOMAIN stable' = Files
        /\ \A g \in RunFiles(r) \union {Folder(r)} : stable'[g] = disk[g]
        /\ \A g \in Files \ (RunFiles(r) \union {Folder(r)}) : stable'[g] = stable[g]
        /\ \A g \in Files : stable'[g] = stable[g] \/ stable'[g] = disk[g]
    <2>1. Siblings(Results(r)) = RunFiles(r) \union {Folder(r)}
      BY <1>2, SiblingsOf, RunFilesDiffer DEF IInv
    <2>2. RunFiles(r) \union {Folder(r)} \subseteq Files
      BY <1>2, RunNames
    <2> QED BY <1>1, <2>1, <2>2 DEF Synced
  <1>4. FilesOK(disk)' /\ FilesOK(stable)'
    <2>1. FilesOK(disk) /\ FilesOK(stable)
      BY DEF IInv, TypeOK
    <2>2. FilesOK(stable)'
      BY <1>3, <2>1, MixedFiles
    <2> QED BY <1>1, <2>1, <2>2
  <1>5. /\ stable'[Results(r)] = disk[Results(r)] /\ stable'[Csv(r)] = disk[Csv(r)]
        /\ stable'[Folder(r)] = "made"
    BY <1>2, <1>3, RunFilesDiffer
  <1>6. FolderInv(r)'
    <2>1. \A g \in Kept(r) : stable'[g] = disk[g]
      <3>1. \A g \in Kept(r) : g \in RunFiles(r) \/ (g \in Files /\ g \in RowFiles(r))
        BY <1>2, RunNames, RunFilesDiffer DEF Kept
      <3>2. \A g \in RowFiles(r) : g \notin RunFiles(r) \union {Folder(r)}
        BY RunFilesDiffer, RowFilesDiffer
      <3> QED BY <1>2, <1>3, <3>1, <3>2 DEF FolderInv
    <2> QED BY <1>1, <1>2, <1>5, <2>1 DEF FolderInv, Made, Kept
  <1>7. CheckpointInv(r)' /\ RowsOf(r)' = RowsOf(r) /\ Table(r)' = Table(r)
    BY <1>1, <1>2, <1>5 DEF CheckpointInv, RowsOf, Exists, Table
  <1>8. ResultsInv(r)'
    BY <1>1, <1>2, <1>5, <1>7 DEF ResultsInv, Exists
  <1>9. disk[Results(r)] = proc[p].doc /\ disk[Csv(r)] = proc[p].doc.rows
    BY <1>1, <1>2 DEF PublishingInv, Pointing
  <1>10. Published(r)'
    BY <1>1, <1>2, <1>5, <1>9 DEF Published
  <1>11. /\ proc' \in [Procs -> ProcStates]
         /\ \A q \in Procs \ {p} : proc'[q] = proc[q]
         /\ proc'[p].pc = "txt" /\ proc'[p].run = r
         /\ proc'[p].start = proc[p].start /\ proc'[p].stored = proc[p].stored
         /\ proc'[p].rows = proc[p].rows /\ proc'[p].ivs = proc[p].ivs
         /\ proc'[p].doc = proc[p].doc
    <2>1. "txt" \in Steps
      BY DEF Steps
    <2> QED BY <1>1, <2>1, GotoEffect DEF IInv
  <1>12. WorkingInv(p, r)'
    BY <1>1, <1>2, <1>7, <1>11 DEF WorkingInv, Publishing, Pointing, Exists, RowsOf
  <1>13. PublishingInv(p, r)'
    BY <1>1, <1>2, <1>5, <1>7, <1>9, <1>11 DEF PublishingInv, Pointing
  <1>14. ProcInv(p)'
    BY <1>2, <1>11, <1>12, <1>13 DEF ProcInv, Creating, Working, Publishing, Pointing
  <1>15. ~IsComplete(r)'
    BY <1>1, <1>2 DEF IsComplete, Exists
  <1>16. \A g \in Files \ (RunFiles(r) \union RowFiles(r) \union {Folder(r)}) :
             disk'[g] = disk[g] /\ stable'[g] = stable[g]
    BY <1>1, <1>3
  <1> QED BY <1>1, <1>2, <1>4, <1>6, <1>7, <1>8, <1>10, <1>11, <1>14, <1>15, <1>16, RunStep

LEMMA MakeFolderStep ==
  ASSUME IInv, NEW p \in Procs, MakeFolder(p)
  PROVE  IInv'
  <1>1. PICK r \in Runs :
            /\ ~Exists(Folder(r)) /\ Replace(Folder(r), "made")
            /\ proc' = [proc EXCEPT ![p].run = r, ![p].stored = proc[p].start, ![p].pc = "grid"]
    BY DEF MakeFolder
  <1>2. proc[p].pc = "make" /\ UNCHANGED <<lock, env, stops, changes>>
    BY DEF MakeFolder, At
  <1>3. FolderInv(r) /\ CheckpointInv(r) /\ ResultsInv(r)
    BY DEF IInv, RunInv
  <1>4. \A f \in RunFiles(r) \union RowFiles(r) : disk[f] = Absent /\ stable[f] = Absent
    BY <1>1, <1>3, MissingIsNoValue DEF FolderInv, Exists
  <1>5. /\ DOMAIN disk' = Files /\ stable' = stable /\ disk'[Folder(r)] = "made"
        /\ \A g \in Files \ {Folder(r)} : disk'[g] = disk[g]
    BY <1>1, AllFiles, ReplaceEffect
  <1>6. \A f \in RunFiles(r) \union RowFiles(r) : disk'[f] = Absent /\ stable'[f] = Absent
    BY <1>4, <1>5, RunNames, RunFilesDiffer, RowFilesDiffer
  <1>7. FilesOK(disk)' /\ FilesOK(stable)'
    <2>1. FilesOK(disk) /\ FilesOK(stable)
      BY DEF IInv, TypeOK
    <2>2. Fits(Folder(r), disk'[Folder(r)])
      BY <1>5 DEF Fits
    <2>3. FilesOK(disk)'
      BY <1>5, <2>1, <2>2, AllFiles, WrittenFiles
    <2> QED BY <1>5, <2>1, <2>3
  <1>8. FolderInv(r)'
    <2>1. Kept(r) \subseteq RunFiles(r) \union RowFiles(r)
      BY RunFilesDiffer DEF Kept
    <2> QED BY <1>5, <1>6, <2>1 DEF FolderInv, Made, Kept
  <1>9. /\ disk'[Checkpoint(r)] = Absent
        /\ disk'[Results(r)] = Absent /\ stable'[Results(r)] = Absent
        /\ disk'[Csv(r)] = Absent /\ stable'[Csv(r)] = Absent
        /\ disk[Results(r)] = Absent /\ stable'[Checkpoint(r)] = Absent
        /\ \A k \in Keys : disk'[Row(r, k)] = Absent
    BY <1>4, <1>6, RunNames, RunFilesDiffer
  <1>10. CheckpointInv(r)' /\ ResultsInv(r)' /\ ~Published(r) /\ ~IsComplete(r)'
    BY <1>9 DEF CheckpointInv, ResultsInv, Published, IsComplete, RowsOf, Exists
  <1>11. proc[p] \in ProcStates /\ proc[p].start \in Envs /\ proc[p].rows = {}
    BY <1>2, TypeOfProc DEF IInv, ProcInv, Working, Publishing, Pointing
  <1>12. proc'[p] = [proc[p] EXCEPT !.run = r, !.stored = proc[p].start, !.pc = "grid"]
    BY <1>1, <1>11, TypeOfProc DEF IInv
  <1>13. \A q \in Procs \ {p} : proc'[q] = proc[q]
    BY <1>1, TypeOfProc DEF IInv
  <1>14. proc'[p] \in ProcStates
    <2>1. "grid" \in Steps
      BY DEF Steps
    <2>2. [proc[p] EXCEPT !.run = r, !.stored = proc[p].start, !.pc = "grid"] \in ProcStates
      BY <1>11, <2>1 DEF ProcStates
    <2> QED BY <1>12, <2>2
  <1>15. proc' \in [Procs -> ProcStates]
    BY <1>1, <1>13, <1>14, TypeOfProc DEF IInv
  <1>16. /\ proc'[p].pc = "grid" /\ proc'[p].run = r /\ proc'[p].stored = proc[p].start
         /\ proc'[p].start = proc[p].start /\ proc'[p].rows = {}
    BY <1>11, <1>12 DEF ProcStates
  <1>17. CreatingInv(p, r)'
    <2>1. \A f \in {Checkpoint(r), Results(r), Csv(r)} \union RowFiles(r) :
              disk'[f] = Absent /\ stable'[f] = Absent
      BY <1>6, RunFilesDiffer
    <2> QED BY <1>5, <1>16, <2>1 DEF CreatingInv
  <1>18. ProcInv(p)'
    BY <1>11, <1>16, <1>17 DEF ProcInv, Creating, Working, Publishing, Pointing
  <1>19. \A g \in Files \ (RunFiles(r) \union RowFiles(r) \union {Folder(r)}) :
             disk'[g] = disk[g] /\ stable'[g] = stable[g]
    BY <1>5
  <1> QED BY <1>2, <1>7, <1>8, <1>10, <1>13, <1>15, <1>18, <1>19, RunStep

\* The pointers: nothing of a run changes, except that its name is kept.
LEMMA PointerStep ==
  ASSUME IInv, UNCHANGED <<lock, env, stops, changes>>, NEW p \in Procs, NEW r, r = proc[p].run,
         proc[p].pc \in {"txt", "json", "root"}, NEW label \in {"json", "root", "complete"},
         proc' = [proc EXCEPT ![p].pc = label],
         DOMAIN disk' = Files, DOMAIN stable' = Files,
         \A g \in Files \ Latest : disk'[g] = disk[g],
         \A g \in Files \ (Latest \union Folders) : stable'[g] = stable[g],
         \A g \in Files : stable'[g] = stable[g] \/ stable'[g] = disk'[g],
         \A g \in Latest : disk'[g] \in {disk[g], r} /\ stable'[g] \in {stable[g], disk[g]},
         disk'[LatestJson] # disk[LatestJson] => stable' = stable,
         label \in {"root", "complete"} => disk'[LatestJson] = r,
         label = "complete" => stable'[LatestJson] = r
  PROVE  IInv'
  <1>1. /\ r \in Runs /\ proc[p].pc \notin {"idle", "lock"} /\ proc[p].pc \in Working
        /\ WorkingInv(p, r) /\ PublishingInv(p, r) /\ proc[p].start \in Envs
        /\ ~IsComplete(r) /\ proc[p].doc # Absent /\ proc[p].doc.rows # Absent
        /\ proc[p].pc \in Pointing
    <2>1. proc[p].pc \in Publishing /\ proc[p].pc \in Pointing
      BY DEF Publishing, Pointing
    <2> QED BY <2>1, PublishingFacts
  <1>2. ASSUME NEW s \in Runs
        PROVE  /\ \A f \in RunFiles(s) \union RowFiles(s) : disk'[f] = disk[f] /\ stable'[f] = stable[f]
               /\ disk'[Folder(s)] = disk[Folder(s)]
               /\ stable'[Folder(s)] \in {stable[Folder(s)], disk[Folder(s)]}
    <2>1. ASSUME NEW f \in RunFiles(s) \union RowFiles(s) PROVE f \in Files \ (Latest \union Folders)
      <3>1. f \in Files /\ f \notin Latest
        BY RunNames, LatestDiffer
      <3>2. \A t \in Runs : Folder(t) # f
        BY RunFilesDiffer, RowFilesDiffer, Lengths
      <3> QED BY <3>1, <3>2 DEF Folders
    <2>2. Folder(s) \in Files \ Latest
      BY AllFiles, LatestDiffer
    <2> QED BY <2>1, <2>2
  <1>3. FilesOK(disk)' /\ FilesOK(stable)'
    <2>1. FilesOK(disk) /\ FilesOK(stable)
      BY DEF IInv, TypeOK
    <2>2. ASSUME NEW s \in Runs
          PROVE  /\ disk'[Grid(s)] = disk[Grid(s)] /\ disk'[Identity(s)] = disk[Identity(s)]
                 /\ disk'[Checkpoint(s)] = disk[Checkpoint(s)] /\ disk'[Results(s)] = disk[Results(s)]
                 /\ disk'[Csv(s)] = disk[Csv(s)] /\ disk'[Folder(s)] = disk[Folder(s)]
                 /\ \A k \in Keys : disk'[Row(s, k)] = disk[Row(s, k)]
      BY <1>2, RunNames, RunFilesDiffer
    <2>3. \A f \in Latest : disk'[f] \in Runs \union {Absent}
      BY <1>1, <2>1 DEF FilesOK
    <2>4. FilesOK(disk)'
      BY <2>1, <2>2, <2>3 DEF FilesOK
    <2>5. FilesOK(stable)'
      BY <2>1, <2>4, MixedFiles
    <2> QED BY <2>4, <2>5
  <1>4. /\ proc' \in [Procs -> ProcStates]
        /\ \A q \in Procs \ {p} : proc'[q] = proc[q]
        /\ proc'[p].pc = label /\ proc'[p].run = r
        /\ proc'[p].start = proc[p].start /\ proc'[p].stored = proc[p].stored
        /\ proc'[p].rows = proc[p].rows /\ proc'[p].ivs = proc[p].ivs
        /\ proc'[p].doc = proc[p].doc
    <2>1. label \in Steps
      BY DEF Steps
    <2> QED BY <2>1, GotoEffect DEF IInv
  <1>5. TypeOK'
    BY <1>3, <1>4, TypeOfProc DEF TypeOK, ProcStates, IInv
  <1>6. lock = p /\ LockInv'
    BY <1>1, <1>4 DEF LockInv, IInv
  <1>7. ASSUME NEW s \in Runs
        PROVE  /\ FolderInv(s)' /\ CheckpointInv(s)' /\ ResultsInv(s)'
               /\ RowsOf(s)' = RowsOf(s) /\ Table(s)' = Table(s)
               /\ Published(s)' = Published(s) /\ IsComplete(s)' = IsComplete(s)
    <2>1. FolderInv(s) /\ CheckpointInv(s) /\ ResultsInv(s)
      BY DEF RunInv, IInv
    <2>2. /\ disk'[Grid(s)] = disk[Grid(s)] /\ disk'[Identity(s)] = disk[Identity(s)]
          /\ disk'[Checkpoint(s)] = disk[Checkpoint(s)]
          /\ disk'[Results(s)] = disk[Results(s)] /\ stable'[Results(s)] = stable[Results(s)]
          /\ disk'[Csv(s)] = disk[Csv(s)] /\ stable'[Csv(s)] = stable[Csv(s)]
          /\ \A k \in Keys : disk'[Row(s, k)] = disk[Row(s, k)]
      BY <1>2, RunNames, RunFilesDiffer
    <2>3. RowsOf(s)' = RowsOf(s) /\ Table(s)' = Table(s)
      BY <2>2 DEF RowsOf, Exists, Table
    <2>4. FolderInv(s)'
      <3>1. Kept(s) \subseteq RunFiles(s) \union RowFiles(s)
        BY RunFilesDiffer DEF Kept
      <3>2. Made(s) => Made(s)' /\ (Made(s)' => disk[Folder(s)] = "made")
        BY <1>2, <2>1 DEF Made, FolderInv
      <3>3. Made(s)' => disk'[Folder(s)] = "made"
        BY <1>2, <2>1 DEF Made, FolderInv
      <3> QED BY <1>2, <2>1, <3>1, <3>2, <3>3 DEF FolderInv, Kept
    <2>5. CheckpointInv(s)'
      BY <2>1, <2>2, <2>3 DEF CheckpointInv, Exists, RowsOf
    <2>6. ResultsInv(s)'
      BY <2>1, <2>2, <2>3 DEF ResultsInv, Exists
    <2>7. Published(s)' = Published(s) /\ IsComplete(s)' = IsComplete(s)
      BY <2>2 DEF Published, IsComplete, Exists
    <2> QED BY <2>3, <2>4, <2>5, <2>6, <2>7
  <1>8. RunInv'
    BY <1>7 DEF RunInv
  <1>9. Published(r)
    BY <1>1 DEF Published, PublishingInv, Publishing, Pointing
  <1>10. LatestInv'
    <2>1. ASSUME NEW f \in Latest, NEW d, d \in {disk', stable'}, d[f] # Absent
          PROVE  Published(d[f])'
      <3>1. d[f] \in {disk[f], stable[f], r}
        BY <2>1
      <3>2. d[f] \in Runs
        BY <1>3, <2>1 DEF FilesOK
      <3>3. Published(d[f])
        BY <1>9, <2>1, <3>1 DEF LatestInv, IInv
      <3> QED BY <1>7, <3>2, <3>3
    <2>2. ASSUME NEW s, s = disk'[LatestJson], s # stable'[LatestJson]
          PROVE  s # Absent /\ ~IsComplete(s)'
      <3>1. LatestJson \in Latest
        BY DEF Latest
      <3>2. s \in {disk[LatestJson], r}
        BY <2>2, <3>1
      <3>3. CASE s = r
        <4>1. r # Absent
          BY <1>1, Setting
        <4> QED BY <1>1, <1>7, <3>3, <4>1
      <3>4. CASE s = disk[LatestJson]
        <4>1. stable'[LatestJson] \in {stable[LatestJson], disk[LatestJson]}
          BY <3>1
        <4>2. s # stable[LatestJson]
          BY <2>2, <3>4, <4>1
        <4>3. s # Absent /\ ~IsComplete(s)
          BY <3>4, <4>2 DEF LatestInv, IInv
        <4>4. s \in Runs
          BY <3>1, <3>4, <4>3 DEF IInv, TypeOK, FilesOK
        <4> QED BY <1>7, <4>3, <4>4
      <3> QED BY <3>2, <3>3, <3>4
    <2> QED BY <2>1, <2>2 DEF LatestInv
  <1>11. ASSUME NEW q \in Procs \ {p} PROVE ProcInv(q)'
    <2>1. proc'[q] = proc[q] /\ proc[q].pc \in {"idle", "lock"} /\ ProcInv(q)
      BY <1>4, <1>6 DEF LockInv, IInv
    <2> QED BY <2>1 DEF ProcInv, Creating, Working, Publishing, Pointing
  <1>12. /\ disk'[Checkpoint(r)] = disk[Checkpoint(r)] /\ disk'[Identity(r)] = disk[Identity(r)]
         /\ disk'[Results(r)] = disk[Results(r)] /\ disk'[Csv(r)] = disk[Csv(r)]
         /\ stable'[Results(r)] = stable[Results(r)] /\ stable'[Csv(r)] = stable[Csv(r)]
         /\ \A k \in Keys : disk'[Row(r, k)] = disk[Row(r, k)]
    BY <1>1, <1>2, RunNames, RunFilesDiffer
  <1>13. WorkingInv(p, r)'
    <2>1. proc[p].rows = Keys /\ proc[p].pc \notin {"row", "reopen"}
      BY <1>1 DEF WorkingInv, Publishing, Pointing
    <2> QED BY <1>1, <1>4, <1>7, <1>12, <2>1 DEF WorkingInv, Exists, RowsOf
  <1>14. PublishingInv(p, r)'
    <2>1. /\ disk[Results(r)] = proc[p].doc /\ disk[Csv(r)] = proc[p].doc.rows
          /\ stable[Results(r)] = disk[Results(r)] /\ stable[Csv(r)] = disk[Csv(r)]
      BY <1>1 DEF PublishingInv, Pointing
    <2> QED BY <1>1, <1>4, <1>7, <1>12, <2>1 DEF PublishingInv
  <1>15. ProcInv(p)'
    <2>1. label \in Publishing /\ label \in Working /\ label \notin Creating /\ label \notin {"make", "check"}
      BY DEF Publishing, Pointing, Working, Creating
    <2> QED BY <1>1, <1>4, <1>13, <1>14, <2>1 DEF ProcInv
  <1>16. \A q \in Procs : ProcInv(q)'
    BY <1>11, <1>15
  <1>17. EntryJournaled
    BY DEF IInv
  <1> QED BY <1>5, <1>6, <1>8, <1>10, <1>16, <1>17 DEF IInv

LEMMA PointSteps ==
  ASSUME IInv, NEW p \in Procs, PointTxt(p) \/ PointJson(p) \/ SyncRoot(p)
  PROVE  IInv'
  <1> SUFFICES ASSUME NEW r, r = proc[p].run PROVE IInv'
    OBVIOUS
  <1>1. CASE PointTxt(p) \/ PointJson(p)
    <2> SUFFICES ASSUME NEW f, NEW label,
                        \/ proc[p].pc = "txt" /\ f = LatestTxt /\ label = "json"
                        \/ proc[p].pc = "json" /\ f = LatestJson /\ label = "root",
                        Replace(f, r), proc' = [proc EXCEPT ![p].pc = label],
                        UNCHANGED <<lock, env, stops, changes>>
                 PROVE  IInv'
      BY <1>1 DEF PointTxt, PointJson, At, Run, Goto
    <2>1. f \in Latest /\ f \in Files /\ (f = LatestTxt => f # LatestJson)
      BY LatestFiles
    <2>2. /\ DOMAIN disk' = Files /\ DOMAIN stable' = Files /\ stable' = stable
          /\ disk'[f] = r /\ \A g \in Files \ {f} : disk'[g] = disk[g]
      BY <2>1, ReplaceEffect
    <2>3. /\ \A g \in Files \ Latest : disk'[g] = disk[g]
          /\ \A g \in Latest : disk'[g] \in {disk[g], r} /\ stable'[g] \in {stable[g], disk[g]}
          /\ label = "root" => disk'[LatestJson] = r
      BY <2>1, <2>2, LatestFiles
    <2> QED BY <2>2, <2>3, PointerStep
  <1>2. CASE SyncRoot(p)
    <2>1. /\ proc[p].pc = "root" /\ proc' = [proc EXCEPT ![p].pc = "complete"]
          /\ stable' = Synced(LatestJson, disk)
          /\ UNCHANGED <<disk, lock, env, stops, changes>>
      BY <1>2 DEF SyncRoot, At, Goto
    <2>2. r \in Runs /\ disk[LatestJson] = r
      BY <2>1, PublishingFacts DEF Publishing, Pointing, PublishingInv
    <2>3. stable' = [g \in Files |-> IF g \in Latest \union Folders THEN disk[g] ELSE stable[g]]
      BY <2>1, <2>2, SiblingsOf DEF Synced, IInv
    <2>4. DOMAIN disk' = Files /\ LatestJson \in Latest /\ Latest \subseteq Files
      BY <2>1, LatestFiles DEF IInv, TypeOK, FilesOK
    <2>5. /\ DOMAIN stable' = Files /\ stable'[LatestJson] = r
          /\ \A g \in Files \ (Latest \union Folders) : stable'[g] = stable[g]
          /\ \A g \in Files : stable'[g] = stable[g] \/ stable'[g] = disk'[g]
          /\ \A g \in Latest : disk'[g] \in {disk[g], r} /\ stable'[g] \in {stable[g], disk[g]}
      BY <2>1, <2>2, <2>3, <2>4
    <2> QED BY <2>1, <2>2, <2>4, <2>5, PointerStep
  <1> QED BY <1>1, <1>2

LEMMA CompleteStep ==
  ASSUME IInv, NEW p \in Procs, Complete(p)
  PROVE  IInv'
  <1> SUFFICES ASSUME NEW r, r = proc[p].run, NEW c,
                      c = [Progress(p, "complete", proc[p].ivs) EXCEPT !.results = disk[Results(r)]]
               PROVE  IInv'
    OBVIOUS
  <1>1. /\ proc[p].pc = "complete" /\ DurableWrite(Checkpoint(r), c) /\ End(p)
        /\ UNCHANGED <<env, stops, changes>>
    BY DEF Complete, At, Run
  <1>2. /\ r \in Runs /\ proc[p].pc \in Working
        /\ WorkingInv(p, r) /\ PublishingInv(p, r)
    BY <1>1, PublishingFacts DEF Publishing, Pointing
  <1>3. proc[p].rows = Keys /\ disk[LatestJson] = r /\ stable[LatestJson] = r
    BY <1>1, <1>2 DEF WorkingInv, PublishingInv, Publishing, Pointing
  <1>4. proc[p].ivs \in Seq(Intervals)
    BY TypeOfProc DEF ProcStates, IInv
  <1>5. /\ FilesOK(disk)' /\ FilesOK(stable)'
        /\ FolderInv(r)' /\ CheckpointInv(r)' /\ ResultsInv(r)'
        /\ \A g \in Files \ (RunFiles(r) \union RowFiles(r) \union {Folder(r)}) :
               disk'[g] = disk[g] /\ stable'[g] = stable[g]
        /\ Published(r) => Published(r)'
    <2>1. "complete" \in {"running", "finalizing", "complete"}
      OBVIOUS
    <2>2. Updates(c, p, "complete", proc[p].ivs)
      BY DEF Updates, Run
    <2> QED BY <1>1, <1>2, <1>3, <1>4, <2>1, <2>2, ProgressFiles
  <1>6. lock = p
    BY <1>1 DEF LockInv, IInv
  <1>7. /\ proc' \in [Procs -> ProcStates]
        /\ proc'[p] = Idle /\ lock' = NoOne
        /\ \A q \in Procs \ {p} : proc'[q] = proc[q]
    BY <1>1, <1>6, TypeOfProc DEF End, IInv
  <1>8. ProcInv(p)' /\ proc'[p].pc = "idle"
    BY <1>7 DEF ProcInv, Idle, Creating, Working, Publishing, Pointing
  <1> QED BY <1>1, <1>2, <1>3, <1>5, <1>7, <1>8, RunStep

-----------------------------------------------------------------------------
(* A power failure.                                                        *)

\* Each file is what programs saw or what was known to last.
LEMMA LossFiles ==
  ASSUME IInv, PowerLoss
  PROVE  /\ DOMAIN disk' = Files /\ stable' = disk'
         /\ \A f \in Files : disk'[f] \in {disk[f], stable[f], Absent}
         /\ \A f \in Latest : disk'[f] \in {disk[f], stable[f]}
         /\ \A r \in Runs :
                /\ Made(r) => disk'[Folder(r)] = "made"
                /\ \A f \in RunFiles(r) \union RowFiles(r) : disk'[f] \in {disk[f], stable[f]}
  <1>1. PICK kept \in SUBSET {f \in Files : disk[f] # stable[f]} :
            disk' = [f \in Files |->
                        IF f \notin Latest
                           /\ [g \in Files |-> IF g \in kept THEN disk[g] ELSE stable[g]][Folder(f[1])] = Absent
                        THEN Absent
                        ELSE [g \in Files |-> IF g \in kept THEN disk[g] ELSE stable[g]][f]]
    BY DEF PowerLoss
  <1> DEFINE left == [g \in Files |-> IF g \in kept THEN disk[g] ELSE stable[g]]
  <1>2. disk' = [f \in Files |-> IF f \notin Latest /\ left[Folder(f[1])] = Absent THEN Absent ELSE left[f]]
    BY <1>1
  <1>3. \A g \in Files : left[g] \in {disk[g], stable[g]}
    OBVIOUS
  <1>4. stable' = disk'
    BY DEF PowerLoss
  <1> HIDE DEF left
  <1>5. DOMAIN disk' = Files /\ \A f \in Files : disk'[f] \in {left[f], Absent}
    BY <1>2
  <1>6. \A f \in Latest : disk'[f] \in {disk[f], stable[f]}
    BY <1>2, <1>3, AllFiles
  <1>7. ASSUME NEW r \in Runs
        PROVE  /\ Made(r) => disk'[Folder(r)] = "made"
               /\ \A f \in RunFiles(r) \union RowFiles(r) : disk'[f] \in {disk[f], stable[f]}
    <2>1. FolderInv(r)
      BY DEF IInv, RunInv
    <2>2. CASE Made(r)
      <3>1. stable[Folder(r)] = "made" /\ disk[Folder(r)] = "made"
        BY <2>1, <2>2 DEF FolderInv, Made
      <3>2. Folder(r) \in Files
        BY AllFiles
      <3>3. left[Folder(r)] = "made" /\ left[Folder(r)] # Absent
        BY <1>3, <3>1, <3>2, MissingIsNoValue
      <3>4. ASSUME NEW f \in Files, f[1] = r PROVE disk'[f] = left[f]
        BY <1>2, <3>3, <3>4
      <3>5. Folder(r)[1] = r /\ \A f \in RunFiles(r) \union RowFiles(r) : f[1] = r /\ f \in Files
        BY RunNames, RunFilesDiffer, RowFilesDiffer
      <3> QED BY <1>3, <3>2, <3>3, <3>4, <3>5
    <2>3. CASE ~Made(r)
      <3>1. \A f \in RunFiles(r) \union RowFiles(r) : f \in Files /\ disk[f] = Absent /\ stable[f] = Absent
        BY <2>1, <2>3, RunNames DEF FolderInv
      <3> QED BY <1>3, <1>5, <2>3, <3>1
    <2> QED BY <2>2, <2>3
  <1> QED BY <1>3, <1>4, <1>5, <1>6, <1>7

LEMMA PowerLossStep ==
  ASSUME IInv, PowerLoss
  PROVE  IInv'
  <1>1. /\ DOMAIN disk' = Files /\ stable' = disk'
        /\ \A f \in Files : disk'[f] \in {disk[f], stable[f], Absent}
        /\ \A f \in Latest : disk'[f] \in {disk[f], stable[f]}
        /\ \A r \in Runs :
               /\ Made(r) => disk'[Folder(r)] = "made"
               /\ \A f \in RunFiles(r) \union RowFiles(r) : disk'[f] \in {disk[f], stable[f]}
    BY LossFiles
  <1>2. /\ proc' = [p \in Procs |-> Idle] /\ lock' = NoOne
        /\ stops' \in 0 .. MaxStops /\ UNCHANGED <<env, changes>>
    BY TypeOfProc, Setting DEF PowerLoss, IInv
  <1>3. FilesOK(disk)' /\ FilesOK(stable)'
    <2>1. FilesOK(disk) /\ FilesOK(stable)
      BY DEF IInv, TypeOK
    <2>2. \A f \in Files : disk'[f] = disk[f] \/ disk'[f] = stable[f] \/ disk'[f] = Absent
      BY <1>1
    <2>3. FilesOK(disk)'
      BY <1>1, <2>1, <2>2, MixedFiles
    <2> QED BY <1>1, <2>3
  <1>4. TypeOK'
    <2>1. proc' \in [Procs -> ProcStates]
      BY <1>2, TypeOfProc DEF IInv
    <2> QED BY <1>2, <1>3, <2>1, TypeOfProc DEF TypeOK, ProcStates, IInv
  <1>5. LockInv' /\ \A p \in Procs : ProcInv(p)'
    BY <1>2 DEF LockInv, ProcInv, Idle, Creating, Working, Publishing, Pointing
  <1>6. ASSUME NEW r \in Runs
        PROVE  /\ FolderInv(r)' /\ CheckpointInv(r)' /\ ResultsInv(r)'
               /\ Published(r) => Published(r)'
    <2>1. FolderInv(r) /\ CheckpointInv(r) /\ ResultsInv(r)
      BY DEF IInv, RunInv
    <2>2. /\ disk'[Grid(r)] = disk[Grid(r)] /\ disk'[Identity(r)] = disk[Identity(r)]
          /\ disk'[Checkpoint(r)] = disk[Checkpoint(r)]
          /\ \A k \in Keys : disk'[Row(r, k)] = disk[Row(r, k)]
      <3>1. Kept(r) \subseteq RunFiles(r) \union RowFiles(r)
        BY RunFilesDiffer DEF Kept
      <3>2. \A f \in Kept(r) : disk'[f] = disk[f]
        BY <1>1, <2>1, <3>1 DEF FolderInv
      <3> QED BY <3>2, RunNames DEF Kept
    <2>3. /\ disk'[Results(r)] \in {disk[Results(r)], stable[Results(r)]}
          /\ disk'[Csv(r)] \in {disk[Csv(r)], stable[Csv(r)]}
      BY <1>1, RunFilesDiffer
    <2>4. RowsOf(r)' = RowsOf(r) /\ Table(r)' = Table(r)
      BY <2>2 DEF RowsOf, Exists, Table
    <2>5. FolderInv(r)'
      <3>1. Kept(r) \subseteq RunFiles(r) \union RowFiles(r)
        BY RunFilesDiffer DEF Kept
      <3>2. Made(r) => Made(r)'
        BY <1>1 DEF Made
      <3>3. \A f \in RunFiles(r) \union RowFiles(r) : disk'[f] # Absent => Made(r)
        BY <1>1, <2>1 DEF FolderInv
      <3>4. Made(r)' => disk'[Folder(r)] = "made"
        BY <1>1 DEF Made
      <3>5. \A f \in Kept(r) : stable'[f] = disk'[f]
        BY <1>1
      <3> QED BY <1>1, <3>2, <3>3, <3>4, <3>5 DEF FolderInv, Kept
    <2>6. CheckpointInv(r)'
      BY <1>1, <2>1, <2>2, <2>4 DEF CheckpointInv, Exists, RowsOf
    <2>7. ResultsInv(r)'
      <3>1. \A d \in {disk', stable'} : d[Results(r)] = disk'[Results(r)] /\ d[Csv(r)] = disk'[Csv(r)]
        BY <1>1
      <3>2. disk'[Results(r)] # Absent => /\ Exists(Checkpoint(r)) /\ RowsOf(r) = Keys
                                          /\ disk'[Results(r)].rows = Table(r)
                                          /\ disk'[Results(r)].evidence => disk[Identity(r)] \in Clean
        BY <2>1, <2>3 DEF ResultsInv
      <3>3. disk'[Csv(r)] # Absent => RowsOf(r) = Keys /\ disk'[Csv(r)] = Table(r)
        BY <2>1, <2>3 DEF ResultsInv
      <3> QED BY <2>2, <2>4, <3>1, <3>2, <3>3 DEF ResultsInv, Exists
    <2>8. Published(r) => Published(r)'
      BY <1>1, <2>3 DEF Published
    <2> QED BY <2>5, <2>6, <2>7, <2>8
  <1>7. RunInv'
    BY <1>6 DEF RunInv
  <1>8. LatestInv'
    <2>1. ASSUME NEW f \in Latest, NEW d, d \in {disk', stable'}, d[f] # Absent
          PROVE  Published(d[f])'
      <3>1. d[f] \in {disk[f], stable[f]}
        BY <1>1, <2>1
      <3>2. d[f] \in Runs
        BY <1>3, <2>1 DEF FilesOK
      <3>3. Published(d[f])
        BY <2>1, <3>1 DEF LatestInv, IInv
      <3> QED BY <1>6, <3>2, <3>3
    <2> QED BY <1>1, <2>1 DEF LatestInv
  <1> QED BY <1>4, <1>5, <1>7, <1>8 DEF IInv

-----------------------------------------------------------------------------
(* The inductive invariant.                                                *)

LEMMA InitIInv ==
  ASSUME EntryJournaled, Init
  PROVE  IInv
  <1>1. \A f \in Files : disk[f] = Absent /\ stable[f] = Absent
    BY DEF Init
  <1>2. \A r \in Runs : /\ disk[Folder(r)] = Absent /\ stable[Folder(r)] = Absent
                        /\ \A f \in RunFiles(r) \union RowFiles(r) : disk[f] = Absent /\ stable[f] = Absent
    BY <1>1, RunNames
  <1>3. \A r \in Runs : /\ disk[Grid(r)] = Absent /\ disk[Identity(r)] = Absent
                        /\ disk[Checkpoint(r)] = Absent /\ disk[Results(r)] = Absent
                        /\ disk[Csv(r)] = Absent /\ \A k \in Keys : disk[Row(r, k)] = Absent
    BY <1>2, RunNames, RunFilesDiffer
  <1>4. FilesOK(disk) /\ FilesOK(stable)
    <2>1. DOMAIN disk = Files
      BY DEF Init
    <2>2. FilesOK(disk)
      BY <1>1, <1>2, <1>3, <2>1, AllFiles DEF FilesOK
    <2> QED BY <2>2 DEF Init
  <1>5. TypeOK
    <2>1. proc \in [Procs -> ProcStates]
      BY DEF Init, Idle, ProcStates, Steps
    <2> QED BY <1>4, <2>1, Setting DEF Init, TypeOK, ProcStates
  <1>6. LockInv /\ \A p \in Procs : ProcInv(p)
    BY DEF Init, LockInv, ProcInv, Idle, Creating, Working, Publishing, Pointing
  <1>7. RunInv
    <2> SUFFICES ASSUME NEW r \in Runs PROVE FolderInv(r) /\ CheckpointInv(r) /\ ResultsInv(r)
      BY DEF RunInv
    <2>1. stable = disk
      BY DEF Init
    <2>2. RowsOf(r) = {} /\ ~Exists(Checkpoint(r))
      BY <1>3 DEF RowsOf, Exists
    <2>3. FolderInv(r)
      BY <1>2, <2>1, MissingIsNoValue DEF FolderInv, Made
    <2>4. CheckpointInv(r)
      BY <2>2 DEF CheckpointInv
    <2>5. ResultsInv(r)
      BY <1>3, <2>1 DEF ResultsInv
    <2> QED BY <2>3, <2>4, <2>5
  <1>8. LatestInv
    <2>1. stable = disk /\ \A f \in Latest : disk[f] = Absent
      BY <1>1, LatestFiles DEF Init
    <2> QED BY <2>1 DEF LatestInv
  <1> QED BY <1>5, <1>6, <1>7, <1>8 DEF IInv

LEMMA ChangeStep ==
  ASSUME IInv, ChangeEnvironment
  PROVE  IInv'
  <1>1. TypeOK'
    <2>1. env' \in Envs /\ changes' \in 0 .. MaxChanges
      BY TypeOfProc, Setting DEF ChangeEnvironment, IInv
    <2> QED BY <2>1 DEF ChangeEnvironment, IInv, TypeOK, FilesOK
  <1>2. UNCHANGED <<disk, stable, lock, proc>>
    BY DEF ChangeEnvironment
  <1>3. LockInv' /\ RunInv' /\ LatestInv'
    <2>1. LockInv'
      BY <1>2 DEF IInv, LockInv
    <2>2. RunInv'
      BY <1>2 DEF IInv, RunInv, FolderInv, CheckpointInv, ResultsInv, Made, RowsOf, Exists, Table
    <2>3. LatestInv'
      BY <1>2 DEF IInv, LatestInv, Published, IsComplete, Exists
    <2> QED BY <2>1, <2>2, <2>3
  <1>4. ASSUME NEW p \in Procs PROVE ProcInv(p)'
    BY <1>2 DEF IInv, ProcInv, CreatingInv, WorkingInv, PublishingInv, Made, RowsOf, Exists, Table
  <1> QED BY <1>1, <1>3, <1>4 DEF IInv

LEMMA StopStep ==
  ASSUME IInv, NEW p \in Procs, Stop(p)
  PROVE  IInv'
  <1>1. stops' \in 0 .. MaxStops
    BY TypeOfProc, Setting DEF Stop, IInv
  <1> QED BY <1>1, EndStep DEF Stop

LEMMA StepIInv ==
  ASSUME IInv, [Next]_vars
  PROVE  IInv'
  <1>1. CASE UNCHANGED vars
    <2>1. UNCHANGED <<disk, stable, lock, env, proc, stops, changes>>
      BY <1>1 DEF vars
    <2>2. TypeOK' /\ LockInv'
      BY <2>1 DEF IInv, TypeOK, FilesOK, LockInv
    <2>3. RunInv' /\ LatestInv'
      BY <2>1 DEF IInv, RunInv, FolderInv, CheckpointInv, ResultsInv, Made, RowsOf,
                  Exists, Table, LatestInv, Published, IsComplete
    <2>4. ASSUME NEW p \in Procs PROVE ProcInv(p)'
      BY <2>1 DEF IInv, ProcInv, CreatingInv, WorkingInv, PublishingInv, Made, RowsOf, Exists, Table
    <2> QED BY <2>2, <2>3, <2>4 DEF IInv
  <1>2. ASSUME NEW p \in Procs, Step(p) PROVE IInv'
    <2>1. CASE Lock(p) \/ Refused(p) \/ Discover(p)
      BY <2>1, StartSteps
    <2>2. CASE MakeFolder(p)
      BY <2>2, MakeFolderStep
    <2>identity. CASE WriteGrid(p) \/ WriteIdentity(p)
      BY <2>identity, CreateSteps
    <2>4. CASE FirstCheckpoint(p)
      BY <2>4, FirstCheckpointStep
    <2>5. CASE Check(p)
      BY <2>5, CheckStep
    <2>6. CASE Reopen(p) \/ UpdateProgress(p) \/ Finalize(p)
      BY <2>6, ProgressSteps
    <2>7. CASE \E k \in Keys : Measure(p, k)
      BY <2>7, MeasureStep
    <2>8. CASE WriteRow(p)
      BY <2>8, WriteRowStep
    <2>9. CASE Recheck(p)
      BY <2>9, RecheckStep
    <2>10. CASE WriteResults(p) \/ WriteCsv(p)
      BY <2>10, OutputSteps
    <2>11. CASE SyncRun(p)
      BY <2>11, SyncRunStep
    <2>12. CASE PointTxt(p) \/ PointJson(p) \/ SyncRoot(p)
      BY <2>12, PointSteps
    <2>13. CASE Complete(p)
      BY <2>13, CompleteStep
    <2> QED BY <1>2, <2>1, <2>2, <2>identity, <2>4, <2>5, <2>6, <2>7, <2>8, <2>9, <2>10, <2>11,
               <2>12, <2>13 DEF Step
  <1>3. ASSUME NEW p \in Procs, InvokeNew(p) \/ \E r \in Runs : InvokeResume(p, r) PROVE IInv'
    BY <1>3, StartSteps
  <1>4. ASSUME NEW p \in Procs, Stop(p) PROVE IInv'
    BY <1>4, StopStep
  <1>5. CASE PowerLoss
    BY <1>5, PowerLossStep
  <1>6. CASE ChangeEnvironment
    BY <1>6, ChangeStep
  <1> QED BY <1>1, <1>2, <1>3, <1>4, <1>5, <1>6 DEF Next

-----------------------------------------------------------------------------
(* What the invariant says of a state.                                     *)

LEMMA ImpliesResumable ==
  ASSUME IInv
  PROVE  StopsAreResumable
  <1>1. ASSUME NEW r \in Runs, Exists(Checkpoint(r))
        PROVE  LET c == disk[Checkpoint(r)]
               IN  /\ c.state # "complete" =>
                          \A e \in Clean : disk[Identity(r)] = e =>
                              /\ c.grid = disk[Grid(r)] /\ c.identity = e
                              /\ c.count <= Cardinality(RowsOf(r))
                              /\ \A k \in RowsOf(r) : disk[Row(r, k)].interval \in DOMAIN c.ivs
                   /\ c.state # "running" => RowsOf(r) = Keys
    <2>1. CheckpointInv(r)
      BY DEF IInv, RunInv
    <2> QED BY <1>1, <2>1 DEF CheckpointInv
  <1> QED BY <1>1 DEF StopsAreResumable, CrashesResumable, IInv

LEMMA ImpliesEvidence ==
  ASSUME IInv
  PROVE  EvidenceCoversEveryRow
  <1> SUFFICES ASSUME NEW r \in Runs, Exists(Results(r)), disk[Results(r)].evidence
               PROVE  /\ disk[Identity(r)] \in Clean
                      /\ \A k \in Keys : disk[Results(r)].rows[k].start = disk[Identity(r)]
    BY DEF EvidenceCoversEveryRow
  <1>1. CheckpointInv(r) /\ ResultsInv(r)
    BY DEF IInv, RunInv
  <1>2. /\ RowsOf(r) = Keys /\ disk[Results(r)].rows = Table(r)
        /\ disk[Identity(r)] \in Clean
    BY <1>1 DEF ResultsInv, Exists
  <1>3. \A k \in Keys : disk[Row(r, k)].start = disk[Identity(r)]
    BY <1>1, <1>2 DEF CheckpointInv
  <1> QED BY <1>2, <1>3 DEF Table

LEMMA ImpliesWholeResults ==
  ASSUME IInv
  PROVE  PointersNameWholeResults
  <1> SUFFICES ASSUME NEW f \in Latest, Exists(f), NEW r, r = disk[f]
               PROVE  /\ RowsOf(r) = Keys
                      /\ Exists(Results(r)) /\ Exists(Csv(r))
                      /\ disk[Results(r)].rows = [k \in Keys |-> disk[Row(r, k)]]
                      /\ disk[Csv(r)] = disk[Results(r)].rows
    BY DEF PointersNameWholeResults
  <1>1. r \in Runs /\ Published(r)
    BY DEF IInv, TypeOK, FilesOK, LatestInv, Exists
  <1>2. ResultsInv(r)
    BY <1>1 DEF IInv, RunInv
  <1>3. disk[Results(r)] # Absent /\ disk[Csv(r)] # Absent
    BY <1>1 DEF Published
  <1>4. RowsOf(r) = Keys /\ disk[Results(r)].rows = Table(r) /\ disk[Csv(r)] = Table(r)
    BY <1>2, <1>3 DEF ResultsInv
  <1> QED BY <1>3, <1>4 DEF Exists, Table

\* A resume finds what every interrupted invocation left, and accepts it in the
\* environment the run was started in (runner.py resume checks): what the run
\* campaign_resume shows for two invocations.
THEOREM CampaignsAreResumable ==
  ASSUME EntryJournaled
  PROVE  Spec => []StopsAreResumable
  <1>1. Init => IInv
    BY InitIInv
  <1>2. IInv /\ [Next]_vars => IInv'
    BY StepIInv
  <1>3. IInv => StopsAreResumable
    BY ImpliesResumable
  <1> QED BY <1>1, <1>2, <1>3, PTL DEF Spec

\* Results that claim publication evidence hold only rows measured in the
\* clean environment they record, however often the run was resumed.
THEOREM EvidenceIsSound ==
  ASSUME EntryJournaled
  PROVE  Spec => []EvidenceCoversEveryRow
  <1>1. Init => IInv
    BY InitIInv
  <1>2. IInv /\ [Next]_vars => IInv'
    BY StepIInv
  <1>3. IInv => EvidenceCoversEveryRow
    BY ImpliesEvidence
  <1> QED BY <1>1, <1>2, <1>3, PTL DEF Spec

\* latest.txt and latest.json name only whole results, also after a power loss.
THEOREM PointersAreSound ==
  ASSUME EntryJournaled
  PROVE  Spec => []PointersNameWholeResults
  <1>1. Init => IInv
    BY InitIInv
  <1>2. IInv /\ [Next]_vars => IInv'
    BY StepIInv
  <1>3. IInv => PointersNameWholeResults
    BY ImpliesWholeResults
  <1> QED BY <1>1, <1>2, <1>3, PTL DEF Spec

-----------------------------------------------------------------------------
(* What the invariant says of a step.                                      *)

LEMMA OtherFiles ==
  ASSUME IInv
  PROVE  \A x, v : disk' = [disk EXCEPT ![x] = v] => \A g \in Files \ {x} : disk'[g] = disk[g]
  BY DEF IInv, TypeOK, FilesOK

\* An invocation writes rows and files of its own run, which is not complete.
LEMMA RunChanges ==
  ASSUME IInv, NEW p \in Procs, Step(p), NEW s \in Runs, NEW f \in RunFiles(s) \union RowFiles(s),
         disk'[f] # disk[f]
  PROVE  /\ s = proc[p].run /\ ~IsComplete(s)
         /\ f \in RowFiles(s) => f = Row(s, proc[p].key) /\ disk[f] = Absent
  <1> SUFFICES ASSUME NEW r, r = proc[p].run
               PROVE  /\ s = r /\ ~IsComplete(s)
                      /\ f \in RowFiles(s) => f = Row(s, proc[p].key) /\ disk[f] = Absent
    OBVIOUS
  <1> DEFINE Writes(x) == /\ \A g \in Files \ {x} : disk'[g] = disk[g]
                          /\ x \in RunFiles(r) \union RowFiles(r) \union {Folder(r)} \union Latest
  <1>0. ASSUME NEW x, Writes(x) PROVE s = r /\ f = x
    <2>1. f \in Files
      BY RunNames
    <2>2. f = x
      BY <1>0, <2>1
    <2>named. f[1] = s /\ x \notin Latest
      BY <2>2, RunFilesDiffer, RowFilesDiffer, LatestDiffer
    <2>4. x[1] = r
      BY <1>0, <2>named, RunFilesDiffer, RowFilesDiffer
    <2> QED BY <2>2, <2>named, <2>4
  <1>1. CASE \/ Lock(p) \/ Refused(p) \/ Discover(p) \/ Check(p) \/ Recheck(p)
             \/ (\E k \in Keys : Measure(p, k)) \/ SyncRun(p) \/ SyncRoot(p)
    BY <1>1 DEF Lock, Refused, Discover, Check, Recheck, Measure, SyncRun, SyncRoot
  <1>2. CASE MakeFolder(p)
    <2>1. PICK t \in Runs : disk' = [disk EXCEPT ![Folder(t)] = "made"]
      BY <1>2 DEF MakeFolder, Replace
    <2>2. f \in Files /\ DOMAIN disk = Files
      BY RunNames DEF IInv, TypeOK, FilesOK
    <2>3. f # Folder(t)
      BY RunFilesDiffer, RowFilesDiffer, Lengths
    <2> QED BY <2>1, <2>2, <2>3
  <1>3. CASE WriteGrid(p) \/ WriteIdentity(p) \/ FirstCheckpoint(p)
    <2>1. proc[p].pc \in Creating
      BY <1>3 DEF WriteGrid, WriteIdentity, FirstCheckpoint, At, Creating
    <2>2. r \in Runs /\ CreatingInv(p, r)
      BY <2>1 DEF IInv, ProcInv
    <2>3. ~IsComplete(r)
      BY <2>2 DEF CreatingInv, IsComplete, Exists
    <2>4. \E x \in {Grid(r), Identity(r), Checkpoint(r)} : \E v : disk' = [disk EXCEPT ![x] = v]
      BY <1>3 DEF WriteGrid, WriteIdentity, FirstCheckpoint, DurableWrite, Run
    <2>5. \E x \in RunFiles(r) : Writes(x)
      BY <2>4, OtherFiles DEF RunFiles
    <2>6. s = r /\ f \in RunFiles(r)
      <3> HIDE DEF Writes
      <3> QED BY <1>0, <2>5
    <2>7. f \notin RowFiles(s)
      BY <2>6, RunFilesDiffer, RowFilesDiffer
    <2> QED BY <2>3, <2>6, <2>7
  <1>4. CASE \/ Reopen(p) \/ UpdateProgress(p) \/ Finalize(p) \/ WriteResults(p) \/ WriteCsv(p)
             \/ PointTxt(p) \/ PointJson(p) \/ Complete(p)
    <2>1. proc[p].pc \in Working
      BY <1>4 DEF Reopen, UpdateProgress, Finalize, WriteResults, WriteCsv, PointTxt, PointJson,
                  Complete, At, Working, Publishing, Pointing
    <2>2. ~IsComplete(r)
      BY <2>1 DEF IInv, ProcInv, WorkingInv, IsComplete
    <2>3. \E x \in {Checkpoint(r), Results(r), Csv(r), LatestTxt, LatestJson} : \E v : disk' = [disk EXCEPT ![x] = v]
      BY <1>4 DEF Reopen, UpdateProgress, Finalize, WriteResults, WriteCsv, PointTxt, PointJson,
                  Complete, DurableWrite, Replace, Run
    <2>4. \E x \in RunFiles(r) \union Latest : Writes(x)
      BY <2>3, OtherFiles DEF RunFiles, Latest
    <2>5. s = r /\ f \in RunFiles(r) \union Latest
      <3> HIDE DEF Writes
      <3> QED BY <1>0, <2>4
    <2>6. f \notin RowFiles(s)
      BY <2>5, LatestDiffer, RunFilesDiffer, RowFilesDiffer
    <2> QED BY <2>2, <2>5, <2>6
  <1>5. CASE WriteRow(p)
    <2>1. proc[p].pc = "row"
      BY <1>5 DEF WriteRow, At
    <2>2. r \in Runs /\ WorkingInv(p, r)
      BY <2>1 DEF IInv, ProcInv, Working
    <2>3. ~IsComplete(r) /\ proc[p].key \in Keys /\ disk[Row(r, proc[p].key)] = Absent
      BY <2>1, <2>2 DEF WorkingInv, IsComplete, Exists
    <2>4. Row(r, proc[p].key) \in RowFiles(r)
      BY <2>2, <2>3, RunNames
    <2>5. Writes(Row(r, proc[p].key))
      BY <1>5, <2>4, OtherFiles DEF WriteRow, DurableWrite, Run
    <2>6. s = r /\ f = Row(r, proc[p].key)
      <3> HIDE DEF Writes
      <3> QED BY <1>0, <2>5
    <2> QED BY <2>3, <2>6
  <1> QED BY <1>1, <1>2, <1>3, <1>4, <1>5 DEF Step

LEMMA StepKeepsEvidence ==
  ASSUME IInv, Next, NEW r \in Runs
  PROVE  /\ \A k \in Keys : Exists(Row(r, k)) => disk'[Row(r, k)] = disk[Row(r, k)]
         /\ IsComplete(r) => \A f \in RunFiles(r) \union RowFiles(r) : disk'[f] = disk[f]
  <1>1. \A k \in Keys : Row(r, k) \in RowFiles(r)
    BY RunNames
  <1>2. ASSUME NEW p \in Procs, Step(p)
        PROVE  /\ \A k \in Keys : Exists(Row(r, k)) => disk'[Row(r, k)] = disk[Row(r, k)]
               /\ IsComplete(r) => \A f \in RunFiles(r) \union RowFiles(r) : disk'[f] = disk[f]
    <2>1. \A f \in RunFiles(r) \union RowFiles(r) : disk'[f] # disk[f] =>
              ~IsComplete(r) /\ (f \in RowFiles(r) => disk[f] = Absent)
      BY <1>2, RunChanges
    <2> QED BY <1>1, <2>1 DEF Exists
  <1>3. CASE PowerLoss
    <2>1. \A f \in RunFiles(r) \union RowFiles(r) : disk'[f] \in {disk[f], stable[f]}
      BY <1>3, LossFiles
    <2>2. FolderInv(r) /\ CheckpointInv(r)
      BY DEF IInv, RunInv
    <2>3. \A f \in Kept(r) : stable[f] = disk[f]
      BY <2>2 DEF FolderInv
    <2>4. IsComplete(r) => \A f \in RunFiles(r) \union RowFiles(r) : stable[f] = disk[f]
      <3>1. IsComplete(r) => stable[Results(r)] = disk[Results(r)] /\ stable[Csv(r)] = disk[Csv(r)]
        BY <2>2 DEF CheckpointInv, IsComplete
      <3>2. RunFiles(r) \union RowFiles(r) = Kept(r) \union {Results(r), Csv(r)}
        BY DEF RunFiles, Kept
      <3> QED BY <2>3, <3>1, <3>2
    <2> QED BY <1>1, <2>1, <2>3, <2>4 DEF Kept
  <1>4. CASE disk' = disk
    BY <1>4
  <1> QED BY <1>2, <1>3, <1>4 DEF Next, InvokeNew, InvokeResume, Stop, ChangeEnvironment

\* A row, once written, and every file of a complete run, never change, whatever
\* stops, resumes and power failures follow.
THEOREM EvidenceLasts ==
  ASSUME EntryJournaled
  PROVE  Spec => EvidenceIsFinal
  <1>1. Init => IInv
    BY InitIInv
  <1>2. IInv /\ [Next]_vars => IInv'
    BY StepIInv
  <1>3. ASSUME IInv, [Next]_vars
        PROVE  /\ [\A r \in Runs, k \in Keys : Exists(Row(r, k)) => disk'[Row(r, k)] = disk[Row(r, k)]]_vars
               /\ [\A r \in Runs :
                       (Exists(Checkpoint(r)) /\ disk[Checkpoint(r)].state = "complete") =>
                           \A f \in RunFiles(r) \union RowFiles(r) : disk'[f] = disk[f]]_vars
    BY <1>3, StepKeepsEvidence DEF IsComplete
  <1> QED BY <1>1, <1>2, <1>3, PTL DEF Spec, EvidenceIsFinal, RowsAreFinal, CompleteIsFrozen

-----------------------------------------------------------------------------
(* The refinement.                                                         *)

RowsMap == [r \in Runs |-> RowsOf(r)]
DoneMap == {r \in Runs : IsComplete(r)}

LEMMA Mapped ==
  /\ Abstract!Init <=> /\ RowsMap = [r \in Runs |-> {}] /\ DoneMap = {} /\ stable[LatestJson] = Absent
  /\ \A r, k : Abstract!Add(r, k) <=>
         /\ r \notin DoneMap /\ k \notin RowsMap[r]
         /\ RowsMap' = [RowsMap EXCEPT ![r] = @ \union {k}]
         /\ DoneMap' = DoneMap /\ stable'[LatestJson] = stable[LatestJson]
  /\ \A r : Abstract!Publish(r) <=>
         /\ RowsMap[r] = Keys /\ r \notin DoneMap /\ stable'[LatestJson] = r
         /\ RowsMap' = RowsMap /\ DoneMap' = DoneMap
  /\ \A r : Abstract!Complete(r) <=>
         /\ stable[LatestJson] = r /\ r \notin DoneMap /\ DoneMap' = DoneMap \union {r}
         /\ RowsMap' = RowsMap /\ stable'[LatestJson] = stable[LatestJson]
  /\ (RowsMap' = RowsMap /\ DoneMap' = DoneMap /\ stable'[LatestJson] = stable[LatestJson])
         => UNCHANGED Abstract!vars
  BY DEF Abstract!Init, Abstract!Add, Abstract!Publish, Abstract!Complete, Abstract!vars,
         RowsMap, DoneMap, IsComplete, Exists

\* Where rows and checkpoints stay, nothing abstract but the pointer moves.
LEMMA MapsStay ==
  ASSUME \A r \in Runs : /\ \A k \in Keys : Exists(Row(r, k))' = Exists(Row(r, k))
                         /\ IsComplete(r)' = IsComplete(r)
  PROVE  RowsMap' = RowsMap /\ DoneMap' = DoneMap
  BY DEF RowsMap, DoneMap, RowsOf

LEMMA InitMaps ==
  ASSUME Init
  PROVE  Abstract!Init
  <1>1. \A r \in Runs : disk[Checkpoint(r)] = Absent /\ \A k \in Keys : disk[Row(r, k)] = Absent
    BY AllFiles DEF Init
  <1>2. RowsMap = [r \in Runs |-> {}] /\ DoneMap = {}
    BY <1>1 DEF RowsMap, DoneMap, RowsOf, IsComplete, Exists
  <1>3. stable[LatestJson] = Absent
    BY LatestFiles DEF Init
  <1> QED BY <1>2, <1>3, Mapped

\* Steps that leave every row, checkpoint and kept pointer as they are.
LEMMA QuietMaps ==
  ASSUME disk' = disk, stable'[LatestJson] = stable[LatestJson]
  PROVE  UNCHANGED Abstract!vars
  <1>1. RowsMap' = RowsMap /\ DoneMap' = DoneMap
    BY DEF RowsMap, DoneMap, RowsOf, IsComplete, Exists
  <1> QED BY <1>1, Mapped

\* Only a row, a checkpoint or the pointer itself is seen by the abstract root.
LEMMA OtherFileMaps ==
  ASSUME IInv, NEW x \in Files, \A g \in Files \ {x} : disk'[g] = disk[g],
         stable'[LatestJson] = stable[LatestJson],
         \A r \in Runs : x # Checkpoint(r) /\ x \notin RowFiles(r)
  PROVE  UNCHANGED Abstract!vars
  <1>1. ASSUME NEW r \in Runs
        PROVE  disk'[Checkpoint(r)] = disk[Checkpoint(r)] /\ \A k \in Keys : disk'[Row(r, k)] = disk[Row(r, k)]
    BY AllFiles, RunNames
  <1>2. RowsMap' = RowsMap /\ DoneMap' = DoneMap
    BY <1>1, MapsStay DEF IsComplete, Exists
  <1> QED BY <1>2, Mapped

\* A checkpoint that does not say complete, of a run that is not.
LEMMA CheckpointMaps ==
  ASSUME IInv, NEW r \in Runs, \A g \in Files \ {Checkpoint(r)} : disk'[g] = disk[g],
         stable'[LatestJson] = stable[LatestJson], ~IsComplete(r)
  PROVE  /\ RowsMap' = RowsMap
         /\ \A s \in Runs \ {r} : IsComplete(s)' = IsComplete(s)
         /\ ~IsComplete(r)' => UNCHANGED Abstract!vars
  <1>1. ASSUME NEW s \in Runs, NEW k \in Keys PROVE disk'[Row(s, k)] = disk[Row(s, k)]
    <2>1. Row(s, k) \in Files /\ Row(s, k) # Checkpoint(r)
      BY AllFiles, Lengths
    <2> QED BY <2>1
  <1>2. ASSUME NEW s \in Runs \ {r} PROVE IsComplete(s)' = IsComplete(s)
    <2>1. Checkpoint(s) \in Files /\ Checkpoint(s) # Checkpoint(r)
      BY AllFiles DEF Checkpoint
    <2> QED BY <2>1 DEF IsComplete, Exists
  <1>3. RowsMap' = RowsMap
    BY <1>1 DEF RowsMap, RowsOf, Exists
  <1>4. ~IsComplete(r)' => DoneMap' = DoneMap
    BY <1>2 DEF DoneMap
  <1> QED BY <1>2, <1>3, <1>4, Mapped

LEMMA StableLatest ==
  ASSUME IInv, NEW r \in Runs, NEW f \in RunFiles(r) \union RowFiles(r), NEW v, DurableWrite(f, v)
  PROVE  /\ stable'[LatestJson] = stable[LatestJson] /\ f \in Files
         /\ disk'[f] = v /\ \A g \in Files \ {f} : disk'[g] = disk[g]
  <1>1. LatestJson \in Files /\ LatestJson \in Latest
    BY LatestFiles
  <1>2. LatestJson \notin RunFiles(r) \union RowFiles(r) \union {Folder(r)}
    BY <1>1, LatestDiffer
  <1> QED BY <1>1, <1>2, DurableEffect, RunNames

\* Steps of an invocation that the abstract root does not see.
LEMMA HiddenSteps ==
  ASSUME IInv, IInv', NEW p \in Procs, Step(p), ~WriteRow(p), ~SyncRoot(p), ~Complete(p)
  PROVE  UNCHANGED Abstract!vars
  <1> SUFFICES ASSUME NEW r, r = proc[p].run PROVE UNCHANGED Abstract!vars
    OBVIOUS
  <1>1. CASE \/ Lock(p) \/ Refused(p) \/ Discover(p) \/ Check(p) \/ Recheck(p)
             \/ \E k \in Keys : Measure(p, k)
    BY <1>1, QuietMaps DEF Lock, Refused, Discover, Check, Recheck, Measure
  <1>2. CASE MakeFolder(p)
    <2>1. PICK t \in Runs : Replace(Folder(t), "made")
      BY <1>2 DEF MakeFolder
    <2>2. /\ Folder(t) \in Files /\ stable' = stable
          /\ \A g \in Files \ {Folder(t)} : disk'[g] = disk[g]
      BY <2>1, AllFiles, ReplaceEffect
    <2>3. \A s \in Runs : Folder(t) # Checkpoint(s) /\ Folder(t) \notin RowFiles(s)
      BY RunFilesDiffer, RowFilesDiffer, Lengths DEF RunFiles
    <2> QED BY <2>2, <2>3, OtherFileMaps
  <1>3. CASE WriteGrid(p) \/ WriteIdentity(p)
    <2>1. proc[p].pc \in Creating
      BY <1>3 DEF WriteGrid, WriteIdentity, At, Creating
    <2>2. r \in Runs
      BY <2>1 DEF IInv, ProcInv
    <2>3. PICK x \in {Grid(r), Identity(r)} : DurableWrite(x, proc[p].start)
      BY <1>3 DEF WriteGrid, WriteIdentity, Run
    <2>4. x \in RunFiles(r)
      BY DEF RunFiles
    <2>5. /\ stable'[LatestJson] = stable[LatestJson] /\ x \in Files
          /\ \A g \in Files \ {x} : disk'[g] = disk[g]
      BY <2>2, <2>3, <2>4, StableLatest
    <2>6. \A s \in Runs : x # Checkpoint(s) /\ x \notin RowFiles(s)
      BY <2>4, RunFilesDiffer, RowFilesDiffer
    <2> QED BY <2>5, <2>6, OtherFileMaps
  <1>4. CASE FirstCheckpoint(p) \/ Reopen(p) \/ UpdateProgress(p) \/ Finalize(p)
    <2>1. proc[p].pc \in {"first", "reopen", "progress", "next"}
      BY <1>4 DEF FirstCheckpoint, Reopen, UpdateProgress, Finalize, At
    <2>2. r \in Runs /\ ~IsComplete(r)
      BY <2>1 DEF IInv, ProcInv, Creating, CreatingInv, Working, WorkingInv, IsComplete, Exists
    <2>3. PICK c : DurableWrite(Checkpoint(r), c)
      BY <1>4 DEF FirstCheckpoint, Reopen, UpdateProgress, Finalize, Run
    <2>4. Checkpoint(r) \in RunFiles(r)
      BY DEF RunFiles
    <2>5. /\ stable'[LatestJson] = stable[LatestJson]
          /\ \A g \in Files \ {Checkpoint(r)} : disk'[g] = disk[g]
      BY <2>2, <2>3, <2>4, StableLatest
    <2>6. proc'[p].pc \in {"next", "recheck"} /\ proc'[p].run = r
      <3>1. proc \in [Procs -> ProcStates] /\ proc[p] \in ProcStates
        BY TypeOfProc DEF IInv
      <3> QED BY <1>4, <3>1 DEF FirstCheckpoint, Reopen, UpdateProgress, Finalize, Goto, ProcStates
    <2>7. ~IsComplete(r)'
      BY <2>2, <2>6 DEF IInv, ProcInv, Working, WorkingInv, IsComplete
    <2> QED BY <2>2, <2>5, <2>7, CheckpointMaps
  <1>5. CASE WriteResults(p) \/ WriteCsv(p)
    <2>1. proc[p].pc \in Publishing
      BY <1>5 DEF WriteResults, WriteCsv, At, Publishing
    <2>2. r \in Runs
      BY <2>1, PublishingFacts
    <2>3. PICK x \in {Results(r), Csv(r)} : \E v : Replace(x, v)
      BY <1>5 DEF WriteResults, WriteCsv, Run
    <2>4. x \in RunFiles(r) /\ x \in Files
      BY <2>2, AllFiles DEF RunFiles
    <2>5. stable' = stable /\ \A g \in Files \ {x} : disk'[g] = disk[g]
      BY <2>3, <2>4, ReplaceEffect
    <2>6. \A s \in Runs : x # Checkpoint(s) /\ x \notin RowFiles(s)
      BY <2>4, RunFilesDiffer, RowFilesDiffer
    <2> QED BY <2>4, <2>5, <2>6, OtherFileMaps
  <1>6. CASE SyncRun(p)
    <2>1. r \in Runs
      BY <1>6, PublishingFacts DEF SyncRun, At, Publishing
    <2>2. Siblings(Results(r)) = RunFiles(r) \union {Folder(r)}
      BY <2>1, SiblingsOf, RunFilesDiffer DEF IInv
    <2>3. LatestJson \in Files /\ LatestJson \notin RunFiles(r) \union {Folder(r)}
      BY <2>1, LatestFiles, LatestDiffer
    <2>4. disk' = disk /\ stable'[LatestJson] = stable[LatestJson]
      BY <1>6, <2>2, <2>3 DEF SyncRun, Synced, Run
    <2> QED BY <2>4, QuietMaps
  <1>7. CASE PointTxt(p) \/ PointJson(p)
    <2>1. PICK x \in Latest : Replace(x, r)
      BY <1>7, LatestFiles DEF PointTxt, PointJson, Run
    <2>2. x \in Files /\ stable' = stable /\ \A g \in Files \ {x} : disk'[g] = disk[g]
      BY <2>1, LatestFiles, ReplaceEffect
    <2>3. \A s \in Runs : x # Checkpoint(s) /\ x \notin RowFiles(s)
      BY LatestDiffer, RunFilesDiffer
    <2> QED BY <2>2, <2>3, OtherFileMaps
  <1> QED BY <1>1, <1>2, <1>3, <1>4, <1>5, <1>6, <1>7 DEF Step

LEMMA AddMaps ==
  ASSUME IInv, NEW p \in Procs, WriteRow(p)
  PROVE  \E r \in Runs, k \in Keys : Abstract!Add(r, k)
  <1> SUFFICES ASSUME NEW r, r = proc[p].run, NEW k, k = proc[p].key
               PROVE  r \in Runs /\ k \in Keys /\ Abstract!Add(r, k)
    OBVIOUS
  <1>1. proc[p].pc = "row" /\ \E v : DurableWrite(Row(r, k), v)
    BY DEF WriteRow, At, Run
  <1>2. r \in Runs /\ WorkingInv(p, r)
    BY <1>1 DEF IInv, ProcInv, Working
  <1>3. k \in Keys /\ ~Exists(Row(r, k)) /\ ~IsComplete(r)
    BY <1>1, <1>2 DEF WorkingInv, IsComplete
  <1>4. DurableWrite(Row(r, k), [interval |-> Len(proc[p].ivs), active |-> proc[p].clock,
                                 start |-> proc[p].start])
    BY DEF WriteRow, Run
  <1>5. /\ stable'[LatestJson] = stable[LatestJson]
        /\ disk'[Row(r, k)] = [interval |-> Len(proc[p].ivs), active |-> proc[p].clock,
                               start |-> proc[p].start]
        /\ \A g \in Files \ {Row(r, k)} : disk'[g] = disk[g]
    BY <1>2, <1>3, <1>4, RunNames, StableLatest
  <1>6. [interval |-> Len(proc[p].ivs), active |-> proc[p].clock, start |-> proc[p].start] # Absent
    <2>1. proc[p].ivs \in Seq(Intervals) /\ proc[p].clock \in Nat
      BY TypeOfProc DEF IInv, ProcStates
    <2>2. proc[p].start \in Envs /\ Len(proc[p].ivs) \in Nat
      BY <1>1, <2>1 DEF IInv, ProcInv, Working
    <2> QED BY <2>1, <2>2, MissingIsNoValue DEF RowValues
  <1>7. ASSUME NEW s \in Runs, NEW j \in Keys, s # r \/ j # k
        PROVE  disk'[Row(s, j)] = disk[Row(s, j)]
    <2>1. Row(s, j) \in Files /\ Row(s, j) # Row(r, k)
      BY <1>7, AllFiles DEF Row
    <2> QED BY <1>5, <2>1
  <1>8. ASSUME NEW s \in Runs PROVE IsComplete(s)' = IsComplete(s)
    <2>1. Checkpoint(s) \in Files /\ Checkpoint(s) # Row(r, k)
      BY AllFiles, Lengths
    <2> QED BY <1>5, <2>1 DEF IsComplete, Exists
  <1>9. RowsOf(r)' = RowsOf(r) \union {k} /\ k \notin RowsOf(r)
        /\ \A s \in Runs \ {r} : RowsOf(s)' = RowsOf(s)
    BY <1>2, <1>3, <1>5, <1>6, <1>7 DEF RowsOf, Exists
  <1>10. RowsMap' = [RowsMap EXCEPT ![r] = @ \union {k}] /\ k \notin RowsMap[r]
    BY <1>2, <1>9 DEF RowsMap
  <1>11. DoneMap' = DoneMap /\ r \notin DoneMap
    BY <1>3, <1>8 DEF DoneMap
  <1> QED BY <1>2, <1>3, <1>5, <1>10, <1>11, Mapped

LEMMA PublishMaps ==
  ASSUME IInv, NEW p \in Procs, SyncRoot(p)
  PROVE  \E r \in Runs : Abstract!Publish(r)
  <1> SUFFICES ASSUME NEW r, r = proc[p].run
               PROVE  r \in Runs /\ Abstract!Publish(r)
    OBVIOUS
  <1>1. proc[p].pc = "root" /\ disk' = disk /\ stable' = Synced(LatestJson, disk)
    BY DEF SyncRoot, At
  <1>2. r \in Runs /\ PublishingInv(p, r) /\ RowsOf(r) = Keys /\ ~IsComplete(r)
    BY <1>1, PublishingFacts DEF Publishing, Pointing
  <1>3. disk[LatestJson] = r
    BY <1>1, <1>2 DEF PublishingInv
  <1>4. stable'[LatestJson] = r
    <2>1. LatestJson \in Siblings(LatestJson) /\ LatestJson \in Files
      BY <1>2, SiblingsOf, LatestFiles DEF IInv
    <2> QED BY <1>1, <1>3, <2>1 DEF Synced
  <1>5. RowsMap' = RowsMap /\ DoneMap' = DoneMap
    BY <1>1 DEF RowsMap, DoneMap, RowsOf, IsComplete, Exists
  <1>6. RowsMap[r] = Keys /\ r \notin DoneMap
    BY <1>2 DEF RowsMap, DoneMap
  <1> QED BY <1>2, <1>4, <1>5, <1>6, Mapped

LEMMA CompleteMaps ==
  ASSUME IInv, NEW p \in Procs, Complete(p)
  PROVE  \E r \in Runs : Abstract!Complete(r)
  <1> SUFFICES ASSUME NEW r, r = proc[p].run, NEW c,
                      c = [Progress(p, "complete", proc[p].ivs) EXCEPT !.results = disk[Results(r)]]
               PROVE  r \in Runs /\ Abstract!Complete(r)
    OBVIOUS
  <1>1. proc[p].pc = "complete" /\ DurableWrite(Checkpoint(r), c)
    BY DEF Complete, At, Run
  <1>2. /\ r \in Runs /\ WorkingInv(p, r) /\ PublishingInv(p, r) /\ ~IsComplete(r)
        /\ proc[p].pc \in Working
    BY <1>1, PublishingFacts DEF Publishing, Pointing
  <1>3. proc[p].rows = Keys /\ stable[LatestJson] = r
    BY <1>1, <1>2 DEF WorkingInv, PublishingInv, Publishing, Pointing
  <1>4. disk'[Checkpoint(r)] = c /\ c.state = "complete" /\ Exists(Checkpoint(r))'
    <2> DEFINE old == disk[Checkpoint(r)]
               new == [old EXCEPT !.state = "complete", !.count = Cardinality(proc[p].rows),
                                  !.ivs = proc[p].ivs]
    <2>1. proc[p].ivs \in Seq(Intervals) /\ "complete" \in {"running", "finalizing", "complete"}
      BY TypeOfProc DEF ProcStates, IInv
    <2>2. Updates(c, p, "complete", proc[p].ivs)
      BY DEF Updates, Run
    <2>3. disk'[Checkpoint(r)] = c
      BY <1>1, <1>2, <1>3, <2>1, <2>2, ProgressFiles
    <2>4. c.state = "complete"
      <3>1. old \in CheckpointValues
        BY <1>2 DEF WorkingInv, Exists, IInv, TypeOK, FilesOK
      <3>2. c = [new EXCEPT !.results = disk[Results(r)]]
        BY DEF Progress, Run
      <3> HIDE DEF old
      <3> QED BY <3>1, <3>2 DEF CheckpointValues
    <2>5. Exists(Checkpoint(r))'
      BY <1>1, <1>2, <1>3, <2>1, <2>2, ProgressFiles
    <2> QED BY <2>3, <2>4, <2>5
  <1>5. /\ stable'[LatestJson] = stable[LatestJson]
        /\ \A g \in Files \ {Checkpoint(r)} : disk'[g] = disk[g]
    BY <1>1, <1>2, RunFilesDiffer, StableLatest
  <1>6. RowsMap' = RowsMap /\ \A s \in Runs \ {r} : IsComplete(s)' = IsComplete(s)
    BY <1>2, <1>5, CheckpointMaps
  <1>7. IsComplete(r)'
    BY <1>4 DEF IsComplete
  <1>8. DoneMap' = DoneMap \union {r} /\ r \notin DoneMap
    BY <1>2, <1>6, <1>7 DEF DoneMap
  <1> QED BY <1>2, <1>3, <1>5, <1>6, <1>8, Mapped

\* A power failure keeps the pointer or publishes the run it was moved to.
LEMMA LossMaps ==
  ASSUME IInv, PowerLoss
  PROVE  (\E r \in Runs : Abstract!Publish(r)) \/ UNCHANGED Abstract!vars
  <1>1. /\ stable' = disk'
        /\ \A f \in Latest : disk'[f] \in {disk[f], stable[f]}
        /\ \A r \in Runs : \A f \in RunFiles(r) \union RowFiles(r) : disk'[f] \in {disk[f], stable[f]}
    BY LossFiles
  <1>2. ASSUME NEW r \in Runs
        PROVE  disk'[Checkpoint(r)] = disk[Checkpoint(r)] /\ \A k \in Keys : disk'[Row(r, k)] = disk[Row(r, k)]
    <2>1. \A f \in Kept(r) : stable[f] = disk[f]
      BY DEF IInv, RunInv, FolderInv
    <2>2. Checkpoint(r) \in RunFiles(r) /\ \A k \in Keys : Row(r, k) \in RowFiles(r)
      BY RunNames DEF RunFiles
    <2> QED BY <1>1, <2>1, <2>2 DEF Kept
  <1>3. RowsMap' = RowsMap /\ DoneMap' = DoneMap
    BY <1>2, MapsStay DEF IsComplete, Exists
  <1>4. stable'[LatestJson] \in {disk[LatestJson], stable[LatestJson]}
    BY <1>1, LatestFiles
  <1>5. CASE stable'[LatestJson] = stable[LatestJson]
    BY <1>3, <1>5, Mapped
  <1>6. ASSUME NEW r, r = disk[LatestJson], stable'[LatestJson] = r, r # stable[LatestJson]
        PROVE  \E s \in Runs : Abstract!Publish(s)
    <2>1. r # Absent /\ ~IsComplete(r) /\ Published(r)
      BY <1>6, LatestFiles DEF IInv, LatestInv
    <2>2. r \in Runs
      BY <1>6, <2>1, LatestFiles DEF IInv, TypeOK, FilesOK
    <2>3. RowsOf(r) = Keys
      BY <2>1, <2>2 DEF IInv, RunInv, ResultsInv, Published
    <2>4. RowsMap[r] = Keys /\ r \notin DoneMap
      BY <2>1, <2>2, <2>3 DEF RowsMap, DoneMap
    <2> QED BY <1>3, <1>6, <2>2, <2>4, Mapped
  <1> QED BY <1>4, <1>5, <1>6

LEMMA StepMaps ==
  ASSUME IInv, IInv', [Next]_vars
  PROVE  [Abstract!Next]_(Abstract!vars)
  <1>1. ASSUME NEW p \in Procs, Step(p) PROVE Abstract!Next \/ UNCHANGED Abstract!vars
    BY <1>1, HiddenSteps, AddMaps, PublishMaps, CompleteMaps DEF Abstract!Next
  <1>2. CASE PowerLoss
    BY <1>2, LossMaps DEF Abstract!Next
  <1>3. CASE UNCHANGED <<disk, stable>>
    BY <1>3, QuietMaps
  <1> QED BY <1>1, <1>2, <1>3 DEF Next, InvokeNew, InvokeResume, Stop, ChangeEnvironment, vars

\* Stopped, resumed and concurrent invocations of any number are, to a reader of
\* the output root, campaigns whose rows only grow and whose pointer names a
\* complete grid before its checkpoint says so.
THEOREM CampaignsAreImplemented ==
  ASSUME EntryJournaled
  PROVE  Spec => ImplementsCampaigns
  <1>1. Init => IInv
    BY InitIInv
  <1>2. IInv /\ [Next]_vars => IInv'
    BY StepIInv
  <1>3. Init => Abstract!Init
    BY InitMaps
  <1>4. IInv /\ IInv' /\ [Next]_vars => [Abstract!Next]_(Abstract!vars)
    BY StepMaps
  <1> QED BY <1>1, <1>2, <1>3, <1>4, PTL DEF Spec, ImplementsCampaigns, Abstract!Spec
-----------------------------------------------------------------------------
(* Honest time: sums.                                                      *)

\* Induction over the naturals, with a set in place of the predicate.
LEMMA NaturalsFrom ==
  ASSUME NEW T, 0 \in T, \A n \in Nat : n \in T => n + 1 \in T
  PROVE  Nat \subseteq T
  <1> SUFFICES ASSUME Nat \ T # {} PROVE FALSE
    OBVIOUS
  <1>1. PICK m \in Nat \ T : \A k \in Nat \ T : <<k, m>> \notin OpToRel(<, Nat)
    BY NatLessThanWellFounded, WFMin
  <1>2. m # 0 /\ m - 1 \in Nat /\ m - 1 < m /\ (m - 1) + 1 = m
    OBVIOUS
  <1>3. <<m - 1, m>> \in OpToRel(<, Nat)
    BY <1>2 DEF OpToRel
  <1> QED BY <1>1, <1>2, <1>3

\* g[i] is the sum of the first i times.
Sums(n, times, g) == g = [i \in 0 .. n |-> IF i = 0 THEN 0 ELSE g[i - 1] + times[i]]

LEMMA SumsExist ==
  ASSUME NEW times, NEW n \in Nat
  PROVE  \E g : Sums(n, times, g)
  <1> DEFINE T == {k \in Nat : \E g : Sums(k, times, g)}
  <1>1. 0 \in T
    <2> DEFINE g == [i \in 0 .. 0 |-> 0]
    <2>1. g = [i \in 0 .. 0 |-> IF i = 0 THEN 0 ELSE g[i - 1] + times[i]]
      OBVIOUS
    <2> HIDE DEF g
    <2> QED BY <2>1 DEF Sums
  <1>2. ASSUME NEW k \in Nat, k \in T PROVE k + 1 \in T
    <2>1. PICK g : Sums(k, times, g)
      BY <1>2
    <2> DEFINE h == [i \in 0 .. k + 1 |-> IF i = k + 1 THEN g[k] + times[k + 1] ELSE g[i]]
    <2>2. ASSUME NEW i \in 0 .. k + 1
          PROVE  h[i] = IF i = 0 THEN 0 ELSE h[i - 1] + times[i]
      <3>1. CASE i = k + 1
        <4>1. i # 0 /\ i - 1 = k /\ k \in 0 .. k + 1 /\ k # k + 1 /\ i \in 0 .. k + 1
          BY <3>1
        <4>2. h[i] = g[k] + times[k + 1] /\ h[k] = g[k]
          BY <3>1, <4>1
        <4> QED BY <3>1, <4>1, <4>2
      <3>2. CASE i # k + 1
        <4>1. i \in 0 .. k
          BY <3>2
        <4>2. g[i] = IF i = 0 THEN 0 ELSE g[i - 1] + times[i]
          BY <2>1, <4>1 DEF Sums
        <4>3. h[i] = g[i]
          BY <3>2
        <4>4. i # 0 => i - 1 \in 0 .. k + 1 /\ i - 1 # k + 1
          BY <4>1
        <4>5. i # 0 => h[i - 1] = g[i - 1]
          BY <4>4
        <4> QED BY <4>2, <4>3, <4>5
      <3> QED BY <3>1, <3>2
    <2>3. h = [i \in 0 .. k + 1 |-> h[i]]
      OBVIOUS
    <2> HIDE DEF h
    <2>4. h = [i \in 0 .. k + 1 |-> IF i = 0 THEN 0 ELSE h[i - 1] + times[i]]
      BY <2>2, <2>3
    <2>5. k + 1 \in Nat /\ Sums(k + 1, times, h)
      BY <2>4 DEF Sums
    <2> QED BY <2>5
  <1> HIDE DEF T
  <1>3. n \in T
    BY <1>1, <1>2, NaturalsFrom
  <1> QED BY <1>3 DEF T

LEMMA TotalIs ==
  ASSUME NEW times, NEW n \in Nat, n = Len(times)
  PROVE  \E g : Sums(n, times, g) /\ Total(times) = g[n]
  <1> DEFINE sum[i \in 0 .. n] == IF i = 0 THEN 0 ELSE sum[i - 1] + times[i]
  <1>1. Total(times) = sum[n]
    BY DEF Total
  <1>2. PICK g : Sums(n, times, g)
    BY SumsExist
  <1>3. Sums(n, times, sum)
    BY <1>2 DEF Sums, sum
  <1> HIDE DEF sum
  <1> QED BY <1>1, <1>3

\* Terms that are no greater have sums that are no greater.
LEMMA SumsGrow ==
  ASSUME NEW n \in Nat, NEW m \in Nat, n <= m, NEW a, NEW b, NEW g, NEW h,
         Sums(n, a, g), Sums(m, b, h), \A i \in 1 .. n : a[i] \in Nat /\ b[i] \in Nat /\ a[i] <= b[i]
  PROVE  g[n] \in Nat /\ h[n] \in Nat /\ g[n] <= h[n]
  <1> DEFINE T == {k \in Nat : k <= n => g[k] \in Nat /\ h[k] \in Nat /\ g[k] <= h[k]}
  <1>1. 0 \in T
    BY DEF Sums
  <1>2. ASSUME NEW k \in Nat, k \in T PROVE k + 1 \in T
    <2>0. k + 1 \in Nat
      OBVIOUS
    <2>1. ASSUME k + 1 <= n
          PROVE  g[k + 1] \in Nat /\ h[k + 1] \in Nat /\ g[k + 1] <= h[k + 1]
      <3>1. k + 1 \in 1 .. n /\ k + 1 \in 0 .. n /\ k + 1 \in 0 .. m /\ k + 1 # 0 /\ (k + 1) - 1 = k
        BY <2>1
      <3>2. g[k + 1] = g[k] + a[k + 1] /\ h[k + 1] = h[k] + b[k + 1]
        BY <3>1 DEF Sums
      <3>3. g[k] \in Nat /\ h[k] \in Nat /\ g[k] <= h[k]
        BY <1>2, <2>1
      <3>4. PICK x, y : x = a[k + 1] /\ y = b[k + 1] /\ x \in Nat /\ y \in Nat /\ x <= y
        BY <3>1
      <3> QED BY <3>2, <3>3, <3>4
    <2> QED BY <2>0, <2>1
  <1> HIDE DEF T
  <1>3. n \in T
    BY <1>1, <1>2, NaturalsFrom
  <1> QED BY <1>3 DEF T

\* Sums agree as far as their terms do.
LEMMA SumsAgree ==
  ASSUME NEW n \in Nat, NEW m \in Nat, NEW k \in Nat, n <= m, n <= k, NEW a, NEW b, NEW g, NEW h,
         Sums(k, a, g), Sums(m, b, h), \A i \in 1 .. n : a[i] = b[i]
  PROVE  g[n] = h[n]
  <1> DEFINE T == {j \in Nat : j <= n => g[j] = h[j]}
  <1>1. 0 \in T
    BY DEF Sums
  <1>2. ASSUME NEW j \in Nat, j \in T PROVE j + 1 \in T
    <2>0. j + 1 \in Nat
      OBVIOUS
    <2>1. ASSUME j + 1 <= n PROVE g[j + 1] = h[j + 1]
      <3>1. j + 1 \in 1 .. n /\ j + 1 \in 0 .. k /\ j + 1 \in 0 .. m /\ j + 1 # 0 /\ (j + 1) - 1 = j
        BY <2>1
      <3>2. g[j + 1] = g[j] + a[j + 1] /\ h[j + 1] = h[j] + b[j + 1]
        BY <3>1 DEF Sums
      <3>3. g[j] = h[j]
        BY <1>2, <2>1
      <3> QED BY <3>1, <3>2, <3>3
    <2> QED BY <2>0, <2>1
  <1> HIDE DEF T
  <1>3. n \in T
    BY <1>1, <1>2, NaturalsFrom
  <1> QED BY <1>3 DEF T

LEMMA TotalGrows ==
  ASSUME NEW a \in Seq(Nat), NEW b \in Seq(Nat), Len(a) = Len(b), \A i \in 1 .. Len(a) : a[i] <= b[i]
  PROVE  Total(a) \in Nat /\ Total(b) \in Nat /\ Total(a) <= Total(b)
  <1>1. PICK n \in Nat : n = Len(a) /\ n = Len(b)
    OBVIOUS
  <1>2. PICK g : Sums(n, a, g) /\ Total(a) = g[n]
    BY <1>1, TotalIs
  <1>3. PICK h : Sums(n, b, h) /\ Total(b) = h[n]
    BY <1>1, TotalIs
  <1>4. \A i \in 1 .. n : a[i] \in Nat /\ b[i] \in Nat /\ a[i] <= b[i]
    BY <1>1
  <1> QED BY <1>2, <1>3, <1>4, SumsGrow

LEMMA TotalNat ==
  ASSUME NEW t \in Seq(Nat)
  PROVE  Total(t) \in Nat
  <1>1. \A i \in 1 .. Len(t) : t[i] <= t[i]
    OBVIOUS
  <1> QED BY <1>1, TotalGrows

\* A new interval that has no time yet costs nothing.
LEMMA TotalAppend ==
  ASSUME NEW t \in Seq(Nat), NEW u \in Seq(Nat), Len(u) = Len(t) + 1,
         \A i \in 1 .. Len(t) : u[i] = t[i], u[Len(u)] = 0
  PROVE  Total(u) = Total(t)
  <1>1. PICK n \in Nat : n = Len(t) /\ n + 1 = Len(u)
    OBVIOUS
  <1>2. n + 1 \in Nat /\ n <= n + 1 /\ n + 1 # 0 /\ n + 1 \in 0 .. n + 1 /\ (n + 1) - 1 = n
    OBVIOUS
  <1>3. PICK g : Sums(n, t, g) /\ Total(t) = g[n]
    BY <1>1, TotalIs
  <1>4. PICK h : Sums(n + 1, u, h) /\ Total(u) = h[n + 1]
    BY <1>1, <1>2, TotalIs
  <1>5. \A i \in 1 .. n : t[i] = u[i]
    BY <1>1
  <1>6. g[n] = h[n]
    BY <1>2, <1>3, <1>4, <1>5, SumsAgree
  <1>7. h[n + 1] = h[n] + u[n + 1] /\ u[n + 1] = 0
    BY <1>1, <1>2, <1>4 DEF Sums
  <1>8. Total(t) \in Nat
    BY TotalNat
  <1> QED BY <1>3, <1>4, <1>6, <1>7, <1>8

\* One more tick of the last clock is one more in the sum.
LEMMA TotalTick ==
  ASSUME NEW t \in Seq(Nat), NEW u \in Seq(Nat), t # <<>>, Len(u) = Len(t),
         \A i \in 1 .. Len(t) : u[i] = IF i = Len(t) THEN t[i] + 1 ELSE t[i]
  PROVE  Total(u) = Total(t) + 1
  <1>1. PICK n \in Nat : n + 1 = Len(t) /\ n + 1 = Len(u)
    <2>1. Len(t) \in Nat /\ Len(t) # 0
      OBVIOUS
    <2>2. Len(t) - 1 \in Nat /\ (Len(t) - 1) + 1 = Len(t)
      BY <2>1
    <2> QED BY <2>2
  <1>2. n + 1 \in Nat /\ n <= n + 1 /\ n + 1 # 0 /\ n + 1 \in 0 .. n + 1 /\ (n + 1) - 1 = n
        /\ n + 1 \in 1 .. n + 1
    OBVIOUS
  <1>3. PICK g : Sums(n + 1, t, g) /\ Total(t) = g[n + 1]
    BY <1>1, <1>2, TotalIs
  <1>4. PICK h : Sums(n + 1, u, h) /\ Total(u) = h[n + 1]
    BY <1>1, <1>2, TotalIs
  <1>5. \A i \in 1 .. n : t[i] = u[i]
    BY <1>1
  <1>6. g[n] = h[n]
    BY <1>2, <1>3, <1>4, <1>5, SumsAgree
  <1>7. h[n + 1] = h[n] + u[n + 1] /\ g[n + 1] = g[n] + t[n + 1]
    BY <1>2, <1>3, <1>4 DEF Sums
  <1>8. u[n + 1] = t[n + 1] + 1 /\ t[n + 1] \in Nat
    BY <1>1, <1>2
  <1>9. g[n] \in Nat
    <2>1. \A i \in 1 .. n : t[i] \in Nat /\ t[i] <= t[i]
      BY <1>1
    <2>2. PICK f : Sums(n, t, f)
      BY SumsExist
    <2>3. f[n] \in Nat /\ g[n] \in Nat
      BY <1>2, <1>3, <2>1, <2>2, SumsGrow
    <2> QED BY <2>3
  <1> QED BY <1>3, <1>4, <1>6, <1>7, <1>8, <1>9

-----------------------------------------------------------------------------
(* Honest time.                                                            *)

\* t charges every interval with the time its rows prove, within what was
\* spent on the run.
Ledger(r, ivs, t) ==
    /\ t \in Seq(Nat) /\ Len(t) = Len(ivs)
    /\ \A i \in 1 .. Len(ivs) : ivs[i].active <= t[i]
    /\ \A k \in RowsOf(r) : disk[Row(r, k)].active <= t[disk[Row(r, k)].interval]
    /\ Total(t) <= spent[r]

\* The last interval is charged the whole clock of the invocation.
Charged(ivs, clock) == [i \in 1 .. Len(ivs) |-> IF i = Len(ivs) THEN clock ELSE ivs[i].active]

DiskTime(r) == Exists(Checkpoint(r)) => \E t : Ledger(r, disk[Checkpoint(r)].ivs, t)

\* What a published report says of its intervals.
Reported(r, ivs) ==
    /\ TotalActive(ivs) <= spent[r]
    /\ \A k \in RowsOf(r) : disk[Row(r, k)].active <= ivs[disk[Row(r, k)].interval].active

ResultsTime(r) ==
    \A d \in {disk, stable} : d[Results(r)] # Absent => Reported(r, d[Results(r)].ivs)

ProcTime(p) ==
    /\ proc[p].pc \notin Working => proc[p].clock = 0
    /\ proc[p].pc \in Working =>
           Ledger(proc[p].run, proc[p].ivs, Charged(proc[p].ivs, proc[p].clock))
    /\ proc[p].pc \in Working \ {"reopen"} => disk[Checkpoint(proc[p].run)].ivs = proc[p].ivs
    /\ proc[p].pc \in {"recheck"} \union Publishing =>
           proc[p].ivs[Len(proc[p].ivs)].active = proc[p].clock
    /\ proc[p].pc \in Publishing => Reported(proc[p].run, proc[p].doc.ivs)

TimeInv ==
    /\ spent \in [Runs -> Nat]
    /\ \A r \in Runs : DiskTime(r) /\ ResultsTime(r)
    /\ \A p \in Procs : ProcTime(p)

\* What a step may do without touching the time of a run.
SpentGrows == spent' \in [Runs -> Nat] /\ \A r \in Runs : spent[r] <= spent'[r]
RowsStay(r) == \A k \in Keys : disk'[Row(r, k)] = disk[Row(r, k)]
TimeStays(r) ==
    /\ RowsStay(r)
    /\ Exists(Checkpoint(r))' =>
           Exists(Checkpoint(r)) /\ disk'[Checkpoint(r)].ivs = disk[Checkpoint(r)].ivs
    /\ {disk'[Results(r)], stable'[Results(r)]} \subseteq {disk[Results(r)], stable[Results(r)], Absent}

LEMMA ActiveTimes ==
  ASSUME NEW ivs \in Seq(Intervals)
  PROVE  /\ \A i \in 1 .. Len(ivs) : ivs[i].active \in Nat
         /\ [i \in DOMAIN ivs |-> ivs[i].active] \in Seq(Nat)
         /\ Len([i \in DOMAIN ivs |-> ivs[i].active]) = Len(ivs)
         /\ TotalActive(ivs) = Total([i \in DOMAIN ivs |-> ivs[i].active])
         /\ TotalActive(ivs) \in Nat
  <1>1. DOMAIN ivs = 1 .. Len(ivs) /\ \A i \in 1 .. Len(ivs) : ivs[i] \in Intervals
    OBVIOUS
  <1>2. \A i \in 1 .. Len(ivs) : ivs[i].active \in Nat
    BY <1>1 DEF Intervals
  <1>3. /\ [i \in DOMAIN ivs |-> ivs[i].active] \in Seq(Nat)
        /\ Len([i \in DOMAIN ivs |-> ivs[i].active]) = Len(ivs)
    BY <1>1, <1>2
  <1>4. TotalActive(ivs) = Total([i \in DOMAIN ivs |-> ivs[i].active])
    BY DEF TotalActive
  <1>5. Total([i \in DOMAIN ivs |-> ivs[i].active]) \in Nat
    BY <1>3, TotalNat
  <1> QED BY <1>2, <1>3, <1>4, <1>5

LEMMA ChargedIs ==
  ASSUME NEW ivs \in Seq(Intervals), NEW clock \in Nat
  PROVE  /\ Charged(ivs, clock) \in Seq(Nat) /\ Len(Charged(ivs, clock)) = Len(ivs)
         /\ \A i \in 1 .. Len(ivs) :
                Charged(ivs, clock)[i] = IF i = Len(ivs) THEN clock ELSE ivs[i].active
  <1>1. \A i \in 1 .. Len(ivs) : ivs[i].active \in Nat
    BY ActiveTimes
  <1>2. \A i \in 1 .. Len(ivs) : (IF i = Len(ivs) THEN clock ELSE ivs[i].active) \in Nat
    BY <1>1
  <1> QED BY <1>2 DEF Charged

LEMMA RowsStaying ==
  ASSUME NEW r \in Runs, RowsStay(r)
  PROVE  RowsOf(r)' = RowsOf(r) /\ \A k \in RowsOf(r) : disk'[Row(r, k)] = disk[Row(r, k)]
  BY DEF RowsStay, RowsOf, Exists

LEMMA LedgerStays ==
  ASSUME NEW r \in Runs, RowsStay(r), SpentGrows, spent \in [Runs -> Nat],
         NEW ivs, NEW t, Ledger(r, ivs, t)
  PROVE  Ledger(r, ivs, t)'
  <1>1. RowsOf(r)' = RowsOf(r) /\ \A k \in RowsOf(r) : disk'[Row(r, k)] = disk[Row(r, k)]
    BY RowsStaying
  <1>2. t \in Seq(Nat) /\ Total(t) <= spent[r]
    BY DEF Ledger
  <1>3. Total(t) \in Nat /\ spent[r] \in Nat /\ spent'[r] \in Nat /\ spent[r] <= spent'[r]
    BY <1>2, TotalNat DEF SpentGrows
  <1>4. Total(t) <= spent'[r]
    BY <1>2, <1>3
  <1> QED BY <1>1, <1>4 DEF Ledger

LEMMA ReportedStays ==
  ASSUME NEW r \in Runs, RowsStay(r), SpentGrows, spent \in [Runs -> Nat],
         NEW ivs \in Seq(Intervals), Reported(r, ivs)
  PROVE  Reported(r, ivs)'
  <1>1. RowsOf(r)' = RowsOf(r) /\ \A k \in RowsOf(r) : disk'[Row(r, k)] = disk[Row(r, k)]
    BY RowsStaying
  <1>2. TotalActive(ivs) \in Nat /\ TotalActive(ivs) <= spent[r]
    BY ActiveTimes DEF Reported
  <1>3. spent[r] \in Nat /\ spent'[r] \in Nat /\ spent[r] <= spent'[r]
    BY DEF SpentGrows
  <1>4. TotalActive(ivs) <= spent'[r]
    BY <1>2, <1>3
  <1> QED BY <1>1, <1>4 DEF Reported

LEMMA ResultsStay ==
  ASSUME IInv, TimeInv, NEW r \in Runs, RowsStay(r), SpentGrows,
         {disk'[Results(r)], stable'[Results(r)]} \subseteq {disk[Results(r)], stable[Results(r)], Absent}
  PROVE  ResultsTime(r)'
  <1>1. ASSUME NEW doc \in {disk[Results(r)], stable[Results(r)]}, doc # Absent
        PROVE  Reported(r, doc.ivs)'
    <2>1. Reported(r, doc.ivs)
      BY <1>1 DEF TimeInv, ResultsTime
    <2>2. doc.ivs \in Seq(Intervals)
      BY <1>1 DEF IInv, TypeOK, FilesOK, Docs
    <2> QED BY <2>1, <2>2, ReportedStays DEF TimeInv
  <1>2. ASSUME NEW doc, doc = disk'[Results(r)] \/ doc = stable'[Results(r)], doc # Absent
        PROVE  Reported(r, doc.ivs)'
    BY <1>1, <1>2
  <1>3. disk'[Results(r)] # Absent => Reported(r, disk[Results(r)].ivs)'
    BY <1>2
  <1>4. stable'[Results(r)] # Absent => Reported(r, stable[Results(r)].ivs)'
    BY <1>2
  <1> QED BY <1>3, <1>4 DEF ResultsTime

LEMMA RunStays ==
  ASSUME IInv, TimeInv, NEW r \in Runs, TimeStays(r), SpentGrows
  PROVE  DiskTime(r)' /\ ResultsTime(r)'
  <1>1. ASSUME Exists(Checkpoint(r))' PROVE \E t : Ledger(r, disk[Checkpoint(r)].ivs, t)'
    <2>1. Exists(Checkpoint(r)) /\ disk'[Checkpoint(r)].ivs = disk[Checkpoint(r)].ivs
      BY <1>1 DEF TimeStays
    <2>2. PICK t : Ledger(r, disk[Checkpoint(r)].ivs, t)
      BY <2>1 DEF TimeInv, DiskTime
    <2> SUFFICES ASSUME NEW ivs, ivs = disk[Checkpoint(r)].ivs, ivs = disk'[Checkpoint(r)].ivs
                 PROVE  \E u : Ledger(r, disk[Checkpoint(r)].ivs, u)'
      BY <2>1
    <2>3. Ledger(r, ivs, t)'
      BY <2>2, LedgerStays DEF TimeStays, TimeInv
    <2>4. Ledger(r, disk[Checkpoint(r)].ivs, t)'
      BY <2>3
    <2> QED BY <2>4
  <1>2. DiskTime(r)'
    BY <1>1 DEF DiskTime
  <1> QED BY <1>2, ResultsStay DEF TimeStays

\* What programs see changes in the run of the step alone, and what a power
\* failure keeps moves only towards it.
LEMMA StableMoves ==
  ASSUME IInv, NEW p \in Procs, Step(p)
  PROVE  \A g \in Files : stable'[g] \in {stable[g], disk'[g]}
  <1>1. CASE \E f \in Files : \E v : DurableWrite(f, v)
    BY <1>1 DEF DurableWrite, Synced
  <1>2. CASE stable' = stable
    BY <1>2
  <1>3. CASE disk' = disk /\ \E f : stable' = Synced(f, disk)
    BY SMTT(40), <1>3 DEF Synced
  <1>4. \/ stable' = stable
        \/ \E f : disk' = disk /\ stable' = Synced(f, disk)
        \/ \E f : \E v : DurableWrite(f, v)
    BY DEF Step, Lock, Refused, Discover, MakeFolder, WriteGrid, WriteIdentity, FirstCheckpoint,
           Check, Reopen, Measure, WriteRow, UpdateProgress, Finalize, Recheck, WriteResults,
           WriteCsv, SyncRun, PointTxt, PointJson, SyncRoot, Complete, Replace
  <1>5. CASE \E f : \E v : DurableWrite(f, v)
    BY <1>5 DEF DurableWrite, Synced
  <1> QED BY <1>2, <1>3, <1>4, <1>5

LEMMA TimeFiles ==
  ASSUME NEW r \in Runs
  PROVE  /\ {Checkpoint(r), Results(r)} \subseteq RunFiles(r) /\ Results(r) \in Files
         /\ \A k \in Keys : Row(r, k) \in RowFiles(r)
  BY RunNames DEF RunFiles

LEMMA OthersStay ==
  ASSUME IInv, NEW p \in Procs, Step(p), NEW r \in Runs, r # proc[p].run
  PROVE  TimeStays(r)
  <1>1. \A f \in RunFiles(r) \union RowFiles(r) : disk'[f] = disk[f]
    BY RunChanges
  <1>2. stable'[Results(r)] \in {stable[Results(r)], disk'[Results(r)]}
    BY StableMoves, TimeFiles
  <1> QED BY <1>1, <1>2, TimeFiles DEF TimeStays, RowsStay, Exists

\* A step that writes neither a row, a checkpoint nor results.
LEMMA UnseenStay ==
  ASSUME IInv, NEW p \in Procs, Step(p), NEW r \in Runs, NEW x,
         \A g \in Files \ {x} : disk'[g] = disk[g],
         x # Checkpoint(r), x # Results(r), x \notin RowFiles(r)
  PROVE  TimeStays(r)
  <1>1. disk'[Checkpoint(r)] = disk[Checkpoint(r)] /\ disk'[Results(r)] = disk[Results(r)]
        /\ \A k \in Keys : disk'[Row(r, k)] = disk[Row(r, k)]
    BY AllFiles, RunNames
  <1>2. stable'[Results(r)] \in {stable[Results(r)], disk'[Results(r)]}
    BY StableMoves, TimeFiles
  <1> QED BY <1>1, <1>2 DEF TimeStays, RowsStay, Exists

LEMMA QuietTime ==
  ASSUME IInv, TimeInv, UNCHANGED <<disk, stable>>, SpentGrows, NEW r \in Runs
  PROVE  DiskTime(r)' /\ ResultsTime(r)'
  <1>1. TimeStays(r)
    BY DEF TimeStays, RowsStay, Exists
  <1> QED BY <1>1, RunStays

\* An invocation that measures nothing has charged nothing.
LEMMA OutsideTime ==
  ASSUME NEW p \in Procs, proc'[p].pc \notin Working, proc'[p].clock = 0
  PROVE  ProcTime(p)'
  BY DEF ProcTime, Working

\* An invocation without the lock has no time on its account.
LEMMA WaitingTime ==
  ASSUME IInv, TimeInv, NEW p \in Procs, proc[p].pc \notin {"idle", "lock"},
         NEW q \in Procs \ {p}, proc'[q] = proc[q]
  PROVE  ProcTime(q)'
  <1>1. proc[q].pc \in {"idle", "lock"}
    BY DEF IInv, LockInv
  <1>2. proc[q].pc \notin Working /\ proc[q].clock = 0
    BY <1>1 DEF TimeInv, ProcTime, Working, Publishing, Pointing
  <1> QED BY <1>2, OutsideTime

\* Steps of the invocation that holds the lock.
LEMMA HolderTime ==
  ASSUME IInv, TimeInv, NEW p \in Procs, Step(p), proc[p].pc \notin {"idle", "lock"}, SpentGrows,
         \A q \in Procs \ {p} : proc'[q] = proc[q],
         NEW r, r = proc[p].run,
         r \in Runs => DiskTime(r)' /\ ResultsTime(r)', ProcTime(p)'
  PROVE  TimeInv'
  <1>1. ASSUME NEW s \in Runs, s # r PROVE DiskTime(s)' /\ ResultsTime(s)'
    <2>1. TimeStays(s)
      BY <1>1, OthersStay
    <2> QED BY <2>1, RunStays
  <1>2. \A q \in Procs \ {p} : ProcTime(q)'
    BY WaitingTime
  <1> QED BY <1>1, <1>2 DEF TimeInv, SpentGrows

\* Steps that write nothing and measure nothing.
LEMMA IdleTime ==
  ASSUME IInv, TimeInv, UNCHANGED <<disk, stable, spent>>, NEW p \in Procs,
         \A q \in Procs \ {p} : proc'[q] = proc[q],
         proc'[p].pc \notin Working, proc'[p].clock = 0
  PROVE  TimeInv'
  <1>1. SpentGrows
    BY DEF SpentGrows, TimeInv
  <1>2. \A r \in Runs : DiskTime(r)' /\ ResultsTime(r)'
    BY <1>1, QuietTime
  <1>3. ASSUME NEW q \in Procs \ {p} PROVE ProcTime(q)'
    <2>1. proc'[q] = proc[q] /\ ProcTime(q)
      BY DEF TimeInv
    <2> QED BY <2>1 DEF ProcTime, Ledger, Reported, RowsOf, Exists
  <1> QED BY <1>1, <1>2, <1>3, OutsideTime DEF TimeInv, SpentGrows

LEMMA EndTime ==
  ASSUME IInv, TimeInv, UNCHANGED <<disk, stable, spent>>, NEW p \in Procs, End(p)
  PROVE  TimeInv'
  <1>1. proc'[p] = Idle /\ \A q \in Procs \ {p} : proc'[q] = proc[q]
    BY TypeOfProc DEF End, IInv
  <1>2. proc'[p].pc \notin Working /\ proc'[p].clock = 0
    BY <1>1 DEF Idle, Working, Publishing, Pointing
  <1> QED BY <1>1, <1>2, IdleTime

LEMMA StartTime ==
  ASSUME IInv, TimeInv, NEW p \in Procs,
         \/ InvokeNew(p) \/ (\E r \in Runs : InvokeResume(p, r))
         \/ Lock(p) \/ Refused(p) \/ Discover(p) \/ Stop(p)
  PROVE  TimeInv'
  <1>1. CASE End(p)
    BY <1>1, EndTime DEF InvokeNew, InvokeResume, Lock, Refused, Discover, Stop
  <1>2. CASE ~End(p)
    <2>0. proc \in [Procs -> ProcStates] /\ proc[p] \in ProcStates
      BY TypeOfProc DEF IInv
    <2>1. UNCHANGED <<disk, stable, spent>> /\ \A q \in Procs \ {p} : proc'[q] = proc[q]
      BY <1>2, <2>0 DEF InvokeNew, InvokeResume, Lock, Goto, Refused, Discover, Stop
    <2>2. proc[p].pc \in {"idle", "lock", "discover"}
      BY <1>2 DEF InvokeNew, InvokeResume, Lock, Refused, Discover, Stop, At
    <2>3. proc[p].clock = 0
      BY <2>2 DEF TimeInv, ProcTime, Working, Publishing, Pointing
    <2>4. proc'[p].clock = proc[p].clock /\ proc'[p].pc \in {"lock", "discover", "make", "check"}
      BY <1>2, <2>0 DEF InvokeNew, InvokeResume, Lock, Goto, Refused, Discover, Stop, ProcStates
    <2>5. proc'[p].pc \notin Working /\ proc'[p].clock = 0
      BY <2>3, <2>4 DEF Working, Publishing, Pointing
    <2> QED BY <2>1, <2>5, IdleTime
  <1> QED BY <1>1, <1>2

\* A new directory and its identity.
LEMMA CreateTime ==
  ASSUME IInv, TimeInv, NEW p \in Procs, MakeFolder(p) \/ WriteGrid(p) \/ WriteIdentity(p)
  PROVE  TimeInv'
  <1>0. proc \in [Procs -> ProcStates] /\ proc[p] \in ProcStates
    BY SMTT(40), TypeOfProc DEF IInv
  <1>1. Step(p) /\ spent' = spent /\ proc[p].pc \in {"make", "grid", "identity"}
    BY DEF Step, MakeFolder, WriteGrid, WriteIdentity, At
  <1>2. SpentGrows
    BY <1>1 DEF SpentGrows, TimeInv
  <1>3. proc[p].clock = 0 /\ proc[p].pc \notin {"idle", "lock"}
    BY <1>1 DEF TimeInv, ProcTime, Working, Publishing, Pointing
  <1>4. /\ proc'[p].clock = proc[p].clock /\ proc'[p].pc \in {"grid", "identity", "first"}
        /\ \A q \in Procs \ {p} : proc'[q] = proc[q]
    <2>1. CASE MakeFolder(p)
      <3>1. PICK r \in Runs : proc' = [proc EXCEPT ![p].run = r, ![p].stored = proc[p].start, ![p].pc = "grid"]
        BY <2>1 DEF MakeFolder
      <3>2. proc'[p] = [proc[p] EXCEPT !.run = r, !.stored = proc[p].start, !.pc = "grid"]
            /\ \A q \in Procs \ {p} : proc'[q] = proc[q]
        BY <1>0, <3>1
      <3> QED BY <1>0, <3>2 DEF ProcStates
    <2>2. CASE WriteGrid(p) \/ WriteIdentity(p)
      <3>1. \/ proc' = [proc EXCEPT ![p].pc = "identity"] \/ proc' = [proc EXCEPT ![p].pc = "first"]
        BY <2>2 DEF WriteGrid, WriteIdentity, Goto
      <3> QED BY <1>0, <3>1 DEF ProcStates
    <2> QED BY <2>1, <2>2
  <1>5. ProcTime(p)'
    <2>1. proc'[p].pc \notin Working /\ proc'[p].clock = 0
      BY <1>3, <1>4 DEF Working, Publishing, Pointing
    <2> QED BY <2>1, OutsideTime
  <1> SUFFICES ASSUME NEW r, r = proc[p].run PROVE TimeInv'
    OBVIOUS
  <1>6. ASSUME r \in Runs PROVE DiskTime(r)' /\ ResultsTime(r)'
    <2>1. ~MakeFolder(p)
      BY <1>6, RunNames DEF MakeFolder, At, IInv, ProcInv
    <2>2. PICK x \in {Grid(r), Identity(r)} : DurableWrite(x, proc[p].start)
      BY <1>6, <2>1 DEF WriteGrid, WriteIdentity, Run
    <2>3. \A g \in Files \ {x} : disk'[g] = disk[g]
      BY <2>2, OtherFiles DEF DurableWrite
    <2>4. x # Checkpoint(r) /\ x # Results(r) /\ x \notin RowFiles(r)
      BY <2>2, RunFilesDiffer, RowFilesDiffer
    <2>5. TimeStays(r)
      BY <1>1, <1>6, <2>3, <2>4, UnseenStay
    <2> QED BY SMTT(40), <1>2, <1>6, <2>5, RunStays
  <1> QED BY <1>1, <1>2, <1>3, <1>4, <1>5, <1>6, HolderTime

-----------------------------------------------------------------------------
(* An invocation that measures.                                            *)

\* Its account is one its checkpoint can be recovered to.
LEMMA CheckpointTime ==
  ASSUME NEW p \in Procs, ProcTime(p)', proc'[p].pc \in Working \ {"reopen"},
         NEW r, r = proc'[p].run
  PROVE  DiskTime(r)'
  <1>1. Ledger(r, disk[Checkpoint(r)].ivs, Charged(proc[p].ivs, proc[p].clock))'
    BY DEF ProcTime
  <1> QED BY <1>1 DEF DiskTime

\* What is known of an invocation that measures, or publishes, run r.
Account(p, r, ivs, clock) ==
    /\ r \in Runs /\ ivs \in Seq(Intervals) /\ ivs # <<>> /\ clock \in Nat
    /\ Ledger(r, ivs, Charged(ivs, clock))
    /\ \A k \in RowsOf(r) : disk[Row(r, k)].interval \in 1 .. Len(ivs)
    /\ proc[p].pc # "reopen" => disk[Checkpoint(r)].ivs = ivs
    /\ Charged(ivs, clock)[Len(ivs)] = clock /\ Len(ivs) \in 1 .. Len(ivs)
    /\ ivs[Len(ivs)].active <= clock

LEMMA WorkingTime ==
  ASSUME IInv, TimeInv, NEW p \in Procs, proc[p].pc \in Working, NEW r, r = proc[p].run,
         NEW ivs, ivs = proc[p].ivs, NEW clock, clock = proc[p].clock
  PROVE  Account(p, r, ivs, clock) /\ proc[p].pc \notin {"idle", "lock"}
  <1>1. proc[p] \in ProcStates /\ ivs \in Seq(Intervals) /\ clock \in Nat
    <2>1. proc[p] \in ProcStates
      BY TypeOfProc DEF IInv
    <2> QED BY <2>1 DEF ProcStates
  <1>2. r \in Runs /\ WorkingInv(p, r)
    BY DEF IInv, ProcInv
  <1>3. /\ Ledger(r, ivs, Charged(ivs, clock))
        /\ proc[p].pc # "reopen" => disk[Checkpoint(r)].ivs = ivs
    BY DEF TimeInv, ProcTime
  <1>4. ivs # <<>> /\ \A k \in RowsOf(r) : disk[Row(r, k)].interval \in DOMAIN ivs
    BY <1>2 DEF WorkingInv
  <1>5. DOMAIN ivs = 1 .. Len(ivs) /\ Len(ivs) \in 1 .. Len(ivs)
    BY <1>1, <1>4
  <1>6. Charged(ivs, clock)[Len(ivs)] = clock
    BY <1>1, <1>5, ChargedIs
  <1>7. ivs[Len(ivs)].active <= clock
    BY <1>3, <1>5, <1>6 DEF Ledger
  <1>8. proc[p].pc \notin {"idle", "lock"}
    BY DEF Working, Publishing, Pointing
  <1> QED BY <1>1, <1>2, <1>3, <1>4, <1>5, <1>6, <1>7, <1>8 DEF Account

\* One measurement is one tick of the clock and one unit spent.
LEMMA TickCharged ==
  ASSUME NEW ivs \in Seq(Intervals), ivs # <<>>, NEW clock \in Nat
  PROVE  /\ Total(Charged(ivs, clock + 1)) = Total(Charged(ivs, clock)) + 1
         /\ \A i \in 1 .. Len(ivs) : Charged(ivs, clock)[i] <= Charged(ivs, clock + 1)[i]
  <1>0. clock + 1 \in Nat
    OBVIOUS
  <1>1. PICK t : /\ t = Charged(ivs, clock) /\ t \in Seq(Nat) /\ Len(t) = Len(ivs)
                 /\ \A i \in 1 .. Len(ivs) : t[i] = IF i = Len(ivs) THEN clock ELSE ivs[i].active
    BY ChargedIs
  <1>2. PICK u : /\ u = Charged(ivs, clock + 1) /\ u \in Seq(Nat) /\ Len(u) = Len(ivs)
                 /\ \A i \in 1 .. Len(ivs) : u[i] = IF i = Len(ivs) THEN clock + 1 ELSE ivs[i].active
    BY <1>0, ChargedIs
  <1>3. \A i \in 1 .. Len(t) : u[i] = IF i = Len(t) THEN t[i] + 1 ELSE t[i]
    BY <1>1, <1>2
  <1>4. t # <<>>
    <2>1. Len(t) # 0
      BY <1>1
    <2> QED BY <2>1
  <1>5. Total(u) = Total(t) + 1
    BY <1>1, <1>2, <1>3, <1>4, TotalTick
  <1>6. ASSUME NEW i \in 1 .. Len(ivs) PROVE t[i] <= u[i]
    <2>1. PICK n \in Nat : n = t[i]
      BY <1>1
    <2>2. u[i] = n + 1 \/ u[i] = n
      BY <1>1, <1>3, <2>1
    <2> QED BY <2>1, <2>2
  <1> QED BY <1>1, <1>2, <1>5, <1>6

LEMMA MeasureTime ==
  ASSUME IInv, TimeInv, NEW p \in Procs, NEW k \in Keys, Measure(p, k)
  PROVE  TimeInv'
  <1> SUFFICES ASSUME NEW r, r = proc[p].run, NEW ivs, ivs = proc[p].ivs,
                      NEW clock, clock = proc[p].clock
               PROVE  TimeInv'
    OBVIOUS
  <1>1. /\ Step(p) /\ proc[p].pc = "next" /\ UNCHANGED <<disk, stable>>
        /\ spent' = [spent EXCEPT ![r] = @ + 1]
    BY DEF Step, Measure, At, Run
  <1>2. proc[p].pc \in Working
    BY <1>1 DEF Working
  <1>3. /\ r \in Runs /\ ivs \in Seq(Intervals) /\ ivs # <<>> /\ clock \in Nat
        /\ Ledger(r, ivs, Charged(ivs, clock))
        /\ \A j \in RowsOf(r) : disk[Row(r, j)].interval \in 1 .. Len(ivs)
        /\ disk[Checkpoint(r)].ivs = ivs
    <2>1. Account(p, r, ivs, clock)
      BY <1>2, WorkingTime
    <2> QED BY <1>1, <2>1 DEF Account
  <1>4. /\ spent[r] \in Nat /\ spent'[r] = spent[r] + 1
        /\ \A s \in Runs : spent[s] \in Nat /\ (s # r => spent'[s] = spent[s])
        /\ spent' \in [Runs -> Nat]
    BY <1>1, <1>3 DEF TimeInv
  <1>5. SpentGrows
    BY <1>4 DEF SpentGrows
  <1>6. DiskTime(r)' /\ ResultsTime(r)'
    BY <1>1, <1>3, <1>5, QuietTime
  <1>7. proc \in [Procs -> ProcStates] /\ proc[p] \in ProcStates
    BY TypeOfProc DEF IInv
  <1>8. CASE End(p)
    <2>1. proc'[p] = Idle /\ \A q \in Procs \ {p} : proc'[q] = proc[q]
      BY <1>7, <1>8 DEF End
    <2>2. proc'[p].pc \notin Working /\ proc'[p].clock = 0
      BY <2>1 DEF Idle, Working, Publishing, Pointing
    <2>3. ProcTime(p)'
      BY <2>2, OutsideTime
    <2> QED BY <1>1, <1>5, <1>6, <2>1, <2>3, HolderTime
  <1>9. CASE ~End(p)
    <2>1. proc' = [proc EXCEPT ![p].clock = @ + 1, ![p].key = k, ![p].pc = "row"]
      BY <1>9 DEF Measure
    <2>2. /\ proc'[p].pc = "row" /\ proc'[p].run = r /\ proc'[p].ivs = ivs
          /\ proc'[p].clock = clock + 1
          /\ \A q \in Procs \ {p} : proc'[q] = proc[q]
      BY <1>7, <2>1 DEF ProcStates
    <2>3. Ledger(r, ivs, Charged(ivs, clock + 1))'
      <3>0. clock + 1 \in Nat
        BY <1>3
      <3>1. /\ Total(Charged(ivs, clock + 1)) = Total(Charged(ivs, clock)) + 1
            /\ \A i \in 1 .. Len(ivs) : Charged(ivs, clock)[i] <= Charged(ivs, clock + 1)[i]
        BY <1>3, TickCharged
      <3>2. PICK t : t = Charged(ivs, clock) /\ t \in Seq(Nat) /\ Len(t) = Len(ivs)
        BY <1>3, ChargedIs
      <3>3. PICK u : u = Charged(ivs, clock + 1) /\ u \in Seq(Nat) /\ Len(u) = Len(ivs)
        BY <1>3, <3>0, ChargedIs
      <3>4. /\ \A i \in 1 .. Len(ivs) : ivs[i].active <= t[i]
            /\ \A j \in RowsOf(r) : disk[Row(r, j)].active <= t[disk[Row(r, j)].interval]
            /\ Total(t) <= spent[r]
        BY <1>3, <3>2 DEF Ledger
      <3>5. Total(u) <= spent'[r]
        <4>1. Total(t) \in Nat /\ Total(u) = Total(t) + 1
          BY <3>1, <3>2, <3>3, TotalNat
        <4> QED BY <1>4, <3>4, <4>1
      <3>6. \A i \in 1 .. Len(ivs) : ivs[i].active \in Nat /\ t[i] \in Nat /\ u[i] \in Nat /\ t[i] <= u[i]
        <4>1. \A i \in 1 .. Len(ivs) : ivs[i].active \in Nat
          BY <1>3, ActiveTimes
        <4>2. \A i \in 1 .. Len(ivs) : t[i] \in Nat /\ u[i] \in Nat
          BY <3>2, <3>3
        <4> QED BY <3>1, <3>2, <3>3, <4>1, <4>2
      <3>7. \A i \in 1 .. Len(ivs) : ivs[i].active <= u[i]
        BY <3>4, <3>6
      <3>8. ASSUME NEW j \in RowsOf(r)
            PROVE  disk[Row(r, j)].active <= u[disk[Row(r, j)].interval]
        <4>1. PICK i \in 1 .. Len(ivs) : i = disk[Row(r, j)].interval
          BY <1>3
        <4>2. disk[Row(r, j)].active \in Nat
          BY <1>3 DEF IInv, TypeOK, FilesOK, RowsOf, Exists, RowValues
        <4>3. disk[Row(r, j)].active <= t[i] /\ t[i] \in Nat /\ u[i] \in Nat /\ t[i] <= u[i]
          BY <3>4, <3>6, <4>1
        <4>4. disk[Row(r, j)].active <= u[i]
          BY <4>2, <4>3
        <4> QED BY <4>1, <4>4
      <3>9. Ledger(r, ivs, u)'
        BY <1>1, <3>3, <3>5, <3>7, <3>8 DEF Ledger, RowsOf, Exists
      <3> QED BY <3>3, <3>9
    <2>4. ProcTime(p)'
      BY <1>1, <1>3, <2>2, <2>3 DEF ProcTime, Working, Publishing, Pointing
    <2> QED BY <1>1, <1>5, <1>6, <2>2, <2>4, HolderTime
  <1> QED BY <1>8, <1>9

\* A row is measured by the end of the clock of its interval.
LEMMA WriteRowTime ==
  ASSUME IInv, TimeInv, NEW p \in Procs, WriteRow(p)
  PROVE  TimeInv'
  <1> SUFFICES ASSUME NEW r, r = proc[p].run, NEW ivs, ivs = proc[p].ivs,
                      NEW clock, clock = proc[p].clock, NEW k, k = proc[p].key,
                      NEW v, v = [interval |-> Len(ivs), active |-> clock, start |-> proc[p].start]
               PROVE  TimeInv'
    OBVIOUS
  <1>1. Step(p) /\ proc[p].pc = "row" /\ spent' = spent /\ DurableWrite(Row(r, k), v)
    BY DEF Step, WriteRow, At, Run
  <1>2. proc[p].pc \in Working
    BY <1>1 DEF Working
  <1>3. Account(p, r, ivs, clock)
    BY <1>2, WorkingTime
  <1>4. r \in Runs /\ WorkingInv(p, r)
    BY <1>2 DEF IInv, ProcInv
  <1>5. k \in Keys /\ ~Exists(Row(r, k))
    BY <1>1, <1>4 DEF WorkingInv
  <1>6. Row(r, k) \in RowFiles(r) /\ Row(r, k) \in Files
    BY <1>4, <1>5, RunNames
  <1>7. /\ disk'[Row(r, k)] = v /\ \A g \in Files \ {Row(r, k)} : disk'[g] = disk[g]
        /\ \A g \in Files \ RowFiles(r) : stable'[g] = stable[g]
    BY <1>1, <1>4, <1>6, DurableEffect
  <1>8. SpentGrows
    BY <1>1 DEF SpentGrows, TimeInv
  <1>9. /\ disk[Results(r)] = Absent /\ stable[Results(r)] = Absent
        /\ disk'[Results(r)] = Absent /\ stable'[Results(r)] = Absent
        /\ disk'[Checkpoint(r)] = disk[Checkpoint(r)]
    <2>1. RowsOf(r) # Keys
      BY <1>5 DEF RowsOf
    <2>2. disk[Results(r)] = Absent /\ stable[Results(r)] = Absent
      BY <1>4, <2>1 DEF IInv, RunInv, ResultsInv
    <2>3. {Results(r), Checkpoint(r)} \subseteq Files \ RowFiles(r)
      <3>1. {Results(r), Checkpoint(r)} \subseteq RunFiles(r) /\ RunFiles(r) \subseteq Files
        BY <1>4, TimeFiles, RunNames
      <3>2. ASSUME NEW f \in RunFiles(r) PROVE f \notin RowFiles(r)
        <4>1. Len(f) = 2
          BY RunFilesDiffer
        <4> QED BY SMTT(40), <4>1, RowFilesDiffer
      <3> QED BY <3>1, <3>2
    <2> QED BY <1>6, <1>7, <2>2, <2>3
  <1>10. ResultsTime(r)'
    BY <1>9 DEF ResultsTime
  <1>11. /\ RowsOf(r)' \subseteq RowsOf(r) \union {k}
         /\ \A j \in RowsOf(r) : j # k /\ disk'[Row(r, j)] = disk[Row(r, j)]
    <2>1. \A j \in Keys \ {k} : disk'[Row(r, j)] = disk[Row(r, j)]
      BY <1>4, <1>7, AllFiles, RowFilesDiffer
    <2>2. k \notin RowsOf(r)
      BY <1>5 DEF RowsOf
    <2> QED BY <2>1, <2>2 DEF RowsOf, Exists
  <1>12. /\ proc'[p].pc = "progress" /\ proc'[p].run = r /\ proc'[p].ivs = ivs /\ proc'[p].clock = clock
         /\ \A q \in Procs \ {p} : proc'[q] = proc[q]
    <2>1. proc \in [Procs -> ProcStates] /\ proc[p] \in ProcStates
      BY TypeOfProc DEF IInv
    <2>2. proc' = [proc EXCEPT ![p].rows = @ \union {k}, ![p].pc = "progress"]
      BY DEF WriteRow
    <2> QED BY <2>1, <2>2 DEF ProcStates
  <1>13. Ledger(r, ivs, Charged(ivs, clock))'
    <2>1. PICK t : t = Charged(ivs, clock)
      OBVIOUS
    <2>2. /\ t \in Seq(Nat) /\ Len(t) = Len(ivs)
          /\ \A i \in 1 .. Len(ivs) : ivs[i].active <= t[i]
          /\ \A j \in RowsOf(r) : disk[Row(r, j)].active <= t[disk[Row(r, j)].interval]
          /\ Total(t) <= spent[r]
      BY <1>3, <2>1 DEF Account, Ledger
    <2>3. v.active <= t[v.interval]
      <3>1. v.active = clock /\ v.interval = Len(ivs) /\ t[Len(ivs)] = clock /\ clock \in Nat
        BY <1>3, <2>1 DEF Account
      <3> QED BY <3>1
    <2>4. ASSUME NEW j \in RowsOf(r)'
          PROVE  disk'[Row(r, j)].active <= t[disk'[Row(r, j)].interval]
      BY <1>7, <1>11, <2>2, <2>3
    <2>5. Total(t) <= spent'[r]
      BY <1>1, <2>2
    <2> QED BY <2>1, <2>2, <2>4, <2>5 DEF Ledger
  <1>14. ProcTime(p)'
    BY <1>1, <1>3, <1>9, <1>12, <1>13 DEF ProcTime, Account, Working, Publishing, Pointing
  <1>15. DiskTime(r)'
    BY <1>12, <1>14, CheckpointTime DEF Working
  <1> QED BY <1>1, <1>8, <1>10, <1>12, <1>14, <1>15, HolderTime

\* The clock of the last interval after a checkpoint is that of the invocation.
LEMMA AdvancedIs ==
  ASSUME NEW ivs \in Seq(Intervals), ivs # <<>>, NEW clock \in Nat, ivs[Len(ivs)].active <= clock,
         NEW new, new = Advanced(ivs, clock) \/ new = Closed(Advanced(ivs, clock))
  PROVE  /\ new \in Seq(Intervals) /\ Len(new) = Len(ivs)
         /\ \A i \in 1 .. Len(ivs) : new[i].active = Charged(ivs, clock)[i]
         /\ Charged(new, clock) = Charged(ivs, clock)
         /\ new[Len(new)].active = clock
  <1>1. PICK n \in Nat : n = Len(ivs) /\ n \in 1 .. Len(ivs) /\ DOMAIN ivs = 1 .. n
    <2>1. Len(ivs) \in Nat /\ Len(ivs) # 0 /\ DOMAIN ivs = 1 .. Len(ivs)
      OBVIOUS
    <2>2. Len(ivs) \in 1 .. Len(ivs)
      BY <2>1
    <2> QED BY <2>1, <2>2
  <1>2. ivs[n] \in Intervals /\ ivs[n].active \in Nat
    <2>1. ivs[n] \in Intervals
      BY <1>1
    <2> QED BY <2>1 DEF Intervals
  <1>3. Later(ivs[n].active, clock) = clock
    BY <1>1, <1>2 DEF Later
  <1>4. /\ new \in Seq(Intervals) /\ Len(new) = n
    BY <1>1, AdvancedIntervals
  <1>5. PICK adv : adv = Advanced(ivs, clock)
    OBVIOUS
  <1>6. adv = [ivs EXCEPT ![n] = [ivs[n] EXCEPT !.active = clock]]
    BY <1>1, <1>3, <1>5 DEF Advanced
  <1>7. adv \in Seq(Intervals) /\ Len(adv) = n
    BY <1>1, <1>5, AdvancedIntervals
  <1>8. \A i \in 1 .. n : adv[i].active = IF i = n THEN clock ELSE ivs[i].active
    <2>1. adv[n] = [ivs[n] EXCEPT !.active = clock] /\ \A i \in 1 .. n : i # n => adv[i] = ivs[i]
      BY <1>1, <1>6
    <2>2. adv[n].active = clock
      BY <1>2, <2>1 DEF Intervals
    <2> QED BY <2>1, <2>2
  <1>9. ASSUME NEW i \in 1 .. n PROVE new[i].active = adv[i].active
    <2>1. CASE new = adv
      BY <2>1
    <2>2. CASE new = Closed(adv)
      <3>1. n \in DOMAIN adv /\ adv[n] \in Intervals
        BY <1>1, <1>7
      <3>2. new = [adv EXCEPT ![n] = [adv[n] EXCEPT !.completed = TRUE]]
        BY <1>7, <2>2 DEF Closed
      <3>3. new[n].active = adv[n].active
        BY <3>1, <3>2 DEF Intervals
      <3>4. i # n => new[i] = adv[i]
        BY <1>7, <3>2
      <3> QED BY <3>3, <3>4
    <2> QED BY <1>5, <2>1, <2>2
  <1>10. \A i \in 1 .. n : new[i].active = IF i = n THEN clock ELSE ivs[i].active
    BY <1>8, <1>9
  <1>11. \A i \in 1 .. n : new[i].active = Charged(ivs, clock)[i]
    BY <1>1, <1>10 DEF Charged
  <1>12. Charged(new, clock) = Charged(ivs, clock)
    BY <1>1, <1>4, <1>10 DEF Charged
  <1>13. new[n].active = clock
    BY <1>1, <1>10
  <1> QED BY <1>1, <1>4, <1>11, <1>12, <1>13

\* A checkpoint of the same account.
LEMMA ProgressTime ==
  ASSUME IInv, TimeInv, NEW p \in Procs, Reopen(p) \/ UpdateProgress(p) \/ Finalize(p)
  PROVE  TimeInv'
  <1> SUFFICES ASSUME NEW r, r = proc[p].run, NEW ivs, ivs = proc[p].ivs,
                      NEW clock, clock = proc[p].clock
               PROVE  TimeInv'
    OBVIOUS
  <1>1. /\ Step(p) /\ spent' = spent /\ proc[p].pc \in {"reopen", "progress", "next"}
        /\ proc[p].pc \in Working
    BY DEF Step, Reopen, UpdateProgress, Finalize, At, Working
  <1>2. Account(p, r, ivs, clock)
    BY SMTT(40), <1>1, WorkingTime
  <1>3. PICK new, state, label :
            /\ DurableWrite(Checkpoint(r), Progress(p, state, new))
            /\ label \in {"next", "recheck"} /\ state \in {"running", "finalizing"}
            /\ state # "running" => proc[p].rows = Keys
            /\ label = "recheck" => new = Closed(Advanced(ivs, clock))
            /\ \/ new = ivs /\ proc' = [proc EXCEPT ![p].pc = label]
               \/ /\ new = Advanced(ivs, clock) \/ new = Closed(Advanced(ivs, clock))
                  /\ \/ proc' = [proc EXCEPT ![p].ivs = new, ![p].pc = label]
                     \/ proc' = [proc EXCEPT ![p].ivs = new, ![p].key = Absent, ![p].pc = label]
    <2>1. CASE Reopen(p)
      BY <2>1 DEF Reopen, Run, Goto
    <2>2. CASE UpdateProgress(p)
      BY <2>2 DEF UpdateProgress, Run
    <2>3. CASE Finalize(p)
      <3>1. proc[p].rows = Keys
        <4>1. proc[p].rows \subseteq Keys
          BY TypeOfProc DEF IInv, ProcStates
        <4> QED BY <2>3, <4>1 DEF Finalize, Pending
      <3> QED BY <2>3, <3>1 DEF Finalize, Run
    <2> QED BY <2>1, <2>2, <2>3
  <1>4. /\ new \in Seq(Intervals) /\ Len(new) = Len(ivs)
        /\ \A i \in 1 .. Len(ivs) : new[i].active <= Charged(ivs, clock)[i]
        /\ Charged(new, clock) = Charged(ivs, clock)
        /\ label = "recheck" => new[Len(new)].active = clock
    <2>1. CASE new = ivs
      <3>1. label = "recheck" => new[Len(new)].active = clock
        <4>1. ASSUME NEW last, last = Closed(Advanced(ivs, clock)) PROVE last[Len(last)].active = clock
          BY <1>2, <4>1, AdvancedIs DEF Account
        <4> QED BY <1>3, <4>1
      <3> QED BY <1>2, <2>1, <3>1 DEF Account, Ledger
    <2>2. CASE new = Advanced(ivs, clock) \/ new = Closed(Advanced(ivs, clock))
      <3>1. PICK t : t = Charged(ivs, clock) /\ t \in Seq(Nat) /\ Len(t) = Len(ivs)
        BY <1>2, ChargedIs DEF Account
      <3>2. /\ new \in Seq(Intervals) /\ Len(new) = Len(ivs)
            /\ \A i \in 1 .. Len(ivs) : new[i].active = t[i]
            /\ Charged(new, clock) = t
            /\ new[Len(new)].active = clock
        <4>1. ivs \in Seq(Intervals) /\ ivs # <<>> /\ clock \in Nat /\ ivs[Len(ivs)].active <= clock
          BY <1>2 DEF Account
        <4>2. /\ new \in Seq(Intervals) /\ Len(new) = Len(ivs)
              /\ \A i \in 1 .. Len(ivs) : new[i].active = Charged(ivs, clock)[i]
              /\ Charged(new, clock) = Charged(ivs, clock)
              /\ new[Len(new)].active = clock
          BY SMTT(40), <2>2, <4>1, AdvancedIs
        <4> QED BY <3>1, <4>2
      <3>3. \A i \in 1 .. Len(ivs) : new[i].active <= t[i]
        BY <3>1, <3>2
      <3> QED BY <3>1, <3>2, <3>3
    <2> QED BY <1>3, <2>1, <2>2
  <1>5. PICK c : c = Progress(p, state, new)
    OBVIOUS
  <1>6. /\ r \in Runs /\ disk'[Checkpoint(r)] = c /\ c.ivs = new
        /\ \A k \in Keys : disk'[Row(r, k)] = disk[Row(r, k)]
    <2>1. Updates(c, p, state, new)
      BY <1>5 DEF Updates
    <2>2. state \in {"running", "finalizing", "complete"} /\ Len(new) = Len(proc[p].ivs)
      BY <1>3, <1>4
    <2> QED BY <1>1, <1>3, <1>4, <1>5, <2>1, <2>2, ProgressFiles
  <1>7. /\ proc'[p].pc = label /\ proc'[p].run = r /\ proc'[p].ivs = new /\ proc'[p].clock = clock
        /\ \A q \in Procs \ {p} : proc'[q] = proc[q]
    <2>1. proc \in [Procs -> ProcStates] /\ proc[p] \in ProcStates
      BY TypeOfProc DEF IInv
    <2> QED BY <1>3, <2>1 DEF ProcStates
  <1>8. SpentGrows
    BY <1>1 DEF SpentGrows, TimeInv
  <1>9. Ledger(r, new, Charged(new, clock))
    BY <1>2, <1>4 DEF Account, Ledger
  <1>10. RowsStay(r)
    BY <1>6 DEF RowsStay
  <1>11. Ledger(r, new, Charged(new, clock))'
    <2>1. PICK t : t = Charged(new, clock)
      OBVIOUS
    <2>2. Ledger(r, new, t)'
      BY <1>6, <1>8, <1>9, <1>10, <2>1, LedgerStays DEF TimeInv
    <2> QED BY <2>1, <2>2
  <1>12. ProcTime(p)'
    BY <1>3, <1>4, <1>6, <1>7, <1>11 DEF ProcTime, Working, Publishing, Pointing
  <1>13. DiskTime(r)'
    BY <1>3, <1>7, <1>12, CheckpointTime DEF Working
  <1>14. ResultsTime(r)'
    <2>1. disk'[Results(r)] = disk[Results(r)]
      <3>1. Results(r) \in Files /\ Results(r) # Checkpoint(r)
        BY <1>6, AllFiles, RunFilesDiffer
      <3> QED BY <1>3, <3>1, OtherFiles DEF DurableWrite
    <2>2. stable'[Results(r)] \in {stable[Results(r)], disk'[Results(r)]}
      BY <1>1, <1>6, AllFiles, StableMoves
    <2> QED BY <1>6, <1>8, <1>10, <2>1, <2>2, ResultsStay
  <1> QED BY <1>1, <1>6, <1>7, <1>8, <1>12, <1>13, <1>14, HolderTime

\* A resume credits no interval with more than was charged to it, and none
\* with less than its rows prove.
LEMMA RecoveredTime ==
  ASSUME TypeOK, NEW r \in Runs, NEW ivs \in Seq(Intervals), NEW t, Ledger(r, ivs, t)
  PROVE  /\ \A i \in 1 .. Len(ivs) : Recovered(r, ivs)[i].active \in Nat
                                     /\ Recovered(r, ivs)[i].active <= t[i]
         /\ \A k \in RowsOf(r) : disk[Row(r, k)].interval \in 1 .. Len(ivs) =>
                disk[Row(r, k)].active <= Recovered(r, ivs)[disk[Row(r, k)].interval].active
  <1>1. ASSUME NEW i \in 1 .. Len(ivs)
        PROVE  /\ Recovered(r, ivs)[i].active = Later(ivs[i].active, Proved(r, i))
               /\ ivs[i].active \in Nat
    <2>1. ivs[i] \in Intervals /\ i \in DOMAIN ivs
      OBVIOUS
    <2>2. Recovered(r, ivs)[i] = [ivs[i] EXCEPT !.active = Later(@, Proved(r, i)),
                                    !.interrupted = @ \/ (i = Len(ivs) /\ ~ivs[i].completed)]
      BY <2>1 DEF Recovered
    <2> DEFINE a == Later(ivs[i].active, Proved(r, i))
               b == ivs[i].interrupted \/ (i = Len(ivs) /\ ~ivs[i].completed)
    <2>3. Recovered(r, ivs)[i] = [ivs[i] EXCEPT !.active = a, !.interrupted = b]
      BY <2>2
    <2> HIDE DEF a, b
    <2>4. Recovered(r, ivs)[i].active = a
      BY <2>1, <2>3 DEF Intervals
    <2> QED BY <2>1, <2>4 DEF a, Intervals
  <1>2. ASSUME NEW i \in 1 .. Len(ivs)
        PROVE  /\ Recovered(r, ivs)[i].active \in Nat /\ Recovered(r, ivs)[i].active <= t[i]
               /\ Proved(r, i) <= Recovered(r, ivs)[i].active
    <2>1. PICK a \in Nat : a = ivs[i].active
      BY <1>1
    <2>2. PICK m \in Nat : m = Proved(r, i)
      BY ProvedIs
    <2>3. PICK n \in Nat : n = t[i]
      BY DEF Ledger
    <2>4. a <= n
      BY <2>1, <2>3 DEF Ledger
    <2>5. m <= n
      <3>1. CASE m = 0
        BY <3>1
      <3>2. CASE m # 0
        <4>1. PICK k \in RowsOf(r) : disk[Row(r, k)].interval = i /\ disk[Row(r, k)].active = m
          BY <2>2, <3>2, ProvedIs
        <4> QED BY <2>3, <4>1 DEF Ledger
      <3> QED BY <3>1, <3>2
    <2>6. Recovered(r, ivs)[i].active = IF a > m THEN a ELSE m
      BY <1>1, <2>1, <2>2 DEF Later
    <2> QED BY <2>2, <2>3, <2>4, <2>5, <2>6
  <1>3. ASSUME NEW k \in RowsOf(r), NEW i \in 1 .. Len(ivs), i = disk[Row(r, k)].interval
        PROVE  disk[Row(r, k)].active <= Recovered(r, ivs)[i].active
    <2>1. PICK a \in Nat : a = disk[Row(r, k)].active
      BY DEF TypeOK, FilesOK, RowsOf, Exists, RowValues
    <2>2. PICK m \in Nat : m = Proved(r, i) /\ a <= m
      BY <1>3, <2>1, ProvedIs
    <2>3. PICK n \in Nat : n = Recovered(r, ivs)[i].active /\ m <= n
      BY <1>2, <2>2
    <2> QED BY <2>1, <2>2, <2>3
  <1> QED BY <1>2, <1>3

\* The account of an invocation that reopens a run.
LEMMA ReopenedTime ==
  ASSUME TypeOK, NEW r \in Runs, NEW old \in Seq(Intervals), NEW t, Ledger(r, old, t),
         spent \in [Runs -> Nat],
         \A k \in RowsOf(r) : disk[Row(r, k)].interval \in 1 .. Len(old),
         NEW ivs, ivs = Append(Recovered(r, old), Opened)
  PROVE  Ledger(r, ivs, Charged(ivs, 0))
  <1>1. PICK n \in Nat : n = Len(old) /\ n + 1 \in 1 .. n + 1
    OBVIOUS
  <1>2. /\ Recovered(r, old) \in Seq(Intervals) /\ Len(Recovered(r, old)) = n
        /\ ivs \in Seq(Intervals) /\ Len(ivs) = n + 1
    BY <1>1, RecoveredIntervals
  <1>3. Opened \in Intervals /\ Opened.active = 0
    BY DEF Opened, Intervals
  <1>4. ivs[n + 1].active = 0 /\ \A i \in 1 .. n : ivs[i].active = Recovered(r, old)[i].active
    <2>1. ivs[n + 1] = Opened /\ \A i \in 1 .. n : ivs[i] = Recovered(r, old)[i]
      BY <1>2, <1>3, AppendProperties
    <2> QED BY <1>3, <2>1
  <1>5. PICK u : /\ u = Charged(ivs, 0) /\ u \in Seq(Nat) /\ Len(u) = n + 1
                 /\ \A i \in 1 .. n + 1 : u[i] = IF i = n + 1 THEN 0 ELSE ivs[i].active
    <2>1. ASSUME NEW clock \in Nat
          PROVE  /\ Charged(ivs, clock) \in Seq(Nat) /\ Len(Charged(ivs, clock)) = n + 1
                 /\ \A i \in 1 .. n + 1 :
                        Charged(ivs, clock)[i] = IF i = n + 1 THEN clock ELSE ivs[i].active
      <3>1. /\ Charged(ivs, clock) \in Seq(Nat) /\ Len(Charged(ivs, clock)) = Len(ivs)
            /\ \A i \in 1 .. Len(ivs) :
                   Charged(ivs, clock)[i] = IF i = Len(ivs) THEN clock ELSE ivs[i].active
        BY <1>2, ChargedIs
      <3> QED BY <1>2, <3>1
    <2>2. /\ Charged(ivs, 0) \in Seq(Nat) /\ Len(Charged(ivs, 0)) = n + 1
          /\ \A i \in 1 .. n + 1 : Charged(ivs, 0)[i] = IF i = n + 1 THEN 0 ELSE ivs[i].active
      BY <2>1
    <2> QED BY <2>2
  <1>6. /\ \A i \in 1 .. n + 1 : u[i] = ivs[i].active /\ u[i] \in Nat
        /\ \A i \in 1 .. n : u[i] = Recovered(r, old)[i].active
        /\ u[n + 1] = 0
    <2>1. ASSUME NEW i \in 1 .. n + 1 PROVE u[i] = ivs[i].active /\ u[i] \in Nat
      <3>1. i # n + 1 => i \in 1 .. n
        OBVIOUS
      <3>2. u[i] = ivs[i].active
        BY <1>4, <1>5
      <3>3. u[i] \in Nat
        BY <1>5
      <3> QED BY <3>2, <3>3
    <2>2. u[n + 1] = 0
      BY <1>1, <1>5
    <2>3. ASSUME NEW i \in 1 .. n PROVE u[i] = Recovered(r, old)[i].active
      <3>1. i \in 1 .. n + 1
        OBVIOUS
      <3>2. u[i] = ivs[i].active
        BY <2>1, <3>1
      <3> QED BY <1>4, <3>2
    <2> QED BY <2>1, <2>2, <2>3
  <1>7. t \in Seq(Nat) /\ Len(t) = n /\ Total(t) <= spent[r]
    BY <1>1 DEF Ledger
  <1>8. \A i \in 1 .. n : u[i] <= t[i]
    BY <1>1, <1>6, RecoveredTime
  <1>9. ASSUME NEW k \in RowsOf(r) PROVE disk[Row(r, k)].active <= u[disk[Row(r, k)].interval]
    <2>1. disk[Row(r, k)].interval \in 1 .. n
      BY <1>1
    <2>2. disk[Row(r, k)].active <= Recovered(r, old)[disk[Row(r, k)].interval].active
      BY <1>1, <2>1, RecoveredTime
    <2> QED BY <1>6, <2>1, <2>2
  <1>10. Total(u) <= spent[r]
    <2>1. PICK s \in Seq(Nat) : s = Append(t, 0)
      BY <1>7, AppendProperties
    <2>2. Len(s) = n + 1 /\ s[n + 1] = 0 /\ \A i \in 1 .. n : s[i] = t[i]
      BY SMTT(40), <1>7, <2>1, AppendProperties
    <2>3. Total(s) = Total(t)
      BY <1>7, <2>2, TotalAppend
    <2>4. \A i \in 1 .. Len(u) : u[i] <= s[i]
      <3>1. ASSUME NEW i \in 1 .. n + 1 PROVE u[i] <= s[i]
        <4>1. CASE i = n + 1
          BY <1>6, <2>2, <4>1
        <4>2. CASE i \in 1 .. n
          BY <1>8, <2>2, <4>2
        <4> QED BY <4>1, <4>2
      <3> QED BY <1>5, <3>1
    <2>5. Total(u) \in Nat /\ Total(s) \in Nat /\ Total(u) <= Total(s)
      BY <1>5, <2>2, <2>4, TotalGrows
    <2> QED BY <1>7, <2>3, <2>5
  <1>11. \A i \in 1 .. Len(ivs) : ivs[i].active <= u[i]
    BY <1>2, <1>6
  <1> QED BY <1>2, <1>5, <1>9, <1>10, <1>11 DEF Ledger

LEMMA CheckTime ==
  ASSUME IInv, TimeInv, NEW p \in Procs, Check(p)
  PROVE  TimeInv'
  <1>1. CASE End(p)
    BY <1>1, EndTime DEF Check
  <1>2. ASSUME NEW r, r = proc[p].run, NEW c, c = disk[Checkpoint(r)], Accepts(p, r), ~End(p),
               NEW ivs, ivs = Append(Recovered(r, c.ivs), Opened)
        PROVE  TimeInv'
    <2>1. Step(p) /\ proc[p].pc = "check" /\ r \in Runs /\ UNCHANGED <<disk, stable, spent>>
      BY <1>2 DEF Step, Check, At, IInv, ProcInv
    <2>2. c \in CheckpointValues /\ c.ivs \in Seq(Intervals) /\ Exists(Checkpoint(r))
      <3>1. c \in CheckpointValues /\ c # Absent
        BY <1>2, <2>1 DEF Accepts, IInv, TypeOK, FilesOK
      <3> QED BY <1>2, <3>1 DEF CheckpointValues, Exists
    <2>3. PICK t : Ledger(r, c.ivs, t)
      BY <1>2, <2>1, <2>2 DEF TimeInv, DiskTime
    <2>4. \A k \in RowsOf(r) : disk[Row(r, k)].interval \in 1 .. Len(c.ivs)
      <3>1. \A k \in RowsOf(r) : disk[Row(r, k)].interval \in DOMAIN c.ivs
        BY <1>2 DEF Accepts
      <3>2. DOMAIN c.ivs = 1 .. Len(c.ivs)
        BY <2>2
      <3> QED BY <3>1, <3>2
    <2>5. Ledger(r, ivs, Charged(ivs, 0))
      BY <1>2, <2>1, <2>2, <2>3, <2>4, ReopenedTime DEF IInv, TimeInv
    <2>6. proc[p].clock = 0
      BY <2>1 DEF TimeInv, ProcTime, Working, Publishing, Pointing
    <2>7. /\ proc'[p].pc = "reopen" /\ proc'[p].run = r /\ proc'[p].ivs = ivs /\ proc'[p].clock = 0
          /\ \A q \in Procs \ {p} : proc'[q] = proc[q]
      <3>1. proc \in [Procs -> ProcStates] /\ proc[p] \in ProcStates
        BY SMTT(40), TypeOfProc DEF IInv
      <3>2. PICK stored, rows : proc' = [proc EXCEPT ![p].stored = stored, ![p].rows = rows,
                                                     ![p].ivs = ivs, ![p].pc = "reopen"]
        BY <1>2 DEF Check, Run
      <3>3. /\ proc'[p] = [proc[p] EXCEPT !.stored = stored, !.rows = rows, !.ivs = ivs, !.pc = "reopen"]
            /\ \A q \in Procs \ {p} : proc'[q] = proc[q]
        BY <3>1, <3>2
      <3> QED BY <1>2, <2>6, <3>1, <3>3 DEF ProcStates
    <2>8. SpentGrows
      BY <2>1 DEF SpentGrows, TimeInv
    <2>9. DiskTime(r)' /\ ResultsTime(r)'
      BY <2>1, <2>8, QuietTime
    <2>10. Ledger(r, ivs, Charged(ivs, 0))'
      <3>1. PICK u : u = Charged(ivs, 0)
        OBVIOUS
      <3>2. Ledger(r, ivs, u)'
        BY <2>1, <2>5, <2>8, <3>1, LedgerStays DEF RowsStay, TimeInv
      <3> QED BY <3>1, <3>2
    <2>11. ProcTime(p)'
      BY <2>7, <2>10 DEF ProcTime, Working, Publishing, Pointing
    <2> QED BY <1>2, <2>1, <2>7, <2>8, <2>9, <2>11, HolderTime
  <1> QED BY <1>1, <1>2 DEF Check, Run

LEMMA FirstTime ==
  ASSUME IInv, TimeInv, NEW p \in Procs, FirstCheckpoint(p)
  PROVE  TimeInv'
  <1> SUFFICES ASSUME NEW r, r = proc[p].run PROVE TimeInv'
    OBVIOUS
  <1>1. Step(p) /\ proc[p].pc = "first" /\ spent' = spent
    BY DEF Step, FirstCheckpoint, At
  <1>2. r \in Runs /\ CreatingInv(p, r) /\ proc[p].clock = 0
    BY <1>1 DEF IInv, ProcInv, Creating, TimeInv, ProcTime, Working, Publishing, Pointing
  <1>3. PICK c : DurableWrite(Checkpoint(r), c) /\ c.ivs = <<Opened>>
    BY DEF FirstCheckpoint, Run
  <1>4. Checkpoint(r) \in RunFiles(r)
    BY DEF RunFiles
  <1>5. disk'[Checkpoint(r)] = c /\ \A g \in Files \ {Checkpoint(r)} : disk'[g] = disk[g]
    BY <1>2, <1>3, <1>4, DurableEffect
  <1>6. /\ proc'[p].pc = "next" /\ proc'[p].run = r /\ proc'[p].ivs = <<Opened>> /\ proc'[p].clock = 0
        /\ \A q \in Procs \ {p} : proc'[q] = proc[q]
    <2>1. proc \in [Procs -> ProcStates] /\ proc[p] \in ProcStates
      BY TypeOfProc DEF IInv
    <2>2. proc' = [proc EXCEPT ![p].ivs = <<Opened>>, ![p].pc = "next"]
      BY DEF FirstCheckpoint
    <2> QED BY <1>2, <2>1, <2>2 DEF ProcStates
  <1>7. SpentGrows
    BY <1>1 DEF SpentGrows, TimeInv
  <1>8. /\ disk[Results(r)] = Absent /\ stable[Results(r)] = Absent
        /\ \A k \in Keys : disk[Row(r, k)] = Absent
    BY <1>2, RunNames DEF CreatingInv
  <1>9. RowsOf(r)' = {}
    <2>1. \A k \in Keys : disk'[Row(r, k)] = Absent
      BY <1>2, <1>5, <1>8, AllFiles, RowIsNoCheckpoint
    <2> QED BY <2>1 DEF RowsOf, Exists
  <1>10. ResultsTime(r)'
    <2>1. Results(r) \in Files /\ Results(r) # Checkpoint(r)
      BY <1>2, AllFiles, RunFilesDiffer
    <2>2. disk'[Results(r)] = Absent
      BY <1>5, <1>8, <2>1
    <2>3. stable'[Results(r)] = Absent
      BY <1>1, <1>8, <2>1, <2>2, StableMoves
    <2> QED BY <2>2, <2>3 DEF ResultsTime
  <1>11. Ledger(r, <<Opened>>, Charged(<<Opened>>, 0))'
    <2>1. PICK ivs : ivs = <<Opened>> /\ Len(ivs) = 1 /\ ivs[1].active = 0
      <3>1. Len(<<Opened>>) = 1 /\ <<Opened>>[1] = Opened
        OBVIOUS
      <3>2. Opened.active = 0
        BY DEF Opened
      <3> QED BY <3>1, <3>2
    <2>2. Charged(ivs, 0) = [i \in 1 .. 1 |-> 0]
      BY <2>1 DEF Charged
    <2> SUFFICES ASSUME NEW t, t = Charged(ivs, 0) PROVE Ledger(r, ivs, t)'
      BY <2>1
    <2>3. t \in Seq(Nat) /\ Len(t) = 1 /\ t[1] = 0
      <3>1. ivs \in Seq(Intervals)
        <4>1. Opened \in Intervals
          BY DEF Opened, Intervals
        <4> QED BY <2>1, <4>1
      <3>2. ASSUME NEW clock \in Nat
            PROVE  Charged(ivs, clock) \in Seq(Nat) /\ Len(Charged(ivs, clock)) = Len(ivs)
        BY <3>1, ChargedIs
      <3>3. Charged(ivs, 0) \in Seq(Nat) /\ Len(Charged(ivs, 0)) = Len(ivs)
        BY <3>2
      <3> QED BY <2>1, <2>2, <3>3
    <2>4. Total(t) = 0
      <3>1. <<>> \in Seq(Nat) /\ Len(<<>>) = 0
        OBVIOUS
      <3>2. PICK g : Sums(0, <<>>, g) /\ Total(<<>>) = g[0]
        BY <3>1, TotalIs
      <3>3. Total(<<>>) = 0
        BY <3>2 DEF Sums
      <3>4. PICK e \in Seq(Nat) : e = <<>> /\ Len(e) = 0
        BY <3>1
      <3>5. Len(t) = Len(e) + 1 /\ t[Len(t)] = 0 /\ \A i \in 1 .. Len(e) : t[i] = e[i]
        BY <2>3, <3>4
      <3>6. Total(t) = Total(e)
        BY <2>3, <3>5, TotalAppend
      <3> QED BY <3>3, <3>4, <3>6
    <2>5. Total(t) <= spent'[r]
      BY <1>2, <1>7, <2>4 DEF SpentGrows
    <2>6. \A i \in 1 .. Len(ivs) : ivs[i].active <= t[i]
      BY <2>1, <2>3
    <2>7. Ledger(r, ivs, t)'
      BY <1>9, <2>1, <2>3, <2>5, <2>6 DEF Ledger
    <2> QED BY <2>7
  <1>12. ProcTime(p)'
    BY <1>3, <1>5, <1>6, <1>11 DEF ProcTime, Working, Publishing, Pointing
  <1>13. DiskTime(r)'
    BY <1>6, <1>12, CheckpointTime DEF Working
  <1>14. proc[p].pc \notin {"idle", "lock"}
    BY <1>1
  <1> QED BY <1>1, <1>6, <1>7, <1>10, <1>12, <1>13, <1>14, HolderTime

\* The report is the account of the last checkpoint.
LEMMA RecheckTime ==
  ASSUME IInv, TimeInv, NEW p \in Procs, Recheck(p)
  PROVE  TimeInv'
  <1> SUFFICES ASSUME NEW r, r = proc[p].run, NEW ivs, ivs = proc[p].ivs,
                      NEW clock, clock = proc[p].clock
               PROVE  TimeInv'
    OBVIOUS
  <1>1. CASE End(p)
    BY <1>1, EndTime DEF Recheck
  <1>2. CASE ~End(p)
    <2>1. /\ Step(p) /\ proc[p].pc = "recheck" /\ proc[p].pc \in Working
          /\ UNCHANGED <<disk, stable, spent>>
      BY DEF Step, Recheck, At, Working
    <2>2. Account(p, r, ivs, clock) /\ ivs[Len(ivs)].active = clock
      <3>1. ivs[Len(ivs)].active = clock
        BY <2>1 DEF TimeInv, ProcTime
      <3> QED BY <2>1, <3>1, WorkingTime
    <2>doc. PICK doc : doc.ivs = ivs /\ proc' = [proc EXCEPT ![p].doc = doc, ![p].pc = "results"]
      BY <1>2 DEF Recheck
    <2>4. /\ proc'[p].pc = "results" /\ proc'[p].run = r /\ proc'[p].ivs = ivs /\ proc'[p].clock = clock
          /\ proc'[p].doc = doc
          /\ \A q \in Procs \ {p} : proc'[q] = proc[q]
      <3>1. proc \in [Procs -> ProcStates] /\ proc[p] \in ProcStates
        BY TypeOfProc DEF IInv
      <3>2. /\ proc'[p] = [proc[p] EXCEPT !.doc = doc, !.pc = "results"]
            /\ \A q \in Procs \ {p} : proc'[q] = proc[q]
        BY <2>doc, <3>1
      <3> QED BY <3>1, <3>2 DEF ProcStates
    <2>5. Reported(r, ivs)
      <3>1. PICK t : t = Charged(ivs, clock) /\ t \in Seq(Nat) /\ Len(t) = Len(ivs)
        BY <2>2, ChargedIs DEF Account
      <3>2. \A i \in 1 .. Len(ivs) : t[i] = ivs[i].active
        BY <2>2, <3>1, ChargedIs DEF Account
      <3>3. [i \in DOMAIN ivs |-> ivs[i].active] = t
        <4>1. DOMAIN ivs = 1 .. Len(ivs)
          BY <2>2 DEF Account
        <4>2. t = [i \in 1 .. Len(ivs) |-> t[i]]
          BY <3>1
        <4> QED BY <3>2, <4>1, <4>2
      <3>4. TotalActive(ivs) = Total(t)
        BY <3>3 DEF TotalActive
      <3>5. /\ Total(t) <= spent[r]
            /\ \A k \in RowsOf(r) : disk[Row(r, k)].active <= t[disk[Row(r, k)].interval]
        BY <2>2, <3>1 DEF Account, Ledger
      <3>6. \A k \in RowsOf(r) : disk[Row(r, k)].interval \in 1 .. Len(ivs)
        BY <2>2 DEF Account
      <3> QED BY <3>2, <3>4, <3>5, <3>6 DEF Reported
    <2>6. SpentGrows
      BY <2>1 DEF SpentGrows, TimeInv
    <2>7. RowsStay(r) /\ r \in Runs /\ ivs \in Seq(Intervals)
      BY <2>1, <2>2 DEF RowsStay, Account
    <2>8. Ledger(r, ivs, Charged(ivs, clock))' /\ Reported(r, ivs)'
      <3>1. PICK t : t = Charged(ivs, clock)
        OBVIOUS
      <3>2. Ledger(r, ivs, t)'
        BY <2>2, <2>6, <2>7, <3>1, LedgerStays DEF Account, TimeInv
      <3>3. Reported(r, ivs)'
        BY <2>5, <2>6, <2>7, ReportedStays DEF TimeInv
      <3> QED BY <3>1, <3>2, <3>3
    <2>9. ProcTime(p)'
      BY <2>1, <2>2, <2>doc, <2>4, <2>8 DEF ProcTime, Account, Working, Publishing, Pointing
    <2>10. DiskTime(r)' /\ ResultsTime(r)'
      BY <2>1, <2>6, <2>7, QuietTime
    <2>11. proc[p].pc \notin {"idle", "lock"}
      BY <2>1
    <2> QED BY <2>1, <2>4, <2>6, <2>9, <2>10, <2>11, HolderTime
  <1> QED BY <1>1, <1>2

\* An invocation that publishes keeps its account.
LEMMA PublishingTime ==
  ASSUME IInv, TimeInv, NEW p \in Procs, Step(p), proc[p].pc \in Publishing, SpentGrows,
         NEW r, r = proc[p].run, RowsStay(r), disk'[Checkpoint(r)] = disk[Checkpoint(r)],
         proc'[p].pc \in Publishing, proc'[p].run = r, proc'[p].ivs = proc[p].ivs,
         proc'[p].clock = proc[p].clock, proc'[p].doc = proc[p].doc,
         \A q \in Procs \ {p} : proc'[q] = proc[q],
         {disk'[Results(r)], stable'[Results(r)]}
             \subseteq {proc[p].doc, disk[Results(r)], stable[Results(r)]}
  PROVE  TimeInv'
  <1> SUFFICES ASSUME NEW ivs, ivs = proc[p].ivs, NEW clock, clock = proc[p].clock,
                      NEW doc, doc = proc[p].doc
               PROVE  TimeInv'
    OBVIOUS
  <1>1. proc[p].pc \in Working /\ proc[p].pc \notin {"reopen", "idle", "lock"}
    BY DEF Working, Publishing, Pointing
  <1>2. Account(p, r, ivs, clock)
    BY <1>1, WorkingTime
  <1>3. ivs[Len(ivs)].active = clock /\ Reported(r, doc.ivs) /\ disk[Checkpoint(r)].ivs = ivs
    BY <1>1 DEF TimeInv, ProcTime
  <1>4. doc.ivs \in Seq(Intervals) /\ r \in Runs /\ Exists(Checkpoint(r))
    BY PublishingFacts DEF Docs
  <1>5. Ledger(r, ivs, Charged(ivs, clock))'
    <2>1. PICK t : t = Charged(ivs, clock)
      OBVIOUS
    <2>2. Ledger(r, ivs, t)'
      BY <1>2, <1>4, <2>1, LedgerStays DEF Account, TimeInv
    <2> QED BY <2>1, <2>2
  <1>6. Reported(r, doc.ivs)'
    BY <1>3, <1>4, ReportedStays DEF TimeInv
  <1>7. ProcTime(p)'
    BY <1>2, <1>3, <1>5, <1>6 DEF ProcTime, Account, Working, Publishing, Pointing
  <1>8. DiskTime(r)'
    BY <1>7, CheckpointTime DEF Working, Publishing, Pointing
  <1>9. ResultsTime(r)'
    <2>1. ASSUME NEW d \in {disk[Results(r)], stable[Results(r)]}, d # Absent
          PROVE  Reported(r, d.ivs)'
      <3>1. Reported(r, d.ivs)
        BY <1>4, <2>1 DEF TimeInv, ResultsTime
      <3>2. d.ivs \in Seq(Intervals)
        BY <1>4, <2>1 DEF IInv, TypeOK, FilesOK, Docs
      <3> QED BY <1>4, <3>1, <3>2, ReportedStays DEF TimeInv
    <2>2. ASSUME NEW d, d = disk'[Results(r)] \/ d = stable'[Results(r)], d # Absent
          PROVE  Reported(r, d.ivs)'
      BY <1>6, <2>1, <2>2
    <2>3. disk'[Results(r)] # Absent => Reported(r, disk[Results(r)].ivs)'
      BY <2>2
    <2>4. stable'[Results(r)] # Absent => Reported(r, stable[Results(r)].ivs)'
      BY <2>2
    <2> QED BY <2>3, <2>4 DEF ResultsTime
  <1> QED BY <1>1, <1>7, <1>8, <1>9, HolderTime

LEMMA PublishTime ==
  ASSUME IInv, TimeInv, NEW p \in Procs,
         \/ WriteResults(p) \/ WriteCsv(p) \/ SyncRun(p)
         \/ PointTxt(p) \/ PointJson(p) \/ SyncRoot(p)
  PROVE  TimeInv'
  <1> SUFFICES ASSUME NEW r, r = proc[p].run PROVE TimeInv'
    OBVIOUS
  <1>1. /\ Step(p) /\ spent' = spent
        /\ proc[p].pc \in {"results", "csv", "sync", "txt", "json", "root"}
    BY DEF Step, WriteResults, WriteCsv, SyncRun, PointTxt, PointJson, SyncRoot, At
  <1>2. proc[p].pc \in Publishing
    BY <1>1 DEF Publishing, Pointing
  <1>3. r \in Runs
    BY <1>2, PublishingFacts
  <1>4. PICK label \in {"csv", "sync", "txt", "json", "root", "complete"} : proc' = [proc EXCEPT ![p].pc = label]
    BY DEF WriteResults, WriteCsv, SyncRun, PointTxt, PointJson, SyncRoot, Goto
  <1>5. /\ proc'[p].pc = label /\ proc'[p].run = r /\ proc'[p].ivs = proc[p].ivs
        /\ proc'[p].clock = proc[p].clock /\ proc'[p].doc = proc[p].doc
        /\ \A q \in Procs \ {p} : proc'[q] = proc[q]
    <2>1. label \in Steps
      BY DEF Steps
    <2> QED BY <1>4, <2>1, GotoEffect DEF IInv
  <1>6. proc'[p].pc \in Publishing
    BY <1>5 DEF Publishing, Pointing
  <1>7. SpentGrows
    BY <1>1 DEF SpentGrows, TimeInv
  <1>8. PICK x \in {Results(r), Csv(r), LatestTxt, LatestJson} :
            /\ \A g \in Files \ {x} : disk'[g] = disk[g]
            /\ x = Results(r) => disk'[x] \in {disk[x], proc[p].doc}
    <2>1. CASE WriteResults(p)
      <3>1. Results(r) \in Files /\ Replace(Results(r), proc[p].doc)
        BY <1>3, <2>1, AllFiles DEF WriteResults, Run
      <3>2. disk'[Results(r)] = proc[p].doc /\ \A g \in Files \ {Results(r)} : disk'[g] = disk[g]
        BY <3>1, ReplaceEffect
      <3> QED BY <3>2
    <2>2. CASE WriteCsv(p) \/ PointTxt(p) \/ PointJson(p)
      <3>0. PICK y \in {Csv(r), LatestTxt, LatestJson} : \E v : Replace(y, v)
        BY <2>2 DEF WriteCsv, PointTxt, PointJson, Run
      <3>1. PICK v : Replace(y, v)
        BY <3>0
      <3>2. y \in Files /\ y # Results(r)
        <4>1. CASE y = Csv(r)
          BY <1>3, <4>1, AllFiles, RunFilesDiffer
        <4>2. CASE y \in Latest
          <5>1. y \in Files /\ y \notin RunFiles(r)
            BY <1>3, <4>2, LatestFiles, LatestDiffer
          <5> QED BY <1>3, <5>1, TimeFiles
        <4> QED BY <4>1, <4>2, LatestFiles
      <3>3. \A g \in Files \ {y} : disk'[g] = disk[g]
        BY <3>1, <3>2, ReplaceEffect
      <3> QED BY <3>2, <3>3
    <2>3. CASE SyncRun(p) \/ SyncRoot(p)
      BY <2>3 DEF SyncRun, SyncRoot
    <2> QED BY <2>1, <2>2, <2>3
  <1>9. x # Checkpoint(r) /\ x \notin RowFiles(r)
    <2>1. CASE x \in Latest
      BY <1>3, <2>1, LatestDiffer, TimeFiles
    <2>2. CASE x \in {Results(r), Csv(r)}
      <3>1. Len(x) = 2 /\ x # Checkpoint(r)
        BY <2>2, Lengths, RunFilesDiffer
      <3> QED BY <3>1, RowFilesDiffer
    <2> QED BY <2>1, <2>2, LatestFiles
  <1>10. RowsStay(r) /\ disk'[Checkpoint(r)] = disk[Checkpoint(r)]
    BY <1>3, <1>8, <1>9, AllFiles, RunNames DEF RowsStay
  <1>11. disk'[Results(r)] \in {proc[p].doc, disk[Results(r)]}
    BY <1>3, <1>8, AllFiles
  <1>12. stable'[Results(r)] \in {stable[Results(r)], disk'[Results(r)]}
    BY <1>1, <1>3, AllFiles, StableMoves
  <1>13. {disk'[Results(r)], stable'[Results(r)]} \subseteq {proc[p].doc, disk[Results(r)], stable[Results(r)]}
    BY <1>11, <1>12
  <1> QED BY <1>1, <1>2, <1>5, <1>6, <1>7, <1>10, <1>13, PublishingTime

LEMMA CompleteTime ==
  ASSUME IInv, TimeInv, NEW p \in Procs, Complete(p)
  PROVE  TimeInv'
  <1> SUFFICES ASSUME NEW r, r = proc[p].run PROVE TimeInv'
    OBVIOUS
  <1>1. Step(p) /\ proc[p].pc = "complete" /\ spent' = spent /\ End(p)
    BY DEF Step, Complete, At
  <1>2. PICK c : /\ c = [Progress(p, "complete", proc[p].ivs) EXCEPT !.results = disk[Results(r)]]
                 /\ DurableWrite(Checkpoint(r), c)
    BY DEF Complete, Run
  <1>3. proc[p].pc \in Working /\ proc[p].pc \in Publishing /\ proc[p].pc # "reopen"
    BY <1>1 DEF Working, Publishing, Pointing
  <1>4. r \in Runs /\ WorkingInv(p, r) /\ Exists(Checkpoint(r))
    BY <1>3, PublishingFacts
  <1>5. disk[Checkpoint(r)].ivs = proc[p].ivs
    BY <1>3 DEF TimeInv, ProcTime
  <1>6. disk'[Checkpoint(r)] = c /\ c.ivs = proc[p].ivs /\ \A k \in Keys : disk'[Row(r, k)] = disk[Row(r, k)]
    <2>1. Updates(c, p, "complete", proc[p].ivs)
      BY <1>2 DEF Updates, Run
    <2>2. /\ proc[p].ivs \in Seq(Intervals) /\ proc[p].rows = Keys
          /\ "complete" \in {"running", "finalizing", "complete"}
      <3>1. proc[p] \in ProcStates
        BY TypeOfProc DEF IInv
      <3> QED BY <1>3, <1>4, <3>1 DEF ProcStates, WorkingInv
    <2>3. disk'[Checkpoint(r)] = c /\ c.ivs = proc[p].ivs
      <3>1. disk'[Checkpoint(r)] = c
        BY <1>2, <1>3, <2>1, <2>2, ProgressFiles
      <3>2. c.ivs = proc[p].ivs
        <4>1. disk[Checkpoint(r)] \in CheckpointValues
          BY <1>4 DEF Exists, IInv, TypeOK, FilesOK
        <4>2. c = [[disk[Checkpoint(r)] EXCEPT !.state = "complete", !.count = Cardinality(proc[p].rows),
                                              !.ivs = proc[p].ivs] EXCEPT !.results = disk[Results(r)]]
          BY <1>2 DEF Progress, Run
        <4> QED BY <4>1, <4>2 DEF CheckpointValues
      <3> QED BY <3>1, <3>2
    <2>4. ASSUME NEW k \in Keys PROVE disk'[Row(r, k)] = disk[Row(r, k)]
      <3>1. Row(r, k) \in Files /\ Row(r, k) # Checkpoint(r)
        BY <1>4, AllFiles, RowIsNoCheckpoint
      <3> QED BY <1>2, <3>1, OtherFiles DEF DurableWrite
    <2> QED BY <2>3, <2>4
  <1>7. TimeStays(r)
    <2>1. Results(r) \in Files /\ Results(r) # Checkpoint(r)
      BY <1>4, AllFiles, RunFilesDiffer
    <2>2. disk'[Results(r)] = disk[Results(r)]
      BY <1>2, <2>1, OtherFiles DEF DurableWrite
    <2>3. stable'[Results(r)] \in {stable[Results(r)], disk'[Results(r)]}
      BY <1>1, <2>1, StableMoves
    <2> QED BY <1>4, <1>5, <1>6, <2>2, <2>3 DEF TimeStays, RowsStay
  <1>8. SpentGrows
    BY <1>1 DEF SpentGrows, TimeInv
  <1>9. DiskTime(r)' /\ ResultsTime(r)'
    BY <1>4, <1>7, <1>8, RunStays
  <1>10. proc'[p] = Idle /\ \A q \in Procs \ {p} : proc'[q] = proc[q]
    BY <1>1, TypeOfProc DEF End, IInv
  <1>11. ProcTime(p)'
    <2>1. proc'[p].pc \notin Working /\ proc'[p].clock = 0
      BY <1>10 DEF Idle, Working, Publishing, Pointing
    <2> QED BY <2>1, OutsideTime
  <1>12. proc[p].pc \notin {"idle", "lock"}
    BY <1>1
  <1> QED BY <1>1, <1>8, <1>9, <1>10, <1>11, <1>12, HolderTime

LEMMA LossTime ==
  ASSUME IInv, TimeInv, PowerLoss
  PROVE  TimeInv'
  <1>1. SpentGrows /\ \A p \in Procs : proc'[p] = Idle
    BY DEF PowerLoss, SpentGrows, TimeInv
  <1>2. ASSUME NEW r \in Runs PROVE DiskTime(r)' /\ ResultsTime(r)'
    <2>1. /\ stable' = disk'
          /\ \A f \in RunFiles(r) \union RowFiles(r) : disk'[f] \in {disk[f], stable[f]}
      BY LossFiles
    <2>2. \A f \in Kept(r) : stable[f] = disk[f]
      BY DEF IInv, RunInv, FolderInv
    <2>3. disk'[Checkpoint(r)] = disk[Checkpoint(r)] /\ \A k \in Keys : disk'[Row(r, k)] = disk[Row(r, k)]
      BY <2>1, <2>2, TimeFiles DEF Kept
    <2>4. disk'[Results(r)] \in {disk[Results(r)], stable[Results(r)]}
      BY <2>1, TimeFiles
    <2>5. TimeStays(r)
      BY <2>1, <2>3, <2>4 DEF TimeStays, RowsStay, Exists
    <2> QED BY <1>1, <2>5, RunStays
  <1>3. ASSUME NEW p \in Procs PROVE ProcTime(p)'
    <2>1. proc'[p].pc \notin Working /\ proc'[p].clock = 0
      BY <1>1 DEF Idle, Working, Publishing, Pointing
    <2> QED BY <2>1, OutsideTime
  <1> QED BY <1>1, <1>2, <1>3 DEF TimeInv, SpentGrows

LEMMA InitTime ==
  ASSUME Init
  PROVE  TimeInv
  <1>1. spent \in [Runs -> Nat]
    BY DEF Init
  <1>2. ASSUME NEW r \in Runs PROVE DiskTime(r) /\ ResultsTime(r)
    <2>1. disk[Checkpoint(r)] = Absent /\ disk[Results(r)] = Absent /\ stable[Results(r)] = Absent
      BY AllFiles DEF Init
    <2> QED BY <2>1 DEF DiskTime, ResultsTime, Exists
  <1>3. \A p \in Procs : ProcTime(p)
    BY DEF Init, Idle, ProcTime, Working, Publishing, Pointing
  <1> QED BY <1>1, <1>2, <1>3 DEF TimeInv

LEMMA StepTime ==
  ASSUME IInv, TimeInv, [Next]_vars
  PROVE  TimeInv'
  <1>1. ASSUME NEW p \in Procs, Step(p) PROVE TimeInv'
    <2>1. CASE Lock(p) \/ Refused(p) \/ Discover(p)
      BY <2>1, StartTime
    <2>2. CASE MakeFolder(p) \/ WriteGrid(p) \/ WriteIdentity(p)
      BY <2>2, CreateTime
    <2>measure. CASE \E k \in Keys : Measure(p, k)
      BY <2>measure, MeasureTime
    <2>4. CASE Reopen(p) \/ UpdateProgress(p) \/ Finalize(p)
      BY <2>4, ProgressTime
    <2>5. CASE WriteResults(p) \/ WriteCsv(p) \/ SyncRun(p) \/ PointTxt(p) \/ PointJson(p) \/ SyncRoot(p)
      BY <2>5, PublishTime
    <2> QED BY <1>1, <2>1, <2>2, <2>measure, <2>4, <2>5, FirstTime, CheckTime, WriteRowTime, RecheckTime,
               CompleteTime DEF Step
  <1>2. ASSUME NEW p \in Procs, InvokeNew(p) \/ Stop(p) \/ (\E r \in Runs : InvokeResume(p, r))
        PROVE  TimeInv'
    BY <1>2, StartTime
  <1>3. CASE PowerLoss
    BY <1>3, LossTime
  <1>4. CASE UNCHANGED <<disk, stable, spent, proc>>
    <2>1. SpentGrows
      BY <1>4 DEF SpentGrows, TimeInv
    <2>2. \A r \in Runs : DiskTime(r)' /\ ResultsTime(r)'
      BY <1>4, <2>1, QuietTime
    <2>3. ASSUME NEW p \in Procs PROVE ProcTime(p)'
      <3>1. ProcTime(p)
        BY DEF TimeInv
      <3> QED BY <1>4, <3>1 DEF ProcTime, Ledger, Reported, RowsOf, Exists
    <2> QED BY <2>1, <2>2, <2>3 DEF TimeInv, SpentGrows
  <1> QED BY <1>1, <1>2, <1>3, <1>4 DEF Next, ChangeEnvironment, vars

LEMMA ImpliesHonest ==
  ASSUME IInv, TimeInv
  PROVE  ActiveTimeIsHonest
  <1>1. ASSUME NEW r \in Runs, Exists(Results(r))
        PROVE  /\ TotalActive(disk[Results(r)].ivs) <= spent[r]
               /\ \A k \in Keys : disk[Row(r, k)].active <=
                                      disk[Results(r)].ivs[disk[Row(r, k)].interval].active
    <2>1. Reported(r, disk[Results(r)].ivs)
      BY <1>1 DEF TimeInv, ResultsTime, Exists
    <2>2. RowsOf(r) = Keys
      BY <1>1 DEF IInv, RunInv, ResultsInv, Exists
    <2> QED BY <2>1, <2>2 DEF Reported
  <1> QED BY <1>1 DEF ActiveTimeIsHonest

\* However often a campaign is stopped and resumed, the active time its results
\* report is no more than was spent measuring and no less than its rows prove.
THEOREM ActiveTimeIsKept ==
  ASSUME EntryJournaled
  PROVE  Spec => []ActiveTimeIsHonest
  <1>1. Init => IInv /\ TimeInv
    BY InitIInv, InitTime
  <1>2. (IInv /\ TimeInv) /\ [Next]_vars => (IInv /\ TimeInv)'
    BY StepIInv, StepTime
  <1>3. IInv /\ TimeInv => ActiveTimeIsHonest
    BY ImpliesHonest
  <1> QED BY <1>1, <1>2, <1>3, PTL DEF Spec
===============================================================================
