------------------------------ MODULE RecordProofs ------------------------------
(***************************************************************************)
(* What the records run shows of the log of a campaign, of the freeze and  *)
(* of the corpora.                                                         *)
(*                                                                         *)
(* Log: what it shows for two runners and two cells holds for every        *)
(* schedule, any number of runners on one log, any source tree and any     *)
(* edits of it.                                                            *)
(*                                                                         *)
(* Freeze: what it shows for two splits, two profiles and two edits holds  *)
(* for any of them.  What a freeze has read stays what it read; what the   *)
(* invariant adds is how far what is on disk may have moved since, counted *)
(* in edits, and which checks a freeze at each place has passed.           *)
(*                                                                         *)
(* Corpora: what it shows for two slots, one fault and eleven payloads     *)
(* holds for any number of programs, kills, disturbed files and payloads.  *)
(* A pinned payload stays pinned once a program has run, so it is enough   *)
(* that a program has seen every payload of its tool before it names one   *)
(* in a manifest; the invariant carries that from the copying through the  *)
(* rows in a program's memory to the rows on disk, half-written ones       *)
(* included.  The 70% rule needs arithmetic only where rows are added      *)
(* without being weighed: those of the validation tools, which are real.   *)
(***************************************************************************)
EXTENDS TrialCampaign, FreezeRecord, CorpusManifests, SequenceTheorems,
        FiniteSetTheorems, TLAPS

-----------------------------------------------------------------------------
(* The log of a campaign.                                                  *)


N == Len(Cells)
Labels == {"start", "refused", "checked", "trials", "digest", "failed", "done"}
Opening == {"trials", "digest", "done"}
Writers == Opening \cup {"failed"}

RowsBy(rows, r) == {n \in DOMAIN rows : rows[n].by = r}
\* The rows of the runner of row n, up to n: the runner wrote that many cells.
Upto(rows, n) == {k \in 1..n : rows[k].by = rows[n].by}
InOrder(rows) ==
  \A n \in DOMAIN rows :
    /\ Cardinality(Upto(rows, n)) \in 1..N
    /\ rows[n].cell = Cells[Cardinality(Upto(rows, n))]
Extends(longer, rows) ==
  Len(rows) <= Len(longer) /\ \A n \in 1..Len(rows) : longer[n] = rows[n]

TreeInv == /\ tree.commit \in Nat /\ tree.edits \in Nat
           /\ tree.commit <= tree.edits /\ tree.edits <= MaxEdits
           /\ {"commit", "edits", "now", "committed"} = DOMAIN tree

RunnerOf(r) ==
  /\ {"pc", "next"} \subseteq DOMAIN runner[r]
  /\ runner[r].pc \in Labels /\ runner[r].next \in 1..(N + 1)
  /\ runner[r].pc \in Opening =>
       "before" \in DOMAIN runner[r] /\ runner[r].before.commit \in 0..MaxEdits
  /\ runner[r].pc \in {"digest", "done"} => runner[r].next = N + 1
  /\ runner[r].pc \in Opening => Cardinality(RowsBy(log, r)) = runner[r].next - 1
  /\ runner[r].pc \in Labels \ Writers => RowsBy(log, r) = {}
  /\ runner[r].pc = "done" => ~Absent(meta)
RunnerInv ==
  /\ runner = [r \in Runners |-> runner[r]]
  /\ \A r \in Runners : RunnerOf(r)

LogInv ==
  /\ log \in Seq(Rows) /\ InOrder(log)
  /\ \A n \in DOMAIN log :
       /\ log[n].status = "torn" => runner[log[n].by].pc = "failed"
       /\ runner[log[n].by].pc \in Opening => log[n].commit = runner[log[n].by].before.commit

\* A completed record of the metadata: its runner had digested the log.
Evidence(m) ==
  /\ m.by \in Runners /\ m.rows = N
  /\ m.digest \in Seq(Rows) /\ InOrder(m.digest)
  /\ Cardinality(RowsBy(m.digest, m.by)) = N

MetaInv ==
  /\ meta.state \in {"absent", "open", "complete"}
  /\ meta.state = "absent" <=> Absent(meta)
  /\ meta.state = "open" => meta.by \in Runners /\ runner[meta.by].pc \in {"trials", "digest", "failed"}
  /\ meta.state = "complete" =>
       /\ Evidence(meta) /\ Extends(log, meta.digest)
       /\ runner[meta.by].pc = "done"
       /\ meta.source = runner[meta.by].before
       /\ \A n \in DOMAIN log : n > Len(meta.digest) => log[n].by # meta.by
       /\ \A s \in Statuses : meta.counts[s] =
            Cardinality({n \in DOMAIN meta.digest : meta.digest[n].by = meta.by
                                                    /\ meta.digest[n].status = s})

ReaderInv ==
  /\ "pc" \in DOMAIN reader
  /\ reader.pc \in {"start", "hash", "rows", "refused", "accepted"}
  /\ reader.pc \in {"hash", "rows"} => "meta" \in DOMAIN reader /\ Evidence(reader.meta)
  /\ reader.pc = "rows" => Extends(log, reader.meta.digest)
  /\ AcceptedIsOneCampaign

IInv == TreeInv /\ RunnerInv /\ LogInv /\ MetaInv /\ ReaderInv

USE DEF Statuses

LEMMA NIs == N \in Nat /\ N >= 1 /\ DOMAIN Cells = 1..N
BY ScheduleAssumption DEF N

LEMMA IntervalIs ==
  ASSUME NEW n \in Nat PROVE IsFiniteSet(1..n) /\ Cardinality(1..n) = n
BY FS_Interval

LEMMA RowIs ==
  ASSUME NEW rows \in Seq(Rows), NEW n \in DOMAIN rows
  PROVE  /\ rows[n].by \in Runners /\ rows[n].cell \in CellSet
         /\ rows[n].status \in Statuses \cup {"torn"} /\ rows[n].commit \in 0..MaxEdits
<1>1. rows[n] \in Rows
  OBVIOUS
<1> QED BY <1>1 DEF Rows

LEMMA RowsByIs ==
  ASSUME NEW rows \in Seq(Rows), NEW r
  PROVE  /\ RowsBy(rows, r) \subseteq 1..Len(rows) /\ IsFiniteSet(RowsBy(rows, r))
         /\ Cardinality(RowsBy(rows, r)) \in Nat
<1>1. RowsBy(rows, r) \subseteq 1..Len(rows)
  BY DEF RowsBy
<1>2. IsFiniteSet(1..Len(rows))
  BY FS_Interval
<1>3. IsFiniteSet(RowsBy(rows, r))
  BY <1>1, <1>2, FS_Subset
<1> QED BY <1>1, <1>3, FS_CardinalityType

\* One more row of a runner that wrote fewer cells than there are.
LEMMA AppendInOrder ==
  ASSUME NEW rows \in Seq(Rows), InOrder(rows), NEW row \in Rows, NEW next \in 1..N,
         Cardinality(RowsBy(rows, row.by)) = next - 1, row.cell = Cells[next], N \in Nat
  PROVE  /\ Append(rows, row) \in Seq(Rows) /\ InOrder(Append(rows, row))
         /\ Cardinality(RowsBy(Append(rows, row), row.by)) = next
         /\ \A r : r # row.by => RowsBy(Append(rows, row), r) = RowsBy(rows, r)
         /\ RowsBy(Append(rows, row), row.by) # {}
<1> DEFINE new == Append(rows, row)
           k == Len(rows) + 1
<1>1. /\ new \in Seq(Rows) /\ Len(new) = k /\ new[k] = row
      /\ \A n \in 1..Len(rows) : new[n] = rows[n]
  OBVIOUS
<1> HIDE DEF new
<1>2. /\ RowsBy(new, row.by) = RowsBy(rows, row.by) \cup {k}
      /\ \A r : r # row.by => RowsBy(new, r) = RowsBy(rows, r)
  BY <1>1 DEF RowsBy
<1>3. k \notin RowsBy(rows, row.by)
  BY RowsByIs
<1>4. Cardinality(RowsBy(new, row.by)) = next
  <2>1. IsFiniteSet(RowsBy(rows, row.by))
    BY RowsByIs
  <2>2. Cardinality(RowsBy(rows, row.by) \cup {k}) = Cardinality(RowsBy(rows, row.by)) + 1
    BY <1>3, <2>1, FS_AddElement
  <2> QED BY <1>2, <2>2
<1>5. Upto(new, k) = RowsBy(new, row.by)
  BY <1>1 DEF Upto, RowsBy
<1>6. ASSUME NEW n \in 1..Len(rows)
      PROVE  Upto(new, n) = Upto(rows, n) /\ new[n] = rows[n] /\ n \in DOMAIN rows
  BY SMTT(40), <1>1 DEF Upto
<1>7. InOrder(new)
  <2> SUFFICES ASSUME NEW n \in 1..k
               PROVE  /\ Cardinality(Upto(new, n)) \in 1..N
                      /\ new[n].cell = Cells[Cardinality(Upto(new, n))]
    BY <1>1 DEF InOrder
  <2>1. CASE n = k
    BY <1>1, <1>4, <1>5, <2>1
  <2>2. CASE n # k
    <3>1. n \in 1..Len(rows)
      BY <2>2
    <3> QED BY <1>6, <3>1 DEF InOrder
  <2> QED BY <2>1, <2>2
<1>8. k \in RowsBy(new, row.by)
  BY <1>2
<1> QED BY <1>1, <1>2, <1>4, <1>7, <1>8 DEF new

\* A log of as many rows as there are cells, all of which one runner wrote,
\* is that runner's whole schedule in order.
LEMMA WholeSchedule ==
  ASSUME NEW rows \in Seq(Rows), InOrder(rows), NEW r, Len(rows) = N,
         Cardinality(RowsBy(rows, r)) = N
  PROVE  /\ \A n \in DOMAIN rows : rows[n].by = r
         /\ [n \in DOMAIN rows |-> rows[n].cell] = Cells
<1>1. N \in Nat /\ DOMAIN rows = 1..N /\ Cells = [n \in 1..N |-> Cells[n]]
  BY ScheduleAssumption DEF N
<1>2. IsFiniteSet(1..N) /\ Cardinality(1..N) = N
  BY <1>1, FS_Interval
<1>3. RowsBy(rows, r) = 1..N
  <2>1. RowsBy(rows, r) \subseteq 1..N
    BY <1>1 DEF RowsBy
  <2> QED BY <1>2, <2>1, FS_Subset
<1>4. \A n \in 1..N : rows[n].by = r
  BY <1>3 DEF RowsBy
<1>5. ASSUME NEW n \in 1..N PROVE rows[n].cell = Cells[n]
  <2>1. Upto(rows, n) = 1..n
    BY <1>1, <1>4 DEF Upto
  <2>2. Cardinality(1..n) = n
    BY FS_Interval
  <2> QED BY <1>1, <2>1, <2>2 DEF InOrder
<1> QED BY <1>1, <1>4, <1>5

LEMMA InitIInv == Init => IInv
<1> SUFFICES ASSUME Init PROVE IInv
  OBVIOUS
<1>1. N \in Nat
  BY ScheduleAssumption DEF N
<1>2. TreeInv
  BY ScheduleAssumption DEF Init, TreeInv
<1>3. \A r \in Runners : RowsBy(log, r) = {}
  BY DEF Init, RowsBy
<1>4. RunnerInv
  BY <1>1, <1>3 DEF Init, RunnerInv, RunnerOf, Labels, Opening, Writers
<1>5. LogInv
  BY DEF Init, LogInv, InOrder
<1>6. MetaInv
  BY DEF Init, MetaInv, Absent, NoFile
<1>7. ReaderInv
  BY DEF Init, ReaderInv, AcceptedIsOneCampaign
<1> QED BY <1>2, <1>4, <1>5, <1>6, <1>7 DEF IInv

--------------------------------------------------------------------------------
(* One lemma for each kind of step.                                        *)

\* A step of r that leaves the files and the reader alone.
LEMMA MoveKeeps ==
  ASSUME IInv, NEW r \in Runners, NEW x, runner' = [runner EXCEPT ![r] = x],
         UNCHANGED <<log, meta, tree, reader>>,
         {"pc", "next"} \subseteq DOMAIN x, x.pc \in Labels \ {"done"}, x.next = runner[r].next,
         runner[r].pc \notin {"failed", "done"},
         x.pc \in Opening => /\ runner[r].pc \in Opening /\ "before" \in DOMAIN x
                             /\ x.before = runner[r].before,
         x.pc = "digest" => x.next = N + 1,
         x.pc \in Labels \ Writers => runner[r].pc \in Labels \ Writers
  PROVE  IInv'
<1>1. /\ runner'[r] = x /\ \A q \in Runners : q # r => runner'[q] = runner[q]
      /\ runner' = [q \in Runners |-> runner'[q]]
  BY DEF IInv, RunnerInv
<1>2. RunnerInv'
  <2>1. ASSUME NEW q \in Runners PROVE RunnerOf(q)'
    <3>1. RunnerOf(q) /\ RunnerOf(r)
      BY DEF IInv, RunnerInv
    <3>2. CASE q = r
      BY <1>1, <3>1, <3>2 DEF RunnerOf, RowsBy, Absent, NoFile
    <3>3. CASE q # r
      BY <1>1, <3>1, <3>3 DEF RunnerOf, RowsBy, Absent, NoFile
    <3> QED BY <3>2, <3>3
  <2> QED BY <1>1, <2>1 DEF RunnerInv
<1>3. LogInv'
  <2>1. ASSUME NEW n \in DOMAIN log
        PROVE  /\ log[n].status = "torn" => runner'[log[n].by].pc = "failed"
               /\ runner'[log[n].by].pc \in Opening =>
                    log[n].commit = runner'[log[n].by].before.commit
    <3>1. log[n].by \in Runners
      BY RowIs DEF IInv, LogInv
    <3>2. CASE log[n].by = r
      BY <1>1, <3>2 DEF IInv, LogInv
    <3>3. CASE log[n].by # r
      BY <1>1, <3>1, <3>3 DEF IInv, LogInv
    <3> QED BY <3>2, <3>3
  <2> QED BY <2>1 DEF IInv, LogInv, InOrder, Upto
<1>4. /\ Evidence(meta) => (Evidence(meta))' /\ (Extends(log, meta.digest) => (Extends(log, meta.digest))')
      /\ Evidence(reader.meta) => (Evidence(reader.meta))'
  BY DEF Evidence, RowsBy, InOrder, Upto, Extends
<1>5. MetaInv'
  <2>1. CASE meta.state = "open"
    <3>1. meta.by \in Runners /\ runner'[meta.by].pc \in {"trials", "digest", "failed"}
      BY <1>1, <2>1 DEF IInv, MetaInv, Labels, Writers, Opening
    <3> QED BY <2>1, <3>1 DEF IInv, MetaInv, Absent
  <2>2. CASE meta.state = "complete"
    <3>1. meta.by \in Runners /\ meta.by # r
      BY <2>2 DEF IInv, MetaInv, Evidence
    <3>2. runner'[meta.by] = runner[meta.by]
      BY <1>1, <3>1
    <3>3. (Evidence(meta))' /\ (Extends(log, meta.digest))'
      BY <1>4, <2>2 DEF IInv, MetaInv
    <3> QED BY <2>2, <3>2, <3>3 DEF IInv, MetaInv, Absent
  <2>3. CASE meta.state = "absent"
    BY <2>3 DEF IInv, MetaInv, Absent
  <2> QED BY <2>1, <2>2, <2>3 DEF IInv, MetaInv
<1>6. TreeInv' /\ ReaderInv'
  <2>1. TreeInv'
    BY DEF IInv, TreeInv
  <2>2. reader.pc \in {"hash", "rows"} => (Evidence(reader.meta))'
    BY <1>4 DEF IInv, ReaderInv
  <2>3. reader.pc = "rows" => (Extends(log, reader.meta.digest))'
    BY DEF IInv, ReaderInv, Extends
  <2>4. AcceptedIsOneCampaign'
    BY DEF IInv, ReaderInv, AcceptedIsOneCampaign
  <2> QED BY <2>1, <2>2, <2>3, <2>4 DEF IInv, ReaderInv
<1> QED BY <1>2, <1>3, <1>5, <1>6 DEF IInv

LEMMA MovesStep ==
  ASSUME IInv, NEW r \in Runners, Check(r) \/ LastStatus(r) \/ Kill(r) PROVE IInv'
<1>1. UNCHANGED <<log, meta, tree, reader>>
  BY DEF Check, LastStatus, Kill
<1>2. /\ {"pc", "next"} \subseteq DOMAIN runner[r] /\ runner[r].pc \in Labels
      /\ runner = [q \in Runners |-> runner[q]] /\ runner[r].next \in 1..(N + 1)
      /\ runner[r].pc \in Opening => "before" \in DOMAIN runner[r]
  BY DEF IInv, RunnerInv, RunnerOf
<1>3. CASE Check(r)
  <2>1. PICK to \in {"checked", "refused"} :
          runner[r].pc = "start" /\ runner' = [runner EXCEPT ![r].pc = to]
    BY <1>3 DEF Check, Move
  <2> DEFINE x == [runner[r] EXCEPT !.pc = to]
  <2>2. /\ runner' = [runner EXCEPT ![r] = x] /\ x.pc = to /\ x.next = runner[r].next
        /\ {"pc", "next"} \subseteq DOMAIN x
    BY <1>2, <2>1
  <2> HIDE DEF x
  <2> QED BY <1>1, <2>1, <2>2, MoveKeeps DEF Labels, Opening, Writers
<1>4. CASE Kill(r)
  <2>1. runner[r].pc \in {"checked", "trials", "digest"}
        /\ runner' = [runner EXCEPT ![r].pc = "failed"]
    BY <1>4 DEF Kill, Move
  <2> DEFINE x == [runner[r] EXCEPT !.pc = "failed"]
  <2>2. /\ runner' = [runner EXCEPT ![r] = x] /\ x.pc = "failed" /\ x.next = runner[r].next
        /\ {"pc", "next"} \subseteq DOMAIN x
    BY <1>2, <2>1
  <2> HIDE DEF x
  <2> QED BY <1>1, <2>1, <2>2, MoveKeeps DEF Labels, Opening, Writers
<1>5. CASE LastStatus(r)
  <2> DEFINE x == [pc |-> "digest", next |-> runner[r].next, before |-> runner[r].before,
                   stable |-> GitIdentity(tree) = runner[r].before]
  <2>1. /\ runner[r].pc = "trials" /\ runner[r].next > N
        /\ runner' = [runner EXCEPT ![r] = x]
    BY <1>5 DEF LastStatus, N
  <2>2. /\ x.pc = "digest" /\ x.next = runner[r].next /\ x.before = runner[r].before
        /\ {"pc", "next"} \subseteq DOMAIN x /\ "before" \in DOMAIN x
    OBVIOUS
  <2> HIDE DEF x
  <2>3. x.next = N + 1
    BY <1>2, <2>1, <2>2, NIs DEF IInv
  <2> QED BY <1>1, <2>1, <2>2, <2>3, MoveKeeps DEF Labels, Opening, Writers
<1> QED BY <1>3, <1>4, <1>5

\* A runner that found both files absent has written no row; its metadata
\* replace those of a rival.
LEMMA OpenStep == ASSUME IInv, NEW r \in Runners, Open(r) PROVE IInv'
<1> DEFINE x == [pc |-> "trials", next |-> 1, before |-> GitIdentity(tree)]
<1>1. /\ runner[r].pc = "checked" /\ runner' = [runner EXCEPT ![r] = x]
      /\ UNCHANGED <<log, tree, reader>>
      /\ meta' = [state |-> "open", by |-> r, source |-> GitIdentity(tree)]
  BY DEF Open
<1>2. x.pc = "trials" /\ x.next = 1 /\ x.before.commit = tree.commit
      /\ {"pc", "next", "before"} \subseteq DOMAIN x
  BY DEF GitIdentity
<1> HIDE DEF x
<1>3. /\ runner'[r] = x /\ \A q \in Runners : q # r => runner'[q] = runner[q]
      /\ runner' = [q \in Runners |-> runner'[q]]
  BY <1>1 DEF IInv, RunnerInv
<1>4. meta'.state = "open" /\ meta'.by = r /\ ~Absent(meta')
  BY <1>1 DEF Absent, NoFile
<1>5. tree.commit \in 0..MaxEdits /\ N \in Nat
  BY NIs, ScheduleAssumption DEF IInv, TreeInv
<1>6. RowsBy(log, r) = {}
  BY <1>1 DEF IInv, RunnerInv, RunnerOf, Labels, Writers, Opening
<1>7. RunnerInv'
  <2>1. ASSUME NEW q \in Runners PROVE RunnerOf(q)'
    <3>1. RunnerOf(q) /\ (RowsBy(log, q))' = RowsBy(log, q)
      BY <1>1 DEF IInv, RunnerInv, RowsBy
    <3>2. CASE q = r
      <4>1. Cardinality(RowsBy(log, r)) = 0
        BY <1>6, FS_EmptySet
      <4> QED BY <1>2, <1>3, <1>5, <3>1, <3>2, <4>1 DEF RunnerOf, Labels, Writers, Opening
    <3>3. CASE q # r
      BY <1>3, <1>4, <3>1, <3>3 DEF RunnerOf
    <3> QED BY <3>2, <3>3
  <2> QED BY <1>3, <2>1 DEF RunnerInv
<1>8. LogInv'
  <2>1. ASSUME NEW n \in DOMAIN log
        PROVE  /\ log[n].status = "torn" => runner'[log[n].by].pc = "failed"
               /\ runner'[log[n].by].pc \in Opening =>
                    log[n].commit = runner'[log[n].by].before.commit
    <3>1. log[n].by \in Runners /\ log[n].by # r
      BY <1>6, RowIs DEF IInv, LogInv, RowsBy
    <3> QED BY <1>3, <3>1 DEF IInv, LogInv
  <2> QED BY <1>1, <2>1 DEF IInv, LogInv, InOrder, Upto
<1>9. MetaInv'
  BY <1>2, <1>3, <1>4 DEF MetaInv
<1>10. TreeInv' /\ ReaderInv'
  <2>1. reader.pc \in {"hash", "rows"} => (Evidence(reader.meta))'
    BY <1>1 DEF IInv, ReaderInv, Evidence, RowsBy, InOrder, Upto
  <2>2. reader.pc = "rows" => (Extends(log, reader.meta.digest))'
    BY <1>1 DEF IInv, ReaderInv, Extends
  <2>3. AcceptedIsOneCampaign'
    BY <1>1 DEF IInv, ReaderInv, AcceptedIsOneCampaign
  <2> QED BY <1>1, <2>1, <2>2, <2>3 DEF IInv, ReaderInv, TreeInv
<1> QED BY <1>7, <1>8, <1>9, <1>10 DEF IInv

\* A row is added by a runner that wrote the cells before it; the metadata and
\* what the reader read describe a beginning of the longer log.
LEMMA AppendKeeps ==
  ASSUME IInv, NEW r \in Runners, NEW status \in Statuses \cup {"torn"}, NEW x,
         runner[r].pc = "trials", runner[r].next <= N,
         log' = Append(log, RowOf(r, status)), UNCHANGED <<meta, tree, reader>>,
         runner' = [runner EXCEPT ![r] = x],
         {"pc", "next", "before"} \subseteq DOMAIN x, x.before = runner[r].before,
         \/ x.pc = "trials" /\ x.next = runner[r].next + 1 /\ status # "torn"
         \/ x.pc = "failed" /\ x.next = runner[r].next
  PROVE  IInv'
<1> DEFINE row == RowOf(r, status)
           next == runner[r].next
<1>1. /\ runner'[r] = x /\ \A q \in Runners : q # r => runner'[q] = runner[q]
      /\ runner' = [q \in Runners |-> runner'[q]]
  BY DEF IInv, RunnerInv
<1>2. N \in Nat /\ next \in 1..N /\ Cardinality(RowsBy(log, r)) = next - 1
      /\ runner[r].before.commit \in 0..MaxEdits
  BY NIs DEF IInv, RunnerInv, RunnerOf, Opening
<1>3. /\ row.by = r /\ row.cell = Cells[next] /\ row.status = status
      /\ row.commit = runner[r].before.commit /\ row \in Rows
  <2>1. Cells[next] \in CellSet
    BY <1>2, NIs DEF IInv, CellSet
  <2> QED BY <1>2, <2>1 DEF RowOf, Rows
<1> HIDE DEF row
<1>4. log \in Seq(Rows) /\ InOrder(log)
  BY DEF IInv, LogInv
<1>5. /\ log' \in Seq(Rows) /\ InOrder(log')
      /\ Cardinality(RowsBy(log', r)) = next
      /\ \A q : q # r => RowsBy(log', q) = RowsBy(log, q)
      /\ RowsBy(log', r) # {}
  <2>1. log' = Append(log, row)
    BY DEF row
  <2> HIDE DEF next
  <2> QED BY <1>2, <1>3, <1>4, <2>1, AppendInOrder
<1>6. /\ Len(log') = Len(log) + 1 /\ log'[Len(log) + 1] = row /\ Len(log) \in Nat
      /\ \A n \in 1..Len(log) : log'[n] = log[n]
      /\ DOMAIN log' = 1..(Len(log) + 1) /\ DOMAIN log = 1..Len(log)
  BY <1>4 DEF row
<1>7. RunnerInv'
  <2>1. ASSUME NEW q \in Runners PROVE RunnerOf(q)'
    <3>1. RunnerOf(q) /\ (RowsBy(log, q))' = RowsBy(log', q) /\ RunnerOf(r)
      BY DEF IInv, RunnerInv, RowsBy
    <3>2. CASE q = r
      <4>1. x.pc = "failed" => x.pc \notin Opening /\ x.pc \notin Labels \ Writers
        BY DEF Labels, Opening, Writers
      <4>2. x.pc = "trials" => x.pc \notin Labels \ Writers
        BY DEF Labels, Opening, Writers
      <4>3. x.pc \in Labels /\ x.next \in 1..(N + 1) /\ x.pc \notin {"digest", "done"}
        BY <1>2 DEF Labels
      <4>4. x.pc \in Opening => Cardinality(RowsBy(log', r)) = x.next - 1
        BY <1>2, <1>5, <4>1
      <4> QED BY <1>1, <1>2, <3>1, <3>2, <4>1, <4>2, <4>3, <4>4 DEF RunnerOf
    <3>3. CASE q # r
      BY <1>1, <1>5, <3>1, <3>3 DEF RunnerOf, Absent, NoFile
    <3> QED BY <3>2, <3>3
  <2> QED BY <1>1, <2>1 DEF RunnerInv
<1>8. LogInv'
  <2>1. ASSUME NEW n \in DOMAIN log'
        PROVE  /\ log'[n].status = "torn" => runner'[log'[n].by].pc = "failed"
               /\ runner'[log'[n].by].pc \in Opening =>
                    log'[n].commit = runner'[log'[n].by].before.commit
    <3>1. CASE n = Len(log) + 1
      BY <1>1, <1>3, <1>6, <3>1
    <3>2. CASE n # Len(log) + 1
      <4>1. n \in DOMAIN log /\ log'[n] = log[n] /\ log[n].by \in Runners
        BY <1>4, <1>6, <3>2, RowIs
      <4>2. log[n].status = "torn" => log[n].by # r
        BY <4>1 DEF IInv, LogInv
      <4>3. runner'[log[n].by].pc \in Opening => runner[log[n].by].pc \in Opening
        BY <1>1, <4>1 DEF Opening
      <4>4. runner'[log[n].by].before = runner[log[n].by].before
        BY <1>1, <4>1
      <4> QED BY <1>1, <4>1, <4>2, <4>3, <4>4 DEF IInv, LogInv
    <3> QED BY <3>1, <3>2
  <2> QED BY <1>5, <2>1 DEF LogInv, InOrder, Upto
<1>9. /\ Evidence(meta) => (Evidence(meta))'
      /\ Evidence(reader.meta) => (Evidence(reader.meta))'
      /\ Evidence(meta) /\ Extends(log, meta.digest) => (Extends(log, meta.digest))'
      /\ Evidence(reader.meta) /\ Extends(log, reader.meta.digest)
           => (Extends(log, reader.meta.digest))'
  <2>1. \A m : Evidence(m) => Len(m.digest) \in Nat
    BY DEF Evidence
  <2>2. /\ Evidence(meta) => (Evidence(meta))'
        /\ Evidence(reader.meta) => (Evidence(reader.meta))'
    BY DEF Evidence, RowsBy, InOrder, Upto
  <2>3. ASSUME NEW rows, Len(rows) \in Nat, Extends(log, rows) PROVE Extends(log', rows)
    BY <1>6, <2>3 DEF Extends
  <2>4. (Extends(log, meta.digest))' = Extends(log', meta.digest)
        /\ (Extends(log, reader.meta.digest))' = Extends(log', reader.meta.digest)
    BY DEF Extends
  <2> QED BY <2>1, <2>2, <2>3, <2>4
<1>10. MetaInv'
  <2>1. CASE meta.state = "open"
    <3>1. meta.by \in Runners /\ runner'[meta.by].pc \in {"trials", "digest", "failed"}
      BY <1>1, <2>1 DEF IInv, MetaInv
    <3> QED BY <2>1, <3>1 DEF IInv, MetaInv, Absent
  <2>2. CASE meta.state = "complete"
    <3>1. meta.by \in Runners /\ meta.by # r
      BY <2>2 DEF IInv, MetaInv, Evidence
    <3>2. runner'[meta.by] = runner[meta.by]
      BY <1>1, <3>1
    <3>3. (Evidence(meta))' /\ (Extends(log, meta.digest))'
      BY <1>9, <2>2 DEF IInv, MetaInv
    <3>4. \A n \in DOMAIN log' : n > Len(meta.digest) => log'[n].by # meta.by
      <4> SUFFICES ASSUME NEW n \in DOMAIN log', n > Len(meta.digest)
                   PROVE  log'[n].by # meta.by
        OBVIOUS
      <4>1. CASE n = Len(log) + 1
        BY <1>3, <1>6, <3>1, <4>1
      <4>2. CASE n # Len(log) + 1
        <5>1. n \in DOMAIN log /\ log'[n] = log[n]
          BY <1>6, <4>2
        <5> QED BY <2>2, <5>1 DEF IInv, MetaInv
      <4> QED BY <4>1, <4>2
    <3> QED BY <2>2, <3>2, <3>3, <3>4 DEF IInv, MetaInv, Absent
  <2>3. CASE meta.state = "absent"
    BY <2>3 DEF IInv, MetaInv, Absent
  <2> QED BY <2>1, <2>2, <2>3 DEF IInv, MetaInv
<1>11. TreeInv' /\ ReaderInv'
  <2>1. reader.pc \in {"hash", "rows"} => (Evidence(reader.meta))'
    BY <1>9 DEF IInv, ReaderInv
  <2>2. reader.pc = "rows" => (Extends(log, reader.meta.digest))'
    BY <1>9 DEF IInv, ReaderInv
  <2>3. AcceptedIsOneCampaign'
    BY DEF IInv, ReaderInv, AcceptedIsOneCampaign
  <2> QED BY <2>1, <2>2, <2>3 DEF IInv, ReaderInv, TreeInv
<1> QED BY <1>7, <1>8, <1>10, <1>11 DEF IInv

LEMMA AppendsStep ==
  ASSUME IInv, NEW r \in Runners, AppendRow(r) \/ ShortAppend(r) PROVE IInv'
<1>1. /\ runner = [q \in Runners |-> runner[q]] /\ {"pc", "next"} \subseteq DOMAIN runner[r]
      /\ runner[r].pc \in Opening => "before" \in DOMAIN runner[r]
  BY DEF IInv, RunnerInv, RunnerOf
<1>2. CASE AppendRow(r)
  <2>1. PICK s \in Statuses : log' = Append(log, RowOf(r, s))
    BY <1>2 DEF AppendRow
  <2> DEFINE x == [runner[r] EXCEPT !.next = @ + 1]
  <2>2. /\ runner[r].pc = "trials" /\ runner[r].next <= N /\ UNCHANGED <<meta, tree, reader>>
        /\ runner' = [runner EXCEPT ![r] = x]
    BY <1>1, <1>2 DEF AppendRow, N
  <2>opened. /\ {"pc", "next", "before"} \subseteq DOMAIN x /\ x.pc = "trials"
        /\ x.next = runner[r].next + 1 /\ x.before = runner[r].before
    BY <1>1, <2>2 DEF Opening
  <2> HIDE DEF x
  <2>4. s # "torn"
    OBVIOUS
  <2> QED BY <2>1, <2>2, <2>opened, <2>4, AppendKeeps
<1>3. CASE ShortAppend(r)
  <2> DEFINE x == [runner[r] EXCEPT !.pc = "failed"]
  <2>1. /\ runner[r].pc = "trials" /\ runner[r].next <= N /\ UNCHANGED <<meta, tree, reader>>
        /\ runner' = [runner EXCEPT ![r] = x] /\ log' = Append(log, RowOf(r, "torn"))
    BY <1>1, <1>3 DEF ShortAppend, Move, N
  <2>2. /\ {"pc", "next", "before"} \subseteq DOMAIN x /\ x.pc = "failed"
        /\ x.next = runner[r].next /\ x.before = runner[r].before
    BY <1>1, <2>1 DEF Opening
  <2> HIDE DEF x
  <2> QED BY <2>1, <2>2, AppendKeeps
<1> QED BY <1>2, <1>3

\* The runner that publishes has written every cell, none of them torn.
LEMMA PublishStep == ASSUME IInv, NEW r \in Runners, Publish(r) PROVE IInv'
<1>1. /\ runner[r].pc = "digest" /\ UNCHANGED <<log, tree, reader>>
      /\ runner' = [runner EXCEPT ![r].pc = "done"]
      /\ meta' = [state |-> "complete", by |-> r, source |-> runner[r].before,
                  stable |-> runner[r].stable, digest |-> log, rows |-> Len(Cells),
                  counts |-> [s \in Statuses |-> Mine(r, s)]]
  BY DEF Publish, Move
<1>2. /\ RunnerOf(r) /\ runner = [q \in Runners |-> runner[q]]
  BY DEF IInv, RunnerInv
<1>3. /\ runner'[r].pc = "done" /\ runner'[r].next = N + 1
      /\ runner'[r].before = runner[r].before
      /\ {"pc", "next", "before"} \subseteq DOMAIN runner'[r]
      /\ \A q \in Runners : q # r => runner'[q] = runner[q]
      /\ runner' = [q \in Runners |-> runner'[q]]
  BY <1>1, <1>2 DEF RunnerOf, Opening
<1>4. /\ meta'.state = "complete" /\ meta'.by = r /\ meta'.digest = log /\ meta'.rows = N
      /\ meta'.source = runner[r].before
      /\ \A s \in Statuses : meta'.counts[s] = Mine(r, s)
  BY <1>1 DEF N
<1>5. ~Absent(meta)'
  BY <1>4 DEF Absent, NoFile
<1>6. N \in Nat /\ log \in Seq(Rows) /\ InOrder(log) /\ Cardinality(RowsBy(log, r)) = N
  BY <1>1, <1>2, NIs DEF IInv, LogInv, RunnerOf, Opening
<1>7. RunnerInv'
  <2>1. ASSUME NEW q \in Runners PROVE RunnerOf(q)'
    <3>1. RunnerOf(q) /\ (RowsBy(log, q))' = RowsBy(log, q)
      BY <1>1 DEF IInv, RunnerInv, RowsBy
    <3>2. CASE q = r
      BY <1>1, <1>2, <1>3, <1>5, <1>6, <3>1, <3>2 DEF RunnerOf, Labels, Writers, Opening
    <3>3. CASE q # r
      BY <1>3, <1>5, <3>1, <3>3 DEF RunnerOf
    <3> QED BY <3>2, <3>3
  <2> QED BY <1>3, <2>1 DEF RunnerInv
<1>8. LogInv'
  <2>1. ASSUME NEW n \in DOMAIN log
        PROVE  /\ log[n].status = "torn" => runner'[log[n].by].pc = "failed"
               /\ runner'[log[n].by].pc \in Opening =>
                    log[n].commit = runner'[log[n].by].before.commit
    <3>1. log[n].by \in Runners
      BY <1>6, RowIs
    <3>2. CASE log[n].by = r
      BY <1>1, <1>3, <3>2 DEF IInv, LogInv, Opening
    <3>3. CASE log[n].by # r
      BY <1>3, <3>1, <3>3 DEF IInv, LogInv
    <3> QED BY <3>2, <3>3
  <2> QED BY <1>1, <2>1 DEF IInv, LogInv, InOrder, Upto
<1>9. MetaInv'
  <2>1. (Evidence(meta))' /\ (Extends(log, meta.digest))'
    BY <1>1, <1>4, <1>6 DEF Evidence, Extends, RowsBy, InOrder, Upto
  <2>2. \A n \in DOMAIN log : ~(n > Len(log))
    BY <1>6
  <2>3. \A s \in Statuses : Mine(r, s) =
          Cardinality({n \in DOMAIN log : log[n].by = r /\ log[n].status = s})
    BY DEF Mine
  <2> QED BY <1>1, <1>3, <1>4, <1>5, <2>1, <2>2, <2>3 DEF MetaInv
<1>10. TreeInv' /\ ReaderInv'
  <2>1. reader.pc \in {"hash", "rows"} => (Evidence(reader.meta))'
    BY <1>1 DEF IInv, ReaderInv, Evidence, RowsBy, InOrder, Upto
  <2>2. reader.pc = "rows" => (Extends(log, reader.meta.digest))'
    BY <1>1 DEF IInv, ReaderInv, Extends
  <2>3. AcceptedIsOneCampaign'
    BY <1>1 DEF IInv, ReaderInv, AcceptedIsOneCampaign
  <2> QED BY <1>1, <2>1, <2>2, <2>3 DEF IInv, ReaderInv, TreeInv
<1> QED BY <1>7, <1>8, <1>9, <1>10 DEF IInv

\* The runners, the log and the metadata stay.
LEMMA QuietKeeps ==
  ASSUME IInv, UNCHANGED <<log, meta, runner>>, TreeInv', ReaderInv' PROVE IInv'
<1>1. RunnerInv'
  <2>1. \A q \in Runners : RunnerOf(q) => RunnerOf(q)'
    BY DEF RunnerOf, RowsBy, Absent, NoFile
  <2> QED BY <2>1 DEF IInv, RunnerInv
<1>2. LogInv'
  BY DEF IInv, LogInv, InOrder, Upto
<1>3. MetaInv'
  <2>1. /\ Evidence(meta) => (Evidence(meta))'
        /\ Extends(log, meta.digest) => (Extends(log, meta.digest))'
    BY DEF Evidence, RowsBy, InOrder, Upto, Extends
  <2> QED BY <2>1 DEF IInv, MetaInv, Absent
<1> QED BY <1>1, <1>2, <1>3 DEF IInv

LEMMA TreeStep == ASSUME IInv, EditSource \/ CommitSource PROVE IInv'
<1>1. UNCHANGED <<log, meta, runner, reader>>
  BY DEF EditSource, CommitSource
<1>2. TreeInv'
  <2>1. TreeInv /\ MaxEdits \in Nat
    BY ScheduleAssumption DEF IInv
  <2>2. CASE EditSource
    <3>1. PICK f \in Files : tree' = [tree EXCEPT !.now[f] = @ + 1, !.edits = @ + 1]
      BY <2>2 DEF EditSource
    <3>2. tree.edits < MaxEdits /\ {"commit", "edits", "now", "committed"} = DOMAIN tree
      BY <2>1, <2>2 DEF EditSource, TreeInv
    <3>3. /\ tree'.commit = tree.commit /\ tree'.edits = tree.edits + 1
          /\ DOMAIN tree' = DOMAIN tree
      BY <3>1, <3>2
    <3> QED BY <2>1, <3>2, <3>3 DEF TreeInv
  <2>3. CASE CommitSource
    BY <2>1, <2>3 DEF CommitSource, TreeInv
  <2> QED BY <2>2, <2>3
<1>3. ReaderInv'
  <2>1. reader.pc \in {"hash", "rows"} => (Evidence(reader.meta))'
    BY <1>1 DEF IInv, ReaderInv, Evidence, RowsBy, InOrder, Upto
  <2>2. reader.pc = "rows" => (Extends(log, reader.meta.digest))'
    BY <1>1 DEF IInv, ReaderInv, Extends
  <2>3. AcceptedIsOneCampaign'
    BY <1>1 DEF IInv, ReaderInv, AcceptedIsOneCampaign
  <2> QED BY <1>1, <2>1, <2>2, <2>3 DEF IInv, ReaderInv
<1> QED BY <1>1, <1>2, <1>3, QuietKeeps

\* As many rows as cells, and the digest a beginning of them: it is all of
\* them, and one runner wrote them.
LEMMA AcceptedRows ==
  ASSUME NEW rows \in Seq(Rows), InOrder(rows), NEW m, Evidence(m),
         Extends(rows, m.digest), Len(rows) = m.rows
  PROVE  /\ rows = m.digest
         /\ [n \in DOMAIN rows |-> rows[n].cell] = Cells
         /\ \A n \in DOMAIN rows : rows[n].by = m.by
<1>1. /\ N \in Nat /\ Len(rows) = N /\ m.digest \in Seq(Rows) /\ InOrder(m.digest)
      /\ Cardinality(RowsBy(m.digest, m.by)) = N
  BY NIs DEF Evidence
<1>2. PICK d \in Seq(Rows) : d = m.digest
  BY <1>1
<1>3. Len(d) = N
  <2>1. Len(d) \in Nat /\ Len(d) <= N
    BY <1>1, <1>2 DEF Extends
  <2>2. IsFiniteSet(1..Len(d)) /\ Cardinality(1..Len(d)) = Len(d)
    BY <2>1, IntervalIs
  <2>3. RowsBy(d, m.by) \subseteq 1..Len(d) /\ Cardinality(RowsBy(d, m.by)) = N
    BY <1>1, <1>2, RowsByIs
  <2>4. N <= Len(d)
    BY <2>2, <2>3, FS_Subset
  <2> QED BY <1>1, <2>1, <2>4
<1>4. rows = d
  <2>1. \A n \in 1..N : rows[n] = d[n]
    BY <1>2, <1>3 DEF Extends
  <2> QED BY <1>1, <1>3, <2>1
<1>5. Cardinality(RowsBy(rows, m.by)) = N
  BY <1>1, <1>2, <1>4
<1> QED BY <1>1, <1>2, <1>4, <1>5, WholeSchedule

LEMMA ReaderStep == ASSUME IInv, ReadMeta \/ HashLog \/ ReadRows PROVE IInv'
<1>1. UNCHANGED <<log, meta, runner, tree>>
  BY DEF ReadMeta, HashLog, ReadRows
<1>2. TreeInv' /\ log \in Seq(Rows) /\ InOrder(log)
  BY <1>1 DEF IInv, TreeInv, LogInv
<1>3. ASSUME reader' = [pc |-> "refused"] PROVE ReaderInv'
  BY <1>3 DEF ReaderInv, AcceptedIsOneCampaign
<1>4. ASSUME ReadMeta PROVE ReaderInv'
  <2>1. CASE meta.state = "complete"
    <3>1. reader' = [pc |-> "hash", meta |-> meta]
      BY <1>4, <2>1 DEF ReadMeta
    <3>2. reader'.pc = "hash" /\ reader'.meta = meta /\ DOMAIN reader' = {"pc", "meta"}
      BY <3>1
    <3>3. Evidence(meta)
      BY <2>1 DEF IInv, MetaInv
    <3>4. (Evidence(reader.meta))'
      BY <3>2, <3>3 DEF Evidence, RowsBy, InOrder, Upto
    <3> QED BY <3>2, <3>4 DEF ReaderInv, AcceptedIsOneCampaign
  <2>2. CASE meta.state # "complete"
    BY <1>3, <1>4, <2>2 DEF ReadMeta, Refuse
  <2> QED BY <2>1, <2>2
<1>5. ASSUME HashLog PROVE ReaderInv'
  <2>1. CASE log = reader.meta.digest
    <3>1. reader.pc = "hash" /\ reader' = [reader EXCEPT !.pc = "rows"]
          /\ {"pc", "meta"} \subseteq DOMAIN reader /\ Evidence(reader.meta)
      BY <1>5, <2>1 DEF HashLog, IInv, ReaderInv
    <3>2. /\ reader'.pc = "rows" /\ reader'.meta = reader.meta
          /\ {"pc", "meta"} \subseteq DOMAIN reader'
      BY <3>1
    <3>3. (Evidence(reader.meta))'
      BY ZenonT(60), <3>1, <3>2 DEF Evidence, RowsBy, InOrder, Upto
    <3>4. (Extends(log, reader.meta.digest))'
      BY <1>1, <1>2, <2>1, <3>2 DEF Extends
    <3> QED BY <3>2, <3>3, <3>4 DEF ReaderInv, AcceptedIsOneCampaign
  <2>2. CASE log # reader.meta.digest
    BY <1>3, <1>5, <2>2 DEF HashLog, Refuse
  <2> QED BY <2>1, <2>2
<1>6. ASSUME ReadRows PROVE ReaderInv'
  <2>1. CASE Readable(log) /\ Validated(log, reader.meta)
    <3>1. /\ reader.pc = "rows" /\ Evidence(reader.meta) /\ Extends(log, reader.meta.digest)
          /\ reader' = [pc |-> "accepted", meta |-> reader.meta, rows |-> log]
      BY <1>6, <2>1 DEF ReadRows, IInv, ReaderInv
    <3>2. /\ reader'.pc = "accepted" /\ reader'.meta = reader.meta /\ reader'.rows = log
          /\ "pc" \in DOMAIN reader'
      BY <3>1
    <3>3. Len(log) = reader.meta.rows
      BY <2>1 DEF Validated
    <3>4. /\ log = reader.meta.digest
          /\ [n \in DOMAIN log |-> log[n].cell] = Cells
          /\ \A n \in DOMAIN log : log[n].by = reader.meta.by
      <4>1. PICK m : m = reader.meta
        OBVIOUS
      <4> QED BY <1>2, <3>1, <3>3, <4>1, AcceptedRows DEF IInv
    <3>5. AcceptedIsOneCampaign'
      BY <3>2, <3>4 DEF AcceptedIsOneCampaign
    <3> QED BY <3>2, <3>5 DEF ReaderInv
  <2>2. CASE ~(Readable(log) /\ Validated(log, reader.meta))
    BY <1>3, <1>6, <2>2 DEF ReadRows, Refuse
  <2> QED BY <2>1, <2>2
<1> QED BY <1>1, <1>2, <1>4, <1>5, <1>6, QuietKeeps

LEMMA StepIInv == IInv /\ [Next]_vars => IInv'
<1> SUFFICES ASSUME IInv, [Next]_vars PROVE IInv'
  OBVIOUS
<1>1. ASSUME NEW r \in Runners, Check(r) \/ LastStatus(r) \/ Kill(r) PROVE IInv'
  BY <1>1, MovesStep
<1>2. ASSUME NEW r \in Runners, Open(r) PROVE IInv'
  BY <1>2, OpenStep
<1>3. ASSUME NEW r \in Runners, AppendRow(r) \/ ShortAppend(r) PROVE IInv'
  BY <1>3, AppendsStep
<1>4. ASSUME NEW r \in Runners, Publish(r) PROVE IInv'
  BY <1>4, PublishStep
<1>5. CASE EditSource \/ CommitSource
  BY <1>5, TreeStep
<1>6. CASE ReadMeta \/ HashLog \/ ReadRows
  BY <1>6, ReaderStep
<1>7. CASE UNCHANGED vars
  <2>1. UNCHANGED <<log, meta, runner, tree, reader>>
    BY <1>7 DEF vars
  <2>2. reader.pc \in {"hash", "rows"} => (Evidence(reader.meta))'
    BY <2>1 DEF IInv, ReaderInv, Evidence, RowsBy, InOrder, Upto
  <2>3. TreeInv' /\ ReaderInv'
    BY <2>1, <2>2 DEF IInv, TreeInv, ReaderInv, Extends, AcceptedIsOneCampaign
  <2> QED BY <2>1, <2>3, QuietKeeps
<1> QED BY <1>1, <1>2, <1>3, <1>4, <1>5, <1>6, <1>7 DEF Next

--------------------------------------------------------------------------------
(* The theorems.                                                           *)

\* Nobody but r wrote a row or the metadata, so what it published is the log.
LEMMA HonestRun == IInv => HonestRunAccepted
<1> SUFFICES ASSUME IInv, NEW r \in Runners, runner[r].pc = "done",
                    \A q \in Runners \ {r} : runner[q].pc \in {"start", "refused"}
             PROVE  /\ meta.by = r /\ meta.digest = log
                    /\ Readable(log) /\ Validated(log, meta)
  BY DEF HonestRunAccepted
<1>1. \A q \in Runners \ {r} : RowsBy(log, q) = {}
  BY DEF IInv, RunnerInv, RunnerOf, Labels, Writers, Opening
<1>2. log \in Seq(Rows) /\ InOrder(log) /\ \A n \in DOMAIN log : log[n].by = r
  <2>1. \A n \in DOMAIN log : log[n].by \in Runners
    BY RowIs DEF IInv, LogInv
  <2> QED BY <1>1, <2>1 DEF IInv, LogInv, RowsBy
<1>3. meta.state = "complete" /\ meta.by = r
  <2>1. meta.state \in {"open", "complete"}
    BY DEF IInv, MetaInv, RunnerInv, RunnerOf
  <2>2. meta.by \in Runners /\ runner[meta.by].pc \in Writers
    BY <2>1 DEF IInv, MetaInv, Evidence, Writers, Opening
  <2>3. meta.by = r
    BY <2>2 DEF Writers, Opening
  <2> QED BY <2>1, <2>3 DEF IInv, MetaInv
<1>4. /\ Evidence(meta) /\ Extends(log, meta.digest) /\ meta.source = runner[r].before
      /\ \A n \in DOMAIN log : n > Len(meta.digest) => log[n].by # r
      /\ \A s \in Statuses : meta.counts[s] =
            Cardinality({n \in DOMAIN meta.digest : meta.digest[n].by = r
                                                    /\ meta.digest[n].status = s})
  BY <1>3 DEF IInv, MetaInv
<1>5. meta.digest = log
  <2>1. PICK d \in Seq(Rows) : d = meta.digest
    BY <1>4 DEF Evidence
  <2>2. Len(d) = Len(log)
    <3>1. Len(d) \in Nat /\ Len(log) \in Nat /\ Len(d) <= Len(log)
      BY <1>2, <1>4, <2>1 DEF Extends
    <3>2. ASSUME Len(d) < Len(log) PROVE FALSE
      <4>1. Len(log) \in DOMAIN log
        BY <1>2, <3>1, <3>2
      <4> QED BY <1>2, <1>4, <2>1, <3>1, <3>2, <4>1
    <3> QED BY <3>1, <3>2
  <2>3. \A n \in 1..Len(d) : d[n] = log[n]
    BY <1>4, <2>1 DEF Extends
  <2> QED BY <1>2, <2>1, <2>2, <2>3
<1>6. Readable(log)
  BY <1>2 DEF Readable, IInv, LogInv
<1>7. /\ N \in Nat /\ N >= 1 /\ Len(log) = N
      /\ [n \in DOMAIN log |-> log[n].cell] = Cells
  <2>1. N \in Nat /\ N >= 1 /\ Cardinality(RowsBy(log, r)) = N
    BY <1>3, <1>4, <1>5, NIs DEF Evidence, IInv
  <2>2. RowsBy(log, r) = 1..Len(log)
    BY <1>2 DEF RowsBy
  <2>3. Cardinality(1..Len(log)) = Len(log)
    BY <1>2, IntervalIs
  <2>4. Len(log) = N
    BY <2>1, <2>2, <2>3
  <2> QED BY <1>2, <2>1, <2>4, WholeSchedule DEF IInv
<1>8. NoNativeTwice(log)
  <2> SUFFICES ASSUME NEW m \in DOMAIN log, NEW n \in DOMAIN log, log[m].cell \in Native,
                      log[m].cell = log[n].cell
               PROVE  m = n
    BY DEF NoNativeTwice
  <2>1. Cells[m] = log[m].cell /\ Cells[n] = log[n].cell
    BY <1>7
  <2>2. DOMAIN Cells = DOMAIN log
    BY <1>7
  <2> QED BY <2>1, <2>2, ScheduleAssumption
<1>9. \A n \in DOMAIN log : log[n].commit = meta.source.commit
  BY <1>2, <1>4 DEF IInv, LogInv, Opening
<1>10. \A s \in Statuses : meta.counts[s] = Cardinality({n \in DOMAIN log : log[n].status = s})
  <2>1. \A s : {n \in DOMAIN log : log[n].by = r /\ log[n].status = s}
               = {n \in DOMAIN log : log[n].status = s}
    BY <1>2
  <2> QED BY ZenonT(60), <1>4, <1>5, <2>1
<1>11. log # <<>> /\ Len(log) = meta.rows
  BY <1>4, <1>7 DEF Evidence
<1> QED BY <1>3, <1>5, <1>6, <1>8, <1>9, <1>10, <1>11 DEF Validated

LEMMA CampaignHolds == IInv => LogIsOneCampaign
<1> SUFFICES ASSUME IInv PROVE LogIsOneCampaign
  OBVIOUS
<1>1. \A r \in Runners : runner[r].pc \in Labels /\ runner[r].next \in 1..(N + 1)
  BY DEF IInv, RunnerInv, RunnerOf
<1>2. TypeOK
  BY <1>1 DEF TypeOK, IInv, LogInv, MetaInv, ReaderInv, Labels, N
<1> QED BY <1>2, HonestRun DEF LogIsOneCampaign, IInv, ReaderInv

\* The log that an analysis accepts is the whole schedule of one runner, and
\* the evidence of a runner that was alone is accepted, however many runners
\* share the files, fail in them or are killed (benchmarks/runner.py:1963, main;
\* analysis/ablation_pipeline.py:1113, load_completed_evidence).
THEOREM OneCampaign == Spec => []LogIsOneCampaign
<1>1. Init => IInv
  BY InitIInv
<1>2. IInv /\ [Next]_vars => IInv'
  BY StepIInv
<1>3. IInv => LogIsOneCampaign
  BY CampaignHolds
<1> QED BY <1>1, <1>2, <1>3, PTL DEF Spec

\* A runner that starts after another one opened the campaign is refused and
\* leaves the log and the metadata as they are (benchmarks/runner.py:1963).
THEOREM LateRunners == Spec => LateRunnersTouchNothing
<1> DEFINE Late == \A r \in Runners :
             runner[r].pc = "start" /\ ~Absent(meta) /\ runner'[r] # runner[r]
               => runner'[r].pc = "refused" /\ UNCHANGED <<log, meta>>
<1>1. Init => IInv
  BY InitIInv
<1>2. IInv /\ [Next]_vars => IInv'
  BY StepIInv
<1>3. IInv /\ [Next]_vars => [Late]_vars
  <2> SUFFICES ASSUME IInv, Next, NEW r \in Runners, runner[r].pc = "start", ~Absent(meta),
                      runner'[r] # runner[r]
               PROVE  runner'[r].pc = "refused" /\ UNCHANGED <<log, meta>>
    BY DEF vars
  <2>1. /\ runner = [q \in Runners |-> runner[q]] /\ {"pc", "next"} \subseteq DOMAIN runner[r]
    BY DEF IInv, RunnerInv, RunnerOf
  <2>2. ASSUME NEW q \in Runners, q # r,
               Check(q) \/ Open(q) \/ AppendRow(q) \/ ShortAppend(q) \/ LastStatus(q)
               \/ Publish(q) \/ Kill(q)
        PROVE  runner'[r] = runner[r]
    BY <2>1, <2>2 DEF Check, Open, AppendRow, ShortAppend, LastStatus, Publish, Kill, Move
  <2>3. ~(\/ EditSource \/ CommitSource \/ ReadMeta \/ HashLog \/ ReadRows)
    BY DEF EditSource, CommitSource, ReadMeta, HashLog, ReadRows
  <2>4. Check(r)
    BY <2>2, <2>3 DEF Next, Open, AppendRow, ShortAppend, LastStatus, Publish, Kill
  <2>5. ~Free
    BY DEF Free
  <2> QED BY <2>1, <2>4, <2>5 DEF Check, Move
<1> QED BY <1>1, <1>2, <1>3, PTL DEF Spec, LateRunnersTouchNothing

-----------------------------------------------------------------------------
(* The freeze.                                                             *)


\* What may be on disk after n edits.
Disks(n) ==
  [manifest : Contents(Manifests), profile : Contents(Tomls),
   catalogue : Catalogues, tool : [Baselines -> 0..n], binary : Binaries]

Checked == {"manifests", "isolated", "configs", "pinned"}
Places == {"start", "queried", "identified", "hashed", "built", "published"}
             \cup Checked
Final == Publishing /\ run.pc \in {"built", "published"}

\* What a freeze has in hand, place by place.
FieldsHeld ==
  {"pc", "state", "branch"}
  \cup (IF run.pc = "start" THEN {} ELSE {"runtime"})
  \cup (IF run.pc \in {"start", "queried"} THEN {} ELSE {"dirty", "since"})
  \cup (IF run.pc \in {"start", "queried", "identified"} THEN {} ELSE {"digest"})
  \cup (IF run.pc \in {"start", "queried", "identified", "hashed"}
        THEN {} ELSE {"manifests"})
  \cup (IF run.pc \in {"configs", "pinned"} \/ Final THEN {"tomls", "catalogue"} ELSE {})
  \cup (IF run.pc = "pinned" \/ Final THEN {"binary"} ELSE {})
  \cup (IF Final THEN {"inventory"} ELSE {})
  \cup (IF run.pc = "published" THEN {"whole"} ELSE {})

WorldInv == edits \in 0..MaxChanges /\ now \in Disks(edits)

PlaceInv ==
  \/ run.pc = "refused"
  \/ /\ run.pc \in Places /\ DOMAIN run = FieldsHeld
     /\ run.pc \in Checked => Publishing

\* A tree that was dirty when a publishable freeze looked was refused: until
\* the next edit the files git tracks are those of the commit.
SinceInv ==
  run.pc \notin {"start", "queried", "refused"} =>
    /\ run.since \in 0..edits
    /\ (Publishing /\ run.since = edits) => Tracked(now) = committed

\* The digests were taken after that look.
DigestInv ==
  run.pc \notin {"start", "queried", "identified", "refused"} =>
    (Publishing /\ run.digest # committed => edits > run.since)

\* Every manifest in hand loads; past the check, they are apart.
ManifestInv ==
  /\ run.pc \in Checked \cup {"built", "published"} =>
       \A s \in Splits : Loads(run.manifests[s])
  /\ run.pc \in {"isolated", "configs", "pinned"} \/ Final =>
       /\ Isolated(run.manifests)
       /\ \E s \in Splits : \E r \in run.manifests[s] : r.split = "holdout"

\* The executables were compared with the inventory.
ToolsAreCurrent ==
  \A b \in DOMAIN run.inventory.row :
    run.inventory.row[b].status = "available" => run.inventory.row[b].tool = now.tool[b]
InventoryInv ==
  Final => /\ DOMAIN run.inventory.row = DOMAIN run.catalogue.row
           /\ edits = run.since => ToolsAreCurrent

FreezeIInv == /\ WorldInv /\ PlaceInv /\ SinceInv /\ DigestInv
              /\ ManifestInv /\ InventoryInv

-----------------------------------------------------------------------------
(* The world.                                                              *)

\* One choice may be made again.
LEMMA ContentsChange ==
  ASSUME NEW options, NEW c \in Contents(options),
         NEW k \in DOMAIN options, NEW x \in options[k]
  PROVE  [c EXCEPT ![k] = x] \in Contents(options)
  BY DEF Contents

\* A change of what is on disk keeps every promise: it is one more edit.
LEMMA ChangeKeeps ==
  ASSUME FreezeIInv, NEW new, Change(new), new \in Disks(edits + 1)
  PROVE  FreezeIInv'
  <1>1. edits \in Nat /\ edits' = edits + 1 /\ edits' \in 0..MaxChanges
    BY FreezeAssumption DEF FreezeIInv, WorldInv, Change
  <1>2. WorldInv'
    BY <1>1 DEF WorldInv, Change, Disks
  <1>3. PlaceInv' /\ ManifestInv'
    BY DEF FreezeIInv, PlaceInv, ManifestInv, Change, FieldsHeld, Final, Publishing
  <1>4. SinceInv' /\ DigestInv'
    BY <1>1 DEF FreezeIInv, SinceInv, DigestInv, Change, Publishing
  <1>5. InventoryInv'
    BY <1>1 DEF FreezeIInv, InventoryInv, SinceInv, Change, Final, Publishing
  <1> QED BY <1>2, <1>3, <1>4, <1>5 DEF FreezeIInv

LEMMA WorldKeeps ==
  ASSUME FreezeIInv,
         \/ EditManifest \/ EditProfile \/ EditCatalogue
         \/ UpgradeTool \/ Rebuild
  PROVE  FreezeIInv'
  <1>1. now \in Disks(edits) /\ edits \in Nat
    BY FreezeAssumption DEF FreezeIInv, WorldInv
  <1>2. Disks(edits) \subseteq Disks(edits + 1)
    BY <1>1 DEF Disks
  <1>3. CASE EditManifest
    <2> PICK s \in Splits :
           \E c \in Manifests[s] : Change([now EXCEPT !.manifest[s] = c])
      BY <1>3 DEF EditManifest
    <2>1. PICK c \in Manifests[s] : Change([now EXCEPT !.manifest[s] = c])
      OBVIOUS
    <2>2. [now.manifest EXCEPT ![s] = c] \in Contents(Manifests)
      BY <1>1, ContentsChange, FreezeAssumption DEF Disks
    <2>3. [now EXCEPT !.manifest[s] = c] \in Disks(edits)
      BY <1>1, <2>2 DEF Disks
    <2> QED BY <1>2, <2>1, <2>3, ChangeKeeps
  <1>4. CASE EditProfile
    <2> PICK p \in Profiles :
           \E c \in Tomls[p] : Change([now EXCEPT !.profile[p] = c])
      BY <1>4 DEF EditProfile
    <2>1. PICK c \in Tomls[p] : Change([now EXCEPT !.profile[p] = c])
      OBVIOUS
    <2>2. [now.profile EXCEPT ![p] = c] \in Contents(Tomls)
      BY <1>1, ContentsChange, FreezeAssumption DEF Disks
    <2>3. [now EXCEPT !.profile[p] = c] \in Disks(edits)
      BY <1>1, <2>2 DEF Disks
    <2> QED BY <1>2, <2>1, <2>3, ChangeKeeps
  <1>5. CASE EditCatalogue
    <2>1. PICK c \in Catalogues : Change([now EXCEPT !.catalogue = c])
      BY <1>5 DEF EditCatalogue
    <2>2. [now EXCEPT !.catalogue = c] \in Disks(edits)
      BY <1>1 DEF Disks
    <2> QED BY <1>2, <2>1, <2>2, ChangeKeeps
  <1>6. CASE UpgradeTool
    <2>1. PICK b \in Baselines : Change([now EXCEPT !.tool[b] = @ + 1])
      BY <1>6 DEF UpgradeTool
    <2>2. [now.tool EXCEPT ![b] = @ + 1] \in [Baselines -> 0..(edits + 1)]
      BY <1>1 DEF Disks
    <2>3. [now EXCEPT !.tool[b] = @ + 1] \in Disks(edits + 1)
      BY <1>1, <2>2 DEF Disks
    <2> QED BY <2>1, <2>3, ChangeKeeps
  <1>7. CASE Rebuild
    <2>1. PICK c \in Binaries : Change([now EXCEPT !.binary = c])
      BY <1>7 DEF Rebuild
    <2>2. [now EXCEPT !.binary = c] \in Disks(edits)
      BY <1>1 DEF Disks
    <2> QED BY <1>2, <2>1, <2>2, ChangeKeeps
  <1> QED BY <1>3, <1>4, <1>5, <1>6, <1>7

LEMMA InventoryKeeps == FreezeIInv /\ TakeInventory => FreezeIInv'
  BY DEF FreezeIInv, WorldInv, PlaceInv, SinceInv, DigestInv, ManifestInv, InventoryInv,
         TakeInventory, FieldsHeld, Final, Publishing, ToolsAreCurrent

-----------------------------------------------------------------------------
(* The freeze.                                                             *)

\* What a step of the freeze does to what it has in hand.
LEMMA HoldsMore ==
  ASSUME NEW pc, NEW fields, "pc" \in DOMAIN run, "pc" \notin DOMAIN fields,
         To(pc, fields)
  PROVE  /\ run'.pc = pc
         /\ DOMAIN run' = DOMAIN run \cup DOMAIN fields
         /\ \A k \in DOMAIN fields : run'[k] = fields[k]
         /\ \A k \in DOMAIN run \ DOMAIN fields : k # "pc" => run'[k] = run[k]
  BY DEF To

LEMMA RefusedKeeps ==
  ASSUME FreezeIInv, Reject, UNCHANGED <<now, committed, inventory, edits>>
  PROVE  FreezeIInv'
  BY DEF FreezeIInv, WorldInv, PlaceInv, SinceInv, DigestInv, ManifestInv, InventoryInv,
         Reject, Final, Checked

LEMMA BeginsSound == FreezeInit => FreezeIInv
  <1> SUFFICES ASSUME FreezeInit PROVE FreezeIInv
    OBVIOUS
  <1>1. WorldInv
    BY FreezeAssumption DEF FreezeInit, WorldInv, Disks
  <1>2. run.pc = "start" /\ DOMAIN run = {"pc", "state", "branch"}
    BY DEF FreezeInit
  <1>3. PlaceInv
    BY <1>2 DEF PlaceInv, Places, Checked, FieldsHeld, Final
  <1>4. SinceInv /\ DigestInv /\ ManifestInv /\ InventoryInv
    BY <1>2 DEF SinceInv, DigestInv, ManifestInv, InventoryInv, Final, Checked
  <1> QED BY <1>1, <1>3, <1>4 DEF FreezeIInv

\* A freeze that is somewhere has its place, state and branch in hand.
LEMMA HasPlace ==
  ASSUME FreezeIInv, run.pc # "refused"
  PROVE  /\ DOMAIN run = FieldsHeld /\ {"pc", "state", "branch"} \subseteq DOMAIN run
         /\ run.pc \in Checked => Publishing
  BY DEF FreezeIInv, PlaceInv, FieldsHeld

LEMMA QueryKeeps == FreezeIInv /\ Query => FreezeIInv'
  <1> SUFFICES ASSUME FreezeIInv, Query PROVE FreezeIInv'
    OBVIOUS
  <1> DEFINE more == [runtime |-> now.binary]
  <1>1. run.pc = "start" /\ To("queried", more) /\ DOMAIN more = {"runtime"}
    BY DEF Query, Step
  <1>2. DOMAIN run = {"pc", "state", "branch"}
    BY <1>1, HasPlace DEF FieldsHeld, Final
  <1>3. run'.pc = "queried" /\ DOMAIN run' = {"pc", "state", "branch", "runtime"}
    BY <1>1, <1>2, HoldsMore
  <1>4. WorldInv'
    BY DEF FreezeIInv, WorldInv, Query, Step
  <1>5. PlaceInv'
    BY <1>3 DEF PlaceInv, Places, Checked, FieldsHeld, Final
  <1>6. SinceInv' /\ DigestInv' /\ ManifestInv' /\ InventoryInv'
    BY <1>3 DEF SinceInv, DigestInv, ManifestInv, InventoryInv, Final, Checked
  <1> QED BY <1>4, <1>5, <1>6 DEF FreezeIInv

LEMMA IdentifyKeeps == FreezeIInv /\ Identify => FreezeIInv'
  <1> SUFFICES ASSUME FreezeIInv, Identify PROVE FreezeIInv'
    OBVIOUS
  <1>0. run.pc = "queried" /\ UNCHANGED <<now, committed, inventory, edits>>
    BY DEF Identify, Step
  <1>1. CASE Reject
    BY <1>0, <1>1, RefusedKeeps
  <1>2. CASE ~Reject
    <2> DEFINE more == [dirty |-> Dirty, since |-> edits]
    <2>1. To("identified", more) /\ DOMAIN more = {"dirty", "since"}
      BY <1>2 DEF Identify
    <2>2. Publishing => ~Dirty
      BY <1>2 DEF Identify
    <2>3. DOMAIN run = {"pc", "state", "branch", "runtime"}
      BY <1>0, HasPlace DEF FieldsHeld, Final
    <2>4. /\ run'.pc = "identified"
          /\ DOMAIN run' = {"pc", "state", "branch", "runtime", "dirty", "since"}
          /\ run'.since = edits /\ run'.state = run.state
      BY <2>1, <2>3, HoldsMore
    <2>5. WorldInv' /\ edits \in Nat
      BY <1>0, FreezeAssumption DEF FreezeIInv, WorldInv
    <2>6. PlaceInv'
      BY <2>4 DEF PlaceInv, Places, Checked, FieldsHeld, Final
    <2>7. SinceInv'
      BY <1>0, <2>2, <2>4, <2>5 DEF SinceInv, Publishing, Dirty
    <2>8. DigestInv' /\ ManifestInv' /\ InventoryInv'
      BY <2>4 DEF DigestInv, ManifestInv, InventoryInv, Final, Checked
    <2> QED BY <2>5, <2>6, <2>7, <2>8 DEF FreezeIInv
  <1> QED BY <1>1, <1>2

LEMMA HashKeeps == FreezeIInv /\ HashInputs => FreezeIInv'
  <1> SUFFICES ASSUME FreezeIInv, HashInputs PROVE FreezeIInv'
    OBVIOUS
  <1>0. run.pc = "identified" /\ UNCHANGED <<now, committed, inventory, edits>>
    BY DEF HashInputs, Step
  <1> DEFINE more == [digest |-> Tracked(now)]
  <1>1. To("hashed", more) /\ DOMAIN more = {"digest"}
    BY DEF HashInputs
  <1>2. DOMAIN run = {"pc", "state", "branch", "runtime", "dirty", "since"}
    BY <1>0, HasPlace DEF FieldsHeld, Final
  <1>3. /\ run'.pc = "hashed" /\ run'.digest = Tracked(now)
        /\ DOMAIN run' = {"pc", "state", "branch", "runtime", "dirty", "since", "digest"}
        /\ run'.since = run.since /\ run'.state = run.state
    BY <1>1, <1>2, HoldsMore
  <1>4. WorldInv' /\ edits \in Nat
    BY <1>0, FreezeAssumption DEF FreezeIInv, WorldInv
  <1>5. PlaceInv'
    BY <1>3 DEF PlaceInv, Places, Checked, FieldsHeld, Final
  <1>6. SinceInv'
    BY <1>0, <1>3 DEF FreezeIInv, SinceInv, Publishing
  <1>7. DigestInv'
    BY <1>0, <1>3, <1>4 DEF FreezeIInv, SinceInv, DigestInv, Publishing
  <1>8. ManifestInv' /\ InventoryInv'
    BY <1>3 DEF ManifestInv, InventoryInv, Final, Checked
  <1> QED BY <1>4, <1>5, <1>6, <1>7, <1>8 DEF FreezeIInv

\* Past the digests a step leaves the world, the look and the digests alone.
LEMMA KeepsTheLook ==
  ASSUME FreezeIInv, UNCHANGED <<now, committed, inventory, edits>>,
         run.pc \in Checked \cup {"hashed", "built"}, run'.pc # "refused",
         run'.since = run.since, run'.state = run.state, run'.digest = run.digest
  PROVE  WorldInv' /\ SinceInv' /\ DigestInv'
  <1>1. WorldInv'
    BY DEF FreezeIInv, WorldInv
  <1>2. SinceInv' /\ DigestInv'
    BY DEF FreezeIInv, SinceInv, DigestInv, Publishing, Checked
  <1> QED BY <1>1, <1>2

LEMMA LoadKeeps == FreezeIInv /\ LoadManifests => FreezeIInv'
  <1> SUFFICES ASSUME FreezeIInv, LoadManifests PROVE FreezeIInv'
    OBVIOUS
  <1>0. run.pc = "hashed" /\ UNCHANGED <<now, committed, inventory, edits>>
    BY DEF LoadManifests, Step
  <1>1. CASE Reject
    BY <1>0, <1>1, RefusedKeeps
  <1>2. CASE ~Reject
    <2> DEFINE more == [manifests |-> now.manifest]
               pc == IF Publishing THEN "manifests" ELSE "built"
               held == {"pc", "state", "branch", "runtime", "dirty", "since", "digest"}
    <2>1. To(pc, more) /\ DOMAIN more = {"manifests"}
      BY <1>2 DEF LoadManifests
    <2>2. \A s \in Splits : Loads(now.manifest[s])
      BY <1>2 DEF LoadManifests
    <2>3. DOMAIN run = held
      BY <1>0, HasPlace DEF FieldsHeld, Final
    <2>4. /\ run'.pc = pc /\ run'.manifests = now.manifest
          /\ DOMAIN run' = held \cup {"manifests"}
          /\ run'.since = run.since /\ run'.state = run.state /\ run'.digest = run.digest
      BY <2>1, <2>3, HoldsMore
    <2>5. WorldInv' /\ SinceInv' /\ DigestInv'
      BY <1>0, <2>4, KeepsTheLook
    <2>6. PlaceInv'
      <3>1. Publishing' <=> Publishing
        BY <2>4 DEF Publishing
      <3> QED BY <2>4, <3>1 DEF PlaceInv, Places, Checked, FieldsHeld, Final
    <2>7. ManifestInv' /\ InventoryInv'
      BY <2>2, <2>4 DEF ManifestInv, InventoryInv, Final, Checked, Publishing
    <2> QED BY <2>5, <2>6, <2>7 DEF FreezeIInv
  <1> QED BY <1>1, <1>2

LEMMA ValidateKeeps == FreezeIInv /\ ValidateManifests => FreezeIInv'
  <1> SUFFICES ASSUME FreezeIInv, ValidateManifests PROVE FreezeIInv'
    OBVIOUS
  <1>0. run.pc = "manifests" /\ UNCHANGED <<now, committed, inventory, edits>>
    BY DEF ValidateManifests, Step
  <1>1. CASE Reject
    BY <1>0, <1>1, RefusedKeeps
  <1>2. CASE ~Reject
    <2> DEFINE held == {"pc", "state", "branch", "runtime", "dirty", "since",
                        "digest", "manifests"}
    <2>1. To("isolated", <<>>)
      BY <1>2 DEF ValidateManifests
    <2>a. DOMAIN <<>> = {}
      OBVIOUS
    <2>2. /\ Isolated(run.manifests)
          /\ \E s \in Splits : \E r \in run.manifests[s] : r.split = "holdout"
      BY <1>2 DEF ValidateManifests
    <2>3. DOMAIN run = held /\ Publishing
      BY <1>0, HasPlace DEF FieldsHeld, Final, Checked
    <2>4. /\ run'.pc = "isolated" /\ run'.manifests = run.manifests
          /\ DOMAIN run' = held
          /\ run'.since = run.since /\ run'.state = run.state /\ run'.digest = run.digest
      BY <2>1, <2>a, <2>3, HoldsMore
    <2>5. WorldInv' /\ SinceInv' /\ DigestInv'
      BY <1>0, <2>4, KeepsTheLook DEF Checked
    <2>6. PlaceInv'
      BY <2>3, <2>4 DEF PlaceInv, Places, Checked, FieldsHeld, Final, Publishing
    <2>7. ManifestInv' /\ InventoryInv'
      BY <1>0, <2>2, <2>4 DEF FreezeIInv, ManifestInv, InventoryInv, Final, Checked
    <2> QED BY <2>5, <2>6, <2>7 DEF FreezeIInv
  <1> QED BY <1>1, <1>2

LEMMA ConfigsKeep == FreezeIInv /\ LoadConfigs => FreezeIInv'
  <1> SUFFICES ASSUME FreezeIInv, LoadConfigs PROVE FreezeIInv'
    OBVIOUS
  <1>0. run.pc = "isolated" /\ UNCHANGED <<now, committed, inventory, edits>>
    BY DEF LoadConfigs, Step
  <1>1. CASE Reject
    BY <1>0, <1>1, RefusedKeeps
  <1>2. CASE ~Reject
    <2> DEFINE held == {"pc", "state", "branch", "runtime", "dirty", "since",
                        "digest", "manifests"}
               more == [tomls |-> now.profile, catalogue |-> now.catalogue]
    <2>1. To("configs", more) /\ DOMAIN more = {"tomls", "catalogue"}
      BY <1>2 DEF LoadConfigs
    <2>2. DOMAIN run = held /\ Publishing
      BY <1>0, HasPlace DEF FieldsHeld, Final, Checked
    <2>3. /\ run'.pc = "configs" /\ run'.manifests = run.manifests
          /\ DOMAIN run' = held \cup {"tomls", "catalogue"}
          /\ run'.since = run.since /\ run'.state = run.state /\ run'.digest = run.digest
      BY ZenonT(60), <2>1, <2>2, HoldsMore
    <2>4. WorldInv' /\ SinceInv' /\ DigestInv'
      BY <1>0, <2>3, KeepsTheLook DEF Checked
    <2>5. PlaceInv'
      BY <2>2, <2>3 DEF PlaceInv, Places, Checked, FieldsHeld, Final, Publishing
    <2>6. ManifestInv' /\ InventoryInv'
      BY <1>0, <2>3 DEF FreezeIInv, ManifestInv, InventoryInv, Final, Checked
    <2> QED BY <2>4, <2>5, <2>6 DEF FreezeIInv
  <1> QED BY <1>1, <1>2

LEMMA PinKeeps == FreezeIInv /\ PinBinary => FreezeIInv'
  <1> SUFFICES ASSUME FreezeIInv, PinBinary PROVE FreezeIInv'
    OBVIOUS
  <1>0. run.pc = "configs" /\ UNCHANGED <<now, committed, inventory, edits>>
    BY DEF PinBinary, Step
  <1>1. CASE Reject
    BY <1>0, <1>1, RefusedKeeps
  <1>2. CASE ~Reject
    <2> DEFINE held == {"pc", "state", "branch", "runtime", "dirty", "since",
                        "digest", "manifests", "tomls", "catalogue"}
               more == [binary |-> now.binary]
    <2>1. To("pinned", more) /\ DOMAIN more = {"binary"}
      BY <1>2 DEF PinBinary
    <2>2. DOMAIN run = held /\ Publishing
      BY <1>0, HasPlace DEF FieldsHeld, Final, Checked
    <2>3. /\ run'.pc = "pinned" /\ run'.manifests = run.manifests
          /\ DOMAIN run' = held \cup {"binary"}
          /\ run'.since = run.since /\ run'.state = run.state /\ run'.digest = run.digest
      BY <2>1, <2>2, HoldsMore
    <2>4. WorldInv' /\ SinceInv' /\ DigestInv'
      BY <1>0, <2>3, KeepsTheLook DEF Checked
    <2>5. PlaceInv'
      BY <2>2, <2>3 DEF PlaceInv, Places, Checked, FieldsHeld, Final, Publishing
    <2>6. ManifestInv' /\ InventoryInv'
      BY <1>0, <2>3 DEF FreezeIInv, ManifestInv, InventoryInv, Final, Checked
    <2> QED BY <2>4, <2>5, <2>6 DEF FreezeIInv
  <1> QED BY <1>1, <1>2

\* The catalogue in hand and the inventory have the same baselines, and the
\* available ones are those on disk.
LEMMA CheckKeeps == FreezeIInv /\ CheckInventory => FreezeIInv'
  <1> SUFFICES ASSUME FreezeIInv, CheckInventory PROVE FreezeIInv'
    OBVIOUS
  <1>0. run.pc = "pinned" /\ UNCHANGED <<now, committed, inventory, edits>>
    BY DEF CheckInventory, Step
  <1>1. CASE Reject
    BY <1>0, <1>1, RefusedKeeps
  <1>2. CASE ~Reject
    <2> DEFINE held == {"pc", "state", "branch", "runtime", "dirty", "since",
                        "digest", "manifests", "tomls", "catalogue", "binary"}
               more == [inventory |-> inventory]
    <2>1. To("built", more) /\ DOMAIN more = {"inventory"}
      BY <1>2 DEF CheckInventory
    <2>2. InventoryValid(inventory, run.catalogue, now)
      BY <1>2 DEF CheckInventory
    <2>3. DOMAIN run = held /\ Publishing
      BY <1>0, HasPlace DEF FieldsHeld, Final, Checked
    <2>4. /\ run'.pc = "built" /\ run'.manifests = run.manifests
          /\ DOMAIN run' = held \cup {"inventory"}
          /\ run'.since = run.since /\ run'.state = run.state /\ run'.digest = run.digest
          /\ run'.inventory = inventory /\ run'.catalogue = run.catalogue
      BY <2>1, <2>3, HoldsMore
    <2>5. WorldInv' /\ SinceInv' /\ DigestInv'
      BY <1>0, <2>4, KeepsTheLook DEF Checked
    <2>6. PlaceInv'
      BY <2>3, <2>4 DEF PlaceInv, Places, Checked, FieldsHeld, Final, Publishing
    <2>7. ManifestInv'
      BY <1>0, <2>4 DEF FreezeIInv, ManifestInv, Final, Checked
    <2>8. InventoryInv'
      BY <1>0, <2>2, <2>4 DEF InventoryInv, InventoryValid, ToolsAreCurrent
    <2> QED BY <2>5, <2>6, <2>7, <2>8 DEF FreezeIInv
  <1> QED BY <1>1, <1>2

LEMMA WriteKeeps == FreezeIInv /\ Write => FreezeIInv'
  <1> SUFFICES ASSUME FreezeIInv, Write PROVE FreezeIInv'
    OBVIOUS
  <1>0. run.pc = "built" /\ UNCHANGED <<now, committed, inventory, edits>>
    BY DEF Write, Step
  <1> DEFINE held == {"pc", "state", "branch", "runtime", "dirty", "since",
                      "digest", "manifests"}
                     \cup (IF Publishing
                           THEN {"tomls", "catalogue", "binary", "inventory"} ELSE {})
             more == [whole |-> TRUE]
  <1>1. To("published", more) /\ DOMAIN more = {"whole"}
    BY DEF Write
  <1>2. DOMAIN run = held
    BY <1>0, HasPlace DEF FieldsHeld, Final
  <1>3. /\ run'.pc = "published" /\ run'.manifests = run.manifests
        /\ DOMAIN run' = held \cup {"whole"}
        /\ run'.since = run.since /\ run'.state = run.state /\ run'.digest = run.digest
        /\ Publishing => run'.inventory = run.inventory /\ run'.catalogue = run.catalogue
    BY <1>1, <1>2, HoldsMore
  <1>4. WorldInv' /\ SinceInv' /\ DigestInv'
    BY <1>0, <1>3, KeepsTheLook DEF Checked
  <1>5. Publishing' <=> Publishing
    BY <1>3 DEF Publishing
  <1>6. PlaceInv'
    BY <1>3, <1>5 DEF PlaceInv, Places, Checked, FieldsHeld, Final
  <1>7. ManifestInv'
    BY <1>0, <1>3, <1>5 DEF FreezeIInv, ManifestInv, Final, Checked
  <1>8. InventoryInv'
    BY <1>0, <1>3, <1>5 DEF FreezeIInv, InventoryInv, Final, ToolsAreCurrent
  <1> QED BY <1>4, <1>6, <1>7, <1>8 DEF FreezeIInv

LEMMA StepKeeps == FreezeIInv /\ [FreezeNext]_freezeVars => FreezeIInv'
  <1>1. FreezeIInv /\ UNCHANGED freezeVars => FreezeIInv'
    BY DEF freezeVars, FreezeIInv, WorldInv, PlaceInv, SinceInv, DigestInv, ManifestInv,
           InventoryInv, FieldsHeld, Final, Publishing, ToolsAreCurrent
  <1> QED BY <1>1, WorldKeeps, InventoryKeeps, QueryKeeps, IdentifyKeeps, HashKeeps,
             LoadKeeps, ValidateKeeps, ConfigsKeep, PinKeeps, CheckKeeps, WriteKeeps
          DEF FreezeNext

-----------------------------------------------------------------------------
(* What a published record says.                                           *)

\* Manifests that load and are apart leak nothing: a row of one of them is in
\* its split, and rows of two have neither an id nor a group in common.
LEMMA ApartLeaksNothing ==
  ASSUME FreezeIInv, Published PROVE NoSplitLeaks
  <1> DEFINE ms == run.manifests
             rows == UNION {ms[s] : s \in Splits}
  <1>1. (\A s \in Splits : Loads(ms[s])) /\ Isolated(ms)
    BY DEF FreezeIInv, ManifestInv, Published, Final
  <1>2. PICK s \in Splits : \E r \in ms[s] : r.split = "holdout"
    BY DEF FreezeIInv, ManifestInv, Published, Final
  <1>3. \A r, q \in rows : r.id = q.id \/ r.group = q.group => r.split = q.split
    <2> SUFFICES ASSUME NEW r \in rows, NEW q \in rows, r.id = q.id \/ r.group = q.group
                 PROVE  r.split = q.split
      OBVIOUS
    <2> PICK a \in Splits : r \in ms[a]
      OBVIOUS
    <2> PICK b \in Splits : q \in ms[b]
      OBVIOUS
    <2> QED BY <1>1 DEF Isolated
  <1>4. \A r \in rows : (r.split = "holdout") = r.sealed
    BY <1>1 DEF Loads, RowValid
  <1>5. {r \in rows : r.sealed} = {r \in rows : r.split = "holdout"}
    BY <1>4
  <1>6. \E r \in rows : r.sealed
    BY <1>2, <1>4
  <1> QED BY <1>3, <1>5, <1>6 DEF NoSplitLeaks

LEMMA IInvIsOneState == FreezeIInv => RecordIsOneState
  <1> SUFFICES ASSUME FreezeIInv PROVE RecordIsOneState
    OBVIOUS
  <1>1. FreezeTypeOK
    <2>1. run.pc \in Places \cup {"refused"} /\ edits \in 0..MaxChanges
      BY DEF FreezeIInv, PlaceInv, WorldInv
    <2>2. now.tool \in [Baselines -> 0..MaxChanges]
      BY <2>1, FreezeAssumption DEF FreezeIInv, WorldInv, Disks
    <2>3. \A s \in Splits : now.manifest[s] \in Manifests[s]
      BY FreezeAssumption DEF FreezeIInv, WorldInv, Disks, Contents
    <2>4. run.pc = "published" => DOMAIN run = FieldsHeld
      BY HasPlace
    <2> QED BY <2>1, <2>2, <2>3, <2>4
            DEF FreezeTypeOK, Places, Checked, FieldsHeld, Final
  <1>2. NoSplitLeaks
    BY ApartLeaksNothing DEF NoSplitLeaks
  <1>3. EarlierEditsAreSeen
    BY DEF EarlierEditsAreSeen, Published, FreezeIInv, DigestInv
  <1>4. InventoryIsCurrent
    BY DEF InventoryIsCurrent, Published, FreezeIInv, InventoryInv, Final, ToolsAreCurrent
  <1> QED BY <1>1, <1>2, <1>3, <1>4 DEF RecordIsOneState

\* Whatever is edited, upgraded or rebuilt while a freeze runs, and whatever
\* rows the manifests have: no id and no group of a published record is in two
\* splits, a record whose digests are not the commit's was overtaken by an
\* edit, and its inventory is of the tools (freeze.py:268, 796, 953).
THEOREM OneState == FreezeSpec => []RecordIsOneState
  <1>1. FreezeInit => FreezeIInv BY BeginsSound
  <1>2. FreezeIInv /\ [FreezeNext]_freezeVars => FreezeIInv' BY StepKeeps
  <1>3. FreezeIInv => RecordIsOneState BY IInvIsOneState
  <1> QED BY <1>1, <1>2, <1>3, PTL DEF FreezeSpec

-----------------------------------------------------------------------------
(* Rows and bytes.                                                         *)

LEMMA BytesAreFinite ==
  ASSUME NEW rows \in SUBSET KnownRows
  PROVE  IsFiniteSet(rows) /\ IsFiniteSet(Bytes(rows))
  <1>1. IsFiniteSet(rows)
    BY CorpusAssumption, FS_Subset
  <1> DEFINE part == [x \in rows |-> {x} \X (1..x.bytes)]
             parts == {{x} \X (1..x.bytes) : x \in rows}
  <1>2. part \in Surjection(rows, parts)
    BY DEF Surjection
  <1>3. IsFiniteSet(parts)
    BY <1>1, <1>2, FS_Surjection
  <1>4. ASSUME NEW T \in parts PROVE IsFiniteSet(T)
    <2>1. PICK x \in rows : T = {x} \X (1..x.bytes)
      OBVIOUS
    <2>2. x.bytes \in Int
      BY CorpusAssumption
    <2>3. IsFiniteSet(1..x.bytes)
      BY <2>2, FS_Interval
    <2>4. IsFiniteSet({x})
      BY FS_Singleton
    <2> QED BY <2>1, <2>3, <2>4, FS_Product
  <1>5. IsFiniteSet(UNION parts)
    BY <1>3, <1>4, FS_UNION
  <1> QED BY <1>1, <1>5 DEF Bytes

\* Real rows that are added are counted on both sides of the comparison.
LEMMA DisjointCount ==
  ASSUME NEW S, NEW T, IsFiniteSet(S), IsFiniteSet(T), S \cap T = {}
  PROVE  /\ Cardinality(S \cup T) = Cardinality(S) + Cardinality(T)
         /\ Cardinality(S) \in Nat /\ Cardinality(T) \in Nat
  <1>1. Cardinality(S \cup T) = Cardinality(S) + Cardinality(T) - Cardinality(S \cap T)
    BY FS_Union
  <1>2. Cardinality(S \cap T) = 0
    BY FS_EmptySet
  <1>3. Cardinality(S) \in Nat
    BY FS_CardinalityType
  <1>4. Cardinality(T) \in Nat
    BY FS_CardinalityType
  <1> QED BY <1>1, <1>2, <1>3, <1>4

LEMMA RealRowsKeepBalance ==
  ASSUME NEW rows \in SUBSET KnownRows, NEW new \in SUBSET KnownRows,
         Balanced(rows), \A x \in new : x.origin = "real"
  PROVE  Balanced(rows \cup new)
  <1> DEFINE more == new \ rows
             both == rows \cup new
             real == {x \in rows : x.origin = "real"}
             allReal == {x \in both : x.origin = "real"}
  <1>1. both = rows \cup more /\ allReal = real \cup more
        /\ rows \cap more = {} /\ real \cap more = {}
    OBVIOUS
  <1>2. /\ IsFiniteSet(rows) /\ IsFiniteSet(more) /\ IsFiniteSet(real)
        /\ IsFiniteSet(Bytes(rows)) /\ IsFiniteSet(Bytes(more)) /\ IsFiniteSet(Bytes(real))
    BY BytesAreFinite
  <1>3. /\ Bytes(both) = Bytes(rows) \cup Bytes(more)
        /\ Bytes(allReal) = Bytes(real) \cup Bytes(more)
    BY <1>1 DEF Bytes
  <1>4. Bytes(rows) \cap Bytes(more) = {} /\ Bytes(real) \cap Bytes(more) = {}
    <2>1. \A x, y : x # y => ({x} \X (1..x.bytes)) \cap ({y} \X (1..y.bytes)) = {}
      OBVIOUS
    <2> QED BY <1>1, <2>1 DEF Bytes
  <1>5. /\ Cardinality(both) = Cardinality(rows) + Cardinality(more)
        /\ Cardinality(rows) \in Nat /\ Cardinality(more) \in Nat
    BY <1>1, <1>2, DisjointCount
  <1>6. /\ Cardinality(allReal) = Cardinality(real) + Cardinality(more)
        /\ Cardinality(real) \in Nat
    BY <1>1, <1>2, DisjointCount
  <1>7. /\ Total(both) = Total(rows) + Total(more)
        /\ Total(rows) \in Nat /\ Total(more) \in Nat
    BY <1>2, <1>3, <1>4, DisjointCount DEF Total
  <1>8. Total(allReal) = Total(real) + Total(more) /\ Total(real) \in Nat
    BY <1>2, <1>3, <1>4, DisjointCount DEF Total
  <1>9. /\ 10 * Cardinality(real) >= 7 * Cardinality(rows)
        /\ 10 * Total(real) >= 7 * Total(rows)
    BY DEF Balanced
  <1>10. \A a, b, m \in Nat : 10 * b >= 7 * a => 10 * (b + m) >= 7 * (a + m)
    OBVIOUS
  <1>11. 10 * Cardinality(allReal) >= 7 * Cardinality(both)
    BY <1>5, <1>6, <1>9, <1>10
  <1>12. 10 * Total(allReal) >= 7 * Total(both)
    BY <1>7, <1>8, <1>9, <1>10
  <1> QED BY <1>11, <1>12 DEF Balanced

-----------------------------------------------------------------------------
(* The invariant.                                                          *)

\* Where a program is still at its payloads.
Copying == {"item", "copy", "link"}
Fields == {"pc", "tool", "left", "open", "dev", "val", "alone", "clean"}

\* Rows of a split, each of a file that is there, on disk d.
Backed(rows, d) == \A s \in Steps : s.row \in rows => d[s.row.id] = "pinned"
SoundRows(rows, split, d) ==
  /\ rows \subseteq KnownRows /\ ValidCollection(rows) /\ Backed(rows, d)
  /\ \A x \in rows : x.split = split

\* A program has seen the payloads of its tool but those that are left.
ItemsSeen(p, d) ==
  IF p.pc \in Copying
  THEN /\ p.left \in Seq(Steps) /\ p.left # <<>>
       /\ \A s \in ToSet(Plan[p.tool]) : s \in ToSet(p.left) \/ d[s.row.id] = "pinned"
  ELSE p.tool # "coverage" =>
         \A s \in ToSet(Plan[p.tool]) : d[s.row.id] = "pinned"

\* What a program has in memory while it works.
MemorySound(p, d) ==
  /\ SoundRows(p.dev, "development", d) /\ SoundRows(p.val, "validation", d)
  /\ Balanced(p.val)
  /\ p.tool = "research" /\ p.pc = "write" => Balanced(p.dev)
  /\ p.tool = "builder" /\ p.pc \in {"rows", "rest"} => Balanced(ToSet(BaseRows))

ProgramSound(p, d) ==
  /\ DOMAIN p = Fields
  /\ p.pc \notin Stops => p.tool \in Tools /\ ItemsSeen(p, d) /\ MemorySound(p, d)

\* A manifest, for the split it is of.
FileSound(f, split, d) ==
  /\ DOMAIN f = {"there", "whole", "rows", "by"} /\ f.by \in Runs \cup {Nobody}
  /\ ~f.there => f = NoManifest
  /\ SoundRows(f.rows, split, d)
  /\ f.there /\ f.by = Nobody => Balanced(f.rows)

DiskInv == /\ disk \in [Payloads -> {"absent", "pinned", "other"}]
           /\ source \in [Sources -> {"pinned", "other"}]
           /\ temps \subseteq Runs \X Payloads /\ healthy \in BOOLEAN
           /\ starts \in 0..MaxStarts /\ faults \in 0..MaxFaults
CorporaInv == /\ DOMAIN manifest = {"dev", "val"} /\ manifest.val.by = Nobody
               /\ FileSound(manifest.dev, "development", disk)
               /\ FileSound(manifest.val, "validation", disk)
ProgramInv == /\ program = [r \in Runs |-> program[r]]
              /\ \A r \in Runs : ProgramSound(program[r], disk)
CoverageInv ==
  /\ coverage \in [Requirements ->
                     {"selected", "partial", "pinned-recipe", "available", "missing"}]
  /\ CoverageIsEarned
\* Before the first program starts there is nothing to disturb but files.
StartInv == starts = 0 => /\ \A r \in Runs : program[r] = Stopped("idle")
                          /\ coverage = Unselected

CorpusIInv == DiskInv /\ CorporaInv /\ ProgramInv /\ CoverageInv /\ StartInv

-----------------------------------------------------------------------------
(* Rows and steps.                                                         *)

LEMMA StepsAreKnown ==
  /\ StepRows \subseteq KnownRows
  /\ \A s \in Steps : s.row \in StepRows /\ s.row.id \in Payloads
  /\ \A t \in Tools : /\ RowsOf(t) \subseteq StepRows /\ ToSet(Plan[t]) \subseteq Steps
                      /\ \A s \in ToSet(Plan[t]) : s.row \in RowsOf(t)
  BY DEF StepRows, KnownRows, Payloads, RowsOf, Steps

\* No other step names the file of a step of the plan.
LEMMA OneRowPerFile ==
  ASSUME NEW s \in Steps, NEW q \in Steps, s.row.id = q.row.id
  PROVE  s.row = q.row
  BY StepsAreKnown, CorpusAssumption DEF ToolsAreSound

LEMMA HeadAndTail ==
  ASSUME NEW S, NEW q \in Seq(S), q # <<>>
  PROVE  /\ Head(q) \in S /\ Tail(q) \in Seq(S)
         /\ \A s \in ToSet(q) : s = Head(q) \/ s \in ToSet(Tail(q))
  <1>1. Head(q) \in S /\ Tail(q) \in Seq(S) /\ Len(Tail(q)) = Len(q) - 1
    OBVIOUS
  <1>2. ASSUME NEW n \in DOMAIN q, n # 1 PROVE q[n] \in ToSet(Tail(q))
    <2>1. n - 1 \in DOMAIN Tail(q) /\ Tail(q)[n - 1] = q[n]
      BY <1>1, <1>2
    <2> QED BY <2>1 DEF ToSet
  <1>3. Head(q) = q[1]
    OBVIOUS
  <1> QED BY <1>1, <1>2, <1>3 DEF ToSet

\* On a disk where what was pinned still is, sound stays sound.
LEMMA MorePinned ==
  ASSUME NEW d, NEW e, \A p \in Payloads : d[p] = "pinned" => e[p] = "pinned"
  PROVE  /\ \A rows, split : SoundRows(rows, split, d) => SoundRows(rows, split, e)
         /\ \A f, split : FileSound(f, split, d) => FileSound(f, split, e)
         /\ \A p : ProgramSound(p, d) => ProgramSound(p, e)
  <1>1. \A rows : Backed(rows, d) => Backed(rows, e)
    BY StepsAreKnown DEF Backed
  <1>2. \A rows, split : SoundRows(rows, split, d) => SoundRows(rows, split, e)
    BY <1>1 DEF SoundRows
  <1>3. \A f, split : FileSound(f, split, d) => FileSound(f, split, e)
    BY <1>2 DEF FileSound
  <1>4. ASSUME NEW p, ProgramSound(p, d) PROVE ProgramSound(p, e)
    <2>1. p.pc \notin Stops => MemorySound(p, e)
      BY <1>2, <1>4 DEF ProgramSound, MemorySound
    <2>2. p.pc \notin Stops => ItemsSeen(p, e)
      BY <1>4, StepsAreKnown DEF ProgramSound, ItemsSeen
    <2> QED BY <1>4, <2>1, <2>2 DEF ProgramSound
  <1> QED BY <1>2, <1>3, <1>4

\* A program that has copied everything may add what its tool selects.
LEMMA AddedRows ==
  ASSUME NEW p, NEW d, p.tool \in Tools, p.tool # "coverage", p.pc \notin Copying,
         ItemsSeen(p, d), NEW split, NEW rows, SoundRows(rows, split, d),
         ValidCollection(Upsert(rows, Additions(p.tool, split)))
  PROVE  SoundRows(Upsert(rows, Additions(p.tool, split)), split, d)
  <1> DEFINE new == Additions(p.tool, split)
  <1>1. new \subseteq KnownRows /\ \A x \in new : x.split = split
    BY StepsAreKnown DEF Additions
  <1>2. Backed(new, d)
    <2> SUFFICES ASSUME NEW s \in Steps, s.row \in new PROVE d[s.row.id] = "pinned"
      BY DEF Backed
    <2>1. PICK q \in ToSet(Plan[p.tool]) : q.row = s.row
      BY DEF Additions, RowsOf
    <2> QED BY <2>1 DEF ItemsSeen
  <1>3. Backed(rows \cup new, d)
    BY <1>2 DEF SoundRows, Backed
  <1> QED BY <1>1, <1>3 DEF SoundRows, Upsert

LEMMA NothingIsSound ==
  ASSUME NEW split, NEW d PROVE SoundRows({}, split, d) /\ Balanced({})
  <1>1. SoundRows({}, split, d)
    BY DEF SoundRows, ValidCollection, Backed
  <1>2. Bytes({}) = {} /\ Cardinality({}) = 0
    BY FS_EmptySet DEF Bytes
  <1>3. {x \in {} : x.origin = "real"} = {}
    OBVIOUS
  <1> QED BY <1>1, <1>2, <1>3 DEF Balanced, Total

LEMMA KeepIsSound ==
  ASSUME NEW split, NEW d, NEW rows, SoundRows(rows, split, d)
  PROVE  SoundRows(Keep(rows), split, d)
  BY DEF Keep, SoundRows, ValidCollection, Backed

-----------------------------------------------------------------------------
(* Steps of a program.                                                     *)

LEMMA StoppedIsSound ==
  ASSUME NEW pc \in Stops, NEW d PROVE ProgramSound(Stopped(pc), d)
  <1>1. DOMAIN Stopped(pc) = Fields /\ Stopped(pc).pc = pc
    BY DEF Stopped, Fields
  <1> QED BY <1>1 DEF ProgramSound

LEMMA BecomeIs ==
  ASSUME ProgramInv, NEW r \in Runs, NEW v, Become(r, v)
  PROVE  /\ program' = [q \in Runs |-> program'[q]]
         /\ program'[r] = v /\ \A q \in Runs : q # r => program'[q] = program[q]
  <1>1. DOMAIN program = Runs
    BY DEF ProgramInv
  <1> QED BY <1>1 DEF Become

LEMMA SoundProgram ==
  ASSUME CorpusIInv, NEW r \in Runs
  PROVE  ProgramSound(program[r], disk) /\ DOMAIN program[r] = Fields
  BY DEF CorpusIInv, ProgramInv, ProgramSound

LEMMA Working ==
  ASSUME CorpusIInv, NEW r \in Runs, Active(r)
  PROVE  /\ program[r].tool \in Tools /\ program[r].pc \notin Stops
         /\ DOMAIN program[r] = Fields
         /\ ItemsSeen(program[r], disk) /\ MemorySound(program[r], disk)
         /\ starts # 0
  <1>1. ProgramSound(program[r], disk) /\ program[r].pc \notin Stops
    BY SoundProgram DEF Active
  <1>2. starts # 0
    <2>1. Stopped("idle").pc = "idle"
      BY DEF Stopped
    <2> QED BY <1>1, <2>1 DEF CorpusIInv, StartInv, Stops
  <1>3. DOMAIN program[r] = Fields
    BY <1>1 DEF ProgramSound
  <1>4. /\ program[r].tool \in Tools /\ ItemsSeen(program[r], disk)
        /\ MemorySound(program[r], disk)
    BY <1>1, Zenon DEF ProgramSound
  <1> QED BY <1>1, <1>2, <1>3, <1>4

\* A step of one program that leaves payloads and manifests as they are.
LEMMA ProgramKeeps ==
  ASSUME CorpusIInv, NEW r \in Runs, Active(r), NEW v, Become(r, v),
         ProgramSound(v, disk), temps' \subseteq temps \cup ({r} \X Payloads),
         CoverageInv', faults' \in 0..MaxFaults,
         UNCHANGED <<disk, source, manifest, healthy, starts>>
  PROVE  CorpusIInv'
  <1>1. starts # 0
    BY Working
  <1>2. DiskInv'
    BY DEF CorpusIInv, DiskInv
  <1>3. CorporaInv'
    BY DEF CorpusIInv, CorporaInv
  <1>4. ProgramInv'
    BY BecomeIs DEF CorpusIInv, ProgramInv
  <1>5. StartInv'
    BY <1>1 DEF StartInv
  <1> QED BY <1>2, <1>3, <1>4, <1>5 DEF CorpusIInv

LEMMA CorpusQuietKeeps ==
  ASSUME CorpusIInv, NEW r \in Runs, Active(r), NEW v, Become(r, v),
         ProgramSound(v, disk), temps' \subseteq temps \cup ({r} \X Payloads),
         UNCHANGED <<disk, source, manifest, coverage, healthy, starts, faults>>
  PROVE  CorpusIInv'
  <1>1. CoverageInv'
    BY DEF CorpusIInv, CoverageInv, CoverageIsEarned
  <1>2. faults' \in 0..MaxFaults
    BY DEF CorpusIInv, DiskInv
  <1> QED BY <1>1, <1>2, ProgramKeeps

LEMMA FailKeeps ==
  ASSUME CorpusIInv, NEW r \in Runs, Active(r), Fail(r),
         UNCHANGED <<disk, source, manifest, coverage, healthy, starts, faults>>
  PROVE  CorpusIInv'
  <1>1. ProgramSound(Stopped("failed"), disk)
    BY StoppedIsSound DEF Stops
  <1>2. Become(r, Stopped("failed")) /\ temps' \subseteq temps
    BY DEF Fail
  <1> QED BY <1>1, <1>2, CorpusQuietKeeps

\* To another place, past the payloads.
LEMMA GoIsSound ==
  ASSUME NEW p, NEW d, ProgramSound(p, d), p.pc \notin Stops \cup Copying,
         NEW pc, pc \notin Copying,
         p.tool = "research" /\ pc = "write" => Balanced(p.dev),
         p.tool = "builder" /\ pc \in {"rows", "rest"} => Balanced(ToSet(BaseRows))
  PROVE  ProgramSound([p EXCEPT !.pc = pc], d)
  <1> DEFINE q == [p EXCEPT !.pc = pc]
  <1>1. /\ DOMAIN q = Fields /\ q.pc = pc /\ q.tool = p.tool
        /\ q.dev = p.dev /\ q.val = p.val
    BY DEF ProgramSound, Fields
  <1> HIDE DEF q
  <1>2. p.tool \in Tools /\ ItemsSeen(q, d)
    BY <1>1 DEF ProgramSound, ItemsSeen
  <1>3. MemorySound(q, d)
    BY <1>1 DEF ProgramSound, MemorySound
  <1>4. ProgramSound(q, d)
    BY <1>1, <1>2, <1>3 DEF ProgramSound
  <1> QED BY <1>4 DEF q

LEMMA StartKeeps ==
  ASSUME CorpusIInv, NEW r \in Runs, NEW t \in Tools, Start(r, t)
  PROVE  CorpusIInv'
  <1> DEFINE fresh == [pc |-> IF t = "coverage" THEN "load" ELSE "item",
                       tool |-> t, left |-> Plan[t], open |-> Local,
                       dev |-> {}, val |-> {},
                       alone |-> \A o \in Runs : ~Active(o), clean |-> Ready(t)]
  <1>1. /\ program' = [q \in Runs |->
             IF q = r THEN fresh ELSE [program[q] EXCEPT !.alone = FALSE]]
        /\ starts < MaxStarts /\ starts' = starts + 1
        /\ UNCHANGED <<disk, source, temps, manifest, coverage, healthy, faults>>
    BY DEF Start
  <1>2. /\ DOMAIN fresh = Fields /\ fresh.tool = t /\ fresh.left = Plan[t]
        /\ fresh.dev = {} /\ fresh.val = {}
        /\ fresh.pc = IF t = "coverage" THEN "load" ELSE "item"
    BY DEF Fields
  <1> HIDE DEF fresh
  <1>3. ItemsSeen(fresh, disk)
    BY <1>2, CorpusAssumption DEF ToolsAreSound, ItemsSeen, Copying
  <1>4. MemorySound(fresh, disk)
    BY <1>2, NothingIsSound DEF MemorySound
  <1>5. ProgramSound(fresh, disk)
    BY <1>2, <1>3, <1>4 DEF ProgramSound
  <1>6. ASSUME NEW q \in Runs PROVE ProgramSound([program[q] EXCEPT !.alone = FALSE], disk)
    <2> DEFINE p == program[q]
               u == [p EXCEPT !.alone = FALSE]
    <2>1. ProgramSound(p, disk)
      BY SoundProgram
    <2>2. /\ DOMAIN u = Fields /\ u.pc = p.pc /\ u.tool = p.tool /\ u.left = p.left
          /\ u.dev = p.dev /\ u.val = p.val
      BY <2>1 DEF ProgramSound, Fields
    <2> HIDE DEF p, u
    <2>3. ProgramSound(u, disk)
      BY <2>1, <2>2 DEF ProgramSound, ItemsSeen, MemorySound
    <2> QED BY <2>3 DEF p, u
  <1>7. ProgramInv'
    BY <1>1, <1>5, <1>6 DEF ProgramInv
  <1>8. DiskInv'
    BY <1>1, CorpusAssumption DEF CorpusIInv, DiskInv
  <1>9. CorporaInv' /\ CoverageInv'
    BY <1>1 DEF CorpusIInv, CorporaInv, CoverageInv, CoverageIsEarned
  <1>10. StartInv'
    BY <1>1, CorpusAssumption DEF CorpusIInv, DiskInv, StartInv
  <1> QED BY <1>7, <1>8, <1>9, <1>10 DEF CorpusIInv

\* A program that is still at its payloads has a next one.
LEMMA NextPayload ==
  ASSUME CorpusIInv, NEW r \in Runs, program[r].pc \in Copying
  PROVE  /\ Active(r) /\ Current(r) \in Steps /\ Current(r).row.id \in Payloads
         /\ Tail(program[r].left) \in Seq(Steps)
         /\ \A s \in ToSet(program[r].left) :
              s = Current(r) \/ s \in ToSet(Tail(program[r].left))
  <1>1. Active(r)
    BY DEF Active, Stops, Copying
  <1>2. program[r].left \in Seq(Steps) /\ program[r].left # <<>>
    BY <1>1, Working DEF ItemsSeen
  <1>3. /\ Current(r) \in Steps /\ Tail(program[r].left) \in Seq(Steps)
        /\ \A s \in ToSet(program[r].left) :
              s = Current(r) \/ s \in ToSet(Tail(program[r].left))
    BY <1>2, HeadAndTail DEF Current
  <1> QED BY <1>1, <1>3, StepsAreKnown

\* The payload is there: on to the next, or to the manifests.
LEMMA DoneIsSound ==
  ASSUME CorpusIInv, NEW r \in Runs, program[r].pc \in Copying, NEW d,
         \A p \in Payloads : disk[p] = "pinned" => d[p] = "pinned",
         d[Current(r).row.id] = "pinned"
  PROVE  ProgramSound(Done(r), d)
  <1> DEFINE p == program[r]
             q == Done(r)
             rest == Tail(p.left)
  <1>1. /\ DOMAIN p = Fields /\ p.tool \in Tools /\ ItemsSeen(p, disk)
        /\ MemorySound(p, disk) /\ p.pc \notin Stops
    BY NextPayload, Working
  <1>2. /\ DOMAIN q = Fields /\ q.tool = p.tool /\ q.left = rest
        /\ q.dev = p.dev /\ q.val = p.val
        /\ q.pc = IF rest # <<>> THEN "item"
                  ELSE IF p.tool = "builder" THEN "truncate" ELSE "load"
    BY <1>1 DEF Done, Fields
  <1>3. rest = <<>> => ToSet(rest) = {}
    BY DEF ToSet
  <1>4. \A s \in ToSet(Plan[p.tool]) : s \in ToSet(rest) \/ d[s.row.id] = "pinned"
    <2> SUFFICES ASSUME NEW s \in ToSet(Plan[p.tool]), s \notin ToSet(rest)
                 PROVE  d[s.row.id] = "pinned"
      OBVIOUS
    <2>1. s \in ToSet(p.left) \/ disk[s.row.id] = "pinned"
      BY <1>1 DEF ItemsSeen
    <2>2. s.row.id \in Payloads
      BY <1>1, StepsAreKnown
    <2> QED BY <2>1, <2>2, NextPayload
  <1>5. rest \in Seq(Steps)
    BY NextPayload
  <1>6. MemorySound(p, d)
    <2>1. ProgramSound(p, d)
      BY SoundProgram, MorePinned
    <2> QED BY <1>1, <2>1 DEF ProgramSound
  <1> HIDE DEF q, rest
  <1>7. ItemsSeen(q, d)
    BY <1>2, <1>3, <1>4, <1>5 DEF ItemsSeen, Copying
  <1>8. MemorySound(q, d)
    BY <1>2, <1>6 DEF MemorySound
  <1>9. ProgramSound(q, d)
    BY <1>1, <1>2, <1>7, <1>8 DEF ProgramSound
  <1> QED BY <1>9 DEF q

LEMMA StillCopying ==
  ASSUME CorpusIInv, NEW r \in Runs, program[r].pc \in Copying, NEW pc \in Copying
  PROVE  ProgramSound([program[r] EXCEPT !.pc = pc], disk)
  <1> DEFINE p == program[r]
             q == [p EXCEPT !.pc = pc]
  <1>1. /\ DOMAIN p = Fields /\ p.tool \in Tools /\ ItemsSeen(p, disk)
        /\ MemorySound(p, disk)
    BY NextPayload, Working
  <1>2. /\ DOMAIN q = Fields /\ q.tool = p.tool /\ q.left = p.left
        /\ q.dev = p.dev /\ q.val = p.val /\ q.pc = pc
    BY <1>1 DEF Fields
  <1> HIDE DEF q
  <1>3. ItemsSeen(q, disk)
    BY <1>1, <1>2 DEF ItemsSeen
  <1>4. MemorySound(q, disk)
    BY <1>1, <1>2 DEF MemorySound, Copying
  <1>5. ProgramSound(q, disk)
    BY <1>1, <1>2, <1>3, <1>4 DEF ProgramSound
  <1> QED BY <1>5 DEF q

\* What the coverage report earned it keeps.
LEMMA MoreEarned ==
  ASSUME CoverageIsEarned, UNCHANGED coverage,
         \A p \in Payloads : disk[p] = "pinned" => disk'[p] = "pinned"
  PROVE  CoverageIsEarned'
  <1> DEFINE Earned(q, d) == {p \in q.ids : /\ p \in Payloads => d[p] = "pinned"
                                            /\ \E s \in Steps : s.row.id = p /\ s.row.origin = q.kind}
  <1> SUFFICES ASSUME NEW q \in Requirements, coverage[q] = "selected"
               PROVE  IF q.every THEN Earned(q, disk') = q.ids ELSE Earned(q, disk') # {}
    BY DEF CoverageIsEarned
  <1>1. Earned(q, disk) \subseteq Earned(q, disk')
    OBVIOUS
  <1>2. IF q.every THEN Earned(q, disk) = q.ids ELSE Earned(q, disk) # {}
    BY DEF CoverageIsEarned
  <1>3. Earned(q, disk') \subseteq q.ids
    OBVIOUS
  <1> HIDE DEF Earned
  <1>4. Earned(q, disk) = q.ids => Earned(q, disk') = q.ids
    BY <1>1, <1>3
  <1>5. Earned(q, disk) # {} => Earned(q, disk') # {}
    BY <1>1
  <1> QED BY <1>2, <1>4, <1>5, Zenon

LEMMA ItemKeeps ==
  ASSUME CorpusIInv, NEW r \in Runs, Item(r) PROVE CorpusIInv'
  <1> DEFINE x == Current(r).row.id
  <1>1. /\ program[r].pc = "item"
        /\ UNCHANGED <<disk, source, manifest, coverage, healthy, starts, faults>>
        /\ \/ Fail(r)
           \/ Verified(x) /\ Become(r, Done(r)) /\ UNCHANGED temps
           \/ Go(r, "copy") /\ temps' = temps \cup {<<r, x>>}
    BY DEF Item
  <1>2. program[r].pc \in Copying
    BY <1>1 DEF Copying
  <1>3. Active(r) /\ x \in Payloads
    BY <1>2, NextPayload
  <1>4. CASE Fail(r)
    BY <1>1, <1>3, <1>4, FailKeeps
  <1>5. CASE Verified(x) /\ Become(r, Done(r)) /\ UNCHANGED temps
    <2>1. ProgramSound(Done(r), disk)
      BY <1>2, <1>5, DoneIsSound DEF Verified
    <2> QED BY <1>1, <1>3, <1>5, <2>1, CorpusQuietKeeps
  <1>6. CASE Go(r, "copy") /\ temps' = temps \cup {<<r, x>>}
    <2>1. ProgramSound([program[r] EXCEPT !.pc = "copy"], disk)
      BY <1>2, StillCopying DEF Copying
    <2>2. temps' \subseteq temps \cup ({r} \X Payloads)
      BY <1>3, <1>6
    <2> QED BY <1>1, <1>3, <1>6, <2>1, <2>2, CorpusQuietKeeps DEF Go
  <1> QED BY <1>1, <1>4, <1>5, <1>6

LEMMA CopyKeeps ==
  ASSUME CorpusIInv, NEW r \in Runs, Copy(r) PROVE CorpusIInv'
  <1>1. /\ program[r].pc = "copy"
        /\ UNCHANGED <<disk, source, manifest, coverage, healthy, starts, faults>>
        /\ (Go(r, "link") /\ UNCHANGED temps) \/ Fail(r)
    BY DEF Copy
  <1>2. program[r].pc \in Copying
    BY <1>1 DEF Copying
  <1>3. Active(r)
    BY <1>2, NextPayload
  <1>4. ProgramSound([program[r] EXCEPT !.pc = "link"], disk)
    BY <1>2, StillCopying DEF Copying
  <1>5. CASE Fail(r)
    BY <1>1, <1>3, <1>5, FailKeeps
  <1>6. CASE Go(r, "link") /\ UNCHANGED temps
    BY <1>1, <1>3, <1>4, <1>6, CorpusQuietKeeps DEF Go
  <1> QED BY <1>1, <1>5, <1>6

\* os.link gives an absent file its pinned contents and leaves every other.
LEMMA LinkKeeps ==
  ASSUME CorpusIInv, NEW r \in Runs, Link(r) PROVE CorpusIInv'
  <1> DEFINE x == Current(r).row.id
  <1>1. /\ program[r].pc = "link" /\ disk' = [disk EXCEPT ![x] = Linked(x)]
        /\ \/ /\ disk'[x] = "pinned" /\ Become(r, Done(r))
              /\ temps' = temps \ {<<r, x>>}
           \/ Fail(r)
        /\ UNCHANGED <<source, manifest, coverage, healthy, starts, faults>>
    BY DEF Link
  <1>2. program[r].pc \in Copying
    BY <1>1 DEF Copying
  <1>3. Active(r) /\ x \in Payloads
    BY <1>2, NextPayload
  <1>4. disk \in [Payloads -> {"absent", "pinned", "other"}]
    BY DEF CorpusIInv, DiskInv
  <1>5. /\ disk' \in [Payloads -> {"absent", "pinned", "other"}]
        /\ \A p \in Payloads : disk[p] = "pinned" => disk'[p] = "pinned"
    BY <1>1, <1>3, <1>4 DEF Linked
  <1>6. temps' \subseteq temps
    BY <1>1 DEF Fail
  <1>7. \E v : Become(r, v) /\ ProgramSound(v, disk')
    <2>1. CASE disk'[x] = "pinned" /\ Become(r, Done(r))
      BY <1>2, <1>5, <2>1, DoneIsSound
    <2>2. CASE Fail(r)
      BY <2>2, StoppedIsSound DEF Fail, Stops
    <2> QED BY <1>1, <2>1, <2>2
  <1>8. PICK v : Become(r, v) /\ ProgramSound(v, disk')
    BY <1>7
  <1>9. \A q \in Runs : ProgramSound(program[q], disk')
    BY <1>5, SoundProgram, MorePinned
  <1>10. ProgramInv'
    BY <1>8, <1>9, BecomeIs DEF CorpusIInv, ProgramInv
  <1>11. DiskInv'
    BY <1>1, <1>5, <1>6 DEF CorpusIInv, DiskInv
  <1>12. CorporaInv'
    BY <1>1, <1>5, MorePinned DEF CorpusIInv, CorporaInv
  <1>13. CoverageInv'
    <2>1. CoverageIsEarned'
      BY <1>1, <1>5, MoreEarned DEF CorpusIInv, CoverageInv
    <2> QED BY <1>1, <2>1 DEF CorpusIInv, CoverageInv
  <1>14. StartInv'
    BY <1>1, <1>3, Working DEF StartInv
  <1> QED BY <1>10, <1>11, <1>12, <1>13, <1>14 DEF CorpusIInv

-----------------------------------------------------------------------------
(* Reading and writing manifests.                                          *)

SplitOf(name) == IF name = "dev" THEN "development" ELSE "validation"

LEMMA GoKeeps ==
  ASSUME CorpusIInv, NEW r \in Runs, Active(r), program[r].pc \notin Copying,
         NEW pc, pc \notin Copying, Go(r, pc),
         program[r].tool = "research" /\ pc = "write" => Balanced(program[r].dev),
         program[r].tool # "builder" \/ pc \notin {"rows", "rest"},
         UNCHANGED <<disk, source, temps, manifest, coverage, healthy, starts, faults>>
  PROVE  CorpusIInv'
  <1>1. ProgramSound(program[r], disk) /\ program[r].pc \notin Stops \cup Copying
    BY Working, SoundProgram
  <1>2. ProgramSound([program[r] EXCEPT !.pc = pc], disk)
    BY <1>1, GoIsSound
  <1> QED BY <1>2, CorpusQuietKeeps DEF Go

\* A manifest that is there, whole and not empty is read as it is; the one of
\* the validation files is never half-written, so what is read is balanced.
LEMMA ReadKeeps ==
  ASSUME CorpusIInv, NEW r \in Runs, Active(r), program[r].pc \notin Copying,
         NEW name \in {"dev", "val"}, NEW next,
         next \notin Copying \cup {"write", "rows", "rest"}, Read(r, name, next)
  PROVE  CorpusIInv'
  <1>1. UNCHANGED <<disk, source, manifest, coverage, healthy, starts, faults>>
    BY DEF Read
  <1>2. CASE ~Usable(manifest[name])
    BY <1>1, <1>2, FailKeeps DEF Read
  <1>3. CASE Usable(manifest[name])
    <2> DEFINE p == program[r]
               rows == manifest[name].rows
               v == [p EXCEPT ![name] = rows, !.pc = next]
    <2>1. Become(r, v) /\ UNCHANGED temps
      BY <1>3 DEF Read
    <2>2. /\ DOMAIN p = Fields /\ p.tool \in Tools /\ ItemsSeen(p, disk)
          /\ MemorySound(p, disk)
      BY Working
    <2>3. /\ DOMAIN v = Fields /\ v.tool = p.tool /\ v.pc = next /\ v[name] = rows
          /\ name = "dev" => v.val = p.val
          /\ name = "val" => v.dev = p.dev
      BY <2>2 DEF Fields
    <2>4. SoundRows(rows, SplitOf(name), disk) /\ (name = "val" => Balanced(rows))
      BY <1>3 DEF CorpusIInv, CorporaInv, FileSound, SplitOf, Usable
    <2> HIDE DEF v
    <2>5. ItemsSeen(v, disk)
      BY <2>2, <2>3 DEF ItemsSeen
    <2>6. MemorySound(v, disk)
      <3>1. CASE name = "dev"
        BY <2>2, <2>3, <2>4, <3>1 DEF MemorySound, SplitOf
      <3>2. CASE name = "val"
        BY <2>2, <2>3, <2>4, <3>2 DEF MemorySound, SplitOf
      <3> QED BY <3>1, <3>2
    <2>7. ProgramSound(v, disk)
      BY <2>2, <2>3, <2>5, <2>6 DEF ProgramSound
    <2>8. Become(r, v)
      BY <2>1 DEF v
    <2> QED BY <1>1, <2>1, <2>7, <2>8, CorpusQuietKeeps
  <1> QED BY <1>2, <1>3

\* A step of a program that gives one manifest sound contents.
LEMMA CorpusWriteKeeps ==
  ASSUME CorpusIInv, NEW r \in Runs, Active(r), NEW v, Become(r, v),
         ProgramSound(v, disk), NEW name \in {"dev", "val"}, NEW f,
         FileSound(f, SplitOf(name), disk), name = "val" => f.by = Nobody,
         manifest' = [manifest EXCEPT ![name] = f],
         UNCHANGED <<disk, source, temps, coverage, healthy, starts, faults>>
  PROVE  CorpusIInv'
  <1>1. starts # 0
    BY Working
  <1>2. DiskInv'
    BY DEF CorpusIInv, DiskInv
  <1>3. CoverageInv'
    BY DEF CorpusIInv, CoverageInv, CoverageIsEarned
  <1>4. ProgramInv'
    BY BecomeIs DEF CorpusIInv, ProgramInv
  <1>5. CorporaInv'
    BY DEF CorpusIInv, CorporaInv, SplitOf
  <1>6. StartInv'
    BY <1>1 DEF StartInv
  <1> QED BY <1>2, <1>3, <1>4, <1>5, <1>6 DEF CorpusIInv

LEMMA ReplaceKeeps ==
  ASSUME CorpusIInv, NEW r \in Runs, Active(r), program[r].pc \notin Copying,
         NEW name \in {"dev", "val"}, NEW next,
         next \notin Copying \cup {"write", "rows", "rest"},
         Balanced(program[r][name]), Replace(r, name, next)
  PROVE  CorpusIInv'
  <1> DEFINE f == File(program[r][name])
             v == [program[r] EXCEPT !.pc = next]
  <1>1. /\ manifest' = [manifest EXCEPT ![name] = f] /\ Become(r, v)
        /\ UNCHANGED <<disk, source, temps, coverage, healthy, starts, faults>>
    BY DEF Replace, Go
  <1>2. ProgramSound(program[r], disk) /\ program[r].pc \notin Stops \cup Copying
    BY Working, SoundProgram
  <1>3. ProgramSound(v, disk)
    BY <1>2, GoIsSound
  <1>4. SoundRows(program[r][name], SplitOf(name), disk)
    BY Working DEF MemorySound, SplitOf
  <1>5. FileSound(f, SplitOf(name), disk) /\ f.by = Nobody
    BY <1>4 DEF FileSound, File
  <1> HIDE DEF f, v
  <1> QED BY <1>1, <1>3, <1>5, CorpusWriteKeeps

LEMMA MergeValKeeps ==
  ASSUME CorpusIInv, NEW r \in Runs, Active(r), program[r].pc \notin Copying,
         program[r].tool \in {"sensor", "crate"}, NEW next,
         next \notin Copying, MergeVal(r, next)
  PROVE  CorpusIInv'
  <1> DEFINE p == program[r]
             new == Additions(p.tool, "validation")
             v == [p EXCEPT !.val = Upsert(@, new), !.pc = next]
  <1>1. UNCHANGED <<disk, source, manifest, coverage, healthy, starts, faults>>
    BY DEF MergeVal
  <1>2. CASE Changed(p.val, new)
    BY <1>1, <1>2, FailKeeps DEF MergeVal
  <1>3. CASE ~Changed(p.val, new)
    <2>1. Become(r, v) /\ UNCHANGED temps
      BY <1>3 DEF MergeVal
    <2>2. /\ DOMAIN p = Fields /\ p.tool \in Tools /\ ItemsSeen(p, disk)
          /\ MemorySound(p, disk)
      BY Working
    <2>3. /\ DOMAIN v = Fields /\ v.tool = p.tool /\ v.pc = next
          /\ v.val = Upsert(p.val, new) /\ v.dev = p.dev
      BY <2>2 DEF Fields
    <2>4. SoundRows(Upsert(p.val, new), "validation", disk)
      BY <1>3, <2>2, AddedRows DEF Changed, MemorySound
    <2>5. new \in SUBSET KnownRows /\ \A x \in new : x.origin = "real"
      BY <2>2, StepsAreKnown, CorpusAssumption DEF Additions, ToolsAreSound
    <2>6. Balanced(Upsert(p.val, new))
      BY <2>2, <2>5, RealRowsKeepBalance DEF MemorySound, SoundRows, Upsert
    <2> HIDE DEF v, new
    <2>7. ItemsSeen(v, disk)
      BY <2>2, <2>3 DEF ItemsSeen
    <2>8. MemorySound(v, disk)
      BY <2>2, <2>3, <2>4, <2>6 DEF MemorySound
    <2>9. ProgramSound(v, disk)
      BY <2>2, <2>3, <2>7, <2>8 DEF ProgramSound
    <2> QED BY <1>1, <2>1, <2>9, CorpusQuietKeeps
  <1> QED BY <1>2, <1>3

LEMMA CorpusCheckKeeps ==
  ASSUME CorpusIInv, NEW r \in Runs, Active(r), program[r].pc \notin Copying,
         NEW next, next \notin Copying, CheckSplits(r, next),
         program[r].tool # "research",
         program[r].tool # "builder" \/ next \notin {"rows", "rest"}
  PROVE  CorpusIInv'
  <1>1. UNCHANGED <<disk, source, manifest, coverage, healthy, starts, faults>>
    BY DEF CheckSplits
  <1>2. CASE Merges(program[r].dev, program[r].val)
    BY <1>1, <1>2, GoKeeps DEF CheckSplits
  <1>3. CASE ~Merges(program[r].dev, program[r].val)
    BY <1>1, <1>3, FailKeeps DEF CheckSplits
  <1> QED BY <1>2, <1>3

-----------------------------------------------------------------------------
(* The five programs.                                                      *)

\* The research program: both merged manifests are valid and weighed before
\* either is written.
LEMMA MergedIsSound ==
  ASSUME CorpusIInv, NEW r \in Runs, program[r].tool = "research",
         program[r].pc = "merge", ~Refused(r)
  PROVE  ProgramSound([Merged(r) EXCEPT !.pc = "write"], disk)
  <1> DEFINE p == program[r]
             dev == Upsert(Keep(p.dev), Additions("research", "development"))
             val == Upsert(Keep(p.val), Additions("research", "validation"))
             m == Merged(r)
             v == [m EXCEPT !.pc = "write"]
  <1>1. Active(r) /\ p.pc \notin Copying
    BY DEF Active, Stops, Copying
  <1>2. /\ DOMAIN p = Fields /\ p.tool \in Tools /\ ItemsSeen(p, disk)
        /\ MemorySound(p, disk)
    BY <1>1, Working
  <1>3. /\ DOMAIN m = Fields /\ m.tool = p.tool /\ m.dev = dev /\ m.val = val
    BY <1>2 DEF Merged, Fields
  <1>4. /\ DOMAIN v = Fields /\ v.tool = p.tool /\ v.pc = "write"
        /\ v.dev = dev /\ v.val = val
    BY <1>3 DEF Fields
  <1>5. SoundRows(Keep(p.dev), "development", disk) /\ SoundRows(Keep(p.val), "validation", disk)
    BY <1>2, KeepIsSound DEF MemorySound
  <1>6. ValidCollection(dev) /\ ValidCollection(val)
    BY DEF Refused, Changed
  <1>7. Weighed(dev, val)
    BY <1>3 DEF Refused
  <1>8. SoundRows(dev, "development", disk) /\ SoundRows(val, "validation", disk)
    BY <1>1, <1>2, <1>5, <1>6, AddedRows
  <1> HIDE DEF m, v, dev, val
  <1>9. MemorySound(v, disk)
    BY <1>4, <1>7, <1>8 DEF MemorySound, Weighed
  <1>10. ItemsSeen(v, disk)
    BY <1>1, <1>2, <1>4 DEF ItemsSeen, Copying
  <1>11. ProgramSound(v, disk)
    BY <1>2, <1>4, <1>9, <1>10 DEF ProgramSound
  <1> QED BY <1>11 DEF v, m

LEMMA ResearchKeeps ==
  ASSUME CorpusIInv, NEW r \in Runs, Research(r) PROVE CorpusIInv'
  <1>1. /\ program[r].pc \in {"load", "load2", "merge", "write", "write2"}
        /\ program[r].tool = "research"
    BY DEF Research
  <1>2. Active(r) /\ program[r].pc \notin Copying
    BY <1>1 DEF Active, Stops, Copying
  <1>3. MemorySound(program[r], disk)
    BY <1>2, Working
  <1>4. CASE program[r].pc = "load" /\ Read(r, "dev", "load2")
    BY <1>2, <1>4, ReadKeeps DEF Copying
  <1>5. CASE program[r].pc = "load2" /\ Read(r, "val", "merge")
    BY <1>2, <1>5, ReadKeeps DEF Copying
  <1>6. CASE /\ program[r].pc = "merge"
             /\ IF Refused(r) THEN Fail(r)
                ELSE Become(r, [Merged(r) EXCEPT !.pc = "write"]) /\ UNCHANGED temps
             /\ UNCHANGED <<disk, source, manifest, coverage, healthy, starts, faults>>
    <2>1. CASE Refused(r)
      BY <1>2, <1>6, <2>1, FailKeeps
    <2>2. CASE ~Refused(r)
      <3>1. ProgramSound([Merged(r) EXCEPT !.pc = "write"], disk)
        BY <1>1, <1>6, <2>2, MergedIsSound
      <3> QED BY <1>2, <1>6, <2>2, <3>1, CorpusQuietKeeps
    <2> QED BY <2>1, <2>2
  <1>7. CASE program[r].pc = "write" /\ Replace(r, "dev", "write2")
    BY <1>1, <1>2, <1>3, <1>7, ReplaceKeeps DEF Copying, MemorySound
  <1>8. CASE program[r].pc = "write2" /\ Replace(r, "val", "report")
    BY <1>2, <1>3, <1>8, ReplaceKeeps DEF Copying, MemorySound
  <1> QED BY <1>4, <1>5, <1>6, <1>7, <1>8 DEF Research

LEMMA CrateKeeps ==
  ASSUME CorpusIInv, NEW r \in Runs, Crate(r) PROVE CorpusIInv'
  <1>1. /\ program[r].pc \in {"load", "merge", "load2", "check", "write", "reload", "check2"}
        /\ program[r].tool = "crate"
    BY DEF Crate
  <1>2. Active(r) /\ program[r].pc \notin Copying
    BY <1>1 DEF Active, Stops, Copying
  <1>3. MemorySound(program[r], disk)
    BY <1>2, Working
  <1>4. CASE ReadIfThere(r, "merge")
    <2>1. CASE manifest.val.there
      BY <1>2, <1>4, <2>1, ReadKeeps DEF ReadIfThere, Copying
    <2>2. CASE ~manifest.val.there
      BY <1>1, <1>2, <1>4, <2>2, GoKeeps DEF ReadIfThere, Copying, world
    <2> QED BY <2>1, <2>2
  <1>5. CASE MergeVal(r, "load2")
    BY <1>1, <1>2, <1>5, MergeValKeeps DEF Copying
  <1>6. CASE Read(r, "dev", "check") \/ Read(r, "val", "check2")
    BY <1>2, <1>6, ReadKeeps DEF Copying
  <1>7. CASE CheckSplits(r, "write") \/ CheckSplits(r, "report")
    BY <1>1, <1>2, <1>7, CorpusCheckKeeps DEF Copying
  <1>8. CASE Replace(r, "val", "reload")
    BY <1>2, <1>3, <1>8, ReplaceKeeps DEF Copying, MemorySound
  <1> QED BY <1>4, <1>5, <1>6, <1>7, <1>8 DEF Crate

LEMMA SensorKeeps ==
  ASSUME CorpusIInv, NEW r \in Runs, Sensor(r) PROVE CorpusIInv'
  <1>1. /\ program[r].pc \in {"load", "merge", "write", "reload", "load2", "check"}
        /\ program[r].tool = "sensor"
    BY DEF Sensor
  <1>2. Active(r) /\ program[r].pc \notin Copying
    BY <1>1 DEF Active, Stops, Copying
  <1>3. MemorySound(program[r], disk)
    BY <1>2, Working
  <1>4. CASE ReadIfThere(r, "merge")
    <2>1. CASE manifest.val.there
      BY <1>2, <1>4, <2>1, ReadKeeps DEF ReadIfThere, Copying
    <2>2. CASE ~manifest.val.there
      BY <1>1, <1>2, <1>4, <2>2, GoKeeps DEF ReadIfThere, Copying, world
    <2> QED BY <2>1, <2>2
  <1>5. CASE MergeVal(r, "write")
    BY <1>1, <1>2, <1>5, MergeValKeeps DEF Copying
  <1>6. CASE Read(r, "val", "load2") \/ Read(r, "dev", "check")
    BY <1>2, <1>6, ReadKeeps DEF Copying
  <1>7. CASE CheckSplits(r, "report")
    BY <1>1, <1>2, <1>7, CorpusCheckKeeps DEF Copying
  <1>8. CASE Replace(r, "val", "reload")
    BY <1>2, <1>3, <1>8, ReplaceKeeps DEF Copying, MemorySound
  <1> QED BY <1>4, <1>5, <1>6, <1>7, <1>8 DEF Sensor

\* Any of the builder's rows are sound once it has seen its files.
LEMMA BuilderRows ==
  ASSUME CorpusIInv, NEW r \in Runs, Active(r), program[r].pc \notin Copying,
         program[r].tool = "builder", NEW rows, rows \subseteq ToSet(BaseRows)
  PROVE  SoundRows(rows, "development", disk)
  <1>1. "builder" \in Tools /\ ItemsSeen(program[r], disk)
    BY Working
  <1>2. ToSet(BaseRows) = RowsOf("builder")
    BY DEF BaseRows, ToSet, RowsOf
  <1>3. rows \subseteq KnownRows /\ \A x \in rows : x.split = "development"
    BY <1>1, <1>2, StepsAreKnown, CorpusAssumption DEF ToolsAreSound
  <1>4. ValidCollection(rows)
    BY <1>1, <1>2, CorpusAssumption DEF ToolsAreSound, ValidCollection
  <1>5. Backed(rows, disk)
    <2> SUFFICES ASSUME NEW s \in Steps, s.row \in rows PROVE disk[s.row.id] = "pinned"
      BY DEF Backed
    <2>1. PICK q \in ToSet(Plan["builder"]) : q.row = s.row
      BY <1>2 DEF RowsOf
    <2> QED BY <1>1, <2>1 DEF ItemsSeen
  <1> QED BY <1>3, <1>4, <1>5 DEF SoundRows

\* A step of the builder that writes in place what it has of its file.
LEMMA InPlaceKeeps ==
  ASSUME CorpusIInv, NEW r \in Runs, Active(r), program[r].pc \notin Copying,
         program[r].tool = "builder", NEW f, FileSound(f, "development", disk),
         NEW next, next \notin Copying, Balanced(ToSet(BaseRows)), Go(r, next),
         \/ manifest' = [manifest EXCEPT !.dev = f]
         \/ manifest' = manifest,
         UNCHANGED <<disk, source, temps, coverage, healthy, starts, faults>>
  PROVE  CorpusIInv'
  <1> DEFINE v == [program[r] EXCEPT !.pc = next]
  <1>1. ProgramSound(program[r], disk) /\ program[r].pc \notin Stops \cup Copying
    BY Working, SoundProgram
  <1>2. ProgramSound(v, disk)
    BY <1>1, GoIsSound
  <1>3. Become(r, v)
    BY DEF Go
  <1> HIDE DEF v
  <1>4. CASE manifest' = manifest
    BY <1>2, <1>3, <1>4, CorpusQuietKeeps
  <1>5. CASE manifest' = [manifest EXCEPT !["dev"] = f]
    <2>1. FileSound(f, SplitOf("dev"), disk)
      BY DEF SplitOf
    <2> QED BY <1>2, <1>3, <1>5, <2>1, CorpusWriteKeeps
  <1> QED BY <1>4, <1>5

LEMMA BuilderKeeps ==
  ASSUME CorpusIInv, NEW r \in Runs, Builder(r) PROVE CorpusIInv'
  <1>1. /\ program[r].pc \in {"truncate", "rows", "rest", "reload"}
        /\ program[r].tool = "builder"
    BY DEF Builder
  <1>2. Active(r) /\ program[r].pc \notin Copying
    BY <1>1 DEF Active, Stops, Copying
  <1>3. MemorySound(program[r], disk) /\ r # Nobody
    BY <1>2, Working, CorpusAssumption
  <1>4. CASE /\ program[r].pc = "truncate" /\ Balanced(ToSet(BaseRows))
             /\ manifest' = [manifest EXCEPT !.dev = [File({}) EXCEPT !.by = r]]
             /\ Go(r, "rows") /\ UNCHANGED <<disk, source, temps, coverage, healthy, starts, faults>>
    <2> DEFINE f == [File({}) EXCEPT !.by = r]
    <2>1. /\ DOMAIN f = {"there", "whole", "rows", "by"}
          /\ f.by = r /\ f.there /\ f.rows = {}
      BY DEF File
    <2> HIDE DEF f
    <2>2. FileSound(f, "development", disk)
      BY <1>3, <2>1, NothingIsSound DEF FileSound
    <2>3. manifest' = [manifest EXCEPT !.dev = f]
      BY <1>4 DEF f
    <2> QED BY <1>1, <1>2, <1>4, <2>2, <2>3, InPlaceKeeps DEF Copying
  <1>5. ASSUME program[r].pc = "rows", NEW n \in 1..Len(BaseRows) - 1, NEW whole \in BOOLEAN,
               InPlace(r, [there |-> TRUE, whole |-> whole, by |-> r,
                           rows |-> ToSet(SubSeq(BaseRows, 1, n))]),
               Go(r, "rest"),
               UNCHANGED <<disk, source, temps, coverage, healthy, starts, faults>>
        PROVE  CorpusIInv'
    <2> DEFINE rows == ToSet(SubSeq(BaseRows, 1, n))
               f == [there |-> TRUE, whole |-> whole, by |-> r, rows |-> rows]
    <2>1. /\ DOMAIN f = {"there", "whole", "rows", "by"}
          /\ f.by = r /\ f.there /\ f.rows = rows
      OBVIOUS
    <2>2. rows \subseteq ToSet(BaseRows)
      BY DEF ToSet
    <2>3. SoundRows(rows, "development", disk)
      BY <1>1, <1>2, <2>2, BuilderRows
    <2>4. manifest' = [manifest EXCEPT !.dev = f] \/ manifest' = manifest
      BY <1>5 DEF InPlace
    <2> HIDE DEF f, rows
    <2>5. FileSound(f, "development", disk)
      BY <1>3, <2>1, <2>3 DEF FileSound
    <2>6. Balanced(ToSet(BaseRows))
      BY <1>1, <1>3, <1>5 DEF MemorySound
    <2> QED BY <1>1, <1>2, <1>5, <2>4, <2>5, <2>6, InPlaceKeeps DEF Copying
  <1>6. CASE /\ program[r].pc = "rest" /\ InPlace(r, File(ToSet(BaseRows)))
             /\ Go(r, "reload")
             /\ UNCHANGED <<disk, source, temps, coverage, healthy, starts, faults>>
    <2> DEFINE f == File(ToSet(BaseRows))
    <2>1. /\ DOMAIN f = {"there", "whole", "rows", "by"}
          /\ f.by = Nobody /\ f.there /\ f.rows = ToSet(BaseRows)
      BY DEF File
    <2>2. SoundRows(ToSet(BaseRows), "development", disk)
      BY <1>1, <1>2, BuilderRows
    <2>3. manifest' = [manifest EXCEPT !.dev = f] \/ manifest' = manifest
      BY <1>6 DEF InPlace
    <2>4. Balanced(ToSet(BaseRows))
      BY <1>1, <1>3, <1>6 DEF MemorySound
    <2> HIDE DEF f
    <2>5. FileSound(f, "development", disk)
      BY <2>1, <2>2, <2>4 DEF FileSound
    <2> QED BY <1>1, <1>2, <1>6, <2>3, <2>4, <2>5, InPlaceKeeps DEF Copying
  <1>7. CASE program[r].pc = "reload" /\ Read(r, "dev", "report")
    BY <1>2, <1>7, ReadKeeps DEF Copying
  <1> QED BY <1>4, <1>5, <1>6, <1>7 DEF Builder

\* A row that a requirement's selector finds is one a tool selects, so its
\* payload is there; where every selector is required all of them are.
LEMMA StatusIsEarned ==
  ASSUME NEW d, NEW rows \in SUBSET KnownRows, Backed(rows, d),
         NEW q \in Requirements, Status(rows, q) = "selected"
  PROVE  LET earned == {p \in q.ids : /\ p \in Payloads => d[p] = "pinned"
                                      /\ \E s \in Steps : s.row.id = p /\ s.row.origin = q.kind}
         IN  IF q.every THEN earned = q.ids ELSE earned # {}
  <1> DEFINE earned == {p \in q.ids : /\ p \in Payloads => d[p] = "pinned"
                                      /\ \E s \in Steps : s.row.id = p /\ s.row.origin = q.kind}
             found == Matching(rows, q.ids, q.kind)
             foundIds == {x.id : x \in found}
  <1>1. Exact(rows, q) # {}
    BY DEF Status
  <1>2. ASSUME NEW x \in found PROVE x.id \in earned
    <2>1. x \in rows /\ x.id \in q.ids /\ x.origin = q.kind
      BY DEF Matching
    <2>2. x \in StepRows
      BY <2>1, CorpusAssumption DEF BeginningsAreSound, KnownRows
    <2>3. PICK s \in Steps : s.row = x
      BY <2>2 DEF StepRows
    <2>4. d[x.id] = "pinned"
      BY <2>1, <2>3 DEF Backed
    <2> QED BY <2>1, <2>3, <2>4
  <1>3. foundIds \subseteq earned /\ earned \subseteq q.ids
    BY <1>2
  <1>4. found # {} => earned # {}
    BY <1>2
  <1> HIDE DEF earned
  <1>5. CASE q.every
    <2>1. foundIds = q.ids
      BY <1>1, <1>5, Zenon DEF Exact
    <2>2. earned = q.ids
      BY <1>3, <2>1
    <2> QED BY <1>5, <2>2, Zenon DEF earned
  <1>6. CASE ~q.every
    <2>1. found # {}
      BY <1>1, <1>6, Zenon DEF Exact
    <2> QED BY <1>4, <1>6, <2>1, Zenon DEF earned
  <1> QED BY <1>5, <1>6, Zenon

LEMMA CoverageKeeps ==
  ASSUME CorpusIInv, NEW r \in Runs, Coverage(r) PROVE CorpusIInv'
  <1> DEFINE p == program[r]
             rows == p.dev \cup p.val
  <1>1. p.pc \in {"load", "load2", "check", "rows"} /\ p.tool = "coverage"
    BY DEF Coverage
  <1>2. Active(r) /\ p.pc \notin Copying
    BY <1>1 DEF Active, Stops, Copying
  <1>3. MemorySound(p, disk)
    BY <1>2, Working
  <1>4. CASE Read(r, "dev", "load2") \/ Read(r, "val", "check")
    BY <1>2, <1>4, ReadKeeps DEF Copying
  <1>5. CASE CheckSplits(r, "rows")
    BY <1>1, <1>2, <1>5, CorpusCheckKeeps DEF Copying
  <1>6. ASSUME coverage' = [q \in Requirements |-> Status(rows, q)],
               Go(r, "report"), UNCHANGED temps,
               UNCHANGED <<disk, source, manifest, healthy, starts, faults>>
        PROVE  CorpusIInv'
    <2>1. rows \in SUBSET KnownRows /\ Backed(rows, disk)
      BY <1>3 DEF MemorySound, SoundRows, Backed
    <2>2. coverage' \in [Requirements ->
                     {"selected", "partial", "pinned-recipe", "available", "missing"}]
      BY <1>6 DEF Status
    <2>3. CoverageIsEarned'
      <3> SUFFICES ASSUME NEW q \in Requirements, coverage'[q] = "selected"
                   PROVE  LET earned == {i \in q.ids : /\ i \in Payloads => disk'[i] = "pinned"
                                                       /\ \E s \in Steps : s.row.id = i /\ s.row.origin = q.kind}
                          IN  IF q.every THEN earned = q.ids ELSE earned # {}
        BY Zenon DEF CoverageIsEarned
      <3>1. Status(rows, q) = "selected"
        BY <1>6
      <3>2. Backed(rows, disk')
        BY <1>6, <2>1
      <3>3. rows \in SUBSET KnownRows
        BY <2>1
      <3> HIDE DEF rows
      <3> QED BY <3>1, <3>2, <3>3, StatusIsEarned, ZenonT(90)
    <2>4. CoverageInv'
      BY <2>2, <2>3 DEF CoverageInv
    <2>5. ProgramSound([p EXCEPT !.pc = "report"], disk)
      <3>1. ProgramSound(p, disk) /\ p.pc \notin Stops \cup Copying
        BY <1>2, Working, SoundProgram
      <3> QED BY <1>1, <3>1, GoIsSound DEF Copying
    <2>6. faults' \in 0..MaxFaults
      BY <1>6 DEF CorpusIInv, DiskInv
    <2> QED BY <1>2, <1>6, <2>4, <2>5, <2>6, ProgramKeeps DEF Go
  <1>7. CASE Fail(r) /\ UNCHANGED <<disk, source, manifest, coverage, healthy, starts, faults>>
    BY <1>2, <1>7, FailKeeps
  <1> QED BY <1>4, <1>5, <1>6, <1>7 DEF Coverage

LEMMA ReportKeeps ==
  ASSUME CorpusIInv, NEW r \in Runs, Report(r) PROVE CorpusIInv'
  <1>1. /\ program[r].pc = "report" /\ Become(r, Stopped("ok"))
        /\ UNCHANGED <<disk, source, temps, manifest, coverage, healthy, starts, faults>>
    BY DEF Report, world
  <1>2. Active(r) /\ ProgramSound(Stopped("ok"), disk)
    BY <1>1, StoppedIsSound DEF Active, Stops
  <1> QED BY <1>1, <1>2, CorpusQuietKeeps

LEMMA KillKeeps ==
  ASSUME CorpusIInv, NEW r \in Runs, KillProgram(r) PROVE CorpusIInv'
  <1>1. /\ Active(r) /\ Become(r, Stopped("killed"))
        /\ UNCHANGED <<disk, source, temps, manifest, coverage, healthy, starts>>
    BY DEF KillProgram
  <1>2. ProgramSound(Stopped("killed"), disk)
    BY StoppedIsSound DEF Stops
  <1>3. CoverageInv'
    BY <1>1 DEF CorpusIInv, CoverageInv, CoverageIsEarned
  <1>4. faults' \in 0..MaxFaults
    BY CorpusAssumption DEF CorpusIInv, DiskInv, KillProgram
  <1> QED BY <1>1, <1>2, <1>3, <1>4, ProgramKeeps

-----------------------------------------------------------------------------
(* Disturbances.                                                           *)

LEMMA NoLongerClean ==
  ASSUME NEW p, NEW d, ProgramSound(p, d)
  PROVE  ProgramSound([p EXCEPT !.clean = FALSE], d)
  <1> DEFINE q == [p EXCEPT !.clean = FALSE]
  <1>1. /\ DOMAIN q = Fields /\ q.pc = p.pc /\ q.tool = p.tool /\ q.left = p.left
        /\ q.dev = p.dev /\ q.val = p.val
    BY DEF ProgramSound, Fields
  <1> HIDE DEF q
  <1>2. ProgramSound(q, d)
    BY <1>1 DEF ProgramSound, ItemsSeen, MemorySound
  <1> QED BY <1>2 DEF q

\* Once a program has run only an absent payload is disturbed; before, only
\* one that no manifest selects.
LEMMA DisturbedDisk ==
  ASSUME CorpusIInv, Disturb
  PROVE  /\ disk' \in [Payloads -> {"absent", "pinned", "other"}]
         /\ source' \in [Sources -> {"pinned", "other"}]
         /\ starts # 0 => \A p \in Payloads : disk[p] # "absent" => disk'[p] = disk[p]
         /\ \A s \in Steps :
              s.row \in manifest.dev.rows \cup manifest.val.rows /\ disk[s.row.id] = "pinned" =>
                disk'[s.row.id] = "pinned"
  <1>1. /\ disk \in [Payloads -> {"absent", "pinned", "other"}]
        /\ source \in [Sources -> {"pinned", "other"}]
    BY DEF CorpusIInv, DiskInv
  <1>2. CASE \E a \in Sources : source' = [source EXCEPT ![a] = "other"] /\ UNCHANGED disk
    BY <1>1, <1>2
  <1>3. ASSUME NEW s \in Steps, s.row \notin manifest.dev.rows \cup manifest.val.rows,
               disk[s.row.id] = "absent" \/ (s.source = Local /\ starts = 0),
               disk' = [disk EXCEPT ![s.row.id] = "other"], UNCHANGED source
        PROVE  /\ disk' \in [Payloads -> {"absent", "pinned", "other"}]
               /\ source' \in [Sources -> {"pinned", "other"}]
               /\ starts # 0 => \A p \in Payloads : disk[p] # "absent" => disk'[p] = disk[p]
               /\ \A q \in Steps :
                    q.row \in manifest.dev.rows \cup manifest.val.rows /\ disk[q.row.id] = "pinned" =>
                      disk'[q.row.id] = "pinned"
    <2>1. s.row.id \in Payloads /\ \A q \in Steps : q.row.id \in Payloads
      BY StepsAreKnown
    <2>2. \A q \in Steps : q.row \in manifest.dev.rows \cup manifest.val.rows =>
            q.row.id # s.row.id
      BY <1>3, OneRowPerFile
    <2> QED BY <1>1, <1>3, <2>1, <2>2
  <1> QED BY <1>2, <1>3 DEF Disturb

LEMMA DisturbKeeps ==
  ASSUME CorpusIInv, Disturb PROVE CorpusIInv'
  <1>1. /\ program' = [r \in Runs |-> [program[r] EXCEPT !.clean = FALSE]]
        /\ faults < MaxFaults /\ faults' = faults + 1
        /\ UNCHANGED <<temps, manifest, coverage, healthy, starts>>
    BY DEF Disturb
  <1>2. DiskInv'
    BY <1>1, DisturbedDisk, CorpusAssumption DEF CorpusIInv, DiskInv
  <1>3. starts # 0 => \A p \in Payloads : disk[p] = "pinned" => disk'[p] = "pinned"
    BY DisturbedDisk
  <1>4. CorporaInv'
    <2>1. /\ Backed(manifest.dev.rows, disk) /\ Backed(manifest.val.rows, disk)
      BY DEF CorpusIInv, CorporaInv, FileSound, SoundRows
    <2>2. /\ Backed(manifest.dev.rows, disk') /\ Backed(manifest.val.rows, disk')
      BY <2>1, DisturbedDisk DEF Backed
    <2> QED BY <1>1, <2>2 DEF CorpusIInv, CorporaInv, FileSound, SoundRows
  <1>5. ASSUME NEW r \in Runs PROVE ProgramSound(program[r], disk')
    <2>1. CASE starts # 0
      BY <1>3, <2>1, SoundProgram, MorePinned
    <2>2. CASE starts = 0
      <3>1. program[r] = Stopped("idle")
        BY <2>2 DEF CorpusIInv, StartInv
      <3> QED BY <3>1, StoppedIsSound DEF Stops
    <2> QED BY <2>1, <2>2
  <1>6. ProgramInv'
    BY <1>1, <1>5, NoLongerClean DEF ProgramInv
  <1>7. CoverageInv'
    <2>1. CASE starts # 0
      BY <1>1, <1>3, <2>1, MoreEarned DEF CorpusIInv, CoverageInv
    <2>2. CASE starts = 0
      <3>1. coverage' = Unselected
        BY <1>1, <2>2 DEF CorpusIInv, StartInv
      <3>2. \A q \in Requirements : coverage'[q] # "selected"
        BY <3>1 DEF Unselected
      <3> QED BY <1>1, <3>2, Zenon DEF CorpusIInv, CoverageInv, CoverageIsEarned
    <2> QED BY <2>1, <2>2
  <1>8. StartInv'
    <2>1. Stopped("idle") = [Stopped("idle") EXCEPT !.clean = FALSE]
      <3>1. Stopped("idle").clean = FALSE
        BY Zenon DEF Stopped
      <3>2. Stopped("idle") = [n \in Fields |-> Stopped("idle")[n]]
        BY DEF Stopped, Fields
      <3> QED BY <3>1, <3>2
    <2>2. starts = 0 => \A r \in Runs : program'[r] = Stopped("idle")
      BY <1>1, <2>1 DEF CorpusIInv, StartInv
    <2>3. starts = 0 => coverage' = Unselected
      BY <1>1 DEF CorpusIInv, StartInv
    <2> QED BY <1>1, <2>2, <2>3 DEF StartInv, Unselected
  <1> QED BY <1>2, <1>4, <1>6, <1>7, <1>8 DEF CorpusIInv

-----------------------------------------------------------------------------
(* The corpus.                                                             *)

LEMMA FirstManifest ==
  ASSUME NEW split, NEW d, NEW rows, SoundRows(rows, split, d),
         rows # {} => Balanced(rows)
  PROVE  FileSound(AsFile(rows), split, d) /\ AsFile(rows).by = Nobody
  <1>1. CASE rows = {}
    <2>1. AsFile(rows) = NoManifest
      BY <1>1 DEF AsFile
    <2>2. /\ DOMAIN NoManifest = {"there", "whole", "rows", "by"}
          /\ NoManifest.rows = {} /\ NoManifest.by = Nobody /\ NoManifest.there = FALSE
      BY DEF NoManifest
    <2> QED BY <2>1, <2>2, NothingIsSound DEF FileSound
  <1>2. CASE rows # {}
    <2>1. AsFile(rows) = File(rows)
      BY <1>2 DEF AsFile
    <2>2. /\ DOMAIN File(rows) = {"there", "whole", "rows", "by"}
          /\ File(rows).rows = rows /\ File(rows).by = Nobody /\ File(rows).there = TRUE
      BY DEF File
    <2> QED BY <1>2, <2>1, <2>2 DEF FileSound
  <1> QED BY <1>1, <1>2

LEMMA InitIsReal ==
  ASSUME CorpusInit PROVE CorpusIInv
  <1>1. PICK b \in Beginnings :
          /\ manifest = [dev |-> AsFile(b.dev), val |-> AsFile(b.val)]
          /\ healthy = b.healthy
          /\ disk = [p \in Payloads |->
                IF \E s \in Steps : /\ s.row.id = p
                                    /\ s.source = Local \/ s.row \in b.dev \cup b.val
                THEN "pinned" ELSE "absent"]
    BY DEF CorpusInit
  <1>2. /\ source = [a \in Sources |-> "pinned"]
        /\ temps = {} /\ coverage = Unselected /\ starts = 0 /\ faults = 0
        /\ program = [r \in Runs |-> Stopped("idle")]
    BY DEF CorpusInit
  <1>3. DiskInv
    BY <1>1, <1>2, CorpusAssumption DEF DiskInv, BeginningsAreSound
  <1>4. Backed(b.dev, disk) /\ Backed(b.val, disk)
    BY <1>1, StepsAreKnown DEF Backed
  <1>5. SoundRows(b.dev, "development", disk) /\ SoundRows(b.val, "validation", disk)
    BY <1>4, CorpusAssumption DEF BeginningsAreSound, SoundRows, KnownRows
  <1>6. (b.dev # {} => Balanced(b.dev)) /\ (b.val # {} => Balanced(b.val))
    BY CorpusAssumption DEF BeginningsAreSound
  <1>7. CorporaInv
    BY <1>1, <1>5, <1>6, FirstManifest DEF CorporaInv
  <1>8. ProgramInv
    BY <1>2, StoppedIsSound DEF ProgramInv, Stops
  <1>9. CoverageInv
    <2>1. \A q \in Requirements : coverage[q] # "selected"
      BY <1>2 DEF Unselected
    <2>2. CoverageIsEarned
      BY <2>1, Zenon DEF CoverageIsEarned
    <2> QED BY <1>2, <2>2 DEF CoverageInv, Unselected
  <1>10. StartInv
    BY <1>2 DEF StartInv
  <1> QED BY <1>3, <1>7, <1>8, <1>9, <1>10 DEF CorpusIInv

LEMMA NextKeeps ==
  ASSUME CorpusIInv, [CorpusNext]_corpusVars PROVE CorpusIInv'
  <1>1. CASE UNCHANGED corpusVars
    BY <1>1 DEF corpusVars, CorpusIInv, DiskInv, CorporaInv, ProgramInv,
                CoverageInv, CoverageIsEarned, StartInv
  <1>2. ASSUME NEW r \in Runs, NEW t \in Tools, Start(r, t) PROVE CorpusIInv'
    BY <1>2, StartKeeps
  <1>3. ASSUME NEW r \in Runs, Item(r) \/ Copy(r) \/ Link(r) PROVE CorpusIInv'
    BY <1>3, ItemKeeps, CopyKeeps, LinkKeeps
  <1>4. ASSUME NEW r \in Runs,
               Research(r) \/ Crate(r) \/ Sensor(r) \/ Builder(r) \/ Coverage(r)
        PROVE  CorpusIInv'
    BY <1>4, ResearchKeeps, CrateKeeps, SensorKeeps, BuilderKeeps, CoverageKeeps
  <1>5. ASSUME NEW r \in Runs, Report(r) \/ KillProgram(r) PROVE CorpusIInv'
    BY <1>5, ReportKeeps, KillKeeps
  <1>6. CASE Disturb
    BY <1>6, DisturbKeeps
  <1> QED BY <1>1, <1>2, <1>3, <1>4, <1>5, <1>6 DEF CorpusNext

LEMMA SoundIsReal ==
  ASSUME CorpusIInv PROVE CorpusIsReal
  <1>1. CorpusTypeOK
    <2>1. ASSUME NEW n \in {"dev", "val"}
          PROVE  FileSound(manifest[n], SplitOf(n), disk) /\ (n = "val" => manifest[n].by = Nobody)
      BY DEF CorpusIInv, CorporaInv, SplitOf
    <2>2. \A n \in {"dev", "val"} :
            LET f == manifest[n]
            IN  /\ ~f.there => f = NoManifest
                /\ f.by \in Runs \cup {Nobody} /\ (n = "val" => f.by = Nobody)
                /\ \A x \in f.rows : x.split = (IF n = "dev" THEN "development" ELSE "validation")
                /\ ValidCollection(f.rows)
      BY <2>1, Zenon DEF FileSound, SoundRows, SplitOf
    <2>3. \A r \in Runs : Active(r) => program[r].tool \in Tools
      BY Working
    <2> QED BY <2>2, <2>3 DEF CorpusIInv, DiskInv, CoverageInv, CorpusTypeOK
  <1>2. PayloadBehindEveryRow
    BY DEF CorpusIInv, CorporaInv, FileSound, SoundRows, Backed, PayloadBehindEveryRow
  <1>3. CorpusIsBalanced
    BY DEF CorpusIInv, CorporaInv, FileSound, CorpusIsBalanced
  <1>4. CoverageIsEarned
    BY DEF CorpusIInv, CoverageInv
  <1> QED BY <1>1, <1>2, <1>3, <1>4 DEF CorpusIsReal

\* However the programs of mathsvg/python/datasets overlap, wherever they are
\* killed and whatever is put in an absent payload's place or an archive's:
\* each row of development.csv and validation.csv that a tool selects has its
\* pinned payload on disk, both manifests keep the 70% rule of the code's
\* own balance check, and the coverage matrix calls a requirement selected
\* only for payloads that are there (materialize_research_corpus.py,
\* materialize_crate_validation.py, materialize_validation.py,
\* build_development_manifest.py, coverage_matrix.py).
THEOREM RealCorpus == CorpusSpec => []CorpusIsReal
  <1>1. CorpusInit => CorpusIInv
    BY InitIsReal
  <1>2. CorpusIInv /\ [CorpusNext]_corpusVars => CorpusIInv'
    BY NextKeeps
  <1>3. CorpusIInv => CorpusIsReal
    BY SoundIsReal
  <1> QED BY <1>1, <1>2, <1>3, PTL DEF CorpusSpec

\* Besides os.link only a disturbance changes a payload.
LEMMA OnlyLinksWrite ==
  ASSUME CorpusNext PROVE disk' = disk \/ Disturb \/ \E r \in Runs : Link(r)
  <1>1. ASSUME NEW r \in Runs, NEW t \in Tools, Start(r, t) PROVE disk' = disk
    BY <1>1 DEF Start
  <1>2. ASSUME NEW r \in Runs, Item(r) \/ Copy(r) \/ Report(r) \/ KillProgram(r)
        PROVE  disk' = disk
    BY <1>2 DEF Item, Copy, Report, KillProgram, world
  <1>3. ASSUME NEW r \in Runs, Research(r) PROVE disk' = disk
    BY <1>3 DEF Research, Read, Replace
  <1>4. ASSUME NEW r \in Runs, Crate(r) \/ Sensor(r) PROVE disk' = disk
    BY <1>4 DEF Crate, Sensor, ReadIfThere, Read, MergeVal, CheckSplits, Replace, world
  <1>5. ASSUME NEW r \in Runs, Builder(r) \/ Coverage(r) PROVE disk' = disk
    BY <1>5 DEF Builder, Coverage, Read, CheckSplits
  <1> QED BY <1>1, <1>2, <1>3, <1>4, <1>5 DEF CorpusNext

LEMMA NothingIsReplaced ==
  ASSUME CorpusIInv, [CorpusNext]_corpusVars, NEW p \in Payloads, disk[p] # "absent",
         NEW r \in Runs, Active(r)
  PROVE  disk'[p] = disk[p]
  <1>1. CASE UNCHANGED corpusVars
    BY <1>1 DEF corpusVars
  <1>2. ASSUME NEW q \in Runs, Link(q) PROVE disk'[p] = disk[p]
    <2>1. disk \in [Payloads -> {"absent", "pinned", "other"}]
      BY DEF CorpusIInv, DiskInv
    <2> QED BY <1>2, <2>1 DEF Link, Linked
  <1>3. CASE Disturb
    BY <1>3, Working, DisturbedDisk
  <1> QED BY <1>1, <1>2, <1>3, OnlyLinksWrite

\* While programs of mathsvg/python/datasets run, any number of them, none
\* changes a payload that is there, whatever it holds: a copy is published by
\* os.link, which gives a name to it only when the name is free
\* (materialize_research_corpus.py, materialize_validation.py and
\* materialize_crate_validation.py).
THEOREM PayloadsStay == CorpusSpec => PayloadsAreNeverReplaced
  <1>1. CorpusInit => CorpusIInv
    BY InitIsReal
  <1>2. CorpusIInv /\ [CorpusNext]_corpusVars => CorpusIInv'
    BY NextKeeps
  <1>3. CorpusIInv /\ [CorpusNext]_corpusVars =>
          [\A p \in Payloads :
             disk[p] # "absent" /\ (\E r \in Runs : Active(r)) => disk'[p] = disk[p]]_corpusVars
    BY NothingIsReplaced
  <1> QED BY <1>1, <1>2, <1>3, PTL DEF CorpusSpec, PayloadsAreNeverReplaced

=============================================================================
