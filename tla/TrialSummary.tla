------------------------------ MODULE TrialSummary ------------------------------
(***************************************************************************)
(* The benchmark table of benchmarks/summarize.py, computed from the rows  *)
(* a campaign has written so far: a campaign writes its trials in schedule *)
(* order (benchmarks/protocol.py) and may be stopped after any of them.    *)
(* Of a row only the cell, the status, the archive's size and its          *)
(* determinism flag are kept: the other eleven metrics are treated like    *)
(* the size.  Sizes in the table are twice the median, an integer.         *)
(***************************************************************************)
EXTENDS Integers, Sequences, FiniteSets, FiniteSetsExt, Sums

CONSTANTS Codecs,         \* sequence of codec configurations, schedule order
          Native,         \* those with a MathSVG profile
          Datasets,       \* sequence of selected workloads
          Repetitions,    \* measured repetitions of the schedule
          MinReps,        \* 5 in the code
          StrictReps,     \* 10 in the code, for differences below 2%
          Outcomes        \* codec -> possible [status, bytes, det]

\* schedule takes every workload and every codec once; an archive has a size.
\* A corpus row is no row of a data set (row_scope).
ASSUME SummaryAssumption ==
  /\ Codecs \in Seq(STRING) /\ Datasets \in Seq(STRING)
  /\ \A m, n \in DOMAIN Codecs : Codecs[m] = Codecs[n] => m = n
  /\ \A m, n \in DOMAIN Datasets : Datasets[m] = Datasets[n] => m = n
  /\ \A n \in DOMAIN Datasets : Datasets[n] # "__aggregate__"
  /\ Repetitions \in Nat /\ MinReps \in Nat /\ StrictReps \in Nat
  /\ MinReps <= StrictReps
  /\ \A n \in DOMAIN Codecs :
       Outcomes[Codecs[n]] \subseteq [status : STRING, bytes : Nat, det : BOOLEAN]

NoSize == -1
CodecSet == {Codecs[k] : k \in DOMAIN Codecs}
DatasetSet == {Datasets[k] : k \in DOMAIN Datasets}
Corpus == "__aggregate__"

-----------------------------------------------------------------------------
(* The schedule: every codec once in a block, a block per workload and     *)
(* repetition.  The shuffles are the identity: no statistic sees the order. *)

BlockSize == Len(Codecs)
ScheduleLength == Repetitions * Len(Datasets) * BlockSize
Cell(n) ==
  LET block == (n - 1) \div BlockSize
  IN  [block |-> block, order |-> (n - 1) % BlockSize,
       rep |-> block \div Len(Datasets),
       data |-> Datasets[(block % Len(Datasets)) + 1],
       codec |-> Codecs[((n - 1) % BlockSize) + 1]]
TrialRecord(cell, o) ==
  [block |-> cell.block, order |-> cell.order, rep |-> cell.rep, data |-> cell.data,
   codec |-> cell.codec, status |-> o.status, bytes |-> o.bytes, det |-> o.det]

-----------------------------------------------------------------------------
(* Groups of rows, as sets of positions of the log.                        *)

\* Mutant: only the rows that succeeded are grouped.
OkOf(log, c, d) == {n \in DOMAIN log : /\ log[n].codec = c /\ log[n].data = d
                                       /\ log[n].status = "ok"}
Of(log, c, d) == {n \in DOMAIN log : log[n].codec = c /\ log[n].data = d}
OfCodec(log, c) == {n \in DOMAIN log : log[n].codec = c}
Ok(log, ns) == {n \in ns : log[n].status = "ok"}
RepsOf(log, ns) == {log[n].rep : n \in ns}
DataOf(log, ns) == {log[n].data : n \in ns}

\* build_summary_rows: what makes the whole log unusable.
DuplicateCell(log) ==
  \E m, n \in DOMAIN log :
    /\ m < n /\ log[m].block = log[n].block /\ log[m].order = log[n].order
    /\ log[m].rep = log[n].rep
\* Mutant: a cell that was not reached yet is missing.
Present(log, ns) ==
  /\ ns # {} /\ Cardinality(RepsOf(log, ns)) = Cardinality(ns)
  /\ RepsOf(log, ns) = 0..(Cardinality(ns) - 1)
Dense(log, ns) ==
  /\ Cardinality(RepsOf(log, ns)) = Cardinality(ns)
  /\ RepsOf(log, ns) = 0..(Cardinality(ns) - 1)
Accepts(log) ==
  /\ log # <<>> /\ ~DuplicateCell(log)
  /\ \A c \in CodecSet, d \in DatasetSet : Dense(log, Of(log, c, d))

OverallStatus(log, ns) ==
  LET has(s) == \E n \in ns : log[n].status = s
  IN  IF Ok(log, ns) = ns THEN "complete"
      ELSE IF has("ok") THEN "partial"
      ELSE IF has("timeout") THEN "timeout"
      ELSE IF has("failed") THEN "failed" ELSE "unavailable"

\* Twice the median of the values f takes on S.
Median2(f, S) ==
  LET rank(v, k) == /\ Cardinality({x \in S : f[x] < v}) < k
                    /\ k <= Cardinality({x \in S : f[x] <= v})
      nth(k) == CHOOSE v \in {f[x] : x \in S} : rank(v, k)
      size == Cardinality(S)
  IN  IF size = 0 THEN NoSize
      ELSE IF size % 2 = 1 THEN 2 * nth((size + 1) \div 2)
      ELSE nth(size \div 2) + nth(size \div 2 + 1)

-----------------------------------------------------------------------------
(* Rows of the table: _summary_row per file and per corpus.                *)

Bytes(log) == [n \in DOMAIN log |-> log[n].bytes]

SummaryRow(log, c, d, ns, samples, size) ==
  [codec |-> c, data |-> d, scheduled |-> Cardinality(ns),
   successful |-> Cardinality(Ok(log, ns)), samples |-> samples,
   reps |-> Cardinality(RepsOf(log, ns)), status |-> OverallStatus(log, ns),
   deterministic |-> \A n \in ns : log[n].det, size |-> size, confidence |-> "none"]

FileRow(log, c, d) ==
  LET ns == Of(log, c, d)
      ok == Ok(log, ns)
  IN  SummaryRow(log, c, d, ns, Cardinality(ok), Median2(Bytes(log), ok))

\* Repetitions in which every file of the group has a successful row.
WholeReps(log, ns) ==
  {r \in RepsOf(log, ns) :
     LET now == {n \in ns : log[n].rep = r}
     IN  Cardinality(now) = Cardinality(DataOf(log, ns)) /\ Ok(log, now) = now}

\* Mutant: the corpus row pools the samples of its files.
PooledRow(log, c) ==
  LET ns == OfCodec(log, c)
  IN  SummaryRow(log, c, Corpus, ns, Cardinality(Ok(log, ns)),
          Median2(Bytes(log), Ok(log, ns)))
CorpusRow(log, c) ==
  LET ns == OfCodec(log, c)
      whole == WholeReps(log, ns)
      total == [r \in whole |->
                  SumOver([n \in ns |-> log[n].bytes], {n \in ns : log[n].rep = r})]
  IN  SummaryRow(log, c, Corpus, ns, Cardinality(whole), Median2(total, whole))

PlainTable(log) ==
  {FileRow(log, c, d) : c \in CodecSet, d \in DatasetSet}
    \cup {CorpusRow(log, c) : c \in CodecSet}

-----------------------------------------------------------------------------
(* _enforce_close_delta_repetitions: below 2% the protocol wants more.     *)

Close(a, b) ==
  /\ a.status = "complete" /\ b.status = "complete"
  /\ a.codec # b.codec /\ a.data = b.data
  /\ a.size # NoSize /\ b.size # NoSize
  /\ 50 * (IF a.size > b.size THEN a.size - b.size ELSE b.size - a.size)
       < (IF a.size > b.size THEN a.size ELSE b.size)

\* Mutant: close differences need no more repetitions.
LaxConfidence(row, table) ==
  IF /\ row.status = "complete" /\ row.reps >= MinReps
     /\ row.codec \in Native => row.deterministic
  THEN "confirmed"
  ELSE IF row.successful > 0 THEN "inconclusive" ELSE "not-measured"
Confidence(row, table) ==
  LET minimum == IF \E other \in table : Close(row, other) THEN StrictReps
                 ELSE MinReps
      native == row.codec \in Native => row.deterministic
  IN  IF row.status = "complete" /\ row.reps >= minimum /\ native
      THEN "confirmed"
      ELSE IF row.successful > 0 THEN "inconclusive" ELSE "not-measured"

\* Only groups that have a row in the log are summarized.
BuildSummaryRows(log) ==
  LET plain == {r \in PlainTable(log) : r.scheduled > 0}
  IN  {[r EXCEPT !.confidence = Confidence(r, plain)] : r \in plain}

-----------------------------------------------------------------------------
(* A campaign that may stop at any time, and the table of what it left.    *)

VARIABLES log,       \* the measured rows of the JSONL file
          table,     \* the table made of them
          stopped    \* the campaign has ended or was interrupted

summaryVars == <<log, table, stopped>>

SummaryInit == log = <<>> /\ table = {} /\ stopped = FALSE

AppendTrial ==
  /\ ~stopped /\ Len(log) < ScheduleLength
  /\ \E o \in Outcomes[Cell(Len(log) + 1).codec] :
       log' = Append(log, TrialRecord(Cell(Len(log) + 1), o))
  /\ UNCHANGED <<table, stopped>>

Summarize ==
  /\ ~stopped /\ Accepts(log)
  /\ table' = BuildSummaryRows(log) /\ stopped' = TRUE
  /\ UNCHANGED log

SummaryNext == AppendTrial \/ Summarize
SummarySpec == SummaryInit /\ [][SummaryNext]_summaryVars

-----------------------------------------------------------------------------

TableTyped ==
  /\ Len(log) <= ScheduleLength /\ stopped \in BOOLEAN
  /\ \A r \in table : /\ r.codec \in CodecSet /\ r.data \in DatasetSet \cup {Corpus}
                      /\ r.confidence \in {"confirmed", "inconclusive", "not-measured"}
                      /\ r.samples <= r.reps

\* The rows of a campaign stopped after any trial, in the middle of a block
\* or of a repetition, are never refused as a whole.
InterruptedRowsSummarize == log # <<>> => Accepts(log)

\* A confirmed row of one file stands on a successful measurement in every
\* repetition, on at least the minimum number of them, on one archive if the
\* codec is native, and on the larger number if any codec whose own file row
\* has no failure came out within 2% of it.
ConfirmedFileIsReplicated ==
  \A r \in table : r.confidence = "confirmed" /\ r.data # Corpus =>
    LET mine == Of(log, r.codec, r.data)
        rivals == {c \in CodecSet \ {r.codec} :
                     LET ns == Of(log, c, r.data)
                     IN  ns # {} /\ Ok(log, ns) = ns}
        size(c) == Median2(Bytes(log), Of(log, c, r.data))
        near(c) == 49 * size(c) < 50 * r.size /\ 49 * r.size < 50 * size(c)
    IN  /\ Ok(log, mine) = mine /\ Cardinality(mine) >= MinReps
        /\ r.codec \in Native => \A n \in mine : log[n].det
        /\ (\E c \in rivals : near(c)) => Cardinality(mine) >= StrictReps

\* Every measured trial is counted in exactly one file row and one corpus
\* row, whatever its status: nothing disappears because it failed.
NothingDisappears ==
  LET files == {r \in table : r.data # Corpus}
      corpora == {r \in table : r.data = Corpus}
      count(S) == SumOver([r \in S |-> r.scheduled], S)
  IN  /\ stopped => count(files) = Len(log) /\ count(corpora) = Len(log)
      /\ \A r \in files : (r.status = "complete") <=> r.successful = r.scheduled

\* mathsvg/docs/benchmark-methodology.md:114 asks for at least five measured
\* repetitions: a confirmed corpus row has measured every file in as many.
ConfirmedCorpusIsReplicated ==
  \A r \in table :
    r.confidence = "confirmed" /\ r.data = Corpus => r.samples >= MinReps

\* The table of a campaign that stopped anywhere: it is made, it loses no
\* trial, and what it confirms of a file was measured often enough.
TableKeepsFailures ==
  /\ TableTyped
  /\ InterruptedRowsSummarize /\ ConfirmedFileIsReplicated /\ NothingDisappears
================================================================================
