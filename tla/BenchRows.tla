------------------------------- MODULE BenchRows -------------------------------
(***************************************************************************)
(* One cell of a mathzip_bench campaign: warm-ups, measured trials, the    *)
(* row made of them (runner.py, execute_trial and aggregate_trials), and   *)
(* what the independent verifier demands of that row (verification.py,     *)
(* validate_result_document).  The runner refuses to publish a document    *)
(* its own verifier objects to, so the two have to agree on every row.     *)
(*                                                                         *)
(* A world says how the commands of one trial end.  An archive is a member *)
(* of Contents, its size SizeOf; one time stands for the four measured     *)
(* ones.  An inspection is the total of its byte breakdown; an encoder     *)
(* metric is the search it names ("old": a codec that names none) and one  *)
(* phase time.  A command is whether it asks for metrics.                  *)
(***************************************************************************)
EXTENDS Integers, Sequences, FiniteSets, SequencesExt

CONSTANTS Contents,       \* archives a compressor may write
          SizeOf,         \* [Contents -> Nat]
          Times,          \* seconds a command may take
          Repeats,        \* numbers of measured trials
          StrictRepeats   \* least number of them in strict results

ASSUME CellAssumption ==
  SizeOf \in [Contents -> Nat] /\ Repeats \subseteq Nat \ {0}

Blank == -1

Ends == {"ok", "nostart", "timeout", "fail", "missing"}
Searches == {"old", "p1", "p2"}
Jobs == [family : {"raw", "mathzip", "other"}, mode : {"probe", "inline"},
         collect : BOOLEAN, warmups : 0..1, repeats : Repeats,
         input : {"verified", "unlisted", "damaged", "absent"}, available : BOOLEAN]
TrialWorlds ==
  [compress : Ends, archive : Contents, seconds : Times, decompress : Ends,
   restored : {"input", "other"}, inspect : BOOLEAN,
   probe : Ends \cup {"differs"}, metrics : Searches \cup {"bad"}]

-----------------------------------------------------------------------------
(* A trial: execute_trial.                                                 *)

\* Whether the timed command asks for metrics.
Timed(job) == job.family = "mathzip" /\ job.mode = "inline"

NoTrial == [status |-> "error", bytes |-> Blank, seconds |-> Blank, hash |-> "none",
            restored |-> "none", roundtrip |-> FALSE, inspection |-> Blank,
            metrics |-> "none", timed |-> FALSE, probed |-> "none"]
Failures == [compression |-> [timeout |-> "compression_timeout", fail |-> "compression_failed"],
             decompression |-> [timeout |-> "decompression_timeout",
                                fail |-> "decompression_failed"]]
FailedTrial(phase, end) ==
  [NoTrial EXCEPT !.status =
     IF end = "nostart" THEN "error"
     ELSE Failures[phase][IF end = "timeout" THEN "timeout" ELSE "fail"]]

Inspects(job, collect) == collect /\ job.family = "mathzip"
Probes(job, collect, w) ==
  w.restored = "input" /\ job.family = "mathzip" /\ (Timed(job) \/ collect)

\* The metrics a trial keeps, "bad" for any way not to get them: inline from
\* the timed command, else from a second compression of the same bytes.
MetricsOf(job, collect, w) ==
  IF ~Probes(job, collect, w) THEN "none"
  ELSE IF Timed(job) \/ w.probe = "ok" THEN w.metrics ELSE "bad"

\* Mutant: a probe that fails is a trial without metrics.
LenientStatus(job, collect, w) ==
  IF w.restored # "input" THEN "checksum_mismatch"
  ELSE IF Inspects(job, collect) /\ ~w.inspect THEN "inspection_failed"
  ELSE "ok"
TrialStatus(job, collect, w) ==
  IF w.restored # "input" THEN "checksum_mismatch"
  ELSE IF Inspects(job, collect) /\ ~w.inspect THEN "inspection_failed"
  ELSE IF MetricsOf(job, collect, w) = "bad" THEN "compression_metrics_failed"
  ELSE "ok"

RestoredTrial(job, collect, w) ==
  [status |-> TrialStatus(job, collect, w), bytes |-> SizeOf[w.archive],
   seconds |-> w.seconds, hash |-> w.archive, restored |-> w.restored,
   roundtrip |-> w.restored = "input",
   inspection |-> IF Inspects(job, collect) /\ w.inspect THEN SizeOf[w.archive] ELSE Blank,
   metrics |-> LET m == MetricsOf(job, collect, w) IN IF m = "bad" THEN "none" ELSE m,
   timed |-> Timed(job),
   probed |-> IF Probes(job, collect, w) THEN "metrics" ELSE "none"]

ExecuteTrial(job, collect, w) ==
  IF w.compress # "ok" THEN FailedTrial("compression", w.compress)
  ELSE IF w.decompress # "ok" THEN FailedTrial("decompression", w.decompress)
  ELSE RestoredTrial(job, collect, w)

\* The worlds that differ where the code still looks.  A raw copy works or
\* raises.
Relevant(job, collect, w) ==
  LET done == w.compress = "ok" /\ w.decompress = "ok"
  IN  /\ ~done => /\ w.archive = CHOOSE a \in Contents : TRUE
                  /\ w.seconds = CHOOSE t \in Times : TRUE
                  /\ w.restored = "input"
      /\ w.compress # "ok" => w.decompress = "ok"
      /\ job.family = "raw" => w.compress \in {"ok", "nostart"} /\ w.decompress = "ok"
      /\ ~(done /\ Inspects(job, collect)) => w.inspect
      /\ ~(done /\ Probes(job, collect, w) /\ ~Timed(job)) => w.probe = "ok"
      /\ ~(done /\ Probes(job, collect, w) /\ (Timed(job) \/ w.probe = "ok")) =>
            w.metrics = "old"

-----------------------------------------------------------------------------
(* The row: _empty_row, _median, _mathzip_metrics, aggregate_trials.       *)

\* The elements at some positions of a sequence, in their order.
Kept(s, at) ==
  LET upTo[n \in 0..Len(s)] ==
        IF n = 0 THEN <<>>
        ELSE IF n \in at THEN Append(upTo[n - 1], s[n]) ELSE upTo[n - 1]
  IN  upTo[Len(s)]

Ok(trials) == Kept(trials, {n \in DOMAIN trials : trials[n].status = "ok"})
\* The value with fewer than k below it and k of them no larger.
Nth(values, k) ==
  CHOOSE v \in {values[n] : n \in DOMAIN values} :
    /\ Cardinality({n \in DOMAIN values : values[n] < v}) < k
    /\ k <= Cardinality({n \in DOMAIN values : values[n] <= v})
\* Twice the median, to stay among the integers.
Median2(values) ==
  LET n == Len(values) IN Nth(values, (n + 1) \div 2) + Nth(values, (n + 2) \div 2)
Bytes2(trials) == Median2([n \in DOMAIN trials |-> trials[n].bytes])
Seconds2(trials) == Median2([n \in DOMAIN trials |-> trials[n].seconds])

PhaseTime(m) == IF m = "p2" THEN 2 ELSE 1
Timings(trials) == Kept(trials, {n \in DOMAIN trials : trials[n].metrics # "none"})
Phase2(trials) ==
  LET timed == Timings(trials)
  IN  IF timed = <<>> THEN Blank
      ELSE Median2([n \in DOMAIN timed |-> PhaseTime(timed[n].metrics)])

\* Whether any metrics name their search, and whether all name the same.
Searched(trials) == {trials[n].metrics : n \in DOMAIN trials} \ {"none"}
Declared(trials) == \E m \in Searched(trials) : m # "old"
SameSearch(trials) == Declared(trials) /\ Cardinality(Searched(trials)) = 1

LastInspection(trials) ==
  LET seen == Kept(trials, {n \in DOMAIN trials : trials[n].inspection # Blank})
  IN  IF seen = <<>> THEN Blank ELSE Last(seen).inspection

InputHash(job) == IF job.input = "absent" THEN "none" ELSE "input"
EmptyRow(job, status, trials) ==
  [status |-> status, family |-> job.family, requested |-> job.repeats,
   successful |-> 0, bytes |-> Blank, seconds2 |-> Blank, roundtrip |-> FALSE,
   deterministic |-> "none", archive |-> "none", input |-> InputHash(job),
   listed |-> job.input = "verified", inspection |-> Blank, phase2 |-> Blank,
   search |-> "none", sameSearch |-> "none", trials |-> trials]

Hashes(trials) == {trials[n].hash : n \in DOMAIN trials}
Sizes(trials) == {trials[n].bytes : n \in DOMAIN trials}
\* Mutant: a codec of one's own is treated like the others.
SameStatus(job, good) ==
  IF Len(good) = job.repeats THEN "ok" ELSE "partial_failure"
RowStatus(job, good) ==
  IF job.family = "mathzip" /\ (Cardinality(Hashes(good)) # 1 \/ Cardinality(Sizes(good)) # 1)
  THEN "determinism_failure"
  ELSE IF Len(good) = job.repeats THEN "ok" ELSE "partial_failure"

MathzipMetrics(good) ==
  [inspection |-> LastInspection(good), phase2 |-> Phase2(good),
   search |-> IF SameSearch(good) THEN Last(good).metrics ELSE "none",
   sameSearch |-> IF ~Declared(good) THEN "none"
                  ELSE IF SameSearch(good) THEN "yes" ELSE "no"]

Aggregate(job, trials) ==
  LET good == Ok(trials)
      one == Cardinality(Hashes(good)) = 1
      math == MathzipMetrics(good)
      row == [EmptyRow(job, RowStatus(job, good), trials) EXCEPT
                !.successful = Len(good), !.bytes = Bytes2(good) \div 2,
                !.seconds2 = Seconds2(good),
                !.roundtrip = \A n \in DOMAIN good : good[n].roundtrip,
                !.deterministic = IF one THEN "yes" ELSE "no",
                !.archive = IF one THEN good[1].hash ELSE "none"]
  IN  IF good = <<>> THEN EmptyRow(job, Last(trials).status, trials)
      ELSE IF job.family # "mathzip" THEN row
      ELSE [row EXCEPT !.inspection = math.inspection, !.phase2 = math.phase2,
                       !.search = math.search, !.sameSearch = math.sameSearch]

-----------------------------------------------------------------------------
(* The verifier, for a row that says "ok"; any other row is a warning, and *)
(* an error of strict results.                                             *)

TrialsSupport(row) ==
  /\ row.requested >= 1 /\ row.successful = row.requested
  /\ Len(row.trials) = row.requested
  /\ row.roundtrip
  /\ \A n \in DOMAIN row.trials :
       LET t == row.trials[n]
       IN  t.status = "ok" /\ t.roundtrip /\ t.restored = row.input /\ t.bytes # Blank

MediansAgree(row) ==
  /\ row.bytes = Bytes2(row.trials) \div 2
  /\ row.seconds2 = Seconds2(row.trials)
\* Mutant: a codec of one's own may write different archives.
AnyArchive(row) ==
  LET one == Cardinality(Hashes(row.trials)) = 1
  IN  /\ row.deterministic = (IF one THEN "yes" ELSE "no")
      /\ one => row.archive = row.trials[1].hash
OneArchive(row) ==
  LET one == Cardinality(Hashes(row.trials)) = 1
  IN  /\ row.deterministic = (IF one THEN "yes" ELSE "no")
      /\ one => row.archive = row.trials[1].hash
      /\ row.family = "mathzip" => one /\ Cardinality(Sizes(row.trials)) = 1
BreakdownSums(row) ==
  row.family = "mathzip" /\ row.inspection # Blank => row.inspection = row.bytes

AcceptsRow(row) ==
  row.status = "ok" =>
    TrialsSupport(row) /\ MediansAgree(row) /\ OneArchive(row) /\ BreakdownSums(row)

\* Which command a strict trial timed, and which one wrote its metrics.
CommandsAgree(row, job) ==
  \A n \in DOMAIN row.trials :
    LET t == row.trials[n]
    IN  t.probed = "metrics" /\ t.timed = (job.mode = "inline")
SearchAgrees(row) ==
  Declared(row.trials) =>
    /\ SameSearch(row.trials) /\ "none" \notin {row.trials[n].metrics : n \in DOMAIN row.trials}
    /\ row.search = row.trials[1].metrics /\ row.sameSearch = "yes"
MathzipIsStrict(row, job) ==
  /\ job.collect /\ row.inspection # Blank
  /\ \A n \in DOMAIN row.trials :
       row.trials[n].inspection # Blank /\ row.trials[n].metrics # "none"
  /\ CommandsAgree(row, job) /\ SearchAgrees(row)
  /\ row.phase2 = Phase2(row.trials)
AcceptsRowStrictly(row, job) ==
  /\ row.status = "ok" /\ row.listed /\ AcceptsRow(row)
  /\ row.requested >= StrictRepeats
  /\ row.family = "mathzip" => MathzipIsStrict(row, job)

-----------------------------------------------------------------------------
VARIABLES job, warmed, trials, row, relabelled

rowVars == <<job, warmed, trials, row, relabelled>>
NoRow == [status |-> "pending"]

Configured == {j \in Jobs : /\ j.family # "mathzip" => j.mode = "probe" /\ ~j.collect
                            /\ j.family = "raw" => j.available}
RowInit ==
  /\ job \in Configured
  /\ warmed = 0 /\ trials = <<>> /\ row = NoRow /\ relabelled = FALSE

Pending == row = NoRow
\* Rows that are written without a trial.
SkippedStatus ==
  CASE job.input = "absent" -> "missing_input"
    [] job.input = "damaged" -> "input_integrity_failed"
    [] OTHER -> "unavailable_codec"
Skips == job.input \in {"absent", "damaged"} \/ ~job.available

Skip ==
  /\ Pending /\ Skips
  /\ row' = EmptyRow(job, SkippedStatus, <<>>)
  /\ UNCHANGED <<job, warmed, trials, relabelled>>

WarmUp ==
  /\ Pending /\ ~Skips /\ warmed < job.warmups
  /\ \E w \in {v \in TrialWorlds : Relevant(job, FALSE, v)} :
       IF ExecuteTrial(job, FALSE, w).status = "ok"
       THEN warmed' = warmed + 1 /\ UNCHANGED row
       ELSE row' = EmptyRow(job, "warmup_failed", <<>>) /\ UNCHANGED warmed
  /\ UNCHANGED <<job, trials, relabelled>>

Measure ==
  /\ Pending /\ ~Skips /\ warmed = job.warmups /\ Len(trials) < job.repeats
  /\ \E w \in {v \in TrialWorlds : Relevant(job, job.collect, v)} :
       trials' = Append(trials, ExecuteTrial(job, job.collect, w))
  /\ UNCHANGED <<job, warmed, row, relabelled>>

FinishRow ==
  /\ Pending /\ Len(trials) = job.repeats
  /\ row' = Aggregate(job, trials)
  /\ UNCHANGED <<job, warmed, trials, relabelled>>

\* An editor of the results makes the summary of a row that is no success say
\* that it is one, and leaves the trials under it.
Relabel ==
  /\ ~Pending /\ row.status # "ok"
  /\ row' = [row EXCEPT !.status = "ok", !.successful = row.requested, !.roundtrip = TRUE]
  /\ relabelled' = TRUE
  /\ UNCHANGED <<job, warmed, trials>>

RowNext == Skip \/ WarmUp \/ Measure \/ FinishRow \/ Relabel
RowSpec == RowInit /\ [][RowNext]_rowVars

-----------------------------------------------------------------------------

\* The verifier accepts every row the runner makes, or a campaign of days
\* would end in a document the runner refuses to publish.
RunnerRowsPass == ~Pending /\ ~relabelled => AcceptsRow(row)

\* A summary cannot be better than its trials.
RelabelledRowsFail == relabelled => ~AcceptsRow(row)

\* What strict results demand of a row that passes is exactly this: enough
\* trials of a listed input and, for MathZip, inspected archives of one search.
StrictRowsAreInspected ==
  ~Pending /\ ~relabelled /\ row.status = "ok" =>
    (AcceptsRowStrictly(row, job) <=>
       /\ job.repeats >= StrictRepeats /\ job.input = "verified"
       /\ job.family = "mathzip" =>
            job.collect /\ (Declared(trials) => SameSearch(trials)))

\* A successful MathZip row is about one archive, which restored its input in
\* every trial, and its inspection is that archive's.
MathzipRowsAreOneArchive ==
  ~Pending /\ ~relabelled /\ row.status = "ok" /\ row.family = "mathzip" =>
    \E a \in Contents :
      /\ row.archive = a /\ row.bytes = SizeOf[a]
      /\ row.inspection \in {Blank, SizeOf[a]}
      /\ \A n \in DOMAIN trials : trials[n].hash = a /\ trials[n].restored = "input"

RowsVerify ==
  /\ RunnerRowsPass /\ RelabelledRowsFail
  /\ StrictRowsAreInspected /\ MathzipRowsAreOneArchive
================================================================================
