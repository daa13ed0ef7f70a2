----------------------------- MODULE AblationAnalysis -----------------------------
(***************************************************************************)
(* The paired ablation table of analysis/ablation_pipeline.py: a native    *)
(* configuration with every algorithm enabled against the same one with    *)
(* some disabled, per file and for the corpus, from the measured rows of   *)
(* one completed run.  Of the metrics the archive's size is kept.          *)
(*                                                                         *)
(* The intervals are compared with 0 only, which needs no square root: the *)
(* Student interval of n deltas with sum S and sum of squares Q lies above *)
(* 0 when S > 0 and S^2 (n - 1) > t^2 (n Q - S^2).  With at most three     *)
(* files the bootstrap percentiles are the extreme resamples.              *)
(***************************************************************************)
EXTENDS Integers, FiniteSets, Sums

CONSTANTS Shapes,         \* possible [files, reps] of a run
          MinPairs,       \* 5 in the code
          StrictPairs,    \* 10 in the code, for differences below 2%
          TSquare,        \* ten times t^2, per number of deltas
          SideOutcomes    \* side -> what a trial may have left

Sides == {"baseline", "ablated"}
Missing == [status |-> "missing"]
Recorded(r) == r.status # "missing"
Worked(r) == r.status = "ok"

\* A run measures some files a number of times; an archive has a size, and
\* archives with one SHA-256 hash are one archive.
ASSUME PairsAssumption ==
  /\ \A sh \in Shapes : /\ IsFiniteSet(sh.files) /\ Cardinality(sh.files) \in 1..3
                         /\ sh.reps \in Nat
  /\ MinPairs \in Nat /\ StrictPairs \in Nat
  /\ \A s \in Sides : \A o, p \in SideOutcomes[s] :
       /\ Recorded(o) => o.bytes \in Nat
       /\ Worked(o) /\ Worked(p) /\ o.hash = p.hash => o.bytes = p.bytes

-----------------------------------------------------------------------------
(* The configurations of the run's metadata: parse_run_metadata.           *)

\* The disable set of an ablation: a set of algorithm names.
Configs(ablations) == [ablation : ablations, disabled : SUBSET {"algorithm"}]

\* `none' disables nothing, everything else something, one set per ablation,
\* and the selection of the protocol is what the codecs of the run are.
MatrixAccepted(found, selected) ==
  /\ found # {}
  /\ \A c \in found : (c.ablation = "none") <=> (c.disabled = {})
  /\ \A c, d \in found : c.ablation = d.ablation => c = d
  /\ {c.ablation : c \in found} = selected

-----------------------------------------------------------------------------
(* One comparison over a set of units: _build_row.  A unit is a file; its  *)
(* records are rec[side][file][repetition].                                *)

Reps(n) == 0..(n - 1)
RecordsOf(rec, side, units, n) == {rec[side][f][k] : f \in units, k \in Reps(n)}

SuccessfulPair(b, a) == Worked(b) /\ Worked(a) /\ b.block = a.block

SideStatus(rec, side, units, n) ==
  LET statuses == {r.status : r \in RecordsOf(rec, side, units, n)}
  IN  IF Cardinality(statuses) = 1 THEN CHOOSE s \in statuses : TRUE ELSE "mixed"

PairedIn(rec, units, k) ==
  \A f \in units : SuccessfulPair(rec["baseline"][f][k], rec["ablated"][f][k])
\* Mutant: successes are counted per file.
PairsOfFiles(rec, units, n) ==
  {fk \in units \X Reps(n) :
     SuccessfulPair(rec["baseline"][fk[1]][fk[2]], rec["ablated"][fk[1]][fk[2]])}
PairedSuccesses(rec, units, n) == {k \in Reps(n) : PairedIn(rec, units, k)}

PairingStatus(rec, units, n) ==
  LET pairs == units \X Reps(n)
      b(fk) == rec["baseline"][fk[1]][fk[2]]
      a(fk) == rec["ablated"][fk[1]][fk[2]]
      mismatch == \E fk \in pairs : /\ Recorded(b(fk)) /\ Recorded(a(fk))
                                    /\ b(fk).block # a(fk).block
  IN  IF \E fk \in pairs : ~Recorded(b(fk)) \/ ~Recorded(a(fk))
      THEN IF mismatch THEN "incomplete" ELSE "missing"
      ELSE IF mismatch THEN "schedule-mismatch" ELSE "complete"

All(rec, units, n) == UNION {RecordsOf(rec, s, units, n) : s \in Sides}

\* Mutant: a missing record is noticed before a failed one.
LateCorrectness(rec, units, n) ==
  LET all == All(rec, units, n)
  IN  IF \E r \in all : ~Recorded(r) THEN "incomplete"
      ELSE IF \E r \in all : r.status = "failed" /\ ~r.roundtrip THEN "fail"
      ELSE IF \A r \in all : r.roundtrip THEN "pass" ELSE "incomplete"
CorrectnessStatus(rec, units, n) ==
  LET all == All(rec, units, n)
  IN  IF \E r \in all : r.status = "failed" /\ ~r.roundtrip THEN "fail"
      ELSE IF \A r \in all : Recorded(r) /\ r.roundtrip THEN "pass"
      ELSE "incomplete"

\* Mutant: the archives of the ablated side may differ.
BaselineDeterminism(rec, units, n) ==
  LET all == RecordsOf(rec, "baseline", units, n)
  IN  IF \E r \in all : Worked(r) /\ ~r.det THEN "fail"
      ELSE IF \A r \in All(rec, units, n) : Worked(r) THEN "pass" ELSE "incomplete"
DeterminismStatus(rec, units, n) ==
  LET unstable(side, f) ==
        LET ok == {r \in RecordsOf(rec, side, {f}, n) : Worked(r)}
        IN  (\E r \in ok : ~r.det) \/ Cardinality({r.hash : r \in ok}) > 1
  IN  IF \E s \in Sides, f \in units : unstable(s, f) THEN "fail"
      ELSE IF \A r \in All(rec, units, n) : Worked(r) /\ r.det THEN "pass"
      ELSE "incomplete"

\* Corpus totals of the repetitions in which every file has its pair.
Total(rec, side, units, k) == SumOver([f \in units |-> rec[side][f][k].bytes], units)
Delta(rec, units, k) == Total(rec, "ablated", units, k) - Total(rec, "baseline", units, k)
DeltaSum(rec, units, ks) == SumOver([k \in ks |-> Delta(rec, units, k)], ks)
Magnitude(x) == IF x < 0 THEN -x ELSE x

\* The mean delta is below 2% of the baseline's mean.
CloseDelta(rec, units, n) ==
  LET ks == PairedSuccesses(rec, units, n)
      base == SumOver([k \in ks |-> Total(rec, "baseline", units, k)], ks)
      delta == Magnitude(DeltaSum(rec, units, ks))
  IN  ks # {} /\ (IF base = 0 THEN delta = 0 ELSE 50 * delta < base)

\* sign is 1 for an interval above 0 and -1 for one below.
StudentBeyond(rec, units, n, sign) ==
  LET ks == PairedSuccesses(rec, units, n)
      m == Cardinality(ks)
      sum == sign * DeltaSum(rec, units, ks)
      squares == SumOver([k \in ks |-> Delta(rec, units, k) ^ 2], ks)
  IN  /\ m > 0 /\ sum > 0
      /\ m = 1 \/ 10 * sum ^ 2 * (m - 1) > TSquare[m] * (m * squares - sum ^ 2)

\* The bootstrap over files is only there when every pair is.
BootstrapBeyond(rec, units, n, sign) ==
  PairedSuccesses(rec, units, n) = Reps(n) =>
    \A f \in units : sign * DeltaSum(rec, {f}, Reps(n)) > 0

\* Mutant: the corpus decision looks at the Student interval only.
StudentOnly(rec, units, n, corpus, sign) == StudentBeyond(rec, units, n, sign)
Beyond(rec, units, n, corpus, sign) ==
  /\ StudentBeyond(rec, units, n, sign)
  /\ corpus => BootstrapBeyond(rec, units, n, sign)

ProtocolStatus(rec, units, n) ==
  IF \/ CorrectnessStatus(rec, units, n) = "fail"
     \/ DeterminismStatus(rec, units, n) = "fail" THEN "failed"
  ELSE IF \/ PairingStatus(rec, units, n) # "complete"
          \/ \E s \in Sides : SideStatus(rec, s, units, n) # "ok"
          \/ CorrectnessStatus(rec, units, n) # "pass"
          \/ DeterminismStatus(rec, units, n) # "pass"
          \/ Cardinality(PairedSuccesses(rec, units, n)) # n THEN "incomplete"
  ELSE IF n < MinPairs \/ (n < StrictPairs /\ CloseDelta(rec, units, n))
       THEN "insufficient-repetitions" ELSE "complete"

PairedConfidence(rec, units, n) ==
  IF PairedSuccesses(rec, units, n) = {} THEN "not-measured"
  ELSE IF ProtocolStatus(rec, units, n) = "complete" THEN "confirmed"
  ELSE "inconclusive"

Decision(rec, units, n, corpus) ==
  IF PairedConfidence(rec, units, n) # "confirmed" THEN "evidence-incomplete"
  ELSE IF Beyond(rec, units, n, corpus, 1) THEN "enabled-benefit"
  ELSE IF Beyond(rec, units, n, corpus, -1) THEN "ablated-benefit"
  ELSE "size-effect-inconclusive"

BuildRow(rec, units, n, corpus) ==
  [units |-> units, corpus |-> corpus,
   paired |-> Cardinality(PairedSuccesses(rec, units, n)),
   protocol |-> ProtocolStatus(rec, units, n),
   confidence |-> PairedConfidence(rec, units, n),
   decision |-> Decision(rec, units, n, corpus)]

BuildAblationRows(rec, units, n) ==
  {BuildRow(rec, {f}, n, FALSE) : f \in units} \cup {BuildRow(rec, units, n, TRUE)}

-----------------------------------------------------------------------------
(* A run whose records come one by one, and its table.                     *)

VARIABLES pairShape,    \* [files, reps] of the run
          pairConfigs,  \* the native configurations of its metadata
          paired,       \* the cells decided so far, a function to outcomes
          pairRows      \* the table

pairVars == <<pairShape, pairConfigs, paired, pairRows>>

Selected == {"none", "a"}
CellsOf(sh) == {<<s, f, k>> : s \in Sides, f \in sh.files, k \in Reps(sh.reps)}

PairInit ==
  /\ pairShape \in Shapes
  /\ pairConfigs \in {c \in SUBSET Configs(Selected) :
                      MatrixAccepted(c, {d.ablation : d \in c})
                        /\ \E d \in c : d.ablation = "a"}
  /\ paired = <<>> /\ pairRows = {}

\* Without a baseline configuration there is no baseline record at all.
OutcomesOf(cell) ==
  IF cell[1] = "baseline" /\ ~\E c \in pairConfigs : c.ablation = "none"
  THEN {Missing} ELSE SideOutcomes[cell[1]]

MeasurePair ==
  /\ pairRows = {} /\ DOMAIN paired # CellsOf(pairShape)
  /\ LET cell == CHOOSE c \in CellsOf(pairShape) \ DOMAIN paired : TRUE
     IN  \E o \in OutcomesOf(cell) :
           paired' = [c \in DOMAIN paired \cup {cell} |-> IF c = cell THEN o ELSE paired[c]]
  /\ UNCHANGED <<pairShape, pairConfigs, pairRows>>

Rec(d, sh) ==
  [s \in Sides |-> [f \in sh.files |-> [k \in Reps(sh.reps) |-> d[<<s, f, k>>]]]]

AnalysePairs ==
  /\ pairRows = {} /\ DOMAIN paired = CellsOf(pairShape)
  /\ pairRows' = BuildAblationRows(Rec(paired, pairShape), pairShape.files, pairShape.reps)
  /\ UNCHANGED <<pairShape, pairConfigs, paired>>

PairNext == MeasurePair \/ AnalysePairs
PairSpec == PairInit /\ [][PairNext]_pairVars

-----------------------------------------------------------------------------

PairTypeOK ==
  /\ pairShape \in Shapes /\ DOMAIN paired \subseteq CellsOf(pairShape)
  /\ \A r \in pairRows : r.units \subseteq pairShape.files /\ r.paired \in 0..pairShape.reps

\* A confirmed row stands on a pair in every repetition of every file, both
\* sides measured in one schedule block, restored and reproducing one archive
\* per side, on at least the minimum of repetitions, and on the larger number
\* when the archives differ by less than 2%.
ConfirmedIsComplete ==
  \A r \in pairRows : r.confidence = "confirmed" =>
    LET cells == {c \in CellsOf(pairShape) : c[2] \in r.units}
        bytes(s) == LET side == {c \in cells : c[1] = s}
                    IN  SumOver([c \in side |-> paired[c].bytes], side)
    IN  /\ \A c \in cells : paired[c].status = "ok" /\ paired[c].roundtrip
        /\ \A c, d \in cells : c[1] = d[1] /\ c[2] = d[2] => paired[c].hash = paired[d].hash
        /\ \A c, d \in cells : c[2] = d[2] /\ c[3] = d[3] => paired[c].block = paired[d].block
        /\ pairShape.reps >= MinPairs
        /\ \/ pairShape.reps >= StrictPairs
           \/ 50 * (bytes("ablated") - bytes("baseline")) >= bytes("baseline")
           \/ 50 * (bytes("baseline") - bytes("ablated")) >= bytes("baseline")

\* The corpus row failed exactly when a file row did, and is never confirmed
\* over a file whose own evidence is incomplete.
CorpusFollowsFiles ==
  \A r \in pairRows : r.corpus =>
    LET files == {q \in pairRows : ~q.corpus}
    IN  /\ r.protocol = "failed" <=> \E q \in files : q.protocol = "failed"
        /\ r.confidence = "confirmed" =>
             \A q \in files : q.protocol \in {"complete", "insufficient-repetitions"}

\* A benefit claimed for the corpus is there in the total of every file, and
\* one claimed for a file is there in every repetition of it.
BenefitsAreEverywhere ==
  \A r \in pairRows : r.decision \in {"enabled-benefit", "ablated-benefit"} =>
    LET sign == IF r.decision = "enabled-benefit" THEN 1 ELSE -1
        gain(f, k) == sign * (paired[<<"ablated", f, k>>].bytes
                                - paired[<<"baseline", f, k>>].bytes)
    IN  \A f \in r.units :
          IF r.corpus
          THEN SumOver([k \in Reps(pairShape.reps) |-> gain(f, k)], Reps(pairShape.reps)) > 0
          ELSE \A k \in Reps(pairShape.reps) : gain(f, k) > 0

\* The paired table claims no more than its pairs show, file by file and for
\* the corpus, with any trial failed, missing or unstable.
ClaimsHold ==
  /\ PairTypeOK
  /\ ConfirmedIsComplete /\ CorpusFollowsFiles /\ BenefitsAreEverywhere
================================================================================
