----------------------------- MODULE TrialPipeline -----------------------------
(***************************************************************************)
(* One trial of the MathSVG benchmark runner (benchmarks/runner.py,        *)
(* execute_trial): compress, hash the archive, decompress, compare, ask    *)
(* the native CLI for the exact attribution of the archive's bytes, and    *)
(* turn whatever happened into one row; and the schema every row has to    *)
(* satisfy before it is written (benchmarks/schema.py, TrialRecord).       *)
(*                                                                         *)
(* A scenario says what the world answers at each stage.  Byte counts are  *)
(* small numbers; the fifteen required counters of the attribution are the *)
(* nine wire categories, taken together as `wire', and the two             *)
(* reconstruction counters.                                                *)
(***************************************************************************)
EXTENDS Integers, Sequences

CONSTANTS ArchiveHashes,   \* contents a compressor may produce
          Sizes,           \* archive sizes
          OriginalBytes,   \* size of the input in the manifest
          MaxArchive,      \* archive limit of _native_limits
          Trials           \* bound: trials of the cell

\* A digest is not the empty text; sizes and numbers of trials are counts.
ASSUME InputsAssumption ==
  "" \notin ArchiveHashes /\ Sizes \subseteq Nat /\ Trials \in Nat

Blank == -1                \* None, and an absent counter
Amounts == Sizes \cup {0}
Optional == Amounts \cup {Blank}
Higher(a, b) == IF a >= b THEN a ELSE b

Measured == [wall |-> TRUE, cpu |-> TRUE]
TimedOut == [wall |-> TRUE, cpu |-> FALSE]
Unmeasured == [wall |-> FALSE, cpu |-> FALSE]

\* What `mathsvg inspect --verify' answers, on top of "no JSON object".
Inspections ==
  [wire : Amounts, covered : {0, OriginalBytes}, verified : BOOLEAN,
   preEntropy : Optional, saved : Optional, penalty : Optional]
Refused == [refused |-> TRUE]
Attributed == Inspections \cup {Refused}

-----------------------------------------------------------------------------
(* The attribution: _native_breakdown.                                     *)

\* A stated difference to the counterfactual archive must be the exact one.
Exact(stated, exact) == stated = Blank \/ stated = exact

\* Mutant: the verification flag of the answer is not looked at.
Unverified(i, archive) == i.wire = archive /\ i.covered = OriginalBytes
Invariants(i, archive) ==
  /\ i.verified
  /\ i.wire = archive
  /\ i.covered = OriginalBytes

Counterfactual(i, archive) ==
  IF i.preEntropy = Blank THEN i.saved = Blank /\ i.penalty = Blank
  ELSE /\ Exact(i.saved, Higher(i.preEntropy - archive, 0))
       /\ Exact(i.penalty, Higher(archive - i.preEntropy, 0))

BreakdownAccepted(i, archive) ==
  /\ "refused" \notin DOMAIN i
  /\ Invariants(i, archive)
  /\ Counterfactual(i, archive)

\* Mutant: the differences are the ones the CLI chose to state.
StatedBreakdown(i, archive) ==
  [wire |-> i.wire, covered |-> i.covered, preEntropy |-> i.preEntropy,
   saved |-> i.saved, penalty |-> i.penalty]
Breakdown(i, archive) ==
  [wire |-> i.wire, covered |-> i.covered, preEntropy |-> i.preEntropy,
   saved |-> IF i.preEntropy = Blank THEN Blank
             ELSE Higher(i.preEntropy - archive, 0),
   penalty |-> IF i.preEntropy = Blank THEN Blank
               ELSE Higher(archive - i.preEntropy, 0)]
NoBreakdown == [wire |-> Blank, covered |-> Blank, preEntropy |-> Blank,
                saved |-> Blank, penalty |-> Blank]

-----------------------------------------------------------------------------
(* The pipeline: execute_trial with _base_record and _failure_record.      *)

Base(s) ==
  [status |-> "failed", error |-> FALSE, native |-> s.native,
   executable |-> s.executable, archive |-> Blank, hash |-> "",
   restored |-> "", roundtrip |-> FALSE, deterministic |-> FALSE,
   compression |-> Unmeasured, decompression |-> Unmeasured,
   breakdown |-> NoBreakdown]

Failure(row, status) == [row EXCEPT !.status = status, !.error = TRUE]

\* Mutant: setdefault is an assignment.
LatestHash(known, s) == s.hash
\* The first archive of a cell sets the hash the later ones are compared to.
FirstHash(known, s) == IF known = "" THEN s.hash ELSE known
SameAsFirst(known, s) == FirstHash(known, s) = s.hash

Archived(s, known) ==
  [Base(s) EXCEPT !.compression = Measured, !.archive = s.size, !.hash = s.hash,
                  !.deterministic = SameAsFirst(known, s)]

Compressed(s) == s.encode = "ok" /\ s.archive = "file"
Bounded(s) == s.native => s.size <= MaxArchive
\* The workload was whole, the codec available and its archive is hashed.
Started(s) == s.payload /\ s.executable
Hashed(s) == Started(s) /\ Compressed(s) /\ Bounded(s)

AfterCompression(s) ==
  CASE ~s.payload -> Failure(Base(s), "failed")
    [] s.payload /\ ~s.executable -> Failure(Base(s), "unavailable")
    [] Started(s) /\ s.encode = "timeout" ->
         Failure([Base(s) EXCEPT !.compression = TimedOut], "timeout")
    [] Started(s) /\ s.encode = "fail" ->
         Failure([Base(s) EXCEPT !.compression = Measured], "failed")
    [] Started(s) /\ s.encode = "unmeasured" -> Failure(Base(s), "failed")
    [] Started(s) /\ s.encode = "ok" /\ s.archive = "missing" ->
         Failure([Base(s) EXCEPT !.compression = Measured], "failed")
    [] OTHER ->
         Failure([Base(s) EXCEPT !.compression = Measured, !.archive = s.size,
                                 !.hash = s.hash], "failed")

\* Mutant: a missing output is reported like one that differs.
Unseen(s, row) ==
  Failure([row EXCEPT !.decompression = Measured, !.restored = s.restored,
                      !.roundtrip = s.restored = "missing"],
          IF s.decode = "timeout" THEN "timeout" ELSE "failed")
\* Mutant: any output that exists counts as a round trip.
Uncompared(s, row) ==
  Failure([row EXCEPT !.decompression = Measured,
                      !.restored = IF s.restored = "missing" THEN "" ELSE s.restored,
                      !.roundtrip = s.decode = "ok"], "failed")
AfterDecompression(s, row) ==
  CASE s.decode = "timeout" ->
         Failure([row EXCEPT !.decompression = TimedOut], "timeout")
    [] s.decode = "fail" ->
         Failure([row EXCEPT !.decompression = Measured], "failed")
    [] s.decode = "unmeasured" -> Failure(row, "failed")
    [] s.decode = "ok" /\ s.restored = "missing" ->
         Failure([row EXCEPT !.decompression = Measured], "failed")
    [] OTHER ->
         Failure([row EXCEPT !.decompression = Measured,
                             !.restored = s.restored], "failed")

Verified(s, row) ==
  [row EXCEPT !.decompression = Measured, !.restored = s.restored,
              !.roundtrip = TRUE]

ExecuteTrial(s, known) ==
  LET row == Archived(s, known)
      whole == Verified(s, row)
  IN  IF ~Hashed(s) THEN AfterCompression(s)
      ELSE IF s.decode # "ok" \/ s.restored # "input" THEN AfterDecompression(s, row)
      ELSE IF ~s.native THEN [whole EXCEPT !.status = "ok"]
      ELSE IF BreakdownAccepted(s.inspect, s.size)
           THEN [whole EXCEPT !.status = "ok",
                              !.breakdown = Breakdown(s.inspect, s.size)]
           ELSE Failure(whole, "failed")

-----------------------------------------------------------------------------
(* The schema: TrialRecord.validate.                                       *)

ValidOk(r) ==
  /\ r.executable /\ r.archive # Blank /\ r.hash # ""
  /\ r.compression = Measured /\ r.decompression = Measured
  /\ r.roundtrip /\ r.restored = "input" /\ ~r.error

ValidFailure(r) ==
  /\ r.error
  /\ r.roundtrip => r.status = "failed" /\ r.restored = "input"

ValidNative(r) ==
  LET b == r.breakdown
  IN  r.status = "ok" =>
        /\ b.wire = r.archive /\ b.covered = OriginalBytes
        /\ b.saved # Blank \/ b.penalty # Blank => b.preEntropy # Blank
        /\ b.saved # Blank => b.saved = Higher(b.preEntropy - r.archive, 0)
        /\ b.penalty # Blank => b.penalty = Higher(r.archive - b.preEntropy, 0)

Validate(r) ==
  /\ r.status \in {"ok", "failed", "timeout", "unavailable"}
  /\ IF r.status = "ok" THEN ValidOk(r) ELSE ValidFailure(r)
  /\ IF r.native THEN ValidNative(r) ELSE r.breakdown = NoBreakdown

-----------------------------------------------------------------------------
(* The trials of one cell in a row, in every world.                        *)

Stages == [native : BOOLEAN, payload : BOOLEAN, executable : BOOLEAN,
           encode : {"ok", "fail", "timeout", "unmeasured"},
           archive : {"file", "missing"}, hash : ArchiveHashes, size : Sizes,
           decode : {"ok", "fail", "timeout", "unmeasured"},
           restored : {"input", "other", "missing"}, inspect : {Refused}]

\* The scenarios that differ where the code still looks.
Relevant(s) ==
  /\ ~Started(s) => s.encode = "ok"
  /\ ~(Started(s) /\ s.encode = "ok") => s.archive = "file"
  /\ ~Hashed(s) => s.decode = "ok"
  /\ ~(Hashed(s) /\ s.decode = "ok") => s.restored = "input"

NoScenario == [native |-> FALSE]
VARIABLES scenario,  \* the world of the next trial
          known,     \* deterministic_hashes of this cell
          rows       \* the rows so far, in order

trialVars == <<scenario, known, rows>>

TrialInit == scenario = NoScenario /\ known = "" /\ rows = <<>>

\* The inspection is asked for only by a native trial that restored its input.
Inspects(s) == Hashed(s) /\ s.decode = "ok" /\ s.restored = "input" /\ s.native

Draw ==
  /\ scenario = NoScenario /\ Len(rows) < Trials
  /\ \E s \in {t \in Stages : Relevant(t)} :
       \E i \in IF Inspects(s) THEN Attributed ELSE {Refused} :
         scenario' = [s EXCEPT !.inspect = i]
  /\ UNCHANGED <<known, rows>>

Run ==
  /\ scenario # NoScenario
  /\ rows' = Append(rows, ExecuteTrial(scenario, known))
  /\ known' = IF Started(scenario) /\ Compressed(scenario) /\ Bounded(scenario)
              THEN FirstHash(known, scenario) ELSE known
  /\ scenario' = NoScenario

TrialNext == Draw \/ Run
TrialSpec == TrialInit /\ [][TrialNext]_trialVars

-----------------------------------------------------------------------------

Rows == {rows[n] : n \in DOMAIN rows}

RowsTyped ==
  /\ known \in {""} \cup ArchiveHashes
  /\ Len(rows) <= Trials
  /\ \A r \in Rows : /\ r.hash \in {""} \cup ArchiveHashes
                     /\ r.archive \in Optional /\ r.restored \in {"", "input", "other"}
                     /\ r.breakdown.saved >= Blank /\ r.breakdown.penalty >= Blank

\* Whatever happens in a trial, the row made of it satisfies the schema:
\* append_jsonl validates every row, and one that does not pass would end
\* the whole campaign.
RowsValidate == \A r \in Rows : Validate(r)

\* Two archives that are flagged deterministic are equal, whatever failed
\* between them, and the first archive of the cell is always flagged.
FlagMeansSameArchive ==
  /\ \A r, q \in Rows : r.deterministic /\ q.deterministic => r.hash = q.hash
  /\ \A n \in DOMAIN rows :
       rows[n].hash = known /\ known # "" /\ rows[n].decompression # Unmeasured
         => rows[n].deterministic

\* In a successful native row gain and loss against the archive before
\* entropy coding are both there and add up to the difference of the sizes.
AttributionAddsUp ==
  \A r \in Rows : r.native /\ r.status = "ok" =>
    LET b == r.breakdown
    IN  /\ b.wire = r.archive
        /\ b.preEntropy # Blank => b.saved - b.penalty = b.preEntropy - r.archive
        /\ b.preEntropy = Blank => b.saved = Blank /\ b.penalty = Blank

\* A row says success exactly when every stage succeeded, and claims a
\* verified round trip exactly when the decompressor restored the input.
RowsTellWhatHappened ==
  [][rows' # rows =>
       LET r == rows'[Len(rows')]
           restored == Hashed(scenario) /\ scenario.decode = "ok"
                         /\ scenario.restored = "input"
       IN  /\ r.roundtrip <=> restored
           /\ r.status = "ok" <=>
                restored /\ (scenario.native =>
                    /\ "verified" \in DOMAIN scenario.inspect
                    /\ scenario.inspect.verified
                    /\ BreakdownAccepted(scenario.inspect, scenario.size))]_trialVars

\* Every trial leaves a row that validates, whose flag and whose breakdown are
\* true of the archives of its cell.
RowsAreEvidence ==
  /\ RowsTyped
  /\ RowsValidate /\ FlagMeansSameArchive /\ AttributionAddsUp
================================================================================
