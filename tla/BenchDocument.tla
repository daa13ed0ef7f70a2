----------------------------- MODULE BenchDocument -----------------------------
(***************************************************************************)
(* The result document of a mathzip_bench campaign: what it says of its    *)
(* inputs, its environment and its interruptions (runner.py), and the      *)
(* independent verifier that reads it back (verification.py).  Files,      *)
(* sources, tools and the host may change at any moment; a campaign may be *)
(* interrupted and resumed; an editor may improve the published document.  *)
(*                                                                         *)
(* A digest is what it hashes.  A file is as its manifest lists it, is     *)
(* other or is gone.  Trials are BenchRows: here a row has its status, the *)
(* evidence of its input and, as a ghost, the bytes that were measured.    *)
(* How checkpoints survive crashes is BenchmarkRun.                        *)
(***************************************************************************)
EXTENDS BenchRows

CONSTANTS Inputs,      \* sequence of configured sources: [corpus, root, files, ...]
          Codecs,      \* sequence of [name, family]
          Worlds,      \* environments a campaign may start in
          Policies,    \* [warmups, repeats, collect, filtered]
          MaxChanges,  \* bound: changes of the environment
          MaxStops     \* bound: interruptions

\* A configured source; `max' is 0 where there is no limit.
InputSources == [corpus : STRING, root : STRING, files : Seq(STRING), required : BOOLEAN,
            rights : BOOLEAN, max : Nat]
Distinct(s) == \A m, n \in DOMAIN s : s[m] = s[n] => m = n

\* A directory lists no file twice; a name stands for a codec and its threads,
\* and _expected_grid refuses two of those alike (runner.py:1210).
ASSUME DocumentAssumption ==
  /\ Inputs \in Seq(InputSources) /\ \A n \in DOMAIN Inputs : Distinct(Inputs[n].files)
  /\ Codecs \in Seq([name : STRING, family : STRING])
  /\ \A m, n \in DOMAIN Codecs : Codecs[m].name = Codecs[n].name => m = n

None == "none"

-----------------------------------------------------------------------------
(* Discovery: discover_inputs, _load_input_manifest and the expected grid. *)

\* The first `max' files of the corpus, those of earlier sources included.
Limited(cases, src) ==
  LET rank(n) == Cardinality({m \in 1..n : cases[m].corpus = src.corpus})
  IN  IF src.max = 0 THEN cases
      ELSE Kept(cases, {n \in DOMAIN cases :
                          cases[n].corpus # src.corpus \/ rank(n) <= src.max})

\* Licence and provenance: of the source, or of the manifest beside the files.
HasRights(src, w) == src.rights \/ w.manifest[src.corpus] = "lists"
Case(src, file, w) ==
  [corpus |-> src.corpus, file |-> file, manifest |-> w.manifest[src.corpus] = "lists",
   rights |-> HasRights(src, w)]

\* Mutant: a file that an earlier source has is taken again.
Rediscovered(found, src, w) ==
  LET there == Kept(src.files, {n \in DOMAIN src.files : w.disk[src.files[n]] # "gone"})
      cases == Limited(found.cases \o [n \in DOMAIN there |-> Case(src, there[n], w)], src)
      lacks == src.required /\ ~\E n \in DOMAIN cases : cases[n].corpus = src.corpus
  IN  [cases |-> cases, seen |-> found.seen \cup ToSet(there),
       missing |-> IF lacks THEN Append(found.missing, src) ELSE found.missing]
Discovered(found, src, w) ==
  LET there == Kept(src.files, {n \in DOMAIN src.files : /\ w.disk[src.files[n]] # "gone"
                                                           /\ src.files[n] \notin found.seen})
      cases == Limited(found.cases \o [n \in DOMAIN there |-> Case(src, there[n], w)], src)
      lacks == src.required /\ ~\E n \in DOMAIN cases : cases[n].corpus = src.corpus
  IN  [cases |-> cases, seen |-> found.seen \cup ToSet(there),
       missing |-> IF lacks THEN Append(found.missing, src) ELSE found.missing]
NothingFound == [cases |-> <<>>, seen |-> {}, missing |-> <<>>]
Discover(w) ==
  LET found[n \in 0..Len(Inputs)] ==
        IF n = 0 THEN NothingFound ELSE Discovered(found[n - 1], Inputs[n], w)
  IN  found[Len(Inputs)]
\* A manifest that cannot be read ends the discovery.
ManifestsReadable(w) == \A n \in DOMAIN Inputs : w.manifest[Inputs[n].corpus] # "broken"

MissingEntry(src, w) ==
  [corpus |-> src.corpus, missing |-> TRUE, file |-> src.root,
   rights |-> HasRights(src, w), manifest |-> FALSE,
   expected |-> None, actual |-> None, verified |-> None]
\* Mutant: a file without evidence counts as verified.
CaseEntryLax(c, w) ==
  [corpus |-> c.corpus, missing |-> FALSE, file |-> c.file,
   rights |-> c.rights, manifest |-> c.manifest,
   expected |-> IF c.manifest THEN "listed" ELSE None, actual |-> w.disk[c.file],
   verified |-> IF ~c.manifest \/ w.disk[c.file] = "listed" THEN "yes" ELSE "no"]
CaseEntry(c, w) ==
  [corpus |-> c.corpus, missing |-> FALSE, file |-> c.file,
   rights |-> c.rights, manifest |-> c.manifest,
   expected |-> IF c.manifest THEN "listed" ELSE None, actual |-> w.disk[c.file],
   verified |-> IF c.manifest /\ w.disk[c.file] = "listed" THEN "yes" ELSE "no"]

ExpectedGrid(w) ==
  LET found == Discover(w)
  IN  [n \in DOMAIN found.missing |-> MissingEntry(found.missing[n], w)]
        \o [n \in DOMAIN found.cases |-> CaseEntry(found.cases[n], w)]
InputKey(entry) == <<entry.corpus, entry.file>>
UniqueKeys(grid) ==
  \A m, n \in DOMAIN grid : InputKey(grid[m]) = InputKey(grid[n]) => m = n

\* The cells of a grid, in the order of its rows.
Width == Len(Codecs)
CellCount(grid) == Len(grid) * Width
EntryOf(grid, n) == grid[((n - 1) \div Width) + 1]
CodecOf(n) == Codecs[((n - 1) % Width) + 1]
KeyOf(grid, n) == <<InputKey(EntryOf(grid, n)), CodecOf(n).name>>

-----------------------------------------------------------------------------
(* The environment, its evidence and the gaps in it.                       *)

\* What is compared before a resume and after the last row.
RunIdentity(w) == [source |-> w.source, config |-> w.config, host |-> w.host, tools |-> w.tools]
Available(codec, id) == codec.family # "mathzip" \/ id.tools # "absent"
HasMathzip(id) == \E n \in DOMAIN Codecs : Codecs[n].family = "mathzip" /\ Available(Codecs[n], id)

\* The binary was built from the clean revision that is measured.
BuildMatches(before, after) ==
  HasMathzip(before) => /\ before.source = "clean" /\ before.tools = "built"
                        /\ after.tools = before.tools
\* A stable clean revision, or without any revision an exact tree manifest.
SourceEvidence(before, after) == before.source # "dirty" /\ after.source = before.source
TimingCompliant(policy) == policy.warmups >= 1 /\ policy.repeats >= 3

Gaps(policy, before, after, same, rows) ==
  {g \in {"timing", "binaries", "build", "source", "config", "rights", "integrity",
          "grid", "host", "filter"} :
     CASE g = "timing" -> ~TimingCompliant(policy)
       [] g = "binaries" -> after.tools # before.tools
       [] g = "build" -> ~BuildMatches(before, after)
       [] g = "source" -> ~SourceEvidence(before, after)
       [] g = "config" -> after.config # before.config
       [] g = "rights" -> rows = <<>> \/ \E n \in DOMAIN rows : ~rows[n].rights
       [] g = "integrity" -> rows = <<>> \/ \E n \in DOMAIN rows : rows[n].verified # "yes"
       [] g = "grid" -> ~same
       [] g = "host" -> after.host # before.host
       [] g = "filter" -> policy.filtered}

-----------------------------------------------------------------------------
VARIABLES world, changes,   \* the environment and how often it changed
          policy, begun,    \* of the run, and the identity and grid it began with
          rows, intervals, stops, phase, doc, improved

documentVars == <<world, changes, policy, begun, rows, intervals, stops, phase, doc, improved>>
NoDocument == [rows |-> <<>>]

DocumentInit ==
  /\ world \in Worlds /\ policy \in Policies /\ changes = 0
  /\ begun = <<>> /\ rows = <<>> /\ intervals = <<>> /\ stops = 0
  /\ phase = "idle" /\ doc = NoDocument /\ improved = FALSE

\* One part of the environment changes, or changes back.
Toggles(value) ==
  CASE value = "listed" -> {"other", "gone"} [] value \in {"other", "gone"} -> {"listed"}
    [] value = "clean" -> {"dirty"} [] value = "dirty" -> {"clean"}
    [] value = "built" -> {"foreign"} [] value = "foreign" -> {"built"}
    [] value = "first" -> {"second"} [] value = "second" -> {"first"}
    [] OTHER -> {}
Change ==
  /\ phase \in {"running", "stopped"} /\ changes < MaxChanges /\ changes' = changes + 1
  /\ \/ \E f \in DOMAIN world.disk : \E v \in Toggles(world.disk[f]) :
          world' = [world EXCEPT !.disk[f] = v]
     \/ \E k \in {"source", "config", "host", "tools"} : \E v \in Toggles(world[k]) :
          world' = [world EXCEPT ![k] = v]
  /\ UNCHANGED <<policy, begun, rows, intervals, stops, phase, doc, improved>>

Open(n) == [resumed |-> n > 1, interrupted |-> FALSE, completed |-> FALSE]

Begin ==
  /\ phase = "idle"
  /\ IF ManifestsReadable(world) /\ UniqueKeys(ExpectedGrid(world))
     THEN /\ begun' = [grid |-> ExpectedGrid(world), identity |-> RunIdentity(world)]
          /\ intervals' = <<Open(1)>> /\ phase' = "running"
     ELSE phase' = "refused" /\ UNCHANGED <<begun, intervals>>
  /\ UNCHANGED <<world, changes, policy, rows, stops, doc, improved>>

Stop ==
  /\ phase = "running" /\ stops < MaxStops
  /\ stops' = stops + 1 /\ phase' = "stopped"
  /\ UNCHANGED <<world, changes, policy, begun, rows, intervals, doc, improved>>

\* A resume goes on only where nothing it measures has changed.
Resume ==
  /\ phase = "stopped" /\ ManifestsReadable(world)
  /\ RunIdentity(world) = begun.identity /\ ExpectedGrid(world) = begun.grid
  /\ intervals' = Append([intervals EXCEPT ![Len(intervals)].interrupted = TRUE],
                         Open(Len(intervals) + 1))
  /\ phase' = "running"
  /\ UNCHANGED <<world, changes, policy, begun, rows, stops, doc, improved>>

-----------------------------------------------------------------------------
(* Rows: the loops over missing inputs and over cases.                     *)

CellRow(entry, codec, status, measured) ==
  [key |-> <<InputKey(entry), codec.name>>, family |-> codec.family, status |-> status,
   rights |-> entry.rights, manifest |-> entry.manifest, input |-> entry.actual,
   verified |-> entry.verified, measured |-> measured]

Skipped(entry, codec) ==
  CASE entry.missing -> "missing_input"
    [] ~entry.missing /\ entry.manifest /\ entry.verified # "yes" -> "input_integrity_failed"
    [] OTHER -> IF Available(codec, begun.identity) THEN None ELSE "unavailable_codec"

\* Mutant: the digest is taken when the row is measured.
Rehashed(entry) == {"ok", "failed"}
\* A trial compares what it restored with the digest taken at the beginning;
\* "failed" stands for every status of BenchRows but "ok".
TrialOutcomes(entry) ==
  IF world.disk[entry.file] = entry.actual THEN {"ok", "failed"} ELSE {"failed"}

Commit ==
  LET n == Len(rows) + 1
      entry == EntryOf(begun.grid, n)
      skip == Skipped(entry, CodecOf(n))
  IN  /\ phase = "running" /\ n <= CellCount(begun.grid)
      \* The entropy of a file that is gone cannot be computed: that is a stop.
      /\ ~entry.missing => world.disk[entry.file] # "gone"
      /\ IF skip # None THEN rows' = Append(rows, CellRow(entry, CodecOf(n), skip, None))
         ELSE \E s \in TrialOutcomes(entry) :
                rows' = Append(rows, CellRow(entry, CodecOf(n), s, world.disk[entry.file]))
      /\ UNCHANGED <<world, changes, policy, begun, intervals, stops, phase, doc, improved>>

-----------------------------------------------------------------------------
(* The document.                                                           *)

Failed(table) == {n \in DOMAIN table : table[n].status # "ok"}

ResultDocument(after, gridAfter) ==
  LET gaps == Gaps(policy, begun.identity, after, gridAfter = begun.grid, rows)
      done == [intervals EXCEPT ![Len(intervals)].completed = TRUE]
  IN  [rows |-> rows, count |-> Len(rows), failures |-> Cardinality(Failed(rows)),
       csv |-> rows, grid |-> begun.grid, gridDigest |-> begun.grid,
       gridBefore |-> begun.grid, gridAfter |-> gridAfter,
       gridStable |-> gridAfter = begun.grid,
       expected |-> CellCount(begun.grid), before |-> begun.identity, after |-> after,
       sourceStable |-> after.source = begun.identity.source,
       configStable |-> after.config = begun.identity.config,
       hostStable |-> after.host = begun.identity.host,
       toolsStable |-> after.tools = begun.identity.tools,
       build |-> BuildMatches(begun.identity, after),
       rights |-> "rights" \notin gaps, integrity |-> "integrity" \notin gaps,
       policy |-> policy, timing |-> TimingCompliant(policy),
       gaps |-> gaps, complete |-> gaps = {},
       intervals |-> done, resumes |-> Len(intervals) - 1]

\* validate_result_document, _expected_grid_errors and _resume_metadata_errors.
GridHolds(d) ==
  /\ d.gridDigest = d.grid /\ d.gridBefore = d.grid
  /\ d.gridStable = (d.gridBefore = d.gridAfter)
  /\ UniqueKeys(d.grid) /\ d.expected = CellCount(d.grid)
  /\ \A n \in DOMAIN d.grid :
       LET e == d.grid[n]
       IN  e.verified = IF e.missing THEN None
                        ELSE IF e.expected # None /\ e.actual = e.expected THEN "yes" ELSE "no"
\* Mutant: the count is compared, the keys are not.
CountHolds(d) == Len(d.rows) = d.expected
RowsHold(d) ==
  /\ Len(d.rows) = d.expected /\ d.count = Len(d.rows)
  /\ d.failures = Cardinality(Failed(d.rows))
  /\ \A m, n \in DOMAIN d.rows : d.rows[m].key = d.rows[n].key => m = n
  /\ {d.rows[n].key : n \in DOMAIN d.rows} = {KeyOf(d.grid, n) : n \in 1..d.expected}
\* Mutant: the evidence of a row is not compared with the grid's.
Unlinked(d) == TRUE
EvidenceHolds(d) ==
  \A n \in DOMAIN d.rows : \A m \in DOMAIN d.grid :
    d.rows[n].key[1] = InputKey(d.grid[m]) =>
      /\ d.rows[n].manifest = d.grid[m].manifest /\ d.rows[n].input = d.grid[m].actual
      /\ d.rows[n].verified = d.grid[m].verified
ResumeHolds(d) ==
  LET last == Len(d.intervals)
  IN  /\ last > 0 /\ d.resumes = last - 1
      /\ \A n \in 1..last :
           LET i == d.intervals[n]
           IN  /\ i.resumed = (n > 1) /\ ~(i.interrupted /\ i.completed)
               /\ i.interrupted \/ i.completed \/ n = last
      /\ d.intervals[last].completed /\ ~d.intervals[last].interrupted
FlagsHold(d) ==
  /\ d.sourceStable = (d.after.source = d.before.source)
  /\ d.configStable = (d.after.config = d.before.config)
  /\ d.hostStable = (d.after.host = d.before.host)
  /\ d.timing = TimingCompliant(d.policy)
  /\ d.complete = (d.gaps = {})

AcceptsDocument(d) ==
  GridHolds(d) /\ RowsHold(d) /\ EvidenceHolds(d) /\ ResumeHolds(d) /\ FlagsHold(d)
CsvHolds(d) == d.csv = d.rows

StrictSource(d) == d.sourceStable /\ d.before.source # "dirty"
StrictBuild(d) ==
  d.toolsStable /\ d.build /\ (HasMathzip(d.before) =>
                                 d.before.source = "clean" /\ d.before.tools = "built")
AcceptsDocumentStrictly(d) ==
  /\ AcceptsDocument(d) /\ d.complete /\ d.timing
  /\ d.gridStable /\ d.configStable /\ d.hostStable
  /\ StrictSource(d) /\ StrictBuild(d)
  /\ d.rights /\ d.integrity /\ ~d.policy.filtered
  /\ \A n \in DOMAIN d.rows :
       /\ d.rows[n].status = "ok" /\ d.rows[n].verified = "yes"
       /\ d.rows[n].family = "mathzip" => d.policy.collect

PublishDocument ==
  /\ phase = "running" /\ Len(rows) = CellCount(begun.grid)
  /\ ManifestsReadable(world) /\ UniqueKeys(ExpectedGrid(world))
  /\ LET d == ResultDocument(RunIdentity(world), ExpectedGrid(world))
     IN  IF AcceptsDocument(d) /\ CsvHolds(d) THEN doc' = d /\ phase' = "published"
         ELSE phase' = "rejected" /\ UNCHANGED doc
  /\ UNCHANGED <<world, changes, policy, begun, rows, intervals, stops, improved>>

-----------------------------------------------------------------------------
(* An editor of the published document makes one statement of it better,   *)
(* a row in the document and in the table alike.                           *)

BetterRows(table) ==
  {[table EXCEPT ![n].status = "ok"] : n \in DOMAIN table}
  \cup {[table EXCEPT ![n].input = "listed"] : n \in DOMAIN table}
  \cup {[table EXCEPT ![n].verified = "yes"] : n \in DOMAIN table}
  \cup {RemoveAt(table, n) : n \in Failed(table)}
  \cup {[table EXCEPT ![n] = table[m]] : n \in Failed(table), m \in DOMAIN table}
Better(d) ==
  {[d EXCEPT !.rows = table, !.csv = table] : table \in BetterRows(d.rows)}
  \cup {[d EXCEPT !.csv[n].status = "ok"] : n \in DOMAIN d.rows}
  \cup {[d EXCEPT !.grid[n].verified = "yes"] : n \in DOMAIN d.grid}
  \cup {[d EXCEPT !.grid = RemoveAt(@, n)] : n \in DOMAIN d.grid}
  \cup {[d EXCEPT !.gridStable = TRUE], [d EXCEPT !.sourceStable = TRUE],
        [d EXCEPT !.configStable = TRUE], [d EXCEPT !.hostStable = TRUE],
        [d EXCEPT !.timing = TRUE], [d EXCEPT !.gaps = {}], [d EXCEPT !.complete = TRUE],
        [d EXCEPT !.failures = 0], [d EXCEPT !.resumes = 0],
        [d EXCEPT !.intervals = <<Last(@)>>]}
EditDocument ==
  /\ phase = "published" /\ ~improved
  /\ \E d \in Better(doc) : d # doc /\ doc' = d
  /\ improved' = TRUE
  /\ UNCHANGED <<world, changes, policy, begun, rows, intervals, stops, phase>>

DocumentNext == Change \/ Begin \/ Stop \/ Resume \/ Commit \/ PublishDocument \/ EditDocument
DocumentSpec == DocumentInit /\ [][DocumentNext]_documentVars

-----------------------------------------------------------------------------
DocumentPublished == phase = "published" /\ ~improved

\* The runner never refuses its own document, whatever changed between two
\* rows and however often the campaign was interrupted.
OwnDocumentsPass == phase # "rejected"

\* No single statement of a published document can be made better unnoticed.
BetterDocumentsFail == improved => ~(AcceptsDocument(doc) /\ CsvHolds(doc))

\* The strict verifier asks for what the runner calls complete evidence, and
\* beyond it only that every cell succeeded and MathZip was inspected.
StrictIsComplete ==
  DocumentPublished =>
    (AcceptsDocumentStrictly(doc) <=>
       /\ doc.complete
       /\ \A n \in DOMAIN rows : /\ rows[n].status = "ok"
                                 /\ rows[n].family = "mathzip" => policy.collect)

\* What the strict verifier accepts measured the listed bytes in every row and
\* ended in the environment it began in, also when files changed in between.
StrictMeasuresListedInputs ==
  DocumentPublished /\ AcceptsDocumentStrictly(doc) =>
    /\ \A n \in DOMAIN rows : rows[n].measured = "listed"
    /\ doc.after = doc.before /\ begun.identity.source # "dirty"

\* Every required corpus is in the document, by a file or by its absence; no
\* file is there twice.
InputsAreAccountedFor ==
  DocumentPublished =>
    /\ \A n \in DOMAIN Inputs : Inputs[n].required =>
         \E m \in DOMAIN doc.grid : doc.grid[m].corpus = Inputs[n].corpus
    /\ \A m, n \in DOMAIN doc.grid :
         doc.grid[m].file = doc.grid[n].file
           /\ ~doc.grid[m].missing /\ ~doc.grid[n].missing => m = n

DocumentsVerify ==
  /\ OwnDocumentsPass /\ BetterDocumentsFail
  /\ StrictIsComplete /\ StrictMeasuresListedInputs /\ InputsAreAccountedFor

\* validate_result_document, for one row and for the document of all of them,
\* and the runner agree on what may be published.
ResultsVerify == RowsVerify /\ DocumentsVerify
================================================================================
