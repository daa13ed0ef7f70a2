------------------------------ MODULE CorpusManifests ------------------------------
(***************************************************************************)
(* The corpus of mathsvg/python/datasets: payload files, each pinned by    *)
(* its digest, and two manifests, development.csv and validation.csv,      *)
(* that select them.  Four programs write them and one reads them:         *)
(*   builder   build_development_manifest, rewrites development.csv        *)
(*   sensor    materialize_validation, one zip into validation.csv         *)
(*   crate     materialize_crate_validation, one tarball into the same     *)
(*   research  materialize_research_corpus, many sources into both         *)
(*   coverage  coverage_matrix, which requirements the manifests meet      *)
(* Nothing locks the files; a program may be killed anywhere and started   *)
(* again, a source archive may be replaced under it.  A payload is the     *)
(* pinned content, another one, or absent.                                 *)
(***************************************************************************)
EXTENDS Integers, FiniteSets, SequencesExt

CONSTANTS Runs,         \* slots a program may run in
          Plan,         \* what a tool goes through, [row, source] in order
          Retired,      \* rows an older version selected, to be dropped
          Requirements, \* of the coverage matrix
          Beginnings,   \* manifests there at first: [dev, val, healthy]
          MaxStarts, MaxFaults

Tools == DOMAIN Plan
Local == "local"    \* the source of a payload that is only verified
Steps == UNION {ToSet(Plan[t]) : t \in Tools}
Payloads == {s.row.id : s \in Steps}
Sources == {s.source : s \in Steps} \ {Local}
Nobody == "nobody"

VARIABLES disk,      \* payload -> "absent", "pinned" or "other"
          source,    \* source archive -> "pinned" or "other"
          temps,     \* temporary copies: <<run, payload>>
          manifest,  \* dev, val -> [there, whole, rows, by]
          program,       \* the program in each slot
          coverage,  \* the last coverage report: requirement -> status
          healthy,   \* of Beginnings
          starts, faults

corpusVars == <<disk, source, temps, manifest, program, coverage, healthy, starts, faults>>
world == <<disk, source, temps, manifest, coverage, healthy, starts, faults>>

NoManifest == [there |-> FALSE, whole |-> TRUE, rows |-> {}, by |-> Nobody]
\* `by' is the builder that has not finished writing the file in place.
File(rows) == [there |-> TRUE, whole |-> TRUE, rows |-> rows, by |-> Nobody]
AsFile(rows) == IF rows = {} THEN NoManifest ELSE File(rows)
Stopped(pc) == [pc |-> pc, tool |-> "", left |-> <<>>, open |-> Local,
                dev |-> {}, val |-> {}, alone |-> FALSE, clean |-> FALSE]
Stops == {"idle", "ok", "failed", "killed"}
Active(r) == program[r].pc \notin Stops

Unselected == [q \in Requirements |-> "missing"]

CorpusInit ==
  /\ \E b \in Beginnings :
       /\ manifest = [dev |-> AsFile(b.dev), val |-> AsFile(b.val)]
       /\ healthy = b.healthy
       /\ disk = [p \in Payloads |->
             IF \E s \in Steps : /\ s.row.id = p
                                 /\ s.source = Local \/ s.row \in b.dev \cup b.val
             THEN "pinned" ELSE "absent"]
  /\ source = [a \in Sources |-> "pinned"]
  /\ temps = {} /\ coverage = Unselected /\ starts = 0 /\ faults = 0
  /\ program = [r \in Runs |-> Stopped("idle")]

-----------------------------------------------------------------------------
(* What the programs compute.                                              *)

Usable(file) == file.there /\ file.whole /\ file.rows # {}

Groups(rows) == {x.group : x \in rows}
ValidCollection(rows) ==
  \A x, y \in rows : (x.id = y.id => x = y) /\ (x.group = y.group => x.split = y.split)

Bytes(rows) == UNION {{x} \X (1..x.bytes) : x \in rows}
Total(rows) == Cardinality(Bytes(rows))
Balanced(rows) ==
  LET real == {x \in rows : x.origin = "real"}
  IN  /\ 10 * Cardinality(real) >= 7 * Cardinality(rows)
      /\ 10 * Total(real) >= 7 * Total(rows)

\* What a tool selects.
RowsOf(t) == {s.row : s \in ToSet(Plan[t])}
\* Mutant: the rows are not told apart by split.
AdditionsOfBoth(t, split) == RowsOf(t)
Additions(t, split) == {x \in RowsOf(t) : x.split = split}

\* Mutant: a changed row is replaced.
UpsertReplacing(existing, additions) ==
  {e \in existing : \A a \in additions : a.id # e.id} \cup additions
\* upsert_split_entries, upsert_validation_entries.
Upsert(existing, additions) == existing \cup additions
\* Mutant: a row that is there already is refused.
ChangedIfPresent(existing, additions) == existing \cap additions # {}
Changed(existing, additions) == ~ValidCollection(Upsert(existing, additions))

RetiredIds == {x.id : x \in Retired}
\* remove_retired_research_rows refuses a row of that name that is not the
\* one it knows.
Unretirable(rows) == \E x \in rows : x.id \in RetiredIds /\ x \notin Retired
Keep(rows) == rows \ Retired

\* Mutant: leakage between the splits is not looked for.
MergeUnchecked(dev, val) == dev # {} /\ val # {}
\* merge_development_validation.
Merges(dev, val) == dev # {} /\ val # {} /\ ValidCollection(dev \cup val)

\* Mutant: only the combined corpus is weighed.
BalancedTogether(dev, val) == Balanced(dev \cup val)
Weighed(dev, val) == Balanced(dev) /\ Balanced(val) /\ Balanced(dev \cup val)

\* build_coverage_rows: what a requirement's rows amount to.
Matching(rows, ids, kind) == {x \in rows : x.id \in ids /\ x.origin = kind}
\* Mutant: one selector of several is enough.
AnySelector(rows, q) == Matching(rows, q.ids, q.kind)
Exact(rows, q) ==
  LET found == Matching(rows, q.ids, q.kind)
  IN  IF q.every /\ {x.id : x \in found} # q.ids THEN {} ELSE found

Status(rows, q) ==
  IF Exact(rows, q) # {} THEN "selected"
  ELSE IF q.kind = "real" /\ Matching(rows, q.partial, "real") # {} THEN "partial"
  ELSE IF q.recipe THEN "pinned-recipe"
  ELSE IF q.local # {} THEN "available"
  ELSE "missing"

\* What the data sets and the tools promise: a file has one row in what the
\* tools select; a tool that only validates adds real data; the manifests
\* to begin with are sound, and select no other version of a file that the
\* coverage matrix asks for.
StepRows == {s.row : s \in Steps}
KnownRows == StepRows \cup UNION {b.dev \cup b.val : b \in Beginnings}
ToolsAreSound ==
  /\ \A t \in Tools : /\ Plan[t] \in Seq(Steps)
                      /\ t # "coverage" => Plan[t] # <<>>
                      /\ t = "builder" =>
                           /\ ValidCollection(RowsOf(t))
                           /\ \A x \in RowsOf(t) : x.split = "development"
                      /\ t \in {"sensor", "crate"} =>
                           \A x \in RowsOf(t) : x.split = "validation" => x.origin = "real"
  /\ \A x, y \in StepRows : x.id = y.id => x = y
BeginningsAreSound ==
  \A b \in Beginnings :
    /\ b.healthy \in BOOLEAN /\ ValidCollection(b.dev) /\ ValidCollection(b.val)
    /\ \A x \in b.dev : x.split = "development"
    /\ \A x \in b.val : x.split = "validation"
    /\ (b.dev # {} => Balanced(b.dev)) /\ (b.val # {} => Balanced(b.val))
    /\ \A x \in b.dev \cup b.val, q \in Requirements : x.id \in q.ids => x \in StepRows
ASSUME CorpusAssumption ==
  /\ ToolsAreSound /\ BeginningsAreSound /\ Nobody \notin Runs
  /\ IsFiniteSet(KnownRows) /\ \A x \in KnownRows : x.bytes \in Nat
  /\ MaxStarts \in Nat /\ MaxFaults \in Nat

-----------------------------------------------------------------------------
(* Running a program.                                                      *)

Become(r, value) == program' = [program EXCEPT ![r] = value]
Go(r, pc) == Become(r, [program[r] EXCEPT !.pc = pc])

\* A program that fails removes its temporary file.
Fail(r) ==
  /\ Become(r, Stopped("failed"))
  /\ temps' = {t \in temps : t[1] # r}

\* Whether nothing stands in the way of a run of tool t: its archives are
\* there, no payload was tampered with, the manifests it needs exist and
\* none was left half-written.
Ready(t) ==
  /\ healthy /\ (\A a \in Sources : source[a] = "pinned")
  /\ \A p \in Payloads : disk[p] # "other"
  /\ t = "builder" \/ (manifest.dev.there /\ manifest.dev.by = Nobody)
  /\ t \in {"research", "coverage"} => manifest.val.there

Start(r, t) ==
  /\ ~Active(r) /\ starts < MaxStarts /\ starts' = starts + 1
  /\ t = "builder" => \A q \in Runs : program[q].tool # "builder"  \* bound
  /\ program' = [q \in Runs |->
       IF q = r THEN [pc |-> IF t = "coverage" THEN "load" ELSE "item",
                      tool |-> t, left |-> Plan[t], open |-> Local,
                      dev |-> {}, val |-> {},
                      alone |-> \A o \in Runs : ~Active(o), clean |-> Ready(t)]
       ELSE [program[q] EXCEPT !.alone = FALSE]]
  /\ UNCHANGED <<disk, source, temps, manifest, coverage, healthy, faults>>

Current(r) == Head(program[r].left)
Done(r) ==
  LET rest == Tail(program[r].left)
  IN  [program[r] EXCEPT !.left = rest, !.open = Current(r).source,
         !.pc = IF rest # <<>> THEN "item"
                ELSE IF program[r].tool = "builder" THEN "truncate" ELSE "load"]

\* Mutant: a payload that is there already is taken as it is.
AcceptAny(p) == disk[p] # "absent"
\* _verify_file, _verify_payload: the digest of what is there.
Verified(p) == disk[p] = "pinned"

\* The next payload.  An archive is verified, whole, when the run comes to
\* its first member; a payload that is there is verified and kept.
Item(r) ==
  /\ program[r].pc = "item"
  /\ LET s == Current(r)
         p == s.row.id
     IN  IF s.source \notin {Local, program[r].open} /\ source[s.source] = "other"
         THEN Fail(r)
         ELSE \/ Verified(p) /\ Become(r, Done(r)) /\ UNCHANGED temps
              \/ ~Verified(p) /\ (disk[p] = "other" \/ s.source = Local) /\ Fail(r)
              \/ /\ ~Verified(p) /\ disk[p] = "absent" /\ s.source # Local
                 /\ Go(r, "copy") /\ temps' = temps \cup {<<r, p>>}
  /\ UNCHANGED <<disk, source, manifest, coverage, healthy, starts, faults>>

\* The member is read again into a temporary file and its digest taken.
Copy(r) ==
  /\ program[r].pc = "copy"
  /\ IF source[Current(r).source] = "pinned"
     THEN Go(r, "link") /\ UNCHANGED temps
     ELSE Fail(r)
  /\ UNCHANGED <<disk, source, manifest, coverage, healthy, starts, faults>>

\* Mutant: the copy is moved over whatever is there.
MovedOver(p) == "pinned"
\* os.link: never over a file that is there.
Linked(p) == IF disk[p] = "absent" THEN "pinned" ELSE disk[p]

Link(r) ==
  /\ program[r].pc = "link"
  /\ LET p == Current(r).row.id
     IN  /\ disk' = [disk EXCEPT ![p] = Linked(p)]
         /\ IF disk'[p] = "pinned"
            THEN Become(r, Done(r)) /\ temps' = temps \ {<<r, p>>}
            ELSE Fail(r)
  /\ UNCHANGED <<source, manifest, coverage, healthy, starts, faults>>

-----------------------------------------------------------------------------
(* The manifests.                                                          *)

Read(r, name, next) ==
  /\ IF Usable(manifest[name])
     THEN /\ Become(r, [program[r] EXCEPT ![name] = manifest[name].rows, !.pc = next])
          /\ UNCHANGED temps
     ELSE Fail(r)
  /\ UNCHANGED <<disk, source, manifest, coverage, healthy, starts, faults>>

\* validation.csv need not be there for the two validation tools.
ReadIfThere(r, next) ==
  IF manifest.val.there THEN Read(r, "val", next)
  ELSE Go(r, next) /\ UNCHANGED world

\* os.replace of a whole new file.
Replace(r, name, next) ==
  /\ manifest' = [manifest EXCEPT ![name] = File(program[r][name])]
  /\ Go(r, next)
  /\ UNCHANGED <<disk, source, temps, coverage, healthy, starts, faults>>

\* Mutant: the new rows alone are written.
AdditionsOnly(r) ==
  [program[r] EXCEPT !.dev = Additions("research", "development"),
                 !.val = Additions("research", "validation")]
\* materialize_research_corpus.main, after both manifests are read.
Merged(r) ==
  [program[r] EXCEPT !.dev = Upsert(Keep(program[r].dev), Additions("research", "development")),
                 !.val = Upsert(Keep(program[r].val), Additions("research", "validation"))]

\* Both merged manifests are checked before either is written.
Refused(r) ==
  \/ Unretirable(program[r].dev) \/ Unretirable(program[r].val)
  \/ Changed(Keep(program[r].dev), Additions("research", "development"))
  \/ Changed(Keep(program[r].val), Additions("research", "validation"))
  \/ LET m == Merged(r) IN ~Merges(m.dev, m.val) \/ ~Weighed(m.dev, m.val)

Research(r) ==
  /\ program[r].tool = "research"
  /\ \/ program[r].pc = "load" /\ Read(r, "dev", "load2")
     \/ program[r].pc = "load2" /\ Read(r, "val", "merge")
     \/ /\ program[r].pc = "merge"
        /\ IF Refused(r) THEN Fail(r)
           ELSE Become(r, [Merged(r) EXCEPT !.pc = "write"]) /\ UNCHANGED temps
        /\ UNCHANGED <<disk, source, manifest, coverage, healthy, starts, faults>>
     \/ program[r].pc = "write" /\ Replace(r, "dev", "write2")
     \/ program[r].pc = "write2" /\ Replace(r, "val", "report")

\* Merging the validation rows of tool t into those read.
MergeVal(r, next) ==
  LET new == Additions(program[r].tool, "validation")
  IN  /\ IF Changed(program[r].val, new) THEN Fail(r)
         ELSE /\ Become(r, [program[r] EXCEPT !.val = Upsert(@, new), !.pc = next])
              /\ UNCHANGED temps
      /\ UNCHANGED <<disk, source, manifest, coverage, healthy, starts, faults>>

CheckSplits(r, next) ==
  /\ IF Merges(program[r].dev, program[r].val) THEN Go(r, next) /\ UNCHANGED temps
     ELSE Fail(r)
  /\ UNCHANGED <<disk, source, manifest, coverage, healthy, starts, faults>>

\* materialize_crate_validation.main compares the splits, then writes.
Crate(r) ==
  /\ program[r].tool = "crate"
  /\ \/ program[r].pc = "load" /\ ReadIfThere(r, "merge")
     \/ program[r].pc = "merge" /\ MergeVal(r, "load2")
     \/ program[r].pc = "load2" /\ Read(r, "dev", "check")
     \/ program[r].pc = "check" /\ CheckSplits(r, "write")
     \/ program[r].pc = "write" /\ Replace(r, "val", "reload")
     \/ program[r].pc = "reload" /\ Read(r, "val", "check2")
     \/ program[r].pc = "check2" /\ CheckSplits(r, "report")

\* materialize_validation.main writes, then compares the splits.
Sensor(r) ==
  /\ program[r].tool = "sensor"
  /\ \/ program[r].pc = "load" /\ ReadIfThere(r, "merge")
     \/ program[r].pc = "merge" /\ MergeVal(r, "write")
     \/ program[r].pc = "write" /\ Replace(r, "val", "reload")
     \/ program[r].pc = "reload" /\ Read(r, "val", "load2")
     \/ program[r].pc = "load2" /\ Read(r, "dev", "check")
     \/ program[r].pc = "check" /\ CheckSplits(r, "report")

BaseRows == [n \in DOMAIN Plan["builder"] |-> Plan["builder"][n].row]
\* What the builder has of development.csv, if nobody replaced it since.
InPlace(r, file) ==
  manifest' = IF manifest.dev.by = r THEN [manifest EXCEPT !.dev = file] ELSE manifest

\* build_development_manifest.main: open(path, "w") empties the file, its
\* rows reach it in order and a buffer at a time.
Builder(r) ==
  /\ program[r].tool = "builder"
  /\ \/ /\ program[r].pc = "truncate" /\ Balanced(ToSet(BaseRows))
        /\ manifest' = [manifest EXCEPT !.dev = [File({}) EXCEPT !.by = r]]
        /\ Go(r, "rows") /\ UNCHANGED <<disk, source, temps, coverage, healthy, starts, faults>>
     \/ /\ program[r].pc = "rows"
        /\ \E n \in 1..Len(BaseRows) - 1, whole \in BOOLEAN :
             InPlace(r, [there |-> TRUE, whole |-> whole, by |-> r,
                         rows |-> ToSet(SubSeq(BaseRows, 1, n))])
        /\ Go(r, "rest") /\ UNCHANGED <<disk, source, temps, coverage, healthy, starts, faults>>
     \/ /\ program[r].pc = "rest" /\ InPlace(r, File(ToSet(BaseRows)))
        /\ Go(r, "reload") /\ UNCHANGED <<disk, source, temps, coverage, healthy, starts, faults>>
     \/ program[r].pc = "reload" /\ Read(r, "dev", "report")

\* coverage_matrix.main: both manifests, then the local artefacts.
Coverage(r) ==
  /\ program[r].tool = "coverage"
  /\ \/ program[r].pc = "load" /\ Read(r, "dev", "load2")
     \/ program[r].pc = "load2" /\ Read(r, "val", "check")
     \/ program[r].pc = "check" /\ CheckSplits(r, "rows")
     \/ /\ program[r].pc = "rows"
        /\ LET rows == program[r].dev \cup program[r].val
           IN  IF \A q \in Requirements : \A p \in q.local : disk[p] = "pinned"
               THEN /\ coverage' = [q \in Requirements |-> Status(rows, q)]
                    /\ Go(r, "report") /\ UNCHANGED temps
               ELSE Fail(r) /\ UNCHANGED coverage
        /\ UNCHANGED <<disk, source, manifest, healthy, starts, faults>>

\* The report is written and the exit status is 0.
Report(r) ==
  /\ program[r].pc = "report" /\ Become(r, Stopped("ok")) /\ UNCHANGED world

KillProgram(r) ==
  /\ Active(r) /\ faults < MaxFaults /\ faults' = faults + 1
  /\ Become(r, Stopped("killed"))
  /\ UNCHANGED <<disk, source, temps, manifest, coverage, healthy, starts>>

\* The user replaces an archive in the source directory, or has another
\* file where a payload no manifest selects is or belongs.
Disturb ==
  /\ faults < MaxFaults /\ faults' = faults + 1
  /\ \/ \E a \in Sources : source' = [source EXCEPT ![a] = "other"] /\ UNCHANGED disk
     \/ \E s \in Steps :
          /\ s.row \notin manifest.dev.rows \cup manifest.val.rows
          /\ disk[s.row.id] = "absent" \/ (s.source = Local /\ starts = 0)
          /\ disk' = [disk EXCEPT ![s.row.id] = "other"] /\ UNCHANGED source
  /\ program' = [r \in Runs |-> [program[r] EXCEPT !.clean = FALSE]]
  /\ UNCHANGED <<temps, manifest, coverage, healthy, starts>>

CorpusNext ==
  \/ \E r \in Runs :
       \/ \E t \in Tools : Start(r, t)
       \/ Item(r) \/ Copy(r) \/ Link(r)
       \/ Research(r) \/ Crate(r) \/ Sensor(r) \/ Builder(r) \/ Coverage(r)
       \/ Report(r) \/ KillProgram(r)
  \/ Disturb

CorpusSpec == CorpusInit /\ [][CorpusNext]_corpusVars

-----------------------------------------------------------------------------
\* Every file and every program is one the code can have.
CorpusTypeOK ==
  /\ disk \in [Payloads -> {"absent", "pinned", "other"}]
  /\ source \in [Sources -> {"pinned", "other"}]
  /\ temps \subseteq Runs \X Payloads
  /\ \A n \in {"dev", "val"} :
       LET f == manifest[n]
       IN  /\ ~f.there => f = NoManifest
           /\ f.by \in Runs \cup {Nobody} /\ (n = "val" => f.by = Nobody)
           /\ \A x \in f.rows : x.split = (IF n = "dev" THEN "development" ELSE "validation")
           /\ ValidCollection(f.rows)
  /\ \A r \in Runs : Active(r) => program[r].tool \in Tools
  /\ coverage \in [Requirements ->
                    {"selected", "partial", "pinned-recipe", "available", "missing"}]
  /\ healthy \in BOOLEAN /\ starts <= MaxStarts /\ faults <= MaxFaults

\* A row a tool selects names a payload that is on disk with its pinned
\* digest, in every manifest, half-written ones included, whoever crashed.
PayloadBehindEveryRow ==
  \A s \in Steps : s.row \in manifest.dev.rows \cup manifest.val.rows =>
    disk[s.row.id] = "pinned"

\* Programs that fill the same corpus never write over a payload: a file
\* that turns up between the look at the name and the publication of the
\* copy keeps what it holds (os.link, not os.replace).
PayloadsAreNeverReplaced ==
  [][\A p \in Payloads :
       disk[p] # "absent" /\ (\E r \in Runs : Active(r)) => disk'[p] = disk[p]]_corpusVars

\* A changed row is never silently replaced: a row that comes never has the
\* name of one that was there, unless it is one of the builder's, and written
\* by the builder or by a program that it overlapped with.
ChangedRowsAreRefused ==
  [][\A n \in {"dev", "val"} :
       \A y \in manifest'[n].rows \ manifest[n].rows, x \in manifest[n].rows :
         x.id = y.id =>
           /\ \E s \in RowsOf("builder") : s.id = x.id
           /\ \E r \in Runs : /\ program'[r] # program[r]
                              /\ program[r].tool = "builder" \/ ~program[r].alone]_corpusVars

\* A program that ends well, alone, leaves what its report tells of: its
\* rows in the manifests, and (but for the builder) no group in two splits.
SuccessIsOnDisk ==
  [][\A r \in Runs :
       program[r].alone /\ program'[r].pc = "ok" /\ program[r].pc # "ok" =>
         /\ \A s \in ToSet(Plan[program[r].tool]) :
              s.row \in (IF s.row.split = "development" THEN manifest.dev ELSE manifest.val).rows
         /\ program[r].tool # "builder" =>
              ValidCollection(manifest.dev.rows \cup manifest.val.rows)]_corpusVars

\* Whatever crashed before, in the copying of a payload or between the two
\* manifests, a tool that is run again, alone and with its sources in
\* place, does not fail.
RerunSucceeds ==
  [][\A r \in Runs : program[r].alone /\ program[r].clean /\ program[r].pc # "failed" =>
       program'[r].pc # "failed"]_corpusVars

\* Starting from manifests that pass the 70% rule no tool makes one that
\* does not, also when tools overlap or a crash leaves one of the pair old.
CorpusIsBalanced ==
  LET f == manifest
  IN  \A n \in {"dev", "val"} : f[n].there /\ f[n].by = Nobody => Balanced(f[n].rows)

\* A requirement the report calls met is met by payloads that are there, of
\* its kind, and by all of them where every selector is required.
CoverageIsEarned ==
  \A q \in Requirements : coverage[q] = "selected" =>
    LET earned == {p \in q.ids : /\ p \in Payloads => disk[p] = "pinned"
                                 /\ \E s \in Steps : s.row.id = p /\ s.row.origin = q.kind}
    IN  IF q.every THEN earned = q.ids ELSE earned # {}

\* datasets/README.md:26: every validation split group is disjoint from all
\* development groups.
SplitsAreDisjoint ==
  Groups(manifest.dev.rows) \cap Groups(manifest.val.rows) = {}

\* At every moment, half-written pairs included, the manifests are rows of
\* payloads that are there, in the proportion the data sets promise, and the
\* coverage report claims only those.
CorpusIsReal ==
  /\ CorpusTypeOK
  /\ PayloadBehindEveryRow /\ CorpusIsBalanced /\ CoverageIsEarned

\* What a step of a corpus program may do: it replaces no payload and no row
\* of another version, ends well only with its rows on disk, and does not
\* fail when it repairs what a crash left.
StepsKeepCorpus ==
  /\ PayloadsAreNeverReplaced /\ ChangedRowsAreRefused
  /\ SuccessIsOnDisk /\ RerunSucceeds
=============================================================================
