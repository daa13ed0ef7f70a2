------------------------------- MODULE GateCampaign -------------------------------
(***************************************************************************)
(* The verification campaigns of mathsvg/python/repro.  Each refuses an    *)
(* existing report, selects its inputs from a manifest that pins their     *)
(* digests, records the identity of everything it depends on, runs the     *)
(* binary once per row, takes the identities again, and writes one report  *)
(* with a verdict:                                                         *)
(*   literal      literal_safety.py       gate 2, archives hardly expand   *)
(*   memory       memory_gate.py          gate 3, peak memory              *)
(*   procedural   procedural_gate.py      gate 4, bytes made by functions  *)
(*   fuzz         fuzz_campaign.py        sanitizer runs, development-pass *)
(*   determinism  determinism_campaign.py a matrix that is never a pass    *)
(* While a campaign runs, any file may be replaced, by contents that were  *)
(* never there before.  A version of a file is a number.                   *)
(***************************************************************************)
EXTENDS Integers, FiniteSets

CONSTANTS Requests,    \* what a campaign is asked for
          Usual,       \* row outcomes that cost nothing, by kind
          Faulty,      \* row outcomes that count as a fault, by kind
          ArchiveSize, \* bytes of an archive of an input of Original bytes
          Original, Blocks,
          MinReps,     \* repetitions gate 3 asks for, 5 in the code
          MaxMishaps   \* bound: replacements and faulty rows

\* A request: [kind, profiles, reps, warmups, items, canonical].  An item
\* is [id, domain].
RequiredProfiles == {"balanced", "fast", "max"}
RequiredDomains == {"random", "compressed"}     \* twelve in the code
CaseGenerators == {"g1", "g2"}                  \* eight in the code

Pinned == {"manifest", "input", "config", "binary", "source"}
Same == [f \in Pinned |-> 1]

Kinds == {"literal", "memory", "procedural", "fuzz", "determinism"}
Outcomes(kind) == Usual[kind] \cup Faulty[kind]

\* The gates count bytes and repetitions; gate 3 is about one input; a fuzz
\* run ends well, badly or late.
ASSUME GateAssumption ==
  /\ MinReps \in Nat /\ Original \in Nat /\ Blocks \in Nat /\ MaxMishaps \in Nat
  /\ \A q \in Requests :
       /\ q.kind \in Kinds /\ q.reps \in Nat /\ q.warmups \in Nat
       /\ q.kind = "memory" => q.items # {}
  /\ \A o \in Outcomes("literal") : ArchiveSize[o.archive] \in Nat
  /\ \A o \in Outcomes("memory") : o.encoder \in Nat /\ o.decoder \in Nat
  /\ \A o \in Outcomes("procedural") :
       o.functions \in Nat /\ o.leaves \in Nat /\ o.gain \in Int
  /\ \A o \in Outcomes("fuzz") :
       /\ o.end \in {"ok", "exit", "timeout"}
       /\ o.artifacts \in Nat /\ o.units \in Int /\ o.planned \in Int

VARIABLES request,
          ver,      \* the version of each file
          builtin,  \* config the binary was built with
          campaign, \* pc, rows left, rows, identities
          verdict, mishaps

gateVars == <<request, ver, builtin, campaign, verdict, mishaps>>

NoVerdict == [status |-> "none"]
GateInit ==
  /\ request \in Requests
  /\ ver = Same /\ builtin = 1 /\ mishaps = 0 /\ verdict = NoVerdict
  /\ campaign = [pc |-> "load", left |-> {}, rows |-> {}, listed |-> 0,
                 before |-> Same, after |-> Same]

Mishaps(n) == mishaps' = mishaps + n /\ mishaps' <= MaxMishaps
Stage(pc) == campaign.pc = pc
Turn(pc) == campaign' = [campaign EXCEPT !.pc = pc]
Stay == UNCHANGED <<request, ver, builtin, verdict, mishaps>>

-----------------------------------------------------------------------------
(* What a campaign runs.                                                   *)

Key(item, profile, rep, phase) ==
  [item |-> item, profile |-> profile, rep |-> rep, phase |-> phase]

LiteralPlan(q) ==
  {Key(i, p, n, "timed") : i \in {x \in q.items : x.domain \in RequiredDomains},
                         p \in q.profiles, n \in 1..q.reps}
\* Mutant: there is one loop, of the timed repetitions.
MemoryPlanTimed(q) ==
  {Key(i, p, n, "timed") : i \in q.items, p \in q.profiles, n \in 1..q.reps}
MemoryPlan(q) ==
  {Key(i, p, n, "warmup") : i \in q.items, p \in q.profiles, n \in 1..q.warmups}
    \cup {Key(i, p, n, "timed") : i \in q.items, p \in q.profiles, n \in 1..q.reps}
ProceduralPlan(q) == {Key(i, "structured", 1, "timed") : i \in q.items}
FuzzPlan(q) == {Key(i, "", 1, "timed") : i \in q.items}
DeterminismPlan(q) ==
  {Key(i, build, n, "timed") : i \in q.items, build \in {"debug", "release"}, n \in 1..q.reps}

Plan(q) ==
  CASE q.kind = "literal"     -> LiteralPlan(q)
    [] q.kind = "memory"      -> MemoryPlan(q)
    [] q.kind = "procedural"  -> ProceduralPlan(q)
    [] q.kind = "fuzz"        -> FuzzPlan(q)
    [] q.kind = "determinism" -> DeterminismPlan(q)

\* Warm-ups come first.  The code shuffles the rest, or goes through it in
\* order; no verdict depends on that, and any row may be the one that goes
\* wrong, so one order stands for all.
NextKey(left) ==
  CHOOSE k \in left : k.phase = "warmup" \/ \A x \in left : x.phase # "warmup"

\* _selected_inputs: every generator and every structured domain is there.
ProceduralSelected(q) ==
  /\ CaseGenerators \subseteq {i.id : i \in q.items}
  /\ {"bitmap", "scan"} \subseteq {i.domain : i \in q.items}

\* The payload has the length and digest its manifest row lists (version 1).
Selected(q) ==
  /\ q.kind # "fuzz" => ver.input = 1
  /\ q.kind = "procedural" => ProceduralSelected(q)

\* build_native_specs: the binary's own profile is the one of the config.
Preflight(q) == q.kind # "fuzz" => builtin = ver.config

-----------------------------------------------------------------------------
(* What a row is.                                                          *)

\* The largest archive gate 2 allows.
FixedOverhead(blocks) == 128 + 128 + blocks * (144 + 72 + 16)
MaximumArchive(original, blocks) ==
  original + original \div 1000 + FixedOverhead(blocks)

\* Mutant: the allowance is rounded up and the bound is not strict.
WithinRounded(o) == ArchiveSize[o.archive] <= MaximumArchive(Original, Blocks) + 1
WithinBound(o) == ArchiveSize[o.archive] <= MaximumArchive(Original, Blocks)

\* Inspection and decoding compare with the digest the manifest lists.
Honest == ver.input = 1

LiteralRow(o) ==
  IF o.end = "ok" /\ Honest
  THEN [status |-> "ok", archive |-> o.archive, within |-> WithinBound(o)]
  ELSE [status |-> "failed"]

EncoderLimit == 4
DecoderLimit == 4
\* A measurement that could not be taken is 0.
Under(rss, limit) == rss # 0 /\ rss < limit
MemoryRow(o) ==
  [status  |-> IF o.end = "ok" /\ Honest THEN "ok" ELSE "failed",
   encoder |-> Under(o.encoder, EncoderLimit), decoder |-> Under(o.decoder, DecoderLimit)]

\* Of 100 original bytes.
ProceduralRow(o) ==
  IF o.end = "ok" /\ Honest /\ o.functions + o.literals = 100
  THEN [status |-> "ok", functions |-> o.functions, leaves |-> o.leaves, gain |-> o.gain]
  ELSE [status |-> "failed", functions |-> 0, leaves |-> 0, gain |-> 0]

FuzzRow(o) ==
  [status |-> IF o.end = "timeout" THEN "timeout"
              ELSE IF \/ o.end = "exit" \/ o.artifacts > 0
                      \/ o.units < o.planned     \* -1: no counter printed
                   THEN "failed" ELSE "ok"]

\* A command that fails over a thread or a backend makes an unavailable
\* row (DeterminismMatrix!StatusOf).
DeterminismRow(o) ==
  [status  |-> IF o.end = "ok" /\ Honest THEN "ok"
               ELSE IF o.end = "unsupported" THEN "unavailable" ELSE "failed",
   archive |-> o.archive]

RowOf(q, o) ==
  CASE q.kind = "literal"     -> LiteralRow(o)
    [] q.kind = "memory"      -> MemoryRow(o)
    [] q.kind = "procedural"  -> ProceduralRow(o)
    [] q.kind = "fuzz"        -> FuzzRow(o)
    [] q.kind = "determinism" -> DeterminismRow(o)

-----------------------------------------------------------------------------
(* The verdicts.  A row is [key, value, o, at].                            *)

Passed(rows) == {r \in rows : r.value.status = "ok"}
AllRan(rows) == Passed(rows) = rows
Group(rows, r) == {x \in rows : x.key.item = r.key.item /\ x.key.profile = r.key.profile}
Varied(rows) ==
  \E x, y \in Passed(rows) : y \in Group(rows, x) /\ x.value.archive # y.value.archive

LiteralFails(rows) ==
  ~AllRan(rows) \/ (\E r \in Passed(rows) : ~r.value.within) \/ Varied(rows)
\* Mutant: controls that are not in the manifest are not missed.
LiteralLacksProfiles(rows, q) == q.profiles # RequiredProfiles \/ q.reps < 2
LiteralLacks(rows, q) ==
  \/ \E r \in rows : Cardinality(Group(rows, r)) # q.reps
  \/ ~(RequiredDomains \subseteq {i.domain : i \in q.items})
  \/ q.profiles # RequiredProfiles
  \/ q.reps < 2

MemoryFails(rows) ==
  \E r \in rows : r.value.status # "ok" \/ ~r.value.encoder \/ ~r.value.decoder
MemoryLacks(rows, q) ==
  ~q.canonical \/ q.profiles # RequiredProfiles \/ q.reps < MinReps \/ q.warmups < 1

\* Integers are added up by counting units, of either sign.
Units(rows, sign, field) == UNION {{r} \X (1..(sign * r.value[field])) : r \in rows}
Sum(rows, field) == Cardinality(Units(rows, 1, field)) - Cardinality(Units(rows, -1, field))

Exact(r) == r.key.item.id \in CaseGenerators
Domains(rows) == {r.key.item.domain : r \in {x \in rows : ~Exact(x)}}
OfDomain(rows, d) == {r \in rows : ~Exact(r) /\ r.key.item.domain = d}
\* domain_rows.
Wins(rows, d) ==
  LET files == OfDomain(rows, d)
  IN  /\ AllRan(files) /\ Sum(files, "gain") > 0
      /\ 2 * Sum(files, "functions") >= 100 * Cardinality(files)
ProceduralFails(rows) ==
  \/ ~AllRan(rows)
  \/ \E r \in Passed(rows) : Exact(r) /\
       (r.value.functions < 99 \/ r.value.leaves # 0 \/ r.value.gain <= 0)
  \/ ~\E d \in Domains(rows) : Wins(rows, d)

DeterminismFails(rows) ==
  \/ \E r \in rows : r.value.status = "failed"
  \/ Cardinality({r.value.archive : r \in Passed(rows)}) > 1

Fails(rows, q) ==
  CASE q.kind = "literal"     -> LiteralFails(rows)
    [] q.kind = "memory"      -> MemoryFails(rows)
    [] q.kind = "procedural"  -> ProceduralFails(rows)
    [] q.kind = "fuzz"        -> ~AllRan(rows)
    [] q.kind = "determinism" -> DeterminismFails(rows)

\* The determinism wrapper never calls its evidence more than incomplete.
Lacks(rows, q) ==
  CASE q.kind = "literal"     -> LiteralLacks(rows, q)
    [] q.kind = "memory"      -> MemoryLacks(rows, q)
    [] q.kind = "determinism" -> TRUE
    [] OTHER                  -> FALSE

\* Mutant: instability is looked at first.
StabilityFirst(rows, q, stable) ==
  IF Lacks(rows, q) \/ ~stable THEN "incomplete"
  ELSE IF Fails(rows, q) THEN "failed" ELSE "pass"
Verdict(rows, q, stable) ==
  IF Fails(rows, q) THEN "failed"
  ELSE IF Lacks(rows, q) \/ ~stable THEN "incomplete" ELSE "pass"

-----------------------------------------------------------------------------
(* The campaign.                                                           *)

\* The manifest is read and every selected payload verified.
Load ==
  /\ Stage("load")
  /\ IF Selected(request)
     THEN campaign' = [campaign EXCEPT !.pc = "preflight", !.left = Plan(request),
                                       !.listed = ver.manifest]
     ELSE Turn("refused")
  /\ Stay

CheckRuntime ==
  /\ Stage("preflight")
  /\ Turn(IF Preflight(request) THEN "source" ELSE "refused")
  /\ Stay

\* git_identity, then the digest of everything else.
SourceBefore ==
  /\ Stage("source")
  /\ campaign' = [campaign EXCEPT !.pc = "before", !.before.source = ver.source]
  /\ Stay

\* The literal campaign does not hash the manifest again but carries the
\* digest it took when it read it, both times.
Identity(q, source) ==
  [f \in Pinned |-> CASE f = "source" -> source
                      [] f = "manifest" /\ q.kind = "literal" -> campaign.listed
                      [] f \in {"manifest", "config"} /\ q.kind = "fuzz" -> 1
                      [] OTHER -> ver[f]]

Before ==
  /\ Stage("before")
  /\ campaign' = [campaign EXCEPT !.pc = "rows",
                                  !.before = Identity(request, campaign.before.source)]
  /\ Stay

\* The next row.
Row ==
  /\ Stage("rows") /\ campaign.left # {}
  /\ LET k == NextKey(campaign.left)
     IN  \E n \in {0, 1} : \E o \in (IF n = 0 THEN Usual ELSE Faulty)[request.kind] :
           /\ Mishaps(n)
           /\ campaign' = [campaign EXCEPT
                !.rows = @ \cup {[key |-> k, value |-> RowOf(request, o), o |-> o, at |-> ver]},
                !.left = @ \ {k}]
  /\ UNCHANGED <<request, ver, builtin, verdict>>

\* Mutant: the binary is not hashed again.
BinaryOnce(q, source) == [Identity(q, source) EXCEPT !.binary = campaign.before.binary]
IdentityAfter(q, source) == Identity(q, source)

\* run_matrix raises at its end when a file it hashed has changed.
MatrixUnchanged(q) ==
  q.kind = "determinism" =>
    \A f \in {"config", "input", "binary"} : ver[f] = campaign.before[f]

After ==
  /\ Stage("rows") /\ campaign.left = {}
  /\ IF MatrixUnchanged(request)
     THEN campaign' = [campaign EXCEPT !.pc = "source-after",
                                       !.after = IdentityAfter(request, 1)]
     ELSE Turn("refused")
  /\ Stay

SourceAfter ==
  /\ Stage("source-after")
  /\ campaign' = [campaign EXCEPT !.pc = "write", !.after.source = ver.source]
  /\ Stay

\* The report names what was hashed before the rows, and what its digests
\* of the config and the binary are when it is written.
Publish ==
  /\ Stage("write") /\ Turn("done")
  /\ verdict' = [status |-> Verdict(campaign.rows, request, campaign.before = campaign.after),
                 identity |-> campaign.before, config |-> ver.config, binary |-> ver.binary]
  /\ UNCHANGED <<request, ver, builtin, mishaps>>

\* A file is replaced; a new binary is one built with the present config.
ReplaceFile(f) ==
  /\ campaign.pc \notin {"done", "refused"} /\ Mishaps(1)
  /\ ver' = [ver EXCEPT ![f] = @ + 1]
  /\ builtin' = IF f = "binary" THEN ver.config ELSE builtin
  /\ UNCHANGED <<request, campaign, verdict>>

GateNext ==
  \/ Load \/ CheckRuntime \/ SourceBefore \/ Before \/ Row \/ After \/ SourceAfter \/ Publish
  \/ \E f \in Pinned : ReplaceFile(f)

GateSpec == GateInit /\ [][GateNext]_gateVars

-----------------------------------------------------------------------------
Done == Stage("done")
Rows == campaign.rows

\* The campaign goes through its steps with rows of its own plan.
GateTypeOK ==
  /\ campaign.pc \in {"load", "preflight", "source", "before", "rows", "source-after",
                 "write", "done", "refused"}
  /\ campaign.left \subseteq Plan(request)
  /\ {r.key : r \in Rows} \cap campaign.left = {}
  /\ Done => {r.key : r \in Rows} = Plan(request)
  /\ verdict.status \in {"none", "pass", "incomplete", "failed"}
  /\ Done <=> verdict.status # "none"
  /\ builtin <= ver.config /\ mishaps <= MaxMishaps

\* A verdict of pass names the files that every row was run with (but for
\* the manifest of the literal campaign): whatever was replaced, and when.
PassIsOfItsFiles ==
  verdict.status = "pass" =>
    \A r \in Rows, f \in Pinned :
      \/ r.at[f] = verdict.identity[f]
      \/ f = "manifest" /\ request.kind \in {"literal", "fuzz"}
      \/ f \in {"config", "input"} /\ request.kind = "fuzz"

\* What the gates promise, said of the outcomes themselves.
\* Gate 2: two equal archives of every control under every profile, none
\* larger by more than 0.1% and the declared envelope.
SmallAndStable(of) ==
  /\ Cardinality(of) >= 2 /\ Cardinality({r.o.archive : r \in of}) = 1
  /\ \A r \in of : /\ r.o.end = "ok"
                   /\ 1000 * (ArchiveSize[r.o.archive] - Original - 256 - 232 * Blocks) <= Original
LiteralPromise ==
  \A d \in RequiredDomains, p \in RequiredProfiles :
    \E i \in request.items :
      i.domain = d /\ SmallAndStable({r \in Rows : r.key.item = i /\ r.key.profile = p})
\* Gate 3: MinReps measurements after a warm-up under every profile.
MemoryPromise ==
  \A p \in RequiredProfiles :
    LET of == {r \in Rows : r.key.profile = p}
    IN  /\ Cardinality({r \in of : r.key.phase = "timed"}) >= MinReps
        /\ \E r \in of : r.key.phase = "warmup"
        /\ \A r \in of : /\ r.o.end = "ok"
                         /\ r.o.encoder \in 1..EncoderLimit - 1 /\ r.o.decoder \in 1..DecoderLimit - 1
\* Gate 4: every generator is functions only, a real domain is half functions.
ProceduralPromise ==
  /\ \A g \in CaseGenerators : \E r \in Rows :
       r.key.item.id = g /\ r.o.functions >= 99 /\ r.o.leaves = 0 /\ r.o.gain > 0
  /\ \E d \in Domains(Rows) :
       LET of == {r.o : r \in OfDomain(Rows, d)}
       IN  /\ \A o \in of : o.end = "ok"
           /\ \E o \in of : o.gain > 0
           /\ \E o \in of : o.functions >= 50
FuzzPromise ==
  \A r \in Rows : r.o.end = "ok" /\ r.o.artifacts = 0 /\ r.o.units >= r.o.planned

\* A passing report is one of the gate's own promise, over every input it
\* is asked for; rounding, missing controls and short runs included.
PassMeansPromise ==
  verdict.status = "pass" =>
    CASE request.kind = "literal"     -> LiteralPromise
      [] request.kind = "memory"      -> MemoryPromise
      [] request.kind = "procedural"  -> ProceduralPromise
      [] request.kind = "fuzz"        -> FuzzPromise
      [] request.kind = "determinism" -> FALSE

\* What repro/README.md:27 says of fuzzing holds of every campaign: a
\* timeout, a non-zero exit, a crash artifact or a short count remains
\* visible, as a failure, also when something was replaced or asked for too
\* little (but for what the matrix calls unavailable).
FailuresRemainVisible ==
  Done /\ (\E r \in Rows : r.o.end \notin {"ok", "unsupported"}
             \/ (request.kind = "fuzz" /\ (r.o.artifacts > 0 \/ r.o.units < r.o.planned))) =>
    verdict.status = "failed"

\* A report is true: of the files it names, of the gate it passes, and of the
\* failures it met.
ReportsAreTrue ==
  /\ GateTypeOK
  /\ PassIsOfItsFiles /\ PassMeansPromise /\ FailuresRemainVisible
===============================================================================
