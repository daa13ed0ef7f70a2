------------------------------ MODULE MCRecords ------------------------------
(***************************************************************************)
(* The records a measurement rests on: the corpora and their manifests,    *)
(* the freeze that pins them, and the log of the campaign: CorpusManifests, *)
(* FreezeRecord and TrialCampaign.  A behaviour is about one of them, its  *)
(* part; the others rest in an initial state.                              *)
(***************************************************************************)
EXTENDS TrialCampaign, FreezeRecord, CorpusManifests, TLC

CONSTANTS Parts   \* of "corpora", "inputs", "edits", "campaign"

-----------------------------------------------------------------------------
(* A corpus of eleven payloads: four base files, one sensor file, one      *)
(* crate member, the research bundle (two development files, a zip with    *)
(* one validation member, a control) and rows of older versions.           *)

Row(id, split, group, origin) ==
  [id |-> id, split |-> split, group |-> group, origin |-> origin,
   bytes |-> 1, ver |-> 1]
At(row, from) == [row |-> row, source |-> from]
Dev(id, origin) == Row(id, "development", "base", origin)
Val(id, group) == Row(id, "validation", group, "real")

Base == {Dev("b1", "real"), Dev("b2", "real"), Dev("b3", "real")}
Synth == Dev("s1", "synthetic")
R1 == Row("r1", "development", "r1", "real")
R2 == Row("r2", "development", "r2", "real")
C1 == Row("c1", "development", "c1", "control")
V1 == Val("v1", "v1")
OldDev == Row("old1", "development", "old", "real")
OldVal == Val("old2", "old2")

CorpusPlan ==
  [builder  |-> <<At(Dev("b1", "real"), "local"), At(Dev("b2", "real"), "local"),
                  At(Dev("b3", "real"), "local"), At(Synth, "local")>>,
   sensor   |-> <<At(Val("u1", "u1"), "sensor.zip")>>,
   crate    |-> <<At(Val("k1", "k"), "crate.tar")>>,
   research |-> <<At(R1, "r1.bin"), At(R2, "r2.zip"), At(V1, "r2.zip"),
                  At(C1, "local")>>,
   coverage |-> <<>>]

RetiredRows == {OldDev, OldVal}

Beginning(dev, val, ok) == [dev |-> dev, val |-> val, healthy |-> ok]
SoundBeginnings ==
  { Beginning({}, {}, TRUE),
    \* One of the base files as another version selected it.
    Beginning({[Dev("b1", "real") EXCEPT !.ver = 0], Dev("b2", "real"), Dev("b3", "real"),
               Synth, OldDev}, {OldVal}, TRUE),
    \* Too few base files: with the research rows too few are real.  And a
    \* development file of the group the crate tool validates on.
    Beginning({Dev("b1", "real"), Synth, OldDev, Row("x1", "development", "k", "real")},
              {OldVal}, FALSE),
    \* A research row as another version selected it.
    Beginning(Base \cup {Synth, [R1 EXCEPT !.ver = 0]}, {OldVal}, FALSE) }

\* A development file of the group of the sensor archive.
LeakingBeginnings ==
  { Beginning(Base \cup {Synth, Row("x1", "development", "u1", "real")}, {}, FALSE) }

Requirement(kind, ids, every, partial, recipe, local) ==
  [kind |-> kind, ids |-> ids, every |-> every, partial |-> partial,
   recipe |-> recipe, local |-> local]
AllRequirements ==
  { Requirement("real", {"k1", "v1"}, TRUE, {"u1"}, TRUE, {}),
    Requirement("control", {"c1"}, FALSE, {}, FALSE, {"c1"}),
    Requirement("synthetic", {"s1"}, FALSE, {}, FALSE, {}) }

-----------------------------------------------------------------------------
(* Freezes over manifests with rows that are sound, that leak an id or a   *)
(* group into another split or that seal the wrong rows (inputs), and over *)
(* sound ones while files are edited (edits).                              *)

Entry(id, group, split, sealed) ==
  [id |-> id, group |-> group, split |-> split, sealed |-> sealed,
   legacy |-> FALSE, primary |-> TRUE, origin |-> "real"]

LeakyManifests ==
  [s \in Splits |->
     IF s = "development"
     THEN {{Entry("a", "g", s, FALSE)},
           {Entry("a", "g", s, FALSE), [Entry("b", "g", s, FALSE) EXCEPT !.legacy = TRUE]},
           {Entry("a", "g", s, FALSE), Entry("a", "k", s, FALSE)}}
     ELSE {{Entry("c", "h", s, TRUE)}, {Entry("c", "g", s, TRUE)},
           {Entry("c", "h", s, FALSE)}}]
AllManifests ==
  [LeakyManifests EXCEPT !["holdout"] =
     @ \cup {{Entry("a", "h", "holdout", TRUE)},
             {Entry("c", "h", "development", FALSE)},
             {[Entry("c", "h", "holdout", TRUE) EXCEPT !.legacy = TRUE]}}]

Toml(p, block, frozen) ==
  [profile |-> p, block |-> block, micro |-> 2, super |-> 4, frozen |-> frozen]
AllTomls == [p \in Profiles |->
              {Toml(p, 4, TRUE)} \cup
              (IF p = "max" THEN {Toml(p, 3, TRUE), Toml("fast", 4, TRUE),
                                  Toml(p, 4, FALSE)} ELSE {Toml(p, 2, TRUE)})]
FewTomls == [p \in Profiles |-> {Toml(p, 4, TRUE)} \cup
                                  (IF p = "fast" THEN {Toml(p, 2, TRUE)} ELSE {})]

Cat(rows) == [frozen |-> TRUE, row |-> rows]
AllCatalogues == {Cat([b \in {"xz", "zstd"} |-> "auto"]), Cat([b \in {"xz"} |-> "auto"])}
FewCatalogues == {Cat([b \in {"xz"} |-> "auto"])}

Doc(block, cat) == [block |-> block, micro |-> 2, catalogue |-> cat]
AlikeBinaries == {[p \in Profiles |-> Doc(4, 1)], [p \in Profiles |-> Doc(4, 2)]}
AllBinaries == AlikeBinaries \cup
  {[p \in Profiles |-> Doc(4, IF p = "max" THEN 1 ELSE 2)]}
FewManifests == [s \in Splits |->
  IF s = "development" THEN {m \in AllManifests[s] : \A r \in m : r.group = "g"}
  ELSE {{Entry("c", "h", s, TRUE)}}]

AnyOf(choices) == [x \in DOMAIN choices |-> CHOOSE c \in choices[x] : TRUE]

\* What is edited, and between which contents.
Sound(files) ==
  /\ \A s \in Splits : files.manifest[s] \in FewManifests[s]
  /\ \A p \in Profiles : files.profile[p] \in FewTomls[p]
  /\ files.binary \in AlikeBinaries

-----------------------------------------------------------------------------
(* A MathSVG trial and a baseline trial, two runners, a source with a file  *)
(* that is as committed and one that is not.                               *)

Schedule == <<"mathsvg", "zstd">>

-----------------------------------------------------------------------------
VARIABLE part
allVars == <<part, corpusVars, freezeVars, vars>>

\* What rests, rests in one of its initial states.
Resting ==
  /\ part # "corpora" => manifest.dev = AsFile({}) /\ manifest.val = AsFile({})
  /\ part = "inputs" => now.catalogue \in FewCatalogues
  /\ part = "edits" => Sound(now)
  /\ part \notin {"inputs", "edits"} =>
       /\ run.branch = "other" /\ run.state = "development"
       /\ now.manifest = AnyOf(AllManifests) /\ now.profile = AnyOf(AllTomls)
       /\ now.catalogue = CHOOSE c \in AllCatalogues : TRUE
       /\ now.binary = CHOOSE b \in AllBinaries : TRUE

MCInit == part \in Parts /\ CorpusInit /\ Init /\ FreezeInit /\ Resting

MCNext ==
  \/ part = "corpora" /\ CorpusNext /\ UNCHANGED <<part, freezeVars, vars>>
  \/ /\ part = "inputs" /\ FreezeNext /\ edits' = edits
     /\ UNCHANGED <<part, corpusVars, vars>>
  \/ /\ part = "edits" /\ FreezeNext /\ Sound(now')
     /\ UNCHANGED <<part, corpusVars, vars>>
  \/ part = "campaign" /\ Next /\ UNCHANGED <<part, corpusVars, freezeVars>>

MCSpec == MCInit /\ [][MCNext]_allVars

\* Programs differ in nothing but their slot.
Alike == Permutations(Runs)

-----------------------------------------------------------------------------
\* What a step may never do to the files of the corpora and of the campaign.
StepsKeepRecords == StepsKeepCorpus /\ LateRunnersTouchNothing
=============================================================================
