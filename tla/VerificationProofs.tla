--------------------------- MODULE VerificationProofs ---------------------------
(***************************************************************************)
(* What the runs of CompilerMatrix, GateCampaign and DeterminismMatrix     *)
(* show for a few faults holds for any number of them.  The argument is    *)
(* each time that of a script which hashes a file before and after:        *)
(* replaced contents never come back, so what was there in between is what *)
(* was there at both ends.                                                 *)
(***************************************************************************)
EXTENDS CompilerMatrix, GateCampaign, DeterminismMatrix, SequenceTheorems,
        FiniteSetTheorems, TLAPS

-----------------------------------------------------------------------------
(* The compiler matrix: any number of generators, replacements, edits and  *)
(* kills.                                                                  *)

Binary == [source : Nat, by : Tools, version : Nat]
Archive == [of : Nat, odd : BOOLEAN]
Decoded == [cell : [by : Tools, of : Tools], bytes : Nat]
Docs == [machine : Generators, source : Nat, tools : [Tools -> Nat], bins : [Tools -> Binary],
         input : Nat, same : BOOLEAN, restored : Seq(Decoded), tested : Nat,
         archives : [Tools -> Archive]]
Fields == {"pc", "source", "tools", "canonical", "tested", "bins", "archives", "restored"}

\* A generator that passed a step, from the last step to the first.
Writing == {"write", "done"}
CanonicalChecked == Writing \cup {"after-toolchains"}
InputChecked == CanonicalChecked \cup {"after-canonical"}
SourceChecked == InputChecked \cup {"after-input"}
Restoring == SourceChecked \cup {"after-source"}
Compared == Restoring \cup {"decode"}
BothCompressed == Compared \cup {"compare"}
StableCompressed == BothCompressed \cup {"compress-compat"}
BothBuilt == StableCompressed \cup {"compress-stable", "same"}
StableBuilt == BothBuilt \cup {"build-compat"}
Tested == StableBuilt \cup {"build-stable"}
Snapshotted == Tested \cup {"test"}
Resolved == Snapshotted \cup {"snapshot"}
Labels == Resolved \cup {"exists", "input", "canonical", "toolchains", "refused"}

DiskInv ==
  /\ disk \in [source : Nat, input : Nat, stable : Nat, compat : Nat, canonical : Binary]
  /\ disk.source >= 1 /\ disk.input >= Alice

FieldType ==
  [pc |-> Labels, source |-> Nat, tools |-> [Tools -> Nat], canonical |-> Binary,
   tested |-> Nat, bins |-> [Tools -> Binary], archives |-> [Tools -> Archive],
   restored |-> Seq(Decoded)]
TypesOf(g) == DOMAIN gen[g] = Fields /\ \A f \in Fields : gen[g][f] \in FieldType[f]
GenTypes ==
  /\ gen = [g \in Generators |-> gen[g]]
  /\ \A g \in Generators : TypesOf(g)

\* Numbers only grow, so a number read lies between those at both ends.
SourceInv(g) ==
  /\ gen[g].pc \in Snapshotted => 1 <= gen[g].source /\ gen[g].source <= disk.source
  /\ gen[g].pc \in Tested => gen[g].source <= gen[g].tested /\ gen[g].tested <= disk.source
  /\ gen[g].pc \in SourceChecked => gen[g].tested = gen[g].source

ToolInv(g, t) ==
  gen[g].pc \in Resolved => gen[g].tools[t] <= disk[t]

BuildInv(g, t, built) ==
  /\ gen[g].pc \in built =>
       /\ gen[g].bins[t].by = t
       /\ gen[g].source <= gen[g].bins[t].source /\ gen[g].bins[t].source <= disk.source
       /\ gen[g].tools[t] <= gen[g].bins[t].version /\ gen[g].bins[t].version <= disk[t]
  /\ gen[g].pc \in SourceChecked => gen[g].bins[t].source = gen[g].source
  /\ gen[g].pc \in Writing => gen[g].bins[t].version = gen[g].tools[t]

ArchiveInv(g, t, compressed) ==
  /\ gen[g].pc \in compressed =>
       Alice <= gen[g].archives[t].of /\ gen[g].archives[t].of <= disk.input
  /\ gen[g].pc \in InputChecked => gen[g].archives[t].of = Alice

RestoredInv(g) ==
  /\ gen[g].pc \in Compared => gen[g].archives["stable"] = gen[g].archives["compat"]
  /\ gen[g].pc \in Labels \ (Restoring \cup {"decode", "refused"}) => gen[g].restored = <<>>
  /\ Len(gen[g].restored) <= 4
  /\ \A i \in 1..Len(gen[g].restored) : gen[g].restored[i].cell = DecodeCells[i]
  /\ gen[g].pc \in Restoring =>
       /\ Len(gen[g].restored) = 4
       /\ \A i \in 1..4 : gen[g].restored[i].bytes = Alice

GenInv(g) ==
  /\ SourceInv(g)
  /\ ToolInv(g, "stable") /\ ToolInv(g, "compat")
  /\ BuildInv(g, "stable", StableBuilt) /\ BuildInv(g, "compat", BothBuilt)
  /\ ArchiveInv(g, "stable", StableCompressed) /\ ArchiveInv(g, "compat", BothCompressed)
  /\ RestoredInv(g)

ReportInv ==
  report # NoReport => report \in Docs /\ \E g \in Generators : Published(g)

\* A check of the validator stays true until the next fault.
ValInv ==
  /\ faults \in Nat /\ val.since <= faults
  /\ val = [pc |-> val.pc, doc |-> val.doc, since |-> val.since] /\ val.since \in Nat
  /\ val.pc \in {"idle", "input", "toolchains", "canonical", "valid", "invalid"}
  /\ val.pc \in {"input", "toolchains", "canonical", "valid"} => val.doc.same
  /\ val.pc \in {"toolchains", "canonical", "valid"} /\ faults = val.since => disk.input = Alice
  /\ val.pc \in {"canonical", "valid"} /\ faults = val.since =>
       \A t \in Tools : disk[t] = val.doc.tools[t]
  /\ val.pc = "valid" /\ faults = val.since => disk.canonical = val.doc.bins["stable"]

IInv ==
  /\ DiskInv /\ GenTypes
  /\ \A g \in Generators : GenInv(g)
  /\ ReportInv /\ ValInv
--------------------------------------------------------------------------------
(* What a step of one generator changes.                                   *)

LEMMA DocsDiffer == ASSUME NEW doc \in Docs PROVE doc # NoReport
BY DEF Docs, NoReport

LEMMA InitIInv == Init => IInv
<1> SUFFICES ASSUME Init PROVE IInv
  OBVIOUS
<1>1. DiskInv
  BY DEF Init, DiskInv, Binary, Tools, Alice
<1>2. \A g \in Generators : gen[g] = Idle
  BY DEF Init
<1>3. GenTypes
  <2>1. gen = [g \in Generators |-> gen[g]]
    BY DEF Init
  <2>2. DOMAIN Idle = Fields
    BY DEF Idle, Fields
  <2>3. /\ Idle.pc \in Labels /\ Idle.source \in Nat /\ Idle.tools \in [Tools -> Nat]
        /\ Idle.tested \in Nat /\ Idle.restored \in Seq(Decoded)
    BY DEF Idle, Labels
  <2>4. /\ Idle.canonical \in Binary /\ Idle.bins \in [Tools -> Binary]
        /\ Idle.archives \in [Tools -> Archive]
    BY DEF Idle, NoBinary, Binary, Archive, Tools
  <2>5. \A f \in Fields : Idle[f] \in FieldType[f]
    BY <2>3, <2>4 DEF FieldType, Fields
  <2> QED BY <1>2, <2>1, <2>2, <2>5 DEF GenTypes, TypesOf
<1>4. ASSUME NEW g \in Generators PROVE GenInv(g)
  <2>1. gen[g].pc = "exists" /\ gen[g].restored = <<>>
    BY <1>2 DEF Idle
  <2>2. gen[g].pc \notin Resolved
    BY <2>1 DEF Resolved, Snapshotted, Tested, StableBuilt, BothBuilt,
                StableCompressed, BothCompressed, Compared, Restoring, SourceChecked,
                InputChecked, CanonicalChecked, Writing
  <2> QED
    BY <2>1, <2>2 DEF GenInv, SourceInv, ToolInv, BuildInv, ArchiveInv, RestoredInv,
                Resolved, Snapshotted, Tested, StableBuilt, BothBuilt,
                StableCompressed, BothCompressed, Compared, Restoring, SourceChecked,
                InputChecked, CanonicalChecked, Writing
<1>5. ReportInv
  BY DEF Init, ReportInv
<1>6. ValInv
  BY DEF Init, ValInv
<1> QED BY <1>1, <1>3, <1>4, <1>5, <1>6 DEF IInv

LEMMA TypesAre ==
  ASSUME NEW g, TypesOf(g)
  PROVE  /\ gen[g].pc \in Labels /\ gen[g].source \in Nat
         /\ gen[g].tools \in [Tools -> Nat] /\ gen[g].canonical \in Binary
         /\ gen[g].tested \in Nat /\ gen[g].bins \in [Tools -> Binary]
         /\ gen[g].archives \in [Tools -> Archive] /\ gen[g].restored \in Seq(Decoded)
BY DEF TypesOf, FieldType, Fields

LEMMA StepIs ==
  ASSUME GenTypes, NEW g \in Generators, NEW changes, DOMAIN changes \subseteq Fields,
         Step(g, changes)
  PROVE  /\ gen' = [h \in Generators |-> gen'[h]]
         /\ \A h \in Generators : h # g => gen'[h] = gen[h]
         /\ DOMAIN gen'[g] = Fields
         /\ \A f \in Fields : gen'[g][f] = IF f \in DOMAIN changes THEN changes[f] ELSE gen[g][f]
BY DEF GenTypes, TypesOf, Step

\* A step of g that leaves the files, the report and the validator alone.
LEMMA GeneratorKeeps ==
  ASSUME IInv, NEW g \in Generators, gen[g].pc # "done",
         gen' = [h \in Generators |-> gen'[h]],
         \A h \in Generators : h # g => gen'[h] = gen[h],
         TypesOf(g)', GenInv(g)',
         UNCHANGED <<disk, report, val>>, faults' \in Nat, faults' >= faults
  PROVE  IInv'
<1>1. DiskInv'
  BY DEF IInv, DiskInv
<1>2. GenTypes'
  BY DEF IInv, GenTypes, TypesOf
<1>3. ASSUME NEW h \in Generators PROVE GenInv(h)'
  <2>1. CASE h = g
    BY <2>1
  <2>2. CASE h # g
    <3>1. gen'[h] = gen[h] /\ disk' = disk /\ GenInv(h)
      BY <2>2 DEF IInv
    <3> QED BY <3>1 DEF GenInv, SourceInv, ToolInv, BuildInv, ArchiveInv, RestoredInv
  <2> QED BY <2>1, <2>2
<1>4. ReportInv'
  BY DEF IInv, ReportInv, Published, At
<1>5. ValInv'
  BY DEF IInv, ValInv
<1> QED BY <1>1, <1>2, <1>3, <1>4, <1>5 DEF IInv

LEMMA Refuses ==
  ASSUME IInv, NEW g \in Generators, gen[g].pc # "done", Step(g, [pc |-> "refused"]),
         UNCHANGED <<disk, report, val>>, faults' \in Nat, faults' >= faults
  PROVE  IInv'
<1> DEFINE changes == [pc |-> "refused"]
<1>1. DOMAIN changes = {"pc"} /\ changes["pc"] = "refused"
  OBVIOUS
<1>2. /\ gen' = [h \in Generators |-> gen'[h]]
      /\ \A h \in Generators : h # g => gen'[h] = gen[h]
      /\ DOMAIN gen'[g] = Fields
      /\ \A f \in Fields : gen'[g][f] = IF f \in DOMAIN changes THEN changes[f] ELSE gen[g][f]
  <2>1. GenTypes /\ DOMAIN changes \subseteq Fields
    BY <1>1 DEF IInv, Fields
  <2> QED BY <2>1, StepIs
<1>3. /\ gen'[g].pc = "refused" /\ gen'[g].restored = gen[g].restored
      /\ \A f \in Fields : gen'[g][f] \in FieldType[f]
  BY <1>1, <1>2 DEF Fields, FieldType, IInv, GenTypes, TypesOf, Labels
<1>4. TypesOf(g)'
  BY <1>2, <1>3 DEF TypesOf
<1>5. GenInv(g)'
  <2>1. GenInv(g)
    BY DEF IInv
  <2> QED
    BY <1>3, <2>1 DEF GenInv, SourceInv, ToolInv, BuildInv, ArchiveInv, RestoredInv,
          Resolved, Snapshotted, Tested, StableBuilt, BothBuilt, StableCompressed,
          BothCompressed, Compared, Restoring, SourceChecked, InputChecked, CanonicalChecked,
          Writing
<1> QED BY <1>2, <1>4, <1>5, GeneratorKeeps

(* One lemma for each step that a generator passes.                      *)

USE DEF Resolved, Snapshotted, Tested, StableBuilt, BothBuilt, StableCompressed,
    BothCompressed, Compared, Restoring, SourceChecked, InputChecked, CanonicalChecked,
    Writing

LEMMA Advances ==
  ASSUME IInv, NEW g \in Generators, gen[g].pc # "done", NEW changes,
         DOMAIN changes \subseteq Fields, \A f \in DOMAIN changes : changes[f] \in FieldType[f],
         Step(g, changes), GenInv(g)',
         UNCHANGED <<disk, report, val>>, faults' \in Nat, faults' >= faults
  PROVE  IInv'
<1>1. GenTypes
  BY DEF IInv
<1>2. /\ gen' = [h \in Generators |-> gen'[h]]
      /\ \A h \in Generators : h # g => gen'[h] = gen[h]
      /\ DOMAIN gen'[g] = Fields
      /\ \A f \in Fields : gen'[g][f] = IF f \in DOMAIN changes THEN changes[f] ELSE gen[g][f]
  BY <1>1, StepIs
<1>3. TypesOf(g)'
  BY <1>1, <1>2 DEF GenTypes, TypesOf
<1> QED BY <1>2, <1>3, GeneratorKeeps

\* A check is passed or ends the run.
LEMMA CheckIs ==
  ASSUME NEW g, NEW ok, NEW changes, Check(g, ok, changes)
  PROVE  (ok /\ Step(g, changes)) \/ Step(g, [pc |-> "refused"])
BY DEF Check

LEMMA NumbersAre ==
  ASSUME NEW g, TypesOf(g), DiskInv
  PROVE  /\ gen[g].source \in Nat /\ gen[g].tested \in Nat /\ disk.source \in Nat /\ disk.input \in Nat
         /\ \A t \in Tools : /\ gen[g].tools[t] \in Nat /\ gen[g].bins[t] \in Binary
                             /\ gen[g].bins[t].source \in Nat /\ gen[g].bins[t].version \in Nat
                             /\ gen[g].archives[t] \in Archive /\ gen[g].archives[t].of \in Nat
                             /\ disk[t] \in Nat
         /\ "stable" \in Tools /\ "compat" \in Tools
<1>1. /\ gen[g].source \in Nat /\ gen[g].tested \in Nat /\ gen[g].tools \in [Tools -> Nat]
      /\ gen[g].bins \in [Tools -> Binary] /\ gen[g].archives \in [Tools -> Archive]
  BY TypesAre
<1>2. /\ disk.source \in Nat /\ disk.input \in Nat /\ disk.stable \in Nat /\ disk.compat \in Nat
  BY DEF DiskInv
<1>3. ASSUME NEW t \in Tools PROVE disk[t] \in Nat
  BY <1>2 DEF Tools
<1>4. ASSUME NEW t \in Tools
      PROVE  gen[g].bins[t] \in Binary /\ gen[g].archives[t] \in Archive /\ gen[g].tools[t] \in Nat
  BY <1>1
<1>5. \A b \in Binary : b.source \in Nat /\ b.version \in Nat
  BY DEF Binary
<1>6. \A a \in Archive : a.of \in Nat
  BY DEF Archive
<1>7. ASSUME NEW t \in Tools
      PROVE  /\ gen[g].bins[t].source \in Nat /\ gen[g].bins[t].version \in Nat
             /\ gen[g].archives[t].of \in Nat
  BY <1>4, <1>5, <1>6
<1>8. "stable" \in Tools /\ "compat" \in Tools
  BY DEF Tools
<1> QED BY <1>1, <1>2, <1>3, <1>4, <1>7, <1>8

LEMMA PcOnly ==
  ASSUME GenTypes, NEW g \in Generators, NEW next, Step(g, [pc |-> next])
  PROVE  /\ gen'[g].pc = next
         /\ gen'[g].source = gen[g].source /\ gen'[g].tools = gen[g].tools
         /\ gen'[g].canonical = gen[g].canonical
         /\ gen'[g].tested = gen[g].tested /\ gen'[g].bins = gen[g].bins
         /\ gen'[g].archives = gen[g].archives
         /\ gen'[g].restored = gen[g].restored
<1> DEFINE changes == [pc |-> next]
<1>1. DOMAIN changes = {"pc"} /\ changes["pc"] = next
  OBVIOUS
<1>2. \A f \in Fields : gen'[g][f] = IF f \in DOMAIN changes THEN changes[f] ELSE gen[g][f]
  BY <1>1, StepIs DEF Fields
<1> QED BY <1>1, <1>2 DEF Fields

LEMMA PassesCheck ==
  ASSUME IInv, NEW g \in Generators, gen[g].pc # "done", NEW next \in Labels,
         Step(g, [pc |-> next]), GenInv(g)',
         UNCHANGED <<disk, report, val>>, faults' \in Nat, faults' >= faults
  PROVE  IInv'
<1> DEFINE changes == [pc |-> next]
<1>1. DOMAIN changes = {"pc"} /\ changes["pc"] = next
  OBVIOUS
<1>2. DOMAIN changes \subseteq Fields /\ \A f \in DOMAIN changes : changes[f] \in FieldType[f]
  BY <1>1 DEF Fields, FieldType
<1> HIDE DEF changes
<1>3. Step(g, changes)
  BY DEF changes
<1> QED BY <1>2, <1>3, Advances

LEMMA CheckOutputStep == ASSUME IInv, NEW g \in Generators, CheckOutput(g) PROVE IInv'
<1>1. /\ gen[g].pc = "exists" /\ UNCHANGED <<disk, report, val>>
      /\ faults' \in Nat /\ faults' >= faults /\ GenTypes /\ TypesOf(g) /\ GenInv(g) /\ DiskInv
  BY DEF CheckOutput, At, Reads, IInv, ValInv, GenTypes
<1>2. (TRUE /\ Step(g, [pc |-> "input"])) \/ Step(g, [pc |-> "refused"])
  BY CheckIs DEF CheckOutput
<1>3. CASE TRUE /\ Step(g, [pc |-> "input"])
  <2>1. /\ gen'[g].pc = "input"
        /\ gen'[g].source = gen[g].source /\ gen'[g].tools = gen[g].tools
        /\ gen'[g].canonical = gen[g].canonical
        /\ gen'[g].tested = gen[g].tested /\ gen'[g].bins = gen[g].bins
        /\ gen'[g].archives = gen[g].archives
        /\ gen'[g].restored = gen[g].restored
    BY <1>1, <1>3, PcOnly
  <2>2. GenInv(g)'
    <3>1. (SourceInv(g))' /\ (ToolInv(g, "stable"))' /\ (ToolInv(g, "compat"))'
      BY <1>1, <1>3, <2>1, NumbersAre DEF GenInv, SourceInv, ToolInv
    <3>2. (BuildInv(g, "stable", StableBuilt))' /\ (BuildInv(g, "compat", BothBuilt))'
      BY <1>1, <1>3, <2>1, NumbersAre DEF GenInv, BuildInv
    <3>3. /\ (ArchiveInv(g, "stable", StableCompressed))'
         /\ (ArchiveInv(g, "compat", BothCompressed))'
      BY <1>1, <1>3, <2>1, NumbersAre DEF GenInv, ArchiveInv
    <3>4. (RestoredInv(g))'
      BY <1>1, <1>3, <2>1, NumbersAre DEF GenInv, RestoredInv, Labels
    <3> QED BY <3>1, <3>2, <3>3, <3>4 DEF GenInv
  <2> QED BY <1>1, <1>3, <2>2, PassesCheck DEF Labels
<1>4. CASE Step(g, [pc |-> "refused"])
  BY <1>1, <1>4, Refuses
<1> QED BY <1>2, <1>3, <1>4

LEMMA CheckInputStep == ASSUME IInv, NEW g \in Generators, CheckInput(g) PROVE IInv'
<1>1. /\ gen[g].pc = "input" /\ UNCHANGED <<disk, report, val>>
      /\ faults' \in Nat /\ faults' >= faults /\ GenTypes /\ TypesOf(g) /\ GenInv(g) /\ DiskInv
  BY DEF CheckInput, At, Reads, IInv, ValInv, GenTypes
<1>2. (TRUE /\ Step(g, [pc |-> "canonical"])) \/ Step(g, [pc |-> "refused"])
  BY CheckIs DEF CheckInput
<1>3. CASE TRUE /\ Step(g, [pc |-> "canonical"])
  <2>1. /\ gen'[g].pc = "canonical"
        /\ gen'[g].source = gen[g].source /\ gen'[g].tools = gen[g].tools
        /\ gen'[g].canonical = gen[g].canonical
        /\ gen'[g].tested = gen[g].tested /\ gen'[g].bins = gen[g].bins
        /\ gen'[g].archives = gen[g].archives
        /\ gen'[g].restored = gen[g].restored
    BY <1>1, <1>3, PcOnly
  <2>2. GenInv(g)'
    <3>1. (SourceInv(g))' /\ (ToolInv(g, "stable"))' /\ (ToolInv(g, "compat"))'
      BY <1>1, <1>3, <2>1, NumbersAre DEF GenInv, SourceInv, ToolInv
    <3>2. (BuildInv(g, "stable", StableBuilt))' /\ (BuildInv(g, "compat", BothBuilt))'
      BY <1>1, <1>3, <2>1, NumbersAre DEF GenInv, BuildInv
    <3>3. /\ (ArchiveInv(g, "stable", StableCompressed))'
         /\ (ArchiveInv(g, "compat", BothCompressed))'
      BY <1>1, <1>3, <2>1, NumbersAre DEF GenInv, ArchiveInv
    <3>4. (RestoredInv(g))'
      BY <1>1, <1>3, <2>1, NumbersAre DEF GenInv, RestoredInv, Labels
    <3> QED BY <3>1, <3>2, <3>3, <3>4 DEF GenInv
  <2> QED BY <1>1, <1>3, <2>2, PassesCheck DEF Labels
<1>4. CASE Step(g, [pc |-> "refused"])
  BY <1>1, <1>4, Refuses
<1> QED BY <1>2, <1>3, <1>4

LEMMA SameAsCanonicalStep == ASSUME IInv, NEW g \in Generators, SameAsCanonical(g) PROVE IInv'
<1>1. /\ gen[g].pc = "same" /\ UNCHANGED <<disk, report, val>>
      /\ faults' \in Nat /\ faults' >= faults /\ GenTypes /\ TypesOf(g) /\ GenInv(g) /\ DiskInv
  BY DEF SameAsCanonical, At, Reads, IInv, ValInv, GenTypes
<1>2. (TRUE /\ Step(g, [pc |-> "compress-stable"])) \/ Step(g, [pc |-> "refused"])
  BY CheckIs DEF SameAsCanonical
<1>3. CASE TRUE /\ Step(g, [pc |-> "compress-stable"])
  <2>1. /\ gen'[g].pc = "compress-stable"
        /\ gen'[g].source = gen[g].source /\ gen'[g].tools = gen[g].tools
        /\ gen'[g].canonical = gen[g].canonical
        /\ gen'[g].tested = gen[g].tested /\ gen'[g].bins = gen[g].bins
        /\ gen'[g].archives = gen[g].archives
        /\ gen'[g].restored = gen[g].restored
    BY <1>1, <1>3, PcOnly
  <2>2. GenInv(g)'
    <3>1. (SourceInv(g))' /\ (ToolInv(g, "stable"))' /\ (ToolInv(g, "compat"))'
      BY <1>1, <1>3, <2>1, NumbersAre DEF GenInv, SourceInv, ToolInv
    <3>2. (BuildInv(g, "stable", StableBuilt))' /\ (BuildInv(g, "compat", BothBuilt))'
      BY <1>1, <1>3, <2>1, NumbersAre DEF GenInv, BuildInv
    <3>3. /\ (ArchiveInv(g, "stable", StableCompressed))'
         /\ (ArchiveInv(g, "compat", BothCompressed))'
      BY <1>1, <1>3, <2>1, NumbersAre DEF GenInv, ArchiveInv
    <3>4. (RestoredInv(g))'
      BY <1>1, <1>3, <2>1, NumbersAre DEF GenInv, RestoredInv, Labels
    <3> QED BY <3>1, <3>2, <3>3, <3>4 DEF GenInv
  <2> QED BY <1>1, <1>3, <2>2, PassesCheck DEF Labels
<1>4. CASE Step(g, [pc |-> "refused"])
  BY <1>1, <1>4, Refuses
<1> QED BY <1>2, <1>3, <1>4

LEMMA CompareStep == ASSUME IInv, NEW g \in Generators, Compare(g) PROVE IInv'
<1>1. /\ gen[g].pc = "compare" /\ UNCHANGED <<disk, report, val>>
      /\ faults' \in Nat /\ faults' >= faults /\ GenTypes /\ TypesOf(g) /\ GenInv(g) /\ DiskInv
  BY DEF Compare, At, Reads, IInv, ValInv, GenTypes
<1>2. (ArchiveIdentical(gen[g].archives) /\ Step(g, [pc |-> "decode"])) \/ Step(g, [pc |-> "refused"])
  BY CheckIs DEF Compare
<1>3. CASE ArchiveIdentical(gen[g].archives) /\ Step(g, [pc |-> "decode"])
  <2>1. /\ gen'[g].pc = "decode"
        /\ gen'[g].source = gen[g].source /\ gen'[g].tools = gen[g].tools
        /\ gen'[g].canonical = gen[g].canonical
        /\ gen'[g].tested = gen[g].tested /\ gen'[g].bins = gen[g].bins
        /\ gen'[g].archives = gen[g].archives
        /\ gen'[g].restored = gen[g].restored
    BY <1>1, <1>3, PcOnly
  <2>2. GenInv(g)'
    <3>1. (SourceInv(g))' /\ (ToolInv(g, "stable"))' /\ (ToolInv(g, "compat"))'
      BY <1>1, <1>3, <2>1, NumbersAre DEF GenInv, SourceInv, ToolInv, ArchiveIdentical
    <3>2. (BuildInv(g, "stable", StableBuilt))' /\ (BuildInv(g, "compat", BothBuilt))'
      BY <1>1, <1>3, <2>1, NumbersAre DEF GenInv, BuildInv, ArchiveIdentical
    <3>3. /\ (ArchiveInv(g, "stable", StableCompressed))'
         /\ (ArchiveInv(g, "compat", BothCompressed))'
      BY <1>1, <1>3, <2>1, NumbersAre DEF GenInv, ArchiveInv, ArchiveIdentical
    <3>4. (RestoredInv(g))'
      BY <1>1, <1>3, <2>1, NumbersAre DEF GenInv, RestoredInv, Labels, ArchiveIdentical
    <3> QED BY <3>1, <3>2, <3>3, <3>4 DEF GenInv
  <2> QED BY <1>1, <1>3, <2>2, PassesCheck DEF Labels
<1>4. CASE Step(g, [pc |-> "refused"])
  BY <1>1, <1>4, Refuses
<1> QED BY <1>2, <1>3, <1>4

LEMMA CheckSourceAfterStep == ASSUME IInv, NEW g \in Generators, CheckSourceAfter(g) PROVE IInv'
<1>1. /\ gen[g].pc = "after-source" /\ UNCHANGED <<disk, report, val>>
      /\ faults' \in Nat /\ faults' >= faults /\ GenTypes /\ TypesOf(g) /\ GenInv(g) /\ DiskInv
  BY DEF CheckSourceAfter, At, Reads, IInv, ValInv, GenTypes
<1>2. (SourceUnchanged(g) /\ Step(g, [pc |-> "after-input"])) \/ Step(g, [pc |-> "refused"])
  BY CheckIs DEF CheckSourceAfter
<1>3. CASE SourceUnchanged(g) /\ Step(g, [pc |-> "after-input"])
  <2>1. /\ gen'[g].pc = "after-input"
        /\ gen'[g].source = gen[g].source /\ gen'[g].tools = gen[g].tools
        /\ gen'[g].canonical = gen[g].canonical
        /\ gen'[g].tested = gen[g].tested /\ gen'[g].bins = gen[g].bins
        /\ gen'[g].archives = gen[g].archives
        /\ gen'[g].restored = gen[g].restored
    BY <1>1, <1>3, PcOnly
  <2>2. GenInv(g)'
    <3>1. (SourceInv(g))' /\ (ToolInv(g, "stable"))' /\ (ToolInv(g, "compat"))'
      BY <1>1, <1>3, <2>1, NumbersAre DEF GenInv, SourceInv, ToolInv, SourceUnchanged
    <3>2. (BuildInv(g, "stable", StableBuilt))' /\ (BuildInv(g, "compat", BothBuilt))'
      BY <1>1, <1>3, <2>1, NumbersAre DEF GenInv, BuildInv, SourceUnchanged
    <3>3. /\ (ArchiveInv(g, "stable", StableCompressed))'
         /\ (ArchiveInv(g, "compat", BothCompressed))'
      BY <1>1, <1>3, <2>1, NumbersAre DEF GenInv, ArchiveInv, SourceUnchanged
    <3>4. (RestoredInv(g))'
      BY <1>1, <1>3, <2>1, NumbersAre DEF GenInv, RestoredInv, Labels, SourceUnchanged
    <3> QED BY <3>1, <3>2, <3>3, <3>4 DEF GenInv
  <2> QED BY <1>1, <1>3, <2>2, PassesCheck DEF Labels
<1>4. CASE Step(g, [pc |-> "refused"])
  BY <1>1, <1>4, Refuses
<1> QED BY <1>2, <1>3, <1>4

LEMMA CheckInputAfterStep == ASSUME IInv, NEW g \in Generators, CheckInputAfter(g) PROVE IInv'
<1>1. /\ gen[g].pc = "after-input" /\ UNCHANGED <<disk, report, val>>
      /\ faults' \in Nat /\ faults' >= faults /\ GenTypes /\ TypesOf(g) /\ GenInv(g) /\ DiskInv
  BY DEF CheckInputAfter, At, Reads, IInv, ValInv, GenTypes
<1>2. (disk.input = Alice /\ Step(g, [pc |-> "after-canonical"])) \/ Step(g, [pc |-> "refused"])
  BY CheckIs DEF CheckInputAfter
<1>3. CASE disk.input = Alice /\ Step(g, [pc |-> "after-canonical"])
  <2>1. /\ gen'[g].pc = "after-canonical"
        /\ gen'[g].source = gen[g].source /\ gen'[g].tools = gen[g].tools
        /\ gen'[g].canonical = gen[g].canonical
        /\ gen'[g].tested = gen[g].tested /\ gen'[g].bins = gen[g].bins
        /\ gen'[g].archives = gen[g].archives
        /\ gen'[g].restored = gen[g].restored
    BY <1>1, <1>3, PcOnly
  <2>2. GenInv(g)'
    <3>1. (SourceInv(g))' /\ (ToolInv(g, "stable"))' /\ (ToolInv(g, "compat"))'
      BY <1>1, <1>3, <2>1, NumbersAre DEF GenInv, SourceInv, ToolInv, Alice
    <3>2. (BuildInv(g, "stable", StableBuilt))' /\ (BuildInv(g, "compat", BothBuilt))'
      BY <1>1, <1>3, <2>1, NumbersAre DEF GenInv, BuildInv, Alice
    <3>3. /\ (ArchiveInv(g, "stable", StableCompressed))'
         /\ (ArchiveInv(g, "compat", BothCompressed))'
      BY <1>1, <1>3, <2>1, NumbersAre DEF GenInv, ArchiveInv, Alice
    <3>4. (RestoredInv(g))'
      BY <1>1, <1>3, <2>1, NumbersAre DEF GenInv, RestoredInv, Labels, Alice
    <3> QED BY <3>1, <3>2, <3>3, <3>4 DEF GenInv
  <2> QED BY <1>1, <1>3, <2>2, PassesCheck DEF Labels
<1>4. CASE Step(g, [pc |-> "refused"])
  BY <1>1, <1>4, Refuses
<1> QED BY <1>2, <1>3, <1>4

LEMMA CheckCanonicalAfterStep ==
  ASSUME IInv, NEW g \in Generators, CheckCanonicalAfter(g)
  PROVE  IInv'
<1>1. /\ gen[g].pc = "after-canonical" /\ UNCHANGED <<disk, report, val>>
      /\ faults' \in Nat /\ faults' >= faults /\ GenTypes /\ TypesOf(g) /\ GenInv(g) /\ DiskInv
  BY DEF CheckCanonicalAfter, At, Reads, IInv, ValInv, GenTypes
<1>2. (TRUE /\ Step(g, [pc |-> "after-toolchains"])) \/ Step(g, [pc |-> "refused"])
  BY CheckIs DEF CheckCanonicalAfter
<1>3. CASE TRUE /\ Step(g, [pc |-> "after-toolchains"])
  <2>1. /\ gen'[g].pc = "after-toolchains"
        /\ gen'[g].source = gen[g].source /\ gen'[g].tools = gen[g].tools
        /\ gen'[g].canonical = gen[g].canonical
        /\ gen'[g].tested = gen[g].tested /\ gen'[g].bins = gen[g].bins
        /\ gen'[g].archives = gen[g].archives
        /\ gen'[g].restored = gen[g].restored
    BY <1>1, <1>3, PcOnly
  <2>2. GenInv(g)'
    <3>1. (SourceInv(g))' /\ (ToolInv(g, "stable"))' /\ (ToolInv(g, "compat"))'
      BY <1>1, <1>3, <2>1, NumbersAre DEF GenInv, SourceInv, ToolInv
    <3>2. (BuildInv(g, "stable", StableBuilt))' /\ (BuildInv(g, "compat", BothBuilt))'
      BY <1>1, <1>3, <2>1, NumbersAre DEF GenInv, BuildInv
    <3>3. /\ (ArchiveInv(g, "stable", StableCompressed))'
         /\ (ArchiveInv(g, "compat", BothCompressed))'
      BY <1>1, <1>3, <2>1, NumbersAre DEF GenInv, ArchiveInv
    <3>4. (RestoredInv(g))'
      BY <1>1, <1>3, <2>1, NumbersAre DEF GenInv, RestoredInv, Labels
    <3> QED BY <3>1, <3>2, <3>3, <3>4 DEF GenInv
  <2> QED BY <1>1, <1>3, <2>2, PassesCheck DEF Labels
<1>4. CASE Step(g, [pc |-> "refused"])
  BY <1>1, <1>4, Refuses
<1> QED BY <1>2, <1>3, <1>4

LEMMA CheckToolchainsAfterStep ==
  ASSUME IInv, NEW g \in Generators, CheckToolchainsAfter(g)
  PROVE  IInv'
<1>1. /\ gen[g].pc = "after-toolchains" /\ UNCHANGED <<disk, report, val>>
      /\ faults' \in Nat /\ faults' >= faults /\ GenTypes /\ TypesOf(g) /\ GenInv(g) /\ DiskInv
  BY DEF CheckToolchainsAfter, At, Reads, IInv, ValInv, GenTypes
<1>2. (ToolchainsUnchanged(g) /\ Step(g, [pc |-> "write"])) \/ Step(g, [pc |-> "refused"])
  BY CheckIs DEF CheckToolchainsAfter
<1>3. CASE ToolchainsUnchanged(g) /\ Step(g, [pc |-> "write"])
  <2>1. /\ gen'[g].pc = "write"
        /\ gen'[g].source = gen[g].source /\ gen'[g].tools = gen[g].tools
        /\ gen'[g].canonical = gen[g].canonical
        /\ gen'[g].tested = gen[g].tested /\ gen'[g].bins = gen[g].bins
        /\ gen'[g].archives = gen[g].archives
        /\ gen'[g].restored = gen[g].restored
    BY <1>1, <1>3, PcOnly
  <2>2. GenInv(g)'
    <3>1. (SourceInv(g))' /\ (ToolInv(g, "stable"))' /\ (ToolInv(g, "compat"))'
      BY <1>1, <1>3, <2>1, NumbersAre DEF GenInv, SourceInv, ToolInv, ToolchainsUnchanged
    <3>2. (BuildInv(g, "stable", StableBuilt))' /\ (BuildInv(g, "compat", BothBuilt))'
      BY <1>1, <1>3, <2>1, NumbersAre DEF GenInv, BuildInv, ToolchainsUnchanged
    <3>3. /\ (ArchiveInv(g, "stable", StableCompressed))'
         /\ (ArchiveInv(g, "compat", BothCompressed))'
      BY <1>1, <1>3, <2>1, NumbersAre DEF GenInv, ArchiveInv, ToolchainsUnchanged
    <3>4. (RestoredInv(g))'
      BY <1>1, <1>3, <2>1, NumbersAre DEF GenInv, RestoredInv, Labels, ToolchainsUnchanged
    <3> QED BY <3>1, <3>2, <3>3, <3>4 DEF GenInv
  <2> QED BY <1>1, <1>3, <2>2, PassesCheck DEF Labels
<1>4. CASE Step(g, [pc |-> "refused"])
  BY <1>1, <1>4, Refuses
<1> QED BY <1>2, <1>3, <1>4

LEMMA CheckRestoredStep == ASSUME IInv, NEW g \in Generators, CheckRestored(g) PROVE IInv'
<1>1. /\ gen[g].pc = "decode" /\ Len(gen[g].restored) = 4 /\ UNCHANGED <<disk, report, val>>
      /\ faults' \in Nat /\ faults' >= faults /\ GenTypes /\ TypesOf(g) /\ GenInv(g) /\ DiskInv
  BY DEF CheckRestored, At, Reads, IInv, ValInv, GenTypes, DecodeCells
<1>2. \/ /\ \A r \in ToSet(gen[g].restored) : r.bytes = Alice
         /\ Step(g, [pc |-> "after-source"])
      \/ Step(g, [pc |-> "refused"])
  BY CheckIs DEF CheckRestored
<1>3. CASE /\ \A r \in ToSet(gen[g].restored) : r.bytes = Alice
           /\ Step(g, [pc |-> "after-source"])
  <2>1. /\ gen'[g].pc = "after-source"
        /\ gen'[g].source = gen[g].source /\ gen'[g].tools = gen[g].tools
        /\ gen'[g].canonical = gen[g].canonical
        /\ gen'[g].tested = gen[g].tested /\ gen'[g].bins = gen[g].bins
        /\ gen'[g].archives = gen[g].archives
        /\ gen'[g].restored = gen[g].restored
    BY <1>1, <1>3, PcOnly
  <2>2. \A i \in 1..4 : gen[g].restored[i].bytes = Alice
    BY <1>1, <1>3 DEF ToSet
  <2>3. GenInv(g)'
    <3>1. (SourceInv(g))' /\ (ToolInv(g, "stable"))' /\ (ToolInv(g, "compat"))'
      BY <1>1, <2>1, <2>2, NumbersAre DEF GenInv, SourceInv, ToolInv
    <3>2. (BuildInv(g, "stable", StableBuilt))' /\ (BuildInv(g, "compat", BothBuilt))'
      BY <1>1, <2>1, <2>2, NumbersAre DEF GenInv, BuildInv, SourceInv, ToolInv
    <3>3. /\ (ArchiveInv(g, "stable", StableCompressed))'
         /\ (ArchiveInv(g, "compat", BothCompressed))'
      BY <1>1, <2>1, <2>2, NumbersAre DEF GenInv, ArchiveInv, DiskInv
    <3>4. (RestoredInv(g))'
      BY <1>1, <2>1, <2>2, NumbersAre DEF GenInv, RestoredInv, Labels
    <3> QED BY <3>1, <3>2, <3>3, <3>4 DEF GenInv
  <2> QED BY <1>1, <1>3, <2>3, PassesCheck DEF Labels
<1>4. CASE Step(g, [pc |-> "refused"])
  BY <1>1, <1>4, Refuses
<1> QED BY <1>2, <1>3, <1>4

LEMMA HashCanonicalStep == ASSUME IInv, NEW g \in Generators, HashCanonical(g) PROVE IInv'
<1> DEFINE value == disk.canonical
           changes == [pc |-> "toolchains", canonical |-> value]
<1>1. /\ gen[g].pc = "canonical" /\ UNCHANGED <<disk, report, val>>
      /\ faults' \in Nat /\ faults' >= faults /\ GenTypes /\ TypesOf(g) /\ GenInv(g) /\ DiskInv
  BY DEF HashCanonical, At, Reads, IInv, ValInv, GenTypes
<1>2. Step(g, changes)
  BY DEF HashCanonical
<1>3. /\ DOMAIN changes = {"pc", "canonical"}
      /\ changes["pc"] = "toolchains" /\ changes["canonical"] = value
  OBVIOUS
<1>4. value \in Binary
  BY <1>1 DEF DiskInv
<1>5. DOMAIN changes \subseteq Fields /\ \A f \in DOMAIN changes : changes[f] \in FieldType[f]
  BY <1>3, <1>4 DEF Fields, FieldType, Labels
<1> HIDE DEF changes
<1>6. CASE Step(g, changes)
  <2>1. /\ gen'[g].pc = "toolchains" /\ gen'[g].canonical = value
        /\ gen'[g].source = gen[g].source /\ gen'[g].tools = gen[g].tools
        /\ gen'[g].tested = gen[g].tested
        /\ gen'[g].bins = gen[g].bins /\ gen'[g].archives = gen[g].archives
        /\ gen'[g].restored = gen[g].restored
    <3>1. \A f \in Fields : gen'[g][f] = IF f \in DOMAIN changes THEN changes[f] ELSE gen[g][f]
      BY <1>1, <1>5, <1>6, StepIs
    <3> HIDE DEF value
    <3> QED BY <1>3, <3>1 DEF Fields
  <2>3. GenInv(g)'
    <3>1. (SourceInv(g))' /\ (ToolInv(g, "stable"))' /\ (ToolInv(g, "compat"))'
      BY <1>1, <2>1, NumbersAre DEF GenInv, SourceInv, ToolInv
    <3>2. (BuildInv(g, "stable", StableBuilt))' /\ (BuildInv(g, "compat", BothBuilt))'
      BY <1>1, <2>1, NumbersAre DEF GenInv, BuildInv, SourceInv, ToolInv
    <3>3. /\ (ArchiveInv(g, "stable", StableCompressed))'
         /\ (ArchiveInv(g, "compat", BothCompressed))'
      BY <1>1, <2>1, NumbersAre DEF GenInv, ArchiveInv, DiskInv
    <3>4. (RestoredInv(g))'
      BY <1>1, <2>1, NumbersAre DEF GenInv, RestoredInv, Labels
    <3> QED BY <3>1, <3>2, <3>3, <3>4 DEF GenInv
  <2> QED BY <1>1, <1>5, <1>6, <2>3, Advances
<1> QED BY <1>2, <1>6

LEMMA ResolveToolchainsStep ==
  ASSUME IInv, NEW g \in Generators, ResolveToolchains(g)
  PROVE  IInv'
<1> DEFINE value == [t \in Tools |-> disk[t]]
           changes == [pc |-> "snapshot", tools |-> value]
<1>1. /\ gen[g].pc = "toolchains" /\ UNCHANGED <<disk, report, val>>
      /\ faults' \in Nat /\ faults' >= faults /\ GenTypes /\ TypesOf(g) /\ GenInv(g) /\ DiskInv
  BY DEF ResolveToolchains, At, Reads, IInv, ValInv, GenTypes
<1>2. Step(g, changes)
  BY DEF ResolveToolchains
<1>3. /\ DOMAIN changes = {"pc", "tools"}
      /\ changes["pc"] = "snapshot" /\ changes["tools"] = value
  OBVIOUS
<1>4. value \in [Tools -> Nat]
  BY <1>1, NumbersAre
<1>5. DOMAIN changes \subseteq Fields /\ \A f \in DOMAIN changes : changes[f] \in FieldType[f]
  BY <1>3, <1>4 DEF Fields, FieldType, Labels
<1> HIDE DEF changes
<1>6. CASE Step(g, changes)
  <2>1. /\ gen'[g].pc = "snapshot" /\ gen'[g].tools = value
        /\ gen'[g].source = gen[g].source /\ gen'[g].canonical = gen[g].canonical
        /\ gen'[g].tested = gen[g].tested
        /\ gen'[g].bins = gen[g].bins /\ gen'[g].archives = gen[g].archives
        /\ gen'[g].restored = gen[g].restored
    <3>1. \A f \in Fields : gen'[g][f] = IF f \in DOMAIN changes THEN changes[f] ELSE gen[g][f]
      BY <1>1, <1>5, <1>6, StepIs
    <3> HIDE DEF value
    <3> QED BY <1>3, <3>1 DEF Fields
  <2>3. GenInv(g)'
    <3>1. (SourceInv(g))' /\ (ToolInv(g, "stable"))' /\ (ToolInv(g, "compat"))'
      BY <1>1, <2>1, NumbersAre DEF GenInv, SourceInv, ToolInv
    <3>2. (BuildInv(g, "stable", StableBuilt))' /\ (BuildInv(g, "compat", BothBuilt))'
      BY <1>1, <2>1, NumbersAre DEF GenInv, BuildInv, SourceInv, ToolInv
    <3>3. /\ (ArchiveInv(g, "stable", StableCompressed))'
         /\ (ArchiveInv(g, "compat", BothCompressed))'
      BY <1>1, <2>1, NumbersAre DEF GenInv, ArchiveInv, DiskInv
    <3>4. (RestoredInv(g))'
      BY <1>1, <2>1, NumbersAre DEF GenInv, RestoredInv, Labels
    <3> QED BY <3>1, <3>2, <3>3, <3>4 DEF GenInv
  <2> QED BY <1>1, <1>5, <1>6, <2>3, Advances
<1> QED BY <1>2, <1>6

LEMMA SnapshotSourceStep == ASSUME IInv, NEW g \in Generators, SnapshotSource(g) PROVE IInv'
<1> DEFINE value == disk.source
           changes == [pc |-> "test", source |-> value]
<1>1. /\ gen[g].pc = "snapshot" /\ UNCHANGED <<disk, report, val>>
      /\ faults' \in Nat /\ faults' >= faults /\ GenTypes /\ TypesOf(g) /\ GenInv(g) /\ DiskInv
  BY DEF SnapshotSource, At, Reads, IInv, ValInv, GenTypes
<1>2. Step(g, changes)
  BY DEF SnapshotSource
<1>3. /\ DOMAIN changes = {"pc", "source"}
      /\ changes["pc"] = "test" /\ changes["source"] = value
  OBVIOUS
<1>4. value \in Nat
  BY <1>1 DEF DiskInv
<1>5. DOMAIN changes \subseteq Fields /\ \A f \in DOMAIN changes : changes[f] \in FieldType[f]
  BY <1>3, <1>4 DEF Fields, FieldType, Labels
<1> HIDE DEF changes
<1>6. CASE Step(g, changes)
  <2>1. /\ gen'[g].pc = "test" /\ gen'[g].source = value
        /\ gen'[g].tools = gen[g].tools /\ gen'[g].canonical = gen[g].canonical
        /\ gen'[g].tested = gen[g].tested
        /\ gen'[g].bins = gen[g].bins /\ gen'[g].archives = gen[g].archives
        /\ gen'[g].restored = gen[g].restored
    <3>1. \A f \in Fields : gen'[g][f] = IF f \in DOMAIN changes THEN changes[f] ELSE gen[g][f]
      BY <1>1, <1>5, <1>6, StepIs
    <3> HIDE DEF value
    <3> QED BY <1>3, <3>1 DEF Fields
  <2>3. GenInv(g)'
    <3>1. (SourceInv(g))' /\ (ToolInv(g, "stable"))' /\ (ToolInv(g, "compat"))'
      BY <1>1, <2>1, NumbersAre DEF GenInv, SourceInv, ToolInv, DiskInv
    <3>2. (BuildInv(g, "stable", StableBuilt))' /\ (BuildInv(g, "compat", BothBuilt))'
      BY <1>1, <2>1, NumbersAre DEF GenInv, BuildInv, SourceInv, ToolInv, DiskInv
    <3>3. /\ (ArchiveInv(g, "stable", StableCompressed))'
         /\ (ArchiveInv(g, "compat", BothCompressed))'
      BY <1>1, <2>1, NumbersAre DEF GenInv, ArchiveInv, DiskInv, DiskInv
    <3>4. (RestoredInv(g))'
      BY <1>1, <2>1, NumbersAre DEF GenInv, RestoredInv, Labels, DiskInv
    <3> QED BY <3>1, <3>2, <3>3, <3>4 DEF GenInv
  <2> QED BY <1>1, <1>5, <1>6, <2>3, Advances
<1> QED BY <1>2, <1>6

LEMMA RunTestsStep == ASSUME IInv, NEW g \in Generators, RunTests(g) PROVE IInv'
<1> DEFINE value == disk.source
           changes == [pc |-> "build-stable", tested |-> value]
<1>1. /\ gen[g].pc = "test" /\ UNCHANGED <<disk, report, val>>
      /\ faults' \in Nat /\ faults' >= faults /\ GenTypes /\ TypesOf(g) /\ GenInv(g) /\ DiskInv
  BY DEF RunTests, At, Runs, Cost, IInv, ValInv, GenTypes
<1>2. Step(g, changes) \/ Step(g, [pc |-> "refused"])
  BY CheckIs DEF RunTests
<1>3. /\ DOMAIN changes = {"pc", "tested"}
      /\ changes["pc"] = "build-stable" /\ changes["tested"] = value
  OBVIOUS
<1>4. value \in Nat
  BY <1>1 DEF DiskInv
<1>5. DOMAIN changes \subseteq Fields /\ \A f \in DOMAIN changes : changes[f] \in FieldType[f]
  BY <1>3, <1>4 DEF Fields, FieldType, Labels
<1> HIDE DEF changes
<1>6. CASE Step(g, changes)
  <2>1. /\ gen'[g].pc = "build-stable" /\ gen'[g].tested = value
        /\ gen'[g].source = gen[g].source /\ gen'[g].tools = gen[g].tools
        /\ gen'[g].canonical = gen[g].canonical
        /\ gen'[g].bins = gen[g].bins /\ gen'[g].archives = gen[g].archives
        /\ gen'[g].restored = gen[g].restored
    <3>1. \A f \in Fields : gen'[g][f] = IF f \in DOMAIN changes THEN changes[f] ELSE gen[g][f]
      BY <1>1, <1>5, <1>6, StepIs
    <3> HIDE DEF value
    <3> QED BY <1>3, <3>1 DEF Fields
  <2>3. GenInv(g)'
    <3>1. (SourceInv(g))' /\ (ToolInv(g, "stable"))' /\ (ToolInv(g, "compat"))'
      BY <1>1, <2>1, NumbersAre DEF GenInv, SourceInv, ToolInv
    <3>2. (BuildInv(g, "stable", StableBuilt))' /\ (BuildInv(g, "compat", BothBuilt))'
      BY <1>1, <2>1, NumbersAre DEF GenInv, BuildInv, SourceInv, ToolInv
    <3>3. /\ (ArchiveInv(g, "stable", StableCompressed))'
         /\ (ArchiveInv(g, "compat", BothCompressed))'
      BY <1>1, <2>1, NumbersAre DEF GenInv, ArchiveInv, DiskInv
    <3>4. (RestoredInv(g))'
      BY <1>1, <2>1, NumbersAre DEF GenInv, RestoredInv, Labels
    <3> QED BY <3>1, <3>2, <3>3, <3>4 DEF GenInv
  <2> QED BY <1>1, <1>5, <1>6, <2>3, Advances
<1>7. CASE Step(g, [pc |-> "refused"])
  BY <1>1, <1>7, Refuses
<1> QED BY <1>2, <1>6, <1>7

LEMMA BuildWithStableStep ==
  ASSUME IInv, NEW g \in Generators, BuildWith(g, "build-stable", "stable", "build-compat")
  PROVE  IInv'
<1> DEFINE value == [gen[g].bins EXCEPT !["stable"] = Build("stable")]
           changes == [pc |-> "build-compat", bins |-> value]
<1>1. /\ gen[g].pc = "build-stable" /\ UNCHANGED <<disk, report, val>>
      /\ faults' \in Nat /\ faults' >= faults /\ GenTypes /\ TypesOf(g) /\ GenInv(g) /\ DiskInv
  BY DEF BuildWith, At, Runs, Cost, IInv, ValInv, GenTypes
<1>2. Step(g, changes) \/ Step(g, [pc |-> "refused"])
  BY CheckIs DEF BuildWith
<1>3. /\ DOMAIN changes = {"pc", "bins"}
      /\ changes["pc"] = "build-compat" /\ changes["bins"] = value
  OBVIOUS
<1>4. value \in [Tools -> Binary]
  <2>1. gen[g].bins \in [Tools -> Binary]
    BY <1>1, TypesAre
  <2>2. Build("stable") \in Binary
    BY <1>1, NumbersAre DEF Build, Binary, Tools
  <2> QED BY <2>1, <2>2
<1>5. DOMAIN changes \subseteq Fields /\ \A f \in DOMAIN changes : changes[f] \in FieldType[f]
  BY <1>3, <1>4 DEF Fields, FieldType, Labels
<1> HIDE DEF changes
<1>6. CASE Step(g, changes)
  <2>1. /\ gen'[g].pc = "build-compat" /\ gen'[g].bins = value
        /\ gen'[g].source = gen[g].source /\ gen'[g].tools = gen[g].tools
        /\ gen'[g].canonical = gen[g].canonical
        /\ gen'[g].tested = gen[g].tested /\ gen'[g].archives = gen[g].archives
        /\ gen'[g].restored = gen[g].restored
    <3>1. \A f \in Fields : gen'[g][f] = IF f \in DOMAIN changes THEN changes[f] ELSE gen[g][f]
      BY <1>1, <1>5, <1>6, StepIs
    <3> HIDE DEF value
    <3> QED BY <1>3, <3>1 DEF Fields
  <2>2. /\ value["stable"] = Build("stable") /\ value["compat"] = gen[g].bins["compat"]
        /\ Build("stable").by = "stable" /\ Build("stable").source = disk.source
        /\ Build("stable").version = disk["stable"]
    BY <1>1, TypesAre DEF Tools, Build
  <2> HIDE DEF value
  <2>3. GenInv(g)'
    <3>1. (SourceInv(g))' /\ (ToolInv(g, "stable"))' /\ (ToolInv(g, "compat"))'
      BY <1>1, <2>1, <2>2, NumbersAre DEF GenInv, SourceInv, ToolInv
    <3>2. (BuildInv(g, "stable", StableBuilt))' /\ (BuildInv(g, "compat", BothBuilt))'
      BY <1>1, <2>1, <2>2, NumbersAre DEF GenInv, BuildInv, SourceInv, ToolInv
    <3>3. /\ (ArchiveInv(g, "stable", StableCompressed))'
         /\ (ArchiveInv(g, "compat", BothCompressed))'
      BY <1>1, <2>1, <2>2, NumbersAre DEF GenInv, ArchiveInv, DiskInv
    <3>4. (RestoredInv(g))'
      BY <1>1, <2>1, <2>2, NumbersAre DEF GenInv, RestoredInv, Labels
    <3> QED BY <3>1, <3>2, <3>3, <3>4 DEF GenInv
  <2> QED BY <1>1, <1>5, <1>6, <2>3, Advances
<1>7. CASE Step(g, [pc |-> "refused"])
  BY <1>1, <1>7, Refuses
<1> QED BY <1>2, <1>6, <1>7

LEMMA BuildWithCompatStep ==
  ASSUME IInv, NEW g \in Generators, BuildWith(g, "build-compat", "compat", "same")
  PROVE  IInv'
<1> DEFINE value == [gen[g].bins EXCEPT !["compat"] = Build("compat")]
           changes == [pc |-> "same", bins |-> value]
<1>1. /\ gen[g].pc = "build-compat" /\ UNCHANGED <<disk, report, val>>
      /\ faults' \in Nat /\ faults' >= faults /\ GenTypes /\ TypesOf(g) /\ GenInv(g) /\ DiskInv
  BY DEF BuildWith, At, Runs, Cost, IInv, ValInv, GenTypes
<1>2. Step(g, changes) \/ Step(g, [pc |-> "refused"])
  BY CheckIs DEF BuildWith
<1>3. /\ DOMAIN changes = {"pc", "bins"}
      /\ changes["pc"] = "same" /\ changes["bins"] = value
  OBVIOUS
<1>4. value \in [Tools -> Binary]
  <2>1. gen[g].bins \in [Tools -> Binary]
    BY <1>1, TypesAre
  <2>2. Build("compat") \in Binary
    BY <1>1, NumbersAre DEF Build, Binary, Tools
  <2> QED BY <2>1, <2>2
<1>5. DOMAIN changes \subseteq Fields /\ \A f \in DOMAIN changes : changes[f] \in FieldType[f]
  BY <1>3, <1>4 DEF Fields, FieldType, Labels
<1> HIDE DEF changes
<1>6. CASE Step(g, changes)
  <2>1. /\ gen'[g].pc = "same" /\ gen'[g].bins = value
        /\ gen'[g].source = gen[g].source /\ gen'[g].tools = gen[g].tools
        /\ gen'[g].canonical = gen[g].canonical
        /\ gen'[g].tested = gen[g].tested /\ gen'[g].archives = gen[g].archives
        /\ gen'[g].restored = gen[g].restored
    <3>1. \A f \in Fields : gen'[g][f] = IF f \in DOMAIN changes THEN changes[f] ELSE gen[g][f]
      BY <1>1, <1>5, <1>6, StepIs
    <3> HIDE DEF value
    <3> QED BY <1>3, <3>1 DEF Fields
  <2>2. /\ value["compat"] = Build("compat") /\ value["stable"] = gen[g].bins["stable"]
        /\ Build("compat").by = "compat" /\ Build("compat").source = disk.source
        /\ Build("compat").version = disk["compat"]
    BY <1>1, TypesAre DEF Tools, Build
  <2> HIDE DEF value
  <2>3. GenInv(g)'
    <3>1. (SourceInv(g))' /\ (ToolInv(g, "stable"))' /\ (ToolInv(g, "compat"))'
      BY <1>1, <2>1, <2>2, NumbersAre DEF GenInv, SourceInv, ToolInv
    <3>2. (BuildInv(g, "stable", StableBuilt))' /\ (BuildInv(g, "compat", BothBuilt))'
      BY <1>1, <2>1, <2>2, NumbersAre DEF GenInv, BuildInv, SourceInv, ToolInv
    <3>3. /\ (ArchiveInv(g, "stable", StableCompressed))'
         /\ (ArchiveInv(g, "compat", BothCompressed))'
      BY <1>1, <2>1, <2>2, NumbersAre DEF GenInv, ArchiveInv, DiskInv
    <3>4. (RestoredInv(g))'
      BY <1>1, <2>1, <2>2, NumbersAre DEF GenInv, RestoredInv, Labels
    <3> QED BY <3>1, <3>2, <3>3, <3>4 DEF GenInv
  <2> QED BY <1>1, <1>5, <1>6, <2>3, Advances
<1>7. CASE Step(g, [pc |-> "refused"])
  BY <1>1, <1>7, Refuses
<1> QED BY <1>2, <1>6, <1>7

\* The archive of one compiler is of the input as it is then.
LEMMA CompressKeeps ==
  ASSUME IInv, NEW g \in Generators, NEW pc, NEW t \in Tools, NEW next,
         CompressWith(g, pc, t, next),
         \/ pc = "compress-stable" /\ t = "stable" /\ next = "compress-compat"
         \/ pc = "compress-compat" /\ t = "compat" /\ next = "compare"
  PROVE  IInv'
<1>1. /\ gen[g].pc = pc /\ UNCHANGED <<disk, report, val>>
      /\ faults' \in Nat /\ faults' >= faults /\ GenTypes /\ TypesOf(g) /\ GenInv(g) /\ DiskInv
  BY DEF CompressWith, At, Runs, Cost, IInv, ValInv, GenTypes
<1>2. PICK odd \in BOOLEAN :
        Step(g, [pc |-> next, archives |->
                   [gen[g].archives EXCEPT ![t] = [of |-> disk.input, odd |-> odd]]])
  BY DEF CompressWith
<1> DEFINE value == [gen[g].archives EXCEPT ![t] = [of |-> disk.input, odd |-> odd]]
           changes == [pc |-> next, archives |-> value]
<1>3. /\ DOMAIN changes = {"pc", "archives"}
      /\ changes["pc"] = next /\ changes["archives"] = value
  OBVIOUS
<1>4. /\ value \in [Tools -> Archive] /\ value[t].of = disk.input
      /\ \A u \in Tools : u # t => value[u] = gen[g].archives[u]
  <2>1. gen[g].archives \in [Tools -> Archive] /\ disk.input \in Nat
    BY <1>1, TypesAre, NumbersAre
  <2>2. [of |-> disk.input, odd |-> odd] \in Archive
    BY <2>1 DEF Archive
  <2> QED BY <2>1, <2>2
<1> HIDE DEF value
<1>5. DOMAIN changes \subseteq Fields /\ \A f \in DOMAIN changes : changes[f] \in FieldType[f]
  BY <1>3, <1>4 DEF Fields, FieldType, Labels
<1>6. Step(g, changes)
  BY <1>2 DEF value
<1> HIDE DEF changes
<1>7. /\ gen'[g].pc = next /\ gen'[g].archives = value
      /\ gen'[g].source = gen[g].source /\ gen'[g].tools = gen[g].tools
      /\ gen'[g].canonical = gen[g].canonical
      /\ gen'[g].tested = gen[g].tested /\ gen'[g].bins = gen[g].bins
      /\ gen'[g].restored = gen[g].restored
  <2>1. \A f \in Fields : gen'[g][f] = IF f \in DOMAIN changes THEN changes[f] ELSE gen[g][f]
    BY <1>1, <1>5, <1>6, StepIs
  <2> QED BY <1>3, <2>1 DEF Fields
<1>8. GenInv(g)'
  <2>1. (SourceInv(g))' /\ (ToolInv(g, "stable"))' /\ (ToolInv(g, "compat"))'
    BY <1>1, <1>4, <1>7, NumbersAre DEF GenInv, SourceInv, ToolInv
  <2>2. (BuildInv(g, "stable", StableBuilt))' /\ (BuildInv(g, "compat", BothBuilt))'
    BY <1>1, <1>4, <1>7, NumbersAre DEF GenInv, BuildInv, SourceInv, ToolInv
  <2>3. /\ (ArchiveInv(g, "stable", StableCompressed))'
       /\ (ArchiveInv(g, "compat", BothCompressed))'
    BY <1>1, <1>4, <1>7, NumbersAre DEF GenInv, ArchiveInv, DiskInv
  <2>4. (RestoredInv(g))'
    BY <1>1, <1>4, <1>7, NumbersAre DEF GenInv, RestoredInv, Labels
  <2> QED BY <2>1, <2>2, <2>3, <2>4 DEF GenInv
<1> QED BY <1>1, <1>5, <1>6, <1>8, Advances

\* The cell just decoded is the next of the four.
LEMMA DecodeStep == ASSUME IInv, NEW g \in Generators, Decode(g) PROVE IInv'
<1>1. /\ gen[g].pc = "decode" /\ UNCHANGED <<disk, report, val>> /\ Len(gen[g].restored) < 4
      /\ faults' \in Nat /\ faults' >= faults /\ GenTypes /\ TypesOf(g) /\ GenInv(g) /\ DiskInv
  BY SMTT(40) DEF Decode, At, Runs, Cost, IInv, ValInv, GenTypes, DecodeCells
<1> DEFINE k == Len(gen[g].restored) + 1
           cell == DecodeCells[k]
<1>2. PICK bytes \in {0, gen[g].archives[cell.of].of} :
        Step(g, [restored |-> Append(gen[g].restored, [cell |-> cell, bytes |-> bytes])])
  BY DEF Decode
<1> DEFINE row == [cell |-> cell, bytes |-> bytes]
           value == Append(gen[g].restored, row)
           changes == [restored |-> value]
<1>3. DOMAIN changes = {"restored"} /\ changes["restored"] = value
  OBVIOUS
<1>4. gen[g].restored \in Seq(Decoded) /\ k \in 1..4
  BY <1>1, TypesAre
<1>5. row \in Decoded
  <2>1. cell \in [by : Tools, of : Tools]
    <3>1. \/ cell = Cell("stable", "stable") \/ cell = Cell("stable", "compat")
          \/ cell = Cell("compat", "compat") \/ cell = Cell("compat", "stable")
      BY <1>4 DEF DecodeCells
    <3> HIDE DEF cell
    <3> QED BY <3>1 DEF Cell, Tools
  <2> HIDE DEF cell
  <2>2. gen[g].archives[cell.of].of \in Nat
    BY <1>1, <2>1, NumbersAre
  <2>3. bytes \in Nat
    BY <2>2
  <2> QED BY <2>1, <2>3 DEF Decoded
<1>6. /\ value \in Seq(Decoded) /\ Len(value) = k /\ value[k] = row
      /\ \A i \in 1..Len(gen[g].restored) : value[i] = gen[g].restored[i]
  <2> HIDE DEF row
  <2> QED BY <1>4, <1>5
<1>7. row.cell = DecodeCells[k]
  OBVIOUS
<1> HIDE DEF row, value, k
<1>8. DOMAIN changes \subseteq Fields /\ \A f \in DOMAIN changes : changes[f] \in FieldType[f]
  BY <1>3, <1>6 DEF Fields, FieldType
<1>9. Step(g, changes)
  BY <1>2 DEF value, row, k
<1> HIDE DEF changes
<1>10. /\ gen'[g].pc = gen[g].pc /\ gen'[g].restored = value
       /\ gen'[g].source = gen[g].source /\ gen'[g].tools = gen[g].tools
       /\ gen'[g].canonical = gen[g].canonical
       /\ gen'[g].tested = gen[g].tested /\ gen'[g].bins = gen[g].bins
       /\ gen'[g].archives = gen[g].archives
  <2>1. \A f \in Fields : gen'[g][f] = IF f \in DOMAIN changes THEN changes[f] ELSE gen[g][f]
    BY <1>1, <1>8, <1>9, StepIs
  <2> QED BY <1>3, <2>1 DEF Fields
<1>11. GenInv(g)'
  <2>1. RestoredInv(g)'
    <3>1. k = Len(gen[g].restored) + 1 /\ k \in 1..4
      BY <1>4 DEF k
    <3>2. ASSUME NEW i \in 1..k PROVE value[i].cell = DecodeCells[i]
      <4>1. CASE i = k
        BY <1>6, <1>7, <4>1
      <4>2. CASE i # k
        <5>1. i \in 1..Len(gen[g].restored)
          BY <3>1, <4>2
        <5> QED BY <1>1, <1>6, <5>1 DEF GenInv, RestoredInv
      <4> QED BY <4>1, <4>2
    <3> QED BY <1>1, <1>6, <1>10, <3>1, <3>2 DEF GenInv, RestoredInv, Labels
  <2>2. (SourceInv(g))' /\ (ToolInv(g, "stable"))' /\ (ToolInv(g, "compat"))'
    BY <1>1, <1>10 DEF GenInv, SourceInv, ToolInv
  <2>3. (BuildInv(g, "stable", StableBuilt))' /\ (BuildInv(g, "compat", BothBuilt))'
    BY <1>1, <1>10 DEF GenInv, BuildInv
  <2>4. /\ (ArchiveInv(g, "stable", StableCompressed))'
        /\ (ArchiveInv(g, "compat", BothCompressed))'
    BY <1>1, <1>10 DEF GenInv, ArchiveInv
  <2> QED BY <2>1, <2>2, <2>3, <2>4 DEF GenInv
<1> QED BY <1>1, <1>8, <1>9, <1>11, Advances

LEMMA KillStep == ASSUME IInv, NEW g \in Generators, Kill(g) PROVE IInv'
<1>1. /\ gen[g].pc # "done" /\ Step(g, [pc |-> "refused"]) /\ UNCHANGED <<disk, report, val>>
      /\ faults' \in Nat /\ faults' >= faults
  BY DEF Kill, Cost, Runs, IInv, ValInv
<1> QED BY <1>1, Refuses

\* What is written is what the generator holds, and passes its own validation.
LEMMA WriteStep == ASSUME IInv, NEW g \in Generators, Write(g) PROVE IInv'
<1>1. /\ gen[g].pc = "write" /\ UNCHANGED <<disk, val, faults>>
      /\ faults \in Nat /\ GenTypes /\ TypesOf(g) /\ GenInv(g) /\ DiskInv
  BY DEF Write, At, IInv, ValInv, GenTypes
<1>2. CASE ~Valid(Document(g))
  <2>1. Step(g, [pc |-> "refused"]) /\ report' = report
    BY <1>2 DEF Write, Check
  <2> QED BY <1>1, <2>1, Refuses
<1>3. CASE Valid(Document(g))
  <2>1. Step(g, [pc |-> "done"]) /\ report' = Document(g)
    BY <1>3 DEF Write, Check
  <2>2. /\ gen'[g].pc = "done"
        /\ gen'[g].source = gen[g].source /\ gen'[g].tools = gen[g].tools
        /\ gen'[g].canonical = gen[g].canonical
        /\ gen'[g].tested = gen[g].tested /\ gen'[g].bins = gen[g].bins
        /\ gen'[g].archives = gen[g].archives
        /\ gen'[g].restored = gen[g].restored
    BY <1>1, <2>1, PcOnly
  <2>3. GenInv(g)'
    <3>1. (SourceInv(g))' /\ (ToolInv(g, "stable"))' /\ (ToolInv(g, "compat"))'
      BY <1>1, <2>2, NumbersAre DEF GenInv, SourceInv, ToolInv
    <3>2. (BuildInv(g, "stable", StableBuilt))' /\ (BuildInv(g, "compat", BothBuilt))'
      BY <1>1, <2>2, NumbersAre DEF GenInv, BuildInv, SourceInv, ToolInv
    <3>3. /\ (ArchiveInv(g, "stable", StableCompressed))'
         /\ (ArchiveInv(g, "compat", BothCompressed))'
      BY <1>1, <2>2, NumbersAre DEF GenInv, ArchiveInv, DiskInv
    <3>4. (RestoredInv(g))'
      BY <1>1, <2>2, NumbersAre DEF GenInv, RestoredInv, Labels
    <3> QED BY <3>1, <3>2, <3>3, <3>4 DEF GenInv
  <2>4. Document(g) \in Docs
    <3>1. ArchiveIdentical(gen[g].archives) \in BOOLEAN
      BY DEF ArchiveIdentical
    <3> QED BY <1>1, <3>1, TypesAre DEF Document, Docs, Alice
  <2> DEFINE changes == [pc |-> "done"]
  <2>5. DOMAIN changes = {"pc"} /\ changes["pc"] = "done" /\ Step(g, changes)
    BY <2>1
  <2> HIDE DEF changes
  <2>6. /\ gen' = [h \in Generators |-> gen'[h]]
        /\ \A h \in Generators : h # g => gen'[h] = gen[h]
        /\ DOMAIN gen'[g] = Fields
        /\ \A f \in Fields : gen'[g][f] = IF f \in DOMAIN changes THEN changes[f] ELSE gen[g][f]
    <3>1. DOMAIN changes \subseteq Fields
      BY <2>5 DEF Fields
    <3> QED BY <1>1, <2>5, <3>1, StepIs
  <2>7. TypesOf(g)'
    BY <1>1, <2>5, <2>6 DEF TypesOf, FieldType, Fields, Labels
  <2>8. GenTypes'
    BY <1>1, <2>6, <2>7 DEF GenTypes, TypesOf
  <2>9. ASSUME NEW h \in Generators PROVE GenInv(h)'
    <3>1. CASE h = g
      BY <2>3, <3>1
    <3>2. CASE h # g
      <4>1. gen'[h] = gen[h] /\ disk' = disk /\ GenInv(h)
        BY <1>1, <2>6, <3>2 DEF IInv
      <4> QED BY <4>1 DEF GenInv, SourceInv, ToolInv, BuildInv, ArchiveInv, RestoredInv
    <3> QED BY <3>1, <3>2
  <2>10. ReportInv'
    BY <2>1, <2>2, <2>4 DEF ReportInv, Published, At
  <2>11. DiskInv' /\ ValInv'
    BY <1>1 DEF IInv, DiskInv, ValInv
  <2> QED BY <2>8, <2>9, <2>10, <2>11 DEF IInv
<1> QED BY <1>2, <1>3

LEMMA GenerateStep == ASSUME IInv, NEW g \in Generators, Generate(g) PROVE IInv'
<1>1. CASE \/ CheckOutput(g) \/ CheckInput(g) \/ HashCanonical(g) \/ ResolveToolchains(g)
           \/ SnapshotSource(g) \/ RunTests(g)
  BY <1>1, CheckOutputStep, CheckInputStep, HashCanonicalStep, ResolveToolchainsStep,
     SnapshotSourceStep, RunTestsStep
<1>2. CASE \/ BuildWith(g, "build-stable", "stable", "build-compat")
           \/ BuildWith(g, "build-compat", "compat", "same")
           \/ SameAsCanonical(g)
  BY <1>2, BuildWithStableStep, BuildWithCompatStep, SameAsCanonicalStep
<1>3. CASE \/ CompressWith(g, "compress-stable", "stable", "compress-compat")
           \/ CompressWith(g, "compress-compat", "compat", "compare")
  BY <1>3, CompressKeeps DEF Tools
<1>4. CASE Compare(g) \/ Decode(g) \/ CheckRestored(g)
  BY <1>4, CompareStep, DecodeStep, CheckRestoredStep
<1>5. CASE CheckSourceAfter(g) \/ CheckInputAfter(g) \/ CheckCanonicalAfter(g)
  BY <1>5, CheckSourceAfterStep, CheckInputAfterStep, CheckCanonicalAfterStep
<1>6. CASE CheckToolchainsAfter(g) \/ Write(g) \/ Kill(g)
  BY <1>6, CheckToolchainsAfterStep, WriteStep, KillStep
<1> QED BY <1>1, <1>2, <1>3, <1>4, <1>5, <1>6 DEF Generate

--------------------------------------------------------------------------------
(* The validator reads, everybody else replaces and edits.                 *)

LEMMA ValidatorStep ==
  ASSUME IInv, ReadReport \/ VerifyInput \/ VerifyToolchains \/ VerifyCanonical
  PROVE  IInv'
<1>1. UNCHANGED <<disk, gen, report, faults>>
  BY DEF ReadReport, VerifyInput, VerifyToolchains, VerifyCanonical, Accept
<1>2. DiskInv' /\ GenTypes' /\ ReportInv'
  BY <1>1 DEF IInv, DiskInv, GenTypes, TypesOf, ReportInv, Published, At
<1>3. ASSUME NEW g \in Generators PROVE GenInv(g)'
  BY <1>1 DEF IInv, GenInv, SourceInv, ToolInv, BuildInv, ArchiveInv, RestoredInv
<1>4. ValInv'
  <2>1. CASE ReadReport
    BY <1>1, <2>1 DEF ReadReport, Valid, IInv, ValInv
  <2>2. CASE VerifyInput
    BY <1>1, <2>2 DEF VerifyInput, Accept, IInv, ValInv
  <2>3. CASE VerifyToolchains
    BY <1>1, <2>3 DEF VerifyToolchains, ToolsMatch, Accept, IInv, ValInv
  <2>4. CASE VerifyCanonical
    BY <1>1, <2>4 DEF VerifyCanonical, Accept, IInv, ValInv
  <2> QED BY <2>1, <2>2, <2>3, <2>4
<1> QED BY <1>2, <1>3, <1>4 DEF IInv

\* A file's number only grows, and what was read of it is not larger.
LEMMA DiskStep ==
  ASSUME IInv, DiskInv', faults' = faults + 1, UNCHANGED <<gen, report, val>>,
         disk.source <= disk'.source, disk.input <= disk'.input,
         \A t \in Tools : disk[t] <= disk'[t]
  PROVE  IInv'
<1>1. GenTypes' /\ ReportInv'
  BY DEF IInv, GenTypes, TypesOf, ReportInv, Published, At
<1>2. ASSUME NEW g \in Generators PROVE GenInv(g)'
  <2>1. GenInv(g) /\ TypesOf(g) /\ DiskInv
    BY DEF IInv, GenTypes
  <2>2. /\ disk'.source \in Nat /\ disk'.input \in Nat
        /\ disk'["stable"] \in Nat /\ disk'["compat"] \in Nat
    BY DEF DiskInv
  <2>3. (SourceInv(g))' /\ (ToolInv(g, "stable"))' /\ (ToolInv(g, "compat"))'
    BY <2>1, <2>2, NumbersAre DEF GenInv, SourceInv, ToolInv
  <2>4. (BuildInv(g, "stable", StableBuilt))'
    BY <2>1, <2>2, NumbersAre DEF GenInv, BuildInv
  <2>5. (BuildInv(g, "compat", BothBuilt))'
    BY <2>1, <2>2, NumbersAre DEF GenInv, BuildInv
  <2>6. (ArchiveInv(g, "stable", StableCompressed))'
    BY <2>1, <2>2, NumbersAre DEF GenInv, ArchiveInv, Alice
  <2>7. (ArchiveInv(g, "compat", BothCompressed))'
    BY <2>1, <2>2, NumbersAre DEF GenInv, ArchiveInv, Alice
  <2>8. (RestoredInv(g))'
    BY <2>1 DEF GenInv, RestoredInv
  <2> QED BY <2>3, <2>4, <2>5, <2>6, <2>7, <2>8 DEF GenInv
<1>3. ValInv'
  BY DEF IInv, ValInv
<1> QED BY <1>1, <1>2, <1>3 DEF IInv

LEMMA ReplaceStep ==
  ASSUME IInv, NEW f \in {"source", "input"} \cup Tools, Replace(f) PROVE IInv'
<1>1. disk' = [disk EXCEPT ![f] = @ + 1] /\ UNCHANGED <<gen, report, val>> /\ faults' = faults + 1
  BY DEF Replace, Cost
<1>2. disk \in [source : Nat, input : Nat, stable : Nat, compat : Nat, canonical : Binary]
  BY DEF IInv, DiskInv
<1>3. disk' \in [source : Nat, input : Nat, stable : Nat, compat : Nat, canonical : Binary]
  BY <1>1, <1>2 DEF Tools
<1>4. /\ disk.source <= disk'.source /\ disk.input <= disk'.input
      /\ disk.stable <= disk'.stable /\ disk.compat <= disk'.compat
  BY <1>1, <1>2 DEF Tools
<1>5. DiskInv'
  BY <1>2, <1>3, <1>4 DEF IInv, DiskInv, Alice
<1> QED BY <1>1, <1>4, <1>5, DiskStep DEF Tools

LEMMA RebuildStep == ASSUME IInv, Rebuild PROVE IInv'
<1>1. /\ disk' = [disk EXCEPT !.canonical = Build("stable")]
      /\ UNCHANGED <<gen, report, val>> /\ faults' = faults + 1
  BY DEF Rebuild, Cost
<1>2. disk \in [source : Nat, input : Nat, stable : Nat, compat : Nat, canonical : Binary]
  BY DEF IInv, DiskInv
<1>3. Build("stable") \in Binary
  BY <1>2 DEF Build, Binary, Tools
<1>4. /\ disk'.source = disk.source /\ disk'.input = disk.input
      /\ disk'.stable = disk.stable /\ disk'.compat = disk.compat
  BY <1>1, <1>2
<1>5. DiskInv'
  BY <1>1, <1>2, <1>3 DEF IInv, DiskInv
<1> QED BY <1>1, <1>2, <1>4, <1>5, DiskStep DEF Tools

LEMMA EditStep == ASSUME IInv, Edit PROVE IInv'
<1>1. UNCHANGED <<disk, gen, val>> /\ faults' = faults + 1 /\ report # NoReport
  BY DEF Edit, Cost
<1>2. report \in Docs /\ \E g \in Generators : Published(g)
  BY <1>1 DEF IInv, ReportInv
<1>3. report' \in Docs
  <2>1. CASE report' = [report EXCEPT !.same = FALSE]
    BY <1>2, <2>1 DEF Docs
  <2>2. CASE \E t \in Tools : report' = [report EXCEPT !.tools[t] = @ + 1]
    <3>1. PICK t \in Tools : report' = [report EXCEPT !.tools[t] = @ + 1]
      BY <2>2
    <3>2. [report.tools EXCEPT ![t] = @ + 1] \in [Tools -> Nat]
      BY <1>2 DEF Docs
    <3>3. report' = [report EXCEPT !.tools = [report.tools EXCEPT ![t] = @ + 1]]
      BY <3>1
    <3> QED BY <1>2, <3>2, <3>3 DEF Docs
  <2> QED BY <2>1, <2>2 DEF Edit
<1>4. DiskInv' /\ GenTypes' /\ ReportInv' /\ ValInv'
  BY <1>1, <1>2, <1>3 DEF IInv, DiskInv, GenTypes, TypesOf, ReportInv, Published, At, ValInv
<1>5. ASSUME NEW g \in Generators PROVE GenInv(g)'
  BY <1>1 DEF IInv, GenInv, SourceInv, ToolInv, BuildInv, ArchiveInv, RestoredInv
<1> QED BY <1>4, <1>5 DEF IInv

LEMMA StepIInv == IInv /\ [Next]_vars => IInv'
<1> SUFFICES ASSUME IInv, [Next]_vars PROVE IInv'
  OBVIOUS
<1>1. CASE \E g \in Generators : Generate(g)
  BY <1>1, GenerateStep
<1>2. CASE ReadReport \/ VerifyInput \/ VerifyToolchains \/ VerifyCanonical
  BY <1>2, ValidatorStep
<1>3. CASE \E f \in {"source", "input"} \cup Tools : Replace(f)
  BY <1>3, ReplaceStep
<1>4. CASE Rebuild \/ Edit
  BY <1>4, RebuildStep, EditStep
<1>5. CASE UNCHANGED vars
  <2>1. UNCHANGED <<disk, gen, report, val, faults>>
    BY <1>5 DEF vars
  <2>2. DiskInv' /\ GenTypes' /\ ReportInv' /\ ValInv'
    BY <2>1 DEF IInv, DiskInv, GenTypes, TypesOf, ReportInv, Published, At, ValInv
  <2>3. ASSUME NEW g \in Generators PROVE GenInv(g)'
    BY <2>1 DEF IInv, GenInv, SourceInv, ToolInv, BuildInv, ArchiveInv, RestoredInv
  <2> QED BY <2>2, <2>3 DEF IInv
<1> QED BY <1>1, <1>2, <1>3, <1>4, <1>5 DEF Next

--------------------------------------------------------------------------------
LEMMA ReportsHold == IInv => ReportsStandForBuilds
<1> SUFFICES ASSUME IInv PROVE ReportsStandForBuilds
  OBVIOUS
<1>1. ASSUME NEW g \in Generators, Published(g)
      PROVE  /\ GenInv(g) /\ TypesOf(g) /\ gen[g].pc = "done"
             /\ Len(gen[g].restored) = 4 /\ gen[g].source >= 1
  BY <1>1 DEF IInv, GenTypes, Published, At, GenInv, RestoredInv, SourceInv
<1>2. TypeOK
  BY <1>1 DEF TypeOK, IInv, ReportInv, ValInv, Docs
<1>3. BothBuiltTheSnapshot
  <2> SUFFICES ASSUME NEW g \in Generators, Published(g)
               PROVE  /\ gen[g].tested = gen[g].source
                      /\ \A t \in Tools : gen[g].bins[t] = [source |-> gen[g].source, by |-> t,
                                                            version |-> gen[g].tools[t]]
    BY DEF BothBuiltTheSnapshot
  <2>1. gen[g].tested = gen[g].source
    BY <1>1 DEF GenInv, SourceInv
  <2>2. \A t \in Tools : /\ gen[g].bins[t] \in Binary /\ gen[g].bins[t].source = gen[g].source
                         /\ gen[g].bins[t].by = t /\ gen[g].bins[t].version = gen[g].tools[t]
    BY <1>1, TypesAre DEF GenInv, BuildInv, Tools
  <2>3. \A b \in Binary : b = [source |-> b.source, by |-> b.by, version |-> b.version]
    BY DEF Binary
  <2> QED BY <2>1, <2>2, <2>3
<1>4. EveryPairRestoresAlice
  <2> SUFFICES ASSUME NEW g \in Generators, Published(g)
               PROVE  /\ \A t \in Tools : gen[g].archives[t] =
                           [of |-> Alice, odd |-> gen[g].archives["stable"].odd]
                      /\ \A by, of \in Tools : \E r \in ToSet(gen[g].restored) :
                           r.cell = Cell(by, of) /\ r.bytes = Alice
    BY DEF EveryPairRestoresAlice
  <2>1. /\ gen[g].archives \in [Tools -> Archive]
        /\ gen[g].archives["stable"] = gen[g].archives["compat"]
        /\ gen[g].archives["stable"].of = Alice
    BY <1>1, TypesAre DEF GenInv, ArchiveInv, RestoredInv
  <2>2. \A a \in Archive : a = [of |-> a.of, odd |-> a.odd]
    BY DEF Archive
  <2>3. \A t \in Tools : gen[g].archives[t] = [of |-> Alice, odd |-> gen[g].archives["stable"].odd]
    BY <2>1, <2>2 DEF Tools
  <2>4. /\ \A i \in 1..4 : /\ gen[g].restored[i].cell = DecodeCells[i]
                           /\ gen[g].restored[i].bytes = Alice
        /\ Len(gen[g].restored) = 4 /\ gen[g].restored \in Seq(Decoded)
    BY <1>1, TypesAre DEF GenInv, RestoredInv
  <2>5. \A i \in 1..4 : gen[g].restored[i] \in ToSet(gen[g].restored)
    BY <2>4 DEF ToSet
  <2>6. /\ DecodeCells[1] = Cell("stable", "stable") /\ DecodeCells[2] = Cell("stable", "compat")
        /\ DecodeCells[3] = Cell("compat", "compat") /\ DecodeCells[4] = Cell("compat", "stable")
    BY DEF DecodeCells
  <2>7. ASSUME NEW by \in Tools, NEW of \in Tools
        PROVE  \E i \in 1..4 : DecodeCells[i] = Cell(by, of)
    BY <2>6 DEF Tools
  <2> QED BY <2>3, <2>4, <2>5, <2>7
<1>5. ValidatedIsOnDisk
  BY DEF ValidatedIsOnDisk, IInv, ValInv
<1> QED BY <1>2, <1>3, <1>4, <1>5 DEF ReportsStandForBuilds

\* A report stands for the builds, the decodes and the files it names, and an
\* accepted one for what is on disk, whatever any number of generators, editors
\* and builders do between two commands (compiler_matrix.py:689, generate_report).
THEOREM HonestMatrix == Spec => []ReportsStandForBuilds
<1>1. Init => IInv
  BY InitIInv
<1>2. IInv /\ [Next]_vars => IInv'
  BY StepIInv
<1>3. IInv => ReportsStandForBuilds
  BY ReportsHold
<1> QED BY <1>1, <1>2, <1>3, PTL DEF Spec
-----------------------------------------------------------------------------
(* The gate campaigns.  Version numbers only grow, so the identities that  *)
(* are taken before and after the rows enclose those the rows were run     *)
(* with; where they are equal, every row was run with them.                *)

Versions == [Pinned -> Nat]
GateSteps == {"load", "preflight", "source", "before", "rows", "source-after",
              "write", "done", "refused"}
RunningSteps == {"rows", "source-after", "write", "done"}
PlannedSteps == RunningSteps \cup {"preflight", "source", "before"}
HashedSteps == {"source-after", "write", "done"}

\* The files a report of this kind answers for.
Judged(q) ==
  {f \in Pinned : /\ ~(f = "manifest" /\ q.kind \in {"literal", "fuzz"})
                  /\ ~(f \in {"config", "input"} /\ q.kind = "fuzz")}

\* What the value of a row may say of its outcome.
LiteralTold(value, o) ==
  value.status = "ok" =>
    /\ o.end = "ok" /\ value.archive = o.archive
    /\ value.within => WithinBound(o)
MemoryTold(value, o) ==
  /\ value.status = "ok" => o.end = "ok"
  /\ value.encoder => Under(o.encoder, EncoderLimit)
  /\ value.decoder => Under(o.decoder, DecoderLimit)
ProceduralTold(value, o) ==
  value.status = "ok" =>
    /\ o.end = "ok" /\ value.functions = o.functions
    /\ value.leaves = o.leaves /\ value.gain = o.gain
FuzzTold(value, o) ==
  value.status = "ok" => o.end = "ok" /\ o.artifacts = 0 /\ o.units >= o.planned
DeterminismTold(value, o) ==
  o.end \notin {"ok", "unsupported"} => value.status = "failed"
Told(kind, value, o) ==
  /\ kind = "literal" => LiteralTold(value, o)
  /\ kind = "memory" => MemoryTold(value, o)
  /\ kind = "procedural" => ProceduralTold(value, o)
  /\ kind = "fuzz" => FuzzTold(value, o)
  /\ kind = "determinism" => DeterminismTold(value, o)

RowFits(q, r) ==
  /\ r.key \in Plan(q) /\ r.at \in Versions
  /\ r.o \in Outcomes(q.kind) /\ Told(q.kind, r.value, r.o)

CampaignFields == {"pc", "left", "rows", "listed", "before", "after"}
CampaignTypes ==
  /\ request \in Requests
  /\ ver \in Versions /\ builtin \in Nat /\ builtin <= ver.config
  /\ mishaps \in Nat /\ mishaps <= MaxMishaps
  /\ campaign = [f \in CampaignFields |-> campaign[f]]
  /\ campaign.pc \in GateSteps /\ campaign.listed \in Nat
  /\ campaign.before \in Versions /\ campaign.after \in Versions

PlanKept ==
  /\ IsFiniteSet(Rows) /\ \A r \in Rows : RowFits(request, r)
  /\ campaign.left \subseteq Plan(request)
  /\ {r.key : r \in Rows} \cap campaign.left = {}
  /\ campaign.pc \in PlannedSteps => Plan(request) = {r.key : r \in Rows} \cup campaign.left
  /\ campaign.pc \in PlannedSteps /\ request.kind = "procedural" => ProceduralSelected(request)
  /\ campaign.pc \in HashedSteps => campaign.left = {}
  /\ campaign.pc \in GateSteps \ (RunningSteps \cup {"refused"}) => Rows = {}

\* Every row was run between the two identities.
Enclosed ==
  /\ campaign.pc = "before" => campaign.before.source <= ver.source
  /\ \A f \in Judged(request) :
       /\ campaign.pc \in RunningSteps =>
            /\ campaign.before[f] <= ver[f]
            /\ \A r \in Rows : campaign.before[f] <= r.at[f] /\ r.at[f] <= ver[f]
       /\ campaign.pc \in HashedSteps /\ (f = "source" => campaign.pc # "source-after") =>
            \A r \in Rows : r.at[f] <= campaign.after[f]

Reported ==
  IF Done
  THEN /\ verdict.status = Verdict(Rows, request, campaign.before = campaign.after)
       /\ verdict.identity = campaign.before
  ELSE verdict = NoVerdict

CampaignInv == CampaignTypes /\ PlanKept /\ Enclosed /\ Reported

\* A row says no more than its outcome was.
LEMMA ValueIsTold ==
  ASSUME NEW q, q.kind \in Kinds, NEW o \in Outcomes(q.kind)
  PROVE  Told(q.kind, RowOf(q, o), o)
<1>1. CASE q.kind = "literal"
  <2>1. RowOf(q, o) = LiteralRow(o)  BY <1>1, SMT DEF RowOf
  <2>2. LiteralTold(LiteralRow(o), o)  BY Zenon DEF LiteralTold, LiteralRow
  <2> QED  BY <1>1, <2>1, <2>2 DEF Told
<1>2. CASE q.kind = "memory"
  <2>1. RowOf(q, o) = MemoryRow(o)  BY <1>2, SMT DEF RowOf
  <2>2. MemoryTold(MemoryRow(o), o)  BY Zenon DEF MemoryTold, MemoryRow
  <2> QED  BY <1>2, <2>1, <2>2 DEF Told
<1>3. CASE q.kind = "procedural"
  <2>1. RowOf(q, o) = ProceduralRow(o)  BY <1>3, SMT DEF RowOf
  <2>2. ProceduralTold(ProceduralRow(o), o)  BY Zenon DEF ProceduralTold, ProceduralRow
  <2> QED  BY <1>3, <2>1, <2>2 DEF Told
<1>4. CASE q.kind = "fuzz"
  <2>1. RowOf(q, o) = FuzzRow(o)  BY <1>4, SMT DEF RowOf
  <2>2. /\ o.end \in {"ok", "exit", "timeout"}
        /\ o.artifacts \in Nat /\ o.units \in Int /\ o.planned \in Int
    BY <1>4, GateAssumption
  <2>3. FuzzTold(FuzzRow(o), o)  BY <2>2, SMT DEF FuzzTold, FuzzRow
  <2> QED  BY <1>4, <2>1, <2>3 DEF Told
<1>5. CASE q.kind = "determinism"
  <2>1. RowOf(q, o) = DeterminismRow(o)  BY <1>5, SMT DEF RowOf
  <2>2. DeterminismTold(DeterminismRow(o), o)  BY Zenon DEF DeterminismTold, DeterminismRow
  <2> QED  BY <1>5, <2>1, <2>2 DEF Told
<1> QED  BY <1>1, <1>2, <1>3, <1>4, <1>5 DEF Kinds

LEMMA FirstInv == GateInit => CampaignInv
<1> SUFFICES ASSUME GateInit PROVE CampaignInv  OBVIOUS
<1>1. Same \in Versions  BY DEF Same, Versions
<1>2. /\ request \in Requests /\ ver = Same /\ builtin = 1 /\ mishaps = 0 /\ verdict = NoVerdict
      /\ campaign = [pc |-> "load", left |-> {}, rows |-> {}, listed |-> 0,
                     before |-> Same, after |-> Same]
  BY Zenon DEF GateInit
<1>3. /\ campaign.pc = "load" /\ campaign.left = {} /\ campaign.rows = {} /\ campaign.listed = 0
      /\ campaign.before = Same /\ campaign.after = Same
  BY <1>2
<1>4. CampaignTypes
  <2>1. ver.config = 1  BY <1>2 DEF Same, Pinned
  <2>2. campaign = [f \in CampaignFields |-> campaign[f]]  BY <1>2 DEF CampaignFields
  <2>3. mishaps \in Nat /\ mishaps <= MaxMishaps /\ builtin \in Nat /\ builtin <= ver.config
    BY <1>2, <2>1, GateAssumption
  <2> QED  BY <1>1, <1>2, <1>3, <2>2, <2>3 DEF CampaignTypes, GateSteps
<1>5. PlanKept
  BY <1>3, FS_EmptySet DEF PlanKept, Rows, PlannedSteps, RunningSteps, HashedSteps, GateSteps
<1>6. Enclosed  BY <1>3 DEF Enclosed, RunningSteps, HashedSteps
<1>7. Reported  BY <1>2, <1>3 DEF Reported, Done, Stage
<1> QED  BY <1>4, <1>5, <1>6, <1>7 DEF CampaignInv

\* A step that leaves the rows alone and turns to a step that asks for the
\* same of the rows that are left.
LEMMA TypesStay ==
  ASSUME CampaignInv, Stay, NEW c,
         campaign' = c, c = [f \in CampaignFields |-> c[f]],
         c.pc \in GateSteps, c.listed \in Nat, c.before \in Versions, c.after \in Versions
  PROVE  CampaignTypes'
BY DEF CampaignInv, CampaignTypes, Stay

LEMMA Refused ==
  ASSUME CampaignInv, ~Done, Turn("refused"), Stay
  PROVE  CampaignInv'
<1> DEFINE c == [campaign EXCEPT !.pc = "refused"]
<1>1. /\ c = [f \in CampaignFields |-> c[f]]
      /\ c.pc = "refused" /\ c.left = campaign.left /\ c.rows = campaign.rows
      /\ c.listed = campaign.listed /\ c.before = campaign.before /\ c.after = campaign.after
  BY DEF CampaignInv, CampaignTypes, CampaignFields
<1>2. campaign' = c  BY DEF Turn
<1> HIDE DEF c
<1>3. CampaignTypes'
  BY <1>1, <1>2, TypesStay DEF CampaignInv, CampaignTypes, GateSteps
<1>4. /\ campaign'.pc = "refused" /\ campaign'.left = campaign.left
      /\ campaign'.rows = campaign.rows /\ request' = request /\ verdict' = verdict
  BY <1>1, <1>2 DEF Stay
<1>5. PlanKept'
  BY <1>4 DEF CampaignInv, PlanKept, Rows, RowFits, PlannedSteps, RunningSteps, HashedSteps,
       GateSteps
<1>6. Enclosed'  BY <1>4 DEF Enclosed, RunningSteps, HashedSteps
<1>7. Reported'  BY <1>4 DEF CampaignInv, Reported, Done, Stage
<1> QED  BY <1>3, <1>5, <1>6, <1>7 DEF CampaignInv

LEMMA LoadKeeps == ASSUME CampaignInv, Load PROVE CampaignInv'
<1>1. campaign.pc = "load" /\ Stay /\ ~Done  BY DEF Load, Stage, Done
<1>2. CASE ~Selected(request)
  BY <1>1, <1>2, Refused DEF Load
<1>3. CASE Selected(request)
  <2> DEFINE c == [campaign EXCEPT !.pc = "preflight", !.left = Plan(request),
                                   !.listed = ver.manifest]
  <2>1. /\ c = [f \in CampaignFields |-> c[f]]
        /\ c.pc = "preflight" /\ c.left = Plan(request) /\ c.rows = campaign.rows
        /\ c.listed = ver.manifest /\ c.before = campaign.before /\ c.after = campaign.after
    BY DEF CampaignInv, CampaignTypes, CampaignFields
  <2>2. campaign' = c  BY <1>3 DEF Load
  <2> HIDE DEF c
  <2>3. ver.manifest \in Nat  BY DEF CampaignInv, CampaignTypes, Versions, Pinned
  <2>4. CampaignTypes'
    BY <1>1, <2>1, <2>2, <2>3, TypesStay DEF CampaignInv, CampaignTypes, GateSteps
  <2>5. /\ campaign'.pc = "preflight" /\ campaign'.left = Plan(request)
        /\ campaign'.rows = campaign.rows /\ request' = request /\ verdict' = verdict
    BY <1>1, <2>1, <2>2 DEF Stay
  <2>6. Rows = {}
    BY <1>1 DEF CampaignInv, PlanKept, GateSteps, RunningSteps
  <2>7. PlanKept'
    <3>1. request.kind = "procedural" => ProceduralSelected(request)  BY <1>3 DEF Selected
    <3> QED
      BY <2>5, <2>6, <3>1, FS_EmptySet DEF PlanKept, Rows, PlannedSteps, HashedSteps
  <2>8. Enclosed'  BY <2>5 DEF Enclosed, RunningSteps, HashedSteps
  <2>9. Reported'  BY <1>1, <2>5 DEF CampaignInv, Reported, Done, Stage
  <2> QED  BY <2>4, <2>7, <2>8, <2>9 DEF CampaignInv
<1> QED  BY <1>2, <1>3

LEMMA CheckRuntimeKeeps == ASSUME CampaignInv, CheckRuntime PROVE CampaignInv'
<1>1. campaign.pc = "preflight" /\ Stay /\ ~Done  BY DEF CheckRuntime, Stage, Done
<1>2. CASE ~Preflight(request)
  BY <1>1, <1>2, Refused DEF CheckRuntime
<1>3. CASE Preflight(request)
  <2> DEFINE c == [campaign EXCEPT !.pc = "source"]
  <2>1. /\ c = [f \in CampaignFields |-> c[f]]
        /\ c.pc = "source" /\ c.left = campaign.left /\ c.rows = campaign.rows
        /\ c.listed = campaign.listed /\ c.before = campaign.before /\ c.after = campaign.after
    BY DEF CampaignInv, CampaignTypes, CampaignFields
  <2>2. campaign' = c  BY <1>3 DEF CheckRuntime, Turn
  <2> HIDE DEF c
  <2>3. CampaignTypes'
    BY <1>1, <2>1, <2>2, TypesStay DEF CampaignInv, CampaignTypes, GateSteps
  <2>4. /\ campaign'.pc = "source" /\ campaign'.left = campaign.left
        /\ campaign'.rows = campaign.rows /\ request' = request /\ verdict' = verdict
    BY <1>1, <2>1, <2>2 DEF Stay
  <2>5. PlanKept'
    BY <1>1, <2>4 DEF CampaignInv, PlanKept, Rows, RowFits, PlannedSteps, RunningSteps,
         HashedSteps, GateSteps
  <2>6. Enclosed'  BY <2>4 DEF Enclosed, RunningSteps, HashedSteps
  <2>7. Reported'  BY <1>1, <2>4 DEF CampaignInv, Reported, Done, Stage
  <2> QED  BY <2>3, <2>5, <2>6, <2>7 DEF CampaignInv
<1> QED  BY <1>2, <1>3

LEMMA SourceBeforeKeeps == ASSUME CampaignInv, SourceBefore PROVE CampaignInv'
<1>1. campaign.pc = "source" /\ Stay  BY DEF SourceBefore, Stage
<1> DEFINE c == [campaign EXCEPT !.pc = "before", !.before.source = ver.source]
<1>2. /\ c = [f \in CampaignFields |-> c[f]]
      /\ c.pc = "before" /\ c.left = campaign.left /\ c.rows = campaign.rows
      /\ c.listed = campaign.listed /\ c.after = campaign.after
      /\ c.before = [campaign.before EXCEPT !.source = ver.source]
  BY DEF CampaignInv, CampaignTypes, CampaignFields
<1>3. campaign' = c  BY DEF SourceBefore
<1> HIDE DEF c
<1>4. ver.source \in Nat /\ c.before \in Versions /\ c.before.source = ver.source
  BY <1>2 DEF CampaignInv, CampaignTypes, Versions, Pinned
<1>5. CampaignTypes'
  BY <1>1, <1>2, <1>3, <1>4, TypesStay DEF CampaignInv, CampaignTypes, GateSteps
<1>6. /\ campaign'.pc = "before" /\ campaign'.left = campaign.left
      /\ campaign'.rows = campaign.rows /\ request' = request /\ verdict' = verdict
      /\ campaign'.before.source = ver.source /\ ver' = ver
  BY <1>1, <1>2, <1>3, <1>4 DEF Stay
<1>7. PlanKept'
  BY <1>1, <1>6 DEF CampaignInv, PlanKept, Rows, RowFits, PlannedSteps, RunningSteps,
       HashedSteps, GateSteps
<1>8. Enclosed'  BY <1>4, <1>6 DEF Enclosed, RunningSteps, HashedSteps
<1>9. Reported'  BY <1>1, <1>6 DEF CampaignInv, Reported, Done, Stage
<1> QED  BY <1>5, <1>7, <1>8, <1>9 DEF CampaignInv

LEMMA BeforeKeeps == ASSUME CampaignInv, Before PROVE CampaignInv'
<1>1. campaign.pc = "before" /\ Stay  BY DEF Before, Stage
<1> DEFINE hashed == Identity(request, campaign.before.source)
           c == [campaign EXCEPT !.pc = "rows", !.before = hashed]
<1>2. ver \in Versions /\ campaign.before \in Versions /\ campaign.listed \in Nat
  BY DEF CampaignInv, CampaignTypes
<1>3. hashed \in Versions
  <2>1. campaign.before.source \in Nat  BY <1>2 DEF Versions, Pinned
  <2>2. \A f \in Pinned : hashed[f] \in Nat
    BY <1>2, <2>1 DEF Identity, Versions, Pinned
  <2>3. hashed = [f \in Pinned |-> hashed[f]]  BY Zenon DEF Identity
  <2> HIDE DEF hashed
  <2> QED  BY <2>2, <2>3 DEF Versions
<1>4. \A f \in Judged(request) : hashed[f] <= ver[f]
  <2> SUFFICES ASSUME NEW f \in Judged(request) PROVE hashed[f] <= ver[f]
    OBVIOUS
  <2>1. CASE f = "source"
    BY <1>1, <2>1 DEF CampaignInv, Enclosed, Identity, Pinned
  <2>2. CASE f # "source"
    <3>1. hashed[f] = ver[f]
      BY <2>2 DEF Identity, Judged, Pinned
    <3>2. ver[f] \in Nat  BY <1>2 DEF Versions, Judged
    <3> QED  BY <3>1, <3>2
  <2> QED  BY <2>1, <2>2
<1>5. campaign' = c  BY DEF Before
<1> HIDE DEF hashed
<1>6. /\ c = [f \in CampaignFields |-> c[f]]
      /\ c.pc = "rows" /\ c.left = campaign.left /\ c.rows = campaign.rows
      /\ c.listed = campaign.listed /\ c.after = campaign.after /\ c.before = hashed
  BY DEF CampaignInv, CampaignTypes, CampaignFields
<1> HIDE DEF c
<1>7. CampaignTypes'
  BY <1>1, <1>3, <1>5, <1>6, TypesStay DEF CampaignInv, CampaignTypes, GateSteps
<1>8. /\ campaign'.pc = "rows" /\ campaign'.left = campaign.left
      /\ campaign'.rows = campaign.rows /\ request' = request /\ verdict' = verdict
      /\ campaign'.before = hashed /\ ver' = ver
  BY <1>1, <1>5, <1>6 DEF Stay
<1>9. Rows = {}
  BY <1>1 DEF CampaignInv, PlanKept, GateSteps, RunningSteps
<1>10. PlanKept'
  BY <1>1, <1>8 DEF CampaignInv, PlanKept, Rows, RowFits, PlannedSteps, RunningSteps,
       HashedSteps, GateSteps
<1>11. Enclosed'
  BY <1>4, <1>8, <1>9 DEF Enclosed, RunningSteps, HashedSteps, Rows, Judged
<1>12. Reported'  BY <1>1, <1>8 DEF CampaignInv, Reported, Done, Stage
<1> QED  BY <1>7, <1>10, <1>11, <1>12 DEF CampaignInv

LEMMA RowKeeps == ASSUME CampaignInv, Row PROVE CampaignInv'
<1> DEFINE k == NextKey(campaign.left)
<1>1. /\ campaign.pc = "rows" /\ campaign.left # {}
      /\ request' = request /\ ver' = ver /\ builtin' = builtin /\ verdict' = verdict
  BY DEF Row, Stage
<1>2. k \in campaign.left
  <2>1. \E x \in campaign.left : x.phase = "warmup" \/ \A y \in campaign.left : y.phase # "warmup"
    BY <1>1, Zenon
  <2> QED  BY <2>1, Zenon DEF NextKey
<1> HIDE DEF k
<1>3. PICK n \in {0, 1} : \E o \in (IF n = 0 THEN Usual ELSE Faulty)[request.kind] :
           /\ Mishaps(n)
           /\ campaign' = [campaign EXCEPT
                !.rows = @ \cup {[key |-> k, value |-> RowOf(request, o), o |-> o, at |-> ver]},
                !.left = @ \ {k}]
  BY Zenon DEF Row, k
<1>4. PICK o \in (IF n = 0 THEN Usual ELSE Faulty)[request.kind] :
           /\ Mishaps(n)
           /\ campaign' = [campaign EXCEPT
                !.rows = @ \cup {[key |-> k, value |-> RowOf(request, o), o |-> o, at |-> ver]},
                !.left = @ \ {k}]
  BY <1>3
<1>5. o \in Outcomes(request.kind)  BY DEF Outcomes
<1>6. request \in Requests /\ ver \in Versions  BY DEF CampaignInv, CampaignTypes
<1>7. request.kind \in Kinds  BY <1>6, GateAssumption
<1>8. Told(request.kind, RowOf(request, o), o)  BY <1>5, <1>7, ValueIsTold
<1> DEFINE new == [key |-> k, value |-> RowOf(request, o), o |-> o, at |-> ver]
           c == [campaign EXCEPT !.rows = @ \cup {new}, !.left = @ \ {k}]
<1>9. new.key = k /\ new.value = RowOf(request, o) /\ new.o = o /\ new.at = ver
  OBVIOUS
<1>10. campaign' = c  BY <1>4
<1> HIDE DEF new
<1>11. /\ c = [f \in CampaignFields |-> c[f]]
       /\ c.pc = campaign.pc /\ c.left = campaign.left \ {k} /\ c.rows = campaign.rows \cup {new}
       /\ c.listed = campaign.listed /\ c.after = campaign.after /\ c.before = campaign.before
  BY DEF CampaignInv, CampaignTypes, CampaignFields
<1> HIDE DEF c
<1>12. /\ campaign'.pc = "rows" /\ campaign'.left = campaign.left \ {k}
       /\ campaign'.rows = campaign.rows \cup {new}
       /\ campaign'.before = campaign.before
  BY <1>1, <1>10, <1>11
<1>13. CampaignTypes'
  <2>1. mishaps' \in Nat /\ mishaps' <= MaxMishaps
    BY <1>4 DEF Mishaps, CampaignInv, CampaignTypes
  <2> QED  BY <1>1, <1>10, <1>11, <2>1 DEF CampaignInv, CampaignTypes
<1>14. PlanKept'
  <2>1. RowFits(request, new)
    BY <1>1, <1>2, <1>5, <1>6, <1>8, <1>9 DEF RowFits, CampaignInv, PlanKept
  <2>2. \A r \in Rows : RowFits(request, r)
    BY DEF CampaignInv, PlanKept
  <2>3. IsFiniteSet(Rows') /\ Rows' = Rows \cup {new}
    BY <1>12, FS_AddElement DEF CampaignInv, PlanKept, Rows
  <2>4. {r.key : r \in Rows'} = {r.key : r \in Rows} \cup {k}
    BY <1>9, <2>3
  <2>5. \A r \in Rows' : RowFits(request', r)
    BY <1>1, <2>1, <2>2, <2>3
  <2>6. campaign'.left \subseteq Plan(request') /\ {r.key : r \in Rows'} \cap campaign'.left = {}
    BY <1>1, <1>2, <1>12, <2>4 DEF CampaignInv, PlanKept
  <2>7. Plan(request') = {r.key : r \in Rows'} \cup campaign'.left
    BY <1>1, <1>2, <1>12, <2>4 DEF CampaignInv, PlanKept, PlannedSteps, RunningSteps
  <2> QED
    BY <1>1, <1>12, <2>3, <2>5, <2>6, <2>7 DEF CampaignInv, PlanKept, PlannedSteps,
         HashedSteps, RunningSteps
<1>15. Enclosed'
  <2>1. ASSUME NEW f \in Judged(request)
        PROVE  /\ campaign.before[f] <= ver[f]
               /\ \A r \in Rows' : campaign.before[f] <= r.at[f] /\ r.at[f] <= ver[f]
    <3>1. ver[f] \in Nat  BY <1>6 DEF Versions, Judged
    <3>2. Rows' = Rows \cup {new}  BY <1>12 DEF Rows
    <3> QED  BY <1>1, <1>9, <3>1, <3>2 DEF CampaignInv, Enclosed, RunningSteps
  <2> QED  BY <1>1, <1>12, <2>1 DEF Enclosed, HashedSteps
<1>16. Reported'  BY <1>1, <1>12 DEF CampaignInv, Reported, Done, Stage
<1> QED  BY <1>13, <1>14, <1>15, <1>16 DEF CampaignInv

LEMMA AfterKeeps == ASSUME CampaignInv, After PROVE CampaignInv'
<1>1. campaign.pc = "rows" /\ campaign.left = {} /\ Stay /\ ~Done  BY DEF After, Stage, Done
<1>2. CASE ~MatrixUnchanged(request)
  BY <1>1, <1>2, Refused DEF After
<1>3. CASE MatrixUnchanged(request)
  <2> DEFINE hashed == IdentityAfter(request, 1)
             c == [campaign EXCEPT !.pc = "source-after", !.after = hashed]
  <2>1. ver \in Versions /\ campaign.listed \in Nat
    BY DEF CampaignInv, CampaignTypes
  <2>2. hashed \in Versions
    <3>1. \A f \in Pinned : hashed[f] \in Nat
      BY <2>1 DEF IdentityAfter, Identity, Versions, Pinned
    <3>2. hashed = [f \in Pinned |-> hashed[f]]  BY Zenon DEF IdentityAfter, Identity
    <3> HIDE DEF hashed
    <3> QED  BY <3>1, <3>2 DEF Versions
  <2>3. \A f \in Judged(request) : f # "source" => hashed[f] = ver[f]
    BY DEF IdentityAfter, Identity, Judged, Pinned
  <2>4. campaign' = c  BY <1>3 DEF After
  <2> HIDE DEF hashed
  <2>5. /\ c = [f \in CampaignFields |-> c[f]]
        /\ c.pc = "source-after" /\ c.left = campaign.left /\ c.rows = campaign.rows
        /\ c.listed = campaign.listed /\ c.after = hashed /\ c.before = campaign.before
    BY DEF CampaignInv, CampaignTypes, CampaignFields
  <2> HIDE DEF c
  <2>6. CampaignTypes'
    BY <1>1, <2>2, <2>4, <2>5, TypesStay DEF CampaignInv, CampaignTypes, GateSteps
  <2>7. /\ campaign'.pc = "source-after" /\ campaign'.left = {}
        /\ campaign'.rows = campaign.rows /\ request' = request /\ verdict' = verdict
        /\ campaign'.before = campaign.before /\ campaign'.after = hashed /\ ver' = ver
    BY <1>1, <2>4, <2>5 DEF Stay
  <2>8. PlanKept'
    BY <1>1, <2>7 DEF CampaignInv, PlanKept, Rows, PlannedSteps, RunningSteps
  <2>9. Enclosed'
    BY <1>1, <2>3, <2>7 DEF CampaignInv, Enclosed, RunningSteps, HashedSteps, Rows
  <2>10. Reported'  BY <1>1, <2>7 DEF CampaignInv, Reported, Done, Stage
  <2> QED  BY <2>6, <2>8, <2>9, <2>10 DEF CampaignInv
<1> QED  BY <1>2, <1>3

LEMMA SourceAfterKeeps == ASSUME CampaignInv, SourceAfter PROVE CampaignInv'
<1>1. campaign.pc = "source-after" /\ Stay  BY DEF SourceAfter, Stage
<1> DEFINE c == [campaign EXCEPT !.pc = "write", !.after.source = ver.source]
<1>2. /\ c = [f \in CampaignFields |-> c[f]]
      /\ c.pc = "write" /\ c.left = campaign.left /\ c.rows = campaign.rows
      /\ c.listed = campaign.listed /\ c.before = campaign.before
      /\ c.after = [campaign.after EXCEPT !.source = ver.source]
  BY DEF CampaignInv, CampaignTypes, CampaignFields
<1>3. campaign' = c  BY DEF SourceAfter
<1> HIDE DEF c
<1>4. /\ ver.source \in Nat /\ c.after \in Versions /\ c.after.source = ver.source
      /\ \A f \in Pinned : f # "source" => c.after[f] = campaign.after[f]
  BY <1>2 DEF CampaignInv, CampaignTypes, Versions, Pinned
<1>5. CampaignTypes'
  BY <1>1, <1>2, <1>3, <1>4, TypesStay DEF CampaignInv, CampaignTypes, GateSteps
<1>6. /\ campaign'.pc = "write" /\ campaign'.left = campaign.left
      /\ campaign'.rows = campaign.rows /\ request' = request /\ verdict' = verdict
      /\ campaign'.before = campaign.before /\ campaign'.after = c.after /\ ver' = ver
  BY <1>1, <1>2, <1>3 DEF Stay
<1>7. PlanKept'
  BY <1>1, <1>6 DEF CampaignInv, PlanKept, Rows, PlannedSteps, RunningSteps, HashedSteps,
       GateSteps
<1>8. Enclosed'
  <2>1. ASSUME NEW f \in Judged(request)
        PROVE  /\ campaign.before[f] <= ver[f]
               /\ \A r \in Rows : /\ campaign.before[f] <= r.at[f] /\ r.at[f] <= ver[f]
                                  /\ r.at[f] <= c.after[f]
    BY <1>1, <1>4 DEF CampaignInv, Enclosed, RunningSteps, HashedSteps, Judged
  <2> QED  BY <1>6, <2>1 DEF Enclosed, Rows
<1>9. Reported'  BY <1>1, <1>6 DEF CampaignInv, Reported, Done, Stage
<1> QED  BY <1>5, <1>7, <1>8, <1>9 DEF CampaignInv

LEMMA PublishKeeps == ASSUME CampaignInv, Publish PROVE CampaignInv'
<1>1. /\ campaign.pc = "write"
      /\ request' = request /\ ver' = ver /\ builtin' = builtin /\ mishaps' = mishaps
  BY DEF Publish, Stage
<1> DEFINE c == [campaign EXCEPT !.pc = "done"]
<1>2. /\ c = [f \in CampaignFields |-> c[f]]
      /\ c.pc = "done" /\ c.left = campaign.left /\ c.rows = campaign.rows
      /\ c.listed = campaign.listed /\ c.before = campaign.before /\ c.after = campaign.after
  BY DEF CampaignInv, CampaignTypes, CampaignFields
<1>3. campaign' = c  BY DEF Publish, Turn
<1> HIDE DEF c
<1>4. CampaignTypes'
  BY <1>1, <1>2, <1>3 DEF CampaignInv, CampaignTypes, GateSteps
<1>5. /\ campaign'.pc = "done" /\ campaign'.left = campaign.left /\ campaign'.rows = campaign.rows
      /\ campaign'.before = campaign.before /\ campaign'.after = campaign.after
  BY <1>2, <1>3
<1>6. PlanKept'
  BY <1>1, <1>5 DEF CampaignInv, PlanKept, Rows, PlannedSteps, RunningSteps, HashedSteps,
       GateSteps
<1>7. Enclosed'
  BY <1>1, <1>5 DEF CampaignInv, Enclosed, RunningSteps, HashedSteps, Rows
<1>8. /\ verdict'.status = Verdict(Rows, request, campaign.before = campaign.after)
      /\ verdict'.identity = campaign.before
  BY Zenon DEF Publish, Rows
<1>9. Reported'
  BY <1>1, <1>5, <1>8, Zenon DEF Reported, Done, Stage, Rows
<1> QED  BY <1>4, <1>6, <1>7, <1>9 DEF CampaignInv

LEMMA ReplaceFileKeeps ==
  ASSUME CampaignInv, NEW f \in Pinned, ReplaceFile(f)
  PROVE  CampaignInv'
<1>1. /\ ver' = [ver EXCEPT ![f] = @ + 1]
      /\ builtin' = IF f = "binary" THEN ver.config ELSE builtin
      /\ request' = request /\ campaign' = campaign /\ verdict' = verdict
      /\ mishaps' = mishaps + 1 /\ mishaps' <= MaxMishaps
  BY DEF ReplaceFile, Mishaps
<1>2. ver \in Versions /\ ver' \in Versions /\ \A g \in Pinned : ver[g] <= ver'[g]
  BY <1>1 DEF CampaignInv, CampaignTypes, Versions
<1>3. CampaignTypes'
  <2>1. ver.config \in Nat /\ ver'.config \in Nat /\ ver.config <= ver'.config
    BY <1>2 DEF Versions, Pinned
  <2>2. builtin' \in Nat /\ builtin' <= ver'.config
    BY <1>1, <2>1 DEF CampaignInv, CampaignTypes
  <2> QED  BY <1>1, <1>2, <2>2 DEF CampaignInv, CampaignTypes
<1>4. PlanKept'  BY <1>1 DEF CampaignInv, PlanKept, Rows
<1>5. Enclosed'
  <2>1. campaign.pc = "before" => campaign.before.source <= ver'.source
    <3>1. campaign.before.source \in Nat /\ ver.source \in Nat /\ ver'.source \in Nat
          /\ ver.source <= ver'.source
      BY <1>2 DEF CampaignInv, CampaignTypes, Versions, Pinned
    <3> QED  BY <3>1 DEF CampaignInv, Enclosed
  <2>2. ASSUME NEW g \in Judged(request), campaign.pc \in RunningSteps
        PROVE  /\ campaign.before[g] <= ver'[g]
               /\ \A r \in Rows : campaign.before[g] <= r.at[g] /\ r.at[g] <= ver'[g]
    <3>1. /\ campaign.before[g] \in Nat /\ ver[g] \in Nat /\ ver'[g] \in Nat /\ ver[g] <= ver'[g]
          /\ \A r \in Rows : r.at[g] \in Nat
      BY <1>2 DEF CampaignInv, CampaignTypes, PlanKept, RowFits, Versions, Judged
    <3> QED  BY <2>2, <3>1 DEF CampaignInv, Enclosed
  <2> QED  BY <1>1, <2>1, <2>2 DEF CampaignInv, Enclosed, Rows
<1>6. Reported'  BY <1>1 DEF CampaignInv, Reported, Done, Stage, Rows
<1> QED  BY <1>3, <1>4, <1>5, <1>6 DEF CampaignInv

LEMMA CampaignInvIsKept == CampaignInv /\ [GateNext]_gateVars => CampaignInv'
<1> SUFFICES ASSUME CampaignInv, [GateNext]_gateVars PROVE CampaignInv'  OBVIOUS
<1>1. CASE Load  BY <1>1, LoadKeeps
<1>2. CASE CheckRuntime  BY <1>2, CheckRuntimeKeeps
<1>3. CASE SourceBefore  BY <1>3, SourceBeforeKeeps
<1>4. CASE Before  BY <1>4, BeforeKeeps
<1>5. CASE Row  BY <1>5, RowKeeps
<1>6. CASE After  BY <1>6, AfterKeeps
<1>7. CASE SourceAfter  BY <1>7, SourceAfterKeeps
<1>8. CASE Publish  BY <1>8, PublishKeeps
<1>9. CASE \E f \in Pinned : ReplaceFile(f)  BY <1>9, ReplaceFileKeeps
<1>10. CASE UNCHANGED gateVars
  BY <1>10 DEF gateVars, CampaignInv, CampaignTypes, PlanKept, Enclosed, Reported, Rows, Done, Stage
<1> QED
  BY <1>1, <1>2, <1>3, <1>4, <1>5, <1>6, <1>7, <1>8, <1>9, <1>10 DEF GateNext

LEMMA VerdictIs ==
  ASSUME NEW rows, NEW q, NEW stable
  PROVE  /\ Verdict(rows, q, stable) \in {"pass", "incomplete", "failed"}
         /\ Verdict(rows, q, stable) = "pass" => ~Fails(rows, q) /\ ~Lacks(rows, q) /\ stable
         /\ Fails(rows, q) => Verdict(rows, q, stable) = "failed"
<1>1. CASE Fails(rows, q)  BY <1>1, Zenon DEF Verdict
<1>2. CASE ~Fails(rows, q)
  <2>1. CASE Lacks(rows, q) \/ ~stable  BY <1>2, <2>1, Zenon DEF Verdict
  <2>2. CASE ~(Lacks(rows, q) \/ ~stable)  BY <1>2, <2>2, Zenon DEF Verdict
  <2> QED  BY <2>1, <2>2
<1> QED  BY <1>1, <1>2

LEMMA PassingIs ==
  ASSUME CampaignInv, verdict.status = "pass"
  PROVE  /\ Done /\ ~Fails(Rows, request) /\ ~Lacks(Rows, request)
         /\ campaign.before = campaign.after /\ verdict.identity = campaign.before
<1>1. Done  BY DEF CampaignInv, Reported, NoVerdict
<1>2. /\ verdict.status = Verdict(Rows, request, campaign.before = campaign.after)
      /\ verdict.identity = campaign.before
  BY <1>1, Zenon DEF CampaignInv, Reported
<1> QED  BY <1>1, <1>2, VerdictIs, Zenon

LEMMA TypesHold == CampaignInv => GateTypeOK
<1> SUFFICES ASSUME CampaignInv PROVE GateTypeOK  OBVIOUS
<1>1. Done => {r.key : r \in Rows} = Plan(request)
  <2>1. Done => campaign.left = {} /\ Plan(request) = {r.key : r \in Rows} \cup campaign.left
    BY DEF CampaignInv, PlanKept, Done, Stage, PlannedSteps, RunningSteps, HashedSteps
  <2> QED  BY <2>1
<1>2. /\ verdict.status \in {"none", "pass", "incomplete", "failed"}
      /\ Done <=> verdict.status # "none"
  <2>1. CASE Done
    <3>1. verdict.status = Verdict(Rows, request, campaign.before = campaign.after)
      BY <2>1, Zenon DEF CampaignInv, Reported
    <3>2. Verdict(Rows, request, campaign.before = campaign.after)
            \in {"pass", "incomplete", "failed"}
      BY VerdictIs, Zenon
    <3> QED  BY <2>1, <3>1, <3>2
  <2>2. CASE ~Done
    BY <2>2 DEF CampaignInv, Reported, NoVerdict
  <2> QED  BY <2>1, <2>2
<1> QED
  BY <1>1, <1>2 DEF CampaignInv, CampaignTypes, PlanKept, GateTypeOK, GateSteps

LEMMA FilesHold == CampaignInv => PassIsOfItsFiles
<1> SUFFICES ASSUME CampaignInv, verdict.status = "pass", NEW r \in Rows, NEW f \in Pinned
             PROVE  \/ r.at[f] = verdict.identity[f]
                    \/ f = "manifest" /\ request.kind \in {"literal", "fuzz"}
                    \/ f \in {"config", "input"} /\ request.kind = "fuzz"
  BY DEF PassIsOfItsFiles
<1>1. CASE f \in Judged(request)
  <2>1. /\ campaign.pc = "done" /\ campaign.before = campaign.after
        /\ verdict.identity = campaign.before
    BY PassingIs DEF Done, Stage
  <2>2. campaign.before[f] <= r.at[f] /\ r.at[f] <= campaign.after[f]
    BY <1>1, <2>1 DEF CampaignInv, Enclosed, RunningSteps, HashedSteps
  <2>3. campaign.before[f] \in Nat /\ r.at[f] \in Nat
    BY DEF CampaignInv, CampaignTypes, PlanKept, RowFits, Versions
  <2> QED  BY <2>1, <2>2, <2>3
<1>2. CASE f \notin Judged(request)
  BY <1>2 DEF Judged
<1> QED  BY <1>1, <1>2

LEMMA RowsAre ==
  ASSUME CampaignInv
  PROVE  /\ request \in Requests /\ request.kind \in Kinds /\ IsFiniteSet(Rows)
         /\ \A r \in Rows : /\ r.key \in Plan(request) /\ r.o \in Outcomes(request.kind)
                            /\ Told(request.kind, r.value, r.o)
BY GateAssumption DEF CampaignInv, CampaignTypes, PlanKept, RowFits

LEMMA FailuresHold == CampaignInv => FailuresRemainVisible
<1> DEFINE Bad(r) == \/ r.o.end \notin {"ok", "unsupported"}
                     \/ (request.kind = "fuzz" /\ (r.o.artifacts > 0 \/ r.o.units < r.o.planned))
<1> SUFFICES ASSUME CampaignInv, Done, NEW r \in Rows, Bad(r)
             PROVE  verdict.status = "failed"
  BY Zenon DEF FailuresRemainVisible
<1>1. /\ request.kind \in Kinds /\ r.o \in Outcomes(request.kind)
      /\ Told(request.kind, r.value, r.o)
  BY RowsAre
<1>2. Fails(Rows, request)
  <2>1. CASE request.kind = "literal"
    <3>1. r.value.status # "ok"  BY <1>1, <2>1 DEF Told, LiteralTold
    <3>2. ~AllRan(Rows)  BY <3>1 DEF AllRan, Passed
    <3> QED  BY <2>1, <3>2 DEF Fails, LiteralFails
  <2>2. CASE request.kind = "memory"
    <3>1. r.value.status # "ok"  BY <1>1, <2>2 DEF Told, MemoryTold
    <3> QED  BY <2>2, <3>1 DEF Fails, MemoryFails
  <2>procedural. CASE request.kind = "procedural"
    <3>1. r.value.status # "ok"  BY <1>1, <2>procedural DEF Told, ProceduralTold
    <3>2. ~AllRan(Rows)  BY <3>1 DEF AllRan, Passed
    <3> QED  BY <2>procedural, <3>2 DEF Fails, ProceduralFails
  <2>4. CASE request.kind = "fuzz"
    <3>1. r.o.artifacts \in Nat /\ r.o.units \in Int /\ r.o.planned \in Int
      BY <1>1, <2>4, GateAssumption
    <3>2. r.value.status # "ok"  BY <1>1, <2>4, <3>1 DEF Told, FuzzTold
    <3>3. ~AllRan(Rows)  BY <3>2 DEF AllRan, Passed
    <3> QED  BY <2>4, <3>3 DEF Fails
  <2>5. CASE request.kind = "determinism"
    <3>1. r.value.status = "failed"  BY <1>1, <2>5 DEF Told, DeterminismTold
    <3> QED  BY <2>5, <3>1 DEF Fails, DeterminismFails
  <2> QED  BY <1>1, <2>1, <2>2, <2>procedural, <2>4, <2>5 DEF Kinds
<1>3. verdict.status = Verdict(Rows, request, campaign.before = campaign.after)
  BY Zenon DEF CampaignInv, Reported
<1> QED  BY <1>2, <1>3, VerdictIs, Zenon

LEMMA KeyHas ==
  ASSUME NEW i, NEW p, NEW n, NEW w
  PROVE  /\ Key(i, p, n, w).item = i /\ Key(i, p, n, w).profile = p
         /\ Key(i, p, n, w).rep = n /\ Key(i, p, n, w).phase = w
BY DEF Key

LEMMA KeysHave ==
  ASSUME NEW I, NEW P, NEW N, NEW i \in I, NEW p \in P, NEW n \in N, NEW w
  PROVE  Key(i, p, n, w) \in {Key(x, y, z, w) : x \in I, y \in P, z \in N}
OBVIOUS

LEMMA LiteralHolds ==
  ASSUME CampaignInv, verdict.status = "pass", request.kind = "literal"
  PROVE  LiteralPromise
<1>1. /\ ~LiteralFails(Rows) /\ ~LiteralLacks(Rows, request) /\ Done
  BY PassingIs DEF Fails, Lacks
<1>2. /\ AllRan(Rows) /\ \A r \in Passed(Rows) : r.value.within
      /\ \A x, y \in Passed(Rows) : y \in Group(Rows, x) => x.value.archive = y.value.archive
  BY <1>1, Zenon DEF LiteralFails, Varied
<1>3. /\ \A r \in Rows : Cardinality(Group(Rows, r)) = request.reps
      /\ RequiredDomains \subseteq {i.domain : i \in request.items}
      /\ request.profiles = RequiredProfiles /\ request.reps \in Nat /\ request.reps >= 2
  BY <1>1, RowsAre, GateAssumption DEF LiteralLacks
<1>4. {r.key : r \in Rows} = LiteralPlan(request)
  BY <1>1, TypesHold DEF GateTypeOK, Plan
<1>5. \A r \in Rows :
        /\ r \in Passed(Rows) /\ r.o.end = "ok" /\ r.value.archive = r.o.archive
        /\ ArchiveSize[r.o.archive] \in Nat
        /\ ArchiveSize[r.o.archive] <= MaximumArchive(Original, Blocks)
  <2> SUFFICES ASSUME NEW r \in Rows
               PROVE  /\ r \in Passed(Rows) /\ r.o.end = "ok" /\ r.value.archive = r.o.archive
                      /\ ArchiveSize[r.o.archive] \in Nat
                      /\ ArchiveSize[r.o.archive] <= MaximumArchive(Original, Blocks)
    OBVIOUS
  <2>1. r \in Passed(Rows) /\ r.value.status = "ok"  BY <1>2 DEF AllRan, Passed
  <2>2. r.o \in Outcomes("literal") /\ LiteralTold(r.value, r.o)
    BY RowsAre DEF Told
  <2>3. r.o.end = "ok" /\ r.value.archive = r.o.archive /\ WithinBound(r.o)
    BY <1>2, <2>1, <2>2, Zenon DEF LiteralTold
  <2> QED  BY <2>1, <2>2, <2>3, GateAssumption DEF WithinBound
<1> SUFFICES ASSUME NEW d \in RequiredDomains, NEW p \in RequiredProfiles
             PROVE  \E i \in request.items :
                      /\ i.domain = d
                      /\ SmallAndStable({r \in Rows : r.key.item = i /\ r.key.profile = p})
  BY DEF LiteralPromise
<1>6. PICK i \in request.items : i.domain = d  BY <1>3
<1> DEFINE of == {r \in Rows : r.key.item = i /\ r.key.profile = p}
<1>7. Key(i, p, 1, "timed") \in LiteralPlan(request)
  <2>1. /\ i \in {x \in request.items : x.domain \in RequiredDomains}
        /\ p \in request.profiles /\ 1 \in 1..request.reps
    BY <1>3, <1>6
  <2> QED  BY <2>1, KeysHave DEF LiteralPlan
<1>8. PICK first \in Rows : first.key = Key(i, p, 1, "timed")  BY <1>4, <1>7
<1>9. first \in of /\ of = Group(Rows, first)
  <2>1. first.key.item = i /\ first.key.profile = p  BY <1>8, KeyHas
  <2> QED  BY <2>1 DEF Group
<1>10. Cardinality(of) >= 2  BY <1>3, <1>9
<1>11. {r.o.archive : r \in of} = {first.o.archive}
  BY <1>2, <1>5, <1>9
<1>12. ASSUME NEW r \in of
       PROVE  1000 * (ArchiveSize[r.o.archive] - Original - 256 - 232 * Blocks) <= Original
  <2>1. /\ ArchiveSize[r.o.archive] \in Nat
        /\ ArchiveSize[r.o.archive] <= MaximumArchive(Original, Blocks)
    BY <1>5
  <2>2. Original \in Nat /\ Blocks \in Nat  BY GateAssumption
  <2> QED  BY <2>1, <2>2, SMT DEF MaximumArchive, FixedOverhead
<1>13. Cardinality({r.o.archive : r \in of}) = 1  BY <1>11, FS_Singleton
<1>14. \A r \in of : r.o.end = "ok"  BY <1>5
<1>15. SmallAndStable(of)  BY <1>10, <1>12, <1>13, <1>14 DEF SmallAndStable
<1> QED  BY <1>6, <1>15, Zenon

LEMMA MemoryHolds ==
  ASSUME CampaignInv, verdict.status = "pass", request.kind = "memory"
  PROVE  MemoryPromise
<1>1. /\ ~MemoryFails(Rows) /\ ~MemoryLacks(Rows, request) /\ Done
  BY PassingIs DEF Fails, Lacks
<1>2. /\ request.profiles = RequiredProfiles /\ request.items # {}
      /\ request.reps \in Nat /\ request.reps >= MinReps /\ MinReps \in Nat
      /\ request.warmups \in Nat /\ request.warmups >= 1
  BY <1>1, RowsAre, GateAssumption DEF MemoryLacks
<1>3. {r.key : r \in Rows} = MemoryPlan(request)
  BY <1>1, TypesHold DEF GateTypeOK, Plan
<1>4. \A r \in Rows : /\ r.o.end = "ok"
                      /\ r.o.encoder \in 1..EncoderLimit - 1
                      /\ r.o.decoder \in 1..DecoderLimit - 1
  <2> SUFFICES ASSUME NEW r \in Rows
               PROVE  /\ r.o.end = "ok"
                      /\ r.o.encoder \in 1..EncoderLimit - 1
                      /\ r.o.decoder \in 1..DecoderLimit - 1
    OBVIOUS
  <2>1. r.o \in Outcomes("memory") /\ MemoryTold(r.value, r.o)
    BY RowsAre DEF Told
  <2>2. r.o.end = "ok" /\ Under(r.o.encoder, EncoderLimit) /\ Under(r.o.decoder, DecoderLimit)
    BY <1>1, <2>1, Zenon DEF MemoryFails, MemoryTold
  <2>3. r.o.encoder \in Nat /\ r.o.decoder \in Nat  BY <2>1, GateAssumption
  <2> QED  BY <2>2, <2>3 DEF Under, EncoderLimit, DecoderLimit
<1> SUFFICES ASSUME NEW p \in RequiredProfiles
             PROVE  LET of == {r \in Rows : r.key.profile = p}
                    IN  /\ Cardinality({r \in of : r.key.phase = "timed"}) >= MinReps
                        /\ \E r \in of : r.key.phase = "warmup"
  BY <1>4 DEF MemoryPromise
<1> DEFINE of == {r \in Rows : r.key.profile = p}
           timed == {r \in of : r.key.phase = "timed"}
<1>5. PICK i \in request.items : TRUE  BY <1>2
<1>6. \E r \in of : r.key.phase = "warmup"
  <2>1. Key(i, p, 1, "warmup") \in MemoryPlan(request)
    <3>1. p \in request.profiles /\ 1 \in 1..request.warmups  BY <1>2
    <3> QED  BY <3>1, KeysHave DEF MemoryPlan
  <2>2. PICK r \in Rows : r.key = Key(i, p, 1, "warmup")  BY <1>3, <2>1
  <2>3. r.key.profile = p /\ r.key.phase = "warmup"  BY <2>2, KeyHas
  <2> QED  BY <2>2, <2>3
<1>7. Cardinality(timed) >= MinReps
  <2> DEFINE Nth(n) == CHOOSE r \in Rows : r.key = Key(i, p, n, "timed")
             nth == [n \in 1..request.reps |-> Nth(n)]
  <2>1. ASSUME NEW n \in 1..request.reps
        PROVE  Nth(n) \in Rows /\ Nth(n).key = Key(i, p, n, "timed")
    <3>1. Key(i, p, n, "timed") \in MemoryPlan(request)
      <4>1. p \in request.profiles  BY <1>2
      <4> QED  BY <4>1, KeysHave DEF MemoryPlan
    <3>2. \E r \in Rows : r.key = Key(i, p, n, "timed")  BY <1>3, <3>1
    <3> QED  BY <3>2
  <2> HIDE DEF Nth
  <2>2. ASSUME NEW n \in 1..request.reps
        PROVE  Nth(n) \in timed /\ Nth(n).key.rep = n
    <3>1. /\ Nth(n).key.profile = p /\ Nth(n).key.rep = n
          /\ Nth(n).key.phase = "timed"
      BY <2>1, KeyHas
    <3> QED  BY <2>1, <3>1
  <2> HIDE DEF timed
  <2>3. nth \in [1..request.reps -> timed]  BY <2>2
  <2>4. \A n \in 1..request.reps : nth[n].key.rep = n  BY <2>2
  <2> HIDE DEF nth
  <2>5. nth \in Injection(1..request.reps, timed)
    BY <2>3, <2>4 DEF Injection, IsInjective
  <2>6. IsFiniteSet(timed)
    <3>1. timed \in SUBSET Rows  BY DEF timed
    <3> QED  BY <3>1, RowsAre, FS_Subset, Zenon
  <2>7. Cardinality(1..request.reps) = request.reps  BY SMTT(40), <1>2, FS_Interval
  <2>8. Cardinality(1..request.reps) <= Cardinality(timed) /\ Cardinality(timed) \in Nat
    BY <2>5, <2>6, FS_Injection, FS_CardinalityType
  <2> QED  BY <1>2, <2>7, <2>8
<1> QED  BY <1>6, <1>7

LEMMA FuzzHolds ==
  ASSUME CampaignInv, verdict.status = "pass", request.kind = "fuzz"
  PROVE  FuzzPromise
<1>1. AllRan(Rows)  BY PassingIs DEF Fails
<1>2. \A r \in Rows : r.value.status = "ok" /\ FuzzTold(r.value, r.o)
  BY <1>1, RowsAre DEF AllRan, Passed, Told
<1> QED  BY <1>2 DEF FuzzTold, FuzzPromise
\* A sum of numbers of which none is positive is not positive.
LEMMA SomeIsPositive ==
  ASSUME NEW rows, IsFiniteSet(rows), \A r \in rows : r.value.gain \in Int,
         Sum(rows, "gain") > 0
  PROVE  \E r \in rows : r.value.gain > 0
<1> SUFFICES ASSUME \A r \in rows : r.value.gain <= 0 PROVE FALSE
  OBVIOUS
<1> DEFINE Of(r) == {r} \X (1..(-1 * r.value["gain"]))
           parts == {Of(r) : r \in rows}
           to == [r \in rows |-> Of(r)]
<1>1. Units(rows, 1, "gain") = {}
  <2>1. \A r \in rows : 1..(1 * r.value["gain"]) = {}  OBVIOUS
  <2> QED  BY <2>1 DEF Units
<1>2. \A r \in rows : IsFiniteSet(Of(r))
  <2> SUFFICES ASSUME NEW r \in rows PROVE IsFiniteSet(Of(r))  OBVIOUS
  <2>1. -1 * r.value["gain"] \in Int  OBVIOUS
  <2> DEFINE upTo == 1..(-1 * r.value["gain"])
  <2>2. IsFiniteSet(upTo)  BY <2>1, FS_Interval
  <2>3. IsFiniteSet({r})  BY FS_Singleton
  <2> HIDE DEF upTo
  <2>4. IsFiniteSet({r} \X upTo)  BY <2>2, <2>3, FS_Product
  <2> QED  BY <2>4 DEF upTo
<1>3. Units(rows, -1, "gain") = UNION parts  BY DEF Units
<1> HIDE DEF Of
<1>4. to \in Surjection(rows, parts)  BY DEF Surjection
<1> HIDE DEF to
<1>5. IsFiniteSet(parts)  BY <1>4, FS_Surjection
<1>6. \A T \in parts : IsFiniteSet(T)  BY <1>2
<1> HIDE DEF parts
<1>7. Cardinality(Units(rows, -1, "gain")) \in Nat
  BY <1>3, <1>5, <1>6, FS_UNION, FS_CardinalityType
<1>8. Cardinality(Units(rows, 1, "gain")) = 0  BY <1>1, FS_EmptySet
<1> QED  BY <1>7, <1>8 DEF Sum

\* Of numbers whose mean is at least 50, one is.
LEMMA SomeIsMean ==
  ASSUME NEW rows, IsFiniteSet(rows), rows # {}, \A r \in rows : r.value.functions \in Nat,
         2 * Sum(rows, "functions") >= 100 * Cardinality(rows)
  PROVE  \E r \in rows : r.value.functions >= 50
<1> SUFFICES ASSUME \A r \in rows : r.value.functions < 50 PROVE FALSE
  OBVIOUS
<1>1. Units(rows, -1, "functions") = {}
  <2>1. \A r \in rows : 1..(-1 * r.value["functions"]) = {}  OBVIOUS
  <2> QED  BY <2>1 DEF Units
<1>2. Units(rows, 1, "functions") \in SUBSET (rows \X (1..49))
  <2>1. \A r \in rows : 1..(1 * r.value["functions"]) \subseteq 1..49  OBVIOUS
  <2>2. \A r \in rows : {r} \X (1..(1 * r.value["functions"])) \subseteq rows \X (1..49)
    BY <2>1
  <2> QED  BY <2>2 DEF Units
<1>3. IsFiniteSet(1..49) /\ Cardinality(1..49) = 49
  <2>1. 1 \in Int /\ 49 \in Int  OBVIOUS
  <2>2. IsFiniteSet(1..49) /\ Cardinality(1..49) = IF 1 > 49 THEN 0 ELSE 49 - 1 + 1
    BY <2>1, FS_Interval, Zenon
  <2> QED  BY <2>2
<1>4. IsFiniteSet(rows \X (1..49)) /\ Cardinality(rows \X (1..49)) = Cardinality(rows) * 49
  BY <1>3, FS_Product
<1>5. /\ IsFiniteSet(Units(rows, 1, "functions"))
      /\ Cardinality(Units(rows, 1, "functions")) <= Cardinality(rows) * 49
  BY <1>2, <1>4, FS_Subset
<1>6. /\ Cardinality(Units(rows, 1, "functions")) \in Nat
      /\ Cardinality(Units(rows, -1, "functions")) = 0
      /\ Cardinality(rows) \in Nat /\ Cardinality(rows) # 0
  BY <1>1, <1>5, FS_EmptySet, FS_CardinalityType
<1> QED  BY <1>5, <1>6 DEF Sum

LEMMA ProceduralHolds ==
  ASSUME CampaignInv, verdict.status = "pass", request.kind = "procedural"
  PROVE  ProceduralPromise
<1>1. ~ProceduralFails(Rows) /\ Done
  BY PassingIs DEF Fails
<1>2. /\ {r.key : r \in Rows} = ProceduralPlan(request)
      /\ CaseGenerators \subseteq {i.id : i \in request.items}
  <2>1. Plan(request) = ProceduralPlan(request)  BY SMT DEF Plan
  <2>2. ProceduralSelected(request)
    BY <1>1 DEF CampaignInv, PlanKept, Done, Stage, PlannedSteps, RunningSteps
  <2> QED  BY <1>1, <2>1, <2>2, TypesHold DEF GateTypeOK, ProceduralSelected
<1>3. ASSUME NEW r \in Rows, r.value.status = "ok"
      PROVE  /\ r.o.end = "ok" /\ r.value.functions = r.o.functions
             /\ r.value.leaves = r.o.leaves /\ r.value.gain = r.o.gain
             /\ r.value.functions \in Nat /\ r.value.gain \in Int
  <2>1. r.o \in Outcomes("procedural") /\ ProceduralTold(r.value, r.o)
    BY RowsAre DEF Told
  <2> QED  BY <1>3, <2>1, GateAssumption DEF ProceduralTold
<1>4. ASSUME NEW g \in CaseGenerators
      PROVE  \E r \in Rows :
               r.key.item.id = g /\ r.o.functions >= 99 /\ r.o.leaves = 0 /\ r.o.gain > 0
  <2>1. PICK i \in request.items : i.id = g  BY <1>2
  <2>2. PICK r \in Rows : r.key = Key(i, "structured", 1, "timed")
    BY <1>2 DEF ProceduralPlan
  <2>3. r.key.item.id = g /\ Exact(r)  BY <2>1, <2>2, KeyHas DEF Exact
  <2>4. r \in Passed(Rows) /\ r.value.status = "ok"
    BY <1>1 DEF ProceduralFails, AllRan, Passed
  <2>5. ~(r.value.functions < 99 \/ r.value.leaves # 0 \/ r.value.gain <= 0)
    BY <1>1, <2>3, <2>4, Zenon DEF ProceduralFails
  <2> QED  BY <1>3, <2>3, <2>4, <2>5
<1>5. PICK d \in Domains(Rows) : Wins(Rows, d)  BY <1>1, Zenon DEF ProceduralFails
<1> DEFINE files == OfDomain(Rows, d)
<1>6. AllRan(files) /\ Sum(files, "gain") > 0 /\ 2 * Sum(files, "functions") >= 100 * Cardinality(files)
  BY <1>5, Zenon DEF Wins
<1>7. files \in SUBSET Rows /\ files # {}  BY DEF OfDomain, Domains
<1>8. IsFiniteSet(files)  BY <1>7, RowsAre, FS_Subset, Zenon
<1> HIDE DEF files
<1>9. \A r \in files : /\ r.o.end = "ok" /\ r.value.functions = r.o.functions
                       /\ r.value.gain = r.o.gain
                       /\ r.value.functions \in Nat /\ r.value.gain \in Int
  BY <1>3, <1>6, <1>7 DEF AllRan, Passed
<1>10. \E r \in files : r.value.gain > 0  BY <1>6, <1>8, <1>9, SomeIsPositive
<1>11. \E r \in files : r.value.functions >= 50  BY <1>6, <1>7, <1>8, <1>9, SomeIsMean
<1> DEFINE of == {r.o : r \in files}
<1>12. /\ \A o \in of : o.end = "ok"
       /\ \E o \in of : o.gain > 0
       /\ \E o \in of : o.functions >= 50
  BY <1>9, <1>10, <1>11
<1> HIDE DEF of
<1> QED  BY <1>4, <1>12 DEF ProceduralPromise, of, files

\* What the verdict is worth follows from the invariant.
LEMMA ReportsFollow == CampaignInv => ReportsAreTrue
<1> SUFFICES ASSUME CampaignInv PROVE ReportsAreTrue  OBVIOUS
<1>1. PassMeansPromise
  <2> SUFFICES ASSUME verdict.status = "pass"
               PROVE  /\ request.kind = "literal" => LiteralPromise
                      /\ request.kind = "memory" => MemoryPromise
                      /\ request.kind = "procedural" => ProceduralPromise
                      /\ request.kind = "fuzz" => FuzzPromise
                      /\ request.kind # "determinism"
    BY RowsAre DEF PassMeansPromise, Kinds
  <2>1. request.kind # "determinism"  BY PassingIs DEF Lacks
  <2> QED  BY <2>1, LiteralHolds, MemoryHolds, ProceduralHolds, FuzzHolds
<1> QED  BY <1>1, TypesHold, FilesHold, FailuresHold DEF ReportsAreTrue

\* A report of a verification campaign is true, whatever was asked for, went
\* wrong or was replaced while it ran: a pass names the files that every row
\* was run with and is the gate's promise about the outcomes themselves, and
\* a failure is never published as anything else.
THEOREM TrueReports == GateSpec => []ReportsAreTrue
<1>1. GateInit => CampaignInv  BY FirstInv
<1>2. CampaignInv /\ [GateNext]_gateVars => CampaignInv'  BY CampaignInvIsKept
<1>3. CampaignInv => ReportsAreTrue  BY ReportsFollow
<1> QED  BY <1>1, <1>2, <1>3, PTL DEF GateSpec

-----------------------------------------------------------------------------
(* The determinism matrix: any number of environments, cells, repetitions  *)
(* and surprises.                                                          *)

FileVersions == [input : Nat, debug : Nat, release : Nat]
VersionNames == {"input", "debug", "release"}
RunFields == {"pc", "existing", "rows", "reference", "planned", "source", "start",
              "build", "todo", "rep", "stopped", "gate"}
RunLabels == {"start", "identify", "matrix", "done", "error"}
Hashes == Archives \cup {""}

\* What every row that is anywhere says.
RowTyped(r) ==
  /\ r.planned \in Nat /\ r.at.env \in Envs /\ r.at.source \in Sources
  /\ r.at.build \in Builds /\ r.reference \in Hashes

RunTyped(run) ==
  /\ run = [f \in RunFields |-> run[f]]
  /\ run.pc \in RunLabels /\ run.reference \in Hashes
  /\ run.planned \in Nat /\ run.rep \in 0..(run.planned - 1)
  /\ run.start \in FileVersions /\ run.source \in Sources
  /\ run.build \in Builds \cup {"none"}
  /\ IsFiniteSet(run.existing) /\ IsFiniteSet(run.rows)
  /\ \A r \in run.existing \cup run.rows : RowTyped(r)

SameAxes(c, d) == c.thread = d.thread /\ c.backend = d.backend
CellsFit(todo) ==
  /\ \A c \in todo : c.thread = "default" <=> ~c.required
  /\ \A c, d \in todo : SameAxes(c, d) => c = d

\* A row of run e names what the run has read, and no repetition that is left.
Placed(e, run, r) ==
  /\ r.at.env = e /\ r.at.source = run.source /\ r.at.input = run.start.input
  /\ r.at.build \in Builds /\ (run.build = "debug" => r.at.build = "debug")
  /\ r.at.binary = e.binary[r.at.build] + run.start[r.at.build]
  /\ r.at.build = run.build =>
       \A c \in run.todo : SameAxes(c, r.at) => c = NextCell(run.todo) /\ r.at.rep < run.rep

OwnRows(e, run) ==
  /\ run.pc \in {"start", "identify"} => run.build = "none" /\ run.rows = {}
  /\ run.pc # "matrix" => run.todo = {}
  /\ run.pc = "matrix" =>
       /\ CellsFit(run.todo) /\ Readable(run.rows)
       /\ run.build = "none" => run.rows = {} /\ run.todo = {}
       /\ \A r \in run.rows : Placed(e, run, r)
  /\ run.pc = "done" => Readable(run.rows) /\ run.gate = Gate(run.rows)

\* A row that says ok stands for an execution that restored the input.
KnownIn(r, rans) ==
  r.status = "ok" => \E x \in rans : x.row = r /\ x.out.end = "ok" /\ x.out.archive = r.archive

\* FileVersions only grow, so what an execution met lies between the version that
\* its run hashed and the one that is there; a run that is done found them equal.
RanFits(e, run, versions, x) ==
  x.row.at.env = e =>
    /\ run.pc \notin {"start", "identify"}
    /\ run.pc = "matrix" =>
         /\ x.row \in run.rows /\ x.binary \in Int /\ x.input \in Int
         /\ x.row.at.binary <= x.binary
         /\ x.binary <= e.binary[x.row.at.build] + versions[x.row.at.build]
         /\ x.row.at.input <= x.input /\ x.input <= versions.input
    /\ run.pc = "done" => x.binary = x.row.at.binary /\ x.input = x.row.at.input

RanTells(x) ==
  x.out.end = "ok" => /\ x.row.status \in {"ok", "failed"}
                      /\ x.row.archive = x.out.archive /\ x.out.archive \in Archives

RunInv(e) ==
  /\ RunTyped(runner[e]) /\ OwnRows(e, runner[e])
  /\ \A f \in VersionNames : runner[e].start[f] <= onDisk[e][f]
  /\ \A r \in runner[e].existing \cup runner[e].rows : KnownIn(r, ran)
  /\ \A r \in runner[e].existing : runner[r.at.env].pc = "done"
  /\ runner[e].pc = "done" => \A r \in runner[e].rows : runner[r.at.env].pc = "done"
  /\ \A x \in ran : RanFits(e, runner[e], onDisk[e], x)

MatrixInv ==
  /\ runner = [e \in Envs |-> runner[e]] /\ onDisk \in [Envs -> FileVersions]
  /\ surprises \in 0..MaxSurprises
  /\ IsFiniteSet(RowsOnDisk)
  /\ \A r \in RowsOnDisk : RowTyped(r) /\ KnownIn(r, ran) /\ runner[r.at.env].pc = "done"
  /\ \A e \in Envs : RunInv(e)
  /\ \A x \in ran : RanTells(x)

-----------------------------------------------------------------------------
(* Cells and rows.                                                         *)

LEMMA NextIs == ASSUME NEW todo, todo # {} PROVE NextCell(todo) \in todo
BY DEF NextCell

\* _axis_cells: the cells of a build differ in thread mode or backend, and the
\* required ones are those with a thread mode.
LEMMA CellsOfFit == ASSUME NEW c PROVE CellsFit(CellsOf(c))
<1> DEFINE first == AxisCell("default", "default", FALSE, c.up)
<1> DEFINE cell(t, b) == AxisCell(t, b, TRUE, Offered(c, b))
<1> DEFINE withThread(t) == AxisCell(t, "default", TRUE, c.up)
<1> DEFINE withBackend(b) == AxisCell("default", b, FALSE, TRUE)
<1>1. /\ first.thread = "default" /\ first.backend = "default" /\ ~first.required
  BY DEF AxisCell
<1>2. \A x \in RequiredCells(c) : \E t \in Threads, b \in Backends : x = cell(t, b)
  <2>1. RequiredCells(c) = {cell(t, b) : t \in Threads, b \in Backends}
    BY DEF RequiredCells
  <2> HIDE DEF cell
  <2> QED  BY <2>1
<1>3. \A x \in Supplement(c) :
        \/ \E t \in Threads : x = withThread(t)
        \/ \E b \in Backends : x = withBackend(b)
  BY DEF Supplement
<1>4. \A x \in CellsOf(c) : x = first \/ x \in RequiredCells(c) \/ x \in Supplement(c)
  BY DEF CellsOf
<1>5. ASSUME NEW t, NEW b
      PROVE  cell(t, b).thread = t /\ cell(t, b).backend = b /\ cell(t, b).required
  BY DEF AxisCell
<1>5b. ASSUME NEW t
      PROVE  /\ withThread(t).thread = t /\ withThread(t).backend = "default"
             /\ withThread(t).required
  BY DEF AxisCell
<1>5c. ASSUME NEW b
      PROVE  /\ withBackend(b).thread = "default" /\ withBackend(b).backend = b
             /\ ~withBackend(b).required
  BY DEF AxisCell
<1> HIDE DEF first, cell, withThread, withBackend
<1>6. \A x \in RequiredCells(c) :
        x.thread \in Threads /\ x.backend \in Backends /\ x.required
  BY <1>2, <1>5
<1>7. \A x \in Supplement(c) :
        \/ x.thread \in Threads /\ x.backend = "default" /\ x.required
        \/ x.thread = "default" /\ x.backend \in Backends /\ ~x.required
  BY <1>3, <1>5b, <1>5c
<1>8. "default" \notin Threads /\ "default" \notin Backends  BY MatrixAssumption
<1>9. ASSUME NEW x \in CellsOf(c) PROVE x.thread = "default" <=> ~x.required
  BY <1>1, <1>4, <1>6, <1>7, <1>8
<1>10. ASSUME NEW x \in CellsOf(c), NEW y \in CellsOf(c), SameAxes(x, y) PROVE x = y
  <2>1. x.thread = y.thread /\ x.backend = y.backend  BY <1>10 DEF SameAxes
  <2>2. CASE x \in RequiredCells(c) /\ y \in RequiredCells(c)
    BY <1>2, <1>5, <2>1, <2>2
  <2>3. CASE x \in Supplement(c) /\ y \in Supplement(c)
    BY <1>3, <1>5b, <1>5c, <1>8, <2>1, <2>3
  <2>4. CASE x = first /\ y = first  BY <2>4
  <2>5. CASE (x = first /\ y # first) \/ (x # first /\ y = first)
    BY <1>1, <1>4, <1>6, <1>7, <1>8, <2>1, <2>5
  <2>6. CASE x \in RequiredCells(c) /\ y \in Supplement(c)
    BY <1>6, <1>7, <1>8, <2>1, <2>6
  <2>7. CASE y \in RequiredCells(c) /\ x \in Supplement(c)
    BY <1>6, <1>7, <1>8, <2>1, <2>7
  <2> QED  BY <1>4, <2>2, <2>3, <2>4, <2>5, <2>6, <2>7
<1> QED  BY <1>9, <1>10 DEF CellsFit

LEMMA PlaceIs ==
  ASSUME NEW e, NEW cell, NEW at, at = PlaceOf(e, cell)
  PROVE  /\ at.env = e /\ at.source = runner[e].source /\ at.build = runner[e].build
         /\ at.binary = e.binary[runner[e].build] + runner[e].start[runner[e].build]
         /\ at.input = runner[e].start.input /\ at.thread = cell.thread
         /\ at.backend = cell.backend /\ at.rep = runner[e].rep
BY DEF PlaceOf

LEMMA RowAtIs ==
  ASSUME NEW e, NEW cell, NEW status, NEW archive, NEW reference, NEW holds,
         NEW row, row = RowAt(e, cell, status, archive, reference, holds)
  PROVE  /\ row.at = PlaceOf(e, cell) /\ row.planned = runner[e].planned
         /\ row.required = cell.required /\ row.status = status /\ row.archive = archive
         /\ row.reference = reference /\ row.holds = holds
BY DEF RowAt

\* What a run may add for a cell.
RowFor(e, cell, row) ==
  /\ row.at = PlaceOf(e, cell) /\ row.planned = runner[e].planned
  /\ row.required = cell.required /\ row.reference \in Hashes
  /\ row.status \in {"ok", "failed", "timeout", "unavailable"}
  /\ row.status = "ok" =>
       /\ row.archive \in Archives /\ row.archive = row.reference
       /\ "metrics" \in row.holds /\ "roundtrip" \in row.holds
  /\ row.status = "unavailable" => row.archive = "" /\ row.holds = {}

LEMMA UnavailableIs ==
  ASSUME NEW e, NEW cell, runner[e].reference \in Hashes
  PROVE  RowFor(e, cell, Unavailable(e, cell)) /\ Unavailable(e, cell).status = "unavailable"
<1> DEFINE row == Unavailable(e, cell)
<1> HIDE DEF row
<1>1. row = RowAt(e, cell, "unavailable", "", runner[e].reference, {})  BY DEF Unavailable, row
<1>2. /\ row.at = PlaceOf(e, cell) /\ row.planned = runner[e].planned
      /\ row.required = cell.required /\ row.reference = runner[e].reference
      /\ row.status = "unavailable" /\ row.archive = "" /\ row.holds = {}
  BY <1>1 DEF RowAt
<1>3. RowFor(e, cell, row)  BY <1>2 DEF RowFor
<1> QED  BY <1>2, <1>3 DEF row

\* _execute_cell: only a command that restored the input leaves a row that says
\* ok, and such a row says what the command gave.
LEMMA RecordIs ==
  ASSUME NEW e, NEW cell, NEW ends, NEW out \in [end : ends, archive : Archives],
         runner[e].reference \in Hashes
  PROVE  /\ RowFor(e, cell, Record(e, cell, out))
         /\ ReferenceAfter(out, runner[e].reference) \in Hashes
         /\ Record(e, cell, out).status = "ok" => out.end = "ok"
         /\ out.end = "ok" => /\ Record(e, cell, out).status \in {"ok", "failed"}
                              /\ Record(e, cell, out).archive = out.archive
<1> DEFINE ref == ReferenceAfter(out, runner[e].reference)
<1>1. out.archive \in Archives  OBVIOUS
<1>2. ref \in Hashes  BY <1>1 DEF ReferenceAfter, Hashes
<1>3. CASE out.end = "ok"
  <2>1. Record(e, cell, out) = Restored(e, cell, out)  BY <1>3 DEF Record
  <2> DEFINE status == IF out.archive = ref THEN "ok" ELSE "failed"
  <2>2. Restored(e, cell, out) =
          RowAt(e, cell, status, out.archive, ref, {"metrics", "roundtrip"})
    BY DEF Restored
  <2>3. status \in {"ok", "failed"} /\ (status = "ok" => out.archive = ref)  OBVIOUS
  <2> DEFINE row == Record(e, cell, out)
  <2> HIDE DEF ref, status, row
  <2>4. row = RowAt(e, cell, status, out.archive, ref, {"metrics", "roundtrip"})
    BY <2>1, <2>2 DEF row
  <2>5. /\ row.at = PlaceOf(e, cell) /\ row.planned = runner[e].planned
        /\ row.required = cell.required /\ row.status = status
        /\ row.archive = out.archive /\ row.reference = ref
        /\ row.holds = {"metrics", "roundtrip"}
    BY <2>4, RowAtIs
  <2>6. RowFor(e, cell, row)  BY <1>1, <1>2, <2>3, <2>5 DEF RowFor
  <2> QED  BY <1>2, <1>3, <2>3, <2>5, <2>6 DEF row, ref
<1>4. CASE out.end # "ok" /\ StatusOf(out.end) = "unavailable"
  BY <1>2, <1>4, UnavailableIs DEF Record
<1>5. CASE out.end # "ok" /\ StatusOf(out.end) # "unavailable"
  <2>1. Record(e, cell, out) = Fell(e, cell, out)  BY <1>5 DEF Record
  <2>2. StatusOf(out.end) \in {"timeout", "failed"}  BY <1>5 DEF StatusOf
  <2>3. Fell(e, cell, out) = RowAt(e, cell, StatusOf(out.end), ArchiveOf(out),
                                   runner[e].reference, {"metrics"})
    BY DEF Fell
  <2> DEFINE row == Record(e, cell, out)
  <2> HIDE DEF ref, row
  <2>4. row = RowAt(e, cell, StatusOf(out.end), ArchiveOf(out), runner[e].reference,
                    {"metrics"})
    BY <2>1, <2>3 DEF row
  <2>5. /\ row.at = PlaceOf(e, cell) /\ row.planned = runner[e].planned
        /\ row.required = cell.required /\ row.status = StatusOf(out.end)
        /\ row.reference = runner[e].reference
    BY <2>4, RowAtIs
  <2>6. RowFor(e, cell, row)  BY <2>2, <2>5 DEF RowFor
  <2> QED  BY <1>2, <1>5, <2>2, <2>5, <2>6 DEF row, ref
<1> QED  BY <1>3, <1>4, <1>5

-----------------------------------------------------------------------------
(* Runs.                                                                   *)

LEMMA BecomeIs ==
  ASSUME MatrixInv, NEW e \in Envs, NEW run, Become(e, run)
  PROVE  /\ runner' = [f \in Envs |-> runner'[f]] /\ runner'[e] = run
         /\ \A f \in Envs \ {e} : runner'[f] = runner[f]
<1>1. runner = [f \in Envs |-> runner[f]]  BY DEF MatrixInv
<1> QED  BY <1>1 DEF Become

LEMMA KnownStays == ASSUME ran \subseteq ran', NEW r, KnownIn(r, ran) PROVE KnownIn(r, ran')
BY DEF KnownIn

\* A step of one run leaves what the others rely on.
LEMMA OthersKeep ==
  ASSUME MatrixInv, NEW e \in Envs, NEW run, Become(e, run), onDisk' = onDisk,
         runner[e].pc # "done", ran \subseteq ran', \A x \in ran' \ ran : x.row.at.env = e,
         NEW f \in Envs \ {e}
  PROVE  RunInv(f)'
<1>1. \A g \in Envs : runner[g].pc = "done" => runner'[g].pc = "done"  BY BecomeIs
<1>2. RunInv(f)  BY DEF MatrixInv
<1>3. RunTyped(runner[f])  BY <1>2 DEF RunInv
<1>4. \A r \in runner[f].existing \cup runner[f].rows : r.at.env \in Envs
  BY <1>3 DEF RunTyped, RowTyped
<1>5. \A r \in runner[f].existing \cup runner[f].rows : KnownIn(r, ran')
  BY <1>2, KnownStays DEF RunInv
<1>6. \A r \in runner[f].existing : runner'[r.at.env].pc = "done"
  BY <1>1, <1>2, <1>4 DEF RunInv
<1>7. runner[f].pc = "done" => \A r \in runner[f].rows : runner'[r.at.env].pc = "done"
  BY <1>1, <1>2, <1>4 DEF RunInv
<1>8. \A x \in ran' : RanFits(f, runner[f], onDisk[f], x)
  <2> SUFFICES ASSUME NEW x \in ran' PROVE RanFits(f, runner[f], onDisk[f], x)
    OBVIOUS
  <2>1. CASE x \in ran  BY <1>2, <2>1 DEF RunInv
  <2>2. CASE x \notin ran  BY <2>2 DEF RanFits
  <2> QED  BY <2>1, <2>2
<1>9. runner'[f] = runner[f] /\ onDisk'[f] = onDisk[f]  BY BecomeIs
<1>10. OwnRows(f, runner[f]) /\ \A v \in VersionNames : runner[f].start[v] <= onDisk[f][v]
  BY <1>2 DEF RunInv
<1> QED  BY <1>3, <1>5, <1>6, <1>7, <1>8, <1>9, <1>10 DEF RunInv

\* Every step of a run but its end: nothing on the disk changes, and what the
\* run becomes fits what has been executed.
LEMMA BecomeKeeps ==
  ASSUME MatrixInv, NEW e \in Envs, NEW run, Become(e, run),
         UNCHANGED <<csv, onDisk>>, surprises' \in 0..MaxSurprises,
         runner[e].pc # "done", run.pc # "done",
         RunTyped(run), OwnRows(e, run),
         \A f \in VersionNames : run.start[f] <= onDisk[e][f],
         \A r \in run.existing : runner[r.at.env].pc = "done",
         \A r \in run.existing \cup run.rows : KnownIn(r, ran'),
         ran \subseteq ran',
         \A x \in ran' : RanFits(e, run, onDisk[e], x) /\ RanTells(x),
         \A x \in ran' \ ran : x.row.at.env = e
  PROVE  MatrixInv'
<1>1. /\ runner' = [f \in Envs |-> runner'[f]] /\ runner'[e] = run
      /\ \A f \in Envs \ {e} : runner'[f] = runner[f]
  BY BecomeIs
<1>2. RowsOnDisk' = RowsOnDisk  BY DEF RowsOnDisk, Exists
<1>3. \A f \in Envs : runner[f].pc = "done" => runner'[f].pc = "done"  BY <1>1
<1>4. \A r \in RowsOnDisk' : RowTyped(r) /\ KnownIn(r, ran') /\ runner'[r.at.env].pc = "done"
  BY <1>2, <1>3, KnownStays DEF MatrixInv, RowTyped
<1>5. RunInv(e)'
  <2>1. \A r \in run.existing : r.at.env \in Envs  BY DEF RunTyped, RowTyped
  <2>2. \A r \in run.existing : runner'[r.at.env].pc = "done"  BY <1>3, <2>1
  <2> QED  BY <1>1, <2>2 DEF RunInv
<1>6. ASSUME NEW f \in Envs \ {e} PROVE RunInv(f)'  BY OthersKeep
<1>7. onDisk' \in [Envs -> FileVersions] /\ IsFiniteSet(RowsOnDisk')  BY <1>2 DEF MatrixInv
<1>8. \A f \in Envs : RunInv(f)'  BY <1>5, <1>6
<1> QED  BY <1>1, <1>4, <1>7, <1>8 DEF MatrixInv

LEMMA RestingTyped ==
  ASSUME NEW label \in RunLabels, NEW run, run = Resting(label)
  PROVE  /\ RunTyped(run) /\ run.pc = label /\ run.start = NoVersions
         /\ run.existing = {} /\ run.rows = {} /\ run.build = "none" /\ run.todo = {}
<1>1. run = [f \in RunFields |-> run[f]]  BY DEF Resting, RunFields
<1>2. /\ run.pc = label /\ run.start = NoVersions
      /\ run.existing = {} /\ run.rows = {} /\ run.build = "none" /\ run.todo = {}
      /\ run.reference = "" /\ run.planned = 1 /\ run.rep = 0 /\ run.source = CleanSource
  BY DEF Resting
<1>3. CleanSource \in Sources  BY DEF CleanSource, Sources
<1>4. NoVersions \in FileVersions  BY DEF NoVersions, FileVersions
<1>5. IsFiniteSet({})  BY FS_EmptySet
<1>6. RunTyped(run)
  <2>1. run.rep \in 0..(run.planned - 1) /\ run.planned \in Nat
    <3>1. run.rep = 0 /\ run.planned = 1  BY <1>2
    <3> QED  BY <3>1
  <2>2. \A r \in run.existing \cup run.rows : RowTyped(r)  BY <1>2
  <2>3. IsFiniteSet(run.existing) /\ IsFiniteSet(run.rows)  BY <1>2, <1>5
  <2> QED  BY <1>1, <1>2, <1>3, <1>4, <2>1, <2>2, <2>3 DEF RunTyped, Hashes
<1> QED  BY <1>2, <1>6

LEMMA RestingIs ==
  ASSUME NEW label \in RunLabels \ {"matrix", "done"}, NEW run, run = Resting(label)
  PROVE  /\ RunTyped(run) /\ run.pc = label /\ run.start = NoVersions
         /\ run.existing = {} /\ run.rows = {} /\ run.build = "none" /\ run.todo = {}
         /\ \A e : OwnRows(e, run)
<1>1. /\ RunTyped(run) /\ run.pc = label /\ run.start = NoVersions
      /\ run.existing = {} /\ run.rows = {} /\ run.build = "none" /\ run.todo = {}
  BY RestingTyped
<1>2. \A e : OwnRows(e, run)  BY <1>1 DEF OwnRows
<1> QED  BY <1>1, <1>2

\* A run that is over without an end has no say.
LEMMA AbortKeeps ==
  ASSUME MatrixInv, NEW e \in Envs, Abort(e), UNCHANGED <<csv, onDisk, ran>>,
         surprises' \in 0..MaxSurprises, runner[e].pc # "done"
  PROVE  MatrixInv'
<1> DEFINE run == Resting("error")
<1> HIDE DEF run
<1>1. /\ RunTyped(run) /\ run.pc = "error" /\ run.start = NoVersions
      /\ run.existing = {} /\ run.rows = {} /\ OwnRows(e, run)
  BY RestingIs DEF run, RunLabels
<1>2. Become(e, run)  BY DEF Abort, run
<1>3. \A f \in VersionNames : run.start[f] <= onDisk[e][f]
  BY <1>1 DEF MatrixInv, NoVersions, VersionNames, FileVersions
<1>4. \A x \in ran' : RanFits(e, run, onDisk[e], x) /\ RanTells(x)
  BY <1>1 DEF RanFits, MatrixInv
<1> QED  BY <1>1, <1>2, <1>3, <1>4, BecomeKeeps

LEMMA Surprised ==
  ASSUME MatrixInv, NEW n \in Nat, Surprise(n) PROVE surprises' \in 0..MaxSurprises
BY MatrixAssumption DEF MatrixInv, Surprise

LEMMA FirstMatrixInv == MatrixInit => MatrixInv
<1> SUFFICES ASSUME MatrixInit PROVE MatrixInv  OBVIOUS
<1>1. /\ csv = NoFile /\ ran = {} /\ surprises = 0
      /\ runner = [e \in Envs |-> Resting("start")]
      /\ onDisk = [e \in Envs |-> NoVersions]
  BY DEF MatrixInit
<1>2. RowsOnDisk = {}  BY <1>1 DEF RowsOnDisk, Exists
<1>3. NoVersions \in FileVersions  BY DEF NoVersions, FileVersions
<1>4. ASSUME NEW e \in Envs PROVE RunInv(e)
  <2>1. runner[e] = Resting("start")  BY <1>1
  <2>2. /\ RunTyped(runner[e]) /\ runner[e].pc = "start" /\ runner[e].start = NoVersions
        /\ runner[e].existing = {} /\ runner[e].rows = {} /\ OwnRows(e, runner[e])
    BY <2>1, RestingIs DEF RunLabels
  <2>3. \A f \in VersionNames : runner[e].start[f] <= onDisk[e][f]
    BY <1>1, <2>2 DEF NoVersions, VersionNames
  <2> QED  BY <1>1, <2>2, <2>3 DEF RunInv
<1>5. IsFiniteSet({})  BY FS_EmptySet
<1>6. surprises \in 0..MaxSurprises  BY <1>1, MatrixAssumption
<1> QED  BY <1>1, <1>2, <1>3, <1>4, <1>5, <1>6 DEF MatrixInv

\* A run that has read the rows that exist.
LEMMA StartKeeps == ASSUME MatrixInv, NEW e \in Envs, Start(e) PROVE MatrixInv'
<1>1. PICK append \in {"append", "replace"}, planned \in {1, LeastReps} :
        LET existing == IF append = "append" THEN RowsOnDisk ELSE {}
            refs == ReferencesOf(existing)
        IN  /\ Surprise(Unless(append = "append") + Unless(planned = LeastReps))
            /\ IF \/ ~Readable(existing) \/ Cardinality(refs) > 1
                  \/ ~(InputsOf(existing) \subseteq {onDisk[e].input})
               THEN Abort(e)
               ELSE Become(e, [Resting("identify") EXCEPT
                      !.existing = existing, !.planned = planned,
                      !.reference = IF refs = {} THEN "" ELSE CHOOSE h \in refs : TRUE])
  BY DEF Start
<1> DEFINE existing == IF append = "append" THEN RowsOnDisk ELSE {}
<1> DEFINE refs == ReferencesOf(existing)
<1> DEFINE reference == IF refs = {} THEN "" ELSE CHOOSE h \in refs : TRUE
<1>2. runner[e].pc = "start" /\ UNCHANGED <<csv, onDisk, ran>>  BY DEF Start
<1>3. surprises' \in 0..MaxSurprises
  <2> DEFINE n == Unless(append = "append") + Unless(planned = LeastReps)
  <2>1. n \in Nat  BY DEF Unless
  <2> HIDE DEF n
  <2> QED  BY <1>1, <2>1, Surprised DEF n
<1>4. CASE Abort(e)  BY <1>2, <1>3, <1>4, AbortKeeps
<1>5. CASE Become(e, [Resting("identify") EXCEPT
                 !.existing = existing, !.planned = planned, !.reference = reference])
  <2>1. /\ IsFiniteSet(existing)
        /\ \A r \in existing : RowTyped(r) /\ KnownIn(r, ran) /\ runner[r.at.env].pc = "done"
    BY FS_EmptySet DEF MatrixInv
  <2>2. refs \subseteq Hashes  BY <2>1 DEF ReferencesOf, RowTyped
  <2>3. reference \in Hashes  BY <2>2 DEF Hashes
  <2> DEFINE rest == Resting("identify")
  <2> HIDE DEF existing, refs, reference, rest
  <2> DEFINE run == [rest EXCEPT !.existing = existing, !.planned = planned,
                                 !.reference = reference]
  <2>4. /\ RunTyped(rest) /\ rest.pc = "identify" /\ rest.start = NoVersions
        /\ rest.existing = {} /\ rest.rows = {} /\ rest.build = "none" /\ rest.todo = {}
    BY RestingIs DEF RunLabels, rest
  <2>5. rest.rep = 0  BY DEF rest, Resting
  <2>6. /\ run = [f \in RunFields |-> run[f]]
        /\ run.pc = "identify" /\ run.existing = existing /\ run.planned = planned
        /\ run.reference = reference /\ run.rows = {} /\ run.start = NoVersions
        /\ run.source = rest.source /\ run.build = "none" /\ run.todo = {} /\ run.rep = 0
    BY <2>4, <2>5 DEF RunTyped, RunFields
  <2>7. Become(e, run)  BY <1>5 DEF rest
  <2> HIDE DEF run
  <2>8. RunTyped(run)
    <3>1. planned \in Nat /\ run.rep \in 0..(planned - 1)
      BY <2>6, MatrixAssumption
    <3>2. IsFiniteSet(run.rows)  BY <2>6, FS_EmptySet
    <3>3. \A r \in run.existing \cup run.rows : RowTyped(r)  BY <2>1, <2>6
    <3>4. run.source \in Sources /\ run.start \in FileVersions  BY <2>4, <2>6 DEF RunTyped
    <3> QED  BY <2>1, <2>3, <2>6, <3>1, <3>2, <3>3, <3>4 DEF RunTyped, RunLabels
  <2>9. OwnRows(e, run)  BY <2>6 DEF OwnRows
  <2>10. \A f \in VersionNames : run.start[f] <= onDisk[e][f]
    BY <2>6 DEF MatrixInv, NoVersions, VersionNames, FileVersions
  <2>11. \A x \in ran' : RanFits(e, run, onDisk[e], x) /\ RanTells(x)
    <3>1. \A x \in ran : RanFits(e, runner[e], onDisk[e], x) /\ RanTells(x)
      BY DEF MatrixInv, RunInv
    <3>2. \A x \in ran : x.row.at.env # e  BY <1>2, <3>1 DEF RanFits
    <3> QED  BY <1>2, <3>1, <3>2 DEF RanFits
  <2> QED  BY <1>2, <1>3, <2>1, <2>6, <2>7, <2>8, <2>9, <2>10, <2>11, BecomeKeeps
<1> QED  BY <1>1, <1>4, <1>5

LEMMA IdentifyKeeps == ASSUME MatrixInv, NEW e \in Envs, Identify(e) PROVE MatrixInv'
<1>1. PICK s \in Sources :
        /\ Surprise(Unless(s = CleanSource))
        /\ Become(e, [runner[e] EXCEPT !.pc = "matrix", !.source = s,
                                       !.start.input = onDisk[e].input])
  BY DEF Identify
<1>2. runner[e].pc = "identify" /\ UNCHANGED <<csv, onDisk, ran>>  BY DEF Identify
<1>3. surprises' \in 0..MaxSurprises
  <2> DEFINE n == Unless(s = CleanSource)
  <2>1. n \in Nat  BY DEF Unless
  <2> HIDE DEF n
  <2> QED  BY <1>1, <2>1, Surprised DEF n
<1> DEFINE was == runner[e]
<1>4. RunInv(e)  BY DEF MatrixInv
<1>5. RunTyped(was) /\ was.build = "none" /\ was.rows = {} /\ was.todo = {}
  BY <1>2, <1>4 DEF RunInv, OwnRows
<1>6. onDisk[e] \in FileVersions  BY DEF MatrixInv
<1> HIDE DEF was
<1> DEFINE run == [was EXCEPT !.pc = "matrix", !.source = s, !.start.input = onDisk[e].input]
<1>7. /\ run = [f \in RunFields |-> run[f]]
      /\ run.pc = "matrix" /\ run.source = s
      /\ run.start = [was.start EXCEPT !.input = onDisk[e].input]
      /\ \A f \in RunFields \ {"pc", "source", "start"} : run[f] = was[f]
  BY <1>5 DEF RunTyped, RunFields
<1>8. Become(e, run)  BY <1>1 DEF was
<1> HIDE DEF run
<1>9. /\ run.existing = was.existing /\ run.rows = {} /\ run.todo = {} /\ run.build = "none"
      /\ run.planned = was.planned /\ run.rep = was.rep /\ run.reference = was.reference
  BY <1>5, <1>7 DEF RunFields
<1>10. was.start \in FileVersions  BY <1>5 DEF RunTyped
<1>11. /\ run.start \in FileVersions /\ run.start.input = onDisk[e].input
       /\ run.start.debug = was.start.debug /\ run.start.release = was.start.release
  BY <1>6, <1>7, <1>10 DEF FileVersions
<1>12. RunTyped(run)
  <2>1. IsFiniteSet(run.existing) /\ IsFiniteSet(run.rows)
    BY <1>5, <1>9 DEF RunTyped
  <2>2. \A r \in run.existing \cup run.rows : RowTyped(r)  BY <1>5, <1>9 DEF RunTyped
  <2> QED  BY <1>5, <1>7, <1>9, <1>11, <2>1, <2>2 DEF RunTyped, RunLabels
<1>13. OwnRows(e, run)
  <2>1. CellsFit(run.todo) /\ Readable(run.rows)  BY <1>9 DEF CellsFit, Readable
  <2> QED  BY <1>7, <1>9, <2>1 DEF OwnRows
<1>14. \A f \in VersionNames : run.start[f] <= onDisk[e][f]
  <2>1. \A f \in VersionNames : was.start[f] <= onDisk[e][f]  BY <1>4 DEF RunInv, was
  <2> QED  BY <1>6, <1>11, <2>1 DEF VersionNames, FileVersions
<1>15. \A x \in ran' : RanFits(e, run, onDisk[e], x) /\ RanTells(x)
  <2>1. \A x \in ran : RanFits(e, runner[e], onDisk[e], x) /\ RanTells(x)
    BY DEF MatrixInv, RunInv
  <2>2. \A x \in ran : x.row.at.env # e  BY <1>2, <2>1 DEF RanFits
  <2> QED  BY <1>2, <2>1, <2>2 DEF RanFits
<1>16. /\ \A r \in run.existing : runner[r.at.env].pc = "done"
       /\ \A r \in run.existing \cup run.rows : KnownIn(r, ran)
  BY <1>4, <1>9 DEF RunInv, was
<1> QED  BY <1>2, <1>3, <1>7, <1>8, <1>12, <1>13, <1>14, <1>15, <1>16, BecomeKeeps

LEMMA ProbeKeeps == ASSUME MatrixInv, NEW e \in Envs, Probe(e) PROVE MatrixInv'
<1> DEFINE build == IF runner[e].build = "none" THEN "debug" ELSE "release"
<1>1. PICK c \in Caps :
        /\ Surprise(Unless(c = FullCaps))
        /\ Become(e, [runner[e] EXCEPT !.build = build, !.todo = CellsOf(c),
                                       !.start[build] = onDisk[e][build]])
  BY DEF Probe
<1>2. /\ runner[e].pc = "matrix" /\ runner[e].todo = {} /\ runner[e].build # "release"
      /\ UNCHANGED <<csv, onDisk, ran>>
  BY DEF Probe
<1>3. surprises' \in 0..MaxSurprises
  <2> DEFINE n == Unless(c = FullCaps)
  <2>1. n \in Nat  BY DEF Unless
  <2> HIDE DEF n
  <2> QED  BY <1>1, <2>1, Surprised DEF n
<1> DEFINE was == runner[e]
<1>4. RunInv(e)  BY DEF MatrixInv
<1>5. RunTyped(was) /\ OwnRows(e, was)  BY <1>4 DEF RunInv
<1>6. onDisk[e] \in FileVersions  BY DEF MatrixInv
<1>7. /\ was.build = "none" => build = "debug" /\ was.rows = {}
      /\ was.build # "none" => was.build = "debug" /\ build = "release"
      /\ build \in Builds
  BY <1>2, <1>5 DEF RunTyped, OwnRows, Builds
<1> HIDE DEF was, build
<1> DEFINE run == [was EXCEPT !.build = build, !.todo = CellsOf(c),
                              !.start[build] = onDisk[e][build]]
<1>8. /\ run = [f \in RunFields |-> run[f]]
      /\ run.build = build /\ run.todo = CellsOf(c)
      /\ run.start = [was.start EXCEPT ![build] = onDisk[e][build]]
      /\ \A f \in RunFields \ {"build", "todo", "start"} : run[f] = was[f]
  BY <1>5 DEF RunTyped, RunFields
<1>9. Become(e, run)  BY <1>1 DEF was
<1> HIDE DEF run
<1>10. /\ run.existing = was.existing /\ run.rows = was.rows /\ run.pc = "matrix"
       /\ run.planned = was.planned /\ run.rep = was.rep /\ run.reference = was.reference
       /\ run.source = was.source
  BY <1>2, <1>8 DEF RunFields, was
<1>11. was.start \in FileVersions  BY <1>5 DEF RunTyped
<1>12. build \in {"debug", "release"}  BY <1>7 DEF Builds
<1>13. /\ run.start \in FileVersions /\ run.start[build] = onDisk[e][build]
       /\ \A f \in VersionNames \ {build} : run.start[f] = was.start[f]
  <2>1. CASE build = "debug"  BY <1>6, <1>8, <1>11, <2>1 DEF FileVersions, VersionNames
  <2>2. CASE build = "release"  BY <1>6, <1>8, <1>11, <2>2 DEF FileVersions, VersionNames
  <2> QED  BY <1>12, <2>1, <2>2
<1>14. RunTyped(run)
  <2>1. IsFiniteSet(run.existing) /\ IsFiniteSet(run.rows)
    BY <1>5, <1>10 DEF RunTyped
  <2>2. \A r \in run.existing \cup run.rows : RowTyped(r)  BY <1>5, <1>10 DEF RunTyped
  <2> QED  BY <1>5, <1>7, <1>8, <1>10, <1>13, <2>1, <2>2 DEF RunTyped, RunLabels
<1>15. OwnRows(e, run)
  <2>1. was.pc = "matrix"  BY <1>2 DEF was
  <2>2. CellsFit(run.todo)  BY <1>8, CellsOfFit
  <2>3. Readable(run.rows)  BY <1>5, <1>10, <2>1 DEF OwnRows
  <2>4. run.build # "none"  BY <1>8, <1>12
  <2>5. ASSUME NEW r \in run.rows PROVE Placed(e, run, r)
    <3>1. Placed(e, was, r)  BY <1>5, <1>10, <2>1 DEF OwnRows
    <3>2. was.build = "debug" /\ build = "release"  BY <1>7, <1>10
    <3>3. r.at.build = "debug" /\ run.build = "release"  BY <1>8, <3>1, <3>2 DEF Placed
    <3>4. run.start.debug = was.start.debug /\ run.start.input = was.start.input
      BY <1>13, <3>2 DEF VersionNames
    <3> QED  BY <1>10, <3>1, <3>3, <3>4 DEF Placed
  <2> QED  BY <1>10, <2>2, <2>3, <2>4, <2>5 DEF OwnRows
<1>16. \A f \in VersionNames : run.start[f] <= onDisk[e][f]
  <2>1. \A f \in VersionNames : was.start[f] <= onDisk[e][f]  BY <1>4 DEF RunInv, was
  <2>2. onDisk[e][build] <= onDisk[e][build]  BY <1>6, <1>12 DEF FileVersions
  <2> QED  BY <1>13, <2>1, <2>2
<1>17. \A x \in ran' : RanFits(e, run, onDisk[e], x) /\ RanTells(x)
  <2>1. \A x \in ran : RanFits(e, was, onDisk[e], x) /\ RanTells(x)
    BY DEF MatrixInv, RunInv, was
  <2>2. was.pc = "matrix"  BY <1>2 DEF was
  <2> QED  BY <1>2, <1>10, <2>1, <2>2 DEF RanFits
<1>18. /\ \A r \in run.existing : runner[r.at.env].pc = "done"
       /\ \A r \in run.existing \cup run.rows : KnownIn(r, ran)
  BY SMTT(40), <1>4, <1>10 DEF RunInv, was
<1> QED  BY <1>2, <1>3, <1>9, <1>10, <1>14, <1>15, <1>16, <1>17, <1>18, BecomeKeeps

\* A run that has added a row for where it was.
Advanced(e, row, run) ==
  /\ RunTyped(run) /\ OwnRows(e, run) /\ run.pc = "matrix"
  /\ run.existing = runner[e].existing /\ run.start = runner[e].start
  /\ run.rows = runner[e].rows \cup {row}
  /\ row.at.env = e /\ row.at.build \in Builds /\ row.at.input = run.start.input
  /\ row.at.build = runner[e].build
  /\ row.at.binary = e.binary[row.at.build] + run.start[row.at.build]

\* run_matrix: the row of the next repetition is valid and its coordinate is
\* new, and what is left has no row.
LEMMA RunAfterFits ==
  ASSUME MatrixInv, NEW e \in Envs, runner[e].pc = "matrix", runner[e].todo # {},
         NEW cell, cell = NextCell(runner[e].todo), NEW row, RowFor(e, cell, row),
         NEW reference \in Hashes, NEW stopped
  PROVE  Advanced(e, row, RunAfter(e, cell, row, reference, stopped))
<1> DEFINE run == RunAfter(e, cell, row, reference, stopped)
<1> DEFINE was == runner[e]
<1>1. RunTyped(was) /\ OwnRows(e, was)  BY DEF MatrixInv, RunInv
<1>2. /\ CellsFit(was.todo) /\ Readable(was.rows) /\ was.build \in Builds
      /\ \A r \in was.rows : Placed(e, was, r)
  BY <1>1 DEF OwnRows, RunTyped
<1>3. cell \in was.todo  BY NextIs
<1>4. row.at = PlaceOf(e, cell)  BY DEF RowFor
<1>5. /\ row.at.env = e /\ row.at.source = was.source /\ row.at.build = was.build
      /\ row.at.binary = e.binary[was.build] + was.start[was.build]
      /\ row.at.input = was.start.input /\ row.at.thread = cell.thread
      /\ row.at.backend = cell.backend /\ row.at.rep = was.rep
  BY <1>4, PlaceIs
<1>6. row.planned = was.planned /\ row.required = cell.required  BY DEF RowFor
<1>7. was.planned \in Nat /\ was.rep \in 0..(was.planned - 1)  BY SMTT(40), <1>1 DEF RunTyped
<1>8. RowTyped(row)
  BY <1>1, <1>2, <1>5, <1>6, <1>7 DEF RowTyped, RunTyped, RowFor
<1>9. ValidRow(row)
  <2>1. row.at.thread = "default" <=> ~row.required
    BY <1>2, <1>3, <1>5, <1>6 DEF CellsFit
  <2>2. row.at.rep \in 0..(row.planned - 1)  BY <1>5, <1>6, <1>7
  <2>3. row.archive \in Archives => row.archive # ""  BY DEF Archives
  <2> QED  BY <2>1, <2>2, <2>3 DEF ValidRow, RowFor
<1>10. ASSUME NEW r \in was.rows PROVE r.at # row.at
  <2> SUFFICES ASSUME r.at = row.at PROVE FALSE  OBVIOUS
  <2>1. r.at.build = was.build /\ SameAxes(cell, r.at) /\ r.at.rep = was.rep
    BY <1>5 DEF SameAxes
  <2>2. r.at.rep < was.rep  BY <1>2, <1>3, <2>1 DEF Placed
  <2> QED  BY <1>7, <2>1, <2>2
<1> DEFINE all == was.rows \cup {row}
<1>11. Readable(all)  BY <1>2, <1>9, <1>10 DEF Readable
<1>12. IsFiniteSet(all)  BY <1>1, FS_AddElement DEF RunTyped
<1>13. \A r \in was.existing \cup all : RowTyped(r)  BY <1>1, <1>8 DEF RunTyped
<1>14. \A c \in was.todo : SameAxes(c, row.at) => c = cell
  BY <1>2, <1>3, <1>5 DEF CellsFit, SameAxes
<1>15. LastRep(cell, was.planned) <= was.planned - 1 /\ LastRep(cell, was.planned) \in Int
  BY <1>7 DEF LastRep
<1> DEFINE more == was.rep < LastRep(cell, was.planned)
<1> HIDE DEF run
<1>16. run = IF more
             THEN [was EXCEPT !.rows = all, !.reference = reference,
                              !.stopped = stopped, !.rep = was.rep + 1]
             ELSE [was EXCEPT !.rows = all, !.reference = reference,
                              !.stopped = FALSE, !.rep = 0, !.todo = was.todo \ {cell}]
  BY <1>1 DEF RunAfter, RunTyped, RunFields, run
<1> HIDE DEF was, all
<1>17. /\ run = [f \in RunFields |-> run[f]]
       /\ run.rows = all /\ run.reference = reference
       /\ run.pc = was.pc /\ run.existing = was.existing /\ run.planned = was.planned
       /\ run.source = was.source /\ run.start = was.start /\ run.build = was.build
       /\ more => run.rep = was.rep + 1 /\ run.todo = was.todo
       /\ ~more => run.rep = 0 /\ run.todo = was.todo \ {cell}
  <2> HIDE DEF more
  <2>1. CASE more  BY <1>1, <1>16, <2>1 DEF RunTyped, RunFields
  <2>2. CASE ~more  BY <1>1, <1>16, <2>2 DEF RunTyped, RunFields
  <2> QED  BY <2>1, <2>2
<1>18. run.rep \in 0..(run.planned - 1)  BY <1>7, <1>15, <1>17
<1>19. RunTyped(run)
  <2>1. was.source \in Sources /\ was.start \in FileVersions /\ was.build \in Builds \cup {"none"}
        /\ was.pc \in RunLabels /\ IsFiniteSet(was.existing)
    BY <1>1 DEF RunTyped
  <2> QED  BY <1>7, <1>12, <1>13, <1>17, <1>18, <2>1 DEF RunTyped
<1>20. ASSUME NEW r \in all PROVE Placed(e, run, r)
  <2>1. /\ r.at.env = e /\ r.at.source = was.source /\ r.at.input = was.start.input
        /\ r.at.build \in Builds /\ (was.build = "debug" => r.at.build = "debug")
        /\ r.at.binary = e.binary[r.at.build] + was.start[r.at.build]
    BY <1>2, <1>5 DEF Placed, all
  <2>2. ASSUME r.at.build = was.build, NEW c \in run.todo, SameAxes(c, r.at)
        PROVE  c = NextCell(run.todo) /\ r.at.rep < run.rep
    <3>1. c \in was.todo  BY <1>17
    <3>2. CASE r \in was.rows
      <4>1. c = cell /\ r.at.rep < was.rep  BY <1>2, <2>2, <3>1, <3>2 DEF Placed, was
      <4>2. more  BY <1>17, <4>1
      <4>3. r.at.rep < was.rep + 1
        <5>1. r.planned \in Nat  BY <1>1, <3>2 DEF RunTyped, RowTyped, was
        <5>2. ValidRow(r)  BY <1>2, <3>2 DEF Readable
        <5>3. r.at.rep \in 0..(r.planned - 1)  BY <5>2 DEF ValidRow
        <5> QED  BY <1>7, <4>1, <5>1, <5>3
      <4> QED  BY <1>17, <4>1, <4>2, <4>3 DEF was
    <3>3. CASE r = row
      <4>1. c = cell  BY <1>14, <2>2, <3>1, <3>3
      <4>2. more  BY <1>17, <4>1
      <4> QED  BY <1>5, <1>7, <1>17, <3>3, <4>1, <4>2 DEF was
    <3> QED  BY <3>2, <3>3 DEF all
  <2> QED  BY <1>17, <2>1, <2>2 DEF Placed
<1>21. OwnRows(e, run)
  <2>1. CellsFit(run.todo)  BY <1>2, <1>17 DEF CellsFit
  <2>2. run.pc = "matrix" /\ run.build # "none"  BY <1>2, <1>17 DEF was, Builds
  <2> QED  BY <1>11, <1>17, <1>20, <2>1, <2>2 DEF OwnRows
<1> QED  BY <1>2, <1>5, <1>17, <1>19, <1>21 DEF was, all, run, Advanced

LEMMA LeaveOutKeeps == ASSUME MatrixInv, NEW e \in Envs, LeaveOut(e) PROVE MatrixInv'
<1> DEFINE cell == NextCell(runner[e].todo)
<1> DEFINE row == Unavailable(e, cell)
<1> DEFINE reference == runner[e].reference
<1> DEFINE stopped == runner[e].stopped
<1> DEFINE run == RunAfter(e, cell, row, reference, stopped)
<1>1. /\ runner[e].pc = "matrix" /\ runner[e].todo # {} /\ Become(e, run)
      /\ UNCHANGED <<csv, onDisk, ran, surprises>>
  BY DEF LeaveOut
<1>2. RunInv(e)  BY DEF MatrixInv
<1>3. reference \in Hashes  BY <1>2 DEF RunInv, RunTyped
<1>4. RowFor(e, cell, row) /\ row.status = "unavailable"  BY <1>3, UnavailableIs
<1> HIDE DEF cell, row, reference, stopped, run
<1>5. cell = NextCell(runner[e].todo) /\ run = RunAfter(e, cell, row, reference, stopped)
  BY DEF cell, run
<1>6. /\ RunTyped(run) /\ OwnRows(e, run) /\ run.pc = "matrix"
      /\ run.existing = runner[e].existing /\ run.start = runner[e].start
      /\ run.rows = runner[e].rows \cup {row}
  <2>1. Advanced(e, row, run)
    BY <1>1, <1>3, <1>4, <1>5, RunAfterFits, Zenon
  <2> QED  BY <2>1 DEF Advanced
<1>7. KnownIn(row, ran)  BY <1>4 DEF KnownIn
<1>8. \A r \in run.existing \cup run.rows : KnownIn(r, ran')
  BY <1>1, <1>2, <1>6, <1>7 DEF RunInv
<1>9. \A x \in ran' : RanFits(e, run, onDisk[e], x) /\ RanTells(x)
  <2>1. \A x \in ran : RanFits(e, runner[e], onDisk[e], x) /\ RanTells(x)
    BY <1>2 DEF MatrixInv, RunInv
  <2> QED  BY <1>1, <1>6, <2>1 DEF RanFits
<1>10. /\ \A f \in VersionNames : run.start[f] <= onDisk[e][f]
       /\ \A r \in run.existing : runner[r.at.env].pc = "done"
  BY <1>2, <1>6 DEF RunInv
<1>11. surprises' \in 0..MaxSurprises  BY <1>1 DEF MatrixInv
<1> QED  BY <1>1, <1>6, <1>8, <1>9, <1>10, <1>11, BecomeKeeps

\* _execute_cell: the executable and the input it ran with are what is there.
LEMMA ExecuteKeeps == ASSUME MatrixInv, NEW e \in Envs, Execute(e) PROVE MatrixInv'
<1> DEFINE cell == NextCell(runner[e].todo)
<1> DEFINE ends == Endings \cup {Planned(e).end}
<1>1. PICK out \in [end : ends, archive : Archives] :
        LET row == Record(e, cell, out)
        IN  /\ Surprise(Unless(out = Planned(e)))
            /\ Become(e, RunAfter(e, cell, row, ReferenceAfter(out, runner[e].reference),
                               row.status # "ok"))
            /\ ran' = ran \cup
                 {[row |-> row, out |-> out,
                   binary |-> e.binary[runner[e].build] + onDisk[e][runner[e].build],
                   input |-> onDisk[e].input]}
  BY DEF Execute
<1>2. runner[e].pc = "matrix" /\ runner[e].todo # {} /\ UNCHANGED <<csv, onDisk>>
  BY DEF Execute
<1>3. surprises' \in 0..MaxSurprises
  <2> DEFINE n == Unless(out = Planned(e))
  <2>1. n \in Nat  BY DEF Unless
  <2> HIDE DEF n
  <2> QED  BY <1>1, <2>1, Surprised DEF n
<1> DEFINE row == Record(e, cell, out)
<1> DEFINE reference == ReferenceAfter(out, runner[e].reference)
<1> DEFINE stopped == row.status # "ok"
<1> DEFINE run == RunAfter(e, cell, row, reference, stopped)
<1> DEFINE met == [row |-> row, out |-> out,
                   binary |-> e.binary[runner[e].build] + onDisk[e][runner[e].build],
                   input |-> onDisk[e].input]
<1>4. Become(e, run) /\ ran' = ran \cup {met}  BY <1>1
<1>5. RunInv(e)  BY DEF MatrixInv
<1>6. runner[e].reference \in Hashes  BY <1>5 DEF RunInv, RunTyped
<1>7. /\ RowFor(e, cell, row) /\ reference \in Hashes
      /\ row.status = "ok" => out.end = "ok"
      /\ out.end = "ok" => row.status \in {"ok", "failed"} /\ row.archive = out.archive
  <2> HIDE DEF ends, cell
  <2> QED  BY <1>6, RecordIs
<1>8. cell = NextCell(runner[e].todo)  OBVIOUS
<1> HIDE DEF cell, row, reference, stopped
<1> HIDE DEF run
<1>9. run = RunAfter(e, cell, row, reference, stopped)  BY DEF run
<1>10. /\ RunTyped(run) /\ OwnRows(e, run) /\ run.pc = "matrix"
       /\ run.existing = runner[e].existing /\ run.start = runner[e].start
       /\ run.rows = runner[e].rows \cup {row}
       /\ row.at.env = e /\ row.at.build \in Builds /\ row.at.input = run.start.input
       /\ row.at.build = runner[e].build
       /\ row.at.binary = e.binary[row.at.build] + run.start[row.at.build]
  <2>1. Advanced(e, row, run)
    BY <1>2, <1>7, <1>8, <1>9, RunAfterFits, Zenon
  <2> QED  BY <2>1 DEF Advanced
<1>11. /\ met.row = row /\ met.out = out /\ met.input = onDisk[e].input
       /\ met.binary = e.binary[row.at.build] + onDisk[e][row.at.build]
  BY <1>10
<1>12. out.archive \in Archives  OBVIOUS
<1> HIDE DEF met
<1>13. RanTells(met)  BY <1>7, <1>11, <1>12 DEF RanTells
<1>14. KnownIn(row, ran')  BY <1>4, <1>7, <1>11 DEF KnownIn
<1>15. \A r : KnownIn(r, ran) => KnownIn(r, ran')  BY <1>4 DEF KnownIn
<1>16. \A r \in run.existing \cup run.rows : KnownIn(r, ran')
  BY <1>5, <1>10, <1>14, <1>15 DEF RunInv
<1>17. \A f \in VersionNames : run.start[f] <= onDisk[e][f]  BY <1>5, <1>10 DEF RunInv
<1>18. run.start \in FileVersions /\ onDisk[e] \in FileVersions  BY <1>10 DEF RunTyped, MatrixInv
<1>19. RanFits(e, run, onDisk[e], met)
  <2> DEFINE b == row.at.build
  <2>1. b \in {"debug", "release"}  BY <1>10 DEF Builds
  <2>2. e.binary[b] \in Nat  BY <2>1, MatrixAssumption
  <2>3. run.start[b] \in Nat /\ onDisk[e][b] \in Nat /\ run.start[b] <= onDisk[e][b]
    BY <1>17, <1>18, <2>1 DEF FileVersions, VersionNames
  <2>4. /\ run.start.input \in Nat /\ onDisk[e].input \in Nat
        /\ run.start.input <= onDisk[e].input
    BY <1>17, <1>18 DEF FileVersions, VersionNames
  <2> HIDE DEF b
  <2>5. /\ met.binary = e.binary[b] + onDisk[e][b] /\ row.at.binary = e.binary[b] + run.start[b]
        /\ row.at.build = b
    BY <1>10, <1>11 DEF b
  <2>6. /\ met.binary \in Int /\ row.at.binary <= met.binary
        /\ met.binary <= e.binary[b] + onDisk[e][b]
    BY <2>2, <2>3, <2>5
  <2> QED  BY <1>10, <1>11, <2>4, <2>5, <2>6 DEF RanFits
<1>20. \A x \in ran' : RanFits(e, run, onDisk[e], x) /\ RanTells(x)
  <2>1. \A x \in ran : RanFits(e, runner[e], onDisk[e], x) /\ RanTells(x)
    BY <1>5 DEF MatrixInv, RunInv
  <2>2. \A x \in ran : RanFits(e, run, onDisk[e], x)
    BY <1>2, <1>10, <2>1 DEF RanFits
  <2> QED  BY <1>4, <1>13, <1>19, <2>1, <2>2
<1>21. \A r \in run.existing : runner[r.at.env].pc = "done"  BY <1>5, <1>10 DEF RunInv
<1>22. \A x \in ran' \ ran : x.row.at.env = e  BY <1>4, <1>10, <1>11
<1>23. ran \subseteq ran'  BY <1>4
<1> QED
  BY <1>2, <1>3, <1>4, <1>10, <1>16, <1>17, <1>20, <1>21, <1>22, <1>23, BecomeKeeps

LEMMA KillRunKeeps == ASSUME MatrixInv, NEW e \in Envs, KillRun(e) PROVE MatrixInv'
<1>1. surprises' \in 0..MaxSurprises  BY Surprised DEF KillRun
<1>2. runner[e].pc # "done"  BY DEF KillRun
<1> QED  BY <1>1, <1>2, AbortKeeps DEF KillRun

\* Replaced contents are new ones, so versions only grow.
LEMMA ReplaceOnDiskKeeps == ASSUME MatrixInv, NEW e \in Envs, ReplaceOnDisk(e) PROVE MatrixInv'
<1>1. PICK v \in VersionNames : onDisk' = [onDisk EXCEPT ![e][v] = @ + 10]
  BY DEF ReplaceOnDisk, VersionNames
<1>2. UNCHANGED <<csv, runner, ran>>  BY DEF ReplaceOnDisk
<1>3. surprises' \in 0..MaxSurprises  BY Surprised DEF ReplaceOnDisk
<1>4. onDisk \in [Envs -> FileVersions]  BY DEF MatrixInv
<1>5. /\ onDisk' \in [Envs -> FileVersions]
      /\ \A f \in Envs, w \in VersionNames : onDisk[f][w] <= onDisk'[f][w]
  <2>1. CASE v = "input"  BY <1>1, <1>4, <2>1 DEF FileVersions, VersionNames
  <2>2. CASE v = "debug"  BY <1>1, <1>4, <2>2 DEF FileVersions, VersionNames
  <2>3. CASE v = "release"  BY <1>1, <1>4, <2>3 DEF FileVersions, VersionNames
  <2> QED  BY <2>1, <2>2, <2>3 DEF VersionNames
<1>6. RowsOnDisk' = RowsOnDisk  BY <1>2 DEF RowsOnDisk, Exists
<1>7. ASSUME NEW f \in Envs PROVE RunInv(f)'
  <2>1. RunInv(f)  BY DEF MatrixInv
  <2>2. \A w \in VersionNames : onDisk[f][w] \in Nat /\ onDisk'[f][w] \in Nat
    BY <1>4, <1>5 DEF FileVersions, VersionNames
  <2>3. \A w \in VersionNames : runner[f].start[w] \in Nat
    BY <2>1 DEF RunInv, RunTyped, FileVersions, VersionNames
  <2>4. \A w \in VersionNames : runner[f].start[w] <= onDisk'[f][w]
    BY <1>5, <2>1, <2>2, <2>3 DEF RunInv
  <2>5. ASSUME NEW x \in ran PROVE RanFits(f, runner[f], onDisk'[f], x)
    <3>1. RanFits(f, runner[f], onDisk[f], x)  BY <2>1 DEF RunInv
    <3>2. CASE x.row.at.env = f /\ runner[f].pc = "matrix"
      <4> DEFINE b == x.row.at.build
      <4>1. /\ x.row \in runner[f].rows /\ x.binary \in Int /\ x.input \in Int
            /\ x.row.at.binary <= x.binary /\ x.binary <= f.binary[b] + onDisk[f][b]
            /\ x.row.at.input <= x.input /\ x.input <= onDisk[f].input
        BY <3>1, <3>2 DEF RanFits
      <4>2. b \in {"debug", "release"}
        BY <2>1, <4>1 DEF RunInv, RunTyped, RowTyped, Builds
      <4>3. f.binary[b] \in Nat  BY <4>2, MatrixAssumption
      <4>4. onDisk[f][b] \in Nat /\ onDisk'[f][b] \in Nat /\ onDisk[f][b] <= onDisk'[f][b]
        BY <1>5, <2>2, <4>2 DEF VersionNames
      <4>5. /\ onDisk[f].input \in Nat /\ onDisk'[f].input \in Nat
            /\ onDisk[f].input <= onDisk'[f].input
        BY <1>5, <2>2 DEF VersionNames
      <4>6. x.input <= onDisk'[f].input  BY <4>1, <4>5
      <4> HIDE DEF b
      <4>7. x.binary <= f.binary[b] + onDisk'[f][b]  BY <4>1, <4>3, <4>4
      <4> QED  BY <3>2, <4>1, <4>6, <4>7 DEF RanFits, b
    <3>3. CASE ~(x.row.at.env = f /\ runner[f].pc = "matrix")
      BY <3>1, <3>3 DEF RanFits
    <3> QED  BY <3>2, <3>3
  <2> QED  BY <1>2, <2>1, <2>4, <2>5 DEF RunInv
<1> QED  BY <1>2, <1>3, <1>5, <1>6, <1>7 DEF MatrixInv

\* run_matrix and main: the hashes that are taken again say that every row is
\* of the files that it names.
LEMMA FinishKeeps == ASSUME MatrixInv, NEW e \in Envs, Finish(e) PROVE MatrixInv'
<1> DEFINE was == runner[e]
<1> DEFINE rows == was.existing \cup was.rows
<1>1. /\ was.pc = "matrix" /\ UNCHANGED <<onDisk, ran, surprises>>
      /\ IF Unchanged(e) /\ Readable(rows)
         THEN csv' = rows /\ Become(e, [Resting("done") EXCEPT !.rows = rows, !.gate = Gate(rows)])
         ELSE csv' = csv /\ Abort(e)
  BY DEF Finish
<1>2. surprises' \in 0..MaxSurprises  BY <1>1 DEF MatrixInv
<1>3. CASE ~(Unchanged(e) /\ Readable(rows))  BY <1>1, <1>2, <1>3, AbortKeeps
<1>4. CASE Unchanged(e) /\ Readable(rows)
  <2>1. RunInv(e)  BY DEF MatrixInv
  <2>2. RunTyped(was)  BY <2>1 DEF RunInv
  <2>3. /\ was.pc = "matrix" => \A r \in was.rows : Placed(e, was, r)
        /\ onDisk[e] = was.start
    BY <1>4, <2>1 DEF RunInv, OwnRows, Unchanged
  <2>4. /\ IsFiniteSet(rows)
        /\ \A r \in rows : RowTyped(r) /\ KnownIn(r, ran)
    BY <2>1, <2>2, FS_Union DEF RunTyped, RunInv
  <2> DEFINE rest == Resting("done")
  <2> DEFINE gate == Gate(rows)
  <2>5. Readable(rows) /\ csv' = rows  BY <1>1, <1>4
  <2>6. Become(e, [rest EXCEPT !.rows = rows, !.gate = gate])  BY <1>1, <1>4
  <2>7. /\ \A r \in was.existing : runner[r.at.env].pc = "done"
        /\ \A r \in was.rows : r.at.env = e
    BY <1>1, <2>1, <2>3 DEF RunInv, Placed
  <2>8. \A r \in rows : r.at.env = e \/ runner[r.at.env].pc = "done"  BY <2>7
  <2>9. gate = Gate(rows)  OBVIOUS
  <2> HIDE DEF rest, gate, rows
  <2> DEFINE run == [rest EXCEPT !.rows = rows, !.gate = gate]
  <2>10. /\ RunTyped(rest) /\ rest.pc = "done" /\ rest.start = NoVersions
         /\ rest.existing = {} /\ rest.build = "none" /\ rest.todo = {}
    BY RestingTyped DEF rest, RunLabels
  <2>11. /\ run = [f \in RunFields |-> run[f]] /\ run.rows = rows /\ run.gate = gate
         /\ run.pc = "done" /\ run.start = NoVersions /\ run.existing = {} /\ run.todo = {}
         /\ run.build = "none" /\ run.reference = rest.reference /\ run.rep = rest.rep
         /\ run.planned = rest.planned /\ run.source = rest.source
    BY <2>10 DEF RunTyped, RunFields
  <2> HIDE DEF run
  <2>12. Become(e, run)  BY <2>6 DEF run
  <2>13. RunTyped(run)
    <3>1. \A r \in run.existing \cup run.rows : RowTyped(r)  BY <2>4, <2>11
    <3>2. IsFiniteSet(run.existing) /\ IsFiniteSet(run.rows)  BY <2>4, <2>11, FS_EmptySet
    <3>3. run.start \in FileVersions  BY <2>10, <2>11 DEF RunTyped
    <3> QED  BY <2>10, <2>11, <3>1, <3>2, <3>3 DEF RunTyped, RunLabels
  <2>14. OwnRows(e, run)  BY <2>5, <2>9, <2>11 DEF OwnRows
  <2>15. /\ runner' = [f \in Envs |-> runner'[f]] /\ runner'[e] = run
         /\ \A f \in Envs \ {e} : runner'[f] = runner[f]
    BY <2>12, BecomeIs
  <2>16. \A r \in rows : runner'[r.at.env].pc = "done"
    BY <2>4, <2>8, <2>11, <2>15 DEF RowTyped
  <2>17. \A f \in VersionNames : run.start[f] <= onDisk[e][f]
    BY <2>11 DEF MatrixInv, NoVersions, VersionNames, FileVersions
  <2>18. ASSUME NEW x \in ran PROVE RanFits(e, run, onDisk[e], x)
    <3>1. RanFits(e, was, onDisk[e], x)  BY <2>1 DEF RunInv
    <3>2. CASE x.row.at.env # e  BY <3>2 DEF RanFits
    <3>3. CASE x.row.at.env = e
      <4> DEFINE b == x.row.at.build
      <4>1. /\ x.row \in was.rows /\ x.binary \in Int /\ x.input \in Int
            /\ x.row.at.binary <= x.binary /\ x.binary <= e.binary[b] + was.start[b]
            /\ x.row.at.input <= x.input /\ x.input <= was.start.input
        BY <1>1, <2>3, <3>1, <3>3 DEF RanFits
      <4>2. /\ x.row.at.binary = e.binary[b] + was.start[b]
            /\ x.row.at.input = was.start.input /\ b \in {"debug", "release"}
        BY <1>1, <2>3, <4>1 DEF Placed, Builds
      <4>3. e.binary[b] \in Nat  BY <4>2, MatrixAssumption
      <4>4. was.start[b] \in Nat /\ was.start.input \in Nat
        BY <2>2, <4>2 DEF RunTyped, FileVersions
      <4> HIDE DEF b, was
      <4>5. x.binary = x.row.at.binary  BY <4>1, <4>2, <4>3, <4>4
      <4>6. x.input = x.row.at.input  BY <4>1, <4>2, <4>4
      <4> QED  BY <2>11, <4>5, <4>6 DEF RanFits
    <3> QED  BY <3>2, <3>3
  <2>19. RunInv(e)'
    <3>1. \A r \in run.existing \cup run.rows : KnownIn(r, ran)  BY <2>4, <2>11
    <3> QED  BY <1>1, <2>11, <2>13, <2>14, <2>15, <2>16, <2>17, <2>18, <3>1 DEF RunInv
  <2>20. ASSUME NEW f \in Envs \ {e} PROVE RunInv(f)'  BY <1>1, <2>12, OthersKeep
  <2>21. RowsOnDisk' = rows \/ RowsOnDisk' = {}  BY <2>5 DEF RowsOnDisk, Exists
  <2>22. IsFiniteSet(RowsOnDisk')  BY <2>4, <2>21, FS_EmptySet
  <2>23. \A r \in RowsOnDisk' : RowTyped(r) /\ KnownIn(r, ran') /\ runner'[r.at.env].pc = "done"
    BY <1>1, <2>4, <2>16, <2>21
  <2>24. \A x \in ran' : RanTells(x)  BY <1>1 DEF MatrixInv
  <2>25. onDisk' \in [Envs -> FileVersions]  BY <1>1 DEF MatrixInv
  <2>26. \A f \in Envs : RunInv(f)'  BY <2>19, <2>20
  <2> QED  BY <1>2, <2>15, <2>22, <2>23, <2>24, <2>25, <2>26 DEF MatrixInv
<1> QED  BY <1>3, <1>4

LEMMA MatrixInvIsKept == MatrixInv /\ [MatrixNext]_matrixVars => MatrixInv'
<1> SUFFICES ASSUME MatrixInv, [MatrixNext]_matrixVars PROVE MatrixInv'  OBVIOUS
<1>1. CASE UNCHANGED matrixVars
  BY <1>1 DEF matrixVars, MatrixInv, RunInv, RowsOnDisk, Exists
<1>2. ASSUME NEW e \in Envs, Start(e) PROVE MatrixInv'  BY <1>2, StartKeeps
<1>3. ASSUME NEW e \in Envs, Identify(e) PROVE MatrixInv'  BY <1>3, IdentifyKeeps
<1>4. ASSUME NEW e \in Envs, Probe(e) PROVE MatrixInv'  BY <1>4, ProbeKeeps
<1>5. ASSUME NEW e \in Envs, LeaveOut(e) PROVE MatrixInv'  BY <1>5, LeaveOutKeeps
<1>6. ASSUME NEW e \in Envs, Execute(e) PROVE MatrixInv'  BY <1>6, ExecuteKeeps
<1>7. ASSUME NEW e \in Envs, Finish(e) PROVE MatrixInv'  BY <1>7, FinishKeeps
<1>8. ASSUME NEW e \in Envs, KillRun(e) PROVE MatrixInv'  BY <1>8, KillRunKeeps
<1>9. ASSUME NEW e \in Envs, ReplaceOnDisk(e) PROVE MatrixInv'  BY <1>9, ReplaceOnDiskKeeps
<1> QED  BY <1>1, <1>2, <1>3, <1>4, <1>5, <1>6, <1>7, <1>8, <1>9 DEF MatrixNext

-----------------------------------------------------------------------------
(* What the gate of a run says.                                            *)

LEMMA MatrixTypesHold == MatrixInv => MatrixTypeOK
<1> SUFFICES ASSUME MatrixInv PROVE MatrixTypeOK  OBVIOUS
<1>1. \A e \in Envs : RunTyped(runner[e])  BY DEF MatrixInv, RunInv
<1> QED  BY <1>1 DEF MatrixTypeOK, MatrixInv, RunTyped, RunLabels, Hashes

LEMMA OwnRowsHold == MatrixInv => OwnRowsAreReadable
BY DEF MatrixInv, RunInv, OwnRows, OwnRowsAreReadable

\* What the files were when the command of a row ran, once its run is done.
LEMMA DoneFits ==
  ASSUME MatrixInv, NEW x \in ran, x.row.at.env \in Envs, runner[x.row.at.env].pc = "done"
  PROVE  x.binary = x.row.at.binary /\ x.input = x.row.at.input
<1> DEFINE e == x.row.at.env
<1>1. RanFits(e, runner[e], onDisk[e], x)  BY DEF MatrixInv, RunInv
<1> QED  BY <1>1 DEF RanFits

LEMMA EvidenceHolds == MatrixInv => EvidenceIsOfItsFiles
<1> SUFFICES ASSUME MatrixInv, NEW x \in ran, x.row \in RowsOnDisk
             PROVE  x.binary = x.row.at.binary /\ x.input = x.row.at.input
  BY DEF EvidenceIsOfItsFiles
<1>1. x.row.at.env \in Envs /\ runner[x.row.at.env].pc = "done"  BY DEF MatrixInv, RowTyped
<1> QED  BY <1>1, DoneFits

LEMMA FewIsOne ==
  ASSUME NEW S, IsFiniteSet(S), Cardinality(S) <= 1, NEW a \in S, NEW b \in S
  PROVE  a = b
<1>1. Cardinality(S) \in Nat  BY FS_CardinalityType
<1>2. Cardinality(S) # 0  BY FS_EmptySet
<1>3. Cardinality(S) = 1  BY <1>1, <1>2
<1>4. PICK c : S = {c}  BY <1>3, FS_Singleton
<1> QED  BY <1>4

LEMMA ManyAreTwo ==
  ASSUME NEW S, ~(Cardinality(S) < 2) PROVE \E a, b \in S : a # b
<1> SUFFICES ASSUME \A a, b \in S : a = b PROVE FALSE  OBVIOUS
<1>1. CASE S = {}
  <2>1. Cardinality(S) = 0  BY <1>1, FS_EmptySet
  <2> QED  BY <2>1
<1>2. CASE S # {}
  <2>1. PICK c : S = {c}  BY <1>2
  <2>2. Cardinality(S) = 1  BY <2>1, FS_Singleton
  <2> QED  BY <2>2
<1> QED  BY <1>1, <1>2

\* The gate's sets are no larger than the rows they are taken from.
LEMMA GateSetsAreFinite ==
  ASSUME NEW rows, IsFiniteSet(rows)
  PROVE  /\ IsFiniteSet(SourcesOf(rows)) /\ IsFiniteSet(InputsOf(rows))
         /\ IsFiniteSet(ArchivesOf(rows))
<1> DEFINE source == [r \in rows |-> r.at.source]
<1> DEFINE input == [r \in rows |-> r.at.input]
<1> DEFINE archive == [r \in rows |-> r.archive]
<1> DEFINE archives == {r.archive : r \in rows}
<1>1. source \in Surjection(rows, SourcesOf(rows))  BY DEF Surjection, SourcesOf
<1>2. input \in Surjection(rows, InputsOf(rows))  BY DEF Surjection, InputsOf
<1>3. archive \in Surjection(rows, archives)  BY DEF Surjection
<1>4. IsFiniteSet(archives)  BY <1>3, FS_Surjection
<1>5. ArchivesOf(rows) \subseteq archives  BY DEF ArchivesOf
<1> QED  BY <1>1, <1>2, <1>4, <1>5, FS_Surjection, FS_Subset

\* The parts of a verdict that is a pass.
LEMMA PassSays ==
  ASSUME NEW rows, Gate(rows) = "pass"
  PROVE  /\ With(rows, "failed") = {} /\ With(rows, "timeout") = {}
         /\ ~(Cardinality(ArchivesOf(rows)) > 1)
         /\ ~Mixed(rows) /\ ~RequiredMissing(rows) /\ ~TooFew(rows)
         /\ BuildsDiffer(rows) /\ AxesComplete(rows) /\ RepetitionsComplete(rows)
<1>1. ~GateFails(rows) /\ ~GateLacks(rows)  BY DEF Gate
<1>2. With(rows, "failed") \cup With(rows, "timeout") = {}  BY <1>1 DEF GateFails
<1>3. ~(Cardinality(ArchivesOf(rows)) > 1)  BY <1>1 DEF GateFails
<1>4. /\ ~Mixed(rows) /\ ~RequiredMissing(rows) /\ ~TooFew(rows)
      /\ BuildsDiffer(rows) /\ AxesComplete(rows) /\ RepetitionsComplete(rows)
  BY <1>1 DEF GateLacks
<1> QED  BY <1>2, <1>3, <1>4

\* README.md of determinism: every row that a passing run counts stands for an
\* execution that is of its files, and those it asks for are there.
LEMMA PassHolds == MatrixInv => PassIsGateOne
<1> SUFFICES ASSUME MatrixInv, NEW e \in Envs, Passes(e)
    PROVE
    /\ \A f \in {"machine", "arch", "compiler"} :
         \E x, y \in Well(e) : x.row.at.env[f] # y.row.at.env[f]
    /\ \A x, y \in Well(e) : /\ x.out.archive = y.out.archive /\ x.input = y.input
                             /\ x.row.at.source = y.row.at.source
                             /\ x.row.at.source.dirty = "clean"
    /\ \A x, y \in Well(e) :
         x.row.at.env = y.row.at.env /\ x.row.at.build # y.row.at.build => x.binary # y.binary
    /\ \A v \in Well(e), b \in Builds, t \in Threads, k \in Backends :
         \A n \in 0..(LeastReps - 1) : \E x \in Well(e) :
           /\ x.row.at.env = v.row.at.env /\ x.row.at.build = b
           /\ x.row.at.thread = t /\ x.row.at.backend = k /\ x.row.at.rep = n
  BY DEF PassIsGateOne
<1> DEFINE rows == runner[e].rows
<1>1. runner[e].pc = "done" /\ runner[e].gate = "pass"  BY DEF Passes
<1>2. RunInv(e)  BY DEF MatrixInv
<1>3. Readable(rows) /\ Gate(rows) = "pass"  BY <1>1, <1>2 DEF RunInv, OwnRows
<1>4. /\ IsFiniteSet(rows)
      /\ \A r \in rows : RowTyped(r) /\ KnownIn(r, ran) /\ runner[r.at.env].pc = "done"
  BY <1>1, <1>2 DEF RunInv, RunTyped
<1>5. /\ With(rows, "failed") = {} /\ With(rows, "timeout") = {}
      /\ ~(Cardinality(ArchivesOf(rows)) > 1)
      /\ ~Mixed(rows) /\ ~RequiredMissing(rows) /\ ~TooFew(rows)
      /\ BuildsDiffer(rows) /\ AxesComplete(rows) /\ RepetitionsComplete(rows)
  BY <1>3, PassSays
<1>6. /\ IsFiniteSet(SourcesOf(rows)) /\ IsFiniteSet(InputsOf(rows))
      /\ IsFiniteSet(ArchivesOf(rows))
  BY <1>4, GateSetsAreFinite
<1>7. Well(e) = {x \in ran : x.row \in rows /\ x.out.end = "ok"}  BY DEF Well
<1> HIDE DEF rows
<1>8. \A r \in rows : r.status = "ok" \/ r.status = "unavailable"
  <2>1. \A r \in rows : r.status \in {"ok", "failed", "timeout", "unavailable"}
    BY <1>3 DEF Readable, ValidRow
  <2> QED  BY <1>5, <2>1 DEF With
<1>9. ASSUME NEW r \in With(rows, "ok") PROVE \E x \in Well(e) : x.row = r
  <2>1. r \in rows /\ r.status = "ok"  BY DEF With
  <2> QED  BY <1>4, <1>7, <2>1 DEF KnownIn
<1>10. ASSUME NEW x \in Well(e)
       PROVE  /\ x \in ran /\ x.row \in rows /\ x.row \in With(rows, "ok")
              /\ x.row.archive = x.out.archive /\ x.out.archive \in ArchivesOf(rows)
              /\ x.binary = x.row.at.binary /\ x.input = x.row.at.input
  <2>1. x \in ran /\ x.row \in rows /\ x.out.end = "ok"  BY <1>7
  <2>2. /\ x.row.status \in {"ok", "failed"} /\ x.row.archive = x.out.archive
        /\ x.out.archive \in Archives
    BY <2>1 DEF MatrixInv, RanTells
  <2>ok. x.row \in With(rows, "ok")  BY <1>8, <2>1, <2>2 DEF With
  <2>4. x.out.archive \in ArchivesOf(rows)  BY <2>1, <2>2 DEF ArchivesOf, Archives
  <2>5. x.row.at.env \in Envs /\ runner[x.row.at.env].pc = "done"
    BY <1>4, <2>1 DEF RowTyped
  <2> QED  BY <2>1, <2>2, <2>ok, <2>4, <2>5, DoneFits
<1>11. ASSUME NEW f \in {"machine", "arch", "compiler"}
       PROVE  \E x, y \in Well(e) : x.row.at.env[f] # y.row.at.env[f]
  <2>1. ~(Cardinality(EnvsOf(With(rows, "ok"), f)) < 2)  BY <1>5 DEF TooFew
  <2>2. \E a, b \in EnvsOf(With(rows, "ok"), f) : a # b  BY <2>1, ManyAreTwo
  <2>3. \E r, q \in With(rows, "ok") : r.at.env[f] # q.at.env[f]  BY <2>2 DEF EnvsOf
  <2> QED  BY <1>9, <2>3
<1>12. /\ Cardinality(SourcesOf(rows)) = 1 /\ Cardinality(InputsOf(rows)) = 1
       /\ \A r \in rows : r.at.source.dirty # "dirty"
  BY <1>5 DEF Mixed
<1>13. Cardinality(ArchivesOf(rows)) <= 1
  <2>1. Cardinality(ArchivesOf(rows)) \in Nat  BY <1>6, FS_CardinalityType
  <2> QED  BY <1>5, <2>1
<1>14. \A r, q \in rows : r.at.source = q.at.source /\ r.at.input = q.at.input
  <2>1. \A a, b \in SourcesOf(rows) : a = b  BY <1>6, <1>12, FewIsOne
  <2>2. \A a, b \in InputsOf(rows) : a = b  BY <1>6, <1>12, FewIsOne
  <2> QED  BY <2>1, <2>2 DEF SourcesOf, InputsOf
<1>15. ASSUME NEW x \in Well(e), NEW y \in Well(e)
       PROVE  /\ x.out.archive = y.out.archive /\ x.input = y.input
              /\ x.row.at.source = y.row.at.source /\ x.row.at.source.dirty = "clean"
  <2>1. x.out.archive = y.out.archive  BY <1>6, <1>10, <1>13, FewIsOne
  <2>2. x.row.at.source \in Sources  BY <1>4, <1>10 DEF RowTyped
  <2>3. x.row.at.source.dirty \in {"clean", "dirty"}  BY <2>2 DEF Sources
  <2> QED  BY <1>10, <1>12, <1>14, <2>1, <2>3
<1>16. ASSUME NEW x \in Well(e), NEW y \in Well(e), x.row.at.env = y.row.at.env,
              x.row.at.build # y.row.at.build
       PROVE  x.binary # y.binary
  <2>1. /\ x.row \in With(rows, "ok") /\ y.row \in With(rows, "ok")
        /\ x.row.at.input = y.row.at.input
        /\ x.binary = x.row.at.binary /\ y.binary = y.row.at.binary
    BY <1>10, <1>14
  <2>2. x.row.at.binary \in BinariesOf(rows, x.row, x.row.at.build)
    BY <2>1 DEF BinariesOf
  <2>other. y.row.at.binary \in BinariesOf(rows, x.row, y.row.at.build)
    BY <1>16, <2>1 DEF BinariesOf
  <2>4. BinariesOf(rows, x.row, "debug") \cap BinariesOf(rows, x.row, "release") = {}
    BY <1>5, <2>1 DEF BuildsDiffer
  <2>5. x.row.at.build \in {"debug", "release"} /\ y.row.at.build \in {"debug", "release"}
    BY <1>4, <1>10 DEF RowTyped, Builds
  <2> QED  BY <1>16, <2>1, <2>2, <2>other, <2>4, <2>5
<1>17. ASSUME NEW v \in Well(e), NEW b \in Builds, NEW t \in Threads, NEW k \in Backends,
              NEW n \in 0..(LeastReps - 1)
       PROVE  \E x \in Well(e) :
                /\ x.row.at.env = v.row.at.env /\ x.row.at.build = b
                /\ x.row.at.thread = t /\ x.row.at.backend = k /\ x.row.at.rep = n
  <2>1. v.row \in With(rows, "ok")  BY <1>10
  <2>2. BinariesOf(rows, v.row, b) # {}  BY <1>5, <2>1 DEF BuildsDiffer, Builds
  <2>3. PICK q \in With(rows, "ok") : q.at.env = v.row.at.env /\ q.at.build = b
    BY <2>2 DEF BinariesOf
  <2>4. q \in rows  BY DEF With
  <2>5. <<t, k>> \in AxesOf(GroupOf(rows, q))  BY <1>5, <2>4 DEF AxesComplete
  <2>6. PICK r \in GroupOf(rows, q) : r.required /\ <<t, k>> = <<r.at.thread, r.at.backend>>
    BY <2>5 DEF AxesOf
  <2>7. /\ r \in rows /\ r.at.env = q.at.env /\ r.at.build = b
        /\ r.at.thread = t /\ r.at.backend = k
    BY <2>3, <2>6 DEF GroupOf
  <2>8. r.status # "unavailable"  BY <1>5, <2>6, <2>7 DEF RequiredMissing, With
  <2>9. r.planned >= LeastReps /\ {z.at.rep : z \in RepsOf(rows, r)} = 0..(r.planned - 1)
    BY <1>5, <2>6, <2>7, <2>8 DEF RepetitionsComplete
  <2>10. r.planned \in Nat /\ LeastReps \in Nat  BY <1>4, <2>7, MatrixAssumption DEF RowTyped
  <2>11. n \in 0..(r.planned - 1)  BY <2>9, <2>10
  <2>12. PICK z \in RepsOf(rows, r) : z.at.rep = n  BY <2>9, <2>11
  <2>13. /\ z \in rows /\ z.status # "unavailable" /\ z.at.env = r.at.env
         /\ z.at.build = r.at.build /\ z.at.thread = r.at.thread /\ z.at.backend = r.at.backend
    BY DEF RepsOf, GroupOf
  <2>14. z \in With(rows, "ok")  BY <1>8, <2>13 DEF With
  <2>15. PICK x \in Well(e) : x.row = z  BY <1>9, <2>14
  <2> QED  BY <2>3, <2>7, <2>12, <2>13, <2>15
<1> QED  BY <1>11, <1>15, <1>16, <1>17

\* For any environments, cells, repetitions and any number of surprises: what
\* the matrix records can be read again and is of the files that it names, and
\* a run that passes has what gate 1 asks for, determinism/README.md:79.
THEOREM MatrixEvidence == MatrixSpec => []MatrixIsEvidence
<1>1. MatrixInv => MatrixIsEvidence
  BY MatrixTypesHold, OwnRowsHold, EvidenceHolds, PassHolds DEF MatrixIsEvidence
<1> QED  BY <1>1, FirstMatrixInv, MatrixInvIsKept, PTL DEF MatrixSpec

=================================================================================
