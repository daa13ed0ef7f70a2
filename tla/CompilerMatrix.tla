------------------------------ MODULE CompilerMatrix ------------------------------
(***************************************************************************)
(* The local compiler matrix of mathsvg/python/repro/compiler_matrix.py:   *)
(* one source tree is tested and built by two pinned compilers, the        *)
(* archives of one pinned input by both builds are compared and decoded by *)
(* both, and one report says so.  Every file it depends on is hashed       *)
(* before and after, and may be replaced meanwhile; a second generator may *)
(* run at the same time, and the validator reads what was published.       *)
(* A file's contents are a number; 1 are those at the start, and replaced  *)
(* contents never come back (bound: a file put back passes every check).   *)
(***************************************************************************)
EXTENDS Integers, SequencesExt

CONSTANTS Generators, \* processes running generate, by their --machine-id
          MaxFaults   \* bound: replacements, failing commands, kills, edits

Tools == {"stable", "compat"}
Alice == 1            \* the input pinned by INPUT_SHA256

VARIABLES disk,   \* the files: source, input, the tools and the canonical binary
          gen,    \* the generators
          report, \* what is at the output path
          val,    \* the validator, with --verify-files
          faults

vars == <<disk, gen, report, val, faults>>

\* A binary is told apart by what it was built from, and by what.
Build(t) == [source |-> disk.source, by |-> t, version |-> disk[t]]
NoBinary == [source |-> 0, by |-> "stable", version |-> 0]
NoReport == [source |-> 0]

Idle == [pc |-> "exists", source |-> 0, tools |-> [t \in Tools |-> 0],
         canonical |-> NoBinary, tested |-> 0, bins |-> [t \in Tools |-> NoBinary],
         archives |-> [t \in Tools |-> [of |-> 0, odd |-> FALSE]], restored |-> <<>>]

Init ==
  /\ disk = [source |-> 1, input |-> Alice, stable |-> 1, compat |-> 1,
             canonical |-> [source |-> 1, by |-> "stable", version |-> 1]]
  /\ gen = [g \in Generators |-> Idle]
  /\ report = NoReport
  /\ val = [pc |-> "idle", doc |-> NoReport, since |-> 0]
  /\ faults = 0

Cost(n) == faults' = faults + n /\ faults' <= MaxFaults
At(g, pc) == gen[g].pc = pc
Step(g, changes) ==
  gen' = [gen EXCEPT ![g] = [f \in DOMAIN @ |-> IF f \in DOMAIN changes THEN changes[f] ELSE @[f]]]
\* One check: on to the next step, or the ReproError that ends the run.
Check(g, ok, changes) == Step(g, IF ok THEN changes ELSE [pc |-> "refused"])
Reads == UNCHANGED <<disk, report, val, faults>>
Runs == UNCHANGED <<disk, report, val>>

-----------------------------------------------------------------------------
(* Before the temporary directory.                                         *)

CheckOutput(g) ==
  /\ At(g, "exists") /\ Check(g, report = NoReport, [pc |-> "input"]) /\ Reads
CheckInput(g) ==
  /\ At(g, "input") /\ Check(g, disk.input = Alice, [pc |-> "canonical"]) /\ Reads
HashCanonical(g) ==
  /\ At(g, "canonical")
  /\ Step(g, [pc |-> "toolchains", canonical |-> disk.canonical]) /\ Reads
ResolveToolchains(g) ==
  /\ At(g, "toolchains")
  /\ Step(g, [pc |-> "snapshot", tools |-> [t \in Tools |-> disk[t]]]) /\ Reads
SnapshotSource(g) ==
  /\ At(g, "snapshot")
  /\ Step(g, [pc |-> "test", source |-> disk.source]) /\ Reads

-----------------------------------------------------------------------------
(* Commands: each may fail, time out or be of no use, as a fault.          *)

\* The workspace test: its summaries name failures, or too many ignored.
RunTests(g) ==
  /\ At(g, "test")
  /\ \E n \in {0, 1} : Cost(n) /\ Check(g, n = 0, [pc |-> "build-stable", tested |-> disk.source])
  /\ Runs

BuildWith(g, pc, t, next) ==
  /\ At(g, pc)
  /\ \E n \in {0, 1} :
       Cost(n) /\ Check(g, n = 0, [pc |-> next, bins |-> [gen[g].bins EXCEPT ![t] = Build(t)]])
  /\ Runs

SameAsCanonical(g) ==
  /\ At(g, "same")
  /\ Check(g, gen[g].bins["stable"] = gen[g].canonical, [pc |-> "compress-stable"]) /\ Reads

\* A compiler may have made a binary that writes another archive.
CompressWith(g, pc, t, next) ==
  /\ At(g, pc)
  /\ \E n \in {0, 1} :
       /\ Cost(n)
       /\ Step(g, [pc |-> next, archives |->
                     [gen[g].archives EXCEPT ![t] = [of |-> disk.input, odd |-> n = 1]]])
  /\ Runs

\* Mutant: it is enough that one archive is of the input.
ArchivesOfAlice(archives) == archives["stable"].of = Alice
ArchiveIdentical(archives) == archives["stable"] = archives["compat"]
Compare(g) ==
  /\ At(g, "compare")
  /\ Check(g, ArchiveIdentical(gen[g].archives), [pc |-> "decode"]) /\ Reads

Cell(by, of) == [by |-> by, of |-> of]
\* Mutant: each binary decodes its own archive.
SelfCells == <<Cell("stable", "stable"), Cell("compat", "compat")>>
DecodeCells ==
  <<Cell("stable", "stable"), Cell("stable", "compat"),
    Cell("compat", "compat"), Cell("compat", "stable")>>

\* The next cell; what it restores may be wrong.
Decode(g) ==
  LET cell == DecodeCells[Len(gen[g].restored) + 1]
      row(n) == [cell |-> cell, bytes |-> IF n = 1 THEN 0 ELSE gen[g].archives[cell.of].of]
  IN  /\ At(g, "decode") /\ Len(gen[g].restored) < Len(DecodeCells)
      /\ \E n \in {0, 1} : Cost(n) /\ Step(g, [restored |-> Append(gen[g].restored, row(n))])
      /\ Runs
\* All of them are hashed before any is compared.
CheckRestored(g) ==
  /\ At(g, "decode") /\ Len(gen[g].restored) = Len(DecodeCells)
  /\ Check(g, \A r \in ToSet(gen[g].restored) : r.bytes = Alice, [pc |-> "after-source"])
  /\ Reads

-----------------------------------------------------------------------------
(* Afterwards everything is looked at again, in this order.                *)

\* Mutant: git_identity alone, whose commit is the same.
SourceCommitted(g) == TRUE
SourceUnchanged(g) == disk.source = gen[g].source
CheckSourceAfter(g) ==
  /\ At(g, "after-source") /\ Check(g, SourceUnchanged(g), [pc |-> "after-input"]) /\ Reads
CheckInputAfter(g) ==
  /\ At(g, "after-input") /\ Check(g, disk.input = Alice, [pc |-> "after-canonical"]) /\ Reads
CheckCanonicalAfter(g) ==
  /\ At(g, "after-canonical")
  /\ Check(g, disk.canonical = gen[g].canonical, [pc |-> "after-toolchains"]) /\ Reads
ToolchainsUnchanged(g) == \A t \in Tools : disk[t] = gen[g].tools[t]
CheckToolchainsAfter(g) ==
  /\ At(g, "after-toolchains") /\ Check(g, ToolchainsUnchanged(g), [pc |-> "write"]) /\ Reads

\* tested, built and restored are what the claims of the report rest on.
Document(g) ==
  [machine |-> g, source |-> gen[g].source, tools |-> gen[g].tools, bins |-> gen[g].bins, input |-> Alice,
   same |-> ArchiveIdentical(gen[g].archives), restored |-> gen[g].restored,
   tested |-> gen[g].tested, archives |-> gen[g].archives]
\* validate_report, of what is told apart here.
Valid(doc) == doc # NoReport /\ doc.input = Alice /\ doc.same

Write(g) ==
  /\ At(g, "write") /\ Check(g, Valid(Document(g)), [pc |-> "done"])
  /\ report' = IF Valid(Document(g)) THEN Document(g) ELSE report
  /\ UNCHANGED <<disk, val, faults>>

\* Nothing was written but in the temporary directory.
Kill(g) ==
  /\ gen[g].pc \notin {"refused", "done"} /\ Cost(1)
  /\ Step(g, [pc |-> "refused"]) /\ Runs

Generate(g) ==
  \/ CheckOutput(g) \/ CheckInput(g) \/ HashCanonical(g) \/ ResolveToolchains(g)
  \/ SnapshotSource(g) \/ RunTests(g)
  \/ BuildWith(g, "build-stable", "stable", "build-compat")
  \/ BuildWith(g, "build-compat", "compat", "same")
  \/ SameAsCanonical(g)
  \/ CompressWith(g, "compress-stable", "stable", "compress-compat")
  \/ CompressWith(g, "compress-compat", "compat", "compare")
  \/ Compare(g) \/ Decode(g) \/ CheckRestored(g)
  \/ CheckSourceAfter(g) \/ CheckInputAfter(g) \/ CheckCanonicalAfter(g)
  \/ CheckToolchainsAfter(g) \/ Write(g) \/ Kill(g)

-----------------------------------------------------------------------------
(* validate --verify-files, and everybody else.                            *)

Accept(ok, next) ==
  /\ val' = [val EXCEPT !.pc = IF ok THEN next ELSE "invalid"]
  /\ UNCHANGED <<disk, gen, report, faults>>

ReadReport ==
  /\ val.pc = "idle" /\ report # NoReport
  /\ val' = [pc |-> IF Valid(report) THEN "input" ELSE "invalid",
             doc |-> report, since |-> faults]
  /\ UNCHANGED <<disk, gen, report, faults>>
VerifyInput == val.pc = "input" /\ Accept(disk.input = Alice, "toolchains")
\* Mutant: the first toolchain is the one that built the canonical binary.
ToolMatches(doc) == disk["stable"] = doc.tools["stable"]
ToolsMatch(doc) == \A t \in Tools : disk[t] = doc.tools[t]
VerifyToolchains == val.pc = "toolchains" /\ Accept(ToolsMatch(val.doc), "canonical")
VerifyCanonical ==
  val.pc = "canonical" /\ Accept(disk.canonical = val.doc.bins["stable"], "valid")

Replace(f) ==
  /\ Cost(1)
  /\ disk' = [disk EXCEPT ![f] = @ + 1]
  /\ UNCHANGED <<gen, report, val>>
\* Somebody builds the release.
Rebuild ==
  /\ Cost(1) /\ disk' = [disk EXCEPT !.canonical = Build("stable")]
  /\ UNCHANGED <<gen, report, val>>
\* Somebody edits a claim of the report.
Edit ==
  /\ report # NoReport /\ Cost(1)
  /\ \/ report' = [report EXCEPT !.same = FALSE]
     \/ \E t \in Tools : report' = [report EXCEPT !.tools[t] = @ + 1]
  /\ UNCHANGED <<disk, gen, val>>

Next ==
  \/ \E g \in Generators : Generate(g)
  \/ ReadReport \/ VerifyInput \/ VerifyToolchains \/ VerifyCanonical
  \/ \E f \in {"source", "input"} \cup Tools : Replace(f)
  \/ Rebuild \/ Edit

Spec == Init /\ [][Next]_vars

-----------------------------------------------------------------------------
Published(g) == At(g, "done")

TypeOK ==
  /\ \A g \in Generators : Published(g) => Len(gen[g].restored) = 4 /\ gen[g].source >= 1
  /\ report # NoReport => report.tools \in [Tools -> Nat] /\ report.same \in BOOLEAN
  /\ report # NoReport => \E g \in Generators : Published(g)
  /\ val.pc \in {"idle", "input", "toolchains", "canonical", "valid", "invalid"}
  /\ faults \in Nat

\* compiler_matrix.py:916: both compilers tested and built the one source
\* snapshot that the report names, with the toolchains it names.
BothBuiltTheSnapshot ==
  \A g \in Generators : Published(g) =>
    /\ gen[g].tested = gen[g].source
    /\ \A t \in Tools : gen[g].bins[t] = [source |-> gen[g].source, by |-> t,
                                          version |-> gen[g].tools[t]]

\* A report means that each build restored the pinned input from either
\* build's archive, and that the archives are of it: also when the input or
\* a binary was something else in between.
EveryPairRestoresAlice ==
  \A g \in Generators : Published(g) =>
    /\ \A t \in Tools : gen[g].archives[t] = [of |-> Alice, odd |-> gen[g].archives["stable"].odd]
    /\ \A by, of \in Tools : \E r \in ToSet(gen[g].restored) :
         r.cell = Cell(by, of) /\ r.bytes = Alice

\* repro/README.md:154: an accepted report still names the toolchains, the
\* input and the canonical binary on disk, whatever was edited or replaced
\* before the validator began, and its stable build came from them.
ValidatedIsOnDisk ==
  val.pc = "valid" /\ faults = val.since =>
    /\ \A t \in Tools : disk[t] = val.doc.tools[t]
    /\ disk.input = Alice /\ disk.canonical = val.doc.bins["stable"] /\ val.doc.same

\* A published report stands for the builds, the decodes and the files it
\* names, whatever was edited between two of its commands.
ReportsStandForBuilds ==
  /\ TypeOK
  /\ BothBuiltTheSnapshot /\ EveryPairRestoresAlice /\ ValidatedIsOnDisk
===============================================================================
