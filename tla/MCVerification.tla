---------------------------- MODULE MCVerification ----------------------------
(***************************************************************************)
(* What the verification scripts do: the determinism matrix, the gate      *)
(* campaigns and the compiler matrix; and, for mathzip_bench, a cell of a  *)
(* campaign and the document of all cells, with their verifier.  A         *)
(* behaviour is about one of the five, its part; the others rest in an     *)
(* initial state.                                                          *)
(***************************************************************************)
EXTENDS CompilerMatrix, GateCampaign, DeterminismMatrix, BenchDocument

CONSTANTS Parts   \* of "matrix", "gates", "cells", "documents", "compilers"

VARIABLE part

-----------------------------------------------------------------------------
(* The matrix in two environments, with one thread mode and one backend.   *)

Env(m, a, c) == [machine |-> m, arch |-> a, compiler |-> c,
                 binary |-> [debug |-> 1, release |-> 2]]
Cap(up, threads, backends) == [up |-> up, threads |-> threads, backends |-> backends]
TwoEnvs == {Env("m1", "x86", "c1"), Env("m2", "arm", "c2")}
EveryCap == Cap(TRUE, TRUE, {"scalar"})
AllCaps ==
  {EveryCap, Cap(TRUE, TRUE, {}), Cap(TRUE, FALSE, {"scalar"}), Cap(FALSE, FALSE, {})}
AllEndings == {"compress-exit", "compress-unsupported", "compress-timeout",
               "no-archive", "decompress-exit", "decompress-unsupported",
               "decompress-timeout", "wrong"}

-----------------------------------------------------------------------------
(* Campaigns with requests that are complete and requests that lack        *)
(* something, outcomes on both sides of every limit, two faults.           *)

Item(id, domain) == [id |-> id, domain |-> domain]
Controls == {Item("c1", "random"), Item("c2", "compressed")}
Enwik == {Item("enwik9", "text")}
ExactItems == {Item("g1", "exact"), Item("g2", "exact")}
Real == {Item("m1", "bitmap"), Item("m2", "bitmap"), Item("s1", "scan")}
Targets == {Item("decode", ""), Item("entropy", "")}

Request(kind, profiles, reps, warmups, items, canonical) ==
  [kind |-> kind, profiles |-> profiles, reps |-> reps, warmups |-> warmups,
   items |-> items, canonical |-> canonical]
Two == {"fast", "max"}
Three == {"balanced", "fast", "max"}

AllRequests ==
  { Request("literal", Three, 2, 0, {Item("c1", "random")}, TRUE),
    Request("literal", Three, 1, 0, Controls, TRUE),
    Request("memory", Three, 2, 1, Enwik, FALSE),
    Request("memory", Three, 1, 1, Enwik, TRUE),
    Request("memory", Two, 2, 0, Enwik, TRUE),
    Request("procedural", {}, 1, 0, ExactItems \cup Real, TRUE),
    Request("procedural", {}, 1, 0, Real, TRUE),
    Request("fuzz", {}, 1, 0, Targets, TRUE),
    Request("determinism", {}, 2, 0, Enwik, TRUE),
    Request("literal", Three, 2, 0, Controls, TRUE),
    Request("memory", Three, 2, 1, Enwik, TRUE) }

\* Literal-only archives: 2488 bytes, the bound is 2490.
ArchiveSizes == [A |-> 2488, B |-> 2490, C |-> 2491]

Literal(end, archive) == [end |-> end, archive |-> archive]
Memory(end, e, d) == [end |-> end, encoder |-> e, decoder |-> d]
Procedural(end, f, l, leaves, gain) ==
  [end |-> end, functions |-> f, literals |-> l, leaves |-> leaves, gain |-> gain]
Fuzz(end, artifacts, units) ==
  [end |-> end, artifacts |-> artifacts, units |-> units, planned |-> 2]

UsualRows ==
  [literal     |-> {Literal("ok", "B")},
   memory      |-> {Memory("ok", 3, 3)},
   procedural  |-> {Procedural("ok", 100, 0, 0, 1)},
   fuzz        |-> {Fuzz("ok", 0, 2)},
   determinism |-> {Literal("ok", "A")}]
FaultyRows ==
  [literal     |-> {Literal("exit", "A"), Literal("ok", "C"), Literal("ok", "A")},
   memory      |-> {Memory("exit", 3, 0), Memory("ok", 4, 3), Memory("ok", 3, 4),
                    Memory("ok", 0, 3)},
   procedural  |-> {Procedural("exit", 0, 0, 0, 0), Procedural("ok", 99, 1, 0, 1),
                    Procedural("ok", 98, 2, 1, 1), Procedural("ok", 49, 51, 0, 1),
                    Procedural("ok", 100, 0, 0, 0), Procedural("ok", 0, 100, 1, -2),
                    Procedural("ok", 60, 30, 1, 1)},
   fuzz        |-> {Fuzz("timeout", 0, 2), Fuzz("exit", 1, 2), Fuzz("ok", 1, 2),
                    Fuzz("ok", 0, 1), Fuzz("ok", 0, -1)},
   determinism |-> {Literal("exit", "A"), Literal("unsupported", "A"), Literal("ok", "B")}]

-----------------------------------------------------------------------------
(* Cells of up to two trials, whose archives differ in content, in size or *)
(* not at all.                                                             *)

CellContents == {"a", "b", "c"}
CellSizes == [c \in CellContents |-> IF c = "a" THEN 1 ELSE 2]

-----------------------------------------------------------------------------
(* Two corpora that share a file, the first cut to one file; either the    *)
(* environment or the policy is an unusual one.                            *)

Source(corpus, files, rights, max) ==
  [corpus |-> corpus, root |-> corpus, files |-> files, required |-> TRUE,
   rights |-> rights, max |-> max]
Good == [disk |-> [f \in {"f", "g", "h"} |-> "listed"],
         manifest |-> [c \in {"A", "B"} |-> "lists"],
         source |-> "clean", tools |-> "built", config |-> "first", host |-> "first"]
GoodPolicy == [warmups |-> 1, repeats |-> 3, collect |-> TRUE, filtered |-> FALSE]

TwoSources == <<Source("A", <<"f", "g">>, FALSE, 1), Source("B", <<"g", "h">>, TRUE, 0)>>
TwoCodecs == <<[name |-> "mz", family |-> "mathzip"], [name |-> "raw", family |-> "raw"]>>
UnusualWorlds ==
  {Good, [Good EXCEPT !.disk["f"] = "other"],
   [Good EXCEPT !.disk["g"] = "gone", !.disk["h"] = "gone"],
   [Good EXCEPT !.manifest["B"] = "none"], [Good EXCEPT !.manifest["A"] = "broken"],
   [Good EXCEPT !.source = "dirty"],
   [Good EXCEPT !.source = "tree", !.tools = "absent"],
   [Good EXCEPT !.tools = "foreign"]}
UnusualPolicies ==
  {GoodPolicy, [GoodPolicy EXCEPT !.collect = FALSE],
   [GoodPolicy EXCEPT !.warmups = 0], [GoodPolicy EXCEPT !.filtered = TRUE]}

-----------------------------------------------------------------------------
resultVars == <<rowVars, documentVars>>
allVars == <<part, matrixVars, gateVars, resultVars, vars>>

MCInit ==
  /\ part \in Parts
  /\ MatrixInit /\ GateInit /\ RowInit /\ DocumentInit /\ Init
  \* What a part chooses at its start is fixed where the part is not looked at.
  /\ part # "gates" => request = CHOOSE q \in AllRequests : TRUE
  /\ part # "cells" => job = CHOOSE j \in Configured : TRUE
  /\ part # "documents" => world = Good
  /\ policy = GoodPolicy \/ (part = "documents" /\ world = Good)

MCNext ==
  \/ part = "matrix" /\ MatrixNext /\ UNCHANGED <<part, gateVars, resultVars, vars>>
  \/ part = "gates" /\ GateNext /\ UNCHANGED <<part, matrixVars, resultVars, vars>>
  \/ part = "cells" /\ RowNext
       /\ UNCHANGED <<part, matrixVars, gateVars, documentVars, vars>>
  \/ part = "documents" /\ DocumentNext
       /\ UNCHANGED <<part, matrixVars, gateVars, rowVars, vars>>
  \/ part = "compilers" /\ Next /\ UNCHANGED <<part, matrixVars, gateVars, resultVars>>

MCSpec == MCInit /\ [][MCNext]_allVars

=============================================================================
