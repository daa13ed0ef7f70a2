------------------------------ MODULE MCArchives ------------------------------
(***************************************************************************)
(* How the program of an archive is found and how an archive is read.  A   *)
(* behaviour is about one of the two, its part; the other one rests where  *)
(* it starts.  The decode part is ArchiveDecode itself.                    *)
(***************************************************************************)
EXTENDS ArchiveDecode, SegmentSearch

CONSTANTS Parts   \* of "decode", "search"

VARIABLE part

-----------------------------------------------------------------------------
(* Six programs, archives of up to two blocks, and files damaged in one    *)
(* word with the footer left alone or recomputed.                          *)

(* t and u restore what p does from other payloads of the same length. *)
P == {"p", "q", "r", "s", "t", "u"}
MCRestores == [x \in P |-> CASE x \in {"p", "q", "t", "u"} -> <<1>>
                             [] x = "r" -> <<1, 2>>
                             [] x = "s" -> <<2>>]
MCPayloadCells == [x \in P |-> IF x = "q" THEN 2 ELSE 1]
MCNodeCount == [x \in P |-> IF x \in {"r", "u"} THEN 2 ELSE 1]

Limits(archive, output, blockOutput, blockPayload) ==
    [archive |-> archive, output |-> output, blockOutput |-> blockOutput,
     blockPayload |-> blockPayload]
Wide == Limits(9, 4, 2, 2)
NarrowBlocks == Limits(9, 4, 2, 1)

Block(program, bytes) == [program |-> program, restored |-> bytes]
HonestBlock(program) == Block(program, MCRestores[program])

BlockLists ==
    {<<>>, <<HonestBlock("p")>>, <<HonestBlock("u")>>, <<HonestBlock("q")>>, <<HonestBlock("p"), HonestBlock("q")>>,
     <<HonestBlock("r"), HonestBlock("p")>>, <<Block("r", <<2, 1>>)>>}

Archives == {Encode(blocks) : blocks \in BlockLists}
Words == UNION {{archive[i] : i \in 1..2} : archive \in Archives} \cup {Damaged}

Replaced(archive, i, word) == [archive EXCEPT ![i] = word]

(* The archive with its footer recomputed over the damaged prefix. *)
Resealed(archive) ==
    IF Len(archive) >= 2 /\ archive[1].kind = "header" /\ archive[1].payloadOffset < Len(archive)
    THEN LET prefix == SubSeq(archive, 1, Len(archive) - 1)
         IN Append(prefix, EncodeFooter(SubSeq(archive, 2, archive[1].payloadOffset),
                                        SubSeq(archive, archive[1].payloadOffset + 1,
                                               Len(archive) - 1),
                                        prefix))
    ELSE archive

OneWordDamaged ==
    UNION {{Replaced(archive, i, word) : i \in 1..Len(archive), word \in Words} :
             archive \in Archives}

Shortened == UNION {{SubSeq(archive, 1, n) : n \in 0..Len(archive)-1} : archive \in Archives}

StaticFiles == Archives \cup Shortened \cup OneWordDamaged
                 \cup {Resealed(archive) : archive \in OneWordDamaged}

(* The directory of one program over the payload of another. *)
Mismatched ==
    LET archive == Encode(<<HonestBlock("p")>>)
    IN Resealed(Replaced(archive, 3, Encode(<<HonestBlock("t")>>)[3]))

RewrittenFiles ==
    {Encode(<<HonestBlock("p"), HonestBlock("s")>>), Encode(<<HonestBlock("s"), HonestBlock("p")>>),
     Encode(<<HonestBlock("q")>>), Encode(<<HonestBlock("t")>>), Mismatched}

(* Files that are whole or damaged are left alone; the five archives may be *)
(* rewritten while they are decoded.                                        *)
AllFiles == StaticFiles \cup RewrittenFiles
OthersAreLeftAlone == writes' # writes => writes > 0 \/ file \in RewrittenFiles
DecodeNext == Next /\ OthersAreLeftAlone

-----------------------------------------------------------------------------
(* A search over inputs of up to three microblocks in one block or two,    *)
(* with a whole-block and an interval provider, under caps that are loose  *)
(* or cut it off anywhere.                                                 *)

OneBlock == {<<2>>, <<3>>}
OneOrTwoBlocks == {<<1>>, <<2>>, <<3>>, <<1, 1>>, <<2, 1>>}
WholeProviders == <<"entropy">>
IntervalProviders == <<"functions">>

Offering(rank, bytes) ==
  [rank |-> rank, bytes |-> bytes, work |-> 1, restores |-> TRUE, from |-> 0, to |-> 0, row |-> 0]
Answer(end, work, candidates) == [end |-> end, work |-> work, candidates |-> candidates]

\* A boundary is a varint of where it is.
Boundaries == [n \in 1..3 |-> 1]
Literals == [n \in 0..3 |-> IF n = 0 THEN 0 ELSE 4 * n + 1]
\* A whole block at most a little smaller than its literal; an interval by one
\* or two functions, one of them larger than the literal.
SearchAnswers ==
  [p \in {"entropy", "functions"} |-> [n \in 1..3 |->
     IF p = "entropy"
     THEN {Answer("complete", 2, <<Offering(2, 3 * n + 1)>>), Answer("complete", 1, <<>>),
           Answer("incomplete", 1, <<Offering(2, 4 * n)>>),
           Answer("complete", 1, <<[Offering(2, 1) EXCEPT !.restores = FALSE]>>)}
     ELSE {Answer("complete", 1, <<Offering(3, 2)>>),
           Answer("complete", 2, <<Offering(3, 4 * n + 3), Offering(4, 2 * n)>>)}]]

Caps(candidates, states, work, ledger, segments, archive) ==
  [candidates |-> candidates, states |-> states, work |-> work, ledger |-> ledger,
   segments |-> segments, archive |-> archive]
Loose == Caps(40, 60, 200, 60, 3, 60)
AllCaps ==
  {Loose, [Loose EXCEPT !.segments = 2], [Loose EXCEPT !.archive = 20]}
    \cup {[Loose EXCEPT !.candidates = n] : n \in {0, 1, 2, 4, 6}}
    \cup {[Loose EXCEPT !.states = n] : n \in {1, 2, 4}}
    \cup {[Loose EXCEPT !.work = n] : n \in {0, 1, 3, 6, 10}}
    \cup {[Loose EXCEPT !.ledger = n] : n \in {2, 3, 4, 5, 7, 9}}
    \cup {[Loose EXCEPT !.segments = 1, !.work = n] : n \in {4, 9}}
\* The literal archive of two microblocks fits, two literals in a SPLIT do not.
TightArchive == {[Loose EXCEPT !.archive = 15]}

-----------------------------------------------------------------------------
allVars == <<part, vars, searchVars>>

MCInit ==
    /\ part \in Parts
    /\ IF part = "decode" THEN config = Loose /\ input = <<1>>
       ELSE file = CHOOSE f \in Archives : TRUE
    /\ Init /\ SearchInit

MCNext ==
    \/ part = "decode" /\ DecodeNext /\ UNCHANGED <<part, searchVars>>
    \/ part = "search" /\ SearchNext /\ UNCHANGED <<part, vars>>

\* A decode is one loop that goes on while its thread is scheduled.
MCSpec == MCInit /\ [][MCNext]_allVars /\ WF_vars(part = "decode" /\ Decoder)

-----------------------------------------------------------------------------
(* The properties of the parts, each stated in its module; those of the    *)
(* decode part that are not named here are ArchiveDecode's own.            *)

(* A decode ends, even on a file that keeps changing.                      *)
DecodesEnd == part = "decode" => DecodeEnds
================================================================================
