---------------------------- MODULE BlockCompressor ----------------------------
(***************************************************************************)
(* What block-stream compression promises its caller, with no threads,     *)
(* batches, spool or limits: blocks of the input are accepted one at a     *)
(* time in source order, and a successful call hands out the archive of    *)
(* exactly the accepted blocks.                                            *)
(***************************************************************************)
EXTENDS Integers, Sequences

CONSTANT Blocks    \* the extents [offset, length] a block may have

VARIABLES
    payloadLength, \* the size of the representation of the block at each offset
    accepted,      \* blocks accepted so far
    verdict,       \* "running", "done" or "failed"
    archive        \* what the caller may publish: nothing before success

vars == <<payloadLength, accepted, verdict, archive>>

(* The payload that represents a block. *)
Payload(block) ==
    [j \in 1..payloadLength[block.offset] |-> [block |-> block.offset, index |-> j - 1]]

Init ==
    /\ accepted = <<>>
    /\ verdict = "running"
    /\ archive = <<>>

SourceEnd ==
    IF accepted = <<>> THEN 0
    ELSE accepted[Len(accepted)].offset + accepted[Len(accepted)].length

(* Accept the next block of the input: it starts where the last one ended. *)
Accept ==
    /\ verdict = "running"
    /\ \E block \in Blocks :
         /\ block.offset = SourceEnd
         /\ block.length > 0
         /\ accepted' = Append(accepted, block)
    /\ UNCHANGED <<payloadLength, verdict, archive>>

Succeed ==
    /\ verdict = "running"
    /\ verdict' = "done"
    /\ archive' = [i \in 1..Len(accepted) |->
                     [block |-> accepted[i], payload |-> Payload(accepted[i])]]
    /\ UNCHANGED <<payloadLength, accepted>>

Reject ==
    /\ verdict = "running"
    /\ verdict' = "failed"
    /\ UNCHANGED <<payloadLength, accepted, archive>>

Next == Accept \/ Succeed \/ Reject

Spec == Init /\ [][Next]_vars
================================================================================
