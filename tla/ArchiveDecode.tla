----------------------------- MODULE ArchiveDecode -----------------------------
(***************************************************************************)
(* decode_archive_stream of mathsvg-container driven by                    *)
(* decompress_reader_to_spool of mathsvg-stream: the directory is read     *)
(* twice, once whole and once record by record with the payloads, blocks   *)
(* reach the caller's spool before the footer is read, and every read goes *)
(* to a file another process may be rewriting in place.                    *)
(***************************************************************************)
EXTENDS ArchiveFormat

CONSTANTS
    Files,        \* what the archive file may hold when it is opened
    Rewrites,     \* archives another process may be writing over it
    Inputs,       \* lists of blocks an encoder may have been given
    MaxWrites,    \* bound of the model: words that process writes
    MayFail       \* whether reads of the file and writes to the spool may fail

ASSUME DecodeAssumption == MaxWrites \in Nat /\ MayFail \in BOOLEAN

(* The words that can be in the file.  A word whose fields are not those   *)
(* of its kind is one of another kind.                                     *)
Written == UNION {{archive[i] : i \in 1..Len(archive)} : archive \in Files \cup Rewrites}

ASSUME WordsAssumption ==
    /\ Files \cup Rewrites \subseteq Seq(Written)
    /\ \A word \in Written :
         /\ word.kind = "header" =>
              {word.originalSize, word.blockCount, word.payloadOffset, word.payloadBytes,
               word.footerOffset, word.nodes} \subseteq Nat
         /\ word.kind = "record" =>
              /\ {word.offset, word.length, word.payloadOffset, word.payloadLength,
                  word.nodes} \subseteq Nat
              /\ word.restoredHash \in Seq(Nat)

ASSUME InputsAssumption == Inputs \subseteq Seq([program : Programs, restored : Seq(Nat)])

VARIABLES
    file,        \* the words of the file now
    writes,      \* words written to it since it was opened
    pc,
    failure,     \* why the call returned an error
    length,      \* input_length
    header,      \* header
    directory,   \* the records the first pass read and hashed
    reread,      \* the records the second pass read and hashed
    payload,     \* the payload cells read and hashed
    footer,      \* the footer read last
    offset,      \* expected original offset of the next record
    position,    \* expected payload offset of the next record
    nodes,       \* total_node_count
    restored,    \* what complete_restored_hash was fed
    spool,       \* the caller's output spool
    buffered     \* the largest payload and restored block held

fileVars == <<file, writes>>
passVars == <<offset, position, nodes>>
outVars == <<restored, spool, buffered>>
vars == <<file, writes, pc, failure, length, header, directory, reread, payload, footer,
          offset, position, nodes, restored, spool, buffered>>

Running == {"open", "header", "directory", "blocks", "payload", "footer"}
None == [kind |-> "none"]

Init ==
    /\ file \in Files
    /\ writes = 0
    /\ pc = "open"
    /\ failure = "none"
    /\ length = 0
    /\ header = None
    /\ directory = <<>>
    /\ reread = <<>>
    /\ payload = <<>>
    /\ footer = None
    /\ offset = 0
    /\ position = 0
    /\ nodes = 0
    /\ restored = <<>>
    /\ spool = <<>>
    /\ buffered = [payload |-> 0, restored |-> 0]

Most(a, b) == IF a >= b THEN a ELSE b

(* Another process rewrites the file word by word, or truncates it first. *)
Rewrite ==
    /\ pc \in Running
    /\ writes < MaxWrites
    /\ writes' = writes + 1
    /\ \/ \E source \in Rewrites : \E i \in 1..Len(source) :
            /\ i <= Len(file) + 1
            /\ file' = IF i <= Len(file) THEN [file EXCEPT ![i] = source[i]]
                                         ELSE Append(file, source[i])
       \/ file' = <<>>
    /\ UNCHANGED <<pc, failure, length, header, directory, reread, payload, footer,
                   passVars, outVars>>

FailSilently(kind) == pc' = "failed" /\ UNCHANGED failure
FailRetrying(kind) == UNCHANGED <<pc, failure>>
Fail(kind) ==
    /\ pc' = "failed"
    /\ failure' = kind
Reject == Fail("format")

Readable(last) == last <= Len(file)
--------------------------------------------------------------------------------
(* The length is taken once, by seeking to the end. *)
Open ==
    /\ pc = "open"
    /\ length' = Len(file)
    /\ IF Len(file) <= DecoderLimits.archive /\ Len(file) >= MinArchive
       THEN pc' = "header" /\ UNCHANGED failure
       ELSE Reject
    /\ UNCHANGED <<fileVars, header, directory, reread, payload, footer, passVars, outVars>>

ReadHeader ==
    /\ pc = "header"
    /\ IF Readable(1) /\ HeaderFits(file[1], length)
       THEN /\ header' = file[1]
            /\ position' = file[1].payloadOffset
            /\ pc' = "directory"
            /\ UNCHANGED failure
       ELSE Reject /\ UNCHANGED <<header, position>>
    /\ UNCHANGED <<fileVars, length, directory, reread, payload, footer, offset, nodes, outVars>>

Contiguous(record) == record.offset = offset /\ record.payloadOffset = position

(* First pass: one record. *)
ReadRecord ==
    /\ pc = "directory"
    /\ Len(directory) < header.blockCount
    /\ LET next == HeaderWords + Len(directory) + 1
       IN IF /\ Readable(next)
             /\ RecordFits(file[next])
             /\ file[next].length > 0
             /\ Contiguous(file[next])
          THEN /\ directory' = Append(directory, file[next])
               /\ offset' = offset + file[next].length
               /\ position' = position + file[next].payloadLength
               /\ nodes' = nodes + file[next].nodes
               /\ UNCHANGED <<pc, failure>>
          ELSE /\ Fail(IF Readable(next) THEN "format" ELSE "io")
               /\ UNCHANGED <<directory, passVars>>
    /\ UNCHANGED <<fileVars, length, header, reread, payload, footer, outVars>>

UncheckedTotals == TRUE
TotalsMatch ==
    /\ header.originalSize = offset
    /\ header.footerOffset = position
    /\ header.nodes = nodes

(* The checks between the passes; the second pass starts over. *)
EndDirectory ==
    /\ pc = "directory"
    /\ Len(directory) = header.blockCount
    /\ offset' = 0
    /\ position' = header.payloadOffset
    /\ IF /\ TotalsMatch
          /\ IF header.blockCount = 0 THEN EmptyHeader(header) ELSE header.originalSize > 0
       THEN /\ pc' = IF header.blockCount = 0 THEN "footer" ELSE "blocks"
            /\ UNCHANGED failure
       ELSE Reject
    /\ UNCHANGED <<fileVars, length, header, directory, reread, payload, footer, nodes, outVars>>

(* Second pass: the record again; its limits and offsets are checked again *)
(* but not that it is the record of the first pass.                        *)
RereadUnlimited(record) == RecordShaped(record) /\ Contiguous(record)
RereadFits(record) == RecordFits(record) /\ Contiguous(record)

RereadRecord ==
    /\ pc = "blocks"
    /\ Len(reread) < header.blockCount
    /\ LET next == HeaderWords + Len(reread) + 1
       IN IF Readable(next) /\ RereadFits(file[next])
          THEN /\ reread' = Append(reread, file[next])
               /\ buffered' = [buffered EXCEPT !.payload = Most(@, file[next].payloadLength)]
               /\ pc' = "payload"
               /\ UNCHANGED failure
          ELSE Reject /\ UNCHANGED <<reread, buffered>>
    /\ UNCHANGED <<fileVars, length, header, directory, payload, footer, passVars, restored, spool>>

Current == reread[Len(reread)]
PayloadEnd == Current.payloadOffset + Current.payloadLength
CurrentPayload == SubSeq(file, Current.payloadOffset + 1, PayloadEnd)

(* ... its payload, its program, the evaluated bytes and their hash, then  *)
(* the callback that writes them to the spool.                             *)
DeliveredTwice(bytes) == spool \o bytes \o bytes
Delivered(bytes) == spool \o bytes

ReadPayload ==
    /\ pc = "payload"
    /\ IF /\ Readable(PayloadEnd)
          /\ Verifies(CurrentPayload, Current)
       THEN /\ payload' = payload \o CurrentPayload
            /\ restored' = restored \o Current.restoredHash
            /\ spool' = Delivered(Current.restoredHash)
            /\ buffered' = [buffered EXCEPT !.restored = Most(@, Len(Current.restoredHash))]
            /\ offset' = offset + Current.length
            /\ position' = position + Current.payloadLength
            /\ pc' = "blocks"
            /\ UNCHANGED failure
       ELSE /\ Fail(IF Readable(PayloadEnd) THEN "format" ELSE "io")
            /\ UNCHANGED <<payload, restored, spool, buffered, offset, position>>
    /\ UNCHANGED <<fileVars, length, header, directory, reread, footer, nodes>>

DirectoryUncompared == TRUE
DirectoryUnchanged == reread = directory

(* After the last block: the directory hashes, the restored length and the *)
(* whole restored hash.                                                    *)
EndBlocks ==
    /\ pc = "blocks"
    /\ Len(reread) = header.blockCount
    /\ IF /\ DirectoryUnchanged
          /\ header.originalSize = Len(restored)
          /\ header.originalHash = restored
       THEN pc' = "footer" /\ UNCHANGED failure
       ELSE Reject
    /\ UNCHANGED <<fileVars, length, header, directory, reread, payload, footer, passVars, outVars>>

(* The hash of everything before the footer, as it was read.  The prefix   *)
(* hash was fed the records of the first pass.                             *)
Prefix == <<header>> \o directory \o payload

FooterFits(word) == FooterMatches(word, directory, payload, Prefix, length)

ReadFooter ==
    /\ pc = "footer"
    /\ LET at == header.footerOffset + 1
       IN IF Readable(at) /\ FooterFits(file[at])
          THEN /\ footer' = file[at]
               /\ pc' = "accepted"
               /\ UNCHANGED failure
          ELSE Reject /\ UNCHANGED footer
    /\ UNCHANGED <<fileVars, length, header, directory, reread, payload, passVars, outVars>>

(* A seek or read fails, or the spool's write_all fails after a part of a  *)
(* verified block.                                                         *)
IoError ==
    /\ MayFail
    /\ pc \in Running
    /\ pc' = "failed"
    /\ failure' = "io"
    /\ \/ UNCHANGED <<restored, spool>>
       \/ /\ pc = "payload"
          /\ Readable(PayloadEnd)
          /\ Verifies(CurrentPayload, Current)
          /\ restored' = restored \o Current.restoredHash
          /\ \E n \in 0..Len(Current.restoredHash)-1 :
               spool' = spool \o SubSeq(Current.restoredHash, 1, n)
    /\ UNCHANGED <<fileVars, length, header, directory, reread, payload, footer, passVars, buffered>>

FirstPass == Open \/ ReadHeader \/ ReadRecord \/ EndDirectory
SecondPass == RereadRecord \/ ReadPayload \/ EndBlocks \/ ReadFooter
Decoder == FirstPass \/ SecondPass

Next == Decoder \/ Rewrite \/ IoError

Spec == Init /\ [][Next]_vars

(* The decoding thread runs; nothing is assumed of the rewriting process.  *)
FairSpec == Spec /\ WF_vars(Decoder)
--------------------------------------------------------------------------------
(* The decoder's variables keep their types on any file, however it        *)
(* changes while it is read.                                               *)
TypeOK ==
    /\ writes \in 0..MaxWrites
    /\ pc \in Running \cup {"accepted", "failed"}
    /\ failure \in {"none", "format", "io"}
    /\ pc = "failed" <=> failure # "none"
    /\ length \in Nat
    /\ pc \in Running \ {"open", "header"} => HeaderFits(header, length)
    /\ \A i \in 1..Len(directory) : RecordFits(directory[i])
    /\ offset \in Nat /\ position \in Nat /\ nodes \in Nat
    /\ restored \in Seq(Nat) /\ spool \in Seq(Nat)

Observed == <<header>> \o directory \o payload \o <<footer>>

(* "callers must ... publish it only after this function returns Ok": when *)
(* it does, the words it read form one archive the in-memory decoder       *)
(* accepts, and the spool is exactly what that archive restores, even if   *)
(* the file was rewritten under the decoder between any two reads.         *)
AcceptedIsOneArchive ==
    pc = "accepted" =>
        /\ InMemoryAccepts(Observed)
        /\ spool = header.originalHash
        /\ Len(Observed) = length

(* On a file nobody changes the streaming decoder and the in-memory one,   *)
(* which check in different orders, give the same verdict.                 *)
SameVerdictAsInMemory ==
    writes = 0 =>
        /\ pc = "accepted" => InMemoryAccepts(file)
        /\ failure = "format" => ~InMemoryAccepts(file)

(* Nothing reaches the spool but blocks whose hash the directory promised, *)
(* in order: as long as the second pass saw the records of the first, the  *)
(* spool is a prefix of what the first pass's directory describes.         *)
SpoolIsPromisedPrefix ==
    IsPrefix(reread, directory) =>
        IsPrefix(spool, FlattenSeq([i \in 1..Len(reread) |-> directory[i].restoredHash]))

(* Every allocation stays within the limits although the lengths are read  *)
(* again, after they were validated, from a file that may have changed.    *)
AllocationsBounded ==
    /\ buffered.payload <= DecoderLimits.blockPayload
    /\ buffered.restored <= DecoderLimits.blockOutput

(* An archive in which the program of some block does not restore the      *)
(* bytes its encoder was given is never accepted, and one within the       *)
(* limits in which all do is never rejected while it is left alone.        *)
HonestRestores ==
    \A blocks \in Inputs :
        writes = 0 /\ Encodes(blocks, EncoderLimits) /\ file = Encode(blocks) =>
            /\ pc = "accepted" => Honest(blocks) /\ spool = Restored(blocks)
            /\ failure = "format" => ~(Honest(blocks) /\ Encodes(blocks, DecoderLimits))

(* The streaming decoder says of a file nobody changes what the in-memory  *)
(* one says, and both say what the encoder's blocks deserve.               *)
AgreesWithFormat == SameVerdictAsInMemory /\ HonestRestores

(* A decode ends, even on a file that keeps changing. *)
DecodeEnds == <>(pc \in {"accepted", "failed"})

(* The decoder's state is well formed and what it holds in memory is       *)
(* within the limits, on a file that changes between any two reads.        *)
MemoryIsBounded == TypeOK /\ AllocationsBounded
================================================================================
