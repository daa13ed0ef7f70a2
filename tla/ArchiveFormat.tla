----------------------------- MODULE ArchiveFormat -----------------------------
(***************************************************************************)
(* The MathSVG v1 envelope of mathsvg-container: what encode_archive       *)
(* writes and what decode_archive followed by verify_restored_with accepts *)
(* when the whole file is in memory.                                       *)
(*                                                                         *)
(* An archive is a sequence of words: one header, one record per block,    *)
(* the payload cells, one footer.  A word that fails its magic, reserved   *)
(* fields or CRC is a word of another kind.  A SHA-256 value is the data   *)
(* hashed.  node_count stands for every redundant program statistic        *)
(* (edges, depth, work, workspace), all checked in the same places.        *)
(***************************************************************************)
EXTENDS Integers, Sequences, SequencesExt, Totals

CONSTANTS
    Programs,        \* the programs a payload can serialise
    Restores,        \* the bytes evaluating each program yields
    PayloadCells,    \* the length of each program's payload, block header included
    NodeCount,       \* its number of nodes
    EncoderLimits,   \* Limits the archive was encoded under
    DecoderLimits    \* Limits of the decoder

LimitFields == [archive : Nat, output : Nat, blockOutput : Nat, blockPayload : Nat]

ASSUME ProgramsAssumption ==
    /\ Restores \in [Programs -> Seq(Nat)]
    /\ PayloadCells \in [Programs -> Nat \ {0}]
    /\ NodeCount \in [Programs -> Nat \ {0}]
ASSUME LimitsAssumption == EncoderLimits \in LimitFields /\ DecoderLimits \in LimitFields

HeaderWords == 1    \* FILE_HEADER_BYTES
RecordWords == 1    \* DIRECTORY_RECORD_BYTES
FooterWords == 1    \* FILE_FOOTER_BYTES
BlockHeaderCells == 1
MinArchive == HeaderWords + FooterWords

(* A program's payload: its block header and its serialised sections. *)
Serialized(program) ==
    [i \in 1..PayloadCells[program] |-> [kind |-> "cell", program |-> program, index |-> i]]

Damaged == [kind |-> "damaged"]
--------------------------------------------------------------------------------
(* Encoding.  A block is a program and the bytes its caller says it        *)
(* restores; the encoder only compares their lengths.                      *)

Preparable(block, limits) ==
    /\ Len(block.restored) > 0
    /\ Len(block.restored) <= limits.blockOutput
    /\ Len(Restores[block.program]) = Len(block.restored)
    /\ PayloadCells[block.program] <= limits.blockPayload

RestoredLengths(blocks) == [i \in 1..Len(blocks) |-> Len(blocks[i].restored)]
PayloadLengths(blocks) == [i \in 1..Len(blocks) |-> PayloadCells[blocks[i].program]]
Nodes(blocks) == [i \in 1..Len(blocks) |-> NodeCount[blocks[i].program]]
Restored(blocks) == FlattenSeq([i \in 1..Len(blocks) |-> blocks[i].restored])

PayloadStartAfterDirectory(count) == count * RecordWords
PayloadStart(count) == HeaderWords + count * RecordWords

EncodeRecord(blocks, i) ==
    LET before == SubSeq(blocks, 1, i - 1)
    IN [kind |-> "record",
        offset |-> Total(RestoredLengths(before)),
        length |-> Len(blocks[i].restored),
        payloadOffset |-> PayloadStart(Len(blocks)) + Total(PayloadLengths(before)),
        payloadLength |-> PayloadCells[blocks[i].program],
        nodes |-> NodeCount[blocks[i].program],
        restoredHash |-> blocks[i].restored,
        payloadHash |-> Serialized(blocks[i].program)]

EncodeHeader(blocks) ==
    [kind |-> "header",
     originalSize |-> Total(RestoredLengths(blocks)),
     blockCount |-> Len(blocks),
     directoryBytes |-> Len(blocks) * RecordWords,
     payloadOffset |-> PayloadStart(Len(blocks)),
     payloadBytes |-> Total(PayloadLengths(blocks)),
     footerOffset |-> PayloadStart(Len(blocks)) + Total(PayloadLengths(blocks)),
     nodes |-> Total(Nodes(blocks)),
     originalHash |-> Restored(blocks)]

EncodeFooter(directory, payload, prefix) ==
    [kind |-> "footer",
     directoryHash |-> directory,
     payloadHash |-> payload,
     prefixHash |-> prefix,
     archiveBytes |-> Len(prefix) + FooterWords]

Encode(blocks) ==
    LET directory == [i \in 1..Len(blocks) |-> EncodeRecord(blocks, i)]
        payload == FlattenSeq([i \in 1..Len(blocks) |-> Serialized(blocks[i].program)])
        prefix == <<EncodeHeader(blocks)>> \o directory \o payload
    IN Append(prefix, EncodeFooter(directory, payload, prefix))

(* encode_archive returns an archive and not an error. *)
Encodes(blocks, limits) ==
    /\ \A i \in 1..Len(blocks) : Preparable(blocks[i], limits)
    /\ Total(RestoredLengths(blocks)) <= limits.output
    /\ Len(Encode(blocks)) <= limits.archive

(* Every block's program restores what its caller said. *)
Honest(blocks) == \A i \in 1..Len(blocks) : Restores[blocks[i].program] = blocks[i].restored
--------------------------------------------------------------------------------
(* Decoding: the checks both decoders make. *)

HeaderUnlimited(header, length) ==
    /\ header.kind = "header"
    /\ header.directoryBytes = header.blockCount * RecordWords
    /\ header.payloadOffset = HeaderWords + header.directoryBytes
    /\ header.footerOffset = header.payloadOffset + header.payloadBytes
    /\ length = header.footerOffset + FooterWords

HeaderFits(header, length) ==
    /\ HeaderUnlimited(header, length)
    /\ header.originalSize <= DecoderLimits.output

EmptyHeader(header) == header.originalSize = 0 /\ header.payloadBytes = 0
                         /\ header.nodes = 0 /\ header.originalHash = <<>>

RecordShaped(record) ==
    /\ record.kind = "record"
    /\ record.payloadLength >= BlockHeaderCells
    /\ record.nodes > 0

(* decode_directory_record and validate_record_limits. *)
RecordFits(record) ==
    /\ RecordShaped(record)
    /\ record.length <= DecoderLimits.blockOutput
    /\ record.payloadLength <= DecoderLimits.blockPayload

(* decode_program_payload: the payload is the one the record describes. *)
Parses(payload, record, program) ==
    /\ payload = record.payloadHash
    /\ payload = Serialized(program)
    /\ record.length = Len(Restores[program])
    /\ record.nodes = NodeCount[program]

(* The block's program evaluates to the bytes the record promises. *)
Verifies(payload, record) ==
    \E program \in Programs :
        Parses(payload, record, program) /\ Restores[program] = record.restoredHash

FooterMatches(footer, directory, payload, prefix, length) ==
    /\ footer.kind = "footer"
    /\ footer.directoryHash = directory
    /\ footer.payloadHash = payload
    /\ footer.prefixHash = prefix
    /\ footer.archiveBytes = length
--------------------------------------------------------------------------------
(* decode_archive, then verify_restored_with: footer first, directory as a *)
(* whole, then every payload, then every program.                          *)

RecordsTile(header, directory) ==
    \A i \in 1..Len(directory) :
        /\ RecordFits(directory[i])
        /\ directory[i].length > 0
        /\ directory[i].offset =
             IF i = 1 THEN 0 ELSE directory[i-1].offset + directory[i-1].length
        /\ directory[i].payloadOffset =
             IF i = 1 THEN header.payloadOffset
                      ELSE directory[i-1].payloadOffset + directory[i-1].payloadLength

RecordsAddUp(header, directory) ==
    LET last == directory[Len(directory)]
    IN /\ last.offset + last.length = header.originalSize
       /\ last.payloadOffset + last.payloadLength = header.footerOffset
       /\ header.nodes = Total([i \in 1..Len(directory) |-> directory[i].nodes])

BlocksVerify(file, header, directory) ==
    /\ \A i \in 1..Len(directory) :
         Verifies(SubSeq(file, directory[i].payloadOffset + 1,
                         directory[i].payloadOffset + directory[i].payloadLength),
                  directory[i])
    /\ header.originalHash =
         FlattenSeq([i \in 1..Len(directory) |-> directory[i].restoredHash])

InMemoryAccepts(file) ==
    /\ Len(file) <= DecoderLimits.archive
    /\ Len(file) >= MinArchive
    /\ HeaderFits(file[1], Len(file))
    /\ LET header == file[1]
           directory == SubSeq(file, 2, header.payloadOffset)
           payload == SubSeq(file, header.payloadOffset + 1, header.footerOffset)
       IN /\ FooterMatches(file[Len(file)], directory, payload,
                           SubSeq(file, 1, header.footerOffset), Len(file))
          /\ IF header.blockCount = 0
             THEN EmptyHeader(header)
             ELSE /\ header.originalSize > 0
                  /\ RecordsTile(header, directory)
                  /\ RecordsAddUp(header, directory)
                  /\ BlocksVerify(file, header, directory)
================================================================================
