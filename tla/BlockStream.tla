------------------------------ MODULE BlockStream ------------------------------
(***************************************************************************)
(* Bounded block-stream compression of mathsvg: the batch loop of          *)
(* mathsvg-stream (read up to `threads` blocks, optimise them on scoped    *)
(* worker threads, join, emit in source order) together with the           *)
(* ArchiveStreamEncoder of mathsvg-container it drives (push_block spools  *)
(* one payload, finish assembles header, directory, payload and footer).   *)
(*                                                                         *)
(* Abstractions.  A source block is its extent [offset, length] in the     *)
(* input.  The optimizer is a deterministic function of the block, so      *)
(* `outcome` fixes its result for every offset at the start.  A payload    *)
(* byte is a cell naming its block and its index in that block's payload.  *)
(* A SHA-256 value is represented by the data hashed (no collisions).      *)
(***************************************************************************)
EXTENDS Integers, Sequences

CONSTANTS
    ThreadCounts,      \* values of the `threads` argument a caller may pass
    MaxThreads,        \* MAX_COMPRESSION_THREADS
    BlockSizes,        \* values of OptimizerConfig.block_bytes
    MaxSourceBytes,    \* bound of the model: the longest input
    SourceMayGrow,     \* whether another process may append to the input
    Outcomes,          \* what optimising one block can yield
    SpoolStarts,       \* stream positions of the spool a caller may pass
    SpoolCells,        \* bound of the model: cells of the spool
    HeaderBytes, RecordBytes, BlockHeaderBytes, FooterBytes, CopyBytes,
    MaxArchive, MaxOutput, MaxBlockOutput, MaxBlockPayload   \* Limits

OutcomeKinds == {"program", "unencodable", "several", "error", "panic"}

Threads == 1..MaxThreads

ASSUME BoundsAssumption ==
    /\ MaxThreads \in Nat \ {0}
    /\ ThreadCounts \subseteq Nat
    /\ BlockSizes \subseteq Nat
    /\ MaxSourceBytes \in Nat
    /\ SourceMayGrow \in BOOLEAN

ASSUME EnvelopeAssumption ==
    /\ HeaderBytes \in Nat
    /\ RecordBytes \in Nat
    /\ BlockHeaderBytes \in Nat \ {0}
    /\ FooterBytes \in Nat
    /\ CopyBytes \in Nat \ {0}

ASSUME LimitsAssumption ==
    /\ MaxArchive \in Nat
    /\ MaxOutput \in Nat
    /\ MaxBlockOutput \in Nat
    /\ MaxBlockPayload \in Nat

ASSUME OutcomeAssumption ==
    Outcomes \subseteq [kind : OutcomeKinds, bytes : Nat]

ASSUME SpoolAssumption ==
    /\ SpoolStarts \subseteq Nat
    /\ SpoolCells \in Nat
    /\ \A s \in SpoolStarts : s + MaxArchive <= SpoolCells

VARIABLES
    config,     \* the call's arguments: threads, blockBytes, spoolStart
    outcome,    \* the optimizer's result for the block at each offset
    available,  \* bytes of the input that exist now
    appended,   \* bytes appended to the input during the call
    pc,         \* where the calling thread is
    failure,    \* which error it returned
    consumed,   \* bytes read from the input
    filled,     \* bytes of the block buffer being filled
    batch,      \* the blocks read and not yet all emitted
    next,       \* the position in batch of the block to emit
    worker,     \* the state of the scoped worker threads
    encoder,    \* ArchiveStreamEncoder
    spool,      \* the contents of the payload spool
    aggregate,  \* Aggregate: the optimizer-side accounting
    output      \* what was written to the final output

callVars == <<config, outcome>>
sourceVars == <<available, appended>>
readVars == <<consumed, filled, batch>>
encodeVars == <<encoder, spool, aggregate>>
vars == <<config, outcome, available, appended, pc, failure, consumed, filled,
          batch, next, worker, encoder, spool, aggregate, output>>

Running == {"start", "read", "work", "emit", "finish", "copy", "account"}
Ended == {"done", "failed", "unwound"}
Failures == {"none", "threads", "block size", "archive limit", "output limit",
             "optimizer", "several programs", "block", "io", "accounting"}

Least(a, b) == IF a <= b THEN a ELSE b
Most(a, b) == IF a >= b THEN a ELSE b

Nowhere == [block |-> -1, index |-> 0]   \* what the spool held before the call
Cells == [block : Nat \cup {-1}, index : Nat]
Blocks == [offset : Nat, length : Nat]
Records == [offset : Nat, length : Nat, payloadOffset : Nat, payloadLength : Nat]

NoPiece == [kind |-> "none"]
NoOutput == [header |-> NoPiece, directory |-> <<>>, payload |-> <<>>, footer |-> NoPiece]

PayloadLength(block) == BlockHeaderBytes + outcome[block.offset].bytes
PayloadCell(block, i) == [block |-> block.offset, index |-> i]

\* MIN_ARCHIVE_BYTES
MinArchive == HeaderBytes + FooterBytes

BatchOneTooMany == config.threads + 1
BatchLimit == config.threads

--------------------------------------------------------------------------------
Init ==
    /\ config \in [threads : ThreadCounts, blockBytes : BlockSizes, spoolStart : SpoolStarts]
    /\ outcome \in [0..MaxSourceBytes-1 -> Outcomes]
    /\ available \in 0..MaxSourceBytes
    /\ appended = 0
    /\ pc = "start"
    /\ failure = "none"
    /\ consumed = 0
    /\ filled = 0
    /\ batch = <<>>
    /\ next = 1
    /\ worker = [t \in Threads |-> "idle"]
    /\ encoder = [records |-> <<>>, originalSize |-> 0, payloadBytes |-> 0,
                  restored |-> <<>>, maximumPrepared |-> 0]
    /\ spool = [i \in 0..SpoolCells-1 |-> Nowhere]
    /\ aggregate = [originalBytes |-> 0, inputBlocks |-> 0, maximumInflight |-> 0]
    /\ output = NoOutput

Fail(what) ==
    /\ pc' = "failed"
    /\ failure' = what

(* The input is a file or a pipe another process may still be writing. *)
SourceGrows ==
    /\ SourceMayGrow
    /\ pc \in Running
    /\ available < MaxSourceBytes
    /\ available' = available + 1
    /\ appended' = appended + 1
    /\ UNCHANGED <<callVars, pc, failure, readVars, next, worker, encodeVars, output>>

--------------------------------------------------------------------------------
(* Arguments: the checks compress_reader_portfolio_threads and             *)
(* ArchiveStreamEncoder::new make before the first read, in their order.   *)
StartFailure ==
    IF config.threads \notin Threads THEN "threads"
    ELSE IF config.blockBytes = 0 THEN "block size"
    ELSE IF config.blockBytes > MaxBlockOutput THEN "output limit"
    ELSE IF MinArchive > MaxArchive THEN "archive limit"
    ELSE "none"

Start ==
    /\ pc = "start"
    /\ failure' = StartFailure
    /\ pc' = IF StartFailure = "none" THEN "read" ELSE "failed"
    /\ UNCHANGED <<callVars, sourceVars, readVars, next, worker, encodeVars, output>>

--------------------------------------------------------------------------------
(* read_block and the batch loop around it. *)

ExtentShifted(end, length) == [offset |-> end - length - 1, length |-> length]
Extent(end, length) == [offset |-> end - length, length |-> length]

(* The buffer holds `length` bytes: the block joins the batch, and a full  *)
(* batch is handed to one worker per block.                                *)
TakeBlock(end, length) ==
    /\ batch' = Append(batch, Extent(end, length))
    /\ filled' = 0
    /\ IF Len(batch) + 1 = BatchLimit
       THEN /\ pc' = "work"
            /\ worker' = [t \in Threads |->
                            IF t <= Len(batch) + 1 THEN "running" ELSE "idle"]
       ELSE UNCHANGED <<pc, worker>>

FullAtFirstRead(length) == FALSE
BufferOpen(length) == length < config.blockBytes

(* input.read returns any positive number of bytes; Interrupted reads are  *)
(* retried and change nothing.                                             *)
ReadSome ==
    /\ pc = "read"
    /\ consumed < available
    /\ \E n \in 1..Least(config.blockBytes - filled, available - consumed) :
         /\ consumed' = consumed + n
         /\ IF BufferOpen(filled + n)
            THEN /\ filled' = filled + n
                 /\ UNCHANGED <<batch, pc, worker>>
            ELSE TakeBlock(consumed + n, filled + n)
    /\ UNCHANGED <<callVars, sourceVars, failure, next, encodeVars, output>>

(* Ok(0) after some bytes: a short block. *)
ReadShortBlock ==
    /\ pc = "read"
    /\ consumed = available
    /\ filled > 0
    /\ TakeBlock(consumed, filled)
    /\ UNCHANGED <<callVars, sourceVars, failure, consumed, next, encodeVars, output>>

(* Ok(0) at once: the batch read so far is the last one, or there is none. *)
ReadNothing ==
    /\ pc = "read"
    /\ consumed = available
    /\ filled = 0
    /\ IF batch = <<>>
       THEN /\ pc' = "finish"
            /\ UNCHANGED worker
       ELSE /\ pc' = "work"
            /\ worker' = [t \in Threads |->
                            IF t <= Len(batch) THEN "running" ELSE "idle"]
    /\ UNCHANGED <<callVars, sourceVars, failure, readVars, next, encodeVars, output>>

ReadError ==
    /\ pc = "read"
    /\ Fail("io")
    /\ UNCHANGED <<callVars, sourceVars, readVars, next, worker, encodeVars, output>>

--------------------------------------------------------------------------------
(* The scoped workers: each optimises one block of the batch. *)
LostOnPanic(t) ==
    /\ pc = "work"
    /\ worker[t] = "running"
    /\ outcome[batch[t].offset].kind # "panic"
    /\ worker' = [worker EXCEPT ![t] = "finished"]
    /\ UNCHANGED <<callVars, sourceVars, pc, failure, readVars, next, encodeVars, output>>

WorkerReturns(t) ==
    /\ pc = "work"
    /\ worker[t] = "running"
    /\ worker' = [worker EXCEPT ![t] = "finished"]
    /\ UNCHANGED <<callVars, sourceVars, pc, failure, readVars, next, encodeVars, output>>

AllReturned == \A t \in Threads : worker[t] # "running"

(* Every handle was joined in batch order.  With one thread the optimizer  *)
(* runs on the caller's stack, so a panic unwinds the whole call instead   *)
(* of becoming an error.                                                   *)
JoinBatch ==
    /\ pc = "work"
    /\ AllReturned
    /\ next' = 1
    /\ worker' = [t \in Threads |-> "idle"]
    /\ pc' = IF config.threads = 1 /\ outcome[batch[1].offset].kind = "panic"
             THEN "unwound" ELSE "emit"
    /\ UNCHANGED <<callVars, sourceVars, failure, readVars, encodeVars, output>>

--------------------------------------------------------------------------------
(* Emitting the batch in source order: the optimizer's result, then        *)
(* push_block, then Aggregate::observe.                                    *)
EmittedBackwards == batch[Len(batch) + 1 - next]
Emitted == batch[next]
LastResult == outcome[batch[Len(batch)].offset]
Result == outcome[Emitted.offset]

EmitOptimizerFailure ==
    /\ pc = "emit"
    /\ Result.kind \in {"error", "panic", "several"}
    /\ Fail(IF Result.kind = "several" THEN "several programs" ELSE "optimizer")
    /\ UNCHANGED <<callVars, sourceVars, readVars, next, worker, encodeVars, output>>

(* push_block: prepare_block and the archive limit, before the spool is    *)
(* touched.  The archive can be no smaller than its directory so far, its  *)
(* payload so far and the two fixed sections.                              *)
NextPayloadBytes == encoder.payloadBytes + PayloadLength(Emitted)
OneRecordTooMany ==
    MinArchive + RecordBytes * (Len(encoder.records) + 2) + NextPayloadBytes
MinimumArchive ==
    MinArchive + RecordBytes * (Len(encoder.records) + 1) + NextPayloadBytes

Unpreparable ==
    \/ Result.kind = "unencodable"
    \/ Emitted.length = 0
    \/ Emitted.length > MaxBlockOutput
    \/ PayloadLength(Emitted) > MaxBlockPayload

PrepareFailure ==
    IF Unpreparable THEN "block"
    ELSE IF MinimumArchive > MaxArchive THEN "archive limit" ELSE "none"

Encodable == Result.kind \in {"program", "unencodable"}

PushRejected ==
    /\ pc = "emit"
    /\ Encodable
    /\ PrepareFailure # "none"
    /\ Fail(PrepareFailure)
    /\ UNCHANGED <<callVars, sourceVars, readVars, next, worker, encodeVars, output>>

(* seek to spool_start + payload_bytes, then write_all. *)
SpoolFromZero(count) ==
    LET at == encoder.payloadBytes
    IN [i \in 0..SpoolCells-1 |->
          IF at <= i /\ i < at + count THEN PayloadCell(Emitted, i - at) ELSE spool[i]]
SpoolWith(count) ==
    LET at == config.spoolStart + encoder.payloadBytes
    IN [i \in 0..SpoolCells-1 |->
          IF at <= i /\ i < at + count THEN PayloadCell(Emitted, i - at) ELSE spool[i]]

(* write_all may fail after any part of the payload. *)
SpoolError ==
    /\ pc = "emit"
    /\ Encodable
    /\ PrepareFailure = "none"
    /\ \E count \in 0..PayloadLength(Emitted) : spool' = SpoolWith(count)
    /\ Fail("io")
    /\ UNCHANGED <<callVars, sourceVars, readVars, next, worker, encoder, aggregate, output>>

SizeOfLastBlock == Emitted.length
NewOriginalSize == encoder.originalSize + Emitted.length

(* The output limit is checked only after the payload is in the spool. *)
PushOverOutput ==
    /\ pc = "emit"
    /\ Encodable
    /\ PrepareFailure = "none"
    /\ NewOriginalSize > MaxOutput
    /\ spool' = SpoolWith(PayloadLength(Emitted))
    /\ encoder' = [encoder EXCEPT !.originalSize = NewOriginalSize]
    /\ Fail("output limit")
    /\ UNCHANGED <<callVars, sourceVars, readVars, next, worker, aggregate, output>>

(* Bytes of the blocks the batch holds: inflight_input_bytes. *)
Inflight == batch[Len(batch)].offset + batch[Len(batch)].length - batch[1].offset

PushBlock ==
    /\ pc = "emit"
    /\ Encodable
    /\ PrepareFailure = "none"
    /\ NewOriginalSize <= MaxOutput
    /\ spool' = SpoolWith(PayloadLength(Emitted))
    /\ encoder' = [records |-> Append(encoder.records,
                       [offset |-> encoder.originalSize,
                        length |-> Emitted.length,
                        payloadOffset |-> encoder.payloadBytes,
                        payloadLength |-> PayloadLength(Emitted)]),
                   originalSize |-> NewOriginalSize,
                   payloadBytes |-> NextPayloadBytes,
                   restored |-> Append(encoder.restored, Emitted),
                   maximumPrepared |-> Most(encoder.maximumPrepared,
                       MinArchive + RecordBytes + PayloadLength(Emitted))]
    /\ aggregate' = [originalBytes |-> aggregate.originalBytes + Emitted.length,
                     inputBlocks |-> aggregate.inputBlocks + 1,
                     maximumInflight |-> Most(aggregate.maximumInflight, Inflight)]
    /\ IF next < Len(batch)
       THEN /\ next' = next + 1
            /\ UNCHANGED <<pc, batch>>
       ELSE /\ pc' = "read"
            /\ batch' = <<>>
            /\ next' = 1
    /\ UNCHANGED <<callVars, sourceVars, failure, consumed, filled, worker, output>>

--------------------------------------------------------------------------------
(* ArchiveStreamEncoder::finish, and finish_compression after it. *)
DirectoryBytes == RecordBytes * Len(encoder.records)
PayloadStart == HeaderBytes + DirectoryBytes
ArchiveBytes == PayloadStart + encoder.payloadBytes + FooterBytes

RelativeDirectory == encoder.records
Directory == [i \in 1..Len(encoder.records) |->
                [encoder.records[i] EXCEPT !.payloadOffset = PayloadStart + @]]

Header == [kind |-> "header",
           originalSize |-> encoder.originalSize,
           blockCount |-> Len(encoder.records),
           payloadOffset |-> PayloadStart,
           payloadBytes |-> encoder.payloadBytes,
           originalHash |-> encoder.restored]

FooterOf(out) == [kind |-> "footer",
                  directoryHash |-> out.directory,
                  payloadHash |-> out.payload,
                  prefixHash |-> <<out.header, out.directory, out.payload>>,
                  archiveBytes |-> ArchiveBytes]

(* encode_empty: a header and a footer around nothing. *)
FinishEmpty ==
    /\ pc = "finish"
    /\ encoder.records = <<>>
    /\ LET out == [NoOutput EXCEPT !.header = Header]
       IN output' = [out EXCEPT !.footer = FooterOf(out)]
    /\ pc' = "account"
    /\ UNCHANGED <<callVars, sourceVars, failure, readVars, next, worker, encodeVars>>

WriteDirectory ==
    /\ pc = "finish"
    /\ encoder.records # <<>>
    /\ IF ArchiveBytes > MaxArchive
       THEN /\ Fail("archive limit")
            /\ UNCHANGED output
       ELSE /\ output' = [NoOutput EXCEPT !.header = Header, !.directory = Directory]
            /\ pc' = "copy"
            /\ UNCHANGED failure
    /\ UNCHANGED <<callVars, sourceVars, readVars, next, worker, encodeVars>>

Remaining == encoder.payloadBytes - Len(output.payload)

(* Copying the spool in chunks.  finish sought to spool_start; the reads   *)
(* are sequential, so the next cell is the one after those copied.         *)
CopyChunk ==
    /\ pc = "copy"
    /\ Remaining > 0
    /\ output' = [output EXCEPT !.payload =
                    @ \o [i \in 1..Least(Remaining, CopyBytes) |->
                            spool[config.spoolStart + Len(output.payload) + i - 1]]]
    /\ UNCHANGED <<callVars, sourceVars, pc, failure, readVars, next, worker, encodeVars>>

WriteFooter ==
    /\ pc = "copy"
    /\ Remaining = 0
    /\ output' = [output EXCEPT !.footer = FooterOf(output)]
    /\ pc' = "account"
    /\ UNCHANGED <<callVars, sourceVars, failure, readVars, next, worker, encodeVars>>

(* Any write, read or flush of finish may fail; what was written stays (a  *)
(* header, directory or footer torn in the middle counts as not written).  *)
FinishError ==
    /\ pc \in {"finish", "copy", "account"}
    /\ Fail("io")
    /\ UNCHANGED <<callVars, sourceVars, readVars, next, worker, encodeVars, output>>

(* finish_compression compares the two sides' counts. *)
Account ==
    /\ pc = "account"
    /\ IF /\ output.header.originalSize = aggregate.originalBytes
          /\ output.header.blockCount = aggregate.inputBlocks
       THEN /\ pc' = "done"
            /\ UNCHANGED failure
       ELSE Fail("accounting")
    /\ UNCHANGED <<callVars, sourceVars, readVars, next, worker, encodeVars, output>>

--------------------------------------------------------------------------------
ReadStep == ReadSome \/ ReadShortBlock \/ ReadNothing
EmitStep == EmitOptimizerFailure \/ PushRejected \/ PushOverOutput \/ PushBlock
FinishStep == FinishEmpty \/ WriteDirectory \/ CopyChunk \/ WriteFooter \/ Account
IoError == ReadError \/ SpoolError \/ FinishError

Caller == Start \/ ReadStep \/ JoinBatch \/ EmitStep \/ FinishStep

Next == Caller \/ IoError \/ SourceGrows \/ \E t \in Threads : WorkerReturns(t)

Spec == Init /\ [][Next]_vars

(* The caller's thread and every worker are scheduled: std threads are     *)
(* preemptive and optimize_portfolio runs within a declared work budget.   *)
FairSpec ==
    /\ Spec
    /\ WF_vars(Caller)
    /\ \A t \in Threads : WF_vars(WorkerReturns(t))
--------------------------------------------------------------------------------
(* Every variable keeps its type through every read, batch, push and       *)
(* finish step.                                                            *)
CallTypes ==
    /\ config \in [threads : ThreadCounts, blockBytes : BlockSizes, spoolStart : SpoolStarts]
    /\ outcome \in [0..MaxSourceBytes-1 -> Outcomes]
    /\ available \in 0..MaxSourceBytes
    /\ appended \in Nat

ControlTypes ==
    /\ pc \in Running \cup Ended
    /\ failure \in Failures
    /\ worker \in [Threads -> {"idle", "running", "finished"}]

BatchTypes ==
    /\ consumed \in Nat
    /\ filled \in Nat
    /\ batch \in Seq(Blocks)
    /\ next \in Nat \ {0}

EncoderTypes ==
    /\ encoder = [records |-> encoder.records, originalSize |-> encoder.originalSize,
                  payloadBytes |-> encoder.payloadBytes, restored |-> encoder.restored,
                  maximumPrepared |-> encoder.maximumPrepared]
    /\ encoder.records \in Seq(Records)
    /\ encoder.originalSize \in Nat
    /\ encoder.payloadBytes \in Nat
    /\ encoder.restored \in Seq(Blocks)
    /\ encoder.maximumPrepared \in Nat
    /\ aggregate \in [originalBytes : Nat, inputBlocks : Nat, maximumInflight : Nat]

SpoolType == spool \in [0..SpoolCells-1 -> Cells]

OutputTypes ==
    /\ output = [header |-> output.header, directory |-> output.directory,
                 payload |-> output.payload, footer |-> output.footer]
    /\ output.directory \in Seq(Records)
    /\ output.payload \in Seq(Cells)

TypeOK ==
    /\ CallTypes
    /\ ControlTypes
    /\ BatchTypes
    /\ EncoderTypes
    /\ SpoolType
    /\ OutputTypes

BlockOf(record) == [offset |-> record.offset, length |-> record.length]

(* Consecutive blocks leave no gap and do not overlap, in the source and   *)
(* in the payload section, from the given starts to the given ends.        *)
Tiles(records, start, end, payloadStart, payloadEnd) ==
    /\ \A i \in 1..Len(records) :
         /\ records[i].offset =
              IF i = 1 THEN start ELSE records[i-1].offset + records[i-1].length
         /\ records[i].payloadOffset =
              IF i = 1 THEN payloadStart
                       ELSE records[i-1].payloadOffset + records[i-1].payloadLength
    /\ IF records = <<>>
       THEN start = end /\ payloadStart = payloadEnd
       ELSE LET last == records[Len(records)]
            IN /\ last.offset + last.length = end
               /\ last.payloadOffset + last.payloadLength = payloadEnd

(* The bytes of the archive at a file offset inside its payload section.   *)
PayloadAt(position) == output.payload[position - output.header.payloadOffset + 1]

(* An output that carries a footer is the archive of exactly the bytes     *)
(* read: the directory tiles the source and the payload section, every     *)
(* record points at the payload of its own block, the whole-file hash is   *)
(* that of the blocks in source order and the recorded length is the true  *)
(* one, whatever the batches, the workers' order and the spool held.       *)
CompleteOutputIsExact ==
    output.footer # NoPiece =>
        /\ Tiles(output.directory, 0, consumed,
                 HeaderBytes + RecordBytes * Len(output.directory),
                 HeaderBytes + RecordBytes * Len(output.directory) + Len(output.payload))
        /\ \A i \in 1..Len(output.directory) :
             LET record == output.directory[i]
             IN /\ output.header.originalHash[i] = BlockOf(record)
                /\ \A j \in 0..record.payloadLength-1 :
                     PayloadAt(record.payloadOffset + j) = PayloadCell(BlockOf(record), j)
        /\ output.header.originalSize = consumed
        /\ output.header.blockCount = Len(output.directory)
        /\ output.footer.archiveBytes =
             HeaderBytes + RecordBytes * Len(output.directory)
               + Len(output.payload) + FooterBytes
        /\ output.footer.archiveBytes <= MaxArchive
        /\ consumed <= MaxOutput

(* "At most `threads` source blocks ... are live concurrently": the batch, *)
(* with the block being read, never holds more, nor more bytes than their  *)
(* buffers, and the reported maximum obeys the same bound.                 *)
BoundedResidency ==
    pc # "start" /\ config.threads \in Threads /\ config.blockBytes > 0 =>
        /\ Len(batch) + (IF filled > 0 THEN 1 ELSE 0) <= config.threads
        /\ pc \in {"work", "emit"} => Inflight <= config.threads * config.blockBytes
        /\ aggregate.maximumInflight <= config.threads * config.blockBytes

(* The two accountings finish_compression compares never differ, and the   *)
(* archive limit finish checks again was already enforced by push_block:   *)
(* once every batch is emitted only an I/O error can fail the call.        *)
LateFailureIsIo ==
    pc = "failed" /\ (output # NoOutput \/ (batch = <<>> /\ encoder.records # <<>>))
        => failure = "io"

(* read_block fills its buffer across short reads, so the block boundaries *)
(* of an unchanging input do not depend on how its reads were split.       *)
CanonicalBoundaries ==
    appended = 0 =>
        \A i \in 1..Len(encoder.records)-1 :
            encoder.records[i].length = config.blockBytes

(* A rejected call names the first block, in source order, that cannot be  *)
(* archived; no later worker's error overtakes it.                         *)
FirstBadBlockReported ==
    failure \in {"optimizer", "several programs", "block"} =>
        /\ \A i \in 1..Len(encoder.records) :
             outcome[encoder.records[i].offset].kind = "program"
        /\ LET bad == outcome[encoder.originalSize]
           IN \/ bad.kind # "program"
              \/ BlockHeaderBytes + bad.bytes > MaxBlockPayload

(* The spool is append-only: no step changes a cell before the spool's     *)
(* start or a cell of a payload already recorded.                          *)
SpoolKeepsRecorded ==
    [][\A i \in 0..SpoolCells-1 :
          i < config.spoolStart + encoder.payloadBytes => spool'[i] = spool[i]]_vars

(* A call ends: the caller returns, whichever workers panic or fail.       *)
CallEnds == <>(pc \in Ended)
--------------------------------------------------------------------------------
(* The refinement mapping: what a reader of the output recovers, by        *)
(* following each directory record to its payload.                         *)
Recovered ==
    [i \in 1..Len(output.directory) |->
       LET record == output.directory[i]
       IN [block |-> BlockOf(record),
           payload |-> [j \in 1..record.payloadLength |->
                          PayloadAt(record.payloadOffset + j - 1)]]]

Verdict ==
    CASE pc \in Running -> "running"
      [] pc = "done" -> "done"
      [] OTHER -> "failed"

Abstract == INSTANCE BlockCompressor WITH
    Blocks <- [offset : 0..MaxSourceBytes, length : 0..MaxSourceBytes],
    payloadLength <- [o \in 0..MaxSourceBytes-1 |-> BlockHeaderBytes + outcome[o].bytes],
    accepted <- [i \in 1..Len(encoder.records) |-> BlockOf(encoder.records[i])],
    verdict <- Verdict,
    archive <- IF pc = "done" THEN Recovered ELSE <<>>

(* Every thread count, batch and worker interleaving of the streaming      *)
(* compressor implements the one-block-at-a-time compressor.               *)
ImplementsSequential == Abstract!Spec
--------------------------------------------------------------------------------
(* The inductive invariant behind the theorems of BlockStreamProofs.       *)

Accepting == pc \in {"start", "read", "work", "emit"}
Closing == pc \in {"finish", "copy", "account", "done"}

(* The batch holds consecutive non-empty blocks that end where the block   *)
(* being read begins, and its first unemitted block starts where the       *)
(* encoder ended.                                                          *)
SourceInvariant ==
    /\ consumed <= available
    /\ filled <= consumed
    /\ filled < config.blockBytes \/ filled = 0
    /\ failure # "output limit" => encoder.originalSize <= consumed
    /\ pc = "start" => batch = <<>> /\ encoder.records = <<>>

BatchInvariant ==
    /\ \A i \in 1..Len(batch) :
         /\ batch[i].length > 0
         /\ batch[i].length <= config.blockBytes
         /\ batch[i].offset + batch[i].length <= consumed - filled
         /\ i < Len(batch) => batch[i+1].offset = batch[i].offset + batch[i].length
    /\ batch # <<>> => batch[Len(batch)].offset + batch[Len(batch)].length = consumed - filled
    /\ Accepting =>
         /\ next <= Len(batch) + 1
         /\ encoder.originalSize =
              IF next <= Len(batch) THEN batch[next].offset ELSE consumed - filled
    /\ pc \in {"start", "read", "work"} => next = 1
    /\ pc \in {"work", "emit"} => filled = 0 /\ batch # <<>> /\ next <= Len(batch)
    /\ Closing => filled = 0 /\ encoder.originalSize = consumed

(* Record i describes a block the optimizer accepted, and that block's     *)
(* payload lies in the spool where the record says.                        *)
Recorded(i) ==
    LET record == encoder.records[i]
    IN /\ encoder.restored[i] = BlockOf(record)
       /\ record.length > 0
       /\ record.offset + record.length <= encoder.originalSize
       /\ outcome[record.offset].kind = "program"
       /\ record.payloadLength = PayloadLength(BlockOf(record))
       /\ record.payloadOffset + record.payloadLength <= encoder.payloadBytes
       /\ \A j \in 0..record.payloadLength-1 :
            spool[config.spoolStart + record.payloadOffset + j]
              = PayloadCell(BlockOf(record), j)

(* The encoder's records tile what was accepted. *)
RecordInvariant ==
    /\ Len(encoder.restored) = Len(encoder.records)
    /\ encoder.payloadBytes = 0 \/ encoder.records # <<>>
    /\ \A i \in 1..Len(encoder.records) : Recorded(i)
    /\ failure # "output limit" =>
         Tiles(encoder.records, 0, encoder.originalSize, 0, encoder.payloadBytes)

LimitInvariant ==
    /\ pc \notin {"start", "failed"} \/ output # NoOutput => MinArchive <= MaxArchive
    /\ encoder.records # <<>> =>
         MinArchive + DirectoryBytes + encoder.payloadBytes <= MaxArchive
    /\ failure # "output limit" => encoder.originalSize <= MaxOutput

AccountInvariant ==
    /\ aggregate.inputBlocks = Len(encoder.records)
    /\ failure # "output limit" => aggregate.originalBytes = encoder.originalSize

(* The output, piece by piece, is what the encoder held when finish began. *)
OutputInvariant ==
    /\ Accepting \/ pc \in {"finish", "unwound"} => output = NoOutput
    /\ pc \in {"copy", "account", "done"} \/ output # NoOutput =>
         /\ failure \in {"none", "io"}
         /\ output.header = Header
         /\ output.directory = Directory
         /\ filled = 0
         /\ encoder.originalSize = consumed
         /\ Len(output.payload) <= encoder.payloadBytes
         /\ \A i \in 1..Len(output.payload) :
              output.payload[i] = spool[config.spoolStart + i - 1]
    /\ pc = "copy" => output.footer = NoPiece
    /\ pc \in {"account", "done"} => output.footer # NoPiece
    /\ output.footer # NoPiece =>
         /\ output.footer = FooterOf(output)
         /\ Len(output.payload) = encoder.payloadBytes

FailureInvariant ==
    /\ pc \in Running \cup {"done", "unwound"} <=> failure = "none"
    /\ pc \in Running \ {"start"} =>
         /\ config.threads \in Threads
         /\ config.blockBytes > 0
         /\ config.blockBytes <= MaxBlockOutput
    /\ LateFailureIsIo
    /\ FirstBadBlockReported

IInv ==
    /\ TypeOK
    /\ SourceInvariant
    /\ BatchInvariant
    /\ RecordInvariant
    /\ LimitInvariant
    /\ AccountInvariant
    /\ OutputInvariant
    /\ FailureInvariant
================================================================================
