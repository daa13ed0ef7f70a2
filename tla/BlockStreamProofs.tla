--------------------------- MODULE BlockStreamProofs ---------------------------
(* Theorems about BlockStream for every thread count, block size, input,   *)
(* optimizer outcome, spool position and limit.                            *)
EXTENDS BlockStream, TLAPS

(* What a call's arguments and the optimizer's results are. *)
LEMMA CallFacts ==
    ASSUME CallTypes
    PROVE  /\ config.threads \in Nat /\ config.blockBytes \in Nat
           /\ config.spoolStart \in Nat /\ config.spoolStart + MaxArchive <= SpoolCells
           /\ available \in Nat /\ available <= MaxSourceBytes
<1>1. /\ config.threads \in ThreadCounts
      /\ config.blockBytes \in BlockSizes
      /\ config.spoolStart \in SpoolStarts
      /\ available \in 0..MaxSourceBytes
  BY DEF CallTypes
<1>2. config.threads \in Nat /\ config.blockBytes \in Nat
  BY <1>1, BoundsAssumption
<1>3. config.spoolStart \in Nat /\ config.spoolStart + MaxArchive <= SpoolCells
  BY <1>1, SpoolAssumption
<1>4. available \in Nat /\ available <= MaxSourceBytes
  BY <1>1, BoundsAssumption
<1> QED
  BY <1>2, <1>3, <1>4

(* An outcome the optimizer may yield has a kind and a length. *)
LEMMA OutcomeFacts ==
    ASSUME CallTypes, NEW o \in 0..MaxSourceBytes-1
    PROVE  outcome[o].kind \in OutcomeKinds /\ outcome[o].bytes \in Nat
<1>1. outcome[o] \in Outcomes
  BY DEF CallTypes
<1> QED
  BY <1>1, OutcomeAssumption

(* The reading state is made of natural numbers. *)
LEMMA BatchFacts ==
    ASSUME BatchTypes
    PROVE  /\ consumed \in Nat /\ filled \in Nat /\ next \in Nat \ {0} /\ Len(batch) \in Nat
           /\ batch # <<>> <=> Len(batch) # 0
BY DEF BatchTypes

(* A block of the batch is an extent of the input. *)
LEMMA BlockFacts ==
    ASSUME BatchTypes, NEW i \in 1..Len(batch)
    PROVE  batch[i] \in Blocks /\ batch[i].offset \in Nat /\ batch[i].length \in Nat
<1>1. batch[i] \in Blocks
  BY DEF BatchTypes
<1> QED
  BY <1>1 DEF Blocks

(* The encoder counts in natural numbers. *)
LEMMA EncoderFacts ==
    ASSUME EncoderTypes
    PROVE  /\ encoder.originalSize \in Nat /\ encoder.payloadBytes \in Nat
           /\ Len(encoder.records) \in Nat /\ Len(encoder.restored) \in Nat
           /\ encoder.records # <<>> <=> Len(encoder.records) # 0
BY DEF EncoderTypes

(* A directory record describes natural extents. *)
LEMMA RecordFacts ==
    ASSUME EncoderTypes, NEW i \in 1..Len(encoder.records)
    PROVE  /\ encoder.records[i] \in Records
           /\ encoder.records[i].offset \in Nat
           /\ encoder.records[i].length \in Nat
           /\ encoder.records[i].payloadOffset \in Nat
           /\ encoder.records[i].payloadLength \in Nat
<1>1. encoder.records[i] \in Records
  BY DEF EncoderTypes
<1> QED
  BY <1>1 DEF Records

(* The sizes of the envelope and the limits are natural numbers. *)
LEMMA ConstantFacts ==
    /\ MinArchive \in Nat /\ MaxArchive \in Nat /\ MaxBlockOutput \in Nat
    /\ MaxSourceBytes \in Nat /\ SpoolCells \in Nat /\ MaxOutput \in Nat
    /\ HeaderBytes \in Nat /\ RecordBytes \in Nat /\ BlockHeaderBytes \in Nat \ {0}
    /\ FooterBytes \in Nat /\ CopyBytes \in Nat \ {0}
BY BoundsAssumption, EnvelopeAssumption, LimitsAssumption, SpoolAssumption DEF MinArchive

(* The initial states satisfy the inductive invariant. *)
LEMMA InitInvariant == Init => IInv
<1> SUFFICES ASSUME Init PROVE IInv
  OBVIOUS
<1> USE DEF Init, NoOutput, NoPiece
<1>1. CallTypes
  BY DEF CallTypes
<1>2. ControlTypes
  BY DEF ControlTypes, Running, Failures
<1>3. BatchTypes
  BY DEF BatchTypes
<1>4. EncoderTypes
  BY DEF EncoderTypes
<1>5. SpoolType
  BY DEF SpoolType, Cells, Nowhere
<1>6. OutputTypes
  BY DEF OutputTypes
<1>13. SourceInvariant
  BY BoundsAssumption DEF SourceInvariant
<1>7. BatchInvariant
  BY BoundsAssumption DEF BatchInvariant, Accepting, Closing
<1>8. RecordInvariant
  BY DEF RecordInvariant, Tiles
<1>9. LimitInvariant
  BY LimitsAssumption DEF LimitInvariant
<1>10. AccountInvariant
  BY DEF AccountInvariant
<1>11. OutputInvariant
  BY DEF OutputInvariant, Accepting
<1>12. FailureInvariant
  BY DEF FailureInvariant, Running, LateFailureIsIo, FirstBadBlockReported
<1> QED
  BY <1>1, <1>2, <1>3, <1>4, <1>5, <1>6, <1>7, <1>8, <1>9, <1>10, <1>11, <1>12, <1>13
  DEF IInv, TypeOK

(* The input grows. *)
LEMMA GrowKeeps == IInv /\ SourceGrows => IInv'
<1> SUFFICES ASSUME CallTypes, ControlTypes, BatchTypes, EncoderTypes, SpoolType, OutputTypes,
                    SourceInvariant, BatchInvariant, RecordInvariant, LimitInvariant, AccountInvariant,
                    OutputInvariant, FailureInvariant, SourceGrows
             PROVE  IInv'
  BY DEF IInv, TypeOK
<1>0. /\ UNCHANGED <<config, outcome, pc, failure, consumed, filled, batch, next, worker,
                     encoder, spool, aggregate, output>>
      /\ available' = available + 1
      /\ available < MaxSourceBytes
      /\ appended' = appended + 1
      /\ pc \in Running
  BY DEF SourceGrows, callVars, readVars, encodeVars
<1>1. CallTypes'
  BY <1>0, BoundsAssumption DEF CallTypes
<1>2. ControlTypes' /\ BatchTypes' /\ EncoderTypes' /\ SpoolType' /\ OutputTypes'
  BY <1>0 DEF ControlTypes, BatchTypes, EncoderTypes, SpoolType, OutputTypes
<1>3. SourceInvariant'
  <2>1. available \in Nat /\ consumed \in Nat
    BY CallFacts, BatchFacts
  <2>2. consumed <= available
    BY DEF SourceInvariant
  <2>3. consumed <= available'
    BY <2>1, <2>2, <1>0
  <2> QED
    BY <2>3, <1>0 DEF SourceInvariant
<1>8. BatchInvariant'
  BY <1>0 DEF BatchInvariant, Accepting, Closing
<1>4. RecordInvariant'
  BY <1>0 DEF RecordInvariant, Recorded, Tiles, BlockOf, PayloadLength, PayloadCell
<1>5. LimitInvariant' /\ AccountInvariant'
  BY <1>0 DEF LimitInvariant, DirectoryBytes, AccountInvariant
<1>6. OutputInvariant'
  BY <1>0 DEF OutputInvariant, Accepting, Header, Directory, FooterOf, PayloadStart,
              DirectoryBytes, ArchiveBytes
<1>7. FailureInvariant'
  BY <1>0 DEF FailureInvariant, LateFailureIsIo, FirstBadBlockReported
<1> QED
  BY <1>1, <1>2, <1>3, <1>4, <1>5, <1>6, <1>7, <1>8 DEF IInv, TypeOK

(* The argument checks. *)
LEMMA StartKeeps == IInv /\ Start => IInv'
<1> SUFFICES ASSUME CallTypes, ControlTypes, BatchTypes, EncoderTypes, SpoolType, OutputTypes,
                    SourceInvariant, BatchInvariant, RecordInvariant, LimitInvariant, AccountInvariant,
                    OutputInvariant, FailureInvariant, Start
             PROVE  IInv'
  BY DEF IInv, TypeOK
<1>0. /\ UNCHANGED <<config, outcome, available, appended, consumed, filled, batch, next, worker,
                     encoder, spool, aggregate, output>>
      /\ pc = "start"
      /\ failure' = StartFailure
      /\ pc' = IF StartFailure = "none" THEN "read" ELSE "failed"
  BY DEF Start, callVars, sourceVars, readVars, encodeVars
<1>a. failure = "none" /\ output = NoOutput
  BY <1>0 DEF FailureInvariant, Running, OutputInvariant, Accepting
<1>b. StartFailure = "none" =>
        /\ config.threads \in Threads
        /\ config.blockBytes > 0 /\ config.blockBytes <= MaxBlockOutput
        /\ MinArchive <= MaxArchive
  <2>1. config.blockBytes \in Nat /\ MinArchive \in Nat /\ MaxArchive \in Nat /\ MaxBlockOutput \in Nat
    BY CallFacts, ConstantFacts
  <2> QED
    BY <2>1 DEF StartFailure
<1>1. ControlTypes'
  BY <1>0 DEF ControlTypes, StartFailure, Running, Ended, Failures
<1>2. CallTypes' /\ BatchTypes' /\ EncoderTypes' /\ SpoolType' /\ OutputTypes'
  BY <1>0 DEF CallTypes, BatchTypes, EncoderTypes, SpoolType, OutputTypes
<1>3. SourceInvariant'
  BY <1>0, <1>a DEF SourceInvariant
<1>9. BatchInvariant'
  BY <1>0 DEF BatchInvariant, Accepting, Closing
<1>4. RecordInvariant'
  BY <1>0, <1>a DEF RecordInvariant, Recorded, Tiles, BlockOf, PayloadLength, PayloadCell
<1>5. LimitInvariant'
  <2>1. pc' # "failed" => MinArchive <= MaxArchive
    BY <1>0, <1>b
  <2> QED
    BY <2>1, <1>0, <1>a DEF LimitInvariant, DirectoryBytes, MinArchive
<1>6. AccountInvariant'
  BY <1>0, <1>a DEF AccountInvariant
<1>7. OutputInvariant'
  BY <1>0, <1>a DEF OutputInvariant, Accepting, NoOutput, NoPiece
<1>8. FailureInvariant'
  <2>1. pc' # "failed" => /\ config.threads \in Threads
                          /\ config.blockBytes > 0 /\ config.blockBytes <= MaxBlockOutput
    BY <1>0, <1>b
  <2>2. LateFailureIsIo' /\ FirstBadBlockReported'
    BY <1>0, <1>a DEF LateFailureIsIo, FirstBadBlockReported, StartFailure, SourceInvariant, NoOutput, NoPiece
  <2> QED
    BY <2>1, <2>2, <1>0 DEF FailureInvariant, Running, Threads
<1> QED
  BY <1>1, <1>2, <1>3, <1>4, <1>5, <1>6, <1>7, <1>8, <1>9 DEF IInv, TypeOK

(* An error return: only pc and failure change. *)
LEMMA FailureKeeps ==
    ASSUME IInv, pc \in Running, NEW what \in Failures \ {"none"}, Fail(what),
           UNCHANGED <<config, outcome, available, appended, consumed, filled, batch, next,
                       worker, encoder, spool, aggregate, output>>,
           output # NoOutput => what = "io",
           LateFailureIsIo', FirstBadBlockReported'
    PROVE  IInv'
<1> SUFFICES ASSUME CallTypes, ControlTypes, BatchTypes, EncoderTypes, SpoolType, OutputTypes,
                    SourceInvariant, BatchInvariant, RecordInvariant, LimitInvariant,
                    AccountInvariant, OutputInvariant, FailureInvariant
             PROVE  IInv'
  BY DEF IInv, TypeOK
<1>0. pc' = "failed" /\ failure' = what /\ failure = "none"
  BY DEF Fail, FailureInvariant
<1>1. CallTypes' /\ BatchTypes' /\ EncoderTypes' /\ SpoolType' /\ OutputTypes'
  BY DEF CallTypes, BatchTypes, EncoderTypes, SpoolType, OutputTypes
<1>2. ControlTypes'
  BY <1>0 DEF ControlTypes, Ended
<1>3. SourceInvariant'
  BY <1>0 DEF SourceInvariant
<1>4. BatchInvariant'
  BY <1>0 DEF BatchInvariant, Accepting, Closing
<1>5. RecordInvariant'
  BY <1>0 DEF RecordInvariant, Recorded, Tiles, BlockOf, PayloadLength, PayloadCell
<1>6. LimitInvariant' /\ AccountInvariant'
  BY <1>0 DEF LimitInvariant, DirectoryBytes, AccountInvariant
<1>7. OutputInvariant'
  BY <1>0 DEF OutputInvariant, Accepting, Header, Directory, FooterOf, PayloadStart,
              DirectoryBytes, ArchiveBytes, NoOutput, NoPiece
<1>8. FailureInvariant'
  BY <1>0 DEF FailureInvariant, Running
<1> QED
  BY <1>1, <1>2, <1>3, <1>4, <1>5, <1>6, <1>7, <1>8 DEF IInv, TypeOK

(* A step of the read and work phases that keeps the batch invariant keeps *)
(* the rest: the encoder and the output do not change.                     *)
LEMMA ReadPhaseKeeps ==
    ASSUME IInv, pc \in {"read", "work"},
           pc' \in {"read", "work", "emit", "finish", "unwound"},
           UNCHANGED <<config, outcome, available, appended, failure, encoder, spool,
                       aggregate, output>>,
           ControlTypes', BatchTypes', SourceInvariant', BatchInvariant'
    PROVE  IInv'
<1> SUFFICES ASSUME CallTypes, ControlTypes, EncoderTypes, SpoolType, OutputTypes,
                    RecordInvariant, LimitInvariant,
                    AccountInvariant, OutputInvariant, FailureInvariant
             PROVE  IInv'
  BY DEF IInv, TypeOK
<1>0. failure = "none" /\ output = NoOutput
  BY DEF FailureInvariant, Running, OutputInvariant, Accepting
<1>1. CallTypes' /\ EncoderTypes' /\ SpoolType' /\ OutputTypes'
  BY DEF CallTypes, EncoderTypes, SpoolType, OutputTypes
<1>2. RecordInvariant'
  BY <1>0 DEF RecordInvariant, Recorded, Tiles, BlockOf, PayloadLength, PayloadCell
<1>3. LimitInvariant' /\ AccountInvariant'
  BY <1>0 DEF LimitInvariant, DirectoryBytes, AccountInvariant
<1>4. OutputInvariant'
  BY <1>0 DEF OutputInvariant, Accepting, NoOutput, NoPiece
<1>5. FailureInvariant'
  BY <1>0 DEF FailureInvariant, Running, LateFailureIsIo, FirstBadBlockReported, Threads
<1> QED
  BY <1>1, <1>2, <1>3, <1>4, <1>5 DEF IInv, TypeOK

(* A block that starts where the last one ended joins the batch. *)
LEMMA TakeBlockKeeps ==
    ASSUME IInv, pc = "read", NEW end \in Nat, NEW length \in Nat \ {0},
           end - length = consumed - filled, consumed <= end, end <= available,
           length <= config.blockBytes, consumed' = end, TakeBlock(end, length),
           UNCHANGED <<config, outcome, available, appended, failure, next, encoder, spool,
                       aggregate, output>>
    PROVE  IInv'
<1> SUFFICES ASSUME CallTypes, ControlTypes, BatchTypes, EncoderTypes,
                    SourceInvariant, BatchInvariant, FailureInvariant
             PROVE  IInv'
  BY DEF IInv, TypeOK
<1> DEFINE block == [offset |-> end - length, length |-> length]
<1>0. /\ batch' = Append(batch, block)
      /\ filled' = 0
      /\ pc' \in {"read", "work"}
      /\ block.offset = consumed - filled /\ block.offset \in Nat
      /\ block.length = length
      /\ block.offset + block.length = end
  <2>1. consumed \in Nat /\ filled \in Nat /\ filled <= consumed
    BY BatchFacts DEF SourceInvariant
  <2>2. batch' = Append(batch, block) /\ filled' = 0 /\ pc' \in {"read", "work"}
    BY DEF TakeBlock, Extent
  <2> QED
    BY <2>1, <2>2
<1>1. ControlTypes'
  <2>1. worker' \in [Threads -> {"idle", "running", "finished"}]
    BY DEF TakeBlock, ControlTypes
  <2> QED
    BY <2>1, <1>0 DEF ControlTypes, Running
<1>2. BatchTypes'
  <2>1. block \in Blocks
    BY <1>0 DEF Blocks
  <2> QED
    BY <2>1, <1>0 DEF BatchTypes
<1>3. SourceInvariant'
  <2>1. /\ available \in Nat /\ consumed \in Nat /\ filled \in Nat
        /\ encoder.originalSize \in Nat
    BY CallFacts, BatchFacts, EncoderFacts
  <2>2. failure = "none" /\ encoder.originalSize <= end
    BY <2>1 DEF SourceInvariant, FailureInvariant, Running
  <2> QED
    BY <2>1, <2>2, <1>0 DEF SourceInvariant
<1>4. BatchInvariant'
  <2> HIDE DEF block
  <2>1. /\ Len(batch') = Len(batch) + 1
        /\ \A i \in 1..Len(batch) : batch'[i] = batch[i]
        /\ batch'[Len(batch) + 1] = block
        /\ Len(batch) \in Nat
    BY <1>0 DEF BatchTypes
  <2>2. \A i \in 1..Len(batch) : batch[i].offset \in Nat /\ batch[i].length \in Nat
    BY BlockFacts
  <2>3. ASSUME NEW i \in 1..Len(batch')
        PROVE  /\ batch'[i].length > 0
               /\ batch'[i].length <= config'.blockBytes
               /\ batch'[i].offset + batch'[i].length <= consumed' - filled'
               /\ i < Len(batch') => batch'[i+1].offset = batch'[i].offset + batch'[i].length
    <3>1. CASE i = Len(batch) + 1
      BY <3>1, <2>1, <1>0
    <3>2. CASE i < Len(batch)
      <4>1. /\ batch'[i] = batch[i] /\ batch'[i+1] = batch[i+1]
            /\ i \in 1..Len(batch) /\ i < Len(batch)
        BY <3>2, <2>1
      <4>2. /\ batch[i].length > 0 /\ batch[i].length <= config.blockBytes
            /\ batch[i].offset + batch[i].length <= consumed - filled
            /\ batch[i+1].offset = batch[i].offset + batch[i].length
        BY <4>1 DEF BatchInvariant
      <4> QED
        <5>1. consumed \in Nat /\ filled \in Nat
          BY BatchFacts
        <5>2. batch[i].offset \in Nat /\ batch[i].length \in Nat
          BY <4>1, <2>2
        <5>3. batch[i].offset + batch[i].length <= end
          BY <4>2, <5>1, <5>2
        <5>4. consumed' - filled' = end /\ config' = config
          BY <1>0
        <5> QED
          BY <4>1, <4>2, <5>3, <5>4
    <3>3. CASE i = Len(batch)
      <4>1. batch # <<>>
        BY <3>3, <2>1
      <4>2. /\ batch'[i] = batch[i] /\ batch'[i+1] = block /\ i \in 1..Len(batch)
        BY <3>3, <2>1
      <4>3. /\ batch[i].length > 0 /\ batch[i].length <= config.blockBytes
            /\ batch[i].offset + batch[i].length = consumed - filled
        BY <4>1, <4>2, <3>3 DEF BatchInvariant
      <4> QED
        <5>1. consumed \in Nat /\ filled \in Nat /\ batch[i].offset \in Nat /\ batch[i].length \in Nat
          BY <4>2, <2>2, BatchFacts
        <5>2. batch[i].offset + batch[i].length <= end
          BY <4>3, <5>1
        <5>3. consumed' - filled' = end /\ config' = config
          BY <1>0
        <5>4. block.offset = batch[i].offset + batch[i].length
          BY <4>3, <1>0
        <5>5. batch'[i].offset + batch'[i].length <= consumed' - filled'
          BY <4>2, <5>2, <5>3
        <5>8. config.blockBytes \in Nat /\ batch'[i].length = batch[i].length
          BY <4>2, CallFacts
        <5>6. batch'[i].length > 0 /\ batch'[i].length <= config'.blockBytes
          BY <4>3, <5>1, <5>3, <5>8
        <5>7. batch'[i+1].offset = batch'[i].offset + batch'[i].length
          BY <4>2, <5>4
        <5> QED
          BY <5>5, <5>6, <5>7
    <3> QED
      BY <3>1, <3>2, <3>3, <2>1
  <2>4. batch' # <<>> /\ batch'[Len(batch')].offset + batch'[Len(batch')].length = consumed' - filled'
    BY <2>1, <1>0
  <2>5. next' = 1 /\ next' <= Len(batch') /\ encoder'.originalSize = batch'[next'].offset
    <3>1. next = 1 /\ encoder.originalSize =
              IF 1 <= Len(batch) THEN batch[1].offset ELSE consumed - filled
      BY DEF BatchInvariant, Accepting
    <3>2. CASE batch = <<>>
      BY <3>1, <3>2, <2>1, <1>0
    <3>3. CASE batch # <<>>
      <4>1. Len(batch) >= 1
        BY <3>3 DEF BatchTypes
      <4> QED
        BY <4>1, <3>1, <2>1
    <3> QED
      BY <3>2, <3>3
  <2> QED
    BY <2>3, <2>4, <2>5, <1>0 DEF BatchInvariant, Accepting, Closing
<1> QED
  BY <1>0, <1>1, <1>2, <1>3, <1>4, ReadPhaseKeeps

(* The read loop: a partial read, a full buffer, a short block, the end.   *)
LEMMA ReadKeeps == IInv /\ (ReadSome \/ ReadShortBlock \/ ReadNothing) => IInv'
<1> SUFFICES ASSUME CallTypes, ControlTypes, BatchTypes, EncoderTypes, IInv,
                    SourceInvariant, BatchInvariant, FailureInvariant,
                    ReadSome \/ ReadShortBlock \/ ReadNothing
             PROVE  IInv'
  BY DEF IInv, TypeOK
<1>f. /\ consumed \in Nat /\ filled \in Nat /\ available \in Nat
      /\ config.blockBytes \in Nat /\ encoder.originalSize \in Nat
      /\ consumed <= available /\ filled <= consumed
      /\ filled < config.blockBytes \/ filled = 0
      /\ next \in Nat \ {0} /\ Len(batch) \in Nat
  <2>1. consumed <= available /\ filled <= consumed /\ (filled < config.blockBytes \/ filled = 0)
    BY DEF SourceInvariant
  <2> QED
    BY <2>1, CallFacts, BatchFacts, EncoderFacts
<1>g. /\ \A i \in 1..Len(batch) :
           /\ batch[i].length > 0
           /\ batch[i].length <= config.blockBytes
           /\ batch[i].offset + batch[i].length <= consumed - filled
           /\ i < Len(batch) => batch[i+1].offset = batch[i].offset + batch[i].length
      /\ batch # <<>> => batch[Len(batch)].offset + batch[Len(batch)].length = consumed - filled
  BY DEF BatchInvariant
<1>1. CASE ReadSome
  <2>0. /\ UNCHANGED <<config, outcome, available, appended, failure, next, encoder, spool,
                       aggregate, output>>
        /\ pc = "read"
    BY <1>1 DEF ReadSome, callVars, sourceVars, encodeVars
  <2>h. failure = "none" /\ config.blockBytes > 0 /\ next = 1
        /\ encoder.originalSize =
             IF next <= Len(batch) THEN batch[next].offset ELSE consumed - filled
    BY <2>0 DEF FailureInvariant, Running, BatchInvariant, Accepting
  <2>1. PICK n \in 1..Least(config.blockBytes - filled, available - consumed) :
          /\ consumed' = consumed + n
          /\ IF BufferOpen(filled + n)
             THEN filled' = filled + n /\ UNCHANGED <<batch, pc, worker>>
             ELSE TakeBlock(consumed + n, filled + n)
    BY <1>1 DEF ReadSome
  <2>2. n \in Nat \ {0} /\ filled + n <= config.blockBytes /\ consumed + n <= available
    <3>1. config.blockBytes - filled \in Nat /\ available - consumed \in Nat
      BY <2>h, <1>f
    <3>2. /\ Least(config.blockBytes - filled, available - consumed) \in Nat
          /\ Least(config.blockBytes - filled, available - consumed) <= config.blockBytes - filled
          /\ Least(config.blockBytes - filled, available - consumed) <= available - consumed
      BY <3>1 DEF Least
    <3>3. /\ n \in Nat \ {0}
          /\ n <= config.blockBytes - filled /\ n <= available - consumed
      BY <3>1, <3>2
    <3> QED
      BY <3>3, <1>f
  <2>3. CASE BufferOpen(filled + n)
    <3>1. /\ consumed' = consumed + n /\ filled' = filled + n
          /\ UNCHANGED <<batch, pc, worker>>
      BY <2>1, <2>3
    <3>2. consumed' - filled' = consumed - filled
      BY <3>1, <2>2, <1>f
    <3>3. ControlTypes'
      BY <3>1, <2>0 DEF ControlTypes
    <3>4. BatchTypes'
      BY <3>1, <2>0, <2>2, <1>f DEF BatchTypes
    <3>5. SourceInvariant'
      <4>1. /\ consumed' <= available /\ filled' <= consumed'
            /\ filled' < config.blockBytes
            /\ encoder.originalSize <= consumed'
        <5>1. encoder.originalSize <= consumed
          BY <2>h DEF SourceInvariant
        <5> QED
          BY <5>1, <3>1, <2>2, <2>3, <1>f DEF BufferOpen
      <4> QED
        BY <4>1, <3>1, <2>0 DEF SourceInvariant
    <3>6. BatchInvariant'
      BY <3>1, <3>2, <2>0, <2>h, <1>g, ZenonT(30) DEF BatchInvariant, Accepting, Closing
    <3> QED
      BY <3>1, <3>3, <3>4, <3>5, <3>6, <2>0, ReadPhaseKeeps
  <2>4. CASE ~BufferOpen(filled + n)
    <3>1. TakeBlock(consumed + n, filled + n)
      BY <2>1, <2>4
    <3>2. /\ consumed + n \in Nat /\ filled + n \in Nat \ {0}
          /\ (consumed + n) - (filled + n) = consumed - filled
          /\ consumed <= consumed + n
      BY <2>2, <1>f
    <3> QED
      BY <3>1, <3>2, <2>0, <2>1, <2>2, TakeBlockKeeps
  <2> QED
    BY <2>3, <2>4
<1>2. CASE ReadShortBlock
  <2>0. /\ UNCHANGED <<config, outcome, available, appended, failure, consumed, next, encoder,
                       spool, aggregate, output>>
        /\ pc = "read" /\ filled > 0 /\ TakeBlock(consumed, filled)
    BY <1>2 DEF ReadShortBlock, callVars, sourceVars, encodeVars
  <2>1. filled \in Nat \ {0} /\ filled <= config.blockBytes
    BY <2>0, <1>f
  <2> QED
    BY <2>0, <2>1, <1>f, TakeBlockKeeps
<1>3. CASE ReadNothing
  <2>0. /\ UNCHANGED <<config, outcome, available, appended, failure, consumed, filled, batch,
                       next, encoder, spool, aggregate, output>>
        /\ pc = "read" /\ filled = 0
        /\ pc' = IF batch = <<>> THEN "finish" ELSE "work"
        /\ batch = <<>> => UNCHANGED worker
        /\ batch # <<>> => worker' = [t \in Threads |->
                                        IF t <= Len(batch) THEN "running" ELSE "idle"]
    BY <1>3 DEF ReadNothing, callVars, sourceVars, readVars, encodeVars
  <2>h. failure = "none" /\ next = 1
        /\ encoder.originalSize =
             IF next <= Len(batch) THEN batch[next].offset ELSE consumed - filled
    BY <2>0 DEF FailureInvariant, Running, BatchInvariant, Accepting
  <2>1. ControlTypes'
    <3>1. worker' \in [Threads -> {"idle", "running", "finished"}]
      BY <2>0 DEF ControlTypes
    <3> QED
      BY <3>1, <2>0 DEF ControlTypes, Running
  <2>2. BatchTypes' /\ SourceInvariant'
    BY <2>0 DEF BatchTypes, SourceInvariant
  <2>3. /\ batch = <<>> => encoder.originalSize = consumed
        /\ batch # <<>> => next <= Len(batch)
    BY <2>0, <2>h, <1>f, BatchFacts
  <2>4. BatchInvariant'
    BY <2>0, <2>3, <2>h, <1>g DEF BatchInvariant, Accepting, Closing
  <2> QED
    BY <2>0, <2>1, <2>2, <2>4, ReadPhaseKeeps
<1> QED
  BY <1>1, <1>2, <1>3

(* A worker returns; the batch is joined. *)
LEMMA WorkKeeps == IInv /\ ((\E t \in Threads : WorkerReturns(t)) \/ JoinBatch) => IInv'
<1> SUFFICES ASSUME ControlTypes, BatchTypes, IInv, SourceInvariant, BatchInvariant,
                    (\E t \in Threads : WorkerReturns(t)) \/ JoinBatch
             PROVE  IInv'
  BY DEF IInv, TypeOK
<1>1. ASSUME NEW t \in Threads, WorkerReturns(t)
      PROVE  IInv'
  <2>0. /\ UNCHANGED <<config, outcome, available, appended, pc, failure, consumed, filled, batch,
                       next, encoder, spool, aggregate, output>>
        /\ pc = "work"
        /\ worker' = [worker EXCEPT ![t] = "finished"]
    BY <1>1 DEF WorkerReturns, callVars, sourceVars, readVars, encodeVars
  <2>1. ControlTypes'
    BY <2>0 DEF ControlTypes
  <2>2. BatchTypes' /\ SourceInvariant'
    BY <2>0 DEF BatchTypes, SourceInvariant
  <2>3. BatchInvariant'
    BY <2>0 DEF BatchInvariant, Accepting, Closing
  <2> QED
    BY <2>0, <2>1, <2>2, <2>3, ReadPhaseKeeps
<1>2. CASE JoinBatch
  <2>0. /\ UNCHANGED <<config, outcome, available, appended, failure, consumed, filled, batch,
                       encoder, spool, aggregate, output>>
        /\ pc = "work" /\ next' = 1
        /\ worker' = [t \in Threads |-> "idle"]
        /\ pc' \in {"emit", "unwound"}
    BY <1>2 DEF JoinBatch, callVars, sourceVars, readVars, encodeVars
  <2>1. ControlTypes'
    BY <2>0 DEF ControlTypes, Running, Ended
  <2>2. BatchTypes'
    BY <2>0 DEF BatchTypes
  <2>5. SourceInvariant'
    BY <2>0 DEF SourceInvariant
  <2>3. next = 1
    BY <2>0 DEF BatchInvariant
  <2>4. BatchInvariant'
    BY <2>0, <2>3 DEF BatchInvariant, Accepting, Closing
  <2> QED
    BY <2>0, <2>1, <2>2, <2>4, <2>5, ReadPhaseKeeps
<1> QED
  BY <1>1, <1>2

(* Error returns of the read and emit phases. *)
LEMMA ErrorKeeps ==
    IInv /\ (ReadError \/ EmitOptimizerFailure \/ PushRejected \/ FinishError) => IInv'
<1> SUFFICES ASSUME CallTypes, BatchTypes, EncoderTypes, IInv,
                    SourceInvariant, BatchInvariant, RecordInvariant,
                    OutputInvariant, FailureInvariant,
                    ReadError \/ EmitOptimizerFailure \/ PushRejected \/ FinishError
             PROVE  IInv'
  BY DEF IInv, TypeOK
<1>0. /\ UNCHANGED <<config, outcome, available, appended, consumed, filled, batch, next,
                     worker, encoder, spool, aggregate, output>>
      /\ pc \in Running
  BY DEF ReadError, EmitOptimizerFailure, PushRejected, FinishError, callVars, sourceVars,
         readVars, encodeVars, Running
<1>1. CASE ReadError \/ FinishError
  <2>1. Fail("io")
    BY <1>1 DEF ReadError, FinishError
  <2>2. LateFailureIsIo' /\ FirstBadBlockReported'
    BY <2>1 DEF Fail, LateFailureIsIo, FirstBadBlockReported
  <2> QED
    BY <1>0, <2>1, <2>2, FailureKeeps DEF Failures
<1>2. ASSUME pc = "emit"
      PROVE  /\ output = NoOutput /\ batch # <<>> /\ next \in 1..Len(batch)
             /\ encoder.originalSize = Emitted.offset
             /\ Emitted.length > 0 /\ Emitted.length <= MaxBlockOutput
             /\ \A i \in 1..Len(encoder.records) :
                  outcome[encoder.records[i].offset].kind = "program"
  <2>1. output = NoOutput
    BY <1>2 DEF OutputInvariant, Accepting
  <2>2. /\ batch # <<>> /\ next <= Len(batch)
        /\ encoder.originalSize =
             IF next <= Len(batch) THEN batch[next].offset ELSE consumed - filled
    BY <1>2 DEF BatchInvariant, Accepting
  <2>inBatch. next \in 1..Len(batch)
    BY <2>2, BatchFacts
  <2>4. batch[next].length > 0 /\ batch[next].length <= config.blockBytes
    BY <2>inBatch DEF BatchInvariant
  <2>5. config.blockBytes <= MaxBlockOutput
    BY <1>2 DEF FailureInvariant, Running
  <2>6. batch[next].length <= MaxBlockOutput
    BY <2>inBatch, <2>4, <2>5, BlockFacts, CallFacts, ConstantFacts
  <2>7. \A i \in 1..Len(encoder.records) :
          outcome[encoder.records[i].offset].kind = "program"
    BY DEF RecordInvariant, Recorded
  <2> QED
    BY <2>1, <2>2, <2>inBatch, <2>4, <2>6, <2>7 DEF Emitted
<1>3. CASE EmitOptimizerFailure
  <2>1. /\ pc = "emit"
        /\ Result.kind \in {"error", "panic", "several"}
    BY <1>3 DEF EmitOptimizerFailure
  <2>2. PICK what \in {"several programs", "optimizer"} : Fail(what)
    BY <1>3 DEF EmitOptimizerFailure
  <2>3. LateFailureIsIo'
    BY <1>0, <1>2, <2>1 DEF LateFailureIsIo, NoOutput, NoPiece
  <2>4. FirstBadBlockReported'
    BY <1>0, <1>2, <2>1 DEF FirstBadBlockReported, Result
  <2> QED
    BY <1>0, <1>2, <2>1, <2>2, <2>3, <2>4, FailureKeeps DEF Failures
<1>4. CASE PushRejected
  <2>1. /\ pc = "emit"
        /\ Fail(PrepareFailure)
        /\ PrepareFailure \in {"block", "archive limit"}
    BY <1>4 DEF PushRejected, PrepareFailure
  <2>2. LateFailureIsIo'
    BY <1>0, <1>2, <2>1 DEF LateFailureIsIo, NoOutput, NoPiece
  <2>3. CASE PrepareFailure = "block"
    <3>1. Unpreparable
      <4>1. MinimumArchive > MaxArchive \/ ~(MinimumArchive > MaxArchive)
        OBVIOUS
      <4> QED
        BY <4>1, <2>3 DEF PrepareFailure
    <3>2. Emitted.length \in Nat /\ MaxBlockOutput \in Nat
      BY <1>2, <2>1, BlockFacts, ConstantFacts DEF Emitted
    <3>3. \/ Result.kind = "unencodable"
          \/ PayloadLength(Emitted) > MaxBlockPayload
      <4>1. Emitted.length # 0 /\ ~(Emitted.length > MaxBlockOutput)
        <5>1. Emitted.length > 0 /\ Emitted.length <= MaxBlockOutput
          BY <1>2, <2>1
        <5> QED
          BY <5>1, <3>2
      <4> QED
        BY <3>1, <4>1, Zenon DEF Unpreparable
    <3>4. FirstBadBlockReported'
      BY <1>0, <1>2, <2>1, <3>3 DEF FirstBadBlockReported, Result, PayloadLength
    <3> QED
      BY <1>0, <1>2, <2>1, <2>2, <2>3, <3>4, FailureKeeps DEF Failures
  <2>4. CASE PrepareFailure = "archive limit"
    <3>1. FirstBadBlockReported'
      BY <2>1, <2>4 DEF FirstBadBlockReported, Fail
    <3> QED
      BY <1>0, <1>2, <2>1, <2>2, <2>4, <3>1, FailureKeeps DEF Failures
  <2> QED
    BY <2>1, <2>3, <2>4
<1> QED
  BY <1>1, <1>3, <1>4

(* Products of natural numbers are natural. *)
LEMMA ProductNat == ASSUME NEW a \in Nat, NEW b \in Nat PROVE a * b \in Nat
OBVIOUS

(* What an emitted block is, once prepare_block and the archive limit have *)
(* accepted it: there is room in the spool for its whole payload.          *)
LEMMA AcceptedFacts ==
    ASSUME IInv, pc = "emit", Encodable, PrepareFailure = "none"
    PROVE  /\ next \in 1..Len(batch) /\ batch # <<>>
           /\ Emitted \in Blocks /\ Emitted.offset \in Nat /\ Emitted.length \in Nat \ {0}
           /\ Emitted.offset = encoder.originalSize
           /\ Emitted.offset + Emitted.length <= consumed
           /\ Result.kind = "program"
           /\ PayloadLength(Emitted) \in Nat \ {0}
           /\ MinimumArchive <= MaxArchive
           /\ config.spoolStart + encoder.payloadBytes + PayloadLength(Emitted) <= SpoolCells
           /\ encoder.payloadBytes <= MaxArchive
<1> SUFFICES ASSUME CallTypes, BatchTypes, EncoderTypes, SourceInvariant, BatchInvariant
             PROVE  /\ next \in 1..Len(batch) /\ batch # <<>>
                    /\ Emitted \in Blocks
                    /\ Emitted.offset \in Nat /\ Emitted.length \in Nat \ {0}
                    /\ Emitted.offset = encoder.originalSize
                    /\ Emitted.offset + Emitted.length <= consumed
                    /\ Result.kind = "program"
                    /\ PayloadLength(Emitted) \in Nat \ {0}
                    /\ MinimumArchive <= MaxArchive
                    /\ config.spoolStart + encoder.payloadBytes + PayloadLength(Emitted)
                         <= SpoolCells
                    /\ encoder.payloadBytes <= MaxArchive
  BY DEF IInv, TypeOK
<1>1. next \in 1..Len(batch) /\ batch # <<>> /\ filled = 0
  BY BatchFacts DEF BatchInvariant
<1>2. Emitted \in Blocks /\ Emitted.offset \in Nat /\ Emitted.length \in Nat
  BY <1>1, BlockFacts DEF Emitted
<1>3. Emitted.length > 0 /\ Emitted.offset + Emitted.length <= consumed - filled
  BY <1>1 DEF BatchInvariant, Emitted
<1>4. Emitted.offset = encoder.originalSize
  BY <1>1 DEF BatchInvariant, Emitted, Accepting
<1>5. Emitted.offset + Emitted.length <= consumed
  BY <1>1, <1>2, <1>3, BatchFacts
<1>6. Emitted.offset \in 0..MaxSourceBytes-1
  <2>1. consumed <= available
    BY DEF SourceInvariant
  <2>2. /\ consumed \in Nat /\ available \in Nat /\ MaxSourceBytes \in Nat
        /\ available <= MaxSourceBytes
    BY BatchFacts, CallFacts, ConstantFacts
  <2> QED
    BY <2>1, <2>2, <1>2, <1>3, <1>5
<1>7. PayloadLength(Emitted) \in Nat \ {0}
  <2>1. outcome[Emitted.offset].bytes \in Nat
    BY <1>6, OutcomeFacts
  <2> QED
    BY <2>1, ConstantFacts DEF PayloadLength
<1> DEFINE n == Len(encoder.records)
           length == PayloadLength(Emitted)
           total == encoder.payloadBytes + length
<1>t. /\ n \in Nat /\ length \in Nat \ {0} /\ encoder.payloadBytes \in Nat
      /\ MinArchive \in Nat /\ RecordBytes \in Nat /\ MaxArchive \in Nat /\ SpoolCells \in Nat
      /\ total \in Nat /\ config.spoolStart \in Nat /\ config.spoolStart + MaxArchive <= SpoolCells
  <2>1. n \in Nat /\ encoder.payloadBytes \in Nat
    BY EncoderFacts
  <2>2. config.spoolStart \in Nat /\ config.spoolStart + MaxArchive <= SpoolCells
    BY CallFacts
  <2>caps. MinArchive \in Nat /\ RecordBytes \in Nat /\ MaxArchive \in Nat /\ SpoolCells \in Nat
    BY ConstantFacts
  <2>4. length \in Nat \ {0}
    BY <1>7
  <2>5. total \in Nat
    <3> HIDE DEF length
    <3> QED
      BY <2>1, <2>4
  <2> QED
    BY <2>1, <2>2, <2>caps, <2>4, <2>5
<1>p. RecordBytes * (n + 1) \in Nat
  BY <1>t, ProductNat
<1>m. MinimumArchive = MinArchive + RecordBytes * (n + 1) + total
  BY DEF MinimumArchive, NextPayloadBytes
<1>e. total = encoder.payloadBytes + length
  OBVIOUS
<1> HIDE DEF n, length, total
<1>8. ~Unpreparable /\ MinimumArchive <= MaxArchive
  <2>1. ~Unpreparable /\ ~(MinimumArchive > MaxArchive)
    BY DEF PrepareFailure
  <2>2. MinimumArchive \in Nat
    BY <1>m, <1>p, <1>t
  <2> QED
    BY <2>1, <2>2, <1>t
<1>9. Result.kind = "program"
  BY <1>8 DEF Encodable, Unpreparable
<1>10. total <= MaxArchive
  BY <1>8, <1>m, <1>p, <1>t
<1>11. /\ config.spoolStart + encoder.payloadBytes + length <= SpoolCells
       /\ encoder.payloadBytes <= MaxArchive
  BY <1>10, <1>t, <1>e
<1> QED
  BY <1>1, <1>2, <1>3, <1>4, <1>5, <1>7, <1>8, <1>9, <1>11 DEF length

(* Writing (part of) a payload at the spool's end touches nothing before it. *)
LEMMA SpoolWritten ==
    ASSUME IInv, pc = "emit", Encodable, PrepareFailure = "none",
           NEW count \in 0..PayloadLength(Emitted), spool' = SpoolWith(count)
    PROVE  /\ SpoolType'
           /\ \A p \in Nat : p < config.spoolStart + encoder.payloadBytes => spool'[p] = spool[p]
           /\ \A j \in 0..count-1 :
                spool'[config.spoolStart + encoder.payloadBytes + j] = PayloadCell(Emitted, j)
<1> DEFINE at == config.spoolStart + encoder.payloadBytes
<1>0. /\ at \in Nat /\ SpoolCells \in Nat /\ count \in Nat /\ at + count <= SpoolCells
      /\ Emitted.offset \in Nat /\ SpoolType
  <2>1. CallTypes /\ EncoderTypes /\ SpoolType
    BY DEF IInv, TypeOK
  <2>2. /\ config.spoolStart \in Nat /\ encoder.payloadBytes \in Nat /\ SpoolCells \in Nat
    BY <2>1, CallFacts, EncoderFacts, ConstantFacts
  <2>3. /\ PayloadLength(Emitted) \in Nat /\ Emitted.offset \in Nat
        /\ config.spoolStart + encoder.payloadBytes + PayloadLength(Emitted) <= SpoolCells
    BY AcceptedFacts
  <2>4. count \in Nat /\ count <= PayloadLength(Emitted)
    BY <2>3
  <2> QED
    BY <2>1, <2>2, <2>3, <2>4
<1>1. spool' = [i \in 0..SpoolCells-1 |->
                  IF at <= i /\ i < at + count THEN PayloadCell(Emitted, i - at) ELSE spool[i]]
  BY DEF SpoolWith
<1> HIDE DEF at
<1>2. SpoolType'
  <2>1. ASSUME NEW i \in 0..SpoolCells-1, at <= i PROVE PayloadCell(Emitted, i - at) \in Cells
    <3>1. i - at \in Nat
      BY <2>1, <1>0
    <3> QED
      BY <3>1, <1>0 DEF PayloadCell, Cells
  <2>2. ASSUME NEW i \in 0..SpoolCells-1 PROVE spool[i] \in Cells
    BY <1>0 DEF SpoolType
  <2> QED
    BY <2>1, <2>2, <1>1 DEF SpoolType
<1>3. ASSUME NEW p \in Nat, p < at PROVE spool'[p] = spool[p]
  <2>1. p \in 0..SpoolCells-1 /\ ~(at <= p)
    BY <1>3, <1>0
  <2> QED
    BY <2>1, <1>1
<1>4. ASSUME NEW j \in 0..count-1 PROVE spool'[at + j] = PayloadCell(Emitted, j)
  <2>1. at + j \in 0..SpoolCells-1 /\ at <= at + j /\ at + j < at + count /\ (at + j) - at = j
    BY <1>0
  <2> QED
    BY <2>1, <1>1
<1> QED
  BY <1>2, <1>3, <1>4 DEF at

(* Adding the same start keeps an order. *)
LEMMA SumBelow ==
    ASSUME NEW a \in Nat, NEW b \in Nat, NEW c \in Nat, b < c
    PROVE  a + b \in Nat /\ a + b < a + c
OBVIOUS

(* The payloads recorded so far survive a write at the spool's end. *)
LEMMA RecordedSurvive ==
    ASSUME IInv, pc = "emit", Encodable, PrepareFailure = "none",
           NEW count \in 0..PayloadLength(Emitted), spool' = SpoolWith(count),
           NEW i \in 1..Len(encoder.records), NEW j \in 0..encoder.records[i].payloadLength-1
    PROVE  spool'[config.spoolStart + encoder.records[i].payloadOffset + j]
             = PayloadCell(BlockOf(encoder.records[i]), j)
<1> DEFINE record == encoder.records[i]
           p == config.spoolStart + record.payloadOffset + j
<1>1. EncoderTypes /\ CallTypes /\ RecordInvariant
  BY DEF IInv, TypeOK
<1>2. /\ record.payloadOffset \in Nat /\ record.payloadLength \in Nat
      /\ config.spoolStart \in Nat /\ encoder.payloadBytes \in Nat
  BY <1>1, RecordFacts, EncoderFacts, CallFacts
<1>3. Recorded(i)
  BY <1>1 DEF RecordInvariant
<1>4. /\ record.payloadOffset + record.payloadLength <= encoder.payloadBytes
      /\ spool[p] = PayloadCell(BlockOf(record), j)
  BY <1>3 DEF Recorded
<1> HIDE DEF record
<1>5. p \in Nat /\ p < config.spoolStart + encoder.payloadBytes
  <2>1. j \in Nat /\ j < record.payloadLength
    BY <1>2 DEF record
  <2>2. record.payloadOffset + record.payloadLength <= encoder.payloadBytes
    BY <1>4
  <2>3. record.payloadOffset + j \in Nat /\ record.payloadOffset + j < encoder.payloadBytes
    <3> HIDE DEF p
    <3> QED
      BY <2>1, <2>2, <1>2
  <2>4. p = config.spoolStart + (record.payloadOffset + j)
    BY <2>1, <1>2
  <2>5. /\ config.spoolStart + (record.payloadOffset + j) \in Nat
        /\ config.spoolStart + (record.payloadOffset + j)
             < config.spoolStart + encoder.payloadBytes
    BY <2>3, <1>2, SumBelow
  <2> HIDE DEF p
  <2> QED
    BY <2>4, <2>5
<1> HIDE DEF p
<1>6. spool'[p] = spool[p]
  BY <1>5, SpoolWritten
<1> QED
  BY <1>4, <1>6 DEF p, record

(* A failed spool write, and a block past the output limit. *)
LEMMA SpoolFailureKeeps == IInv /\ (SpoolError \/ PushOverOutput) => IInv'
<1> SUFFICES ASSUME CallTypes, ControlTypes, BatchTypes, EncoderTypes, SpoolType, OutputTypes,
                    SourceInvariant, BatchInvariant, RecordInvariant, LimitInvariant,
                    AccountInvariant, OutputInvariant, FailureInvariant, IInv,
                    SpoolError \/ PushOverOutput
             PROVE  IInv'
  BY DEF IInv, TypeOK
<1>0. /\ UNCHANGED <<config, outcome, available, appended, consumed, filled, batch, next,
                     worker, aggregate, output>>
      /\ pc = "emit" /\ Encodable /\ PrepareFailure = "none"
      /\ pc' = "failed" /\ failure' \in {"io", "output limit"}
      /\ UNCHANGED encoder \/
           (failure' = "output limit" /\
            encoder' = [encoder EXCEPT !.originalSize = NewOriginalSize])
  BY DEF SpoolError, PushOverOutput, Fail, callVars, sourceVars, readVars
<1>1. PICK count \in 0..PayloadLength(Emitted) : spool' = SpoolWith(count)
  <2>1. CASE SpoolError
    BY <2>1 DEF SpoolError
  <2>2. CASE PushOverOutput
    <3>1. PayloadLength(Emitted) \in Nat
      BY <1>0, AcceptedFacts
    <3>2. PayloadLength(Emitted) \in 0..PayloadLength(Emitted)
      BY <3>1
    <3>3. spool' = SpoolWith(PayloadLength(Emitted))
      BY <2>2 DEF PushOverOutput
    <3> QED
      BY <3>2, <3>3
  <2> QED
    BY <2>1, <2>2
<1>2. /\ encoder.originalSize \in Nat /\ NewOriginalSize \in Nat
      /\ encoder.originalSize <= NewOriginalSize
  <2>1. encoder.originalSize \in Nat /\ Emitted.length \in Nat
    BY <1>0, EncoderFacts, AcceptedFacts
  <2> QED
    BY <2>1 DEF NewOriginalSize
<1>3. /\ encoder'.records = encoder.records /\ encoder'.payloadBytes = encoder.payloadBytes
      /\ encoder'.restored = encoder.restored
      /\ encoder'.originalSize \in Nat
      /\ encoder.originalSize <= encoder'.originalSize
      /\ EncoderTypes'
  <2>1. CASE UNCHANGED encoder
    <3>1. EncoderTypes'
      BY <2>1, <1>0 DEF EncoderTypes
    <3> QED
      BY <2>1, <3>1, <1>2
  <2>2. CASE encoder' = [encoder EXCEPT !.originalSize = NewOriginalSize]
    <3>1. encoder = [records |-> encoder.records, originalSize |-> encoder.originalSize,
                     payloadBytes |-> encoder.payloadBytes, restored |-> encoder.restored,
                     maximumPrepared |-> encoder.maximumPrepared]
      BY DEF EncoderTypes
    <3>2. encoder' = [records |-> encoder.records, originalSize |-> NewOriginalSize,
                      payloadBytes |-> encoder.payloadBytes, restored |-> encoder.restored,
                      maximumPrepared |-> encoder.maximumPrepared]
      BY <2>2, <3>1
    <3> QED
      BY <3>2, <1>0, <1>2 DEF EncoderTypes
  <2> QED
    BY <1>0, <2>1, <2>2
<1>4. failure' # "output limit" => UNCHANGED encoder
  BY <1>0
<1>5. failure = "none" /\ output = NoOutput
  BY <1>0 DEF FailureInvariant, Running, OutputInvariant, Accepting
<1>6. CallTypes' /\ BatchTypes' /\ OutputTypes'
  BY <1>0 DEF CallTypes, BatchTypes, OutputTypes
<1>7. ControlTypes'
  BY <1>0 DEF ControlTypes, Ended, Failures
<1>8. SpoolType'
  BY <1>0, <1>1, SpoolWritten
<1>9. SourceInvariant'
  BY <1>0, <1>4, <1>5 DEF SourceInvariant
<1>10. BatchInvariant'
  BY <1>0 DEF BatchInvariant, Accepting, Closing
<1>11. RecordInvariant'
  <2>1. ASSUME NEW i \in 1..Len(encoder.records) PROVE Recorded(i)'
    <3>1. Recorded(i)
      BY DEF RecordInvariant
    <3>2. encoder.records[i].offset + encoder.records[i].length <= encoder'.originalSize
      <4>1. encoder.records[i].offset + encoder.records[i].length <= encoder.originalSize
        BY <3>1 DEF Recorded
      <4>2. encoder.records[i].offset \in Nat /\ encoder.records[i].length \in Nat
        BY RecordFacts
      <4> QED
        BY <4>1, <4>2, <1>2, <1>3
    <3>3. \A j \in 0..encoder.records[i].payloadLength-1 :
            spool'[config.spoolStart + encoder.records[i].payloadOffset + j]
              = PayloadCell(BlockOf(encoder.records[i]), j)
      BY <1>0, <1>1, RecordedSurvive
    <3> QED
      BY <3>1, <3>2, <3>3, <1>0, <1>3 DEF Recorded, PayloadLength, PayloadCell, BlockOf
  <2>2. /\ Len(encoder.restored) = Len(encoder.records)
        /\ encoder.payloadBytes = 0 \/ encoder.records # <<>>
        /\ Tiles(encoder.records, 0, encoder.originalSize, 0, encoder.payloadBytes)
    BY <1>5 DEF RecordInvariant
  <2>3. failure' # "output limit" =>
          Tiles(encoder'.records, 0, encoder'.originalSize, 0, encoder'.payloadBytes)
    BY <2>2, <1>4
  <2> QED
    BY <2>1, <2>2, <2>3, <1>3 DEF RecordInvariant
<1>12. LimitInvariant'
  BY <1>0, <1>3, <1>4, <1>5 DEF LimitInvariant, DirectoryBytes
<1>13. AccountInvariant'
  BY <1>0, <1>3, <1>4, <1>5 DEF AccountInvariant
<1>14. OutputInvariant'
  BY <1>0, <1>5 DEF OutputInvariant, Accepting, NoOutput, NoPiece
<1>15. FailureInvariant'
  <2>1. batch # <<>>
    BY <1>0, AcceptedFacts
  <2> QED
    BY <2>1, <1>0, <1>5
    DEF FailureInvariant, Running, LateFailureIsIo, FirstBadBlockReported, NoOutput, NoPiece
<1> QED
  BY <1>3, <1>6, <1>7, <1>8, <1>9, <1>10, <1>11, <1>12, <1>13, <1>14, <1>15 DEF IInv, TypeOK

(* A record that starts where the others end extends their tiling. *)
LEMMA TilesAppend ==
    ASSUME NEW records \in Seq(Records), NEW record \in Records,
           NEW start, NEW end, NEW payloadStart, NEW payloadEnd,
           Tiles(records, start, end, payloadStart, payloadEnd),
           record.offset = end, record.payloadOffset = payloadEnd
    PROVE  Tiles(Append(records, record), start, end + record.length,
                 payloadStart, payloadEnd + record.payloadLength)
<1> DEFINE n == Len(records)
           longer == Append(records, record)
<1>1. /\ n \in Nat /\ Len(longer) = n + 1 /\ longer[n+1] = record
      /\ \A i \in 1..n : longer[i] = records[i]
      /\ longer # <<>>
      /\ records = <<>> <=> n = 0
  OBVIOUS
<1>2. \A i \in 1..n :
         /\ records[i].offset =
              IF i = 1 THEN start ELSE records[i-1].offset + records[i-1].length
         /\ records[i].payloadOffset =
              IF i = 1 THEN payloadStart
                       ELSE records[i-1].payloadOffset + records[i-1].payloadLength
  BY DEF Tiles
<1>3. /\ n = 0 => start = end /\ payloadStart = payloadEnd
      /\ n # 0 => /\ records[n].offset + records[n].length = end
                 /\ records[n].payloadOffset + records[n].payloadLength = payloadEnd
  BY <1>1 DEF Tiles
<1> HIDE DEF n, longer
<1>4. ASSUME NEW i \in 1..Len(longer)
      PROVE  /\ longer[i].offset =
                  IF i = 1 THEN start ELSE longer[i-1].offset + longer[i-1].length
             /\ longer[i].payloadOffset =
                  IF i = 1 THEN payloadStart
                           ELSE longer[i-1].payloadOffset + longer[i-1].payloadLength
  <2>1. CASE i \in 1..n /\ i = 1
    BY <2>1, <1>1, <1>2
  <2>2. CASE i \in 1..n /\ i # 1
    <3>1. i - 1 \in 1..n
      BY <2>2, <1>1
    <3>2. longer[i] = records[i] /\ longer[i-1] = records[i-1]
      BY <2>2, <3>1, <1>1
    <3> QED
      BY <2>2, <3>2, <1>2
  <2>only. CASE i = n + 1 /\ n = 0
    <3>1. i = 1 /\ longer[i] = record
      BY <2>only, <1>1
    <3> QED
      BY <2>only, <3>1, <1>3
  <2>4. CASE i = n + 1 /\ n # 0
    <3>1. i # 1 /\ longer[i] = record /\ longer[i-1] = records[n]
      BY <2>4, <1>1
    <3> QED
      BY <2>4, <3>1, <1>3
  <2> QED
    BY <2>1, <2>2, <2>only, <2>4, <1>1
<1>5. /\ longer[Len(longer)].offset + longer[Len(longer)].length = end + record.length
      /\ longer[Len(longer)].payloadOffset + longer[Len(longer)].payloadLength
           = payloadEnd + record.payloadLength
  BY <1>1
<1> QED
  BY <1>1, <1>4, <1>5 DEF Tiles, longer

(* The larger of a natural number and an integer is natural. *)
LEMMA MostNat == ASSUME NEW a \in Nat, NEW b \in Int PROVE Most(a, b) \in Nat
BY DEF Most

(* A block is spooled and recorded. *)
LEMMA PushKeeps == IInv /\ PushBlock => IInv'
<1> SUFFICES ASSUME CallTypes, ControlTypes, BatchTypes, EncoderTypes, SpoolType, OutputTypes,
                    SourceInvariant, BatchInvariant, RecordInvariant, LimitInvariant,
                    AccountInvariant, OutputInvariant, FailureInvariant, IInv, PushBlock
             PROVE  IInv'
  BY DEF IInv, TypeOK
<1>r. PICK block, length, n, new :
        /\ block = Emitted /\ length = PayloadLength(Emitted) /\ n = Len(encoder.records)
        /\ new = [offset |-> encoder.originalSize, length |-> Emitted.length,
                  payloadOffset |-> encoder.payloadBytes,
                  payloadLength |-> PayloadLength(Emitted)]
  OBVIOUS
<1>0. /\ UNCHANGED <<config, outcome, available, appended, failure, consumed, filled, worker,
                     output>>
      /\ pc = "emit" /\ Encodable /\ PrepareFailure = "none"
      /\ NewOriginalSize <= MaxOutput
      /\ spool' = SpoolWith(length)
      /\ \/ next < Len(batch) /\ next' = next + 1 /\ pc' = "emit" /\ batch' = batch
         \/ ~(next < Len(batch)) /\ next' = 1 /\ pc' = "read" /\ batch' = <<>>
  BY <1>r DEF PushBlock, callVars, sourceVars
<1>1. /\ encoder'.records = Append(encoder.records, new)
      /\ encoder'.originalSize = encoder.originalSize + block.length
      /\ encoder'.payloadBytes = encoder.payloadBytes + length
      /\ encoder'.restored = Append(encoder.restored, block)
      /\ encoder' = [records |-> encoder'.records, originalSize |-> encoder'.originalSize,
                     payloadBytes |-> encoder'.payloadBytes, restored |-> encoder'.restored,
                     maximumPrepared |-> encoder'.maximumPrepared]
      /\ encoder'.maximumPrepared =
           Most(encoder.maximumPrepared, MinArchive + RecordBytes + length)
      /\ aggregate' = [originalBytes |-> aggregate.originalBytes + block.length,
                       inputBlocks |-> aggregate.inputBlocks + 1,
                       maximumInflight |-> Most(aggregate.maximumInflight, Inflight)]
  BY <1>r DEF PushBlock, NewOriginalSize, NextPayloadBytes
<1>2. /\ next \in 1..Len(batch) /\ batch # <<>>
      /\ block \in Blocks /\ block.offset \in Nat /\ block.length \in Nat \ {0}
      /\ block.offset = encoder.originalSize
      /\ block.offset + block.length <= consumed
      /\ Result.kind = "program"
      /\ length \in Nat \ {0}
      /\ MinimumArchive <= MaxArchive
  BY <1>0, <1>r, AcceptedFacts
<1>3. failure = "none" /\ output = NoOutput /\ filled = 0
  BY <1>0 DEF FailureInvariant, Running, OutputInvariant, Accepting, BatchInvariant
<1>4. /\ n \in Nat /\ Len(encoder.restored) = n
      /\ encoder.originalSize \in Nat /\ encoder.payloadBytes \in Nat
      /\ encoder.records # <<>> <=> n # 0
      /\ encoder.records \in Seq(Records) /\ encoder.restored \in Seq(Blocks)
      /\ consumed \in Nat
      /\ next \in Nat \ {0} /\ Len(batch) \in Nat
  <2>1. Len(encoder.restored) = n
    BY <1>r DEF RecordInvariant
  <2>2. encoder.records \in Seq(Records) /\ encoder.restored \in Seq(Blocks)
    BY DEF EncoderTypes
  <2> QED
    BY <2>1, <2>2, <1>r, EncoderFacts, BatchFacts
<1>5. new \in Records
  BY <1>2, <1>4, <1>r DEF Records
<1>6. BlockOf(new) = block
  <2>1. block = [offset |-> block.offset, length |-> block.length]
    BY <1>2 DEF Blocks
  <2> QED
    BY <2>1, <1>2, <1>r DEF BlockOf
<1>7. /\ new.offset = block.offset /\ new.length = block.length
      /\ new.payloadOffset = encoder.payloadBytes /\ new.payloadLength = length
  BY <1>2, <1>r
<1>8. length = PayloadLength(block) /\ Result = outcome[block.offset] /\ block = batch[next]
  BY <1>r DEF Result, Emitted
<1>9. /\ Len(encoder'.records) = n + 1
      /\ \A i \in 1..n : encoder'.records[i] = encoder.records[i]
      /\ encoder'.records[n+1] = new
      /\ encoder'.records \in Seq(Records)
      /\ encoder'.records # <<>>
  <2>1. /\ encoder'.records = Append(encoder.records, new) /\ new \in Records
        /\ encoder.records \in Seq(Records) /\ Len(encoder.records) = n /\ n \in Nat
    BY <1>1, <1>4, <1>5, <1>r
  <2> QED
    BY <2>1
<1>20. /\ Len(encoder'.restored) = n + 1
       /\ \A i \in 1..n : encoder'.restored[i] = encoder.restored[i]
       /\ encoder'.restored[n+1] = block
       /\ encoder'.restored \in Seq(Blocks)
  <2>1. /\ encoder'.restored = Append(encoder.restored, block) /\ block \in Blocks
        /\ encoder.restored \in Seq(Blocks) /\ Len(encoder.restored) = n /\ n \in Nat
    BY <1>1, <1>2, <1>4
  <2> QED
    BY <2>1
<1>10. /\ spool' = SpoolWith(PayloadLength(Emitted))
       /\ PayloadLength(Emitted) \in 0..PayloadLength(Emitted)
       /\ length = PayloadLength(Emitted)
  BY <1>0, <1>2, <1>r
<1>11. CallTypes' /\ OutputTypes'
  BY <1>0 DEF CallTypes, OutputTypes
<1>12. ControlTypes'
  BY <1>0 DEF ControlTypes, Running
<1>13. BatchTypes'
  <2>1. batch' \in Seq(Blocks) /\ next' \in Nat \ {0}
    <3>1. batch \in Seq(Blocks)
      BY DEF BatchTypes
    <3>2. CASE batch' = batch /\ next' = next + 1
      BY <3>1, <3>2, <1>4
    <3>3. CASE batch' = <<>> /\ next' = 1
      BY <3>3
    <3> QED
      BY <3>2, <3>3, <1>0
  <2> QED
    BY <2>1, <1>0 DEF BatchTypes
<1>14. EncoderTypes'
  <2>1. Inflight \in Int
    <3>1. 1 \in 1..Len(batch) /\ Len(batch) \in 1..Len(batch)
      BY <1>2, <1>4
    <3>2. /\ batch[1].offset \in Nat
          /\ batch[Len(batch)].offset \in Nat /\ batch[Len(batch)].length \in Nat
      BY <3>1, BlockFacts
    <3> QED
      BY <3>2 DEF Inflight
  <2>2. /\ aggregate.originalBytes \in Nat /\ aggregate.inputBlocks \in Nat
        /\ aggregate.maximumInflight \in Nat /\ encoder.maximumPrepared \in Nat
    BY DEF EncoderTypes
  <2>3. MinArchive \in Nat /\ RecordBytes \in Nat
    BY ConstantFacts
  <2>4. Most(aggregate.maximumInflight, Inflight) \in Nat
    BY <2>1, <2>2, MostNat
  <2>5. encoder'.maximumPrepared \in Nat
    <3>1. MinArchive + RecordBytes + length \in Nat
      BY <2>3, <1>2
    <3>2. MinArchive + RecordBytes + length \in Int /\ encoder.maximumPrepared \in Nat
      BY <3>1, <2>2
    <3>3. Most(encoder.maximumPrepared, MinArchive + RecordBytes + length) \in Nat
      BY <3>2, MostNat
    <3>4. encoder'.maximumPrepared =
            Most(encoder.maximumPrepared, MinArchive + RecordBytes + length)
      BY <1>1
    <3> QED
      BY <3>3, <3>4
  <2>6. aggregate' \in [originalBytes : Nat, inputBlocks : Nat, maximumInflight : Nat]
    <3>1. aggregate.originalBytes + block.length \in Nat /\ aggregate.inputBlocks + 1 \in Nat
      BY SMTT(40), <2>2, <1>2
    <3>2. aggregate' = [originalBytes |-> aggregate.originalBytes + block.length,
                        inputBlocks |-> aggregate.inputBlocks + 1,
                        maximumInflight |-> Most(aggregate.maximumInflight, Inflight)]
      BY <1>1
    <3> QED
      BY <2>4, <3>1, <3>2
  <2>7. encoder'.originalSize \in Nat
    <3>1. encoder.originalSize + block.length \in Nat
      BY <1>2, <1>4
    <3> QED
      BY <3>1, <1>1
  <2>8. encoder'.payloadBytes \in Nat
    <3>1. encoder.payloadBytes + length \in Nat
      BY <1>2, <1>4
    <3> QED
      BY <3>1, <1>1
  <2> QED
    BY <2>5, <2>6, <2>7, <2>8, <1>1, <1>9, <1>20 DEF EncoderTypes
<1>15. SpoolType'
  BY <1>0, <1>10, SpoolWritten
<1>16. SourceInvariant'
  <2>1. encoder'.originalSize <= consumed
    BY <1>1, <1>2, <1>4
  <2> QED
    BY <2>1, <1>0 DEF SourceInvariant
<1>17. BatchInvariant'
  <2>1. encoder'.originalSize = batch[next].offset + batch[next].length
    BY <1>1, <1>2, <1>8
  <2>2. CASE next < Len(batch)
    <3>1. /\ batch[next+1].offset = batch[next].offset + batch[next].length
      BY <2>2, <1>2 DEF BatchInvariant
    <3>2. /\ next' = next + 1 /\ pc' = "emit" /\ batch' = batch /\ next + 1 <= Len(batch)
      BY <2>2, <1>0, <1>4
    <3>3. encoder'.originalSize = batch'[next'].offset
      BY <2>1, <3>1, <3>2
    <3> QED
      BY <3>2, <3>3, <1>0, <1>2, <1>3, <1>4 DEF BatchInvariant, Accepting, Closing
  <2>3. CASE ~(next < Len(batch))
    <3>1. next = Len(batch)
      BY <2>3, <1>2, <1>4
    <3>2. batch[Len(batch)].offset + batch[Len(batch)].length = consumed - filled
      BY <1>2 DEF BatchInvariant
    <3>3. /\ next' = 1 /\ pc' = "read" /\ batch' = <<>> /\ consumed' = consumed /\ filled' = filled
      BY <2>3, <1>0
    <3>4. encoder'.originalSize = consumed' - filled'
      BY <2>1, <3>1, <3>2, <3>3
    <3> QED
      BY <3>3, <3>4 DEF BatchInvariant, Accepting, Closing
  <2> QED
    BY <2>2, <2>3
<1>18. RecordInvariant'
  <2>1. ASSUME NEW i \in 1..n PROVE Recorded(i)'
    <3>1. Recorded(i) /\ i \in 1..Len(encoder.records)
      BY <1>r DEF RecordInvariant
    <3>2. \A j \in 0..encoder.records[i].payloadLength-1 :
            spool'[config.spoolStart + encoder.records[i].payloadOffset + j]
              = PayloadCell(BlockOf(encoder.records[i]), j)
      BY <3>1, <1>0, <1>10, RecordedSurvive
    <3>3. /\ encoder.records[i].offset \in Nat /\ encoder.records[i].length \in Nat
          /\ encoder.records[i].payloadOffset \in Nat /\ encoder.records[i].payloadLength \in Nat
      BY <3>1, RecordFacts
    <3>4. /\ encoder.records[i].offset + encoder.records[i].length <= encoder'.originalSize
      <4>1. encoder.records[i].offset + encoder.records[i].length <= encoder.originalSize
        BY <3>1 DEF Recorded
      <4>2. encoder'.originalSize = encoder.originalSize + block.length
        BY <1>1
      <4>3. encoder.originalSize \in Nat /\ block.length \in Nat
        BY <1>2, <1>4
      <4> QED
        BY <4>1, <4>2, <4>3, <3>3
    <3>5. /\ encoder.records[i].payloadOffset + encoder.records[i].payloadLength
                <= encoder'.payloadBytes
      <4>1. encoder.records[i].payloadOffset + encoder.records[i].payloadLength
              <= encoder.payloadBytes
        BY <3>1 DEF Recorded
      <4>2. encoder'.payloadBytes = encoder.payloadBytes + length
        BY <1>1
      <4>3. encoder.payloadBytes \in Nat /\ length \in Nat
        BY <1>2, <1>4
      <4> QED
        BY <4>1, <4>2, <4>3, <3>3
    <3>6. encoder'.records[i] = encoder.records[i] /\ encoder'.restored[i] = encoder.restored[i]
      BY <1>9, <1>20
    <3> QED
      BY <3>1, <3>2, <3>4, <3>5, <3>6, <1>0 DEF Recorded, PayloadLength, PayloadCell, BlockOf
  <2>2. Recorded(n + 1)'
    <3>1. \A j \in 0..length-1 :
            spool'[config.spoolStart + encoder.payloadBytes + j] = PayloadCell(block, j)
      BY <1>0, <1>10, SpoolWritten, <1>r
    <3>2. /\ new.offset + new.length <= encoder'.originalSize
          /\ new.payloadOffset + new.payloadLength <= encoder'.payloadBytes
          /\ new.length > 0
      <4>1. /\ encoder'.originalSize = encoder.originalSize + block.length
            /\ encoder'.payloadBytes = encoder.payloadBytes + length
            /\ new.offset = encoder.originalSize /\ new.length = block.length
        BY <1>1, <1>2, <1>7
      <4>2. /\ encoder.originalSize \in Nat /\ block.length \in Nat \ {0}
            /\ encoder.payloadBytes \in Nat /\ length \in Nat
        BY <1>2, <1>4
      <4> QED
        BY <4>1, <4>2, <1>7
    <3>3. PayloadLength(block)' = length
      BY <1>0, <1>8 DEF PayloadLength
    <3>4. /\ outcome[new.offset].kind = "program"
          /\ new.payloadLength = length /\ new.payloadOffset = encoder.payloadBytes
      BY <1>2, <1>7, <1>8
    <3> QED
      BY <3>1, <3>2, <3>3, <3>4, <1>0, <1>6, <1>9, <1>20
      DEF Recorded, PayloadLength, PayloadCell, BlockOf
  <2>3. Tiles(encoder'.records, 0, encoder'.originalSize, 0, encoder'.payloadBytes)
    <3>1. Tiles(encoder.records, 0, encoder.originalSize, 0, encoder.payloadBytes)
      BY <1>3 DEF RecordInvariant
    <3>2. /\ encoder'.records = Append(encoder.records, new)
          /\ encoder'.originalSize = encoder.originalSize + new.length
          /\ encoder'.payloadBytes = encoder.payloadBytes + new.payloadLength
          /\ new.offset = encoder.originalSize /\ new.payloadOffset = encoder.payloadBytes
      BY <1>1, <1>2, <1>7
    <3> QED
      BY <3>1, <3>2, <1>4, <1>5, TilesAppend
  <2>4. \A i \in 1..n+1 : Recorded(i)'
    BY <2>1, <2>2, <1>4
  <2> QED
    BY <2>3, <2>4, <1>9, <1>20 DEF RecordInvariant
<1>19. LimitInvariant'
  <2>1. MinArchive + RecordBytes * (n + 1) + (encoder.payloadBytes + length) <= MaxArchive
    BY <1>2, <1>r DEF MinimumArchive, NextPayloadBytes
  <2>2. DirectoryBytes' = RecordBytes * (n + 1)
    BY <1>9 DEF DirectoryBytes
  <2>3. encoder'.originalSize <= MaxOutput
    BY <1>0, <1>1, <1>r DEF NewOriginalSize
  <2> QED
    BY <2>1, <2>2, <2>3, <1>0, <1>1 DEF LimitInvariant
<1>21. AccountInvariant'
  BY <1>0, <1>1, <1>3, <1>9, <1>r DEF AccountInvariant
<1>22. OutputInvariant'
  BY <1>0, <1>3 DEF OutputInvariant, Accepting, NoOutput, NoPiece
<1>23. FailureInvariant'
  BY <1>0, <1>3 DEF FailureInvariant, Running, LateFailureIsIo, FirstBadBlockReported, Threads
<1> QED
  BY <1>11, <1>12, <1>13, <1>14, <1>15, <1>16, <1>17, <1>18, <1>19, <1>21, <1>22, <1>23
  DEF IInv, TypeOK

(* The absolute directory is a sequence of records. *)
LEMMA DirectoryFacts ==
    ASSUME EncoderTypes
    PROVE  /\ Directory \in Seq(Records)
           /\ Len(Directory) = Len(encoder.records)
           /\ \A i \in 1..Len(encoder.records) :
                Directory[i] = [offset |-> encoder.records[i].offset,
                                length |-> encoder.records[i].length,
                                payloadOffset |-> PayloadStart + encoder.records[i].payloadOffset,
                                payloadLength |-> encoder.records[i].payloadLength]
           /\ PayloadStart \in Nat /\ DirectoryBytes \in Nat
<1>1. /\ HeaderBytes \in Nat /\ RecordBytes \in Nat /\ Len(encoder.records) \in Nat
  BY EncoderFacts, ConstantFacts
<1>2. DirectoryBytes \in Nat
  BY <1>1, ProductNat DEF DirectoryBytes
<1>3. PayloadStart \in Nat
  BY <1>1, <1>2 DEF PayloadStart
<1>4. ASSUME NEW i \in 1..Len(encoder.records)
      PROVE  /\ Directory[i] = [offset |-> encoder.records[i].offset,
                                length |-> encoder.records[i].length,
                                payloadOffset |-> PayloadStart + encoder.records[i].payloadOffset,
                                payloadLength |-> encoder.records[i].payloadLength]
             /\ Directory[i] \in Records
  <2>1. encoder.records[i] \in Records
    BY RecordFacts
  <2>2. Directory[i] = [encoder.records[i] EXCEPT !.payloadOffset = PayloadStart + @]
    BY DEF Directory
  <2>3. PayloadStart + encoder.records[i].payloadOffset \in Nat
    BY <1>3, RecordFacts
  <2> QED
    BY <2>1, <2>2, <2>3 DEF Records
<1>5. Len(Directory) = Len(encoder.records) /\ Directory \in Seq(Records)
  <2> DEFINE n == Len(encoder.records)
             f(i) == [encoder.records[i] EXCEPT !.payloadOffset = PayloadStart + @]
  <2>1. Directory = [i \in 1..n |-> f(i)] /\ n \in Nat
    BY <1>1 DEF Directory
  <2>2. \A i \in 1..n : f(i) \in Records
    BY <1>4 DEF Directory
  <2> HIDE DEF n, f
  <2>3. [i \in 1..n |-> f(i)] \in Seq(Records) /\ Len([i \in 1..n |-> f(i)]) = n
    BY <2>1, <2>2
  <2> QED
    BY <2>1, <2>3 DEF n
<1> QED
  BY <1>2, <1>3, <1>4, <1>5

(* The archive built so far is what push_block budgeted for. *)
LEMMA ArchiveFits ==
    ASSUME IInv, encoder.records # <<>>
    PROVE  ~(ArchiveBytes > MaxArchive) /\ ArchiveBytes \in Nat
<1>1. EncoderTypes /\ LimitInvariant
  BY DEF IInv, TypeOK
<1>2. MinArchive + DirectoryBytes + encoder.payloadBytes <= MaxArchive
  BY <1>1 DEF LimitInvariant
<1>3. /\ HeaderBytes \in Nat /\ FooterBytes \in Nat /\ MaxArchive \in Nat
      /\ DirectoryBytes \in Nat /\ encoder.payloadBytes \in Nat
  BY <1>1, DirectoryFacts, EncoderFacts, ConstantFacts
<1> QED
  BY <1>2, <1>3 DEF ArchiveBytes, PayloadStart, MinArchive

(* The spooled payloads never exceed the archive limit. *)
LEMMA PayloadFits == ASSUME IInv PROVE encoder.payloadBytes <= MaxArchive
<1>1. EncoderTypes /\ LimitInvariant /\ RecordInvariant
  BY DEF IInv, TypeOK
<1>2. MaxArchive \in Nat /\ MinArchive \in Nat /\ encoder.payloadBytes \in Nat
      /\ DirectoryBytes \in Nat
  BY <1>1, DirectoryFacts, EncoderFacts, ConstantFacts
<1>3. CASE encoder.records = <<>>
  <2>1. encoder.payloadBytes = 0
    BY <1>1, <1>3 DEF RecordInvariant
  <2> QED
    BY <2>1, <1>2
<1>4. CASE encoder.records # <<>>
  <2>1. MinArchive + DirectoryBytes + encoder.payloadBytes <= MaxArchive
    BY <1>1, <1>4 DEF LimitInvariant
  <2> QED
    BY <2>1, <1>2
<1> QED
  BY <1>3, <1>4

(* A step of finish that keeps the output invariant keeps the rest. *)
LEMMA CloseKeeps ==
    ASSUME IInv, pc \in {"finish", "copy", "account"}, pc' \in {"copy", "account", "done"},
           UNCHANGED <<config, outcome, available, appended, failure, consumed, filled, batch,
                       next, worker, encoder, spool, aggregate>>,
           OutputTypes', OutputInvariant'
    PROVE  IInv'
<1> SUFFICES ASSUME CallTypes, ControlTypes, BatchTypes, EncoderTypes, SpoolType,
                    SourceInvariant, BatchInvariant, RecordInvariant, LimitInvariant,
                    AccountInvariant, FailureInvariant
             PROVE  IInv'
  BY DEF IInv, TypeOK
<1>0. failure = "none"
  BY DEF FailureInvariant, Running
<1>1. CallTypes' /\ BatchTypes' /\ EncoderTypes' /\ SpoolType'
  BY DEF CallTypes, BatchTypes, EncoderTypes, SpoolType
<1>2. ControlTypes'
  BY DEF ControlTypes, Running, Ended
<1>3. SourceInvariant'
  BY DEF SourceInvariant
<1>4. BatchInvariant'
  BY DEF BatchInvariant, Accepting, Closing
<1>5. RecordInvariant'
  BY DEF RecordInvariant, Recorded, Tiles, BlockOf, PayloadLength, PayloadCell
<1>6. LimitInvariant' /\ AccountInvariant'
  BY DEF LimitInvariant, DirectoryBytes, AccountInvariant
<1>7. FailureInvariant'
  BY <1>0 DEF FailureInvariant, Running, LateFailureIsIo, FirstBadBlockReported, Threads
<1> QED
  BY <1>1, <1>2, <1>3, <1>4, <1>5, <1>6, <1>7 DEF IInv, TypeOK

(* The output invariant after a step of finish, in terms of the encoder    *)
(* the step leaves alone.                                                  *)
LEMMA OutputKept ==
    ASSUME IInv, pc \in {"finish", "copy", "account"}, pc' \in {"copy", "account", "done"},
           UNCHANGED <<config, failure, consumed, filled, encoder, spool>>,
           output'.header = Header, output'.directory = Directory,
           Len(output'.payload) <= encoder.payloadBytes,
           \A i \in 1..Len(output'.payload) :
              output'.payload[i] = spool[config.spoolStart + i - 1],
           pc' = "copy" => output'.footer = NoPiece,
           pc' # "copy" => /\ output'.footer # NoPiece /\ output'.footer = FooterOf(output')
                           /\ Len(output'.payload) = encoder.payloadBytes
    PROVE  OutputInvariant'
<1>1. failure = "none" /\ filled = 0 /\ encoder.originalSize = consumed
  BY DEF IInv, FailureInvariant, Running, BatchInvariant, Closing
<1>2. /\ Header' = Header /\ Directory' = Directory
      /\ FooterOf(output)' = FooterOf(output')
  BY DEF Header, Directory, ArchiveBytes, PayloadStart, DirectoryBytes, FooterOf
<1> QED
  BY <1>1, <1>2 DEF OutputInvariant, Accepting

(* finish: the empty archive, the directory, the payload copy, the footer, *)
(* the comparison of the two accountings.                                  *)
LEMMA FinishKeeps == IInv /\ FinishStep => IInv'
<1> SUFFICES ASSUME CallTypes, ControlTypes, BatchTypes, EncoderTypes, SpoolType, OutputTypes,
                    SourceInvariant, BatchInvariant, RecordInvariant, LimitInvariant,
                    AccountInvariant, OutputInvariant, FailureInvariant, IInv, FinishStep
             PROVE  IInv'
  BY DEF IInv, TypeOK
<1>0. /\ UNCHANGED <<config, outcome, available, appended, consumed, filled, batch, next,
                     worker, encoder, spool, aggregate>>
      /\ pc \in {"finish", "copy", "account"}
  BY DEF FinishStep, FinishEmpty, WriteDirectory, CopyChunk, WriteFooter, Account,
         callVars, sourceVars, readVars, encodeVars
<1>1. failure = "none"
  BY <1>0 DEF FailureInvariant, Running
<1>2. /\ encoder.payloadBytes \in Nat /\ Directory \in Seq(Records)
      /\ Len(Directory) = Len(encoder.records)
  BY EncoderFacts, DirectoryFacts
<1>3. CASE FinishEmpty
  <2>1. PICK begun : begun = [header |-> Header, directory |-> <<>>, payload |-> <<>>,
                              footer |-> NoPiece]
    OBVIOUS
  <2>2. [NoOutput EXCEPT !.header = Header] = begun
    BY <2>1 DEF NoOutput
  <2>3. /\ pc' = "account" /\ failure' = failure /\ encoder.records = <<>>
        /\ output' = [begun EXCEPT !.footer = FooterOf(begun)]
    BY <2>2, <1>3 DEF FinishEmpty
  <2>4. /\ output' = [header |-> Header, directory |-> <<>>, payload |-> <<>>,
                      footer |-> FooterOf(begun)]
    BY <2>1, <2>3
  <2>5. FooterOf(output') = FooterOf(begun) /\ FooterOf(begun) # NoPiece
    BY <2>1, <2>4 DEF FooterOf, NoPiece
  <2>6. Directory = <<>>
    <3>1. Len(Directory) = 0
      BY <2>3, <1>2
    <3> QED
      BY <3>1, <1>2
  <2>7. encoder.payloadBytes = 0
    BY <2>3 DEF RecordInvariant
  <2>8. OutputTypes'
    BY <2>4 DEF OutputTypes
  <2>9. OutputInvariant'
    BY <1>0, <2>3, <2>4, <2>5, <2>6, <2>7, OutputKept
  <2> QED
    BY <1>0, <2>3, <2>8, <2>9, CloseKeeps
<1>4. CASE WriteDirectory
  <2>1. /\ pc' = "copy" /\ failure' = failure
        /\ output' = [NoOutput EXCEPT !.header = Header, !.directory = Directory]
    BY <1>4, ArchiveFits DEF WriteDirectory
  <2>2. output' = [header |-> Header, directory |-> Directory, payload |-> <<>>, footer |-> NoPiece]
    BY <2>1 DEF NoOutput
  <2>3. OutputTypes'
    BY <2>2, <1>2 DEF OutputTypes
  <2>4. OutputInvariant'
    <3>1. Len(output'.payload) = 0 /\ 0 <= encoder.payloadBytes
      BY <2>2, <1>2
    <3>2. /\ output'.header = Header /\ output'.directory = Directory
          /\ output'.footer = NoPiece
      BY <2>2
    <3>3. \A i \in 1..Len(output'.payload) :
            output'.payload[i] = spool[config.spoolStart + i - 1]
      BY <3>1
    <3>4. Len(output'.payload) <= encoder.payloadBytes
      BY <3>1
    <3> QED
      BY <1>0, <2>1, <3>2, <3>3, <3>4, OutputKept
  <2> QED
    BY <1>0, <2>1, <2>3, <2>4, CloseKeeps
<1>5. CASE CopyChunk
  <2>1. /\ pc = "copy" /\ pc' = "copy" /\ failure' = failure /\ Remaining > 0
        /\ output' = [output EXCEPT !.payload =
                        @ \o [i \in 1..Least(Remaining, CopyBytes) |->
                                spool[config.spoolStart + Len(output.payload) + i - 1]]]
    BY <1>5 DEF CopyChunk
  <2>2. PICK done, count, chunk :
          /\ done = Len(output.payload) /\ count = Least(Remaining, CopyBytes)
          /\ chunk = [i \in 1..count |-> spool[config.spoolStart + done + i - 1]]
    OBVIOUS
  <2>3. /\ done \in Nat /\ count \in Nat /\ done + count <= encoder.payloadBytes
        /\ config.spoolStart \in Nat
        /\ config.spoolStart + encoder.payloadBytes <= SpoolCells /\ SpoolCells \in Nat
    <3>1. done \in Nat
      BY <2>2 DEF OutputTypes
    <3>2. Remaining = encoder.payloadBytes - done /\ CopyBytes \in Nat \ {0}
      BY <2>2, ConstantFacts DEF Remaining
    <3>3. count = Least(encoder.payloadBytes - done, CopyBytes)
      BY <2>2, <3>2
    <3>4. count \in Nat /\ done + count <= encoder.payloadBytes
      BY <2>1, <3>1, <3>2, <3>3, <1>2 DEF Least
    <3>5. encoder.payloadBytes <= MaxArchive
      BY PayloadFits
    <3>6. /\ config.spoolStart \in Nat /\ config.spoolStart + MaxArchive <= SpoolCells
          /\ SpoolCells \in Nat /\ MaxArchive \in Nat
      BY CallFacts, ConstantFacts
    <3> QED
      BY <3>1, <3>4, <3>5, <3>6, <1>2
  <2>4. chunk \in Seq(Cells) /\ Len(chunk) = count
    <3>1. ASSUME NEW i \in 1..count PROVE spool[config.spoolStart + done + i - 1] \in Cells
      <4>1. config.spoolStart + done + i - 1 \in 0..SpoolCells-1
        BY <2>3, <1>2
      <4> QED
        BY <4>1 DEF SpoolType
    <3> QED
      BY <2>2, <2>3, <3>1
  <2>5. output' = [header |-> Header, directory |-> Directory, payload |-> output.payload \o chunk,
                   footer |-> NoPiece]
    <3>1. /\ output.header = Header /\ output.directory = Directory /\ output.footer = NoPiece
      BY <2>1 DEF OutputInvariant
    <3>2. output = [header |-> output.header, directory |-> output.directory,
                    payload |-> output.payload, footer |-> output.footer]
      BY DEF OutputTypes
    <3>3. output' = [output EXCEPT !.payload = @ \o chunk]
      BY <2>1, <2>2
    <3> QED
      BY <3>1, <3>2, <3>3
  <2>6. \A i \in 1..Len(output'.payload) :
              output'.payload[i] = spool[config.spoolStart + i - 1]
    <3>1. /\ \A i \in 1..done : output.payload[i] = spool[config.spoolStart + i - 1]
          /\ \A i \in 1..count : chunk[i] = spool[config.spoolStart + done + i - 1]
      BY <2>1, <2>2 DEF OutputInvariant
    <3>2. output.payload \in Seq(Cells) /\ output'.payload = output.payload \o chunk
      BY <2>5 DEF OutputTypes
    <3>3. ASSUME NEW i \in 1..done + count
          PROVE  output'.payload[i] = spool[config.spoolStart + i - 1]
      <4>1. CASE i <= done
        BY <4>1, <3>1, <3>2, <2>2, <2>3, <2>4
      <4>2. CASE i > done
        <5>1. i - done \in 1..count
          BY <4>2, <2>3
        <5>2. output'.payload[i] = chunk[i - done]
          BY <5>1, <4>2, <3>2, <2>2, <2>3, <2>4
        <5>3. config.spoolStart + done + (i - done) - 1 = config.spoolStart + i - 1
          BY <2>3
        <5> QED
          BY <5>1, <5>2, <5>3, <3>1
      <4> QED
        BY <4>1, <4>2, <2>3
    <3>4. Len(output'.payload) = done + count
      BY <3>2, <2>2, <2>3, <2>4
    <3> QED
      BY <3>3, <3>4
  <2>7. OutputTypes'
    BY <2>4, <2>5, <1>2 DEF OutputTypes
  <2>8. OutputInvariant'
    <3>1. Len(output'.payload) <= encoder.payloadBytes
      BY <2>2, <2>3, <2>4, <2>5 DEF OutputTypes
    <3>2. /\ output'.header = Header /\ output'.directory = Directory
          /\ output'.footer = NoPiece
      BY <2>5
    <3> QED
      BY <1>0, <2>1, <2>6, <3>1, <3>2, OutputKept
  <2> QED
    BY <1>0, <2>1, <2>7, <2>8, CloseKeeps
<1>6. CASE WriteFooter
  <2>1. /\ pc = "copy" /\ pc' = "account" /\ failure' = failure
        /\ Remaining = 0
        /\ output' = [output EXCEPT !.footer = FooterOf(output)]
    BY <1>6 DEF WriteFooter
  <2>2. output' = [header |-> output.header, directory |-> output.directory,
                   payload |-> output.payload, footer |-> FooterOf(output)]
    BY <2>1 DEF OutputTypes
  <2>3. OutputTypes'
    BY <2>2 DEF OutputTypes
  <2>4. /\ output.header = Header /\ output.directory = Directory
        /\ \A i \in 1..Len(output.payload) :
             output.payload[i] = spool[config.spoolStart + i - 1]
    BY <2>1 DEF OutputInvariant
  <2>5. Len(output.payload) = encoder.payloadBytes
    <3>1. Len(output.payload) \in Nat
      BY DEF OutputTypes
    <3> QED
      BY <2>1, <3>1, <1>2 DEF Remaining
  <2>6. FooterOf(output') = FooterOf(output) /\ FooterOf(output) # NoPiece
    BY <2>2 DEF FooterOf, NoPiece
  <2>7. OutputInvariant'
    BY <1>0, <1>2, <2>1, <2>2, <2>4, <2>5, <2>6, OutputKept
  <2> QED
    BY <1>0, <2>1, <2>3, <2>7, CloseKeeps
<1>7. CASE Account
  <2>1. /\ output.header = Header /\ aggregate.inputBlocks = Len(encoder.records)
        /\ aggregate.originalBytes = encoder.originalSize
    BY <1>7, <1>1 DEF Account, OutputInvariant, AccountInvariant
  <2>2. pc = "account" /\ pc' = "done" /\ failure' = failure /\ output' = output
    BY <1>7, <2>1 DEF Account, Header
  <2>3. OutputTypes'
    BY <2>2 DEF OutputTypes
  <2>4. OutputInvariant'
    BY <1>0, <2>1, <2>2, OutputKept DEF OutputInvariant
  <2> QED
    BY <1>0, <2>2, <2>3, <2>4, CloseKeeps
<1> QED
  BY <1>3, <1>4, <1>5, <1>6, <1>7 DEF FinishStep

(* The inductive step. *)
LEMMA NextKeeps == IInv /\ [Next]_vars => IInv'
<1> SUFFICES ASSUME IInv, [Next]_vars PROVE IInv'
  OBVIOUS
<1>1. CASE Start
  BY <1>1, StartKeeps
<1>2. CASE ReadStep
  BY <1>2, ReadKeeps DEF ReadStep
<1>3. CASE JoinBatch \/ \E t \in Threads : WorkerReturns(t)
  BY <1>3, WorkKeeps
<1>4. CASE EmitOptimizerFailure \/ PushRejected \/ ReadError \/ FinishError
  BY <1>4, ErrorKeeps
<1>5. CASE PushOverOutput \/ SpoolError
  BY <1>5, SpoolFailureKeeps
<1>6. CASE PushBlock
  BY <1>6, PushKeeps
<1>7. CASE FinishStep
  BY <1>7, FinishKeeps
<1>8. CASE SourceGrows
  BY <1>8, GrowKeeps
<1>9. CASE UNCHANGED vars
  <2>1. TypeOK'
    BY <1>9 DEF vars, IInv, TypeOK, CallTypes, ControlTypes, BatchTypes, EncoderTypes,
                SpoolType, OutputTypes
  <2>2. SourceInvariant' /\ BatchInvariant'
    BY <1>9 DEF vars, IInv, SourceInvariant, BatchInvariant, Accepting, Closing
  <2>records. RecordInvariant'
    BY <1>9 DEF vars, IInv, RecordInvariant, Recorded, Tiles, BlockOf, PayloadLength, PayloadCell
  <2>4. LimitInvariant' /\ AccountInvariant'
    BY <1>9 DEF vars, IInv, LimitInvariant, DirectoryBytes, AccountInvariant
  <2>5. OutputInvariant'
    BY <1>9 DEF vars, IInv, OutputInvariant, Accepting, Header, Directory, FooterOf,
                PayloadStart, DirectoryBytes, ArchiveBytes
  <2>6. FailureInvariant'
    BY <1>9 DEF vars, IInv, FailureInvariant, LateFailureIsIo, FirstBadBlockReported
  <2> QED
    BY <2>1, <2>2, <2>records, <2>4, <2>5, <2>6 DEF IInv
<1> QED
  BY <1>1, <1>2, <1>3, <1>4, <1>5, <1>6, <1>7, <1>8, <1>9 DEF Next, Caller, EmitStep, IoError

(* The inductive invariant holds in every reachable state. *)
THEOREM Invariance == Spec => []IInv
<1>1. Init => IInv
  BY InitInvariant
<1>2. IInv /\ [Next]_vars => IInv'
  BY NextKeeps
<1> QED
  BY <1>1, <1>2, PTL DEF Spec

(* Every variable keeps its type. *)
THEOREM TypeCorrect == Spec => []TypeOK
<1>1. IInv => TypeOK
  BY DEF IInv
<1> QED
  BY <1>1, Invariance, PTL

(* Once every batch is emitted only an I/O error can fail the call: the    *)
(* two accountings agree and the archive limit was enforced before.        *)
THEOREM OnlyIoFailsLate == Spec => []LateFailureIsIo
<1>1. IInv => LateFailureIsIo
  BY DEF IInv, FailureInvariant
<1> QED
  BY <1>1, Invariance, PTL

(* A rejected call names the first block that cannot be archived. *)
THEOREM FirstBadBlock == Spec => []FirstBadBlockReported
<1>1. IInv => FirstBadBlockReported
  BY DEF IInv, FailureInvariant
<1> QED
  BY <1>1, Invariance, PTL

(* A directory entry is its record with an absolute payload offset. *)
LEMMA EntryFacts ==
    ASSUME EncoderTypes, NEW i \in 1..Len(encoder.records)
    PROVE  /\ Directory[i].offset = encoder.records[i].offset
           /\ Directory[i].length = encoder.records[i].length
           /\ Directory[i].payloadOffset = PayloadStart + encoder.records[i].payloadOffset
           /\ Directory[i].payloadLength = encoder.records[i].payloadLength
<1>1. Directory[i] = [offset |-> encoder.records[i].offset,
                      length |-> encoder.records[i].length,
                      payloadOffset |-> PayloadStart + encoder.records[i].payloadOffset,
                      payloadLength |-> encoder.records[i].payloadLength]
  BY DirectoryFacts
<1> QED
  BY <1>1

(* Making payload offsets absolute shifts the payload tiling.              *)
LEMMA TilesShift ==
    ASSUME EncoderTypes, NEW end \in Nat,
           Tiles(encoder.records, 0, end, 0, encoder.payloadBytes)
    PROVE  Tiles(Directory, 0, end, PayloadStart, PayloadStart + encoder.payloadBytes)
<1>1. PICK n : n = Len(encoder.records)
  OBVIOUS
<1>2. /\ n \in Nat /\ Len(Directory) = n /\ Directory \in Seq(Records)
      /\ PayloadStart \in Nat /\ encoder.payloadBytes \in Nat
      /\ encoder.records # <<>> <=> n # 0
  BY <1>1, DirectoryFacts, EncoderFacts
<1>3. \A i \in 1..n :
         /\ Directory[i].offset = encoder.records[i].offset
         /\ Directory[i].length = encoder.records[i].length
         /\ Directory[i].payloadOffset = PayloadStart + encoder.records[i].payloadOffset
         /\ Directory[i].payloadLength = encoder.records[i].payloadLength
  BY <1>1, EntryFacts
<1>4. \A i \in 1..n :
         /\ encoder.records[i].payloadOffset \in Nat
         /\ encoder.records[i].payloadLength \in Nat
  BY <1>1, RecordFacts
<1>5. ASSUME NEW i \in 1..n
      PROVE  /\ Directory[i].offset =
                  IF i = 1 THEN 0 ELSE Directory[i-1].offset + Directory[i-1].length
             /\ Directory[i].payloadOffset =
                  IF i = 1 THEN PayloadStart
                           ELSE Directory[i-1].payloadOffset + Directory[i-1].payloadLength
  <2>1. /\ encoder.records[i].offset =
             IF i = 1 THEN 0 ELSE encoder.records[i-1].offset + encoder.records[i-1].length
        /\ encoder.records[i].payloadOffset =
             IF i = 1 THEN 0
                      ELSE encoder.records[i-1].payloadOffset + encoder.records[i-1].payloadLength
    BY <1>1 DEF Tiles
  <2>2. CASE i = 1
    BY <2>1, <2>2, <1>2, <1>3
  <2>3. CASE i # 1
    <3>1. i - 1 \in 1..n
      BY <2>3, <1>2
    <3>2. Directory[i].offset = Directory[i-1].offset + Directory[i-1].length
      BY <2>1, <2>3, <3>1, <1>3
    <3>3. Directory[i].payloadOffset =
            PayloadStart + (encoder.records[i-1].payloadOffset + encoder.records[i-1].payloadLength)
      BY <2>1, <2>3, <1>3
    <3>4. Directory[i-1].payloadOffset + Directory[i-1].payloadLength =
            (PayloadStart + encoder.records[i-1].payloadOffset) + encoder.records[i-1].payloadLength
      BY <3>1, <1>3
    <3> QED
      BY <2>3, <3>1, <3>2, <3>3, <3>4, <1>2, <1>4
  <2> QED
    BY <2>2, <2>3
<1>6. CASE n = 0
  <2>1. end = 0 /\ encoder.payloadBytes = 0 /\ Directory = <<>>
    BY <1>2, <1>6 DEF Tiles
  <2> QED
    BY <2>1, <1>2 DEF Tiles
<1>7. CASE n # 0
  <2>1. /\ encoder.records[n].offset + encoder.records[n].length = end
        /\ encoder.records[n].payloadOffset + encoder.records[n].payloadLength
             = encoder.payloadBytes
    BY <1>1, <1>2, <1>7 DEF Tiles
  <2>2. n \in 1..n /\ Directory # <<>>
    BY <1>2, <1>7
  <2>3. Directory[n].offset + Directory[n].length = end
    BY <2>1, <2>2, <1>3
  <2>4. Directory[n].payloadOffset + Directory[n].payloadLength = PayloadStart + encoder.payloadBytes
    <3>1. /\ Directory[n].payloadOffset = PayloadStart + encoder.records[n].payloadOffset
          /\ Directory[n].payloadLength = encoder.records[n].payloadLength
      BY <2>2, <1>3
    <3>2. encoder.records[n].payloadOffset \in Nat /\ encoder.records[n].payloadLength \in Nat
      BY <2>2, <1>4
    <3>3. /\ PayloadStart \in Nat
          /\ encoder.records[n].payloadOffset + encoder.records[n].payloadLength
               = encoder.payloadBytes
      BY <2>1, <1>2
    <3>4. (PayloadStart + encoder.records[n].payloadOffset) + encoder.records[n].payloadLength
            = PayloadStart + encoder.payloadBytes
      BY <3>2, <3>3
    <3> QED
      BY <3>1, <3>4
  <2> QED
    BY <2>2, <2>3, <2>4, <1>2, <1>5 DEF Tiles
<1> QED
  BY <1>6, <1>7

(* An output that carries a footer is the archive of exactly the bytes     *)
(* read, however the reads, batches and workers interleaved.               *)
LEMMA ExactFromInvariant == IInv => CompleteOutputIsExact
<1> SUFFICES ASSUME CallTypes, BatchTypes, EncoderTypes, OutputTypes, RecordInvariant,
                    LimitInvariant, OutputInvariant, IInv, output.footer # NoPiece
             PROVE  CompleteOutputIsExact
  BY DEF IInv, TypeOK, CompleteOutputIsExact
<1>1. /\ output # NoOutput
      /\ failure \in {"none", "io"}
      /\ output.header = Header /\ output.directory = Directory
      /\ encoder.originalSize = consumed
      /\ Len(output.payload) = encoder.payloadBytes
      /\ output.footer = FooterOf(output)
  BY DEF OutputInvariant, NoOutput, NoPiece
<1>2. /\ \A i \in 1..encoder.payloadBytes :
           output.payload[i] = spool[config.spoolStart + i - 1]
      /\ Tiles(encoder.records, 0, consumed, 0, encoder.payloadBytes)
      /\ MinArchive <= MaxArchive
      /\ consumed <= MaxOutput
  BY <1>1 DEF OutputInvariant, RecordInvariant, LimitInvariant
<1>3. PICK n : n = Len(encoder.records)
  OBVIOUS
<1>4. Len(Directory) = n /\ n \in Nat /\ HeaderBytes + RecordBytes * n = PayloadStart
  BY <1>3, DirectoryFacts, EncoderFacts DEF PayloadStart, DirectoryBytes
<1>5. Tiles(Directory, 0, consumed, PayloadStart, PayloadStart + encoder.payloadBytes)
  <2>1. consumed \in Nat
    BY BatchFacts
  <2> QED
    BY <1>2, <2>1, TilesShift
<1>6. ASSUME NEW i \in 1..n
      PROVE  /\ output.header.originalHash[i] = BlockOf(Directory[i])
             /\ \A j \in 0..Directory[i].payloadLength-1 :
                  PayloadAt(Directory[i].payloadOffset + j) = PayloadCell(BlockOf(Directory[i]), j)
  <2>1. i \in 1..Len(encoder.records) /\ Recorded(i)
    BY <1>3 DEF IInv, RecordInvariant
  <2>2. PICK record : record = encoder.records[i]
    OBVIOUS
  <2>3. /\ record.payloadOffset \in Nat /\ record.payloadLength \in Nat
        /\ PayloadStart \in Nat /\ encoder.payloadBytes \in Nat
    BY <2>1, <2>2, RecordFacts, DirectoryFacts, EncoderFacts
  <2>4. /\ Directory[i].offset = record.offset /\ Directory[i].length = record.length
        /\ Directory[i].payloadOffset = PayloadStart + record.payloadOffset
        /\ Directory[i].payloadLength = record.payloadLength
    BY <2>1, <2>2, EntryFacts
  <2>5. BlockOf(Directory[i]) = BlockOf(record)
    BY <2>4 DEF BlockOf
  <2>6. /\ encoder.restored[i] = BlockOf(record)
        /\ record.payloadOffset + record.payloadLength <= encoder.payloadBytes
        /\ \A j \in 0..record.payloadLength-1 :
             spool[config.spoolStart + record.payloadOffset + j] = PayloadCell(BlockOf(record), j)
    BY <2>1, <2>2 DEF Recorded
  <2>7. ASSUME NEW j \in 0..record.payloadLength-1
        PROVE  PayloadAt(PayloadStart + record.payloadOffset + j) = PayloadCell(BlockOf(record), j)
    <3>1. j \in Nat /\ j < record.payloadLength
      BY <2>3
    <3>2. PICK k : k = record.payloadOffset + j + 1
      OBVIOUS
    <3>3. k \in 1..encoder.payloadBytes
      BY <3>1, <3>2, <2>3, <2>6
    <3>4. PayloadAt(PayloadStart + record.payloadOffset + j) = output.payload[k]
      <4>1. output.header.payloadOffset = PayloadStart
        BY <1>1 DEF Header
      <4>2. (PayloadStart + record.payloadOffset + j) - PayloadStart + 1 = k
        BY <3>1, <3>2, <2>3
      <4> QED
        BY <4>1, <4>2 DEF PayloadAt
    <3>5. output.payload[k] = spool[config.spoolStart + k - 1]
      BY <3>3, <1>2
    <3>6. config.spoolStart + k - 1 = config.spoolStart + record.payloadOffset + j
      BY <3>1, <3>2, <2>3, CallFacts
    <3> QED
      BY <3>4, <3>5, <3>6, <2>6
  <2>8. output.header.originalHash[i] = BlockOf(record)
    BY <1>1, <2>6 DEF Header
  <2> QED
    BY <2>4, <2>5, <2>7, <2>8
<1>7. /\ output.header.originalSize = consumed
      /\ output.header.blockCount = n
      /\ output.footer.archiveBytes = PayloadStart + encoder.payloadBytes + FooterBytes
  BY <1>1, <1>3 DEF Header, FooterOf, ArchiveBytes
<1>8. output.footer.archiveBytes <= MaxArchive
  <2>1. /\ HeaderBytes \in Nat /\ FooterBytes \in Nat /\ MaxArchive \in Nat
        /\ DirectoryBytes \in Nat /\ encoder.payloadBytes \in Nat
    BY DirectoryFacts, EncoderFacts, ConstantFacts
  <2>2. CASE encoder.records = <<>>
    <3>1. encoder.payloadBytes = 0
      BY <2>2 DEF RecordInvariant
    <3>2. DirectoryBytes = 0
      BY <2>2, ConstantFacts DEF DirectoryBytes
    <3> QED
      BY <3>1, <3>2, <2>1, <1>2, <1>7 DEF PayloadStart, MinArchive
  <2>3. CASE encoder.records # <<>>
    <3>1. ~(ArchiveBytes > MaxArchive) /\ ArchiveBytes \in Nat
      BY <2>3, ArchiveFits
    <3> QED
      BY <3>1, <2>1, <1>7 DEF ArchiveBytes
  <2> QED
    BY <2>2, <2>3
<1> QED
  BY <1>1, <1>2, <1>4, <1>5, <1>6, <1>7, <1>8 DEF CompleteOutputIsExact

(* A completed call wrote exactly the archive of what it read, for every   *)
(* input, batch size, limit and order in which the workers finished.       *)
THEOREM ExactOutput == Spec => []CompleteOutputIsExact
BY ExactFromInvariant, Invariance, PTL

(* No step changes a spool cell before the spool's start or in a recorded  *)
(* payload, a failed or rejected push included.                            *)
LEMMA SpoolStep ==
    ASSUME IInv, [Next]_vars, NEW i \in 0..SpoolCells-1,
           i < config.spoolStart + encoder.payloadBytes
    PROVE  spool'[i] = spool[i]
<1>1. CASE SpoolError \/ PushOverOutput \/ PushBlock
  <2>1. pc = "emit" /\ Encodable /\ PrepareFailure = "none"
    BY <1>1 DEF SpoolError, PushOverOutput, PushBlock
  <2>2. PayloadLength(Emitted) \in Nat
    BY <2>1, AcceptedFacts
  <2>3. PayloadLength(Emitted) \in 0..PayloadLength(Emitted)
    BY <2>2
  <2>4. PICK count \in 0..PayloadLength(Emitted) : spool' = SpoolWith(count)
    <3>1. CASE SpoolError
      BY <3>1 DEF SpoolError
    <3>2. CASE PushOverOutput \/ PushBlock
      <4>1. spool' = SpoolWith(PayloadLength(Emitted))
        BY <3>2 DEF PushOverOutput, PushBlock
      <4> QED
        BY <4>1, <2>3
    <3> QED
      BY <1>1, <3>1, <3>2
  <2>5. i \in Nat
    BY ConstantFacts
  <2> QED
    BY <2>1, <2>4, <2>5, SpoolWritten
<1>2. CASE ~(SpoolError \/ PushOverOutput \/ PushBlock)
  <2>1. spool' = spool
    BY <1>2
    DEF Next, Caller, Start, ReadStep, ReadSome, ReadShortBlock, ReadNothing, JoinBatch, EmitStep,
        EmitOptimizerFailure, PushRejected, FinishStep, FinishEmpty, WriteDirectory, CopyChunk,
        WriteFooter, Account, IoError, ReadError, FinishError, SourceGrows, WorkerReturns,
        encodeVars, vars
  <2> QED
    BY <2>1
<1> QED
  BY <1>1, <1>2

(* No step changes a spool cell a record already describes.                *)
THEOREM SpoolIsAppendOnly == Spec => SpoolKeepsRecorded
<1>1. IInv /\ [Next]_vars =>
        [\A i \in 0..SpoolCells-1 :
            i < config.spoolStart + encoder.payloadBytes => spool'[i] = spool[i]]_vars
  BY SpoolStep
<1> QED
  BY <1>1, Invariance, PTL DEF Spec, SpoolKeepsRecorded

--------------------------------------------------------------------------------
(* Two more theorems about BlockStream, from its inductive invariant:      *)
(* where an unchanging input is cut, and how much of it is in memory.      *)

(* A block fills its buffer or ends the input. *)
WholeOrLast(block) ==
    block.length = config.blockBytes \/ block.offset + block.length = available

BoundaryInvariant ==
    /\ appended = 0 =>
         /\ \A i \in 1..Len(batch) : WholeOrLast(batch[i])
         /\ \A i \in 1..Len(encoder.records) : WholeOrLast(encoder.records[i])
    /\ CanonicalBoundaries

(* The batch never outgrows the thread count, and the blocks up to the     *)
(* i-th span at most i buffers.                                            *)
ResidencyInvariant ==
    /\ Len(batch) <= config.threads
    /\ pc = "read" \/ filled > 0 => Len(batch) < config.threads
    /\ \A i \in 1..Len(batch) :
         batch[i].offset + batch[i].length - batch[1].offset <= i * config.blockBytes
    /\ aggregate.maximumInflight <= config.threads * config.blockBytes
--------------------------------------------------------------------------------
(* How a step can change the batch and the records. *)

(* A block joins the batch, whole or at the end of the input. *)
Joins(block) ==
    /\ pc = "read"
    /\ batch' = Append(batch, block)
    /\ block \in Blocks
    /\ block.length > 0 /\ block.length <= config.blockBytes
    /\ WholeOrLast(block)
    /\ block.offset = consumed - filled
    /\ filled' = 0
    /\ IF Len(batch) + 1 = config.threads THEN pc' = "work" ELSE pc' = pc
    /\ UNCHANGED <<config, available, appended, encoder, aggregate>>

(* Neither changes; reading goes on, or begins with an empty batch. *)
Quiet ==
    /\ UNCHANGED <<config, batch, aggregate>>
    /\ encoder'.records = encoder.records
    /\ UNCHANGED <<available, appended>> \/ appended' # 0
    /\ pc' = "read" => pc = "read" \/ (batch = <<>> /\ config.threads \in Threads)
    /\ filled' = filled \/ pc = "read"

(* A read either leaves the batch alone or adds such a block. *)
LEMMA ReadJoins ==
    ASSUME IInv, ReadSome \/ ReadShortBlock
    PROVE  \/ Quiet
           \/ \E block \in Blocks : Joins(block)
<1>1. /\ CallTypes /\ BatchTypes /\ SourceInvariant /\ FailureInvariant
  BY DEF IInv, TypeOK
<1>2. /\ consumed \in Nat /\ filled \in Nat /\ available \in Nat /\ config.blockBytes \in Nat
      /\ Len(batch) \in Nat
  BY <1>1, BatchFacts, CallFacts
<1>3. /\ consumed <= available /\ filled <= consumed
      /\ filled < config.blockBytes \/ filled = 0
  BY <1>1 DEF SourceInvariant
<1>4. pc = "read" /\ UNCHANGED <<config, available, appended, encoder, aggregate>>
  BY DEF ReadSome, ReadShortBlock, callVars, sourceVars, encodeVars
<1>5. config.blockBytes > 0
  BY <1>1, <1>4 DEF FailureInvariant, Running
<1>6. ASSUME NEW end \in Nat, NEW length \in Nat \ {0}, TakeBlock(end, length),
             length <= config.blockBytes, end - length = consumed - filled,
             length = config.blockBytes \/ end = available
      PROVE  \E block \in Blocks : Joins(block)
  <2>1. end - length \in Nat
    BY <1>2, <1>3, <1>6
  <2>2. PICK block : block = [offset |-> end - length, length |-> length]
    OBVIOUS
  <2>3. block \in Blocks /\ block.offset = end - length /\ block.length = length
    BY <2>1, <2>2 DEF Blocks
  <2>4. WholeOrLast(block)
    <3>1. block.offset + block.length = end
      BY <2>1, <2>3
    <3> QED
      BY <3>1, <2>3, <1>6 DEF WholeOrLast
  <2>5. batch' = Append(batch, block) /\ filled' = 0
    BY <1>6, <2>2 DEF TakeBlock, Extent
  <2>6. IF Len(batch) + 1 = config.threads THEN pc' = "work" ELSE pc' = pc
    BY <1>6 DEF TakeBlock, BatchLimit
  <2>7. block.length > 0 /\ block.length <= config.blockBytes /\ block.offset = consumed - filled
    BY <2>3, <1>6
  <2> QED
    BY <2>3, <2>4, <2>5, <2>6, <2>7, <1>4 DEF Joins
<1>7. CASE ReadSome
  <2>1. PICK n \in 1..Least(config.blockBytes - filled, available - consumed) :
          /\ consumed' = consumed + n
          /\ IF BufferOpen(filled + n)
             THEN filled' = filled + n /\ UNCHANGED <<batch, pc, worker>>
             ELSE TakeBlock(consumed + n, filled + n)
    BY <1>7 DEF ReadSome
  <2>2. n \in Nat \ {0} /\ filled + n <= config.blockBytes
    <3>1. config.blockBytes - filled \in Nat /\ available - consumed \in Nat
      BY <1>2, <1>3, <1>5
    <3>2. /\ Least(config.blockBytes - filled, available - consumed) \in Nat
          /\ Least(config.blockBytes - filled, available - consumed) <= config.blockBytes - filled
      BY <3>1 DEF Least
    <3>3. n \in Nat \ {0} /\ n <= config.blockBytes - filled
      BY <3>1, <3>2
    <3> QED
      BY <3>3, <1>2
  <2>3. CASE BufferOpen(filled + n)
    BY <2>1, <2>3, <1>4 DEF Quiet
  <2>4. CASE ~BufferOpen(filled + n)
    <3>1. TakeBlock(consumed + n, filled + n)
      BY <2>1, <2>4
    <3>2. filled + n = config.blockBytes
      BY <2>2, <2>4, <1>2 DEF BufferOpen
    <3>3. /\ consumed + n \in Nat /\ filled + n \in Nat \ {0}
          /\ (consumed + n) - (filled + n) = consumed - filled
      BY <2>2, <1>2
    <3>4. filled + n <= config.blockBytes
      BY <2>2
    <3> QED
      BY <3>1, <3>2, <3>3, <3>4, <1>6
  <2> QED
    BY <2>3, <2>4
<1>8. CASE ReadShortBlock
  <2>1. TakeBlock(consumed, filled) /\ filled > 0 /\ consumed = available
    BY <1>8 DEF ReadShortBlock
  <2>2. filled \in Nat \ {0} /\ filled <= config.blockBytes
    BY <2>1, <1>2, <1>3
  <2> QED
    BY <2>1, <2>2, <1>2, <1>6
<1> QED
  BY <1>7, <1>8

(* Every step is quiet, adds a block or pushes one. *)
LEMMA StepKinds ==
    ASSUME IInv, [Next]_vars
    PROVE  \/ Quiet
           \/ \E block \in Blocks : Joins(block)
           \/ PushBlock
<1>1. CASE ReadSome \/ ReadShortBlock
  BY <1>1, ReadJoins
<1>2. CASE Start
  <2>1. pc' = "read" => config.threads \in Threads
    BY <1>2 DEF Start, StartFailure
  <2>2. batch = <<>>
    BY <1>2 DEF IInv, SourceInvariant, Start
  <2> QED
    BY <1>2, <2>1, <2>2 DEF Quiet, Start, callVars, sourceVars, readVars, encodeVars
<1>3. CASE ReadNothing \/ JoinBatch \/ (\E t \in Threads : WorkerReturns(t))
  BY <1>3 DEF Quiet, ReadNothing, JoinBatch, WorkerReturns, callVars, sourceVars,
              readVars, encodeVars
<1>4. CASE EmitOptimizerFailure \/ PushRejected \/ IoError
  BY <1>4 DEF Quiet, EmitOptimizerFailure, PushRejected, IoError, ReadError, SpoolError,
              FinishError, Fail, callVars, sourceVars, readVars, encodeVars
<1>5. CASE PushOverOutput
  <2>1. encoder' = [encoder EXCEPT !.originalSize = NewOriginalSize]
        /\ UNCHANGED <<config, available, appended, batch, aggregate, filled>>
        /\ pc' = "failed"
    BY <1>5 DEF PushOverOutput, Fail, callVars, sourceVars, readVars
  <2>2. encoder'.records = encoder.records
    BY <2>1 DEF IInv, TypeOK, EncoderTypes
  <2> QED
    BY <2>1, <2>2 DEF Quiet
<1>6. CASE FinishStep
  BY <1>6 DEF Quiet, FinishStep, FinishEmpty, WriteDirectory, CopyChunk, WriteFooter, Account,
              Fail, callVars, sourceVars, readVars, encodeVars
<1>7. CASE SourceGrows
  <2>1. appended' # 0
    BY <1>7 DEF SourceGrows, IInv, TypeOK, CallTypes
  <2> QED
    BY <1>7, <2>1 DEF Quiet, SourceGrows, callVars, readVars, encodeVars
<1>8. CASE UNCHANGED vars
  BY <1>8 DEF Quiet, vars
<1> QED
  BY <1>1, <1>2, <1>3, <1>4, <1>5, <1>6, <1>7, <1>8
     DEF Next, Caller, ReadStep, EmitStep

(* What PushBlock does to the batch, the records and the accounting. *)
LEMMA PushFacts ==
    ASSUME IInv, PushBlock
    PROVE  /\ UNCHANGED <<config, available, appended>>
           /\ encoder'.records = Append(encoder.records,
                  [offset |-> encoder.originalSize, length |-> Emitted.length,
                   payloadOffset |-> encoder.payloadBytes,
                   payloadLength |-> PayloadLength(Emitted)])
           /\ aggregate'.maximumInflight = Most(aggregate.maximumInflight, Inflight)
           /\ \/ batch' = batch /\ pc' = pc
              \/ batch' = <<>> /\ pc' = "read"
           /\ filled' = filled /\ pc = "emit"
           /\ next \in 1..Len(batch)
           /\ Emitted.offset = encoder.originalSize
           /\ Emitted.offset \in Nat /\ Emitted.length \in Nat \ {0}
           /\ Emitted.offset + Emitted.length <= available
           /\ failure = "none"
<1>1. pc = "emit" /\ Encodable /\ PrepareFailure = "none"
  BY DEF PushBlock
<1>2. /\ next \in 1..Len(batch) /\ Emitted.offset = encoder.originalSize
      /\ Emitted.offset \in Nat /\ Emitted.length \in Nat \ {0}
      /\ Emitted.offset + Emitted.length <= consumed
  BY <1>1, AcceptedFacts
<1>3. consumed \in Nat /\ available \in Nat /\ consumed <= available
  <2>1. CallTypes /\ BatchTypes /\ SourceInvariant
    BY DEF IInv, TypeOK
  <2> QED
    BY <2>1, CallFacts, BatchFacts DEF SourceInvariant
<1>4. Emitted.offset + Emitted.length <= available
  BY <1>2, <1>3
<1>5. failure = "none"
  BY <1>1 DEF IInv, FailureInvariant, Running
<1>6. /\ UNCHANGED <<config, available, appended>>
      /\ encoder'.records = Append(encoder.records,
             [offset |-> encoder.originalSize, length |-> Emitted.length,
              payloadOffset |-> encoder.payloadBytes,
              payloadLength |-> PayloadLength(Emitted)])
      /\ aggregate'.maximumInflight = Most(aggregate.maximumInflight, Inflight)
      /\ filled' = filled
  BY DEF PushBlock, callVars, sourceVars
<1>7. \/ batch' = batch /\ pc' = pc
      \/ batch' = <<>> /\ pc' = "read"
  BY DEF PushBlock
<1> QED
  BY <1>1, <1>2, <1>4, <1>5, <1>6, <1>7

--------------------------------------------------------------------------------
(* The directory's next record continues a full block of the last one. *)
LEMMA PushKeepsBoundaries ==
    ASSUME IInv, BoundaryInvariant, PushBlock
    PROVE  BoundaryInvariant'
<1> DEFINE n == Len(encoder.records)
<1>1. /\ BatchTypes /\ EncoderTypes /\ CallTypes /\ RecordInvariant
  BY DEF IInv, TypeOK
<1>r. PICK new : new = [offset |-> encoder.originalSize, length |-> Emitted.length,
                        payloadOffset |-> encoder.payloadBytes,
                        payloadLength |-> PayloadLength(Emitted)]
  OBVIOUS
<1>2. /\ UNCHANGED <<config, available, appended>>
      /\ encoder'.records = Append(encoder.records, new)
      /\ new.offset = Emitted.offset /\ new.length = Emitted.length
      /\ Emitted.offset = encoder.originalSize
      /\ Emitted.offset \in Nat /\ Emitted.length \in Nat \ {0}
      /\ Emitted.offset + Emitted.length <= available
      /\ batch' = batch \/ batch' = <<>>
      /\ next \in 1..Len(batch) /\ failure = "none"
  BY <1>r, PushFacts
<1>3. /\ n \in Nat /\ available \in Nat /\ encoder.records \in Seq(Records)
      /\ n # 0 <=> encoder.records # <<>>
  BY <1>1, EncoderFacts, CallFacts DEF EncoderTypes
<1>4. /\ Len(encoder'.records) = n + 1
      /\ \A i \in 1..n : encoder'.records[i] = encoder.records[i]
      /\ encoder'.records[n+1] = new
  BY <1>2, <1>3
<1> HIDE DEF n
<1>5. SUFFICES ASSUME appended = 0 PROVE BoundaryInvariant'
  BY <1>2 DEF BoundaryInvariant, CanonicalBoundaries
<1>6. /\ \A i \in 1..Len(batch) : WholeOrLast(batch[i])
      /\ \A i \in 1..n : WholeOrLast(encoder.records[i])
      /\ \A i \in 1..n-1 : encoder.records[i].length = config.blockBytes
  BY <1>5 DEF BoundaryInvariant, CanonicalBoundaries, n
<1>7. WholeOrLast(new)
  <2>1. WholeOrLast(Emitted)
    BY <1>2, <1>6 DEF Emitted
  <2> QED
    BY <2>1, <1>2 DEF WholeOrLast
<1>8. n # 0 => encoder.records[n].length = config.blockBytes
  <2> SUFFICES ASSUME n # 0 PROVE encoder.records[n].length = config.blockBytes
    OBVIOUS
  <2>1. n \in 1..n
    BY <1>3
  <2>2. encoder.records[n].offset + encoder.records[n].length = encoder.originalSize
    BY <1>1, <1>2, <1>3 DEF RecordInvariant, Tiles, n
  <2>3. WholeOrLast(encoder.records[n])
    BY <2>1, <1>6
  <2>4. encoder.originalSize # available
    BY <1>2, <1>3
  <2> QED
    BY <2>2, <2>3, <2>4 DEF WholeOrLast
<1>9. \A i \in 1..n : encoder.records[i].length = config.blockBytes
  <2> TAKE i \in 1..n
  <2>1. CASE i = n
    BY <2>1, <1>3, <1>8
  <2>2. CASE i # n
    BY <2>2, <1>3, <1>6
  <2> QED
    BY <2>1, <2>2
<1>10. CanonicalBoundaries'
  <2>1. \A i \in 1..n : encoder'.records[i].length = config'.blockBytes
    BY <1>2, <1>4, <1>9
  <2>2. 1..(Len(encoder'.records) - 1) = 1..n
    BY <1>3, <1>4
  <2> QED
    BY <2>1, <2>2 DEF CanonicalBoundaries
<1>11. \A i \in 1..n+1 : WholeOrLast(encoder'.records[i])
  <2> TAKE i \in 1..n+1
  <2>1. CASE i = n + 1
    BY <2>1, <1>4, <1>7
  <2>2. CASE i # n + 1
    <3>1. i \in 1..n
      BY <2>2, <1>3
    <3> QED
      BY <3>1, <1>4, <1>6
  <2> QED
    BY <2>1, <2>2
<1>12. \A i \in 1..Len(batch') : WholeOrLast(batch'[i])
  <2>1. CASE batch' = batch
    BY <2>1, <1>6
  <2>2. CASE batch' = <<>>
    BY <2>2
  <2> QED
    BY <2>1, <2>2, <1>2
<1>13. config'.blockBytes = config.blockBytes /\ available' = available
  BY <1>2
<1>14. \A i \in 1..Len(encoder'.records) :
          \/ encoder'.records[i].length = config'.blockBytes
          \/ encoder'.records[i].offset + encoder'.records[i].length = available'
  BY <1>4, <1>11, <1>13 DEF WholeOrLast
<1>15. \A i \in 1..Len(batch') :
          \/ batch'[i].length = config'.blockBytes
          \/ batch'[i].offset + batch'[i].length = available'
  BY <1>12, <1>13 DEF WholeOrLast
<1> QED
  BY <1>10, <1>14, <1>15 DEF BoundaryInvariant, WholeOrLast

(* A block that joins the batch is whole or the input's last. *)
LEMMA JoinKeepsBoundaries ==
    ASSUME IInv, BoundaryInvariant, NEW block \in Blocks, Joins(block)
    PROVE  BoundaryInvariant'
<1>1. /\ UNCHANGED <<config, available, appended, encoder>>
      /\ batch' = Append(batch, block) /\ WholeOrLast(block)
  BY DEF Joins
<1>2. batch \in Seq(Blocks) /\ Len(batch) \in Nat
  BY BatchFacts DEF IInv, TypeOK, BatchTypes
<1>3. SUFFICES ASSUME appended = 0 PROVE BoundaryInvariant'
  BY <1>1 DEF BoundaryInvariant, CanonicalBoundaries
<1>4. /\ \A i \in 1..Len(batch) : WholeOrLast(batch[i])
      /\ \A i \in 1..Len(encoder.records) : WholeOrLast(encoder.records[i])
      /\ CanonicalBoundaries
  BY <1>3 DEF BoundaryInvariant
<1>5. \A i \in 1..Len(batch') : WholeOrLast(batch'[i])
  <2>1. /\ Len(batch') = Len(batch) + 1 /\ batch'[Len(batch) + 1] = block
        /\ \A i \in 1..Len(batch) : batch'[i] = batch[i]
    BY <1>1, <1>2
  <2> TAKE i \in 1..Len(batch')
  <2>2. i = Len(batch) + 1 \/ i \in 1..Len(batch)
    BY <2>1, <1>2
  <2> QED
    BY <2>1, <2>2, <1>1, <1>4
<1>6. /\ \A i \in 1..Len(batch') : WholeOrLast(batch[i])' <=> WholeOrLast(batch'[i])
      /\ CanonicalBoundaries'
      /\ \A i \in 1..Len(encoder'.records) : WholeOrLast(encoder.records[i])'
  BY <1>1, <1>4 DEF WholeOrLast, CanonicalBoundaries
<1> QED
  BY <1>5, <1>6 DEF BoundaryInvariant

(* An unchanging input is cut at the block size whatever its reads return: *)
(* read_block of mathsvg-stream.                                           *)
THEOREM CanonicalCuts == Spec => []CanonicalBoundaries
<1>1. Init => BoundaryInvariant
  BY DEF Init, BoundaryInvariant, CanonicalBoundaries
<1>2. IInv /\ BoundaryInvariant /\ [Next]_vars => BoundaryInvariant'
  <2> SUFFICES ASSUME IInv, BoundaryInvariant, [Next]_vars
               PROVE  BoundaryInvariant'
    OBVIOUS
  <2>1. CASE Quiet
    <3>1. CASE appended' # 0
      BY <3>1 DEF BoundaryInvariant, CanonicalBoundaries
    <3>2. CASE UNCHANGED <<available, appended>>
      <4>1. UNCHANGED <<config, batch>> /\ encoder'.records = encoder.records
        BY <2>1 DEF Quiet
      <4> QED
        BY <3>2, <4>1 DEF BoundaryInvariant, CanonicalBoundaries, WholeOrLast
    <3> QED
      BY <2>1, <3>1, <3>2 DEF Quiet
  <2>2. CASE \E block \in Blocks : Joins(block)
    BY <2>2, JoinKeepsBoundaries
  <2>3. CASE PushBlock
    BY <2>3, PushKeepsBoundaries
  <2> QED
    BY <2>1, <2>2, <2>3, StepKinds
<1>3. BoundaryInvariant => CanonicalBoundaries
  BY DEF BoundaryInvariant
<1> QED
  BY <1>1, <1>2, <1>3, Invariance, PTL DEF Spec
--------------------------------------------------------------------------------
(* A larger count of buffers of the same size is no smaller. *)
LEMMA BuffersGrow ==
    ASSUME NEW m \in Nat, NEW n \in Nat, NEW b \in Nat, m <= n
    PROVE  m * b <= n * b
<1>1. PICK d \in Nat : n = m + d
  <2>1. n - m \in Nat /\ n = m + (n - m)
    OBVIOUS
  <2> QED
    BY <2>1
<1>2. (m + d) * b = m * b + d * b
  OBVIOUS
<1>3. m * b \in Nat /\ d * b \in Nat
  BY <1>1, ProductNat
<1> QED
  BY <1>1, <1>2, <1>3

(* One more buffer. *)
LEMMA OneBuffer ==
    ASSUME NEW n \in Nat, NEW b \in Nat
    PROVE  (n + 1) * b = n * b + b
OBVIOUS

(* A span that grows by at most b stays within one more b. *)
LEMMA SpanGrows ==
    ASSUME NEW end \in Nat, NEW length \in Nat, NEW start \in Nat, NEW m \in Nat,
           NEW b \in Nat, end - start <= m, length <= b
    PROVE  end + length - start <= m + b
OBVIOUS

(* The call's own arguments are natural numbers. *)
LEMMA ArgumentFacts ==
    ASSUME IInv
    PROVE  /\ config.threads \in Nat /\ config.blockBytes \in Nat
           /\ config.threads * config.blockBytes \in Nat
           /\ Len(batch) \in Nat /\ batch \in Seq(Blocks)
           /\ consumed \in Nat /\ filled \in Nat
           /\ aggregate.maximumInflight \in Nat
<1>1. CallTypes /\ BatchTypes /\ EncoderTypes
  BY DEF IInv, TypeOK
<1>2. config.threads \in Nat /\ config.blockBytes \in Nat
  BY <1>1, BoundsAssumption DEF CallTypes
<1>3. aggregate.maximumInflight \in Nat
  BY <1>1 DEF EncoderTypes
<1>4. config.threads * config.blockBytes \in Nat
  BY <1>2, ProductNat
<1> QED
  BY <1>1, <1>2, <1>3, <1>4, BatchFacts DEF BatchTypes

(* The bytes in flight fit the call's buffers whenever a batch is held. *)
LEMMA InflightBound ==
    ASSUME IInv, ResidencyInvariant, batch # <<>>
    PROVE  Inflight \in Int /\ Inflight <= config.threads * config.blockBytes
<1>1. /\ config.threads \in Nat /\ config.blockBytes \in Nat
      /\ config.threads * config.blockBytes \in Nat
      /\ Len(batch) \in Nat /\ batch \in Seq(Blocks)
  BY ArgumentFacts
<1>2. Len(batch) \in 1..Len(batch) /\ 1 \in 1..Len(batch)
  BY <1>1
<1>3. BatchTypes
  BY DEF IInv, TypeOK
<1>4. /\ batch[Len(batch)].offset \in Nat /\ batch[Len(batch)].length \in Nat
      /\ batch[1].offset \in Nat
  BY <1>2, <1>3, BlockFacts
<1>5. Inflight \in Int
  BY <1>4 DEF Inflight
<1>6. Inflight <= Len(batch) * config.blockBytes
  BY <1>2 DEF ResidencyInvariant, Inflight
<1>7. Len(batch) <= config.threads
  BY DEF ResidencyInvariant
<1>8. /\ Len(batch) * config.blockBytes <= config.threads * config.blockBytes
      /\ Len(batch) * config.blockBytes \in Nat
  BY <1>1, <1>7, BuffersGrow, ProductNat
<1> QED
  BY <1>1, <1>5, <1>6, <1>8

(* A block that joins the batch takes the next thread's place. *)
LEMMA JoinKeepsResidency ==
    ASSUME IInv, ResidencyInvariant, NEW block \in Blocks, Joins(block)
    PROVE  ResidencyInvariant'
<1>1. /\ UNCHANGED <<config, aggregate>>
      /\ batch' = Append(batch, block) /\ filled' = 0 /\ pc = "read"
      /\ IF Len(batch) + 1 = config.threads THEN pc' = "work" ELSE pc' = pc
      /\ block.length <= config.blockBytes /\ block.offset = consumed - filled
  BY DEF Joins
<1>2. /\ config.threads \in Nat /\ config.blockBytes \in Nat
      /\ Len(batch) \in Nat /\ batch \in Seq(Blocks)
      /\ consumed \in Nat /\ filled \in Nat
  BY ArgumentFacts
<1>3. Len(batch) < config.threads
  BY <1>1 DEF ResidencyInvariant
<1>4. /\ Len(batch') = Len(batch) + 1 /\ batch'[Len(batch) + 1] = block
      /\ \A i \in 1..Len(batch) : batch'[i] = batch[i]
  BY <1>1, <1>2
<1>5. Len(batch') <= config'.threads
  BY <1>1, <1>2, <1>3, <1>4
<1>6. pc' = "read" \/ filled' > 0 => Len(batch') < config'.threads
  BY <1>1, <1>2, <1>3, <1>4
<1>7. block.offset \in Nat /\ block.length \in Nat
  BY DEF Blocks
<1>8. ASSUME NEW i \in 1..Len(batch')
      PROVE  batch'[i].offset + batch'[i].length - batch'[1].offset <= i * config.blockBytes
  <2>1. CASE i \in 1..Len(batch)
    <3>1. 1 \in 1..Len(batch)
      BY <2>1, <1>2
    <3>2. batch'[i] = batch[i] /\ batch'[1] = batch[1]
      BY <2>1, <3>1, <1>4
    <3> QED
      BY <2>1, <3>2 DEF ResidencyInvariant
  <2>2. CASE i = Len(batch) + 1 /\ Len(batch) = 0
    <3>1. batch'[i] = block /\ batch'[1] = block /\ i = 1
      BY <2>2, <1>4
    <3>2. 1 * config.blockBytes = config.blockBytes
      BY <1>2
    <3> QED
      BY <3>1, <3>2, <1>1, <1>2, <1>7
  <2>3. CASE i = Len(batch) + 1 /\ Len(batch) # 0
    <3>1. Len(batch) \in 1..Len(batch) /\ 1 \in 1..Len(batch) /\ batch # <<>>
      BY <2>3, <1>2
    <3>2. batch'[i] = block /\ batch'[1] = batch[1]
      BY <2>3, <3>1, <1>4
    <3>3. BatchTypes /\ BatchInvariant
      BY DEF IInv, TypeOK
    <3>4. /\ batch[Len(batch)].offset \in Nat /\ batch[Len(batch)].length \in Nat
          /\ batch[1].offset \in Nat
      BY <3>1, <3>3, BlockFacts
    <3>5. block.offset = batch[Len(batch)].offset + batch[Len(batch)].length
      BY <3>1, <3>3, <1>1 DEF BatchInvariant
    <3>6. batch[Len(batch)].offset + batch[Len(batch)].length - batch[1].offset
            <= Len(batch) * config.blockBytes
      BY <3>1 DEF ResidencyInvariant
    <3>7. /\ i * config.blockBytes = Len(batch) * config.blockBytes + config.blockBytes
          /\ Len(batch) * config.blockBytes \in Nat
      BY <2>3, <1>2, OneBuffer, ProductNat
    <3>8. block.offset - batch[1].offset <= Len(batch) * config.blockBytes
      BY <3>4, <3>5, <3>6, <3>7, <1>7
    <3>9. block.offset + block.length - batch[1].offset
            <= Len(batch) * config.blockBytes + config.blockBytes
      BY <3>4, <3>7, <3>8, <1>1, <1>2, <1>7, SpanGrows
    <3> QED
      BY <3>2, <3>7, <3>9
  <2> QED
    BY <2>1, <2>2, <2>3, <1>2, <1>4
<1>9. \A i \in 1..Len(batch') :
          batch'[i].offset + batch'[i].length - batch'[1].offset <= i * config'.blockBytes
  BY <1>1, <1>8
<1>10. aggregate'.maximumInflight <= config'.threads * config'.blockBytes
  BY <1>1 DEF ResidencyInvariant
<1> QED
  BY <1>5, <1>6, <1>9, <1>10 DEF ResidencyInvariant

(* The accounting of a pushed block stays below the call's buffers. *)
LEMMA PushKeepsResidency ==
    ASSUME IInv, ResidencyInvariant, PushBlock
    PROVE  ResidencyInvariant'
<1>1. /\ config' = config /\ filled' = filled /\ pc = "emit"
      /\ aggregate'.maximumInflight = Most(aggregate.maximumInflight, Inflight)
      /\ next \in 1..Len(batch)
      /\ (batch' = batch /\ pc' = pc) \/ (batch' = <<>> /\ pc' = "read")
  BY PushFacts
<1>2. /\ config.threads \in Nat /\ config.blockBytes \in Nat
      /\ config.threads * config.blockBytes \in Nat
      /\ Len(batch) \in Nat /\ aggregate.maximumInflight \in Nat
  BY ArgumentFacts
<1>3. batch # <<>>
  BY <1>1, <1>2
<1>4. Inflight \in Int /\ Inflight <= config.threads * config.blockBytes
  BY <1>3, InflightBound
<1>5. aggregate.maximumInflight <= config.threads * config.blockBytes
  BY DEF ResidencyInvariant
<1>6. aggregate'.maximumInflight <= config.threads * config.blockBytes
  BY <1>1, <1>2, <1>4, <1>5 DEF Most
<1>7. config.threads > 0
  BY <1>1, <1>2 DEF IInv, FailureInvariant, Running, Threads
<1>8. CASE batch' = batch /\ pc' = pc
  <2>1. pc' # "read"
    BY <1>1, <1>8
  <2> QED
    BY <1>1, <1>6, <1>8, <2>1 DEF ResidencyInvariant
<1>9. CASE batch' = <<>>
  <2>1. Len(batch') = 0 /\ 1..Len(batch') = {}
    BY <1>9
  <2> QED
    BY <1>1, <1>2, <1>6, <1>7, <2>1 DEF ResidencyInvariant
<1> QED
  BY <1>1, <1>8, <1>9

(* "At most `threads` source blocks ... are live concurrently", for every  *)
(* thread count, block size and input: the batch loop of mathsvg-stream    *)
(* and the maximum its Aggregate reports.                                  *)
THEOREM Residency == Spec => []BoundedResidency
<1>1. Init => ResidencyInvariant
  <2> SUFFICES ASSUME Init PROVE ResidencyInvariant
    OBVIOUS
  <2>1. IInv
    BY InitInvariant
  <2>2. config.threads \in Nat /\ config.threads * config.blockBytes \in Nat
    BY <2>1, ArgumentFacts
  <2>3. /\ batch = <<>> /\ pc = "start" /\ filled = 0
        /\ aggregate.maximumInflight = 0
    BY DEF Init
  <2> QED
    BY <2>2, <2>3 DEF ResidencyInvariant
<1>2. IInv /\ ResidencyInvariant /\ [Next]_vars => ResidencyInvariant'
  <2> SUFFICES ASSUME IInv, ResidencyInvariant, [Next]_vars
               PROVE  ResidencyInvariant'
    OBVIOUS
  <2>1. CASE Quiet
    <3>1. UNCHANGED <<config, batch, aggregate>>
      BY <2>1 DEF Quiet
    <3>2. config.threads \in Nat /\ Len(batch) \in Nat
      BY ArgumentFacts
    <3>3. (pc' = "read" \/ filled' > 0) => Len(batch) < config.threads
      <4>1. CASE pc = "read" \/ filled > 0
        BY <4>1 DEF ResidencyInvariant
      <4>2. CASE batch = <<>> /\ config.threads \in Threads
        BY <4>2, <3>2 DEF Threads
      <4> QED
        BY <4>1, <4>2, <2>1 DEF Quiet
    <3> QED
      BY <3>1, <3>3 DEF ResidencyInvariant
  <2>2. CASE \E block \in Blocks : Joins(block)
    BY <2>2, JoinKeepsResidency
  <2>3. CASE PushBlock
    BY <2>3, PushKeepsResidency
  <2> QED
    BY <2>1, <2>2, <2>3, StepKinds
<1>3. IInv /\ ResidencyInvariant => BoundedResidency
  <2> SUFFICES ASSUME IInv, ResidencyInvariant PROVE BoundedResidency
    OBVIOUS
  <2>1. /\ config.threads \in Nat /\ Len(batch) \in Nat /\ filled \in Nat
    BY ArgumentFacts
  <2>2. Len(batch) + (IF filled > 0 THEN 1 ELSE 0) <= config.threads
    BY <2>1 DEF ResidencyInvariant
  <2>3. pc \in {"work", "emit"} => batch # <<>>
    BY DEF IInv, BatchInvariant
  <2>4. pc \in {"work", "emit"} => Inflight <= config.threads * config.blockBytes
    BY <2>3, InflightBound
  <2>5. aggregate.maximumInflight <= config.threads * config.blockBytes
    BY SMTT(40) DEF ResidencyInvariant
  <2> QED
    BY <2>2, <2>4, <2>5 DEF BoundedResidency
<1> QED
  BY <1>1, <1>2, <1>3, Invariance, PTL DEF Spec

--------------------------------------------------------------------------------
(* The streaming compressor implements BlockCompressor for every input,    *)
(* thread count, batch and interleaving: the step-by-step part that        *)
(* CompleteOutputIsExact, an invariant, cannot say.                        *)

(* The values BlockStream gives the variables of BlockCompressor. *)
LengthsMap == [o \in 0..MaxSourceBytes-1 |-> BlockHeaderBytes + outcome[o].bytes]
AcceptedMap == [i \in 1..Len(encoder.records) |-> BlockOf(encoder.records[i])]
ArchiveMap == IF pc = "done" THEN Recovered ELSE <<>>
Extents == [offset : 0..MaxSourceBytes, length : 0..MaxSourceBytes]
AcceptedEnd ==
    IF AcceptedMap = <<>> THEN 0
    ELSE AcceptedMap[Len(AcceptedMap)].offset + AcceptedMap[Len(AcceptedMap)].length
PayloadMap(block) ==
    [j \in 1..LengthsMap[block.offset] |-> [block |-> block.offset, index |-> j - 1]]

LEMMA Mapped ==
    /\ Abstract!Init <=> AcceptedMap = <<>> /\ Verdict = "running" /\ ArchiveMap = <<>>
    /\ UNCHANGED <<LengthsMap, AcceptedMap, Verdict, ArchiveMap>> <=> UNCHANGED Abstract!vars
    /\ Verdict = "running" /\ Verdict' = "failed"
         /\ UNCHANGED <<LengthsMap, AcceptedMap, ArchiveMap>> => Abstract!Reject
    /\ /\ Verdict = "running" /\ Verdict' = "done"
       /\ ArchiveMap' = [i \in 1..Len(AcceptedMap) |->
                            [block |-> AcceptedMap[i], payload |-> PayloadMap(AcceptedMap[i])]]
       /\ UNCHANGED <<LengthsMap, AcceptedMap>>
       => Abstract!Succeed
    /\ \A block \in Extents :
         /\ Verdict = "running" /\ block.offset = AcceptedEnd /\ block.length > 0
         /\ AcceptedMap' = Append(AcceptedMap, block)
         /\ UNCHANGED <<LengthsMap, Verdict, ArchiveMap>>
         => Abstract!Accept
BY DEF Abstract!Init, Abstract!vars, Abstract!Reject, Abstract!Succeed, Abstract!Accept,
       Abstract!Payload, Abstract!SourceEnd, LengthsMap, AcceptedMap, ArchiveMap, Extents,
       AcceptedEnd, PayloadMap

(* A compression begins where the abstract one does. *)
LEMMA InitMaps == ASSUME Init PROVE Abstract!Init
<1>1. AcceptedMap = <<>> /\ ArchiveMap = <<>> /\ Verdict = "running"
  BY DEF Init, AcceptedMap, ArchiveMap, Verdict, Running
<1> QED
  BY <1>1, Mapped

(* Where the records stay, the accepted blocks and the lengths of the      *)
(* payloads do.                                                            *)
LEMMA BlocksStay ==
    ASSUME UNCHANGED outcome, encoder'.records = encoder.records
    PROVE  UNCHANGED <<LengthsMap, AcceptedMap>>
BY DEF LengthsMap, AcceptedMap, BlockOf

(* What ends a call without its archive. *)
GivesUp ==
    /\ pc \in Running
    /\ pc' \in {"failed", "unwound"}
    /\ encoder'.records = encoder.records
    /\ UNCHANGED outcome

(* What a caller does not see. *)
Hidden ==
    /\ \/ pc \in Running /\ pc' \in Running
       \/ pc' = pc /\ output' = output
    /\ encoder'.records = encoder.records
    /\ UNCHANGED outcome

Finishes ==
    /\ pc = "account" /\ pc' = "done"
    /\ output' = output
    /\ encoder'.records = encoder.records
    /\ UNCHANGED outcome

(* Every step is one of these or pushes a block. *)
LEMMA StepParts ==
    ASSUME IInv, [Next]_vars
    PROVE  GivesUp \/ Hidden \/ Finishes \/ PushBlock
<1>1. CASE Start
  BY <1>1 DEF Start, GivesUp, Hidden, Running, callVars, encodeVars
<1>2. CASE ReadStep
  BY <1>2 DEF ReadStep, ReadSome, ReadShortBlock, ReadNothing, TakeBlock, Hidden, Running,
              callVars, encodeVars
<1>3. CASE JoinBatch \/ \E t \in Threads : WorkerReturns(t)
  BY <1>3 DEF JoinBatch, WorkerReturns, GivesUp, Hidden, Running, callVars, encodeVars
<1>4. CASE EmitOptimizerFailure \/ PushRejected \/ PushOverOutput \/ SpoolError
  <2>1. CASE EmitOptimizerFailure \/ PushRejected \/ SpoolError
    BY <2>1 DEF EmitOptimizerFailure, PushRejected, SpoolError, Fail, GivesUp, Running,
                callVars, encodeVars
  <2>2. CASE PushOverOutput
    <3>1. encoder = [records |-> encoder.records, originalSize |-> encoder.originalSize,
                     payloadBytes |-> encoder.payloadBytes, restored |-> encoder.restored,
                     maximumPrepared |-> encoder.maximumPrepared]
      BY DEF IInv, TypeOK, EncoderTypes
    <3>2. encoder' = [encoder EXCEPT !.originalSize = NewOriginalSize]
      BY <2>2 DEF PushOverOutput
    <3>3. encoder'.records = encoder.records
      BY <3>1, <3>2
    <3> QED
      BY <2>2, <3>3 DEF PushOverOutput, Fail, GivesUp, Running, callVars
  <2> QED
    BY <1>4, <2>1, <2>2
<1>5. CASE FinishEmpty \/ WriteDirectory \/ CopyChunk \/ WriteFooter
  BY <1>5 DEF FinishEmpty, WriteDirectory, CopyChunk, WriteFooter, Fail, GivesUp, Hidden,
              Running, callVars, encodeVars
<1>6. CASE Account
  BY <1>6 DEF Account, Fail, GivesUp, Finishes, Running, callVars, encodeVars
<1>7. CASE ReadError \/ FinishError
  BY <1>7 DEF ReadError, FinishError, Fail, GivesUp, Running, callVars, encodeVars
<1>8. CASE SourceGrows \/ UNCHANGED vars
  BY <1>8 DEF SourceGrows, Hidden, callVars, encodeVars, vars
<1> QED
  BY <1>1, <1>2, <1>3, <1>4, <1>5, <1>6, <1>7, <1>8
  DEF Next, Caller, EmitStep, FinishStep, IoError

(* A call that gives up rejects its input; the archive was never there. *)
LEMMA GivingUpMaps == ASSUME GivesUp PROVE Abstract!Reject
<1>1. UNCHANGED <<LengthsMap, AcceptedMap>>
  BY BlocksStay DEF GivesUp
<1>2. Verdict = "running" /\ Verdict' = "failed" /\ ArchiveMap = <<>> /\ ArchiveMap' = <<>>
  BY DEF GivesUp, Verdict, ArchiveMap, Running
<1> QED
  BY <1>1, <1>2, Mapped

(* Reading, optimizing and writing leave the abstract compressor alone. *)
LEMMA HiddenMaps == ASSUME Hidden PROVE UNCHANGED Abstract!vars
<1>1. UNCHANGED <<LengthsMap, AcceptedMap>>
  BY BlocksStay DEF Hidden
<1>2. UNCHANGED <<Verdict, ArchiveMap>>
  <2>1. CASE pc \in Running /\ pc' \in Running
    BY <2>1 DEF Verdict, ArchiveMap, Running
  <2>2. CASE pc' = pc /\ output' = output
    BY <2>2 DEF Verdict, ArchiveMap, Recovered, PayloadAt, BlockOf
  <2> QED
    BY <2>1, <2>2 DEF Hidden
<1> QED
  BY <1>1, <1>2, Mapped

LEMMA BelowEnd ==
    ASSUME NEW m \in Nat, NEW start \in Nat, NEW length \in Nat, NEW end \in Nat,
           NEW read \in Nat, NEW there \in Nat,
           length > 0, start + length <= end, end <= read, read <= there, there <= m
    PROVE  start \in 0..m-1
OBVIOUS

(* A recorded block lies in the input, where its outcome is known. *)
LEMMA RecordedBlocks ==
    ASSUME IInv, failure # "output limit", NEW i \in 1..Len(encoder.records)
    PROVE  /\ encoder.records[i].offset \in 0..MaxSourceBytes-1
           /\ encoder.records[i].payloadLength = LengthsMap[encoder.records[i].offset]
           /\ encoder.records[i].payloadLength \in Nat
<1>1. /\ CallTypes /\ EncoderTypes /\ BatchTypes /\ Recorded(i) /\ SourceInvariant
  BY DEF IInv, TypeOK, RecordInvariant
<1>2. PICK record : record = encoder.records[i]
  OBVIOUS
<1>3. /\ record.offset \in Nat /\ record.length \in Nat /\ record.payloadLength \in Nat
      /\ encoder.originalSize \in Nat /\ consumed \in Nat
      /\ available \in Nat /\ available <= MaxSourceBytes /\ MaxSourceBytes \in Nat
  BY <1>1, <1>2, RecordFacts, EncoderFacts, BatchFacts, CallFacts, ConstantFacts
<1>4. /\ record.length > 0 /\ record.offset + record.length <= encoder.originalSize
      /\ record.payloadLength = PayloadLength(BlockOf(record))
  BY <1>1, <1>2 DEF Recorded
<1>5. encoder.originalSize <= consumed /\ consumed <= available
  BY <1>1 DEF SourceInvariant
<1>6. record.offset \in 0..MaxSourceBytes-1
  BY <1>3, <1>4, <1>5, BelowEnd
<1>7. record.payloadLength = BlockHeaderBytes + outcome[record.offset].bytes
  BY <1>4 DEF PayloadLength, BlockOf
<1> QED
  BY <1>2, <1>3, <1>6, <1>7 DEF LengthsMap

(* The archive a finished call hands out is that of the accepted blocks. *)
LEMMA FinishMaps == ASSUME IInv, Finishes PROVE Abstract!Succeed
<1> DEFINE promised ==
             [i \in 1..Len(AcceptedMap) |->
                [block |-> AcceptedMap[i], payload |-> PayloadMap(AcceptedMap[i])]]
<1>1. UNCHANGED <<LengthsMap, AcceptedMap>>
  BY BlocksStay DEF Finishes
<1>2. Verdict = "running" /\ Verdict' = "done" /\ ArchiveMap' = Recovered'
  BY DEF Finishes, Verdict, ArchiveMap, Running
<1>3. Recovered' = Recovered
  BY DEF Finishes, Recovered, PayloadAt, BlockOf
<1>4. /\ EncoderTypes /\ failure = "none" /\ output.footer # NoPiece
      /\ output.directory = Directory
  BY DEF IInv, TypeOK, FailureInvariant, OutputInvariant, Finishes, Running
<1>5. /\ Len(Directory) = Len(encoder.records) /\ Len(encoder.records) \in Nat
  BY <1>4, DirectoryFacts, EncoderFacts
<1>7. Len(AcceptedMap) = Len(encoder.records)
  BY <1>5 DEF AcceptedMap
<1>8. ASSUME NEW i \in 1..Len(encoder.records)
      PROVE  Recovered[i] = [block |-> AcceptedMap[i], payload |-> PayloadMap(AcceptedMap[i])]
  <2>1. PICK entry : entry = Directory[i]
    OBVIOUS
  <2>2. /\ entry.offset = encoder.records[i].offset
        /\ entry.length = encoder.records[i].length
        /\ entry.payloadLength = encoder.records[i].payloadLength
    BY <1>4, <2>1, EntryFacts
  <2>3. BlockOf(entry) = AcceptedMap[i]
    BY <2>2 DEF BlockOf, AcceptedMap
  <2>4. /\ AcceptedMap[i].offset = entry.offset
        /\ entry.payloadLength = LengthsMap[AcceptedMap[i].offset]
        /\ entry.payloadLength \in Nat /\ entry.payloadOffset \in Nat
    <3>1. entry.payloadOffset \in Nat
      BY SMTT(40), <1>4, <1>5, <2>1, DirectoryFacts, EntryFacts, RecordFacts
    <3> QED
      BY <1>4, <2>2, <2>3, <3>1, RecordedBlocks DEF BlockOf
  <2>5. \A j \in 0..entry.payloadLength-1 :
           PayloadAt(entry.payloadOffset + j) = PayloadCell(BlockOf(entry), j)
    BY <1>4, <1>5, <2>1, ExactFromInvariant DEF CompleteOutputIsExact
  <2>6. [j \in 1..entry.payloadLength |-> PayloadAt(entry.payloadOffset + j - 1)]
          = PayloadMap(AcceptedMap[i])
    <3>1. ASSUME NEW j \in 1..entry.payloadLength
          PROVE  PayloadAt(entry.payloadOffset + j - 1)
                   = [block |-> AcceptedMap[i].offset, index |-> j - 1]
      <4>1. PICK k : k = j - 1
        OBVIOUS
      <4>2. k \in 0..entry.payloadLength-1
        BY <2>4, <4>1
      <4>3. entry.payloadOffset + j - 1 = entry.payloadOffset + k
        BY <2>4, <4>1
      <4>4. PayloadAt(entry.payloadOffset + k) = PayloadCell(BlockOf(entry), k)
        BY <2>5, <4>2
      <4> QED
        BY <2>3, <4>1, <4>3, <4>4 DEF PayloadCell
    <3> QED
      BY <2>4, <3>1 DEF PayloadMap
  <2>7. Recovered[i] =
          [block |-> BlockOf(entry),
           payload |-> [j \in 1..entry.payloadLength |-> PayloadAt(entry.payloadOffset + j - 1)]]
    BY <1>4, <1>5, <2>1 DEF Recovered
  <2> QED
    BY <2>3, <2>6, <2>7
<1>9. Recovered = promised
  <2>1. Recovered = [i \in 1..Len(encoder.records) |-> Recovered[i]]
    BY <1>4, <1>5 DEF Recovered
  <2> QED
    BY <1>7, <1>8, <2>1
<1> QED
  BY <1>1, <1>2, <1>3, <1>9, Mapped

(* Pushing a block accepts the one that follows in the input. *)
LEMMA PushMaps == ASSUME IInv, PushBlock PROVE Abstract!Accept
<1> DEFINE n == Len(encoder.records)
<1>1. /\ pc = "emit" /\ Encodable /\ PrepareFailure = "none" /\ UNCHANGED outcome
      /\ pc' \in {"emit", "read"}
  BY DEF PushBlock, callVars
<1>2. /\ EncoderTypes /\ CallTypes /\ BatchTypes /\ failure = "none"
  BY <1>1 DEF IInv, TypeOK, FailureInvariant, Running
<1>3. PICK new : new = [offset |-> encoder.originalSize, length |-> Emitted.length,
                        payloadOffset |-> encoder.payloadBytes,
                        payloadLength |-> PayloadLength(Emitted)]
  OBVIOUS
<1>4. encoder'.records = Append(encoder.records, new)
  BY <1>3 DEF PushBlock
<1>5. PICK block : block = BlockOf(new)
  OBVIOUS
<1>6. /\ block = [offset |-> encoder.originalSize, length |-> Emitted.length]
  BY <1>3, <1>5 DEF BlockOf
<1>7. /\ Emitted.length \in Nat \ {0} /\ Emitted.offset = encoder.originalSize
      /\ Emitted.offset + Emitted.length <= consumed /\ encoder.originalSize \in Nat
      /\ consumed \in Nat /\ consumed <= available
      /\ available \in Nat /\ available <= MaxSourceBytes /\ MaxSourceBytes \in Nat
  BY <1>1, <1>2, AcceptedFacts, EncoderFacts, BatchFacts, CallFacts, ConstantFacts
     DEF IInv, SourceInvariant
<1>8. block \in Extents /\ block.length > 0 /\ block.offset = encoder.originalSize
  BY <1>6, <1>7 DEF Extents
<1>9. n \in Nat /\ encoder.records \in Seq(Records)
  BY <1>2, EncoderFacts DEF EncoderTypes
<1>10. AcceptedEnd = encoder.originalSize
  <2>1. Tiles(encoder.records, 0, encoder.originalSize, 0, encoder.payloadBytes)
    BY <1>2 DEF IInv, RecordInvariant
  <2>2. CASE encoder.records = <<>>
    BY <2>1, <2>2 DEF Tiles, AcceptedEnd, AcceptedMap
  <2>3. CASE encoder.records # <<>>
    <3>1. n \in 1..n
      BY <1>2, <2>3, EncoderFacts
    <3>2. /\ Len(AcceptedMap) = n /\ AcceptedMap # <<>>
          /\ AcceptedMap[n] = BlockOf(encoder.records[n])
      BY <1>9, <3>1 DEF AcceptedMap
    <3>3. encoder.records[n].offset + encoder.records[n].length = encoder.originalSize
      BY <2>1, <2>3 DEF Tiles
    <3> QED
      BY <3>2, <3>3 DEF AcceptedEnd, BlockOf
  <2> QED
    BY <2>2, <2>3
<1>11. AcceptedMap' = Append(AcceptedMap, block)
  <2>1. /\ Len(encoder'.records) = n + 1 /\ encoder'.records[n + 1] = new
        /\ \A i \in 1..n : encoder'.records[i] = encoder.records[i]
    BY <1>4, <1>9
  <2>2. AcceptedMap' = [i \in 1..n + 1 |-> BlockOf(encoder'.records[i])]
    BY <2>1 DEF AcceptedMap, BlockOf
  <2>3. Append(AcceptedMap, block) = [i \in 1..n + 1 |-> IF i = n + 1 THEN block
                                                            ELSE BlockOf(encoder.records[i])]
    BY <1>9 DEF AcceptedMap
  <2> QED
    BY <1>5, <1>9, <2>1, <2>2, <2>3
<1>12. UNCHANGED <<LengthsMap, Verdict, ArchiveMap>> /\ Verdict = "running"
  BY <1>1 DEF LengthsMap, Verdict, ArchiveMap, Running
<1> QED
  BY <1>8, <1>10, <1>11, <1>12, Mapped

(* "Blocks are ... emitted in source order" whatever the workers do: to    *)
(* its caller, compress_reader_portfolio_threads with any number of        *)
(* threads is a compressor that accepts one block of the input at a time   *)
(* and hands out the archive of the accepted blocks when all is done.      *)
THEOREM SequentialIsImplemented == Spec => ImplementsSequential
<1>1. Init => Abstract!Init
  BY InitMaps
<1>2. IInv /\ [Next]_vars => [Abstract!Next]_(Abstract!vars)
  <2> SUFFICES ASSUME IInv, [Next]_vars
               PROVE  [Abstract!Next]_(Abstract!vars)
    OBVIOUS
  <2>1. CASE GivesUp
    BY <2>1, GivingUpMaps DEF Abstract!Next
  <2>2. CASE Hidden
    BY <2>2, HiddenMaps
  <2>finishes. CASE Finishes
    BY <2>finishes, FinishMaps DEF Abstract!Next
  <2>4. CASE PushBlock
    BY <2>4, PushMaps DEF Abstract!Next
  <2> QED
    BY <2>1, <2>2, <2>finishes, <2>4, StepParts
<1> QED
  BY <1>1, <1>2, Invariance, PTL DEF Spec, ImplementsSequential, Abstract!Spec
================================================================================
