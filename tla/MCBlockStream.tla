----------------------------- MODULE MCBlockStream -----------------------------
(* Model-checking instances of BlockStream: outcomes of the optimizer and  *)
(* the verdict a call must reach, computed from its input alone.           *)
EXTENDS BlockStream, FiniteSetsExt

Program(n) == [kind |-> "program", bytes |-> n]
Bad(k) == [kind |-> k, bytes |-> 0]

CommonResults == {Program(0), Program(1), Bad("error"), Bad("panic")}
RareResults == {Program(0), Program(2), Bad("several"), Bad("unencodable")}
Results == CommonResults \cup RareResults

(* What the inputs of a run are about.                                     *)
\* Blocks of one byte: interleavings of up to three workers, every failure.
Batches ==
    /\ config.blockBytes = 1 /\ config.spoolStart = 0
    /\ \A o \in DOMAIN outcome :
         outcome[o] \in IF o < MaxOutput THEN CommonResults ELSE {Program(1)}
\* The rare results, the longer payload and a spool that does not start at 0.
Oddities ==
    /\ config.blockBytes = 1 /\ config.threads \in 1..MaxThreads
    /\ available < MaxOutput
    /\ \A o \in DOMAIN outcome :
         outcome[o] \in IF o < MaxOutput - 1 THEN RareResults ELSE {Program(0)}
\* Blocks of several bytes, read in pieces.
Pieces ==
    /\ config.blockBytes # 1 /\ config.threads \in 1..2
    /\ \A o \in DOMAIN outcome : outcome[o] = Program(1)

MCInit == Init /\ (Batches \/ Oddities \/ Pieces)
MCFairSpec ==
    /\ MCInit /\ [][Next]_vars
    /\ WF_vars(Caller)
    /\ \A t \in Threads : WF_vars(WorkerReturns(t))

(* The blocks an unchanging input is cut into, by their offsets. *)
SourceOffsets == {o \in 0..available-1 : o % config.blockBytes = 0}

Compressible ==
    /\ StartFailure = "none"
    /\ \A o \in SourceOffsets :
         outcome[o].kind = "program" /\ BlockHeaderBytes + outcome[o].bytes <= MaxBlockPayload
    /\ available <= MaxOutput
    /\ MinArchive + MapThenSumSet(
         LAMBDA o : RecordBytes + BlockHeaderBytes + outcome[o].bytes, SourceOffsets) <= MaxArchive

(* Whether a call succeeds is a function of the input, the optimizer and   *)
(* the limits: neither the thread count nor the order in which workers     *)
(* finish can turn an archive into an error or the reverse.                *)
VerdictIsInputs ==
    pc \in Ended /\ appended = 0 /\ failure # "io" => (pc = "done" <=> Compressible)

(* Every call ends, and ends with the verdict its inputs determine.        *)
CallsReachTheirVerdict == CallEnds /\ []VerdictIsInputs
================================================================================
