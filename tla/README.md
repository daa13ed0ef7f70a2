# Verification of MathSVG and its campaigns

The repository holds a lossless codec whose archives store, for every block of
a file, a program that recomputes the block. It exists in two lines: **MathSVG**
(`mathsvg/crates/`, the current one) and **MathZip** (`crates/`, its
predecessor). Around them are command lines and Python campaigns that run for
days, resume after crashes, and turn measurements into claims.

This directory contains TLA+ models of the parts whose correctness depends on
order, failure, shared state or on what is left out, the TLC instances that
check them, and proofs TLAPS checks for every value of the constants.

    tlc -workers 2 -config MCBlockStream_calls.cfg MCBlockStream
    tlapm BlockStreamProofs.tla

`PROJECT.json` lists the components, the runs with what each shows, a mutant for
every property (a plausible bug under which that property fails), the source
lines each definition stands for, the hazards and the theorems.

## 1. Inventory

### The codec

| part | state it keeps | operations | what makes it hard |
|---|---|---|---|
| `mathsvg-stream` | the call's batch of blocks, its worker threads, the `Aggregate` | `compress_reader*`, `compress_reader_portfolio_threads`, `decompress_reader_to_spool*` | workers finish in any order, fail or panic; short reads; an input that grows |
| `mathsvg-container`, encoder | records kept in memory, a payload spool, running totals | `ArchiveStreamEncoder::{new, push_block, finish}`, `encode_archive` | limits checked before and after the spool is written; relative offsets made absolute; output written in pieces |
| `mathsvg-container`, decoders | hashes of what was read so far | `decode_archive` + `verify_restored_with`, `decode_archive_stream` | two passes over a file that may change; blocks handed out before the footer is checked |
| `mathsvg-cli` | files in one directory, temporaries | compress, decompress, inspect | concurrent processes, crashes between flush, sync and rename |
| `mathsvg-optimizer` | a `SearchSession`: ledger, candidates, states, work | `optimize_with_all_providers`, `optimize_block` | a budget that runs out between two candidates; a ledger that is a budget itself |
| `mathsvg-dsl`, `-evaluator` | none (a `Program` value, a memo per call) | canonical sections, evaluation under limits | parsing and recursion over one buffer |
| `mathsvg-entropy`, `-residual`, `-coordinates`, `-functions`, `-symbolic`, `-graph`, `-kernels`, `-core` | none | transforms, coders, integer formats | boundaries and canonical forms |
| `mathzip-core`, `mathzip-cli` | none; files | the predecessor codec and its command line | tie-breaking; as `mathsvg-cli` |

### The campaigns

| part | state it keeps | operations | what makes it hard |
|---|---|---|---|
| `mathzip_bench.runner` | lock, checkpoint, checkpoint rows, published results | run, resume, publish | a crash between any two writes; a second process; a changed plan |
| `mathzip_bench.process` and its four relatives in `benchmarks`, `repro`, `determinism` | a child, its process group, pipes, a sampler | run a command under a timeout | the timeout races the child's end; descendants keep the pipe |
| `benchmarks/runner`, `schema`, `protocol` | the JSONL log, the metadata, a reference archive per cell | one trial; a campaign over its schedule | failures at every stage; torn lines; two runners |
| `benchmarks/summarize` | none that outlives a call | the table of a log | campaigns stopped half-way; failures that must not vanish |
| `analysis/ablation_pipeline`, `dominance*`, `statistics` | none | paired differences, certificates, envelopes | evidence that is missing, failed or of another input |
| `benchmarks/freeze`, `inventory` | the frozen record | a freeze over manifests, profiles, tools, binary | files read several times while they are edited |
| `datasets/*` | payloads, two manifests, a lock, coverage | four programs that fill a corpus, one that reports | overlapping programs; crashes between two manifests; groups in two splits |
| `determinism/runner`, `schema` | one CSV shared by machines | run the matrix, evaluate gate 1 | read-extend-replace without a lock; replaced executables |
| `repro/*_campaign`, `*_gate`, `literal_safety` | one report | the gate campaigns | identities taken before and after hours of rows |
| `repro/compiler_matrix` | one report | test and build with two compilers, compare, validate | source edited between builds; two generators, one path |
| `mathzip_bench` results and verification | rows, the grid and the intervals; the published document | trials, aggregation, evidence gaps, validation plain and strict | runner and verifier written twice must agree on every row; files change between digest and trial |
| `mathzip_bench` plots, system info; `oracle`; report and plot scripts | none | reports over finished files | none a model checker reaches |

### Interactions

A command line opens and checks the files, creates temporaries next to the
target, and calls `mathsvg-stream`. For compression the stream reads blocks,
starts one scoped thread per block of a batch, each of which runs a search of
`mathsvg-optimizer`, joins them and pushes the chosen program of each block, in
source order, into the `ArchiveStreamEncoder`, which writes payloads to a spool;
`finish` writes header, directory, spool and footer to the temporary, which is
synced and renamed. For decompression `decode_archive_stream` calls back with
every verified block, which goes to a temporary that is renamed only after the
call succeeded.

The campaigns run the command lines as child processes under a timeout. The
data-set programs fill a corpus; a freeze pins corpus, profiles, tools and
binary; a benchmark campaign appends a row per trial to its log; the summary,
the ablation table and the certificates are computed from finished logs. The
gate campaigns and the two matrices are campaigns of their own with one report
each.

### Properties that make each part correct

- *stream and encoder*: the archive and the verdict depend on the input, never
  on thread count, read sizes or the order of workers; memory stays within
  `threads` blocks; every call ends.
- *decoders*: both give the same verdict; what is accepted is one whole archive
  even while the file changes; what is handed out early is a prefix of what the
  directory promised; allocations stay within the limits.
- *search*: what calls itself complete is the least segmentation into what was
  offered; what was cut off is in the ledger; no result is worse than literal.
- *command line*: a name leads to a whole file or is untouched; nothing is
  replaced without `--force`; inputs survive; `--verify` reports what it read.
- *resumable campaign*: a row is measured once and never lost; a stop is always
  resumable; pointers name whole results; evidence and times are honest.
- *results and their verifier*: the runner's own verifier never refuses what the
  runner measured; nothing in a document can be made better unnoticed; what
  passes strictly measured the listed inputs in one environment.
- *commands under a timeout*: the kill strikes its own group and nothing else;
  nothing outlives a timeout; a verdict is about the whole command.
- *trials, log, tables, certificates*: every trial leaves a valid row that says
  what happened; a log is of one campaign; what failed or is missing stays
  visible in everything computed later; what is called confirmed, beneficial or
  dominating stands on complete evidence of both sides.
- *corpora and freezes*: a payload is behind every row and is never replaced;
  splits do not share groups; a record is of one state of the checkout.
- *gates and matrices*: a pass is of the files it names and means what the gate
  promises; failures remain visible.

## 2. Modules

| module | models | composed with |
|---|---|---|
| `BlockStream` | `compress_reader_portfolio_threads` and `ArchiveStreamEncoder` | refines `BlockCompressor` |
| `BlockCompressor` | (abstract) the compressor that takes one block at a time | |
| `ArchiveFormat` | the v1 envelope: encoder, in-memory decoder | extended by `ArchiveDecode` |
| `ArchiveDecode` | `decode_archive_stream` over a file that may change | extended by `MCArchives` |
| `SegmentSearch` | `optimize_with_all_providers`: budgets, ledger, segmentation, choice, audit | extended by `MCArchives` |
| `Totals` | the sum of a sequence of numbers | extended by `ArchiveFormat` and `SegmentSearch` |
| `AtomicPublish` | the three commands, their files and temporaries | refines `OutputStore` |
| `OutputStore` | (abstract) names that change in one step | |
| `BenchmarkRun` | `run_benchmarks` of `mathzip_bench` and its files | refines `Campaigns` |
| `Campaigns` | (abstract) rows that only grow, published once full | |
| `TimedCommand` | five functions that run a command under a timeout | extended by `MCEvidence` |
| `DeterminismMatrix` | the archive-determinism matrix and its results file | extended by `MCVerification` |
| `GateCampaign` | the literal, memory, procedural, fuzz and determinism campaigns | extended by `MCVerification` |
| `CompilerMatrix` | generation, publication, validation of the compiler report | extended by `MCVerification` |
| `TrialPipeline` | one trial and the row made of it | extended by `MCEvidence` |
| `BenchRows` | one cell of a `mathzip_bench` campaign, its row and the row's verifier | extended by `BenchDocument` |
| `BenchDocument` | the result document of such a campaign and the document's verifier | extended by `MCVerification` |
| `TrialSummary` | the schedule, the readers and the benchmark table | extended by `DominanceAnalysis` |
| `AblationAnalysis` | the paired ablation table | extended by `MCEvidence` |
| `Sums` | the sum of sizes over a set | extended by `TrialSummary`, `AblationAnalysis` |
| `DominanceAnalysis` | certificates, failures and Pareto envelope | extended by `MCEvidence` |
| `CorpusManifests` | four programs that fill a corpus, one that covers it | extended by `MCRecords` |
| `FreezeRecord` | every check of a freeze, in its order | extended by `MCRecords` |
| `TrialCampaign` | rival runners on one log, and the analysis that reads it | extended by `MCRecords` |
| `BlockStreamProofs` | theorems about `BlockStream` | |
| `ArchiveDecodeProofs` | theorems about `ArchiveDecode` | |
| `CommandProofs` | theorems about `AtomicPublish` and `SegmentSearch` | |
| `BenchmarkRunProofs` | theorems about `BenchmarkRun` | |
| `VerificationProofs` | theorems about `CompilerMatrix`, `GateCampaign` and `DeterminismMatrix` | |
| `TrialProofs` | theorems about `TimedCommand`, `TrialPipeline`, `TrialSummary`, `DominanceAnalysis` and `AblationAnalysis` | |
| `RecordProofs` | theorems about `TrialCampaign`, `FreezeRecord` and `CorpusManifests` | |
| `ResultProofs` | theorems about `BenchRows` and `BenchDocument` | |
| `MC*` | constants and parts of the runs below | |

A module whose name ends in `Proofs` extends the modules it is about. An `MC`
module that combines several instances gives each a *part*: a behaviour is
about one part, the others rest in an initial state. Their properties are
conjunctions of named parts; the module of the part states each of them with
the code it is about.

### BlockStream

One action is one step of the calling thread or of one worker: `Start` checks
the arguments and creates the encoder; `ReadSome`, `ReadShortBlock` and
`ReadNothing` are the reads of `read_block`, which fills its buffer across short
reads; `WorkerReturns(t)` ends the worker of block `t` with the outcome the
optimizer has for that block (a program, an error, a panic, several programs, a
block that cannot be encoded); `JoinBatch` joins all of them; the emit steps
push one block each, in source order, with every early return of `push_block`
(some of them after the spool was written); the finish steps write header and
directory, copy the spool piece by piece and write the footer; `SourceGrows` is
another process appending to the input, `IoError` a failing read or write.

`outcome` is drawn once per offset: the optimizer is deterministic, so the same
block always gives the same result. A payload byte is a cell naming its block
and index, and a hash is the data hashed, so *which* bytes reach *which* place
is visible without modelling their values.

`BlockCompressor` accepts one block at a time or stops at the first bad one.
The refinement maps the accepted prefix, the verdict and, at the end, the
archive read back through its own directory.

### ArchiveFormat and ArchiveDecode

An archive is a sequence of words: header, directory records, payload cells,
footer. `Encode` translates `encode_archive`; `InMemoryAccepts` is the verdict of
`decode_archive` followed by `verify_restored_with`. `ArchiveDecode` has one
action per read of the streaming decoder (first pass over the directory, header
again, record by record, payload, callback to the spool, footer, whole hash,
recheck of the directory), a writer that changes the file in place between any
two of them, and failures of reads and of the spool. A program restores a fixed
block and has a node count, which is all the envelope asks of it.

### SegmentSearch

A block is an interval of microblocks. `Search` asks a provider, `Try` charges
one of its candidates to the budgets, encodes and verifies it, `NextInterval`
and `Extend` build paths of interval candidates, `ChoosePath` and `EndBlock`
compare them with the whole-block choice, `Assemble` compares the archive of all
blocks with the literal archive and marks the selected rows of the ledger. All
blocks share one session; a provider may answer that its own budget ended, and
may offer a candidate that does not restore its bytes.

The two nested loops that extend paths are one action over the list of all
transitions, in the order of the loops (`Extensions`), cut where the work or the
states run out (`Affordable`). The boundaries of a SPLIT are variable-length
integers, so what one costs depends on where it lies (`BoundaryBytes`).

### AtomicPublish

A directory maps names to files, links or nothing; inodes have contents and a
durable prefix. A process runs one command line at a time: path checks, the
check of the output, open, temporary, chunked writing, end of the stream (which
fixes the verdict), sync, rename; `inspect --verify` decodes and rereads through
one handle. `persist_noclobber` on a file system without `renameat2` is link
and unlink, which is the external part. `Kill`, `Rerun` and `PowerLoss`
surround all of it. `OutputStore` is what a user may rely on: names change in
one step to the result of a command, and otherwise not at all.

### BenchmarkRun

`disk` is what programs see; `stable` what a power failure is sure to keep. An
atomic checkpoint write (temporary, fsync, replace, fsync of the directory) is
one action: an interruption inside it leaves what one before or after it leaves.
`results.json`, `results.csv` and `latest.*` are replaced first and synced
later, so their replacement and the syncs are actions of their own. An
invocation is: lock (refused at once when taken), discovery of the identity,
then either the four writes of a new run directory or the checks of a resume
and the checkpoint with the new interval, then for every missing row a
measurement, its envelope and the checkpoint that counts it, then finalization,
recheck of the identity, results, table, pointers, and the final checkpoint.
`Stop` ends it anywhere with the lock released, as the kernel does for a killed
process and `finally` for an exception. `ChangeEnvironment` changes anything the
identity covers. Keys are taken in any order, a superset of the code's one.

### TimedCommand

The caller waits for end of file on the pipes or for the child, expires, kills
the child's process group, reaps. The child and its descendants fork, leave the
session, close or keep their output and exit at any moment; a process number may
be given to a stranger once its owner is reaped; an interrupt may arrive. The
variable `runner` selects one of five functions that differ in what they wait
for and in what they do on an interrupt.

### DeterminismMatrix, GateCampaign, CompilerMatrix

All three record identities, run commands, take the identities again and write.
Files may be replaced between any two steps, commands fail in every way the code
distinguishes, processes are killed. `ran` (in the matrix), the versions a row
was run with (`at`, in the campaigns) and the source each binary was built from
(in the compiler matrix) remember what really happened; the properties compare
it with what was written. A run of the determinism matrix reads the rows that
exist (`Start`), takes its identities (`Identify`), and for the debug and then the
release build probes the executable (`Probe`) and goes through the cells, where a
repetition is executed or left out; `Finish` takes the hashes again, merges and
replaces the file. `LeastReps` stands for the code's 100 repetitions. Two
environments of the matrix share one
results file; two generators of the compiler matrix share one output path with a
validator. The five gate campaigns are one skeleton: a request says what is
asked for, `Verdict` and the row predicates are those of each campaign.

### TrialPipeline, TrialSummary, AblationAnalysis, DominanceAnalysis

`TrialPipeline` draws a scenario (how compression, hashing, decompression,
comparison and inspection end), makes the row `execute_trial` would make and
remembers the reference archive for the next trial of the cell. `TrialSummary`
appends rows in schedule order, stops anywhere and makes the table.
`AblationAnalysis` and `DominanceAnalysis` draw what a finished run may hold
and make the pairs, decisions, certificates, failures and envelope. Intervals
are compared without square roots: the Student interval lies above zero when a
polynomial in sum and sum of squares is positive; with at most three files the
bootstrap percentiles are the extreme resamples.

### BenchRows, BenchDocument

`BenchRows` is one cell of a `mathzip_bench` campaign: the rows written without
a trial (`Skip`), warm-ups, measured trials and the row made of them. A world says
how each command of a trial ends; `ExecuteTrial` goes through the early returns
of `execute_trial` in their order, and `Aggregate` is `aggregate_trials` with its
medians, its one archive per codec of one's own and the search all metrics have
to name. `AcceptsRow` and `AcceptsRowStrictly` are what `validate_result_document` demands
of a row. `Relabel` is somebody who makes the summary of a row better than its trials.

`BenchDocument` is the campaign around the cells. Discovery goes through the
configured sources with their limits and manifests and gives the grid (`Begin`);
`Commit` writes one row of it; `Stop` and `Resume` are interruptions, a
resume refusing anything that changed; `PublishDocument` looks at the environment again,
collects the evidence gaps, makes the document and puts it to the runner's own
verifier. Files, source, tools, configuration and host change in between (`Change`)
and may change back. The ghost field `measured` of a row is the content the trials
really read. `EditDocument` is somebody who makes one statement of a published document
better. The gaps that only repeat a missing host fact, and `--strict` at the start
of a campaign, which `BenchmarkRun` has, are left out.

### CorpusManifests, FreezeRecord, TrialCampaign

Two slots run any of the data-set programs; copying a payload (temporary, then
`os.link`), each manifest and the coverage report are steps of their own, and a
kill, a replaced source archive or a changed payload may come between any two.
`FreezeRecord` has one step per group of checks of a freeze, in the code's
order, with edits, tool upgrades and rebuilds in between. `TrialCampaign` has
runners that test for existing files, capture the source, append rows (possibly
torn by a kill or a full disk), capture the source again and replace the
metadata, and an analysis that reads log and metadata at any moment.

## 3. Runs

| run | properties | instance |
|---|---|---|
| `stream` | exact archive, first bad block, verdict a function of the input, only I/O fails late, residency, boundaries, append-only spool, refinement, every call ends | up to 4 one-byte blocks on up to 3 workers with thread counts 0 to 4; rare outcomes; blocks of 0, 2, 3 bytes read in pieces; an input that may grow; two spool positions |
| `archives` | decoders agree; what is accepted is one archive; spool a promised prefix; memory bounded; decoding ends; search honest | archives of up to 2 blocks of 6 programs, all prefixes, all one-word changes with footer kept or recomputed; 5 archives with 4 in-place writes; 23 settings of the search's caps over inputs of 1 to 3 microblocks in 1 or 2 blocks |
| `publish` | names safe, inputs survive, honest reports, refinement of `OutputStore` | 2 processes, 8 directories (hard, symbolic, dangling links), every command line over two names, two that race for a third; kills, reruns, power failures |
| `campaign_resume` | stops resumable, evidence final and complete, times honest, a lone operator completes | 1 run, 2 rows, 2 processes, 2 stops, 2 changes of environment |
| `campaign_latest` | pointers name whole results, refinement of `Campaigns` | 2 runs, 1 row, 2 processes, 2 stops, 1 change, one dirty environment |
| `verification` | matrix is evidence, reports true, compiler reports stand for builds, results verify | 2 environments, 2 builds, 2 repetitions, 4 sets of capabilities, 1 surprise; 11 requests, 2 faults; 2 generators, a validator, 2 faults; cells of up to 2 trials over 3 archives of 2 sizes; documents of 2 corpora and 2 codecs from 8 environments or 4 policies, 2 changes, 1 stop, 1 edit |
| `evidence` | calls honest, calls to files return, rows are evidence and tell what happened, tables and certificates hold, claims of the ablation table are paired | one helper and one daemon; every pair of trials; 2 codecs, 2 files, 3 repetitions; 2 files twice or 1 file three times; 2 profiles and 2 baselines on 2 files |
| `records` | corpus real, steps keep records, record of one state, log of one campaign | 3 program starts in 2 slots, 1 fault, 11 payloads; freezes over sound and unsound manifests, and over 2 edits; 2 runners, 2 trials, 1 reader |
| `campaign_unsynced`, `corpus_leak`, `summary_corpus`, `search_limit` | (violated, see Findings) | |

Why the bounds are enough. Three workers are the least for which a middle one
can overtake both neighbours; four blocks make a full batch followed by a
partial one for every thread count of 2 and 3 and an exact multiple for 2; one
spool start is nonzero because offsets are relative to it. Input lengths run
through every residue of the block size. Two blocks are the least archive in
which records can be swapped, overlap or leave a gap; four in-place writes
suffice to turn one archive of the set into another. Three microblocks are the
least block with a cut that is not at its middle, and two blocks the least whose
budgets are shared; the caps include, for every budget, values that run out
before the first candidate, between whole-block and interval candidates, and
among the paths. Two command lines show every race of a check with a rename, and
a third actor is a kill followed by a rerun. Two rows give a row before and one
after a stop; two stops a crash during the recovery from a crash; two
environment changes one that is undone. One helper and one daemon are what can
keep a pipe with and without being in the group. Two environments are what gate
1 asks for; the least number of repetitions is 2 there and in the campaigns, and
some requests have fewer. Two trials are a reference archive and one compared
with it. Two files are the least corpus in which one can fail. Three archives of
two sizes differ in content, in both or not at all; two corpora that share a
file show which of them gets it, and two changes one that is undone before the
second look. Metric values lie
on both sides of the 2% rule. Limits (`MaxArchive`, `MaxOutput`, archive sizes in
`GateCampaign`) are chosen so that some inputs fit exactly and some exceed them
by one.

The model's own bounds, which are not the code's: `MaxSourceBytes`, `SpoolCells`
(`BlockStream`), `MaxWrites` (`ArchiveDecode`), `MaxInodes`, `Chunks`
(`AtomicPublish`), `RunCount`, `MaxStops`, `MaxChanges` (`BenchmarkRun`, `BenchDocument`, `FreezeRecord`),
`MaxFaults` (`CompilerMatrix`, the corpora), `MaxSurprises` (`DeterminismMatrix`),
`MaxMishaps` (`GateCampaign`), `MaxStarts`
(`CorpusManifests`), `MaxEdits` (`TrialCampaign`), and the
smaller `MinReps`, `StrictReps` and `LeastReps` (5, 10 and 100 in the code). An
environment of `DeterminismMatrix` runs once. `MCArchives` rewrites
only the five archives, and `MCAtomicPublish` runs a killed command again only
in the directories named there. Deadlock is not checked because every system
here ends: a call returns, a command exits, a report is written, a campaign is
complete or nobody resumes it.

### Fairness

- `stream`: weak fairness of the calling thread and of every worker; scoped
  threads run until they return or panic. A growing input ends at
  `MaxSourceBytes`: a call that reads a pipe without end does not end.
- `archives`: weak fairness of the decoder; none of the writer.
- `evidence`: the clock advances and the calling thread is scheduled;
  nothing is assumed of the command or of what it started. Only the function
  that sends output to files is promised to return: one that reads pipes waits
  for a daemon that keeps them.
- `campaign_resume`: weak fairness of a running invocation, and strong
  fairness of resuming a run while nobody holds the lock. The second is an
  assumption about the operator (`benchmark_full.sh --resume`), not about the
  code; the property is void without it. Environment changes and stops have no
  fairness: the property asks for completion only if the recorded environment
  eventually stays.

## 4. Proofs

For every value of the constants that meets the named assumptions:

| module | theorem | statement |
|---|---|---|
| `BlockStreamProofs` | `Invariance` | `Spec => []IInv` |
| | `TypeCorrect` | `Spec => []TypeOK` |
| | `OnlyIoFailsLate` | `Spec => []LateFailureIsIo` |
| | `FirstBadBlock` | `Spec => []FirstBadBlockReported` |
| | `ExactOutput` | `Spec => []CompleteOutputIsExact` |
| | `SpoolIsAppendOnly` | `Spec => SpoolKeepsRecorded` |
| | `CanonicalCuts` | `Spec => []CanonicalBoundaries` |
| | `Residency` | `Spec => []BoundedResidency` |
| | `SequentialIsImplemented` | `Spec => ImplementsSequential` |
| `ArchiveDecodeProofs` | `BoundedMemory` | `Spec => []MemoryIsBounded` |
| | `AcceptsOneArchive` | `Spec => []AcceptedIsOneArchive` |
| | `SpoolIsPromised` | `Spec => []SpoolIsPromisedPrefix` |
| | `SameVerdicts` | `Spec => []SameVerdictAsInMemory` |
| | `FormatIsKept` | `Spec => []AgreesWithFormat` |
| `CommandProofs` | `SafeNames` | `Spec => []NamesAreSafe` |
| | `SafeInputs` | `Spec => []InputSurvives` |
| | `HonestReports` | `Spec => []ReportIsVerified` |
| | `StoreIsImplemented` | `Spec => ImplementsStore` |
| | `HonestSearch` | `SearchSpec => []SearchIsHonest` |
| `BenchmarkRunProofs` | `CampaignsAreResumable` | `Spec => []StopsAreResumable` |
| | `EvidenceIsSound` | `Spec => []EvidenceCoversEveryRow` |
| | `PointersAreSound` | `Spec => []PointersNameWholeResults` |
| | `EvidenceLasts` | `Spec => EvidenceIsFinal` |
| | `CampaignsAreImplemented` | `Spec => ImplementsCampaigns` |
| | `ActiveTimeIsKept` | `Spec => []ActiveTimeIsHonest` |
| `VerificationProofs` | `HonestMatrix` | `Spec => []ReportsStandForBuilds` |
| | `TrueReports` | `GateSpec => []ReportsAreTrue` |
| | `MatrixEvidence` | `MatrixSpec => []MatrixIsEvidence` |
| `TrialProofs` | `SafeCalls` | `Spec => []CallsAreHonest` |
| | `EvidentRows` | `TrialSpec => []RowsAreEvidence` |
| | `TruthfulRows` | `TrialSpec => RowsTellWhatHappened` |
| | `SummaryTable` | `SummarySpec => []TableKeepsFailures` |
| | `Certificates` | `CertificateSpec => []CertificatesHold` |
| | `Tables` | `SummarySpec /\ CertificateSpec => []TablesHold` |
| | `PairedClaims` | `PairSpec => []ClaimsHold` |
| `RecordProofs` | `OneCampaign` | `Spec => []LogIsOneCampaign` |
| | `LateRunners` | `Spec => LateRunnersTouchNothing` |
| | `OneState` | `FreezeSpec => []RecordIsOneState` |
| | `RealCorpus` | `CorpusSpec => []CorpusIsReal` |
| | `PayloadsStay` | `CorpusSpec => PayloadsAreNeverReplaced` |
| `ResultProofs` | `Results` | `RowSpec /\ DocumentSpec => []ResultsVerify` |

### BlockStream

Assumptions: `BoundsAssumption` (thread counts, block sizes and the input length
are natural numbers), `EnvelopeAssumption` (a block header and a copy buffer are
not empty), `LimitsAssumption`, `OutcomeAssumption` (an outcome has one of the
five kinds), `SpoolAssumption` (the model's spool has room for an archive
after every start position).

Why an invariant of its own is needed. That a finished archive is exact says
nothing about the states before it, so `IInv` carries the fact backwards:
`SourceInvariant` and `BatchInvariant` say that the blocks in memory are
consecutive and continue where the encoder ended; `RecordInvariant` that every
record's payload lies in the spool where the record says and that the records
tile the input and the payload section; `LimitInvariant` that an encoder with
records has room for header, directory, payloads and footer, which is why the limits
cannot fail later; `AccountInvariant` that the two byte counts agree;
`OutputInvariant` that what is written so far is a prefix of what the encoder
held when `finish` began; `FailureInvariant` ties the error to the state. Each
action preserves every part in a lemma of its own (`StartKeeps`, `ReadKeeps`,
`WorkKeeps`, `PushKeeps`, `FinishKeeps`, ...). The hardest step is `PushKeeps`:
writing the next payload above `payloadBytes` leaves all recorded cells alone
(`RecordedSurvive`) and extends the tiling (`TilesAppend`). `ExactOutput` then
adds the payload offset to every record (`TilesShift`).

The last two theorems add two invariants that are inductive together with
`IInv`. Every step is quiet, adds a block to the batch or pushes one
(`StepKinds`). `BoundaryInvariant`: each block in the batch or the directory is
whole or ends where the input ends, and a block with a successor cannot end
there. `ResidencyInvariant`: the batch has room for one more block while reading,
and its first i blocks span at most i buffers.

`SequentialIsImplemented` maps every step to the sequential compressor: giving
up is `Reject`, completing a finish is `Succeed`, pushing a block is `Accept`,
and every other step changes nothing that the mapping reads (`StepParts`).

### ArchiveDecode

Assumptions: `ProgramsAssumption`, `LimitsAssumption`, `DecodeAssumption`,
`InputsAssumption` and `WordsAssumption` (numeric fields of a header or a record are natural numbers,
and what a record says its payload restores is a sequence of them). Any
initial file and any rewriting between two reads. The reports of memory
(`buffered`) are maxima over blocks, and a block's record is read twice from a
file that may have changed, so `WordsInv` says what the second pass knows: each
record it holds met the limits again, in the second reading, and what the payload
restores has the length that record promises. Without the second check the bound
would fail, which is what the mutant `RereadUnlimited` shows.

The other theorems add `DecodeInv`. `HeaderInv` and `FirstInv`: what the
first pass accepted so far tiles the output and the payload section and adds up
to the header's totals. `SecondInv`: each block done by the second pass had a
payload that verified at its place, and the restored bytes are the concatenation
of what its records promise. `SpoolInv`: the spool is a prefix of that, also
after an I/O error. `FinalInv`: at the footer both passes agree with the header.
`AcceptedHolds` then puts the words read at different times together into one
archive. `SameVerdicts` needs `VerdictInv`: as long as the file was left alone,
every word read is the file's (`CleanInv`), the counts name the next place to
read (`CountInv`), and each rejection contradicts a check of the in-memory
decoder on the same words. The totals and concatenations both decoders compute
are recursive functions over sequences. Lemmas state what they are (`TotalIs`,
`FlattenIs`) and how they grow (`TotalAppend`, `FlattenAppend`), proved by
induction in the form the prover can use: a set of naturals that contains 0 and
every successor is `Nat` (`NaturalsFrom`).

`FormatIsKept` is the round trip, for every list of blocks in `Inputs` (which
`InputsAssumption` only asks to be lists of a program and a sequence). `RecordIs`:
a record begins where the blocks before it end. `JoinToParts`: each payload is
found in the concatenation where the sizes before it say. `EncodeIs` puts an
archive back into its parts. Then `AcceptedIsHonest`: a payload determines its
program (`SerializedOnce`), so the program that verified is the block's; and
`EncodedIsAccepted`: with the encoder's limits inside the decoder's every check of
the in-memory decoder holds (`EncodedTiles`, `EncodedAddsUp`, `EncodedVerifies`).
`SameVerdicts` carries both over to the streaming decoder.

### TimedCommand

Assumption: `ProcessesDiffer` (helpers, daemons, the leader and a stranger are
different processes); any number of helpers and daemons. What could go wrong is
a kill that strikes a number given away: `PidInv` says the number is the
child's until the child is reaped, `KillInv` where a call may be about to kill
and that its child has not been reaped there, `TimeoutInv` that nothing of the
group runs once a kill was delivered, `ChildInv` relates the leader's state to
its status, and `FinishInv` what is known when a call returns. The group stays
empty because only a running member can fork into it.

### AtomicPublish

Assumptions: `JobsAssumption` (job records), `SizesAssumption` (at least one
chunk, natural bounds), `FilesAssumption` (initial files have contents,
none of which is the mark for "no file"; links lead to names that are not
links). Any names, processes, jobs and directories.
`DirectoryInv` says what entries and pasts may hold (a link is from the
beginning, its target never becomes one), `DiskInv` that a name's files are
whole *and durable* (what a power failure may bring back), `ProcessInv` and
`TemporaryInv` that a temporary being written belongs to one process and no
name leads to it, `HandleInv` and `CopyInv` that what was written so far is the
command applied to the chunks of the open input, which does not change because
only temporaries are written. `SafeInputs` needs that an input compared as
distinct stays distinct: `PathsInv` relates the two names of a job to their
pasts between the comparison and the opening, `ReplacedInv` the entry renamed
over to the opened file.

The last two rest on one more fact: a file that has, or had, a
name never changes, and a power failure keeps all of it (`HeldIsKept`).
`InspectInv` then says that an inspection between its two passes still holds the
file it verified, which is `HonestReports`. `RestoreInv` says that a stream that
has ended restored an archive that verified and that every name leads to a
content; with it a rename is one step of `OutputStore`: the content of the
temporary is the result for a file known to the directory, the names that change
are the output and its links (`EnterChangesPast`), and the content of every other
file, past or present, stays (`ContentsKept`). A power failure returns contents
the names have held (`StoreLosesPower`); every other step leaves the store alone
(`StoreStays`).

### SegmentSearch

Assumptions: `CapsAssumption` (budgets are natural numbers and the ledger has
room for the literal row and a stop, which `validate_config` checks),
`SearchInputsAssumption` (blocks are not empty), `OffersAssumption` (providers
answer with searches: any number of candidates of any size, in any order, that
restore their bytes or do not) and `BytesAssumption` (encoded sizes are natural
numbers). Nothing relates the sizes to each other: a literal may be the
dearest candidate or the cheapest, a boundary may cost nothing. Any number of
blocks, microblocks, providers and candidates.

`SearchIsHonest` speaks of a search that is done; `Ind` says what has to be known
on the way, and is a conjunction of eleven parts. `SoundInv`: each count is within
its budget, the ledger keeps a free row until a stop is in it, and the flags
`complete`, `exhausted` and `stopped` are what the rows of the ledger say.
`PlaceInv`: where in the loops the search is. `BlocksInv` and `BestInv`: the
rows of each choice tile its block (`Tiles`), no choice is cheaper than every
archive the offers allow (`Low`) and, while nothing was skipped, none of those is
cheaper than the choice (`High`). `EdgeInv`: an
edge is the literal of the interval or a candidate offered for it. `PathInv`:
the paths that end at a boundary are made of such edges. `CoverInv` is the one
the optimum needs: while the search is complete, every sequence of pieces
offered so far that leads to a boundary already passed is one of the paths there.
`OfferInv` and `StarvedInv`: what was offered for a whole block was compared
before any interval could use up a budget. `UnmarkedInv`: only the literal row
is marked before the end. `ResultInv`: the result itself.
TLC checked `Ind` on the instance of the run before it was proved.

The hard step is `ExtendStep`, a product of all paths with all edges of which a
budget may cut off the end: a cut makes the search incomplete, and otherwise the
list of transitions holds each pair once (`ExtensionsAre`, from uniqueness of
division), so a way to the new boundary is one to an earlier boundary and a last
piece (`SameAppend`). At the last boundary `NoCutIsLess` turns every cut
of the block (`CutBytes`) into such a way by the cheapest offered pieces
(`CutWalkIs`), and `BestPathIs` says that the fold over the paths found the least.
`AssembleStep` adds up the blocks (`LeastChosen`) and marks the rows:
`TilesCover` puts the tiles of consecutive blocks together, so that the marked rows
cut the input. Sums over sequences are recursive functions, with lemmas
proved by induction over a set of naturals (`TotalIs`, `TotalAppend`,
`TotalMonotone`).

### BenchmarkRun

Assumptions: `Setting` (a finite grid, natural bounds, no environment, run or
process is the mark for a missing file or a free lock), `MissingIsNoValue` (that
mark is no value a file holds) and, as a hypothesis of every theorem,
`EntryJournaled`: syncing a directory also keeps that directory's own name. The
code relies on it without saying so; the run `campaign_unsynced` is what happens
otherwise. Any grid, any number of processes, run directories, stops, power
failures and changes of the environment.

None of these properties is inductive, because each speaks of files while the
next step writes what an invocation has in memory. `IInv` ties the two together.
`LockInv`: an invocation past the lock is the only one, so its memory cannot be
overtaken. `FolderInv`: a directory whose name could be lost is empty, and rows,
identity, grid and checkpoint are on disk as soon as they are visible.
`CheckpointInv` is what a resume checks: the checkpoint agrees with grid and
identity, counts no row that is missing, has an interval for every row, and is
past `running` only when all rows are there. `ResultsInv`: results and table are those
of all rows, in what is visible *and* in what is sure to be kept. `LatestInv`:
both versions of a pointer name published runs, and a pointer not yet synced
names a run that is not complete. `CreatingInv`, `WorkingInv` and `PublishingInv`
say the same of an invocation's memory at each point of its way.

Power failures are the reason for the pairs: a failure takes any mixture of
the two versions of each file (`MixedFiles`, `LossFiles`), so every fact about a
replaced but unsynced file must hold of both. A write of one run's files leaves
every other run's facts alone (`RunStep`), and what a step may change of a run is
listed once (`RunChanges`), which gives `EvidenceLasts`. For the refinement every
step of `BenchmarkRun` is a stutter of `Campaigns` but four (`HiddenSteps`): a
new row is `Add` (`AddMaps`), the sync that makes the pointer last is `Publish`
(`PublishMaps`), the checkpoint that says complete is `Complete`
(`CompleteMaps`), and a power failure that happens to keep a pointer not yet
synced is `Publish` too (`LossMaps`).

`ActiveTimeIsKept` needs an account of its own, `TimeInv`. A checkpoint lags
behind the rows: an invocation may be stopped after a measurement, or after its
row, and before the clock of its interval is saved. So what is invariant of a
checkpoint is that some `Ledger` exists, a time for every interval that is no less than
the saved clock and no less than any row of that interval claims, and whose total is
within what was spent. `Charged`, the saved clocks with the last one replaced by
the invocation's own, is that ledger while an invocation lives, and stays one
when it dies (`CheckpointTime`). A resume credits each interval with the maximum
of its rows, never more than the ledger (`RecoveredTime`), hence the new
account is again within what was spent (`ReopenedTime`). Sums over intervals are
reasoned about through the recursive function that defines `Total` (`TotalIs`)
and induction over the naturals with a set in place of a predicate
(`NaturalsFrom`).

### CompilerMatrix

No assumption on a constant: any generators, any number of replaced files. The
generator looks at source, toolchains and input several times and builds in
between. Contents are numbered as they come and never come back, so
`SourceInv`, `ToolInv`, `BuildInv` and `ArchiveInv` say that what was read or
built lies between the value recorded first and the one on disk now; a later
comparison that finds both ends equal then closes the gap, for every step in
between. (Were an edit put back, the gap would not close: that difference is
listed under Findings.) `RestoredInv` lists what the four decodings gave so far,
`ReportInv` that a report on disk is one a generator published, and `ValInv` that
what the validator compared still holds until the next fault. A step of one
generator leaves the others' facts alone because numbers only grow
(`GeneratorKeeps`, `QuietKeeps`).

### GateCampaign

Assumption `GateAssumption`: a request is of one of the five kinds, with numbers
of repetitions and warm-ups that are natural, and gate 3 has an input; sizes and
measurements are natural numbers, gains integers; a fuzz run ends well, badly or
late. Any requests, outcomes and number of replacements; `MinReps`, the input's
size and the archives' sizes are whatever they are. Versions only grow, so
`Enclosed` says that every row was run with files between those of the identity
before and those on disk, and from the second identity on between the two; the
source, which is looked at one step earlier and one step later than the rest,
has its own clauses. `PlanKept` says that rows and what is left to do are always the
plan of the request, and that each row's value says no more than its outcome was (`Told`).
What a pass then promises is about the outcomes and not about the values:
`LiteralHolds` does the arithmetic of the rounded-down allowance, `MemoryHolds` counts
the timed rows by an injection from the repetitions, and `ProceduralHolds` takes
from two sums over a domain that one file of it gained and one is half functions
(`SomeIsPositive`, `SomeIsMean`).

### DeterminismMatrix

Assumption `MatrixAssumption`: "default" is no value of an axis, an executable
has a number, and an environment is known by its machine, architecture and
compiler, which is what the gate groups rows by. Any environments, axes,
capabilities, endings of a command and number of surprises. `MatrixInv` says of
a run in its matrix that every row is valid and is where the run was
(`Placed`): of the source, input and executable that it hashed, and with no
repetition that is left, so that the next coordinate is new whatever the order of
the cells (`CellsOfFit`: cells differ in thread mode or backend). `RanFits`
encloses what an execution met between the hash taken first and what is there
now; `Unchanged` closes the gap when the run ends. Rows that other runs left are
of runs that are done (`RunInv`), so the file and every merged set of rows
inherit it, though two runs may overwrite each other. `KnownIn` and `RanTells` tie a
row that says ok to an execution that restored the input. A pass is then read
off the gate's sets: two environments because fewer than two values are a reason
(`ManyAreTwo`), one source, input and archive (`FewIsOne`), and all repetitions of
every required cell, which a row for each axis and the set of their numbers give.

### TrialCampaign

Assumption: `ScheduleAssumption` (a nonempty schedule in which no
cell of the codec itself occurs twice, which is what `schedule` returns). Any number of runners, kills, torn
rows and edits. `LogIsOneCampaign` is about a reader, which takes metadata first
and the log later, while runners still append. `LogInv` says that the n-th row of
one runner is the n-th cell of the schedule (`InOrder`) and that a torn row's
runner has failed; `MetaInv` that metadata called complete hold the digest of a
log that had all N rows of its runner (`Evidence`), and that the log still
begins with it (`Extends`), since rows are only appended; `ReaderInv` keeps both
facts for the metadata the reader holds. A count does the rest: the reader wants
N rows, the digest has N rows of one runner, hence all rows are that runner's and
are the schedule in its order. `LateRunners` needs from the invariant only what
absent metadata say.

### TrialPipeline

Assumption `InputsAssumption`: a digest is not the empty text, sizes and the number of
trials are natural numbers. The original's size and the archive limit are
whatever they are. `RowsInv` relates every row to the first hash of its cell:
`Flagged` says that a flagged row has that hash and that, before an archive is
hashed, no row was compared. The other half, `Good`, needs no history: the row of
any world satisfies the schema, path by path (`EarlyFailure`, `LateFailure`,
`RestoredRow`, joined in `TrialRow`), and `BreakdownIsExact` shows that the gain
and loss which the code recomputes are the ones the schema recomputes.

### TrialSummary

Assumption `SummaryAssumption`: the schedule takes no codec and no workload
twice, no workload is called like the corpus rows, the protocol's two minima are
natural numbers in order, and an outcome has a size. Any codecs, workloads,
repetitions and outcomes. `SummaryInv` says that the log is the first trials of the
schedule (`IsLog`) and that the table is the one made of it. Why a campaign stopped
anywhere can be summarized is arithmetic: `SlotsFill` and `SlotIs` write every
place of the schedule as codec, workload and repetition in exactly one way, so
that no cell occurs twice, and `SlotsGrow` orders the places of a pair of codec and
workload by repetition, so that the repetitions of a prefix have no gap
(`GroupIsDense`). File rows partition the trials, and so do corpus rows;
`TrialsAreCounted` adds up the parts. `FilesAreReplicated` needs that a median of
sizes is a size: `RankExists` finds a value of every rank, so that the median's
`CHOOSE` means something, and a rival within 2% in the property's form is close
in the code's (`NearIsClose`).

### DominanceAnalysis

Assumption `EvidenceAssumption`: finitely many profiles, and what a configuration has
on a data set is nothing, an attempt without medians or a success with natural
medians and intervals on every metric. `CertificateInv` says that every cell drawn
is from its evidence and that the artifacts are those of all of it. `PassMeans`
goes backwards through a certificate: confirmed means the same files and inputs,
complete rows on both sides, repetitions as the protocol asks and separated
intervals on every metric; `RowIs` and `PointIs` read a row as its files and a
number of a corpus row as the sum over them. The envelope is maximal because
domination is a strict order (`DominatesIsStrict`) on a finite set, in which whatever
is beaten is beaten by something that nothing beats (`BestExists`).

The sums of both modules are folds over finite sets. `SumFrom` is their
induction, with a relation between sets and numbers in place of a predicate; it
rests on `SubsetsFrom`, induction over the subsets of a finite set.

### AblationAnalysis

Assumption `PairsAssumption`: a run has one to three files, for which the bootstrap
percentiles of the code are the extreme resamples and the model is exact; an
archive has a size; archives with one SHA-256 hash are one archive, so on one side
they have one size. Any number of repetitions, outcomes of the trials, schedule
blocks and quantiles of the t-distribution. `PairInv` says that what is
recorded of a cell is an outcome of its side and that the rows are those of all cells.
The argument is about the operators. What each of the five statuses means is said in
terms of the single trials (`SideIsOk`, `CorrectnessIs`, `DeterminismIs`, `PairingIs`);
together they say that a complete protocol is a run that is `Whole`: every trial worked,
was restored and is deterministic, the two of a pair have one block, the archives of a
file have one hash (`ProtocolMeans`), and the other way round (`WholeProtocol`), which
carries a confirmed corpus to its files. On such a run sizes repeat (`Sized`): a file
that gains in total gains in each repetition (`GainIsEverywhere`). The 2% rule compares
sums over repetitions of sums over files with a sum over cells; `SumOfCells` says that
they are equal, by induction over the repetitions from `SumStep`: any summand of a
sum over a finite set can be taken out first.

### FreezeRecord

Assumption `FreezeAssumption`: one manifest per split, one TOML per profile, and a
bound on changes. Any splits, profiles, baselines and contents. A freeze keeps
what it read while the disk moves on, so `SinceInv` and `InventoryInv` speak of
edits counted since the look at the tree: as long as there is none, what git
tracks is the commit's and the tools are the ones compared (`ChangeKeeps`).
`ManifestInv` says which checks the manifests in hand have passed at each place,
and `ApartLeaksNothing` that these checks together keep every row in its split.

### CorpusManifests

Assumption `CorpusAssumption`: what the tools select has one row per file, the
tools that do not weigh what they add (sensor, crate) add only real rows, the
manifests to begin with are valid and weighed, and they select no other version
of a file that the coverage matrix asks for; rows are finitely many, with natural
sizes. Any number of programs, starts, kills, replaced archives and disturbed
files. The last condition on the beginnings is needed: a row of an older
version under the same name would satisfy the coverage matrix, which looks at
names, with nothing known of its payload.

A manifest is written long after the payloads were looked at, from memory, by a
program others overlap with. What carries the fact across is that a pinned
payload stays pinned once some program has started (`MorePinned`, `DisturbedDisk`).
So `ItemsSeen` says that a program has seen each payload of its tool or still has
it ahead, `MemorySound` that the rows it holds are valid, of one split and
backed by payloads, `FileSound` the same of both manifests, half-written ones
included; reading and writing only move rows between the two (`ReadKeeps`,
`WriteKeeps`). Balance is weighed by the builder and the research program before
they write; the other two add real rows to a balanced set, which
`RealRowsKeepBalance` shows to stay balanced in number and in bytes. The coverage
report finds rows by name, and such a row is one a tool selects, hence backed
(`StatusIsEarned`). Before the first start files may be changed freely; `StartInv`
says that nothing rests on them then.

### BenchRows

Assumption `CellAssumption`: an archive has a size, a cell has a trial. Any archives,
sizes, times, numbers of trials and ends of every command. `RowInv` says where a
row comes from: it is empty, or what `Aggregate` makes of the trials so far, or
such a row improved from one that was no success. The rest is about the
operators. `KeptIs` says of the recursive function behind `Ok` and
`Timings` that it lists the positions it keeps, in their order; `OkIs` takes from
it that a row counts as many successful trials as asked for exactly when all
succeeded. With one archive (`OneHash`) the sizes are one value, and a median of
equal values is that value (`MedianOfEqual`), which is what the verifier recomputes
from the archive (`OneArchiveRow`, `OkRowPasses`). An improved row fails by its
successful trials, which the improvement does not bring (`ImprovedRowFails`);
`StrictRow` reduces the strict checks of commands and searches to the job.

### BenchDocument

Assumption `DocumentAssumption`: the directory of a source lists no file twice,
no two codecs have a name and number of threads in common, which the runner
refuses (`runner.py:1210`). Any sources, limits, codecs, policies, environments,
changes and interruptions. `DocumentInv` says that what a campaign began with is
what it discovered then (`Begun`), that its rows are the first cells of that grid in
order (`RowsAreCells`), that the intervals are closed but the last (`IntervalsRun`),
and that a published document is `OwnDocument`, made of these, or one of its
improvements. Two inductions over the configured sources carry the grid:
`DiscoverIs` (no two cases have a file, every case comes from its source, a
required corpus without a case is recorded as missing) and hence `GridIs`;
`CellsAre` and `KeysAreDistinct` number the cells by quotient and remainder.
`OwnDocumentPasses` then goes through the checks of the verifier,
`BetterDocumentFails` through the statements of a document, each of which some other
statement contradicts once it is improved, and `StrictDocument` shows that what the
strict verifier asks for beyond complete evidence is a successful row per cell and
an inspected archive. An environment that changes during a campaign and changes
back is covered: what was measured is in the row's evidence.

The two specifications have no variable in common; `Results` states them side by
side as the property does. So does `Tables` for those of the summary table and
of the certificates.

### What is only model-checked

Liveness (fairness and ENABLED are out of the prover's reach), and of the corpora what
a successful or repeated run leaves (`SuccessIsOnDisk`, `RerunSucceeds`,
`ChangedRowsAreRefused`: parts of `StepsKeepRecords`).

Induction over data is within reach where a set can take the place of the
predicate: over the naturals for recursive functions (`NaturalsFrom`), over the
subsets of a finite set for folds (`SubsetsFrom`, `SumFrom`).

## 5. Findings

Each of these is a run whose one property restates a document and is violated.

- `campaign_unsynced`, `runner.py:2006`. `benchmarks/README.md:29` calls a
  checkpoint row "one atomic durable file", and `_atomic_checkpoint_json` syncs
  the directory a row is renamed in. The new run directory itself is never
  synced into the output root before the end of the campaign
  (`runner.py:2606`). A file system that keeps only what was synced may drop it
  with all its rows. Journaling file systems usually write the name of a new
  directory with its first synced entry, which is what `EntryJournaled = TRUE`
  assumes in the other runs.
- `corpus_leak`, `materialize_validation.py:610`. `datasets/README.md:26`: "Every
  validation split group is disjoint from all development groups." The merged
  manifest is written before it is compared with the development manifest; a
  refused merge exits with an error and leaves the row.
- `summary_corpus`, `summarize.py:301`. `docs/benchmark-methodology.md:114` asks
  for "at least five measured repetitions"; a corpus row counts repetition
  numbers that occur in any of its rows, so a campaign stopped inside its last
  repetition has a confirmed corpus row although some file has one fewer.
- `search_limit`, `mathsvg-optimizer/src/lib.rs:2366`.
  `docs/mathematical-spec.md:81` makes the literal archive the result unless a
  candidate wins. A candidate too large for the caller's archive limit ends the
  whole search with an error although the literal archive is within it.

Differences seen while reading the code that no run is about, mostly because
the state in question is left out of a model on purpose and one sentence says
it all:

- `materialize_research_corpus.py:1823`: the two manifests are read, merged and
  replaced without a lock. A run that read `development.csv` before the builder
  rewrote it writes back the base rows it read, also those of another version;
  validation rows another tool added in between are lost until that tool is run
  again. `ChangedRowsAreRefused` speaks of base rows only where nothing overlaps.
- `mathsvg-cli/src/main.rs:980`: an input that is a link to the output, which
  does not exist yet, passes the comparison; when another command creates the
  output before the input is opened, `compress --force` replaces the file it
  read (`mathsvg-cli/README.md:57`, "input and output may not resolve to the
  same file"). `InputSurvives` has this one case, `LinkToNothing`, as its
  exception; `SafeInputs` proves there is no other.
- `benchmarks/freeze.py:171`: a checkout with uncommitted files is recorded as
  lines of `git status`, so edits of a file that is already dirty are not told
  apart (`mathsvg/python/benchmarks/README.md:103`).
- `benchmarks/freeze.py:1276`: a binary rebuilt between the query of its
  profiles and its digest is pinned with the older profiles
  (`mathsvg-cli/README.md:44`).
- `analysis/ablation_pipeline.py:320`: a complete run is accepted although its
  source changed meanwhile, which `docs/benchmark-methodology.md:208` says
  "cannot become publishable evidence".
- `determinism/runner.py:641` and `:644`: a command that fails with a message
  about an unsupported option is filed as unavailable, not failed
  (`determinism/README.md:83`).
- `repro/literal_safety.py:529`: the digest of the manifest in the report is the
  one taken at the start (`:235`), repeated and not taken again.
- `repro/memory_gate.py:321`: the binary's built-in profiles are compared with
  the configuration first and its digest is taken afterwards, so a binary
  replaced in between is measured uncompared (`repro/README.md:58`).
- `repro/compiler_matrix.py:875` and `:916`: an edit put back before the second
  comparison is built and not seen; `:705`: the test for an existing report and
  its publication are two steps (`repro/README.md:133`).
- `mathzip_bench/process.py:130`: the second `communicate` has no timeout, so a
  daemon that keeps the pipe delays the return without bound
  (`docs/benchmark-methodology.md:424`). `FilesReturn` therefore speaks of
  functions that write to files.
- `mathsvg-optimizer`: in an input of several blocks, a search stopped in an
  earlier block leaves the later blocks without their literal rows, and the
  result falls back to the literal archive (`mathsvg-optimizer/README.md:49`).
  The streaming encoder passes single blocks, for which
  `WholeBlockIsNotStarved` holds.

Two things that hold no promise and are no findings: resuming and finishing an
older run moves `latest.*` back to it, and an identity that changes and changes
back within one invocation leaves no trace.

## 6. Not modelled

- Pure codecs (`mathsvg-entropy`, `-residual`, `-coordinates`, `-functions`,
  `-symbolic`, `-graph`, `-core`, `mathsvg-dsl`, `mathsvg-evaluator`,
  `mathzip-core`): sequential functions of one buffer. What matters about them
  is what they compute for every input, which small instances do not reach and
  the repository's property tests cover with far larger inputs; in the models a
  program is what it restores, its payload length and its node count.
- `mathsvg-kernels`, `mathsvg-simd`, `oracle`, statistics beyond what a claim
  is compared with: numerical code with no state.
- `mathzip-cli`: the checks and renames of `mathsvg-cli` in a shorter order.
- Plots, reports, system probes, configuration parsing, and the data sets of
  `mathzip_bench` with their checks: output over files that no longer change.
- Contents of bytes and hash collisions; a hash stands for what it hashes.

Abstractions worth knowing: in `SegmentSearch` a number stands for a
`CandidateCost`, a provider breaks its contract only by a candidate that does
not restore its bytes, and an empty input is left out; in `AtomicPublish` links lead to
files, never to links; in `CompilerMatrix` replaced contents never come back; in
`BenchmarkRun` a trial is one step, in `BenchDocument` a row with all its trials, in
`BenchRows` one time stands for the four measured ones; in `TrialSummary` one metric stands for all
of them and the schedule is not shuffled; in the freeze, the corpora and the
campaigns every configuration is one that parses.

## 7. What is left

In this order: proofs about what a rerun of the corpus programs repairs;
`mathzip-cli`; the definition graph of `mathsvg-dsl` with the work accounting of
the evaluator.
