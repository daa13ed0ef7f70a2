----------------------------- MODULE DeterminismMatrix -----------------------------
(***************************************************************************)
(* The archive-determinism matrix: determinism/runner.py and its results   *)
(* file, determinism/schema.py.  Every run compresses and decompresses one *)
(* input in every cell of a matrix, compares the archives and adds its     *)
(* rows to a file that other machines and compilers add to; evaluate_gate  *)
(* says what the file shows.                                               *)
(*                                                                         *)
(* Runs share the results file and nothing locks it.  An executable or the *)
(* input may be replaced while a run uses it, by contents that were never  *)
(* there before.  `ran' remembers what the commands really did.            *)
(***************************************************************************)
EXTENDS Integers, FiniteSets

CONSTANTS Envs,        \* one run each: machine, arch, compiler, binary by build
          Threads,     \* 1, 2, 4, 8, all in the code
          Backends,    \* scalar, simd, auto in the code
          LeastReps,   \* 100 in the code
          Caps,        \* what CLI help may advertise
          FullCaps,    \* the one that advertises everything
          Endings,     \* how an execution may end other than well
          MaxSurprises \* bound: things that go otherwise than planned

\* "default" is the axis value of a flag that is not given.
ASSUME MatrixAssumption ==
  /\ "default" \notin Threads \cup Backends
  /\ LeastReps \in Nat \ {0} /\ MaxSurprises \in Nat
  /\ \A e \in Envs : e.binary.debug \in Nat /\ e.binary.release \in Nat
  \* What groups the rows of an environment is its three coordinates.
  /\ \A e, f \in Envs :
       e.machine = f.machine /\ e.arch = f.arch /\ e.compiler = f.compiler => e = f

Builds == {"debug", "release"}
Archives == {"A", "B"}
Sources == {[commit |-> c, dirty |-> d] : c \in {1, 2}, d \in {"clean", "dirty"}}

VARIABLES csv,     \* the results file: NoFile or a set of rows
          runner,  \* the run of each environment
          onDisk,  \* input and executables of each environment
          ran,     \* executions: what really happened
          surprises

matrixVars == <<csv, runner, onDisk, ran, surprises>>

NoFile == {"absent"}
Exists == csv # NoFile
RowsOnDisk == IF Exists THEN csv ELSE {}

CleanSource == [commit |-> 1, dirty |-> "clean"]
NoVersions == [input |-> 0, debug |-> 0, release |-> 0]

\* A run: what it read, what it hashed, the build it is at, that build's cells
\* that are left, the next repetition of the first of them.
Resting(pc) ==
  [pc |-> pc, existing |-> {}, rows |-> {}, reference |-> "", planned |-> 1,
   source |-> CleanSource, start |-> NoVersions, build |-> "none", todo |-> {},
   rep |-> 0, stopped |-> FALSE, gate |-> "none"]

MatrixInit ==
  /\ csv = NoFile /\ ran = {} /\ surprises = 0
  /\ runner = [e \in Envs |-> Resting("start")]
  /\ onDisk = [e \in Envs |-> NoVersions]

Surprise(n) == surprises' = surprises + n /\ surprises' <= MaxSurprises
Unless(planned) == IF planned THEN 0 ELSE 1

-----------------------------------------------------------------------------
(* The matrix.                                                             *)

AxisCell(t, b, required, available) ==
  [thread |-> t, backend |-> b, required |-> required, available |-> available]

Offered(c, b) == c.up /\ c.threads /\ b \in c.backends
RequiredCells(c) ==
  {AxisCell(t, b, TRUE, Offered(c, b)) : t \in Threads, b \in Backends}

\* Each threads flag and each backend alone, when no required cell can be run.
Supplement(c) ==
  (IF c.threads THEN {AxisCell(t, "default", TRUE, c.up) : t \in Threads} ELSE {})
    \cup {AxisCell("default", b, FALSE, TRUE) : b \in {x \in Backends : c.up /\ x \in c.backends}}

\* _axis_cells (a build without --profile or a compiler is not up).
CellsOf(c) ==
  {AxisCell("default", "default", FALSE, c.up)} \cup RequiredCells(c)
    \cup (IF \E x \in RequiredCells(c) : x.available THEN {} ELSE Supplement(c))

\* The code has them in the order of its flags; every cell is run the same
\* way, so one order stands for all.
NextCell(todo) == CHOOSE cell \in todo : TRUE

\* Mutant: a repetition too many.
LastRepBeyond(cell, planned) == IF cell.available THEN planned ELSE 0
\* A cell that cannot be run has one row.
LastRep(cell, planned) == IF cell.available THEN planned - 1 ELSE 0

-----------------------------------------------------------------------------
(* Rows.  `at' is what record_sort_key orders by and _deduplicate refuses  *)
(* twice.                                                                  *)

\* DeterminismRecord.validate
ValidRow(row) ==
  /\ row.status \in {"ok", "failed", "timeout", "unavailable"}
  /\ row.at.rep \in 0..(row.planned - 1)
  /\ row.at.thread = "default" <=> ~row.required
  /\ row.at.backend = "default" /\ row.required => row.at.thread # "default"
  /\ row.status = "ok" =>
       /\ row.archive # "" /\ row.archive = row.reference
       /\ "metrics" \in row.holds /\ "roundtrip" \in row.holds
  /\ row.status = "unavailable" => row.archive = "" /\ row.holds = {}

Readable(rows) ==
  /\ \A r \in rows : ValidRow(r)
  /\ \A r, q \in rows : r.at = q.at => r = q

\* _base_values: where run e is.
PlaceOf(e, cell) ==
  LET run == runner[e]
  IN  [env |-> e, source |-> run.source, build |-> run.build,
       binary |-> e.binary[run.build] + run.start[run.build], input |-> run.start.input,
       thread |-> cell.thread, backend |-> cell.backend, rep |-> run.rep]

RowAt(e, cell, status, archive, reference, holds) ==
  [at |-> PlaceOf(e, cell), planned |-> runner[e].planned, required |-> cell.required,
   status |-> status, archive |-> archive, reference |-> reference, holds |-> holds]

Unavailable(e, cell) == RowAt(e, cell, "unavailable", "", runner[e].reference, {})

\* _outcome_status: a diagnostic that speaks of a backend, simd or a thread and
\* of something unsupported makes a failure an unavailable capability.
StatusOf(end) ==
  IF end \in {"compress-timeout", "decompress-timeout"} THEN "timeout"
  ELSE IF end \in {"compress-unsupported", "decompress-unsupported"}
       THEN "unavailable" ELSE "failed"

\* Only a restored input may set the reference of a run.
ReferenceAfter(out, reference) ==
  IF out.end = "ok" /\ reference = "" THEN out.archive ELSE reference

ArchiveOf(out) ==
  IF out.end \in {"compress-timeout", "compress-exit", "no-archive"} THEN "" ELSE out.archive

\* The row of a command that ended in another way than well.
Fell(e, cell, out) ==
  RowAt(e, cell, StatusOf(out.end), ArchiveOf(out), runner[e].reference, {"metrics"})
\* The row of a command that restored the input.
Restored(e, cell, out) ==
  LET ref == ReferenceAfter(out, runner[e].reference)
  IN  RowAt(e, cell, IF out.archive = ref THEN "ok" ELSE "failed", out.archive, ref,
            {"metrics", "roundtrip"})

\* Mutant: a runtime rejection keeps the archive it had made.
RecordKeeping(e, cell, out) ==
  IF out.end = "ok" THEN Restored(e, cell, out) ELSE Fell(e, cell, out)
\* _execute_cell
Record(e, cell, out) ==
  IF out.end = "ok" THEN Restored(e, cell, out)
  ELSE IF StatusOf(out.end) = "unavailable" THEN Unavailable(e, cell)
  ELSE Fell(e, cell, out)

-----------------------------------------------------------------------------
(* evaluate_gate.                                                          *)

With(rows, s) == {r \in rows : r.status = s}
SourcesOf(rows) == {r.at.source : r \in rows}
InputsOf(rows) == {r.at.input : r \in rows}
EnvsOf(rows, field) == {r.at.env[field] : r \in rows}
ArchivesOf(rows) == {r.archive : r \in rows} \ {""}
ReferencesOf(rows) == {r.reference : r \in rows} \ {""}

Mixed(rows) ==
  \/ \E r \in rows : r.at.source.dirty = "dirty"
  \/ Cardinality(SourcesOf(rows)) # 1 \/ Cardinality(InputsOf(rows)) # 1

\* Mutant: a required axis that could not be run is no reason.
GapsAllowed(rows) == FALSE
RequiredMissing(rows) == \E r \in With(rows, "unavailable") : r.required

TooFew(rows) ==
  \E f \in {"machine", "arch", "compiler"} : Cardinality(EnvsOf(With(rows, "ok"), f)) < 2

BinariesOf(rows, r, build) ==
  {q.at.binary : q \in {x \in With(rows, "ok") : /\ x.at.env = r.at.env /\ x.at.input = r.at.input
                                                /\ x.at.build = build}}
BuildsDiffer(rows) ==
  \A r \in With(rows, "ok") :
    /\ BinariesOf(rows, r, "debug") # {} /\ BinariesOf(rows, r, "release") # {}
    /\ BinariesOf(rows, r, "debug") \cap BinariesOf(rows, r, "release") = {}

\* The rows of the executable that made r, and of them those of its axes.
GroupOf(rows, r) ==
  {q \in rows : /\ q.at.env = r.at.env /\ q.at.build = r.at.build
                /\ q.at.binary = r.at.binary /\ q.at.input = r.at.input}
AxesOf(rows) ==
  {<<r.at.thread, r.at.backend>> : r \in {q \in rows : q.required /\ q.at.backend # "default"}}
AxesComplete(rows) ==
  \A r \in rows : AxesOf(GroupOf(rows, r)) = Threads \X Backends

RepsOf(rows, r) ==
  {q \in GroupOf(rows, r) : /\ q.required /\ q.status # "unavailable"
                            /\ q.at.thread = r.at.thread /\ q.at.backend = r.at.backend}
RepetitionsComplete(rows) ==
  \A r \in rows : r.required =>
    /\ r.planned >= LeastReps
    /\ r.status # "unavailable" =>
         /\ Cardinality({q.planned : q \in RepsOf(rows, r)}) = 1
         /\ {q.at.rep : q \in RepsOf(rows, r)} = 0..(r.planned - 1)

GateFails(rows) ==
  \/ With(rows, "failed") \cup With(rows, "timeout") # {}
  \/ Cardinality(ArchivesOf(rows)) > 1
GateLacks(rows) ==
  \/ rows = {} \/ Mixed(rows) \/ RequiredMissing(rows) \/ TooFew(rows)
  \/ Cardinality(ReferencesOf(rows)) > 1
  \/ ~BuildsDiffer(rows) \/ ~AxesComplete(rows) \/ ~RepetitionsComplete(rows)
Gate(rows) ==
  IF GateFails(rows) THEN "failed" ELSE IF GateLacks(rows) THEN "incomplete" ELSE "pass"

-----------------------------------------------------------------------------
(* A run.                                                                  *)

Become(e, run) == runner' = [runner EXCEPT ![e] = run]
Abort(e) == Become(e, Resting("error"))

\* main up to run_matrix: the rows that exist must be readable, of the same
\* input and of one reference.
Start(e) ==
  /\ runner[e].pc = "start"
  /\ \E append \in {"append", "replace"}, planned \in {1, LeastReps} :
       LET existing == IF append = "append" THEN RowsOnDisk ELSE {}
           refs == ReferencesOf(existing)
       IN  /\ Surprise(Unless(append = "append") + Unless(planned = LeastReps))
           /\ IF \/ ~Readable(existing) \/ Cardinality(refs) > 1
                 \/ ~(InputsOf(existing) \subseteq {onDisk[e].input})
              THEN Abort(e)
              ELSE Become(e, [Resting("identify") EXCEPT
                     !.existing = existing, !.planned = planned,
                     !.reference = IF refs = {} THEN "" ELSE CHOOSE h \in refs : TRUE])
  /\ UNCHANGED <<csv, onDisk, ran>>

\* The identities run_matrix takes first.
Identify(e) ==
  /\ runner[e].pc = "identify"
  /\ \E s \in Sources :
       /\ Surprise(Unless(s = CleanSource))
       /\ Become(e, [runner[e] EXCEPT !.pc = "matrix", !.source = s,
                                      !.start.input = onDisk[e].input])
  /\ UNCHANGED <<csv, onDisk, ran>>

\* probe_capabilities of the next build, which hashes its executable.
Probe(e) ==
  /\ runner[e].pc = "matrix" /\ runner[e].todo = {} /\ runner[e].build # "release"
  /\ LET build == IF runner[e].build = "none" THEN "debug" ELSE "release"
     IN  \E c \in Caps :
           /\ Surprise(Unless(c = FullCaps))
           /\ Become(e, [runner[e] EXCEPT !.build = build, !.todo = CellsOf(c),
                                          !.start[build] = onDisk[e][build]])
  /\ UNCHANGED <<csv, onDisk, ran>>

\* The run after a row of its cell: the next repetition or the next cell.
RunAfter(e, cell, row, reference, stopped) ==
  IF runner[e].rep < LastRep(cell, runner[e].planned)
  THEN [runner[e] EXCEPT !.rows = @ \cup {row}, !.reference = reference,
                         !.stopped = stopped, !.rep = @ + 1]
  ELSE [runner[e] EXCEPT !.rows = @ \cup {row}, !.reference = reference,
                         !.stopped = FALSE, !.rep = 0, !.todo = @ \ {cell}]

\* A repetition that is left out because its cell cannot be run or an earlier
\* one did not go well.
LeaveOut(e) ==
  /\ runner[e].pc = "matrix" /\ runner[e].todo # {}
  /\ LET cell == NextCell(runner[e].todo)
     IN  /\ ~cell.available \/ runner[e].stopped
         /\ Become(e, RunAfter(e, cell, Unavailable(e, cell), runner[e].reference,
                            runner[e].stopped))
  /\ UNCHANGED <<csv, onDisk, ran, surprises>>

\* What a command gives that does its work: an input that was replaced is
\* restored, and is not the one the run has hashed.
Planned(e) ==
  [end |-> IF onDisk[e].input = runner[e].start.input THEN "ok" ELSE "wrong", archive |-> "A"]

Execute(e) ==
  /\ runner[e].pc = "matrix" /\ runner[e].todo # {}
  /\ LET cell == NextCell(runner[e].todo)
     IN  /\ cell.available /\ ~runner[e].stopped
         /\ \E out \in [end : Endings \cup {Planned(e).end}, archive : Archives] :
              LET row == Record(e, cell, out)
              IN  /\ Surprise(Unless(out = Planned(e)))
                  /\ Become(e, RunAfter(e, cell, row, ReferenceAfter(out, runner[e].reference),
                                     row.status # "ok"))
                  /\ ran' = ran \cup
                       {[row |-> row, out |-> out,
                         binary |-> e.binary[runner[e].build] + onDisk[e][runner[e].build],
                         input |-> onDisk[e].input]}
  /\ UNCHANGED <<csv, onDisk>>

\* Mutant: only the input is looked at again.
InputUnchanged(e) == onDisk[e].input = runner[e].start.input
\* The checks at the end of run_matrix.
Unchanged(e) == onDisk[e] = runner[e].start

\* run_matrix returns, the rows are merged and the file is replaced at once.
Finish(e) ==
  /\ runner[e].pc = "matrix" /\ runner[e].todo = {} /\ runner[e].build = "release"
  /\ LET rows == runner[e].existing \cup runner[e].rows
     IN  IF Unchanged(e) /\ Readable(rows)
         THEN /\ csv' = rows
              /\ Become(e, [Resting("done") EXCEPT !.rows = rows, !.gate = Gate(rows)])
         ELSE csv' = csv /\ Abort(e)
  /\ UNCHANGED <<onDisk, ran, surprises>>

KillRun(e) ==
  /\ runner[e].pc \in {"identify", "matrix"} /\ Surprise(1) /\ Abort(e)
  /\ UNCHANGED <<csv, onDisk, ran>>

ReplaceOnDisk(e) ==
  /\ Surprise(1)
  /\ \E f \in {"input", "debug", "release"} : onDisk' = [onDisk EXCEPT ![e][f] = @ + 10]
  /\ UNCHANGED <<csv, runner, ran>>

MatrixNext ==
  \E e \in Envs :
    \/ Start(e) \/ Identify(e) \/ Probe(e) \/ LeaveOut(e) \/ Execute(e) \/ Finish(e)
    \/ KillRun(e) \/ ReplaceOnDisk(e)

MatrixSpec == MatrixInit /\ [][MatrixNext]_matrixVars

-----------------------------------------------------------------------------
(* Properties.                                                             *)

Passes(e) == runner[e].pc = "done" /\ runner[e].gate = "pass"

\* A run goes forward and its repetitions are those it plans.
MatrixTypeOK ==
  /\ surprises \in 0..MaxSurprises
  /\ \A e \in Envs :
       /\ runner[e].pc \in {"start", "identify", "matrix", "done", "error"}
       /\ runner[e].reference \in Archives \cup {""}
       /\ runner[e].rep \in 0..(runner[e].planned - 1)

\* schema.py:75, :336: whatever a run met, the rows it has made are valid and
\* no coordinate is given twice, so that it is not lost when it is written.
OwnRowsAreReadable ==
  \A e \in Envs : runner[e].pc = "matrix" => Readable(runner[e].rows)

\* runner.py:1157: a row in the file was made by the executable and from the
\* input that it names, replaced files notwithstanding.
EvidenceIsOfItsFiles ==
  \A x \in ran : x.row \in RowsOnDisk =>
    x.binary = x.row.at.binary /\ x.input = x.row.at.input

\* The executions behind the rows of a run that restored the input.
Well(e) == {x \in ran : x.row \in runner[e].rows /\ x.out.end = "ok"}

\* determinism/README.md:79: a run that passes has, on two machines, two
\* architectures and with two compilers, really restored the input LeastReps
\* times with one archive in every required cell of distinct debug and release
\* builds, from one clean source.
PassIsGateOne ==
  \A e \in Envs : Passes(e) =>
    /\ \A f \in {"machine", "arch", "compiler"} :
         \E x, y \in Well(e) : x.row.at.env[f] # y.row.at.env[f]
    /\ \A x, y \in Well(e) : /\ x.out.archive = y.out.archive /\ x.input = y.input
                             /\ x.row.at.source = y.row.at.source
                             /\ x.row.at.source.dirty = "clean"
    /\ \A x, y \in Well(e) :
         x.row.at.env = y.row.at.env /\ x.row.at.build # y.row.at.build => x.binary # y.binary
    /\ \A v \in Well(e), b \in Builds, t \in Threads, k \in Backends :
         \A n \in 0..(LeastReps - 1) : \E x \in Well(e) :
           /\ x.row.at.env = v.row.at.env /\ x.row.at.build = b
           /\ x.row.at.thread = t /\ x.row.at.backend = k /\ x.row.at.rep = n

\* The matrix is evidence of gate 1: what is recorded can be read again, is of
\* the files it names, and a pass means what the gate asks for.
MatrixIsEvidence ==
  /\ MatrixTypeOK
  /\ OwnRowsAreReadable /\ EvidenceIsOfItsFiles /\ PassIsGateOne
===============================================================================
