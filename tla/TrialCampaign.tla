------------------------------ MODULE TrialCampaign ------------------------------
(***************************************************************************)
(* A MathSVG benchmark campaign on disk: main of benchmarks/runner.py with *)
(* the append-only log of benchmarks/schema.py, and the reader of the      *)
(* analyses (load_completed_evidence of analysis/ablation_pipeline.py),    *)
(* which takes a log only together with the metadata of a completed run.   *)
(*                                                                         *)
(* Runners started with the same arguments share the log and the metadata  *)
(* and nothing locks them; the source tree may be edited meanwhile, a disk *)
(* may fill and a runner may be killed.  A digest is what it digests.      *)
(***************************************************************************)
EXTENDS Integers, Sequences, FiniteSets

CONSTANTS Runners,       \* processes started on one output path
          Cells,         \* the schedule: a sequence of trial cells
          Native,        \* cells of the MathSVG codec itself
          Files,         \* files of the source tree
          DirtyAtStart,  \* files that differ from the commit to begin with
          MaxEdits       \* bound: edits of the source during the campaign

CellSet == {Cells[k] : k \in DOMAIN Cells}
\* build_schedule: at least one cell, and no cell of the codec itself twice.
ASSUME ScheduleAssumption ==
  /\ Cells \in Seq(CellSet) /\ Cells # <<>> /\ MaxEdits \in Nat
  /\ \A i, j \in DOMAIN Cells : Cells[i] \in Native /\ Cells[i] = Cells[j] => i = j

Statuses == {"ok", "failed"}

VARIABLES log,      \* the JSONL file: rows, some of them torn
          meta,     \* the metadata file
          runner,   \* what each runner has done
          tree,     \* the source: commit, committed and current contents
          reader    \* the analysis

vars == <<log, meta, runner, tree, reader>>

NoFile == [state |-> "absent"]
Absent(file) == file = NoFile

\* git_identity: the commit and the digest of `git status --porcelain',
\* which names the files that differ and not their contents.
GitIdentity(t) ==
  [commit |-> t.commit, status |-> {f \in Files : t.now[f] # t.committed[f]}]

Init ==
  /\ log = <<>> /\ meta = NoFile
  /\ runner = [r \in Runners |-> [pc |-> "start", next |-> 1]]
  /\ tree = [commit |-> 0, edits |-> 0, committed |-> [f \in Files |-> 0],
             now |-> [f \in Files |-> IF f \in DirtyAtStart THEN 1 ELSE 0]]
  /\ reader = [pc |-> "start"]

Move(r, to) == runner' = [runner EXCEPT ![r].pc = to]

-----------------------------------------------------------------------------
(* The runner.                                                             *)

\* Mutant: only the raw log is looked for.
LogFree == log = <<>>
Free == log = <<>> /\ Absent(meta)

Check(r) ==
  /\ runner[r].pc = "start"
  /\ Move(r, IF Free THEN "checked" ELSE "refused")
  /\ UNCHANGED <<log, meta, tree, reader>>

\* Mutant: positions of the schedule are counted from 0.
OpenAtZero(r) ==
  /\ runner[r].pc = "checked"
  /\ runner' = [runner EXCEPT ![r] = [pc |-> "trials", next |-> 0,
                                      before |-> GitIdentity(tree)]]
  /\ meta' = [state |-> "open", by |-> r, source |-> GitIdentity(tree)]
  /\ UNCHANGED <<log, tree, reader>>
Open(r) ==
  /\ runner[r].pc = "checked"
  /\ runner' = [runner EXCEPT ![r] = [pc |-> "trials", next |-> 1,
                                      before |-> GitIdentity(tree)]]
  /\ meta' = [state |-> "open", by |-> r, source |-> GitIdentity(tree)]
  /\ UNCHANGED <<log, tree, reader>>

RowOf(r, status) ==
  [by |-> r, cell |-> Cells[runner[r].next], status |-> status,
   commit |-> runner[r].before.commit]

AppendRow(r) ==
  /\ runner[r].pc = "trials" /\ runner[r].next <= Len(Cells)
  /\ \E s \in Statuses : log' = Append(log, RowOf(r, s))
  /\ runner' = [runner EXCEPT ![r].next = @ + 1]
  /\ UNCHANGED <<meta, tree, reader>>

\* os.write stored a part of the row and the next call fails.
ShortAppend(r) ==
  /\ runner[r].pc = "trials" /\ runner[r].next <= Len(Cells)
  /\ log' = Append(log, RowOf(r, "torn"))
  /\ Move(r, "failed")
  /\ UNCHANGED <<meta, tree, reader>>

LastStatus(r) ==
  /\ runner[r].pc = "trials" /\ runner[r].next > Len(Cells)
  /\ runner' = [runner EXCEPT ![r] = [pc |-> "digest", next |-> @.next,
                  before |-> @.before, stable |-> GitIdentity(tree) = @.before]]
  /\ UNCHANGED <<log, meta, tree, reader>>

Mine(r, s) ==
  Cardinality({n \in DOMAIN log : log[n].by = r /\ log[n].status = s})

\* Mutant: only the trials of the codec itself are counted.
PublishNativeOnly(r) ==
  /\ runner[r].pc = "digest"
  /\ meta' = [state |-> "complete", by |-> r, source |-> runner[r].before,
              stable |-> runner[r].stable, digest |-> log,
              rows |-> Len(Cells),
              counts |-> [s \in Statuses |-> Cardinality({n \in DOMAIN log :
                            log[n].status = s /\ log[n].cell \in Native})]]
  /\ Move(r, "done")
  /\ UNCHANGED <<log, tree, reader>>

\* The digest of the log and the completed metadata.
Publish(r) ==
  /\ runner[r].pc = "digest"
  /\ meta' = [state |-> "complete", by |-> r, source |-> runner[r].before,
              stable |-> runner[r].stable, digest |-> log,
              rows |-> Len(Cells),
              counts |-> [s \in Statuses |-> Mine(r, s)]]
  /\ Move(r, "done")
  /\ UNCHANGED <<log, tree, reader>>

Kill(r) ==
  /\ runner[r].pc \in {"checked", "trials", "digest"}
  /\ Move(r, "failed")
  /\ UNCHANGED <<log, meta, tree, reader>>

EditSource ==
  /\ tree.edits < MaxEdits
  /\ \E f \in Files : tree' = [tree EXCEPT !.now[f] = @ + 1, !.edits = @ + 1]
  /\ UNCHANGED <<log, meta, runner, reader>>

CommitSource ==
  /\ tree.edits < MaxEdits
  /\ tree' = [tree EXCEPT !.committed = tree.now, !.commit = @ + 1,
                          !.edits = @ + 1]
  /\ UNCHANGED <<log, meta, runner, reader>>

-----------------------------------------------------------------------------
(* The reader: metadata first, then the digest, then the rows.             *)

Refuse == reader' = [pc |-> "refused"]

ReadMeta ==
  /\ reader.pc = "start" /\ ~Absent(meta)
  /\ IF meta.state = "complete" THEN reader' = [pc |-> "hash", meta |-> meta]
     ELSE Refuse
  /\ UNCHANGED <<log, meta, runner, tree>>

\* Size and SHA-256.
HashLog ==
  /\ reader.pc = "hash"
  /\ IF log = reader.meta.digest THEN reader' = [reader EXCEPT !.pc = "rows"]
     ELSE Refuse
  /\ UNCHANGED <<log, meta, runner, tree>>

\* read_jsonl: a torn row, alone or with a row glued to it, is no record.
Readable(rows) == \A n \in DOMAIN rows : rows[n].status # "torn"

NoNativeTwice(rows) ==
  \A m, n \in DOMAIN rows :
    rows[m].cell \in Native /\ rows[m].cell = rows[n].cell => m = n

\* Mutant: the rows are not counted.
Uncounted(rows, m) == \A n \in DOMAIN rows : rows[n].commit = m.source.commit
\* validate_completed_evidence.
Validated(rows, m) ==
  /\ rows # <<>>
  /\ \A n \in DOMAIN rows : rows[n].commit = m.source.commit
  /\ NoNativeTwice(rows)
  /\ Len(rows) = m.rows
  /\ \A s \in Statuses : m.counts[s] = Cardinality({n \in DOMAIN rows :
                                                      rows[n].status = s})

ReadRows ==
  /\ reader.pc = "rows"
  /\ IF Readable(log) /\ Validated(log, reader.meta)
     THEN reader' = [pc |-> "accepted", meta |-> reader.meta, rows |-> log]
     ELSE Refuse
  /\ UNCHANGED <<log, meta, runner, tree>>

Next ==
  \/ \E r \in Runners : \/ Check(r) \/ Open(r) \/ AppendRow(r)
                        \/ ShortAppend(r) \/ LastStatus(r) \/ Publish(r)
                        \/ Kill(r)
  \/ EditSource \/ CommitSource
  \/ ReadMeta \/ HashLog \/ ReadRows

Spec == Init /\ [][Next]_vars

-----------------------------------------------------------------------------

Rows == [by : Runners, cell : CellSet, status : Statuses \cup {"torn"},
         commit : 0..MaxEdits]

TypeOK ==
  /\ log \in Seq(Rows)
  /\ meta.state \in {"absent", "open", "complete"}
  /\ \A r \in Runners : /\ runner[r].next \in 1..(Len(Cells) + 1)
                        /\ runner[r].pc \in {"start", "refused", "checked", "trials",
                                             "digest", "failed", "done"}
  /\ reader.pc \in {"start", "hash", "rows", "refused", "accepted"}

\* What the analysis accepts is the whole schedule of the one runner the
\* metadata names, in order, and what that runner digested: whichever runners
\* shared the file, failed in it or were still appending to it.
AcceptedIsOneCampaign ==
  reader.pc = "accepted" =>
    /\ reader.rows = reader.meta.digest
    /\ [n \in DOMAIN reader.rows |-> reader.rows[n].cell] = Cells
    /\ \A n \in DOMAIN reader.rows : reader.rows[n].by = reader.meta.by

Opened == {r \in Runners : runner[r].pc \in {"trials", "digest", "done"}}
Wrote == {log[n].by : n \in DOMAIN log}

\* The evidence of a runner that had the files for itself and completed is
\* always accepted, with failed trials and however the source was edited.
HonestRunAccepted ==
  \A r \in Runners :
    /\ runner[r].pc = "done" /\ \A q \in Runners \ {r} :
                                  runner[q].pc \in {"start", "refused"}
    => /\ meta.by = r /\ meta.digest = log
       /\ Readable(log) /\ Validated(log, meta)

\* A runner that starts after another one opened the campaign changes
\* nothing: neither the log nor the metadata of the first.
LateRunnersTouchNothing ==
  [][\A r \in Runners :
       runner[r].pc = "start" /\ ~Absent(meta) /\ runner'[r] # runner[r]
         => runner'[r].pc = "refused" /\ UNCHANGED <<log, meta>>]_vars

\* The log that is analysed is that of one honest campaign, and an honest
\* campaign is never refused.
LogIsOneCampaign ==
  /\ TypeOK
  /\ AcceptedIsOneCampaign /\ HonestRunAccepted
===============================================================================
