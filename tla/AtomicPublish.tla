----------------------------- MODULE AtomicPublish -----------------------------
(***************************************************************************)
(* The file handling of the mathsvg command line: compress, decompress and *)
(* inspect run as processes over one directory, check their paths, open    *)
(* the input, write a temporary beside the output, sync it and rename it   *)
(* over the output.  Processes are killed and the machine loses power.     *)
(*                                                                         *)
(* A content is [data, wraps]: data compressed `wraps` times over.  A file *)
(* is a sequence of chunks, each with the content it is a piece of; the    *)
(* compressor and decoder themselves are BlockStream and ArchiveDecode.    *)
(***************************************************************************)
EXTENDS Integers, Sequences, FiniteSets

CONSTANTS
    Names,            \* paths in the directory
    Processes,
    Jobs,             \* the command lines a process may run
    InitialFiles,     \* contents of the files there at the start, by inode
    InitialEntries,   \* directories at the start
    CorruptArchives,  \* contents that look like archives and do not verify
    Chunks,           \* chunks of a whole file
    MaxInodes         \* bound of the model: files ever created

NoName == "no name"
Commands == {"compress", "decompress", "inspect"}
Inodes == 1..MaxInodes

ASSUME JobsAssumption ==
    Jobs \subseteq [command : Commands, input : Names, output : Names, force : BOOLEAN]
ASSUME SizesAssumption ==
    /\ Chunks \in Nat \ {0}
    /\ MaxInodes \in Nat
    /\ Len(InitialFiles) <= MaxInodes
    /\ NoName \notin Names
ASSUME FilesAssumption ==
    /\ InitialFiles \in Seq([data : {InitialFiles[i].data : i \in DOMAIN InitialFiles}, wraps : Nat])
    /\ \A i \in DOMAIN InitialFiles : InitialFiles[i].data # NoName
    /\ InitialEntries \subseteq
         [Names -> [inode : {0}, link : Names \cup {NoName}]
                     \cup [inode : 0..Len(InitialFiles), link : {NoName}]]
    \* a link leads to a file or nowhere, never to another link
    /\ \A d \in InitialEntries : \A n \in Names :
         d[n].link # NoName => d[d[n].link].link = NoName

(* A directory entry: a file, a symbolic link to another name, or neither. *)
Entries == [inode : 0..MaxInodes, link : Names \cup {NoName}]
Free == [inode |-> 0, link |-> NoName]
FileEntry(i) == [inode |-> i, link |-> NoName]

VARIABLES
    entry,       \* the directory
    past,        \* entries each name may have on disk: every one it has had
    file,        \* the chunks of every inode
    durable,     \* how many of them are on disk
    used,        \* inodes allocated
    job,         \* the command line of each process
    pc,
    handle,      \* its open input
    temporary,   \* its NamedTempFile
    verified,    \* inspect --verify: the chunks the streaming pass decoded
    reported,    \* the chunks the report was printed from
    source,      \* what a finished command compressed or restored
    replaced     \* the entry it renamed its output over

directoryVars == <<entry, past>>
diskVars == <<file, durable, used>>
inspectVars == <<verified, reported>>
vars == <<entry, past, file, durable, used, job, pc, handle, temporary, verified, reported,
          source, replaced>>

Active == {"start", "validate", "open", "create", "write", "sync", "persist", "unlink",
           "verify", "read"}
Finished == {"ok", "failed"}

Init ==
    /\ entry \in InitialEntries
    /\ past = [n \in Names |-> {entry[n]}]
    /\ file = [i \in Inodes |-> IF i <= Len(InitialFiles)
                                THEN [k \in 1..Chunks |-> InitialFiles[i]] ELSE <<>>]
    /\ durable = [i \in Inodes |-> Len(file[i])]
    /\ used = Len(InitialFiles)
    /\ job \in [Processes -> Jobs]
    /\ pc = [p \in Processes |-> "start"]
    /\ handle = [p \in Processes |-> 0]
    /\ temporary = [p \in Processes |-> 0]
    /\ verified = [p \in Processes |-> <<>>]
    /\ reported = [p \in Processes |-> <<>>]
    /\ source = [p \in Processes |-> <<>>]
    /\ replaced = [p \in Processes |-> Free]

Goto(p, label) == pc' = [pc EXCEPT ![p] = label]

(* The file a path leads to, through a link; 0 when there is none. *)
Follow(n) == IF entry[n].link = NoName THEN entry[n].inode ELSE entry[entry[n].link].inode

(* absolute_destination: links are resolved only when they lead somewhere. *)
Absolute(n) == IF entry[n].link # NoName /\ Follow(n) # 0 THEN entry[n].link ELSE n

(* An error return drops the NamedTempFile, which removes the temporary. *)
Abandon(p) ==
    /\ Goto(p, "failed")
    /\ temporary' = [temporary EXCEPT ![p] = 0]
--------------------------------------------------------------------------------
(* ensure_distinct_file_paths *)
DistinctNames(j) == Absolute(j.input) # Absolute(j.output)
DistinctFiles(j) ==
    /\ DistinctNames(j)
    /\ Follow(j.input) # 0 /\ Follow(j.output) # 0 => Follow(j.input) # Follow(j.output)

CheckPaths(p) ==
    /\ pc[p] = "start"
    /\ job[p].command # "inspect"
    /\ Goto(p, IF DistinctFiles(job[p]) THEN "validate" ELSE "failed")
    /\ UNCHANGED <<directoryVars, diskVars, job, handle, temporary, inspectVars, source, replaced>>

(* validate_output_target: symlink_metadata does not follow links. *)
ValidateOutput(p) ==
    /\ pc[p] = "validate"
    /\ Goto(p, IF entry[job[p].output] = Free \/ job[p].force THEN "open" ELSE "failed")
    /\ UNCHANGED <<directoryVars, diskVars, job, handle, temporary, inspectVars, source, replaced>>

(* open_regular_file_bounded; inspect starts here. *)
OpenInput(p) ==
    /\ pc[p] = "open" \/ (pc[p] = "start" /\ job[p].command = "inspect")
    /\ IF Follow(job[p].input) = 0
       THEN Goto(p, "failed") /\ UNCHANGED handle
       ELSE /\ handle' = [handle EXCEPT ![p] = Follow(job[p].input)]
            /\ Goto(p, IF job[p].command = "inspect" THEN "verify" ELSE "create")
    /\ UNCHANGED <<directoryVars, diskVars, job, temporary, inspectVars, source, replaced>>

(* create_atomic_temporary *)
SkippedInode == used + 2
NextInode == used + 1

CreateTemporary(p) ==
    /\ pc[p] = "create"
    /\ used < MaxInodes
    /\ used' = used + 1
    /\ temporary' = [temporary EXCEPT ![p] = NextInode]
    /\ Goto(p, "write")
    /\ UNCHANGED <<directoryVars, file, durable, job, handle, inspectVars, source, replaced>>

(* Both passes over an input read the file that was opened, whatever its   *)
(* name has come to mean since.                                            *)
ReopenedInput(p) == IF Follow(job[p].input) = 0 THEN <<>> ELSE file[Follow(job[p].input)]
Input(p) == file[handle[p]]

Compressed(content) == [content EXCEPT !.wraps = @ + 1]
Restored(content) == [content EXCEPT !.wraps = @ - 1]
IsArchive(content) == content.wraps > 0
Verifies(content) == IsArchive(content) /\ content \notin CorruptArchives

OutputOf(command, content) ==
    IF command = "compress" THEN Compressed(content) ELSE Restored(content)

(* One more chunk of the output: a block of the restored file is written   *)
(* before the archive as a whole is known to verify.                       *)
WriteChunk(p) ==
    /\ pc[p] = "write"
    /\ Len(file[temporary[p]]) < Len(Input(p))
    /\ LET content == Input(p)[Len(file[temporary[p]]) + 1]
       IN /\ job[p].command = "decompress" => IsArchive(content)
          /\ file' = [file EXCEPT ![temporary[p]] =
                        Append(@, OutputOf(job[p].command, content))]
    /\ UNCHANGED <<directoryVars, durable, used, job, pc, handle, temporary, inspectVars,
                   source, replaced>>

Whole(chunks) ==
    /\ Len(chunks) = Chunks
    /\ \A k \in 1..Len(chunks) : chunks[k] = chunks[1]

(* The streaming call returns Ok: the input was read to its end and, if it *)
(* was to be restored, verified as a whole.                                *)
UncheckedStream(p) == Len(file[temporary[p]]) = Len(Input(p))
StreamSucceeds(p) ==
    /\ Len(file[temporary[p]]) = Len(Input(p))
    /\ job[p].command = "decompress" => Whole(Input(p)) /\ Verifies(Input(p)[1])

EndStream(p) ==
    /\ pc[p] = "write"
    /\ StreamSucceeds(p)
    /\ source' = [source EXCEPT ![p] = Input(p)]
    /\ Goto(p, "sync")
    /\ UNCHANGED <<directoryVars, diskVars, job, handle, temporary, inspectVars, replaced>>

(* ... or an error: an archive that does not verify, at any block of it,   *)
(* a failed read or a full disk.                                           *)
StreamFails(p) ==
    /\ pc[p] \in {"create", "write", "sync", "persist"}
    /\ Abandon(p)
    /\ UNCHANGED <<directoryVars, diskVars, job, handle, inspectVars, source, replaced>>
--------------------------------------------------------------------------------
(* persist_atomic: flush and sync_all, then the rename. *)
Unsynced(i) == durable
Synced(i) == [durable EXCEPT ![i] = Len(file[i])]

SyncTemporary(p) ==
    /\ pc[p] = "sync"
    /\ durable' = Synced(temporary[p])
    /\ Goto(p, "persist")
    /\ UNCHANGED <<directoryVars, file, used, job, handle, temporary, inspectVars, source, replaced>>

Enter(n, i) ==
    /\ entry' = [entry EXCEPT ![n] = FileEntry(i)]
    /\ past' = [past EXCEPT ![n] = @ \cup {FileEntry(i)}]

(* NamedTempFile::persist replaces the name, persist_noclobber only takes  *)
(* one that is free: a renameat that refuses, or a link that refuses and   *)
(* then an unlink.                                                         *)
Clobbering(p) == TRUE
MayReplace(p) == job[p].force \/ entry[job[p].output] = Free

Rename(p) ==
    /\ pc[p] = "persist"
    /\ MayReplace(p)
    /\ Enter(job[p].output, temporary[p])
    /\ replaced' = [replaced EXCEPT ![p] = entry[job[p].output]]
    /\ temporary' = [temporary EXCEPT ![p] = 0]
    /\ Goto(p, "ok")
    /\ UNCHANGED <<diskVars, job, handle, inspectVars, source>>

Link(p) ==
    /\ pc[p] = "persist"
    /\ ~job[p].force
    /\ MayReplace(p)
    /\ Enter(job[p].output, temporary[p])
    /\ replaced' = [replaced EXCEPT ![p] = entry[job[p].output]]
    /\ Goto(p, "unlink")
    /\ UNCHANGED <<diskVars, job, handle, temporary, inspectVars, source>>

Unlink(p) ==
    /\ pc[p] = "unlink"
    /\ temporary' = [temporary EXCEPT ![p] = 0]
    /\ Goto(p, "ok")
    /\ UNCHANGED <<directoryVars, diskVars, job, handle, inspectVars, source, replaced>>

NameTaken(p) ==
    /\ pc[p] = "persist"
    /\ ~MayReplace(p)
    /\ Abandon(p)
    /\ UNCHANGED <<directoryVars, diskVars, job, handle, inspectVars, source, replaced>>
--------------------------------------------------------------------------------
(* inspect --verify: a streaming decode, a rewind, and a second read of    *)
(* the same open file that the report is made from.                        *)
VerifyArchive(p) ==
    /\ pc[p] = "verify"
    /\ IF Whole(Input(p)) /\ Verifies(Input(p)[1])
       THEN /\ verified' = [verified EXCEPT ![p] = Input(p)]
            /\ Goto(p, "read")
       ELSE Goto(p, "failed") /\ UNCHANGED verified
    /\ UNCHANGED <<directoryVars, diskVars, job, handle, temporary, reported, source, replaced>>

ReadReport(p) ==
    /\ pc[p] = "read"
    /\ reported' = [reported EXCEPT ![p] = Input(p)]
    /\ Goto(p, "ok")
    /\ UNCHANGED <<directoryVars, diskVars, job, handle, temporary, verified, source, replaced>>
--------------------------------------------------------------------------------
(* A killed process leaves its temporary behind; it may be run again. *)
Kill(p) ==
    /\ pc[p] \in Active
    /\ Goto(p, "killed")
    /\ UNCHANGED <<directoryVars, diskVars, job, handle, temporary, inspectVars, source, replaced>>

Rerun(p) ==
    /\ pc[p] = "killed"
    /\ used < MaxInodes
    /\ Goto(p, "start")
    /\ handle' = [handle EXCEPT ![p] = 0]
    /\ temporary' = [temporary EXCEPT ![p] = 0]
    /\ source' = [source EXCEPT ![p] = <<>>]
    /\ replaced' = [replaced EXCEPT ![p] = Free]
    /\ verified' = [verified EXCEPT ![p] = <<>>]
    /\ UNCHANGED <<directoryVars, diskVars, job, reported>>

(* Power loss: nothing syncs the directory, so each name may come back     *)
(* with any entry it has had, and a file with any part that was not synced.*)
PowerLoss ==
    /\ \E p \in Processes : pc[p] # "killed"
    /\ entry' \in [Names -> UNION {past[n] : n \in Names}]
    /\ \A n \in Names : entry'[n] \in past[n]
    /\ \E kept \in [Inodes -> 0..Chunks] :
         /\ \A i \in Inodes : durable[i] <= kept[i] /\ kept[i] <= Len(file[i])
         /\ file' = [i \in Inodes |-> SubSeq(file[i], 1, kept[i])]
         /\ durable' = kept
    /\ pc' = [p \in Processes |-> "killed"]
    /\ UNCHANGED <<past, used, job, handle, temporary, inspectVars, source, replaced>>

Command(p) ==
    \/ CheckPaths(p) \/ ValidateOutput(p) \/ OpenInput(p) \/ CreateTemporary(p)
    \/ WriteChunk(p) \/ EndStream(p) \/ StreamFails(p) \/ SyncTemporary(p)
    \/ Rename(p) \/ Link(p) \/ Unlink(p) \/ NameTaken(p)
    \/ VerifyArchive(p) \/ ReadReport(p)

Next ==
    \/ \E p \in Processes : Command(p) \/ Kill(p) \/ Rerun(p)
    \/ PowerLoss

Spec == Init /\ [][Next]_vars
--------------------------------------------------------------------------------
(* The directory, the disk and every process keep their types. *)
TypeOK ==
    /\ entry \in [Names -> Entries]
    /\ past \in [Names -> SUBSET Entries]
    /\ \A n \in Names : entry[n] \in past[n]
    /\ \A i \in Inodes : durable[i] \in 0..Len(file[i]) /\ (i > used => file[i] = <<>>)
    /\ used \in 0..MaxInodes
    /\ job \in [Processes -> Jobs]
    /\ pc \in [Processes -> Active \cup Finished \cup {"killed"}]
    /\ handle \in [Processes -> 0..MaxInodes]
    /\ temporary \in [Processes -> 0..MaxInodes]
    /\ replaced \in [Processes -> Entries]

(* "No verified prefix or partial output is committed": at any moment, and *)
(* after a power loss, what a name leads to is one whole file, though its  *)
(* chunks were written one by one from an input whose name may meanwhile   *)
(* have been given to another file.                                        *)
PublishedWhole == \A n \in Names : Follow(n) # 0 => Whole(file[Follow(n)])

(* "Output paths are never overwritten by default", also when the name is  *)
(* taken by another process after it was found free.                       *)
UnforcedNeverReplaces ==
    \A p \in Processes :
        pc[p] \in {"unlink", "ok"} /\ ~job[p].force => replaced[p] = Free

(* "input and output may not resolve to the same file": no command, forced *)
(* or not, renames its output over the file it read, whatever other        *)
(* processes do to the names after they were compared.  One case escapes   *)
(* the comparison: an input that is a link to the output, which held no    *)
(* file at that moment and was given one before the input was opened.      *)
LinkToNothing(j) ==
    Free \in past[j.output] /\ \E e \in past[j.input] : e.link = j.output
InputSurvives ==
    \A p \in Processes :
        pc[p] \in {"unlink", "ok"} /\ replaced[p].inode # 0 /\ replaced[p].inode = handle[p]
          => LinkToNothing(job[p])

(* inspect --verify prints `restored_verified` over metadata it reads      *)
(* again after the verifying pass: the report is made from the archive     *)
(* that was verified although its name is renamed over in between.         *)
ReportIsVerified ==
    \A p \in Processes :
        pc[p] = "ok" /\ job[p].command = "inspect" => reported[p] = verified[p]

NoContent == [data |-> NoName, wraps |-> 0]
Torn == [data |-> NoName, wraps |-> 1]

ContentOf(i) ==
    CASE i = 0 -> NoContent
      [] i > 0 /\ Whole(file[i]) -> file[i][1]
      [] OTHER -> Torn

(* The files a name has led to, through the links it has been. *)
PastFiles(n) ==
    {e.inode : e \in {f \in past[n] : f.link = NoName}}
      \cup UNION {{e.inode : e \in past[f.link]} : f \in {g \in past[n] : g.link # NoName}}

Promise == INSTANCE OutputStore WITH
    Contents <- [data : {InitialFiles[i].data : i \in 1..Len(InitialFiles)}, wraps : Nat],
    Nothing <- NoContent,
    Results <- LAMBDA contents :
        {Compressed(c) : c \in contents}
          \cup {Restored(c) : c \in {d \in contents : Verifies(d)}},
    store <- [n \in Names |-> ContentOf(Follow(n))],
    known <- [n \in Names |-> {ContentOf(i) : i \in PastFiles(n)}]

(* Every command publishes in one step, and publishes the result of        *)
(* compressing or restoring a file that was in the directory.              *)
ImplementsStore == Promise!Spec

(* The directory as other programs see it: every name leads to a whole     *)
(* file, and to the one that was there unless the command was forced.      *)
NamesAreSafe == TypeOK /\ PublishedWhole /\ UnforcedNeverReplaces
================================================================================
