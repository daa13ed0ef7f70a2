------------------------------ MODULE CommandProofs -----------------------------
(***************************************************************************)
(* The commands of mathsvg: the names they publish under, and the program  *)
(* that a compression searches for.                                        *)
(*                                                                         *)
(* Names: what the run of AtomicPublish shows for two commands over two or *)
(* three names holds for every directory, any number of commands and any   *)
(* files.  Names and inputs come first, what is reported and the           *)
(* refinement after.                                                       *)
(*                                                                         *)
(* Search: what the run of SegmentSearch shows for blocks of up to three   *)
(* microblocks and two providers holds for every input, any budgets and    *)
(* any answers of the providers.  The invariant says, at every place of    *)
(* the search, which rows of the ledger the choices so far tile their      *)
(* blocks with, what they cost at most and at least and, while nothing was *)
(* skipped, that every way to reach the places passed is among the paths.  *)
(* A cut of the block into pieces is such a way, so that no archive the    *)
(* offered candidates allow is less than the one a complete search made.   *)
(***************************************************************************)
EXTENDS AtomicPublish, SegmentSearch, SequenceTheorems, WellFoundedInduction, TLAPS

-----------------------------------------------------------------------------
(* Names and files.                                                        *)

Data == {InitialFiles[i].data : i \in DOMAIN InitialFiles}
Content == [data : Data, wraps : Int]
\* An entry is a link or leads to a file, never both.
Simple == [inode : {0}, link : Names \cup {NoName}] \cup [inode : 0..MaxInodes, link : {NoName}]
Labels == Active \cup Finished \cup {"killed"}
Writing == {"write", "sync", "persist"}
Reading == {"create"} \cup Writing

DirectoryInv ==
    /\ entry \in [Names -> Simple]
    /\ past \in [Names -> SUBSET Simple]
    /\ \A n \in Names : entry[n] \in past[n]
    /\ \A n \in Names : \A e \in past[n] :
         e.link # NoName => \A f \in past[e.link] : f.link = NoName

\* A file any name has ever had is whole and on disk.
DiskInv ==
    /\ file \in [Inodes -> Seq(Content)]
    /\ durable \in [Inodes -> Nat]
    /\ used \in 0..MaxInodes
    /\ \A i \in Inodes : durable[i] <= Len(file[i]) /\ (i > used => file[i] = <<>>)
    /\ \A n \in Names : \A e \in past[n] :
         /\ e.inode <= used
         /\ e.inode # 0 => Whole(file[e.inode]) /\ durable[e.inode] = Chunks

ProcessInv ==
    /\ job \in [Processes -> Jobs]
    /\ pc \in [Processes -> Labels]
    /\ handle \in [Processes -> 0..MaxInodes]
    /\ temporary \in [Processes -> 0..MaxInodes]
    /\ replaced \in [Processes -> Simple]

\* A name has, or has had, this file.
Held(i) == i # 0 /\ \E n \in Names : \E e \in past[n] : e.inode = i

\* A temporary has one writer and no name yet.
TemporaryInv ==
    \A p \in Processes : pc[p] \in Writing =>
        /\ temporary[p] \in 1..used
        /\ ~Held(temporary[p])
        /\ \A q \in Processes : pc[q] \in Writing /\ temporary[q] = temporary[p] => q = p

HandleInv == \A p \in Processes : pc[p] \in Reading => Held(handle[p])

\* All chunks of a temporary are made of the one content of the input.
CopyInv ==
    \A p \in Processes :
        /\ pc[p] \in Writing =>
             \A k \in 1..Len(file[temporary[p]]) :
                file[temporary[p]][k] = OutputOf(job[p].command, file[handle[p]][1])
        /\ pc[p] \in {"sync", "persist"} => Len(file[temporary[p]]) = Chunks
        /\ pc[p] = "persist" => durable[temporary[p]] = Chunks

ReplacedInv ==
    \A p \in Processes :
        /\ pc[p] \in {"unlink", "ok"} /\ ~job[p].force => replaced[p] = Free
        /\ pc[p] \notin {"unlink", "ok", "killed"} => replaced[p] = Free

\* What is left of the comparison of the two paths while others rename files.
Compared(p) ==
    LET j == job[p] IN
    /\ j.input # j.output
    /\ entry[j.input].link = j.output => Free \in past[j.output]
    /\ Follow(j.input) # 0 /\ Follow(j.input) = entry[j.output].inode
         => entry[j.input].link = j.output
PathsInv ==
    \A p \in Processes :
        /\ pc[p] \in {"validate", "open"} => Compared(p)
        /\ pc[p] \in Reading =>
             (entry[job[p].output].inode = handle[p] => LinkToNothing(job[p]))

IInv ==
    /\ DirectoryInv /\ DiskInv /\ ProcessInv
    /\ TemporaryInv /\ HandleInv /\ CopyInv /\ ReplacedInv /\ PathsInv /\ InputSurvives

--------------------------------------------------------------------------------
(* Facts about the operators.                                              *)

LEMMA JobTypes ==
    \A j \in Jobs : /\ j.command \in Commands /\ j.input \in Names
                    /\ j.output \in Names /\ j.force \in BOOLEAN
  BY JobsAssumption

LEMMA OutputIsContent ==
  ASSUME NEW command, NEW c \in Content
  PROVE  OutputOf(command, c) \in Content
  BY DEF OutputOf, Compressed, Restored, Content

LEMMA SimpleEntries ==
  /\ \A e \in Simple : e.inode \in 0..MaxInodes /\ e.link \in Names \cup {NoName}
  /\ \A e \in Simple : e.inode # 0 => e.link = NoName
  /\ \A e \in Simple : e.inode = 0 /\ e.link = NoName => e = Free
  /\ \A i \in 0..MaxInodes : /\ FileEntry(i) \in Simple
                             /\ FileEntry(i).inode = i /\ FileEntry(i).link = NoName
  /\ Free \in Simple /\ Free.inode = 0 /\ Free.link = NoName
  /\ Simple \subseteq Entries
  BY SizesAssumption DEF Simple, FileEntry, Free, Entries

\* The entry at the end of a path is, or has been, the entry of some name.
LEMMA FollowIsHeld ==
  ASSUME DirectoryInv, NEW n \in Names
  PROVE  /\ Follow(n) \in 0..MaxInodes
         /\ Follow(n) # 0 => Held(Follow(n))
  <1>1. entry[n] \in Simple /\ entry[n] \in past[n]
    BY DEF DirectoryInv
  <1>2. CASE entry[n].link = NoName
    BY <1>1, <1>2, SimpleEntries DEF Follow, Held
  <1>3. CASE entry[n].link # NoName
    <2>1. entry[n].link \in Names
      BY <1>1, <1>3, SimpleEntries
    <2>2. entry[entry[n].link] \in Simple /\ entry[entry[n].link] \in past[entry[n].link]
      BY <2>1 DEF DirectoryInv
    <2> QED BY <1>3, <2>1, <2>2, SimpleEntries DEF Follow, Held
  <1> QED BY <1>2, <1>3

LEMMA HeldIsWhole ==
  ASSUME DirectoryInv, DiskInv, NEW i, Held(i)
  PROVE  i \in 1..used /\ i \in Inodes /\ Whole(file[i]) /\ durable[i] = Chunks
  <1> PICK n \in Names : \E e \in past[n] : e.inode = i
    BY DEF Held
  <1> PICK e \in past[n] : e.inode = i
    OBVIOUS
  <1>1. e \in Simple BY DEF DirectoryInv
  <1> QED BY <1>1, SimpleEntries, SizesAssumption DEF Held, DiskInv, Inodes

LEMMA TemporaryIsInode ==
  ASSUME DiskInv, TemporaryInv, NEW p \in Processes, pc[p] \in Writing
  PROVE  /\ used \in Nat /\ temporary[p] \in 1..used /\ temporary[p] \in Inodes
         /\ ~Held(temporary[p])
  BY SizesAssumption DEF DiskInv, TemporaryInv, Inodes
--------------------------------------------------------------------------------
(* Steps of one command that change neither a name nor a file.             *)

LEMMA LocalStep ==
  ASSUME IInv, NEW p \in Processes,
         UNCHANGED <<directoryVars, diskVars, job>>,
         ProcessInv',
         \A q \in Processes \ {p} :
            /\ pc'[q] = pc[q] /\ handle'[q] = handle[q]
            /\ temporary'[q] = temporary[q] /\ replaced'[q] = replaced[q],
         pc'[p] \in Writing =>
            pc[p] \in Writing /\ temporary'[p] = temporary[p] /\ handle'[p] = handle[p],
         pc'[p] \in Reading =>
            /\ Held(handle'[p])
            /\ entry[job[p].output].inode = handle'[p] => LinkToNothing(job[p]),
         pc'[p] = "sync" => Len(file[temporary[p]]) = Chunks,
         pc'[p] # "persist",
         pc'[p] \in {"validate", "open"} => Compared(p),
         pc'[p] \in {"unlink", "ok"} =>
            /\ pc[p] \in {"unlink", "ok"} \/ replaced[p] = Free
            /\ replaced'[p] = replaced[p] /\ handle'[p] = handle[p],
         pc'[p] \notin {"unlink", "ok", "killed"} => replaced'[p] = Free
  PROVE  IInv'
  <1> USE DEF IInv, directoryVars, diskVars
  <1>1. DirectoryInv' /\ DiskInv'
    BY DEF DirectoryInv, DiskInv, Whole
  <1>2. \A i : Held(i)' <=> Held(i)
    BY DEF Held
  <1>3. TemporaryInv'
    BY <1>2 DEF TemporaryInv
  <1>4. HandleInv'
    BY <1>2 DEF HandleInv
  <1>5. CopyInv'
    BY DEF CopyInv, Writing
  <1>6. ReplacedInv'
    BY DEF ReplacedInv
  <1>7. \A q \in Processes : /\ Compared(q)' <=> Compared(q)
                             /\ LinkToNothing(job[q])' <=> LinkToNothing(job[q])
    BY DEF Compared, Follow, LinkToNothing
  <1>8. PathsInv'
    BY <1>7 DEF PathsInv
  <1>9. InputSurvives'
    <2> SUFFICES ASSUME NEW q \in Processes, pc'[q] \in {"unlink", "ok"},
                        replaced'[q].inode # 0, replaced'[q].inode = handle'[q]
                 PROVE  LinkToNothing(job[q])
      BY <1>7 DEF InputSurvives
    <2>1. replaced'[q] = replaced[q] /\ handle'[q] = handle[q]
      OBVIOUS
    <2>2. pc[q] \in {"unlink", "ok"}
      BY <2>1, SimpleEntries
    <2> QED BY <2>1, <2>2 DEF InputSurvives
  <1> QED BY <1>1, <1>3, <1>4, <1>5, <1>6, <1>8, <1>9

LEMMA CheckPathsIInv ==
  ASSUME IInv, NEW p \in Processes, CheckPaths(p)
  PROVE  IInv'
  <1> DEFINE a == job[p].input
             b == job[p].output
  <1> USE DEF IInv, CheckPaths, Goto
  <1>1. a \in Names /\ b \in Names
    BY JobTypes DEF ProcessInv
  <1>2. ASSUME DistinctFiles(job[p]) PROVE Compared(p)
    <2>1. Absolute(a) # Absolute(b) /\ (Follow(a) # 0 /\ Follow(b) # 0 => Follow(a) # Follow(b))
      BY <1>2 DEF DistinctFiles, DistinctNames
    <2>2. a # b
      BY <2>1
    <2>3. /\ entry[b] \in Simple /\ entry[b] \in past[b] /\ entry[a] \in past[a]
          /\ entry[b].inode # 0 => Absolute(b) = b /\ Follow(b) = entry[b].inode
      BY <1>1, SimpleEntries DEF DirectoryInv, Absolute, Follow
    <2>4. ASSUME entry[a].link = b PROVE Free \in past[b]
      <3>1. b # NoName
        BY <1>1, SizesAssumption
      <3>2. Follow(a) = entry[b].inode
        BY <2>4, <3>1 DEF Follow
      <3>3. entry[b].inode = 0
        BY <2>1, <2>3, <2>4, <3>1, <3>2 DEF Absolute
      <3>4. entry[b].link = NoName
        BY <1>1, <2>3, <2>4, <3>1 DEF DirectoryInv
      <3> QED BY <2>3, <3>3, <3>4, SimpleEntries
    <2>5. ~(Follow(a) # 0 /\ Follow(a) = entry[b].inode)
      BY <2>1, <2>3
    <2> QED BY <2>2, <2>4, <2>5 DEF Compared
  <1>3. ProcessInv'
    BY DEF ProcessInv, Labels, Active, Finished
  <1>4. pc'[p] \in {"validate", "failed"} /\ (pc'[p] = "validate" => DistinctFiles(job[p]))
    BY DEF ProcessInv
  <1>5. replaced[p] = Free
    BY DEF ReplacedInv
  <1> QED BY <1>2, <1>3, <1>4, <1>5, LocalStep DEF Reading, Writing, ProcessInv

LEMMA ValidateOutputIInv ==
  ASSUME IInv, NEW p \in Processes, ValidateOutput(p)
  PROVE  IInv'
  <1> USE DEF IInv, ValidateOutput, Goto
  <1>1. ProcessInv'
    BY DEF ProcessInv, Labels, Active, Finished
  <1>2. pc'[p] \in {"open", "failed"}
    BY DEF ProcessInv
  <1>3. replaced[p] = Free /\ Compared(p)
    BY DEF ReplacedInv, PathsInv
  <1> QED BY <1>1, <1>2, <1>3, LocalStep DEF Reading, Writing, ProcessInv

LEMMA OpenInputIInv ==
  ASSUME IInv, NEW p \in Processes, OpenInput(p)
  PROVE  IInv'
  <1> USE DEF IInv, OpenInput, Goto
  <1>1. job[p].input \in Names /\ job[p].output \in Names
    BY JobTypes DEF ProcessInv
  <1>2. Follow(job[p].input) \in 0..MaxInodes
    BY <1>1, FollowIsHeld
  <1>3. ProcessInv'
    BY <1>2 DEF ProcessInv, Labels, Active, Finished
  <1>4. pc'[p] \in {"failed", "verify", "create"}
    BY DEF ProcessInv
  <1>5. replaced[p] = Free
    BY DEF ReplacedInv
  <1>6. ASSUME pc'[p] = "create"
        PROVE  /\ Held(handle'[p])
               /\ entry[job[p].output].inode = handle'[p] => LinkToNothing(job[p])
    <2>1. /\ handle'[p] = Follow(job[p].input) /\ handle'[p] # 0
          /\ pc[p] = "open"
      BY <1>6 DEF ProcessInv
    <2>2. Compared(p)
      BY <2>1 DEF PathsInv
    <2>held. Held(handle'[p])
      BY <1>1, <2>1, FollowIsHeld
    <2>4. entry[job[p].input] \in past[job[p].input]
      BY <1>1 DEF DirectoryInv
    <2> QED BY <2>1, <2>2, <2>held, <2>4 DEF Compared, LinkToNothing
  <1> QED BY <1>3, <1>4, <1>5, <1>6, LocalStep DEF Reading, Writing, ProcessInv

LEMMA EndStreamIInv ==
  ASSUME IInv, NEW p \in Processes, EndStream(p)
  PROVE  IInv'
  <1> USE DEF IInv, EndStream, Goto
  <1>1. Held(handle[p])
    BY DEF HandleInv, Reading, Writing
  <1>2. Len(file[temporary[p]]) = Chunks
    BY <1>1, HeldIsWhole DEF StreamSucceeds, Input, Whole
  <1>3. ProcessInv' /\ pc'[p] = "sync"
    BY DEF ProcessInv, Labels, Active
  <1>4. replaced[p] = Free
    BY DEF ReplacedInv
  <1>5. entry[job[p].output].inode = handle[p] => LinkToNothing(job[p])
    BY DEF PathsInv, Reading, Writing
  <1> QED BY <1>1, <1>2, <1>3, <1>4, <1>5, LocalStep DEF Reading, Writing, ProcessInv

\* A command ends, is killed or reports: what it was doing no longer counts.
LEMMA EndIInv ==
  ASSUME IInv, NEW p \in Processes,
         StreamFails(p) \/ NameTaken(p) \/ VerifyArchive(p) \/ ReadReport(p) \/ Kill(p)
  PROVE  IInv'
  <1> USE DEF IInv, StreamFails, NameTaken, VerifyArchive, ReadReport, Kill, Abandon, Goto
  <1>1. ProcessInv'
    <2>1. pc' \in [Processes -> Labels]
      BY DEF ProcessInv, Labels, Active, Finished
    <2>2. temporary' \in [Processes -> 0..MaxInodes]
      BY SizesAssumption DEF ProcessInv
    <2> QED BY <2>1, <2>2 DEF ProcessInv
  <1>2. /\ pc'[p] \in {"failed", "read", "ok", "killed"}
        /\ pc'[p] # "killed" => replaced[p] = Free
    BY DEF ProcessInv, ReplacedInv
  <1>3. /\ UNCHANGED <<directoryVars, diskVars, job>>
        /\ handle' = handle /\ replaced' = replaced
        /\ \A q \in Processes \ {p} : pc'[q] = pc[q] /\ temporary'[q] = temporary[q]
    BY DEF ProcessInv
  <1>4. /\ pc'[p] \notin Reading /\ pc'[p] \notin Writing /\ pc'[p] # "unlink"
        /\ pc'[p] \notin {"sync", "persist", "validate", "open"}
    BY <1>2 DEF Reading, Writing
  <1> HIDE DEF StreamFails, NameTaken, VerifyArchive, ReadReport, Kill, Abandon, Goto
  <1>5. pc'[p] = "ok" => replaced[p] = Free
    BY <1>2
  <1> QED BY <1>1, <1>2, <1>3, <1>4, <1>5, LocalStep

LEMMA UnlinkIInv ==
  ASSUME IInv, NEW p \in Processes, Unlink(p)
  PROVE  IInv'
  <1> USE DEF IInv, Unlink, Goto
  <1>1. ProcessInv' /\ pc'[p] = "ok" /\ pc[p] = "unlink"
    BY SizesAssumption DEF ProcessInv, Labels, Active, Finished
  <1>2. /\ UNCHANGED <<directoryVars, diskVars, job>>
        /\ handle' = handle /\ replaced' = replaced
        /\ \A q \in Processes \ {p} : pc'[q] = pc[q] /\ temporary'[q] = temporary[q]
    BY DEF ProcessInv
  <1>3. pc'[p] \notin Reading /\ pc'[p] \notin Writing
    BY <1>1 DEF Reading, Writing
  <1> HIDE DEF Unlink, Goto
  <1> QED BY <1>1, <1>2, <1>3, LocalStep

LEMMA RerunIInv ==
  ASSUME IInv, NEW p \in Processes, Rerun(p)
  PROVE  IInv'
  <1> USE DEF IInv, Rerun, Goto
  <1>1. ProcessInv' /\ pc'[p] = "start" /\ replaced'[p] = Free
    BY SimpleEntries DEF ProcessInv, Labels, Active, Finished
  <1> QED BY <1>1, LocalStep DEF Reading, Writing, ProcessInv
--------------------------------------------------------------------------------
(* Steps that write a temporary or give it a name.                         *)

LEMMA CreateTemporaryIInv ==
  ASSUME IInv, NEW p \in Processes, CreateTemporary(p)
  PROVE  IInv'
  <1> USE SizesAssumption DEF IInv, CreateTemporary, Goto, NextInode, directoryVars
  <1>1. used \in Nat /\ used + 1 \in Inodes /\ used' \in 0..MaxInodes /\ pc[p] = "create"
    BY DEF DiskInv, Inodes
  <1>2. DirectoryInv'
    BY DEF DirectoryInv
  <1>3. \A n \in Names : \A e \in past[n] : e.inode \in Nat /\ e.inode <= used
    BY SimpleEntries DEF DirectoryInv, DiskInv
  <1>4. DiskInv'
    <2>1. \A i \in Inodes : i > used' => file[i] = <<>>
      BY <1>1 DEF DiskInv, Inodes
    <2>2. \A n \in Names : \A e \in past[n] : e.inode <= used'
      BY <1>1, <1>3
    <2> QED BY <1>1, <2>1, <2>2 DEF DiskInv, Whole
  <1>5. ProcessInv' /\ pc'[p] = "write" /\ temporary'[p] = used + 1
    BY <1>1 DEF ProcessInv, Labels, Active, Inodes
  <1>6. \A i : Held(i)' <=> Held(i)
    BY DEF Held
  <1>7. ~Held(used + 1)
    BY <1>1, <1>3 DEF Held
  <1>8. \A q \in Processes \ {p} : pc'[q] = pc[q] /\ temporary'[q] = temporary[q]
    BY DEF ProcessInv
  <1>9. TemporaryInv'
    BY <1>1, <1>5, <1>6, <1>7, <1>8 DEF TemporaryInv
  <1>10. HandleInv'
    BY <1>1, <1>5, <1>6, <1>8 DEF HandleInv, Reading
  <1>11. file[used + 1] = <<>>
    BY <1>1 DEF DiskInv
  <1>12. CopyInv'
    BY <1>5, <1>8, <1>11 DEF CopyInv, Writing
  <1>13. ReplacedInv' /\ InputSurvives'
    BY <1>1, <1>5, <1>8 DEF ReplacedInv, InputSurvives, LinkToNothing
  <1>14. PathsInv'
    BY <1>1, <1>5, <1>8 DEF PathsInv, Compared, LinkToNothing, Follow, Reading
  <1> QED BY <1>2, <1>4, <1>5, <1>9, <1>10, <1>12, <1>13, <1>14

LEMMA WriteChunkIInv ==
  ASSUME IInv, NEW p \in Processes, WriteChunk(p)
  PROVE  IInv'
  <1> DEFINE t == temporary[p]
             k == Len(file[t]) + 1
             c == OutputOf(job[p].command, Input(p)[k])
  <1> USE DEF IInv, WriteChunk, directoryVars
  <1>1. /\ pc[p] = "write" /\ file' = [file EXCEPT ![t] = Append(@, c)]
        /\ Len(file[t]) < Len(Input(p))
    BY DEF WriteChunk
  <1>2. t \in 1..used /\ t \in Inodes /\ ~Held(t) /\ used \in Nat
    BY <1>1, TemporaryIsInode DEF Writing
  <1>3. Held(handle[p]) /\ handle[p] # t /\ handle[p] \in Inodes /\ Whole(Input(p))
    BY <1>1, <1>2, HeldIsWhole DEF HandleInv, Reading, Writing, Input
  <1>4. file[t] \in Seq(Content) /\ Input(p) \in Seq(Content) /\ k \in 1..Len(Input(p))
    BY <1>1, <1>2, <1>3 DEF DiskInv, Input
  <1>5. c \in Content /\ c = OutputOf(job[p].command, file[handle[p]][1])
    <2>1. Input(p)[k] \in Content /\ Input(p)[k] = Input(p)[1]
      BY <1>3, <1>4 DEF Whole
    <2> QED BY <2>1, OutputIsContent DEF Input
  <1>6. /\ file'[t] \in Seq(Content) /\ Len(file'[t]) = Len(file[t]) + 1
        /\ \A n \in 1..Len(file[t]) : file'[t][n] = file[t][n]
        /\ file'[t][Len(file[t]) + 1] = c
    BY <1>1, <1>2, <1>4, <1>5, AppendProperties DEF DiskInv
  <1>7. \A i \in Inodes \ {t} : file'[i] = file[i]
    BY <1>1 DEF DiskInv
  <1>8. \A n \in Names : \A e \in past[n] : e.inode # 0 => e.inode \in Inodes \ {t}
    BY <1>2, SimpleEntries DEF Held, DirectoryInv, Inodes
  <1>9. DirectoryInv' /\ ProcessInv'
    BY DEF DirectoryInv, ProcessInv
  <1>10. DiskInv'
    <2>1. file' \in [Inodes -> Seq(Content)]
      BY <1>1, <1>2, <1>6, <1>7 DEF DiskInv
    <2>2. \A i \in Inodes : durable[i] <= Len(file'[i]) /\ (i > used => file'[i] = <<>>)
      BY <1>2, <1>4, <1>6, <1>7 DEF DiskInv, Inodes
    <2>3. \A n \in Names : \A e \in past[n] : e.inode # 0 => Whole(file'[e.inode])
      BY <1>7, <1>8 DEF DiskInv
    <2> QED BY <2>1, <2>2, <2>3 DEF DiskInv, Whole
  <1>11. \A i : Held(i)' <=> Held(i)
    BY DEF Held
  <1>12. TemporaryInv' /\ HandleInv'
    BY <1>11 DEF TemporaryInv, HandleInv
  <1>13. CopyInv'
    <2> SUFFICES ASSUME NEW q \in Processes, pc[q] \in Writing
                 PROVE  /\ \A n \in 1..Len(file'[temporary[q]]) :
                             file'[temporary[q]][n] = OutputOf(job[q].command, file'[handle[q]][1])
                        /\ pc[q] \in {"sync", "persist"} => Len(file'[temporary[q]]) = Chunks
                        /\ pc[q] = "persist" => durable[temporary[q]] = Chunks
      BY DEF CopyInv, Writing
    <2>1. handle[q] \in Inodes \ {t} /\ file'[handle[q]] = file[handle[q]]
      BY <1>2, <1>7, HeldIsWhole DEF HandleInv, Reading
    <2>2. CASE q = p
      BY <1>1, <1>3, <1>4, <1>5, <1>6, <2>1, <2>2 DEF CopyInv
    <2>3. CASE q # p
      <3>1. temporary[q] \in Inodes \ {t}
        BY <1>1, <2>3, TemporaryIsInode DEF TemporaryInv, Writing
      <3> QED BY <1>7, <2>1, <3>1 DEF CopyInv
    <2> QED BY <2>2, <2>3
  <1>14. ReplacedInv' /\ InputSurvives' /\ PathsInv'
    BY DEF ReplacedInv, InputSurvives, PathsInv, Compared, LinkToNothing, Follow
  <1> QED BY <1>9, <1>10, <1>12, <1>13, <1>14

LEMMA SyncTemporaryIInv ==
  ASSUME IInv, NEW p \in Processes, SyncTemporary(p)
  PROVE  IInv'
  <1> DEFINE t == temporary[p]
  <1> USE DEF IInv, SyncTemporary, Goto, Synced, directoryVars
  <1>1. t \in 1..used /\ t \in Inodes /\ ~Held(t) /\ Len(file[t]) = Chunks /\ pc[p] = "sync"
    BY TemporaryIsInode DEF Writing, CopyInv
  <1>2. durable' = [durable EXCEPT ![t] = Len(file[t])] /\ Len(file[t]) \in Nat
    BY <1>1, SizesAssumption
  <1>3. DirectoryInv'
    BY DEF DirectoryInv
  <1>4. ProcessInv' /\ pc'[p] = "persist"
    BY DEF ProcessInv, Labels, Active
  <1>5. \A n \in Names : \A e \in past[n] : e.inode # 0 => e.inode # t /\ e.inode \in Inodes
    BY <1>1, SimpleEntries DEF Held, DirectoryInv, Inodes
  <1>6. DiskInv'
    BY <1>1, <1>2, <1>5 DEF DiskInv, Whole
  <1>7. \A i : Held(i)' <=> Held(i)
    BY DEF Held
  <1>8. \A q \in Processes \ {p} : pc'[q] = pc[q]
    BY DEF ProcessInv
  <1>9. TemporaryInv' /\ HandleInv'
    BY <1>1, <1>4, <1>7, <1>8 DEF TemporaryInv, HandleInv, Reading, Writing
  <1>10. CopyInv'
    <2>1. durable'[t] = Chunks
      BY <1>1, <1>2 DEF DiskInv
    <2>2. ASSUME NEW q \in Processes \ {p}, pc[q] = "persist"
          PROVE  durable'[temporary[q]] = Chunks
      <3>1. temporary[q] \in Inodes
        BY <2>2, TemporaryIsInode DEF Writing
      <3> QED BY <1>1, <1>2, <2>2, <3>1 DEF DiskInv, CopyInv
    <2> QED BY <1>1, <1>4, <1>8, <2>1, <2>2 DEF CopyInv, Writing
  <1>11. ReplacedInv' /\ InputSurvives'
    BY <1>1, <1>4, <1>8 DEF ReplacedInv, InputSurvives, LinkToNothing
  <1>12. PathsInv'
    BY <1>1, <1>4, <1>8 DEF PathsInv, Compared, LinkToNothing, Follow, Reading, Writing
  <1> QED BY <1>3, <1>4, <1>6, <1>9, <1>10, <1>11, <1>12
\* A command gives its output the name: what it was found free for, or forced
\* over, is not what another command writes or read.
LEMMA EnterIInv ==
  ASSUME IInv, NEW p \in Processes, NEW label \in {"ok", "unlink"},
         pc[p] = "persist", MayReplace(p),
         Enter(job[p].output, temporary[p]),
         replaced' = [replaced EXCEPT ![p] = entry[job[p].output]],
         pc' = [pc EXCEPT ![p] = label],
         temporary' \in [Processes -> 0..MaxInodes],
         \A q \in Processes \ {p} : temporary'[q] = temporary[q],
         UNCHANGED <<diskVars, job, handle>>
  PROVE  IInv'
  <1> DEFINE t == temporary[p]
             o == job[p].output
  <1> USE DEF IInv, diskVars
  <1>1. o \in Names /\ job[p] \in Jobs
    BY JobTypes DEF ProcessInv
  <1>2. t \in 1..used /\ t \in Inodes /\ ~Held(t) /\ t \in Nat \ {0} /\ t \in 0..MaxInodes
    BY TemporaryIsInode, SizesAssumption DEF Writing, ProcessInv
  <1>3. /\ entry' = [entry EXCEPT ![o] = FileEntry(t)]
        /\ past' = [past EXCEPT ![o] = @ \cup {FileEntry(t)}]
    BY DEF Enter
  <1>4. FileEntry(t) \in Simple /\ FileEntry(t).inode = t /\ FileEntry(t).link = NoName
    BY <1>2, SimpleEntries
  <1>5. \A n \in Names : /\ past[n] \subseteq past'[n]
                         /\ past'[n] \subseteq past[n] \cup {FileEntry(t)}
    BY <1>3 DEF DirectoryInv
  <1>6. DirectoryInv'
    <2>1. entry' \in [Names -> Simple] /\ past' \in [Names -> SUBSET Simple]
      BY <1>1, <1>3, <1>4 DEF DirectoryInv
    <2>2. \A n \in Names : entry'[n] \in past'[n]
      BY <1>1, <1>3 DEF DirectoryInv
    <2>3. ASSUME NEW n \in Names, NEW e \in past'[n], e.link # NoName, NEW f \in past'[e.link]
          PROVE  f.link = NoName
      <3>1. e \in past[n] /\ e.link \in Names
        BY <1>4, <1>5, <2>1, <2>3, SimpleEntries
      <3> QED BY <1>4, <1>5, <2>3, <3>1 DEF DirectoryInv
    <2> QED BY <2>1, <2>2, <2>3 DEF DirectoryInv
  <1>7. Whole(file[t]) /\ durable[t] = Chunks
    <2>1. /\ Len(file[t]) = Chunks /\ durable[t] = Chunks
          /\ \A k \in 1..Len(file[t]) : file[t][k] = OutputOf(job[p].command, file[handle[p]][1])
      BY DEF CopyInv, Writing
    <2>2. 1 \in 1..Len(file[t])
      BY <2>1, SizesAssumption
    <2> QED BY <2>1, <2>2 DEF Whole
  <1>8. DiskInv'
    <2>1. \A n \in Names : \A e \in past'[n] :
            /\ e.inode <= used
            /\ e.inode # 0 => Whole(file[e.inode]) /\ durable[e.inode] = Chunks
      BY <1>2, <1>4, <1>5, <1>7 DEF DiskInv
    <2> QED BY <2>1 DEF DiskInv, Whole
  <1>9. ProcessInv' /\ pc'[p] = label /\ replaced'[p] = entry[o]
    BY <1>1 DEF ProcessInv, Labels, Active, Finished, DirectoryInv
  <1>10. \A q \in Processes \ {p} : pc'[q] = pc[q] /\ replaced'[q] = replaced[q]
    BY DEF ProcessInv
  <1>11. \A i : Held(i)' => Held(i) \/ i = t
    BY <1>4, <1>5 DEF Held
  <1>12. \A i : Held(i) => Held(i)'
    BY <1>5 DEF Held
  <1>13. label \notin Writing /\ label \notin Reading
    BY DEF Writing, Reading
  <1>14. TemporaryInv'
    <2> SUFFICES ASSUME NEW q \in Processes, pc'[q] \in Writing
                 PROVE  /\ temporary'[q] \in 1..used
                        /\ ~Held(temporary[q])'
                        /\ \A r \in Processes :
                             pc'[r] \in Writing /\ temporary'[r] = temporary'[q] => r = q
      BY DEF TemporaryInv
    <2>1. q # p /\ pc[q] \in Writing /\ temporary'[q] = temporary[q]
      BY <1>9, <1>10, <1>13
    <2>2. temporary[q] # t
      BY <2>1 DEF TemporaryInv, Writing
    <2>3. ~Held(temporary[q]) /\ temporary[q] \in 1..used
      BY <2>1 DEF TemporaryInv
    <2>4. ~Held(temporary[q])'
      BY <1>4, <1>5, <2>1, <2>2, <2>3 DEF Held
    <2>5. \A r \in Processes : pc'[r] \in Writing => r # p /\ pc[r] \in Writing
      BY <1>9, <1>10, <1>13
    <2> QED BY <2>1, <2>3, <2>4, <2>5 DEF TemporaryInv
  <1>15. HandleInv'
    BY <1>9, <1>10, <1>12, <1>13 DEF HandleInv
  <1>16. CopyInv'
    BY <1>9, <1>10, <1>13 DEF CopyInv, Writing
  <1>17. ReplacedInv'
    BY <1>9, <1>10 DEF ReplacedInv, MayReplace
  <1>18. \A q \in Processes : LinkToNothing(job[q]) => LinkToNothing(job[q])'
    <2> TAKE q \in Processes
    <2>1. job[q].input \in Names /\ job[q].output \in Names
      BY JobTypes DEF ProcessInv
    <2> QED BY <1>5, <2>1 DEF LinkToNothing
  <1>19. \A n \in Names : entry[n].inode # t
    BY <1>2 DEF DirectoryInv, Held
  <1>20. ASSUME NEW q \in Processes \ {p}, pc[q] \in {"validate", "open"}
         PROVE  Compared(q)'
    <2> DEFINE a == job[q].input
               b == job[q].output
    <2>1. a \in Names /\ b \in Names /\ Compared(q) /\ a # b
      BY <1>20, JobTypes DEF ProcessInv, PathsInv, Compared
    <2>2. \A n \in Names \ {o} : entry'[n] = entry[n]
      BY <1>3 DEF DirectoryInv
    <2>3. entry'[o] = FileEntry(t)
      BY <1>1, <1>3 DEF DirectoryInv
    <2>4. a = o \/ entry'[a] = entry[a]
      BY <2>1, <2>2
    <2>5. entry'[a].link = b => Free \in past'[b]
      BY <1>4, <1>5, <2>1, <2>3, <2>4, SizesAssumption DEF Compared
    <2>6. ASSUME Follow(a)' # 0, Follow(a)' = entry'[b].inode, entry'[a].link # b
          PROVE  FALSE
      <3> DEFINE m == IF entry'[a].link = NoName THEN a ELSE entry'[a].link
      <3>1. m \in Names /\ m # b
        BY <1>6, <2>1, <2>6, SimpleEntries DEF DirectoryInv
      <3>2. Follow(a)' = entry'[m].inode
        BY DEF Follow
      <3>3. CASE m = o
        <4>1. entry'[m].inode = t /\ entry'[b] = entry[b]
          BY <1>4, <2>1, <2>2, <2>3, <3>1, <3>3
        <4> QED BY <1>19, <2>1, <2>6, <3>2, <4>1
      <3>4. CASE m # o /\ b = o
        <4>1. entry'[b].inode = t /\ entry'[m] = entry[m]
          BY <1>4, <2>2, <2>3, <3>1, <3>4
        <4> QED BY <1>19, <2>6, <3>1, <3>2, <4>1
      <3>5. CASE m # o /\ b # o
        <4>1. entry'[b] = entry[b] /\ entry'[m] = entry[m]
          BY <2>1, <2>2, <3>1, <3>5
        <4>2. entry'[a] = entry[a]
          <5>1. CASE a = o
            BY <1>4, <2>3, <3>5, <5>1
          <5> QED BY <2>4, <5>1
        <4>3. Follow(a) = entry[m].inode
          BY <4>2 DEF Follow
        <4> QED BY <2>1, <2>6, <3>2, <4>1, <4>2, <4>3 DEF Compared
      <3> QED BY <3>3, <3>4, <3>5
    <2> QED BY <2>1, <2>5, <2>6 DEF Compared
  <1>21. ASSUME NEW q \in Processes \ {p}, pc[q] \in Reading,
                entry'[job[q].output].inode = handle[q]
         PROVE  LinkToNothing(job[q])'
    <2>1. job[q].output \in Names
      BY JobTypes DEF ProcessInv
    <2>2. handle[q] # t
      BY <1>2, <1>21 DEF HandleInv
    <2>3. entry'[job[q].output] = entry[job[q].output]
      BY <1>3, <1>4, <1>21, <2>1, <2>2 DEF DirectoryInv
    <2> QED BY <1>18, <1>21, <2>3 DEF PathsInv
  <1>22. PathsInv'
    BY <1>9, <1>10, <1>13, <1>20, <1>21 DEF PathsInv
  <1>23. InputSurvives'
    <2> SUFFICES ASSUME NEW q \in Processes, pc'[q] \in {"unlink", "ok"},
                        replaced'[q].inode # 0, replaced'[q].inode = handle[q]
                 PROVE  LinkToNothing(job[q])'
      BY DEF InputSurvives
    <2>1. CASE q = p
      BY <1>9, <1>18, <2>1 DEF PathsInv, Reading, Writing
    <2>2. CASE q # p
      BY <1>10, <1>18, <2>2 DEF InputSurvives
    <2> QED BY <2>1, <2>2
  <1> QED BY <1>6, <1>8, <1>9, <1>14, <1>15, <1>16, <1>17, <1>22, <1>23

LEMMA RenameIInv ==
  ASSUME IInv, NEW p \in Processes, Rename(p) \/ Link(p)
  PROVE  IInv'
  <1>1. temporary' \in [Processes -> 0..MaxInodes]
    BY SMTT(40), SizesAssumption DEF IInv, ProcessInv, Rename, Link
  <1>2. \A q \in Processes \ {p} : temporary'[q] = temporary[q]
    BY DEF IInv, ProcessInv, Rename, Link
  <1>3. CASE Rename(p)
    BY <1>1, <1>2, <1>3, EnterIInv DEF Rename, Goto
  <1>4. CASE Link(p)
    BY <1>1, <1>2, <1>4, EnterIInv DEF Link, Goto
  <1> QED BY <1>3, <1>4
--------------------------------------------------------------------------------
(* Every name gets back an entry it has had, and what those lead to was    *)
(* synced before it got a name.                                            *)

LEMMA PowerLossIInv ==
  ASSUME IInv, PowerLoss
  PROVE  IInv'
  <1> USE DEF IInv
  <1> PICK kept \in [Inodes -> 0..Chunks] :
        /\ \A i \in Inodes : durable[i] <= kept[i] /\ kept[i] <= Len(file[i])
        /\ file' = [i \in Inodes |-> SubSeq(file[i], 1, kept[i])]
        /\ durable' = kept
    BY DEF PowerLoss
  <1>1. /\ \A n \in Names : entry'[n] \in past[n]
        /\ entry' \in [Names -> UNION {past[n] : n \in Names}]
        /\ past' = past /\ used' = used /\ job' = job /\ handle' = handle
        /\ temporary' = temporary /\ replaced' = replaced
        /\ pc' = [p \in Processes |-> "killed"]
    BY DEF PowerLoss
  <1>2. \A p \in Processes : pc'[p] = "killed"
    BY <1>1
  <1>3. DirectoryInv'
    <2>1. \A n \in Names : past[n] \subseteq Simple
      BY DEF DirectoryInv
    <2>2. entry' \in [Names -> Simple]
      BY <1>1, <2>1
    <2> QED BY <1>1, <2>2 DEF DirectoryInv
  <1>4. ASSUME NEW i \in Inodes
        PROVE  /\ file'[i] \in Seq(Content) /\ Len(file'[i]) = kept[i]
               /\ kept[i] \in Nat
               /\ kept[i] = Len(file[i]) => file'[i] = file[i]
    <2>1. file[i] \in Seq(Content) /\ kept[i] \in 0..Len(file[i]) /\ durable[i] \in Nat
      BY SizesAssumption DEF DiskInv
    <2>2. file'[i] = SubSeq(file[i], 1, kept[i])
      OBVIOUS
    <2>3. \A k \in 1..kept[i] : file[i][k] \in Content
      BY <2>1
    <2>4. /\ SubSeq(file[i], 1, kept[i]) \in Seq(Content)
          /\ Len(SubSeq(file[i], 1, kept[i])) = IF 1 <= kept[i] THEN kept[i] - 1 + 1 ELSE 0
      BY <2>1, <2>3, SubSeqProperties
    <2>5. kept[i] = Len(file[i]) => SubSeq(file[i], 1, kept[i]) = file[i]
      BY <2>1, SubSeqFull
    <2> QED BY <2>1, <2>2, <2>4, <2>5
  <1>5. DiskInv'
    <2>1. file' \in [Inodes -> Seq(Content)] /\ durable' \in [Inodes -> Nat]
      BY <1>4
    <2>2. \A i \in Inodes : durable'[i] <= Len(file'[i]) /\ (i > used => file'[i] = <<>>)
      BY <1>4 DEF DiskInv
    <2>3. ASSUME NEW n \in Names, NEW e \in past[n], e.inode # 0
          PROVE  Whole(file'[e.inode]) /\ durable'[e.inode] = Chunks
      <3>1. e.inode \in Inodes
        BY <2>3, SimpleEntries DEF DirectoryInv, Inodes
      <3>2. Whole(file[e.inode]) /\ durable[e.inode] = Chunks /\ Len(file[e.inode]) = Chunks
        BY <2>3 DEF DiskInv, Whole
      <3>3. kept[e.inode] = Chunks
        BY <3>1, <3>2, <1>4, SizesAssumption
      <3> QED BY <1>4, <3>1, <3>2, <3>3
    <2> QED BY <1>1, <2>1, <2>2, <2>3 DEF DiskInv
  <1>6. ProcessInv'
    BY <1>1 DEF ProcessInv, Labels
  <1>7. TemporaryInv' /\ HandleInv' /\ CopyInv' /\ ReplacedInv' /\ PathsInv' /\ InputSurvives'
    BY <1>2 DEF TemporaryInv, HandleInv, CopyInv, ReplacedInv, PathsInv, InputSurvives,
                Reading, Writing
  <1> QED BY <1>3, <1>5, <1>6, <1>7

LEMMA InitIInv == Init => IInv
  <1> SUFFICES ASSUME Init PROVE IInv
    OBVIOUS
  <1> USE SizesAssumption DEF Init
  <1>1. Len(InitialFiles) \in 0..MaxInodes /\ InitialFiles \in Seq(Content)
    <2>1. InitialFiles \in Seq([data : Data, wraps : Nat])
      BY FilesAssumption DEF Data
    <2>2. [data : Data, wraps : Nat] \subseteq Content
      BY DEF Content
    <2>3. InitialFiles \in Seq(Content)
      BY <2>1, <2>2, SeqMonotonic
    <2> QED BY <2>3
  <1>2. /\ \A n \in Names : entry[n] \in Simple /\ entry[n].inode \in 0..Len(InitialFiles)
        /\ entry \in [Names -> Simple]
        /\ \A n \in Names : entry[n].link # NoName => entry[entry[n].link].link = NoName
    <2>1. entry \in [Names -> [inode : {0}, link : Names \cup {NoName}]
                                \cup [inode : 0..Len(InitialFiles), link : {NoName}]]
      BY FilesAssumption
    <2>2. \A n \in Names : entry[n] \in Simple /\ entry[n].inode \in 0..Len(InitialFiles)
      BY <1>1, <2>1 DEF Simple
    <2> QED BY <2>1, <2>2, FilesAssumption
  <1>3. DirectoryInv
    <2>1. past \in [Names -> SUBSET Simple] /\ \A n \in Names : past[n] = {entry[n]}
      BY <1>2
    <2>2. \A n \in Names : entry[n].link # NoName => entry[n].link \in Names
      BY <1>2, SimpleEntries
    <2> QED BY <1>2, <2>1, <2>2 DEF DirectoryInv
  <1>4. ASSUME NEW i \in Inodes
        PROVE  /\ file[i] \in Seq(Content) /\ durable[i] = Len(file[i]) /\ Len(file[i]) \in Nat
               /\ i > Len(InitialFiles) => file[i] = <<>>
               /\ i <= Len(InitialFiles) => Whole(file[i]) /\ durable[i] = Chunks
    <2>1. CASE i <= Len(InitialFiles)
      <3>1. InitialFiles[i] \in Content
        BY <1>1, <2>1 DEF Inodes
      <3>2. file[i] = [k \in 1..Chunks |-> InitialFiles[i]]
        BY <2>1
      <3>3. file[i] \in Seq(Content) /\ Len(file[i]) = Chunks
        BY <3>1, <3>2
      <3>4. \A k \in 1..Chunks : file[i][k] = InitialFiles[i]
        BY <3>2
      <3> QED BY <1>1, <2>1, <3>3, <3>4 DEF Whole, Inodes
    <2>2. CASE i > Len(InitialFiles)
      <3>1. file[i] = <<>>
        BY <1>1, <2>2 DEF Inodes
      <3> QED BY <1>1, <2>2, <3>1 DEF Inodes
    <2> QED BY <1>1, <2>1, <2>2 DEF Inodes
  <1>5. DiskInv
    <2>1. file \in [Inodes -> Seq(Content)] /\ durable \in [Inodes -> Nat]
      BY <1>4
    <2>2. used = Len(InitialFiles) /\ \A n \in Names : past[n] = {entry[n]}
      OBVIOUS
    <2> HIDE DEF Init
    <2>3. \A n \in Names : entry[n].inode # 0 => entry[n].inode \in Inodes
      BY <1>1, <1>2 DEF Inodes
    <2>4. \A n \in Names : \A e \in past[n] :
            /\ e.inode <= used
            /\ e.inode # 0 => Whole(file[e.inode]) /\ durable[e.inode] = Chunks
      BY <1>1, <1>2, <1>4, <2>2, <2>3
    <2>5. \A i \in Inodes : durable[i] <= Len(file[i]) /\ (i > used => file[i] = <<>>)
      BY <1>4, <2>2
    <2> QED BY <1>1, <2>1, <2>2, <2>4, <2>5 DEF DiskInv
  <1>6. ProcessInv
    BY SimpleEntries DEF ProcessInv, Labels, Active
  <1>7. \A p \in Processes : pc[p] = "start" /\ replaced[p] = Free
    OBVIOUS
  <1> HIDE DEF Init
  <1>8. \A p \in Processes : /\ pc[p] \notin Reading /\ pc[p] \notin Writing
                              /\ pc[p] \notin {"sync", "persist", "unlink", "ok", "validate", "open"}
    BY <1>7 DEF Reading, Writing
  <1>9. TemporaryInv /\ HandleInv /\ CopyInv
    BY <1>8 DEF TemporaryInv, HandleInv, CopyInv
  <1>10. ReplacedInv /\ PathsInv /\ InputSurvives
    BY <1>7, <1>8 DEF ReplacedInv, PathsInv, InputSurvives
  <1> QED BY <1>3, <1>5, <1>6, <1>9, <1>10 DEF IInv

--------------------------------------------------------------------------------

LEMMA StepIInv == IInv /\ [Next]_vars => IInv'
  <1> SUFFICES ASSUME IInv, [Next]_vars PROVE IInv'
    OBVIOUS
  <1>1. ASSUME NEW p \in Processes, Command(p) PROVE IInv'
    BY <1>1, CheckPathsIInv, ValidateOutputIInv, OpenInputIInv, CreateTemporaryIInv,
       WriteChunkIInv, EndStreamIInv, EndIInv, SyncTemporaryIInv, RenameIInv, UnlinkIInv
    DEF Command
  <1>2. ASSUME NEW p \in Processes, Kill(p) \/ Rerun(p) PROVE IInv'
    BY <1>2, EndIInv, RerunIInv
  <1>3. CASE PowerLoss BY <1>3, PowerLossIInv
  <1>4. CASE UNCHANGED vars
    <2> USE <1>4 DEF vars, IInv
    <2>1. DirectoryInv' /\ DiskInv' /\ ProcessInv'
      BY DEF DirectoryInv, DiskInv, ProcessInv, Whole
    <2>2. TemporaryInv' /\ HandleInv' /\ CopyInv'
      BY DEF TemporaryInv, HandleInv, CopyInv, Held
    <2>3. ReplacedInv' /\ PathsInv' /\ InputSurvives'
      BY DEF ReplacedInv, PathsInv, InputSurvives, Compared, LinkToNothing, Follow
    <2> QED BY <2>1, <2>2, <2>3
  <1> QED BY <1>1, <1>2, <1>3, <1>4 DEF Next

LEMMA IInvIsSafe == IInv => NamesAreSafe
  <1> SUFFICES ASSUME IInv PROVE NamesAreSafe
    OBVIOUS
  <1> USE DEF IInv
  <1>1. TypeOK
    <2>1. entry \in [Names -> Entries] /\ past \in [Names -> SUBSET Entries]
      BY SimpleEntries DEF DirectoryInv
    <2>2. \A i \in Inodes : durable[i] \in 0..Len(file[i]) /\ (i > used => file[i] = <<>>)
      BY DEF DiskInv
    <2>3. replaced \in [Processes -> Entries]
      BY SimpleEntries DEF ProcessInv
    <2> QED BY <2>1, <2>2, <2>3 DEF TypeOK, DirectoryInv, DiskInv, ProcessInv, Labels
  <1>2. PublishedWhole
    BY FollowIsHeld, HeldIsWhole DEF PublishedWhole
  <1>3. UnforcedNeverReplaces
    BY DEF UnforcedNeverReplaces, ReplacedInv
  <1> QED BY <1>1, <1>2, <1>3 DEF NamesAreSafe

\* Whatever commands run over a directory, and wherever they are killed or the
\* power fails, its names lead to whole files, and to the files that were there
\* unless a command was forced (main.rs:945 persist_atomic).
THEOREM SafeNames == Spec => []NamesAreSafe
  <1>1. Init => IInv BY InitIInv
  <1>2. IInv /\ [Next]_vars => IInv' BY StepIInv
  <1>3. IInv => NamesAreSafe BY IInvIsSafe
  <1> QED BY <1>1, <1>2, <1>3, PTL DEF Spec

\* No command replaces the file it read, but for the one race named in
\* InputSurvives (main.rs:967 ensure_distinct_file_paths).
THEOREM SafeInputs == Spec => []InputSurvives
  <1>1. Init => IInv BY InitIInv
  <1>2. IInv /\ [Next]_vars => IInv' BY StepIInv
  <1>3. IInv => InputSurvives BY DEF IInv
  <1> QED BY <1>1, <1>2, <1>3, PTL DEF Spec

--------------------------------------------------------------------------------
(***************************************************************************)
(* The command line implements OutputStore, and what inspect reports is    *)
(* what it verified: both rest on files that never change once they have   *)
(* a name.                                                                 *)
(***************************************************************************)

Stored == [data : {InitialFiles[i].data : i \in 1..Len(InitialFiles)}, wraps : Nat]
Store == [n \in Names |-> ContentOf(Follow(n))]
Known == [n \in Names |-> {ContentOf(i) : i \in PastFiles(n)}]

\* Only an inspection verifies, and it reads the file it verified.
InspectInv ==
    /\ verified \in [Processes -> Seq(Content)]
    /\ reported \in [Processes -> Seq(Content)]
    /\ \A p \in Processes :
         /\ job[p].command = "inspect" =>
              pc[p] \in {"start", "verify", "read"} \cup Finished \cup {"killed"}
         /\ pc[p] \in {"verify", "read"} => job[p].command = "inspect" /\ Held(handle[p])
         /\ pc[p] = "read" => verified[p] = file[handle[p]]
         /\ pc[p] = "ok" /\ job[p].command = "inspect" => reported[p] = verified[p]

\* A stream that has ended restored an archive that verified, and what a name
\* has led to is a content.
RestoreInv ==
    /\ \A p \in Processes :
         pc[p] \in {"sync", "persist"} /\ job[p].command = "decompress" =>
            Verifies(file[handle[p]][1])
    /\ \A i : Held(i) => file[i][1] \in Stored

SInv == IInv /\ InspectInv /\ RestoreInv

--------------------------------------------------------------------------------
(* Files that have, or had, a name.                                        *)

\* Once a file has a name nothing writes it, and a power loss keeps it.
LEMMA HeldIsKept ==
  ASSUME IInv, [Next]_vars
  PROVE  \A i : Held(i) => Held(i)' /\ file'[i] = file[i]
  <1> USE DEF IInv
  <1>1. ASSUME NEW i, Held(i), \A n \in Names : past[n] \subseteq past'[n]
        PROVE  Held(i)'
    BY <1>1 DEF Held
  <1>2. CASE file' = file /\ past' = past
    BY <1>1, <1>2
  <1>3. ASSUME NEW p \in Processes, WriteChunk(p)
        PROVE  \A i : Held(i) => Held(i)' /\ file'[i] = file[i]
    <2> TAKE i
    <2> HAVE Held(i)
    <2>1. i \in Inodes /\ i # temporary[p]
      BY <1>3, HeldIsWhole, TemporaryIsInode DEF WriteChunk, Writing
    <2> QED BY <1>1, <1>3, <2>1 DEF WriteChunk, DiskInv, directoryVars
  <1>4. ASSUME NEW p \in Processes, Rename(p) \/ Link(p)
        PROVE  \A i : Held(i) => Held(i)' /\ file'[i] = file[i]
    <2>1. file' = file
      BY <1>4 DEF Rename, Link, diskVars
    <2>2. \A n \in Names : past[n] \subseteq past'[n]
      BY <1>4 DEF Rename, Link, Enter, DirectoryInv
    <2> QED BY <1>1, <2>1, <2>2
  <1>5. ASSUME PowerLoss
        PROVE  \A i : Held(i) => Held(i)' /\ file'[i] = file[i]
    <2> PICK kept \in [Inodes -> 0..Chunks] :
          /\ \A i \in Inodes : durable[i] <= kept[i] /\ kept[i] <= Len(file[i])
          /\ file' = [i \in Inodes |-> SubSeq(file[i], 1, kept[i])]
      BY <1>5 DEF PowerLoss
    <2> TAKE i
    <2> HAVE Held(i)
    <2>1. i \in Inodes /\ durable[i] = Chunks /\ Len(file[i]) = Chunks
      BY HeldIsWhole DEF Whole
    <2>2. kept[i] = Len(file[i]) /\ file[i] \in Seq(Content)
      BY <2>1, SizesAssumption DEF DiskInv
    <2>3. file'[i] = SubSeq(file[i], 1, Len(file[i]))
      BY <2>1, <2>2
    <2>4. file'[i] = file[i]
      BY <2>2, <2>3, SubSeqFull
    <2> QED BY <1>1, <1>5, <2>4 DEF PowerLoss
  <1>6. ASSUME NEW p \in Processes, Command(p) \/ Kill(p) \/ Rerun(p),
               ~WriteChunk(p), ~Rename(p), ~Link(p)
        PROVE  file' = file /\ past' = past
    BY <1>6 DEF Command, CheckPaths, ValidateOutput, OpenInput, CreateTemporary, EndStream,
       StreamFails, SyncTemporary, Unlink, NameTaken, VerifyArchive, ReadReport, Kill, Rerun,
       directoryVars, diskVars
  <1>7. CASE UNCHANGED vars
    BY <1>2, <1>7 DEF vars
  <1> QED BY <1>2, <1>3, <1>4, <1>5, <1>6, <1>7 DEF Next

LEMMA StepTypes ==
  ASSUME IInv, [Next]_vars
  PROVE  job' = job /\ \A p \in Processes : job[p] \in Jobs /\ pc[p] \in Labels
  <1>1. job' = job
    BY DEF Next, Command, CheckPaths, ValidateOutput, OpenInput, CreateTemporary, WriteChunk,
       EndStream, StreamFails, SyncTemporary, Rename, Link, Unlink, NameTaken, VerifyArchive,
       ReadReport, Kill, Rerun, PowerLoss, vars
  <1> QED BY <1>1 DEF IInv, ProcessInv

\* How one process moves while the others stand still.
LEMMA InspectByOne ==
  ASSUME IInv, InspectInv, [Next]_vars, NEW p \in Processes,
         verified' \in [Processes -> Seq(Content)],
         reported' \in [Processes -> Seq(Content)],
         \A q \in Processes \ {p} :
            /\ pc'[q] = pc[q] /\ handle'[q] = handle[q]
            /\ verified'[q] = verified[q] /\ reported'[q] = reported[q],
         job[p].command = "inspect" =>
            pc'[p] \in {"start", "verify", "read"} \cup Finished \cup {"killed"},
         pc'[p] \in {"verify", "read"} => job[p].command = "inspect" /\ Held(handle'[p]),
         pc'[p] = "read" => verified'[p] = file[handle'[p]],
         pc'[p] = "ok" /\ job[p].command = "inspect" => reported'[p] = verified'[p]
  PROVE  InspectInv'
  <1>1. job' = job
    BY StepTypes
  <1>2. \A i : Held(i) => Held(i)' /\ file'[i] = file[i]
    BY HeldIsKept
  <1> SUFFICES ASSUME NEW q \in Processes
               PROVE  /\ job[q].command = "inspect" =>
                           pc'[q] \in {"start", "verify", "read"} \cup Finished \cup {"killed"}
                      /\ pc'[q] \in {"verify", "read"} =>
                           job[q].command = "inspect" /\ Held(handle[q])'
                      /\ pc'[q] = "read" => verified'[q] = file'[handle'[q]]
                      /\ pc'[q] = "ok" /\ job[q].command = "inspect" => reported'[q] = verified'[q]
    BY <1>1 DEF InspectInv
  <1>3. CASE q = p
    <2>1. Held(handle'[p]) => Held(handle[p])' /\ file'[handle'[p]] = file[handle'[p]]
      BY <1>2 DEF Held
    <2> QED BY <1>3, <2>1
  <1>4. CASE q # p
    <2>1. /\ pc'[q] = pc[q] /\ handle'[q] = handle[q]
          /\ verified'[q] = verified[q] /\ reported'[q] = reported[q]
      BY <1>4
    <2>2. Held(handle[q]) => Held(handle[q])' /\ file'[handle[q]] = file[handle[q]]
      BY <1>2, <2>1 DEF Held
    <2> QED BY <2>1, <2>2 DEF InspectInv
  <1> QED BY <1>3, <1>4

\* The steps of a command that is not an inspection.
LEMMA OtherSteps ==
  ASSUME IInv, InspectInv, [Next]_vars, NEW p \in Processes,
         \/ CheckPaths(p) \/ ValidateOutput(p) \/ CreateTemporary(p) \/ WriteChunk(p)
         \/ EndStream(p) \/ StreamFails(p) \/ SyncTemporary(p) \/ Rename(p) \/ Link(p)
         \/ Unlink(p) \/ NameTaken(p)
  PROVE  InspectInv'
  <1>1. /\ UNCHANGED inspectVars
        /\ \A q \in Processes \ {p} : pc'[q] = pc[q] /\ handle'[q] = handle[q]
    BY DEF IInv, ProcessInv, CheckPaths, ValidateOutput, CreateTemporary, WriteChunk, EndStream,
       StreamFails, SyncTemporary, Rename, Link, Unlink, NameTaken, Goto, Abandon
  <1>2. /\ job[p].command # "inspect"
        /\ pc'[p] \notin {"verify", "read"}
    BY DEF IInv, ProcessInv, InspectInv, Finished, CheckPaths, ValidateOutput, CreateTemporary,
       WriteChunk, EndStream, StreamFails, SyncTemporary, Rename, Link, Unlink, NameTaken, Goto,
       Abandon
  <1> QED BY <1>1, <1>2, InspectByOne DEF inspectVars, InspectInv

LEMMA InspectSteps ==
  ASSUME IInv, InspectInv, [Next]_vars, NEW p \in Processes,
         OpenInput(p) \/ VerifyArchive(p) \/ ReadReport(p) \/ Kill(p) \/ Rerun(p)
  PROVE  InspectInv'
  <1>1. CASE OpenInput(p)
    <2>1. job[p].input \in Names
      BY JobTypes DEF IInv, ProcessInv
    <2>2. Follow(job[p].input) # 0 => Held(Follow(job[p].input))
      BY <2>1, FollowIsHeld DEF IInv
    <2>3. /\ UNCHANGED inspectVars
          /\ \A q \in Processes \ {p} : pc'[q] = pc[q] /\ handle'[q] = handle[q]
          /\ pc'[p] \in {"failed", "verify", "create"}
          /\ pc'[p] = "verify" => job[p].command = "inspect" /\ Held(handle'[p])
          /\ pc'[p] = "create" => job[p].command # "inspect"
      BY <1>1, <2>2 DEF OpenInput, Goto, IInv, ProcessInv
    <2> QED BY <2>3, InspectByOne DEF inspectVars, InspectInv, Finished
  <1>2. CASE VerifyArchive(p) \/ ReadReport(p)
    <2>1. Held(handle[p]) /\ job[p].command = "inspect"
      BY <1>2 DEF InspectInv, VerifyArchive, ReadReport
    <2>2. file[handle[p]] \in Seq(Content)
      BY <2>1, HeldIsWhole DEF IInv, DiskInv
    <2>3. \A q \in Processes \ {p} : /\ pc'[q] = pc[q] /\ handle'[q] = handle[q]
                                     /\ verified'[q] = verified[q] /\ reported'[q] = reported[q]
      BY <1>2 DEF VerifyArchive, ReadReport, Goto, IInv, ProcessInv, InspectInv
    <2>4. verified' \in [Processes -> Seq(Content)] /\ reported' \in [Processes -> Seq(Content)]
      BY <1>2, <2>2 DEF VerifyArchive, ReadReport, InspectInv, Input
    <2>5. CASE VerifyArchive(p)
      <3>1. /\ pc'[p] \in {"read", "failed"} /\ handle' = handle
            /\ pc'[p] = "read" => verified'[p] = file[handle[p]]
        BY <2>5 DEF VerifyArchive, Goto, IInv, ProcessInv, InspectInv, Input
      <3> QED BY <2>1, <2>3, <2>4, <3>1, InspectByOne DEF Finished
    <2>6. CASE ReadReport(p)
      <3>1. /\ pc'[p] = "ok" /\ verified' = verified
            /\ reported'[p] = file[handle[p]] /\ verified[p] = file[handle[p]]
        BY <2>6 DEF ReadReport, Goto, IInv, ProcessInv, InspectInv, Input
      <3> QED BY <2>1, <2>3, <2>4, <3>1, InspectByOne DEF Finished
    <2> QED BY <1>2, <2>5, <2>6
  <1>3. CASE Kill(p)
    <2>1. /\ UNCHANGED inspectVars /\ pc'[p] = "killed"
          /\ \A q \in Processes \ {p} : pc'[q] = pc[q] /\ handle'[q] = handle[q]
      BY <1>3 DEF Kill, Goto, IInv, ProcessInv
    <2> QED BY <2>1, InspectByOne DEF inspectVars, InspectInv
  <1>4. CASE Rerun(p)
    <2>1. <<>> \in Seq(Content)
      OBVIOUS
    <2>2. /\ verified' = [verified EXCEPT ![p] = <<>>] /\ reported' = reported
          /\ pc'[p] = "start"
          /\ \A q \in Processes \ {p} : pc'[q] = pc[q] /\ handle'[q] = handle[q]
      BY <1>4 DEF Rerun, Goto, IInv, ProcessInv
    <2>3. /\ verified' \in [Processes -> Seq(Content)] /\ reported' \in [Processes -> Seq(Content)]
          /\ \A q \in Processes \ {p} : verified'[q] = verified[q]
      BY <2>1, <2>2 DEF InspectInv
    <2> QED BY <2>2, <2>3, InspectByOne
  <1> QED BY <1>1, <1>2, <1>3, <1>4

LEMMA StepInspectInv == IInv /\ InspectInv /\ [Next]_vars => InspectInv'
  <1> SUFFICES ASSUME IInv, InspectInv, [Next]_vars PROVE InspectInv'
    OBVIOUS
  <1>1. ASSUME NEW p \in Processes, Command(p) \/ Kill(p) \/ Rerun(p) PROVE InspectInv'
    BY <1>1, OtherSteps, InspectSteps DEF Command
  <1>2. CASE PowerLoss
    <2>1. UNCHANGED <<job, verified, reported>> /\ \A p \in Processes : pc'[p] = "killed"
      BY <1>2 DEF PowerLoss, inspectVars
    <2> QED BY <2>1 DEF InspectInv
  <1>3. CASE UNCHANGED vars
    BY <1>3 DEF vars, InspectInv, Held
  <1> QED BY <1>1, <1>2, <1>3 DEF Next

LEMMA StepRestoreInv == IInv /\ RestoreInv /\ InspectInv /\ [Next]_vars => RestoreInv'
  <1> SUFFICES ASSUME IInv, RestoreInv, InspectInv, [Next]_vars PROVE RestoreInv'
    OBVIOUS
  <1>1. job' = job /\ \A p \in Processes : job[p] \in Jobs
    BY StepTypes
  <1>2. \A i : Held(i) => Held(i)' /\ file'[i] = file[i]
    BY HeldIsKept
  <1>3. ASSUME NEW p \in Processes, pc'[p] \in {"sync", "persist"}, job[p].command = "decompress"
        PROVE  Verifies(file'[handle'[p]][1])
    <2>1. \/ pc[p] \in {"sync", "persist"} /\ handle'[p] = handle[p]
          \/ pc[p] = "write" /\ handle'[p] = handle[p] /\ Verifies(file[handle[p]][1])
      BY <1>3 DEF IInv, ProcessInv, Next, Command, CheckPaths, ValidateOutput, OpenInput,
         CreateTemporary, WriteChunk, EndStream, StreamFails, SyncTemporary, Rename, Link, Unlink,
         NameTaken, VerifyArchive, ReadReport, Kill, Rerun, PowerLoss, vars, Goto, Abandon,
         StreamSucceeds, Input
    <2>2. Held(handle[p])
      BY <2>1 DEF IInv, HandleInv, Reading, Writing
    <2> QED BY SMTT(40), <1>2, <1>3, <2>1, <2>2 DEF RestoreInv
  <1>4. ASSUME NEW i, Held(i)' PROVE file'[i][1] \in Stored
    <2>1. CASE Held(i)
      BY <1>2, <2>1 DEF RestoreInv
    <2>2. CASE ~Held(i)
      <3>1. PICK p \in Processes : Rename(p) \/ Link(p)
        <4>1. PICK n \in Names : \E e \in past'[n] : e.inode = i /\ i # 0
          BY <1>4 DEF Held
        <4>2. past' # past
          BY <2>2, <4>1 DEF Held
        <4> QED BY <4>2 DEF Next, Command, CheckPaths, ValidateOutput, OpenInput, CreateTemporary,
              WriteChunk, EndStream, StreamFails, SyncTemporary, Unlink, NameTaken, VerifyArchive,
              ReadReport, Kill, Rerun, PowerLoss, vars, directoryVars
      <3>2. i = temporary[p]
        <4>1. past' = [past EXCEPT ![job[p].output] = @ \cup {FileEntry(temporary[p])}]
          BY <3>1 DEF Rename, Link, Enter
        <4>2. PICK n \in Names : \E e \in past'[n] : e.inode = i /\ i # 0
          BY <1>4 DEF Held
        <4>3. past'[n] \subseteq past[n] \cup {FileEntry(temporary[p])}
          BY <4>1 DEF IInv, DirectoryInv
        <4> QED BY <2>2, <4>2, <4>3 DEF Held, FileEntry
      <3>3. pc[p] = "persist" /\ file' = file
        BY <3>1 DEF Rename, Link, diskVars
      <3>4. Held(handle[p]) /\ file[handle[p]][1] \in Stored
        BY <3>3 DEF IInv, HandleInv, RestoreInv, Reading, Writing
      <3>5. file[i][1] = OutputOf(job[p].command, file[handle[p]][1])
        <4>1. Len(file[i]) = Chunks /\ 1 \in 1..Chunks
          BY <3>2, <3>3, SizesAssumption DEF IInv, CopyInv
        <4> QED BY <3>2, <3>3, <4>1 DEF IInv, CopyInv, Writing
      <3>6. job[p].command \in {"compress", "decompress"}
        BY <1>1, <3>3, JobTypes DEF InspectInv, Finished, Commands
      <3>7. job[p].command = "decompress" => file[handle[p]][1].wraps > 0
        BY <3>3 DEF RestoreInv, Verifies, IsArchive
      <3>8. OutputOf(job[p].command, file[handle[p]][1]) \in Stored
        <4>1. CASE job[p].command = "compress"
          BY SMTT(40), <3>4, <4>1 DEF OutputOf, Compressed, Stored
        <4>2. CASE job[p].command = "decompress"
          BY <3>4, <3>7, <4>2 DEF OutputOf, Restored, Stored
        <4> QED BY <3>6, <4>1, <4>2
      <3> QED BY <3>3, <3>5, <3>8
    <2> QED BY <2>1, <2>2
  <1> QED BY <1>1, <1>3, <1>4 DEF RestoreInv

LEMMA InitSInv == Init => SInv
  <1> SUFFICES ASSUME Init PROVE SInv
    OBVIOUS
  <1>1. IInv
    BY InitIInv
  <1>2. InspectInv
    <2>1. <<>> \in Seq(Content)
      OBVIOUS
    <2> QED BY <2>1 DEF InspectInv, Init
  <1>3. ASSUME NEW i, Held(i) PROVE file[i][1] \in Stored
    <2>1. InitialFiles \in Seq([data : Data, wraps : Nat])
      BY FilesAssumption DEF Data
    <2>2. Len(InitialFiles) \in Nat /\ DOMAIN InitialFiles = 1..Len(InitialFiles)
      BY <2>1
    <2>3. used = Len(InitialFiles)
      BY DEF Init
    <2>4. i \in Inodes /\ i \in 1..used
      BY <1>1, <1>3, HeldIsWhole DEF IInv
    <2>5. i \in 1..Len(InitialFiles) /\ 1 \in 1..Chunks
      BY <2>2, <2>3, <2>4, SizesAssumption
    <2>6. file[i][1] = InitialFiles[i]
      BY <2>4, <2>5 DEF Init
    <2>7. InitialFiles[i] \in [data : Data, wraps : Nat]
      BY <2>1, <2>5, ElementOfSeq
    <2> QED BY <2>2, <2>6, <2>7 DEF Stored, Data
  <1>4. RestoreInv
    BY <1>3 DEF RestoreInv, Init
  <1> QED BY <1>1, <1>2, <1>4 DEF SInv

LEMMA StepSInv == SInv /\ [Next]_vars => SInv'
  BY StepIInv, StepInspectInv, StepRestoreInv DEF SInv

--------------------------------------------------------------------------------
(* The store of a state.                                                   *)

LEMMA InPast ==
  ASSUME NEW n, NEW i
  PROVE  i \in PastFiles(n) <=>
           \E e \in past[n] : \/ e.link = NoName /\ e.inode = i
                              \/ e.link # NoName /\ \E f \in past[e.link] : f.inode = i
  BY DEF PastFiles

LEMMA PastIsHeld ==
  ASSUME SInv, NEW n \in Names
  PROVE  /\ \A i \in PastFiles(n) : i = 0 \/ Held(i)
         /\ Follow(n) \in PastFiles(n)
  <1> USE DEF SInv, IInv
  <1>1. \A e \in past[n] : e.link # NoName => e.link \in Names
    BY SimpleEntries DEF DirectoryInv
  <1>2. \A i \in PastFiles(n) : i = 0 \/ Held(i)
    BY <1>1, InPast DEF Held
  <1>3. entry[n] \in past[n] /\ (entry[n].link # NoName => entry[entry[n].link] \in past[entry[n].link])
    BY <1>1 DEF DirectoryInv
  <1>4. Follow(n) \in PastFiles(n)
    BY <1>3, InPast DEF Follow
  <1> QED BY <1>2, <1>4

StoreInv ==
    /\ \A i : Held(i) => ContentOf(i) = file[i][1] /\ ContentOf(i) \in Stored
    /\ Store \in [Names -> Stored \cup {NoContent}]
    /\ Known \in [Names -> SUBSET (Stored \cup {NoContent})]
    /\ \A n \in Names : Store[n] \in Known[n]

LEMMA StoreTypes == SInv => StoreInv
  <1> SUFFICES ASSUME SInv PROVE StoreInv
    OBVIOUS
  <1>1. ASSUME NEW i, Held(i) PROVE ContentOf(i) = file[i][1] /\ ContentOf(i) \in Stored
    <2>1. i \in Nat /\ i > 0 /\ Whole(file[i])
      BY <1>1, HeldIsWhole, SizesAssumption DEF SInv, IInv, Inodes
    <2> QED BY <1>1, <2>1 DEF ContentOf, SInv, RestoreInv
  <1>2. ContentOf(0) = NoContent
    BY DEF ContentOf
  <1>3. \A n \in Names : \A i \in PastFiles(n) : ContentOf(i) \in Stored \cup {NoContent}
    BY <1>1, <1>2, PastIsHeld
  <1>4. \A n \in Names : Follow(n) \in PastFiles(n)
    BY PastIsHeld
  <1> QED BY <1>1, <1>3, <1>4 DEF Store, Known, StoreInv

\* A file a name has led to keeps its content through every step.
LEMMA ContentsKept ==
  ASSUME SInv, [Next]_vars
  PROVE  \A n \in Names : \A i \in PastFiles(n) : ContentOf(i)' = ContentOf(i)
  <1> SUFFICES ASSUME NEW n \in Names, NEW i \in PastFiles(n) PROVE ContentOf(i)' = ContentOf(i)
    BY DEF ContentOf
  <1>1. CASE i = 0
    BY <1>1 DEF ContentOf
  <1>2. CASE Held(i)
    <2>1. file'[i] = file[i]
      BY <1>2, HeldIsKept DEF SInv
    <2> QED BY <2>1 DEF ContentOf, Whole
  <1> QED BY <1>1, <1>2, PastIsHeld

LEMMA StoreStays ==
  ASSUME SInv, [Next]_vars, UNCHANGED directoryVars
  PROVE  Store' = Store /\ Known' = Known
  <1>1. \A n \in Names : Follow(n)' = Follow(n) /\ PastFiles(n)' = PastFiles(n)
    BY DEF directoryVars, Follow, PastFiles
  <1>2. \A n \in Names : \A i \in PastFiles(n) : ContentOf(i)' = ContentOf(i)
    BY ContentsKept
  <1>3. \A n \in Names : Follow(n) \in PastFiles(n)
    BY PastIsHeld
  <1>4. \A n \in Names : ContentOf(Follow(n))' = ContentOf(Follow(n))
    BY <1>1, <1>2, <1>3 DEF ContentOf
  <1>5. \A n \in Names : {ContentOf(i) : i \in PastFiles(n)}' = {ContentOf(i) : i \in PastFiles(n)}
    BY <1>1, <1>2
  <1> QED BY <1>4, <1>5 DEF Store, Known

LEMMA StoreLosesPower ==
  ASSUME SInv, SInv', PowerLoss
  PROVE  Promise!PowerLoss
  <1>1. [Next]_vars
    BY DEF Next
  <1>2. \A n \in Names : PastFiles(n)' = PastFiles(n)
    BY DEF PowerLoss, PastFiles
  <1>3. \A n \in Names : \A i \in PastFiles(n) : ContentOf(i)' = ContentOf(i)
    BY <1>1, ContentsKept
  <1>4. Known' = Known
    <2>1. \A n \in Names : {ContentOf(i) : i \in PastFiles(n)}' = {ContentOf(i) : i \in PastFiles(n)}
      BY <1>2, <1>3
    <2> QED BY <2>1 DEF Known
  <1>5. StoreInv'
    BY StoreTypes, PTL
  <1>6. Store' \in [Names -> Stored \cup {NoContent}] /\ \A n \in Names : Store'[n] \in Known'[n]
    BY <1>5 DEF StoreInv
  <1> QED BY <1>4, <1>6 DEF Promise!PowerLoss, Store, Known, Stored

\* The names that lead, or led, to the output: itself and its links.
Touched(o) == {n \in Names : n = o \/ \E e \in past[n] : e.link = o}

LEMMA EnterChangesPast ==
  ASSUME SInv, NEW o \in Names, NEW t \in 1..MaxInodes, Enter(o, t), NEW n \in Names
  PROVE  /\ PastFiles(n)' = IF n \in Touched(o) THEN PastFiles(n) \cup {t} ELSE PastFiles(n)
         /\ Follow(n)' \in {Follow(n), t}
         /\ Follow(n)' # Follow(n) => n \in Touched(o)
  <1> USE DEF SInv, IInv
  <1>1. /\ entry' = [entry EXCEPT ![o] = FileEntry(t)]
        /\ past' = [past EXCEPT ![o] = @ \cup {FileEntry(t)}]
    BY DEF Enter
  <1>2. FileEntry(t).inode = t /\ FileEntry(t).link = NoName /\ o # NoName
    BY SizesAssumption DEF FileEntry
  <1>3. \A m \in Names : /\ \A e \in past[m] : e.link # NoName => e.link \in Names
                         /\ past'[m] = IF m = o THEN past[m] \cup {FileEntry(t)} ELSE past[m]
                         /\ entry'[m] = IF m = o THEN FileEntry(t) ELSE entry[m]
                         /\ entry[m] \in past[m]
    BY <1>1, SimpleEntries DEF DirectoryInv
  <1>4. ASSUME NEW i
        PROVE  i \in PastFiles(n)' <=> i \in PastFiles(n) \/ (n \in Touched(o) /\ i = t)
    <2>1. i \in PastFiles(n)' <=>
             \E e \in past'[n] : \/ e.link = NoName /\ e.inode = i
                                 \/ e.link # NoName /\ \E f \in past'[e.link] : f.inode = i
      BY DEF PastFiles
    <2>2. i \in PastFiles(n) <=>
             \E e \in past[n] : \/ e.link = NoName /\ e.inode = i
                                \/ e.link # NoName /\ \E f \in past[e.link] : f.inode = i
      BY InPast
    <2>3. ASSUME i \in PastFiles(n) PROVE i \in PastFiles(n)'
      BY <1>3, <2>1, <2>2, <2>3
    <2>4. ASSUME n \in Touched(o), i = t PROVE i \in PastFiles(n)'
      BY <1>2, <1>3, <2>1, <2>4 DEF Touched
    <2>5. ASSUME i \in PastFiles(n)', i \notin PastFiles(n) PROVE n \in Touched(o) /\ i = t
      BY <1>2, <1>3, <2>1, <2>2, <2>5 DEF Touched
    <2> QED BY <2>3, <2>4, <2>5
  <1>5. PastFiles(n)' = IF n \in Touched(o) THEN PastFiles(n) \cup {t} ELSE PastFiles(n)
    BY <1>4
  <1>6. Follow(n)' = IF entry'[n].link = NoName THEN entry'[n].inode ELSE entry'[entry'[n].link].inode
    BY DEF Follow
  <1>7. CASE n = o
    BY <1>2, <1>3, <1>5, <1>6, <1>7 DEF Touched
  <1>8. CASE n # o
    <2>1. entry'[n] = entry[n]
      BY <1>3, <1>8
    <2>2. entry[n].link = o => n \in Touched(o)
      BY <1>3 DEF Touched
    <2> QED BY <1>2, <1>3, <1>5, <1>6, <2>1, <2>2 DEF Follow
  <1> QED BY <1>5, <1>7, <1>8

LEMMA EnterPublishes ==
  ASSUME SInv, SInv', NEW p \in Processes, Rename(p) \/ Link(p),
         NEW o, o = job[p].output, NEW t, t = temporary[p],
         NEW c, c = file[handle[p]][1], NEW content, content = OutputOf(job[p].command, c)
  PROVE  Promise!Next
  <1> USE DEF SInv, IInv
  <1>1. [Next]_vars
    BY DEF Next, Command
  <1>2. pc[p] = "persist" /\ Enter(o, t) /\ file' = file
    BY DEF Rename, Link, diskVars
  <1>3. o \in Names /\ job[p] \in Jobs
    BY JobTypes DEF ProcessInv
  <1>4. t \in 1..MaxInodes /\ t # 0
    BY <1>2, TemporaryIsInode DEF Writing, Inodes
  <1>5. job[p].command \in {"compress", "decompress"}
    BY <1>2, <1>3, JobTypes DEF InspectInv, Finished, Commands
  <1>6. Held(handle[p]) /\ c \in Stored
    BY <1>2 DEF HandleInv, RestoreInv, Reading, Writing
  <1>7. ContentOf(t)' = content
    <2>1. Len(file[t]) = Chunks /\ \A k \in 1..Len(file[t]) : file[t][k] = content
      BY <1>2 DEF CopyInv, Writing
    <2>2. 1 \in 1..Chunks
      BY SizesAssumption
    <2>3. file'[t][1] = content /\ Whole(file'[t])
      BY <1>2, <2>1, <2>2 DEF Whole
    <2>4. t > 0
      BY <1>4, SizesAssumption
    <2> QED BY <1>4, <2>3, <2>4 DEF ContentOf, Whole
  <1>8. StoreInv /\ StoreInv'
    BY StoreTypes, PTL
  <1>9. \A n \in Names : \A i \in PastFiles(n) : ContentOf(i)' = ContentOf(i)
    BY <1>1, ContentsKept
  <1>10. \A n \in Names : /\ PastFiles(n)' = IF n \in Touched(o) THEN PastFiles(n) \cup {t} ELSE PastFiles(n)
                          /\ Follow(n)' \in {Follow(n), t}
                          /\ Follow(n)' # Follow(n) => n \in Touched(o)
    BY <1>2, <1>3, <1>4, EnterChangesPast
  <1>11. ASSUME NEW n \in Names, Store'[n] # Store[n]
         PROVE  n \in Touched(o) /\ Store'[n] = content
    <2>1. Store[n] = ContentOf(Follow(n)) /\ Store'[n] = ContentOf(Follow(n))'
      BY DEF Store
    <2>2. Follow(n) \in PastFiles(n)
      BY PastIsHeld
    <2>3. CASE Follow(n)' = Follow(n)
      BY <1>9, <1>11, <2>1, <2>2, <2>3 DEF ContentOf
    <2>4. CASE Follow(n)' # Follow(n)
      <3>1. n \in Touched(o) /\ Follow(n)' = t
        BY <1>10, <2>4
      <3>2. ContentOf(Follow(n))' = ContentOf(t)'
        BY <3>1 DEF ContentOf
      <3> QED BY <1>7, <2>1, <3>1, <3>2
    <2> QED BY <2>3, <2>4
  <1>12. Known' = [n \in Names |-> IF n \in Touched(o) THEN Known[n] \cup {content} ELSE Known[n]]
    <2>1. ASSUME NEW n \in Names
          PROVE  {ContentOf(i) : i \in PastFiles(n)}'
                   = IF n \in Touched(o) THEN {ContentOf(i) : i \in PastFiles(n)} \cup {content}
                     ELSE {ContentOf(i) : i \in PastFiles(n)}
      BY <1>7, <1>9, <1>10
    <2> QED BY <2>1 DEF Known
  <1>13. c \in (UNION {Known[n] : n \in Names}) \ {NoContent}
    <2>1. ContentOf(handle[p]) = c
      BY <1>6, <1>8 DEF StoreInv
    <2>2. PICK n \in Names : \E e \in past[n] : e.inode = handle[p] /\ handle[p] # 0
      BY <1>6 DEF Held
    <2>3. PICK e \in past[n] : e.inode = handle[p] /\ e.inode # 0
      BY <2>2
    <2>4. e.link = NoName
      BY <2>3, SimpleEntries DEF DirectoryInv
    <2>5. handle[p] \in PastFiles(n)
      BY <2>3, <2>4, InPast
    <2>6. c \in Known[n]
      BY <2>1, <2>5 DEF Known
    <2>7. DOMAIN InitialFiles = 1..Len(InitialFiles)
      <3>1. InitialFiles \in Seq([data : Data, wraps : Nat])
        BY FilesAssumption DEF Data
      <3> QED BY <3>1
    <2>8. PICK i \in DOMAIN InitialFiles : c.data = InitialFiles[i].data
      BY <1>6, <2>7 DEF Stored
    <2>9. c.data # NoName
      BY <2>8, FilesAssumption
    <2>10. c # NoContent
      BY <2>9 DEF NoContent
    <2> QED BY <2>6, <2>10
  <1>14. content \in {Compressed(d) : d \in (UNION {Known[n] : n \in Names}) \ {NoContent}}
                   \cup {Restored(d) : d \in {e \in (UNION {Known[n] : n \in Names}) \ {NoContent} :
                                                Verifies(e)}}
    <2>1. CASE job[p].command = "compress"
      BY <1>13, <2>1 DEF OutputOf
    <2>2. CASE job[p].command = "decompress"
      <3>1. Verifies(c)
        BY <1>2, <2>2 DEF RestoreInv
      <3> QED BY <1>13, <2>2, <3>1 DEF OutputOf
    <2> QED BY <1>5, <2>1, <2>2
  <1>15. Store' \in [Names -> Stored \cup {NoContent}] /\ Touched(o) \in SUBSET Names
    BY <1>8 DEF StoreInv, Touched
  <1> HIDE DEF SInv, IInv
  <1> QED BY <1>11, <1>12, <1>14, <1>15 DEF Promise!Next, Promise!Publish, Store, Known, Stored

LEMMA StorePublishes ==
  ASSUME SInv, SInv', NEW p \in Processes, Rename(p) \/ Link(p)
  PROVE  Promise!Next
  BY EnterPublishes

LEMMA StepStore == SInv /\ SInv' /\ [Next]_vars => [Promise!Next]_(Promise!vars)
  <1> SUFFICES ASSUME SInv, SInv', [Next]_vars PROVE [Promise!Next]_(Promise!vars)
    OBVIOUS
  <1>1. ASSUME UNCHANGED directoryVars PROVE UNCHANGED Promise!vars
    BY <1>1, StoreStays DEF Promise!vars, Store, Known
  <1>2. CASE PowerLoss
    BY <1>2, StoreLosesPower DEF Promise!Next
  <1>3. ASSUME NEW p \in Processes, Rename(p) \/ Link(p) PROVE Promise!Next
    BY <1>3, StorePublishes
  <1>4. ASSUME NEW p \in Processes, Command(p) \/ Kill(p) \/ Rerun(p), ~Rename(p), ~Link(p)
        PROVE  UNCHANGED directoryVars
    BY <1>4 DEF Command, CheckPaths, ValidateOutput, OpenInput, CreateTemporary, WriteChunk,
       EndStream, StreamFails, SyncTemporary, Unlink, NameTaken, VerifyArchive, ReadReport, Kill,
       Rerun
  <1>5. CASE UNCHANGED vars
    BY <1>1, <1>5 DEF vars, directoryVars
  <1> QED BY <1>1, <1>2, <1>3, <1>4, <1>5 DEF Next

LEMMA InitStore == SInv => Promise!Init
  BY StoreTypes DEF StoreInv, Promise!Init, Store, Known, Stored

--------------------------------------------------------------------------------

\* `inspect --verify` reports the archive its verifying pass decoded, though it
\* reads the file a second time (main.rs:366 inspect_archive).
THEOREM HonestReports == Spec => []ReportIsVerified
  <1>1. Init => SInv BY InitSInv
  <1>2. SInv /\ [Next]_vars => SInv' BY StepSInv
  <1>3. SInv => ReportIsVerified BY DEF SInv, InspectInv, ReportIsVerified
  <1> QED BY <1>1, <1>2, <1>3, PTL DEF Spec

\* Seen from the directory, every command changes its output in one step, to the
\* result of compressing or restoring a file that was there, and nothing else
\* changes a name but a power loss (main.rs:945 persist_atomic).
THEOREM StoreIsImplemented == Spec => ImplementsStore
  <1>1. Init => SInv BY InitSInv
  <1>2. SInv /\ [Next]_vars => SInv' BY StepSInv
  <1>3. SInv => Promise!Init BY InitStore
  <1>4. SInv /\ SInv' /\ [Next]_vars => [Promise!Next]_(Promise!vars) BY StepStore
  <1> QED BY <1>1, <1>2, <1>3, <1>4, PTL DEF Spec, ImplementsStore, Promise!Spec

--------------------------------------------------------------------------------
(* Sums.                                                                   *)

(* Induction over the naturals, with a set in place of the predicate. *)
LEMMA NaturalsFrom ==
    ASSUME NEW T, 0 \in T, \A n \in Nat : n \in T => n + 1 \in T
    PROVE  Nat \subseteq T
<1> SUFFICES ASSUME Nat \ T # {} PROVE FALSE
  OBVIOUS
<1>1. PICK m \in Nat \ T : \A k \in Nat \ T : <<k, m>> \notin OpToRel(<, Nat)
  BY NatLessThanWellFounded, WFMin
<1>2. m # 0 /\ m - 1 \in Nat /\ m - 1 < m /\ (m - 1) + 1 = m
  OBVIOUS
<1>3. <<m - 1, m>> \in OpToRel(<, Nat)
  BY <1>2 DEF OpToRel
<1> QED
  BY <1>1, <1>2, <1>3

LEMMA AppendIs ==
    ASSUME NEW S, NEW seq \in Seq(S), NEW last \in S, NEW n, n = Len(seq)
    PROVE  /\ n \in Nat
           /\ Append(seq, last) \in Seq(S)
           /\ Len(Append(seq, last)) = n + 1
           /\ Append(seq, last)[n + 1] = last
           /\ \A i \in 1..n : Append(seq, last)[i] = seq[i]
BY AppendProperties

--------------------------------------------------------------------------------
(* Total, given by the sums of its first parts. *)
Sums(n, lengths, g) ==
    g = [i \in 0..n |-> IF i = 0 THEN 0 ELSE g[i-1] + lengths[i]]

LEMMA SumsExist ==
    ASSUME NEW lengths, NEW n \in Nat
    PROVE  \E g : Sums(n, lengths, g)
<1> DEFINE T == {k \in Nat : \E g : Sums(k, lengths, g)}
<1>1. 0 \in T
  <2> DEFINE g == [i \in 0..0 |-> 0]
  <2>1. g = [i \in 0..0 |-> IF i = 0 THEN 0 ELSE g[i-1] + lengths[i]]
    OBVIOUS
  <2> HIDE DEF g
  <2> QED
    BY <2>1 DEF Sums
<1>2. ASSUME NEW k \in Nat, k \in T PROVE k + 1 \in T
  <2>1. PICK g : Sums(k, lengths, g)
    BY <1>2
  <2> DEFINE h == [i \in 0..k+1 |-> IF i = k + 1 THEN g[k] + lengths[k + 1] ELSE g[i]]
  <2>2. ASSUME NEW i \in 0..k+1
        PROVE  h[i] = IF i = 0 THEN 0 ELSE h[i-1] + lengths[i]
    <3>1. CASE i = k + 1
      <4>1. i # 0 /\ i - 1 = k /\ k \in 0..k+1 /\ k # k + 1 /\ i \in 0..k+1
        BY <3>1
      <4>2. h[i] = g[k] + lengths[k + 1] /\ h[k] = g[k]
        BY <3>1, <4>1
      <4> QED
        BY <3>1, <4>1, <4>2
    <3>2. CASE i # k + 1
      <4>1. i \in 0..k
        BY <3>2
      <4>2. g[i] = IF i = 0 THEN 0 ELSE g[i-1] + lengths[i]
        BY <2>1, <4>1 DEF Sums
      <4>3. h[i] = g[i]
        BY <3>2
      <4>4. i # 0 => i - 1 \in 0..k+1 /\ i - 1 # k + 1
        BY <4>1
      <4>5. i # 0 => h[i-1] = g[i-1]
        BY <4>4
      <4> QED
        BY <4>2, <4>3, <4>5
    <3> QED
      BY <3>1, <3>2
  <2>3. h = [i \in 0..k+1 |-> h[i]]
    OBVIOUS
  <2> HIDE DEF h
  <2>4. h = [i \in 0..k+1 |-> IF i = 0 THEN 0 ELSE h[i-1] + lengths[i]]
    BY <2>2, <2>3
  <2>5. k + 1 \in Nat /\ Sums(k + 1, lengths, h)
    BY <2>4 DEF Sums
  <2> QED
    BY <2>5
<1> HIDE DEF T
<1>3. n \in T
  BY <1>1, <1>2, NaturalsFrom
<1> QED
  BY <1>3 DEF T

LEMMA TotalIs ==
    ASSUME NEW lengths, NEW n \in Nat, n = Len(lengths)
    PROVE  \E g : Sums(n, lengths, g) /\ Total(lengths) = g[n]
<1> DEFINE sum[i \in 0..n] == IF i = 0 THEN 0 ELSE sum[i-1] + lengths[i]
<1>1. Total(lengths) = sum[n]
  BY DEF Total
<1>2. PICK g : Sums(n, lengths, g)
  BY SumsExist
<1>3. Sums(n, lengths, sum)
  BY <1>2 DEF Sums, sum
<1> HIDE DEF sum
<1> QED
  BY <1>1, <1>3

LEMMA TotalEmpty == Total(<<>>) = 0
<1>1. PICK g : Sums(0, <<>>, g) /\ Total(<<>>) = g[0]
  BY TotalIs
<1> QED
  BY <1>1 DEF Sums

(* Two sums agree as far as their terms do. *)
LEMMA SumsAgree ==
    ASSUME NEW n \in Nat, NEW m \in Nat, n <= m, NEW a, NEW b, NEW g, NEW h,
           Sums(n, a, g), Sums(m, b, h), \A i \in 1..n : a[i] = b[i]
    PROVE  g[n] = h[n]
<1> DEFINE T == {k \in Nat : k <= n => g[k] = h[k]}
<1>1. 0 \in T
  BY DEF Sums
<1>2. ASSUME NEW k \in Nat, k \in T PROVE k + 1 \in T
  <2>1. k + 1 \in Nat
    OBVIOUS
  <2>2. ASSUME k + 1 <= n PROVE g[k + 1] = h[k + 1]
    <3>1. k + 1 \in 1..n /\ k + 1 \in 0..n /\ k + 1 \in 0..m /\ k + 1 # 0 /\ (k + 1) - 1 = k
      BY <2>2
    <3>2. g[k + 1] = g[k] + a[k + 1] /\ h[k + 1] = h[k] + b[k + 1]
      BY <3>1 DEF Sums
    <3>3. g[k] = h[k]
      BY <1>2, <2>2
    <3> QED
      BY <3>1, <3>2, <3>3
  <2> QED
    BY <2>1, <2>2
<1> HIDE DEF T
<1>3. n \in T
  BY <1>1, <1>2, NaturalsFrom
<1> QED
  BY <1>3 DEF T

LEMMA TotalAppend ==
    ASSUME NEW a, NEW b, NEW n \in Nat, Len(a) = n, Len(b) = n + 1,
           \A i \in 1..n : b[i] = a[i]
    PROVE  Total(b) = Total(a) + b[n + 1]
<1>1. PICK g : Sums(n, a, g) /\ Total(a) = g[n]
  BY TotalIs
<1>2. n + 1 \in Nat /\ n <= n + 1 /\ n + 1 # 0 /\ n + 1 \in 0..n+1 /\ (n + 1) - 1 = n
  OBVIOUS
<1>3. PICK h : Sums(n + 1, b, h) /\ Total(b) = h[n + 1]
  BY <1>2, TotalIs
<1>4. g[n] = h[n]
  BY <1>1, <1>2, <1>3, SumsAgree
<1>5. h[n + 1] = h[n] + b[n + 1]
  BY <1>2, <1>3 DEF Sums
<1> QED
  BY <1>1, <1>3, <1>4, <1>5

--------------------------------------------------------------------------------
(* FlattenSeq, given by the concatenations of its first parts.             *)
Concatenations(n, seqs, g) ==
    g = [i \in 1..n |-> IF i = 1 THEN seqs[i] ELSE g[i-1] \o seqs[i]]
LEMMA SumNat == ASSUME NEW a \in Nat, NEW b \in Nat PROVE a + b \in Nat
OBVIOUS

--------------------------------------------------------------------------------
(* The search: its invariant.                                              *)

Tags == {"Tried", "HeuristicSkip", "BudgetStop"}
Stops == {"LedgerBudget", "WorkBudget", "CandidateBudget", "StateBudget"}
Reasons == Stops \cup {"UniversalLiteralUpperBound", "EvaluatedExact", "BlockLiteralUpperBound",
                       "ProviderBudget", "ProviderSearchComplete", "ProviderCatalogueIncomplete",
                       "SegmentLimit", "CandidateArchiveLimit"}
LedgerRows ==
    [event : Tags, reason : Reasons, from : Nat, to : Nat, bytes : Nat, selected : BOOLEAN]
Sessions ==
    [ledger : Seq(LedgerRows), candidates : Nat, states : Nat, work : Nat,
     stopped : BOOLEAN, exhausted : BOOLEAN, complete : BOOLEAN]
(* Within its budgets, with every stop in its ledger. *)
Sound(s) ==
    /\ s \in Sessions
    /\ s.candidates <= config.candidates /\ s.states <= config.states /\ s.work <= config.work
    /\ Len(s.ledger) \in 1..config.ledger
    /\ ~s.stopped => Len(s.ledger) < config.ledger
    /\ s.complete <=> \A n \in DOMAIN s.ledger : s.ledger[n].event = "Tried"
    /\ s.exhausted <=> \E n \in DOMAIN s.ledger : s.ledger[n].event = "BudgetStop"
    /\ s.stopped <=> \E n \in DOMAIN s.ledger : /\ s.ledger[n].event = "BudgetStop"
                                                /\ s.ledger[n].reason # "ProviderBudget"
LiteralRow == [Row("Tried", "UniversalLiteralUpperBound", 0, Total(input)) EXCEPT !.selected = TRUE]
Unmarked == 
    /\ session.ledger[1] = LiteralRow
    /\ \A n \in DOMAIN session.ledger : session.ledger[n].selected => n = 1

Phases == {"block", "search", "try", "whole", "interval", "extend", "paths", "chosen", "done", "failed"}
Over == {"done", "failed"}
Outside == {"block", "done", "failed"}
OfInterval == {"search", "try", "extend"}
OfPaths == {"search", "try", "interval", "extend", "paths"}
InPaths == at.paths # <<>>
Places ==
    [pc : Phases, block : Nat, provider : Nat, queue : Seq(ProvidedCandidates), from : Nat, to : Nat,
     edges : Seq(ProvidedCandidates), paths : Seq(Seq(Seq(ProvidedCandidates)))]
PlaceInv ==
    /\ config \in SearchConfigs /\ input \in SearchInputs /\ LiteralArchive <= config.archive
    /\ at \in Places
    /\ at.block \in 1..Len(input) + 1
    /\ at.pc \notin Outside => at.block <= Len(input)
    /\ at.pc = "done" => at.block = Len(input) + 1
    /\ at.pc \in Outside \cup {"whole"} => ~InPaths
    /\ at.pc \in {"interval", "extend", "paths"} => InPaths
    /\ IF InPaths THEN Len(at.paths) = Here + 1 /\ Intervals # <<>> ELSE at.from = 0 /\ at.to = 1
    /\ InPaths /\ at.pc \in OfInterval => at.from < at.to /\ at.to <= Here
    /\ at.pc = "interval" => at.from <= Here /\ at.from < at.to /\ at.to <= Here + 1
    /\ at.pc = "search" => at.provider \in DOMAIN Providers
    /\ at.pc \in {"search", "whole", "interval", "extend"} => at.queue = <<>>
    /\ at.pc = "paths" /\ session.complete => at.from = Here
    /\ at.pc \in {"search", "try", "whole", "interval", "extend"} => ~session.stopped

Steps(from, to, n, a, b) ==
    /\ n \in Nat \ {0}
    /\ from[1] = a /\ to[n] = b
    /\ \A i \in 1..n : from[i] \in Nat /\ to[i] \in Nat /\ from[i] < to[i]
    /\ \A i \in 1..n-1 : to[i] = from[i + 1]
Walk(w, k) ==
    IF w = <<>> THEN k = 0
    ELSE Steps([i \in DOMAIN w |-> w[i].from], [i \in DOMAIN w |-> w[i].to], Len(w), 0, k)
(* The row of the ledger for piece c of block b. *)
Audited(c, b, ledger) ==
    /\ c.row \in DOMAIN ledger /\ ledger[c.row].event = "Tried"
    /\ ledger[c.row].from = Start(b) + c.from /\ ledger[c.row].to = Start(b) + c.to
Tiles(rows, b, ledger) ==
    /\ \A i \in DOMAIN rows : rows[i] \in DOMAIN ledger /\ ledger[rows[i]].event = "Tried"
    /\ Steps([i \in DOMAIN rows |-> ledger[rows[i]].from],
             [i \in DOMAIN rows |-> ledger[rows[i]].to],
             Len(rows), Start(b), Start(b) + input[b])
BlockChoices == [bytes : Nat, order : Seq(Nat), rows : Seq(Nat)]
Fits(c) == Len(input) = 1 => ArchiveBytes(c.bytes) <= config.archive
WholeBytes(b) == {o.candidate.bytes : o \in {x \in offered : x.block = b /\ x.whole}}
High(b, c) == \A m \in Reachable(b) : c.bytes <= m
Low(b, c) == \E m \in Reachable(b) : m <= c.bytes

(* The choice c for block b: its rows cut the block, unless it has none. *)
Rows(c, b) ==
    IF c.rows = <<0>> THEN session.stopped ELSE Tiles(c.rows, b, session.ledger)
BlocksInv == at.pc \notin Over =>
    /\ choices \in Seq(BlockChoices)
    /\ Len(choices) = at.block - 1
    /\ \A b \in 1..at.block - 1 :
         /\ Rows(choices[b], b) /\ Fits(choices[b]) /\ Low(b, choices[b])
         /\ session.complete => High(b, choices[b])
BestInv == at.pc \notin Outside =>
    /\ best \in BlockChoices
    /\ Rows(best, at.block) /\ (InPaths => best.rows # <<0>>)
    /\ Fits(best)
    /\ best.bytes <= LiteralBytes[Here]
    /\ IF at.pc = "chosen"
       THEN Low(at.block, best) /\ (session.complete => High(at.block, best))
       ELSE best.bytes \in {LiteralBytes[Here]} \cup WholeBytes(at.block)
    /\ ~session.stopped \/ InPaths =>
         \A n \in WholeBytes(at.block) :
            best.bytes <= n \/ (~InPaths /\ \E i \in DOMAIN at.queue : n = at.queue[i].bytes)

EdgeInv == InPaths /\ at.pc \in OfInterval =>
    /\ \A i \in DOMAIN at.edges :
         /\ at.edges[i].from = at.from /\ at.edges[i].to = at.to
         /\ Audited(at.edges[i], at.block, session.ledger)
         /\ at.edges[i].bytes \in PieceBytes(at.block, at.from, at.to)
    /\ \A i \in DOMAIN at.queue : at.queue[i].bytes \in PieceBytes(at.block, at.from, at.to)
    /\ session.complete =>
         \A n \in PieceBytes(at.block, at.from, at.to) :
            \/ \E i \in DOMAIN at.edges : n = at.edges[i].bytes
            \/ \E i \in DOMAIN at.queue : n = at.queue[i].bytes
Pieces == [from : Nat, to : Nat, bytes : Nat]
Priced(w, b) == \A i \in DOMAIN w : w[i].bytes \in PieceBytes(b, w[i].from, w[i].to)
Made(p, k, b, ledger) ==
    Walk(p, k) /\ Priced(p, b) /\ \A i \in DOMAIN p : Audited(p[i], b, ledger)
PathInv == InPaths /\ at.pc \in OfPaths =>
    \A k \in 0..Here : \A i \in DOMAIN at.paths[k + 1] :
       Made(at.paths[k + 1][i], k, at.block, session.ledger)

Passed(from, to) == from < at.from \/ (from = at.from /\ to < at.to)
SameWalk(p, w) ==
    /\ Len(p) = Len(w)
    /\ \A i \in DOMAIN w : p[i].from = w[i].from /\ p[i].to = w[i].to /\ p[i].bytes = w[i].bytes
(* Every way to reach a place of the block that the search has passed. *)
Covered(W) == (session.complete /\ InPaths /\ at.pc \in OfPaths /\ Here <= config.segments) =>
    \A k \in 0..Here : \A w \in W :
       Walk(w, k) /\ Priced(w, at.block) /\ (w # <<>> => Passed(w[Len(w)].from, w[Len(w)].to)) =>
         \E i \in DOMAIN at.paths[k + 1] : SameWalk(at.paths[k + 1][i], w)
CoverInv == Covered(Seq(Pieces))

OfferSet ==
    [block : Nat, from : Nat, to : Nat, whole : BOOLEAN, candidate : ProvidedCandidates]
OfferInv == at.pc \notin Over =>
    /\ offered \subseteq OfferSet
    /\ \A o \in offered : /\ 1 <= o.block /\ o.block <= at.block
                          /\ at.pc = "block" => o.block < at.block
    /\ \A o \in offered : o.block = at.block /\ ~o.whole =>
         /\ InPaths
         /\ at.pc \in OfPaths =>
              Passed(o.from, o.to) \/ (at.pc # "interval" /\ o.from = at.from /\ o.to = at.to)
    /\ ~InPaths /\ at.pc = "try" => \A i \in DOMAIN at.queue : at.queue[i].bytes \in WholeBytes(at.block)

StarvedInv == at.pc \notin Over /\ Len(input) = 1 /\ session.states > 0 =>
      \/ at.block = 1 /\ InPaths
      \/ /\ at.block = 2 /\ choices[1].rows # <<0>>
         /\ \A n \in WholeBytes(1) : choices[1].bytes <= n

SoundInv == Sound(session)
UnmarkedInv == at.pc # "done" => Unmarked
ResultInv == at.pc = "done" => SearchIsHonest

--------------------------------------------------------------------------------
(* Sums of bytes, the least of them, and steps from one place to another.  *)

LEMMA PartialTotals ==
    ASSUME NEW s \in Seq(Nat)
    PROVE  \E g : /\ g \in [0..Len(s) -> Nat]
                  /\ g[0] = 0 /\ Total(s) = g[Len(s)]
                  /\ \A i \in 1..Len(s) : g[i] = g[i-1] + s[i]
                  /\ Sums(Len(s), s, g)
<1>1. Len(s) \in Nat /\ \A i \in 1..Len(s) : s[i] \in Nat
  OBVIOUS
<1>2. PICK g : Sums(Len(s), s, g) /\ Total(s) = g[Len(s)]
  BY <1>1, TotalIs
<1>3. /\ g = [i \in 0..Len(s) |-> g[i]]
      /\ g[0] = 0 /\ \A i \in 1..Len(s) : g[i] = g[i-1] + s[i]
  BY SMTT(40), <1>1, <1>2 DEF Sums
<1> DEFINE T == {i \in Nat : i <= Len(s) => g[i] \in Nat}
<1>4. 0 \in T
  BY <1>3
<1>5. ASSUME NEW i \in Nat, i \in T PROVE i + 1 \in T
  <2> SUFFICES ASSUME i + 1 <= Len(s) PROVE g[i + 1] \in Nat
    OBVIOUS
  <2>1. i + 1 \in 1..Len(s) /\ (i + 1) - 1 = i /\ g[i] \in Nat /\ s[i + 1] \in Nat
    BY <1>1, <1>5
  <2>2. g[i + 1] = g[i] + s[i + 1]
    BY <1>3, <2>1
  <2> QED
    BY <2>1, <2>2
<1> HIDE DEF T
<1>6. Nat \subseteq T
  BY <1>4, <1>5, NaturalsFrom
<1>7. \A i \in 0..Len(s) : g[i] \in Nat
  BY <1>1, <1>6 DEF T
<1> QED
  BY <1>2, <1>3, <1>7

LEMMA TotalMonotone ==
    ASSUME NEW a \in Seq(Nat), NEW b \in Seq(Nat), Len(a) = Len(b),
           \A i \in 1..Len(a) : a[i] <= b[i]
    PROVE  Total(a) \in Nat /\ Total(a) <= Total(b)
<1>1. PICK g : /\ g \in [0..Len(a) -> Nat]
               /\ g[0] = 0 /\ Total(a) = g[Len(a)]
               /\ \A i \in 1..Len(a) : g[i] = g[i-1] + a[i]
  BY PartialTotals
<1>2. PICK h : /\ h \in [0..Len(b) -> Nat]
               /\ h[0] = 0 /\ Total(b) = h[Len(b)]
               /\ \A i \in 1..Len(b) : h[i] = h[i-1] + b[i]
  BY PartialTotals
<1>3. Len(a) \in Nat /\ \A i \in 1..Len(a) : a[i] \in Nat /\ b[i] \in Nat
  OBVIOUS
<1> DEFINE T == {i \in Nat : i <= Len(a) => g[i] <= h[i]}
<1>4. 0 \in T
  BY <1>1, <1>2
<1>5. ASSUME NEW i \in Nat, i \in T PROVE i + 1 \in T
  <2> SUFFICES ASSUME i + 1 <= Len(a) PROVE g[i + 1] <= h[i + 1]
    OBVIOUS
  <2>1. i + 1 \in 1..Len(a) /\ (i + 1) - 1 = i /\ i \in 0..Len(a) /\ g[i] <= h[i]
    BY <1>3, <1>5
  <2>2. g[i + 1] = g[i] + a[i + 1] /\ h[i + 1] = h[i] + b[i + 1]
    BY <1>1, <1>2, <2>1
  <2>3. /\ g[i] \in Nat /\ h[i] \in Nat /\ a[i + 1] \in Nat /\ b[i + 1] \in Nat
        /\ a[i + 1] <= b[i + 1]
    BY <1>1, <1>2, <1>3, <2>1
  <2>4. g[i] + a[i + 1] <= h[i] + b[i + 1]
    BY <2>1, <2>3
  <2> QED
    BY <2>2, <2>4
<1> HIDE DEF T
<1>6. Len(a) \in T
  BY <1>3, <1>4, <1>5, NaturalsFrom
<1> QED
  BY <1>1, <1>2, <1>3, <1>6 DEF T

LEMMA TotalSame ==
    ASSUME NEW n \in Nat, NEW a, NEW b, Len(a) = n, Len(b) = n, \A i \in 1..n : a[i] = b[i]
    PROVE  Total(a) = Total(b)
<1>1. PICK g : Sums(n, a, g) /\ Total(a) = g[n]
  BY TotalIs
<1>2. PICK h : Sums(n, b, h) /\ Total(b) = h[n]
  BY TotalIs
<1> QED
  BY <1>1, <1>2, SumsAgree

LEMMA TotalOfOne ==
    ASSUME NEW a, Len(a) = 1, a[1] \in Nat
    PROVE  Total(a) = a[1]
<1>1. PICK g : Sums(1, a, g) /\ Total(a) = g[1]
  BY TotalIs
<1>2. g[1] = g[0] + a[1] /\ g[0] = 0
  BY <1>1 DEF Sums
<1> QED
  BY <1>1, <1>2

LEMMA LeastIs ==
    ASSUME NEW S \in SUBSET Nat, S # {}
    PROVE  Least(S) \in S /\ \A m \in S : Least(S) <= m
<1>1. PICK m \in S : \A k \in S : <<k, m>> \notin OpToRel(<, Nat)
  BY NatLessThanWellFounded, WFMin
<1>2. ASSUME NEW k \in S, k < m PROVE FALSE
  <2>1. k \in Nat /\ m \in Nat
    OBVIOUS
  <2>2. <<k, m>> \in OpToRel(<, Nat)
    BY <1>2, <2>1 DEF OpToRel
  <2> QED
    BY <1>1, <2>2
<1>3. \A k \in S : m <= k
  BY <1>2
<1> QED
  BY <1>3 DEF Least

(* A function that goes on from each value with the next. *)
Iterates(n, start, f, g) ==
    g = [i \in 0..n |-> IF i = 0 THEN start ELSE f[<<i, g[i-1]>>]]

LEMMA IterationExists ==
    ASSUME NEW n \in Nat, NEW X, NEW start \in X, NEW f,
           \A i \in 1..n : \A x \in X : f[<<i, x>>] \in X
    PROVE  \E g \in [0..n -> X] : Iterates(n, start, f, g)
<1> DEFINE T == {k \in Nat : k <= n => \E g \in [0..k -> X] : Iterates(k, start, f, g)}
<1>1. 0 \in T
  <2> DEFINE g == [i \in 0..0 |-> start]
  <2>1. g = [i \in 0..0 |-> IF i = 0 THEN start ELSE f[<<i, g[i-1]>>]] /\ g \in [0..0 -> X]
    OBVIOUS
  <2> HIDE DEF g
  <2> QED
    BY <2>1 DEF Iterates
<1>2. ASSUME NEW k \in Nat, k \in T PROVE k + 1 \in T
  <2> SUFFICES ASSUME k + 1 <= n PROVE \E h \in [0..k+1 -> X] : Iterates(k + 1, start, f, h)
    OBVIOUS
  <2>1. PICK g \in [0..k -> X] : Iterates(k, start, f, g)
    BY <1>2
  <2>2. k + 1 \in 1..n /\ g[k] \in X
    BY <2>1
  <2> DEFINE h == [i \in 0..k+1 |-> IF i = k + 1 THEN f[<<k + 1, g[k]>>] ELSE g[i]]
  <2>3. ASSUME NEW i \in 0..k+1
        PROVE  h[i] = (IF i = 0 THEN start ELSE f[<<i, h[i-1]>>]) /\ h[i] \in X
    <3>1. CASE i = k + 1
      <4>1. i # 0 /\ i - 1 = k /\ k \in 0..k+1 /\ k # k + 1
        BY <3>1
      <4>2. h[i] = f[<<k + 1, g[k]>>] /\ h[k] = g[k]
        BY <3>1, <4>1
      <4> QED
        BY <2>2, <3>1, <4>1, <4>2
    <3>2. CASE i # k + 1
      <4>1. i \in 0..k
        BY <3>2
      <4>2. g[i] = (IF i = 0 THEN start ELSE f[<<i, g[i-1]>>])
        BY <2>1, <4>1 DEF Iterates
      <4>3. h[i] = g[i] /\ g[i] \in X
        BY <3>2, <4>1
      <4>4. i # 0 => i - 1 \in 0..k+1 /\ i - 1 # k + 1
        BY <4>1
      <4>5. i # 0 => h[i-1] = g[i-1]
        BY <4>4
      <4> HIDE DEF h
      <4> QED
        BY <4>2, <4>3, <4>5
    <3> QED
      BY <3>1, <3>2
  <2>4. h = [i \in 0..k+1 |-> h[i]]
    OBVIOUS
  <2> HIDE DEF h
  <2>5. h = [i \in 0..k+1 |-> IF i = 0 THEN start ELSE f[<<i, h[i-1]>>]]
    BY <2>3, <2>4
  <2>6. h \in [0..k+1 -> X]
    BY <2>3, <2>4
  <2> QED
    BY <2>5, <2>6 DEF Iterates
<1> HIDE DEF T
<1>3. n \in T
  BY <1>1, <1>2, NaturalsFrom
<1> QED
  BY <1>3 DEF T

--------------------------------------------------------------------------------
(* Pieces that follow one another.                                         *)

LEMMA StepsRise ==
    ASSUME NEW from, NEW to, NEW n, NEW a, NEW b, Steps(from, to, n, a, b)
    PROVE  /\ \A j \in 1..n : \A i \in 1..j-1 : to[i] <= from[j]
           /\ \A i \in 1..n : a <= from[i] /\ to[i] <= b
           /\ a \in Nat /\ b \in Nat /\ a < b
<1> USE DEF Steps
<1> DEFINE T == {j \in Nat : j \in 1..n => \A i \in 1..j-1 : to[i] <= from[j]}
<1>1. 0 \in T
  OBVIOUS
<1>2. ASSUME NEW j \in Nat, j \in T PROVE j + 1 \in T
  <2> SUFFICES ASSUME j + 1 \in 1..n, NEW i \in 1..(j+1)-1 PROVE to[i] <= from[j + 1]
    OBVIOUS
  <2>1. j \in 1..n-1 /\ i \in 1..j /\ i \in 1..n /\ j \in 1..n
    OBVIOUS
  <2>2. to[j] = from[j + 1] /\ from[j] < to[j] /\ from[j] \in Nat /\ to[j] \in Nat
        /\ to[i] \in Nat
    BY <2>1
  <2>3. CASE i = j
    BY <2>2, <2>3
  <2>4. CASE i # j
    <3>1. i \in 1..j-1
      BY <2>1, <2>4
    <3>2. to[i] <= from[j]
      BY <1>2, <2>1, <3>1
    <3> QED
      BY <2>2, <3>2
  <2> QED
    BY <2>3, <2>4
<1> HIDE DEF T
<1>3. Nat \subseteq T
  BY <1>1, <1>2, NaturalsFrom
<1>4. \A j \in 1..n : \A i \in 1..j-1 : to[i] <= from[j]
  BY <1>3 DEF T
<1>5. ASSUME NEW i \in 1..n PROVE a <= from[i] /\ to[i] <= b
  <2>1. 1 \in 1..n /\ n \in 1..n
    OBVIOUS
  <2>2. i # 1 => 1 \in 1..i-1
    OBVIOUS
  <2>3. i # n => i \in 1..n-1
    OBVIOUS
  <2>4. i # 1 => to[1] <= from[i]
    BY <1>4, <2>2
  <2>5. i # n => to[i] <= from[n]
    BY <1>4, <2>1, <2>3
  <2> QED
    BY <2>1, <2>4, <2>5
<1>6. a \in Nat /\ b \in Nat /\ a < b
  <2>1. 1 \in 1..n /\ n \in 1..n
    OBVIOUS
  <2>2. to[1] <= b
    BY <1>5, <2>1
  <2> QED
    BY <2>1, <2>2
<1> QED
  BY <1>4, <1>5, <1>6

(* They leave no gap. *)
LEMMA StepsFill ==
    ASSUME NEW from, NEW to, NEW n, NEW a, NEW b, Steps(from, to, n, a, b),
           NEW x \in a+1..b
    PROVE  \E i \in 1..n : x \in from[i]+1..to[i]
<1> USE DEF Steps
<1>1. a \in Nat /\ b \in Nat
  BY StepsRise
<1> DEFINE T == {j \in Nat : j \in 1..n /\ x <= to[j] => \E i \in 1..n : x \in from[i]+1..to[i]}
<1>2. 0 \in T
  OBVIOUS
<1>3. ASSUME NEW j \in Nat, j \in T PROVE j + 1 \in T
  <2> SUFFICES ASSUME j + 1 \in 1..n, x <= to[j + 1]
               PROVE  \E i \in 1..n : x \in from[i]+1..to[i]
    OBVIOUS
  <2>1. from[j + 1] \in Nat /\ to[j + 1] \in Nat /\ x \in Nat
    BY <1>1
  <2>2. CASE from[j + 1] < x
    BY <2>1, <2>2
  <2>3. CASE ~(from[j + 1] < x)
    <3>1. j # 0
      BY <1>1, <2>1, <2>3
    <3>2. j \in 1..n-1 /\ j \in 1..n
      BY <3>1
    <3>3. to[j] = from[j + 1]
      BY <3>2
    <3> QED
      BY <1>3, <2>1, <2>3, <3>2, <3>3
  <2> QED
    BY <2>2, <2>3
<1> HIDE DEF T
<1>4. Nat \subseteq T
  BY <1>2, <1>3, NaturalsFrom
<1>5. n \in Nat /\ n \in 1..n /\ x <= to[n]
  BY <1>1
<1> QED
  BY <1>4, <1>5 DEF T

(* Each takes at least one. *)
LEMMA StepsAreFew ==
    ASSUME NEW from, NEW to, NEW n, NEW b, Steps(from, to, n, 0, b)
    PROVE  n <= b
<1> USE DEF Steps
<1> DEFINE T == {j \in Nat : j \in 1..n => j <= to[j]}
<1>1. 0 \in T
  OBVIOUS
<1>2. ASSUME NEW j \in Nat, j \in T PROVE j + 1 \in T
  <2> SUFFICES ASSUME j + 1 \in 1..n PROVE j + 1 <= to[j + 1]
    OBVIOUS
  <2>1. from[j + 1] \in Nat /\ to[j + 1] \in Nat /\ from[j + 1] < to[j + 1]
    OBVIOUS
  <2>2. CASE j = 0
    BY <2>1, <2>2
  <2>3. CASE j # 0
    <3>1. j \in 1..n-1 /\ j \in 1..n
      BY <2>3
    <3>2. to[j] = from[j + 1] /\ j <= to[j]
      BY <1>2, <3>1
    <3> QED
      BY <2>1, <3>2
  <2> QED
    BY <2>2, <2>3
<1> HIDE DEF T
<1>3. Nat \subseteq T
  BY <1>1, <1>2, NaturalsFrom
<1>4. n \in Nat /\ n \in 1..n
  OBVIOUS
<1> QED
  BY <1>3, <1>4 DEF T

--------------------------------------------------------------------------------
(* Every path with every edge.                                             *)

LEMMA DivMod ==
  ASSUME NEW W \in Nat \ {0}, NEW a \in Nat
  PROVE  a \div W \in Nat /\ a % W \in 0..W-1 /\ a = W * (a \div W) + (a % W)
<1>1. a % W \in 0..W-1
  OBVIOUS
<1>2. a = W * (a \div W) + (a % W)
  OBVIOUS
<1>3. a \div W \in Int
  OBVIOUS
<1>4. a \div W >= 0
  BY <1>1, <1>2, <1>3
<1> QED
  BY <1>1, <1>2, <1>3, <1>4

LEMMA QuotientBound ==
  ASSUME NEW W \in Nat \ {0}, NEW L \in Nat, NEW q \in Nat, NEW r \in 0..W-1,
         W * q + r < L * W
  PROVE  q < L
<1> SUFFICES ASSUME q >= L PROVE FALSE
  OBVIOUS
<1>1. PICK d \in Nat : q = L + d
  <2>1. q - L \in Nat /\ q = L + (q - L)
    OBVIOUS
  <2> QED
    BY <2>1
<1>2. W * q = L * W + W * d
  BY <1>1
<1>3. W * d >= 0
  OBVIOUS
<1>4. W * q \in Int /\ L * W \in Int /\ W * d \in Int
  BY <1>1
<1> QED
  BY <1>2, <1>3, <1>4

\* W * q grows with q, by at least W a step.
LEMMA ProductGrows ==
  ASSUME NEW W \in Nat, NEW p \in Nat, NEW q \in Nat, p < q
  PROVE  W * p + W <= W * q
<1>1. PICK d \in Nat : q = (p + 1) + d
  <2>1. q - (p + 1) \in Nat /\ q = (p + 1) + (q - (p + 1))
    OBVIOUS
  <2> QED
    BY <2>1
<1>2. W * q = (W * p + W) + W * d
  BY <1>1
<1>3. W * d >= 0
  OBVIOUS
<1>4. W * q \in Int /\ W * p \in Int /\ W * d \in Int
  BY <1>1
<1> QED
  BY <1>2, <1>3, <1>4

LEMMA DivUnique ==
  ASSUME NEW W \in Nat \ {0}, NEW q \in Nat, NEW r \in 0..W-1, NEW a, a = W * q + r
  PROVE  a \in Nat /\ a \div W = q /\ a % W = r
<1>1. W * q \in Nat
  OBVIOUS
<1>2. a \in Nat
  <2> DEFINE p == W * q
  <2>1. p \in Nat /\ a = p + r
    BY <1>1
  <2> HIDE DEF p
  <2> QED
    BY <2>1
<1> DEFINE y == a \div W
           z == a % W
<1>3. y \in Nat /\ z \in 0..W-1 /\ a = W * y + z
  BY <1>2, DivMod
<1> HIDE DEF y, z
<1>4. W * y \in Nat /\ W * q \in Nat
  BY <1>3
<1>5. ~(y < q)
  <2> SUFFICES ASSUME y < q PROVE FALSE
    OBVIOUS
  <2>1. W * y + W <= W * q
    BY <1>3, ProductGrows
  <2> QED
    BY <1>3, <1>4, <2>1
<1>6. ~(q < y)
  <2> SUFFICES ASSUME q < y PROVE FALSE
    OBVIOUS
  <2>1. W * q + W <= W * y
    BY <1>3, ProductGrows
  <2> QED
    BY <1>3, <1>4, <2>1
<1>7. y = q
  BY <1>3, <1>5, <1>6
<1>8. z = r
  BY <1>3, <1>4, <1>7
<1> QED
  BY <1>2, <1>7, <1>8 DEF y, z


(* z holds every path of p with every edge of e, and nothing else.         *)
Pairs(z, p, e) ==
    /\ \A k \in 1..Len(z) : \E i \in DOMAIN p, j \in DOMAIN e : z[k] = Append(p[i], e[j])
    /\ \A i \in DOMAIN p, j \in DOMAIN e : \E k \in 1..Len(z) : z[k] = Append(p[i], e[j])
LEMMA ExtensionsAre ==
    ASSUME NEW C, NEW p \in Seq(Seq(C)), NEW e \in Seq(C), NEW z, z = Extensions(p, e)
    PROVE  z \in Seq(Seq(C)) /\ Len(z) \in Nat /\ Pairs(z, p, e)
<1> DEFINE P == Len(p)
           W == Len(e)
           X == Extensions(p, e)
<1>1. P \in Nat /\ W \in Nat /\ DOMAIN p = 1..P /\ DOMAIN e = 1..W
  OBVIOUS
<1>2. P * W \in Nat
  BY <1>1
<1>3. X = [k \in 1..P * W |-> Append(p[((k - 1) \div W) + 1], e[((k - 1) % W) + 1])]
  BY DEF Extensions
<1>4. ASSUME NEW k \in 1..P * W
      PROVE  \E i \in 1..P, j \in 1..W : i = ((k - 1) \div W) + 1 /\ j = ((k - 1) % W) + 1
  <2>1. W # 0
    <3> SUFFICES ASSUME W = 0 PROVE FALSE
      OBVIOUS
    <3>1. P * W = 0
      BY <1>1
    <3> QED
      BY <3>1
  <2> DEFINE a == k - 1
             q == a \div W
             r == a % W
  <2>2. W \in Nat \ {0} /\ a \in Nat /\ a < P * W
    BY <1>1, <1>2, <2>1
  <2>3. q \in Nat /\ r \in 0..W-1 /\ a = W * q + r
    BY <2>2, DivMod
  <2> HIDE DEF q, r, a
  <2>4. q < P
    <3>1. W * q + r < P * W
      BY <2>2, <2>3
    <3> QED
      BY <1>1, <2>2, <2>3, <3>1, QuotientBound
  <2>5. q + 1 \in 1..P /\ r + 1 \in 1..W
    BY <1>1, <2>3, <2>4
  <2> QED
    BY <2>5 DEF q, r, a
<1>5. ASSUME NEW i \in 1..P, NEW j \in 1..W
      PROVE  \E k \in 1..P * W : i = ((k - 1) \div W) + 1 /\ j = ((k - 1) % W) + 1
  <2> DEFINE q == i - 1
             r == j - 1
             a == W * q + r
             n == P * W
  <2>1. W \in Nat \ {0} /\ q \in Nat /\ r \in 0..W-1 /\ i = q + 1 /\ j = r + 1 /\ q < P
    BY <1>1
  <2> HIDE DEF q, r
  <2>2. a \in Nat /\ a \div W = q /\ a % W = r
    BY <2>1, DivUnique
  <2>3. a < n
    <3> DEFINE b == W * q
    <3>1. b + W <= W * P
      BY <1>1, <2>1, ProductGrows
    <3>2. b \in Int /\ W * P = P * W /\ W * P \in Int
      BY <1>1, <2>1
    <3> HIDE DEF b
    <3>3. b + r < W * P
      BY <1>1, <2>1, <3>1, <3>2
    <3> QED
      BY <3>2, <3>3 DEF b
  <2>4. n \in Nat
    BY <1>2
  <2>5. \E k \in 1..n : q = (k - 1) \div W /\ r = (k - 1) % W
    <3> HIDE DEF a, n
    <3>1. a + 1 \in 1..n /\ (a + 1) - 1 = a
      BY <2>2, <2>3, <2>4
    <3> QED
      BY <2>2, <3>1
  <2> QED
    BY <2>1, <2>5
<1>6. \A k \in 1..P * W : X[k] = Append(p[((k - 1) \div W) + 1], e[((k - 1) % W) + 1])
  BY <1>3
<1>7. ASSUME NEW k \in 1..P * W PROVE \E i \in 1..P, j \in 1..W : X[k] = Append(p[i], e[j])
  <2>1. PICK i \in 1..P, j \in 1..W : i = ((k - 1) \div W) + 1 /\ j = ((k - 1) % W) + 1
    BY <1>4
  <2>2. X[k] = Append(p[i], e[j])
    BY <1>6, <2>1
  <2> QED
    BY <2>2
<1>8. ASSUME NEW i \in 1..P, NEW j \in 1..W PROVE \E k \in 1..P * W : X[k] = Append(p[i], e[j])
  <2>1. PICK k \in 1..P * W : i = ((k - 1) \div W) + 1 /\ j = ((k - 1) % W) + 1
    BY <1>5
  <2>2. X[k] = Append(p[i], e[j])
    BY <1>6, <2>1
  <2> QED
    BY <2>2
<1>9. DOMAIN X = 1..P * W
  BY <1>3
<1>10. \A i \in 1..P, j \in 1..W : Append(p[i], e[j]) \in Seq(C)
  BY <1>1
<1>11. \A k \in 1..P * W : X[k] \in Seq(C)
  BY <1>7, <1>10
<1>12. X = [k \in 1..P * W |-> X[k]]
  BY <1>3
<1> HIDE DEF X
<1>13. X \in Seq(Seq(C)) /\ Len(X) = P * W
  <2> DEFINE n == P * W
  <2>1. n \in Nat /\ X \in [1..n -> Seq(C)]
    BY <1>2, <1>9, <1>11, <1>12
  <2> HIDE DEF n
  <2>2. X \in Seq(Seq(C)) /\ Len(X) = n
    BY <2>1
  <2> QED
    BY <2>2 DEF n
<1>14. 1..Len(X) = 1..P * W
  BY <1>13
<1> HIDE DEF P, W
<1>15. ASSUME NEW k \in 1..Len(X)
       PROVE  \E i \in DOMAIN p, j \in DOMAIN e : X[k] = Append(p[i], e[j])
  <2>1. k \in 1..P * W
    BY <1>14
  <2>2. PICK i \in 1..P, j \in 1..W : X[k] = Append(p[i], e[j])
    BY <1>7, <2>1
  <2> QED
    BY <1>1, <2>2
<1>16. ASSUME NEW i \in DOMAIN p, NEW j \in DOMAIN e
       PROVE  \E k \in 1..Len(X) : X[k] = Append(p[i], e[j])
  <2>1. PICK k \in 1..P * W : X[k] = Append(p[i], e[j])
    BY <1>1, <1>8
  <2> QED
    BY <1>14, <2>1
<1> QED
  <2>1. X \in Seq(Seq(C)) /\ Len(X) \in Nat /\ Pairs(X, p, e)
    BY <1>2, <1>13, <1>15, <1>16 DEF Pairs, P, W
  <2> QED
    BY <2>1 DEF X

--------------------------------------------------------------------------------
(* The blocks of the input follow one another.                             *)

LEMMA InputFacts ==
    ASSUME input \in SearchInputs
    PROVE  /\ Len(input) \in Nat /\ DOMAIN input = 1..Len(input)
           /\ \A b \in 1..Len(input) : input[b] \in Nat \ {0}
           /\ \A b \in 1..Len(input)+1 : Start(b) \in Nat
           /\ \A b \in 1..Len(input) : Start(b + 1) = Start(b) + input[b]
           /\ Start(1) = 0 /\ Start(Len(input) + 1) = Total(input) /\ Total(input) \in Nat
<1>1. input \in Seq(Nat \ {0}) /\ input \in Seq(Nat)
  BY SearchInputsAssumption
<1>2. /\ Len(input) \in Nat /\ DOMAIN input = 1..Len(input)
      /\ \A b \in 1..Len(input) : input[b] \in Nat \ {0}
  BY <1>1
<1>3. PICK g : /\ g \in [0..Len(input) -> Nat]
               /\ g[0] = 0 /\ Total(input) = g[Len(input)]
               /\ \A i \in 1..Len(input) : g[i] = g[i-1] + input[i]
               /\ Sums(Len(input), input, g)
  BY <1>1, PartialTotals
<1>4. ASSUME NEW b \in 1..Len(input)+1 PROVE Start(b) = g[b-1]
  <2> DEFINE s == SubSeq(input, 1, b-1)
  <2>1. b-1 \in Nat /\ b-1 <= Len(input)
    BY <1>2
  <2>2. Len(s) = b-1 /\ \A i \in 1..b-1 : s[i] = input[i]
    BY <1>1, <2>1
  <2> HIDE DEF s
  <2>3. PICK h : Sums(b-1, s, h) /\ Total(s) = h[b-1]
    BY <2>1, <2>2, TotalIs
  <2>4. h[b-1] = g[b-1]
    BY <1>2, <1>3, <2>1, <2>2, <2>3, SumsAgree
  <2> QED
    BY <2>3, <2>4 DEF Start, s
<1>5. \A b \in 1..Len(input)+1 : Start(b) \in Nat
  BY <1>2, <1>3, <1>4
<1>6. ASSUME NEW b \in 1..Len(input) PROVE Start(b + 1) = Start(b) + input[b]
  <2>1. b \in 1..Len(input)+1 /\ b + 1 \in 1..Len(input)+1 /\ (b + 1) - 1 = b
    BY <1>2
  <2>2. Start(b) = g[b-1]
    BY <1>4, <2>1
  <2>3. Start(b + 1) = g[(b + 1) - 1]
    BY <1>4, <2>1
  <2> QED
    BY <1>3, <2>1, <2>2, <2>3
<1>7. Start(1) = 0 /\ Start(Len(input) + 1) = Total(input) /\ Total(input) \in Nat
  <2>1. 1 \in 1..Len(input)+1 /\ Len(input) + 1 \in 1..Len(input)+1 /\ (Len(input) + 1) - 1 = Len(input)
        /\ 1 - 1 = 0 /\ Len(input) \in 0..Len(input)
    BY <1>2
  <2> QED
    BY <1>3, <1>4, <2>1
<1> QED
  BY <1>2, <1>5, <1>6, <1>7

Ends == [b \in 1..Len(input) |-> Start(b) + input[b]]
Starts == [b \in 1..Len(input) |-> Start(b)]

LEMMA BlocksFollow ==
    ASSUME input \in SearchInputs, Len(input) # 0
    PROVE  Steps(Starts, Ends, Len(input), 0, Total(input))
<1> DEFINE n == Len(input)
<1>1. n \in Nat \ {0} /\ n \in 1..n /\ 1 \in 1..n
  BY InputFacts
<1>2. Starts[1] = 0 /\ Ends[n] = Total(input)
  BY <1>1, InputFacts DEF Starts, Ends
<1>3. ASSUME NEW b \in 1..n PROVE Starts[b] \in Nat /\ Ends[b] \in Nat /\ Starts[b] < Ends[b]
  <2>1. Start(b) \in Nat /\ input[b] \in Nat \ {0}
    BY InputFacts
  <2> QED
    BY <2>1 DEF Starts, Ends
<1>4. ASSUME NEW b \in 1..n-1 PROVE Ends[b] = Starts[b + 1]
  <2>1. b \in 1..n /\ b + 1 \in 1..n
    OBVIOUS
  <2> QED
    BY <2>1, InputFacts DEF Starts, Ends
<1> QED
  BY <1>1, <1>2, <1>3, <1>4 DEF Steps

LEMMA BlockFacts ==
    ASSUME input \in SearchInputs, NEW b \in 1..Len(input)
    PROVE  /\ b \in Nat
           /\ input[b] \in Nat \ {0} /\ Start(b) \in Nat /\ Start(b) + input[b] <= Total(input)
           /\ \A n \in 0..input[b] : LiteralBytes[n] \in Nat /\ (n # 0 => BoundaryBytes[n] \in Nat)
           /\ \A n \in 1..input[b] : n \in Lengths \ {0}
<1>1. input[b] \in Nat \ {0} /\ Start(b) \in Nat /\ Len(input) # 0 /\ Total(input) \in Nat /\ b \in Nat
  BY InputFacts
<1>2. Ends[b] <= Total(input)
  BY <1>1, BlocksFollow, StepsRise
<1>3. Start(b) + input[b] <= Total(input)
  BY <1>2 DEF Ends
<1>4. ASSUME NEW n \in 0..input[b] PROVE n \in Lengths
  <2>1. n \in 0..Total(input)
    BY <1>1, <1>3
  <2> QED
    BY <2>1 DEF Lengths
<1> QED
  BY <1>1, <1>3, <1>4, BytesAssumption

LEMMA WholeFacts ==
    ASSUME input \in SearchInputs
    PROVE  /\ LiteralArchive \in Nat
           /\ Len(input) = 1 => Total(input) = input[1]
<1>1. Total(input) \in Nat
  BY InputFacts
<1>2. Total(input) \in Lengths
  BY <1>1 DEF Lengths
<1>3. LiteralArchive \in Nat
  BY <1>2, BytesAssumption DEF LiteralArchive, ArchiveBytes
<1>4. ASSUME Len(input) = 1 PROVE Total(input) = input[1]
  BY <1>4, InputFacts
<1> QED
  BY <1>3, <1>4

--------------------------------------------------------------------------------
(* A ledger only grows, and its last row is kept for a stop.               *)

(* What is in a ledger stays there; what is added is not selected. *)
Grows(s, t) ==
    /\ Len(s.ledger) <= Len(t.ledger)
    /\ \A n \in DOMAIN s.ledger : t.ledger[n] = s.ledger[n]
    /\ \A n \in DOMAIN t.ledger : n \notin DOMAIN s.ledger => ~t.ledger[n].selected
    /\ t.complete => s.complete
    /\ s.stopped => t.stopped
SameCounts(s, t) == t.candidates = s.candidates /\ t.states = s.states /\ t.work = s.work
IsStop(row) == row.event = "BudgetStop" /\ row.reason # "ProviderBudget"
Logged(s, row) ==
    [s EXCEPT !.ledger = Append(@, row), !.complete = @ /\ row.event = "Tried",
              !.exhausted = @ \/ row.event = "BudgetStop", !.stopped = @ \/ IsStop(row)]

LEMMA GrowsFurther ==
    ASSUME NEW s \in Sessions, NEW t \in Sessions, NEW u \in Sessions, Grows(s, t), Grows(t, u)
    PROVE  Grows(s, u)
<1>1. /\ Len(s.ledger) \in Nat /\ Len(t.ledger) \in Nat /\ Len(u.ledger) \in Nat
      /\ DOMAIN s.ledger = 1..Len(s.ledger) /\ DOMAIN t.ledger = 1..Len(t.ledger)
      /\ DOMAIN u.ledger = 1..Len(u.ledger)
  BY DEF Sessions
<1>2. DOMAIN s.ledger \subseteq DOMAIN t.ledger /\ Len(s.ledger) <= Len(u.ledger)
  BY <1>1 DEF Grows
<1>3. \A n \in DOMAIN s.ledger : u.ledger[n] = s.ledger[n]
  BY <1>2 DEF Grows
<1>4. ASSUME NEW n \in DOMAIN u.ledger, n \notin DOMAIN s.ledger PROVE ~u.ledger[n].selected
  <2>1. CASE n \in DOMAIN t.ledger
    BY <1>4, <2>1 DEF Grows
  <2>2. CASE n \notin DOMAIN t.ledger
    BY <2>2 DEF Grows
  <2> QED
    BY <2>1, <2>2
<1> QED
  BY <1>2, <1>3, <1>4 DEF Grows

LEMMA GrowsNot == ASSUME NEW s \in Sessions PROVE Grows(s, s)
<1>1. Len(s.ledger) \in Nat
  BY DEF Sessions
<1> QED
  BY <1>1 DEF Grows

LEMMA LoggedSound ==
    ASSUME NEW s, Sound(s), NEW row \in LedgerRows, ~row.selected, config \in SearchConfigs,
           Len(s.ledger) < config.ledger,
           ~IsStop(row) => s.stopped \/ Len(s.ledger) + 1 < config.ledger
    PROVE  /\ Sound(Logged(s, row)) /\ Grows(s, Logged(s, row)) /\ SameCounts(s, Logged(s, row))
           /\ Logged(s, row).ledger = Append(s.ledger, row)
           /\ Len(Logged(s, row).ledger) = Len(s.ledger) + 1
           /\ Logged(s, row).ledger[Len(s.ledger) + 1] = row
<1> DEFINE t == Logged(s, row)
           n == Len(s.ledger)
<1>1. s \in Sessions /\ s.ledger \in Seq(LedgerRows) /\ n \in Nat /\ DOMAIN s.ledger = 1..n
  BY DEF Sound, Sessions
<1>2. config.ledger \in Nat
  BY CapsAssumption
<1>3. /\ t.ledger = Append(s.ledger, row)
      /\ t.complete = (s.complete /\ row.event = "Tried")
      /\ t.exhausted = (s.exhausted \/ row.event = "BudgetStop")
      /\ t.stopped = (s.stopped \/ IsStop(row))
      /\ SameCounts(s, t)
  BY <1>1 DEF Sessions, Logged, SameCounts
<1>4. /\ t.ledger \in Seq(LedgerRows) /\ Len(t.ledger) = n + 1 /\ DOMAIN t.ledger = 1..n+1
      /\ t.ledger[n + 1] = row
      /\ \A i \in 1..n : t.ledger[i] = s.ledger[i]
  <2>1. t.ledger \in Seq(LedgerRows) /\ Len(t.ledger) = n + 1
    BY <1>1, <1>3, AppendProperties
  <2> QED
    BY <1>1, <1>3, <2>1, AppendProperties
<1>5. t \in Sessions
  <2>1. s.complete \in BOOLEAN /\ s.exhausted \in BOOLEAN /\ s.stopped \in BOOLEAN
    BY <1>1 DEF Sessions
  <2>2. /\ (s.complete /\ row.event = "Tried") \in BOOLEAN
        /\ (s.exhausted \/ row.event = "BudgetStop") \in BOOLEAN
        /\ (s.stopped \/ IsStop(row)) \in BOOLEAN
    OBVIOUS
  <2>3. Append(s.ledger, row) \in Seq(LedgerRows)
    BY <1>3, <1>4
  <2> QED
    BY <1>1, <2>2, <2>3 DEF Sessions, Logged
<1> HIDE DEF t
<1>6. Len(t.ledger) \in 1..config.ledger /\ (~t.stopped => Len(t.ledger) < config.ledger)
  <2>1. ~t.stopped => ~s.stopped /\ ~IsStop(row)
    BY <1>3
  <2>2. ~t.stopped => Len(s.ledger) + 1 < config.ledger
    BY <2>1
  <2> QED
    BY <1>1, <1>2, <1>4, <2>2
<1>7. t.complete <=> \A i \in DOMAIN t.ledger : t.ledger[i].event = "Tried"
  <2>1. s.complete <=> \A i \in 1..n : s.ledger[i].event = "Tried"
    BY <1>1 DEF Sound
  <2>2. \A i \in DOMAIN t.ledger : i \in 1..n \/ i = n + 1
    BY <1>1, <1>4
  <2>3. n + 1 \in DOMAIN t.ledger /\ \A i \in 1..n : i \in DOMAIN t.ledger
    BY <1>1, <1>4
  <2> QED
    BY <1>3, <1>4, <2>1, <2>2, <2>3
<1>8. t.exhausted <=> \E i \in DOMAIN t.ledger : t.ledger[i].event = "BudgetStop"
  <2>1. s.exhausted <=> \E i \in 1..n : s.ledger[i].event = "BudgetStop"
    BY <1>1 DEF Sound
  <2>2. \A i \in DOMAIN t.ledger : i \in 1..n \/ i = n + 1
    BY <1>1, <1>4
  <2>3. n + 1 \in DOMAIN t.ledger /\ \A i \in 1..n : i \in DOMAIN t.ledger
    BY <1>1, <1>4
  <2> QED
    BY <1>3, <1>4, <2>1, <2>2, <2>3
<1>9. t.stopped <=> \E i \in DOMAIN t.ledger : IsStop(t.ledger[i])
  <2>1. s.stopped <=> \E i \in 1..n : IsStop(s.ledger[i])
    BY <1>1 DEF Sound, IsStop
  <2>2. \A i \in DOMAIN t.ledger : i \in 1..n \/ i = n + 1
    BY <1>1, <1>4
  <2>3. n + 1 \in DOMAIN t.ledger /\ \A i \in 1..n : i \in DOMAIN t.ledger
    BY <1>1, <1>4
  <2> QED
    BY <1>3, <1>4, <2>1, <2>2, <2>3
<1>10. t.candidates <= config.candidates /\ t.states <= config.states /\ t.work <= config.work
  BY <1>3 DEF Sound, SameCounts
<1>11. Sound(t)
  BY <1>5, <1>6, <1>7, <1>8, <1>9, <1>10 DEF Sound, IsStop
<1>12. Grows(s, t)
  <2>1. \A i \in DOMAIN t.ledger : i \notin DOMAIN s.ledger => i = n + 1
    BY <1>1, <1>4
  <2>2. \A i \in DOMAIN t.ledger : i \notin DOMAIN s.ledger => ~t.ledger[i].selected
    BY <1>4, <2>1
  <2>3. n <= n + 1
    BY <1>1
  <2> QED
    BY <1>1, <1>3, <1>4, <2>2, <2>3 DEF Grows
<1> QED
  BY <1>3, <1>4, <1>11, <1>12 DEF t

LEMMA StopSound ==
    ASSUME NEW s, Sound(s), config \in SearchConfigs, NEW reason \in Stops
    PROVE  /\ Sound(Stop(s, reason)) /\ Grows(s, Stop(s, reason)) /\ SameCounts(s, Stop(s, reason))
           /\ Stop(s, reason).stopped /\ ~Stop(s, reason).complete
<1> DEFINE row == Row("BudgetStop", reason, 0, 0)
<1>1. CASE s.stopped
  <2>1. Stop(s, reason) = s
    BY <1>1 DEF Stop
  <2>2. ~s.complete
    BY <1>1 DEF Sound
  <2> QED
    BY <1>1, <2>1, <2>2, GrowsNot DEF Sound, SameCounts
<1>2. CASE ~s.stopped
  <2>1. row \in LedgerRows /\ ~row.selected /\ IsStop(row) /\ row.event = "BudgetStop"
    BY DEF Row, LedgerRows, Tags, IsStop, Stops, Reasons
  <2>2. Len(s.ledger) < config.ledger /\ s \in Sessions
    BY <1>2 DEF Sound
  <2>3. Logged(s, row) = [s EXCEPT !.ledger = Append(@, row), !.complete = FALSE,
                                   !.exhausted = TRUE, !.stopped = TRUE]
    BY <2>1 DEF Logged
  <2>4. Stop(s, reason) = [s EXCEPT !.stopped = TRUE, !.exhausted = TRUE, !.complete = FALSE,
                                    !.ledger = Append(@, row)]
    BY <1>2, <2>2 DEF Stop
  <2>5. Stop(s, reason) = Logged(s, row)
    BY <2>2, <2>3, <2>4 DEF Sessions
  <2>6. Logged(s, row).stopped /\ ~Logged(s, row).complete
    BY <2>2, <2>3 DEF Sessions
  <2> HIDE DEF row
  <2> QED
    BY <2>1, <2>2, <2>5, <2>6, LoggedSound
<1> QED
  BY <1>1, <1>2

LEMMA RoomIs ==
    ASSUME NEW s, Sound(s), config \in SearchConfigs
    PROVE  /\ Sound(Room(s)) /\ Grows(s, Room(s)) /\ SameCounts(s, Room(s))
           /\ ~Room(s).stopped => Room(s) = s /\ Len(s.ledger) + 1 < config.ledger
           /\ Room(s).stopped => ~Room(s).complete
<1>1. Len(s.ledger) \in Nat /\ config.ledger \in Nat /\ s \in Sessions
  BY CapsAssumption DEF Sound, Sessions
<1>2. CASE Len(s.ledger) + 1 >= config.ledger
  <2>1. Room(s) = Stop(s, "LedgerBudget")
    BY <1>2 DEF Room
  <2>2. "LedgerBudget" \in Stops
    BY DEF Stops
  <2> QED
    BY <2>1, <2>2, StopSound
<1>3. CASE ~(Len(s.ledger) + 1 >= config.ledger)
  <2>1. Room(s) = s
    BY <1>3 DEF Room
  <2>2. s.stopped => ~s.complete
    BY DEF Sound
  <2> QED
    BY <1>1, <1>3, <2>1, <2>2, GrowsNot DEF SameCounts
<1> QED
  BY <1>2, <1>3

--------------------------------------------------------------------------------
(* What charging and pushing leave of a session.                           *)

(* A charge adds to its counter or stops. *)
Paid(s, c, n, w) == [s EXCEPT !.candidates = c, !.states = n, !.work = w]
LEMMA PaidSound ==
    ASSUME NEW s, Sound(s), config \in SearchConfigs,
           NEW c \in Nat, NEW n \in Nat, NEW w \in Nat,
           c <= config.candidates, n <= config.states, w <= config.work
    PROVE  /\ Sound(Paid(s, c, n, w)) /\ Grows(s, Paid(s, c, n, w))
           /\ Paid(s, c, n, w).ledger = s.ledger /\ Paid(s, c, n, w).stopped = s.stopped
<1> DEFINE t == Paid(s, c, n, w)
<1>1. s \in Sessions
  BY DEF Sound
<1>2. /\ t \in Sessions /\ t.ledger = s.ledger /\ t.stopped = s.stopped /\ t.complete = s.complete
      /\ t.exhausted = s.exhausted
      /\ t.candidates = c /\ t.states = n /\ t.work = w
  BY <1>1 DEF Sessions, Paid
<1> HIDE DEF t
<1>3. Sound(t)
  BY <1>2 DEF Sound
<1>4. Grows(s, t)
  <2>1. Grows(s, s)
    BY <1>1, GrowsNot
  <2> QED
    BY <1>2, <2>1 DEF Grows
<1>5. Sound(t) /\ Grows(s, t) /\ t.ledger = s.ledger /\ t.stopped = s.stopped
  BY <1>2, <1>3, <1>4
<1> QED
  BY <1>5 DEF t

Charge(s, t) ==
    /\ Sound(t) /\ Grows(s, t)
    /\ ~t.stopped => t.ledger = s.ledger
    /\ t.states >= s.states

LEMMA ChargeWorkIs ==
    ASSUME NEW s, Sound(s), config \in SearchConfigs, NEW n \in Nat
    PROVE  /\ Charge(s, ChargeWork(s, n)) /\ ChargeWork(s, n).states = s.states
           /\ s.work + n <= config.work => ChargeWork(s, n) = [s EXCEPT !.work = @ + n]
           /\ ~(s.work + n <= config.work) => ChargeWork(s, n).stopped
<1>1. s \in Sessions /\ s.candidates \in Nat /\ s.states \in Nat /\ s.work \in Nat /\ config.work \in Nat
      /\ s.candidates <= config.candidates /\ s.states <= config.states
  BY CapsAssumption DEF Sound, Sessions
<1>2. CASE s.work + n > config.work
  <2>1. ChargeWork(s, n) = Stop(s, "WorkBudget") /\ "WorkBudget" \in Stops
    BY <1>2 DEF ChargeWork, Stops
  <2>2. ~(s.work + n <= config.work)
    BY <1>1, <1>2
  <2> QED
    BY <1>1, <2>1, <2>2, StopSound DEF Charge, SameCounts
<1>3. CASE ~(s.work + n > config.work)
  <2> DEFINE w == s.work + n
             t == Paid(s, s.candidates, s.states, w)
  <2>1. w \in Nat /\ w <= config.work /\ s.work + n <= config.work
    BY <1>1, <1>3
  <2>2. ChargeWork(s, n) = [s EXCEPT !.work = @ + n] /\ [s EXCEPT !.work = @ + n] = t
    BY <1>1, <1>3 DEF ChargeWork, Sessions, Paid
  <2>3. t.states = s.states
    BY <1>1 DEF Sessions, Paid
  <2>4. Sound(t) /\ Grows(s, t) /\ t.ledger = s.ledger /\ t.stopped = s.stopped
    <3> HIDE DEF w
    <3> QED
      BY <1>1, <2>1, PaidSound
  <2> HIDE DEF t, w
  <2> QED
    BY <1>1, <2>1, <2>2, <2>3, <2>4 DEF Charge
<1> QED
  BY <1>2, <1>3

LEMMA ChargeCandidateIs ==
    ASSUME NEW s, Sound(s), config \in SearchConfigs
    PROVE  Charge(s, ChargeCandidate(s)) /\ ChargeCandidate(s).states = s.states
<1>1. s \in Sessions /\ s.candidates \in Nat /\ s.states \in Nat /\ s.work \in Nat
      /\ config.candidates \in Nat
      /\ s.work <= config.work /\ s.states <= config.states
  BY CapsAssumption DEF Sound, Sessions
<1>2. CASE s.candidates >= config.candidates
  <2>1. ChargeCandidate(s) = Stop(s, "CandidateBudget") /\ "CandidateBudget" \in Stops
    BY <1>2 DEF ChargeCandidate, Stops
  <2> QED
    BY <1>1, <2>1, StopSound DEF Charge, SameCounts
<1>3. CASE ~(s.candidates >= config.candidates)
  <2> DEFINE c == s.candidates + 1
             t == Paid(s, c, s.states, s.work)
  <2>1. c \in Nat /\ c <= config.candidates
    BY <1>1, <1>3
  <2>2. ChargeCandidate(s) = t
    BY <1>1, <1>3 DEF ChargeCandidate, Sessions, Paid
  <2>3. t.states = s.states
    BY <1>1 DEF Sessions, Paid
  <2>4. Sound(t) /\ Grows(s, t) /\ t.ledger = s.ledger /\ t.stopped = s.stopped
    <3> HIDE DEF c
    <3> QED
      BY <1>1, <2>1, PaidSound
  <2> HIDE DEF t, c
  <2> QED
    BY <1>1, <2>2, <2>3, <2>4 DEF Charge
<1> QED
  BY <1>2, <1>3

LEMMA ChargeStateIs ==
    ASSUME NEW s, Sound(s), config \in SearchConfigs
    PROVE  /\ Charge(s, ChargeState(s))
           /\ s.states >= config.states => ChargeState(s).stopped /\ ChargeState(s).states = s.states
           /\ ~(s.states >= config.states) => ChargeState(s).stopped = s.stopped
<1>1. s \in Sessions /\ s.candidates \in Nat /\ s.states \in Nat /\ s.work \in Nat
      /\ config.states \in Nat
      /\ s.work <= config.work /\ s.candidates <= config.candidates
  BY CapsAssumption DEF Sound, Sessions
<1>2. CASE s.states >= config.states
  <2>1. ChargeState(s) = Stop(s, "StateBudget") /\ "StateBudget" \in Stops
    BY <1>2 DEF ChargeState, Stops
  <2> QED
    BY <1>1, <1>2, <2>1, StopSound DEF Charge, SameCounts
<1>3. CASE ~(s.states >= config.states)
  <2> DEFINE c == s.states + 1
             t == Paid(s, s.candidates, c, s.work)
  <2>1. c \in Nat /\ c <= config.states
    BY <1>1, <1>3
  <2>2. ChargeState(s) = t
    BY <1>1, <1>3 DEF ChargeState, Sessions, Paid
  <2>3. t.states = c /\ c >= s.states
    BY <1>1 DEF Sessions, Paid
  <2>4. Sound(t) /\ Grows(s, t) /\ t.ledger = s.ledger /\ t.stopped = s.stopped
    <3> HIDE DEF c
    <3> QED
      BY <1>1, <2>1, PaidSound
  <2> HIDE DEF t, c
  <2> QED
    BY <1>1, <1>3, <2>2, <2>3, <2>4 DEF Charge
<1> QED
  BY <1>2, <1>3

LEMMA ChargedIs ==
    ASSUME NEW s, Sound(s), config \in SearchConfigs, NEW c, c.work \in Nat
    PROVE  Charge(s, Charged(s, c)) /\ Charged(s, c).states = s.states
<1> DEFINE t == ChargeCandidate(s)
<1>1. Charge(s, t) /\ t.states = s.states
  BY ChargeCandidateIs
<1>2. CASE t.stopped
  BY <1>1, <1>2 DEF Charged
<1>3. CASE ~t.stopped
  <2> DEFINE u == ChargeWork(t, c.work)
  <2>1. Charged(s, c) = u
    BY <1>3 DEF Charged
  <2>2. Sound(t)
    BY <1>1 DEF Charge
  <2> HIDE DEF t
  <2>3. Charge(t, u) /\ u.states = t.states
    BY <2>2, ChargeWorkIs
  <2>4. s \in Sessions /\ t \in Sessions /\ u \in Sessions
    BY <2>2, <2>3 DEF Charge, Sound
  <2> HIDE DEF u
  <2>5. Grows(s, u)
    BY <1>1, <2>3, <2>4, GrowsFurther DEF Charge
  <2>6. u.states >= s.states
    BY <1>1, <2>3, <2>4 DEF Sessions
  <2> QED
    BY <1>1, <1>3, <2>1, <2>3, <2>5, <2>6 DEF Charge
<1> QED
  BY <1>2, <1>3

(* A row that tells of nothing left out. *)
LEMMA PushTried ==
    ASSUME NEW s, Sound(s), config \in SearchConfigs,
           NEW row \in LedgerRows, ~row.selected, row.event = "Tried"
    PROVE  /\ Sound(Push(s, row)) /\ Grows(s, Push(s, row)) /\ SameCounts(s, Push(s, row))
           /\ ~Push(s, row).stopped =>
                /\ Len(Push(s, row).ledger) = Len(s.ledger) + 1
                /\ Push(s, row).ledger[Len(s.ledger) + 1] = row
                /\ Push(s, row).complete = s.complete
<1>1. CASE Room(s).stopped
  <2>1. Push(s, row) = Room(s)
    BY <1>1 DEF Push
  <2> QED
    BY <1>1, <2>1, RoomIs
<1>2. CASE ~Room(s).stopped
  <2>1. Room(s) = s /\ Len(s.ledger) + 1 < config.ledger /\ ~s.stopped
    BY <1>2, RoomIs
  <2>2. s \in Sessions /\ s.ledger \in Seq(LedgerRows) /\ Len(s.ledger) \in Nat /\ config.ledger \in Nat
    BY CapsAssumption DEF Sound, Sessions
  <2>3. ~IsStop(row)
    BY DEF IsStop
  <2>4. Push(s, row) = [s EXCEPT !.ledger = Append(@, row)]
    BY <1>2, <2>1 DEF Push
  <2>5. Logged(s, row) = [s EXCEPT !.ledger = Append(@, row)]
    <3>1. (s.complete /\ row.event = "Tried") = s.complete
      BY <2>2 DEF Sessions
    <3>2. (s.exhausted \/ row.event = "BudgetStop") = s.exhausted
      BY <2>2 DEF Sessions
    <3>3. (s.stopped \/ IsStop(row)) = s.stopped
      BY <2>2, <2>3 DEF Sessions
    <3> QED
      BY <2>2, <3>1, <3>2, <3>3 DEF Logged, Sessions
  <2>6. Len(s.ledger) < config.ledger
    BY <2>1, <2>2
  <2>7. Logged(s, row).complete = s.complete
    BY <2>2, <2>5 DEF Sessions
  <2>8. /\ Sound(Logged(s, row)) /\ Grows(s, Logged(s, row)) /\ SameCounts(s, Logged(s, row))
        /\ Len(Logged(s, row).ledger) = Len(s.ledger) + 1
        /\ Logged(s, row).ledger[Len(s.ledger) + 1] = row
    BY <2>1, <2>3, <2>6, LoggedSound
  <2>9. Push(s, row) = Logged(s, row)
    BY <2>4, <2>5
  <2> QED
    BY <2>7, <2>8, <2>9
<1> QED
  BY <1>1, <1>2

(* A row that tells of something left out. *)
LEMMA PushSkip ==
    ASSUME NEW s, Sound(s), config \in SearchConfigs,
           NEW row \in LedgerRows, ~row.selected, row.event = "HeuristicSkip"
    PROVE  LET t == Push([s EXCEPT !.complete = FALSE], row)
           IN  Sound(t) /\ Grows(s, t) /\ SameCounts(s, t) /\ ~t.complete
<1> DEFINE u == [s EXCEPT !.complete = FALSE]
           t == Push(u, row)
<1>1. s \in Sessions /\ Len(s.ledger) \in Nat /\ config.ledger \in Nat
  BY CapsAssumption DEF Sound, Sessions
<1>2. u \in Sessions /\ u.ledger = s.ledger /\ u.stopped = s.stopped
  BY <1>1 DEF Sessions
<1>3. CASE s.stopped
  <2>1. ~s.complete
    BY <1>3 DEF Sound
  <2>2. u = s
    BY <1>1, <2>1 DEF Sessions
  <2>3. \A r \in Stops : Stop(s, r) = s
    BY <1>3 DEF Stop
  <2>4. "LedgerBudget" \in Stops
    BY DEF Stops
  <2>5. t = s
    BY <1>3, <2>2, <2>3, <2>4 DEF Push, Room
  <2> HIDE DEF t
  <2>6. Sound(t) /\ Grows(s, t) /\ SameCounts(s, t) /\ ~t.complete
    BY <1>1, <2>1, <2>5, GrowsNot DEF SameCounts
  <2> QED
    BY <2>6 DEF t
<1>4. CASE ~s.stopped /\ Len(s.ledger) + 1 >= config.ledger
  <2>1. Stop(u, "LedgerBudget") = Stop(s, "LedgerBudget")
    BY <1>1, <1>2, <1>4 DEF Stop, Sessions
  <2>2. "LedgerBudget" \in Stops
    BY DEF Stops
  <2>3. Room(u) = Stop(s, "LedgerBudget")
    BY <1>2, <1>4, <2>1 DEF Room
  <2>4. t = Stop(s, "LedgerBudget")
    BY <2>2, <2>3, StopSound DEF Push
  <2> HIDE DEF t
  <2>5. Sound(t) /\ Grows(s, t) /\ SameCounts(s, t) /\ ~t.complete
    BY <2>2, <2>4, StopSound
  <2> QED
    BY <2>5 DEF t
<1>5. CASE ~s.stopped /\ ~(Len(s.ledger) + 1 >= config.ledger)
  <2>1. Room(u) = u
    BY <1>2, <1>5 DEF Room
  <2>2. t = [u EXCEPT !.ledger = Append(@, row)]
    BY <1>2, <1>5, <2>1 DEF Push
  <2>3. ~IsStop(row)
    BY DEF IsStop
  <2>4. Logged(s, row) = [u EXCEPT !.ledger = Append(@, row)]
    <3>1. (s.complete /\ row.event = "Tried") = FALSE
      BY <1>1 DEF Sessions
    <3>2. (s.exhausted \/ row.event = "BudgetStop") = s.exhausted
      BY <1>1 DEF Sessions
    <3>3. (s.stopped \/ IsStop(row)) = s.stopped
      BY <1>1, <2>3 DEF Sessions
    <3> QED
      BY <1>1, <3>1, <3>2, <3>3 DEF Logged, Sessions
  <2>5. Len(s.ledger) < config.ledger /\ Len(s.ledger) + 1 < config.ledger
    BY <1>1, <1>5
  <2>6. ~Logged(s, row).complete
    BY <1>1, <2>4 DEF Sessions
  <2> HIDE DEF t
  <2>7. Sound(t) /\ Grows(s, t) /\ SameCounts(s, t) /\ ~t.complete
    BY <2>2, <2>3, <2>4, <2>5, <2>6, LoggedSound
  <2> QED
    BY <2>7 DEF t
<1>6. Sound(t) /\ Grows(s, t) /\ SameCounts(s, t) /\ ~t.complete
  BY <1>3, <1>4, <1>5
<1> QED
  BY <1>6

--------------------------------------------------------------------------------
(* What an answer leaves, and the paths that may be extended.              *)

(* The answer of a provider and its row. *)
Answered(s, r, from, to) ==
    Push([ChargeWork(s, r.work) EXCEPT !.complete = @ /\ r.end = "complete",
                                       !.exhausted = @ \/ r.end = "budget"],
         Row(Event(r)[1], Event(r)[2], from, to))

LEMMA AnsweredIs ==
    ASSUME NEW s, Sound(s), config \in SearchConfigs, ~Room(s).stopped,
           NEW r \in ProviderSearches, s.work + r.work <= config.work,
           NEW from \in Nat, NEW to \in Nat
    PROVE  /\ Sound(Answered(s, r, from, to)) /\ Grows(s, Answered(s, r, from, to))
           /\ ~Answered(s, r, from, to).stopped /\ Answered(s, r, from, to).states = s.states
           /\ Answered(s, r, from, to).complete => r.end = "complete"
<1> DEFINE row == Row(Event(r)[1], Event(r)[2], from, to)
           u == ChargeWork(s, r.work)
           v == [u EXCEPT !.complete = @ /\ r.end = "complete", !.exhausted = @ \/ r.end = "budget"]
<1>1. r.work \in Nat /\ r.end \in {"budget", "complete", "incomplete"}
  BY DEF ProviderSearches
<1>2. s \in Sessions /\ Room(s) = s /\ ~s.stopped /\ Len(s.ledger) + 1 < config.ledger
  BY RoomIs DEF Sound
<1>3. Charge(s, u) /\ u.states = s.states /\ u = [s EXCEPT !.work = @ + r.work]
  BY <1>1, ChargeWorkIs
<1>4. u.ledger = s.ledger /\ ~u.stopped /\ u.stopped = FALSE
  BY <1>2, <1>3 DEF Sessions
<1>5. Sound(u) /\ Grows(s, u) /\ u \in Sessions
  BY <1>3 DEF Charge, Sound
<1>6. /\ row \in LedgerRows /\ ~row.selected /\ ~IsStop(row)
      /\ (row.event = "Tried") = (r.end = "complete")
      /\ (row.event = "BudgetStop") = (r.end = "budget")
  <2>1. CASE r.end = "budget"
    <3>1. Event(r) = <<"BudgetStop", "ProviderBudget">>
      BY <2>1 DEF Event
    <3> QED
      BY <2>1, <3>1 DEF Row, LedgerRows, Tags, Reasons, IsStop
  <2>2. CASE r.end = "complete"
    <3>1. Event(r) = <<"Tried", "ProviderSearchComplete">>
      BY <2>2 DEF Event
    <3> QED
      BY <2>2, <3>1 DEF Row, LedgerRows, Tags, Reasons, IsStop
  <2>3. CASE r.end = "incomplete"
    <3>1. Event(r) = <<"HeuristicSkip", "ProviderCatalogueIncomplete">>
      BY <2>3 DEF Event
    <3> QED
      BY <2>3, <3>1 DEF Row, LedgerRows, Tags, Reasons, IsStop
  <2> QED
    BY <1>1, <2>1, <2>2, <2>3
<1> HIDE DEF u, row
<1>7. v.ledger = u.ledger /\ v.stopped = FALSE /\ v \in Sessions
  <2>1. (u.complete /\ r.end = "complete") \in BOOLEAN /\ (u.exhausted \/ r.end = "budget") \in BOOLEAN
    OBVIOUS
  <2> QED
    BY <1>4, <1>5, <2>1 DEF Sessions
<1>8. Len(s.ledger) \in Nat /\ config.ledger \in Nat
  BY <1>2, CapsAssumption DEF Sessions
<1>9. Room(v) = v
  BY <1>2, <1>4, <1>7, <1>8 DEF Room
<1>10. Push(v, row) = [v EXCEPT !.ledger = Append(@, row)]
  BY <1>7, <1>9 DEF Push
<1>11. Logged(u, row) = [v EXCEPT !.ledger = Append(@, row)]
  <2>1. (u.complete /\ row.event = "Tried") = (u.complete /\ r.end = "complete")
    BY <1>6
  <2>2. (u.exhausted \/ row.event = "BudgetStop") = (u.exhausted \/ r.end = "budget")
    BY <1>6
  <2>3. (u.stopped \/ IsStop(row)) = u.stopped
    BY <1>4, <1>6
  <2> QED
    BY <1>5, <2>1, <2>2, <2>3 DEF Logged, Sessions
<1>12. Len(u.ledger) < config.ledger /\ Len(u.ledger) + 1 < config.ledger
  BY <1>2, <1>4, <1>8
<1>13. /\ Sound(Logged(u, row)) /\ Grows(u, Logged(u, row)) /\ SameCounts(u, Logged(u, row))
  BY <1>5, <1>6, <1>12, LoggedSound
<1>14. Answered(s, r, from, to) = Logged(u, row)
  BY <1>10, <1>11 DEF Answered, u, row
<1>15. Logged(u, row).stopped = FALSE /\ (Logged(u, row).complete => r.end = "complete")
  <2>1. [v EXCEPT !.ledger = Append(@, row)].stopped = v.stopped
    BY <1>7 DEF Sessions
  <2>2. [v EXCEPT !.ledger = Append(@, row)].complete = v.complete
    BY <1>7 DEF Sessions
  <2>3. v.complete = (u.complete /\ r.end = "complete")
    BY <1>5 DEF Sessions
  <2> QED
    BY <1>7, <1>11, <2>1, <2>2, <2>3
<1>16. Grows(s, Logged(u, row))
  <2>1. Logged(u, row) \in Sessions
    BY <1>13 DEF Sound
  <2> QED
    BY <1>2, <1>5, <1>13, <2>1, GrowsFurther
<1> QED
  BY <1>3, <1>13, <1>14, <1>15, <1>16 DEF SameCounts

--------------------------------------------------------------------------------
(* The paths that may be extended, and the best of the paths.              *)

KeptBy(n, ps, g) ==
    g = [i \in 0..n |-> IF i = 0 THEN <<>>
                        ELSE IF Len(ps[i]) < config.segments THEN Append(g[i-1], ps[i]) ELSE g[i-1]]

(* What the paths kept of the first n of ps are. *)
Keeps(a, n, ps, C) ==
    /\ a \in Seq(Seq(C))
    /\ \A k \in DOMAIN a : \E j \in DOMAIN ps : a[k] = ps[j] /\ Len(ps[j]) < config.segments
    /\ \A j \in 1..n : Len(ps[j]) < config.segments => \E k \in DOMAIN a : a[k] = ps[j]

LEMMA KeepsMore ==
    ASSUME NEW C, NEW ps \in Seq(Seq(C)), NEW i \in Nat, i + 1 \in DOMAIN ps, NEW a, Keeps(a, i, ps, C)
    PROVE  Keeps(IF Len(ps[i + 1]) < config.segments THEN Append(a, ps[i + 1]) ELSE a, i + 1, ps, C)
<1>1. \A j \in 1..i+1 : j \in 1..i \/ j = i + 1
  OBVIOUS
<1>2. CASE ~(Len(ps[i + 1]) < config.segments)
  BY <1>1, <1>2 DEF Keeps
<1>3. CASE Len(ps[i + 1]) < config.segments
  <2> DEFINE m == Len(a)
             b == Append(a, ps[i + 1])
  <2>1. a \in Seq(Seq(C)) /\ ps[i + 1] \in Seq(C) /\ m \in Nat /\ DOMAIN a = 1..m
    BY DEF Keeps
  <2>2. b \in Seq(Seq(C)) /\ Len(b) = m + 1 /\ b[m + 1] = ps[i + 1] /\ \A k \in 1..m : b[k] = a[k]
    BY <2>1, AppendIs
  <2>3. DOMAIN b = 1..m+1
    BY <2>2
  <2> HIDE DEF b, m
  <2>4. (\A k \in DOMAIN b : k \in DOMAIN a \/ k = m + 1) /\ m + 1 \in DOMAIN b
    BY <2>1, <2>3
  <2>5. \A k \in DOMAIN a : k \in DOMAIN b /\ b[k] = a[k]
    BY <2>1, <2>2, <2>3
  <2>6. \A k \in DOMAIN b : \E j \in DOMAIN ps : b[k] = ps[j] /\ Len(ps[j]) < config.segments
    <3> SUFFICES ASSUME NEW k \in DOMAIN b
                 PROVE  \E j \in DOMAIN ps : b[k] = ps[j] /\ Len(ps[j]) < config.segments
      OBVIOUS
    <3>1. CASE k = m + 1
      BY <1>3, <2>2, <3>1
    <3>2. CASE k \in DOMAIN a
      BY <2>5, <3>2 DEF Keeps
    <3> QED
      BY <2>4, <3>1, <3>2
  <2>7. \A j \in 1..i+1 : Len(ps[j]) < config.segments => \E k \in DOMAIN b : b[k] = ps[j]
    BY <1>1, <2>2, <2>4, <2>5 DEF Keeps
  <2> QED
    BY <1>3, <2>2, <2>6, <2>7 DEF Keeps, b
<1> QED
  BY <1>2, <1>3

LEMMA ExpandableIs ==
    ASSUME NEW C, NEW ps \in Seq(Seq(C)), ps = at.paths[at.from + 1]
    PROVE  /\ Expandable \in Seq(Seq(C))
           /\ \A i \in DOMAIN Expandable :
                \E j \in DOMAIN ps : Expandable[i] = ps[j] /\ Len(ps[j]) < config.segments
           /\ \A j \in DOMAIN ps :
                Len(ps[j]) < config.segments => \E i \in DOMAIN Expandable : Expandable[i] = ps[j]
<1> DEFINE n == Len(ps)
           X == Seq(Seq(C))
           f == [x \in (1..n) \X X |-> IF Len(ps[x[1]]) < config.segments
                                       THEN Append(x[2], ps[x[1]]) ELSE x[2]]
<1>1. n \in Nat /\ <<>> \in X /\ \A i \in 1..n : ps[i] \in Seq(C)
  OBVIOUS
<1>2. \A i \in 1..n : \A x \in X :
        f[<<i, x>>] = IF Len(ps[i]) < config.segments THEN Append(x, ps[i]) ELSE x
  OBVIOUS
<1>3. \A i \in 1..n : \A x \in X : Append(x, ps[i]) \in X
  BY <1>1
<1>4. \A i \in 1..n : \A x \in X : f[<<i, x>>] \in X
  BY <1>2, <1>3
<1> HIDE DEF f, X
<1>5. PICK h \in [0..n -> X] : Iterates(n, <<>>, f, h)
  BY <1>1, <1>4, IterationExists
<1>6. KeptBy(n, ps, h)
  <2>1. ASSUME NEW i \in 0..n
        PROVE  h[i] = IF i = 0 THEN <<>>
                      ELSE IF Len(ps[i]) < config.segments THEN Append(h[i-1], ps[i]) ELSE h[i-1]
    <3>1. h[i] = IF i = 0 THEN <<>> ELSE f[<<i, h[i-1]>>]
      BY <1>5 DEF Iterates
    <3>2. i # 0 => i \in 1..n /\ i - 1 \in 0..n
      BY <1>1
    <3>3. i # 0 => h[i-1] \in X
      BY <1>5, <3>2
    <3> QED
      BY <1>2, <3>1, <3>2, <3>3
  <2>2. h = [i \in 0..n |-> h[i]]
    BY <1>5
  <2> QED
    BY <2>1, <2>2 DEF KeptBy
<1> DEFINE kept[i \in 0..n] ==
             IF i = 0 THEN <<>>
             ELSE IF Len(ps[i]) < config.segments THEN Append(kept[i-1], ps[i]) ELSE kept[i-1]
<1>7. Expandable = kept[n]
  BY DEF Expandable
<1>8. KeptBy(n, ps, kept)
  BY <1>6 DEF KeptBy, kept
<1> HIDE DEF kept
<1> DEFINE T == {i \in Nat : i <= n => Keeps(kept[i], i, ps, C)}
<1>9. 0 \in T
  <2>1. kept[0] = <<>>
    BY <1>1, <1>8 DEF KeptBy
  <2>2. Keeps(<<>>, 0, ps, C)
    BY DEF Keeps
  <2> QED
    BY <2>1, <2>2
<1>10. ASSUME NEW i \in Nat, i \in T PROVE i + 1 \in T
  <2> SUFFICES ASSUME i + 1 <= n PROVE Keeps(kept[i + 1], i + 1, ps, C)
    OBVIOUS
  <2>1. Keeps(kept[i], i, ps, C) /\ i + 1 \in 0..n /\ (i + 1) - 1 = i /\ i + 1 # 0 /\ i + 1 \in DOMAIN ps
    BY SMTT(40), <1>1, <1>10
  <2>2. kept[i + 1] = IF Len(ps[i + 1]) < config.segments THEN Append(kept[i], ps[i + 1]) ELSE kept[i]
    BY <1>8, <2>1 DEF KeptBy
  <2> QED
    BY <2>1, <2>2, KeepsMore
<1> HIDE DEF T
<1>11. n \in T
  BY <1>1, <1>9, <1>10, NaturalsFrom
<1>12. Keeps(kept[n], n, ps, C)
  BY <1>1, <1>11 DEF T
<1>13. DOMAIN ps = 1..n
  OBVIOUS
<1> QED
  BY <1>7, <1>12, <1>13 DEF Keeps

--------------------------------------------------------------------------------
(* The bytes of a path, and the best of the choices.                       *)

(* The paths as the bytes and the order of their candidates.               *)
LEMMA PathBytesAre ==
    ASSUME input \in SearchInputs, NEW b \in 1..Len(input), NEW p, Len(p) \in Nat, DOMAIN p = 1..Len(p),
           \A i \in 1..Len(p) : p[i].bytes \in Nat /\ p[i].from \in 0..input[b]
    PROVE  /\ PathBytes(p) \in Nat
           /\ \A i \in 1..Len(p) : Boundary(p[i].from) \in Nat
           /\ [i \in DOMAIN p |-> p[i].bytes + Boundary(p[i].from)] \in Seq(Nat)
<1>1. \A i \in 1..Len(p) : Boundary(p[i].from) \in Nat
  BY BlockFacts DEF Boundary
<1> DEFINE s == [i \in DOMAIN p |-> p[i].bytes + Boundary(p[i].from)]
<1>2. s \in Seq(Nat) /\ Len(s) = Len(p)
  BY <1>1
<1> HIDE DEF s
<1>3. Total(s) \in Nat
  BY <1>2, TotalMonotone
<1> QED
  BY <1>1, <1>2, <1>3, BytesAssumption DEF PathBytes, s

(* Two paths of the same pieces have the same bytes; dearer pieces make    *)
(* a dearer path.                                                          *)
LEMMA PathBytesGrow ==
    ASSUME input \in SearchInputs, NEW b \in 1..Len(input), NEW p, NEW q,
           Len(p) \in Nat, Len(q) = Len(p), DOMAIN p = 1..Len(p), DOMAIN q = 1..Len(p),
           \A i \in 1..Len(p) : /\ p[i].bytes \in Nat /\ q[i].bytes \in Nat
                                /\ p[i].from \in 0..input[b] /\ q[i].from = p[i].from
                                /\ p[i].bytes <= q[i].bytes
    PROVE  PathBytes(p) <= PathBytes(q)
<1> DEFINE s == [i \in DOMAIN p |-> p[i].bytes + Boundary(p[i].from)]
           t == [i \in DOMAIN q |-> q[i].bytes + Boundary(q[i].from)]
<1>1. s \in Seq(Nat) /\ t \in Seq(Nat)
  BY PathBytesAre
<1>2. \A i \in 1..Len(p) : Boundary(p[i].from) \in Nat
  BY PathBytesAre
<1>3. Len(s) = Len(p) /\ Len(t) = Len(p) /\ \A i \in 1..Len(p) : s[i] <= t[i]
  <2>1. /\ s = [i \in 1..Len(p) |-> p[i].bytes + Boundary(p[i].from)]
        /\ t = [i \in 1..Len(p) |-> q[i].bytes + Boundary(q[i].from)]
    OBVIOUS
  <2>2. Len(s) = Len(p) /\ Len(t) = Len(p)
    BY <2>1
  <2>3. ASSUME NEW i \in 1..Len(p) PROVE s[i] <= t[i]
    <3>1. s[i] = p[i].bytes + Boundary(p[i].from) /\ t[i] = q[i].bytes + Boundary(p[i].from)
      BY <2>1
    <3> QED
      BY <1>2, <3>1
  <2> HIDE DEF s, t
  <2> QED
    BY <2>2, <2>3
<1> HIDE DEF s, t
<1>4. Total(s) \in Nat /\ Total(t) \in Nat /\ Total(s) <= Total(t)
  <2>1. \A i \in 1..Len(t) : t[i] \in Nat /\ t[i] <= t[i]
    BY <1>1
  <2>2. Total(t) \in Nat
    BY <1>1, <2>1, TotalMonotone
  <2> QED
    BY <1>1, <1>3, <2>2, TotalMonotone
<1>5. PathBytes(p) = Total(s) + (IF Len(p) > 1 THEN SplitBytes ELSE 0)
  BY DEF PathBytes, s
<1>6. PathBytes(q) = Total(t) + (IF Len(p) > 1 THEN SplitBytes ELSE 0)
  BY DEF PathBytes, t
<1> QED
  BY <1>4, <1>5, <1>6, BytesAssumption

LEMMA PathOfOne ==
    ASSUME NEW p, Len(p) = 1, DOMAIN p = 1..1, p[1].from = 0, p[1].bytes \in Nat
    PROVE  PathBytes(p) = p[1].bytes
<1> DEFINE s == [i \in DOMAIN p |-> p[i].bytes + Boundary(p[i].from)]
<1>1. s = [i \in 1..1 |-> p[i].bytes + Boundary(p[i].from)]
  OBVIOUS
<1>2. Len(s) = 1 /\ s[1] = p[1].bytes
  BY <1>1 DEF Boundary
<1> HIDE DEF s
<1>3. Total(s) = p[1].bytes
  BY <1>2, TotalOfOne
<1> QED
  BY <1>3 DEF PathBytes, s

LEMMA PathChoiceIs ==
    ASSUME input \in SearchInputs, NEW b \in 1..Len(input), NEW p \in Seq(ProvidedCandidates),
           \A i \in 1..Len(p) : p[i].from \in 0..input[b]
    PROVE  /\ PathChoice(p) \in BlockChoices
           /\ PathChoice(p).bytes = PathBytes(p)
           /\ Len(PathChoice(p).rows) = Len(p) /\ DOMAIN PathChoice(p).rows = 1..Len(p)
           /\ \A i \in 1..Len(p) : PathChoice(p).rows[i] = p[i].row
<1>1. ASSUME NEW i \in 1..Len(p) PROVE p[i].bytes \in Nat /\ p[i].rank \in Nat /\ p[i].row \in Nat
  <2>1. p[i] \in ProvidedCandidates
    OBVIOUS
  <2> QED
    BY <2>1 DEF ProvidedCandidates
<1>2. Len(p) \in Nat /\ DOMAIN p = 1..Len(p)
  OBVIOUS
<1>3. PathBytes(p) \in Nat
  BY <1>1, <1>2, PathBytesAre
<1> DEFINE r == [i \in DOMAIN p |-> p[i].row]
           o == [i \in DOMAIN p |-> p[i].rank]
<1>4. r \in Seq(Nat) /\ o \in Seq(Nat)
  BY <1>1, <1>2
<1>5. Len(r) = Len(p) /\ DOMAIN r = 1..Len(p) /\ \A i \in 1..Len(p) : r[i] = p[i].row
  BY <1>2, <1>4
<1>6. PathChoice(p) = [bytes |-> PathBytes(p), order |-> o, rows |-> r]
  BY DEF PathChoice, Choice
<1> HIDE DEF r, o
<1> QED
  BY <1>3, <1>4, <1>5, <1>6 DEF BlockChoices

--------------------------------------------------------------------------------
(* What ChoosePath keeps.                                                  *)

BestOf(c, n, ps) ==
    /\ c = best \/ \E i \in 1..n : c = PathChoice(ps[i])
    /\ c.bytes \in Nat
    /\ c.bytes <= best.bytes
    /\ \A i \in 1..n : c.bytes <= PathChoice(ps[i]).bytes

LEMMA BestFurther ==
    ASSUME NEW n \in Nat, NEW ps, NEW c, BestOf(c, n, ps), best.bytes \in Nat,
           \A i \in 1..n+1 : PathChoice(ps[i]).bytes \in Nat
    PROVE  BestOf(IF Better(PathChoice(ps[n + 1]), c) THEN PathChoice(ps[n + 1]) ELSE c, n + 1, ps)
<1> DEFINE d == PathChoice(ps[n + 1])
<1>1. \A i \in 1..n+1 : i \in 1..n \/ i = n + 1
  OBVIOUS
<1>2. n + 1 \in 1..n+1 /\ \A i \in 1..n : i \in 1..n+1
  OBVIOUS
<1>3. d.bytes \in Nat
  BY <1>2
<1> HIDE DEF d
<1>4. CASE Better(d, c)
  <2>1. d.bytes <= c.bytes
    BY <1>3, <1>4 DEF Better, BestOf
  <2>2. d.bytes <= best.bytes /\ \A i \in 1..n : d.bytes <= PathChoice(ps[i]).bytes
    BY <1>2, <1>3, <2>1 DEF BestOf
  <2>3. \A i \in 1..n+1 : d.bytes <= PathChoice(ps[i]).bytes
    BY <1>1, <1>3, <2>2 DEF d
  <2>4. \E i \in 1..n+1 : d = PathChoice(ps[i])
    BY <1>2 DEF d
  <2>5. BestOf(d, n + 1, ps)
    BY <1>3, <2>2, <2>3, <2>4 DEF BestOf
  <2> QED
    BY <1>4, <2>5 DEF d
<1>5. CASE ~Better(d, c)
  <2>1. c.bytes <= d.bytes
    BY <1>3, <1>5 DEF Better, BestOf
  <2>2. \A i \in 1..n+1 : c.bytes <= PathChoice(ps[i]).bytes
    BY <1>1, <2>1 DEF BestOf, d
  <2>3. c = best \/ \E i \in 1..n+1 : c = PathChoice(ps[i])
    BY <1>2 DEF BestOf
  <2>4. BestOf(c, n + 1, ps)
    BY <2>2, <2>3 DEF BestOf
  <2> QED
    BY <1>5, <2>4 DEF d
<1> QED
  BY <1>4, <1>5

Chosen(n, ps, g) ==
    g = [i \in 0..n |-> IF i = 0 THEN best
                        ELSE IF Better(PathChoice(ps[i]), g[i-1]) THEN PathChoice(ps[i]) ELSE g[i-1]]

LEMMA BestPathIs ==
    ASSUME NEW n \in Nat, NEW ps, Len(ps) = n, best \in BlockChoices,
           \A i \in 1..n : PathChoice(ps[i]) \in BlockChoices
    PROVE  BestOf(BestPath(ps), n, ps)
<1> DEFINE f == [x \in (1..n) \X BlockChoices |->
                   IF Better(PathChoice(ps[x[1]]), x[2]) THEN PathChoice(ps[x[1]]) ELSE x[2]]
<1>1. \A i \in 1..n : \A x \in BlockChoices :
        f[<<i, x>>] = IF Better(PathChoice(ps[i]), x) THEN PathChoice(ps[i]) ELSE x
  OBVIOUS
<1>2. \A i \in 1..n : \A x \in BlockChoices : f[<<i, x>>] \in BlockChoices
  BY <1>1
<1> HIDE DEF f
<1>3. PICK h \in [0..n -> BlockChoices] : Iterates(n, best, f, h)
  BY <1>2, IterationExists
<1>4. Chosen(n, ps, h)
  <2>1. ASSUME NEW i \in 0..n
        PROVE  h[i] = IF i = 0 THEN best
                      ELSE IF Better(PathChoice(ps[i]), h[i-1]) THEN PathChoice(ps[i]) ELSE h[i-1]
    <3>1. h[i] = IF i = 0 THEN best ELSE f[<<i, h[i-1]>>]
      BY <1>3 DEF Iterates
    <3>2. i # 0 => i \in 1..n /\ i - 1 \in 0..n
      OBVIOUS
    <3>3. i # 0 => h[i-1] \in BlockChoices
      BY <1>3, <3>2
    <3> QED
      BY <1>1, <3>1, <3>2, <3>3
  <2>2. h = [i \in 0..n |-> h[i]]
    BY <1>3
  <2> QED
    BY <2>1, <2>2 DEF Chosen
<1> DEFINE after[i \in 0..n] ==
             IF i = 0 THEN best
             ELSE LET b == after[i-1]
                  IN  IF Better(PathChoice(ps[i]), b) THEN PathChoice(ps[i]) ELSE b
<1>5. BestPath(ps) = after[n]
  BY DEF BestPath
<1>6. Chosen(n, ps, after)
  BY <1>4 DEF Chosen, after
<1> HIDE DEF after
<1> DEFINE T == {i \in Nat : i <= n => BestOf(after[i], i, ps)}
<1>7. best.bytes \in Nat /\ \A i \in 1..n : PathChoice(ps[i]).bytes \in Nat
  BY DEF BlockChoices
<1>8. 0 \in T
  <2>1. after[0] = best
    BY <1>6 DEF Chosen
  <2>2. BestOf(best, 0, ps)
    BY <1>7 DEF BestOf
  <2> QED
    BY <2>1, <2>2
<1>9. ASSUME NEW i \in Nat, i \in T PROVE i + 1 \in T
  <2> SUFFICES ASSUME i + 1 <= n PROVE BestOf(after[i + 1], i + 1, ps)
    OBVIOUS
  <2>1. BestOf(after[i], i, ps) /\ i + 1 \in 0..n /\ (i + 1) - 1 = i /\ i + 1 # 0
    BY <1>9
  <2>2. after[i + 1] = IF Better(PathChoice(ps[i + 1]), after[i]) THEN PathChoice(ps[i + 1]) ELSE after[i]
    BY <1>6, <2>1 DEF Chosen
  <2>3. \A j \in 1..i+1 : PathChoice(ps[j]).bytes \in Nat
    BY <1>7
  <2> QED
    BY <1>7, <2>1, <2>2, <2>3, BestFurther
<1> HIDE DEF T
<1>10. n \in T
  BY <1>8, <1>9, NaturalsFrom
<1> QED
  BY <1>5, <1>10 DEF T

--------------------------------------------------------------------------------
(* The invariant, and what every step leaves of it: first, what stays      *)
(* when the ledger grows.                                                  *)

LEMMA AuditedStays ==
    ASSUME NEW s \in Sessions, NEW t \in Sessions, Grows(s, t), NEW c, NEW b, Audited(c, b, s.ledger)
    PROVE  Audited(c, b, t.ledger)
<1>1. Len(s.ledger) \in Nat /\ DOMAIN s.ledger = 1..Len(s.ledger)
      /\ Len(t.ledger) \in Nat /\ DOMAIN t.ledger = 1..Len(t.ledger)
  BY DEF Sessions
<1>2. c.row \in DOMAIN t.ledger /\ t.ledger[c.row] = s.ledger[c.row]
  BY <1>1 DEF Grows, Audited
<1> QED
  BY <1>2 DEF Audited

LEMMA TilesStay ==
    ASSUME NEW s \in Sessions, NEW t \in Sessions, Grows(s, t), NEW rows, NEW b, Tiles(rows, b, s.ledger)
    PROVE  Tiles(rows, b, t.ledger)
<1>1. Len(s.ledger) \in Nat /\ DOMAIN s.ledger = 1..Len(s.ledger)
      /\ Len(t.ledger) \in Nat /\ DOMAIN t.ledger = 1..Len(t.ledger)
  BY DEF Sessions
<1>2. \A i \in DOMAIN rows : rows[i] \in DOMAIN t.ledger /\ t.ledger[rows[i]] = s.ledger[rows[i]]
  BY <1>1 DEF Grows, Tiles
<1>3. /\ [i \in DOMAIN rows |-> t.ledger[rows[i]].from] = [i \in DOMAIN rows |-> s.ledger[rows[i]].from]
      /\ [i \in DOMAIN rows |-> t.ledger[rows[i]].to] = [i \in DOMAIN rows |-> s.ledger[rows[i]].to]
  BY <1>2
<1> QED
  BY <1>2, <1>3 DEF Tiles

(* A step of the search that is not its last.                              *)
Step ==
    /\ config' = config /\ input' = input
    /\ Sound(session') /\ Grows(session, session')
Ind ==
    /\ SoundInv /\ PlaceInv /\ BlocksInv /\ BestInv /\ EdgeInv /\ PathInv /\ CoverInv /\ OfferInv
    /\ StarvedInv /\ UnmarkedInv /\ ResultInv

LEMMA StepIs ==
    ASSUME Ind, Step
    PROVE  /\ SoundInv' /\ session \in Sessions /\ session' \in Sessions
           /\ config \in SearchConfigs /\ input \in SearchInputs
           /\ config' \in SearchConfigs /\ input' \in SearchInputs /\ (LiteralArchive <= config.archive)'
           /\ \A b : Start(b)' = Start(b)
           /\ \A c, b : Audited(c, b, session.ledger) => Audited(c, b, session.ledger)'
           /\ \A r, b : Tiles(r, b, session.ledger) => Tiles(r, b, session.ledger)'
           /\ \A c : Fits(c) => Fits(c)'
<1>1. SoundInv'
  BY DEF Step, Sound, SoundInv, Sessions, LedgerRows
<1>2. session \in Sessions /\ session' \in Sessions
  BY DEF Step, Ind, SoundInv, Sound
<1>3. \A b : Start(b)' = Start(b)
  BY DEF Step, Start
<1>4. ASSUME NEW c, NEW b, Audited(c, b, session.ledger) PROVE Audited(c, b, session.ledger)'
  <2>1. Audited(c, b, session'.ledger)
    BY <1>2, <1>4, AuditedStays DEF Step
  <2> QED
    BY <1>3, <2>1 DEF Audited
<1>5. ASSUME NEW r, NEW b, Tiles(r, b, session.ledger) PROVE Tiles(r, b, session.ledger)'
  <2>1. Tiles(r, b, session'.ledger)
    BY <1>2, <1>5, TilesStay DEF Step
  <2> QED
    BY <1>3, <2>1 DEF Tiles, Step
<1>6. \A c : Fits(c) => Fits(c)'
  BY DEF Fits, Step
<1>7. /\ config \in SearchConfigs /\ input \in SearchInputs
      /\ config' \in SearchConfigs /\ input' \in SearchInputs /\ (LiteralArchive <= config.archive)'
  BY DEF Ind, PlaceInv, Step, LiteralArchive
<1> QED
  BY <1>1, <1>2, <1>3, <1>4, <1>5, <1>6, <1>7

LEMMA StepUnmarked ==
    ASSUME Ind, Step, at.pc # "done"
    PROVE  UnmarkedInv'
<1>1. session \in Sessions /\ session' \in Sessions
  BY DEF Step, Ind, SoundInv, Sound
<1>2. Len(session.ledger) \in 1..config.ledger /\ Len(session'.ledger) \in 1..config.ledger
  BY DEF Step, Ind, SoundInv, Sound
<1>3. config.ledger \in Nat
  BY CapsAssumption DEF Ind, PlaceInv
<1>4. /\ DOMAIN session.ledger = 1..Len(session.ledger) /\ DOMAIN session'.ledger = 1..Len(session'.ledger)
      /\ 1 \in DOMAIN session.ledger
  BY <1>1, <1>2, <1>3 DEF Sessions
<1>5. session'.ledger[1] = session.ledger[1] /\ LiteralRow' = LiteralRow
  BY <1>4 DEF Step, Grows, LiteralRow, Row
<1>6. \A n \in DOMAIN session'.ledger : session'.ledger[n].selected => n = 1
  BY DEF Step, Grows, Ind, UnmarkedInv, Unmarked
<1> QED
  BY <1>5, <1>6 DEF Ind, UnmarkedInv, Unmarked

LEMMA OffersSame ==
    ASSUME NEW b, input' = input, \A o : o.block = b => (o \in offered' <=> o \in offered)
    PROVE  /\ WholeBytes(b)' = WholeBytes(b) /\ Reachable(b)' = Reachable(b)
           /\ \A f, t : PieceBytes(b, f, t)' = PieceBytes(b, f, t)
<1>1. \A f, t : PieceBytes(b, f, t)' = PieceBytes(b, f, t)
  <2> TAKE f, t
  <2>1. {x \in offered' : x.block = b /\ ~x.whole /\ x.from = f /\ x.to = t}
        = {x \in offered : x.block = b /\ ~x.whole /\ x.from = f /\ x.to = t}
    OBVIOUS
  <2> QED
    BY <2>1 DEF PieceBytes
<1>2. {x \in offered' : x.block = b /\ x.whole} = {x \in offered : x.block = b /\ x.whole}
  OBVIOUS
<1>3. WholeBytes(b)' = WholeBytes(b)
  BY <1>2 DEF WholeBytes
<1>4. \A ends : CutBytes(b, ends)' = CutBytes(b, ends)
  BY <1>1 DEF CutBytes
<1>5. {CutBytes(b, ends)' : ends \in Cuts(input[b])} = {CutBytes(b, ends) : ends \in Cuts(input[b])}
  BY <1>4
<1> QED
  BY <1>1, <1>2, <1>3, <1>5 DEF Reachable

LEMMA OffersUnchanged ==
    ASSUME NEW b, input' = input, offered' = offered
    PROVE  /\ WholeBytes(b)' = WholeBytes(b) /\ Reachable(b)' = Reachable(b)
           /\ \A f, t : PieceBytes(b, f, t)' = PieceBytes(b, f, t)
  BY OffersSame

(* The blocks before stay as they were chosen.                             *)
LEMMA BlocksStay ==
    ASSUME Ind, Step, at.pc \notin Over, choices' = choices, at'.block = at.block,
           \A o : o.block # at.block => (o \in offered' <=> o \in offered)
    PROVE  BlocksInv'
<1>1. \A r, b : Tiles(r, b, session.ledger) => Tiles(r, b, session.ledger)'
  BY StepIs
<1>2. \A c : Fits(c) => Fits(c)'
  BY StepIs
<1>3. at.block \in Nat
  BY InputFacts DEF Ind, PlaceInv
<1>4. ASSUME NEW b \in 1..at.block - 1
      PROVE  /\ Rows(choices[b], b)' /\ Fits(choices[b])' /\ Low(b, choices[b])'
             /\ (session.complete => High(b, choices[b]))'
  <2>1. Reachable(b)' = Reachable(b)
    <3>1. b # at.block
      BY <1>3
    <3> QED
      BY <3>1, OffersSame DEF Step
  <2>2. /\ Rows(choices[b], b) /\ Fits(choices[b]) /\ Low(b, choices[b])
        /\ session.complete => High(b, choices[b])
    BY DEF Ind, BlocksInv
  <2>rows. Rows(choices[b], b)'
    BY <1>1, <2>2 DEF Rows, Step, Grows
  <2>4. Low(b, choices[b])'
    BY <2>1, <2>2 DEF Low
  <2>5. (session.complete => High(b, choices[b]))'
    BY <2>1, <2>2 DEF High, Step, Grows
  <2> QED
    BY <1>2, <2>2, <2>rows, <2>4, <2>5
<1>5. choices' \in Seq(BlockChoices) /\ Len(choices') = at'.block - 1
  BY DEF Ind, BlocksInv
<1> QED
  BY <1>4, <1>5 DEF BlocksInv

--------------------------------------------------------------------------------
(* Facts the steps share.                                                  *)

LEMMA PlaceFacts ==
    ASSUME Ind
    PROVE  /\ config \in SearchConfigs /\ input \in SearchInputs
           /\ at.pc \in Phases /\ at.block \in Nat /\ at.provider \in Nat /\ at.from \in Nat /\ at.to \in Nat
           /\ at.queue \in Seq(ProvidedCandidates) /\ at.edges \in Seq(ProvidedCandidates)
           /\ at.paths \in Seq(Seq(Seq(ProvidedCandidates)))
           /\ at.pc \notin Outside => at.block \in 1..Len(input) /\ Here \in Nat \ {0}
           /\ InPaths => at.block \in 1..Len(input) /\ Len(at.paths) = Here + 1 /\ DOMAIN at.paths = 1..Here+1
<1>1. /\ config \in SearchConfigs /\ input \in SearchInputs /\ at \in Places
      /\ at.block \in 1..Len(input) + 1
      /\ at.pc \notin Outside => at.block <= Len(input)
      /\ at.pc \in Outside \cup {"whole"} => ~InPaths
      /\ InPaths => Len(at.paths) = Here + 1
  BY DEF Ind, PlaceInv
<1>2. /\ at.pc \in Phases /\ at.block \in Nat /\ at.provider \in Nat /\ at.from \in Nat /\ at.to \in Nat
      /\ at.queue \in Seq(ProvidedCandidates) /\ at.edges \in Seq(ProvidedCandidates)
      /\ at.paths \in Seq(Seq(Seq(ProvidedCandidates)))
  BY <1>1 DEF Places
<1>3. Len(input) \in Nat /\ \A b \in 1..Len(input) : input[b] \in Nat \ {0}
  BY <1>1, InputFacts
<1>4. at.pc \notin Outside => at.block \in 1..Len(input) /\ Here \in Nat \ {0}
  BY <1>1, <1>3 DEF Here
<1>5. InPaths => at.pc \notin Outside
  BY <1>1
<1>6. InPaths => DOMAIN at.paths = 1..Here+1
  BY <1>1, <1>2
<1> QED
  BY <1>1, <1>2, <1>4, <1>5, <1>6

LEMMA SoundStops ==
    ASSUME NEW s, Sound(s)
    PROVE  /\ s.stopped => ~s.complete
           /\ s \in Sessions /\ Len(s.ledger) \in Nat /\ DOMAIN s.ledger = 1..Len(s.ledger)
           /\ s.stopped \in BOOLEAN /\ s.complete \in BOOLEAN
  BY DEF Sound, Sessions

LEMMA RowsStay ==
    ASSUME Ind, Step, NEW c, NEW b, Rows(c, b)
    PROVE  Rows(c, b)'
<1>1. \A r, d : Tiles(r, d, session.ledger) => Tiles(r, d, session.ledger)'
  BY StepIs
<1> QED
  BY <1>1 DEF Rows, Step, Grows

LEMMA RowHereIs ==
    ASSUME Ind, at.pc \notin Outside, NEW e \in Tags, NEW r \in Reasons, NEW f \in Nat, NEW t \in Nat
    PROVE  /\ RowHere(e, r, f, t) \in LedgerRows /\ ~RowHere(e, r, f, t).selected
           /\ RowHere(e, r, f, t).event = e /\ RowHere(e, r, f, t).reason = r
           /\ RowHere(e, r, f, t).from = Start(at.block) + f /\ RowHere(e, r, f, t).to = Start(at.block) + t
<1>1. Start(at.block) \in Nat
  BY PlaceFacts, BlockFacts
<1>2. Start(at.block) + f \in Nat /\ Start(at.block) + t \in Nat
  BY <1>1
<1> QED
  BY <1>2 DEF RowHere, Row, LedgerRows

(* A row for the whole block cuts it into one piece.                       *)
LEMMA OneTile ==
    ASSUME input \in SearchInputs, NEW b \in 1..Len(input), NEW ledger, NEW n \in DOMAIN ledger,
           ledger[n].event = "Tried", ledger[n].from = Start(b), ledger[n].to = Start(b) + input[b]
    PROVE  Tiles(<<n>>, b, ledger)
<1>1. Start(b) \in Nat /\ input[b] \in Nat \ {0}
  BY BlockFacts
<1> DEFINE f == [i \in DOMAIN <<n>> |-> ledger[<<n>>[i]].from]
           t == [i \in DOMAIN <<n>> |-> ledger[<<n>>[i]].to]
<1>2. DOMAIN <<n>> = 1..1 /\ <<n>>[1] = n /\ Len(<<n>>) = 1
  OBVIOUS
<1>3. f[1] = Start(b) /\ t[1] = Start(b) + input[b]
  BY <1>2
<1> HIDE DEF f, t
<1>4. Steps(f, t, 1, Start(b), Start(b) + input[b])
  BY <1>1, <1>3 DEF Steps
<1> QED
  BY <1>2, <1>4 DEF Tiles, f, t

LEMMA ReachableHas ==
    ASSUME NEW b
    PROVE  LiteralBytes[input[b]] \in Reachable(b) /\ WholeBytes(b) \subseteq Reachable(b)
  BY DEF Reachable, WholeBytes

--------------------------------------------------------------------------------
LEMMA FailStep ==
    ASSUME Ind, config' = config, input' = input, at.pc \notin Outside, NEW why, SearchFails(why),
           offered' = offered
    PROVE  Ind'
<1>1. session' = session /\ at' = Place(at.block, "failed")
  BY DEF SearchFails
<1>2. /\ at'.pc = "failed" /\ at'.block = at.block /\ at'.paths = <<>> /\ at'.from = 0 /\ at'.to = 1
      /\ at' \in Places
  BY <1>1, PlaceFacts DEF Place, Places, Phases
<1>3. SoundInv' /\ UnmarkedInv'
  <2>1. Step
    BY <1>1, SoundStops, GrowsNot DEF Step, Ind, SoundInv
  <2> QED
    BY <2>1, StepIs, StepUnmarked DEF Outside
<1>4. PlaceInv'
  BY <1>1, <1>2 DEF Ind, PlaceInv, InPaths, Outside, OfInterval, LiteralArchive
<1> QED
  BY <1>2, <1>3, <1>4
  DEF Ind, BlocksInv, BestInv, EdgeInv, PathInv, CoverInv, Covered, OfferInv, StarvedInv, ResultInv,
      Over, Outside, InPaths

--------------------------------------------------------------------------------
(* A stop.                                                                 *)

(* The step to a stop: what was found so far is left to compete.           *)
LEMMA OffersGrow ==
    ASSUME NEW b, input' = input, offered \subseteq offered'
    PROVE  /\ WholeBytes(b) \subseteq WholeBytes(b)'
           /\ \A f, t : PieceBytes(b, f, t) \subseteq PieceBytes(b, f, t)'
<1>1. {x \in offered : x.block = b /\ x.whole} \subseteq {x \in offered' : x.block = b /\ x.whole}
  OBVIOUS
<1>2. \A f, t : {x \in offered : x.block = b /\ ~x.whole /\ x.from = f /\ x.to = t}
                \subseteq {x \in offered' : x.block = b /\ ~x.whole /\ x.from = f /\ x.to = t}
  OBVIOUS
<1>3. WholeBytes(b) \subseteq WholeBytes(b)'
  BY <1>1 DEF WholeBytes
<1>4. \A f, t : PieceBytes(b, f, t) \subseteq PieceBytes(b, f, t)'
  BY <1>2 DEF PieceBytes
<1> QED
  BY <1>3, <1>4

LEMMA PathsStay ==
    ASSUME Ind, Step, at'.paths = at.paths, at'.block = at.block, offered \subseteq offered',
           InPaths => at.pc \in OfPaths
    PROVE  PathInv'
<1> SUFFICES ASSUME InPaths, NEW k \in 0..Here, NEW i \in DOMAIN at.paths[k + 1]
             PROVE  Made(at.paths[k + 1][i], k, at.block, session.ledger)'
  <2>1. InPaths' => InPaths
    BY DEF InPaths
  <2>2. Here' = Here
    BY DEF Here, Step
  <2> QED
    BY <2>1, <2>2 DEF PathInv
<1>1. Made(at.paths[k + 1][i], k, at.block, session.ledger)
  BY DEF Ind, PathInv
<1>2. \A c, b : Audited(c, b, session.ledger) => Audited(c, b, session.ledger)'
  BY StepIs
<1>3. \A f, t : PieceBytes(at.block, f, t) \subseteq PieceBytes(at.block, f, t)'
  BY OffersGrow DEF Step
<1>4. \A p, l, b : (\A f, t : PieceBytes(b, f, t) \subseteq PieceBytes(b, f, t)')
                      /\ Made(p, l, b, session.ledger) => Made(p, l, b, session.ledger)'
  BY <1>2 DEF Made, Priced
<1> QED
  BY <1>1, <1>3, <1>4

LEMMA StopStep ==
    ASSUME Ind, Step, at.pc \in {"search", "try", "whole"}, session'.stopped,
           session'.states = session.states \/ InPaths,
           at' = [at EXCEPT !.pc = OnStop], best' = best, choices' = choices, offered' = offered
    PROVE  Ind'
<1>1. at \in Places /\ at.pc \notin Outside /\ at.pc \notin Over
  BY DEF Ind, PlaceInv, Outside, Over
<1>2. /\ at' \in Places /\ at'.block = at.block /\ at'.paths = at.paths /\ at'.from = at.from
      /\ at'.to = at.to /\ at'.queue = at.queue /\ at'.pc = OnStop
      /\ OnStop = IF InPaths THEN "paths" ELSE "chosen"
  BY <1>1 DEF Places, OnStop, Phases, InBlock, InPaths
<1>3. Here' = Here /\ (InPaths' <=> InPaths)
  BY <1>2 DEF Here, Step, InPaths
<1>4. SoundInv' /\ UnmarkedInv'
  BY <1>1, StepIs, StepUnmarked DEF Over
<1>5. ~session'.complete
  BY SoundStops DEF Step
<1>6. PlaceInv'
  BY <1>1, <1>2, <1>3, <1>5, StepIs DEF Ind, PlaceInv, Outside, OfInterval, Step
<1>7. BlocksInv'
  BY <1>1, <1>2, BlocksStay
<1>8. BestInv'
  <2>1. /\ WholeBytes(at.block)' = WholeBytes(at.block) /\ Reachable(at.block)' = Reachable(at.block)
    BY OffersUnchanged DEF Step
  <2>2. /\ best \in BlockChoices
        /\ Rows(best, at.block) /\ (InPaths => best.rows # <<0>>)
        /\ Fits(best)
        /\ best.bytes <= LiteralBytes[Here]
        /\ best.bytes \in {LiteralBytes[Here]} \cup WholeBytes(at.block)
        /\ InPaths => \A n \in WholeBytes(at.block) : best.bytes <= n
    BY <1>1 DEF Ind, BestInv
  <2>fitting. Rows(best, at.block)' /\ Fits(best)'
    BY <1>2, <2>2, RowsStay, StepIs
  <2>4. Low(at.block, best)'
    <3>1. best.bytes \in Reachable(at.block)
      BY <2>2, ReachableHas DEF Here
    <3>2. best.bytes <= best.bytes
      <4>1. best.bytes \in Nat
        BY <2>2 DEF BlockChoices
      <4> QED
        BY <4>1
    <3> QED
      BY <1>2, <2>1, <3>1, <3>2 DEF Low
  <2>5. (InPaths => best.rows # <<0>>)' /\ (best \in BlockChoices)' /\ (best.bytes <= LiteralBytes[Here])'
    BY <1>3, <2>2
  <2>6. WholeBytes(at.block)' = WholeBytes(at.block)
    BY <1>2, <2>1
  <2> QED
    BY <1>2, <1>3, <1>5, <2>1, <2>2, <2>fitting, <2>4, <2>5, <2>6 DEF BestInv
<1>9. EdgeInv' /\ CoverInv'
  BY <1>2, <1>3, <1>5 DEF EdgeInv, CoverInv, Covered, OfInterval
<1>10. PathInv'
  <2>1. InPaths => at.pc \in OfPaths
    BY DEF Ind, PlaceInv, OfPaths
  <2> QED
    BY <1>2, <2>1, PathsStay
<1>11. OfferInv'
  <2>1. /\ offered \subseteq OfferSet
        /\ \A o \in offered : 1 <= o.block /\ o.block <= at.block
        /\ \A o \in offered : o.block = at.block /\ ~o.whole =>
             /\ InPaths
             /\ at.pc \in OfPaths =>
                  Passed(o.from, o.to) \/ (at.pc # "interval" /\ o.from = at.from /\ o.to = at.to)
    BY <1>1 DEF Ind, OfferInv
  <2>2. InPaths => at.pc \in OfPaths
    BY DEF Ind, PlaceInv, OfPaths
  <2>3. \A f, t : Passed(f, t)' <=> Passed(f, t)
    BY <1>2 DEF Passed
  <2> QED
    BY <1>2, <1>3, <2>1, <2>2, <2>3 DEF OfferInv
<1>12. StarvedInv'
  <2>1. WholeBytes(1)' = WholeBytes(1)
    BY OffersUnchanged DEF Step
  <2> QED
    BY <1>1, <1>2, <1>3, <2>1, PlaceFacts, InputFacts DEF Ind, StarvedInv, Step
<1>13. ResultInv'
  BY <1>2 DEF ResultInv
<1> QED
  BY <1>4, <1>6, <1>7, <1>8, <1>9, <1>10, <1>11, <1>12, <1>13 DEF Ind

--------------------------------------------------------------------------------
(* Blocks and providers.                                                   *)

LEMMA BeginBlockStep ==
    ASSUME Ind, config' = config, input' = input, BeginBlock
    PROVE  Ind'
<1> DEFINE row == RowHere("Tried", "BlockLiteralUpperBound", 0, Here)
<1>1. /\ at.pc = "block" /\ at.block <= Len(input)
      /\ session' = Push(session, row)
      /\ best' = Choice(LiteralBytes[Here], <<1>>,
                        IF session'.stopped THEN <<0>> ELSE <<Len(session'.ledger)>>)
      /\ at' = Place(at.block, IF session'.stopped THEN "chosen" ELSE "try")
      /\ choices' = choices /\ offered' = offered /\ outcome' = outcome
  BY DEF BeginBlock
<1>2. at.block \in 1..Len(input) /\ Here = input[at.block] /\ input \in SearchInputs /\ config \in SearchConfigs
  BY <1>1, PlaceFacts, InputFacts DEF Ind, PlaceInv, Here
<1>3. /\ Here \in Nat \ {0} /\ Start(at.block) \in Nat /\ LiteralBytes[Here] \in Nat
      /\ Start(at.block) + Here \in Nat /\ Start(at.block) + 0 = Start(at.block)
  BY <1>2, BlockFacts
<1>4. /\ row \in LedgerRows /\ ~row.selected /\ row.event = "Tried"
      /\ row.from = Start(at.block) /\ row.to = Start(at.block) + Here
  BY <1>3 DEF RowHere, Row, LedgerRows, Tags, Reasons
<1> HIDE DEF row
<1>5. /\ Sound(session') /\ Grows(session, session') /\ session'.states = session.states
      /\ ~session'.stopped => /\ Len(session'.ledger) = Len(session.ledger) + 1
                              /\ session'.ledger[Len(session.ledger) + 1] = row
  BY <1>1, <1>2, <1>4, PushTried DEF Ind, SoundInv, SameCounts
<1>6. Step
  BY <1>5 DEF Step
<1>7. SoundInv' /\ UnmarkedInv'
  BY <1>1, <1>6, StepIs, StepUnmarked
<1>8. /\ at'.pc = (IF session'.stopped THEN "chosen" ELSE "try") /\ at'.block = at.block /\ at'.paths = <<>>
      /\ at'.from = 0 /\ at'.to = 1 /\ at'.queue = <<>> /\ at' \in Places /\ ~InPaths'
      /\ Here' = Here
  BY <1>1, <1>2, <1>6, InputFacts DEF Place, Places, Phases, InPaths, Here, Step
<1>9. PlaceInv'
  <2>1. session'.stopped \in BOOLEAN
    BY <1>5, SoundStops
  <2> QED
    BY <1>2, <1>6, <1>8, <2>1, StepIs, InputFacts DEF Ind, PlaceInv, Outside, OfInterval, Step
<1>10. BlocksInv'
  BY <1>1, <1>6, <1>8, BlocksStay DEF Over
<1>11. /\ best'.bytes = LiteralBytes[Here] /\ best' \in BlockChoices
       /\ best'.rows = IF session'.stopped THEN <<0>> ELSE <<Len(session'.ledger)>>
  <2>1. Len(session'.ledger) \in Nat
    BY <1>5, SoundStops
  <2>2. <<1>> \in Seq(Nat) /\ (IF session'.stopped THEN <<0>> ELSE <<Len(session'.ledger)>>) \in Seq(Nat)
    BY <2>1
  <2> QED
    BY <1>1, <1>3, <2>2 DEF Choice, BlockChoices
<1>12. /\ Start(at.block)' = Start(at.block) /\ LiteralBytes[Here]' = LiteralBytes[Here]
       /\ WholeBytes(at.block)' = {}
       /\ LiteralBytes[Here] \in Reachable(at.block)'
  <2>1. \A o \in offered : o.block # at.block
    BY <1>1, <1>2, InputFacts DEF Ind, OfferInv, Over, OfferSet
  <2>2. WholeBytes(at.block) = {}
    BY <2>1 DEF WholeBytes
  <2>3. WholeBytes(at.block)' = WholeBytes(at.block) /\ Reachable(at.block)' = Reachable(at.block)
    BY <1>1, <1>6, <1>8, OffersUnchanged DEF Step
  <2> QED
    BY <1>2, <1>6, <1>8, <2>2, <2>3, StepIs, ReachableHas DEF Here
<1>13. BestInv'
  <2>1. Rows(best, at.block)'
    <3>1. CASE session'.stopped
      BY <1>11, <3>1 DEF Rows
    <3>2. CASE ~session'.stopped
      <4> DEFINE n == Len(session'.ledger)
      <4>1. n \in DOMAIN session'.ledger /\ n \in Nat \ {0} /\ session'.ledger[n] = row
        BY <1>5, <3>2, SoundStops DEF Ind, SoundInv
      <4> HIDE DEF n
      <4>2. Tiles(<<n>>, at.block, session'.ledger)
        BY <1>2, <1>4, <4>1, OneTile
      <4>3. (Tiles(best.rows, at.block, session.ledger))'
        BY <1>6, <1>8, <1>11, <1>12, <3>2, <4>2 DEF Tiles, Step, n
      <4>4. <<n>> # <<0>>
        BY <4>1
      <4> QED
        BY <1>11, <3>2, <4>3, <4>4 DEF Rows, n
    <3> QED
      BY <3>1, <3>2
  <2>2. Fits(best)'
    <3> SUFFICES ASSUME Len(input) = 1 PROVE ArchiveBytes(LiteralBytes[Here]) <= config.archive
      BY <1>6, <1>11 DEF Fits, Step
    <3>1. Total(input) = Here
      BY <1>2, WholeFacts
    <3> QED
      BY <3>1 DEF Ind, PlaceInv, LiteralArchive
  <2>literal. best'.bytes <= LiteralBytes[Here]' /\ LiteralBytes[Here] <= best'.bytes
    BY <1>3, <1>11, <1>12
  <2>4. at'.pc = "chosen" => ~session'.complete
    BY <1>5, <1>8, SoundStops
  <2>5. Low(at.block, best)'
    BY <1>8, <1>12, <2>literal DEF Low
  <2>6. WholeBytes(at.block)' = {} /\ best'.bytes = LiteralBytes[Here]'
    BY <1>8, <1>11, <1>12
  <2> QED
    BY <1>8, <1>11, <2>1, <2>2, <2>literal, <2>4, <2>5, <2>6 DEF BestInv, High
<1>14. EdgeInv' /\ PathInv' /\ CoverInv'
  BY <1>8 DEF EdgeInv, PathInv, CoverInv, Covered
<1>15. OfferInv'
  <2>1. offered \subseteq OfferSet /\ \A o \in offered : 1 <= o.block /\ o.block < at.block /\ o.block <= at.block
    BY <1>1, <1>2, InputFacts DEF Ind, OfferInv, Over, OfferSet
  <2>2. \A o \in offered : o.block # at.block
    BY <1>2, <2>1, InputFacts DEF OfferSet
  <2>3. DOMAIN at'.queue = {} /\ at'.pc # "block"
    BY <1>8
  <2> QED
    BY <1>1, <1>8, <2>1, <2>2, <2>3 DEF OfferInv
<1>16. StarvedInv'
  <2> SUFFICES ASSUME Len(input) = 1, session.states > 0 PROVE FALSE
    BY <1>5, <1>6 DEF StarvedInv, Step
  <2>1. at.block = 1
    BY <1>2
  <2> QED
    BY <1>1, <2>1 DEF Ind, StarvedInv, PlaceInv, Over, Outside
<1>17. ResultInv'
  BY <1>8 DEF ResultInv
<1> QED
  BY <1>7, <1>9, <1>10, <1>13, <1>14, <1>15, <1>16, <1>17 DEF Ind

--------------------------------------------------------------------------------
LEMMA SessionStays == ASSUME Ind, config' = config, input' = input, session' = session PROVE Step
<1>1. Grows(session, session)
  BY SoundStops, GrowsNot DEF Ind, SoundInv
<1> QED
  BY <1>1 DEF Step, Ind, SoundInv

LEMMA EndBlockStep ==
    ASSUME Ind, config' = config, input' = input, EndBlock
    PROVE  Ind'
<1>1. /\ at.pc = "chosen" /\ choices' = Append(choices, best) /\ best' = Nothing
      /\ at' = Place(at.block + 1, "block") /\ session' = session /\ offered' = offered
  BY DEF EndBlock
<1>2. Step
  BY <1>1, SessionStays
<1>3. SoundInv' /\ UnmarkedInv'
  BY <1>1, <1>2, StepIs, StepUnmarked
<1>4. at.block \in 1..Len(input) /\ Len(input) \in Nat /\ input \in SearchInputs
  BY <1>1, PlaceFacts, InputFacts DEF Outside
<1>5. /\ at'.pc = "block" /\ at'.block = at.block + 1 /\ at'.paths = <<>> /\ at' \in Places /\ ~InPaths'
      /\ at'.from = 0 /\ at'.to = 1
  BY <1>1, <1>4 DEF Place, Places, Phases, InPaths
<1>6. PlaceInv'
  BY <1>2, <1>4, <1>5, StepIs DEF Ind, PlaceInv, Outside, OfInterval, Step
<1>7. /\ choices \in Seq(BlockChoices) /\ Len(choices) = at.block - 1
      /\ \A b \in 1..at.block - 1 :
           /\ Rows(choices[b], b) /\ Fits(choices[b]) /\ Low(b, choices[b])
           /\ session.complete => High(b, choices[b])
  BY <1>1 DEF Ind, BlocksInv, Over
<1>8. /\ best \in BlockChoices /\ Rows(best, at.block) /\ (InPaths => best.rows # <<0>>) /\ Fits(best)
      /\ Low(at.block, best) /\ (session.complete => High(at.block, best))
      /\ InPaths => \A n \in WholeBytes(at.block) : best.bytes <= n
  BY <1>1 DEF Ind, BestInv, Outside
<1>9. /\ choices' \in Seq(BlockChoices) /\ Len(choices') = at.block
      /\ choices'[at.block] = best /\ \A b \in 1..at.block - 1 : choices'[b] = choices[b]
  <2>1. Len(choices) \in Nat /\ Len(choices) + 1 = at.block
    BY <1>4, <1>7
  <2> QED
    BY <1>1, <1>7, <1>8, <2>1, AppendIs
<1>10. ASSUME NEW b \in 1..at.block
       PROVE  /\ Rows(choices[b], b)' /\ Fits(choices[b])' /\ Low(b, choices[b])'
              /\ (session.complete => High(b, choices[b]))'
  <2>1. Reachable(b)' = Reachable(b)
    BY <1>1, OffersUnchanged
  <2>2. /\ Rows(choices'[b], b) /\ Fits(choices'[b]) /\ Low(b, choices'[b])
        /\ session.complete => High(b, choices'[b])
    <3>1. b = at.block \/ b \in 1..at.block - 1
      BY <1>4
    <3> QED
      BY <1>7, <1>8, <1>9, <3>1
  <2>3. Rows(choices[b], b)' /\ Fits(choices[b])'
    <3>1. \A c : Rows(c, b) => Rows(c, b)'
      BY <1>2, RowsStay
    <3>2. \A c : Fits(c) => Fits(c)'
      BY <1>2, StepIs
    <3> QED
      BY <2>2, <3>1, <3>2
  <2> QED
    BY <1>1, <2>1, <2>2, <2>3 DEF Low, High
<1>11. BlocksInv'
  <2>1. at'.block - 1 = at.block
    BY <1>4, <1>5
  <2> QED
    BY <1>9, <1>10, <2>1 DEF BlocksInv
<1>12. BestInv' /\ EdgeInv' /\ PathInv' /\ CoverInv' /\ ResultInv'
  BY <1>5 DEF BestInv, EdgeInv, PathInv, CoverInv, Covered, ResultInv, Outside
<1>13. OfferInv'
  <2>1. offered \subseteq OfferSet /\ \A o \in offered : 1 <= o.block /\ o.block <= at.block
    BY <1>1 DEF Ind, OfferInv, Over
  <2>2. \A o \in offered : o.block < at.block + 1 /\ o.block <= at.block + 1 /\ o.block # at.block + 1
    BY <1>4, <2>1 DEF OfferSet
  <2> QED
    BY <1>1, <1>5, <2>1, <2>2 DEF OfferInv
<1>14. StarvedInv'
  <2> SUFFICES ASSUME Len(input) = 1, session.states > 0
               PROVE  /\ at'.block = 2 /\ choices'[1].rows # <<0>>
                      /\ \A n \in WholeBytes(1)' : choices'[1].bytes <= n
    BY <1>1, <1>2 DEF StarvedInv, Step
  <2>1. at.block = 1
    BY <1>4
  <2>2. InPaths
    BY <1>1, <2>1 DEF Ind, StarvedInv, Over
  <2>3. WholeBytes(1)' = WholeBytes(1)
    BY <1>1, OffersUnchanged
  <2> QED
    BY <1>5, <1>8, <1>9, <2>1, <2>2, <2>3
<1> QED
  BY <1>3, <1>6, <1>11, <1>12, <1>13, <1>14 DEF Ind

--------------------------------------------------------------------------------
LEMMA NextProviderStep ==
    ASSUME Ind, config' = config, input' = input, NextProvider
    PROVE  Ind'
<1>1. /\ at.pc = "try" /\ at.queue = <<>> /\ UNCHANGED <<session, best, choices, offered>>
      /\ at' = [at EXCEPT !.provider = @ + 1,
                          !.pc = IF at.provider < Len(Providers) THEN "search"
                                 ELSE IF InBlock THEN "whole" ELSE "extend"]
  BY DEF NextProvider
<1>2. Step
  BY <1>1, SessionStays
<1>3. SoundInv' /\ UnmarkedInv'
  BY <1>1, <1>2, StepIs, StepUnmarked
<1>4. at \in Places /\ at.pc \notin Outside /\ at.pc \notin Over /\ at.pc \in OfPaths /\ at.provider \in Nat
  BY <1>1 DEF Ind, PlaceInv, Outside, Over, OfPaths, Places
<1>5. /\ at' \in Places /\ at'.block = at.block /\ at'.paths = at.paths /\ at'.from = at.from
      /\ at'.to = at.to /\ at'.queue = at.queue /\ at'.edges = at.edges /\ at'.provider = at.provider + 1
      /\ at'.pc = IF at.provider < Len(Providers) THEN "search" ELSE IF InPaths THEN "extend" ELSE "whole"
  <2> DEFINE l == IF at.provider < Len(Providers) THEN "search" ELSE IF InBlock THEN "whole" ELSE "extend"
  <2>1. l \in Phases /\ l = (IF at.provider < Len(Providers) THEN "search" ELSE IF InPaths THEN "extend" ELSE "whole")
    BY DEF Phases, InBlock, InPaths
  <2> HIDE DEF l
  <2>2. at' = [at EXCEPT !.provider = @ + 1, !.pc = l]
    BY <1>1 DEF l
  <2>3. at.provider + 1 \in Nat
    BY <1>4
  <2>4. at' \in Places
    BY <1>4, <2>1, <2>2, <2>3 DEF Places
  <2>5. DOMAIN at = {"pc", "block", "provider", "queue", "from", "to", "edges", "paths"}
    BY <1>4 DEF Places
  <2>6. /\ at'.block = at.block /\ at'.paths = at.paths /\ at'.from = at.from
        /\ at'.to = at.to /\ at'.queue = at.queue /\ at'.edges = at.edges
    BY <2>2, <2>5
  <2>7. at'.provider = at.provider + 1 /\ at'.pc = l
    BY <2>2, <2>5
  <2> QED
    BY <2>1, <2>4, <2>6, <2>7
<1>6. Here' = Here /\ (InPaths' <=> InPaths) /\ Providers' = Providers
  BY <1>5 DEF Here, Step, InPaths, Providers, InBlock
<1>7. at'.pc = "search" => at'.provider \in DOMAIN Providers
  <2>1. Len(Providers) \in Nat /\ DOMAIN Providers = 1..Len(Providers)
    BY OffersAssumption DEF Providers
  <2> QED
    BY <1>4, <1>5, <2>1
<1>8. PlaceInv'
  BY <1>1, <1>4, <1>5, <1>6, <1>7, <1>2, StepIs DEF Ind, PlaceInv, Outside, OfInterval, Step
<1>9. BlocksInv'
  BY <1>1, <1>2, <1>4, <1>5, BlocksStay
<1>10. /\ \A b : WholeBytes(b)' = WholeBytes(b)
       /\ \A b, f, t : PieceBytes(b, f, t)' = PieceBytes(b, f, t)
       /\ \A f, t : Passed(f, t)' <=> Passed(f, t)
  BY <1>1, <1>5, OffersUnchanged DEF Passed
<1>11. BestInv'
  <2>1. \A c, b : Rows(c, b) => Rows(c, b)'
    BY <1>2, RowsStay
  <2>2. \A c : Fits(c) => Fits(c)'
    BY <1>2, StepIs
  <2> QED
    BY <1>1, <1>4, <1>5, <1>6, <1>10, <2>1, <2>2 DEF Ind, BestInv
<1>12. EdgeInv'
  <2>1. \A c, b : Audited(c, b, session.ledger) => Audited(c, b, session.ledger)'
    BY <1>2, StepIs
  <2> QED
    BY <1>1, <1>5, <1>6, <1>10, <2>1 DEF Ind, EdgeInv, OfInterval
<1>13. PathInv'
  BY <1>1, <1>2, <1>4, <1>5, PathsStay
<1>14. CoverInv'
  BY <1>1, <1>2, <1>4, <1>5, <1>6, <1>10 DEF Ind, CoverInv, Covered, Priced, Step
<1>15. OfferInv'
  BY <1>1, <1>4, <1>5, <1>6, <1>10 DEF Ind, OfferInv, OfPaths
<1>16. StarvedInv'
  BY <1>1, <1>2, <1>4, <1>5, <1>6, <1>10 DEF Ind, StarvedInv, Step
<1>17. ResultInv'
  BY <1>5 DEF ResultInv
<1> QED
  BY <1>3, <1>8, <1>9, <1>11, <1>12, <1>13, <1>14, <1>15, <1>16, <1>17 DEF Ind

--------------------------------------------------------------------------------
(* From the whole block to its intervals.                                  *)

(* A step that moves the search and leaves the rest alone.                 *)
LEMMA MoveIs ==
    ASSUME Ind, Step, UNCHANGED <<best, choices, offered>>, at.pc \notin Outside, at'.block = at.block,
           at' \in Places
    PROVE  /\ SoundInv' /\ UnmarkedInv' /\ BlocksInv' /\ Here' = Here
           /\ Rows(best, at.block)' /\ Fits(best)'
           /\ \A b : WholeBytes(b)' = WholeBytes(b) /\ Reachable(b)' = Reachable(b)
           /\ \A b, f, t : PieceBytes(b, f, t)' = PieceBytes(b, f, t)
           /\ session'.complete => session.complete
<1>1. SoundInv' /\ UnmarkedInv'
  BY StepIs, StepUnmarked DEF Outside
<1>2. BlocksInv'
  BY BlocksStay DEF Outside, Over
<1>3. Here' = Here
  BY DEF Here, Step
<1>4. Rows(best, at.block)' /\ Fits(best)'
  BY RowsStay, StepIs DEF Ind, BestInv
<1>5. /\ \A b : WholeBytes(b)' = WholeBytes(b) /\ Reachable(b)' = Reachable(b)
      /\ \A b, f, t : PieceBytes(b, f, t)' = PieceBytes(b, f, t)
  BY OffersUnchanged DEF Step
<1> QED
  BY <1>1, <1>2, <1>3, <1>4, <1>5 DEF Step, Grows

LEMMA NoPathsStep ==
    ASSUME Ind, config' = config, input' = input, StartPaths, Intervals = <<>>
    PROVE  Ind'
<1>1. /\ at.pc = "whole" /\ session' = session /\ UNCHANGED <<best, choices, offered>>
      /\ at' = [at EXCEPT !.pc = "chosen"]
  BY DEF StartPaths, GoTo
<1>2. Step
  BY <1>1, SessionStays
<1>3. at \in Places /\ ~InPaths /\ ~session.stopped /\ at.queue = <<>> /\ at.pc \notin Outside
  BY <1>1 DEF Ind, PlaceInv, Outside
<1>4. /\ at' \in Places /\ at'.block = at.block /\ at'.paths = at.paths /\ at'.from = at.from
      /\ at'.to = at.to /\ at'.queue = at.queue /\ at'.pc = "chosen" /\ ~InPaths'
  BY <1>1, <1>3 DEF Places, Phases, InPaths
<1>5. /\ SoundInv' /\ UnmarkedInv' /\ BlocksInv' /\ Here' = Here
      /\ Rows(best, at.block)' /\ Fits(best)'
      /\ \A b : WholeBytes(b)' = WholeBytes(b) /\ Reachable(b)' = Reachable(b)
  BY <1>1, <1>2, <1>3, <1>4, MoveIs
<1>6. PlaceInv'
  BY <1>1, <1>2, <1>3, <1>4, <1>5, StepIs DEF Ind, PlaceInv, Outside, OfInterval, Step
<1>7. /\ best \in BlockChoices /\ best.bytes <= LiteralBytes[Here]
      /\ best.bytes \in {LiteralBytes[Here]} \cup WholeBytes(at.block)
      /\ \A n \in WholeBytes(at.block) : best.bytes <= n
  BY <1>1, <1>3 DEF Ind, BestInv, Outside
<1>8. Reachable(at.block) = {LiteralBytes[Here]} \cup WholeBytes(at.block)
  BY DEF StartPaths, Reachable, WholeBytes, Here
<1>9. Low(at.block, best) /\ High(at.block, best)
  BY <1>7, <1>8 DEF Low, High, BlockChoices
<1>10. BestInv'
  BY <1>1, <1>4, <1>5, <1>7, <1>9 DEF BestInv, Low, High
<1>11. OfferInv'
  BY <1>1, <1>4 DEF Ind, OfferInv, InPaths, OfPaths, Over
<1>12. StarvedInv'
  BY <1>1, <1>2, <1>4, <1>5 DEF Ind, StarvedInv, Over, InPaths, Step
<1>13. EdgeInv' /\ PathInv' /\ CoverInv' /\ ResultInv'
  BY <1>4 DEF EdgeInv, PathInv, CoverInv, Covered, ResultInv
<1> QED
  BY <1>5, <1>6, <1>10, <1>11, <1>12, <1>13 DEF Ind

(* The empty path is the way to the start of the block.                    *)
LEMMA EmptyWalk ==
    ASSUME NEW w \in Seq(Pieces), NEW k, Walk(w, k), w # <<>>
    PROVE  /\ Len(w) \in Nat \ {0} /\ k \in Nat
           /\ w[Len(w)].to = k /\ w[Len(w)].from < k /\ w[Len(w)].from \in Nat
<1> DEFINE f == [i \in DOMAIN w |-> w[i].from]
           t == [i \in DOMAIN w |-> w[i].to]
           n == Len(w)
<1>1. Steps(f, t, n, 0, k)
  BY DEF Walk
<1>2. n \in Nat \ {0} /\ n \in DOMAIN w /\ n \in 1..n
  OBVIOUS
<1>3. f[n] = w[n].from /\ t[n] = w[n].to
  BY <1>2
<1> HIDE DEF f, t
<1>4. t[n] = k /\ f[n] \in Nat /\ t[n] \in Nat /\ f[n] < t[n]
  BY <1>1, <1>2 DEF Steps
<1> QED
  BY <1>2, <1>3, <1>4

LEMMA StartPathsStep ==
    ASSUME Ind, config' = config, input' = input, StartPaths
    PROVE  Ind'
<1>1. CASE Intervals = <<>>
  BY <1>1, NoPathsStep
<1>2. CASE Intervals # <<>>
  <2>1. /\ at.pc = "whole" /\ UNCHANGED <<best, choices, offered>> /\ session' = ChargeState(session)
        /\ at' = IF session'.stopped THEN [at EXCEPT !.pc = "chosen"]
                 ELSE [at EXCEPT !.pc = "interval",
                                 !.paths = [i \in 1..Here + 1 |-> IF i = 1 THEN << <<>> >> ELSE <<>>]]
    BY <1>2 DEF StartPaths
  <2>2. at \in Places /\ ~InPaths /\ ~session.stopped /\ at.queue = <<>> /\ at.pc \notin Outside
        /\ at.from = 0 /\ at.to = 1
    BY <2>1 DEF Ind, PlaceInv, Outside
  <2>3. /\ Charge(session, session')
        /\ session.states >= config.states => session'.stopped /\ session'.states = session.states
        /\ ~(session.states >= config.states) => session'.stopped = session.stopped
    BY <2>1, ChargeStateIs, PlaceFacts DEF Ind, SoundInv
  <2>4. Step
    BY <2>3 DEF Step, Charge
  <2>5. CASE session'.stopped
    <3>1. at' = [at EXCEPT !.pc = OnStop]
      BY <2>1, <2>2, <2>5 DEF OnStop, InBlock, InPaths
    <3>2. session'.states = session.states
      BY <2>2, <2>3, <2>5
    <3> QED
      BY <2>1, <2>4, <2>5, <3>1, <3>2, StopStep
  <2>6. CASE ~session'.stopped
    <3> DEFINE paths == [i \in 1..Here + 1 |-> IF i = 1 THEN << <<>> >> ELSE <<>>]
    <3>1. Here \in Nat \ {0} /\ at.block \in 1..Len(input) /\ Len(input) \in Nat
      BY <2>2, PlaceFacts, InputFacts
    <3>2. paths \in Seq(Seq(Seq(ProvidedCandidates))) /\ Len(paths) = Here + 1 /\ paths # <<>>
      BY <3>1
    <3>3. /\ \A k \in 0..Here : k + 1 \in 1..Here+1
          /\ paths[1] = << <<>> >> /\ \A k \in 0..Here : k # 0 => paths[k + 1] = <<>>
      BY <3>1
    <3> HIDE DEF paths
    <3>4. at' = [at EXCEPT !.pc = "interval", !.paths = paths]
      BY <2>1, <2>6 DEF paths
    <3>5. at' \in Places
      BY <2>2, <3>2, <3>4 DEF Places, Phases
    <3>6. /\ at'.block = at.block /\ at'.paths = paths /\ at'.from = at.from
          /\ at'.to = at.to /\ at'.queue = at.queue /\ at'.pc = "interval" /\ InPaths'
      BY <2>2, <3>2, <3>4 DEF Places, InPaths
    <3>7. /\ SoundInv' /\ UnmarkedInv' /\ BlocksInv' /\ Here' = Here
          /\ Rows(best, at.block)' /\ Fits(best)'
          /\ \A b : WholeBytes(b)' = WholeBytes(b) /\ Reachable(b)' = Reachable(b)
      BY <2>1, <2>2, <2>4, <3>5, <3>6, MoveIs
    <3>8. PlaceInv'
      BY <1>2, <2>1, <2>2, <2>4, <2>6, <3>1, <3>2, <3>5, <3>6, <3>7, StepIs
      DEF Ind, PlaceInv, Outside, OfInterval, Step
    <3>9. BestInv'
      <4>1. /\ best \in BlockChoices /\ best.bytes <= LiteralBytes[Here]
            /\ best.bytes \in {LiteralBytes[Here]} \cup WholeBytes(at.block)
            /\ \A n \in WholeBytes(at.block) : best.bytes <= n
            /\ best.rows # <<0>>
        BY <2>1, <2>2 DEF Ind, BestInv, Rows, Outside
      <4> QED
        BY <2>1, <3>6, <3>7, <4>1 DEF BestInv
    <3>10. EdgeInv' /\ ResultInv'
      BY <3>6 DEF EdgeInv, ResultInv, OfInterval
    <3>11. PathInv'
      <4>1. \A k \in 0..Here : \A i \in DOMAIN at'.paths[k + 1] : k = 0 /\ at'.paths[k + 1][i] = <<>>
        BY <3>3, <3>6
      <4>2. Made(<<>>, 0, at.block, session.ledger)'
        BY DEF Made, Walk, Priced
      <4> QED
        BY <3>7, <4>1, <4>2 DEF PathInv
    <3>12. CoverInv'
      <4> SUFFICES ASSUME NEW k \in 0..Here, NEW w \in Seq(Pieces), Walk(w, k),
                          w # <<>> => Passed(w[Len(w)].from, w[Len(w)].to)'
                   PROVE  \E i \in DOMAIN paths[k + 1] : SameWalk(paths[k + 1][i], w)
        BY <3>6, <3>7 DEF CoverInv, Covered
      <4>1. w = <<>>
        BY <2>2, <3>6, EmptyWalk DEF Passed
      <4>2. k = 0
        BY <4>1 DEF Walk
      <4>3. SameWalk(<<>>, <<>>)
        BY DEF SameWalk
      <4> QED
        BY <3>3, <4>1, <4>2, <4>3
    <3>13. OfferInv'
      BY <2>1, <2>2, <3>6 DEF Ind, OfferInv, OfPaths, Over
    <3>14. StarvedInv'
      BY <2>4, <3>1, <3>6 DEF StarvedInv, Step
    <3> QED
      BY <3>7, <3>8, <3>9, <3>10, <3>11, <3>12, <3>13, <3>14 DEF Ind
  <2> QED
    BY <2>5, <2>6
<1> QED
  BY <1>1, <1>2

--------------------------------------------------------------------------------
(* Intervals, and the walks to their start.                                *)

(* The pieces of a walk but the last begin and end before the last.        *)
LEMMA WalkBefore ==
    ASSUME NEW w \in Seq(Pieces), NEW k, Walk(w, k), NEW i \in 1..Len(w)-1
    PROVE  w[i].from < w[i].to /\ w[i].to <= w[Len(w)].from /\ w[i].from \in Nat /\ w[i].to \in Nat
<1> DEFINE f == [j \in DOMAIN w |-> w[j].from]
           t == [j \in DOMAIN w |-> w[j].to]
           n == Len(w)
<1>1. n \in Nat /\ DOMAIN w = 1..n /\ n \in 1..n /\ i \in 1..n
  OBVIOUS
<1>2. Steps(f, t, n, 0, k)
  BY <1>1 DEF Walk
<1>3. f[n] = w[n].from /\ f[i] = w[i].from /\ t[i] = w[i].to
  BY <1>1
<1> HIDE DEF f, t, n
<1>4. t[i] <= f[n]
  BY <1>1, <1>2, StepsRise DEF n
<1>5. f[i] \in Nat /\ t[i] \in Nat /\ f[i] < t[i]
  BY <1>1, <1>2 DEF Steps
<1> QED
  BY <1>3, <1>4, <1>5 DEF n

LEMMA ButLast ==
    ASSUME NEW w \in Seq(Pieces), NEW k, Walk(w, k), w # <<>>
    PROVE  LET n == Len(w)
               v == SubSeq(w, 1, n - 1)
           IN  /\ v \in Seq(Pieces) /\ Walk(v, w[n].from) /\ Len(v) = n - 1 /\ n <= k
               /\ \A i \in 1..n-1 : v[i] = w[i]
               /\ v # <<>> => v[Len(v)].from < w[n].from
<1> DEFINE n == Len(w)
           v == SubSeq(w, 1, n - 1)
           f == [j \in DOMAIN w |-> w[j].from]
           t == [j \in DOMAIN w |-> w[j].to]
<1>1. n \in Nat \ {0} /\ DOMAIN w = 1..n
  OBVIOUS
<1>2. v \in Seq(Pieces) /\ Len(v) = n - 1 /\ \A i \in 1..n-1 : v[i] = w[i]
  BY <1>1
<1>3. Steps(f, t, n, 0, k)
  BY <1>1 DEF Walk
<1>4. \A i \in 1..n : f[i] = w[i].from /\ t[i] = w[i].to
  BY <1>1
<1> DEFINE g == [j \in DOMAIN v |-> v[j].from]
           u == [j \in DOMAIN v |-> v[j].to]
<1>5. DOMAIN v = 1..n-1
  BY <1>1, <1>2
<1>6. \A i \in 1..n-1 : g[i] = f[i] /\ u[i] = t[i]
  <2> TAKE i \in 1..n-1
  <2>1. i \in 1..n /\ i \in DOMAIN v
    BY <1>1, <1>5
  <2> QED
    BY <1>2, <1>4, <2>1
<1> HIDE DEF f, t, g, u, v, n
<1>7. n <= k
  BY <1>3, StepsAreFew
<1>8. Walk(v, w[n].from)
  <2>1. CASE n = 1
    <3>1. v = <<>>
      BY <1>2, <2>1
    <3>2. w[n].from = 0
      BY <1>1, <1>3, <1>4, <2>1 DEF Steps
    <3> QED
      BY <3>1, <3>2 DEF Walk
  <2>2. CASE n # 1
    <3>1. /\ n - 1 \in Nat \ {0} /\ \A i \in 1..n-1 : i \in 1..n
          /\ \A i \in 1..n-2 : i \in 1..n-1 /\ i + 1 \in 1..n-1
          /\ 1 \in 1..n-1 /\ n - 1 \in 1..n-1 /\ (n - 1) + 1 = n /\ (n - 1) - 1 = n - 2 /\ n \in 1..n
      BY <1>1, <2>2
    <3>2. Steps(g, u, n - 1, 0, f[n])
      BY <1>3, <1>6, <3>1 DEF Steps
    <3>3. v # <<>>
      BY <1>2, <3>1
    <3> QED
      BY <1>2, <1>4, <3>1, <3>2, <3>3 DEF Walk, g, u
  <2> QED
    BY <2>1, <2>2
<1>9. v # <<>> => v[Len(v)].from < w[n].from
  BY <1>2, <1>8, EmptyWalk
<1> QED
  BY <1>2, <1>7, <1>8, <1>9 DEF v, n

LEMMA AtStay ==
    ASSUME Ind, at.pc = "interval"
    PROVE  /\ at \in Places /\ at.pc \notin Outside /\ InPaths /\ ~session.stopped /\ at.queue = <<>>
           /\ at.from <= Here /\ at.from < at.to /\ at.to <= Here + 1
           /\ at.from \in Nat /\ at.to \in Nat /\ Here \in Nat \ {0} /\ at.block \in 1..Len(input)
           /\ Intervals # <<>> /\ Len(at.paths) = Here + 1 /\ DOMAIN at.paths = 1..Here+1
           /\ \A o \in offered : o.block = at.block /\ ~o.whole => Passed(o.from, o.to)
           /\ offered \subseteq OfferSet
           /\ \A o \in offered : 1 <= o.block /\ o.block <= at.block
           /\ best \in BlockChoices /\ best.rows # <<0>> /\ best.bytes <= LiteralBytes[Here]
           /\ best.bytes \in {LiteralBytes[Here]} \cup WholeBytes(at.block)
           /\ \A n \in WholeBytes(at.block) : best.bytes <= n
<1>1. /\ at \in Places /\ at.pc \notin Outside /\ InPaths /\ ~session.stopped /\ at.queue = <<>>
      /\ at.from <= Here /\ at.from < at.to /\ at.to <= Here + 1 /\ Intervals # <<>>
  BY DEF Ind, PlaceInv, Outside
<1>2. /\ at.from \in Nat /\ at.to \in Nat /\ Here \in Nat \ {0} /\ at.block \in 1..Len(input)
      /\ Len(at.paths) = Here + 1 /\ DOMAIN at.paths = 1..Here+1
  BY <1>1, PlaceFacts
<1>3. /\ \A o \in offered : o.block = at.block /\ ~o.whole => Passed(o.from, o.to)
      /\ offered \subseteq OfferSet
      /\ \A o \in offered : 1 <= o.block /\ o.block <= at.block
  BY DEF Ind, OfferInv, OfPaths, Over
<1>4. /\ best \in BlockChoices /\ best.rows # <<0>> /\ best.bytes <= LiteralBytes[Here]
      /\ best.bytes \in {LiteralBytes[Here]} \cup WholeBytes(at.block)
      /\ \A n \in WholeBytes(at.block) : best.bytes <= n
  BY <1>1 DEF Ind, BestInv, Outside
<1> QED
  BY <1>1, <1>2, <1>3, <1>4

(* What the three moves of NextInterval share.                             *)
LEMMA IntervalMove ==
    ASSUME Ind, config' = config, input' = input, UNCHANGED <<session, best, choices, offered>>,
           at.pc = "interval", at' \in Places, at'.block = at.block, at'.paths = at.paths,
           at'.pc \in {"interval", "try", "paths"}
    PROVE  /\ SoundInv' /\ UnmarkedInv' /\ BlocksInv' /\ BestInv' /\ PathInv' /\ StarvedInv' /\ ResultInv'
           /\ InPaths' /\ Here' = Here /\ Step
           /\ \A b, f, t : PieceBytes(b, f, t)' = PieceBytes(b, f, t)
<1>1. Step
  BY SessionStays
<1>2. /\ at.pc \notin Outside /\ InPaths /\ best \in BlockChoices /\ best.rows # <<0>>
      /\ best.bytes <= LiteralBytes[Here] /\ best.bytes \in {LiteralBytes[Here]} \cup WholeBytes(at.block)
      /\ \A n \in WholeBytes(at.block) : best.bytes <= n
  BY AtStay
<1>3. /\ SoundInv' /\ UnmarkedInv' /\ BlocksInv' /\ Here' = Here
      /\ Rows(best, at.block)' /\ Fits(best)'
      /\ \A b : WholeBytes(b)' = WholeBytes(b) /\ Reachable(b)' = Reachable(b)
      /\ \A b, f, t : PieceBytes(b, f, t)' = PieceBytes(b, f, t)
  BY <1>1, <1>2, MoveIs
<1>4. InPaths' /\ ResultInv'
  BY <1>2 DEF InPaths, ResultInv
<1>5. BestInv'
  BY <1>2, <1>3, <1>4 DEF BestInv
<1>6. PathInv'
  BY <1>1, PathsStay DEF OfPaths
<1>7. StarvedInv'
  BY <1>3, <1>4, <1>2 DEF Ind, StarvedInv, Over
<1> QED
  BY <1>1, <1>3, <1>4, <1>5, <1>6, <1>7

LEMMA NextIntervalStep ==
    ASSUME Ind, config' = config, input' = input, NextInterval
    PROVE  Ind'
<1>1. /\ at.pc = "interval" /\ UNCHANGED <<session, best, choices, offered>>
      /\ at' = IF at.from = Here THEN [at EXCEPT !.pc = "paths"]
               ELSE IF Expandable = <<>> \/ at.to > Here
                    THEN [at EXCEPT !.from = @ + 1, !.to = at.from + 2]
               ELSE [at EXCEPT !.pc = "try", !.provider = 0, !.edges = <<>>,
                               !.queue = <<Literal(at.to - at.from)>>]
  BY DEF NextInterval
<1>2. /\ at \in Places /\ at.pc \notin Outside /\ InPaths /\ ~session.stopped /\ at.queue = <<>>
      /\ at.from <= Here /\ at.from < at.to /\ at.to <= Here + 1
      /\ at.from \in Nat /\ at.to \in Nat /\ Here \in Nat \ {0} /\ at.block \in 1..Len(input)
      /\ Intervals # <<>> /\ Len(at.paths) = Here + 1
      /\ \A o \in offered : o.block = at.block /\ ~o.whole => Passed(o.from, o.to)
      /\ offered \subseteq OfferSet
      /\ \A o \in offered : 1 <= o.block /\ o.block <= at.block
  BY <1>1, AtStay
<1>3. CASE at.from = Here
  <2>1. at' = [at EXCEPT !.pc = "paths"]
    BY <1>1, <1>3
  <2>2. /\ at' \in Places /\ at'.block = at.block /\ at'.paths = at.paths /\ at'.from = at.from
        /\ at'.to = at.to /\ at'.queue = at.queue /\ at'.pc = "paths"
    BY <1>2, <2>1 DEF Places, Phases
  <2>3. /\ SoundInv' /\ UnmarkedInv' /\ BlocksInv' /\ BestInv' /\ PathInv' /\ StarvedInv' /\ ResultInv'
        /\ InPaths' /\ Here' = Here /\ Step
        /\ \A b, f, t : PieceBytes(b, f, t)' = PieceBytes(b, f, t)
    BY <1>1, <2>2, IntervalMove
  <2>4. PlaceInv'
    BY <1>1, <1>2, <1>3, <2>2, <2>3, StepIs DEF Ind, PlaceInv, Outside, OfInterval
  <2>5. EdgeInv'
    BY <2>2 DEF EdgeInv, OfInterval
  <2>6. \A f, t : Passed(f, t)' <=> Passed(f, t)
    BY <2>2 DEF Passed
  <2>7. CoverInv'
    BY <1>1, <2>2, <2>3, <2>6 DEF Ind, CoverInv, Covered, Priced, OfPaths, InPaths
  <2>8. OfferInv'
    BY <1>1, <1>2, <2>2, <2>3, <2>6 DEF OfferInv, OfPaths
  <2> QED
    BY <2>3, <2>4, <2>5, <2>7, <2>8 DEF Ind
<1>4. CASE at.from # Here /\ (Expandable = <<>> \/ at.to > Here)
  <2>1. at' = [at EXCEPT !.from = @ + 1, !.to = at.from + 2]
    BY <1>1, <1>4
  <2>2. /\ at' \in Places /\ at'.block = at.block /\ at'.paths = at.paths /\ at'.from = at.from + 1
        /\ at'.to = at.from + 2 /\ at'.queue = at.queue /\ at'.pc = "interval"
    <3>1. at.from + 1 \in Nat /\ at.from + 2 \in Nat
      BY <1>2
    <3> QED
      BY <1>1, <1>2, <2>1, <3>1 DEF Places
  <2>3. /\ SoundInv' /\ UnmarkedInv' /\ BlocksInv' /\ BestInv' /\ PathInv' /\ StarvedInv' /\ ResultInv'
        /\ InPaths' /\ Here' = Here /\ Step
        /\ \A b, f, t : PieceBytes(b, f, t)' = PieceBytes(b, f, t)
    BY <1>1, <2>2, IntervalMove
  <2>4. PlaceInv'
    BY <1>1, <1>2, <1>4, <2>2, <2>3, StepIs DEF Ind, PlaceInv, Outside, OfInterval
  <2>5. EdgeInv'
    BY <2>2 DEF EdgeInv, OfInterval
  <2>6. OfferInv'
    <3>1. ASSUME NEW o \in offered, o.block = at.block, ~o.whole PROVE Passed(o.from, o.to)'
      <4>1. Passed(o.from, o.to) /\ o.from \in Nat
        BY <1>2, <3>1 DEF OfferSet
      <4> QED
        BY <1>2, <2>2, <4>1 DEF Passed
    <3> QED
      BY <1>1, <1>2, <2>2, <2>3, <3>1 DEF OfferInv
  <2>7. CoverInv'
    <3> SUFFICES ASSUME session.complete, Here <= config.segments, NEW k \in 0..Here, NEW w \in Seq(Pieces),
                        Walk(w, k), Priced(w, at.block),
                        w # <<>> => Passed(w[Len(w)].from, w[Len(w)].to)'
                 PROVE  \E i \in DOMAIN at.paths[k + 1] : SameWalk(at.paths[k + 1][i], w)
      BY <1>1, <2>2, <2>3 DEF CoverInv, Covered, Priced, Step
    <3>1. \A l \in 0..Here : \A v \in Seq(Pieces) :
            Walk(v, l) /\ Priced(v, at.block) /\ (v # <<>> => Passed(v[Len(v)].from, v[Len(v)].to)) =>
              \E i \in DOMAIN at.paths[l + 1] : SameWalk(at.paths[l + 1][i], v)
      BY <1>1, <1>2 DEF Ind, CoverInv, Covered, OfPaths
    <3>2. CASE w = <<>> \/ Passed(w[Len(w)].from, w[Len(w)].to)
      BY <3>1, <3>2
    <3>3. CASE w # <<>> /\ ~Passed(w[Len(w)].from, w[Len(w)].to)
      <4> DEFINE n == Len(w)
                 v == SubSeq(w, 1, n - 1)
      <4>1. /\ n \in Nat \ {0} /\ w[n].to = k /\ w[n].from < k /\ w[n].from \in Nat
        BY <3>3, EmptyWalk
      <4>2. w[n].from = at.from /\ ~(at.to > Here)
        BY SMTT(40), <1>2, <2>2, <3>3, <4>1 DEF Passed
      <4>3. Expandable = <<>>
        BY <1>4, <4>2
      <4>4. /\ v \in Seq(Pieces) /\ Walk(v, at.from) /\ Priced(v, at.block) /\ Len(v) < Here
            /\ v # <<>> => Passed(v[Len(v)].from, v[Len(v)].to)
        <5>1. /\ v \in Seq(Pieces) /\ Walk(v, w[n].from) /\ Len(v) = n - 1 /\ n <= k
              /\ \A i \in 1..n-1 : v[i] = w[i]
              /\ v # <<>> => v[Len(v)].from < w[n].from
          BY <3>3, ButLast
        <5> HIDE DEF v, n
        <5>2. Priced(v, at.block)
          <6> SUFFICES ASSUME NEW i \in DOMAIN v
                       PROVE  v[i].bytes \in PieceBytes(at.block, v[i].from, v[i].to)
            BY DEF Priced
          <6>1. i \in 1..n-1
            BY <5>1
          <6>2. i \in DOMAIN w
            BY <4>1, <6>1 DEF n
          <6> QED
            BY <5>1, <6>1, <6>2 DEF Priced
        <5>3. Len(v) < Here
          BY <1>2, <4>1, <5>1
        <5>4. v # <<>> => Passed(v[Len(v)].from, v[Len(v)].to)
          BY <4>2, <5>1 DEF Passed
        <5> QED
          BY <4>2, <5>1, <5>2, <5>3, <5>4
      <4> HIDE DEF v, n
      <4>5. PICK i \in DOMAIN at.paths[at.from + 1] : SameWalk(at.paths[at.from + 1][i], v)
        <5>1. at.from \in 0..Here
          BY <1>2
        <5> QED
          BY <3>1, <4>4, <5>1
      <4>6. Len(at.paths[at.from + 1][i]) < config.segments
        <5>1. config \in SearchConfigs
          BY PlaceFacts
        <5>2. config.segments \in Nat
          BY <5>1, CapsAssumption
        <5>3. Len(v) \in Nat
          BY <4>4
        <5> QED
          BY <1>2, <4>4, <4>5, <5>2, <5>3 DEF SameWalk
      <4>7. at.paths[at.from + 1] \in Seq(Seq(ProvidedCandidates))
        <5>1. at.from + 1 \in DOMAIN at.paths
          BY <1>2, PlaceFacts
        <5> QED
          BY <5>1, PlaceFacts
      <4>8. \E j \in DOMAIN Expandable : TRUE
        BY <4>6, <4>7, ExpandableIs
      <4> QED
        BY <4>3, <4>8
    <3> QED
      BY <3>2, <3>3
  <2> QED
    BY <2>3, <2>4, <2>5, <2>6, <2>7 DEF Ind
<1>5. CASE at.from # Here /\ ~(Expandable = <<>> \/ at.to > Here)
  <2> DEFINE c == Literal(at.to - at.from)
  <2>1. /\ at' = [at EXCEPT !.pc = "try", !.provider = 0, !.edges = <<>>, !.queue = <<c>>]
        /\ at.to <= Here
    BY <1>1, <1>2, <1>5
  <2>2. c \in ProvidedCandidates /\ c.bytes = LiteralBytes[at.to - at.from]
    <3>1. at.to - at.from \in 0..input[at.block]
      BY <1>2, <2>1 DEF Here
    <3>2. LiteralBytes[at.to - at.from] \in Nat
      BY <1>2, <3>1, BlockFacts, PlaceFacts
    <3> QED
      BY <3>2, BytesAssumption DEF Literal, ProvidedCandidates
  <2> HIDE DEF c
  <2>3. /\ at' \in Places /\ at'.block = at.block /\ at'.paths = at.paths /\ at'.from = at.from
        /\ at'.to = at.to /\ at'.queue = <<c>> /\ at'.edges = <<>> /\ at'.pc = "try"
    <3>1. <<c>> \in Seq(ProvidedCandidates) /\ <<>> \in Seq(ProvidedCandidates) /\ 0 \in Nat /\ "try" \in Phases
      BY <2>2 DEF Phases
    <3>2. at' \in Places
      BY <1>2, <2>1, <3>1 DEF Places
    <3>3. DOMAIN at = {"pc", "block", "provider", "queue", "from", "to", "edges", "paths"}
      BY <1>2 DEF Places
    <3> QED
      BY <2>1, <3>2, <3>3
  <2>4. /\ SoundInv' /\ UnmarkedInv' /\ BlocksInv' /\ BestInv' /\ PathInv' /\ StarvedInv' /\ ResultInv'
        /\ InPaths' /\ Here' = Here /\ Step
        /\ \A b, f, t : PieceBytes(b, f, t)' = PieceBytes(b, f, t)
    BY <1>1, <2>3, IntervalMove
  <2>5. PlaceInv'
    BY <1>1, <1>2, <1>5, <2>1, <2>3, <2>4, StepIs DEF Ind, PlaceInv, Outside, OfInterval
  <2>6. \A f, t : Passed(f, t)' <=> Passed(f, t)
    BY <2>3 DEF Passed
  <2>7. OfferInv'
    BY <1>1, <1>2, <2>3, <2>4, <2>6 DEF OfferInv, OfPaths
  <2>8. CoverInv'
    BY <1>1, <2>3, <2>4, <2>6 DEF Ind, CoverInv, Covered, Priced, OfPaths, InPaths
  <2>9. EdgeInv'
    <3>1. \A o \in offered : ~(o.block = at.block /\ ~o.whole /\ o.from = at.from /\ o.to = at.to)
      BY <1>2 DEF Passed
    <3>2. PieceBytes(at.block, at.from, at.to) = {c.bytes}
      BY <2>2, <3>1 DEF PieceBytes
    <3>3. DOMAIN <<>> = {} /\ DOMAIN <<c>> = {1} /\ <<c>>[1] = c
      OBVIOUS
    <3>4. PieceBytes(at.block, at.from, at.to)' = {c.bytes}
      BY <2>3, <2>4, <3>2
    <3> QED
      BY <2>3, <3>3, <3>4 DEF EdgeInv
  <2> QED
    BY <2>4, <2>5, <2>7, <2>8, <2>9 DEF Ind
<1> QED
  BY <1>3, <1>4, <1>5

--------------------------------------------------------------------------------
(* A provider is asked.                                                    *)

LEMMA SearchFacts ==
    ASSUME Ind, at.pc = "search"
    PROVE  /\ at \in Places /\ ~session.stopped /\ at.queue = <<>> /\ at.block \in 1..Len(input)
           /\ From \in 0..Here /\ To \in 1..Here /\ From < To /\ To - From \in 1..Here
           /\ Providers[at.provider] \in DOMAIN Offers /\ at.from \in Nat /\ at.to \in Nat
           /\ Here \in Nat \ {0} /\ Start(at.block) \in Nat
           /\ Offers[Providers[at.provider]][To - From] \subseteq ProviderSearches
           /\ InPaths => From = at.from /\ To = at.to
           /\ ~InPaths => From = 0 /\ To = Here
           /\ InBlock \in BOOLEAN /\ (InBlock <=> ~InPaths)
<1>1. /\ at \in Places /\ ~session.stopped /\ at.queue = <<>>
      /\ InPaths => at.from < at.to /\ at.to <= Here
      /\ at.provider \in DOMAIN Providers
  BY DEF Ind, PlaceInv, OfInterval
<1>2. /\ at.block \in 1..Len(input) /\ Here \in Nat \ {0} /\ input \in SearchInputs
      /\ at.from \in Nat /\ at.to \in Nat
  BY PlaceFacts DEF Outside
<1>3. InBlock \in BOOLEAN /\ (InBlock <=> ~InPaths)
  BY DEF InBlock, InPaths
<1>4. From = (IF InPaths THEN at.from ELSE 0) /\ To = IF InPaths THEN at.to ELSE Here
  BY <1>3 DEF From, To
<1>5. From \in 0..Here /\ To \in 1..Here /\ From < To /\ To - From \in 1..Here
  BY <1>1, <1>2, <1>4
<1>6. Start(at.block) \in Nat /\ To - From \in Lengths \ {0}
  BY <1>2, <1>5, BlockFacts DEF Here
<1>7. Providers[at.provider] \in DOMAIN Offers
  <2>1. Providers \in Seq(DOMAIN Offers)
    BY OffersAssumption DEF Providers
  <2> QED
    BY <1>1, <2>1
<1>8. Offers[Providers[at.provider]][To - From] \subseteq ProviderSearches
  BY <1>6, <1>7, OffersAssumption
<1> QED
  BY <1>1, <1>2, <1>3, <1>4, <1>5, <1>6, <1>7, <1>8

LEMMA AnswerIs ==
    ASSUME Ind, at.pc = "search", NEW r \in Answers(Providers[at.provider], To - From)
    PROVE  /\ r \in ProviderSearches /\ session.work + r.work <= config.work
           /\ r.candidates \in Seq(ProvidedCandidates)
<1>1. session.work \in Nat /\ session.work <= config.work
  BY DEF Ind, SoundInv, Sound, Sessions
<1>2. BudgetStop \in ProviderSearches /\ session.work + BudgetStop.work <= config.work
  BY <1>1 DEF BudgetStop, ProviderSearches
<1>3. Offers[Providers[at.provider]][To - From] \subseteq ProviderSearches
  BY SearchFacts
<1>4. r = BudgetStop \/ (r \in Offers[Providers[at.provider]][To - From] /\ session.work + r.work <= config.work)
  BY DEF Answers
<1>5. r \in ProviderSearches /\ session.work + r.work <= config.work
  BY <1>2, <1>3, <1>4
<1> QED
  BY <1>5 DEF ProviderSearches

(* The places that the search has passed have their offers.                *)
LEMMA CoverStays ==
    ASSUME Ind, Step, InPaths, at.pc \in OfPaths, at'.paths = at.paths, at'.block = at.block,
           at'.from = at.from, at'.to = at.to,
           \A f, t : Passed(f, t) => PieceBytes(at.block, f, t)' = PieceBytes(at.block, f, t)
    PROVE  CoverInv'
<1> SUFFICES ASSUME session.complete, Here <= config.segments, NEW k \in 0..Here, NEW w \in Seq(Pieces),
                    Walk(w, k), Priced(w, at.block)', w # <<>> => Passed(w[Len(w)].from, w[Len(w)].to)
             PROVE  \E i \in DOMAIN at.paths[k + 1] : SameWalk(at.paths[k + 1][i], w)
  <2>1. \A f, t : Passed(f, t)' <=> Passed(f, t)
    BY DEF Passed
  <2>2. Here' = Here
    BY DEF Here, Step
  <2>3. session'.complete => session.complete
    BY DEF Step, Grows
  <2> QED
    BY <2>1, <2>2, <2>3 DEF CoverInv, Covered, Step
<1>1. Priced(w, at.block)
  <2> SUFFICES ASSUME NEW i \in DOMAIN w
               PROVE  w[i].bytes \in PieceBytes(at.block, w[i].from, w[i].to)
    BY DEF Priced
  <2>1. Passed(w[i].from, w[i].to)
    <3>1. i \in 1..Len(w) /\ Len(w) \in Nat /\ w # <<>>
      OBVIOUS
    <3>2. CASE i = Len(w)
      BY <3>1, <3>2
    <3>3. CASE i # Len(w)
      <4>1. i \in 1..Len(w)-1
        BY <3>1, <3>3
      <4>2. w[i].from < w[i].to /\ w[i].to <= w[Len(w)].from /\ w[i].from \in Nat /\ w[i].to \in Nat
        BY <4>1, WalkBefore
      <4>3. w[Len(w)].from \in Nat /\ at.from \in Nat
        BY <3>1, EmptyWalk, PlaceFacts
      <4> QED
        BY <3>1, <4>2, <4>3 DEF Passed
    <3> QED
      BY <3>2, <3>3
  <2>2. w[i].bytes \in PieceBytes(at.block, w[i].from, w[i].to)'
    BY DEF Priced
  <2> QED
    BY <2>1, <2>2
<1> QED
  BY <1>1 DEF Ind, CoverInv, Covered

LEMMA AskStep ==
    ASSUME Ind, config' = config, input' = input, at.pc = "search", ~Room(session).stopped,
           UNCHANGED <<best, choices>>,
           NEW r \in Answers(Providers[at.provider], To - From),
           session' = Answered(session, r, Start(at.block) + From, Start(at.block) + To),
           at' = [at EXCEPT !.pc = "try", !.queue = r.candidates],
           offered' = offered \cup {Offer(c) : c \in ToSet(r.candidates)}
    PROVE  Ind'
<1> DEFINE q == r.candidates
           b == at.block
<1>1. /\ at \in Places /\ ~session.stopped /\ at.queue = <<>> /\ b \in 1..Len(input)
      /\ From \in 0..Here /\ To \in 1..Here /\ From < To
      /\ Here \in Nat \ {0} /\ Start(b) \in Nat
      /\ InPaths => From = at.from /\ To = at.to
      /\ InBlock \in BOOLEAN /\ (InBlock <=> ~InPaths)
      /\ at.from \in Nat /\ at.to \in Nat
  BY SearchFacts
<1>2. r \in ProviderSearches /\ session.work + r.work <= config.work /\ q \in Seq(ProvidedCandidates)
  BY AnswerIs
<1>3. Start(b) + From \in Nat /\ Start(b) + To \in Nat
  BY <1>1
<1>4. Sound(session') /\ Grows(session, session') /\ ~session'.stopped /\ session'.states = session.states
  BY <1>2, <1>3, AnsweredIs, PlaceFacts DEF Ind, SoundInv
<1>5. Step
  BY <1>4 DEF Step
<1>6. SoundInv' /\ UnmarkedInv' /\ at.pc \notin Outside /\ at.pc \notin Over /\ at.pc \in OfPaths
      /\ at.pc \in OfInterval
  BY <1>5, StepIs, StepUnmarked DEF Outside, Over, OfPaths, OfInterval
<1>7. /\ at' \in Places /\ at'.block = b /\ at'.paths = at.paths /\ at'.from = at.from
      /\ at'.to = at.to /\ at'.queue = q /\ at'.edges = at.edges /\ at'.pc = "try"
  BY <1>1, <1>2 DEF Places, Phases
<1>8. Here' = Here /\ (InPaths' <=> InPaths)
  BY <1>5, <1>7 DEF Here, Step, InPaths
<1>9. PlaceInv'
  BY <1>1, <1>4, <1>5, <1>6, <1>7, <1>8, StepIs DEF Ind, PlaceInv, Outside, OfInterval, Step
<1>10. DOMAIN q = 1..Len(q) /\ ToSet(q) = {q[i] : i \in DOMAIN q} /\ \A i \in DOMAIN q : q[i] \in ProvidedCandidates
  BY <1>2 DEF ToSet
<1>11. ASSUME NEW c
       PROVE  /\ Offer(c).block = b /\ Offer(c).from = From /\ Offer(c).to = To
              /\ Offer(c).whole = InBlock /\ Offer(c).candidate = c
  BY DEF Offer
<1>12. /\ \A i \in DOMAIN q : Offer(q[i]) \in offered'
       /\ \A o \in offered' : o \in offered \/ \E i \in DOMAIN q : o = Offer(q[i])
       /\ offered \subseteq offered'
  BY <1>10
<1>13. /\ \A n \in WholeBytes(b)' : n \in WholeBytes(b) \/ (~InPaths /\ \E i \in DOMAIN q : n = q[i].bytes)
       /\ ~InPaths => \A i \in DOMAIN q : q[i].bytes \in WholeBytes(b)'
       /\ WholeBytes(b) \subseteq WholeBytes(b)'
  <2>1. ASSUME NEW n \in WholeBytes(b)'
        PROVE  n \in WholeBytes(b) \/ (~InPaths /\ \E i \in DOMAIN q : n = q[i].bytes)
    <3>1. PICK o \in offered' : o.block = b /\ o.whole /\ n = o.candidate.bytes
      BY <1>7 DEF WholeBytes
    <3> QED
      BY <1>1, <1>11, <1>12, <3>1 DEF WholeBytes
  <2>2. ASSUME ~InPaths, NEW i \in DOMAIN q PROVE q[i].bytes \in WholeBytes(b)'
    <3>1. PICK o : o = Offer(q[i])
      OBVIOUS
    <3>2. o \in offered' /\ o.block = b /\ o.candidate = q[i]
      BY <1>11, <1>12, <3>1
    <3>3. o.whole
      BY <1>1, <1>11, <2>2, <3>1
    <3>4. o.block = at'.block /\ q[i].bytes = o.candidate.bytes
      BY <1>7, <3>2
    <3> HIDE DEF q
    <3> QED
      BY <3>2, <3>3, <3>4 DEF WholeBytes
  <2>3. \A d : WholeBytes(d) \subseteq WholeBytes(d)'
    BY <1>5, <1>12, OffersGrow DEF Step
  <2> QED
    BY <1>7, <2>1, <2>2, <2>3
<1>14. ASSUME NEW f, NEW t, NEW n \in PieceBytes(b, f, t)'
       PROVE  \/ n \in PieceBytes(b, f, t)
              \/ InPaths /\ f = at.from /\ t = at.to /\ \E i \in DOMAIN q : n = q[i].bytes
  <2>1. CASE n = LiteralBytes[t - f]
    BY <2>1 DEF PieceBytes
  <2>2. CASE n # LiteralBytes[t - f]
    <3>1. PICK o \in offered' : /\ o.block = b /\ ~o.whole /\ o.from = f /\ o.to = t
                                /\ n = o.candidate.bytes
      BY <1>7, <2>2 DEF PieceBytes
    <3> QED
      BY <1>1, <1>11, <1>12, <3>1 DEF PieceBytes
  <2> QED
    BY <2>1, <2>2
<1>15. /\ InPaths => \A i \in DOMAIN q : q[i].bytes \in PieceBytes(b, at.from, at.to)'
       /\ \A f, t : PieceBytes(b, f, t) \subseteq PieceBytes(b, f, t)'
  <2>1. ASSUME InPaths, NEW i \in DOMAIN q PROVE q[i].bytes \in PieceBytes(b, at.from, at.to)'
    BY <1>1, <1>7, <1>11, <1>12, <2>1 DEF PieceBytes
  <2>2. \A d, f, t : PieceBytes(d, f, t) \subseteq PieceBytes(d, f, t)'
    BY <1>5, <1>12, OffersGrow DEF Step
  <2> QED
    BY <1>7, <2>1, <2>2
<1>16. BlocksInv'
  BY <1>5, <1>6, <1>7, <1>11, <1>12, BlocksStay
<1>17. BestInv'
  <2>1. /\ best \in BlockChoices /\ Rows(best, b) /\ (InPaths => best.rows # <<0>>)
        /\ Fits(best) /\ best.bytes <= LiteralBytes[Here]
        /\ best.bytes \in {LiteralBytes[Here]} \cup WholeBytes(b)
        /\ \A n \in WholeBytes(b) : best.bytes <= n
    BY <1>1, <1>6 DEF Ind, BestInv
  <2>2. Rows(best, b)' /\ Fits(best)'
    BY <1>5, <1>7, <2>1, RowsStay, StepIs
  <2>3. \A n \in WholeBytes(b)' : best.bytes <= n \/ (~InPaths /\ \E i \in DOMAIN q : n = q[i].bytes)
    BY <1>13, <2>1
  <2>4. (best.bytes \in {LiteralBytes[Here]} \cup WholeBytes(b))'
    BY <1>8, <1>13, <2>1
  <2> QED
    BY <1>7, <1>8, <2>1, <2>2, <2>3, <2>4 DEF BestInv
<1>18. EdgeInv'
  <2> SUFFICES ASSUME InPaths PROVE EdgeInv'
    BY <1>8 DEF EdgeInv
  <2>1. /\ \A i \in DOMAIN at.edges :
             /\ at.edges[i].from = at.from /\ at.edges[i].to = at.to
             /\ Audited(at.edges[i], b, session.ledger)
             /\ at.edges[i].bytes \in PieceBytes(b, at.from, at.to)
        /\ session.complete =>
             \A n \in PieceBytes(b, at.from, at.to) : \E i \in DOMAIN at.edges : n = at.edges[i].bytes
    BY <1>1, <1>6 DEF Ind, EdgeInv
  <2>2. \A c, d : Audited(c, d, session.ledger) => Audited(c, d, session.ledger)'
    BY <1>5, StepIs
  <2>complete. session'.complete => session.complete
    BY <1>4 DEF Grows
  <2>4. \A n \in PieceBytes(b, at.from, at.to)' :
          n \in PieceBytes(b, at.from, at.to) \/ \E i \in DOMAIN q : n = q[i].bytes
    BY <1>7, <1>14
  <2>5. \A i \in DOMAIN at.edges : at.edges[i].bytes \in PieceBytes(b, at.from, at.to)'
    BY <1>7, <1>15, <2>1
  <2>6. \A i \in DOMAIN q : q[i].bytes \in PieceBytes(b, at.from, at.to)'
    BY <1>15
  <2> QED
    BY <1>7, <2>1, <2>2, <2>complete, <2>4, <2>5, <2>6 DEF EdgeInv
<1>19. PathInv'
  BY <1>5, <1>6, <1>7, <1>12, PathsStay
<1>20. CoverInv'
  <2>1. CASE InPaths
    <3>1. ASSUME NEW f, NEW t, Passed(f, t) PROVE PieceBytes(b, f, t)' = PieceBytes(b, f, t)
      <4>1. ~(f = at.from /\ t = at.to)
        BY <1>1, <3>1 DEF Passed
      <4>2. PieceBytes(b, f, t)' \subseteq PieceBytes(b, f, t)
        BY <1>14, <4>1
      <4>3. PieceBytes(b, f, t) \subseteq PieceBytes(b, f, t)'
        BY <1>15
      <4> QED
        BY <4>2, <4>3
    <3> QED
      BY <1>5, <1>6, <1>7, <2>1, <3>1, CoverStays
  <2>2. CASE ~InPaths
    BY <1>8, <2>2 DEF CoverInv, Covered
  <2> QED
    BY <2>1, <2>2
<1>21. OfferInv'
  <2>1. offered' \subseteq OfferSet
    <3>1. ASSUME NEW i \in DOMAIN q PROVE Offer(q[i]) \in OfferSet
      BY SMTT(40), <1>1, <1>10 DEF Offer, OfferSet
    <3> QED
      BY <1>6, <1>12, <3>1 DEF Ind, OfferInv
  <2>2. \A f, t : Passed(f, t)' <=> Passed(f, t)
    BY <1>7 DEF Passed
  <2>3. ASSUME NEW o \in offered'
        PROVE  /\ 1 <= o.block /\ o.block <= b
               /\ o.block = b /\ ~o.whole =>
                    InPaths /\ (Passed(o.from, o.to) \/ (o.from = at.from /\ o.to = at.to))
    <3>1. CASE o \in offered
      BY <1>6, <3>1 DEF Ind, OfferInv
    <3>2. CASE o \notin offered
      BY <1>1, <1>11, <1>12, <3>2
    <3> QED
      BY <3>1, <3>2
  <2>4. ~InPaths => \A i \in DOMAIN q : q[i].bytes \in WholeBytes(b)'
    BY <1>13
  <2> QED
    BY <1>7, <1>8, <2>1, <2>2, <2>3, <2>4 DEF OfferInv
<1>22. StarvedInv'
  <2> SUFFICES ASSUME Len(input) = 1, session.states > 0 PROVE at.block = 1 /\ InPaths
    BY <1>4, <1>5, <1>7, <1>8 DEF StarvedInv, Step
  <2> QED
    BY <1>1, <1>6 DEF Ind, StarvedInv
<1>23. ResultInv'
  BY <1>7 DEF ResultInv
<1> QED
  BY <1>6, <1>9, <1>16, <1>17, <1>18, <1>19, <1>20, <1>21, <1>22, <1>23 DEF Ind

LEMMA SearchStep ==
    ASSUME Ind, config' = config, input' = input, Search
    PROVE  Ind'
<1>1. at.pc = "search" /\ UNCHANGED <<best, choices>>
  BY DEF Search
<1>2. CASE Room(session).stopped
  <2>1. /\ session' = Room(session) /\ offered' = offered /\ at' = [at EXCEPT !.pc = OnStop]
    BY <1>2 DEF Search, GoTo
  <2>2. Sound(session') /\ Grows(session, session') /\ session'.states = session.states
    BY <2>1, RoomIs, PlaceFacts DEF Ind, SoundInv, SameCounts
  <2>3. Step
    BY <2>2 DEF Step
  <2> QED
    BY <1>1, <1>2, <2>1, <2>2, <2>3, StopStep
<1>3. CASE ~Room(session).stopped
  <2>1. PICK r \in Answers(Providers[at.provider], To - From) :
          /\ session' = Answered(session, r, Start(at.block) + From, Start(at.block) + To)
          /\ at' = [at EXCEPT !.pc = "try", !.queue = r.candidates]
          /\ offered' = offered \cup {Offer(c) : c \in ToSet(r.candidates)}
    BY <1>3 DEF Search, Answered, RowHere
  <2> QED
    BY ZenonT(60), <1>1, <1>3, <2>1, AskStep
<1> QED
  BY SMTT(40), <1>2, <1>3

--------------------------------------------------------------------------------
(* A candidate is tried.                                                   *)

LEMMA TryFacts ==
    ASSUME Ind, at.pc = "try"
    PROVE  /\ at \in Places /\ ~session.stopped /\ at.block \in 1..Len(input)
           /\ From \in 0..Here /\ To \in 1..Here /\ From < To
           /\ at.from \in Nat /\ at.to \in Nat /\ Here \in Nat \ {0} /\ Start(at.block) \in Nat
           /\ Here = input[at.block]
           /\ InPaths => From = at.from /\ To = at.to
           /\ ~InPaths => From = 0 /\ To = Here
           /\ InBlock \in BOOLEAN /\ (InBlock <=> ~InPaths)
           /\ at.queue \in Seq(ProvidedCandidates) /\ at.edges \in Seq(ProvidedCandidates)
<1>1. /\ at \in Places /\ ~session.stopped
      /\ InPaths => at.from < at.to /\ at.to <= Here
  BY DEF Ind, PlaceInv, OfInterval
<1>2. /\ at.block \in 1..Len(input) /\ Here \in Nat \ {0} /\ input \in SearchInputs
      /\ at.from \in Nat /\ at.to \in Nat
      /\ at.queue \in Seq(ProvidedCandidates) /\ at.edges \in Seq(ProvidedCandidates)
  BY PlaceFacts DEF Outside
<1>3. InBlock \in BOOLEAN /\ (InBlock <=> ~InPaths)
  BY DEF InBlock, InPaths
<1>4. From = (IF InPaths THEN at.from ELSE 0) /\ To = IF InPaths THEN at.to ELSE Here
  BY <1>3 DEF From, To
<1>5. From \in 0..Here /\ To \in 1..Here /\ From < To
  BY <1>1, <1>2, <1>4
<1>6. Start(at.block) \in Nat
  BY <1>2, BlockFacts
<1> QED
  BY <1>1, <1>2, <1>3, <1>4, <1>5, <1>6 DEF Here

(* The candidate that is tried.                                            *)
Tried == [Head(at.queue) EXCEPT !.from = From, !.to = To]

LEMMA TriedIs ==
    ASSUME Ind, at.pc = "try", at.queue # <<>>
    PROVE  /\ Tried \in ProvidedCandidates /\ Tried.from = From /\ Tried.to = To
           /\ Tried.bytes = at.queue[1].bytes
           /\ 1 \in DOMAIN at.queue /\ DOMAIN at.queue = 1..Len(at.queue) /\ Len(at.queue) \in Nat
           /\ Tail(at.queue) \in Seq(ProvidedCandidates)
           /\ DOMAIN Tail(at.queue) = 1..Len(at.queue)-1
           /\ \A i \in DOMAIN at.queue : i # 1 => i - 1 \in DOMAIN Tail(at.queue)
                                                  /\ Tail(at.queue)[i - 1] = at.queue[i]
           /\ \A i \in DOMAIN Tail(at.queue) : i + 1 \in DOMAIN at.queue
                                               /\ Tail(at.queue)[i] = at.queue[i + 1]
<1>1. at.queue \in Seq(ProvidedCandidates) /\ From \in Nat /\ To \in Nat
  BY TryFacts
<1> DEFINE q == at.queue
<1>2. q \in Seq(ProvidedCandidates) /\ q # <<>>
  BY <1>1
<1>3. Tried = [Head(q) EXCEPT !.from = From, !.to = To]
  BY DEF Tried
<1> HIDE DEF q
<1>4. Head(q) = q[1] /\ q[1] \in ProvidedCandidates /\ Len(q) \in Nat /\ DOMAIN q = 1..Len(q) /\ 1 \in DOMAIN q
  BY <1>2
<1>5. /\ Tried \in ProvidedCandidates /\ Tried.from = From /\ Tried.to = To
      /\ Tried.bytes = q[1].bytes
  BY <1>1, <1>3, <1>4 DEF ProvidedCandidates
<1>6. /\ Tail(q) \in Seq(ProvidedCandidates) /\ Len(Tail(q)) = Len(q) - 1
      /\ \A i \in 1..Len(q)-1 : Tail(q)[i] = q[i + 1]
  BY <1>2
<1>7. DOMAIN Tail(q) = 1..Len(q)-1
  BY <1>6
<1>8. \A i \in DOMAIN q : i # 1 => i - 1 \in DOMAIN Tail(q) /\ Tail(q)[i - 1] = q[i]
  <2> TAKE i \in DOMAIN q
  <2> HAVE i # 1
  <2>1. i - 1 \in 1..Len(q)-1 /\ (i - 1) + 1 = i
    BY <1>4
  <2> QED
    BY <1>6, <1>7, <2>1
<1>9. \A i \in DOMAIN Tail(q) : i + 1 \in DOMAIN q /\ Tail(q)[i] = q[i + 1]
  BY <1>4, <1>6, <1>7
<1> QED
  BY <1>4, <1>5, <1>6, <1>7, <1>8, <1>9 DEF q

(* The row of a candidate that was evaluated.                              *)
LEMMA CandidateRowIs ==
    ASSUME Ind, at.pc = "try", NEW c \in ProvidedCandidates
    PROVE  LET row == CandidateRow(c)
           IN  /\ row \in LedgerRows /\ ~row.selected /\ row.event = "Tried"
               /\ row.from = Start(at.block) + c.from /\ row.to = Start(at.block) + c.to
<1> DEFINE h == RowHere("Tried", "EvaluatedExact", c.from, c.to)
<1>1. c.from \in Nat /\ c.to \in Nat /\ c.bytes \in Nat
  BY DEF ProvidedCandidates
<1>2. /\ h \in LedgerRows /\ ~h.selected /\ h.event = "Tried"
      /\ h.from = Start(at.block) + c.from /\ h.to = Start(at.block) + c.to
  <2>1. "Tried" \in Tags /\ "EvaluatedExact" \in Reasons /\ at.pc \notin Outside
    BY DEF Tags, Reasons, Outside
  <2> QED
    BY <1>1, <2>1, RowHereIs
<1>3. CandidateRow(c) = [h EXCEPT !.bytes = c.bytes]
  BY DEF CandidateRow
<1> HIDE DEF h
<1>4. CandidateRow(c) \in LedgerRows
  BY <1>1, <1>2, <1>3 DEF LedgerRows
<1>5. DOMAIN h = {"event", "reason", "from", "to", "bytes", "selected"}
  BY <1>2 DEF LedgerRows
<1> QED
  BY <1>2, <1>3, <1>4, <1>5

Evaluated(s) == Push(s, CandidateRow(Tried))
KeptEdge(s) == [Tried EXCEPT !.row = Len(Evaluated(s).ledger)]

LEMMA KeepStep ==
    ASSUME Ind, config' = config, input' = input, at.pc = "try", at.queue # <<>>,
           NEW s, Sound(s), Grows(session, s), s.states = session.states, ~s.stopped,
           ~TooLarge(Tried), session' = Evaluated(s), ~session'.stopped,
           at' = [at EXCEPT !.queue = Tail(@), !.edges = IF InBlock THEN @ ELSE Append(@, KeptEdge(s))],
           best' = (IF InBlock /\ Better(PathChoice(<<KeptEdge(s)>>), best) THEN PathChoice(<<KeptEdge(s)>>) ELSE best),
           UNCHANGED <<choices, offered>>
    PROVE  Ind'
<1> DEFINE b == at.block
           q == at.queue
<1>1. PICK c : c = KeptEdge(s)
  OBVIOUS
<1>2. PICK n : n = Len(session'.ledger)
  OBVIOUS
<1>3. /\ at \in Places /\ ~session.stopped /\ b \in 1..Len(input)
      /\ From \in 0..Here /\ To \in 1..Here /\ From < To
      /\ at.from \in Nat /\ at.to \in Nat /\ Here \in Nat \ {0} /\ Start(b) \in Nat /\ Here = input[b]
      /\ InPaths => From = at.from /\ To = at.to
      /\ ~InPaths => From = 0 /\ To = Here
      /\ InBlock \in BOOLEAN /\ (InBlock <=> ~InPaths)
      /\ at.edges \in Seq(ProvidedCandidates)
      /\ input \in SearchInputs /\ config \in SearchConfigs
  BY TryFacts, PlaceFacts
<1>4. /\ Tried \in ProvidedCandidates /\ Tried.from = From /\ Tried.to = To /\ Tried.bytes = q[1].bytes
      /\ 1 \in DOMAIN q /\ Tail(q) \in Seq(ProvidedCandidates)
      /\ \A i \in DOMAIN q : i # 1 => i - 1 \in DOMAIN Tail(q) /\ Tail(q)[i - 1] = q[i]
      /\ \A i \in DOMAIN Tail(q) : i + 1 \in DOMAIN q /\ Tail(q)[i] = q[i + 1]
  BY TriedIs
<1> DEFINE row == CandidateRow(Tried)
<1>5. /\ row \in LedgerRows /\ ~row.selected /\ row.event = "Tried"
      /\ row.from = Start(b) + From /\ row.to = Start(b) + To
  BY <1>4, CandidateRowIs
<1>6. session' = Push(s, row)
  BY DEF Evaluated
<1> HIDE DEF row
<1>7. /\ Sound(session') /\ Grows(s, session') /\ session'.states = session.states
      /\ n = Len(s.ledger) + 1 /\ session'.ledger[n] = row
  <2>1. /\ Sound(Push(s, row)) /\ Grows(s, Push(s, row)) /\ SameCounts(s, Push(s, row))
        /\ ~Push(s, row).stopped =>
             /\ Len(Push(s, row).ledger) = Len(s.ledger) + 1
             /\ Push(s, row).ledger[Len(s.ledger) + 1] = row
    BY <1>3, <1>5, PushTried
  <2>2. ~Push(s, row).stopped /\ n = Len(Push(s, row).ledger)
    BY <1>6, <1>2
  <2> QED
    BY <1>6, <2>1, <2>2 DEF SameCounts
<1>8. s \in Sessions /\ session \in Sessions /\ session' \in Sessions /\ n \in DOMAIN session'.ledger
      /\ n \in Nat \ {0}
  BY <1>7, <1>2, SoundStops DEF Ind, SoundInv
<1>9. Step
  BY <1>7, <1>8, GrowsFurther DEF Step
<1>10. c \in ProvidedCandidates /\ c.from = From /\ c.to = To /\ c.bytes = q[1].bytes /\ c.row = n
  BY <1>4, <1>8, <1>1, <1>2 DEF KeptEdge, ProvidedCandidates
<1>11. PICK e : e = IF InBlock THEN at.edges ELSE Append(at.edges, c)
  OBVIOUS
<1>12. e \in Seq(ProvidedCandidates)
  BY <1>3, <1>10, <1>11
<1>13. at' = [at EXCEPT !.queue = Tail(@), !.edges = e]
  BY <1>1, <1>11
<1>14. /\ at' \in Places /\ at'.block = b /\ at'.paths = at.paths /\ at'.from = at.from
       /\ at'.to = at.to /\ at'.queue = Tail(q) /\ at'.edges = e /\ at'.pc = "try"
  BY <1>3, <1>4, <1>12, <1>13 DEF Places
<1>15. SoundInv' /\ UnmarkedInv' /\ at.pc \notin Outside /\ at.pc \notin Over /\ at.pc \in OfPaths
       /\ at.pc \in OfInterval
  BY <1>9, StepIs, StepUnmarked DEF Outside, Over, OfPaths, OfInterval
<1>16. Here' = Here /\ (InPaths' <=> InPaths)
  BY <1>9, <1>14 DEF Here, Step, InPaths
<1>17. PlaceInv'
  BY <1>3, <1>9, <1>14, <1>15, <1>16, StepIs DEF Ind, PlaceInv, Outside, OfInterval, Step
<1>18. BlocksInv'
  BY <1>9, <1>14, <1>15, BlocksStay
<1>19. /\ WholeBytes(b)' = WholeBytes(b)
       /\ \A f, t : PieceBytes(b, f, t)' = PieceBytes(b, f, t)
  BY <1>9, <1>14, OffersUnchanged DEF Step
<1>20. Audited(c, b, session.ledger)'
  <2>1. Audited(c, b, session'.ledger)
    BY <1>5, <1>7, <1>8, <1>10 DEF Audited
  <2>2. \A d : Start(d)' = Start(d)
    BY <1>9, StepIs
  <2> QED
    BY <1>14, <2>1, <2>2 DEF Audited
<1>21. best' = (IF InBlock /\ Better(PathChoice(<<c>>), best) THEN PathChoice(<<c>>) ELSE best)
  BY <1>1
<1>22. ~InPaths => /\ PathChoice(<<c>>) \in BlockChoices
                   /\ PathChoice(<<c>>).bytes = q[1].bytes /\ PathChoice(<<c>>).rows = <<n>>
  <2> SUFFICES ASSUME ~InPaths
               PROVE  /\ PathChoice(<<c>>) \in BlockChoices
                      /\ PathChoice(<<c>>).bytes = q[1].bytes /\ PathChoice(<<c>>).rows = <<n>>
    OBVIOUS
  <2> DEFINE p == <<c>>
  <2>1. /\ p \in Seq(ProvidedCandidates) /\ Len(p) = 1 /\ DOMAIN p = 1..1 /\ p[1] = c
    BY <1>10
  <2> HIDE DEF p
  <2>2. c.from = 0 /\ c.bytes \in Nat
    BY <1>3, <1>10 DEF ProvidedCandidates
  <2>3. \A i \in 1..Len(p) : p[i].from \in 0..input[b]
    BY <1>3, <2>1, <2>2
  <2>4. PathBytes(p) = c.bytes
    BY <2>1, <2>2, PathOfOne
  <2>5. /\ PathChoice(p) \in BlockChoices
        /\ PathChoice(p).bytes = PathBytes(p)
        /\ Len(PathChoice(p).rows) = 1 /\ DOMAIN PathChoice(p).rows = 1..1
        /\ \A i \in 1..1 : PathChoice(p).rows[i] = p[i].row
    BY <1>3, <2>1, <2>3, PathChoiceIs
  <2>6. PathChoice(p).rows = <<n>>
    <3>1. PathChoice(p).rows \in Seq(Nat) /\ PathChoice(p).rows[1] = n
      BY <1>10, <2>1, <2>5 DEF BlockChoices
    <3> QED
      BY <2>5, <3>1
  <2> QED
    BY <1>10, <2>4, <2>5, <2>6 DEF p
<1>23. BestInv'
  <2>1. /\ best \in BlockChoices /\ Rows(best, b) /\ (InPaths => best.rows # <<0>>)
        /\ Fits(best) /\ best.bytes <= LiteralBytes[Here]
        /\ best.bytes \in {LiteralBytes[Here]} \cup WholeBytes(b)
        /\ \A m \in WholeBytes(b) : best.bytes <= m \/ (~InPaths /\ \E i \in DOMAIN q : m = q[i].bytes)
    BY <1>3, <1>15 DEF Ind, BestInv
  <2>2. /\ \A d : Fits(d) => Fits(d)'
        /\ \A d : Rows(d, b) => Rows(d, b)'
    BY <1>9, <1>14, RowsStay, StepIs
  <2>3. /\ WholeBytes(at.block)' = WholeBytes(b) /\ LiteralBytes[Here]' = LiteralBytes[Here]
    BY <1>14, <1>16, <1>19
  <2>4. CASE best' = best
    <3>1. Rows(best, at.block)' /\ Fits(best)'
      BY <1>14, <2>1, <2>2, <2>4
    <3>2. ~InPaths => best.bytes <= q[1].bytes
      <4> SUFFICES ASSUME ~InPaths PROVE best.bytes <= q[1].bytes
        OBVIOUS
      <4>1. best.bytes \in Nat /\ q[1].bytes \in Nat
        BY <1>10, <2>1 DEF BlockChoices, ProvidedCandidates
      <4>2. PathChoice(<<c>>).bytes = q[1].bytes
        BY <1>22
      <4>3. CASE Better(PathChoice(<<c>>), best)
        <5>1. best' = PathChoice(<<c>>)
          BY <1>3, <1>21, <4>3
        <5> QED
          BY <2>4, <4>1, <4>2, <5>1
      <4>4. CASE ~Better(PathChoice(<<c>>), best)
        BY <4>1, <4>2, <4>4 DEF Better
      <4> QED
        BY <4>3, <4>4
    <3>3. \A m \in WholeBytes(b) :
            best.bytes <= m \/ (~InPaths /\ \E i \in DOMAIN Tail(q) : m = Tail(q)[i].bytes)
      <4> SUFFICES ASSUME NEW m \in WholeBytes(b), ~InPaths, NEW i \in DOMAIN q, m = q[i].bytes
                   PROVE  best.bytes <= m \/ \E j \in DOMAIN Tail(q) : m = Tail(q)[j].bytes
        BY <2>1
      <4>1. CASE i = 1
        BY <3>2, <4>1
      <4>2. CASE i # 1
        BY <1>4, <4>2
      <4> QED
        BY <4>1, <4>2
    <3> QED
      BY <1>14, <1>15, <1>16, <2>1, <2>3, <2>4, <3>1, <3>3 DEF BestInv
  <2>5. CASE best' # best
    <3>1. ~InPaths /\ Better(PathChoice(<<c>>), best) /\ best' = PathChoice(<<c>>)
      BY <1>3, <1>21, <2>5
    <3>2. /\ best' \in BlockChoices /\ best'.bytes = q[1].bytes /\ best'.rows = <<n>>
      BY <1>22, <3>1
    <3>3. best.bytes \in Nat /\ best'.bytes \in Nat /\ best'.bytes <= best.bytes
      BY <2>1, <3>1, <3>2 DEF BlockChoices, Better
    <3>4. Rows(best, at.block)'
      <4>1. Tiles(<<n>>, b, session'.ledger)
        BY <1>3, <1>5, <1>7, <1>8, <3>1, OneTile
      <4>2. Tiles(<<n>>, at.block, session.ledger)'
        <5>1. \A d : Start(d)' = Start(d)
          BY <1>9, StepIs
        <5> QED
          BY <1>9, <1>14, <4>1, <5>1 DEF Tiles, Step
      <4>3. <<n>> # <<0>>
        BY <1>8
      <4> QED
        BY <3>2, <4>2, <4>3 DEF Rows
    <3>5. Fits(best)'
      <4>1. ArchiveBytes(best'.bytes) <= config.archive
        <5>1. config.archive \in Nat
          BY <1>3, CapsAssumption
        <5>2. best'.bytes = Tried.bytes /\ ~(ArchiveBytes(Tried.bytes) > config.archive)
          BY <1>4, <3>2 DEF TooLarge
        <5>3. ArchiveBytes(best'.bytes) \in Nat
          BY <3>3, BytesAssumption DEF ArchiveBytes
        <5> QED
          BY <5>1, <5>2, <5>3
      <4> QED
        BY <1>9, <4>1 DEF Fits, Step
    <3>6. best'.bytes <= LiteralBytes[Here]
      <4>1. LiteralBytes[Here] \in Nat
        BY <1>3, BlockFacts
      <4> QED
        BY <2>1, <3>3, <4>1
    <3>7. best'.bytes \in WholeBytes(b)
      BY <1>4, <1>15, <3>1, <3>2 DEF Ind, OfferInv
    <3>8. \A m \in WholeBytes(b) :
            best'.bytes <= m \/ \E i \in DOMAIN Tail(q) : m = Tail(q)[i].bytes
      <4> SUFFICES ASSUME NEW m \in WholeBytes(b)
                   PROVE  best'.bytes <= m \/ \E i \in DOMAIN Tail(q) : m = Tail(q)[i].bytes
        OBVIOUS
      <4>1. CASE best.bytes <= m
        <5>1. m \in Nat
          <6>1. offered \subseteq OfferSet
            BY <1>15 DEF Ind, OfferInv
          <6> QED
            BY <6>1 DEF WholeBytes, OfferSet, ProvidedCandidates
        <5> QED
          BY <3>3, <4>1, <5>1
      <4>2. CASE \E i \in DOMAIN q : m = q[i].bytes
        <5>1. PICK i \in DOMAIN q : m = q[i].bytes
          BY <4>2
        <5>2. CASE i = 1
          BY <3>2, <3>3, <5>1, <5>2
        <5>3. CASE i # 1
          BY <1>4, <5>1, <5>3
        <5> QED
          BY <5>2, <5>3
      <4> QED
        BY <2>1, <4>1, <4>2
    <3> QED
      BY <1>14, <1>15, <1>16, <2>3, <3>1, <3>2, <3>4, <3>5, <3>6, <3>7, <3>8 DEF BestInv
  <2> QED
    BY <2>4, <2>5
<1>24. EdgeInv'
  <2> SUFFICES ASSUME InPaths PROVE EdgeInv'
    BY <1>16 DEF EdgeInv
  <2>1. /\ \A i \in DOMAIN at.edges :
             /\ at.edges[i].from = at.from /\ at.edges[i].to = at.to
             /\ Audited(at.edges[i], b, session.ledger)
             /\ at.edges[i].bytes \in PieceBytes(b, at.from, at.to)
        /\ \A i \in DOMAIN q : q[i].bytes \in PieceBytes(b, at.from, at.to)
        /\ session.complete =>
             \A m \in PieceBytes(b, at.from, at.to) :
               \/ \E i \in DOMAIN at.edges : m = at.edges[i].bytes
               \/ \E i \in DOMAIN q : m = q[i].bytes
    BY <1>15 DEF Ind, EdgeInv
  <2>2. \A x, d : Audited(x, d, session.ledger) => Audited(x, d, session.ledger)'
    BY <1>9, StepIs
  <2>3. session'.complete => session.complete
    BY <1>9 DEF Step, Grows
  <2>4. PieceBytes(at.block, at.from, at.to)' = PieceBytes(b, at.from, at.to)
    BY <1>14, <1>19
  <2>5. PICK l : l = Len(at.edges)
    OBVIOUS
  <2>6. /\ l \in Nat /\ DOMAIN at.edges = 1..l /\ DOMAIN e = 1..l+1
        /\ e[l + 1] = c /\ \A i \in 1..l : e[i] = at.edges[i]
    <3>1. e = Append(at.edges, c)
      BY <1>3, <1>11
    <3>2. /\ l \in Nat /\ Len(e) = l + 1 /\ e[l + 1] = c /\ \A i \in 1..l : e[i] = at.edges[i]
      BY <1>3, <1>10, <2>5, <3>1, AppendIs
    <3> QED
      BY <1>3, <1>12, <2>5, <3>2
  <2>7. \A i \in DOMAIN e : i \in DOMAIN at.edges \/ i = l + 1
    BY <2>6
  <2>8. \A i \in DOMAIN at.edges : i \in DOMAIN e /\ e[i] = at.edges[i]
    BY <2>6
  <2>9. l + 1 \in DOMAIN e /\ e[l + 1] = c
    BY <2>6
  <2>10. ASSUME NEW i \in DOMAIN e
         PROVE  /\ e[i].from = at.from /\ e[i].to = at.to
                /\ Audited(e[i], b, session.ledger)'
                /\ e[i].bytes \in PieceBytes(b, at.from, at.to)
    <3>1. CASE i \in DOMAIN at.edges
      BY <2>1, <2>2, <2>8, <3>1
    <3>2. CASE i = l + 1
      <4>1. InPaths /\ c.bytes \in PieceBytes(b, at.from, at.to)
        BY <1>4, <1>10, <2>1
      <4> QED
        BY <1>3, <1>10, <1>20, <2>9, <3>2, <4>1
    <3> QED
      BY <2>7, <3>1, <3>2
  <2>11. session'.complete =>
             \A m \in PieceBytes(b, at.from, at.to) :
               \/ \E i \in DOMAIN e : m = e[i].bytes
               \/ \E i \in DOMAIN Tail(q) : m = Tail(q)[i].bytes
    <3> SUFFICES ASSUME session'.complete, NEW m \in PieceBytes(b, at.from, at.to)
                 PROVE  \/ \E i \in DOMAIN e : m = e[i].bytes
                        \/ \E i \in DOMAIN Tail(q) : m = Tail(q)[i].bytes
      OBVIOUS
    <3>1. CASE \E i \in DOMAIN at.edges : m = at.edges[i].bytes
      BY <2>8, <3>1
    <3>2. CASE \E i \in DOMAIN q : m = q[i].bytes
      <4>1. PICK i \in DOMAIN q : m = q[i].bytes
        BY <3>2
      <4>2. CASE i = 1
        BY <1>10, <2>9, <4>1, <4>2
      <4>3. CASE i # 1
        BY <1>4, <4>1, <4>3
      <4> QED
        BY <4>2, <4>3
    <3> QED
      BY <2>1, <2>3, <3>1, <3>2
  <2>12. \A i \in DOMAIN Tail(q) : Tail(q)[i].bytes \in PieceBytes(b, at.from, at.to)
    BY <1>4, <2>1
  <2>13. \A i \in DOMAIN at'.edges :
           /\ at'.edges[i].from = at'.from /\ at'.edges[i].to = at'.to
           /\ Audited(at.edges[i], at.block, session.ledger)'
           /\ at'.edges[i].bytes \in PieceBytes(at.block, at.from, at.to)'
    BY <1>14, <2>4, <2>10
  <2>14. \A i \in DOMAIN at'.queue : at'.queue[i].bytes \in PieceBytes(at.block, at.from, at.to)'
    BY <1>14, <2>4, <2>12
  <2>15. session'.complete =>
           \A m \in PieceBytes(at.block, at.from, at.to)' :
             \/ \E i \in DOMAIN at'.edges : m = at'.edges[i].bytes
             \/ \E i \in DOMAIN at'.queue : m = at'.queue[i].bytes
    BY <1>14, <2>4, <2>11
  <2> QED
    BY <2>13, <2>14, <2>15 DEF EdgeInv
<1>25. PathInv'
  BY <1>9, <1>14, <1>15, PathsStay
<1>26. CoverInv'
  BY <1>9, <1>14, <1>15, <1>16, <1>19, CoverStays DEF CoverInv, Covered
<1>27. OfferInv'
  <2>1. \A f, t : Passed(f, t)' <=> Passed(f, t)
    BY <1>14 DEF Passed
  <2> QED
    BY <1>4, <1>14, <1>15, <1>16, <1>19, <2>1 DEF Ind, OfferInv
<1>28. StarvedInv'
  <2> SUFFICES ASSUME Len(input) = 1, session.states > 0 PROVE at.block = 1 /\ InPaths
    BY <1>7, <1>9, <1>14, <1>16 DEF StarvedInv, Step
  <2> QED
    BY <1>3, <1>15 DEF Ind, StarvedInv
<1>29. ResultInv'
  BY <1>14 DEF ResultInv
<1> QED
  BY <1>15, <1>17, <1>18, <1>23, <1>24, <1>25, <1>26, <1>27, <1>28, <1>29 DEF Ind

--------------------------------------------------------------------------------
(* What trying and extending do to a session.                              *)

LEMMA TryStep ==
    ASSUME Ind, config' = config, input' = input, Try
    PROVE  Ind'
<1>1. at.pc = "try" /\ at.queue # <<>> /\ offered' = offered /\ at.pc \notin Outside
  BY DEF Try, Outside
<1>2. PICK s : s = Charged(session, Tried)
  OBVIOUS
<1>3. Tried.work \in Nat
  <2>1. Tried \in ProvidedCandidates
    BY <1>1, TriedIs
  <2> QED
    BY <2>1 DEF ProvidedCandidates
<1>4. Charge(session, s) /\ s.states = session.states
  BY <1>2, <1>3, ChargedIs, PlaceFacts DEF Ind, SoundInv
<1>5. Sound(s) /\ Grows(session, s)
  BY <1>4 DEF Charge
<1>6. IF s.stopped
      THEN session' = s /\ GoTo(OnStop) /\ UNCHANGED <<best, choices, outcome>>
      ELSE IF ~Tried.restores THEN SearchFails("provider")
      ELSE IF TooLarge(Tried) THEN SearchFails("limit")
      ELSE /\ session' = Evaluated(s)
           /\ at' = IF Evaluated(s).stopped THEN [at EXCEPT !.pc = OnStop]
                    ELSE [at EXCEPT !.queue = Tail(@),
                                    !.edges = IF InBlock THEN @ ELSE Append(@, KeptEdge(s))]
           /\ best' = IF InBlock /\ ~Evaluated(s).stopped /\ Better(PathChoice(<<KeptEdge(s)>>), best)
                      THEN PathChoice(<<KeptEdge(s)>>) ELSE best
           /\ UNCHANGED <<choices, outcome>>
  BY <1>2 DEF Try, Tried, Evaluated, KeptEdge
<1>7. CASE s.stopped
  <2>1. Step
    BY <1>5, <1>6, <1>7 DEF Step
  <2> QED
    BY <1>1, <1>4, <1>6, <1>7, <2>1, StopStep DEF GoTo
<1>8. CASE ~s.stopped /\ (~Tried.restores \/ TooLarge(Tried))
  <2>1. \E why \in {"provider", "limit"} : SearchFails(why)
    BY <1>6, <1>8
  <2> QED
    BY <1>1, <2>1, FailStep
<1>9. CASE ~s.stopped /\ Tried.restores /\ ~TooLarge(Tried)
  <2>1. /\ session' = Evaluated(s) /\ UNCHANGED choices
        /\ at' = IF Evaluated(s).stopped THEN [at EXCEPT !.pc = OnStop]
                 ELSE [at EXCEPT !.queue = Tail(@),
                                 !.edges = IF InBlock THEN @ ELSE Append(@, KeptEdge(s))]
        /\ best' = IF InBlock /\ ~Evaluated(s).stopped /\ Better(PathChoice(<<KeptEdge(s)>>), best)
                   THEN PathChoice(<<KeptEdge(s)>>) ELSE best
    BY <1>6, <1>9
  <2>2. CASE session'.stopped
    <3>1. LET row == CandidateRow(Tried) IN row \in LedgerRows /\ ~row.selected /\ row.event = "Tried"
      BY <1>1, TriedIs, CandidateRowIs
    <3>2. Sound(session') /\ Grows(s, session') /\ session'.states = s.states
      BY <1>5, <2>1, <3>1, PushTried, PlaceFacts DEF Evaluated, SameCounts
    <3>3. Step
      <4>1. session \in Sessions /\ s \in Sessions /\ session' \in Sessions
        BY <1>5, <3>2, SoundStops DEF Ind, SoundInv
      <4> QED
        BY <1>5, <3>2, <4>1, GrowsFurther DEF Step
    <3>4. best' = best /\ at' = [at EXCEPT !.pc = OnStop]
      BY <2>1, <2>2
    <3> QED
      BY <1>1, <1>4, <2>1, <2>2, <3>2, <3>3, <3>4, StopStep
  <2>3. CASE ~session'.stopped
    <3>1. /\ at' = [at EXCEPT !.queue = Tail(@), !.edges = IF InBlock THEN @ ELSE Append(@, KeptEdge(s))]
          /\ best' = (IF InBlock /\ Better(PathChoice(<<KeptEdge(s)>>), best)
                      THEN PathChoice(<<KeptEdge(s)>>) ELSE best)
      BY <2>1, <2>3
    <3> QED
      BY <1>1, <1>4, <1>5, <1>9, <2>1, <2>3, <3>1, KeepStep
  <2> QED
    BY <2>2, <2>3
<1> QED
  BY <1>7, <1>8, <1>9

--------------------------------------------------------------------------------
(* Longer walks.                                                           *)

LEMMA WalkAppend ==
    ASSUME NEW C, NEW p \in Seq(C), NEW k \in Nat, NEW l \in Nat, k < l, NEW e \in C,
           e.from = k, e.to = l, Walk(p, k)
    PROVE  Walk(Append(p, e), l)
<1> DEFINE n == Len(p)
           q == Append(p, e)
           f == [i \in DOMAIN q |-> q[i].from]
           t == [i \in DOMAIN q |-> q[i].to]
           g == [i \in DOMAIN p |-> p[i].from]
           u == [i \in DOMAIN p |-> p[i].to]
<1>1. n \in Nat /\ DOMAIN p = 1..n
  OBVIOUS
<1>2. Len(q) = n + 1 /\ DOMAIN q = 1..n+1 /\ q # <<>> /\ q[n + 1] = e /\ \A i \in 1..n : q[i] = p[i]
  BY SMTT(40), <1>1, AppendIs
<1>3. f[n + 1] = k /\ t[n + 1] = l /\ \A i \in 1..n : f[i] = g[i] /\ t[i] = u[i]
  <2>1. n + 1 \in DOMAIN q
    BY <1>1, <1>2
  <2>2. \A i \in 1..n : i \in DOMAIN q /\ i \in DOMAIN p
    BY <1>1, <1>2
  <2> QED
    BY <1>2, <2>1, <2>2
<1>4. Walk(q, l) <=> Steps(f, t, n + 1, 0, l)
  BY <1>2 DEF Walk
<1>5. p # <<>> => Steps(g, u, n, 0, k)
  BY DEF Walk
<1>6. p = <<>> => n = 0 /\ k = 0
  BY DEF Walk
<1>7. p # <<>> => n # 0
  BY <1>1
<1> HIDE DEF n, q, f, t, g, u
<1>8. CASE p = <<>>
  BY <1>3, <1>4, <1>6, <1>8 DEF Steps, q
<1>9. CASE p # <<>>
  <2>1. /\ n + 1 \in Nat \ {0} /\ 1 \in 1..n /\ n \in 1..n
        /\ \A i \in 1..n+1 : i \in 1..n \/ i = n + 1
        /\ \A i \in 1..(n+1)-1 : i = n \/ i \in 1..n-1
        /\ \A i \in 1..n-1 : i \in 1..n /\ i + 1 \in 1..n
    BY <1>1, <1>7, <1>9
  <2>2. f[1] = 0 /\ t[n + 1] = l
    BY <1>3, <1>5, <1>9, <2>1 DEF Steps
  <2>rising. \A i \in 1..n+1 : f[i] \in Nat /\ t[i] \in Nat /\ f[i] < t[i]
    BY <1>3, <1>5, <1>9, <2>1 DEF Steps
  <2>4. \A i \in 1..(n+1)-1 : t[i] = f[i + 1]
    BY <1>3, <1>5, <1>9, <2>1 DEF Steps
  <2>5. Steps(f, t, n + 1, 0, l)
    BY <2>1, <2>2, <2>rising, <2>4 DEF Steps
  <2> QED
    BY <1>4, <2>5 DEF q
<1> QED
  BY <1>8, <1>9

(* What the session pays for the extensions.                               *)
Paying(n, made, paid, s, t) ==
    /\ made = Affordable(n) /\ paid = [session EXCEPT !.work = @ + made, !.states = @ + made]
    /\ s = ChargeWork(paid, 1)
    /\ t = IF made = n THEN paid ELSE IF s.stopped THEN s ELSE ChargeState(s)
LEMMA ExtendSession ==
    ASSUME Ind, ~session.stopped, NEW n \in Nat, NEW made, NEW paid, NEW s, NEW t, Paying(n, made, paid, s, t)
    PROVE  /\ made \in 0..n /\ Sound(t) /\ Grows(session, t)
           /\ ~t.stopped => made = n
<1>1. /\ made = Affordable(n) /\ paid = [session EXCEPT !.work = @ + made, !.states = @ + made]
      /\ s = ChargeWork(paid, 1) /\ t = IF made = n THEN paid ELSE IF s.stopped THEN s ELSE ChargeState(s)
  BY DEF Paying
<1>2. /\ session \in Sessions /\ session.work \in Nat /\ session.states \in Nat /\ session.candidates \in Nat
      /\ session.work <= config.work /\ session.states <= config.states
      /\ session.candidates <= config.candidates
  BY DEF Ind, SoundInv, Sound, Sessions
<1>3. config \in SearchConfigs /\ config.work \in Nat /\ config.states \in Nat
  BY PlaceFacts, CapsAssumption
<1> DEFINE S == {n, config.work - session.work, config.states - session.states}
<1>4. S \in SUBSET Nat /\ S # {}
  BY <1>2, <1>3
<1>5. made \in S /\ \A m \in S : made <= m
  <2>1. made = Least(S)
    BY <1>1 DEF Affordable
  <2> HIDE DEF S
  <2> QED
    BY <1>4, <2>1, LeastIs
<1>6. /\ made \in 0..n /\ session.work + made \in Nat /\ session.states + made \in Nat
      /\ session.work + made <= config.work /\ session.states + made <= config.states
  BY <1>2, <1>3, <1>4, <1>5
<1>7. made = n \/ session.work + made = config.work \/ session.states + made = config.states
  BY <1>2, <1>3, <1>5
<1>8. paid = Paid(session, session.candidates, session.states + made, session.work + made)
  BY <1>1, <1>2 DEF Paid, Sessions
<1>9. Sound(paid) /\ Grows(session, paid) /\ paid.stopped = session.stopped
  <2>1. PICK c, o, w : c = session.candidates /\ o = session.states + made /\ w = session.work + made
    OBVIOUS
  <2>2. /\ c \in Nat /\ o \in Nat /\ w \in Nat
        /\ c <= config.candidates /\ o <= config.states /\ w <= config.work
    BY <1>2, <1>6, <2>1
  <2>3. Sound(session) /\ paid = Paid(session, c, o, w)
    BY <1>8, <2>1 DEF Ind, SoundInv
  <2> QED
    BY <1>3, <2>2, <2>3, PaidSound
<1>10. paid.work = session.work + made /\ paid.states = session.states + made
  BY <1>2, <1>8 DEF Paid, Sessions
<1>11. /\ Charge(paid, s) /\ s.states = paid.states
       /\ ~(paid.work + 1 <= config.work) => s.stopped
  <2>1. 1 \in Nat /\ Sound(paid) /\ config \in SearchConfigs
    BY <1>3, <1>9
  <2>2. /\ Charge(paid, ChargeWork(paid, 1)) /\ ChargeWork(paid, 1).states = paid.states
        /\ ~(paid.work + 1 <= config.work) => ChargeWork(paid, 1).stopped
    BY <2>1, ChargeWorkIs
  <2> QED
    BY <1>1, <2>2
<1>12. Sound(s) /\ Grows(paid, s)
  BY <1>11 DEF Charge
<1>13. /\ Charge(s, ChargeState(s))
       /\ s.states >= config.states => ChargeState(s).stopped
  BY <1>3, <1>12, ChargeStateIs
<1>14. Sound(ChargeState(s)) /\ Grows(s, ChargeState(s))
  BY <1>13 DEF Charge
<1>15. paid \in Sessions /\ s \in Sessions /\ ChargeState(s) \in Sessions
  BY <1>9, <1>12, <1>14 DEF Sound
<1>16. Grows(session, s)
  BY <1>2, <1>9, <1>12, <1>15, GrowsFurther
<1>17. Grows(session, ChargeState(s))
  BY <1>2, <1>14, <1>15, <1>16, GrowsFurther
<1>18. made # n /\ ~s.stopped => ChargeState(s).stopped
  <2> SUFFICES ASSUME made # n, ~s.stopped PROVE ChargeState(s).stopped
    OBVIOUS
  <2>1. paid.work + 1 <= config.work
    BY <1>11
  <2>2. session.work + made # config.work
    BY <1>2, <1>3, <1>6, <1>10, <2>1
  <2>3. s.states = config.states
    BY <1>7, <1>10, <1>11, <2>2
  <2> QED
    BY <1>3, <1>13, <2>3
<1> QED
  BY <1>1, <1>6, <1>9, <1>12, <1>14, <1>16, <1>17, <1>18

--------------------------------------------------------------------------------
(* Paths are extended.                                                     *)

(* What the extension by an edge does to a path.                           *)
LEMMA MadeAppend ==
    ASSUME NEW p \in Seq(ProvidedCandidates), NEW e \in ProvidedCandidates, NEW k \in Nat, NEW l \in Nat,
           k < l, NEW b, NEW ledger, Made(p, k, b, ledger), e.from = k, e.to = l,
           e.bytes \in PieceBytes(b, k, l), Audited(e, b, ledger)
    PROVE  Made(Append(p, e), l, b, ledger)
<1> DEFINE q == Append(p, e)
           n == Len(p)
<1>1. /\ n \in Nat /\ DOMAIN p = 1..n /\ DOMAIN q = 1..n+1 /\ q[n + 1] = e
      /\ \A i \in 1..n : q[i] = p[i]
  <2>1. n \in Nat /\ DOMAIN p = 1..n
    OBVIOUS
  <2>2. q \in Seq(ProvidedCandidates) /\ Len(q) = n + 1 /\ q[n + 1] = e /\ \A i \in 1..n : q[i] = p[i]
    BY <2>1, AppendIs
  <2> QED
    BY <2>1, <2>2
<1>2. Walk(q, l)
  BY WalkAppend DEF Made
<1> HIDE DEF q, n
<1>3. \A i \in DOMAIN q : (i \in DOMAIN p /\ q[i] = p[i]) \/ q[i] = e
  BY <1>1
<1>4. Priced(q, b)
  BY <1>3 DEF Made, Priced
<1>5. \A i \in DOMAIN q : Audited(q[i], b, ledger)
  BY <1>3 DEF Made
<1> QED
  BY <1>2, <1>4, <1>5 DEF Made, q

LEMMA SameAppend ==
    ASSUME NEW p \in Seq(ProvidedCandidates), NEW e \in ProvidedCandidates, NEW w \in Seq(Pieces), w # <<>>,
           SameWalk(p, SubSeq(w, 1, Len(w) - 1)),
           e.from = w[Len(w)].from, e.to = w[Len(w)].to, e.bytes = w[Len(w)].bytes
    PROVE  SameWalk(Append(p, e), w)
<1> DEFINE n == Len(w)
           v == SubSeq(w, 1, n - 1)
           q == Append(p, e)
<1>1. /\ n \in Nat \ {0} /\ DOMAIN w = 1..n /\ Len(v) = n - 1 /\ DOMAIN v = 1..n-1
      /\ \A i \in 1..n-1 : v[i] = w[i]
  <2>1. n \in Nat \ {0} /\ DOMAIN w = 1..n
    OBVIOUS
  <2>2. v \in Seq(Pieces) /\ Len(v) = n - 1 /\ \A i \in 1..n-1 : v[i] = w[i]
    BY <2>1
  <2>3. DOMAIN v = 1..n-1
    BY SMTT(40), <2>1, <2>2
  <2> QED
    BY <2>1, <2>2, <2>3
<1>2. Len(p) = n - 1
  BY <1>1 DEF SameWalk
<1>3. Len(q) = n /\ q[n] = e /\ \A i \in 1..n-1 : q[i] = p[i]
  <2>1. n - 1 \in Nat /\ (n - 1) + 1 = n
    BY SMTT(40), <1>1
  <2> QED
    BY <1>2, <2>1, AppendIs
<1>4. \A i \in 1..n-1 : p[i].from = w[i].from /\ p[i].to = w[i].to /\ p[i].bytes = w[i].bytes
  BY <1>1 DEF SameWalk
<1>5. SameWalk(p, v) /\ e.from = w[n].from /\ e.to = w[n].to /\ e.bytes = w[n].bytes
  OBVIOUS
<1> HIDE DEF n, v, q
<1>6. \A i \in 1..n : i = n \/ i \in 1..n-1
  BY <1>1
<1>7. \A i \in DOMAIN w : q[i].from = w[i].from /\ q[i].to = w[i].to /\ q[i].bytes = w[i].bytes
  BY <1>1, <1>3, <1>4, <1>5, <1>6
<1> QED
  BY <1>3, <1>7 DEF SameWalk, q, n

LEMMA ConcatIs ==
    ASSUME NEW S, NEW a \in Seq(S), NEW c \in Seq(S)
    PROVE  /\ a \o c \in Seq(S) /\ Len(a \o c) = Len(a) + Len(c)
           /\ \A i \in 1..Len(a) : (a \o c)[i] = a[i]
           /\ \A i \in 1..Len(a)+Len(c) : i > Len(a) => (a \o c)[i] = c[i - Len(a)]
  OBVIOUS

LEMMA ExtendStep ==
    ASSUME Ind, config' = config, input' = input, Extend
    PROVE  Ind'
<1> DEFINE b == at.block
<1>1. PICK all, made, paid, s, t :
        /\ all = Extensions(Expandable, at.edges) /\ made = Affordable(Len(all))
        /\ paid = [session EXCEPT !.work = @ + made, !.states = @ + made]
        /\ s = ChargeWork(paid, 1)
        /\ t = IF made = Len(all) THEN paid ELSE IF s.stopped THEN s ELSE ChargeState(s)
        /\ session' = t
        /\ at' = [at EXCEPT !.paths[at.to + 1] = @ \o SubSeq(all, 1, made),
                            !.pc = IF session'.stopped THEN "paths" ELSE "interval",
                            !.to = @ + 1]
        /\ at.pc = "extend" /\ UNCHANGED <<best, choices, offered>>
  BY DEF Extend
<1>2. /\ at \in Places /\ ~session.stopped /\ at.queue = <<>> /\ InPaths /\ Intervals # <<>>
      /\ at.from < at.to /\ at.to <= Here /\ at.pc \notin Outside /\ at.pc \notin Over
      /\ at.pc \in OfPaths /\ at.pc \in OfInterval
  BY <1>1 DEF Ind, PlaceInv, OfInterval, Outside, Over, OfPaths
<1>3. /\ at.from \in Nat /\ at.to \in Nat /\ Here \in Nat \ {0} /\ b \in 1..Len(input)
      /\ at.edges \in Seq(ProvidedCandidates) /\ at.paths \in Seq(Seq(Seq(ProvidedCandidates)))
      /\ DOMAIN at.paths = 1..Here+1 /\ Len(at.paths) = Here + 1 /\ config \in SearchConfigs
      /\ input \in SearchInputs
  BY <1>2, PlaceFacts
<1>4. PICK ps : ps = at.paths[at.from + 1]
  OBVIOUS
<1>5. at.from + 1 \in 1..Here+1 /\ at.to + 1 \in 1..Here+1 /\ at.from \in 0..Here /\ at.to \in 0..Here
  BY SMTT(40), <1>2, <1>3
<1>6. ps \in Seq(Seq(ProvidedCandidates))
  BY <1>3, <1>4, <1>5
<1>7. PICK x : x = Expandable
  OBVIOUS
<1>8. /\ x \in Seq(Seq(ProvidedCandidates))
      /\ \A i \in DOMAIN x : \E j \in DOMAIN ps : x[i] = ps[j]
      /\ \A j \in DOMAIN ps : Len(ps[j]) < config.segments => \E i \in DOMAIN x : x[i] = ps[j]
  BY <1>4, <1>6, <1>7, ExpandableIs
<1>9. /\ all \in Seq(Seq(ProvidedCandidates)) /\ Len(all) \in Nat
      /\ \A k \in 1..Len(all) : \E i \in DOMAIN x, j \in DOMAIN at.edges : all[k] = Append(x[i], at.edges[j])
      /\ \A i \in DOMAIN x, j \in DOMAIN at.edges :
           \E k \in 1..Len(all) : all[k] = Append(x[i], at.edges[j])
  <2>1. PICK C, p, e, z : C = ProvidedCandidates /\ p = x /\ e = at.edges /\ z = Extensions(p, e)
    OBVIOUS
  <2>2. p \in Seq(Seq(C)) /\ e \in Seq(C)
    BY <1>3, <1>8, <2>1
  <2>3. z \in Seq(Seq(C)) /\ Len(z) \in Nat /\ Pairs(z, p, e)
    BY <2>1, <2>2, ExtensionsAre
  <2>4. all = z
    BY <1>1, <1>7, <2>1
  <2>5. all \in Seq(Seq(ProvidedCandidates)) /\ Len(all) \in Nat /\ Pairs(all, x, at.edges)
    BY <2>1, <2>3, <2>4
  <2> QED
    BY <2>5 DEF Pairs
<1>10. /\ made \in 0..Len(all) /\ Sound(session') /\ Grows(session, session')
       /\ ~session'.stopped => made = Len(all)
  <2>1. PICK n : n = Len(all)
    OBVIOUS
  <2>2. n \in Nat
    BY <1>9, <2>1
  <2>3. Paying(n, made, paid, s, t)
    BY <1>1, <2>1 DEF Paying
  <2>4. made \in 0..n /\ Sound(t) /\ Grows(session, t) /\ (~t.stopped => made = n)
    BY <1>2, <2>2, <2>3, ExtendSession
  <2>5. session' = t
    BY <1>1
  <2> QED
    BY <2>1, <2>4, <2>5
<1>11. Step
  BY <1>10 DEF Step
<1>12. PICK old, new : old = at.paths[at.to + 1] /\ new = old \o SubSeq(all, 1, made)
  OBVIOUS
<1>13. /\ old \in Seq(Seq(ProvidedCandidates)) /\ new \in Seq(Seq(ProvidedCandidates))
       /\ \A i \in DOMAIN new : \/ i \in DOMAIN old /\ new[i] = old[i]
                                \/ \E k \in 1..Len(all) : new[i] = all[k]
       /\ \A i \in DOMAIN old : i \in DOMAIN new /\ new[i] = old[i]
       /\ made = Len(all) => \A k \in 1..Len(all) : \E i \in DOMAIN new : new[i] = all[k]
  <2>1. old \in Seq(Seq(ProvidedCandidates))
    BY SMTT(40), <1>3, <1>5, <1>12
  <2> DEFINE u == SubSeq(all, 1, made)
             n == Len(old)
  <2>2. u \in Seq(Seq(ProvidedCandidates)) /\ Len(u) = made /\ \A k \in 1..made : u[k] = all[k]
    BY <1>9, <1>10
  <2>sizes. made \in Nat /\ n \in Nat /\ DOMAIN old = 1..n
    BY <1>9, <1>10, <2>1
  <2> HIDE DEF u
  <2>4. new = old \o u
    BY <1>12 DEF u
  <2>5. /\ new \in Seq(Seq(ProvidedCandidates)) /\ Len(new) = n + made
        /\ \A i \in 1..n : new[i] = old[i]
        /\ \A i \in 1..n+made : i > n => new[i] = u[i - n]
    BY <2>1, <2>2, <2>sizes, <2>4, ConcatIs
  <2>6. DOMAIN new = 1..n+made
    BY <2>sizes, <2>5
  <2> HIDE DEF n
  <2>7. ASSUME NEW i \in DOMAIN new
        PROVE  (i \in DOMAIN old /\ new[i] = old[i]) \/ \E k \in 1..Len(all) : new[i] = all[k]
    <3>1. CASE i <= n
      BY <2>sizes, <2>5, <2>6, <3>1
    <3>2. CASE ~(i <= n)
      <4>1. i - n \in 1..made /\ i > n /\ i \in 1..n+made
        BY <2>sizes, <2>6, <3>2
      <4>2. i - n \in 1..Len(all)
        BY <1>9, <1>10, <4>1
      <4> QED
        BY <2>2, <2>5, <4>1, <4>2
    <3> QED
      BY <3>1, <3>2
  <2>8. \A i \in DOMAIN old : i \in DOMAIN new /\ new[i] = old[i]
    BY <2>sizes, <2>5, <2>6
  <2>9. ASSUME made = Len(all), NEW k \in 1..Len(all) PROVE \E i \in DOMAIN new : new[i] = all[k]
    <3>1. n + k \in 1..n+made /\ n + k > n /\ (n + k) - n = k /\ k \in 1..made
      BY <2>sizes, <2>9
    <3> QED
      BY <2>2, <2>5, <2>6, <3>1
  <2> QED
    BY <2>1, <2>5, <2>7, <2>8, <2>9
<1>14. at'.paths = [at.paths EXCEPT ![at.to + 1] = new]
  <2>1. DOMAIN at = {"pc", "block", "provider", "queue", "from", "to", "edges", "paths"}
    BY <1>2 DEF Places
  <2>2. at' = [at EXCEPT !.paths = [at.paths EXCEPT ![at.to + 1] = new],
                         !.pc = IF session'.stopped THEN "paths" ELSE "interval", !.to = @ + 1]
    BY <1>1, <1>12
  <2> QED
    BY <2>1, <2>2
<1>15. /\ at' \in Places /\ at'.block = b /\ at'.from = at.from
       /\ at'.to = at.to + 1 /\ at'.queue = at.queue
       /\ at'.pc = IF session'.stopped THEN "paths" ELSE "interval"
  <2> DEFINE l == IF session'.stopped THEN "paths" ELSE "interval"
  <2>1. PICK paths : paths = [at.paths EXCEPT ![at.to + 1] = new]
    OBVIOUS
  <2>2. paths \in Seq(Seq(Seq(ProvidedCandidates)))
    BY <1>3, <1>5, <1>13, <2>1
  <2>3. l \in Phases /\ at.to + 1 \in Nat
    BY SMTT(40), <1>3 DEF Phases
  <2> HIDE DEF l
  <2>4. at' = [at EXCEPT !.paths = paths, !.pc = l, !.to = @ + 1]
    BY <1>1, <1>12, <2>1 DEF l
  <2>5. at' \in Places
    BY <1>2, <2>2, <2>3, <2>4 DEF Places
  <2>6. DOMAIN at = {"pc", "block", "provider", "queue", "from", "to", "edges", "paths"}
    BY <1>2 DEF Places
  <2> QED
    BY <2>4, <2>5, <2>6 DEF l
<1>16. /\ Len(at'.paths) = Here + 1 /\ at'.paths[at.to + 1] = new
       /\ \A k \in 0..Here : k # at.to => at'.paths[k + 1] = at.paths[k + 1]
       /\ InPaths'
  <2>1. PICK paths : paths = [at.paths EXCEPT ![at.to + 1] = new]
    OBVIOUS
  <2>2. at'.paths = paths
    BY <1>14, <2>1
  <2>3. paths \in Seq(Seq(Seq(ProvidedCandidates))) /\ DOMAIN paths = 1..Here+1
        /\ paths[at.to + 1] = new /\ \A k \in 1..Here+1 : k # at.to + 1 => paths[k] = at.paths[k]
    BY SMTT(40), <1>3, <1>5, <1>13, <2>1
  <2>4. Len(paths) = Here + 1 /\ paths # <<>>
    <3>1. Len(paths) \in Nat /\ DOMAIN paths = 1..Len(paths)
      BY <2>3
    <3>2. Len(paths) = Here + 1
      BY <1>3, <2>3, <3>1
    <3> QED
      BY <1>3, <3>2
  <2>5. \A k \in 0..Here : k # at.to => k + 1 \in 1..Here+1 /\ k + 1 # at.to + 1
    <3>1. PICK h, u : h = Here /\ u = at.to
      OBVIOUS
    <3>2. h \in Nat /\ u \in Nat
      BY <1>3, <3>1
    <3>3. \A k \in 0..h : k # u => k + 1 \in 1..h+1 /\ k + 1 # u + 1
      BY <3>2
    <3> QED
      BY <3>1, <3>3
  <2>6. \A k \in 0..Here : k # at.to => paths[k + 1] = at.paths[k + 1]
    BY <2>3, <2>5
  <2> QED
    BY <2>2, <2>3, <2>4, <2>6 DEF InPaths
<1>17. /\ SoundInv' /\ UnmarkedInv' /\ BlocksInv' /\ Here' = Here
       /\ Rows(best, at.block)' /\ Fits(best)'
       /\ \A d : WholeBytes(d)' = WholeBytes(d) /\ Reachable(d)' = Reachable(d)
       /\ \A d, f, u : PieceBytes(d, f, u)' = PieceBytes(d, f, u)
       /\ session'.complete => session.complete
  BY <1>1, <1>2, <1>11, <1>15, MoveIs
<1>18. session'.stopped => ~session'.complete
  BY <1>10, SoundStops
<1>19. PlaceInv'
  <2>1. config' \in SearchConfigs /\ input' \in SearchInputs /\ (LiteralArchive <= config.archive)'
    BY <1>11, StepIs
  <2>2. at'.block \in 1..Len(input') + 1 /\ at'.block <= Len(input') /\ at'.queue = <<>>
    BY <1>2, <1>3, <1>11, <1>15 DEF Step
  <2>reach. Len(at'.paths) = Here' + 1 /\ Intervals # <<>>
    BY <1>2, <1>16, <1>17
  <2>4. at'.from <= Here' /\ at'.from < at'.to /\ at'.to <= Here' + 1
    BY SMTT(40), <1>2, <1>3, <1>15, <1>17
  <2>5. at'.pc \in {"paths", "interval"} /\ (at'.pc = "interval" => ~session'.stopped)
        /\ (at'.pc = "paths" => session'.stopped)
    BY <1>15
  <2> QED
    BY <1>15, <1>16, <1>18, <2>1, <2>2, <2>reach, <2>4, <2>5 DEF PlaceInv, Outside, OfInterval
<1>20. BestInv'
  <2>1. /\ best \in BlockChoices /\ best.rows # <<0>> /\ best.bytes <= LiteralBytes[Here]
        /\ best.bytes \in {LiteralBytes[Here]} \cup WholeBytes(b)
        /\ \A n \in WholeBytes(b) : best.bytes <= n
    BY <1>1, <1>2 DEF Ind, BestInv
  <2> QED
    BY <1>1, <1>15, <1>16, <1>17, <2>1 DEF BestInv
<1>21. EdgeInv' /\ ResultInv'
  BY <1>15 DEF EdgeInv, OfInterval, ResultInv
<1>22. /\ \A i \in DOMAIN at.edges :
            /\ at.edges[i] \in ProvidedCandidates
            /\ at.edges[i].from = at.from /\ at.edges[i].to = at.to
            /\ Audited(at.edges[i], b, session.ledger)
            /\ at.edges[i].bytes \in PieceBytes(b, at.from, at.to)
       /\ session.complete =>
            \A n \in PieceBytes(b, at.from, at.to) : \E i \in DOMAIN at.edges : n = at.edges[i].bytes
  BY <1>2, <1>3 DEF Ind, EdgeInv
<1>23. \A k \in 0..Here : \A i \in DOMAIN at.paths[k + 1] : Made(at.paths[k + 1][i], k, b, session.ledger)
  BY <1>2 DEF Ind, PathInv
<1>24. PathInv'
  <2>1. ASSUME NEW k \in 1..Len(all) PROVE Made(all[k], at.to, b, session.ledger)
    <3>1. PICK i \in DOMAIN x, j \in DOMAIN at.edges : all[k] = Append(x[i], at.edges[j])
      BY <1>9
    <3>2. PICK m \in DOMAIN ps : x[i] = ps[m]
      BY <1>8
    <3>3. Made(x[i], at.from, b, session.ledger)
      BY <1>4, <1>5, <1>23, <3>2
    <3>4. x[i] \in Seq(ProvidedCandidates)
      BY <1>8
    <3> QED
      <4>1. PICK p, e : p = x[i] /\ e = at.edges[j]
        OBVIOUS
      <4>2. /\ e \in ProvidedCandidates /\ e.from = at.from /\ e.to = at.to
            /\ Audited(e, b, session.ledger) /\ e.bytes \in PieceBytes(b, at.from, at.to)
        BY <1>22, <4>1
      <4>3. p \in Seq(ProvidedCandidates) /\ Made(p, at.from, b, session.ledger)
        BY <3>3, <3>4, <4>1
      <4>4. Made(Append(p, e), at.to, b, session.ledger)
        BY <1>2, <1>3, <4>2, <4>3, MadeAppend
      <4> QED
        BY <3>1, <4>1, <4>4
  <2>2. ASSUME NEW k \in 0..Here, NEW i \in DOMAIN at'.paths[k + 1]
        PROVE  Made(at'.paths[k + 1][i], k, b, session.ledger)
    <3>1. CASE k # at.to
      BY <1>16, <1>23, <3>1
    <3>2. CASE k = at.to
      <4>1. i \in DOMAIN new /\ at'.paths[k + 1][i] = new[i]
        BY <1>16, <3>2
      <4>2. CASE i \in DOMAIN old /\ new[i] = old[i]
        BY <1>12, <1>23, <3>2, <4>1, <4>2
      <4>3. CASE \E l \in 1..Len(all) : new[i] = all[l]
        BY <2>1, <3>2, <4>1, <4>3
      <4> QED
        BY <1>13, <4>1, <4>2, <4>3
    <3> QED
      BY <3>1, <3>2
  <2>3. ASSUME NEW p, NEW k, Made(p, k, b, session.ledger) PROVE Made(p, k, at.block, session.ledger)'
    <3>1. \A c, d : Audited(c, d, session.ledger) => Audited(c, d, session.ledger)'
      BY <1>11, StepIs
    <3> QED
      BY <1>15, <1>17, <2>3, <3>1 DEF Made, Priced
  <2> QED
    BY <1>17, <2>2, <2>3 DEF PathInv
<1>25. CoverInv'
  <2> SUFFICES ASSUME session'.complete, Here <= config.segments, NEW k \in 0..Here, NEW w \in Seq(Pieces),
                      Walk(w, k), Priced(w, b), w # <<>> => Passed(w[Len(w)].from, w[Len(w)].to)'
               PROVE  \E i \in DOMAIN at'.paths[k + 1] : SameWalk(at'.paths[k + 1][i], w)
    BY <1>11, <1>15, <1>17 DEF CoverInv, Covered, Priced, Step
  <2>1. session.complete /\ made = Len(all)
    BY <1>10, <1>17, <1>18
  <2>2. \A l \in 0..Here : \A v \in Seq(Pieces) :
          Walk(v, l) /\ Priced(v, b) /\ (v # <<>> => Passed(v[Len(v)].from, v[Len(v)].to)) =>
            \E i \in DOMAIN at.paths[l + 1] : SameWalk(at.paths[l + 1][i], v)
    BY <1>2, <2>1 DEF Ind, CoverInv, Covered
  <2>3. \A l \in 0..Here : \A i \in DOMAIN at.paths[l + 1] :
          \E j \in DOMAIN at'.paths[l + 1] : at'.paths[l + 1][j] = at.paths[l + 1][i]
    <3> TAKE l \in 0..Here
    <3>1. CASE l # at.to
      BY SMTT(40), <1>16, <3>1
    <3>2. CASE l = at.to
      BY ZenonT(60), <1>12, <1>13, <1>16, <3>2
    <3> QED
      BY <3>1, <3>2
  <2>4. CASE w = <<>> \/ Passed(w[Len(w)].from, w[Len(w)].to)
    BY <2>2, <2>3, <2>4
  <2>5. CASE w # <<>> /\ ~Passed(w[Len(w)].from, w[Len(w)].to)
    <3> DEFINE n == Len(w)
               v == SubSeq(w, 1, n - 1)
    <3>1. /\ n \in Nat \ {0} /\ w[n].to = k /\ w[n].from < k /\ w[n].from \in Nat
      BY <2>5, EmptyWalk
    <3>2. w[n].from = at.from /\ w[n].to = at.to /\ k = at.to
      BY <1>3, <1>15, <2>5, <3>1 DEF Passed
    <3>3. /\ v \in Seq(Pieces) /\ Walk(v, w[n].from) /\ Len(v) = n - 1 /\ n <= k
          /\ \A i \in 1..n-1 : v[i] = w[i]
          /\ v # <<>> => v[Len(v)].from < w[n].from
      BY <2>5, ButLast
    <3>4. SameWalk(<<>>, <<>>) /\ n \in DOMAIN w
      BY <3>1 DEF SameWalk
    <3> HIDE DEF v, n
    <3>5. Priced(v, b)
      <4> SUFFICES ASSUME NEW i \in DOMAIN v
                   PROVE  v[i].bytes \in PieceBytes(b, v[i].from, v[i].to)
        BY DEF Priced
      <4>1. i \in 1..n-1
        BY <3>3
      <4>2. i \in DOMAIN w
        BY <3>1, <4>1 DEF n
      <4> QED
        BY <3>3, <4>1, <4>2 DEF Priced
    <3>6. v # <<>> => Passed(v[Len(v)].from, v[Len(v)].to)
      BY <3>2, <3>3 DEF Passed
    <3>7. PICK j \in DOMAIN ps : SameWalk(ps[j], v)
      BY <1>4, <1>5, <2>2, <3>2, <3>3, <3>5, <3>6
    <3>8. Len(ps[j]) < config.segments
      <4>1. config.segments \in Nat
        BY <1>3, CapsAssumption
      <4>2. Len(ps[j]) = n - 1 /\ n <= Here
        BY <1>2, <1>3, <3>1, <3>2, <3>3, <3>7 DEF SameWalk
      <4> QED
        BY <1>3, <3>1, <4>1, <4>2
    <3>9. PICK i \in DOMAIN x : x[i] = ps[j]
      BY <1>8, <3>8
    <3>10. w[n].bytes \in PieceBytes(b, at.from, at.to)
      BY <3>2, <3>4 DEF Priced
    <3>11. PICK m \in DOMAIN at.edges : w[n].bytes = at.edges[m].bytes
      BY <1>22, <2>1, <3>10
    <3>12. PICK p, e : p = x[i] /\ e = at.edges[m]
      OBVIOUS
    <3>13. /\ p \in Seq(ProvidedCandidates) /\ e \in ProvidedCandidates /\ SameWalk(p, v)
           /\ e.from = w[n].from /\ e.to = w[n].to /\ e.bytes = w[n].bytes
      BY <1>8, <1>22, <3>2, <3>7, <3>9, <3>11, <3>12
    <3>14. SameWalk(Append(p, e), w)
      BY <2>5, <3>13, SameAppend DEF v, n
    <3>15. PICK l \in 1..Len(all) : all[l] = Append(p, e)
      BY <1>9, <3>12
    <3>16. PICK o \in DOMAIN new : new[o] = all[l]
      BY <1>13, <2>1
    <3> QED
      BY <1>16, <3>2, <3>14, <3>15, <3>16
  <2> QED
    BY <2>4, <2>5
<1>26. OfferInv'
  <2>1. ASSUME NEW o \in offered
        PROVE  /\ o \in OfferSet /\ 1 <= o.block /\ o.block <= b
               /\ o.block = b /\ ~o.whole => Passed(o.from, o.to)'
    <3>1. /\ o \in OfferSet /\ 1 <= o.block /\ o.block <= b
          /\ o.block = b /\ ~o.whole => Passed(o.from, o.to) \/ (o.from = at.from /\ o.to = at.to)
      BY <1>2 DEF Ind, OfferInv
    <3>2. o.to \in Nat
      BY <3>1 DEF OfferSet
    <3> QED
      BY <1>3, <1>15, <3>1, <3>2 DEF Passed
  <2> QED
    BY <1>1, <1>15, <1>16, <2>1 DEF OfferInv
<1>27. StarvedInv'
  <2> SUFFICES ASSUME Len(input) = 1 PROVE at.block = 1 /\ InPaths
    BY <1>11, <1>15, <1>16 DEF StarvedInv, Step
  <2> QED
    BY <1>2, <1>3
<1> QED
  BY <1>17, <1>19, <1>20, <1>21, <1>24, <1>25, <1>26, <1>27 DEF Ind

--------------------------------------------------------------------------------
(* Walks and cuts of a block.                                              *)

(* What a piece of a block may cost.                                       *)
LEMMA PieceBytesAre ==
    ASSUME input \in SearchInputs, offered \subseteq OfferSet, NEW b \in 1..Len(input),
           NEW f \in Nat, NEW t \in Nat, f < t, t <= input[b]
    PROVE  /\ PieceBytes(b, f, t) \in SUBSET Nat /\ PieceBytes(b, f, t) # {}
           /\ Least(PieceBytes(b, f, t)) \in PieceBytes(b, f, t)
           /\ Least(PieceBytes(b, f, t)) \in Nat
           /\ \A m \in PieceBytes(b, f, t) : Least(PieceBytes(b, f, t)) <= m
<1> DEFINE S == PieceBytes(b, f, t)
<1>1. LiteralBytes[t - f] \in Nat
  <2>1. input[b] \in Nat /\ \A n \in 0..input[b] : LiteralBytes[n] \in Nat
    BY BlockFacts
  <2>2. t - f \in 0..input[b]
    BY <2>1
  <2> QED
    BY <2>1, <2>2
<1>2. \A o \in offered : o.candidate.bytes \in Nat
  BY DEF OfferSet, ProvidedCandidates
<1>3. S \in SUBSET Nat /\ S # {}
  BY <1>1, <1>2 DEF PieceBytes
<1> HIDE DEF S
<1>4. Least(S) \in S /\ \A m \in S : Least(S) <= m
  BY <1>3, LeastIs
<1>5. Least(S) \in Nat
  BY <1>3, <1>4
<1> QED
  BY <1>3, <1>4, <1>5 DEF S

(* The walk that a cut of block b stands for.                              *)
CutWalk(b, ends) ==
    [i \in 1..Len(ends)-1 |-> [from |-> ends[i], to |-> ends[i + 1],
                               bytes |-> Least(PieceBytes(b, ends[i], ends[i + 1]))]]
LEMMA CutSteps ==
    ASSUME NEW n \in Nat \ {0}, NEW ends \in Cuts(n)
    PROVE  /\ Len(ends) \in 2..n+1 /\ DOMAIN ends = 1..Len(ends)
           /\ \A i \in 1..Len(ends) : ends[i] \in 0..n
           /\ \A i \in 1..Len(ends)-1 : ends[i] < ends[i + 1]
           /\ ends[1] = 0 /\ ends[Len(ends)] = n
<1>1. PICK k \in 2..n+1 : ends \in [1..k -> 0..n]
  BY DEF Cuts
<1>2. Len(ends) = k /\ DOMAIN ends = 1..k
  <2>1. k \in Nat /\ DOMAIN ends = 1..k
    BY <1>1
  <2>2. ends \in Seq(0..n)
    BY <1>1, <2>1
  <2> QED
    BY <2>1, <2>2
<1>3. ends[1] = 0 /\ ends[Len(ends)] = n /\ \A i \in 1..Len(ends) - 1 : ends[i] < ends[i+1]
  BY DEF Cuts
<1> QED
  BY <1>1, <1>2, <1>3

LEMMA CutWalkIs ==
    ASSUME input \in SearchInputs, offered \subseteq OfferSet, NEW b \in 1..Len(input),
           NEW ends \in Cuts(input[b])
    PROVE  LET w == CutWalk(b, ends)
           IN  /\ w \in Seq(Pieces) /\ Len(w) = Len(ends) - 1 /\ Len(w) \in Nat \ {0}
               /\ DOMAIN w = 1..Len(w)
               /\ Walk(w, input[b]) /\ Priced(w, b)
               /\ \A i \in 1..Len(w) : w[i].from = ends[i] /\ w[i].to = ends[i + 1]
               /\ \A i \in 1..Len(w) : \A m \in PieceBytes(b, ends[i], ends[i + 1]) : w[i].bytes <= m
<1> DEFINE n == input[b]
           k == Len(ends) - 1
           w == CutWalk(b, ends)
<1>1. n \in Nat \ {0}
  BY BlockFacts
<1>2. /\ Len(ends) \in 2..n+1
      /\ \A i \in 1..Len(ends) : ends[i] \in 0..n
      /\ \A i \in 1..Len(ends)-1 : ends[i] < ends[i + 1]
      /\ ends[1] = 0 /\ ends[Len(ends)] = n
  BY <1>1, CutSteps
<1>3. k \in Nat \ {0} /\ Len(ends) = k + 1 /\ \A i \in 1..k : i + 1 \in 1..Len(ends) /\ i \in 1..Len(ends)
  BY <1>1, <1>2
<1>4. w = [i \in 1..k |-> [from |-> ends[i], to |-> ends[i + 1],
                           bytes |-> Least(PieceBytes(b, ends[i], ends[i + 1]))]]
  BY DEF CutWalk
<1> HIDE DEF k, w
<1>5. ASSUME NEW i \in 1..k
      PROVE  /\ w[i].from = ends[i] /\ w[i].to = ends[i + 1] /\ ends[i] \in Nat /\ ends[i + 1] \in Nat
             /\ ends[i] < ends[i + 1] /\ w[i] \in Pieces
             /\ w[i].bytes \in PieceBytes(b, ends[i], ends[i + 1])
             /\ \A m \in PieceBytes(b, ends[i], ends[i + 1]) : w[i].bytes <= m
  <2>1. PICK f, t : f = ends[i] /\ t = ends[i + 1]
    OBVIOUS
  <2>2. f \in Nat /\ t \in Nat /\ t <= n
    BY <1>1, <1>2, <1>3, <2>1
  <2>forward. f < t
    BY <1>2, <2>1 DEF k
  <2>4. w[i] = [from |-> f, to |-> t, bytes |-> Least(PieceBytes(b, f, t))]
    BY <1>4, <2>1
  <2>5. /\ Least(PieceBytes(b, f, t)) \in PieceBytes(b, f, t) /\ Least(PieceBytes(b, f, t)) \in Nat
        /\ \A m \in PieceBytes(b, f, t) : Least(PieceBytes(b, f, t)) <= m
    BY <2>2, <2>forward, PieceBytesAre
  <2>6. w[i].from = f /\ w[i].to = t /\ w[i].bytes = Least(PieceBytes(b, f, t)) /\ w[i] \in Pieces
    BY <2>2, <2>4, <2>5 DEF Pieces
  <2> QED
    BY <2>1, <2>2, <2>forward, <2>5, <2>6
<1>6. w \in Seq(Pieces) /\ Len(w) = k /\ DOMAIN w = 1..k
  <2>1. w \in [1..k -> Pieces]
    BY <1>4, <1>5
  <2> QED
    BY <1>3, <2>1
<1>7. w # <<>> /\ DOMAIN w = 1..k
  BY <1>3, <1>6
<1>8. Walk(w, n)
  <2> DEFINE f == [i \in DOMAIN w |-> w[i].from]
             t == [i \in DOMAIN w |-> w[i].to]
  <2>1. \A i \in 1..k : f[i] = ends[i] /\ t[i] = ends[i + 1]
    BY <1>5, <1>6
  <2>2. 1 \in 1..k /\ k \in 1..k /\ \A i \in 1..k-1 : i \in 1..k /\ i + 1 \in 1..k
    BY <1>3
  <2> HIDE DEF f, t
  <2>3. f[1] = 0 /\ t[k] = n
    BY <1>2, <1>3, <2>1, <2>2
  <2>4. \A i \in 1..k : f[i] \in Nat /\ t[i] \in Nat /\ f[i] < t[i]
    BY <1>5, <2>1
  <2>5. \A i \in 1..k-1 : t[i] = f[i + 1]
    BY <2>1, <2>2
  <2>6. Steps(f, t, k, 0, n)
    BY <1>3, <2>3, <2>4, <2>5 DEF Steps
  <2> QED
    BY <1>6, <1>7, <2>6 DEF Walk, f, t
<1>9. Priced(w, b)
  BY <1>5, <1>6 DEF Priced
<1> QED
  BY <1>3, <1>5, <1>6, <1>8, <1>9 DEF w, k

LEMMA CutBytesAre ==
    ASSUME input \in SearchInputs, offered \subseteq OfferSet, NEW b \in 1..Len(input),
           NEW ends \in Cuts(input[b])
    PROVE  CutBytes(b, ends) = PathBytes(CutWalk(b, ends)) /\ CutBytes(b, ends) \in Nat
<1>1. PICK w, q : /\ w = CutWalk(b, ends)
                  /\ q = [i \in 1..Len(ends) - 1 |->
                            [from |-> ends[i], bytes |-> Least(PieceBytes(b, ends[i], ends[i + 1]))]]
  OBVIOUS
<1>2. CutBytes(b, ends) = PathBytes(q)
  BY <1>1 DEF CutBytes
<1>3. /\ w \in Seq(Pieces) /\ Len(w) = Len(ends) - 1 /\ Len(w) \in Nat \ {0} /\ DOMAIN w = 1..Len(w)
      /\ Walk(w, input[b])
      /\ \A i \in 1..Len(w) : w[i].from = ends[i]
  BY <1>1, CutWalkIs
<1>4. \A i \in 1..Len(w) : w[i].bytes = Least(PieceBytes(b, ends[i], ends[i + 1]))
  BY <1>1, <1>3 DEF CutWalk
<1>5. q = [i \in 1..Len(w) |-> [from |-> w[i].from, bytes |-> w[i].bytes]]
  BY <1>1, <1>3, <1>4
<1>6. DOMAIN q = 1..Len(w) /\ \A i \in 1..Len(w) : q[i].from = w[i].from /\ q[i].bytes = w[i].bytes
  BY <1>5
<1>7. Len(q) = Len(w)
  <2>1. q \in [1..Len(w) -> {q[i] : i \in 1..Len(w)}]
    BY <1>5, <1>6
  <2> DEFINE S == {q[i] : i \in 1..Len(w)}
  <2> HIDE DEF S
  <2>2. q \in [1..Len(w) -> S]
    BY <2>1 DEF S
  <2> QED
    BY <1>3, <2>2
<1>8. [i \in DOMAIN q |-> q[i].bytes + Boundary(q[i].from)]
      = [i \in DOMAIN w |-> w[i].bytes + Boundary(w[i].from)]
  BY <1>3, <1>6
<1>9. PathBytes(q) = PathBytes(w)
  BY <1>7, <1>8 DEF PathBytes
<1>10. PathBytes(w) \in Nat
  <2>1. \A i \in 1..Len(w) : ends[i] \in 0..input[b]
    <3>1. input[b] \in Nat \ {0}
      BY BlockFacts
    <3>2. Len(ends) \in 2..input[b]+1 /\ \A i \in 1..Len(ends) : ends[i] \in 0..input[b]
      BY <3>1, CutSteps
    <3>3. \A i \in 1..Len(w) : i \in 1..Len(ends)
      BY <1>3, <3>1, <3>2
    <3> QED
      BY <3>2, <3>3
  <2>2. \A i \in 1..Len(w) : w[i].bytes \in Nat
    <3>1. \A i \in 1..Len(w) : w[i] \in Pieces
      BY <1>3
    <3> QED
      BY <3>1 DEF Pieces
  <2>3. \A i \in 1..Len(w) : w[i].from \in 0..input[b]
    BY <1>3, <2>1
  <2> QED
    BY <1>3, <2>2, <2>3, PathBytesAre
<1> QED
  BY <1>1, <1>2, <1>9, <1>10

(* No walk over block b costs less than the cut it follows.                *)
LEMMA PathLow ==
    ASSUME input \in SearchInputs, offered \subseteq OfferSet, NEW b \in 1..Len(input),
           NEW p \in Seq(ProvidedCandidates), Walk(p, input[b]), Priced(p, b)
    PROVE  /\ \E ends \in Cuts(input[b]) : CutBytes(b, ends) <= PathBytes(p)
           /\ Len(p) \in Nat \ {0} /\ \A i \in 1..Len(p) : p[i].from \in 0..input[b]
<1> DEFINE n == input[b]
           k == Len(p)
           ends == [i \in 1..k+1 |-> IF i = 1 THEN 0 ELSE p[i - 1].to]
<1>1. n \in Nat \ {0}
  BY BlockFacts
<1>2. k \in Nat \ {0} /\ DOMAIN p = 1..k
  <2>1. p # <<>>
    BY <1>1 DEF Walk
  <2> QED
    BY <2>1
<1>3. PICK f, t : f = [i \in DOMAIN p |-> p[i].from] /\ t = [i \in DOMAIN p |-> p[i].to]
  OBVIOUS
<1>4. Steps(f, t, k, 0, n)
  BY <1>2, <1>3 DEF Walk
<1>5. \A i \in 1..k : f[i] = p[i].from /\ t[i] = p[i].to
  BY <1>2, <1>3
<1>6. \A i \in 1..k : f[i] \in 0..n /\ t[i] \in 0..n
  <2>1. \A i \in 1..k : f[i] \in Nat /\ t[i] \in Nat /\ f[i] < t[i] /\ t[i] <= n
    BY <1>4, StepsRise DEF Steps
  <2> QED
    BY <1>1, <2>1
<1>7. k <= n
  BY <1>4, StepsAreFew
<1> HIDE DEF k, n
<1>8. ends \in [1..k+1 -> 0..n]
  <2>1. ASSUME NEW i \in 1..k+1 PROVE (IF i = 1 THEN 0 ELSE p[i - 1].to) \in 0..n
    <3>1. CASE i = 1
      BY <1>1, <3>1
    <3>2. CASE i # 1
      <4>1. i - 1 \in 1..k
        BY <1>2, <3>2
      <4> QED
        BY <1>5, <1>6, <3>2, <4>1
    <3> QED
      BY <3>1, <3>2
  <2> QED
    BY <2>1
<1>9. \A i \in 1..k : ends[i] = p[i].from /\ ends[i + 1] = p[i].to
  <2> TAKE i \in 1..k
  <2>1. i \in 1..k+1 /\ i + 1 \in 1..k+1 /\ i + 1 # 1 /\ (i + 1) - 1 = i /\ (i # 1 => i - 1 \in 1..k-1 /\ (i - 1) + 1 = i)
    BY <1>2
  <2>2. ends[i + 1] = p[i].to
    BY <2>1
  <2>3. CASE i = 1
    BY <1>4, <1>5, <2>1, <2>3 DEF Steps
  <2>4. CASE i # 1
    <3>1. t[i - 1] = f[i]
      BY <1>4, <2>1, <2>4 DEF Steps
    <3>2. i - 1 \in 1..k
      BY <1>2, <2>1, <2>4
    <3> QED
      BY <1>5, <2>1, <2>2, <2>4, <3>1, <3>2
  <2> QED
    BY <2>3, <2>4
<1>10. ends[1] = 0 /\ ends[k + 1] = n
  BY <1>2, <1>4, <1>5, <1>9 DEF Steps
<1> HIDE DEF ends
<1>11. Len(ends) = k + 1 /\ (k + 1) - 1 = k
  <2>1. k + 1 \in Nat
    BY <1>2
  <2> QED
    BY <1>2, <1>8, <2>1
<1>12. \A i \in 1..Len(ends) - 1 : ends[i] < ends[i + 1]
  BY <1>4, <1>5, <1>9, <1>11 DEF Steps
<1>13. ends \in Cuts(n)
  <2>1. k + 1 \in 2..n+1
    BY <1>1, <1>2, <1>7
  <2> QED
    BY <1>8, <1>10, <1>11, <1>12, <2>1 DEF Cuts
<1>14. PICK w : w = CutWalk(b, ends)
  OBVIOUS
<1>15. /\ w \in Seq(Pieces) /\ Len(w) = k /\ DOMAIN w = 1..k
       /\ \A i \in 1..k : w[i].from = p[i].from
       /\ \A i \in 1..k : w[i].bytes <= p[i].bytes
  <2>1. /\ w \in Seq(Pieces) /\ Len(w) = k /\ DOMAIN w = 1..k
        /\ \A i \in 1..k : w[i].from = ends[i]
        /\ \A i \in 1..k : \A m \in PieceBytes(b, ends[i], ends[i + 1]) : w[i].bytes <= m
    <3>1. /\ w \in Seq(Pieces) /\ Len(w) = Len(ends) - 1 /\ DOMAIN w = 1..Len(w)
          /\ \A i \in 1..Len(w) : w[i].from = ends[i] /\ w[i].to = ends[i + 1]
          /\ \A i \in 1..Len(w) : \A m \in PieceBytes(b, ends[i], ends[i + 1]) : w[i].bytes <= m
      BY <1>13, <1>14, CutWalkIs DEF n
    <3>2. Len(w) = k
      BY <1>11, <3>1
    <3> QED
      BY <3>1, <3>2
  <2>2. \A i \in 1..k : p[i].bytes \in PieceBytes(b, p[i].from, p[i].to)
    BY <1>2 DEF Priced
  <2> QED
    BY <1>9, <2>1, <2>2
<1>16. PathBytes(w) <= PathBytes(p)
  <2>1. \A i \in 1..k : w[i].bytes \in Nat /\ p[i].bytes \in Nat
    <3>1. \A i \in 1..k : w[i] \in Pieces /\ p[i] \in ProvidedCandidates
      BY <1>2, <1>15
    <3> QED
      BY <3>1 DEF Pieces, ProvidedCandidates
  <2>2. \A i \in 1..k : w[i].from \in 0..n
    BY <1>5, <1>6, <1>15
  <2>3. Len(p) = k
    BY DEF k
  <2>4. \A i \in 1..Len(w) : /\ w[i].bytes \in Nat /\ p[i].bytes \in Nat
                              /\ w[i].from \in 0..input[b] /\ p[i].from = w[i].from
                              /\ w[i].bytes <= p[i].bytes
    BY <1>15, <2>1, <2>2 DEF n
  <2> QED
    BY <1>2, <1>15, <2>3, <2>4, PathBytesGrow
<1>17. CutBytes(b, ends) = PathBytes(w)
  BY <1>13, <1>14, CutBytesAre DEF n
<1> QED
  BY <1>2, <1>5, <1>6, <1>13, <1>16, <1>17 DEF k, n

LEMMA SameBytes ==
    ASSUME NEW p, NEW w, DOMAIN p = DOMAIN w, SameWalk(p, w)
    PROVE  PathBytes(p) = PathBytes(w)
<1>1. [i \in DOMAIN p |-> p[i].bytes + Boundary(p[i].from)] = [i \in DOMAIN w |-> w[i].bytes + Boundary(w[i].from)]
  BY DEF SameWalk
<1> QED
  BY <1>1 DEF PathBytes, SameWalk

(* The rows of a path tile its block.                                      *)
LEMMA MadeTiles ==
    ASSUME input \in SearchInputs, NEW b \in 1..Len(input), NEW p \in Seq(ProvidedCandidates),
           NEW ledger, 0 \notin DOMAIN ledger, Made(p, input[b], b, ledger)
    PROVE  LET rows == [i \in DOMAIN p |-> p[i].row]
           IN  Tiles(rows, b, ledger) /\ rows # <<0>>
<1> DEFINE n == input[b]
           k == Len(p)
           rows == [i \in DOMAIN p |-> p[i].row]
           S == Start(b)
<1>1. n \in Nat \ {0} /\ S \in Nat
  BY BlockFacts
<1>2. k \in Nat \ {0} /\ DOMAIN p = 1..k /\ DOMAIN rows = 1..k /\ Len(rows) = k
  <2>1. p # <<>>
    BY <1>1 DEF Made, Walk
  <2>2. k \in Nat \ {0} /\ DOMAIN p = 1..k
    BY <2>1
  <2>3. rows \in [1..k -> Nat]
    <3>1. \A i \in 1..k : p[i] \in ProvidedCandidates
      BY <2>2
    <3>2. \A i \in 1..k : p[i].row \in Nat
      BY <3>1 DEF ProvidedCandidates
    <3> QED
      BY <2>2, <3>2
  <2> HIDE DEF rows, k
  <2>4. DOMAIN rows = 1..k /\ Len(rows) = k
    BY <2>2, <2>3
  <2> QED
    BY <2>2, <2>4
<1>3. \A i \in 1..k : rows[i] = p[i].row
  BY <1>2
<1>4. PICK f, t : f = [i \in DOMAIN p |-> p[i].from] /\ t = [i \in DOMAIN p |-> p[i].to]
  OBVIOUS
<1>5. Steps(f, t, k, 0, n)
  BY <1>2, <1>4 DEF Made, Walk
<1>6. \A i \in 1..k : f[i] = p[i].from /\ t[i] = p[i].to
  BY <1>2, <1>4
<1> HIDE DEF rows, k, n, S
<1>7. \A i \in 1..k : /\ rows[i] \in DOMAIN ledger /\ ledger[rows[i]].event = "Tried"
                       /\ ledger[rows[i]].from = S + f[i] /\ ledger[rows[i]].to = S + t[i]
  <2>1. \A i \in 1..k : Audited(p[i], b, ledger)
    BY <1>2 DEF Made
  <2>2. \A i \in 1..k : /\ p[i].row \in DOMAIN ledger /\ ledger[p[i].row].event = "Tried"
                         /\ ledger[p[i].row].from = S + p[i].from /\ ledger[p[i].row].to = S + p[i].to
    BY <2>1 DEF Audited, S
  <2> QED
    BY <1>3, <1>6, <2>2
<1>8. rows # <<0>>
  <2>1. 1 \in 1..k
    BY <1>2
  <2>2. rows[1] # 0
    BY <1>7, <2>1
  <2> QED
    BY <2>2
<1>9. PICK g, u : g = [i \in DOMAIN rows |-> ledger[rows[i]].from] /\ u = [i \in DOMAIN rows |-> ledger[rows[i]].to]
  OBVIOUS
<1>10. \A i \in 1..k : g[i] = S + f[i] /\ u[i] = S + t[i]
  BY <1>2, <1>7, <1>9
<1>11. Steps(g, u, k, S, S + n)
  <2>1. 1 \in 1..k /\ k \in 1..k /\ \A i \in 1..k-1 : i \in 1..k /\ i + 1 \in 1..k
    BY <1>2
  <2>2. f[1] = 0 /\ t[k] = n /\ (\A i \in 1..k : f[i] \in Nat /\ t[i] \in Nat /\ f[i] < t[i])
        /\ (\A i \in 1..k-1 : t[i] = f[i + 1])
    BY <1>5 DEF Steps
  <2>3. g[1] = S /\ u[k] = S + n
    BY <1>1, <1>10, <2>1, <2>2
  <2>4. \A i \in 1..k : g[i] \in Nat /\ u[i] \in Nat /\ g[i] < u[i]
    BY SMTT(40), <1>1, <1>10, <2>2
  <2>5. \A i \in 1..k-1 : u[i] = g[i + 1]
    BY <1>10, <2>1, <2>2
  <2> QED
    BY <1>2, <2>3, <2>4, <2>5 DEF Steps
<1>12. Tiles(rows, b, ledger)
  BY <1>2, <1>7, <1>9, <1>11 DEF Tiles, S, n
<1> QED
  BY <1>8, <1>12 DEF rows

--------------------------------------------------------------------------------
(* The paths compete.                                                      *)

(* What the paths that reached the end of a block may be chosen for.       *)
LEMMA EndFacts ==
    ASSUME Ind, at.pc = "paths"
    PROVE  /\ at \in Places /\ InPaths /\ Intervals # <<>> /\ at.block \in 1..Len(input)
           /\ Here = input[at.block] /\ Here \in Nat \ {0} /\ DOMAIN at.paths = 1..Here+1
           /\ Here + 1 \in 1..Here+1 /\ Here \in 0..Here
           /\ input \in SearchInputs /\ config \in SearchConfigs /\ offered \subseteq OfferSet
           /\ at.paths[Here + 1] \in Seq(Seq(ProvidedCandidates))
           /\ best \in BlockChoices /\ Rows(best, at.block) /\ best.rows # <<0>> /\ Fits(best)
           /\ best.bytes <= LiteralBytes[Here]
           /\ best.bytes \in {LiteralBytes[Here]} \cup WholeBytes(at.block)
           /\ \A n \in WholeBytes(at.block) : best.bytes <= n
           /\ session.complete => at.from = Here
<1>1. at.pc \notin Outside /\ at.pc \notin Over /\ at.pc # "chosen" /\ at.pc # "interval"
  BY DEF Outside, Over
<1>2. InPaths /\ Intervals # <<>> /\ at \in Places /\ (session.complete => at.from = Here)
  BY DEF Ind, PlaceInv
<1>3. /\ at.block \in 1..Len(input) /\ Here \in Nat \ {0} /\ DOMAIN at.paths = 1..Here+1
      /\ input \in SearchInputs /\ config \in SearchConfigs
      /\ at.paths \in Seq(Seq(Seq(ProvidedCandidates)))
  BY <1>1, <1>2, PlaceFacts
<1>4. Here = input[at.block] /\ Here + 1 \in 1..Here+1 /\ Here \in 0..Here
  BY <1>3 DEF Here
<1>5. at.paths[Here + 1] \in Seq(Seq(ProvidedCandidates))
  BY <1>3, <1>4
<1>6. /\ best \in BlockChoices /\ Rows(best, at.block) /\ best.rows # <<0>> /\ Fits(best)
      /\ best.bytes <= LiteralBytes[Here]
      /\ best.bytes \in {LiteralBytes[Here]} \cup WholeBytes(at.block)
      /\ \A n \in WholeBytes(at.block) : best.bytes <= n
  BY <1>1, <1>2 DEF Ind, BestInv
<1>7. offered \subseteq OfferSet
  BY <1>1 DEF Ind, OfferInv
<1> QED
  BY <1>2, <1>3, <1>4, <1>5, <1>6, <1>7

(* Each of them, made a choice.                                            *)
LEMMA EachPath ==
    ASSUME Ind, at.pc = "paths", NEW i \in DOMAIN at.paths[Here + 1],
           NEW c, c = PathChoice(at.paths[Here + 1][i])
    PROVE  /\ c \in BlockChoices /\ c.bytes = PathBytes(at.paths[Here + 1][i])
           /\ Rows(c, at.block) /\ c.rows # <<0>> /\ Low(at.block, c)
<1>1. PICK p, b : p = at.paths[Here + 1][i] /\ b = at.block
  OBVIOUS
<1>2. /\ b \in 1..Len(input) /\ Here = input[b] /\ input \in SearchInputs /\ offered \subseteq OfferSet
      /\ Intervals # <<>> /\ InPaths /\ Here \in 0..Here
  BY <1>1, EndFacts
<1>3. p \in Seq(ProvidedCandidates)
  BY <1>1, EndFacts
<1>4. Made(p, Here, b, session.ledger)
  BY <1>1, <1>2 DEF Ind, PathInv, OfPaths
<1>5. /\ \E ends \in Cuts(input[b]) : CutBytes(b, ends) <= PathBytes(p)
      /\ \A k \in 1..Len(p) : p[k].from \in 0..input[b]
  <2>1. Walk(p, input[b]) /\ Priced(p, b)
    BY SMTT(40), <1>2, <1>4 DEF Made
  <2> QED
    BY <1>2, <1>3, <2>1, PathLow
<1>6. c \in BlockChoices /\ c.bytes = PathBytes(p)
  BY <1>1, <1>2, <1>3, <1>5, PathChoiceIs
<1>7. Tiles(c.rows, b, session.ledger) /\ c.rows # <<0>>
  <2>1. 0 \notin DOMAIN session.ledger
    BY SoundStops DEF Ind, SoundInv
  <2>2. PICK rows : rows = [k \in DOMAIN p |-> p[k].row]
    OBVIOUS
  <2>3. Made(p, input[b], b, session.ledger)
    BY <1>2, <1>4
  <2>4. Tiles(rows, b, session.ledger) /\ rows # <<0>>
    BY <1>2, <1>3, <2>1, <2>2, <2>3, MadeTiles
  <2>5. c.rows = rows
    BY <1>1, <2>2 DEF PathChoice, Choice
  <2> QED
    BY <2>4, <2>5
<1>8. Low(b, c)
  <2>1. PICK ends \in Cuts(input[b]) : CutBytes(b, ends) <= PathBytes(p)
    BY <1>5
  <2>2. CutBytes(b, ends) \in Reachable(b)
    BY <1>2 DEF Reachable
  <2> QED
    BY <1>6, <2>1, <2>2 DEF Low
<1> QED
  BY <1>1, <1>6, <1>7, <1>8 DEF Rows

(* No cut costs less than the best of them, when the search is complete.   *)
LEMMA NoCutIsLess ==
    ASSUME Ind, at.pc = "paths", session.complete, Here <= config.segments,
           NEW ends \in Cuts(Here)
    PROVE  \E i \in DOMAIN at.paths[Here + 1] :
              PathChoice(at.paths[Here + 1][i]).bytes = CutBytes(at.block, ends)
<1>1. PICK w, b : w = CutWalk(b, ends) /\ b = at.block
  OBVIOUS
<1>2. /\ b \in 1..Len(input) /\ Here = input[b] /\ input \in SearchInputs /\ offered \subseteq OfferSet
      /\ InPaths /\ Here \in 0..Here /\ Here \in Nat \ {0} /\ at.from = Here
  BY <1>1, EndFacts
<1>3. /\ w \in Seq(Pieces) /\ Len(w) \in Nat \ {0} /\ DOMAIN w = 1..Len(w)
      /\ Walk(w, Here) /\ Priced(w, b)
  BY <1>1, <1>2, CutWalkIs
<1>4. w # <<>>
  BY <1>3
<1>5. w[Len(w)].from < Here
  BY <1>3, <1>4, EmptyWalk
<1>6. Passed(w[Len(w)].from, w[Len(w)].to)
  BY <1>2, <1>5 DEF Passed
<1>7. PICK i \in DOMAIN at.paths[Here + 1] : SameWalk(at.paths[Here + 1][i], w)
  <2>1. CoverInv /\ at.pc \in OfPaths
    BY DEF Ind, OfPaths
  <2>2. Priced(w, at.block)
    BY <1>1, <1>3
  <2> QED
    BY <1>2, <1>3, <1>6, <2>1, <2>2 DEF CoverInv, Covered
<1>8. PICK p : p = at.paths[Here + 1][i]
  OBVIOUS
<1>9. DOMAIN p = DOMAIN w
  <2>1. p \in Seq(ProvidedCandidates)
    BY <1>8, EndFacts
  <2>2. DOMAIN p = 1..Len(p)
    BY <2>1
  <2> QED
    BY <1>3, <1>7, <1>8, <2>2 DEF SameWalk
<1>10. PathBytes(p) = PathBytes(w)
  BY <1>7, <1>8, <1>9, SameBytes
<1>11. PathBytes(w) = CutBytes(b, ends)
  BY <1>1, <1>2, CutBytesAre
<1>12. PathChoice(p).bytes = PathBytes(p)
  BY <1>8, EachPath
<1> QED
  BY <1>1, <1>8, <1>10, <1>11, <1>12

LEMMA ChoosePathStep ==
    ASSUME Ind, config' = config, input' = input, ChoosePath
    PROVE  Ind'
<1>1. PICK ps, s, b :
        /\ ps = at.paths[Here + 1] /\ b = at.block
        /\ s = (IF ~session.stopped /\ Here > config.segments
                THEN Push([session EXCEPT !.complete = FALSE],
                          RowHere("HeuristicSkip", "SegmentLimit", 0, Here))
                ELSE session)
  OBVIOUS
<1>2. at.pc = "paths" /\ offered' = offered /\ at.pc \notin Outside /\ at.pc \notin Over
  BY DEF ChoosePath, Outside, Over
<1>3. CASE \E i \in DOMAIN ps : TooLarge(PathChoice(ps[i]))
  <2>1. SearchFails("limit")
    BY <1>1, <1>3 DEF ChoosePath
  <2> QED
    BY <1>2, <2>1, FailStep
<1>4. CASE ~\E i \in DOMAIN ps : TooLarge(PathChoice(ps[i]))
  <2>1. session' = s /\ best' = BestPath(ps) /\ at' = [at EXCEPT !.pc = "chosen"] /\ choices' = choices
    BY <1>1, <1>4 DEF ChoosePath, GoTo
  <2>2. /\ at \in Places /\ InPaths /\ Intervals # <<>> /\ b \in 1..Len(input) /\ Here = input[b]
        /\ Here \in Nat \ {0} /\ DOMAIN at.paths = 1..Here+1
        /\ input \in SearchInputs /\ config \in SearchConfigs /\ offered \subseteq OfferSet
        /\ ps \in Seq(Seq(ProvidedCandidates))
    BY <1>1, <1>2, EndFacts
  <2>3. /\ best \in BlockChoices /\ Rows(best, b) /\ best.rows # <<0>> /\ Fits(best)
        /\ best.bytes <= LiteralBytes[Here]
        /\ best.bytes \in {LiteralBytes[Here]} \cup WholeBytes(b)
        /\ \A n \in WholeBytes(b) : best.bytes <= n
    BY <1>1, <1>2, EndFacts
  <2>4. config.segments \in Nat /\ config.archive \in Nat
    BY <2>2, CapsAssumption
  <2>5. /\ Sound(s) /\ Grows(session, s)
        /\ s.complete => session.complete /\ Here <= config.segments
    <3>1. CASE ~session.stopped /\ Here > config.segments
      <4>1. PICK row, t : row = RowHere("HeuristicSkip", "SegmentLimit", 0, Here)
                          /\ t = Push([session EXCEPT !.complete = FALSE], row)
        OBVIOUS
      <4>2. row \in LedgerRows /\ ~row.selected /\ row.event = "HeuristicSkip"
        <5>1. /\ "HeuristicSkip" \in Tags /\ "SegmentLimit" \in Reasons /\ 0 \in Nat /\ Here \in Nat
          BY <2>2 DEF Tags, Reasons
        <5> QED
          BY <1>2, <4>1, <5>1, RowHereIs
      <4>3. Sound(session)
        BY DEF Ind, SoundInv
      <4>4. Sound(t) /\ Grows(session, t) /\ ~t.complete
        BY <2>2, <4>1, <4>2, <4>3, PushSkip
      <4>5. s = t
        BY <1>1, <3>1, <4>1
      <4> QED
        BY <4>4, <4>5
    <3>2. CASE session.stopped
      <4>1. s = session /\ Sound(session) /\ ~session.complete
        BY <1>1, <3>2, SoundStops DEF Ind, SoundInv
      <4> QED
        BY <4>1 DEF Grows, Sound, Sessions
    <3>3. CASE ~session.stopped /\ ~(Here > config.segments)
      <4>1. s = session /\ Sound(session)
        BY <1>1, <3>3 DEF Ind, SoundInv
      <4>2. Grows(session, s)
        BY <4>1 DEF Grows, Sound, Sessions
      <4> QED
        BY <2>2, <2>4, <3>3, <4>1, <4>2
    <3> QED
      BY <3>1, <3>2, <3>3
  <2>6. Step
    BY <2>1, <2>5 DEF Step
  <2>7. /\ at'.pc = "chosen" /\ at'.block = b /\ at'.paths = at.paths /\ at'.from = at.from /\ at'.to = at.to
        /\ at'.queue = at.queue /\ at' \in Places
    BY <1>1, <2>1, <2>2 DEF Places, Phases
  <2>8. InPaths' /\ Here' = Here
    BY <1>1, <2>2, <2>6, <2>7 DEF InPaths, Here, Step
  <2>9. SoundInv' /\ UnmarkedInv' /\ BlocksInv'
    BY <1>1, <1>2, <2>1, <2>6, <2>7, StepIs, StepUnmarked, BlocksStay DEF Over
  <2>10. PlaceInv'
    <3>1. at'.block \in 1..Len(input)+1 /\ at'.block <= Len(input) /\ Len(at.paths) = Here + 1
      BY <1>2, <2>2, <2>7, PlaceFacts, InputFacts
    <3>2. config' \in SearchConfigs /\ input' \in SearchInputs /\ (LiteralArchive <= config.archive)'
      BY <2>6, StepIs
    <3> QED
      BY <2>2, <2>6, <2>7, <2>8, <3>1, <3>2 DEF PlaceInv, Outside, OfInterval, Step
  <2>11. PICK c, n : c = best' /\ n = Len(ps)
    OBVIOUS
  <2>12. n \in Nat /\ DOMAIN ps = 1..n
    BY <2>2, <2>11
  <2>13. ASSUME NEW i \in 1..n
         PROVE  /\ PathChoice(ps[i]) \in BlockChoices /\ PathChoice(ps[i]).bytes \in Nat
                /\ Rows(PathChoice(ps[i]), b) /\ PathChoice(ps[i]).rows # <<0>>
                /\ Low(b, PathChoice(ps[i])) /\ Fits(PathChoice(ps[i]))
    <3>1. PICK d : d = PathChoice(ps[i])
      OBVIOUS
    <3>2. i \in DOMAIN at.paths[Here + 1] /\ d = PathChoice(at.paths[Here + 1][i])
      BY <1>1, <2>12, <3>1
    <3>3. d \in BlockChoices /\ Rows(d, b) /\ d.rows # <<0>> /\ Low(b, d)
      BY <1>1, <1>2, <3>2, EachPath
    <3>4. d.bytes \in Nat
      BY <3>3 DEF BlockChoices
    <3>5. ~TooLarge(d)
      BY <1>4, <2>12, <3>1
    <3>6. Fits(d)
      BY <2>4, <3>4, <3>5, BytesAssumption DEF Fits, TooLarge, ArchiveBytes
    <3> QED
      BY <3>1, <3>3, <3>4, <3>6
  <2>14. BestOf(c, n, ps)
    BY <2>1, <2>3, <2>11, <2>12, <2>13, BestPathIs
  <2>15. /\ c = best \/ \E i \in 1..n : c = PathChoice(ps[i])
         /\ c.bytes \in Nat /\ c.bytes <= best.bytes
         /\ \A i \in 1..n : c.bytes <= PathChoice(ps[i]).bytes
    BY <2>14 DEF BestOf
  <2>16. best.bytes \in Nat /\ LiteralBytes[Here] \in Nat /\ \A m \in WholeBytes(b) : m \in Nat
    <3>1. \A o \in offered : o.candidate.bytes \in Nat
      BY <2>2 DEF OfferSet, ProvidedCandidates
    <3>2. LiteralBytes[Here] \in Nat
      BY <2>2, BlockFacts
    <3> QED
      BY <2>3, <3>1, <3>2 DEF BlockChoices, WholeBytes
  <2>17. c \in BlockChoices /\ Rows(c, b) /\ c.rows # <<0>> /\ Fits(c)
    BY <2>3, <2>13, <2>15
  <2>18. Low(b, c)
    <3>1. CASE c = best
      <4>1. best.bytes \in Reachable(b)
        BY <2>2, <2>3, ReachableHas
      <4> QED
        BY <2>16, <3>1, <4>1 DEF Low
    <3>2. CASE \E i \in 1..n : c = PathChoice(ps[i])
      BY <2>13, <3>2
    <3> QED
      BY <2>15, <3>1, <3>2
  <2>19. c.bytes <= LiteralBytes[Here] /\ \A m \in WholeBytes(b) : c.bytes <= m
    BY <2>3, <2>15, <2>16
  <2>20. ASSUME s.complete PROVE High(b, c)
    <3>1. session.complete /\ Here <= config.segments
      BY <2>5, <2>20
    <3>2. ASSUME NEW ends \in Cuts(Here) PROVE c.bytes <= CutBytes(b, ends)
      <4>1. PICK i \in DOMAIN ps : PathChoice(ps[i]).bytes = CutBytes(b, ends)
        BY <1>1, <1>2, <3>1, NoCutIsLess
      <4> QED
        BY <2>12, <2>15, <4>1
    <3>3. ASSUME NEW m \in Reachable(b) PROVE c.bytes <= m
      <4>1. \/ m = LiteralBytes[Here] \/ m \in WholeBytes(b)
            \/ \E ends \in Cuts(Here) : m = CutBytes(b, ends)
        BY <2>2 DEF Reachable, WholeBytes
      <4> QED
        BY <2>19, <3>2, <4>1
    <3> QED
      BY <3>3 DEF High
  <2>21. /\ WholeBytes(b)' = WholeBytes(b) /\ Reachable(b)' = Reachable(b)
    BY <1>2, OffersUnchanged
  <2>22. Rows(c, b)' /\ Fits(c)'
    BY <2>6, <2>17, RowsStay, StepIs
  <2>23. Low(b, c)' /\ (session'.complete => High(b, c)')
    BY <2>1, <2>18, <2>20, <2>21 DEF Low, High
  <2>24. BestInv'
    <3>1. Rows(best, at.block)' /\ Fits(best)'
      BY <2>7, <2>11, <2>22 DEF Rows, Fits
    <3>2. Low(at.block, best)' /\ (session'.complete => High(at.block, best)')
      BY <2>7, <2>11, <2>23 DEF Low, High
    <3>3. WholeBytes(at.block)' = WholeBytes(b)
      BY <2>7, <2>21
    <3> QED
      BY <2>7, <2>8, <2>11, <2>17, <2>19, <3>1, <3>2, <3>3 DEF BestInv
  <2>25. EdgeInv' /\ PathInv' /\ CoverInv' /\ ResultInv'
    BY <2>7 DEF EdgeInv, PathInv, CoverInv, Covered, ResultInv, OfInterval, OfPaths
  <2>26. OfferInv'
    <3>1. \A o \in offered : 1 <= o.block /\ o.block <= b
      BY <1>1, <1>2 DEF Ind, OfferInv
    <3> QED
      BY <1>2, <2>2, <2>7, <2>8, <3>1 DEF OfferInv, OfPaths
  <2>27. StarvedInv'
    <3> SUFFICES ASSUME Len(input) = 1 PROVE b = 1
      BY <2>6, <2>7, <2>8 DEF StarvedInv, Step
    <3> QED
      BY <2>2
  <2> QED
    BY <2>9, <2>10, <2>24, <2>25, <2>26, <2>27 DEF Ind
<1> QED
  BY <1>3, <1>4

--------------------------------------------------------------------------------
(* Tiles, and the rows marked as selected.                                 *)

(* The rows that tile every block cut the whole input.                     *)
LEMMA TilesCover ==
    ASSUME input \in SearchInputs, NEW ledger, NEW R, NEW M,
           \A b \in 1..Len(input) : Tiles(R[b], b, ledger) /\ DOMAIN R[b] = 1..Len(R[b]),
           \A n : n \in M <=> \E b \in 1..Len(input) : \E i \in DOMAIN R[b] : n = R[b][i]
    PROVE  /\ UNION {ledger[n].from + 1 .. ledger[n].to : n \in M} = 1..Total(input)
           /\ \A n, m \in M : n # m =>
                (ledger[n].from + 1 .. ledger[n].to) \cap (ledger[m].from + 1 .. ledger[m].to) = {}
<1> DEFINE L == Len(input)
           T == Total(input)
           From1(b) == [i \in DOMAIN R[b] |-> ledger[R[b][i]].from]
           To1(b) == [i \in DOMAIN R[b] |-> ledger[R[b][i]].to]
<1>1. L \in Nat /\ T \in Nat /\ (L = 0 => T = 0)
  BY InputFacts
<1>2. ASSUME NEW b \in 1..L
      PROVE  /\ Steps(From1(b), To1(b), Len(R[b]), Start(b), Start(b) + input[b])
             /\ Start(b) \in Nat /\ input[b] \in Nat \ {0} /\ Start(b) + input[b] <= T
             /\ Start(b) + input[b] \in Nat
             /\ \A i \in DOMAIN R[b] : From1(b)[i] = ledger[R[b][i]].from /\ To1(b)[i] = ledger[R[b][i]].to
  BY <1>2, BlockFacts DEF Tiles
<1> HIDE DEF From1, To1
<1>3. ASSUME NEW b \in 1..L, NEW i \in DOMAIN R[b]
      PROVE  /\ ledger[R[b][i]].from \in Nat /\ ledger[R[b][i]].to \in Nat
             /\ Start(b) <= ledger[R[b][i]].from /\ ledger[R[b][i]].to <= Start(b) + input[b]
  <2>1. i \in 1..Len(R[b])
    BY <1>3
  <2>2. /\ Start(b) <= From1(b)[i] /\ To1(b)[i] <= Start(b) + input[b]
        /\ From1(b)[i] \in Nat /\ To1(b)[i] \in Nat
    <3>1. Steps(From1(b), To1(b), Len(R[b]), Start(b), Start(b) + input[b])
      BY <1>2
    <3>2. Start(b) <= From1(b)[i] /\ To1(b)[i] <= Start(b) + input[b]
      BY <2>1, <3>1, StepsRise
    <3>3. From1(b)[i] \in Nat /\ To1(b)[i] \in Nat
      BY <2>1, <3>1 DEF Steps
    <3> QED
      BY <3>2, <3>3
  <2> QED
    BY <1>2, <2>2
<1>4. ASSUME NEW x \in 1..T PROVE \E n \in M : x \in ledger[n].from + 1 .. ledger[n].to
  <2>1. L # 0
    BY <1>1
  <2>2. Steps(Starts, Ends, L, 0, T)
    BY <2>1, BlocksFollow
  <2>3. PICK b \in 1..L : x \in Starts[b]+1..Ends[b]
    <3>1. x \in 0+1..T
      BY <1>4
    <3> QED
      BY <2>2, <3>1, StepsFill
  <2>4. x \in Start(b)+1..Start(b) + input[b]
    BY <2>3 DEF Starts, Ends
  <2>5. PICK i \in 1..Len(R[b]) : x \in From1(b)[i]+1..To1(b)[i]
    BY <1>2, <2>4, StepsFill
  <2>6. i \in DOMAIN R[b]
    BY <2>5
  <2>7. R[b][i] \in M /\ x \in ledger[R[b][i]].from + 1 .. ledger[R[b][i]].to
    BY <1>2, <2>5, <2>6
  <2> QED
    BY <2>7
<1>5. ASSUME NEW n \in M, NEW x \in ledger[n].from + 1 .. ledger[n].to PROVE x \in 1..T
  <2>1. PICK b \in 1..L : \E i \in DOMAIN R[b] : n = R[b][i]
    OBVIOUS
  <2>2. PICK i \in DOMAIN R[b] : n = R[b][i]
    BY <2>1
  <2>3. PICK f, t : f = ledger[n].from /\ t = ledger[n].to
    OBVIOUS
  <2>4. f \in Nat /\ t \in Nat /\ Start(b) <= f /\ t <= Start(b) + input[b] /\ x \in f+1..t
    BY <1>3, <2>2, <2>3
  <2>5. Start(b) \in Nat /\ Start(b) + input[b] <= T /\ Start(b) + input[b] \in Nat
    BY <1>2
  <2> QED
    BY <1>1, <2>4, <2>5
<1>6. ASSUME NEW b \in 1..L, NEW c \in 1..L, b < c, NEW i \in DOMAIN R[b], NEW j \in DOMAIN R[c]
      PROVE  ledger[R[b][i]].to <= ledger[R[c][j]].from
  <2>1. Steps(Starts, Ends, L, 0, T)
    <3>1. L # 0
      BY <1>1, <1>6
    <3> QED
      BY <3>1, BlocksFollow
  <2>2. b \in 1..c-1
    BY <1>1, <1>6
  <2>3. Ends[b] <= Starts[c]
    BY <2>1, <2>2, StepsRise
  <2>4. Start(b) + input[b] <= Start(c)
    BY <2>3 DEF Ends, Starts
  <2>5. PICK u, f, y, z : u = ledger[R[b][i]].to /\ f = ledger[R[c][j]].from /\ y = Start(b) + input[b] /\ z = Start(c)
    OBVIOUS
  <2>6. u \in Nat /\ f \in Nat /\ y \in Nat /\ z \in Nat /\ u <= y /\ y <= z /\ z <= f
    BY <1>2, <1>3, <2>4, <2>5
  <2>7. u <= f
    BY <2>6
  <2> QED
    BY <2>5, <2>7
<1>7. ASSUME NEW b \in 1..L, NEW i \in DOMAIN R[b], NEW j \in DOMAIN R[b], i < j
      PROVE  ledger[R[b][i]].to <= ledger[R[b][j]].from
  <2>1. j \in 1..Len(R[b]) /\ i \in 1..j-1
    <3>1. DOMAIN R[b] = 1..Len(R[b])
      OBVIOUS
    <3>2. i \in 1..Len(R[b]) /\ j \in 1..Len(R[b])
      BY <3>1
    <3> QED
      BY <1>7, <3>2
  <2>2. To1(b)[i] <= From1(b)[j]
    BY <1>2, <2>1, StepsRise
  <2> QED
    BY <1>2, <2>2
<1>8. ASSUME NEW n \in M, NEW m \in M, n # m
      PROVE  (ledger[n].from + 1 .. ledger[n].to) \cap (ledger[m].from + 1 .. ledger[m].to) = {}
  <2>1. PICK b \in 1..L : \E i \in DOMAIN R[b] : n = R[b][i]
    OBVIOUS
  <2>2. PICK i \in DOMAIN R[b] : n = R[b][i]
    BY <2>1
  <2>3. PICK c \in 1..L : \E j \in DOMAIN R[c] : m = R[c][j]
    OBVIOUS
  <2>4. PICK j \in DOMAIN R[c] : m = R[c][j]
    BY <2>3
  <2>5. PICK fn, tn, fm, tm : fn = ledger[n].from /\ tn = ledger[n].to /\ fm = ledger[m].from /\ tm = ledger[m].to
    OBVIOUS
  <2>6. fn \in Nat /\ tn \in Nat /\ fm \in Nat /\ tm \in Nat
    BY <1>3, <2>2, <2>4, <2>5
  <2>7. tn <= fm \/ tm <= fn
    <3>1. CASE b < c
      BY <1>6, <2>2, <2>4, <2>5, <3>1
    <3>2. CASE c < b
      BY <1>6, <2>2, <2>4, <2>5, <3>2
    <3>3. CASE b = c
      <4>1. i # j
        BY <1>8, <2>2, <2>4, <3>3
      <4>2. i < j \/ j < i
        <5>1. DOMAIN R[b] = 1..Len(R[b])
          OBVIOUS
        <5>2. i \in Int /\ j \in Int
          BY <3>3, <5>1
        <5> QED
          BY <4>1, <5>2
      <4>3. CASE i < j
        BY <1>7, <2>2, <2>4, <2>5, <3>3, <4>3
      <4>4. CASE j < i
        BY <1>7, <2>2, <2>4, <2>5, <3>3, <4>4
      <4> QED
        BY <4>2, <4>3, <4>4
    <3> QED
      BY <1>1, <3>1, <3>2, <3>3
  <2>8. \A x \in fn+1..tn : x \notin fm+1..tm
    BY <2>6, <2>7
  <2> QED
    BY <2>5, <2>8
<1> QED
  BY <1>4, <1>5, <1>8

(* A ledger in which the rows of M are marked.                             *)
Marked(s, M) == [s EXCEPT !.ledger = [n \in DOMAIN @ |-> [@[n] EXCEPT !.selected = n \in M]]]
LEMMA MarkedSound ==
    ASSUME NEW s, Sound(s), NEW M, NEW t, t = Marked(s, M)
    PROVE  /\ Sound(t) /\ SameCounts(s, t) /\ t.complete = s.complete
           /\ DOMAIN t.ledger = DOMAIN s.ledger
           /\ \A n \in DOMAIN s.ledger :
                /\ t.ledger[n].event = s.ledger[n].event /\ t.ledger[n].from = s.ledger[n].from
                /\ t.ledger[n].to = s.ledger[n].to /\ (t.ledger[n].selected <=> n \in M)
<1>1. s \in Sessions /\ Len(s.ledger) \in Nat /\ DOMAIN s.ledger = 1..Len(s.ledger)
  BY SoundStops
<1>2. PICK g, n : g = [i \in DOMAIN s.ledger |-> [s.ledger[i] EXCEPT !.selected = i \in M]] /\ n = Len(s.ledger)
  OBVIOUS
<1>3. \A i \in 1..n : s.ledger[i] \in LedgerRows
  BY <1>1, <1>2 DEF Sessions
<1>4. DOMAIN g = 1..n /\ \A i \in 1..n : g[i] = [s.ledger[i] EXCEPT !.selected = i \in M]
  BY <1>1, <1>2
<1>5. ASSUME NEW i \in 1..n
      PROVE  /\ g[i] \in LedgerRows /\ g[i].event = s.ledger[i].event /\ g[i].reason = s.ledger[i].reason
             /\ g[i].from = s.ledger[i].from /\ g[i].to = s.ledger[i].to /\ (g[i].selected <=> i \in M)
  <2>1. (i \in M) \in BOOLEAN
    OBVIOUS
  <2> QED
    BY <1>3, <1>4, <2>1 DEF LedgerRows
<1>6. g \in Seq(LedgerRows) /\ Len(g) = n
  <2>1. n \in Nat /\ g \in [1..n -> LedgerRows]
    BY <1>1, <1>2, <1>4, <1>5
  <2> QED
    BY <2>1
<1>7. t = [s EXCEPT !.ledger = g]
  BY <1>1, <1>2 DEF Marked, Sessions
<1>8. /\ t \in Sessions /\ t.ledger = g /\ t.candidates = s.candidates /\ t.states = s.states
      /\ t.work = s.work /\ t.stopped = s.stopped /\ t.exhausted = s.exhausted /\ t.complete = s.complete
  BY <1>1, <1>6, <1>7 DEF Sessions
<1>9. DOMAIN t.ledger = 1..n /\ DOMAIN s.ledger = 1..n /\ Len(t.ledger) = n /\ Len(s.ledger) = n
  BY <1>1, <1>2, <1>4, <1>6, <1>8
<1>10. \A i \in 1..n : /\ t.ledger[i].event = s.ledger[i].event /\ t.ledger[i].reason = s.ledger[i].reason
                       /\ t.ledger[i].from = s.ledger[i].from /\ t.ledger[i].to = s.ledger[i].to
                       /\ (t.ledger[i].selected <=> i \in M)
  BY <1>5, <1>8
<1>11. Sound(t)
  <2>1. (t.complete <=> \A i \in DOMAIN t.ledger : t.ledger[i].event = "Tried")
    BY <1>8, <1>9, <1>10 DEF Sound
  <2>2. (t.exhausted <=> \E i \in DOMAIN t.ledger : t.ledger[i].event = "BudgetStop")
    BY <1>8, <1>9, <1>10 DEF Sound
  <2>3. (t.stopped <=> \E i \in DOMAIN t.ledger : /\ t.ledger[i].event = "BudgetStop"
                                                  /\ t.ledger[i].reason # "ProviderBudget")
    BY <1>8, <1>9, <1>10 DEF Sound
  <2>4. /\ t.candidates <= config.candidates /\ t.states <= config.states /\ t.work <= config.work
        /\ Len(t.ledger) \in 1..config.ledger /\ (~t.stopped => Len(t.ledger) < config.ledger)
    BY <1>8, <1>9 DEF Sound
  <2> QED
    BY <1>8, <2>1, <2>2, <2>3, <2>4 DEF Sound
<1> QED
  BY <1>8, <1>9, <1>10, <1>11 DEF SameCounts

--------------------------------------------------------------------------------
(* What is behind the last block.                                          *)

LEMMA ReachableIs ==
    ASSUME input \in SearchInputs, offered \subseteq OfferSet, NEW b \in 1..Len(input)
    PROVE  Reachable(b) \in SUBSET Nat
<1>1. LiteralBytes[input[b]] \in Nat
  <2>1. input[b] \in Nat /\ \A n \in 0..input[b] : LiteralBytes[n] \in Nat
    BY BlockFacts
  <2> QED
    BY <2>1
<1>2. \A o \in offered : o.candidate.bytes \in Nat
  BY DEF OfferSet, ProvidedCandidates
<1>3. \A ends \in Cuts(input[b]) : CutBytes(b, ends) \in Nat
  BY CutBytesAre
<1> QED
  BY <1>1, <1>2, <1>3 DEF Reachable

(* The blocks chosen for, when the last of them is behind.                 *)
LEMMA AllBlocks ==
    ASSUME Ind, at.pc = "block", at.block > Len(input)
    PROVE  /\ at.block = Len(input) + 1 /\ Len(input) \in Nat /\ input \in SearchInputs /\ config \in SearchConfigs
           /\ config.archive \in Nat /\ at.paths = <<>> /\ ~InPaths /\ at \in Places /\ at.from = 0 /\ at.to = 1
           /\ offered \subseteq OfferSet /\ choices \in Seq(BlockChoices) /\ DOMAIN choices = 1..Len(input)
           /\ Len(choices) = Len(input)
           /\ \A b \in 1..Len(input) :
                /\ choices[b] \in BlockChoices /\ choices[b].bytes \in Nat /\ choices[b].rows \in Seq(Nat)
                /\ Rows(choices[b], b) /\ Fits(choices[b]) /\ Low(b, choices[b])
                /\ session.complete => High(b, choices[b])
<1>1. /\ at \in Places /\ input \in SearchInputs /\ config \in SearchConfigs
      /\ at.block \in 1..Len(input)+1 /\ ~InPaths /\ at.from = 0 /\ at.to = 1
  BY DEF Ind, PlaceInv, Outside
<1>2. Len(input) \in Nat /\ at.block = Len(input) + 1 /\ at.block - 1 = Len(input)
  BY <1>1, InputFacts
<1>3. offered \subseteq OfferSet
  BY DEF Ind, OfferInv, Over
<1>4. /\ choices \in Seq(BlockChoices) /\ Len(choices) = Len(input)
      /\ \A b \in 1..Len(input) :
           /\ Rows(choices[b], b) /\ Fits(choices[b]) /\ Low(b, choices[b])
           /\ session.complete => High(b, choices[b])
  BY <1>2 DEF Ind, BlocksInv, Over
<1>5. DOMAIN choices = 1..Len(input)
  BY <1>4
<1>6. \A b \in 1..Len(input) : choices[b] \in BlockChoices
  BY <1>4, <1>5
<1>7. \A b \in 1..Len(input) : choices[b].bytes \in Nat /\ choices[b].rows \in Seq(Nat)
  BY <1>6 DEF BlockChoices
<1>8. config.archive \in Nat
  BY <1>1, CapsAssumption
<1> QED
  BY <1>1, <1>2, <1>3, <1>4, <1>5, <1>6, <1>7, <1>8 DEF InPaths

LEMMA SelectedAre ==
    ASSUME Ind, at.pc = "block", at.block > Len(input)
    PROVE  /\ \A n : n \in Selected <=> \E b \in 1..Len(input) : \E i \in DOMAIN choices[b].rows : n = choices[b].rows[i]
           /\ \A b \in 1..Len(input) : DOMAIN choices[b].rows = 1..Len(choices[b].rows)
<1>1. /\ DOMAIN choices = 1..Len(input)
      /\ \A b \in 1..Len(input) : choices[b].rows \in Seq(Nat)
  BY AllBlocks
<1>2. \A b \in 1..Len(input) : DOMAIN choices[b].rows = 1..Len(choices[b].rows)
  BY <1>1
<1>3. Selected = UNION {{choices[b].rows[i] : i \in DOMAIN choices[b].rows} : b \in 1..Len(input)}
  BY <1>1 DEF Selected, ToSet
<1>4. ASSUME NEW n
      PROVE  n \in Selected <=> \E b \in 1..Len(input) : \E i \in DOMAIN choices[b].rows : n = choices[b].rows[i]
  BY <1>3
<1>5. \A n : n \in Selected <=> \E b \in 1..Len(input) : \E i \in DOMAIN choices[b].rows : n = choices[b].rows[i]
  BY <1>4
<1> QED
  BY <1>2, <1>5

(* A choice with rows is auditable, and its rows tile the block.           *)
LEMMA AuditableIs ==
    ASSUME Ind, at.pc = "block", at.block > Len(input)
    PROVE  /\ Auditable => \A b \in 1..Len(input) : Tiles(choices[b].rows, b, session.ledger)
           /\ Auditable => \A n \in Selected : n \in DOMAIN session.ledger /\ session.ledger[n].event = "Tried"
           /\ (\A b \in 1..Len(input) : choices[b].rows # <<0>>) => Auditable
           /\ ~session.stopped => Auditable
<1>1. \A b \in 1..Len(input) : Rows(choices[b], b)
  BY AllBlocks
<1>2. ASSUME Auditable, NEW b \in 1..Len(input) PROVE Tiles(choices[b].rows, b, session.ledger)
  <2>1. CASE choices[b].rows = <<0>>
    <3>1. 1 \in DOMAIN choices[b].rows /\ choices[b].rows[1] = 0
      BY <2>1
    <3>2. 0 \in Selected
      BY <3>1, SelectedAre
    <3> QED
      BY <1>2, <3>2 DEF Auditable
  <2> QED
    BY <1>1, <2>1 DEF Rows
<1>3. ASSUME Auditable, NEW n \in Selected
      PROVE  n \in DOMAIN session.ledger /\ session.ledger[n].event = "Tried"
  <2>1. PICK b \in 1..Len(input) : \E i \in DOMAIN choices[b].rows : n = choices[b].rows[i]
    BY SelectedAre
  <2> QED
    BY <1>2, <1>3, <2>1 DEF Tiles
<1>4. ASSUME \A b \in 1..Len(input) : Tiles(choices[b].rows, b, session.ledger)
      PROVE  Auditable
  <2>1. 0 \notin DOMAIN session.ledger
    BY SoundStops DEF Ind, SoundInv
  <2>2. \A b \in 1..Len(input) : \A i \in DOMAIN choices[b].rows : choices[b].rows[i] \in DOMAIN session.ledger
    BY <1>4 DEF Tiles
  <2> QED
    BY <2>1, <2>2, SelectedAre DEF Auditable
<1>5. (\A b \in 1..Len(input) : choices[b].rows # <<0>>) => Auditable
  BY <1>1, <1>4 DEF Rows
<1>6. ASSUME ~session.stopped PROVE Auditable
  BY <1>1, <1>4, <1>6 DEF Rows
<1> QED
  BY <1>2, <1>3, <1>5, <1>6

(* A complete search has chosen the least for every block.                 *)
LEMMA LeastChosen ==
    ASSUME Ind, at.pc = "block", at.block > Len(input), session.complete
    PROVE  Candidate = FileBytes + Total([b \in DOMAIN input |-> BlockBytes + Least(Reachable(b))])
<1>1. /\ Len(input) \in Nat /\ DOMAIN input = 1..Len(input) /\ DOMAIN choices = 1..Len(input)
      /\ offered \subseteq OfferSet /\ input \in SearchInputs
  BY AllBlocks, InputFacts
<1>2. ASSUME NEW b \in 1..Len(input) PROVE choices[b].bytes = Least(Reachable(b))
  <2>1. choices[b].bytes \in Nat /\ Low(b, choices[b]) /\ High(b, choices[b])
    <3>1. \A d \in 1..Len(input) : choices[d].bytes \in Nat /\ Low(d, choices[d])
      BY AllBlocks
    <3>2. \A d \in 1..Len(input) : session.complete => High(d, choices[d])
      BY AllBlocks
    <3> QED
      BY <3>1, <3>2
  <2>2. PICK S, n : S = Reachable(b) /\ n = choices[b].bytes
    OBVIOUS
  <2>3. S \in SUBSET Nat /\ n \in Nat
    BY <1>1, <2>1, <2>2, ReachableIs
  <2>4. (\E m \in S : m <= n) /\ \A m \in S : n <= m
    BY <2>1, <2>2 DEF Low, High
  <2>5. S # {}
    BY <2>4
  <2>6. Least(S) \in S /\ \A m \in S : Least(S) <= m
    BY <2>3, <2>5, LeastIs
  <2>7. n = Least(S)
    <3>1. PICK l : l = Least(S)
      OBVIOUS
    <3>2. l \in Nat /\ n <= l
      BY <2>3, <2>4, <2>6, <3>1
    <3>3. PICK m \in S : m <= n
      BY <2>4
    <3>4. m \in Nat /\ l <= m
      BY <2>3, <2>6, <3>1
    <3>5. n = l
      BY <2>3, <3>2, <3>3, <3>4
    <3> QED
      BY <3>1, <3>5
  <2> QED
    BY <2>2, <2>7
<1>3. [b \in DOMAIN choices |-> BlockBytes + choices[b].bytes]
      = [b \in DOMAIN input |-> BlockBytes + Least(Reachable(b))]
  BY <1>1, <1>2
<1> QED
  BY <1>3 DEF Candidate

--------------------------------------------------------------------------------
(* The choices as one archive.                                             *)

LEMMA CandidateIs ==
    ASSUME Ind, at.pc = "block", at.block > Len(input)
    PROVE  /\ Candidate \in Nat /\ LiteralArchive \in Nat
           /\ Len(input) = 1 => Candidate = ArchiveBytes(choices[1].bytes)
<1>1. /\ Len(input) \in Nat /\ DOMAIN choices = 1..Len(input) /\ input \in SearchInputs
      /\ \A b \in 1..Len(input) : choices[b].bytes \in Nat
  BY AllBlocks
<1>2. PICK a, n : a = [b \in DOMAIN choices |-> BlockBytes + choices[b].bytes] /\ n = Len(input)
  OBVIOUS
<1>3. \A b \in 1..n : BlockBytes + choices[b].bytes \in Nat
  BY <1>1, <1>2, BytesAssumption
<1>4. a \in Seq(Nat) /\ Len(a) = n
  <2>1. n \in Nat /\ a \in [1..n -> Nat]
    BY <1>1, <1>2, <1>3
  <2> QED
    BY <2>1
<1>5. Candidate = FileBytes + Total(a)
  BY <1>2 DEF Candidate
<1>6. Total(a) \in Nat
  <2>1. n \in Nat /\ \A i \in 1..n : a[i] \in Nat
    BY <1>1, <1>2, <1>3
  <2>2. \A i \in 1..Len(a) : a[i] <= a[i]
    BY <1>4, <2>1
  <2> QED
    BY <1>4, <2>2, TotalMonotone
<1>7. ASSUME n = 1 PROVE Candidate = ArchiveBytes(choices[1].bytes)
  <2>1. 1 \in 1..Len(input)
    BY <1>2, <1>7
  <2>2. a[1] = BlockBytes + choices[1].bytes /\ a[1] \in Nat /\ choices[1].bytes \in Nat
    BY <1>1, <1>2, <1>3, <2>1
  <2>3. Total(a) = a[1]
    BY <1>4, <1>7, <2>2, TotalOfOne
  <2> QED
    BY <1>5, <2>2, <2>3, BytesAssumption DEF ArchiveBytes
<1> QED
  BY <1>1, <1>2, <1>5, <1>6, <1>7, BytesAssumption, WholeFacts

(* What the last step of a search leaves.                                  *)
Assembled(s, over, wins) ==
    /\ over = (Candidate > config.archive)
    /\ s = IF over THEN Push([session EXCEPT !.complete = FALSE],
                             Row("HeuristicSkip", "CandidateArchiveLimit", 0, Total(input)))
           ELSE session
    /\ wins = (~over /\ Auditable /\ Candidate < LiteralArchive)
LEMMA AssembledIs ==
    ASSUME Ind, at.pc = "block", at.block > Len(input), NEW s, NEW over, NEW wins, Assembled(s, over, wins)
    PROVE  /\ Sound(s) /\ Grows(session, s) /\ SameCounts(session, s)
           /\ s.complete => session.complete /\ ~over
<1>1. Sound(session) /\ config \in SearchConfigs /\ input \in SearchInputs
  BY AllBlocks DEF Ind, SoundInv
<1>2. CASE over
  <2>1. PICK row, t : row = Row("HeuristicSkip", "CandidateArchiveLimit", 0, Total(input))
                      /\ t = Push([session EXCEPT !.complete = FALSE], row)
    OBVIOUS
  <2>2. Total(input) \in Nat
    BY <1>1, InputFacts
  <2>3. row \in LedgerRows /\ ~row.selected /\ row.event = "HeuristicSkip"
    BY <2>1, <2>2 DEF Row, LedgerRows, Tags, Reasons
  <2>4. Sound(t) /\ Grows(session, t) /\ SameCounts(session, t) /\ ~t.complete
    BY <1>1, <2>1, <2>3, PushSkip
  <2>5. s = t
    BY <1>2, <2>1 DEF Assembled
  <2> QED
    BY <2>4, <2>5
<1>3. CASE ~over
  <2>1. s = session
    BY <1>3 DEF Assembled
  <2>2. Grows(session, session) /\ SameCounts(session, session)
    BY <1>1 DEF Grows, SameCounts, Sound, Sessions
  <2> QED
    BY <1>1, <1>3, <2>1, <2>2
<1> QED
  BY <1>2, <1>3

(* The marked rows of a ledger cut the whole input.                        *)
CutBy(ledger) ==
    LET rows == {n \in DOMAIN ledger : ledger[n].selected}
    IN  /\ UNION {ledger[n].from + 1 .. ledger[n].to : n \in rows} = 1..Total(input)
        /\ \A n, m \in rows : n # m =>
             (ledger[n].from + 1 .. ledger[n].to) \cap (ledger[m].from + 1 .. ledger[m].to) = {}
LEMMA MarksAre ==
    ASSUME Ind, at.pc = "block", at.block > Len(input), NEW s, NEW over, NEW wins, Assembled(s, over, wins),
           NEW t, t = IF wins THEN Marked(s, Selected) ELSE s
    PROVE  /\ Sound(t) /\ SameCounts(session, t) /\ (t.complete => session.complete /\ ~over)
           /\ \A n \in DOMAIN t.ledger : t.ledger[n].selected => t.ledger[n].event = "Tried"
           /\ CutBy(t.ledger)
<1>1. /\ Sound(s) /\ Grows(session, s) /\ SameCounts(session, s)
      /\ s.complete => session.complete /\ ~over
  BY AssembledIs
<1>2. /\ Sound(session) /\ session \in Sessions /\ s \in Sessions /\ Unmarked
      /\ Len(session.ledger) \in Nat /\ DOMAIN session.ledger = 1..Len(session.ledger)
      /\ Len(s.ledger) \in Nat /\ DOMAIN s.ledger = 1..Len(s.ledger)
      /\ input \in SearchInputs
  BY <1>1, SoundStops, AllBlocks DEF Ind, SoundInv, UnmarkedInv
<1> DEFINE rows == {n \in DOMAIN t.ledger : t.ledger[n].selected}
<1>3. CASE wins
  <2>1. t = Marked(s, Selected) /\ Auditable
    BY <1>3 DEF Assembled
  <2>2. /\ Sound(t) /\ SameCounts(s, t) /\ t.complete = s.complete
        /\ DOMAIN t.ledger = DOMAIN s.ledger
        /\ \A n \in DOMAIN s.ledger :
             /\ t.ledger[n].event = s.ledger[n].event /\ t.ledger[n].from = s.ledger[n].from
             /\ t.ledger[n].to = s.ledger[n].to /\ (t.ledger[n].selected <=> n \in Selected)
    BY <1>1, <2>1, MarkedSound
  <2>3. \A n \in Selected : n \in DOMAIN s.ledger /\ s.ledger[n].event = "Tried"
    <3>1. \A n \in Selected : n \in DOMAIN session.ledger /\ session.ledger[n].event = "Tried"
      BY <2>1, AuditableIs
    <3>2. \A n \in DOMAIN session.ledger : n \in DOMAIN s.ledger /\ s.ledger[n] = session.ledger[n]
      BY <1>1, <1>2 DEF Grows
    <3> QED
      BY <3>1, <3>2
  <2>4. rows = Selected
    BY <2>2, <2>3
  <2>5. \A n \in DOMAIN t.ledger : t.ledger[n].selected => t.ledger[n].event = "Tried"
    BY <2>2, <2>3
  <2>6. PICK R : R = [b \in 1..Len(input) |-> choices[b].rows]
    OBVIOUS
  <2>7. \A b \in 1..Len(input) : Tiles(R[b], b, s.ledger) /\ DOMAIN R[b] = 1..Len(R[b])
    <3>1. \A b \in 1..Len(input) : Tiles(choices[b].rows, b, session.ledger)
      BY <2>1, AuditableIs
    <3>2. \A b \in 1..Len(input) : Tiles(choices[b].rows, b, s.ledger)
      BY <1>1, <1>2, <3>1, TilesStay
    <3>3. \A b \in 1..Len(input) : DOMAIN choices[b].rows = 1..Len(choices[b].rows)
      BY SelectedAre
    <3> QED
      BY <2>6, <3>2, <3>3
  <2>8. \A n : n \in Selected <=> \E b \in 1..Len(input) : \E i \in DOMAIN R[b] : n = R[b][i]
    BY <2>6, SelectedAre
  <2>9. /\ UNION {s.ledger[n].from + 1 .. s.ledger[n].to : n \in Selected} = 1..Total(input)
        /\ \A n, m \in Selected : n # m =>
             (s.ledger[n].from + 1 .. s.ledger[n].to) \cap (s.ledger[m].from + 1 .. s.ledger[m].to) = {}
    <3>1. PICK ledger, M : ledger = s.ledger /\ M = Selected
      OBVIOUS
    <3>2. /\ \A b \in 1..Len(input) : Tiles(R[b], b, ledger) /\ DOMAIN R[b] = 1..Len(R[b])
          /\ \A n : n \in M <=> \E b \in 1..Len(input) : \E i \in DOMAIN R[b] : n = R[b][i]
      BY <2>7, <2>8, <3>1
    <3>3. /\ UNION {ledger[n].from + 1 .. ledger[n].to : n \in M} = 1..Total(input)
          /\ \A n, m \in M : n # m =>
               (ledger[n].from + 1 .. ledger[n].to) \cap (ledger[m].from + 1 .. ledger[m].to) = {}
      BY ZenonT(60), <1>2, <3>2, TilesCover
    <3> QED
      BY <3>1, <3>3
  <2>10. \A n \in Selected : t.ledger[n].from = s.ledger[n].from /\ t.ledger[n].to = s.ledger[n].to
    BY <2>2, <2>3
  <2>11. UNION {t.ledger[n].from + 1 .. t.ledger[n].to : n \in rows} = 1..Total(input)
    BY <2>4, <2>9, <2>10
  <2>12. \A n, m \in rows : n # m =>
          (t.ledger[n].from + 1 .. t.ledger[n].to) \cap (t.ledger[m].from + 1 .. t.ledger[m].to) = {}
    BY <2>4, <2>9, <2>10
  <2>13. SameCounts(session, t)
    BY <1>1, <2>2 DEF SameCounts
  <2>14. CutBy(t.ledger)
    BY <2>11, <2>12 DEF CutBy
  <2> QED
    BY <1>1, <2>2, <2>5, <2>13, <2>14
<1>4. CASE ~wins
  <2>1. t = s
    BY <1>4
  <2>2. /\ 1 \in DOMAIN s.ledger /\ s.ledger[1] = LiteralRow
        /\ \A n \in DOMAIN s.ledger : s.ledger[n].selected => n = 1
    <3>1. 1 \in DOMAIN session.ledger
      BY <1>2 DEF Sound
    <3>2. 1 \in DOMAIN s.ledger /\ s.ledger[1] = session.ledger[1]
      BY <1>1, <1>2, <3>1 DEF Grows
    <3>3. session.ledger[1] = LiteralRow /\ \A n \in DOMAIN session.ledger : session.ledger[n].selected => n = 1
      BY <1>2 DEF Unmarked
    <3>4. \A n \in DOMAIN s.ledger : s.ledger[n].selected => n = 1
      BY <1>1, <3>3 DEF Grows
    <3> QED
      BY <3>2, <3>3, <3>4
  <2>3. LiteralRow.selected /\ LiteralRow.event = "Tried" /\ LiteralRow.from = 0 /\ LiteralRow.to = Total(input)
    BY DEF LiteralRow, Row
  <2>4. rows = {1}
    BY <2>1, <2>2, <2>3
  <2>5. UNION {t.ledger[n].from + 1 .. t.ledger[n].to : n \in rows} = 1..Total(input)
    <3>1. t.ledger[1].from = 0 /\ t.ledger[1].to = Total(input)
      BY <2>1, <2>2, <2>3
    <3> QED
      BY <2>4, <3>1
  <2>6. \A n, m \in rows : n = m
    BY <2>4
  <2>7. \A n \in DOMAIN t.ledger : t.ledger[n].selected => t.ledger[n].event = "Tried"
    BY <2>1, <2>2, <2>3
  <2>8. CutBy(t.ledger)
    BY <2>5, <2>6 DEF CutBy
  <2> QED
    BY <1>1, <2>1, <2>7, <2>8
<1> QED
  BY <1>3, <1>4

--------------------------------------------------------------------------------
(* The result.                                                             *)

LEMMA AssembleStep ==
    ASSUME Ind, config' = config, input' = input, Assemble
    PROVE  Ind'
<1>1. /\ at.pc = "block" /\ at.block > Len(input) /\ at' = [at EXCEPT !.pc = "done"]
      /\ UNCHANGED <<best, choices, offered>>
  BY DEF Assemble, GoTo
<1>2. PICK s, over, wins, t :
        /\ Assembled(s, over, wins) /\ t = (IF wins THEN Marked(s, Selected) ELSE s)
        /\ session' = t
        /\ outcome' = IF wins THEN [kind |-> "procedural", bytes |-> Candidate]
                      ELSE [kind |-> "literal", bytes |-> LiteralArchive]
  <2> DEFINE o == Candidate > config.archive
             u == IF o THEN Push([session EXCEPT !.complete = FALSE],
                                 Row("HeuristicSkip", "CandidateArchiveLimit", 0, Total(input)))
                  ELSE session
             w == ~o /\ Auditable /\ Candidate < LiteralArchive
             v == IF w THEN Marked(u, Selected) ELSE u
  <2>1. session' = v
    BY DEF Assemble, Marked
  <2>2. outcome' = IF w THEN [kind |-> "procedural", bytes |-> Candidate]
                   ELSE [kind |-> "literal", bytes |-> LiteralArchive]
    BY DEF Assemble
  <2>3. Assembled(u, o, w)
    BY DEF Assembled
  <2> HIDE DEF u, o, w
  <2> QED
    BY <2>1, <2>2, <2>3
<1>3. /\ over <=> (Candidate > config.archive)
      /\ wins <=> (~over /\ Auditable /\ Candidate < LiteralArchive)
  BY <1>2 DEF Assembled
<1>4. /\ Len(input) \in Nat /\ at.block = Len(input) + 1 /\ at.paths = <<>> /\ at \in Places
      /\ at.from = 0 /\ at.to = 1 /\ config.archive \in Nat
      /\ input \in SearchInputs /\ config \in SearchConfigs /\ offered \subseteq OfferSet
  BY <1>1, AllBlocks
<1>5. /\ at'.pc = "done" /\ at'.block = at.block /\ at'.paths = <<>> /\ at' \in Places
      /\ at'.from = 0 /\ at'.to = 1
  BY <1>1, <1>4 DEF Places, Phases
<1>6. /\ Sound(t) /\ SameCounts(session, t) /\ (t.complete => session.complete /\ ~over)
      /\ \A n \in DOMAIN t.ledger : t.ledger[n].selected => t.ledger[n].event = "Tried"
  BY <1>1, <1>2, MarksAre
<1>7. CutBy(t.ledger)
  BY <1>1, <1>2, MarksAre
<1>8. SoundInv'
  <2>1. /\ t \in Sessions /\ t.candidates <= config.candidates /\ t.states <= config.states
        /\ t.work <= config.work /\ Len(t.ledger) \in 1..config.ledger
        /\ ~t.stopped => Len(t.ledger) < config.ledger
        /\ t.complete <=> \A n \in DOMAIN t.ledger : t.ledger[n].event = "Tried"
        /\ t.exhausted <=> \E n \in DOMAIN t.ledger : t.ledger[n].event = "BudgetStop"
        /\ t.stopped <=> \E n \in DOMAIN t.ledger : /\ t.ledger[n].event = "BudgetStop"
                                                    /\ t.ledger[n].reason # "ProviderBudget"
    BY <1>6 DEF Sound
  <2>2. Sound(t)'
    BY <2>1 DEF Sound
  <2> QED
    BY <1>2, <2>1 DEF SoundInv, Sound
<1>9. LiteralArchive' = LiteralArchive /\ Total(input)' = Total(input)
  BY DEF LiteralArchive, ArchiveBytes
<1>10. PlaceInv'
  <2>1. LiteralArchive <= config.archive
    BY DEF Ind, PlaceInv
  <2>2. ~InPaths' /\ (LiteralArchive <= config.archive)'
    BY <1>5, <1>9, <2>1 DEF InPaths
  <2>3. at'.block \in 1..Len(input') + 1 /\ at'.block = Len(input') + 1
    BY <1>4, <1>5
  <2> QED
    BY <1>4, <1>5, <2>2, <2>3 DEF PlaceInv, Outside, OfInterval
<1>11. Candidate \in Nat /\ LiteralArchive \in Nat /\ (Len(input) = 1 => Candidate = ArchiveBytes(choices[1].bytes))
  BY <1>1, CandidateIs
<1>12. outcome'.bytes = (IF wins THEN Candidate ELSE LiteralArchive) /\ outcome'.bytes <= LiteralArchive
  <2>1. CASE wins
    BY <1>2, <1>3, <1>11, <2>1
  <2>2. CASE ~wins
    BY <1>2, <1>11, <2>2
  <2> QED
    BY <2>1, <2>2
<1>13. SearchTypeOK'
  <2>1. /\ t.candidates <= config.candidates /\ t.states <= config.states /\ t.work <= config.work
        /\ Len(t.ledger) \in 1..config.ledger /\ config.ledger \in Nat
    BY <1>4, <1>6, CapsAssumption DEF Sound
  <2>2. Len(t.ledger) <= config.ledger
    BY <2>1
  <2>3. \A r \in ToSet(t.ledger) : r.selected => r.event = "Tried"
    BY <1>6 DEF ToSet
  <2> QED
    BY <1>2, <1>5, <2>1, <2>2, <2>3 DEF SearchTypeOK, Ledger
<1>14. ExactWhenComplete'
  <2> SUFFICES ASSUME t.complete
               PROVE  outcome'.bytes = IF Candidate < LiteralArchive THEN Candidate ELSE LiteralArchive
    <3> DEFINE X == FileBytes + Total([b \in DOMAIN input |-> BlockBytes + Least(Reachable(b))])
    <3>1. Candidate = X \/ ~t.complete
      BY <1>1, <1>6, LeastChosen
    <3>2. \A b : Reachable(b)' = Reachable(b)
      BY <1>1, OffersUnchanged
    <3>3. X' = X
      BY <3>2
    <3>4. t.complete => outcome'.bytes = IF X < LiteralArchive THEN X ELSE LiteralArchive
      BY <3>1
    <3>5. t.complete => outcome'.bytes = IF X' < LiteralArchive' THEN X' ELSE LiteralArchive'
      BY <1>9, <3>3, <3>4
    <3> QED
      BY <1>2, <3>5 DEF ExactWhenComplete
  <2>1. ~over /\ session.complete
    BY <1>6
  <2>2. ~session.stopped
    BY SoundStops, <2>1 DEF Ind, SoundInv
  <2>3. Auditable
    BY <1>1, <2>2, AuditableIs
  <2> QED
    BY <1>3, <1>12, <2>1, <2>3
<1>15. StopsAreRecorded'
  <2>1. /\ t.complete <=> \A n \in DOMAIN t.ledger : t.ledger[n].event = "Tried"
        /\ t.exhausted <=> \E n \in DOMAIN t.ledger : t.ledger[n].event = "BudgetStop"
        /\ t.stopped <=> \E n \in DOMAIN t.ledger : /\ t.ledger[n].event = "BudgetStop"
                                                    /\ t.ledger[n].reason # "ProviderBudget"
    BY <1>6 DEF Sound
  <2>2. /\ t.complete <=> \A r \in ToSet(t.ledger) : r.event = "Tried"
        /\ t.exhausted <=> \E r \in ToSet(t.ledger) : r.event = "BudgetStop"
        /\ t.stopped <=> \E r \in ToSet(t.ledger) : r.event = "BudgetStop" /\ r.reason # "ProviderBudget"
    BY <2>1 DEF ToSet
  <2> QED
    BY <1>2, <2>2 DEF StopsAreRecorded, Ledger
<1>16. SelectedCoverInput'
  BY <1>2, <1>7, <1>9 DEF SelectedCoverInput, CutBy
<1>17. WholeBlockIsNotStarved'
  <2>1. ASSUME Len(input) = 1, session.states > 0, NEW o \in offered, o.whole
        PROVE  outcome'.bytes <= ArchiveBytes(o.candidate.bytes)
    <3>1. choices[1].rows # <<0>> /\ (\A n \in WholeBytes(1) : choices[1].bytes <= n) /\ at.block = 2
      BY <1>1, <1>4, <2>1 DEF Ind, StarvedInv, Over, InPaths
    <3>2. o.block = 1 /\ o.candidate.bytes \in Nat
      <4>1. o \in OfferSet /\ 1 <= o.block /\ o.block < at.block
        BY <1>1, <1>4 DEF Ind, OfferInv, Over
      <4> QED
        BY <3>1, <4>1 DEF OfferSet, ProvidedCandidates
    <3>3. PICK m, n : m = choices[1].bytes /\ n = o.candidate.bytes
      OBVIOUS
    <3>4. n \in WholeBytes(1)
      BY <2>1, <3>2, <3>3 DEF WholeBytes
    <3>5. m \in Nat /\ n \in Nat /\ m <= n /\ Fits(choices[1])
      BY <1>1, <2>1, <3>1, <3>2, <3>3, <3>4, AllBlocks
    <3>6. Candidate = ArchiveBytes(m) /\ ArchiveBytes(m) <= config.archive
      BY <1>11, <2>1, <3>3, <3>5 DEF Fits
    <3>7. ~over
      BY <1>3, <1>4, <1>11, <3>6
    <3>8. Auditable
      <4>1. \A b \in 1..Len(input) : choices[b].rows # <<0>>
        BY <2>1, <3>1
      <4> QED
        BY <1>1, <4>1, AuditableIs
    <3>9. ArchiveBytes(m) <= ArchiveBytes(n) /\ ArchiveBytes(n) \in Nat
      BY <3>5, BytesAssumption DEF ArchiveBytes
    <3>10. outcome'.bytes <= Candidate
      BY <1>3, <1>11, <1>12, <3>7, <3>8
    <3>11. outcome'.bytes \in Nat
      BY <1>11, <1>12
    <3> QED
      BY <1>11, <3>3, <3>6, <3>9, <3>10, <3>11
  <2>2. t.states = session.states
    BY <1>6 DEF SameCounts
  <2>3. ASSUME NEW o, NEW n, n = ArchiveBytes(o.candidate.bytes) PROVE n = ArchiveBytes(o.candidate.bytes)'
    BY <2>3 DEF ArchiveBytes
  <2> QED
    BY <1>1, <1>2, <1>9, <1>12, <2>1, <2>2, <2>3 DEF WholeBlockIsNotStarved
<1>18. ResultInv'
  BY <1>13, <1>14, <1>15, <1>16, <1>17 DEF ResultInv, SearchIsHonest
<1>19. BlocksInv' /\ BestInv' /\ EdgeInv' /\ PathInv' /\ CoverInv' /\ OfferInv' /\ StarvedInv' /\ UnmarkedInv'
  BY <1>5 DEF BlocksInv, BestInv, EdgeInv, PathInv, CoverInv, Covered, OfferInv, StarvedInv, UnmarkedInv,
              Over, Outside, OfInterval, OfPaths
<1> QED
  BY <1>8, <1>10, <1>18, <1>19 DEF Ind

--------------------------------------------------------------------------------
(* The theorem.                                                            *)

LEMMA StartStep ==
    ASSUME SearchInit
    PROVE  Ind
<1>1. /\ config \in SearchConfigs /\ input \in SearchInputs /\ LiteralArchive <= config.archive
      /\ session = [ledger |-> <<LiteralRow>>, candidates |-> 0, states |-> 0, work |-> 0,
                    stopped |-> FALSE, exhausted |-> FALSE, complete |-> TRUE]
      /\ at = Place(1, "block") /\ choices = <<>> /\ offered = {}
  BY DEF SearchInit, LiteralRow
<1>2. /\ config.candidates \in Nat /\ config.states \in Nat /\ config.work \in Nat
      /\ config.ledger \in Nat \ {0, 1}
  BY <1>1, CapsAssumption
<1>3. Len(input) \in Nat /\ Total(input) \in Nat
  BY <1>1, InputFacts
<1>4. LiteralRow \in LedgerRows /\ LiteralRow.event = "Tried" /\ LiteralRow.selected
  BY <1>3 DEF LiteralRow, Row, LedgerRows, Tags, Reasons
<1>5. /\ at \in Places /\ at.pc = "block" /\ at.block = 1 /\ at.paths = <<>> /\ at.from = 0 /\ at.to = 1
      /\ ~InPaths
  BY <1>1 DEF Place, Places, Phases, InPaths
<1>6. PICK l : l = <<LiteralRow>>
  OBVIOUS
<1>7. l \in Seq(LedgerRows) /\ Len(l) = 1 /\ DOMAIN l = 1..1 /\ l[1] = LiteralRow
  BY <1>4, <1>6
<1>8. /\ session \in Sessions /\ session.ledger = l /\ session.candidates = 0 /\ session.states = 0
      /\ session.work = 0 /\ ~session.stopped /\ ~session.exhausted /\ session.complete
  BY <1>1, <1>6, <1>7 DEF Sessions
<1>9. \A n \in DOMAIN session.ledger : n = 1 /\ session.ledger[n] = LiteralRow
  BY <1>7, <1>8
<1>10. SoundInv
  <2>1. Len(session.ledger) \in 1..config.ledger /\ Len(session.ledger) < config.ledger
    <3>1. PICK n : n = config.ledger
      OBVIOUS
    <3>2. n \in Nat /\ 1 < n /\ 1 \in 1..n
      BY <1>2, <3>1
    <3>3. Len(session.ledger) = 1
      BY <1>7, <1>8
    <3> QED
      BY <3>1, <3>2, <3>3
  <2>2. \A n \in DOMAIN session.ledger : session.ledger[n].event = "Tried"
    BY <1>4, <1>9
  <2> QED
    BY <1>2, <1>8, <2>1, <2>2 DEF SoundInv, Sound
<1>11. PlaceInv
  <2>1. at.block \in 1..Len(input) + 1
    BY <1>3, <1>5
  <2> QED
    BY <1>1, <1>5, <2>1 DEF PlaceInv, Outside, OfInterval
<1>12. BlocksInv
  <2>1. choices \in Seq(BlockChoices) /\ Len(choices) = 0
    BY <1>1
  <2> QED
    BY <1>5, <2>1 DEF BlocksInv
<1>13. /\ BestInv /\ EdgeInv /\ PathInv /\ CoverInv /\ ResultInv
  BY <1>5 DEF BestInv, EdgeInv, PathInv, CoverInv, Covered, ResultInv, Outside, OfInterval, OfPaths
<1>14. OfferInv
  BY <1>1, <1>5 DEF OfferInv
<1>15. StarvedInv
  BY <1>8 DEF StarvedInv
<1>16. UnmarkedInv
  BY <1>7, <1>8, <1>9 DEF UnmarkedInv, Unmarked
<1> QED
  BY <1>10, <1>11, <1>12, <1>13, <1>14, <1>15, <1>16 DEF Ind

LEMMA IdleStep ==
    ASSUME Ind, UNCHANGED searchVars
    PROVE  Ind'
<1> USE DEF searchVars
<1>1. SoundInv'
  BY DEF Ind, SoundInv, Sound
<1>2. PlaceInv'
  BY DEF Ind, PlaceInv, LiteralArchive, ArchiveBytes, InPaths, Here, Providers, InBlock
<1>3. Step
  <2>1. Sound(session') /\ Grows(session, session)
    <3>1. Len(session.ledger) \in Nat /\ Sound(session)
      BY SoundStops DEF Ind, SoundInv
    <3> QED
      BY <1>1, <3>1 DEF Grows, Sound, SoundInv
  <2> QED
    BY <2>1 DEF Step
<1>4. at \in Places /\ at' = at
  BY DEF Ind, PlaceInv
<1>5. BlocksInv'
  <2>1. CASE at.pc \in Over
    BY <1>4, <2>1 DEF BlocksInv
  <2>2. CASE at.pc \notin Over
    BY <1>3, <1>4, <2>2, BlocksStay
  <2> QED
    BY <2>1, <2>2
<1>6. BestInv'
  <2>1. CASE at.pc \in Outside
    BY <1>4, <2>1 DEF BestInv
  <2>2. CASE at.pc \notin Outside
    <3>1. /\ Here' = Here /\ Rows(best, at.block)' /\ Fits(best)'
          /\ \A b : WholeBytes(b)' = WholeBytes(b) /\ Reachable(b)' = Reachable(b)
      BY <1>3, <1>4, <2>2, MoveIs
    <3>2. BestInv /\ (InPaths' <=> InPaths)
      BY <1>4 DEF Ind, InPaths
    <3>3. WholeBytes(at.block)' = WholeBytes(at.block) /\ Reachable(at.block)' = Reachable(at.block)
      BY <1>4, <3>1
    <3>4. (Low(at.block, best) => Low(at.block, best)') /\ (High(at.block, best) => High(at.block, best)')
      BY <3>3 DEF Low, High
    <3> QED
      BY <1>4, <2>2, <3>1, <3>2, <3>3, <3>4 DEF BestInv
  <2> QED
    BY <2>1, <2>2
<1>7. EdgeInv'
  BY DEF Ind, EdgeInv, InPaths, Audited, Start, PieceBytes
<1>8. PathInv'
  <2>1. CASE InPaths /\ at.pc \notin OfPaths
    BY <1>4, <2>1 DEF PathInv
  <2>2. CASE InPaths => at.pc \in OfPaths
    BY <1>3, <1>4, <2>2, PathsStay
  <2> QED
    BY <2>1, <2>2
<1>9. CoverInv'
  BY DEF Ind, CoverInv, Covered, InPaths, Here, Priced, PieceBytes, Passed
<1>10. OfferInv'
  BY DEF Ind, OfferInv, InPaths, Passed, WholeBytes
<1>11. StarvedInv'
  BY DEF Ind, StarvedInv, InPaths, WholeBytes
<1>12. UnmarkedInv'
  BY DEF Ind, UnmarkedInv, Unmarked, LiteralRow
<1>13. ResultInv'
  BY DEF Ind, ResultInv, SearchIsHonest, SearchTypeOK, ExactWhenComplete, StopsAreRecorded, SelectedCoverInput,
         WholeBlockIsNotStarved, Done, Ledger, Providers, InBlock, Here, Reachable, CutBytes, PieceBytes,
         LiteralArchive, ArchiveBytes
<1> QED
  BY <1>1, <1>2, <1>5, <1>6, <1>7, <1>8, <1>9, <1>10, <1>11, <1>12, <1>13 DEF Ind

LEMMA StaysHonest ==
    ASSUME Ind, [SearchNext]_searchVars
    PROVE  Ind'
<1>1. CASE UNCHANGED searchVars
  BY <1>1, IdleStep
<1>2. CASE SearchNext
  <2>1. config' = config /\ input' = input
    BY <1>2 DEF SearchNext
  <2>2. CASE BeginBlock
    BY <2>1, <2>2, BeginBlockStep
  <2>search. CASE Search
    BY <2>1, <2>search, SearchStep
  <2>4. CASE Try
    BY <2>1, <2>4, TryStep
  <2>5. CASE NextProvider
    BY <2>1, <2>5, NextProviderStep
  <2>6. CASE StartPaths
    BY <2>1, <2>6, StartPathsStep
  <2>7. CASE NextInterval
    BY <2>1, <2>7, NextIntervalStep
  <2>8. CASE Extend
    BY <2>1, <2>8, ExtendStep
  <2>9. CASE ChoosePath
    BY <2>1, <2>9, ChoosePathStep
  <2>10. CASE EndBlock
    BY <2>1, <2>10, EndBlockStep
  <2>11. CASE Assemble
    BY <2>1, <2>11, AssembleStep
  <2> QED
    BY <1>2, <2>2, <2>search, <2>4, <2>5, <2>6, <2>7, <2>8, <2>9, <2>10, <2>11 DEF SearchNext
<1> QED
  BY <1>1, <1>2

LEMMA IsHonest ==
    ASSUME Ind
    PROVE  SearchIsHonest
<1>1. CASE at.pc = "done"
  BY <1>1 DEF Ind, ResultInv
<1>2. CASE at.pc # "done"
  <2>1. /\ session.candidates <= config.candidates /\ session.states <= config.states
        /\ session.work <= config.work /\ Len(session.ledger) \in 1..config.ledger
        /\ config \in SearchConfigs
    BY DEF Ind, SoundInv, Sound, PlaceInv
  <2>2. Len(session.ledger) <= config.ledger
    <3>1. config.ledger \in Nat
      BY <2>1, CapsAssumption
    <3> QED
      BY <2>1, <3>1
  <2>tried. \A r \in ToSet(session.ledger) : r.selected => r.event = "Tried"
    <3>1. Unmarked
      BY <1>2 DEF Ind, UnmarkedInv
    <3>2. LiteralRow.event = "Tried"
      BY DEF LiteralRow, Row
    <3> QED
      BY <3>1, <3>2 DEF Unmarked, ToSet
  <2>4. at.pc = "search" => at.provider \in DOMAIN Providers
    BY DEF Ind, PlaceInv
  <2>5. at.paths # <<>> => Len(at.paths) = Here + 1
    BY DEF Ind, PlaceInv, InPaths
  <2>6. SearchTypeOK
    BY <2>1, <2>2, <2>tried, <2>4, <2>5 DEF SearchTypeOK, Ledger
  <2> QED
    BY <1>2, <2>6 DEF SearchIsHonest, ExactWhenComplete, StopsAreRecorded, SelectedCoverInput,
                      WholeBlockIsNotStarved, Done
<1> QED
  BY <1>1, <1>2

(* For every input, any budgets and any answers of the providers, at every *)
(* place of the search (optimize_with_all_providers): one that ended       *)
(* complete made the least archive of all ways to cut the blocks into      *)
(* candidates it was offered, one that was kept from it has a row for that *)
(* in its ledger, the rows marked as selected cut the whole input, no      *)
(* result is worse than the literal archive and, for one block, none is    *)
(* worse than a candidate offered for the whole block.                     *)
THEOREM HonestSearch == SearchSpec => []SearchIsHonest
<1>1. SearchInit => Ind
  BY StartStep
<1>2. Ind /\ [SearchNext]_searchVars => Ind'
  BY StaysHonest
<1>3. Ind => SearchIsHonest
  BY IsHonest
<1> QED
  BY <1>1, <1>2, <1>3, PTL DEF SearchSpec
================================================================================
