---------------------------- MODULE MCAtomicPublish ----------------------------
(* Model-checking instances of AtomicPublish: directories of two names in  *)
(* every interesting shape and any two command lines over them.  A third   *)
(* name is used where a command writes what another one's input links to.  *)
EXTENDS AtomicPublish, TLC

(* Processes differ only in the jobs they are given. *)
ProcessSymmetry == Permutations(Processes)

MCNames == {"a", "b", "c"}
Plain == [data |-> "x", wraps |-> 0]
Archive == [data |-> "y", wraps |-> 1]
Corrupt == [data |-> "z", wraps |-> 1]

CorruptOnes == {Corrupt}

SymbolicLink(n) == [inode |-> 0, link |-> n]
Directory(first, second) ==
    [n \in MCNames |-> CASE n = "a" -> first [] n = "b" -> second [] n = "c" -> Free]

\* a lone input, two files, a corrupt archive beside a file, two hard links
\* to one file, a symbolic link to the input and one that leads nowhere
Directories ==
    {Directory(FileEntry(1), Free), Directory(FileEntry(2), FileEntry(1)),
     Directory(FileEntry(3), FileEntry(1)), Directory(FileEntry(2), FileEntry(2)),
     Directory(FileEntry(2), SymbolicLink("a")), Directory(SymbolicLink("b"), Free)}
(* A corrupt archive alone, for the commands that are killed and run again. *)
CrashDirectory == Directory(FileEntry(3), Free)
RaceDirectory == [Directory(SymbolicLink("b"), Free) EXCEPT !["c"] = FileEntry(1)]
AllDirectories == Directories \cup {CrashDirectory, RaceDirectory}
Files == <<Plain, Archive, Corrupt>>

TwoNames == {"a", "b"}
AnyJob ==
    [command : {"compress", "decompress"}, input : TwoNames, output : TwoNames, force : BOOLEAN]
      \cup [command : {"inspect"}, input : TwoNames, output : {"a"}, force : {FALSE}]

(* Commands that race for one name and feed each other. *)
CrashJobs ==
    {[command |-> "compress", input |-> "a", output |-> "b", force |-> FALSE],
     [command |-> "decompress", input |-> "a", output |-> "b", force |-> TRUE],
     [command |-> "decompress", input |-> "b", output |-> "a", force |-> TRUE]}

(* One command reads through a link what the other creates. *)
RaceJobs ==
    {[command |-> "compress", input |-> "a", output |-> "b", force |-> TRUE],
     [command |-> "compress", input |-> "c", output |-> "b", force |-> FALSE]}
AllJobs == AnyJob \cup RaceJobs

Races == FileEntry(1) \in past["c"]
Crashes == FileEntry(3) \in past["a"] /\ Free \in past["b"]

(* Two files are created; in the directory of the crashes three, and only  *)
(* there and where an output is a link is a killed command run again.      *)
Linked == SymbolicLink("a") \in past["b"]
FewFiles ==
    /\ used' < MaxInodes
    /\ \A p \in Processes :
         pc[p] = "killed" /\ pc'[p] = "start" => Linked /\ used + 1 < MaxInodes
MCSpec ==
    /\ Init
    /\ \A p \in Processes :
         job[p] \in IF Races THEN RaceJobs ELSE IF Crashes THEN CrashJobs ELSE AnyJob
    /\ [][Next /\ (FewFiles \/ Crashes)]_vars
================================================================================
