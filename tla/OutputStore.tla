------------------------------ MODULE OutputStore ------------------------------
(***************************************************************************)
(* What the command lines promise the owner of the files: a name holds a   *)
(* whole file or nothing, a command changes it in one step to the result   *)
(* of compressing or restoring a file that was there, and a power loss     *)
(* brings back files the names have held.                                  *)
(***************************************************************************)
CONSTANTS Names, Contents, Nothing, Results(_)

VARIABLES
    store,    \* the file each name holds
    known     \* the files a power loss may leave it holding

vars == <<store, known>>

Init ==
    /\ store \in [Names -> Contents \cup {Nothing}]
    /\ known \in [Names -> SUBSET (Contents \cup {Nothing})]
    /\ \A n \in Names : store[n] \in known[n]

(* One command publishes: several names change together when they are      *)
(* links to one name.                                                      *)
Publish(content, touched) ==
    /\ store' \in [Names -> Contents \cup {Nothing}]
    /\ \A n \in Names : store'[n] # store[n] => n \in touched /\ store'[n] = content
    /\ known' = [n \in Names |-> IF n \in touched THEN known[n] \cup {content} ELSE known[n]]

PowerLoss ==
    /\ store' \in [Names -> Contents \cup {Nothing}]
    /\ \A n \in Names : store'[n] \in known[n]
    /\ UNCHANGED known

Next ==
    \/ \E content \in Results((UNION {known[n] : n \in Names}) \ {Nothing}) :
         \E touched \in SUBSET Names : Publish(content, touched)
    \/ PowerLoss

Spec == Init /\ [][Next]_vars
================================================================================
