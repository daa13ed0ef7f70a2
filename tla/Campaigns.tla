------------------------------ MODULE Campaigns ------------------------------
(***************************************************************************)
(* What an output root of benchmark campaigns promises, abstractly         *)
(* (benchmarks/README.md:25-36): every campaign is a set of completed rows *)
(* that only grows; it is published when its grid is complete, is then     *)
(* what `latest` names, and never changes after it is marked complete.     *)
(***************************************************************************)
CONSTANTS Runs, Keys, None

VARIABLES
    rows,     \* the completed rows of every campaign
    done,     \* the campaigns whose checkpoint says "complete"
    latest    \* the campaign the published pointer names, or None

vars == <<rows, done, latest>>

Init ==
    /\ rows = [r \in Runs |-> {}]
    /\ done = {}
    /\ latest = None

Add(r, k) ==
    /\ r \notin done
    /\ k \notin rows[r]
    /\ rows' = [rows EXCEPT ![r] = @ \union {k}]
    /\ UNCHANGED <<done, latest>>

Publish(r) ==
    /\ rows[r] = Keys
    /\ r \notin done
    /\ latest' = r
    /\ UNCHANGED <<rows, done>>

Complete(r) ==
    /\ latest = r
    /\ r \notin done
    /\ done' = done \union {r}
    /\ UNCHANGED <<rows, latest>>

Next == \E r \in Runs : Publish(r) \/ Complete(r) \/ \E k \in Keys : Add(r, k)

Spec == Init /\ [][Next]_vars
=============================================================================
