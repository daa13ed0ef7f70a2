------------------------------ MODULE MCEvidence ------------------------------
(***************************************************************************)
(* Trials and what is made of them: a command under its timeout, a row of  *)
(* every trial, the table of the rows, the paired ablation table and the   *)
(* dominance certificates.  A behaviour is about one of the five, its      *)
(* part; the others rest where they start.                                 *)
(***************************************************************************)
EXTENDS TimedCommand, TrialPipeline, DominanceAnalysis, AblationAnalysis, TLC

CONSTANTS Parts   \* of "commands", "trials", "table", "pairs", "certificates"

-----------------------------------------------------------------------------
(* A native codec and a baseline whose archives differ by 1% or by 10%.    *)

Trial(state, bytes, det) == [status |-> state, bytes |-> bytes, det |-> det]
TrialOutcomes ==
  [c \in {"mathsvg", "zstd"} |->
     IF c = "mathsvg"
     THEN {Trial("ok", 100, TRUE), Trial("ok", 100, FALSE), Trial("failed", 0, FALSE)}
     ELSE {Trial("ok", 101, TRUE), Trial("ok", 110, FALSE)}]
NativeFirst == <<"mathsvg", "zstd">>
TwoFiles == <<"d1", "d2">>

-----------------------------------------------------------------------------
(* Two files twice, or one file three times; archives that differ by 1% or *)
(* by 20% in either direction.                                             *)

RunShapes ==
  {[files |-> {"f", "g"}, reps |-> 2], [files |-> {"f"}, reps |-> 3],
   [files |-> {"f", "g"}, reps |-> 1]}
\* t(1) = 12.706 and t(2) = 4.303, squared and multiplied by ten.
TenTSquare == [m \in 1..3 |-> CASE m = 1 -> 0 [] m = 2 -> 1614 [] m = 3 -> 185]

Side(state, roundtrip, det, hash, bytes, block) ==
  [status |-> state, roundtrip |-> roundtrip, det |-> det, hash |-> hash,
   bytes |-> bytes, block |-> block]
PairOutcomes ==
  [baseline |-> {Side("ok", TRUE, TRUE, "h", 100, 0), Side("ok", TRUE, TRUE, "l", 20, 0),
                 Side("timeout", FALSE, TRUE, "h", 0, 0), Missing},
   ablated |-> {Side("ok", TRUE, TRUE, "h", 101, 0), Side("ok", TRUE, TRUE, "l", 80, 0),
                Side("ok", TRUE, FALSE, "i", 120, 0), Side("ok", TRUE, TRUE, "i", 120, 1),
                Side("failed", FALSE, FALSE, "", 0, 0)}]

-----------------------------------------------------------------------------
(* Two profiles against a measured baseline and a required one.            *)

At(low, median, high) == [low |-> low, median |-> median, high |-> high]
Entry(state, roundtrip, det, reps, input, size, time) ==
  [status |-> state, roundtrip |-> roundtrip, det |-> det, reps |-> reps,
   input |-> input, metric |-> [m \in {"size", "time"} |->
                                  IF m = "size" THEN size ELSE time]]
Whole(reps, size, time) == Entry("complete", TRUE, TRUE, reps, "i", size, time)
Absent == [status |-> "absent"]
NotThere == [status |-> "unavailable", roundtrip |-> FALSE, det |-> FALSE,
                reps |-> 2, input |-> "i"]

AllEvidence ==
  [c \in {"fast", "max", "zstd", "xz"} |->
     CASE c = "fast" -> {Whole(2, At(10, 10, 10), At(40, 50, 55)),
                         Entry("partial", FALSE, TRUE, 2, "i", At(1, 1, 1), At(1, 2, 3)),
                         Entry("complete", TRUE, FALSE, 2, "i", At(10, 10, 10), At(8, 9, 10))}
       [] c = "max" -> {Whole(3, At(9, 9, 9), At(90, 95, 99)),
                        Whole(2, At(12, 12, 12), At(90, 95, 99)), Absent}
       [] c = "zstd" -> {Whole(3, At(10, 10, 10), At(100, 110, 120)),
                         Whole(2, At(20, 20, 20), At(52, 60, 70)),
                         Entry("complete", TRUE, FALSE, 2, "j", At(20, 20, 20), At(95, 96, 99)),
                         NotThere}
       [] c = "xz" -> {Absent}]

-----------------------------------------------------------------------------
VARIABLE part
allVars == <<part, vars, trialVars, summaryVars, pairVars, certificateVars>>

MCInit ==
  /\ part \in Parts
  /\ Init /\ TrialInit /\ SummaryInit /\ PairInit /\ CertificateInit
  /\ part # "commands" => runner = "process"
  \* A run whose pairs are not looked at has one shape and one configuration.
  /\ part # "pairs" => /\ pairShape = CHOOSE s \in Shapes : TRUE
                       /\ ~\E c \in pairConfigs : c.ablation = "none"

MCNext ==
  \/ part = "commands" /\ Next
       /\ UNCHANGED <<part, trialVars, summaryVars, pairVars, certificateVars>>
  \/ part = "trials" /\ TrialNext
       /\ UNCHANGED <<part, vars, summaryVars, pairVars, certificateVars>>
  \/ part = "table" /\ SummaryNext
       /\ UNCHANGED <<part, vars, trialVars, pairVars, certificateVars>>
  \/ part = "pairs" /\ PairNext
       /\ UNCHANGED <<part, vars, trialVars, summaryVars, certificateVars>>
  \/ part = "certificates" /\ CertificateNext
       /\ UNCHANGED <<part, vars, trialVars, summaryVars, pairVars>>

\* The fairness of TimedCommand: the clock advances, the caller is scheduled.
MCSpec == /\ MCInit /\ [][MCNext]_allVars
          /\ WF_vars(part = "commands" /\ Elapse) /\ WF_vars(part = "commands" /\ Call)
=============================================================================
