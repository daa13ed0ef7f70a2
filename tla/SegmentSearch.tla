----------------------------- MODULE SegmentSearch -----------------------------
(***************************************************************************)
(* The search of mathsvg-optimizer for the program of an input, under hard *)
(* budgets of candidates, states, work units and ledger rows that all its  *)
(* blocks share.  A block is an interval 0..n of microblocks.  Providers   *)
(* offer candidates for a whole block, then for every interval of it; the  *)
(* paths of interval candidates that reach n compete with them.  What is   *)
(* chosen competes, as one archive, with the literal archive.              *)
(* A number stands for a CandidateCost, whose last part is the archive.    *)
(***************************************************************************)
EXTENDS Integers, FiniteSets, Sequences, SequencesExt, Totals

CONSTANTS
  SearchConfigs,  \* records of caps: candidates, states, work, ledger, segments, archive
  SearchInputs,   \* sequences of block lengths
  Wholes, Intervals,  \* providers in canonical order
  Offers,      \* provider -> length -> the searches it may answer with
  FileBytes, BlockBytes, SplitBytes, BoundaryBytes, LiteralBytes, VerifyWork

ProvidedCandidates ==
  [rank : Nat, bytes : Nat, work : Nat, restores : BOOLEAN, from : Nat, to : Nat, row : Nat]
ProviderSearches ==
  [end : {"budget", "complete", "incomplete"}, work : Nat, candidates : Seq(ProvidedCandidates)]
Lengths == UNION {0..Total(blocks) : blocks \in SearchInputs}

\* validate_config refuses a ledger without room for the literal and a stop.
ASSUME CapsAssumption ==
  SearchConfigs \subseteq [candidates : Nat, states : Nat, work : Nat, ledger : Nat \ {0, 1},
                          segments : Nat, archive : Nat]
ASSUME SearchInputsAssumption == SearchInputs \subseteq Seq(Nat \ {0})
ASSUME OffersAssumption ==
  /\ Wholes \in Seq(DOMAIN Offers) /\ Intervals \in Seq(DOMAIN Offers)
  /\ \A p \in DOMAIN Offers : \A n \in Lengths \ {0} : Offers[p][n] \subseteq ProviderSearches
ASSUME BytesAssumption ==
  /\ FileBytes \in Nat /\ BlockBytes \in Nat /\ SplitBytes \in Nat /\ VerifyWork \in Nat
  /\ \A n \in Lengths : LiteralBytes[n] \in Nat
  /\ \A n \in Lengths \ {0} : BoundaryBytes[n] \in Nat

VARIABLES
  config, input,
  session,     \* SearchSession: the ledger and what is used of the budgets
  at,          \* where the search is: pc, block, provider, queue, interval, paths
  best,        \* the choice for the current block
  choices,     \* the choices for the blocks before it
  offered,     \* every search a provider answered with, and for what
  outcome
searchVars == <<config, input, session, at, best, choices, offered, outcome>>

Nothing == [bytes |-> 0]
Least(S) == CHOOSE n \in S : \A m \in S : n <= m
Start(b) == Total(SubSeq(input, 1, b - 1))
ArchiveBytes(bytes) == FileBytes + BlockBytes + bytes
LiteralArchive == ArchiveBytes(LiteralBytes[Total(input)])
Here == input[at.block]

-----------------------------------------------------------------------------
(* The session: its ledger keeps the last row for the event that stops it. *)

Row(event, reason, from, to) ==
  [event |-> event, reason |-> reason, from |-> from, to |-> to, bytes |-> 0, selected |-> FALSE]
\* Positions are those of the whole input.
RowHere(event, reason, from, to) == Row(event, reason, Start(at.block) + from, Start(at.block) + to)
CandidateRow(c) == [RowHere("Tried", "EvaluatedExact", c.from, c.to) EXCEPT !.bytes = c.bytes]

Stop(s, reason) ==
  IF s.stopped THEN s
  ELSE [s EXCEPT !.stopped = TRUE, !.exhausted = TRUE, !.complete = FALSE,
                 !.ledger = IF Len(@) < config.ledger
                            THEN Append(@, Row("BudgetStop", reason, 0, 0)) ELSE @]

\* Mutant: a row may be the last one.
RoomForRow(s) == IF Len(s.ledger) >= config.ledger THEN Stop(s, "LedgerBudget") ELSE s
\* can_push: the session stops rather than fill the last row.
Room(s) == IF Len(s.ledger) + 1 >= config.ledger THEN Stop(s, "LedgerBudget") ELSE s
Push(s, row) ==
  LET t == Room(s) IN IF t.stopped THEN t ELSE [t EXCEPT !.ledger = Append(@, row)]
ChargeWork(s, n) ==
  IF s.work + n > config.work THEN Stop(s, "WorkBudget") ELSE [s EXCEPT !.work = @ + n]
ChargeCandidate(s) ==
  IF s.candidates >= config.candidates THEN Stop(s, "CandidateBudget")
  ELSE [s EXCEPT !.candidates = @ + 1]
ChargeState(s) ==
  IF s.states >= config.states THEN Stop(s, "StateBudget") ELSE [s EXCEPT !.states = @ + 1]

\* A candidate is charged for, its decoding paid for, before it is evaluated.
Charged(s, c) == LET t == ChargeCandidate(s) IN IF t.stopped THEN t ELSE ChargeWork(t, c.work)

-----------------------------------------------------------------------------
(* Paths and choices.                                                      *)

Boundary(from) == IF from = 0 THEN 0 ELSE BoundaryBytes[from]
PathBytes(path) ==
  Total([i \in DOMAIN path |-> path[i].bytes + Boundary(path[i].from)])
    + (IF Len(path) > 1 THEN SplitBytes ELSE 0)
Choice(bytes, order, rows) == [bytes |-> bytes, order |-> order, rows |-> rows]
PathChoice(path) ==
  Choice(PathBytes(path), [i \in DOMAIN path |-> path[i].rank], [i \in DOMAIN path |-> path[i].row])
Earlier(p, q) ==
  \E n \in 0..Len(p) : /\ IsPrefix(SubSeq(p, 1, n), q)
                       /\ IF n = Len(p) THEN n < Len(q)
                          ELSE n < Len(q) /\ p[n + 1] < q[n + 1]
Better(c, d) == c.bytes < d.bytes \/ (c.bytes = d.bytes /\ Earlier(c.order, d.order))
\* encode_archive refuses what is over the archive limit: an error.
TooLarge(c) == ArchiveBytes(c.bytes) > config.archive

-----------------------------------------------------------------------------
Place(block, pc) ==
  [pc |-> pc, block |-> block, provider |-> 0, queue |-> <<>>, from |-> 0, to |-> 1,
   edges |-> <<>>, paths |-> <<>>]

SearchInit ==
  /\ config \in SearchConfigs /\ input \in SearchInputs
  /\ LiteralArchive <= config.archive
  /\ session = [ledger |-> <<[Row("Tried", "UniversalLiteralUpperBound", 0, Total(input))
                               EXCEPT !.selected = TRUE]>>,
                candidates |-> 0, states |-> 0, work |-> 0, stopped |-> FALSE,
                exhausted |-> FALSE, complete |-> TRUE]
  /\ at = Place(1, "block") /\ best = Nothing /\ choices = <<>> /\ offered = {}
  /\ outcome = Nothing

GoTo(pc) == at' = [at EXCEPT !.pc = pc]
\* An error ends the call, although the literal archive is at hand.
SearchFails(why) ==
  /\ at' = Place(at.block, "failed") /\ outcome' = [kind |-> why]
  /\ UNCHANGED <<session, best, choices>>

InBlock == at.paths = <<>>   \* the whole block is competed for, not intervals
From == IF InBlock THEN 0 ELSE at.from
To == IF InBlock THEN Here ELSE at.to
Providers == IF InBlock THEN Wholes ELSE Intervals
\* Where a stop leaves a block: the paths found so far still compete.
OnStop == IF InBlock THEN "chosen" ELSE "paths"

BeginBlock ==
  /\ at.pc = "block" /\ at.block <= Len(input)
  /\ session' = Push(session, RowHere("Tried", "BlockLiteralUpperBound", 0, Here))
  /\ best' = Choice(LiteralBytes[Here], <<1>>,
                    IF session'.stopped THEN <<0>> ELSE <<Len(session'.ledger)>>)
  /\ at' = Place(at.block, IF session'.stopped THEN "chosen" ELSE "try")
  /\ UNCHANGED <<choices, offered, outcome>>

\* A provider without candidates or work left answers with a budget stop.
BudgetStop == [end |-> "budget", work |-> 0, candidates |-> <<>>]
Answers(provider, length) ==
  IF session.candidates = config.candidates \/ session.work = config.work THEN {BudgetStop}
  ELSE {r \in Offers[provider][length] : session.work + r.work <= config.work} \cup {BudgetStop}
Event(r) == CASE r.end = "budget" -> <<"BudgetStop", "ProviderBudget">>
              [] r.end = "complete" -> <<"Tried", "ProviderSearchComplete">>
              [] r.end = "incomplete" -> <<"HeuristicSkip", "ProviderCatalogueIncomplete">>

Offer(c) == [block |-> at.block, from |-> From, to |-> To, whole |-> InBlock, candidate |-> c]

\* compete_whole_block_candidates and interval_edges ask the next provider.
Search ==
  /\ at.pc = "search"
  /\ IF Room(session).stopped
     THEN session' = Room(session) /\ GoTo(OnStop) /\ UNCHANGED offered
     ELSE \E r \in Answers(Providers[at.provider], To - From) :
            LET s == ChargeWork(session, r.work)
            IN  /\ session' = Push([s EXCEPT !.complete = @ /\ r.end = "complete",
                                              !.exhausted = @ \/ r.end = "budget"],
                                   RowHere(Event(r)[1], Event(r)[2], From, To))
                /\ at' = [at EXCEPT !.pc = "try", !.queue = r.candidates]
                /\ offered' = offered \cup {Offer(c) : c \in ToSet(r.candidates)}
  /\ UNCHANGED <<best, choices, outcome>>

\* The next candidate, of an interval or of the whole block.
Try ==
  /\ at.pc = "try" /\ at.queue # <<>>
  /\ LET c == [Head(at.queue) EXCEPT !.from = From, !.to = To]
         s == Charged(session, c)
         t == Push(s, CandidateRow(c))
         kept == [c EXCEPT !.row = Len(t.ledger)]
     IN  IF s.stopped
         THEN session' = s /\ GoTo(OnStop) /\ UNCHANGED <<best, choices, outcome>>
         ELSE IF ~c.restores THEN SearchFails("provider")
         ELSE IF TooLarge(c) THEN SearchFails("limit")
         ELSE /\ session' = t
              /\ at' = IF t.stopped THEN [at EXCEPT !.pc = OnStop]
                       ELSE [at EXCEPT !.queue = Tail(@),
                                       !.edges = IF InBlock THEN @ ELSE Append(@, kept)]
              /\ best' = IF InBlock /\ ~t.stopped /\ Better(PathChoice(<<kept>>), best)
                         THEN PathChoice(<<kept>>) ELSE best
              /\ UNCHANGED <<choices, outcome>>
  /\ UNCHANGED offered

NextProvider ==
  /\ at.pc = "try" /\ at.queue = <<>>
  /\ at' = [at EXCEPT !.provider = @ + 1,
                      !.pc = IF at.provider < Len(Providers) THEN "search"
                             ELSE IF InBlock THEN "whole" ELSE "extend"]
  /\ UNCHANGED <<session, best, choices, offered, outcome>>

\* Segmentation starts from one state, the empty path.
StartPaths ==
  /\ at.pc = "whole"
  /\ IF Intervals = <<>> THEN GoTo("chosen") /\ UNCHANGED session
     ELSE LET s == ChargeState(session)
          IN  /\ session' = s
              /\ at' = IF s.stopped THEN [at EXCEPT !.pc = "chosen"]
                       ELSE [at EXCEPT !.pc = "interval",
                                       !.paths = [i \in 1..Here + 1 |->
                                                   IF i = 1 THEN << <<>> >> ELSE <<>>]]
  /\ UNCHANGED <<best, choices, offered, outcome>>

Expandable ==
  LET paths == at.paths[at.from + 1]
      kept[n \in 0..Len(paths)] ==
        IF n = 0 THEN <<>>
        ELSE IF Len(paths[n]) < config.segments THEN Append(kept[n - 1], paths[n]) ELSE kept[n - 1]
  IN  kept[Len(paths)]
Literal(length) ==
  [rank |-> 0, bytes |-> LiteralBytes[length], work |-> VerifyWork, restores |-> TRUE,
   from |-> 0, to |-> 0, row |-> 0]

\* Every interval is tried as a literal first; no path, no interval.
NextInterval ==
  /\ at.pc = "interval"
  /\ at' = IF at.from = Here THEN [at EXCEPT !.pc = "paths"]
           ELSE IF Expandable = <<>> \/ at.to > Here
                THEN [at EXCEPT !.from = @ + 1, !.to = at.from + 2]
           ELSE [at EXCEPT !.pc = "try", !.provider = 0, !.edges = <<>>,
                           !.queue = <<Literal(at.to - at.from)>>]
  /\ UNCHANGED <<session, best, choices, offered, outcome>>

\* Every path to the start is extended by every edge, each for a unit of work
\* and a state, until one of them cannot be paid for.
Extensions(paths, edges) ==
  [k \in 1..Len(paths) * Len(edges) |->
     Append(paths[((k - 1) \div Len(edges)) + 1], edges[((k - 1) % Len(edges)) + 1])]
Affordable(n) == Least({n, config.work - session.work, config.states - session.states})
Extend ==
  /\ at.pc = "extend"
  /\ LET all == Extensions(Expandable, at.edges)
         made == Affordable(Len(all))
         paid == [session EXCEPT !.work = @ + made, !.states = @ + made]
         s == ChargeWork(paid, 1)
     IN  /\ session' = IF made = Len(all) THEN paid ELSE IF s.stopped THEN s ELSE ChargeState(s)
         /\ at' = [at EXCEPT !.paths[at.to + 1] = @ \o SubSeq(all, 1, made),
                             !.pc = IF session'.stopped THEN "paths" ELSE "interval",
                             !.to = @ + 1]
  /\ UNCHANGED <<best, choices, offered, outcome>>

\* Mutant: the first path replaces what competed for the whole block.
PathsOnly(paths) ==
  LET after[n \in 0..Len(paths)] ==
        IF n = 0 THEN best
        ELSE LET b == after[n - 1]
             IN  IF n = 1 \/ Better(PathChoice(paths[n]), b) THEN PathChoice(paths[n]) ELSE b
  IN  after[Len(paths)]
BestPath(paths) ==
  LET after[n \in 0..Len(paths)] ==
        IF n = 0 THEN best
        ELSE LET b == after[n - 1]
             IN  IF Better(PathChoice(paths[n]), b) THEN PathChoice(paths[n]) ELSE b
  IN  after[Len(paths)]

\* Every path that reached the end is serialized and competes.
ChoosePath ==
  /\ at.pc = "paths"
  /\ LET whole == at.paths[Here + 1]
         s == IF ~session.stopped /\ Here > config.segments
              THEN Push([session EXCEPT !.complete = FALSE],
                        RowHere("HeuristicSkip", "SegmentLimit", 0, Here))
              ELSE session
     IN  IF \E i \in DOMAIN whole : TooLarge(PathChoice(whole[i])) THEN SearchFails("limit")
         ELSE /\ session' = s /\ best' = BestPath(whole) /\ GoTo("chosen")
              /\ UNCHANGED <<choices, outcome>>
  /\ UNCHANGED offered

EndBlock ==
  /\ at.pc = "chosen"
  /\ choices' = Append(choices, best) /\ best' = Nothing
  /\ at' = Place(at.block + 1, "block")
  /\ UNCHANGED <<session, offered, outcome>>

Selected == UNION {ToSet(choices[b].rows) : b \in DOMAIN choices}
Candidate == FileBytes + Total([b \in DOMAIN choices |-> BlockBytes + choices[b].bytes])
\* Mutant: a choice without a row may win.
Unaudited == TRUE
Auditable == 0 \notin Selected

\* The choices as one archive against the literal one.
Assemble ==
  /\ at.pc = "block" /\ at.block > Len(input)
  /\ LET over == Candidate > config.archive
         s == IF over THEN Push([session EXCEPT !.complete = FALSE],
                                Row("HeuristicSkip", "CandidateArchiveLimit", 0, Total(input)))
              ELSE session
         wins == ~over /\ Auditable /\ Candidate < LiteralArchive
     IN  /\ outcome' = IF wins THEN [kind |-> "procedural", bytes |-> Candidate]
                       ELSE [kind |-> "literal", bytes |-> LiteralArchive]
         /\ session' = IF wins
                       THEN [s EXCEPT !.ledger = [n \in DOMAIN @ |->
                              [@[n] EXCEPT !.selected = n \in Selected]]]
                       ELSE s
         /\ GoTo("done")
  /\ UNCHANGED <<best, choices, offered>>

SearchNext ==
  /\ \/ BeginBlock \/ Search \/ Try \/ NextProvider \/ StartPaths \/ NextInterval
     \/ Extend \/ ChoosePath \/ EndBlock \/ Assemble
  /\ UNCHANGED <<config, input>>

SearchSpec == SearchInit /\ [][SearchNext]_searchVars

-----------------------------------------------------------------------------
(* Properties.                                                             *)

Done == at.pc = "done"
Ledger == ToSet(session.ledger)

\* validate_audit finds no fault in any search: its error would throw away a
\* result that is right.
SearchTypeOK ==
  /\ session.candidates <= config.candidates /\ session.states <= config.states
  /\ session.work <= config.work /\ Len(session.ledger) <= config.ledger
  /\ \A r \in Ledger : r.selected => r.event = "Tried"
  /\ at.pc = "search" => at.provider \in DOMAIN Providers
  /\ at.paths # <<>> => Len(at.paths) = Here + 1

\* All ways to cut a block, each piece by the least that was offered for it,
\* and all that was offered for the block itself.
PieceBytes(b, from, to) ==
  {LiteralBytes[to - from]}
    \cup {o.candidate.bytes : o \in {x \in offered : /\ x.block = b /\ ~x.whole
                                                     /\ x.from = from /\ x.to = to}}
Cuts(n) ==
  {ends \in UNION {[1..k -> 0..n] : k \in 2..n + 1} :
     /\ ends[1] = 0 /\ ends[Len(ends)] = n
     /\ \A i \in 1..Len(ends) - 1 : ends[i] < ends[i + 1]}
CutBytes(b, ends) ==
  PathBytes([i \in 1..Len(ends) - 1 |->
    [from |-> ends[i], bytes |-> Least(PieceBytes(b, ends[i], ends[i + 1]))]])
Reachable(b) ==
  {LiteralBytes[input[b]]}
    \cup {o.candidate.bytes : o \in {x \in offered : x.block = b /\ x.whole}}
    \cup (IF Intervals = <<>> THEN {} ELSE {CutBytes(b, ends) : ends \in Cuts(input[b])})

\* optimizer/README.md:8: a search that calls itself complete has found the
\* least archive of all segmentations into the candidates it was offered.
ExactWhenComplete ==
  Done /\ session.complete =>
    LET least == FileBytes + Total([b \in DOMAIN input |-> BlockBytes + Least(Reachable(b))])
    IN  outcome.bytes = IF least < LiteralArchive THEN least ELSE LiteralArchive

\* mathematical-spec.md:151: whatever kept a search from being complete has a
\* row in the ledger, which a full ledger never swallows.
StopsAreRecorded ==
  Done => /\ session.complete <=> \A r \in Ledger : r.event = "Tried"
          /\ session.exhausted <=> \E r \in Ledger : r.event = "BudgetStop"
          /\ session.stopped <=> \E r \in Ledger : r.event = "BudgetStop" /\ r.reason # "ProviderBudget"

\* The rows marked as selected cut the whole input into pieces that do not
\* overlap, and are what the archive is made of.
SelectedCoverInput ==
  Done =>
    LET rows == {n \in DOMAIN session.ledger : session.ledger[n].selected}
        covers(n) == session.ledger[n].from + 1 .. session.ledger[n].to
    IN  /\ UNION {covers(n) : n \in rows} = 1..Total(input)
        /\ \A n, m \in rows : n # m => covers(n) \cap covers(m) = {}

\* optimizer/README.md:49: once the whole block has been competed for, no
\* budget the search for intervals uses up costs an input of one block (as the
\* streaming encoder passes them) a candidate for it, and no result is worse
\* than the literal archive.
WholeBlockIsNotStarved ==
  Done =>
    /\ outcome.bytes <= LiteralArchive
    /\ Len(input) = 1 /\ session.states > 0 =>
         \A o \in offered : o.whole => outcome.bytes <= ArchiveBytes(o.candidate.bytes)

\* The result of a search under any budget: the best of what it claims to have
\* compared, with a ledger that shows what was not.
SearchIsHonest ==
  /\ SearchTypeOK
  /\ ExactWhenComplete /\ StopsAreRecorded /\ SelectedCoverInput /\ WholeBlockIsNotStarved

\* mathematical-spec.md:81: the literal archive is defined for every input, is
\* made first and is what is left: a search in which every provider keeps its
\* contract does not fail once that archive is within the limits.
LiteralIsFallback == at.pc = "failed" => outcome.kind = "provider"
================================================================================
