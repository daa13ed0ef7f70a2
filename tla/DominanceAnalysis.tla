----------------------------- MODULE DominanceAnalysis -----------------------------
(***************************************************************************)
(* Dominance certificates of analysis/dominance_pipeline.py and            *)
(* analysis/dominance.py: a MathSVG profile against a baseline, per file   *)
(* and for the corpus, on every metric, from the summary rows of one       *)
(* environment and the records behind them; the failures that go with the  *)
(* certificates and the Pareto envelope of the profiles.                   *)
(*                                                                         *)
(* The evidence of a codec on a file is given as its summary row would     *)
(* give it, with the median and the confidence interval of every metric;   *)
(* TrialSummary makes such rows from trials.                               *)
(***************************************************************************)
EXTENDS TrialSummary

CONSTANTS Profiles,       \* native configurations with records or required
          Baselines,      \* external ones, the same
          Metrics,        \* size, times and memory in the code
          Evidence        \* configuration -> what it may have on a data set

NoEvidence == [status |-> "absent"]
\* A configuration that did not succeed has no medians.
Measurement == [low : Nat, median : Nat, high : Nat]
Attempts == [status : STRING \ {"absent"}, roundtrip : BOOLEAN, det : BOOLEAN,
             reps : Nat, input : STRING]
Successes == [status : STRING \ {"absent"}, roundtrip : BOOLEAN, det : BOOLEAN,
              reps : Nat, input : STRING, metric : [Metrics -> Measurement]]

ASSUME EvidenceAssumption ==
  /\ IsFiniteSet(Profiles)
  /\ \A c \in Profiles \cup Baselines :
       Evidence[c] \subseteq {NoEvidence} \cup Attempts \cup Successes

HasEvidence(e) == e.status # "absent"
Scopes == DatasetSet \cup {Corpus}

-----------------------------------------------------------------------------
(* Summary rows.                                                           *)

FilesOf(ev, c) == {d \in DatasetSet : HasEvidence(ev[c][d])}
FilesIn(ev, c, scope) ==
  IF scope = Corpus THEN FilesOf(ev, c) ELSE FilesOf(ev, c) \cap {scope}

\* The corpus is measured where all its files are; sums of medians stand for
\* the medians of the sums of one schedule.
EvidenceRow(ev, c, scope) ==
  LET ds == FilesIn(ev, c, scope)
      sum(m, field) == SumOver([d \in ds |-> ev[c][d].metric[m][field]], ds)
  IN  [status |-> IF \A d \in ds : ev[c][d].status = "complete" THEN "complete"
                  ELSE "partial",
       roundtrip |-> \A d \in ds : ev[c][d].roundtrip,
       det |-> \A d \in ds : ev[c][d].det,
       reps |-> Max({ev[c][d].reps : d \in ds}),
       metric |-> IF \A d \in ds : "metric" \in DOMAIN ev[c][d]
                  THEN [m \in Metrics |->
                          [median |-> sum(m, "median"), low |-> sum(m, "low"),
                           high |-> sum(m, "high")]]
                  ELSE <<>>]
HasRow(ev, c, scope) == FilesIn(ev, c, scope) # {}
HasPoint(ev, c, scope) ==
  HasRow(ev, c, scope) /\ DOMAIN EvidenceRow(ev, c, scope).metric = Metrics

Gap(x, y) == IF x > y THEN x - y ELSE y - x
Larger(x, y) == IF x > y THEN x ELSE y
CloseMedians(r, q) ==
  \E m \in Metrics : 50 * Gap(r.metric[m].median, q.metric[m].median)
                       < Larger(r.metric[m].median, q.metric[m].median)

\* The confidence of the summary table: ten repetitions where any other
\* configuration is close.
CloseToAny(ev, c, scope) ==
  \E o \in (Profiles \cup Baselines) \ {c} :
    /\ HasPoint(ev, o, scope) /\ EvidenceRow(ev, o, scope).status = "complete"
    /\ CloseMedians(EvidenceRow(ev, c, scope), EvidenceRow(ev, o, scope))

SummaryReady(ev, c, scope) ==
  LET row == EvidenceRow(ev, c, scope)
  IN  /\ row.status = "complete" /\ row.roundtrip
      /\ row.reps >= IF CloseToAny(ev, c, scope) THEN StrictReps ELSE MinReps
      /\ c \in Profiles => row.det

-----------------------------------------------------------------------------
(* One comparison.                                                         *)

PairProtocolOk(p, b) ==
  LET minimum == IF CloseMedians(p, b) THEN StrictReps ELSE MinReps
  IN  p.reps >= minimum /\ b.reps >= minimum

NotWorse(p, b, m) == p.metric[m].median <= b.metric[m].median

Separated(p, b, m) ==
  IF NotWorse(p, b, m) THEN p.metric[m].high <= b.metric[m].low
  ELSE p.metric[m].low > b.metric[m].high

Direction(ev, p, b, scope, m) ==
  LET r == EvidenceRow(ev, p, scope)
      q == EvidenceRow(ev, b, scope)
  IN  IF /\ SummaryReady(ev, p, scope) /\ SummaryReady(ev, b, scope)
         /\ PairProtocolOk(r, q) /\ Separated(r, q, m)
      THEN "confirmed" ELSE "inconclusive"

\* Mutant: only files both sides have are compared.
CommonIdentity(ev, p, b, scope) ==
  \A d \in FilesIn(ev, p, scope) \cap FilesIn(ev, b, scope) :
    ev[p][d].input = ev[b][d].input
\* Both sides cover the same data sets and read the same input for each.
IdentityOk(ev, p, b, scope) ==
  /\ FilesIn(ev, p, scope) = FilesIn(ev, b, scope)
  /\ \A d \in FilesIn(ev, p, scope) : ev[p][d].input = ev[b][d].input

PairConfidence(ev, p, b, scope) ==
  IF ~(HasPoint(ev, p, scope) /\ HasPoint(ev, b, scope)) THEN "not-measured"
  ELSE IF /\ IdentityOk(ev, p, b, scope)
          /\ \A m \in Metrics : Direction(ev, p, b, scope, m) = "confirmed"
       THEN "confirmed" ELSE "inconclusive"

Strict(p, b) == {m \in Metrics : p.metric[m].median < b.metric[m].median}

\* The certificate and its reasons against it.
Passes(ev, p, b, scope) ==
  /\ HasRow(ev, p, scope) /\ HasRow(ev, b, scope)
  /\ PairConfidence(ev, p, b, scope) = "confirmed"
  /\ LET r == EvidenceRow(ev, p, scope)
         q == EvidenceRow(ev, b, scope)
     IN  /\ r.roundtrip /\ q.roundtrip /\ r.det
         /\ \A m \in Metrics : NotWorse(r, q, m)
         /\ Strict(r, q) # {}

AnyUnavailable(ev, c, scope) ==
  \E d \in FilesIn(ev, c, scope) : ev[c][d].status = "unavailable"

ComparisonStatus(ev, p, b, scope) ==
  LET both == HasRow(ev, p, scope) /\ HasRow(ev, b, scope)
  IN  IF Passes(ev, p, b, scope) THEN "pass"
      ELSE IF both /\ ~IdentityOk(ev, p, b, scope) THEN "incomparable"
      ELSE IF ~both THEN "missing"
      ELSE IF AnyUnavailable(ev, p, scope) \/ AnyUnavailable(ev, b, scope) THEN "unavailable"
      ELSE IF PairConfidence(ev, p, b, scope) # "confirmed" THEN "inconclusive"
      ELSE "fail"

ComparisonRow(ev, p, b, scope) ==
  [profile |-> p, baseline |-> b, scope |-> scope,
   status |-> ComparisonStatus(ev, p, b, scope),
   pass |-> Passes(ev, p, b, scope)]

-----------------------------------------------------------------------------
(* The artifacts: build_dominance_artifacts.                               *)

\* Mutant: only configurations with records are compared.
FoundRows(ev) ==
  {ComparisonRow(ev, p, b, s) :
     p \in {c \in Profiles : FilesOf(ev, c) # {}},
     b \in {c \in Baselines : FilesOf(ev, c) # {}}, s \in Scopes}
\* Required configurations without any record have their rows, too.
Built(ev) == {ComparisonRow(ev, p, b, s) : p \in Profiles, b \in Baselines, s \in Scopes}

Failures(ev) == {r \in Built(ev) : ~r.pass}

\* Mutant: a point needs no complete evidence.
PlottedPoint(ev, p, scope) == HasPoint(ev, p, scope)
\* _native_point_available.
PointAvailable(ev, p, scope) ==
  /\ HasPoint(ev, p, scope)
  /\ LET r == EvidenceRow(ev, p, scope) IN r.status = "complete" /\ r.roundtrip /\ r.det

Dominates(r, q) ==
  /\ \A m \in Metrics : r.metric[m].median <= q.metric[m].median
  /\ \E m \in Metrics : r.metric[m].median < q.metric[m].median

\* Mutant: every profile is looked at, complete or not.
AllPoints(ev, scope) ==
  {p \in Profiles : /\ PointAvailable(ev, p, scope)
                    /\ ~\E o \in Profiles : HasPoint(ev, o, scope)
                          /\ Dominates(EvidenceRow(ev, o, scope), EvidenceRow(ev, p, scope))}
Envelope(ev, scope) ==
  LET points == {p \in Profiles : PointAvailable(ev, p, scope)}
  IN  {p \in points : ~\E o \in points :
                         Dominates(EvidenceRow(ev, o, scope), EvidenceRow(ev, p, scope))}

Artifacts(ev) ==
  [rows |-> Built(ev), failures |-> Failures(ev),
   pareto |-> [s \in Scopes |-> Envelope(ev, s)]]

-----------------------------------------------------------------------------
(* An environment whose evidence comes cell by cell, and its artifacts.    *)

VARIABLES drawn,      \* evidence so far: <<configuration, data set>> -> evidence
          artifacts   \* what the pipeline wrote, empty before

certificateVars == <<drawn, artifacts>>

Nothing == [rows |-> {}, failures |-> {}, pareto |-> [s \in Scopes |-> {}]]
CellSet == (Profiles \cup Baselines) \X DatasetSet

CertificateInit == drawn = <<>> /\ artifacts = Nothing

Measure ==
  /\ artifacts = Nothing /\ DOMAIN drawn # CellSet
  /\ LET cell == CHOOSE c \in CellSet \ DOMAIN drawn : TRUE
     IN  \E e \in Evidence[cell[1]] :
           drawn' = [c \in DOMAIN drawn \cup {cell} |->
                       IF c = cell THEN e ELSE drawn[c]]
  /\ UNCHANGED artifacts

EvidenceOf(d) ==
  [c \in Profiles \cup Baselines |-> [f \in DatasetSet |-> d[<<c, f>>]]]

Analyse ==
  /\ artifacts = Nothing /\ DOMAIN drawn = CellSet
  /\ \E cell \in CellSet : HasEvidence(drawn[cell])
  /\ artifacts' = Artifacts(EvidenceOf(drawn))
  /\ UNCHANGED drawn

CertificateNext == Measure \/ Analyse
CertificateSpec == CertificateInit /\ [][CertificateNext]_certificateVars

-----------------------------------------------------------------------------

ArtifactsTyped ==
  /\ DOMAIN drawn \subseteq CellSet
  /\ artifacts.failures \subseteq artifacts.rows
  /\ \A s \in Scopes : \A p \in artifacts.pareto[s] :
       \A d \in FilesIn(EvidenceOf(drawn), p, s) : drawn[<<p, d>>].status = "complete"

\* A certificate that passes compares, file by file, complete and restored
\* evidence of both sides on the same input, with enough repetitions for
\* every metric, disjoint intervals in favour of the profile, and a metric
\* that is strictly better.
PassMeansDominates ==
  \A r \in artifacts.rows : r.pass =>
    LET ds == IF r.scope = Corpus THEN DatasetSet ELSE {r.scope}
        here == {d \in ds : HasEvidence(drawn[<<r.profile, d>>])}
        p(d) == drawn[<<r.profile, d>>]
        b(d) == drawn[<<r.baseline, d>>]
        total(m, c, field) ==
          SumOver([d \in here |-> drawn[<<c, d>>].metric[m][field]], here)
    IN  /\ here = {d \in ds : HasEvidence(drawn[<<r.baseline, d>>])} /\ here # {}
        /\ \A d \in here : /\ p(d).status = "complete" /\ b(d).status = "complete"
                           /\ p(d).roundtrip /\ b(d).roundtrip /\ p(d).det
                           /\ p(d).input = b(d).input
        /\ \A m \in Metrics : total(m, r.profile, "high") <= total(m, r.baseline, "low")
        /\ \/ \E d \in here : p(d).reps >= StrictReps
           \/ \A m \in Metrics : 50 * (total(m, r.baseline, "median")
                                         - total(m, r.profile, "median"))
                                    >= total(m, r.baseline, "median")
        /\ \E m \in Metrics :
             total(m, r.profile, "median") < total(m, r.baseline, "median")

\* Every pair of configurations, required ones included, has one row for
\* every data set and one for the corpus, and what does not pass is listed
\* among the failures with a status that says so.
NothingIsOmitted ==
  artifacts # Nothing =>
    /\ \A p \in Profiles, b \in Baselines, s \in Scopes :
         Cardinality({r \in artifacts.rows :
                        r.profile = p /\ r.baseline = b /\ r.scope = s}) = 1
    /\ \A r \in artifacts.rows : r \in artifacts.failures <=> r.status # "pass"
    /\ \A r \in artifacts.rows :
         (r.scope # Corpus /\ r.status = "missing") =>
           \E c \in {r.profile, r.baseline} : ~HasEvidence(drawn[<<c, r.scope>>])

\* The envelope is the set of maximal points: none of it is dominated by a
\* profile with a point of its own, and everything that has a point and is
\* left out is dominated by something in it.
EnvelopeIsMaximal ==
  artifacts # Nothing =>
    LET ev == EvidenceOf(drawn)
    IN  \A s \in Scopes :
          /\ \A p, q \in artifacts.pareto[s] : ~Dominates(EvidenceRow(ev, p, s), EvidenceRow(ev, q, s))
          /\ \A p \in Profiles \ artifacts.pareto[s] : PointAvailable(ev, p, s) =>
               \E q \in artifacts.pareto[s] : Dominates(EvidenceRow(ev, q, s), EvidenceRow(ev, p, s))

\* The certificates and the envelope are those of the whole evidence: a pass
\* dominates, nothing that is required is passed over, nothing better is left
\* out.
CertificatesHold ==
  /\ ArtifactsTyped
  /\ PassMeansDominates /\ NothingIsOmitted /\ EnvelopeIsMaximal

\* The table of an interrupted campaign (build_summary_rows) and the
\* certificates made of such rows (build_dominance_artifacts) say no more than
\* the trials behind them, and leave none of them out.
TablesHold == TableKeepsFailures /\ CertificatesHold
================================================================================
