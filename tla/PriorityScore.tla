---------------------------- MODULE PriorityScore ----------------------------
(***************************************************************************)
(* The priority of a finding: a base product of severity and criticality,  *)
(* a floor for known exploitation, and points added by the other signals,  *)
(* each scaled by a weight of the workspace (core/scoring.py,              *)
(* core/cvss.py, core/scoring_config.py, api/scoring_weights.py).  Weights *)
(* are counted in halves, so that every product is an integer.             *)
(***************************************************************************)
EXTENDS Integers, Sequences, FiniteSets, FiniteSetsExt, Functions

CONSTANTS
  Severities,     \* severity weights, out of 1..5
  Criticalities,  \* Target.criticality_weight as stored
  Vectors,        \* CVSS vectors: functions from metric names to letters
  Postures,       \* labels and environments an owner may record
  PutWeights,     \* weights someone asks the API for, in halves
  MaxRows         \* bound on the weights stored at one time

ASSUME ScoreAssumption ==
  /\ Severities \subseteq 1..5 /\ Criticalities \subseteq Int
  /\ PutWeights \subseteq Int /\ MaxRows \in Nat

VARIABLES
  signals,   \* what is known of one finding
  weightRows \* the ScoringWeight rows of its workspace

scoreVars == <<signals, weightRows>>

BASE_UNIT == 40
MAX_SCORE == 1000
KEV_FLOOR == 900
EPSS_BUMP == 160
CVSS_EXPLOITABILITY_MAX_POINTS == 200
INTERNET_EXPOSURE_MAX_POINTS == 180
FIXABILITY_POINTS == 120
DEPENDENCY_SCOPE_POINTS == 140

BASELINE_WEIGHTS == [severity |-> 2, criticality |-> 2, kev |-> 2, epss |-> 2,
                     cvss |-> 0, exposure |-> 0, fixability |-> 0, scope |-> 0]

Signal == DOMAIN BASELINE_WEIGHTS
MAX_WEIGHT == 20
Garbage == -1000 \* a NaN, an infinity or text in the column

\* round(a / b), to the even neighbour in a tie.
Round(a, b) ==
  LET q == a \div b
      r == a % b
  IN  IF 2 * r < b \/ (2 * r = b /\ q % 2 = 0) THEN q ELSE q + 1

\* Mutant: a negative weight goes through.
ResolveWeightsHigh(stored) ==
  [s \in Signal |-> IF s \notin DOMAIN stored \/ stored[s] = Garbage THEN BASELINE_WEIGHTS[s]
                    ELSE Min({MAX_WEIGHT, stored[s]})]

\* resolve_weights: garbage is ignored, the rest clamped.
ResolveWeights(stored) ==
  [s \in Signal |-> IF s \notin DOMAIN stored \/ stored[s] = Garbage THEN BASELINE_WEIGHTS[s]
                    ELSE Min({MAX_WEIGHT, Max({0, stored[s]})})]

\* The metric tables of core/cvss.py, in hundredths.
Exploitable ==
  [AV |-> [N |-> 100, A |-> 62, L |-> 35, P |-> 15],
   AC |-> [L |-> 100, M |-> 70, H |-> 44],
   PR |-> [N |-> 100, L |-> 62, H |-> 27],
   UI |-> [N |-> 100, P |-> 62, R |-> 45, A |-> 45]]

\* parse_cvss_vector: the metrics whose letters are known.
Decoded(vector) == {m \in DOMAIN vector \cap DOMAIN Exploitable : vector[m] \in DOMAIN Exploitable[m]}

\* exploitability() has a value: something decoded, and the vector is not of
\* version 2, which is told by Au when it names no version.
Comparable(vector) == Decoded(vector) # {} /\ ("CVSS" \in DOMAIN vector \/ "Au" \notin DOMAIN vector)

\* The points of the CVSS signal: a share of the maximum, by the mean of the
\* decoded metrics.
CvssPoints(vector, h) ==
  LET sum == SumFunction([m \in Decoded(vector) |-> Exploitable[m][vector[m]]])
  IN  Round(CVSS_EXPLOITABILITY_MAX_POINTS * h * sum, 200 * Cardinality(Decoded(vector)))

\* resolve_exposure: the label is read before the environment; in halves.
Exposure(label, env) ==
  CASE label = "public"                  -> [factor |-> 2, established |-> TRUE]
    [] label = "private"                 -> [factor |-> 0, established |-> TRUE]
    [] label = "production" \/ (label \notin {"public", "private"} /\ env = "production")
                                         -> [factor |-> 1, established |-> TRUE]
    [] OTHER -> [factor |-> 0, established |-> env = "staging"]

\* Mutant: what was offered is recorded, not what was added.
AddOffered(at, points) ==
  [at EXCEPT !.score = Min({MAX_SCORE, @ + points}), !.points = Append(@, points),
             !.capped = @ \/ at.score + points > MAX_SCORE]

\* _add: no more than the maximum, and a note when something was cut off.
AddPoints(at, points) ==
  LET raised == Min({MAX_SCORE, at.score + points})
  IN  [at EXCEPT !.score = raised, !.points = Append(@, raised - at.score),
                 !.capped = @ \/ at.score + points > MAX_SCORE]

\* The product of severity and criticality, both moved towards 1 by a weight
\* below the baseline.
BaseProduct(f, w) ==
  LET crit == Max({1, Min({5, f.criticality})})
      sev  == BASE_UNIT * (2 + (f.severity - 1) * w.severity)
      both == sev * (2 + (crit - 1) * w.criticality)
  IN  [score  |-> Min({MAX_SCORE, both \div 4}), capped |-> both \div 4 > MAX_SCORE,
       points |-> <<sev \div 2 - BASE_UNIT, both \div 4 - sev \div 2>>]

\* The floor of a KEV listing.
KevFloor(f, w, at) ==
  LET raised == IF f.kev THEN Max({at.score, Min({MAX_SCORE, (KEV_FLOOR * w.kev) \div 2})})
                ELSE at.score
  IN  [at EXCEPT !.score = raised, !.points = Append(@, raised - at.score)]

\* compute_score_breakdown: severity, criticality, KEV, EPSS, CVSS, scope,
\* exposure and fixability, in this order.
Breakdown(f, stored) ==
  LET w    == ResolveWeights(stored)
      kev  == KevFloor(f, w, BaseProduct(f, w))
      epss == AddPoints(kev, IF ~f.kev /\ f.epss = "notable" THEN (EPSS_BUMP * w.epss) \div 2 ELSE 0)
      cvss == AddPoints(epss, IF Comparable(f.vector) THEN CvssPoints(f.vector, w.cvss) ELSE 0)
      scope == AddPoints(cvss, IF f.scope = "runtime"
                               THEN (DEPENDENCY_SCOPE_POINTS * w.scope) \div 2 ELSE 0)
      exposed == AddPoints(scope, (INTERNET_EXPOSURE_MAX_POINTS * w.exposure
                                     * Exposure(f.label, f.env).factor) \div 4)
  IN  AddPoints(exposed, IF f.fix = "fixable" THEN (FIXABILITY_POINTS * w.fixability) \div 2 ELSE 0)

Score(f, stored) == Breakdown(f, stored).score

NoVector == <<>>

\* The columns of a finding and its advisory before anything is known.
Unknown == [epss |-> "none", vector |-> NoVector, scope |-> "unknown", fix |-> "unknown"]

\* A scan, an enrichment or a resolved advisory establishes a signal.
Learn(field, value) ==
  /\ signals[field] = Unknown[field]
  /\ signals' = [signals EXCEPT ![field] = value]
  /\ UNCHANGED weightRows

\* The CVE appears in the KEV catalogue.
ListKev ==
  /\ ~signals.kev
  /\ signals' = [signals EXCEPT !.kev = TRUE]
  /\ UNCHANGED weightRows

\* The owner edits the label and the environment of the target.
EditTarget(label, env) ==
  /\ signals' = [signals EXCEPT !.label = label, !.env = env]
  /\ UNCHANGED weightRows

\* set_scoring_weight: _validate_weight refuses what is out of range.
SetScoringWeight(s, h) ==
  /\ h \in 0..MAX_WEIGHT
  /\ weightRows' = [x \in DOMAIN weightRows \cup {s} |-> IF x = s THEN h ELSE weightRows[x]]
  /\ Cardinality(DOMAIN weightRows') <= MaxRows
  /\ UNCHANGED signals

\* Anything else holding a connection to the database.
StoreWeight(s, h) ==
  /\ weightRows' = [x \in DOMAIN weightRows \cup {s} |-> IF x = s THEN h ELSE weightRows[x]]
  /\ Cardinality(DOMAIN weightRows') <= MaxRows
  /\ UNCHANGED signals

\* delete_scoring_weight: back to the baseline.
DeleteScoringWeight(s) ==
  /\ s \in DOMAIN weightRows
  /\ weightRows' = [x \in DOMAIN weightRows \ {s} |-> weightRows[x]]
  /\ UNCHANGED signals

ScoreInit ==
  /\ signals \in [severity : Severities, criticality : Criticalities, kev : {FALSE}, epss : {"none"},
                  vector : {NoVector}, scope : {"unknown"}, label : {"none"}, env : {"none"},
                  fix : {"unknown"}]
  /\ weightRows = <<>>

ScoreNext ==
  \/ \E e \in {"low", "notable"} : Learn("epss", e)
  \/ \E v \in Vectors : Learn("vector", v)
  \/ \E s \in {"runtime", "development"} : Learn("scope", s)
  \/ \E x \in {"fixable", "no_known_fix"} : Learn("fix", x)
  \/ ListKev
  \/ \E p \in Postures : EditTarget(p[1], p[2])
  \/ \E s \in Signal, h \in PutWeights \cup {-2} : SetScoringWeight(s, h)
  \/ \E s \in Signal, h \in {Garbage, -2, MAX_WEIGHT + 20} : StoreWeight(s, h)
  \/ \E s \in Signal : DeleteScoringWeight(s)

ScoreSpec == ScoreInit /\ [][ScoreNext]_scoreVars

-----------------------------------------------------------------------------
(* The breakdown adds up to the score, unless the base product alone was cut
   off, which it says; the score stays in range, and a workspace that configured nothing scores as before
   there were weights (compute_score_breakdown, scoring_config.py 41-52). *)
ScoreExplained ==
  LET b   == Breakdown(signals, weightRows)
      product == BASE_UNIT + b.points[1] + b.points[2]
      old == Min({MAX_SCORE, BASE_UNIT * signals.severity * Max({1, Min({5, signals.criticality})})})
  IN  /\ BASE_UNIT + SumFunction(b.points) = Max({b.score, product})
      /\ product > MAX_SCORE => b.capped
      /\ b.score \in BASE_UNIT..MAX_SCORE
      /\ weightRows = <<>> =>
           b.score = IF signals.kev THEN Max({old, KEV_FLOOR})
                     ELSE IF signals.epss = "notable" THEN Min({MAX_SCORE, old + EPSS_BUMP}) ELSE old

(* Not knowing the EPSS, the vector, the scope, the fix or the exposure never
   scores higher than knowing it, whatever is stored as its weight
   (resolve_weights, core/scoring.py 366-390).  A KEV listing is left out: it
   can lower a score, as ListingNeverLowers is refuted. *)
LearningNeverLowers ==
  LET score == Score(signals, weightRows)
      unknown == {[signals EXCEPT ![x] = Unknown[x]] : x \in DOMAIN Unknown}
                   \cup {[signals EXCEPT !.label = "none", !.env = "none"]}
  IN  \A less \in unknown \ {signals} : Score(less, weightRows) <= score

(* No code path through which a signal can lower a score (core/scoring.py
   23-28): neither can a listing in the KEV catalogue.  The code breaks it,
   with the weights every workspace starts from: a listed finding no longer
   has the points of its EPSS, and the floor may be less than they were. *)
ListingNeverLowers ==
  ~signals.kev => Score([signals EXCEPT !.kev = TRUE], weightRows) >= Score(signals, weightRows)
=============================================================================
