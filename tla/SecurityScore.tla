---------------------------- MODULE SecurityScore ----------------------------
(***************************************************************************)
(* The security score of a scope: five components from the findings, the   *)
(* scans, the deadlines and the audit trail of the targets in it, and the  *)
(* weighted mean of the ones that could be measured                        *)
(* (core/security_score.py, core/sla.py, api/sla_rules.py).                *)
(* Scores are in tenths of a point.                                        *)
(***************************************************************************)
EXTENDS Integers, Sequences, FiniteSets, FiniteSetsExt, Functions

CONSTANTS
  Estate,      \* targets
  Detections,  \* findings that may turn up
  OnTarget,    \* the target of each
  SevWeight,   \* its severity weight; 0 for a licence finding
  MaxDay,      \* bound on the days that pass
  TREND_WINDOW_DAYS, COVERAGE_WINDOW_DAYS,
  MaxEvents    \* bound on everything else that happens

ASSUME EstateAssumption ==
  /\ IsFiniteSet(Estate) /\ IsFiniteSet(Detections)
  /\ OnTarget \in [Detections -> Estate] /\ SevWeight \in [Detections -> 0..5]
  /\ {MaxDay, TREND_WINDOW_DAYS, COVERAGE_WINDOW_DAYS, MaxEvents} \subseteq Nat

VARIABLES
  today,
  owned,     \* the targets: lifecycle, criticality, days of scans
  detected,  \* the findings: state, first_seen
  audit,     \* the FindingStateLog rows of each finding
  slaRules,  \* days_to_fix: of the group of a target, and of the workspace
  events

estateVars == <<today, owned, detected, audit, slaRules, events>>

CLOSED_STATES == {"mitigated", "accepted_risk", "false_positive", "wont_fix"}
OPEN_STATES == {"open", "triaged", "reopened"}
Never == -1 \* not detected, not scanned, no rule

\* _state_at: the last change up to then; rows are in the order of their time.
StateAt(day, f) ==
  LET upTo == {i \in DOMAIN audit[f] : audit[f][i].day <= day}
  IN  IF detected[f].firstSeen > day THEN "absent"
      ELSE IF upTo = {} THEN "open" ELSE audit[f][Max(upTo)].to

Found == {f \in Detections : detected[f].firstSeen # Never}

\* live_targets: the scope drops what was deleted.
InScope == {t \in Estate : owned[t].lifecycle # "deleted"}

\* _default_branch_findings; a finding on another branch counts nowhere here.
ScopedFindings == {f \in Found : OnTarget[f] \in InScope}

CriticalityWeight(t) == Max({1, Min({5, owned[t].criticality})})

\* _finding_risk_weight: severity times criticality, nothing for a licence.
RiskWeight(f) == SevWeight[f] * CriticalityWeight(OnTarget[f])

RiskSum(fs) == SumFunction([f \in fs |-> RiskWeight(f)])

TotalCriticality == SumFunction([t \in InScope |-> CriticalityWeight(t)])

OpenFindings == {f \in ScopedFindings : detected[f].state \in OPEN_STATES}

\* round(100.0 * a / b, 1) in tenths.
Percent(a, b) == (2000 * a + b) \div (2 * b)

\* _findings_score: halved by an average weight of 10.
FindingsScore ==
  LET tc == Max({1, TotalCriticality})
  IN  Percent(10 * tc, RiskSum(OpenFindings) + 10 * tc)

\* resolve_sla_days: the strictest rule of the target's groups, else the
\* default of the workspace.
SlaDays(t) == IF slaRules.group[t] # {} THEN Min(slaRules.group[t]) ELSE slaRules.default

\* compute_sla_status.
SlaViolated(f) ==
  /\ SlaDays(OnTarget[f]) # Never
  /\ detected[f].state \notin CLOSED_STATES
  /\ today - detected[f].firstSeen > SlaDays(OnTarget[f])

\* _sla_score
SlaScore ==
  LET tracked == {f \in OpenFindings : SevWeight[f] > 0 /\ SlaDays(OnTarget[f]) # Never}
  IN  IF tracked = {} THEN 1000
      ELSE Percent(Cardinality({f \in tracked : ~SlaViolated(f)}), Cardinality(tracked))

\* _coverage_score: switched-off targets are on neither side.
CoverageScore ==
  LET active == {t \in InScope : owned[t].lifecycle = "active"}
  IN  IF InScope = {} THEN 0
      ELSE IF active = {} THEN 1000
      ELSE Percent(Cardinality({t \in active : \E d \in owned[t].scans :
                                                  d >= today - COVERAGE_WINDOW_DAYS}),
                   Cardinality(active))

\* _fp_rate_score
FpRateScore ==
  IF ScopedFindings = {} THEN 1000
  ELSE Percent(Cardinality({f \in ScopedFindings : detected[f].state # "false_positive"}),
               Cardinality(ScopedFindings))

\* _weighted_open_sum_at
OpenSumAt(day, fs) == RiskSum({f \in fs : StateAt(day, f) \notin CLOSED_STATES \cup {"absent"}})

PriorDay == today - TREND_WINDOW_DAYS

\* Mutant: one target with a past makes the whole scope comparable.
ObservedScope ==
  IF \E t \in InScope :
       \/ \E f \in ScopedFindings : OnTarget[f] = t /\ detected[f].firstSeen <= PriorDay
       \/ \E d \in owned[t].scans : d <= PriorDay
  THEN InScope ELSE {}

\* _targets_observed_before: a finding or a scan from before the window.
ObservedBefore ==
  {t \in InScope : \/ \E f \in ScopedFindings : OnTarget[f] = t /\ detected[f].firstSeen <= PriorDay
                   \/ \E d \in owned[t].scans : d <= PriorDay}

\* _trend_score: both sums over the targets that have a past.
TrendScore ==
  LET observed == ObservedBefore
      compared == {f \in ScopedFindings : OnTarget[f] \in observed}
      now      == OpenSumAt(today, compared)
      prior    == OpenSumAt(PriorDay, compared)
  IN  IF observed = {} THEN [measurable |-> FALSE, direction |-> "unknown", score |-> 0]
      ELSE [measurable |-> TRUE,
            direction  |-> IF now < prior THEN "improving" ELSE IF now = prior THEN "stable"
                           ELSE "worsening",
            score      |-> IF now <= prior THEN 1000
                           ELSE Max({0, 1000 - Percent(now - prior, Max({prior, 1}))})]

Component == [findings |-> FindingsScore, sla |-> SlaScore, coverage |-> CoverageScore,
              fp_rate |-> FpRateScore, trend |-> TrendScore.score]

ComponentWeight == [findings |-> 35, sla |-> 25, coverage |-> 15, fp_rate |-> 10, trend |-> 15]

\* Mutant: an unmeasured trend counts as a zero.
MeasuredAll == DOMAIN ComponentWeight

Measured == {c \in DOMAIN ComponentWeight : c = "trend" => TrendScore.measurable}

\* compute_security_score: the mean over what was measured, rounded.
Composite ==
  LET component == Component
      measured == Measured
      score == SumFunction([c \in measured |-> component[c] * ComponentWeight[c]])
      weight == SumFunctionOnSet(ComponentWeight, measured)
  IN  IF InScope = {} THEN 0 ELSE (2 * score + weight) \div (2 * weight)

Event == events < MaxEvents /\ events' = events + 1

Tomorrow ==
  /\ today < MaxDay /\ today' = today + 1
  /\ UNCHANGED <<owned, detected, audit, slaRules, events>>

\* A scan of a target starts; it may detect one more finding.
ScanTarget(t, fs) ==
  /\ Event
  /\ owned[t].lifecycle = "active"
  /\ fs \subseteq {f \in Detections \ Found : OnTarget[f] = t}
  /\ owned' = [owned EXCEPT ![t].scans = @ \cup {today}]
  /\ detected' = [f \in Detections |-> IF f \in fs THEN [state |-> "open", firstSeen |-> today]
                                       ELSE detected[f]]
  /\ UNCHANGED <<today, audit, slaRules>>

\* Findings pushed by a pipeline come without a scan.
PushFinding(f) ==
  /\ Event
  /\ f \notin Found
  /\ detected' = [detected EXCEPT ![f] = [state |-> "open", firstSeen |-> today]]
  /\ UNCHANGED <<today, owned, audit, slaRules>>

\* Triage, a re-detection or a learnt false positive: the state and its log
\* row in one commit.
ChangeState(f, to) ==
  /\ Event
  /\ f \in Found /\ detected[f].state # to
  /\ detected' = [detected EXCEPT ![f].state = to]
  /\ audit' = [audit EXCEPT ![f] = Append(@, [day |-> today, to |-> to])]
  /\ UNCHANGED <<today, owned, slaRules>>

SetLifecycle(t, to) ==
  /\ Event
  /\ owned[t].lifecycle \notin {"deleted", to}
  /\ owned' = [owned EXCEPT ![t].lifecycle = to]
  /\ UNCHANGED <<today, detected, audit, slaRules>>

\* create_sla_rule, update_sla_rule, delete_sla_rule, for the workspace and
\* for the groups of a target.
SetSlaDefault(days) ==
  /\ Event
  /\ slaRules' = [slaRules EXCEPT !.default = days]
  /\ UNCHANGED <<today, owned, detected, audit>>

SetSlaGroup(t, days) ==
  /\ Event
  /\ slaRules' = [slaRules EXCEPT !.group[t] = days]
  /\ UNCHANGED <<today, owned, detected, audit>>

EstateInit ==
  /\ today = 0 /\ events = 0
  /\ owned \in [Estate -> [lifecycle : {"active"}, criticality : {0, 5}, scans : {{}}]]
  /\ detected = [f \in Detections |-> [state |-> "open", firstSeen |-> Never]]
  /\ audit = [f \in Detections |-> <<>>]
  /\ slaRules = [default |-> Never, group |-> [t \in Estate |-> {}]]

EstateNext ==
  \/ Tomorrow
  \/ \E t \in Estate :
       \/ \E fs \in SUBSET Detections : ScanTarget(t, fs)
       \/ \E to \in {"active", "deactivated", "deleted"} : SetLifecycle(t, to)
       \/ SetSlaGroup(t, {0, 1})
  \/ \E f \in Detections :
       \/ PushFinding(f)
       \/ \E to \in {"reopened", "mitigated", "false_positive"} : ChangeState(f, to)
  \/ SetSlaDefault(1)

EstateSpec == EstateInit /\ [][EstateNext]_estateVars

-----------------------------------------------------------------------------
(* A trend only worsens when something on a target with a past is open now that
   appeared or changed its state since: onboarding targets, deleting them or
   not knowing them never shows as one (_targets_observed_before, _trend_score). *)
WorseningIsReal ==
  TrendScore.direction = "worsening" =>
    \E f \in ScopedFindings :
      /\ \/ \E g \in ScopedFindings : OnTarget[g] = OnTarget[f] /\ detected[g].firstSeen <= PriorDay
         \/ \E d \in owned[OnTarget[f]].scans : d <= PriorDay
      /\ detected[f].state \notin CLOSED_STATES
      /\ detected[f].firstSeen > PriorDay \/ \E i \in DOMAIN audit[f] : audit[f][i].day > PriorDay

(* The composite lies between the worst and the best of the components that
   were measured, so a scope with nothing wrong in them scores 100 from its
   first day (compute_security_score). *)
CompositeIsMean ==
  InScope # {} =>
    LET known == {c \in DOMAIN ComponentWeight :
                    c = "trend" =>
                      \E t \in InScope :
                        \/ \E d \in owned[t].scans : d <= PriorDay
                        \/ \E f \in ScopedFindings :
                             OnTarget[f] = t /\ detected[f].firstSeen <= PriorDay}
        component == Component
        composite == Composite
    IN  /\ \E c \in known : component[c] <= composite
        /\ \E c \in known : composite <= component[c]
        /\ (\A c \in known : component[c] = 1000) => composite = 1000
=============================================================================
