------------------------------ MODULE MCScanning -----------------------------
(***************************************************************************)
(* What a scan runs, compares, scores and says: five components that share no*)
(* state, in one run.  A behaviour is a behaviour of one of them, chosen at*)
(* the start, while the others rest.                                       *)
(***************************************************************************)
EXTENDS ToolRuns, GuardrailDiff, GuardrailComment, PriorityScore, SecurityScore, TLC

CONSTANTS
  Parts,         \* the components to check
  w1, w2,        \* tool runs, and threads that write comments
  i1, i2, i3,    \* findings of a pull request
  d1, d2,        \* findings of the estate
  t1, t2         \* its targets

VARIABLE part

MCDiffs == {{"go"}, {"manifest"}}
MCFlaws ==
  {[file |-> "edited", line |-> 2, end |-> 3, tool |-> "semgrep", severity |-> "High", rule |-> "r"],
   [file |-> "edited", line |-> 1, end |-> 0, tool |-> "trivy", severity |-> "Low", rule |-> "r"]}
MCImporters == <<{"m"}, {"m", "n"}>>
MCIssueTool == (i1 :> "semgrep") @@ (i2 :> "bandit") @@ (i3 :> "semgrep")
MCIssueLine == (i1 :> 7) @@ (i2 :> 7) @@ (i3 :> 0)
MCVectors == {[CVSS |-> "3.1", AV |-> "N", AC |-> "L", PR |-> "H", UI |-> "R"],
              [AV |-> "N", AC |-> "M", Au |-> "N"]}
MCPostures == {<<"public", "staging">>, <<"private", "production">>, <<"none", "production">>,
               <<"production", "staging">>, <<"other", "staging">>}
MCOnTarget == (d1 :> t1) @@ (d2 :> t2)
MCSevWeight == (d1 :> 5) @@ (d2 :> 1)

Symmetry == Permutations({w1, w2})

\* A part at rest starts from one of its initial states only.
Resting ==
  /\ part # "tools" => ~kept
  /\ part # "priority" => signals.severity = Max(Severities) /\ signals.criticality = Max(Criticalities)
  /\ part # "security" => \A t \in Estate : owned[t].criticality = 5

Init ==
  /\ part \in Parts
  /\ RunsInit
  /\ DiffInit
  /\ CommentInit
  /\ ScoreInit
  /\ EstateInit
  /\ Resting

Next ==
  \/ /\ part = "tools" /\ RunsNext
     /\ UNCHANGED <<part, diffVars, commentVars, scoreVars, estateVars>>
  \/ /\ part = "diffs" /\ DiffNext
     /\ UNCHANGED <<part, runVars, commentVars, scoreVars, estateVars>>
  \/ /\ part = "comments" /\ CommentNext
     /\ UNCHANGED <<part, runVars, diffVars, scoreVars, estateVars>>
  \/ /\ part = "priority" /\ ScoreNext
     /\ UNCHANGED <<part, runVars, diffVars, commentVars, estateVars>>
  \/ /\ part = "security" /\ EstateNext
     /\ UNCHANGED <<part, runVars, diffVars, commentVars, scoreVars>>

Spec == Init /\ [][Next]_<<part, runVars, diffVars, commentVars, scoreVars, estateVars>>
==============================================================================
