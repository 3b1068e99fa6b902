------------------------------ MODULE MCGitHub -------------------------------
(***************************************************************************)
(* What the platform does on GitHub: fixes, pipelines, the inventory and the*)
(* link itself, four components that share no state, in one run.  A behaviour*)
(* is a behaviour of one of them, chosen at the start, while the others rest.*)
(***************************************************************************)
EXTENDS FixPlan, PipelineRollout, Inventory, GitHubLink, TLC

CONSTANTS
  Parts,   \* the components to check
  MaxUnusual, \* bound on the requests, changes and faults of fixes, and of the inventory
  w1, w2,  \* threads, tasks and requests
  a1, a2,  \* CVEs; targets of the pipeline
  p1, p2   \* packages

VARIABLE part

MCAnswers == {{<<p1, 1>>, <<p1, 2>>, <<p2, 2>>}, {<<NoName, 2>>, <<p1, 0>>}}
MCDeps == {<<"lib", "pypi">>, <<"tool", "npm">>}
MCGraphLists == {<< <<"lib", "pypi">> >>, << <<"tool", "npm">>, <<"tool", "npm">> >>}
MCUploadLists == {<< <<"lib", "pypi">> >>}
MCTenants == {"ws1", "ws2"}
MCAccountOf == ("r1" :> "acme") @@ ("r2" :> "other")

Symmetry == Permutations({w1, w2}) \cup Permutations({a1, a2})

\* A part at rest starts from one of its initial states only.
Resting ==
  /\ part # "fixes" => \A c \in Cves : osv[c] = CHOOSE x \in OsvAnswers : TRUE
  /\ part # "pipelines" => \A r \in Repos : ~repo[r].covered
  /\ part # "inventory" => flaggedByOsv = {}
  /\ part # "link" => apps = <<>>

Init ==
  /\ part \in Parts
  /\ FixInit
  /\ PipeInit
  /\ InvInit
  /\ LinkInit
  /\ Resting

Next ==
  \/ /\ part = "fixes" /\ FixNext
     /\ clicks' + rescans' + fixFaults' <= MaxUnusual
     /\ UNCHANGED <<part, pipeVars, invVars, linkVars>>
  \/ /\ part = "pipelines" /\ PipeNext
     /\ UNCHANGED <<part, fixVars, invVars, linkVars>>
  \/ /\ part = "inventory" /\ InvNext
     /\ verdicts' + rulings' + sbomFaults' + (IF inactive' THEN 1 ELSE 0) <= MaxUnusual
     /\ UNCHANGED <<part, fixVars, pipeVars, linkVars>>
  \/ /\ part = "link" /\ LinkNext
     /\ UNCHANGED <<part, fixVars, pipeVars, invVars>>

Spec == Init /\ [][Next]_<<part, fixVars, pipeVars, invVars, linkVars>>

\* With the fairness of the repository sync (LinkFairSpec).
FairSpec ==
  Spec /\ \A s \in Syncs : WF_linkVars(SyncStep(s)) /\ SF_linkVars(StartSync(s, installs))
==============================================================================
