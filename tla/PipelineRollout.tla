--------------------------- MODULE PipelineRollout ---------------------------
(***************************************************************************)
(* Pipeline integration: one pull request per repository that adds the     *)
(* scan workflow, from a click, a selection or a fleet-wide rollout        *)
(* (api/targets.py, tasks/pipeline_tasks.py, core/pipeline_pr.py), built   *)
(* from a step template or from the tools of the workspace                 *)
(* (api/pipeline_templates.py, core/pipeline_workflow.py).                 *)
(***************************************************************************)
EXTENDS Naturals, Sequences, FiniteSets, SequencesExt

CONSTANTS
  Repos,        \* targets
  JobTools,     \* SUPPORTED_TOOLS with a job of their own, without gosec
  Hands,        \* workers and request threads
  MaxIntegrate, \* bound on clicks
  MaxToggles,   \* bound on changes of targets and templates
  PipeFaults    \* bound on failing calls, lost workers and redeliveries

ASSUME PipelineAssumption ==
  /\ IsFiniteSet(Repos) /\ IsFiniteSet(JobTools) /\ IsFiniteSet(Hands) /\ "gosec" \notin JobTools
  /\ {MaxIntegrate, MaxToggles, PipeFaults} \subseteq Nat

VARIABLES
  repo,       \* active, covered by the server-side guardrail, integrated
  template,   \* steps of the PipelineWorkflowTemplate, <<>> once it is deleted
  rollout,    \* the PipelineIntegrationBatch row and its items
  rolloutMsg, \* its message is in the queue
  hand,       \* what each thread integrates
  pipePrs,    \* pull requests opened, by target
  pipeRaced,  \* history: overlapping, repeated by hand, or lost after opening
  pipeAgain,  \* history: the batch was started more than once
  integrates, toggles, pipeFaults

pipeVars == <<repo, template, rollout, rolloutMsg, hand, pipePrs, pipeRaced, pipeAgain,
              integrates, toggles, pipeFaults>>

IdleHand == [pc |-> "idle", batch |-> FALSE, at |-> "none", steps |-> <<>>, jobs |-> <<>>,
             todo |-> {}]

NoRollout == [status |-> "none", force |-> FALSE, templated |-> FALSE, item |-> <<>>,
              count |-> [o \in {"succeeded", "failed", "already_integrated",
                                "skipped_webhook_reachable"} |-> 0]]

\* _validate_steps: something enabled, no tool twice.
ValidSteps(steps) ==
  /\ \E i \in DOMAIN steps : steps[i].enabled
  /\ \A i, j \in DOMAIN steps : steps[i].tool = steps[j].tool => i = j

\* The tools of the enabled steps, in their order.
EnabledSteps(steps) ==
  LET on  == {i \in DOMAIN steps : steps[i].enabled}
      nth == CHOOSE f \in [1..Cardinality(on) -> on] : \A i, k \in DOMAIN f : i < k => f[i] < f[k]
  IN  [k \in DOMAIN nth |-> steps[nth[k]].tool]

\* Mutant: the jobs of a template come in catalogue order, all of them.
WorkflowWhole(steps, assigned, go) == SetToSeq(JobTools)

\* generate_workflow_yaml: the template's steps, or the fixed set cut down to
\* the tools the workspace assigned to its pipeline, and gosec for Go.
Workflow(steps, assigned, go) ==
  IF steps # <<>> THEN steps
  ELSE SelectSeq(SetToSeq(JobTools), LAMBDA t : t \in assigned)
       \o (IF go /\ "gosec" \in assigned THEN <<"gosec">> ELSE <<>>)

PipeFault == pipeFaults < PipeFaults /\ pipeFaults' = pipeFaults + 1

Toggle == toggles < MaxToggles /\ toggles' = toggles + 1

\* A target is switched, or its guardrail coverage comes and goes.
SwitchRepo(r, what) ==
  /\ Toggle
  /\ repo' = [repo EXCEPT ![r][what] = ~@]
  /\ UNCHANGED <<template, rollout, rolloutMsg, hand, pipePrs, pipeRaced, pipeAgain,
                 integrates, pipeFaults>>

\* create_template, update_template; delete_template, which the foreign key of
\* a batch refuses.
EditTemplate(steps) ==
  /\ Toggle
  /\ steps # template
  /\ steps = <<>> \/ ValidSteps(steps)
  /\ steps = <<>> => ~rollout.templated
  /\ template' = steps
  /\ UNCHANGED <<repo, rollout, rolloutMsg, hand, pipePrs, pipeRaced, pipeAgain,
                 integrates, pipeFaults>>

\* integrate_pipeline: a first integration is refused while the guardrail
\* already covers the repository, unless forced.
Integrate(h, r, force) ==
  /\ integrates < MaxIntegrate /\ integrates' = integrates + 1
  /\ hand[h].pc = "idle"
  /\ repo[r].active
  /\ repo[r].integrated \/ ~repo[r].covered \/ force
  /\ hand' = [hand EXCEPT ![h] = [IdleHand EXCEPT !.pc = "open", !.at = r]]
  /\ pipeRaced' = (pipeRaced \/ repo[r].integrated \/ \E g \in Hands \ {h} : hand[g].at = r)
  /\ UNCHANGED <<repo, template, rollout, rolloutMsg, pipePrs, pipeAgain, toggles,
                 pipeFaults>>

\* mass_pipeline_rollout, of a workspace, a group or everything: the targets it
\* finds there that may be scanned.
Eligible(sel) == sel \cap {r \in Repos : repo[r].active}

\* bulk_pipeline_integrate and mass_pipeline_rollout: the batch and its items,
\* then the message.
Rollout(sel, force, templated) ==
  /\ rollout.status = "none"
  /\ Eligible(sel) # {}
  /\ templated => template # <<>>
  /\ rollout' = [NoRollout EXCEPT !.status = "running", !.force = force, !.templated = templated,
                   !.item = [r \in Eligible(sel) |-> "pending"]]
  /\ rolloutMsg' = TRUE
  /\ UNCHANGED <<repo, template, hand, pipePrs, pipeRaced, pipeAgain, integrates,
                 toggles, pipeFaults>>

\* run_pipeline_integration_batch: the template is read once, and every item
\* is visited, whatever its status.
StartRollout(h) ==
  /\ rolloutMsg /\ hand[h].pc = "idle"
  /\ rolloutMsg' = FALSE
  /\ hand' = [hand EXCEPT ![h] =
                [IdleHand EXCEPT !.pc = "next", !.batch = TRUE, !.todo = DOMAIN rollout.item,
                                 !.steps = IF rollout.templated THEN EnabledSteps(template) ELSE <<>>]]
  /\ UNCHANGED <<repo, template, rollout, pipePrs, pipeRaced, pipeAgain, integrates,
                 toggles, pipeFaults>>

\* Mutant: the counter is left alone.
TallyItem(r, outcome) == rollout' = [rollout EXCEPT !.item[r] = outcome]

\* An item's outcome and the counter of it, in one commit.
Tally(r, outcome) == rollout' = [rollout EXCEPT !.item[r] = outcome, !.count[outcome] = @ + 1]

\* Mutant: an integrated target is integrated again.
AnyItem(h, r) ==
  /\ hand[h].pc = "next" /\ r \in hand[h].todo
  /\ rollout' = [rollout EXCEPT !.item[r] = "running"]
  /\ hand' = [hand EXCEPT ![h] = [@ EXCEPT !.pc = "open", !.at = r]]
  /\ UNCHANGED <<repo, template, rolloutMsg, pipePrs, pipeRaced, pipeAgain, integrates,
                 toggles, pipeFaults>>

\* The checks before an item is worked on; the lifecycle is not one of them.
Item(h, r) ==
  /\ hand[h].pc = "next" /\ r \in hand[h].todo
  /\ \/ /\ repo[r].integrated
        /\ Tally(r, "already_integrated")
        /\ hand' = [hand EXCEPT ![h].todo = @ \ {r}]
        /\ UNCHANGED pipeRaced
     \/ /\ ~repo[r].integrated /\ ~rollout.force /\ repo[r].covered
        /\ Tally(r, "skipped_webhook_reachable")
        /\ hand' = [hand EXCEPT ![h].todo = @ \ {r}]
        /\ UNCHANGED pipeRaced
     \/ /\ ~repo[r].integrated /\ (rollout.force \/ ~repo[r].covered)
        /\ rollout' = [rollout EXCEPT !.item[r] = "running"]
        /\ hand' = [hand EXCEPT ![h] = [@ EXCEPT !.pc = "open", !.at = r]]
        /\ pipeRaced' = (pipeRaced \/ \E g \in Hands \ {h} : hand[g].at = r)
  /\ UNCHANGED <<repo, template, rolloutMsg, pipePrs, pipeAgain, integrates, toggles,
                 pipeFaults>>

\* open_pipeline_pr: branch, workflow file, pull request.
OpenPipelinePr(h, assigned, go) ==
  /\ hand[h].pc = "open"
  /\ pipePrs' = [pipePrs EXCEPT ![hand[h].at] = @ + 1]
  /\ hand' = [hand EXCEPT ![h] = [@ EXCEPT !.pc = "save",
                                          !.jobs = Workflow(hand[h].steps, assigned, go)]]
  /\ UNCHANGED <<repo, template, rollout, rolloutMsg, pipeRaced, pipeAgain, integrates, toggles,
                 pipeFaults>>

\* The target, the item and the counter, in one commit.
SavePipeline(h) ==
  LET r == hand[h].at
  IN  /\ hand[h].pc = "save"
      /\ repo' = [repo EXCEPT ![r].integrated = TRUE]
      /\ IF hand[h].batch THEN Tally(r, "succeeded") ELSE UNCHANGED rollout
      /\ hand' = [hand EXCEPT ![h] = IF hand[h].batch
                                     THEN [hand[h] EXCEPT !.pc = "next", !.at = "none", !.jobs = <<>>,
                                                           !.todo = hand[h].todo \ {r}]
                                     ELSE IdleHand]
      /\ UNCHANGED <<template, rolloutMsg, pipePrs, pipeRaced, pipeAgain, integrates,
                     toggles, pipeFaults>>

\* PipelinePrError, a key mismatch, or anything else, the commit of a success
\* included: the item has failed.
PipelineFails(h) ==
  LET r == hand[h].at
  IN  /\ PipeFault
      /\ hand[h].pc \in {"open", "save"}
      /\ pipeRaced' = (pipeRaced \/ hand[h].pc = "save")
      /\ IF hand[h].batch THEN Tally(r, "failed") ELSE UNCHANGED rollout
      /\ hand' = [hand EXCEPT ![h] = IF hand[h].batch
                                     THEN [hand[h] EXCEPT !.pc = "next", !.at = "none", !.jobs = <<>>,
                                                           !.todo = hand[h].todo \ {r}]
                                     ELSE IdleHand]
      /\ UNCHANGED <<repo, template, rolloutMsg, pipePrs, pipeAgain, integrates,
                     toggles>>

EndRollout(h) ==
  /\ hand[h].pc = "next" /\ hand[h].todo = {}
  /\ rollout' = [rollout EXCEPT !.status = "completed"]
  /\ hand' = [hand EXCEPT ![h] = IdleHand]
  /\ UNCHANGED <<repo, template, rolloutMsg, pipePrs, pipeRaced, pipeAgain, integrates,
                 toggles, pipeFaults>>

\* A thread is lost; a batch is handed out again.
HandLost(h) ==
  /\ PipeFault
  /\ hand[h].pc # "idle"
  /\ rolloutMsg' = (rolloutMsg \/ hand[h].batch)
  /\ pipeAgain' = (pipeAgain \/ hand[h].batch)
  /\ pipeRaced' = (pipeRaced \/ hand[h].pc = "save")
  /\ hand' = [hand EXCEPT ![h] = IdleHand]
  /\ UNCHANGED <<repo, template, rollout, pipePrs, integrates, toggles>>

\* The visibility timeout passes during a long batch.
RolloutAgain(h) ==
  /\ PipeFault
  /\ hand[h].batch /\ ~rolloutMsg
  /\ rolloutMsg' = TRUE /\ pipeAgain' = TRUE
  /\ UNCHANGED <<repo, template, rollout, hand, pipePrs, pipeRaced, integrates, toggles>>

\* A poll of the batch past the staleness limit.
RolloutStale ==
  /\ PipeFault
  /\ rollout.status = "running"
  /\ rollout' = [rollout EXCEPT !.status = "failed"]
  /\ UNCHANGED <<repo, template, rolloutMsg, hand, pipePrs, pipeRaced, pipeAgain,
                 integrates, toggles>>

Steps == {<<>>} \cup {<<[tool |-> a, enabled |-> x], [tool |-> b, enabled |-> y]>> :
                        a, b \in JobTools, x, y \in BOOLEAN}

PipeInit ==
  /\ repo \in [Repos -> [active : {TRUE}, covered : BOOLEAN, integrated : {FALSE}]]
  /\ template = <<>>
  /\ rollout = NoRollout /\ rolloutMsg = FALSE
  /\ hand = [h \in Hands |-> IdleHand]
  /\ pipePrs = [r \in Repos |-> 0]
  /\ pipeRaced = FALSE /\ pipeAgain = FALSE
  /\ integrates = 0 /\ toggles = 0 /\ pipeFaults = 0

PipeNext ==
  \/ \E r \in Repos, what \in {"active", "covered"} : SwitchRepo(r, what)
  \/ \E steps \in Steps : EditTemplate(steps)
  \/ \E sel \in SUBSET Repos, force, templated \in BOOLEAN : Rollout(sel, force, templated)
  \/ \E h \in Hands :
       \/ \E r \in Repos, force \in BOOLEAN : Integrate(h, r, force)
       \/ StartRollout(h)
       \/ \E r \in Repos : Item(h, r)
       \/ \E assigned \in {JobTools, {"gosec"}}, go \in BOOLEAN : OpenPipelinePr(h, assigned, go)
       \/ SavePipeline(h)
       \/ PipelineFails(h)
       \/ EndRollout(h)
       \/ HandLost(h)
       \/ RolloutAgain(h)
  \/ RolloutStale

PipeSpec == PipeInit /\ [][PipeNext]_pipeVars

-----------------------------------------------------------------------------
(* A repository gets one pull request however often a rollout is started
   again, unless it is integrated again by hand, from two threads at once, or
   the thread is lost after opening it (tasks/pipeline_tasks.py 66-120). *)
OnePipelinePr == pipeRaced \/ \A r \in Repos : pipePrs[r] <= 1

(* A finished rollout nobody works on has an outcome for every target it took;
   unless it was started again, its four counters are those outcomes. *)
RolloutAccounts ==
  (rollout.status = "completed" /\ ~rolloutMsg /\ \A h \in Hands : ~hand[h].batch) =>
    /\ \A r \in DOMAIN rollout.item : rollout.item[r] \in DOMAIN rollout.count
    /\ ~pipeAgain => \A o \in DOMAIN rollout.count :
         rollout.count[o] = Cardinality({r \in DOMAIN rollout.item : rollout.item[r] = o})

(* A workflow written from a template holds each of its enabled tools once:
   the template may be edited, but never emptied, under a rollout in flight
   (api/pipeline_templates.py 41-50). *)
TemplateIsWritten ==
  \A h \in Hands :
    (hand[h].pc = "save" /\ hand[h].batch /\ rollout.templated) =>
      hand[h].jobs # <<>> /\ IsInjective(hand[h].jobs) /\ hand[h].jobs = hand[h].steps
=============================================================================
