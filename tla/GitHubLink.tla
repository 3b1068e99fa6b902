------------------------------ MODULE GitHubLink ------------------------------
(***************************************************************************)
(* How the platform is tied to GitHub: the Apps that are registered, their *)
(* installations, the repositories imported from them by syncs that may    *)
(* overlap, and the routing of webhook deliveries to targets               *)
(* (api/github_app.py, core/github_app.py, api/webhooks.py,                *)
(* tasks/github_sync_tasks.py).  An installation is an App on an account;  *)
(* what GitHub knows of it is external.                                    *)
(***************************************************************************)
EXTENDS Naturals, Sequences, FiniteSets, FiniteSetsExt, SequencesExt

CONSTANTS
  Tenants,     \* workspaces
  FirstTenant, \* the one the table lists first
  Places,      \* repositories on GitHub
  AccountOf,   \* the account that owns each
  Syncs,       \* requests and tasks that sync repositories
  MaxApps,     \* bound on Apps ever created
  MaxAdmin     \* bound on what people do here and on GitHub, and on syncs that die

ASSUME LinkAssumption ==
  /\ FirstTenant \in Tenants /\ "platform" \notin Tenants
  /\ IsFiniteSet(Places) /\ DOMAIN AccountOf = Places /\ IsFiniteSet(Syncs)
  /\ {MaxApps, MaxAdmin} \subseteq Nat

VARIABLES
  apps,      \* GitHubAppConfig, in the order of registration, with the deleted ones
  pending,   \* _pending_states: the scopes of manifest flows under way, a bag as a sequence
  installs,  \* GitHubInstallation
  onGitHub,  \* external: the installations there are, <<app, account>>
  granted,   \* external: what they may see, <<app, repository>>
  repos,     \* Target, in the order of insertion
  sync,      \* what each sync is doing
  together,  \* history: two syncs at once
  admin

linkVars == <<apps, pending, installs, onGitHub, granted, repos, sync, together, admin>>

Accounts == {AccountOf[r] : r \in Places}

Alive == {a \in DOMAIN apps : apps[a].alive}

Live == {t \in DOMAIN repos : repos[t].life # "deleted"}

IdleSync == [pc |-> "idle", todo |-> {}, urls |-> {}, fresh |-> <<>>, queue |-> {}]

Admin == admin < MaxAdmin /\ admin' = admin + 1

--------------------------------------------------------------------------------
(* core/github_app.py *)

TheOnly(s) == CHOOSE a \in s : TRUE

\* resolve_config_for_installation; 0 for none.  A row without a link dates
\* from before the column.
ResolveConfig(i) ==
  LET own     == {a \in Alive : apps[a].scope = i.tenant}
      default == {a \in Alive : apps[a].scope = "platform"}
  IN  CASE i.link # 0               -> IF i.link \in Alive THEN i.link ELSE 0
        [] i.link = 0 /\ own # {}   -> IF Cardinality(own) = 1 THEN TheOnly(own) ELSE 0
        [] i.link = 0 /\ own = {} /\ Cardinality(default) = 1 -> TheOnly(default)
        [] OTHER                    -> IF Cardinality(Alive) = 1 THEN TheOnly(Alive) ELSE 0

\* resolve_installation_for_repo: one on the account of the repository, else
\* whichever the workspace has.
ResolveInstallation(tenant, r) ==
  LET all     == {i \in installs : i.tenant = tenant}
      matched == {i \in all : i.owner = AccountOf[r]}
  IN  IF matched # {} THEN matched ELSE all

\* Mutant: an App without a webhook secret counts.
HasCoverageUnsigned(t, i) ==
  /\ i \in ResolveInstallation(repos[t].tenant, repos[t].repo)
  /\ ResolveConfig(i) # 0
  /\ repos[t].mode # "disabled"

\* target_has_pr_guardrail_coverage at a reachable address, by installation i.
HasCoverage(t, i) ==
  /\ i \in ResolveInstallation(repos[t].tenant, repos[t].repo)
  /\ ResolveConfig(i) # 0 /\ apps[ResolveConfig(i)].secret # "unset"
  /\ repos[t].mode # "disabled"

--------------------------------------------------------------------------------
(* Apps and installations *)

\* manifest_data: a state is handed out, for a workspace or for the platform.
ManifestData(scope) ==
  /\ Admin
  /\ Len(apps) + Len(pending) < MaxApps
  /\ pending' = Append(pending, scope)
  /\ UNCHANGED <<apps, installs, onGitHub, granted, repos, sync, together>>

\* callback: the state is used up, whatever comes of it.  The indexes allow one
\* App for each workspace and one for the platform; GitHub's exists either way.
AppCallback(k, converted) ==
  /\ k \in DOMAIN pending
  /\ pending' = RemoveAt(pending, k)
  /\ apps' = IF converted THEN Append(apps, [scope |-> pending[k], secret |-> "right",
                                             alive |-> \A a \in Alive : apps[a].scope # pending[k]])
             ELSE apps
  /\ UNCHANGED <<installs, onGitHub, granted, repos, sync, together, admin>>

\* The states are in the memory of the process.
ApiRestart ==
  /\ pending # <<>> /\ pending' = <<>>
  /\ UNCHANGED <<apps, installs, onGitHub, granted, repos, sync, together, admin>>

\* external: an App gets access to a repository, and is installed on its
\* account if it was not.
Grant(a, r) ==
  /\ Admin
  /\ <<a, r>> \notin granted
  /\ granted' = granted \cup {<<a, r>>}
  /\ onGitHub' = onGitHub \cup {<<a, AccountOf[r]>>}
  /\ UNCHANGED <<apps, pending, installs, repos, sync, together>>

\* external: an App is removed from an account.  No handler hears of it.
Uninstall(a, o) ==
  /\ Admin
  /\ <<a, o>> \in onGitHub
  /\ onGitHub' = onGitHub \ {<<a, o>>}
  /\ granted' = {g \in granted : g[1] # a \/ AccountOf[g[2]] # o}
  /\ UNCHANGED <<apps, pending, installs, repos, sync, together>>

RowsOf(a, o) == {i \in installs : i.app = a /\ i.owner = o}

SyncingToo(s) == \E z \in Syncs \ {s} : sync[z].pc # "idle"

Begin(s, rows) ==
  /\ sync' = [sync EXCEPT ![s] = [IdleSync EXCEPT !.pc = "walk", !.todo = rows,
                                                  !.urls = {repos[t].repo : t \in Live}]]
  /\ together' = (together \/ SyncingToo(s))

\* setup_callback: the row is inserted in the workspace of the App, or linked,
\* and everything is synced.  Only the App itself can read its installation.
SetupCallback(s, a, o) ==
  /\ sync[s].pc = "idle" /\ <<a, o>> \in onGitHub /\ a \in Alive
  /\ LET row  == [app |-> a, owner |-> o, link |-> a,
                  tenant |-> IF apps[a].scope = "platform" THEN FirstTenant ELSE apps[a].scope]
         rows == IF RowsOf(a, o) = {} THEN installs \cup {row}
                 ELSE {IF i \in RowsOf(a, o) /\ i.link = 0 THEN [i EXCEPT !.link = a] ELSE i : i \in installs}
     IN  /\ rows # installs \* a reconfiguration is the sync alone
         /\ installs' = rows
         /\ Begin(s, rows)
  /\ UNCHANGED <<apps, pending, onGitHub, granted, repos, admin>>

\* update_webhook_secret: it may or may not be the one GitHub signs with.
UpdateWebhookSecret(a, secret) ==
  /\ Admin
  /\ a \in Alive /\ apps[a].secret # secret
  /\ apps' = [apps EXCEPT ![a].secret = secret]
  /\ UNCHANGED <<pending, installs, onGitHub, granted, repos, sync, together>>

\* delete_app_config, with the installations linked to it.  On GitHub the App
\* goes on.
DeleteAppConfig(a) ==
  /\ Admin
  /\ a \in Alive
  /\ apps' = [apps EXCEPT ![a].alive = FALSE]
  /\ installs' = {i \in installs : i.link # a}
  /\ UNCHANGED <<pending, onGitHub, granted, repos, sync, together>>

--------------------------------------------------------------------------------
(* _sync_repos *)

\* sync_now, the daily task and the one at worker start; a delivery narrows it.
StartSync(s, rows) ==
  /\ sync[s].pc = "idle" /\ rows # {}
  /\ Begin(s, rows)
  /\ UNCHANGED <<apps, pending, installs, onGitHub, granted, repos, admin>>

\* Mutant: what this sync has added itself is not remembered.
FreshRepos(z, i) == {r \in Places : <<i.app, r>> \in granted /\ AccountOf[r] = i.owner
                                    /\ r \notin {repos[t].repo : t \in Live}}

\* The repositories of an installation that no target has.
NewRepos(z, i) == {r \in Places : <<i.app, r>> \in granted /\ AccountOf[r] = i.owner /\ r \notin z.urls}

\* One installation: skipped without a config, else its repositories are added
\* to the session.  The token must be minted by the App it belongs to.
WalkInstallation(s, i) ==
  /\ sync[s].pc = "walk" /\ i \in sync[s].todo
  /\ LET z     == sync[s]
         new   == SetToSeq({<<i.tenant, r>> : r \in NewRepos(z, i)})
         moved == [z EXCEPT !.todo = @ \ {i}]
     IN  \/ /\ ResolveConfig(i) = 0
            /\ sync' = [sync EXCEPT ![s] = moved]
         \/ /\ ResolveConfig(i) = i.app /\ <<i.app, i.owner>> \in onGitHub
            /\ sync' = [sync EXCEPT ![s] = [moved EXCEPT !.fresh = z.fresh \o new,
                                                         !.urls = z.urls \cup {new[k][2] : k \in DOMAIN new}]]
  /\ UNCHANGED <<apps, pending, installs, onGitHub, granted, repos, together, admin>>

\* GitHub refuses the token: the exception ends the sync, and nothing that it
\* has added is committed.
TokenRefused(s, i) ==
  /\ sync[s].pc = "walk" /\ i \in sync[s].todo
  /\ ResolveConfig(i) # 0 /\ (ResolveConfig(i) # i.app \/ <<i.app, i.owner>> \notin onGitHub)
  /\ sync' = [sync EXCEPT ![s] = IdleSync]
  /\ UNCHANGED <<apps, pending, installs, onGitHub, granted, repos, together, admin>>

NewTarget(tenant, r, by) ==
  [tenant |-> tenant, repo |-> r, life |-> "active", mode |-> "warn", by |-> by, scans |-> FALSE]

\* One commit for every installation; then the scans.
CommitSync(s) ==
  /\ sync[s].pc = "walk" /\ sync[s].todo = {}
  /\ LET fresh == sync[s].fresh
     IN  /\ repos' = repos \o [k \in DOMAIN fresh |-> NewTarget(fresh[k][1], fresh[k][2], "sync")]
         /\ sync' = [sync EXCEPT ![s] = IF fresh = <<>> THEN IdleSync
                       ELSE [IdleSync EXCEPT !.pc = "queue", !.queue = {Len(repos) + k : k \in DOMAIN fresh}]]
  /\ UNCHANGED <<apps, pending, installs, onGitHub, granted, together, admin>>

\* queue_full_scan, which refuses a target that is not active.
Queued(ts) == [t \in DOMAIN repos |-> [repos[t] EXCEPT !.scans = @ \/ (t \in ts /\ repos[t].life = "active")]]

QueueScans(s) ==
  /\ sync[s].pc = "queue"
  /\ \E t \in sync[s].queue :
       /\ repos' = Queued({t})
       /\ sync' = [sync EXCEPT ![s] = IF sync[s].queue = {t} THEN IdleSync
                                         ELSE [sync[s] EXCEPT !.queue = sync[s].queue \ {t}]]
  /\ UNCHANGED <<apps, pending, installs, onGitHub, granted, together, admin>>

\* The process dies: the commit stands, the scans are not queued.
SyncDies(s) ==
  /\ Admin
  /\ sync[s].pc # "idle"
  /\ sync' = [sync EXCEPT ![s] = IdleSync]
  /\ UNCHANGED <<apps, pending, installs, onGitHub, granted, repos, together>>

\* queue_full_scan_for_targets_missing_a_baseline
NeedsBaseline(t) == repos[t].life = "active" /\ ~repos[t].scans

\* _queue_missing_baseline_scans, when a worker starts.
WorkerReady ==
  /\ \E t \in Live : NeedsBaseline(t)
  /\ repos' = Queued(DOMAIN repos)
  /\ UNCHANGED <<apps, pending, installs, onGitHub, granted, sync, together, admin>>

--------------------------------------------------------------------------------
(* Deliveries: a body signed with the secret of App a, which names the       *)
(* installation of App b on account o and repository r.  GitHub's name the   *)
(* signer's own; whoever holds the secret of one App may sign any other, so  *)
(* nothing but the secret is taken for granted.  An installation nobody knows*)
(* is that of App 0.                                                         *)

\* _candidate_configs: the App of the installation named, if it is known.
Narrowed(b, o) == \E i \in RowsOf(b, o) : ResolveConfig(i) # 0

\* Mutant: every secret is tried, whatever installation is named.
VerifiedByAny(a, b, o) == a \in Alive /\ apps[a].secret = "right"

\* _verify_signature: against that App's secret, or against all of them.
Verified(a, b, o) ==
  /\ a \in IF Narrowed(b, o) THEN {ResolveConfig(i) : i \in RowsOf(b, o)} ELSE Alive
  /\ apps[a].secret = "right"

\* _installation_workspace_id: none unless the signature was narrowed to it.
InstallationWorkspace(b, o) == IF Narrowed(b, o) THEN {i.tenant : i \in RowsOf(b, o)} ELSE {}

\* _target_for_repo: the rows of which it returns one, whichever comes first.
TargetForRepo(b, o, r) ==
  {t \in Live : repos[t].repo = r /\ repos[t].tenant \in InstallationWorkspace(b, o)}

\* _handle_pull_request, with the row it was given.  The scan itself is in the
\* guardrail's own module.
Scans(t) == repos[t].life = "active" /\ repos[t].mode # "disabled"

\* _handle_push and _handle_pr_merged, on the default branch, with their row.
DeliverPush(a, b, o, r) ==
  /\ Verified(a, b, o)
  /\ \E t \in TargetForRepo(b, o, r) :
       /\ repos[t].life = "active"
       /\ ~repos[t].scans
       /\ repos' = Queued({t})
  /\ UNCHANGED <<apps, pending, installs, onGitHub, granted, sync, together, admin>>

\* _handle_installation_repositories: the installation named, and no other.
Resynced(b, o) == IF Narrowed(b, o) THEN RowsOf(b, o) ELSE {}

DeliverAdded(s, a, b, o) ==
  /\ Verified(a, b, o)
  /\ StartSync(s, Resynced(b, o))

--------------------------------------------------------------------------------
(* Targets *)

\* create_target asks for no other target of the repository.
CreateTarget(w, r) ==
  /\ Admin
  /\ repos' = Append(repos, NewTarget(w, r, "hand"))
  /\ UNCHANGED <<apps, pending, installs, onGitHub, granted, sync, together>>

SwitchTarget(t, life) ==
  /\ Admin
  /\ repos[t].life \notin {"deleted", life}
  /\ repos' = [repos EXCEPT ![t].life = life]
  /\ UNCHANGED <<apps, pending, installs, onGitHub, granted, sync, together>>

SetMode(t, mode) ==
  /\ Admin
  /\ repos[t].mode # mode
  /\ repos' = [repos EXCEPT ![t].mode = mode]
  /\ UNCHANGED <<apps, pending, installs, onGitHub, granted, sync, together>>

--------------------------------------------------------------------------------
\* A new deployment, or one with the App of the platform and an installation
\* from before installations were linked, on everything that its account has.
LinkInit ==
  /\ \E old \in BOOLEAN :
       LET o == CHOOSE o \in Accounts : TRUE
       IN  /\ apps = IF old THEN <<[scope |-> "platform", secret |-> "right", alive |-> TRUE]>> ELSE <<>>
           /\ installs = IF old THEN {[app |-> 1, owner |-> o, link |-> 0, tenant |-> FirstTenant]} ELSE {}
           /\ onGitHub = IF old THEN {<<1, o>>} ELSE {}
           /\ granted = IF old THEN {<<1, r>> : r \in {q \in Places : AccountOf[q] = o}} ELSE {}
  /\ pending = <<>> /\ repos = <<>>
  /\ sync = [s \in Syncs |-> IdleSync]
  /\ together = FALSE /\ admin = 0

SyncStep(s) ==
  \/ StartSync(s, installs)
  \/ \E i \in sync[s].todo : WalkInstallation(s, i) \/ TokenRefused(s, i)
  \/ CommitSync(s)
  \/ QueueScans(s)

LinkNext ==
  \/ \E scope \in Tenants \cup {"platform"} : ManifestData(scope)
  \/ \E k \in DOMAIN pending, converted \in BOOLEAN : AppCallback(k, converted)
  \/ ApiRestart
  \/ \E a \in DOMAIN apps :
       \/ \E r \in Places : Grant(a, r)
       \/ \E o \in Accounts :
            \/ Uninstall(a, o)
            \/ \E s \in Syncs : SetupCallback(s, a, o)
       \/ \E b \in 0..Len(apps), o \in Accounts :
            \/ \E r \in Places : DeliverPush(a, b, o, r)
            \/ \E s \in Syncs : DeliverAdded(s, a, b, o)
       \/ \E secret \in {"unset", "wrong"} : UpdateWebhookSecret(a, secret)
       \/ DeleteAppConfig(a)
  \/ \E s \in Syncs : SyncStep(s) \/ SyncDies(s)
  \/ WorkerReady
  \/ \E w \in Tenants, r \in Places : CreateTarget(w, r)
  \/ \E t \in DOMAIN repos :
       \/ \E life \in {"active", "deactivated", "deleted"} : SwitchTarget(t, life)
       \/ SetMode(t, "disabled")

LinkSpec == LinkInit /\ [][LinkNext]_linkVars

\* The daily task comes round, however many syncs deliveries start in between,
\* and a sync goes on to its end.
LinkFairSpec ==
  LinkSpec /\ \A s \in Syncs : WF_linkVars(SyncStep(s)) /\ SF_linkVars(StartSync(s, installs))

--------------------------------------------------------------------------------
\* App a may act for an installation: it is its own, set up for its workspace or
\* for the platform; or the row dates from before links, and the App is guessed.
Entitled(a, i) ==
  \/ i.app = a /\ apps[a].scope \in {i.tenant, "platform"}
  \/ i.link = 0 /\ (apps[a].scope \in {i.tenant, "platform"} \/ Alive = {a})

(* Whatever installation and repository a body names, the App whose secret
   signed it starts work in no workspace but one it was set up for, by an
   installation of its own, however many workspaces have the repository as a
   target and whatever was deleted meanwhile; a row from before installations
   were linked is the exception, and is matched to the App of its workspace, of
   the platform, or to the only one there is (_candidate_configs,
   _installation_workspace_id, _target_for_repo,
   _handle_installation_repositories; issue 530). *)
ActsForItsTenant ==
  \A a \in DOMAIN apps, b \in 0..Len(apps), o \in Accounts : Verified(a, b, o) =>
    /\ \A r \in Places : \A t \in TargetForRepo(b, o, r) :
         \E i \in installs : Entitled(a, i) /\ i.tenant = repos[t].tenant
    /\ \A i \in Resynced(b, o) : Entitled(a, i)

\* The other live rows of a target's repository in its workspace; create_target
\* allows them.
Duplicates(t) == {u \in Live \ {t} : repos[u].repo = repos[t].repo /\ repos[u].tenant = repos[t].tenant}

(* When pull requests of a target count as covered, so that no pipeline is
   rolled out to it, an event of the installation that covers it does start a
   scan of that repository in that workspace, whichever row the lookup returns:
   core/github_app.py and api/webhooks.py agree, for an installation on the
   repository's account that belongs to the App it resolves to, a secret that is
   not a wrong one, and no second row of the repository that is deactivated or
   disabled, which the lookup could return instead. *)
CoverageScans ==
  \A t \in Live : \A i \in installs :
    (/\ repos[t].life = "active" /\ HasCoverage(t, i)
     /\ i.owner = AccountOf[repos[t].repo] /\ ResolveConfig(i) = i.app /\ apps[i.app].secret # "wrong"
     /\ \A u \in Duplicates(t) : Scans(u))
    => LET found == TargetForRepo(i.app, i.owner, repos[t].repo)
       IN  /\ Verified(i.app, i.app, i.owner) /\ found # {}
           /\ \A u \in found : Scans(u) /\ repos[u].tenant = repos[t].tenant

(* Syncs that do not overlap import a repository once, through however many
   Apps and installations it can be seen; a target that was deleted does not
   stand in its way (_sync_repos). *)
ImportedOnce ==
  ~together => \A t, u \in Live :
    (repos[t].by = "sync" /\ repos[u].by = "sync" /\ repos[t].repo = repos[u].repo) => t = u

\* An installation on record, and known for what it is, may see the repository.
Importable(r) ==
  \E i \in installs : <<i.app, r>> \in granted /\ i.owner = AccountOf[r] /\ ResolveConfig(i) = i.app

(* The daily sync is a guarantee: a repository that an installation on record
   may see gets a target, or the access ends (tasks/celery_app.py 143-145). *)
GrantedIsImported ==
  \A r \in Places : Importable(r) ~> ((\E t \in Live : repos[t].repo = r) \/ ~Importable(r))
================================================================================
