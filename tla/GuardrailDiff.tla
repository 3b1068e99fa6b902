----------------------------- MODULE GuardrailDiff -----------------------------
(***************************************************************************)
(* What a guardrail scan examines and reports: the files a pull request    *)
(* changes, the files that import them, the tools, the findings new        *)
(* against the default branch, the ones attributed to changed lines, the   *)
(* policies, and the sentence the comment ends with                        *)
(* (core/pr_guardrail_executor.py, core/code_graph.py,                     *)
(* core/pr_guardrail.py, core/policy.py, core/enforcement.py).             *)
(* One edited file stands for the diff, with its lines; the others for the *)
(* files that import it and the rest of the repository.                    *)
(***************************************************************************)
EXTENDS Naturals, Sequences, FiniteSets, FiniteSetsExt, SequencesExt

CONSTANTS
  MaxLines,   \* bound on the lines of the edit
  Flaws,      \* records [file, line, end, tool, severity, rule]
  Importers,  \* the files that import the edited one, at each commit
  DiffTools,  \* the tools of the guardrail
  FAN_IN_CAP, MAX_EXPANDED_FILES,
  MaxPushes,  \* bound on pushes after the edit
  MaxOptions  \* bound on changes of the settings

ASSUME DiffAssumption ==
  /\ {MaxLines, FAN_IN_CAP, MAX_EXPANDED_FILES, MaxPushes, MaxOptions} \subseteq Nat
  /\ IsFiniteSet(Flaws) /\ DOMAIN Importers = 1..MaxPushes
  /\ \A f \in Flaws : f.tool \in DiffTools

VARIABLES
  edit,     \* the edit, line by line: kept, added, deleted
  flaws,    \* what the tools would report on the branch
  option,   \* diff_scoped_pr_scans, a baseline, its open findings, the policies
  headAt,   \* the commit at the head of the branch
  graphRow, \* the cached CodeGraph row: its commit, and the commit it is of
  look,     \* the scan in progress
  pushes, options

diffVars == <<edit, flaws, option, headAt, graphRow, look, pushes, options>>

SEVERITY_ORDER == <<"Informational", "Low", "Medium", "High", "Critical">>

RepoFiles == {"edited", "elsewhere"} \cup UNION {Importers[c] : c \in DOMAIN Importers}

WholeFile == {0} \* every line counts

\* The unified diff GitHub makes of an edit: one hunk from the first change,
\* in the numbering of the new file, and no patch without a change.
PatchOf(script) ==
  LET first == CHOOSE i \in 1..Len(script) : /\ script[i] # "keep"
                                             /\ \A j \in 1..(i - 1) : script[j] = "keep"
  IN  IF \A i \in DOMAIN script : script[i] = "keep" THEN <<>>
      ELSE <<<<"@@", first>>>> \o [i \in 1..(Len(script) - first + 1) |-> <<script[first + i - 1], 0>>]

\* Mutant: a deleted line takes a number too.
ReadLineAll(at, l) ==
  IF l[1] = "@@" THEN [at EXCEPT !.line = l[2]]
  ELSE [line |-> at.line + 1, added |-> IF l[1] = "add" THEN at.added \cup {at.line} ELSE at.added]

\* One line of a patch: the number of the next line of the new file, and the
\* numbers of the lines added so far.
ReadLine(at, l) ==
  IF l[1] = "@@" THEN [at EXCEPT !.line = l[2]]
  ELSE IF l[1] = "del" THEN at
  ELSE [line |-> at.line + 1, added |-> IF l[1] = "add" THEN at.added \cup {at.line} ELSE at.added]

\* _added_lines_from_patch
AddedLines(patch) ==
  LET at[n \in 0..Len(patch)] ==
        IF n = 0 THEN [line |-> 0, added |-> {}] ELSE ReadLine(at[n - 1], patch[n])
  IN  at[Len(patch)].added

\* _changed_line_map, with the importers attributed whole.
ChangedLines(entries, paths) ==
  [f \in paths \cup {"edited"} |-> IF f = "edited" /\ entries # <<>> THEN AddedLines(entries) ELSE WholeFile]

\* expand_paths, from the edited file.
ExpandPaths(importers) ==
  IF Cardinality(importers) > FAN_IN_CAP \/ Cardinality(importers) + 1 > MAX_EXPANDED_FILES
  THEN {} ELSE {"edited"} \cup importers

\* compute_net_new
NetNew(found) == {f \in found : f \notin option.open}

\* attributable_to_diff
Attributable(found, lines) ==
  {f \in found : /\ f.file \in DOMAIN lines
                 /\ \/ lines[f.file] = WholeFile \/ f.line = 0
                    \/ \E l \in lines[f.file] : f.line <= l /\ l <= Max({f.end, f.line})}

\* _matches_suppress_rule and _matches_suppress_license, by rule.
Suppressed(f) == [type |-> "suppress", value |-> f.rule] \in option.policies

Rank(severity) == CHOOSE i \in DOMAIN SEVERITY_ORDER : SEVERITY_ORDER[i] = severity

\* effective_blocking_severities: the lowest threshold, else the default.
BlockingFrom ==
  LET thresholds == {Rank(p.value) : p \in {q \in option.policies : q.type = "block_severity"}}
  IN  IF thresholds = {} THEN Rank("High") ELSE Min(thresholds)

IdleLook ==
  [pc |-> "idle", sha |-> 0, of |-> 0, seen |-> {}, entries |-> <<>>, listed |-> FALSE,
   paths |-> {}, scope |-> "full", ran |-> {}, failed |-> {}, skipped |-> {}, found |-> {},
   new |-> {}, baseline |-> TRUE, lines |-> <<>>, blocked |-> FALSE, closing |-> "none"]

Option(o) == options < MaxOptions /\ options' = options + 1 /\ option' = o

\* A line of the edit, and what the tools will say about the branch.
EditLine(op) ==
  /\ Len(edit) < MaxLines /\ look.pc = "idle" /\ headAt = 0
  /\ edit' = Append(edit, op)
  /\ UNCHANGED <<flaws, option, headAt, graphRow, look, pushes, options>>

Push(fs) ==
  /\ pushes < MaxPushes /\ pushes' = pushes + 1
  /\ headAt' = headAt + 1 /\ flaws' = fs
  /\ UNCHANGED <<edit, option, graphRow, look, options>>

\* The head is read, and the branch cloned, by then maybe at a later commit.
Clone ==
  /\ look.pc = "idle" /\ headAt > 0
  /\ \E sha \in {headAt, Max({1, headAt - 1})} :
       look' = [IdleLook EXCEPT !.pc = "files", !.sha = sha, !.of = headAt, !.seen = flaws]
  /\ UNCHANGED <<edit, flaws, option, headAt, graphRow, pushes, options>>

\* _pr_files: every page, or nothing at all.
ListFiles(ok) ==
  /\ look.pc = "files"
  /\ look' = [look EXCEPT !.pc = "scope", !.listed = ok, !.entries = IF ok THEN PatchOf(edit) ELSE <<>>]
  /\ UNCHANGED <<edit, flaws, option, headAt, graphRow, pushes, options>>

\* Mutant: the cached graph is used whatever commit it is of.
CachedAny(sha) == graphRow.sha # 0

\* load_cached_graph
Cached(sha) == graphRow.sha = sha

\* build_import_graph, of the checkout of a commit.
ImportGraph(commit) == Importers[commit]

\* resolve_blast_radius: a scan of the whole repository whenever the diff, the
\* graph or the caps leave no other choice.
Scope ==
  LET graph  == IF Cached(look.sha) THEN graphRow.of ELSE look.of
      paths  == ExpandPaths(ImportGraph(graph))
      narrow == option.diffScoped /\ look.listed /\ edit # <<>> /\ paths # {}
  IN  /\ look.pc = "scope"
      /\ look' = [look EXCEPT !.pc = "tools", !.paths = IF narrow THEN paths ELSE RepoFiles,
                              !.scope = IF narrow THEN "diff" ELSE "full"]
      /\ graphRow' = IF option.diffScoped /\ look.listed /\ edit # <<>> /\ ~Cached(look.sha)
                     THEN [sha |-> look.sha, of |-> look.of] ELSE graphRow
      /\ UNCHANGED <<edit, flaws, option, headAt, pushes, options>>

\* _run_guardrail_tools: one tool ran, raised, or has nothing to scan here.
RunTool(t, how) ==
  /\ look.pc = "tools" /\ t \in DiffTools \ (look.ran \cup look.failed \cup look.skipped)
  /\ how = "skipped" => look.scope = "diff" /\ \A f \in look.seen : f.tool = t => f.file \notin look.paths
  /\ look' = [look EXCEPT ![how] = @ \cup {t},
                !.found = IF how = "ran" THEN @ \cup {f \in look.seen : f.tool = t /\ f.file \in look.paths} ELSE @]
  /\ UNCHANGED <<edit, flaws, option, headAt, graphRow, pushes, options>>

\* Mutant: a tool that failed is not mentioned.
ClosingQuiet(new, baseline, failed, scope, listed) ==
  IF new # {} THEN "findings" ELSE IF ~baseline THEN "no baseline"
  ELSE IF scope = "diff" THEN "diff only" ELSE "none introduced"

\* render_comment: the sentence it ends with when there is nothing to list.
Closing(new, baseline, failed, scope, listed) ==
  IF new # {} THEN "findings" ELSE IF ~baseline THEN "no baseline"
  ELSE IF failed # {} THEN "not an all-clear" ELSE IF scope = "diff" THEN "diff only"
  ELSE IF listed THEN "none introduced" ELSE "none against the default branch"

\* Net-new, attributed, suppressed, judged and rendered.
Judge ==
  LET lines == ChangedLines(look.entries, IF look.scope = "diff" THEN look.paths ELSE {})
      net   == IF option.baseline THEN NetNew(look.found) ELSE {}
      mine  == IF look.listed THEN Attributable(net, lines) ELSE net
      new   == {f \in mine : ~Suppressed(f)}
  IN  /\ look.pc = "tools" /\ look.ran \cup look.failed \cup look.skipped = DiffTools
      /\ look' = [look EXCEPT !.pc = "done", !.new = new, !.baseline = option.baseline, !.lines = lines,
                    !.blocked = \E f \in new : Rank(f.severity) >= BlockingFrom,
                    !.closing = Closing(new, option.baseline, look.failed, look.scope, look.listed)]
      /\ UNCHANGED <<edit, flaws, option, headAt, graphRow, pushes, options>>

Finish ==
  /\ look.pc = "done" /\ look' = IdleLook
  /\ UNCHANGED <<edit, flaws, option, headAt, graphRow, pushes, options>>

\* The settings of the target, its default branch and the workspace.
SetOptions ==
  /\ \/ Option([option EXCEPT !.diffScoped = ~@])
     \/ Option([option EXCEPT !.baseline = ~@])
     \/ \E fs \in SUBSET flaws : option.baseline /\ Option([option EXCEPT !.open = fs])
     \/ \E p \in [type : {"suppress"}, value : {f.rule : f \in Flaws}]
                   \cup [type : {"block_severity"}, value : {"Low"}] :
          Option([option EXCEPT !.policies = @ \cup {p}])
  /\ look.pc = "idle"
  /\ UNCHANGED <<edit, flaws, headAt, graphRow, look, pushes>>

DiffInit ==
  /\ edit = <<>> /\ flaws = {} /\ headAt = 0
  /\ option = [diffScoped |-> TRUE, baseline |-> TRUE, open |-> {}, policies |-> {}]
  /\ graphRow = [sha |-> 0, of |-> 0]
  /\ look = IdleLook /\ pushes = 0 /\ options = 0

DiffNext ==
  \/ \E op \in {"keep", "add", "del"} : EditLine(op)
  \/ \E fs \in SUBSET Flaws : Push(fs)
  \/ Clone
  \/ \E ok \in BOOLEAN : ListFiles(ok)
  \/ Scope
  \/ \E t \in DiffTools, how \in {"ran", "failed", "skipped"} : RunTool(t, how)
  \/ Judge
  \/ Finish
  \/ SetOptions

DiffSpec == DiffInit /\ [][DiffNext]_diffVars

-----------------------------------------------------------------------------
\* The numbers, in the new file, of the lines the edit inserted.
Inserted == {Cardinality({j \in 1..i : edit[j] # "del"}) : i \in {k \in DOMAIN edit : edit[k] = "add"}}

\* Flaw f is on an inserted line, and nothing the team decided hides it.
Introduced(f) ==
  /\ f.file = "edited" /\ \E l \in Inserted : f.line <= l /\ l <= Max({f.end, f.line})
  /\ f \notin option.open /\ ~Suppressed(f)

(* A flaw on an inserted line that a tool saw is reported, and of the edited
   file nothing else is, unless it has no line or GitHub sent no patch
   (_added_lines_from_patch, attributable_to_diff). *)
ReportsTheEdit ==
  (look.pc = "done" /\ look.baseline) =>
    /\ \A f \in look.seen : Introduced(f) /\ f.tool \in look.ran => f \in look.new
    /\ (look.listed /\ look.entries # <<>>) =>
         \A f \in look.new : f.file = "edited" /\ f.line # 0 => Introduced(f)

(* An all-clear is one: every tool ran on the whole repository and nothing was
   introduced, neither reported nor hidden by a tool that failed. *)
AllClearIsClear ==
  (look.pc = "done" /\ look.closing \in {"none introduced", "none against the default branch"}) =>
    \A f \in look.seen : ~Introduced(f)

(* A narrowed scan examines every file that imports the edited one at the
   commit it checked out, unless the branch moved between the reading of the
   head and the clone that a stored graph was built from. *)
ExaminesImporters ==
  (look.pc \in {"tools", "done"} /\ look.scope = "diff" /\ graphRow.sha = graphRow.of
     /\ look.sha = look.of) => Importers[look.of] \subseteq look.paths
=============================================================================
