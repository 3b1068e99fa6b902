--------------------------- MODULE GuardrailComment ---------------------------
(***************************************************************************)
(* The comment the guardrail keeps on a pull request: rendered by every    *)
(* scan, and patched in place when a finding is approved or the approval   *)
(* revoked (core/pr_guardrail_executor.py).  Asking again for an approved  *)
(* finding and rejecting it take the approval back as well, and say nothing*)
(* on GitHub; nor does a revocation once the pull request is merged.       *)
(* Detections of several tools on one line share a row with a count of its *)
(* approved members.                                                       *)
(* The comments themselves are GitHub's, read and written one by one.      *)
(***************************************************************************)
EXTENDS Naturals, Sequences, FiniteSets, FiniteSetsExt, SequencesExt

CONSTANTS
  Issues,     \* PRGuardrailFinding, the same identity in every scan
  IssueTool, IssueLine, \* its tool and its line, 0 when it has none
  Writers,    \* threads that write comments
  MaxRenders, \* bound on scans
  MaxReviews, \* bound on approvals, revocations, requests and rejections
  MaxGitHub   \* bound on calls GitHub refuses

ASSUME CommentAssumption ==
  /\ IsFiniteSet(Issues) /\ IsFiniteSet(Writers) /\ "none" \notin Issues
  /\ IssueTool \in [Issues -> STRING] /\ IssueLine \in [Issues -> Nat]
  /\ {MaxRenders, MaxReviews, MaxGitHub} \subseteq Nat

VARIABLES
  approvedRows, \* per scan, the rows approved; the scans are 1..Len
  thread,       \* the comments on the pull request with the marker, oldest first
  writer,       \* what each thread is doing
  merged,       \* GitHub's: the pull request is merged
  overlapped,   \* history: two writers at once, or a call refused
  unsaid,       \* history: rows whose approval was taken back in silence, by scan
  reviews, refused

commentVars == <<approvedRows, thread, writer, merged, overlapped, unsaid, reviews, refused>>

IdleWriter == [pc |-> "idle", scan |-> 0, issue |-> "none", approve |-> FALSE, at |-> 0, body |-> <<>>]

\* group_findings_by_location: one line, at least two tools; everything else
\* is on a row of its own.
Together(i) == {j \in Issues : IssueLine[j] = IssueLine[i]}

GroupOf(i) ==
  IF IssueLine[i] # 0 /\ Cardinality({IssueTool[j] : j \in Together(i)}) >= 2
  THEN Together(i) ELSE {i}

Groups == {GroupOf(i) : i \in Issues}

\* render_comment: a link to ask with, or a mark, for every finding, and the
\* count in the header of a group (_action_cell, _group_action_cell).
RenderComment(s, approved) ==
  [scan |-> s, cell |-> [i \in Issues |-> i \in approved],
   header |-> [g \in {x \in Groups : Cardinality(x) > 1} |-> Cardinality(g \cap approved)]]

\* Mutant: the header keeps the count it was rendered with.
HeaderKept(body, s, i) == body.header

\* _patch_group_header_in_comment: whatever count it shows becomes the one of
\* the table now.
PatchHeader(body, s, i) ==
  [g \in DOMAIN body.header |-> IF i \in g THEN Cardinality(g \cap approvedRows[s]) ELSE body.header[g]]

Busy == {w \in Writers : writer[w].pc # "idle"}

Refuse == refused < MaxGitHub /\ refused' = refused + 1

\* A scan stores its findings, those approved before already approved, and
\* renders them.
Render(w) ==
  LET s        == Len(approvedRows) + 1
      approved == UNION {approvedRows[r] : r \in DOMAIN approvedRows}
  IN  /\ s <= MaxRenders /\ writer[w].pc = "idle"
      /\ approvedRows' = Append(approvedRows, approved)
      /\ writer' = [writer EXCEPT ![w] = [IdleWriter EXCEPT !.pc = "find", !.scan = s,
                                                            !.body = RenderComment(s, approved)]]
      /\ overlapped' = (overlapped \/ Busy # {})
      /\ UNCHANGED <<thread, merged, unsaid, reviews, refused>>

\* approve_ignore and revoke_ignore have committed the row; the comment comes
\* next, after a look at the merge state when it is a revocation.
Review(w, s, i, approve) ==
  /\ reviews < MaxReviews /\ reviews' = reviews + 1
  /\ writer[w].pc = "idle"
  /\ s \in DOMAIN approvedRows /\ (i \in approvedRows[s]) # approve
  /\ approvedRows' = [approvedRows EXCEPT ![s] = IF approve THEN @ \cup {i} ELSE @ \ {i}]
  /\ writer' = [writer EXCEPT ![w] = [IdleWriter EXCEPT !.pc = IF approve THEN "find" ELSE "check",
                                                        !.scan = s, !.issue = i, !.approve = approve]]
  /\ overlapped' = (overlapped \/ Busy # {})
  /\ UNCHANGED <<thread, merged, unsaid, refused>>

\* submit_ignore_request, from the button or from a reply on the pull request,
\* and reject_ignore overwrite the status of the row whatever it was: an
\* approval is gone, and the comment is left alone.
TakeBack(s, i) ==
  /\ reviews < MaxReviews /\ reviews' = reviews + 1
  /\ s \in DOMAIN approvedRows /\ i \in approvedRows[s]
  /\ approvedRows' = [approvedRows EXCEPT ![s] = @ \ {i}]
  /\ unsaid' = unsaid \cup {<<s, i>>}
  /\ UNCHANGED <<thread, writer, merged, overlapped, refused>>

\* The pull request is merged, on GitHub.
MergePr ==
  /\ ~merged /\ merged' = TRUE
  /\ UNCHANGED <<approvedRows, thread, writer, overlapped, unsaid, reviews, refused>>

\* _pr_is_merged: the comment of a merged pull request is history, and a
\* revocation leaves it.
CheckMerged(w) ==
  /\ writer[w].pc = "check"
  /\ writer' = [writer EXCEPT ![w] = IF merged THEN IdleWriter ELSE [@ EXCEPT !.pc = "find"]]
  /\ unsaid' = IF merged THEN unsaid \cup {<<writer[w].scan, writer[w].issue>>} ELSE unsaid
  /\ UNCHANGED <<approvedRows, thread, merged, overlapped, reviews, refused>>

\* _find_existing_comment: the first one with a marker; its text is read.  A
\* patch needs the cell it replaces, which names the scan and the finding.
Find(w) ==
  /\ writer[w].pc = "find"
  /\ LET it == writer[w]
         there == thread # <<>> /\ thread[1].scan = it.scan /\ thread[1].cell[it.issue] # it.approve
     IN  writer' = [writer EXCEPT ![w] =
           IF it.issue = "none" THEN [it EXCEPT !.pc = "write", !.at = IF thread = <<>> THEN 0 ELSE 1]
           ELSE IF ~there THEN IdleWriter
           ELSE [it EXCEPT !.pc = "write", !.at = 1,
                   !.body = [scan   |-> it.scan,
                             cell   |-> [thread[1].cell EXCEPT ![it.issue] = it.approve],
                             header |-> PatchHeader(thread[1], it.scan, it.issue)]]]
  /\ UNCHANGED <<approvedRows, thread, merged, overlapped, unsaid, reviews, refused>>

\* The comment is updated, or created when there was none.
Write(w) ==
  /\ writer[w].pc = "write"
  /\ thread' = IF writer[w].at = 0 THEN Append(thread, writer[w].body)
               ELSE [thread EXCEPT ![1] = writer[w].body]
  /\ writer' = [writer EXCEPT ![w] = IdleWriter]
  /\ UNCHANGED <<approvedRows, merged, overlapped, unsaid, reviews, refused>>

\* No installation token, the merge state unknown, a listing or a write
\* refused, or an exception: a warning, and the comment stays as it is.
WriteFails(w) ==
  /\ Refuse
  /\ writer[w].pc # "idle"
  /\ writer' = [writer EXCEPT ![w] = IdleWriter]
  /\ overlapped' = TRUE
  /\ UNCHANGED <<approvedRows, thread, merged, unsaid, reviews>>

CommentInit ==
  /\ approvedRows = <<>> /\ thread = <<>>
  /\ writer = [w \in Writers |-> IdleWriter]
  /\ merged = FALSE /\ overlapped = FALSE /\ unsaid = {} /\ reviews = 0 /\ refused = 0

CommentNext ==
  \/ \E w \in Writers :
       \/ Render(w)
       \/ \E s \in 1..MaxRenders, i \in Issues, approve \in BOOLEAN : Review(w, s, i, approve)
       \/ CheckMerged(w)
       \/ Find(w)
       \/ Write(w)
       \/ WriteFails(w)
  \/ \E s \in 1..MaxRenders, i \in Issues : TakeBack(s, i)
  \/ MergePr

CommentSpec == CommentInit /\ [][CommentNext]_commentVars

-----------------------------------------------------------------------------
(* At rest, unless writers overlapped or GitHub refused one, there is one
   comment and it is the last scan's.  No approval is missing from it, a mark it
   has too many is of an approval taken back by a new request, by a rejection,
   or by a revocation after the merge, and the header of every other group
   counts the marks inside it (render_comment, update_ and
   revoke_finding_status_in_pr_comment, _patch_group_header_in_comment). *)
CommentAgrees ==
  (~overlapped /\ Busy = {} /\ approvedRows # <<>>) =>
    LET n == Len(approvedRows)
    IN  /\ Len(thread) = 1 /\ thread[1].scan = n
        /\ \A i \in approvedRows[n] : thread[1].cell[i]
        /\ \A i \in Issues : thread[1].cell[i] => i \in approvedRows[n] \/ <<n, i>> \in unsaid
        /\ \A g \in DOMAIN thread[1].header :
             (\A i \in g : <<n, i>> \notin unsaid) =>
               thread[1].header[g] = Cardinality({i \in g : thread[1].cell[i]})
=============================================================================
