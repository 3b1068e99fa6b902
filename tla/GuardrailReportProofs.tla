------------------------ MODULE GuardrailReportProofs ------------------------
(***************************************************************************)
(* What a guardrail scan says on a pull request, for every set of          *)
(* findings, writers, edits and importers: the comment agrees with the     *)
(* table (GuardrailComment); a scan reports what the edit introduced, an   *)
(* all-clear is one, and a narrowed scan examines the importers            *)
(* (GuardrailDiff).                                                        *)
(***************************************************************************)
EXTENDS GuardrailComment, GuardrailDiff, FiniteSetTheorems, SequenceTheorems,
        WellFoundedInduction, TLAPS

-----------------------------------------------------------------------------
(* The comment.                                                            *)

\* The groups whose row has a header with a count.
Counted == {g \in Groups : Cardinality(g) > 1}

Comments == [scan : Nat, cell : [Issues -> BOOLEAN], header : [Counted -> Nat]]

WriterRec ==
  [pc : {"idle", "check", "find", "write"}, scan : Nat, issue : Issues \cup {"none"}, approve : BOOLEAN,
   at : {0, 1}, body : Comments \cup {<<>>}]

\* What is to be written is a comment.
HasBody(it) ==
  /\ it.pc = "write" \/ (it.pc = "find" /\ it.issue = "none") => it.body \in Comments
  /\ it.pc = "check" => it.issue \in Issues /\ ~it.approve

CommentTypes ==
  /\ approvedRows \in Seq(SUBSET Issues)
  /\ thread \in Seq(Comments)
  /\ writer \in [Writers -> WriterRec] /\ \A w \in Writers : HasBody(writer[w])
  /\ overlapped \in BOOLEAN

\* A comment of scan n that fits the approved rows: none is missing, and what
\* is wrong was taken back in silence (u).
Fits(c, n, rows, u) ==
  /\ c.scan = n
  /\ \A i \in rows : c.cell[i]
  /\ \A i \in Issues : c.cell[i] => i \in rows \/ <<n, i>> \in u
  /\ \A g \in Counted : (\A i \in g : <<n, i>> \notin u) => c.header[g] = Cardinality(g \cap rows)

\* One that fits the table as it is now.
Current(c) == Fits(c, Len(approvedRows), approvedRows[Len(approvedRows)], unsaid)

\* One thread writes at a time.
OneWriter == \A w, v \in Writers : writer[w].pc # "idle" /\ writer[v].pc # "idle" => w = v

\* The comment is as it has to be when nobody writes.
Settled ==
  \/ approvedRows = <<>> /\ thread = <<>>
  \/ approvedRows # <<>> /\ Len(thread) = 1 /\ Current(thread[1])

AtRest == (\A w \in Writers : writer[w].pc = "idle") => Settled

\* The approved rows of the last scan before the review of issue i.
Before(rows, i, approve) == IF approve THEN rows \ {i} ELSE rows \cup {i}

AtMostOne == thread = <<>> \/ Len(thread) = 1

\* A scan is about to look for its comment: the text is the one to be there.
Rendering(it) ==
  (it.pc = "find" /\ it.issue = "none") =>
    approvedRows # <<>> /\ Current(it.body) /\ AtMostOne

\* A review is: the comment fits the rows of before it, and those of now when
\* the review was of an older scan.
Reviewing(it) ==
  (it.pc \in {"check", "find"} /\ it.issue # "none") =>
    /\ Len(approvedRows) > 0 /\ Len(thread) = 1
    /\ it.scan = Len(approvedRows) =>
         /\ it.approve => it.issue \in approvedRows[it.scan] \/ <<it.scan, it.issue>> \in unsaid
         /\ ~it.approve => it.issue \notin approvedRows[it.scan]
         /\ Fits(thread[1], it.scan, Before(approvedRows[it.scan], it.issue, it.approve), unsaid)
    /\ it.scan # Len(approvedRows) => Current(thread[1])

\* A writer that has found the comment holds the text that agrees.
Writing(it) ==
  it.pc = "write" =>
    /\ approvedRows # <<>> /\ Current(it.body) /\ AtMostOne
    /\ it.at = 0 <=> thread = <<>>

CommentInv ==
  /\ CommentTypes
  /\ ~overlapped => /\ OneWriter /\ AtRest
                    /\ \A w \in Writers : Rendering(writer[w]) /\ Reviewing(writer[w]) /\ Writing(writer[w])

\* Groups are sets of findings.
LEMMA GroupsOfIssues ==
  ASSUME NEW g \in Groups
  PROVE  g \subseteq Issues
BY DEF Groups, GroupOf, Together

\* A rendered comment is a comment, and fits what it was rendered from.
LEMMA RenderedFits ==
  ASSUME NEW s \in Nat, NEW rows \in SUBSET Issues, NEW u
  PROVE  RenderComment(s, rows) \in Comments /\ Fits(RenderComment(s, rows), s, rows, u)
<1>1. \A g \in Counted : Cardinality(g \cap rows) \in Nat
  <2> SUFFICES ASSUME NEW g \in Counted PROVE Cardinality(g \cap rows) \in Nat
    OBVIOUS
  <2>1. g \cap rows \subseteq Issues
    BY GroupsOfIssues DEF Counted
  <2> QED BY <2>1, FS_Subset, FS_CardinalityType, CommentAssumption
<1>2. RenderComment(s, rows) = [scan |-> s, cell |-> [i \in Issues |-> i \in rows],
                                header |-> [g \in Counted |-> Cardinality(g \cap rows)]]
  BY DEF RenderComment, Counted
<1>3. RenderComment(s, rows) \in Comments
  BY <1>1, <1>2 DEF Comments
<1> DEFINE c == RenderComment(s, rows)
<1>4. c.scan = s /\ (\A i \in Issues : c.cell[i] = (i \in rows))
      /\ \A g \in Counted : c.header[g] = Cardinality(g \cap rows)
  BY <1>2
<1> HIDE DEF c
<1>5. Fits(c, s, rows, u)
  BY <1>4 DEF Fits
<1> QED BY <1>3, <1>5 DEF c

\* Patching the cell of one finding and the header of its group makes of a
\* comment that fits the rows of before a review one that fits those of now.
LEMMA PatchFits ==
  ASSUME NEW s \in Nat, NEW rows \in SUBSET Issues, NEW i \in Issues, NEW approve \in BOOLEAN, NEW u,
         approve => i \in rows \/ <<s, i>> \in u, ~approve => i \notin rows,
         s \in DOMAIN approvedRows, approvedRows[s] = rows,
         NEW c \in Comments, Fits(c, s, Before(rows, i, approve), u),
         NEW p, p = [scan |-> s, cell |-> [c.cell EXCEPT ![i] = approve], header |-> PatchHeader(c, s, i)]
  PROVE  Fits(p, s, rows, u)
<1> DEFINE old == Before(rows, i, approve)
<1>1. old \in SUBSET Issues /\ \A j \in Issues : j # i => (j \in old <=> j \in rows)
  BY DEF Before
<1>2. c.cell \in [Issues -> BOOLEAN] /\ DOMAIN c.header = Counted
  BY DEF Comments
<1>3. p.scan = s /\ p.cell[i] = approve /\ \A j \in Issues \ {i} : p.cell[j] = c.cell[j]
  BY <1>2
<1>4. /\ \A j \in old : c.cell[j]
      /\ \A j \in Issues : c.cell[j] => j \in old \/ <<s, j>> \in u
      /\ \A g \in Counted : (\A j \in g : <<s, j>> \notin u) => c.header[g] = Cardinality(g \cap old)
  BY DEF Fits
<1> HIDE DEF old
<1>5. ASSUME NEW j \in rows PROVE p.cell[j]
  <2>1. CASE j = i
    BY <1>3, <1>5, <2>1, Zenon
  <2>2. CASE j # i
    BY <1>1, <1>3, <1>4, <1>5, <2>2
  <2> QED BY <2>1, <2>2
<1>6. ASSUME NEW j \in Issues, p.cell[j] PROVE j \in rows \/ <<s, j>> \in u
  <2>1. CASE j = i
    BY <1>3, <1>6, <2>1, Zenon
  <2>2. CASE j # i
    BY <1>1, <1>3, <1>4, <1>6, <2>2
  <2> QED BY <2>1, <2>2
<1>7. ASSUME NEW g \in Counted, \A j \in g : <<s, j>> \notin u
      PROVE  p.header[g] = Cardinality(g \cap rows)
  <2>1. p.header[g] = IF i \in g THEN Cardinality(g \cap approvedRows[s]) ELSE c.header[g]
    BY <1>2 DEF PatchHeader
  <2>2. i \notin g => g \cap old = g \cap rows
    BY <1>1, GroupsOfIssues DEF Counted
  <2> QED BY <1>4, <1>7, <2>1, <2>2
<1> QED BY <1>3, <1>5, <1>6, <1>7 DEF Fits

\* An approval taken back in silence is the exception the comment allows.
LEMMA SilenceFits ==
  ASSUME NEW c, NEW n, NEW rows \in SUBSET Issues, NEW i \in Issues, NEW u, Fits(c, n, rows, u)
  PROVE  Fits(c, n, rows \ {i}, u \cup {<<n, i>>})
<1> DEFINE v == u \cup {<<n, i>>}
<1>1. /\ c.scan = n /\ \A j \in rows : c.cell[j]
      /\ \A j \in Issues : c.cell[j] => j \in rows \/ <<n, j>> \in u
      /\ \A g \in Counted : (\A j \in g : <<n, j>> \notin u) => c.header[g] = Cardinality(g \cap rows)
  BY DEF Fits
<1>2. \A j \in Issues : c.cell[j] => j \in rows \ {i} \/ <<n, j>> \in v
  BY <1>1
<1>3. ASSUME NEW g \in Counted, \A j \in g : <<n, j>> \notin v
      PROVE  c.header[g] = Cardinality(g \cap (rows \ {i}))
  <2>1. i \notin g /\ \A j \in g : <<n, j>> \notin u
    BY <1>3
  <2>2. g \cap (rows \ {i}) = g \cap rows
    BY <2>1
  <2> QED BY <1>1, <2>1, <2>2
<1> QED BY <1>1, <1>2, <1>3 DEF Fits

\* What was taken back of another scan is no matter of this comment.
LEMMA OthersFit ==
  ASSUME NEW c, NEW n, NEW rows \in SUBSET Issues, NEW s, NEW i, s # n, NEW u, Fits(c, n, rows, u)
  PROVE  Fits(c, n, rows, u \cup {<<s, i>>})
<1>1. \A j : <<n, j>> \in u \cup {<<s, i>>} <=> <<n, j>> \in u
  OBVIOUS
<1> QED BY <1>1 DEF Fits

\* The lengths of an empty and of a one-element sequence.
LEMMA ShortThreads ==
  Len(<<>>) = 0 /\ \A x : Len(<<x>>) = 1 /\ <<x>>[1] = x /\ <<x>> # <<>>
OBVIOUS

\* One thread moves: the others are at rest, unless writers overlapped.
LEMMA WriterMoves ==
  ASSUME CommentTypes, NEW w \in Writers, NEW k \in WriterRec, writer' = [writer EXCEPT ![w] = k],
         approvedRows' \in Seq(SUBSET Issues), thread' \in Seq(Comments), overlapped' \in BOOLEAN,
         HasBody(k),
         ~overlapped' => /\ \A v \in Writers \ {w} : writer[v].pc = "idle"
                         /\ k.pc = "idle" => Settled'
                         /\ Rendering(k)' /\ Reviewing(k)' /\ Writing(k)'
  PROVE  CommentInv'
<1>1. writer'[w] = k /\ (\A v \in Writers \ {w} : writer'[v] = writer[v]) /\ writer' \in [Writers -> WriterRec]
  BY DEF CommentTypes
<1>2. CommentTypes'
  BY <1>1 DEF CommentTypes, HasBody
<1>3. ASSUME ~overlapped'
      PROVE  /\ OneWriter' /\ AtRest'
             /\ \A v \in Writers : Rendering(writer[v])' /\ Reviewing(writer[v])' /\ Writing(writer[v])'
  <2>1. \A v \in Writers \ {w} : writer'[v].pc = "idle"
    BY <1>1, <1>3
  <2>2. OneWriter'
    BY <2>1 DEF OneWriter
  <2>3. AtRest'
    BY <1>1, <1>3 DEF AtRest
  <2>4. \A v \in Writers \ {w} : Rendering(writer[v])' /\ Reviewing(writer[v])' /\ Writing(writer[v])'
    BY <2>1 DEF Rendering, Reviewing, Writing
  <2>5. Rendering(writer[w])' /\ Reviewing(writer[w])' /\ Writing(writer[w])'
    BY <1>1, <1>3 DEF Rendering, Reviewing, Writing
  <2> QED BY <2>2, <2>3, <2>4, <2>5
<1> QED BY <1>2, <1>3 DEF CommentInv

\* Nobody else writes while one does, unless writers overlapped.
LEMMA OthersRest ==
  ASSUME CommentInv, NEW w \in Writers, writer[w].pc # "idle", ~overlapped
  PROVE  \A v \in Writers \ {w} : writer[v].pc = "idle"
BY DEF CommentInv, OneWriter

\* Nobody writes, and the comment is as it has to be.
LEMMA NobodyWrites ==
  ASSUME CommentInv, ~overlapped, Busy = {}
  PROVE  (\A v \in Writers : writer[v].pc = "idle") /\ Settled
BY DEF CommentInv, Busy, AtRest

\* A thread at rest.
LEMMA IdleWriterType ==
  IdleWriter \in WriterRec /\ IdleWriter.pc = "idle" /\ HasBody(IdleWriter)
BY DEF IdleWriter, WriterRec, HasBody

\* A scan renders its comment.
LEMMA RenderKeeps ==
  ASSUME CommentInv, NEW w \in Writers, Render(w)
  PROVE  CommentInv'
<1> DEFINE s == Len(approvedRows) + 1
           approved == UNION {approvedRows[r] : r \in DOMAIN approvedRows}
<1>1. /\ CommentTypes /\ approvedRows \in Seq(SUBSET Issues) /\ thread \in Seq(Comments)
      /\ approvedRows' = Append(approvedRows, approved) /\ UNCHANGED <<thread, unsaid>>
  BY DEF CommentInv, CommentTypes, Render
<1>2. approved \in SUBSET Issues
  <2>1. \A r \in DOMAIN approvedRows : approvedRows[r] \in SUBSET Issues
    BY <1>1, ElementOfSeq
  <2> QED BY <2>1
<1>3. /\ approvedRows' \in Seq(SUBSET Issues) /\ Len(approvedRows') = s /\ approvedRows'[s] = approved
      /\ approvedRows' # <<>>
  BY <1>1, <1>2, AppendProperties
<1>4. s \in Nat
  BY <1>1, LenProperties
<1> HIDE DEF s, approved
<1>5. \A c : Current(c)' <=> Fits(c, s, approved, unsaid)
  BY <1>1, <1>3 DEF Current, Fits
<1>6. RenderComment(s, approved) \in Comments /\ Fits(RenderComment(s, approved), s, approved, unsaid)
  BY <1>2, <1>4, RenderedFits
<1>7. PICK k \in WriterRec : /\ writer' = [writer EXCEPT ![w] = k]
                             /\ k.pc = "find" /\ k.issue = "none" /\ k.body = RenderComment(s, approved)
  <2> DEFINE body == RenderComment(s, approved)
             k == [IdleWriter EXCEPT !.pc = "find", !.scan = s, !.body = body]
  <2>1. writer' = [writer EXCEPT ![w] = k]
    BY DEF Render, s, approved
  <2> HIDE DEF body
  <2>2. body \in Comments
    BY <1>6 DEF body
  <2>3. k \in WriterRec /\ k.pc = "find" /\ k.issue = "none" /\ k.body = body
    BY <1>4, <2>2 DEF IdleWriter, WriterRec
  <2> HIDE DEF k
  <2> QED BY <2>1, <2>3 DEF body
<1>8. overlapped' \in BOOLEAN
  BY DEF Render
<1>9. ASSUME ~overlapped'
      PROVE  /\ \A v \in Writers \ {w} : writer[v].pc = "idle"
             /\ Rendering(k)' /\ Reviewing(k)' /\ Writing(k)'
  <2>1. ~overlapped /\ Busy = {}
    BY <1>9, Zenon DEF Render
  <2>2. AtMostOne
    BY <2>1, NobodyWrites, ShortThreads, Zenon DEF Settled, AtMostOne
  <2>3. Rendering(k)'
    BY <1>1, <1>3, <1>5, <1>6, <1>7, <2>2 DEF Rendering, AtMostOne
  <2>4. Reviewing(k)' /\ Writing(k)'
    BY <1>7 DEF Reviewing, Writing
  <2> QED BY <2>1, <2>3, <2>4, NobodyWrites
<1>10. HasBody(k)
  BY <1>6, <1>7 DEF HasBody
<1> QED BY <1>1, <1>3, <1>7, <1>8, <1>9, <1>10, WriterMoves

\* A review commits its row.
LEMMA ReviewKeeps ==
  ASSUME CommentInv, NEW w \in Writers, NEW s \in 1..MaxRenders, NEW i \in Issues,
         NEW approve \in BOOLEAN, Review(w, s, i, approve)
  PROVE  CommentInv'
<1> DEFINE pc == IF approve THEN "find" ELSE "check"
           n == Len(approvedRows)
           old == approvedRows[s]
           new == IF approve THEN old \cup {i} ELSE old \ {i}
<1>1. /\ CommentTypes /\ approvedRows \in Seq(SUBSET Issues) /\ thread \in Seq(Comments)
      /\ approvedRows' = [approvedRows EXCEPT ![s] = new] /\ UNCHANGED <<thread, unsaid>>
      /\ s \in DOMAIN approvedRows /\ (i \in old) # approve
  BY DEF CommentInv, CommentTypes, Review
<1>2. n \in Nat /\ DOMAIN approvedRows = 1..n /\ old \in SUBSET Issues
  BY <1>1, LenProperties, ElementOfSeq
<1>3. new \in SUBSET Issues /\ (i \in new) = approve /\ Before(new, i, approve) = old
  <2>1. CASE approve
    BY <1>1, <1>2, <2>1 DEF Before
  <2>2. CASE ~approve
    BY <1>1, <1>2, <2>2 DEF Before
  <2> QED BY <2>1, <2>2
<1>4. /\ approvedRows' \in Seq(SUBSET Issues) /\ Len(approvedRows') = n /\ approvedRows'[s] = new
      /\ \A r \in 1..n : r # s => approvedRows'[r] = approvedRows[r]
  <2> HIDE DEF new
  <2> QED BY <1>1, <1>2, <1>3, ExceptSeq
<1>5. n > 0 /\ s \in 1..n /\ n \in 1..n
  BY <1>1, <1>2
<1> HIDE DEF n, old, new, pc
<1>6. PICK k \in WriterRec : /\ writer' = [writer EXCEPT ![w] = k]
                             /\ k.pc = pc /\ k.issue = i /\ k.scan = s /\ k.approve = approve
  <2> DEFINE k == [IdleWriter EXCEPT !.pc = pc, !.scan = s, !.issue = i, !.approve = approve]
  <2>1. writer' = [writer EXCEPT ![w] = k]
    BY DEF Review, pc
  <2>2. k \in WriterRec /\ k.pc = pc /\ k.issue = i /\ k.scan = s /\ k.approve = approve
    <3>1. s \in Nat /\ pc \in {"find", "check"}
      BY DEF pc
    <3> HIDE DEF pc
    <3> QED BY <3>1 DEF IdleWriter, WriterRec
  <2> HIDE DEF k
  <2> QED BY <2>1, <2>2
<1>7. overlapped' \in BOOLEAN
  BY DEF Review
<1>8. ASSUME ~overlapped'
      PROVE  /\ \A v \in Writers \ {w} : writer[v].pc = "idle"
             /\ Rendering(k)' /\ Reviewing(k)' /\ Writing(k)'
  <2>1. ~overlapped /\ Busy = {}
    BY <1>8, Zenon DEF Review
  <2>2. approvedRows # <<>>
    BY <1>5 DEF n
  <2>3. Len(thread) = 1 /\ Fits(thread[1], n, approvedRows[n], unsaid)
    BY <2>1, <2>2, NobodyWrites, Zenon DEF Settled, Current, n
  <2>4. ASSUME s = n
        PROVE  /\ approve => i \in approvedRows'[n]
               /\ ~approve => i \notin approvedRows'[n]
               /\ Fits(thread'[1], n, Before(approvedRows'[n], i, approve), unsaid')
    <3>1. approvedRows'[n] = new /\ approvedRows[n] = old
      BY <1>4, <2>4 DEF old
    <3> QED BY <1>1, <1>3, <2>3, <3>1
  <2>5. ASSUME s # n
        PROVE  Current(thread[1])'
    <3>1. Fits(thread'[1], n, approvedRows'[n], unsaid')
      BY <1>1, <1>4, <1>5, <2>3, <2>5
    <3> QED BY <1>4, <3>1 DEF Current, Fits
  <2>6. s = n => Fits(thread[1], s, Before(approvedRows[s], i, approve), unsaid)'
    BY <2>4 DEF Fits, Before
  <2>7. Reviewing(k)'
    BY <1>1, <1>4, <1>5, <1>6, <2>3, <2>4, <2>5, <2>6 DEF Reviewing
  <2>8. Rendering(k)' /\ Writing(k)'
    BY <1>6, CommentAssumption DEF Rendering, Writing, pc
  <2> QED BY <2>1, <2>7, <2>8, NobodyWrites
<1>9. HasBody(k) /\ k.pc # "idle"
  BY <1>6, CommentAssumption DEF HasBody, pc
<1>10. thread' \in Seq(Comments)
  BY <1>1
<1> QED BY <1>1, <1>4, <1>6, <1>7, <1>8, <1>9, <1>10, WriterMoves

\* The comment is there or not; a patch of it is made when its cell is.
LEMMA FindKeeps ==
  ASSUME CommentInv, NEW w \in Writers, Find(w)
  PROVE  CommentInv'
<1> DEFINE it == writer[w]
           n == Len(approvedRows)
           there == thread # <<>> /\ thread[1].scan = it.scan /\ thread[1].cell[it.issue] # it.approve
           at == IF thread = <<>> THEN 0 ELSE 1
           patched == [scan   |-> it.scan,
                       cell   |-> [thread[1].cell EXCEPT ![it.issue] = it.approve],
                       header |-> PatchHeader(thread[1], it.scan, it.issue)]
<1>1. /\ CommentTypes /\ approvedRows \in Seq(SUBSET Issues) /\ thread \in Seq(Comments)
      /\ it \in WriterRec /\ it.pc = "find" /\ UNCHANGED <<approvedRows, thread, overlapped, unsaid>>
      /\ overlapped' \in BOOLEAN
  BY DEF CommentInv, CommentTypes, Find
<1>2. writer' = [writer EXCEPT ![w] =
           IF it.issue = "none" THEN [it EXCEPT !.pc = "write", !.at = at]
           ELSE IF ~there THEN IdleWriter
           ELSE [it EXCEPT !.pc = "write", !.at = 1, !.body = patched]]
  BY DEF Find
<1>3. \A c : Current(c)' <=> Current(c)
  BY <1>1 DEF Current, Fits
<1>4. CASE it.issue = "none"
  <2>1. PICK k \in WriterRec : /\ writer' = [writer EXCEPT ![w] = k]
                               /\ k.pc = "write" /\ k.at = at /\ k.body = it.body
    <3> DEFINE k == [it EXCEPT !.pc = "write", !.at = at]
    <3>1. writer' = [writer EXCEPT ![w] = k]
      BY <1>2, <1>4
    <3>2. at \in {0, 1}
      OBVIOUS
    <3> HIDE DEF at, it
    <3>3. k \in WriterRec /\ k.pc = "write" /\ k.at = at /\ k.body = it.body
      BY <1>1, <3>2 DEF WriterRec
    <3> HIDE DEF k
    <3> QED BY <3>1, <3>3
  <2>2. ASSUME ~overlapped'
        PROVE  /\ \A v \in Writers \ {w} : writer[v].pc = "idle"
               /\ Rendering(k)' /\ Reviewing(k)' /\ Writing(k)'
    <3>1. ~overlapped
      BY <1>1, <2>2
    <3>2. Rendering(it)
      BY <3>1 DEF CommentInv
    <3>3. approvedRows # <<>> /\ Current(it.body) /\ AtMostOne
      BY <1>1, <1>4, <3>2 DEF Rendering
    <3>4. k.at = 0 <=> thread = <<>>
      BY <2>1
    <3>5. Writing(k)'
      BY <1>1, <1>3, <2>1, <3>3, <3>4 DEF Writing, AtMostOne
    <3>6. Rendering(k)' /\ Reviewing(k)'
      BY <2>1 DEF Rendering, Reviewing
    <3> QED BY <1>1, <3>1, <3>5, <3>6, OthersRest
  <2>3. HasBody(k)
    BY <1>1, <1>4, <2>1 DEF HasBody, CommentTypes
  <2> QED BY <1>1, <2>1, <2>2, <2>3, WriterMoves
<1>5. CASE it.issue # "none" /\ ~there
  <2>1. writer' = [writer EXCEPT ![w] = IdleWriter]
    BY <1>2, <1>5
  <2>2. PICK k \in WriterRec : k = IdleWriter
    BY IdleWriterType
  <2>3. ASSUME ~overlapped'
        PROVE  /\ \A v \in Writers \ {w} : writer[v].pc = "idle"
               /\ Settled'
    <3>1. ~overlapped
      BY <1>1, <2>3
    <3>2. Reviewing(it)
      BY <3>1 DEF CommentInv
    <3>3. n > 0 /\ Len(thread) = 1
      BY <1>1, <1>5, <3>2 DEF Reviewing
    <3>4. Current(thread[1])
      <4>1. CASE it.scan # n
        BY <1>1, <1>5, <3>2, <4>1 DEF Reviewing
      <4>2. CASE it.scan = n
        <5> DEFINE rows == approvedRows[n]
                   old == Before(rows, it.issue, it.approve)
                   c == thread[1]
        <5>1. /\ it.approve => it.issue \in rows \/ <<n, it.issue>> \in unsaid
              /\ ~it.approve => it.issue \notin rows
              /\ Fits(c, n, old, unsaid)
          BY <1>1, <1>5, <3>2, <4>2 DEF Reviewing
        <5>2. it.issue \in Issues /\ it.approve \in BOOLEAN
          BY <1>1, <1>5 DEF WriterRec
        <5>3. n \in Nat /\ rows \in SUBSET Issues
          BY <1>1, <3>3, LenProperties, ElementOfSeq
        <5> HIDE DEF rows, n
        <5>4. c.scan = n
          BY <5>1 DEF Fits
        <5>5. thread # <<>>
          <6> SUFFICES ASSUME thread = <<>> PROVE FALSE
            OBVIOUS
          <6>1. Len(thread) = 0
            BY ShortThreads, Zenon
          <6> QED BY <3>3, <6>1
        <5>6. c.cell[it.issue] = it.approve
          BY <1>5, <4>2, <5>4, <5>5, Zenon
        <5>7. it.approve
          <6> SUFFICES ASSUME ~it.approve PROVE FALSE
            OBVIOUS
          <6>1. it.issue \in old
            BY <5>2 DEF Before
          <6>2. c.cell[it.issue]
            BY <5>1, <6>1, Zenon DEF Fits
          <6> QED BY <5>6, <6>2, Zenon
        <5>8. c.cell[it.issue]
          BY <5>6, <5>7, Zenon
        <5>9. old = rows \ {it.issue}
          BY <5>7 DEF Before
        <5> HIDE DEF old, c
        <5>10. <<n, it.issue>> \in unsaid
          <6>1. it.issue \in old \/ <<n, it.issue>> \in unsaid
            BY <5>1, <5>2, <5>8, Zenon DEF Fits
          <6> QED BY <5>9, <6>1
        <5>11. \A i \in rows : c.cell[i]
          <6> SUFFICES ASSUME NEW i \in rows PROVE c.cell[i]
            OBVIOUS
          <6>1. CASE i = it.issue
            BY <5>8, <6>1, Zenon
          <6>2. CASE i # it.issue
            <7>1. i \in old
              BY <5>9, <6>2
            <7> QED BY <5>1, <7>1, Zenon DEF Fits
          <6> QED BY <6>1, <6>2
        <5>12. \A i \in Issues : c.cell[i] => i \in rows \/ <<n, i>> \in unsaid
          BY <5>1, <5>9 DEF Fits
        <5>13. ASSUME NEW g \in Counted, \A i \in g : <<n, i>> \notin unsaid
               PROVE  c.header[g] = Cardinality(g \cap rows)
          <6>1. g \cap old = g \cap rows
            BY <5>9, <5>10, <5>13
          <6> QED BY <5>1, <5>13, <6>1 DEF Fits
        <5>14. Fits(c, n, rows, unsaid)
          BY <5>4, <5>11, <5>12, <5>13 DEF Fits
        <5> QED BY <5>14 DEF Current, c, rows, n
      <4> QED BY <4>1, <4>2
    <3>5. approvedRows # <<>>
      BY <3>3
    <3>6. Settled'
      BY <1>1, <1>3, <3>3, <3>4, <3>5 DEF Settled
    <3> QED BY <1>1, <3>1, <3>6, OthersRest
  <2>4. k.pc = "idle" /\ (~overlapped' => Rendering(k)' /\ Reviewing(k)' /\ Writing(k)')
    BY <2>2, IdleWriterType DEF Rendering, Reviewing, Writing
  <2>5. HasBody(k)
    BY <2>2, IdleWriterType DEF HasBody
  <2> QED BY <1>1, <2>1, <2>2, <2>3, <2>4, <2>5, WriterMoves
<1>6. CASE it.issue # "none" /\ there
  <2>1. it.issue \in Issues /\ it.approve \in BOOLEAN /\ it.scan \in Nat /\ thread[1] \in Comments
    BY <1>1, <1>6, ElementOfSeq, LenProperties DEF WriterRec
  <2>2. patched \in Comments
    <3>1. [thread[1].cell EXCEPT ![it.issue] = it.approve] \in [Issues -> BOOLEAN]
      BY <2>1 DEF Comments
    <3>2. PatchHeader(thread[1], it.scan, it.issue) \in [Counted -> Nat]
      <4>1. thread[1].header \in [Counted -> Nat]
        BY <2>1 DEF Comments
      <4>2. \A g \in Counted : Cardinality(g \cap approvedRows[it.scan]) \in Nat
        <5> SUFFICES ASSUME NEW g \in Counted PROVE Cardinality(g \cap approvedRows[it.scan]) \in Nat
          OBVIOUS
        <5>1. g \cap approvedRows[it.scan] \subseteq Issues
          BY GroupsOfIssues DEF Counted
        <5> QED BY <5>1, FS_Subset, FS_CardinalityType, CommentAssumption
      <4> QED BY <4>1, <4>2 DEF PatchHeader
    <3> QED BY <2>1, <3>1, <3>2 DEF Comments
  <2>3. PICK k \in WriterRec : /\ writer' = [writer EXCEPT ![w] = k]
                               /\ k.pc = "write" /\ k.at = 1 /\ k.body = patched
    <3> DEFINE k == [it EXCEPT !.pc = "write", !.at = 1, !.body = patched]
    <3>1. writer' = [writer EXCEPT ![w] = k]
      BY <1>2, <1>6
    <3> HIDE DEF patched, it
    <3>2. k \in WriterRec /\ k.pc = "write" /\ k.at = 1 /\ k.body = patched
      BY <1>1, <2>2 DEF WriterRec
    <3> HIDE DEF k
    <3> QED BY <3>1, <3>2
  <2>4. ASSUME ~overlapped'
        PROVE  /\ \A v \in Writers \ {w} : writer[v].pc = "idle"
               /\ Rendering(k)' /\ Reviewing(k)' /\ Writing(k)'
    <3>1. ~overlapped
      BY <1>1, <2>4
    <3>2. Reviewing(it)
      BY <3>1 DEF CommentInv
    <3>3. n > 0 /\ Len(thread) = 1
      BY <1>1, <1>6, <3>2 DEF Reviewing
    <3>4. n \in Nat /\ n \in DOMAIN approvedRows /\ approvedRows[n] \in SUBSET Issues
      BY <1>1, <3>3, LenProperties, ElementOfSeq
    <3>5. it.scan = n
      <4> SUFFICES ASSUME it.scan # n PROVE FALSE
        OBVIOUS
      <4>1. Current(thread[1])
        BY <1>1, <1>6, <3>2 DEF Reviewing
      <4>2. thread[1].scan = n
        BY <4>1 DEF Current, Fits
      <4> QED BY <1>6, <4>2
    <3>6. /\ it.approve => it.issue \in approvedRows[n] \/ <<n, it.issue>> \in unsaid
          /\ ~it.approve => it.issue \notin approvedRows[n]
          /\ Fits(thread[1], n, Before(approvedRows[n], it.issue, it.approve), unsaid)
      BY <1>1, <1>6, <3>2, <3>5 DEF Reviewing
    <3>7. Fits(patched, n, approvedRows[n], unsaid)
      <4> HIDE DEF n, it
      <4> QED BY <2>1, <3>4, <3>5, <3>6, PatchFits
    <3>8. Current(k.body)
      BY <2>3, <3>7 DEF Current
    <3>10. Writing(k)'
      BY <1>1, <1>3, <1>6, <2>3, <3>3, <3>8 DEF Writing, AtMostOne
    <3>9. Rendering(k)' /\ Reviewing(k)'
      BY <2>3 DEF Rendering, Reviewing
    <3> QED BY <1>1, <3>1, <3>9, <3>10, OthersRest
  <2>5. HasBody(k)
    BY <2>2, <2>3 DEF HasBody
  <2> QED BY <1>1, <2>3, <2>4, <2>5, WriterMoves
<1> QED BY <1>4, <1>5, <1>6

\* The comment is written.
LEMMA WriteKeeps ==
  ASSUME CommentInv, NEW w \in Writers, Write(w)
  PROVE  CommentInv'
<1> DEFINE it == writer[w]
<1>1. /\ CommentTypes /\ thread \in Seq(Comments) /\ it \in WriterRec /\ it.pc = "write"
      /\ UNCHANGED <<approvedRows, overlapped, unsaid>> /\ overlapped' \in BOOLEAN
      /\ approvedRows \in Seq(SUBSET Issues) /\ writer' = [writer EXCEPT ![w] = IdleWriter]
      /\ thread' = IF it.at = 0 THEN Append(thread, it.body) ELSE [thread EXCEPT ![1] = it.body]
  BY DEF CommentInv, CommentTypes, Write
<1>2. it.body \in Comments
  BY <1>1 DEF CommentTypes, HasBody
<1>3. thread' \in Seq(Comments)
  <2>1. CASE it.at = 0
    BY <1>1, <1>2, <2>1, AppendProperties
  <2>2. CASE it.at # 0
    <3> DEFINE body == it.body
    <3>1. thread' = [thread EXCEPT ![1] = body]
      BY <1>1, <2>2
    <3> HIDE DEF body
    <3>2. body \in Comments
      BY <1>2 DEF body
    <3>3. CASE 1 \in DOMAIN thread
      BY <1>1, <3>1, <3>2, <3>3, LenProperties, ExceptSeq
    <3>4. CASE 1 \notin DOMAIN thread
      <4>1. thread = [j \in DOMAIN thread |-> thread[j]]
        BY <1>1, IsASeq, LenProperties
      <4>2. thread' = thread
        BY <3>1, <3>4, <4>1
      <4> QED BY <1>1, <4>2
    <3> QED BY <3>3, <3>4
  <2> QED BY <2>1, <2>2
<1>4. PICK k \in WriterRec : k = IdleWriter
  BY IdleWriterType
<1>5. ASSUME ~overlapped'
      PROVE  (\A v \in Writers \ {w} : writer[v].pc = "idle") /\ Settled'
  <2>1. ~overlapped
    BY <1>1, <1>5
  <2>2. Writing(it)
    BY <2>1 DEF CommentInv
  <2>3. approvedRows # <<>> /\ Current(it.body) /\ AtMostOne /\ (it.at = 0 <=> thread = <<>>)
    BY <1>1, <2>2 DEF Writing
  <2>4. thread' = <<it.body>>
    <3>1. CASE it.at = 0
      BY <1>1, <2>3, <3>1
    <3>2. CASE it.at # 0
      <4>1. Len(thread) = 1 /\ thread' = [thread EXCEPT ![1] = it.body]
        BY <1>1, <2>3, <3>2 DEF AtMostOne
      <4> QED BY <1>1, <1>2, <4>1
    <3> QED BY <3>1, <3>2
  <2>5. PICK c : c = it.body
    OBVIOUS
  <2>6. Settled'
    <3>1. Len(thread') = 1 /\ thread'[1] = c
      BY <2>4, <2>5, ShortThreads, Zenon
    <3>2. Fits(c, Len(approvedRows'), approvedRows'[Len(approvedRows')], unsaid')
      BY <1>1, <2>3, <2>5 DEF Current
    <3> QED BY <1>1, <2>3, <3>1, <3>2 DEF Settled, Current, Fits
  <2> QED BY <1>1, <2>1, <2>6, OthersRest
<1>6. k.pc = "idle" /\ HasBody(k) /\ (~overlapped' => Rendering(k)' /\ Reviewing(k)' /\ Writing(k)')
  BY <1>4, IdleWriterType DEF Rendering, Reviewing, Writing, HasBody
<1> QED BY <1>1, <1>3, <1>4, <1>5, <1>6, WriterMoves

\* GitHub refuses, and that is remembered.
LEMMA WriteFailsKeeps ==
  ASSUME CommentInv, NEW w \in Writers, WriteFails(w)
  PROVE  CommentInv'
<1>1. PICK k \in WriterRec : k = IdleWriter
  BY IdleWriterType
<1>2. /\ CommentTypes /\ approvedRows' \in Seq(SUBSET Issues) /\ thread' \in Seq(Comments)
      /\ overlapped' = TRUE /\ writer' = [writer EXCEPT ![w] = k]
  BY <1>1 DEF CommentInv, CommentTypes, WriteFails
<1>3. HasBody(k)
  BY <1>1, IdleWriterType DEF HasBody
<1> QED BY <1>2, <1>3, WriterMoves

\* The merge state is read: the comment keeps its mark, or is looked for.
LEMMA CheckKeeps ==
  ASSUME CommentInv, NEW w \in Writers, CheckMerged(w)
  PROVE  CommentInv'
<1> DEFINE it == writer[w]
           n == Len(approvedRows)
<1>1. /\ CommentTypes /\ approvedRows \in Seq(SUBSET Issues) /\ thread \in Seq(Comments)
      /\ it \in WriterRec /\ it.pc = "check" /\ UNCHANGED <<approvedRows, thread, overlapped>>
      /\ overlapped' \in BOOLEAN /\ it.issue \in Issues /\ ~it.approve /\ it.issue # "none"
  BY CommentAssumption DEF CommentInv, CommentTypes, CheckMerged, HasBody
<1>2. ASSUME ~overlapped
      PROVE  n > 0 /\ Len(thread) = 1 /\ Reviewing(it) /\ \A v \in Writers \ {w} : writer[v].pc = "idle"
  BY <1>1, <1>2, OthersRest DEF CommentInv, Reviewing
<1>3. CASE ~merged
  <2>1. PICK k \in WriterRec : /\ writer' = [writer EXCEPT ![w] = k]
                               /\ k.pc = "find" /\ k.issue = it.issue /\ k.approve = it.approve
                               /\ k.scan = it.scan
    <3> DEFINE k == [it EXCEPT !.pc = "find"]
    <3>1. writer' = [writer EXCEPT ![w] = k]
      BY <1>3 DEF CheckMerged
    <3> HIDE DEF it
    <3>2. k \in WriterRec /\ k.pc = "find" /\ k.issue = it.issue /\ k.approve = it.approve /\ k.scan = it.scan
      BY <1>1 DEF WriterRec
    <3> HIDE DEF k
    <3> QED BY <3>1, <3>2
  <2>2. UNCHANGED unsaid
    BY <1>3 DEF CheckMerged
  <2>3. ASSUME ~overlapped'
        PROVE  Rendering(k)' /\ Reviewing(k)' /\ Writing(k)'
    <3>1. Reviewing(it)
      BY <1>1, <1>2, <2>3
    <3>2. Reviewing(k)
      BY <1>1, <2>1, <3>1 DEF Reviewing
    <3>3. Reviewing(k)'
      BY <1>1, <2>2, <3>2 DEF Reviewing, Current, Fits, Before
    <3> QED BY <1>1, <2>1, <3>3 DEF Rendering, Writing
  <2>4. HasBody(k)
    BY <1>1, <2>1 DEF HasBody
  <2> QED BY <1>1, <1>2, <2>1, <2>3, <2>4, WriterMoves
<1>4. CASE merged
  <2>1. writer' = [writer EXCEPT ![w] = IdleWriter] /\ unsaid' = unsaid \cup {<<it.scan, it.issue>>}
    BY <1>4 DEF CheckMerged
  <2>2. PICK k \in WriterRec : k = IdleWriter
    BY IdleWriterType
  <2>3. ASSUME ~overlapped'
        PROVE  Settled'
    <3> DEFINE rows == approvedRows[n]
               c == thread[1]
    <3>1. n \in Nat /\ rows \in SUBSET Issues /\ n > 0 /\ Len(thread) = 1 /\ approvedRows # <<>>
      BY <1>1, <1>2, <2>3, LenProperties, ElementOfSeq
    <3>2. Reviewing(it)
      BY <1>1, <1>2, <2>3
    <3>3. Fits(c, n, rows, unsaid')
      <4>1. CASE it.scan = n
        <5>1. it.issue \notin rows /\ Fits(c, n, rows \cup {it.issue}, unsaid)
          BY <1>1, <3>2, <4>1 DEF Reviewing, Before
        <5>2. (rows \cup {it.issue}) \ {it.issue} = rows /\ rows \cup {it.issue} \in SUBSET Issues
          BY <1>1, <3>1, <5>1
        <5> HIDE DEF n, rows, c
        <5>3. Fits(c, n, (rows \cup {it.issue}) \ {it.issue}, unsaid \cup {<<n, it.issue>>})
          BY <1>1, <5>1, <5>2, SilenceFits
        <5> QED BY <2>1, <4>1, <5>2, <5>3
      <4>2. CASE it.scan # n
        <5>1. Fits(c, n, rows, unsaid)
          BY <1>1, <3>2, <4>2 DEF Reviewing, Current
        <5> HIDE DEF n, rows, c
        <5> QED BY <2>1, <3>1, <4>2, <5>1, OthersFit
      <4> QED BY <4>1, <4>2
    <3> QED BY <1>1, <3>1, <3>3 DEF Settled, Current, Fits
  <2>4. k.pc = "idle" /\ (~overlapped' => Rendering(k)' /\ Reviewing(k)' /\ Writing(k)')
    BY <2>2, IdleWriterType DEF Rendering, Reviewing, Writing
  <2>5. HasBody(k)
    BY <2>2, IdleWriterType DEF HasBody
  <2> QED BY <1>1, <1>2, <2>1, <2>2, <2>3, <2>4, <2>5, WriterMoves
<1> QED BY <1>3, <1>4

\* An approval is taken back, and the comment is left alone.
LEMMA TakeBackKeeps ==
  ASSUME CommentInv, NEW s \in 1..MaxRenders, NEW i \in Issues, TakeBack(s, i)
  PROVE  CommentInv'
<1> DEFINE n == Len(approvedRows)
           old == approvedRows[s]
           new == old \ {i}
<1>1. /\ CommentTypes /\ approvedRows \in Seq(SUBSET Issues) /\ thread \in Seq(Comments)
      /\ approvedRows' = [approvedRows EXCEPT ![s] = new] /\ UNCHANGED <<thread, writer, overlapped>>
      /\ s \in DOMAIN approvedRows /\ i \in old /\ unsaid' = unsaid \cup {<<s, i>>}
  BY DEF CommentInv, CommentTypes, TakeBack
<1>2. n \in Nat /\ DOMAIN approvedRows = 1..n /\ old \in SUBSET Issues /\ new \in SUBSET Issues
  BY <1>1, LenProperties, ElementOfSeq
<1>3. /\ approvedRows' \in Seq(SUBSET Issues) /\ Len(approvedRows') = n /\ approvedRows'[s] = new
      /\ \A r \in 1..n : r # s => approvedRows'[r] = approvedRows[r]
  <2> HIDE DEF new
  <2> QED BY <1>1, <1>2, ExceptSeq
<1>4. n > 0 /\ n \in 1..n /\ s \in 1..n /\ approvedRows # <<>> /\ approvedRows' # <<>> /\ approvedRows[n] \in SUBSET Issues
  <2>1. n > 0 /\ n \in 1..n /\ s \in 1..n
    BY <1>1, <1>2
  <2> QED BY <1>1, <1>2, <1>3, <2>1, ElementOfSeq
<1> HIDE DEF n, new
<1>5. CommentTypes'
  BY <1>1, <1>3 DEF CommentTypes, HasBody
<1>6. ASSUME NEW c, Current(c)
      PROVE  Fits(c, n, approvedRows'[n], unsaid')
  <2>1. Fits(c, n, approvedRows[n], unsaid)
    BY <1>6 DEF Current, n
  <2>2. CASE s = n
    <3>1. Fits(c, n, approvedRows[n] \ {i}, unsaid \cup {<<n, i>>})
      BY <1>4, <2>1, SilenceFits
    <3> QED BY <1>1, <1>3, <2>2, <3>1 DEF new
  <2>3. CASE s # n
    <3>1. Fits(c, n, approvedRows[n], unsaid \cup {<<s, i>>})
      BY <1>4, <2>1, <2>3, OthersFit
    <3> QED BY <1>1, <1>3, <1>4, <2>3, <3>1
  <2> QED BY <2>2, <2>3
<1>7. \A c : Current(c) => Current(c)'
  BY <1>3, <1>6 DEF Current, Fits
<1>8. ASSUME ~overlapped', NEW w \in Writers
      PROVE  /\ Rendering(writer[w])' /\ Reviewing(writer[w])' /\ Writing(writer[w])'
  <2> DEFINE it == writer[w]
  <2>1. it \in WriterRec /\ Rendering(it) /\ Reviewing(it) /\ Writing(it)
    BY <1>1, <1>8 DEF CommentInv, CommentTypes
  <2>2. Rendering(it)' /\ Writing(it)'
    BY <1>1, <1>4, <1>7, <2>1 DEF Rendering, Writing, AtMostOne
  <2>3. ASSUME it.pc \in {"check", "find"}, it.issue # "none"
        PROVE  /\ Len(approvedRows') > 0 /\ Len(thread') = 1
               /\ it.scan = n =>
                    /\ it.approve => it.issue \in approvedRows'[n] \/ <<n, it.issue>> \in unsaid'
                    /\ ~it.approve => it.issue \notin approvedRows'[n]
                    /\ Fits(thread'[1], n, Before(approvedRows'[n], it.issue, it.approve), unsaid')
               /\ it.scan # n => Current(thread[1])'
    <3>1. Len(thread) = 1
      BY <2>1, <2>3 DEF Reviewing
    <3>2. ASSUME it.scan # n
          PROVE  Current(thread[1])'
      <4>1. Current(thread[1])
        BY <2>1, <2>3, <3>2 DEF Reviewing, n
      <4> QED BY <1>1, <1>7, <4>1
    <3>3. ASSUME it.scan = n
          PROVE  /\ it.approve => it.issue \in approvedRows'[n] \/ <<n, it.issue>> \in unsaid'
                 /\ ~it.approve => it.issue \notin approvedRows'[n]
                 /\ Fits(thread'[1], n, Before(approvedRows'[n], it.issue, it.approve), unsaid')
      <4> DEFINE rows == approvedRows[n]
                 back == Before(rows, it.issue, it.approve)
                 c == thread[1]
      <4>1. /\ it.approve => it.issue \in rows \/ <<n, it.issue>> \in unsaid
            /\ ~it.approve => it.issue \notin rows
            /\ Fits(c, n, back, unsaid)
        BY <2>1, <2>3, <3>3 DEF Reviewing, n
      <4>2. it.issue \in Issues /\ it.approve \in BOOLEAN /\ back \in SUBSET Issues
        BY <1>4, <2>1, <2>3 DEF WriterRec, Before
      <4> HIDE DEF c
      <4>3. CASE s # n
        <5>1. approvedRows'[n] = rows
          BY <1>3, <1>4, <4>3
        <5> HIDE DEF rows, back
        <5>2. Fits(c, n, back, unsaid')
          BY <1>1, <4>1, <4>2, <4>3, OthersFit
        <5> QED BY <1>1, <4>1, <5>1, <5>2 DEF c, back
      <4>4. CASE s = n
        <5>1. approvedRows'[n] = rows \ {i} /\ i \in rows
          BY <1>1, <1>3, <4>4 DEF new
        <5>2. Before(rows \ {i}, it.issue, it.approve) = back \ {i}
          BY <4>1, <4>2, <5>1 DEF Before
        <5> HIDE DEF rows, back
        <5>3. Fits(c, n, back \ {i}, unsaid')
          BY <1>1, <4>1, <4>2, <4>4, SilenceFits
        <5>4. it.approve => it.issue \in rows \ {i} \/ <<n, it.issue>> \in unsaid'
          BY <1>1, <4>1, <4>4
        <5>5. ~it.approve => it.issue \notin rows \ {i}
          BY <4>1
        <5> QED BY <1>1, <5>1, <5>2, <5>3, <5>4, <5>5 DEF c
      <4> QED BY <4>3, <4>4
    <3> QED BY <1>1, <1>3, <1>4, <3>1, <3>2, <3>3
  <2>4. Reviewing(it)'
    BY <1>1, <1>3, <2>3 DEF Reviewing, Fits, Before, n
  <2> QED BY <2>2, <2>4
<1>9. ~overlapped' => OneWriter' /\ AtRest'
  <2> SUFFICES ASSUME ~overlapped' PROVE OneWriter' /\ AtRest'
    OBVIOUS
  <2>1. OneWriter /\ AtRest
    BY <1>1 DEF CommentInv
  <2>2. OneWriter'
    BY <1>1, <2>1 DEF OneWriter
  <2>3. AtRest'
    BY <1>1, <1>4, <1>7, <2>1 DEF AtRest, Settled
  <2> QED BY <2>2, <2>3
<1> QED BY <1>5, <1>8, <1>9 DEF CommentInv

\* What the invariant reads does not change.
LEMMA CommentRests ==
  ASSUME CommentInv, UNCHANGED <<approvedRows, thread, writer, overlapped, unsaid>>
  PROVE  CommentInv'
<1>1. \A c : Current(c)' <=> Current(c)
  BY DEF Current, Fits
<1>2. CommentTypes' /\ OneWriter' = OneWriter
  BY DEF CommentInv, CommentTypes, HasBody, OneWriter
<1>3. AtRest' <=> AtRest
  BY <1>1 DEF AtRest, Settled
<1>4. ASSUME NEW w \in Writers
      PROVE  /\ Rendering(writer[w])' <=> Rendering(writer[w])
             /\ Reviewing(writer[w])' <=> Reviewing(writer[w])
             /\ Writing(writer[w])' <=> Writing(writer[w])
  <2>1. Rendering(writer[w])' <=> Rendering(writer[w])
    BY <1>1 DEF Rendering, AtMostOne
  <2>2. Reviewing(writer[w])' <=> Reviewing(writer[w])
    BY <1>1 DEF Reviewing, Fits, Before
  <2>3. Writing(writer[w])' <=> Writing(writer[w])
    BY <1>1 DEF Writing, AtMostOne
  <2> QED BY <2>1, <2>2, <2>3
<1> QED BY <1>2, <1>3, <1>4 DEF CommentInv

\* The invariant is inductive.
LEMMA CommentInvariant == CommentSpec => []CommentInv
<1>1. CommentInit => CommentInv
  <2> SUFFICES ASSUME CommentInit PROVE CommentInv
    OBVIOUS
  <2>1. \A w \in Writers : writer[w] = IdleWriter
    BY DEF CommentInit
  <2>2. CommentTypes
    <3>1. writer \in [Writers -> WriterRec]
      BY IdleWriterType DEF CommentInit
    <3>2. \A w \in Writers : HasBody(writer[w])
      BY <2>1, IdleWriterType, Zenon
    <3>3. approvedRows \in Seq(SUBSET Issues) /\ thread \in Seq(Comments)
      BY EmptySeq DEF CommentInit
    <3>4. overlapped \in BOOLEAN
      BY DEF CommentInit
    <3> QED BY <3>1, <3>2, <3>3, <3>4 DEF CommentTypes
  <2>3. OneWriter
    BY <2>1, IdleWriterType DEF OneWriter
  <2>4. AtRest
    BY DEF CommentInit, AtRest, Settled
  <2>5. \A w \in Writers : Rendering(writer[w]) /\ Reviewing(writer[w]) /\ Writing(writer[w])
    BY <2>1, IdleWriterType DEF Rendering, Reviewing, Writing
  <2> QED BY <2>2, <2>3, <2>4, <2>5 DEF CommentInv
<1>2. CommentInv /\ [CommentNext]_commentVars => CommentInv'
  <2> SUFFICES ASSUME CommentInv, [CommentNext]_commentVars PROVE CommentInv'
    OBVIOUS
  <2>1. CASE CommentNext
    <3>1. MergePr => CommentInv'
      BY CommentRests DEF MergePr
    <3> QED BY <2>1, <3>1, RenderKeeps, ReviewKeeps, CheckKeeps, FindKeeps, WriteKeeps, WriteFailsKeeps,
               TakeBackKeeps DEF CommentNext
  <2>2. CASE UNCHANGED commentVars
    BY <2>2, CommentRests DEF commentVars
  <2> QED BY <2>1, <2>2
<1> QED BY <1>1, <1>2, PTL DEF CommentSpec

(* Unless writers overlapped or GitHub refused one, the comment at rest is the
   last scan's, misses no approval, has a mark too many only where an approval
   was taken back without a word (a new request, a rejection, a revocation
   after the merge), and counts the marks in the header of every other group,
   for every set of findings and lines and any number of writers, scans and
   reviews (render_comment, update_ and revoke_finding_status_in_pr_comment,
   _patch_group_header_in_comment). *)
THEOREM CommentAgreesHolds == CommentSpec => []CommentAgrees
<1>1. CommentInv => CommentAgrees
  <2> DEFINE n == Len(approvedRows)
             rows == approvedRows[n]
             c == thread[1]
  <2> SUFFICES ASSUME CommentInv, ~overlapped, Busy = {}, approvedRows # <<>>
               PROVE  /\ Len(thread) = 1 /\ c.scan = n
                      /\ \A i \in rows : c.cell[i]
                      /\ \A i \in Issues : c.cell[i] => i \in rows \/ <<n, i>> \in unsaid
                      /\ \A g \in DOMAIN c.header :
                           (\A i \in g : <<n, i>> \notin unsaid) =>
                             c.header[g] = Cardinality({i \in g : c.cell[i]})
    BY DEF CommentAgrees
  <2>1. Len(thread) = 1 /\ Fits(c, n, rows, unsaid)
    BY NobodyWrites DEF Settled, Current
  <2>2. thread \in Seq(Comments) /\ approvedRows \in Seq(SUBSET Issues)
    BY DEF CommentInv, CommentTypes
  <2>3. c \in Comments
    <3>1. 1 \in 1..Len(thread)
      BY <2>1
    <3> QED BY <2>2, <3>1, ElementOfSeq
  <2>4. DOMAIN c.header = Counted
    BY <2>3 DEF Comments
  <2>5. n \in Nat /\ rows \in SUBSET Issues
    BY <2>2, LenProperties, ElementOfSeq
  <2> HIDE DEF n, rows, c
  <2>6. /\ c.scan = n /\ \A i \in rows : c.cell[i]
        /\ \A i \in Issues : c.cell[i] => i \in rows \/ <<n, i>> \in unsaid
        /\ \A g \in Counted : (\A i \in g : <<n, i>> \notin unsaid) => c.header[g] = Cardinality(g \cap rows)
    BY <2>1 DEF Fits
  <2>7. ASSUME NEW g \in DOMAIN c.header, \A i \in g : <<n, i>> \notin unsaid
        PROVE  c.header[g] = Cardinality({i \in g : c.cell[i]})
    <3>1. g \in Counted /\ g \subseteq Issues
      BY <2>4, GroupsOfIssues DEF Counted
    <3>2. {i \in g : c.cell[i]} = g \cap rows
      BY <2>6, <2>7, <3>1
    <3> QED BY <2>6, <2>7, <3>1, <3>2
  <2> QED BY <2>1, <2>6, <2>7
<1> QED BY <1>1, CommentInvariant, PTL

-----------------------------------------------------------------------------
(* The lines of a patch.                                                   *)

\* A set of numbers with 0 and with the successor of each of its members has
\* every number.
LEMMA EveryNumber ==
  ASSUME NEW T, 0 \in T, \A n \in Nat : n \in T => n + 1 \in T
  PROVE  \A n \in Nat : n \in T
<1> DEFINE R == OpToRel(<, Nat)
           Missing == Nat \ T
<1>1. IsWellFoundedOn(R, Nat)
  BY NatLessThanWellFounded
<1>2. \A m, n \in Nat : m < n => <<m, n>> \in R
  BY DEF OpToRel
<1> HIDE DEF R
<1> SUFFICES ASSUME Missing # {} PROVE FALSE
  OBVIOUS
<1>3. PICK n \in Missing : \A m \in Missing : ~(<<m, n>> \in R)
  BY <1>1, WFMin
<1>4. n \in Nat /\ n # 0 /\ n \notin T
  BY <1>3
<1>5. n - 1 \in Nat /\ n - 1 < n
  BY <1>4
<1>6. n - 1 \in T
  BY <1>2, <1>3, <1>4, <1>5
<1>7. (n - 1) + 1 \in T
  BY <1>5, <1>6
<1> QED BY <1>4, <1>7

Edits == {"keep", "add", "del"}

\* The lines of the new file among the first i of the edit script.
KeptLines(script, i) == {j \in 1..i : script[j] # "del"}

Number(script, i) == Cardinality(KeptLines(script, i))

\* The numbers of the lines inserted by the first i.
InsertedBy(script, i) == {Number(script, k) : k \in {j \in 1..i : script[j] = "add"}}

\* How numbers grow.
LEMMA NumberGrows ==
  ASSUME NEW script, NEW i \in Nat
  PROVE  /\ Number(script, i) \in Nat
         /\ script[i + 1] = "del" => Number(script, i + 1) = Number(script, i)
         /\ script[i + 1] # "del" => Number(script, i + 1) = Number(script, i) + 1
<1>1. IsFiniteSet(KeptLines(script, i)) /\ i + 1 \notin KeptLines(script, i)
  <2>1. IsFiniteSet(1..i) /\ KeptLines(script, i) \subseteq 1..i
    BY FS_Interval DEF KeptLines
  <2> QED BY <2>1, FS_Subset
<1>2. script[i + 1] = "del" => KeptLines(script, i + 1) = KeptLines(script, i)
  BY DEF KeptLines
<1>3. script[i + 1] # "del" => KeptLines(script, i + 1) = KeptLines(script, i) \cup {i + 1}
  BY DEF KeptLines
<1>4. /\ Cardinality(KeptLines(script, i)) \in Nat
      /\ Cardinality(KeptLines(script, i) \cup {i + 1}) = Cardinality(KeptLines(script, i)) + 1
  BY <1>1, FS_CardinalityType, FS_AddElement
<1> QED BY <1>2, <1>3, <1>4 DEF Number

\* How the inserted lines grow.
LEMMA InsertedGrows ==
  ASSUME NEW script, NEW i \in Nat
  PROVE  /\ script[i + 1] = "add" => InsertedBy(script, i + 1) = InsertedBy(script, i) \cup {Number(script, i + 1)}
         /\ script[i + 1] # "add" => InsertedBy(script, i + 1) = InsertedBy(script, i)
<1>1. \A j : j \in 1..(i + 1) <=> j \in 1..i \/ j = i + 1
  OBVIOUS
<1> QED BY <1>1 DEF InsertedBy

\* Before the first change, lines keep their numbers and none is inserted.
LEMMA UnchangedPrefix ==
  ASSUME NEW script, NEW i \in Nat, \A j \in 1..i : script[j] = "keep"
  PROVE  Number(script, i) = i /\ InsertedBy(script, i) = {}
<1>1. KeptLines(script, i) = 1..i
  BY DEF KeptLines
<1>2. Cardinality(1..i) = i
  BY FS_Interval
<1> QED BY <1>1, <1>2 DEF Number, InsertedBy

\* Reading a line of the script: where the reader stands, and what it has.
At(script, i) == [line |-> Number(script, i) + 1, added |-> InsertedBy(script, i)]

\* One line read is one line of the script passed.
LEMMA ReadsOne ==
  ASSUME NEW script, NEW i \in Nat, script[i + 1] \in Edits
  PROVE  ReadLine(At(script, i), <<script[i + 1], 0>>) = At(script, i + 1)
<1> DEFINE l == <<script[i + 1], 0>>
           a == Number(script, i)
           b == Number(script, i + 1)
           S == InsertedBy(script, i)
           T == InsertedBy(script, i + 1)
<1>1. l[1] = script[i + 1] /\ l[1] # "@@"
  BY DEF Edits
<1>2. /\ a \in Nat /\ (script[i + 1] = "del" => b = a) /\ (script[i + 1] # "del" => b = a + 1)
      /\ (script[i + 1] = "add" => T = S \cup {b}) /\ (script[i + 1] # "add" => T = S)
  BY NumberGrows, InsertedGrows
<1>3. At(script, i) = [line |-> a + 1, added |-> S] /\ At(script, i + 1) = [line |-> b + 1, added |-> T]
  BY DEF At
<1> HIDE DEF l, a, b, S, T
<1>4. CASE script[i + 1] = "del"
  BY <1>1, <1>2, <1>3, <1>4 DEF ReadLine
<1>5. CASE script[i + 1] = "add"
  BY <1>1, <1>2, <1>3, <1>5 DEF ReadLine
<1>6. CASE script[i + 1] = "keep"
  BY <1>1, <1>2, <1>3, <1>6 DEF ReadLine
<1> QED BY <1>4, <1>5, <1>6 DEF Edits, l

\* The first change of a script that has one.
First(script) ==
  CHOOSE i \in 1..Len(script) : /\ script[i] # "keep"
                                /\ \A j \in 1..(i - 1) : script[j] = "keep"

\* It is one, and everything before it is kept.
LEMMA FirstChange ==
  ASSUME NEW script \in Seq(Edits), NEW k \in DOMAIN script, script[k] # "keep"
  PROVE  /\ First(script) \in 1..Len(script) /\ script[First(script)] # "keep"
         /\ \A j \in 1..(First(script) - 1) : script[j] = "keep"
<1> DEFINE T == {n \in Nat : \A j \in 1..n : j <= Len(script) => script[j] = "keep"}
           P(i) == script[i] # "keep" /\ \A j \in 1..(i - 1) : script[j] = "keep"
<1>1. DOMAIN script = 1..Len(script) /\ Len(script) \in Nat
  BY LenProperties
<1>2. \E i \in 1..Len(script) : P(i)
  <2> SUFFICES ASSUME \A i \in 1..Len(script) : ~P(i) PROVE FALSE
    OBVIOUS
  <2>1. 0 \in T
    OBVIOUS
  <2>2. ASSUME NEW n \in Nat, n \in T PROVE n + 1 \in T
    <3>1. \A j \in 1..n : j <= Len(script) => script[j] = "keep"
      BY <2>2
    <3>2. ASSUME n + 1 <= Len(script) PROVE script[n + 1] = "keep"
      <4>1. n + 1 \in 1..Len(script)
        BY <1>1, <3>2
      <4>2. \A j \in 1..((n + 1) - 1) : script[j] = "keep"
        BY <1>1, <3>1, <3>2
      <4> QED BY <4>1, <4>2
    <3>3. \A j \in 1..(n + 1) : j \in 1..n \/ j = n + 1
      OBVIOUS
    <3>4. \A j \in 1..(n + 1) : j <= Len(script) => script[j] = "keep"
      BY <3>1, <3>2, <3>3
    <3> QED BY <3>4
  <2>3. k \in Nat /\ k \in 1..k /\ k <= Len(script)
    BY <1>1
  <2> HIDE DEF T
  <2>4. \A n \in Nat : n \in T => n + 1 \in T
    BY <2>2
  <2>5. Nat \subseteq T
    BY <2>1, <2>4, EveryNumber
  <2>6. k \in T
    BY <2>3, <2>5
  <2>7. \A j \in 1..k : j <= Len(script) => script[j] = "keep"
    BY <2>6 DEF T
  <2> QED BY <2>3, <2>7
<1> QED BY <1>2 DEF First

\* The patch of a script with a change: a header that names the first, and the
\* script from there.
LEMMA PatchLines ==
  ASSUME NEW script \in Seq(Edits), NEW k \in DOMAIN script, script[k] # "keep"
  PROVE  LET f == First(script)
             N == Len(script) - f + 1
         IN  /\ Len(PatchOf(script)) = N + 1 /\ PatchOf(script)[1] = <<"@@", f>>
             /\ \A n \in 1..N : PatchOf(script)[n + 1] = <<script[f + n - 1], 0>>
<1> DEFINE f == First(script)
           N == Len(script) - f + 1
           S == (Edits \cup {"@@"}) \X Nat
           head == <<<<"@@", f>>>>
           tail == [i \in 1..(Len(script) - f + 1) |-> <<script[f + i - 1], 0>>]
<1>1. f \in 1..Len(script) /\ Len(script) \in Nat /\ DOMAIN script = 1..Len(script)
  BY FirstChange, LenProperties
<1>2. N \in Nat
  BY <1>1
<1>3. PatchOf(script) = head \o tail
  BY DEF PatchOf, First
<1> HIDE DEF f
<1>4. head \in Seq(S) /\ Len(head) = 1 /\ head[1] = <<"@@", f>>
  <2> DEFINE x == <<"@@", f>>
  <2>1. x \in S
    BY <1>1
  <2> HIDE DEF x, S
  <2>2. <<x>> \in Seq(S)
    BY <2>1
  <2> QED BY <2>2, ShortThreads DEF x
<1>5. \A i \in 1..N : <<script[f + i - 1], 0>> \in S
  <2>1. \A i \in 1..N : f + i - 1 \in 1..Len(script)
    BY <1>1
  <2>2. \A j \in 1..Len(script) : script[j] \in Edits
    BY ElementOfSeq
  <2> QED BY <2>1, <2>2
<1>6. tail \in [1..N -> S]
  BY <1>5
<1>7. tail \in Seq(S) /\ Len(tail) = N /\ \A i \in 1..N : tail[i] = <<script[f + i - 1], 0>>
  <2>1. tail \in Seq(S)
    <3> HIDE DEF tail, S, N
    <3> QED BY <1>2, <1>6, SeqDef
  <2>2. Len(tail) = N
    BY <1>2, <2>1, LenProperties
  <2> QED BY <2>1, <2>2
<1> HIDE DEF head, tail, S, N
<1>8. /\ Len(head \o tail) = Len(head) + Len(tail)
      /\ \A i \in 1..(Len(head) + Len(tail)) :
           (head \o tail)[i] = IF i <= Len(head) THEN head[i] ELSE tail[i - Len(head)]
  BY <1>4, <1>7, ConcatProperties, Zenon
<1>9. Len(PatchOf(script)) = N + 1 /\ PatchOf(script)[1] = <<"@@", f>>
  BY <1>2, <1>3, <1>4, <1>7, <1>8
<1>10. ASSUME NEW n \in 1..N PROVE PatchOf(script)[n + 1] = <<script[f + n - 1], 0>>
  <2>1. n + 1 \in 1..(1 + N) /\ ~(n + 1 <= 1) /\ (n + 1) - 1 = n
    BY <1>2
  <2>2. (head \o tail)[n + 1] = tail[n]
    BY <1>4, <1>7, <1>8, <2>1
  <2> QED BY <1>3, <1>7, <2>2
<1> QED BY <1>9, <1>10 DEF f, N

\* The reader of a patch stands where the script does, line after line, and so
\* collects the numbers of the inserted lines (_added_lines_from_patch).
LEMMA AddedIsInserted ==
  ASSUME NEW script \in Seq(Edits), NEW k \in DOMAIN script, script[k] # "keep"
  PROVE  AddedLines(PatchOf(script)) = InsertedBy(script, Len(script)) /\ PatchOf(script) # <<>>
<1> DEFINE f == First(script)
           L == Len(script)
           N == L - f + 1
           patch == PatchOf(script)
           M == Len(patch)
           start == [line |-> 0, added |-> {}]
           Walks(at) == at = [n \in 0..M |-> IF n = 0 THEN start ELSE ReadLine(at[n - 1], patch[n])]
           walk == [n \in 0..M |-> IF n = 0 THEN start ELSE At(script, f + n - 2)]
           theWalk == CHOOSE at : Walks(at)
<1>1. f \in 1..L /\ L \in Nat /\ DOMAIN script = 1..L
  BY FirstChange, LenProperties
<1>2. N \in Nat /\ M = N + 1 /\ M \in Nat
  BY <1>1, PatchLines
<1>3. patch[1] = <<"@@", f>> /\ \A n \in 1..N : patch[n + 1] = <<script[f + n - 1], 0>>
  BY PatchLines
<1>4. \A j \in 1..(f - 1) : script[j] = "keep"
  BY FirstChange
<1>5. AddedLines(patch) = theWalk[M].added
  BY DEF AddedLines
<1> HIDE DEF f, L, patch, M
<1>6. ASSUME NEW n \in 1..M
      PROVE  ReadLine(walk[n - 1], patch[n]) = At(script, f + n - 2)
  <2>1. CASE n = 1
    <3>1. walk[n - 1] = start
      BY <1>2, <2>1
    <3>2. ReadLine(start, patch[1]) = [line |-> f, added |-> {}]
      <4> DEFINE l == <<"@@", f>>
      <4>1. l[1] = "@@" /\ l[2] = f
        OBVIOUS
      <4> HIDE DEF l
      <4>2. ReadLine(start, l) = [start EXCEPT !.line = f]
        BY <4>1 DEF ReadLine
      <4>3. [start EXCEPT !.line = f] = [line |-> f, added |-> {}]
        <5> DEFINE d == [start EXCEPT !.line = f]
        <5>1. d \in [line : {f}, added : {{}}]
          OBVIOUS
        <5> HIDE DEF d
        <5>2. d = [line |-> f, added |-> {}]
          BY <5>1
        <5> QED BY <5>2 DEF d
      <4> QED BY <1>3, <4>2, <4>3 DEF l
    <3>3. f - 1 \in Nat /\ f + n - 2 = f - 1
      BY <1>1, <2>1
    <3>4. Number(script, f - 1) = f - 1 /\ InsertedBy(script, f - 1) = {}
      BY <1>4, <3>3, UnchangedPrefix
    <3>5. At(script, f - 1) = [line |-> f, added |-> {}]
      <4>1. Number(script, f - 1) + 1 = f
        BY <1>1, <3>4
      <4> QED BY <3>4, <4>1 DEF At
    <3> QED BY <2>1, <3>1, <3>2, <3>3, <3>5
  <2>2. CASE n # 1
    <3> DEFINE i == f + n - 3
    <3>1. i \in Nat /\ i + 1 \in 1..L /\ i + 1 = f + n - 2 /\ n - 1 \in 1..N
      BY <1>1, <1>2, <2>2 DEF L
    <3>2. walk[n - 1] = At(script, i)
      <4>1. n - 1 \in 0..M /\ n - 1 # 0 /\ f + (n - 1) - 2 = i
        BY <1>1, <1>2, <2>2
      <4> QED BY <4>1
    <3>3. patch[n] = <<script[i + 1], 0>>
      <4>1. (n - 1) + 1 = n /\ f + (n - 1) - 1 = i + 1
        BY <1>1, <1>2, <2>2
      <4>2. patch[(n - 1) + 1] = <<script[f + (n - 1) - 1], 0>>
        BY <1>3, <3>1
      <4> QED BY <4>1, <4>2
    <3>4. script[i + 1] \in Edits
      BY <1>1, <3>1, ElementOfSeq DEF L
    <3> HIDE DEF i
    <3>5. ReadLine(At(script, i), <<script[i + 1], 0>>) = At(script, i + 1)
      BY <3>1, <3>4, ReadsOne
    <3> QED BY <3>1, <3>2, <3>3, <3>5
  <2> QED BY <2>1, <2>2
<1>7. Walks(walk)
  <2>1. \A n \in 0..M : n # 0 => n \in 1..M
    BY <1>2
  <2>2. \A n \in 0..M : walk[n] = IF n = 0 THEN start ELSE ReadLine(walk[n - 1], patch[n])
    BY <1>6, <2>1
  <2>3. walk = [n \in 0..M |-> walk[n]]
    OBVIOUS
  <2> HIDE DEF walk, start
  <2> QED BY <2>2, <2>3
<1>8. Walks(theWalk)
  BY <1>7
<1> HIDE DEF theWalk
<1>9. theWalk[M] = walk[M]
  <2> DEFINE T == {n \in Nat : n \in 0..M => theWalk[n] = walk[n]}
  <2> HIDE DEF walk, start
  <2>1. \A n \in 0..M : /\ theWalk[n] = IF n = 0 THEN start ELSE ReadLine(theWalk[n - 1], patch[n])
                        /\ walk[n] = IF n = 0 THEN start ELSE ReadLine(walk[n - 1], patch[n])
    BY <1>7, <1>8
  <2>2. 0 \in T
    BY <1>2, <2>1
  <2>3. ASSUME NEW n \in Nat, n \in T PROVE n + 1 \in T
    <3> SUFFICES ASSUME n + 1 \in 0..M PROVE theWalk[n + 1] = walk[n + 1]
      OBVIOUS
    <3>1. n \in 0..M /\ n + 1 # 0 /\ (n + 1) - 1 = n
      BY <1>2
    <3>2. theWalk[n] = walk[n]
      BY <2>3, <3>1
    <3> QED BY <2>1, <3>1, <3>2
  <2> HIDE DEF T
  <2>4. \A n \in Nat : n \in T => n + 1 \in T
    BY <2>3
  <2>5. Nat \subseteq T
    BY <2>2, <2>4, EveryNumber
  <2>6. M \in T /\ M \in 0..M
    BY <1>2, <2>5
  <2> QED BY <2>6 DEF T
<1>10. walk[M] = At(script, L)
  <2>1. M \in 0..M /\ M # 0 /\ f + M - 2 = L
    BY <1>1, <1>2
  <2> QED BY <2>1
<1>11. At(script, L).added = InsertedBy(script, L)
  BY DEF At
<1>12. patch # <<>>
  <2>1. Len(patch) # 0
    BY <1>2 DEF M
  <2> QED BY <2>1, ShortThreads, Zenon
<1> QED BY <1>5, <1>9, <1>10, <1>11, <1>12 DEF patch, L

-----------------------------------------------------------------------------
(* What a scan examines and reports.                                       *)

\* A record with the fields of a scan.
IsLook(l) ==
  l \in [pc : {l.pc}, sha : {l.sha}, of : {l.of}, seen : {l.seen}, entries : {l.entries},
         listed : {l.listed}, paths : {l.paths}, scope : {l.scope}, ran : {l.ran},
         failed : {l.failed}, skipped : {l.skipped}, found : {l.found}, new : {l.new},
         baseline : {l.baseline}, lines : {l.lines}, blocked : {l.blocked}, closing : {l.closing}]

DiffTypes ==
  /\ edit \in Seq(Edits) /\ flaws \subseteq Flaws /\ headAt \in Nat
  /\ IsLook(look) /\ look.pc \in {"idle", "files", "scope", "tools", "done"}

\* A scan is of a branch that was pushed, whose edit is final.
Started == look.pc # "idle" => headAt > 0 /\ look.seen \subseteq Flaws

\* The patch is the one of the edit, when the files could be listed.
Listing ==
  look.pc \in {"scope", "tools", "done"} =>
    (look.listed => look.entries = PatchOf(edit)) /\ (~look.listed => look.entries = <<>>)

\* What the tools found so far.
Finds ==
  /\ look.pc \in {"files", "scope"} => look.ran = {} /\ look.skipped = {} /\ look.found = {}
  /\ look.pc = "tools" =>
       /\ "edited" \in look.paths
       /\ look.found = {f \in look.seen : f.tool \in look.ran /\ f.file \in look.paths}
       /\ look.scope # "diff" => look.skipped = {}

\* The graph a narrowed scan went by: of its own checkout, or the stored one.
Narrowed ==
  (look.pc \in {"tools", "done"} /\ look.scope = "diff") =>
    \/ Importers[look.of] \subseteq look.paths
    \/ graphRow.sha = look.sha /\ Importers[graphRow.of] \subseteq look.paths

DiffInv ==
  /\ DiffTypes /\ Started /\ Listing /\ Finds /\ Narrowed
  /\ ReportsTheEdit /\ AllClearIsClear

\* Nothing is said before a scan is done.
LEMMA NothingSaid ==
  ASSUME look'.pc # "done"
  PROVE  ReportsTheEdit' /\ AllClearIsClear'
BY DEF ReportsTheEdit, AllClearIsClear

\* Between scans there is nothing to show.
LEMMA BetweenScans ==
  ASSUME DiffTypes', look'.pc = "idle"
  PROVE  DiffInv'
<1>1. Started' /\ Listing' /\ Finds' /\ Narrowed'
  BY DEF Started, Listing, Finds, Narrowed
<1> QED BY <1>1, NothingSaid DEF DiffInv

\* The edit, the settings and the scan as they were: so is what it says.
LEMMA SaidStays ==
  ASSUME ReportsTheEdit, AllClearIsClear, UNCHANGED <<edit, option, look>>
  PROVE  ReportsTheEdit' /\ AllClearIsClear'
<1>1. \A f : Introduced(f)' = Introduced(f)
  BY DEF Introduced, Inserted, Suppressed
<1> QED BY <1>1 DEF ReportsTheEdit, AllClearIsClear

\* The author adds a line to the edit, before anything is pushed.
LEMMA EditLineKeeps ==
  ASSUME DiffInv, NEW op \in Edits, EditLine(op)
  PROVE  DiffInv'
<1>1. edit' \in Seq(Edits)
  BY AppendProperties DEF EditLine, DiffInv, DiffTypes
<1>2. DiffTypes' /\ look'.pc = "idle"
  BY <1>1 DEF EditLine, DiffInv, DiffTypes, IsLook
<1> QED BY <1>2, BetweenScans

\* A push moves the head under a scan; the scan keeps what it saw.
LEMMA PushKeeps ==
  ASSUME DiffInv, NEW fs \in SUBSET Flaws, Push(fs)
  PROVE  DiffInv'
<1>1. UNCHANGED <<edit, option, graphRow, look>> /\ headAt' = headAt + 1 /\ flaws' = fs
  BY DEF Push
<1>2. DiffTypes'
  BY <1>1 DEF DiffInv, DiffTypes, IsLook
<1>3. Started'
  BY <1>1 DEF DiffInv, DiffTypes, Started
<1>4. Listing'
  BY <1>1 DEF DiffInv, Listing, PatchOf
<1>5. Finds' /\ Narrowed'
  BY <1>1 DEF DiffInv, Finds, Narrowed
<1> QED BY <1>1, <1>2, <1>3, <1>4, <1>5, SaidStays DEF DiffInv

\* A scan starts.
LEMMA CloneKeeps ==
  ASSUME DiffInv, Clone
  PROVE  DiffInv'
<1>1. PICK sha \in {headAt, Max({1, headAt - 1})} :
        look' = [IdleLook EXCEPT !.pc = "files", !.sha = sha, !.of = headAt, !.seen = flaws]
  BY DEF Clone
<1>2. /\ IsLook(look)' /\ look'.pc = "files" /\ look'.seen = flaws
      /\ look'.ran = {} /\ look'.skipped = {} /\ look'.found = {}
  BY <1>1 DEF IdleLook, IsLook
<1>3. headAt > 0 /\ UNCHANGED <<edit, flaws, headAt>>
  BY DEF Clone
<1>4. DiffTypes' /\ Started'
  BY <1>2, <1>3 DEF DiffInv, DiffTypes, Started
<1>5. Listing' /\ Finds' /\ Narrowed'
  BY <1>2 DEF Listing, Finds, Narrowed
<1> QED BY <1>2, <1>4, <1>5, NothingSaid DEF DiffInv

\* The patch is fetched, or is not.
LEMMA ListFilesKeeps ==
  ASSUME DiffInv, NEW ok \in BOOLEAN, ListFiles(ok)
  PROVE  DiffInv'
<1> DEFINE entries == IF ok THEN PatchOf(edit) ELSE <<>>
<1>1. /\ look' = [look EXCEPT !.pc = "scope", !.listed = ok, !.entries = entries]
      /\ look.pc = "files" /\ UNCHANGED <<edit, flaws, headAt>>
  BY DEF ListFiles
<1>2. IsLook(look)
  BY DEF DiffInv, DiffTypes
<1> HIDE DEF entries
<1>3. /\ IsLook(look)' /\ look'.pc = "scope" /\ look'.listed = ok /\ look'.entries = entries
      /\ look'.seen = look.seen /\ look'.ran = look.ran /\ look'.skipped = look.skipped
      /\ look'.found = look.found
  BY <1>1, <1>2 DEF IsLook
<1>4. DiffTypes' /\ Started'
  BY <1>1, <1>3 DEF DiffInv, DiffTypes, Started
<1>5. Listing'
  <2>1. PatchOf(edit)' = PatchOf(edit)
    BY <1>1 DEF PatchOf
  <2> QED BY <1>3, <2>1 DEF Listing, entries
<1>6. Finds' /\ Narrowed'
  BY <1>1, <1>3 DEF DiffInv, Finds, Narrowed
<1> QED BY <1>3, <1>4, <1>5, <1>6, NothingSaid DEF DiffInv

\* The scope is chosen by a graph of the checkout or a stored one.
LEMMA ScopeKeeps ==
  ASSUME DiffInv, Scope
  PROVE  DiffInv'
<1> DEFINE graph  == IF Cached(look.sha) THEN graphRow.of ELSE look.of
           paths  == ExpandPaths(ImportGraph(graph))
           narrow == option.diffScoped /\ look.listed /\ edit # <<>> /\ paths # {}
           chosen == IF narrow THEN paths ELSE RepoFiles
           scope  == IF narrow THEN "diff" ELSE "full"
<1>1. /\ look.pc = "scope" /\ UNCHANGED <<edit, flaws, headAt>>
      /\ look' = [look EXCEPT !.pc = "tools", !.paths = chosen, !.scope = scope]
      /\ graphRow' = IF option.diffScoped /\ look.listed /\ edit # <<>> /\ ~Cached(look.sha)
                     THEN [sha |-> look.sha, of |-> look.of] ELSE graphRow
  BY DEF Scope
<1>2. paths # {} => "edited" \in paths /\ Importers[graph] \subseteq paths
  BY DEF ExpandPaths, ImportGraph
<1>3. "edited" \in chosen
  BY <1>2 DEF RepoFiles
<1>4. ASSUME narrow
      PROVE  \/ Importers[look.of] \subseteq paths
             \/ graphRow.sha = look.sha /\ graphRow' = graphRow /\ Importers[graphRow.of] \subseteq paths
  <2>1. CASE Cached(look.sha)
    BY <1>1, <1>2, <1>4, <2>1 DEF Cached
  <2>2. CASE ~Cached(look.sha)
    BY <1>2, <1>4, <2>2
  <2> QED BY <2>1, <2>2
<1>5. scope = "diff" => narrow /\ chosen = paths
  OBVIOUS
<1>6. IsLook(look)
  BY DEF DiffInv, DiffTypes
<1> HIDE DEF chosen, scope, narrow, paths, graph
<1>7. /\ IsLook(look)' /\ look'.pc = "tools" /\ look'.paths = chosen /\ look'.scope = scope
      /\ look'.listed = look.listed /\ look'.entries = look.entries /\ look'.seen = look.seen
      /\ look'.ran = look.ran /\ look'.skipped = look.skipped /\ look'.found = look.found
      /\ look'.of = look.of /\ look'.sha = look.sha
  BY <1>1, <1>6 DEF IsLook
<1>8. DiffTypes' /\ Started'
  BY <1>1, <1>7 DEF DiffInv, DiffTypes, Started
<1>9. Listing'
  <2>1. PatchOf(edit)' = PatchOf(edit)
    BY <1>1 DEF PatchOf
  <2> QED BY <1>1, <1>7, <2>1 DEF DiffInv, Listing
<1>10. Finds'
  BY <1>1, <1>3, <1>7 DEF DiffInv, Finds
<1>11. Narrowed'
  BY <1>4, <1>5, <1>7 DEF Narrowed
<1> QED BY <1>7, <1>8, <1>9, <1>10, <1>11, NothingSaid DEF DiffInv

\* One tool ran, failed or was skipped.
LEMMA RunToolKeeps ==
  ASSUME DiffInv, NEW t \in DiffTools, NEW how \in {"ran", "failed", "skipped"}, RunTool(t, how)
  PROVE  DiffInv'
<1> DEFINE hits == {f \in look.seen : f.tool = t /\ f.file \in look.paths}
<1>1. /\ look.pc = "tools" /\ UNCHANGED <<edit, flaws, headAt, graphRow>>
      /\ how = "skipped" => look.scope = "diff"
      /\ look' = [look EXCEPT ![how] = look[how] \cup {t},
                   !.found = IF how = "ran" THEN look.found \cup hits ELSE look.found]
  BY DEF RunTool
<1>2. IsLook(look)
  BY DEF DiffInv, DiffTypes
<1>3. /\ IsLook(look)' /\ look'.pc = "tools" /\ look'.paths = look.paths /\ look'.scope = look.scope
      /\ look'.listed = look.listed /\ look'.entries = look.entries /\ look'.seen = look.seen
      /\ look'.of = look.of /\ look'.sha = look.sha
  <2>1. CASE how = "ran"
    BY <1>1, <1>2, <2>1 DEF IsLook
  <2>2. CASE how = "failed"
    BY <1>1, <1>2, <2>2 DEF IsLook
  <2>3. CASE how = "skipped"
    BY <1>1, <1>2, <2>3 DEF IsLook
  <2> QED BY <2>1, <2>2, <2>3
<1>4. /\ look'.ran = IF how = "ran" THEN look.ran \cup {t} ELSE look.ran
      /\ look'.skipped = IF how = "skipped" THEN look.skipped \cup {t} ELSE look.skipped
      /\ look'.found = IF how = "ran" THEN look.found \cup hits ELSE look.found
  <2>1. CASE how = "ran"
    BY <1>1, <1>2, <2>1 DEF IsLook
  <2>2. CASE how = "failed"
    BY <1>1, <1>2, <2>2 DEF IsLook
  <2>3. CASE how = "skipped"
    BY <1>1, <1>2, <2>3 DEF IsLook
  <2> QED BY <2>1, <2>2, <2>3
<1>5. DiffTypes' /\ Started'
  BY <1>1, <1>3 DEF DiffInv, DiffTypes, Started
<1>6. Listing'
  <2>1. edit' = edit
    BY <1>1
  <2>2. PatchOf(edit)' = PatchOf(edit)
    BY <2>1 DEF PatchOf
  <2> QED BY <1>1, <1>3, <2>2 DEF DiffInv, Listing
<1>7. Finds'
  <2>1. /\ "edited" \in look.paths
        /\ look.found = {f \in look.seen : f.tool \in look.ran /\ f.file \in look.paths}
        /\ look.scope # "diff" => look.skipped = {}
    BY <1>1 DEF DiffInv, Finds
  <2>2. look'.found = {f \in look'.seen : f.tool \in look'.ran /\ f.file \in look'.paths}
    <3>1. CASE how = "ran"
      BY <1>3, <1>4, <2>1, <3>1
    <3>2. CASE how # "ran"
      BY <1>3, <1>4, <2>1, <3>2
    <3> QED BY <3>1, <3>2
  <2>3. look'.scope # "diff" => look'.skipped = {}
    BY <1>1, <1>3, <1>4, <2>1
  <2> QED BY <1>3, <2>1, <2>2, <2>3 DEF Finds
<1>8. Narrowed'
  BY <1>1, <1>3 DEF DiffInv, Narrowed
<1> QED BY <1>3, <1>5, <1>6, <1>7, <1>8, NothingSaid DEF DiffInv

\* The lines inserted have numbers from 1.
LEMMA InsertedNumbers ==
  ASSUME edit \in Seq(Edits)
  PROVE  Inserted = InsertedBy(edit, Len(edit)) /\ Inserted # WholeFile
<1>1. DOMAIN edit = 1..Len(edit) /\ Len(edit) \in Nat
  BY LenProperties
<1>2. Inserted = InsertedBy(edit, Len(edit))
  BY <1>1 DEF Inserted, InsertedBy, Number, KeptLines
<1>3. ASSUME NEW k \in 1..Len(edit), edit[k] = "add" PROVE Number(edit, k) # 0
  <2>1. k - 1 \in Nat /\ (k - 1) + 1 = k
    BY <1>1
  <2>2. Number(edit, k - 1) \in Nat /\ Number(edit, k) = Number(edit, k - 1) + 1
    BY <1>3, <2>1, NumberGrows
  <2> QED BY <2>2
<1>4. \A l \in Inserted : l # 0
  BY <1>2, <1>3 DEF InsertedBy
<1> QED BY <1>2, <1>4 DEF WholeFile

\* The comparison, as what it says of the edit.
LEMMA JudgeKeeps ==
  ASSUME DiffInv, Judge
  PROVE  DiffInv'
<1> DEFINE lines == ChangedLines(look.entries, IF look.scope = "diff" THEN look.paths ELSE {})
           net   == IF option.baseline THEN NetNew(look.found) ELSE {}
           mine  == IF look.listed THEN Attributable(net, lines) ELSE net
           new   == {f \in mine : ~Suppressed(f)}
           blocked == \E f \in new : Rank(f.severity) >= BlockingFrom
           closing == Closing(new, option.baseline, look.failed, look.scope, look.listed)
<1>1. /\ look.pc = "tools" /\ look.ran \cup look.failed \cup look.skipped = DiffTools
      /\ look' = [look EXCEPT !.pc = "done", !.new = new, !.baseline = option.baseline, !.lines = lines,
                    !.blocked = blocked, !.closing = closing]
      /\ UNCHANGED <<edit, flaws, option, headAt, graphRow>>
  BY DEF Judge
<1>2. /\ edit \in Seq(Edits) /\ IsLook(look) /\ look.seen \subseteq Flaws
      /\ "edited" \in look.paths
      /\ look.found = {f \in look.seen : f.tool \in look.ran /\ f.file \in look.paths}
      /\ look.scope # "diff" => look.skipped = {}
      /\ look.listed => look.entries = PatchOf(edit)
  BY <1>1 DEF DiffInv, DiffTypes, Started, Finds, Listing
<1>3. lines["edited"] = IF look.entries # <<>> THEN AddedLines(look.entries) ELSE WholeFile
  BY DEF ChangedLines
<1>4. "edited" \in DOMAIN lines
  BY DEF ChangedLines
<1>5. look.listed /\ look.entries # <<>> => lines["edited"] = Inserted /\ Inserted # WholeFile
  <2> SUFFICES ASSUME look.listed, look.entries # <<>>
               PROVE  lines["edited"] = Inserted /\ Inserted # WholeFile
    OBVIOUS
  <2>1. PatchOf(edit) # <<>>
    BY <1>2
  <2>2. PICK k \in DOMAIN edit : edit[k] # "keep"
    BY <2>1 DEF PatchOf
  <2>3. AddedLines(PatchOf(edit)) = InsertedBy(edit, Len(edit))
    BY <1>2, <2>2, AddedIsInserted
  <2> QED BY <1>2, <1>3, <2>3, InsertedNumbers
<1> HIDE DEF lines
\* What was introduced and seen is reported.
<1>6. ASSUME option.baseline, NEW f \in look.seen, Introduced(f), f.tool \in look.ran
      PROVE  f \in new
  <2>1. f.file = "edited" /\ f \notin option.open /\ ~Suppressed(f)
    BY <1>6 DEF Introduced
  <2>2. f \in look.found
    BY <1>2, <1>6, <2>1
  <2>3. f \in net
    BY <1>6, <2>1, <2>2 DEF NetNew
  <2>4. ASSUME look.listed PROVE f \in Attributable(net, lines)
    <3>1. CASE look.entries # <<>>
      <4>1. \E l \in lines[f.file] : f.line <= l /\ l <= Max({f.end, f.line})
        BY <1>5, <1>6, <2>1, <2>4, <3>1 DEF Introduced
      <4> QED BY <1>4, <2>1, <2>3, <4>1 DEF Attributable
    <3>2. CASE look.entries = <<>>
      BY <1>3, <1>4, <2>1, <2>3, <3>2 DEF Attributable
    <3> QED BY <3>1, <3>2
  <2> QED BY <2>1, <2>3, <2>4
\* And of the edited file, nothing else.
<1>7. ASSUME look.listed, look.entries # <<>>, NEW f \in new, f.file = "edited", f.line # 0
      PROVE  Introduced(f)
  <2>1. f \in Attributable(net, lines) /\ ~Suppressed(f)
    BY <1>7
  <2>2. f \in net /\ \E l \in Inserted : f.line <= l /\ l <= Max({f.end, f.line})
    BY <1>5, <1>7, <2>1 DEF Attributable
  <2>3. f \notin option.open
    BY <2>2 DEF NetNew
  <2> QED BY <1>7, <2>1, <2>2, <2>3 DEF Introduced
\* An all-clear leaves nothing to a tool that did not run.
<1>8. ASSUME closing \in {"none introduced", "none against the default branch"},
             NEW f \in look.seen
      PROVE  ~Introduced(f)
  <2>1. new = {} /\ option.baseline /\ look.failed = {} /\ look.scope # "diff"
    BY <1>8 DEF Closing
  <2>2. f.tool \in look.ran
    BY <1>1, <1>2, <2>1, DiffAssumption
  <2> QED BY <1>6, <2>1, <2>2
<1> HIDE DEF net, mine, new, blocked, closing
<1>9. /\ IsLook(look)' /\ look'.pc = "done" /\ look'.new = new /\ look'.baseline = option.baseline
      /\ look'.closing = closing /\ look'.paths = look.paths /\ look'.scope = look.scope
      /\ look'.listed = look.listed /\ look'.entries = look.entries /\ look'.seen = look.seen
      /\ look'.of = look.of /\ look'.sha = look.sha /\ look'.ran = look.ran
  BY <1>1, <1>2 DEF IsLook
<1>10. \A f : Introduced(f)' = Introduced(f)
  BY <1>1 DEF Introduced, Inserted, Suppressed
<1>11. ReportsTheEdit'
  BY <1>6, <1>7, <1>9, <1>10 DEF ReportsTheEdit
<1>12. AllClearIsClear'
  BY <1>8, <1>9, <1>10 DEF AllClearIsClear
<1>13. DiffTypes' /\ Started'
  BY <1>1, <1>9 DEF DiffInv, DiffTypes, Started
<1>14. Listing'
  <2>1. edit' = edit
    BY <1>1
  <2>2. PatchOf(edit)' = PatchOf(edit)
    BY <2>1 DEF PatchOf
  <2> QED BY <1>1, <1>9, <2>2 DEF DiffInv, Listing
<1>15. Finds' /\ Narrowed'
  BY <1>1, <1>9 DEF DiffInv, Finds, Narrowed
<1> QED BY <1>11, <1>12, <1>13, <1>14, <1>15 DEF DiffInv

\* The invariant is inductive.
LEMMA DiffInvariant == DiffSpec => []DiffInv
<1>1. DiffInit => DiffInv
  <2> SUFFICES ASSUME DiffInit PROVE DiffInv
    OBVIOUS
  <2>1. IsLook(look) /\ look.pc = "idle"
    BY DEF DiffInit, IdleLook, IsLook
  <2>2. edit \in Seq(Edits)
    BY EmptySeq DEF DiffInit
  <2>3. DiffTypes
    BY <2>1, <2>2 DEF DiffInit, DiffTypes
  <2>4. Started /\ Listing /\ Finds /\ Narrowed /\ ReportsTheEdit /\ AllClearIsClear
    BY <2>1 DEF Started, Listing, Finds, Narrowed, ReportsTheEdit, AllClearIsClear
  <2> QED BY <2>3, <2>4 DEF DiffInv
<1>2. DiffInv /\ [DiffNext]_diffVars => DiffInv'
  <2> SUFFICES ASSUME DiffInv, [DiffNext]_diffVars PROVE DiffInv'
    OBVIOUS
  <2>1. ASSUME Finish PROVE DiffInv'
    <3>1. IsLook(look)' /\ look'.pc = "idle"
      BY <2>1 DEF Finish, IdleLook, IsLook
    <3>2. DiffTypes'
      BY <2>1, <3>1 DEF Finish, DiffInv, DiffTypes
    <3> QED BY <3>1, <3>2, BetweenScans
  <2>2. ASSUME SetOptions PROVE DiffInv'
    <3>1. look'.pc = "idle" /\ DiffTypes'
      BY <2>2 DEF SetOptions, DiffInv, DiffTypes, IsLook
    <3> QED BY <3>1, BetweenScans
  <2>3. ASSUME UNCHANGED diffVars PROVE DiffInv'
    <3>1. UNCHANGED <<edit, flaws, option, headAt, graphRow, look>>
      BY <2>3 DEF diffVars
    <3>2. DiffTypes' /\ Started' /\ Finds' /\ Narrowed'
      BY <3>1 DEF DiffInv, DiffTypes, IsLook, Started, Finds, Narrowed
    <3>3. Listing'
      BY <3>1 DEF DiffInv, Listing, PatchOf
    <3> QED BY <3>1, <3>2, <3>3, SaidStays DEF DiffInv
  <2> QED BY <2>1, <2>2, <2>3, EditLineKeeps, PushKeeps, CloneKeeps, ListFilesKeeps, ScopeKeeps,
             RunToolKeeps, JudgeKeeps DEF DiffNext, Edits
<1> QED BY <1>1, <1>2, PTL DEF DiffSpec

(* For every edit, however long: a flaw a tool saw on an inserted line is
   reported, and of the edited file nothing else is.  The numbers read from the
   patch are those of the inserted lines (_added_lines_from_patch,
   attributable_to_diff, compute_net_new). *)
THEOREM ReportsTheEditHolds == DiffSpec => []ReportsTheEdit
<1>1. DiffInv => ReportsTheEdit
  BY DEF DiffInv
<1> QED BY <1>1, DiffInvariant, PTL

(* For every set of tools and flaws: the comment says that nothing was
   introduced only when every tool ran on the whole repository and nothing
   was (render_comment, _run_guardrail_tools). *)
THEOREM AllClearIsClearHolds == DiffSpec => []AllClearIsClear
<1>1. DiffInv => AllClearIsClear
  BY DEF DiffInv
<1> QED BY <1>1, DiffInvariant, PTL

(* For every import graph and any caps: a narrowed scan examines the files that
   import the edited one at the commit it checked out, unless the branch moved
   between the reading of the head and a clone (resolve_blast_radius,
   load_cached_graph, store_graph). *)
THEOREM ExaminesImportersHolds == DiffSpec => []ExaminesImporters
<1>1. DiffInv => ExaminesImporters
  BY DEF DiffInv, Narrowed, ExaminesImporters
<1> QED BY <1>1, DiffInvariant, PTL
=============================================================================
