---------------------------- MODULE ReviewSession ----------------------------
(***************************************************************************)
(* The review session of one plan (internal/session) and the handlers of   *)
(* internal/review/server.go that change it: comments that have to follow  *)
(* their text from revision to revision, proposals made from them, and the *)
(* feedback that a revision or the final handoff takes away with it.       *)
(*                                                                         *)
(* A document is its sequence of lines, an anchor a range of whole lines.  *)
(* Handlers run one at a time under Server.mu, and an agent's answer only  *)
(* enters the session it was asked about (module ReviewIteration), so that *)
(* asking for a proposal and installing it are one step here.  What a      *)
(* comment says, replies and card positions are left out.                  *)
(***************************************************************************)
EXTENDS Integers, Sequences, FiniteSets, SequencesExt

CONSTANTS Lines,        \* the lines that documents are made of
          FirstPlan,    \* the document of the initial revision
          Sources,      \* the documents an editor may leave in the plan file
          Patches,      \* the patches an agent may answer with: sequences of hunks
          MaxRevision,  \* bound on the revisions of the review
          MaxThread,    \* bound on the comments made on the document
          MaxFollowUp,  \* bound on the follow-ups on top of them
          MaxAnswered,  \* bound on the comments that side questions are asked about
          MaxProposal,  \* bound on the proposals ever made
          MaxLength     \* bound on the length of a proposed document

(* Even an empty file has one line. *)
Documents == Seq(Lines) \ {<<>>}

(* A hunk replaces the lines from first to last. *)
Hunks == [first : Nat, last : Nat, new : Seq(Lines)]

ASSUME DocumentAssumption ==
    /\ FirstPlan \in Documents
    /\ Sources \subseteq Documents
    /\ Patches \subseteq Seq(Hunks) \ {<<>>}

ASSUME BoundAssumption ==
    /\ MaxRevision \in Nat /\ MaxThread \in Nat /\ MaxFollowUp \in Nat
    /\ MaxAnswered \in Nat /\ MaxProposal \in Nat /\ MaxLength \in Nat

VARIABLES
    session,     \* Server.session, with the source text of autosaveDocument
    finished,    \* Server.finished
    delivered,   \* the comments whose instructions the last handoff carried
    refused      \* the last handler failed because Validate refused its result

vars == <<session, finished, delivered, refused>>

(* A comment belongs to an accepted revision or to the pending proposal. *)
Revision(n) == <<"revision", n>>
Proposal(n) == <<"proposal", n>>

Anchors  == [first : Nat, last : Nat]
NoAnchor == [first |-> 0, last |-> 0]
NoText   == <<>>

(* The anchor of a comment that is not active is history: no handler reads *)
(* it except the follow-up, which clamps it into the plan.  It is NoAnchor.*)
Comments == [home   : {"revision", "proposal"} \X Nat,
             born   : Nat,                \* revisions there were when it was made
             anchor : Anchors,
             text   : Seq(Lines),         \* SelectedText; none for legacy comments
             intent : {"instruction", "private"},
             status : {"active", "addressed", "detached"},
             answer : {"none", "private", "included"}]   \* its side answer

ThreadIds == 1 .. MaxThread + MaxFollowUp

Proposals == [id       : 0 .. MaxProposal,        \* 0: no proposal is pending
              kind     : {"section", "review"},
              parent   : Nat,                     \* the revision it was made from
              plan     : Seq(Lines),
              anchor   : Anchors,                 \* the selection it was asked for
              applied  : Anchors,                 \* the lines that were replaced
              hunks    : Seq(Hunks),              \* none after a refinement
              included : SUBSET ThreadIds,        \* the comments it carries out
              consumed : SUBSET ThreadIds,        \* the comments whose answers it used
              obsolete : BOOLEAN]

(* The sessions whose comments are the ones in ids. *)
Sessions(ids) ==
            [plans        : Seq(Documents),       \* the document of each revision
             feedback     : Seq(SUBSET ThreadIds),\* the comments each revision carried out
             source       : Documents,            \* the plan file, as last seen
             pending      : Proposals,
             threads      : [ids -> Comments],
             nextThread   : 0 .. MaxThread + MaxFollowUp,
             nextProposal : 0 .. MaxProposal]

NoProposal == [id |-> 0, kind |-> "section", parent |-> 0, plan |-> <<>>, anchor |-> NoAnchor,
               applied |-> NoAnchor, hunks |-> <<>>, included |-> {}, consumed |-> {},
               obsolete |-> FALSE]

Init ==
    /\ session = [plans |-> <<FirstPlan>>, feedback |-> <<{}>>, source |-> FirstPlan,
                  pending |-> NoProposal, threads |-> <<>>, nextThread |-> 0, nextProposal |-> 0]
    /\ finished = FALSE /\ delivered = {} /\ refused = FALSE

-----------------------------------------------------------------------------
(* Text and anchors. *)

Current(s) == Len(s.plans)
Plan(s)    == s.plans[Len(s.plans)]
Active(t)  == t.status = "active"

InPlan(plan, a) == a.first \in 1 .. Len(plan) /\ a.last \in a.first .. Len(plan)
Ranges(plan)    == {a \in [first : 1 .. Len(plan), last : 1 .. Len(plan)] : a.first <= a.last}
Whole(plan)     == [first |-> 1, last |-> Len(plan)]

textForAnchor(plan, a) == IF InPlan(plan, a) THEN SubSeq(plan, a.first, a.last) ELSE NoText

(* The one place where text stands in plan as whole lines, if it is one. *)
uniqueAnchorForText(plan, text) ==
    LET places == {a \in Ranges(plan) : textForAnchor(plan, a) = text}
    IN  IF Cardinality(places) = 1 THEN CHOOSE a \in places : TRUE ELSE NoAnchor

anchorsOverlap(a, b) == a.first <= b.last /\ b.first <= a.last

smaller(a, b) == IF a < b THEN a ELSE b
larger(a, b)  == IF a < b THEN b ELSE a

clampedLineAnchor(a, plan) ==
    LET first == smaller(larger(a.first, 1), Len(plan))
    IN  [first |-> first, last |-> smaller(larger(a.last, first), Len(plan))]

shiftAnchor(a, delta) ==
    LET first == larger(a.first + delta, 1)
    IN  [first |-> first, last |-> larger(a.last + delta, first)]

(* An included answer goes private with its comment (normalizeAnswerDelivery,*)
(* makeAnswersPrivateForThread).                                             *)
Silenced(t)      == [t EXCEPT !.answer = IF @ = "included" THEN "private" ELSE @]
DetachThread_KeepsAnswer(t) == [t EXCEPT !.status = "detached", !.anchor = NoAnchor]
DetachThread(t)  == [Silenced(t) EXCEPT !.status = "detached", !.anchor = NoAnchor]
resolveThread(t) == [Silenced(t) EXCEPT !.status = "addressed", !.anchor = NoAnchor, !.text = NoText]

-----------------------------------------------------------------------------
(* Saving: persistLocked validates the session; a refusal restores the copy *)
(* the handler took.                                                        *)

Valid(s) ==
    /\ \A i \in DOMAIN s.threads :
          /\ Active(s.threads[i]) => InPlan(Plan(s), s.threads[i].anchor)
          /\ s.threads[i].answer = "included" => Active(s.threads[i])
    /\ s.pending.id # 0 =>
          /\ ~s.pending.obsolete => s.pending.parent = Current(s)
          /\ s.pending.included \subseteq DOMAIN s.threads
          /\ \A i \in s.pending.consumed : i \in DOMAIN s.threads /\ s.threads[i].answer # "none"

Save_Unvalidated(next) == session' = next /\ refused' = FALSE

Save(next) ==
    /\ session' = IF Valid(next) THEN next ELSE session
    /\ refused' = ~Valid(next)

Mutate(next) == Save(next) /\ UNCHANGED <<finished, delivered>>

AddRevision(s, plan, consumed) ==
    [s EXCEPT !.plans = Append(@, plan), !.feedback = Append(@, consumed)]

-----------------------------------------------------------------------------
(* A new document under the comments: an edit of the plan file, a restored  *)
(* revision.                                                                *)

reconcileActiveThreadAnchors_KeepsAmbiguous(s, previous, next) ==
    [i \in DOMAIN s.threads |->
        LET t == s.threads[i]
            selected == IF t.text = NoText THEN textForAnchor(previous, t.anchor) ELSE t.text
            places == {a \in Ranges(next) : textForAnchor(next, a) = selected}
        IN  IF t.home # Revision(Current(s)) \/ ~Active(t) \/ Cardinality(places) > 1 THEN t
            ELSE IF places = {} THEN DetachThread(t)
            ELSE [t EXCEPT !.anchor = CHOOSE a \in places : TRUE]]

reconcileActiveThreadAnchors(s, previous, next) ==
    [i \in DOMAIN s.threads |->
        LET t == s.threads[i]
            known == IF t.text = NoText THEN Plan(s) = previous
                                        ELSE textForAnchor(previous, t.anchor) = t.text
            selected == IF t.text = NoText THEN textForAnchor(previous, t.anchor) ELSE t.text
            place == uniqueAnchorForText(next, selected)
        IN  IF t.home # Revision(Current(s)) \/ ~Active(t) THEN t
            ELSE IF ~known \/ place = NoAnchor THEN DetachThread(t)
            ELSE [t EXCEPT !.anchor = place]]

(* The plan file changed: the handler that notices it records the revision *)
(* and answers 409.                                                        *)
syncExternalSource(text) ==
    /\ ~finished
    /\ text # session.source
    /\ Current(session) < MaxRevision
    /\ Mutate([AddRevision(session, text, {}) EXCEPT
                 !.threads = reconcileActiveThreadAnchors(session, session.source, text),
                 !.pending.obsolete = session.pending.id # 0,
                 !.source = text])

RestoreRevision(r) ==
    /\ ~finished
    /\ session.pending.id = 0
    /\ Current(session) < MaxRevision
    /\ Mutate([AddRevision(session, session.plans[r], {}) EXCEPT
                 !.threads = reconcileActiveThreadAnchors(session, Plan(session), session.plans[r])])

-----------------------------------------------------------------------------
(* Comments. *)

With(f, i, v)   == [j \in DOMAIN f \union {i} |-> IF j = i THEN v ELSE f[j]]
Without(f, set) == [j \in DOMAIN f \ set |-> f[j]]

Pending      == session.pending.id # 0
OnProposal(i) == Pending /\ session.threads[i].home = Proposal(session.pending.id)

Unlocked_Always(i) == TRUE

(* rejectLockedThreadMutation: while a proposal is pending only comments on *)
(* it change.  (On an obsolete one the refusal itself never returns, see    *)
(* ReviewIteration: no handler completes.)                                  *)
Unlocked(i) == ~Pending \/ OnProposal(i)

(* The document a new or edited comment is placed in. *)
TargetPlan(onProposal) == IF onProposal THEN session.pending.plan ELSE Plan(session)

(* What the browser sends along: the selected text, or nothing. *)
SelectedTexts(plan, a) == {textForAnchor(plan, a), NoText}

AddThread(s, home, anchor, text, intent) ==
    [s EXCEPT !.nextThread = @ + 1,
              !.threads = With(@, s.nextThread + 1,
                               [home |-> home, born |-> Current(s), anchor |-> anchor, text |-> text,
                                intent |-> intent, status |-> "active", answer |-> "none"])]

handleCreateThread(intent) ==
    LET plan == TargetPlan(Pending)
        home == IF Pending THEN Proposal(session.pending.id) ELSE Revision(Current(session))
    IN  /\ ~finished /\ ~session.pending.obsolete
        /\ session.nextThread < MaxThread
        /\ \E a \in Ranges(plan) : \E text \in SelectedTexts(plan, a) :
              Mutate(AddThread(session, home, a, text, intent))

handleCreateFollowUp(i) ==
    /\ ~finished /\ ~Pending
    /\ session.threads[i].status = "addressed"
    /\ session.nextThread < MaxThread + MaxFollowUp
    /\ \E a \in Ranges(Plan(session)) :
          Mutate(AddThread(session, Revision(Current(session)), a, NoText, session.threads[i].intent))

handleDeleteThread(i) ==
    /\ ~finished /\ Unlocked(i)
    /\ Mutate([session EXCEPT !.threads = Without(@, {i})])

(* The selected text stays what it was. *)
handleReanchorThread_EvenAddressed(i) ==
    /\ ~finished /\ ~Pending
    /\ \E a \in Ranges(Plan(session)) :
          Mutate([session EXCEPT !.threads[i].anchor = a, !.threads[i].status = "active"])

handleReanchorThread(i) ==
    /\ ~finished /\ ~Pending
    /\ session.threads[i].status # "addressed"
    /\ \E a \in Ranges(Plan(session)) :
          Mutate([session EXCEPT !.threads[i].anchor = a, !.threads[i].status = "active"])

handleEditThread(i) ==
    LET plan == TargetPlan(OnProposal(i))
    IN  /\ ~finished /\ Unlocked(i)
        /\ session.threads[i].status # "addressed"
        /\ \E a \in Ranges(plan) : \E text \in SelectedTexts(plan, a) :
              Mutate([session EXCEPT !.threads[i].anchor = a, !.threads[i].text = text,
                                     !.threads[i].status = "active"])

handleThreadIntent(i, intent) ==
    /\ ~finished /\ Unlocked(i)
    /\ Active(session.threads[i])
    /\ Mutate([session EXCEPT !.threads[i].intent = intent])

(* RecordDetachedThreadAddressed: the reviewer says which revision did it. *)
handleMarkThreadAddressed(i, r) ==
    /\ ~finished /\ ~Pending
    /\ session.threads[i].status = "detached"
    /\ r > 1 /\ r > session.threads[i].born
    /\ i \notin session.feedback[r]
    /\ Mutate([session EXCEPT !.feedback[r] = @ \union {i}, !.threads[i] = resolveThread(@)])

(* One side answer per comment is enough: a second one behaves like it. *)
handleSideQuestion(i) ==
    /\ ~finished /\ ~Pending
    /\ i <= MaxAnswered
    /\ Active(session.threads[i]) /\ session.threads[i].answer = "none"
    /\ Mutate([session EXCEPT !.threads[i].answer = "private"])

handlePromoteSideAnswer(i) ==
    /\ ~finished /\ ~Pending
    /\ Active(session.threads[i]) /\ session.threads[i].answer = "private"
    /\ Mutate([session EXCEPT !.threads[i].answer = "included"])

handleUnpromoteSideAnswer(i) ==
    /\ ~finished /\ ~Pending
    /\ session.threads[i].answer = "included"
    /\ Mutate([session EXCEPT !.threads[i].answer = "private"])

-----------------------------------------------------------------------------
(* Proposals.  `explicit` is the comment of "Iterate now", 0 for none.      *)

(* SelectContext: the comments an agent is asked to carry out. *)
Selected(home, scope, explicit) ==
    {i \in DOMAIN session.threads :
        LET t == session.threads[i]
        IN  /\ Active(t) /\ t.home = home
            /\ i = explicit \/ (t.intent = "instruction" /\ anchorsOverlap(t.anchor, scope))}

SelectedAnswers(scope, explicit) ==
    {i \in DOMAIN session.threads :
        LET t == session.threads[i]
        IN  /\ Active(t) /\ t.answer = "included"
            /\ i = explicit \/ anchorsOverlap(t.anchor, scope)}

Everywhere == [first |-> 0, last |-> MaxLength + Len(Plan(session))]

Splice(doc, h) == SubSeq(doc, 1, h.first - 1) \o h.new \o SubSeq(doc, h.last + 1, Len(doc))

(* patches.Apply: hunks replace their lines from the last one up. *)
ApplyHunks(plan, hunks) ==
    LET doc[i \in 1 .. Len(hunks) + 1] ==    \* the hunks from i on are spliced
            IF i > Len(hunks) THEN plan ELSE Splice(doc[i + 1], hunks[i])
    IN  doc[1]

(* patches.Resolve: hunks inside the document, sorted and apart. *)
InOrder(plan, hunks) ==
    /\ \A i \in 1 .. Len(hunks) : InPlan(plan, hunks[i])
    /\ \A i \in 1 .. Len(hunks) - 1 : hunks[i].last < hunks[i + 1].first

Resolved(plan) ==
    {hunks \in Patches :
        /\ InOrder(plan, hunks)
        /\ ApplyHunks(plan, hunks) \in Documents
        /\ Len(ApplyHunks(plan, hunks)) <= MaxLength}

(* BuildProposal: the hunk that meets the selection counts as the applied one. *)
primaryResolvedHunk(hunks, anchor) ==
    LET meeting == {i \in 1 .. Len(hunks) : anchorsOverlap(hunks[i], anchor)}
        primary == hunks[IF meeting = {} THEN 1 ELSE CHOOSE i \in meeting : \A j \in meeting : i <= j]
    IN  [first |-> primary.first, last |-> primary.last]

(* Iterate now on a selection, or on the final review: no proposal pending. *)
CreateProposal(kind, anchor, explicit, hunks) ==
    LET scope == IF kind = "review" THEN Everywhere ELSE anchor
        shown == Selected(Revision(Current(session)), anchor, explicit)
    IN  Mutate([session EXCEPT
          !.nextProposal = @ + 1,
          !.pending = [id |-> session.nextProposal + 1, kind |-> kind, parent |-> Current(session),
                       plan |-> ApplyHunks(Plan(session), hunks), anchor |-> anchor,
                       applied |-> primaryResolvedHunk(hunks, anchor), hunks |-> hunks,
                       included |-> shown, consumed |-> SelectedAnswers(scope, explicit),
                       obsolete |-> FALSE]])

proposeSection(explicit) ==
    /\ ~finished /\ ~Pending
    /\ session.nextProposal < MaxProposal
    /\ explicit # 0 => Active(session.threads[explicit])
    /\ \E anchor \in Ranges(Plan(session)), hunks \in Resolved(Plan(session)) :
          CreateProposal("section", anchor, explicit, hunks)

proposeReview ==
    /\ ~finished /\ ~Pending
    /\ session.nextProposal < MaxProposal
    /\ \E hunks \in Resolved(Plan(session)) : CreateProposal("review", Whole(Plan(session)), 0, hunks)

(* RetargetProposalThreads: comments on the refined proposal move to the new *)
(* one; its instructions are addressed by it.                                *)
RetargetProposalThreads(next) ==
    [i \in DOMAIN session.threads |->
        LET t == session.threads[i]
            selected == IF t.text = NoText THEN textForAnchor(session.pending.plan, t.anchor) ELSE t.text
            place == uniqueAnchorForText(next, selected)
            moved == IF place # NoAnchor
                     THEN [t EXCEPT !.home = Proposal(session.nextProposal + 1), !.anchor = place]
                     ELSE [t EXCEPT !.home = Proposal(session.nextProposal + 1), !.text = NoText,
                                    !.anchor = clampedLineAnchor(t.anchor, next)]
        IN  IF ~OnProposal(i) THEN t
            ELSE IF ~Active(t) THEN [t EXCEPT !.home = Proposal(session.nextProposal + 1)]
            ELSE IF t.intent = "instruction" THEN resolveThread(moved)
            ELSE moved]

(* Refine: the patch is made against the pending document, so that only the *)
(* applied range of the first round is kept.                                *)
refineProposal(explicit, hunks) ==
    LET old == session.pending
        next == ApplyHunks(old.plan, hunks)
    IN  /\ ~finished /\ Pending /\ ~old.obsolete
        /\ session.nextProposal < MaxProposal
        /\ explicit # 0 => Active(session.threads[explicit])
        /\ Mutate([session EXCEPT
             !.nextProposal = @ + 1,
             !.threads = RetargetProposalThreads(next),
             !.pending = [old EXCEPT
                !.id = session.nextProposal + 1, !.plan = next, !.hunks = <<>>,
                !.included = IF @ # {} THEN @ ELSE Selected(Proposal(old.id), Everywhere, explicit),
                !.consumed = IF old.kind = "review" /\ @ # {} THEN @
                             ELSE SelectedAnswers(old.anchor, explicit)]])

DiscardProposal_KeepsItsComments ==
    /\ ~finished /\ Pending
    /\ Mutate([session EXCEPT !.pending = NoProposal])

DiscardProposal ==
    /\ ~finished /\ Pending
    /\ Mutate([session EXCEPT !.pending = NoProposal,
                              !.threads = Without(@, {i \in DOMAIN session.threads : OnProposal(i)})])

-----------------------------------------------------------------------------
(* Applying a proposal as a new revision. *)

LineDelta(h) == Len(h.new) - (h.last - h.first + 1)

(* positionAfterHunks: hunks above a line push it down or up. *)
positionAfterHunks(line, hunks) ==
    LET delta[i \in 1 .. Len(hunks) + 1] ==  \* of the hunks from i on
            IF i > Len(hunks) THEN 0
            ELSE delta[i + 1] + IF hunks[i].last < line THEN LineDelta(hunks[i]) ELSE 0
    IN  line + delta[1]

(* adjustThreadsForReviewProposal: follow the text through the whole document.*)
AdjustedForReview(i, t) ==
    LET p == session.pending
        selected == IF t.text = NoText THEN textForAnchor(Plan(session), t.anchor) ELSE t.text
        place == uniqueAnchorForText(p.plan, selected)
    IN  IF i \in p.included THEN resolveThread(t)
        ELSE IF place # NoAnchor THEN [t EXCEPT !.anchor = place]
        ELSE DetachThread(t)

(* adjustThreadsForAppliedHunks: follow the exact patch. *)
AdjustedForHunks(i, t) ==
    LET p == session.pending
        affected == \E h \in Range(p.hunks) : anchorsOverlap(t.anchor, h)
    IN  IF affected THEN IF i \in p.included THEN resolveThread(t) ELSE DetachThread(t)
        ELSE [t EXCEPT !.anchor = [first |-> positionAfterHunks(t.anchor.first, p.hunks),
                                   last  |-> positionAfterHunks(t.anchor.last, p.hunks)]]

(* adjustThreadsForAppliedProposal without hunks: one range, one difference. *)
AdjustedForRange(i, t) ==
    LET p == session.pending
    IN  IF t.anchor.last < p.applied.first THEN t
        ELSE IF t.anchor.first > p.applied.last
             THEN [t EXCEPT !.anchor = shiftAnchor(@, Len(p.plan) - Len(Plan(session)))]
        ELSE IF i \in p.included THEN resolveThread(t)
        ELSE DetachThread(t)

Adjusted(i, t) ==
    IF session.pending.kind = "review" THEN AdjustedForReview(i, t)
    ELSE IF session.pending.hunks # <<>> THEN AdjustedForHunks(i, t)
    ELSE AdjustedForRange(i, t)

(* A comment after the proposal has become the next revision.  A comment on *)
(* the proposal moves to the revision as it is, addressed if a review       *)
(* included it; consumed answers are private again.                         *)
AfterApply(i) ==
    LET p == session.pending
        t == session.threads[i]
        adopted == [t EXCEPT !.home = Revision(Current(session) + 1)]
        after == IF OnProposal(i)
                 THEN IF p.kind = "review" /\ i \in p.included /\ Active(t)
                      THEN resolveThread(adopted) ELSE adopted
                 ELSE IF Active(t) THEN Adjusted(i, t) ELSE t
    IN  IF i \in p.consumed THEN Silenced(after) ELSE after

(* feedbackForProposal: the feedback the revision answers. *)
feedbackForProposal(threads) ==
    {i \in session.pending.included \intersect DOMAIN threads : Active(threads[i])}

Applied(consumed) ==
    [AddRevision(session, session.pending.plan, consumed) EXCEPT
        !.pending = NoProposal,
        !.threads = [i \in DOMAIN session.threads |-> AfterApply(i)]]

ApplyProposal_RecordsLast ==
    /\ ~finished /\ Pending /\ ~session.pending.obsolete
    /\ session.pending.parent = Current(session)
    /\ Current(session) < MaxRevision
    /\ Mutate(Applied(feedbackForProposal(Applied({}).threads)))

ApplyProposal ==
    /\ ~finished /\ Pending /\ ~session.pending.obsolete
    /\ session.pending.parent = Current(session)
    /\ Current(session) < MaxRevision
    /\ Mutate(Applied(feedbackForProposal(session.threads)))

-----------------------------------------------------------------------------
(* The end of the review: DraftFromState writes the handoff. *)

finalize ==
    /\ ~finished /\ ~Pending
    /\ Save(session)
    /\ finished' = Valid(session)
    /\ delivered' = IF Valid(session) THEN Selected(Revision(Current(session)), Everywhere, 0)
                                      ELSE delivered

(* A later review of the plan continues the finished one. *)
Reopen ==
    /\ finished
    /\ finished' = FALSE /\ delivered' = {}
    /\ UNCHANGED <<session, refused>>

-----------------------------------------------------------------------------
CommentAction ==
    \/ \E intent \in {"instruction", "private"} : handleCreateThread(intent)
    \/ \E i \in DOMAIN session.threads :
          \/ handleCreateFollowUp(i)
          \/ handleDeleteThread(i)
          \/ handleReanchorThread(i)
          \/ handleEditThread(i)
          \/ \E intent \in {"instruction", "private"} : handleThreadIntent(i, intent)
          \/ \E r \in 1 .. Current(session) : handleMarkThreadAddressed(i, r)
          \/ handleSideQuestion(i)
          \/ handlePromoteSideAnswer(i)
          \/ handleUnpromoteSideAnswer(i)

ProposalAction ==
    \/ \E explicit \in {0} \union DOMAIN session.threads : proposeSection(explicit)
    \/ proposeReview
    \/ /\ Pending
       /\ \E explicit \in {0} \union DOMAIN session.threads, hunks \in Resolved(session.pending.plan) :
             refineProposal(explicit, hunks)
    \/ DiscardProposal
    \/ ApplyProposal

Next ==
    \/ CommentAction
    \/ ProposalAction
    \/ \E text \in Sources : syncExternalSource(text)
    \/ \E r \in 1 .. Current(session) : RestoreRevision(r)
    \/ finalize
    \/ Reopen

Spec == Init /\ [][Next]_vars

-----------------------------------------------------------------------------
TypeOK ==
    /\ session \in Sessions(DOMAIN session.threads)
    /\ session.plans # <<>> /\ Len(session.feedback) = Len(session.plans)
    /\ DOMAIN session.threads \subseteq 1 .. session.nextThread
    /\ Pending => session.pending.id <= session.nextProposal /\ session.pending.plan \in Documents
    /\ finished \in BOOLEAN /\ refused \in BOOLEAN
    /\ delivered \subseteq ThreadIds

(* Whatever is discarded, refined or applied, a comment stays on a revision *)
(* of the review or on the proposal that is pending, so that it can be seen *)
(* and worked on.                                                           *)
ThreadsHaveHome ==
    \A i \in DOMAIN session.threads :
        \/ \E r \in 1 .. Current(session) : session.threads[i].home = Revision(r)
        \/ OnProposal(i)

(* What makes a snapshot of the feedback stay true until it is applied:      *)
(* nothing detaches a comment on the pending proposal, and a comment of the  *)
(* current revision that a review proposal carries out stays active.         *)
Frozen(s) ==
    /\ s.pending.id # 0 =>
         \A i \in DOMAIN s.threads :
            s.threads[i].home = Proposal(s.pending.id) => s.threads[i].status # "detached"
    /\ s.pending.id # 0 /\ ~s.pending.obsolete /\ s.pending.kind = "review" =>
         \A i \in s.pending.included \intersect DOMAIN s.threads :
            \/ s.threads[i].home = Proposal(s.pending.id)
            \/ s.threads[i].home = Revision(Current(s)) /\ Active(s.threads[i])

OnItsText(plan, t) == t.text # NoText /\ textForAnchor(plan, t.anchor) = t.text

(* What makes applying a proposal keep comments on their text: those made on *)
(* it stand on theirs, however often it was refined, and a proposal that has *)
(* a patch is what the patch makes of the current revision.                  *)
Traced(s) ==
    s.pending.id # 0 =>
      /\ \A i \in DOMAIN s.threads :
            LET t == s.threads[i]
            IN  t.home = Proposal(s.pending.id) /\ Active(t) /\ t.text # NoText => OnItsText(s.pending.plan, t)
      /\ ~s.pending.obsolete /\ s.pending.hunks # <<>> =>
            /\ InOrder(Plan(s), s.pending.hunks)
            /\ s.pending.plan = ApplyHunks(Plan(s), s.pending.hunks)

(* What every save leaves behind. *)
IInv == TypeOK /\ Valid(session) /\ ThreadsHaveHome /\ Frozen(session) /\ Traced(session)

(* A comment that a later revision left on its old one. *)
LeftBehind(s) == \E i \in DOMAIN s.threads :
                    Active(s.threads[i]) /\ s.threads[i].home # Revision(Current(s))

(* While every active comment is on the current revision and no proposal is *)
(* pending, nothing the reviewer, the agent or an editor does leads to a    *)
(* session that cannot be saved.  (Beside a proposal Validate looks for the *)
(* lines of a comment on the proposed plan in the current one.)             *)
OnlyStraysAreRefused == refused => Pending \/ LeftBehind(session)

Edge     == Current(session') > Current(session)
Applying == Edge /\ Pending /\ session'.pending.id = 0

(* The comments whose way across the edge is known: those of the revision it *)
(* starts from and, when the proposal becomes the revision, those made on it. *)
(* A refined selection has lost its patch.                                   *)
Traceable(i) ==
    LET t == session.threads[i]
        p == session.pending
    IN  \/ Applying /\ OnProposal(i)
        \/ /\ t.home = Revision(Current(session))
           /\ Applying /\ p.kind = "section" => p.hunks # <<>> /\ OnItsText(Plan(session), t)

(* docs/storage.md: across one revision edge an anchor follows its text or  *)
(* the exact patch, and the comment detaches otherwise.                     *)
AnchorsFollowText ==
    [][Edge => \A i \in DOMAIN session.threads \intersect DOMAIN session'.threads :
                  /\ Traceable(i)
                  /\ Active(session'.threads[i]) /\ session'.threads[i].text # NoText
                  => OnItsText(Plan(session'), session'.threads[i])]_vars

(* "Pending proposals keep comments on the current revision locked"         *)
(* (PRODUCT.md), and what a proposal carries out is frozen until it is       *)
(* applied or discarded (docs/storage.md): commenting on the proposal and    *)
(* refining it change none of the other comments.                           *)
FeedbackLocked ==
    [][Pending /\ session'.pending.id # 0 /\ ~session'.pending.obsolete =>
         \A i \in DOMAIN session.threads :
            ~OnProposal(i) => /\ i \in DOMAIN session'.threads
                              /\ session'.threads[i] = session.threads[i]]_vars

(* Addressed feedback is final: no request, proposal, edit of the file or   *)
(* reopened review makes it active or detached again.                       *)
AddressedStays ==
    [][\A i \in DOMAIN session.threads \intersect DOMAIN session'.threads :
          session.threads[i].status = "addressed" => session'.threads[i].status = "addressed"]_vars

(* When a review proposal becomes a revision, everything the agent was asked *)
(* to carry out is addressed and, comments on the proposal apart, recorded   *)
(* as the feedback of that revision: the snapshot was frozen meanwhile.      *)
AcceptedFeedbackRecorded ==
    [][session.pending.kind = "review" /\ Pending /\ Current(session') > Current(session)
          /\ session'.pending.id = 0 =>
         \A i \in session.pending.included :
            /\ session'.threads[i].status = "addressed"
            /\ ~OnProposal(i) => i \in session'.feedback[Current(session')]]_vars

-----------------------------------------------------------------------------
(* What the repository says and the code does not do. *)

(* ReconcileExternalPlan works "without dropping reviewer work": an active   *)
(* instruction reaches the handoff.                                          *)
InstructionsDelivered ==
    finished => \A i \in DOMAIN session.threads :
                   Active(session.threads[i]) /\ session.threads[i].intent = "instruction"
                      => i \in delivered

(* "Never copy raw line numbers forward as proof." *)
NoRawLineNumbers ==
    [][Current(session') > Current(session) =>
         \A i \in DOMAIN session.threads \intersect DOMAIN session'.threads :
            Active(session'.threads[i]) /\ OnItsText(Plan(session), session.threads[i])
               => session'.threads[i].text = NoText \/ OnItsText(Plan(session'), session'.threads[i])]_vars

=============================================================================
