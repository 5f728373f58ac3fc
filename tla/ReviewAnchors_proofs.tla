------------------------ MODULE ReviewAnchors_proofs ------------------------
(* More about the review session, for any lines, documents, patches and    *)
(* bounds: which sessions a handler can be refused to save, and how the    *)
(* anchors of the comments follow their text into the next revision.       *)
EXTENDS ReviewSession_proofs

-----------------------------------------------------------------------------
(* Saving is refused only over strays.  A handler that runs while no        *)
(* proposal is pending makes a session of the comments of the current       *)
(* revision, and Validate accepts it.                                       *)

(* What Validate asks of one comment. *)
Acceptable(plan, t) ==
    /\ Active(t) => InPlan(plan, t.anchor)
    /\ t.answer = "included" => Active(t)

LEMMA ValidThreads ==
    ASSUME NEW s
    PROVE  /\ Valid(s) => \A i \in DOMAIN s.threads : Acceptable(Plan(s), s.threads[i])
           /\ s.pending.id = 0 /\ (\A i \in DOMAIN s.threads : Acceptable(Plan(s), s.threads[i])) => Valid(s)
  BY DEF Valid, Acceptable

LEMMA Accepted ==
    ASSUME NEW next, Mutate(next), Valid(next)
    PROVE  ~refused'
  BY DEF Mutate, Save

(* One comment changes; the feedback of a revision may change with it. *)
LEMMA ChangeAccepted ==
    ASSUME Typed(session), Valid(session), ~Pending, NEW i \in DOMAIN session.threads, NEW t,
           Acceptable(Plan(session), t), NEW next,
           next.threads = [session.threads EXCEPT ![i] = t],
           next.plans = session.plans, next.pending = session.pending
    PROVE  Valid(next)
  <1>1. DOMAIN next.threads = DOMAIN session.threads
    OBVIOUS
  <1>2. \A j \in DOMAIN session.threads : next.threads[j] = IF j = i THEN t ELSE session.threads[j]
    BY DEF Typed, Sessions
  <1>3. Plan(next) = Plan(session)
    BY DEF Plan
  <1>4. \A j \in DOMAIN next.threads : Acceptable(Plan(next), next.threads[j])
    BY <1>1, <1>2, <1>3, ValidThreads
  <1> QED BY <1>4, ValidThreads DEF Pending

LEMMA ReanchorAccepted ==
    ASSUME Typed(session), Valid(session), NEW i \in DOMAIN session.threads, handleReanchorThread(i)
    PROVE  ~refused'
  <1>1. PICK a \in Ranges(Plan(session)) :
           Mutate([session EXCEPT !.threads[i].anchor = a, !.threads[i].status = "active"])
    BY DEF handleReanchorThread
  <1> DEFINE t == [session.threads[i] EXCEPT !.anchor = a, !.status = "active"]
             next == [session EXCEPT !.threads[i].anchor = a, !.threads[i].status = "active"]
  <1>2. InPlan(Plan(session), a) /\ session.threads[i] \in Comments
    BY PlanType, RangesAreAnchors, ThreadType
  <1>3. Acceptable(Plan(session), t)
    BY <1>2 DEF Acceptable, Active, Comments
  <1>4. /\ next.threads = [session.threads EXCEPT ![i] = t]
        /\ next.plans = session.plans /\ next.pending = session.pending
    BY DEF Typed, Sessions
  <1> HIDE DEF t, next
  <1>5. Valid(next)
    BY <1>3, <1>4, ChangeAccepted DEF handleReanchorThread
  <1> QED BY <1>1, <1>5, Accepted DEF next

LEMMA EditAccepted ==
    ASSUME Typed(session), Valid(session), ~Pending, NEW i \in DOMAIN session.threads, handleEditThread(i)
    PROVE  ~refused'
  <1>0. PICK a \in Ranges(Plan(session)) : \E text :
           Mutate([session EXCEPT !.threads[i].anchor = a, !.threads[i].text = text,
                                  !.threads[i].status = "active"])
    BY DEF handleEditThread, TargetPlan, OnProposal
  <1>1. PICK text : Mutate([session EXCEPT !.threads[i].anchor = a, !.threads[i].text = text,
                                           !.threads[i].status = "active"])
    BY <1>0
  <1> DEFINE t == [session.threads[i] EXCEPT !.anchor = a, !.text = text, !.status = "active"]
             next == [session EXCEPT !.threads[i].anchor = a, !.threads[i].text = text,
                                     !.threads[i].status = "active"]
  <1>2. InPlan(Plan(session), a) /\ session.threads[i] \in Comments
    BY PlanType, RangesAreAnchors, ThreadType
  <1>3. Acceptable(Plan(session), t)
    BY <1>2 DEF Acceptable, Active, Comments
  <1>4. /\ next.threads = [session.threads EXCEPT ![i] = t]
        /\ next.plans = session.plans /\ next.pending = session.pending
    BY DEF Typed, Sessions
  <1> HIDE DEF t, next
  <1>5. Valid(next)
    BY <1>3, <1>4, ChangeAccepted
  <1> QED BY <1>1, <1>5, Accepted DEF next

LEMMA IntentAccepted ==
    ASSUME Typed(session), Valid(session), ~Pending, NEW i \in DOMAIN session.threads, NEW intent,
           handleThreadIntent(i, intent)
    PROVE  ~refused'
  <1> DEFINE t == [session.threads[i] EXCEPT !.intent = intent]
             next == [session EXCEPT !.threads[i].intent = intent]
  <1>1. session.threads[i] \in Comments /\ Acceptable(Plan(session), session.threads[i])
    BY ThreadType, ValidThreads
  <1>2. Acceptable(Plan(session), t)
    BY <1>1 DEF Acceptable, Active, Comments
  <1>3. /\ next.threads = [session.threads EXCEPT ![i] = t]
        /\ next.plans = session.plans /\ next.pending = session.pending
    BY DEF Typed, Sessions
  <1> HIDE DEF t
  <1>4. Valid(next)
    <2> HIDE DEF next
    <2> QED BY <1>2, <1>3, ChangeAccepted
  <1> QED BY <1>4, Accepted DEF handleThreadIntent

(* An answer is included only while its comment is active. *)
LEMMA AnswerAccepted ==
    ASSUME Typed(session), Valid(session), NEW i \in DOMAIN session.threads,
           handleSideQuestion(i) \/ handlePromoteSideAnswer(i) \/ handleUnpromoteSideAnswer(i)
    PROVE  ~refused'
  <1>1. session.threads[i] \in Comments /\ Acceptable(Plan(session), session.threads[i])
    BY ThreadType, ValidThreads
  <1>2. PICK answer \in {"private", "included"} :
           /\ Mutate([session EXCEPT !.threads[i].answer = answer])
           /\ Active(session.threads[i])
    BY <1>1 DEF handleSideQuestion, handlePromoteSideAnswer, handleUnpromoteSideAnswer, Acceptable
  <1> DEFINE t == [session.threads[i] EXCEPT !.answer = answer]
             next == [session EXCEPT !.threads[i].answer = answer]
  <1>3. Acceptable(Plan(session), t)
    BY <1>1, <1>2 DEF Acceptable, Active, Comments
  <1>4. /\ next.threads = [session.threads EXCEPT ![i] = t]
        /\ next.plans = session.plans /\ next.pending = session.pending
    BY DEF Typed, Sessions
  <1> HIDE DEF t
  <1>5. Valid(next)
    <2> HIDE DEF next
    <2> QED BY <1>3, <1>4, ChangeAccepted
            DEF handleSideQuestion, handlePromoteSideAnswer, handleUnpromoteSideAnswer
  <1> QED BY <1>2, <1>5, Accepted

(* A comment that is detached or addressed is acceptable anywhere. *)
LEMMA InactiveAcceptable ==
    ASSUME NEW t \in Comments, NEW plan
    PROVE  Acceptable(plan, DetachThread(t)) /\ Acceptable(plan, resolveThread(t))
  BY DEF Acceptable, Active, DetachThread, resolveThread, Silenced, Comments

LEMMA MarkAccepted ==
    ASSUME Typed(session), Valid(session), NEW i \in DOMAIN session.threads,
           NEW r \in 1 .. Current(session), handleMarkThreadAddressed(i, r)
    PROVE  ~refused'
  <1> DEFINE t    == resolveThread(session.threads[i])
             next == [session EXCEPT !.feedback[r] = @ \union {i}, !.threads[i] = resolveThread(@)]
  <1>1. Acceptable(Plan(session), t)
    BY ThreadType, InactiveAcceptable
  <1>2. /\ next.threads = [session.threads EXCEPT ![i] = t]
        /\ next.plans = session.plans /\ next.pending = session.pending
    BY DEF Typed, Sessions
  <1> HIDE DEF t
  <1>3. Valid(next)
    <2> HIDE DEF next
    <2> QED BY <1>1, <1>2, ChangeAccepted DEF handleMarkThreadAddressed
  <1> QED BY <1>3, Accepted DEF handleMarkThreadAddressed

LEMMA AddThreadAccepted ==
    ASSUME Typed(session), Valid(session), ~Pending, NEW home, NEW a \in Ranges(Plan(session)), NEW text, NEW intent
    PROVE  Valid(AddThread(session, home, a, text, intent))
  <1> DEFINE next == AddThread(session, home, a, text, intent)
             n == session.nextThread + 1
             t == [home |-> home, born |-> Current(session), anchor |-> a, text |-> text,
                   intent |-> intent, status |-> "active", answer |-> "none"]
  <1>1. Acceptable(Plan(session), t)
    BY PlanType, RangesAreAnchors DEF Acceptable, Active
  <1>2. /\ next.threads = With(session.threads, n, t)
        /\ next.plans = session.plans /\ next.pending = session.pending
    BY DEF Typed, Sessions, AddThread
  <1>3. \A j \in DOMAIN next.threads : next.threads[j] = t \/ (j \in DOMAIN session.threads /\ next.threads[j] = session.threads[j])
    BY <1>2 DEF With
  <1> HIDE DEF next, t
  <1>4. Plan(next) = Plan(session)
    BY <1>2 DEF Plan
  <1>5. \A j \in DOMAIN next.threads : Acceptable(Plan(next), next.threads[j])
    BY <1>1, <1>3, <1>4, ValidThreads
  <1> QED BY <1>2, <1>5, ValidThreads DEF Pending, next

LEMMA CreateAccepted ==
    ASSUME Typed(session), Valid(session), ~Pending,
           (\E intent : handleCreateThread(intent)) \/ (\E i \in DOMAIN session.threads : handleCreateFollowUp(i))
    PROVE  ~refused'
  <1>1. \E a \in Ranges(Plan(session)) : \E home, text, intent :
           Mutate(AddThread(session, home, a, text, intent))
    BY DEF handleCreateThread, handleCreateFollowUp, TargetPlan
  <1> QED BY <1>1, AddThreadAccepted, Accepted

LEMMA DeleteAccepted ==
    ASSUME Typed(session), Valid(session), ~Pending, NEW i \in DOMAIN session.threads, handleDeleteThread(i)
    PROVE  ~refused'
  <1> DEFINE next == [session EXCEPT !.threads = Without(@, {i})]
  <1>1. /\ next.threads = Without(session.threads, {i})
        /\ next.plans = session.plans /\ next.pending = session.pending
    BY DEF Typed, Sessions
  <1>2. Plan(next) = Plan(session)
    BY <1>1 DEF Plan
  <1>3. \A j \in DOMAIN next.threads : Acceptable(Plan(next), next.threads[j])
    BY <1>1, <1>2, ValidThreads DEF Without
  <1>4. Valid(next)
    BY <1>1, <1>3, ValidThreads DEF Pending
  <1> QED BY <1>4, Accepted DEF handleDeleteThread

-----------------------------------------------------------------------------
(* A new document: every comment of the current revision is placed in it or *)
(* detached, and there are no others.                                       *)

LEMMA ReconciledAcceptable ==
    ASSUME Typed(session), ~LeftBehind(session), Valid(session), NEW previous, NEW next \in Seq(Lines),
           NEW i \in DOMAIN session.threads
    PROVE  Acceptable(next, reconcileActiveThreadAnchors(session, previous, next)[i])
  <1> DEFINE t == session.threads[i]
             known == IF t.text = NoText THEN Plan(session) = previous
                                         ELSE textForAnchor(previous, t.anchor) = t.text
             selected == IF t.text = NoText THEN textForAnchor(previous, t.anchor) ELSE t.text
             place == uniqueAnchorForText(next, selected)
             result == reconcileActiveThreadAnchors(session, previous, next)[i]
  <1>1. t \in Comments /\ Acceptable(Plan(session), t)
    BY ThreadType, ValidThreads
  <1>2. result = IF t.home # Revision(Current(session)) \/ ~Active(t) THEN t
                 ELSE IF ~known \/ place = NoAnchor THEN DetachThread(t)
                 ELSE [t EXCEPT !.anchor = place]
    BY DEF reconcileActiveThreadAnchors
  <1>3. Active(t) => t.home = Revision(Current(session))
    BY DEF LeftBehind
  <1>4. place # NoAnchor => InPlan(next, place)
    BY PlaceFound
  <1> HIDE DEF t, known, place, result
  <1>5. Acceptable(next, result)
    <2>1. CASE ~Active(t)
      BY <1>1, <1>2, <2>1 DEF Acceptable
    <2>2. CASE Active(t) /\ (~known \/ place = NoAnchor)
      BY <1>1, <1>2, <1>3, <2>2, InactiveAcceptable
    <2>3. CASE Active(t) /\ known /\ place # NoAnchor
      <3>1. result = [t EXCEPT !.anchor = place]
        BY <1>2, <1>3, <2>3
      <3>2. result.anchor = place /\ result.status = t.status
        BY <1>1, <3>1 DEF Comments
      <3> QED BY <1>4, <2>3, <3>2 DEF Acceptable, Active
    <2> QED BY <2>1, <2>2, <2>3
  <1> QED BY <1>5 DEF result

LEMMA EdgeAccepted ==
    ASSUME Typed(session), Valid(session), ~Pending, ~LeftBehind(session), NEW previous, NEW plan \in Documents,
           NEW next, next.plans = Append(session.plans, plan), next.pending.id = 0,
           next.threads = reconcileActiveThreadAnchors(session, previous, plan)
    PROVE  Valid(next)
  <1>1. Plan(next) = plan
    <2>1. session.plans \in Seq(Documents)
      BY DEF Typed, Sessions
    <2> QED BY <2>1, AppendProperties DEF Plan
  <1>2. DOMAIN next.threads = DOMAIN session.threads
    BY DEF reconcileActiveThreadAnchors
  <1>3. plan \in Seq(Lines)
    BY DEF Documents
  <1> QED BY <1>1, <1>2, <1>3, ReconciledAcceptable, ValidThreads

LEMMA SyncAccepted ==
    ASSUME Typed(session), Valid(session), ~Pending, ~LeftBehind(session), NEW text \in Sources,
           syncExternalSource(text)
    PROVE  ~refused'
  <1> DEFINE next == [AddRevision(session, text, {}) EXCEPT
                         !.threads = reconcileActiveThreadAnchors(session, session.source, text),
                         !.pending.obsolete = session.pending.id # 0,
                         !.source = text]
  <1>1. /\ next.plans = Append(session.plans, text)
        /\ next.threads = reconcileActiveThreadAnchors(session, session.source, text)
        /\ next.pending = [session.pending EXCEPT !.obsolete = session.pending.id # 0]
    BY DEF AddRevision, Typed, Sessions
  <1>2. next.pending.id = 0
    BY <1>1 DEF Typed, Sessions, Proposals, Pending
  <1>3. text \in Documents
    BY DocumentAssumption
  <1>4. Valid(next)
    <2> HIDE DEF next
    <2> QED BY <1>1, <1>2, <1>3, EdgeAccepted
  <1> QED BY <1>4, Accepted DEF syncExternalSource

LEMMA RestoreAccepted ==
    ASSUME Typed(session), Valid(session), ~LeftBehind(session), NEW r \in 1 .. Current(session),
           RestoreRevision(r)
    PROVE  ~refused'
  <1> DEFINE next == [AddRevision(session, session.plans[r], {}) EXCEPT
                         !.threads = reconcileActiveThreadAnchors(session, Plan(session), session.plans[r])]
  <1>1. /\ next.plans = Append(session.plans, session.plans[r])
        /\ next.threads = reconcileActiveThreadAnchors(session, Plan(session), session.plans[r])
        /\ next.pending = session.pending
    BY DEF AddRevision, Typed, Sessions
  <1>2. session.plans[r] \in Documents /\ ~Pending
    BY PlanType DEF RestoreRevision, Pending
  <1>3. Valid(next)
    <2> HIDE DEF next
    <2> QED BY <1>1, <1>2, EdgeAccepted DEF Pending
  <1> QED BY <1>3, Accepted DEF RestoreRevision

-----------------------------------------------------------------------------
(* A new proposal is for the current revision and only takes answers that   *)
(* were given.                                                              *)

LEMMA ProposeAccepted ==
    ASSUME Typed(session), Valid(session), ~Pending, NEW kind, NEW anchor, NEW explicit, NEW hunks,
           CreateProposal(kind, anchor, explicit, hunks)
    PROVE  ~refused'
  <1> DEFINE scope == IF kind = "review" THEN Everywhere ELSE anchor
             p == [id |-> session.nextProposal + 1, kind |-> kind, parent |-> Current(session),
                   plan |-> ApplyHunks(Plan(session), hunks), anchor |-> anchor,
                   applied |-> primaryResolvedHunk(hunks, anchor), hunks |-> hunks,
                   included |-> Selected(Revision(Current(session)), anchor, explicit),
                   consumed |-> SelectedAnswers(scope, explicit), obsolete |-> FALSE]
             next == [session EXCEPT !.nextProposal = @ + 1, !.pending = p]
  <1>1. next.threads = session.threads /\ next.plans = session.plans /\ next.pending = p
    BY DEF Typed, Sessions
  <1>2. Plan(next) = Plan(session) /\ Current(next) = Current(session)
    BY <1>1 DEF Plan, Current
  <1>3. p.parent = Current(session) /\ p.included \subseteq DOMAIN session.threads
    BY DEF Selected
  <1>4. \A i \in p.consumed : i \in DOMAIN session.threads /\ session.threads[i].answer # "none"
    BY DEF SelectedAnswers
  <1>5. Mutate(next)
    BY DEF CreateProposal
  <1> HIDE DEF p, next
  <1>6. Valid(next)
    BY <1>1, <1>2, <1>3, <1>4 DEF Valid
  <1> QED BY <1>5, <1>6, Accepted

-----------------------------------------------------------------------------
LEMMA CommentAccepted ==
    ASSUME Typed(session), Valid(session), ~Pending, CommentAction
    PROVE  ~refused'
  <1>1. ASSUME NEW i \in DOMAIN session.threads,
               \/ handleDeleteThread(i) \/ handleReanchorThread(i) \/ handleEditThread(i)
               \/ \E intent \in {"instruction", "private"} : handleThreadIntent(i, intent)
               \/ \E r \in 1 .. Current(session) : handleMarkThreadAddressed(i, r)
               \/ handleSideQuestion(i) \/ handlePromoteSideAnswer(i) \/ handleUnpromoteSideAnswer(i)
        PROVE  ~refused'
    BY <1>1, DeleteAccepted, ReanchorAccepted, EditAccepted, IntentAccepted, MarkAccepted, AnswerAccepted
  <1> QED BY <1>1, CreateAccepted DEF CommentAction

(* A handler that was refused left the session as it was. *)
LEMMA RefusedChangesNothing ==
    ASSUME Next, ~Reopen, refused'
    PROVE  session' = session
  <1>1. ASSUME NEW next, Mutate(next) PROVE session' = session
    BY <1>1 DEF Mutate, Save
  <1>2. CASE CommentAction
    BY ZenonT(40), <1>1, <1>2 DEF CommentAction, handleCreateThread, handleCreateFollowUp, handleDeleteThread,
                  handleReanchorThread, handleEditThread, handleThreadIntent, handleMarkThreadAddressed,
                  handleSideQuestion, handlePromoteSideAnswer, handleUnpromoteSideAnswer
  <1>3. CASE ProposalAction
    BY <1>1, <1>3 DEF ProposalAction, proposeSection, proposeReview, CreateProposal, refineProposal,
                  DiscardProposal, ApplyProposal
  <1>4. ASSUME NEW text, syncExternalSource(text) PROVE session' = session
    BY <1>1, <1>4 DEF syncExternalSource
  <1>5. ASSUME NEW r, RestoreRevision(r) PROVE session' = session
    BY <1>1, <1>5 DEF RestoreRevision
  <1>6. CASE finalize
    BY <1>6 DEF finalize, Save
  <1> QED BY <1>2, <1>3, <1>4, <1>5, <1>6 DEF Next

LEMMA QuietAccepted ==
    ASSUME Typed(session), Valid(session), ~Pending, ~LeftBehind(session), Next, ~Reopen
    PROVE  ~refused'
  <1>1. CASE CommentAction
    BY <1>1, CommentAccepted
  <1>2. CASE ProposalAction
    BY <1>2, ProposeAccepted DEF ProposalAction, proposeSection, proposeReview, DiscardProposal, ApplyProposal
  <1>3. ASSUME NEW text \in Sources, syncExternalSource(text) PROVE ~refused'
    BY <1>3, SyncAccepted
  <1>4. ASSUME NEW r \in 1 .. Current(session), RestoreRevision(r) PROVE ~refused'
    BY <1>4, RestoreAccepted
  <1>5. CASE finalize
    BY <1>5 DEF finalize, Save
  <1> QED BY <1>1, <1>2, <1>3, <1>4, <1>5 DEF Next

(* While every active comment is on the current revision and no proposal is  *)
(* pending, no request, agent or edit of the plan file makes a session that   *)
(* Validate refuses: the comments that save was refused over are strays.      *)
THEOREM RefusalsAreStrays == Spec => []OnlyStraysAreRefused
  <1>1. Init => OnlyStraysAreRefused
    BY DEF Init, OnlyStraysAreRefused
  <1>2. ASSUME Inv, OnlyStraysAreRefused, [Next]_vars PROVE OnlyStraysAreRefused'
    <2>1. CASE session' = session /\ refused' = refused
      BY <1>2, <2>1 DEF OnlyStraysAreRefused, Pending, LeftBehind
    <2>2. CASE Next /\ ~Reopen
      <3>1. CASE ~refused'
        BY <3>1 DEF OnlyStraysAreRefused
      <3>2. CASE refused'
        <4>1. session' = session
          BY <2>2, <3>2, RefusedChangesNothing
        <4>2. Pending \/ LeftBehind(session)
          BY <1>2, <2>2, <3>2, SessionInvariants, QuietAccepted DEF Inv
        <4> QED BY <4>1, <4>2 DEF OnlyStraysAreRefused, Pending, LeftBehind
      <3> QED BY <3>1, <3>2
    <2> QED BY <1>2, <2>1, <2>2 DEF vars, Reopen
  <1> QED BY <1>1, <1>2, Invariant, PTL DEF Spec

-----------------------------------------------------------------------------
(* Counting up, and counting down from the end of a sequence. *)

LEMMA CountUp ==
    ASSUME NEW S, 0 \in S, \A n \in Nat : n \in S => n + 1 \in S
    PROVE  Nat \subseteq S
  <1> DEFINE missing == Nat \ S
  <1> SUFFICES ASSUME missing # {} PROVE FALSE
    OBVIOUS
  <1>1. PICK n \in missing : \A m \in missing : ~ (<<m, n>> \in OpToRel(<, Nat))
    <2>1. missing \subseteq Nat
      OBVIOUS
    <2> HIDE DEF missing
    <2> QED BY <2>1, NatLessThanWellFounded, WFMin
  <1>2. \A m \in missing : ~ (m < n)
    BY <1>1 DEF OpToRel
  <1>3. n \in Nat /\ n # 0 /\ n - 1 \in Nat /\ (n - 1) + 1 = n /\ n - 1 < n
    OBVIOUS
  <1>4. n - 1 \in S
    BY <1>2, <1>3
  <1>5. n \in S
    BY <1>3, <1>4
  <1> QED BY <1>5

LEMMA CountDown ==
    ASSUME NEW n \in Nat, NEW S, n + 1 \in S, \A i \in 1 .. n : i + 1 \in S => i \in S
    PROVE  1 .. n + 1 \subseteq S
  <1> DEFINE T == {k \in Nat : k <= n => n + 1 - k \in S}
  <1>1. 0 \in T
    OBVIOUS
  <1>2. ASSUME NEW k \in Nat, k \in T PROVE k + 1 \in T
    <2>1. CASE k + 1 <= n
      <3>1. n + 1 - k \in S /\ n - k \in 1 .. n /\ (n - k) + 1 = n + 1 - k
        BY <1>2, <2>1
      <3>2. n - k \in S
        BY <3>1
      <3> QED BY <3>2, n + 1 - (k + 1) = n - k
    <2> QED BY <2>1
  <1>3. Nat \subseteq T
    <2> HIDE DEF T
    <2> QED BY <1>1, <1>2, CountUp
  <1>4. ASSUME NEW i \in 1 .. n + 1 PROVE i \in S
    <2>1. n + 1 - i \in Nat /\ n + 1 - i <= n /\ n + 1 - (n + 1 - i) = i
      OBVIOUS
    <2> QED BY <1>3, <2>1
  <1> QED BY <1>4

-----------------------------------------------------------------------------
(* The two recursive functions of the hunks are what their equations say. *)

PatchedFrom(plan, hunks) ==
    CHOOSE doc : doc = [i \in 1 .. Len(hunks) + 1 |->
                          IF i > Len(hunks) THEN plan ELSE Splice(doc[i + 1], hunks[i])]

DeltaFrom(line, hunks) ==
    CHOOSE delta : delta = [i \in 1 .. Len(hunks) + 1 |->
                              IF i > Len(hunks) THEN 0
                              ELSE delta[i + 1] + IF hunks[i].last < line THEN LineDelta(hunks[i]) ELSE 0]

LEMMA HunkFunctions ==
    ASSUME NEW plan, NEW hunks, NEW line
    PROVE  /\ ApplyHunks(plan, hunks) = PatchedFrom(plan, hunks)[1]
           /\ positionAfterHunks(line, hunks) = line + DeltaFrom(line, hunks)[1]
  BY DEF ApplyHunks, positionAfterHunks, PatchedFrom, DeltaFrom

(* Hunks of lines, and of any other items. *)
HunksOf(Items) == [first : Nat, last : Nat, new : Seq(Items)]

LEMMA HunksOfLines == Hunks = HunksOf(Lines)
  BY DEF Hunks, HunksOf

LEMMA PatchedEquations ==
    ASSUME NEW plan, NEW Items, NEW hunks \in Seq(Items)
    PROVE  LET doc == PatchedFrom(plan, hunks)
           IN  /\ doc[Len(hunks) + 1] = plan
               /\ \A i \in 1 .. Len(hunks) : doc[i] = Splice(doc[i + 1], hunks[i])
  <1> DEFINE n == Len(hunks)
             Good(k, f) == f = [i \in k .. n + 1 |-> IF i > n THEN plan ELSE Splice(f[i + 1], hunks[i])]
             S == {k \in 1 .. n + 1 : \E f : Good(k, f)}
  <1>1. n \in Nat
    OBVIOUS
  <1> HIDE DEF n
  <1>2. n + 1 \in S
    <2> DEFINE f == [i \in n + 1 .. n + 1 |-> plan]
    <2>1. Good(n + 1, f)
      BY <1>1
    <2> HIDE DEF Good, f
    <2> QED BY <1>1, <2>1
  <1>3. ASSUME NEW k \in 1 .. n, k + 1 \in S PROVE k \in S
    <2>1. PICK f : Good(k + 1, f)
      BY <1>3
    <2> DEFINE g == [i \in k .. n + 1 |-> IF i = k THEN Splice(f[k + 1], hunks[k]) ELSE f[i]]
    <2>2. \A i \in k + 1 .. n + 1 : g[i] = f[i]
      BY <1>1
    <2>3. ASSUME NEW i \in k .. n + 1
          PROVE  g[i] = IF i > n THEN plan ELSE Splice(g[i + 1], hunks[i])
      <3>1. CASE i = k
        <4>1. g[k + 1] = f[k + 1]
          BY <1>1, <2>2
        <4>2. g[k] = Splice(f[k + 1], hunks[k])
          BY <1>1
        <4> HIDE DEF g
        <4> QED BY <1>1, <3>1, <4>1, <4>2
      <3>2. CASE i # k
        <4>1. f[i] = IF i > n THEN plan ELSE Splice(f[i + 1], hunks[i])
          BY <1>1, <2>1, <3>2
        <4>2. i <= n => g[i + 1] = f[i + 1]
          BY <1>1, <2>2, <3>2
        <4>3. g[i] = f[i]
          BY <1>1, <2>2, <3>2
        <4> HIDE DEF g
        <4> QED BY <1>1, <4>1, <4>2, <4>3
      <3> QED BY <3>1, <3>2
    <2>4. Good(k, g)
      BY <2>3
    <2> HIDE DEF Good, g
    <2> QED BY <1>1, <2>4
  <1>4. 1 \in S
    <2> HIDE DEF S
    <2> QED BY <1>1, <1>2, <1>3, CountDown
  <1>5. \E f : Good(1, f)
    BY <1>4
  <1> DEFINE doc == PatchedFrom(plan, hunks)
  <1>6. Good(1, doc)
    BY <1>5 DEF PatchedFrom, n
  <1> HIDE DEF doc
  <1>7. doc[n + 1] = plan /\ \A i \in 1 .. n : doc[i] = Splice(doc[i + 1], hunks[i])
    BY <1>1, <1>6
  <1> QED BY <1>7 DEF n, doc

LEMMA DeltaEquations ==
    ASSUME NEW line, NEW Items, NEW hunks \in Seq(Items)
    PROVE  LET delta == DeltaFrom(line, hunks)
           IN  /\ delta[Len(hunks) + 1] = 0
               /\ \A i \in 1 .. Len(hunks) :
                     delta[i] = delta[i + 1] + IF hunks[i].last < line THEN LineDelta(hunks[i]) ELSE 0
  <1> DEFINE n == Len(hunks)
             step(i) == IF hunks[i].last < line THEN LineDelta(hunks[i]) ELSE 0
             Good(k, f) == f = [i \in k .. n + 1 |-> IF i > n THEN 0 ELSE f[i + 1] + step(i)]
             S == {k \in 1 .. n + 1 : \E f : Good(k, f)}
  <1>1. n \in Nat
    OBVIOUS
  <1>8. DeltaFrom(line, hunks) = CHOOSE f : Good(1, f)
    BY DEF DeltaFrom
  <1> HIDE DEF n, step
  <1>2. n + 1 \in S
    <2> DEFINE f == [i \in n + 1 .. n + 1 |-> 0]
    <2>1. Good(n + 1, f)
      BY <1>1
    <2> HIDE DEF Good, f
    <2> QED BY <1>1, <2>1
  <1>3. ASSUME NEW k \in 1 .. n, k + 1 \in S PROVE k \in S
    <2>1. PICK f : Good(k + 1, f)
      BY <1>3
    <2> DEFINE g == [i \in k .. n + 1 |-> IF i = k THEN f[k + 1] + step(k) ELSE f[i]]
    <2>2. \A i \in k + 1 .. n + 1 : g[i] = f[i]
      BY <1>1
    <2>3. ASSUME NEW i \in k .. n + 1
          PROVE  g[i] = IF i > n THEN 0 ELSE g[i + 1] + step(i)
      <3>1. CASE i = k
        <4>1. g[k + 1] = f[k + 1]
          BY <1>1, <2>2
        <4>2. g[k] = f[k + 1] + step(k)
          BY <1>1
        <4> HIDE DEF g
        <4> QED BY <1>1, <3>1, <4>1, <4>2
      <3>2. CASE i # k
        <4>1. f[i] = IF i > n THEN 0 ELSE f[i + 1] + step(i)
          BY <1>1, <2>1, <3>2
        <4>2. i <= n => g[i + 1] = f[i + 1]
          BY <1>1, <2>2, <3>2
        <4>3. g[i] = f[i]
          BY <1>1, <2>2, <3>2
        <4> HIDE DEF g
        <4> QED BY <1>1, <4>1, <4>2, <4>3
      <3> QED BY <3>1, <3>2
    <2>4. Good(k, g)
      BY <2>3
    <2> HIDE DEF Good, g
    <2> QED BY <1>1, <2>4
  <1>4. 1 \in S
    <2> HIDE DEF S
    <2> QED BY <1>1, <1>2, <1>3, CountDown
  <1>5. \E f : Good(1, f)
    BY <1>4
  <1> DEFINE delta == DeltaFrom(line, hunks)
  <1>6. Good(1, delta)
    BY <1>5, <1>8
  <1> HIDE DEF delta
  <1>7. delta[n + 1] = 0 /\ \A i \in 1 .. n : delta[i] = delta[i + 1] + step(i)
    BY <1>1, <1>6
  <1> QED BY <1>7 DEF n, delta, step

LEMMA ThreeParts ==
    ASSUME NEW Items, NEW top \in Seq(Items), NEW mid \in Seq(Items), NEW low \in Seq(Items)
    PROVE  LET all == top \o mid \o low
           IN  /\ all \in Seq(Items) /\ Len(all) = Len(top) + Len(mid) + Len(low)
               /\ \A p \in 1 .. Len(top) : all[p] = top[p]
               /\ \A p \in 1 .. Len(low) : all[Len(top) + Len(mid) + p] = low[p]
  <1> DEFINE upper == top \o mid
             all   == upper \o low
  <1>1. Len(top) \in Nat /\ Len(mid) \in Nat /\ Len(low) \in Nat
    BY LenProperties
  <1>2. /\ upper \in Seq(Items) /\ Len(upper) = Len(top) + Len(mid)
        /\ \A p \in 1 .. Len(top) + Len(mid) : upper[p] = IF p <= Len(top) THEN top[p] ELSE mid[p - Len(top)]
    BY ConcatProperties
  <1> HIDE DEF upper
  <1>3. /\ all \in Seq(Items) /\ Len(all) = Len(upper) + Len(low)
        /\ \A p \in 1 .. Len(upper) + Len(low) : all[p] = IF p <= Len(upper) THEN upper[p] ELSE low[p - Len(upper)]
    <2>1. upper \in Seq(Items)
      BY <1>2
    <2> QED BY <2>1, ConcatProperties
  <1> HIDE DEF all
  <1>4. ASSUME NEW p \in 1 .. Len(top) PROVE all[p] = top[p]
    BY <1>1, <1>2, <1>3
  <1>5. ASSUME NEW p \in 1 .. Len(low) PROVE all[Len(top) + Len(mid) + p] = low[p]
    <2>1. /\ Len(upper) + p \in 1 .. Len(upper) + Len(low)
          /\ ~ (Len(upper) + p <= Len(upper)) /\ (Len(upper) + p) - Len(upper) = p
      BY <1>1, <1>2
    <2> QED BY <1>2, <1>3, <2>1
  <1> QED BY <1>2, <1>3, <1>4, <1>5 DEF all, upper

(* One hunk: the lines before it stay, those after it move by its delta. *)
LEMMA SpliceMoves ==
    ASSUME NEW Items, NEW doc \in Seq(Items), NEW h \in HunksOf(Items), InPlan(doc, h)
    PROVE  LET next == Splice(doc, h)
               d == LineDelta(h)
           IN  /\ next \in Seq(Items) /\ d \in Int /\ Len(next) = Len(doc) + d
               /\ \A p \in 1 .. h.first - 1 : p <= Len(next) /\ next[p] = doc[p]
               /\ \A p \in h.last + 1 .. Len(doc) :
                     p + d >= h.first /\ p + d <= Len(next) /\ next[p + d] = doc[p]
  <1> DEFINE top  == SubSeq(doc, 1, h.first - 1)
             low  == SubSeq(doc, h.last + 1, Len(doc))
             next == Splice(doc, h)
             d == LineDelta(h)
             m == Len(h.new)
  <1>1. /\ h.first \in Nat /\ h.last \in Nat /\ Len(doc) \in Nat /\ h.new \in Seq(Items) /\ m \in Nat
        /\ 1 <= h.first /\ h.first <= h.last /\ h.last <= Len(doc)
    BY DEF HunksOf, InPlan
  <1>2. top \in Seq(Items) /\ Len(top) = h.first - 1 /\ \A p \in 1 .. h.first - 1 : top[p] = doc[p]
    BY <1>1, SubSeqProperties
  <1>3. /\ low \in Seq(Items) /\ Len(low) = Len(doc) - h.last
        /\ \A p \in 1 .. Len(doc) - h.last : low[p] = doc[h.last + p]
    BY SMTT(30), <1>1, SubSeqProperties
  <1>4. next = top \o h.new \o low /\ d = m - (h.last - h.first + 1)
    BY DEF Splice, LineDelta
  <1> HIDE DEF top, low, next
  <1>5. /\ next \in Seq(Items) /\ Len(next) = Len(top) + m + Len(low)
        /\ \A p \in 1 .. Len(top) : next[p] = top[p]
        /\ \A p \in 1 .. Len(low) : next[Len(top) + m + p] = low[p]
    <2>1. top \in Seq(Items) /\ h.new \in Seq(Items) /\ low \in Seq(Items)
      BY <1>1, <1>2, <1>3
    <2> QED BY <1>4, <2>1, ThreeParts
  <1> HIDE DEF d, m
  <1> DEFINE first == h.first
             last  == h.last
             len   == Len(doc)
  <1>6. first \in Nat /\ last \in Nat /\ len \in Nat /\ m \in Nat /\ 1 <= first /\ first <= last /\ last <= len
    BY <1>1
  <1>7. Len(top) = first - 1 /\ Len(low) = len - last /\ d = m - (last - first + 1)
    BY <1>2, <1>3, <1>4
  <1>8. (\A p \in 1 .. first - 1 : top[p] = doc[p]) /\ \A p \in 1 .. len - last : low[p] = doc[last + p]
    BY <1>2, <1>3
  <1> HIDE DEF first, last, len
  <1>9. d \in Int /\ Len(next) = len + d
    BY <1>5, <1>6, <1>7
  <1>10. ASSUME NEW p \in 1 .. first - 1 PROVE p <= Len(next) /\ next[p] = doc[p]
    BY <1>5, <1>6, <1>7, <1>8
  <1>11. ASSUME NEW p \in last + 1 .. len
         PROVE  p + d >= first /\ p + d <= Len(next) /\ next[p + d] = doc[p]
    <2>1. /\ p - last \in 1 .. Len(low) /\ p - last \in 1 .. len - last
          /\ Len(top) + m + (p - last) = p + d /\ last + (p - last) = p
      BY <1>6, <1>7
    <2>2. next[p + d] = low[p - last]
      BY <1>5, <2>1
    <2>3. low[p - last] = doc[p]
      BY <1>8, <2>1
    <2>4. p + d >= first
      BY <1>6, <1>7
    <2>5. p + d <= Len(next)
      BY <1>6, <1>9
    <2> QED BY <2>2, <2>3, <2>4, <2>5
  <1> QED BY <1>5, <1>9, <1>10, <1>11 DEF next, d, first, last, len

(* Hunks that are in order are in order however far apart they are. *)
LEMMA HunksApart ==
    ASSUME NEW Items, NEW plan \in Seq(Items), NEW hunks \in Seq(HunksOf(Items)), InOrder(plan, hunks),
           NEW i \in 1 .. Len(hunks), NEW j \in i + 1 .. Len(hunks)
    PROVE  hunks[i].last < hunks[j].first
  <1> DEFINE n == Len(hunks)
             S == {k \in Nat : i + 1 + k <= n => hunks[i].last < hunks[i + 1 + k].first}
  <1>1. n \in Nat /\ i \in 1 .. n
    OBVIOUS
  <1>2. \A k \in 1 .. n : /\ hunks[k].first \in Nat /\ hunks[k].last \in Nat
                          /\ hunks[k].first <= hunks[k].last
    BY LenProperties DEF InOrder, InPlan
  <1>3. \A k \in 1 .. n - 1 : hunks[k].last < hunks[k + 1].first
    BY DEF InOrder
  <1> HIDE DEF n
  <1>4. 0 \in S
    <2>1. CASE i + 1 <= n
      <3>1. i \in 1 .. n - 1 /\ i + 1 + 0 = i + 1
        BY <1>1, <2>1
      <3> QED BY <1>3, <3>1
    <2>2. CASE ~ (i + 1 <= n)
      BY <1>1, <2>2
    <2> QED BY <2>1, <2>2
  <1>5. ASSUME NEW k \in Nat, k \in S PROVE k + 1 \in S
    <2>1. CASE i + 1 + (k + 1) <= n
      <3>1. /\ i + 1 + k \in 1 .. n - 1 /\ i + 1 + k \in 1 .. n /\ (i + 1 + k) + 1 = i + 1 + (k + 1)
            /\ i + 1 + (k + 1) \in 1 .. n /\ i + 1 + k <= n
        BY <1>1, <2>1
      <3>2. /\ hunks[i + 1 + k].last < hunks[i + 1 + (k + 1)].first
            /\ hunks[i].last < hunks[i + 1 + k].first
        BY <1>3, <1>5, <3>1
      <3>3. hunks[i].last < hunks[i + 1 + (k + 1)].first
        BY SMTT(30), <1>1, <1>2, <3>1, <3>2
      <3> QED BY <3>3
    <2>2. CASE ~ (i + 1 + (k + 1) <= n)
      BY <2>2
    <2> QED BY <2>1, <2>2
  <1>6. Nat \subseteq S
    <2> HIDE DEF S
    <2> QED BY <1>4, <1>5, CountUp
  <1>7. j - (i + 1) \in Nat /\ i + 1 + (j - (i + 1)) = j /\ j <= n
    BY DEF n
  <1>8. j - (i + 1) \in S
    BY <1>6, <1>7
  <1> QED BY <1>7, <1>8

(* Where the hunks from j on leave the lines outside of them. *)
Outside(l, j, hunks) == \A i \in j .. Len(hunks) : l < hunks[i].first \/ hunks[i].last < l

LinesFollow(Items, plan, hunks, j) ==
    LET doc == PatchedFrom(plan, hunks)[j]
        moved(l) == l + DeltaFrom(l, hunks)[j]
    IN  /\ doc \in Seq(Items)
        /\ \A l \in 1 .. Len(plan) :
              Outside(l, j, hunks) =>
                /\ DeltaFrom(l, hunks)[j] \in Int
                /\ moved(l) \in 1 .. Len(doc) /\ doc[moved(l)] = plan[l]
                /\ (\A i \in j .. Len(hunks) : l < hunks[i].first) => moved(l) = l
        /\ \A l, k \in 1 .. Len(plan) :
              Outside(l, j, hunks) /\ Outside(k, j, hunks) /\ l < k => moved(l) < moved(k)

LEMMA LastLinesFollow ==
    ASSUME NEW Items, NEW plan \in Seq(Items), NEW hunks \in Seq(HunksOf(Items))
    PROVE  LinesFollow(Items, plan, hunks, Len(hunks) + 1)
  <1> DEFINE j == Len(hunks) + 1
  <1>1. PatchedFrom(plan, hunks)[j] = plan
    BY PatchedEquations
  <1>2. \A l : DeltaFrom(l, hunks)[j] = 0
    BY DeltaEquations
  <1>3. Len(plan) \in Nat
    OBVIOUS
  <1> HIDE DEF j
  <1>4. \A l \in 1 .. Len(plan) : l + 0 = l
    BY <1>3
  <1> QED BY <1>1, <1>2, <1>3, <1>4 DEF LinesFollow, j

LEMMA OneHunkFollows ==
    ASSUME NEW Items, NEW plan \in Seq(Items), NEW hunks \in Seq(HunksOf(Items)), InOrder(plan, hunks),
           NEW j \in 1 .. Len(hunks), LinesFollow(Items, plan, hunks, j + 1)
    PROVE  LinesFollow(Items, plan, hunks, j)
  <1> DEFINE n == Len(hunks)
             h == hunks[j]
             len == Len(plan)
             old == PatchedFrom(plan, hunks)[j + 1]
             new == PatchedFrom(plan, hunks)[j]
             e(l) == DeltaFrom(l, hunks)[j + 1]
             f(l) == DeltaFrom(l, hunks)[j]
             first == h.first
             last  == h.last
             d == LineDelta(h)
  <1>1. /\ n \in Nat /\ len \in Nat /\ h \in HunksOf(Items) /\ InPlan(plan, h)
        /\ first \in Nat /\ last \in Nat /\ 1 <= first /\ first <= last /\ last <= len
    <2>1. h \in HunksOf(Items) /\ Len(hunks) \in Nat /\ Len(plan) \in Nat
      BY ElementOfSeq, LenProperties
    <2> QED BY <2>1 DEF InOrder, InPlan, HunksOf
  <1>2. new = Splice(old, h) /\ \A l : f(l) = e(l) + IF last < l THEN d ELSE 0
    BY PatchedEquations, DeltaEquations
  <1>3. \A i \in j + 1 .. n : last < hunks[i].first /\ hunks[i].first \in Nat
    <2> SUFFICES ASSUME NEW i \in j + 1 .. n PROVE last < hunks[i].first /\ hunks[i].first \in Nat
      OBVIOUS
    <2>1. i \in 1 .. Len(hunks)
      BY <1>1
    <2>2. hunks[i] \in HunksOf(Items)
      BY <2>1, ElementOfSeq
    <2> QED BY <2>2, HunksApart DEF HunksOf
  <1>4. /\ old \in Seq(Items) /\ Len(old) \in Nat
        /\ \A l \in 1 .. len : Outside(l, j + 1, hunks) =>
              /\ e(l) \in Int /\ l + e(l) \in 1 .. Len(old) /\ old[l + e(l)] = plan[l]
              /\ (\A i \in j + 1 .. n : l < hunks[i].first) => l + e(l) = l
        /\ \A l, k \in 1 .. len :
              Outside(l, j + 1, hunks) /\ Outside(k, j + 1, hunks) /\ l < k => l + e(l) < k + e(k)
    BY LenProperties DEF LinesFollow
  <1>5. \A l \in 1 .. len : Outside(l, j, hunks) => Outside(l, j + 1, hunks) /\ (l < first \/ last < l)
    BY <1>1 DEF Outside
  <1>6. ASSUME NEW l \in 1 .. len, l <= last
        PROVE  Outside(l, j + 1, hunks) /\ l + e(l) = l /\ l \in 1 .. Len(old)
    <2>1. \A i \in j + 1 .. n : l < hunks[i].first
      BY <1>1, <1>3, <1>6
    <2>2. Outside(l, j + 1, hunks)
      BY <2>1 DEF Outside
    <2> QED BY <1>4, <2>1, <2>2
  <1>7. InPlan(old, h) /\ last + e(last) = last /\ Outside(last, j + 1, hunks)
    <2>1. last \in 1 .. len /\ last <= last
      BY <1>1
    <2>2. Outside(last, j + 1, hunks) /\ last + e(last) = last /\ last \in 1 .. Len(old)
      BY <1>6, <2>1
    <2> QED BY <1>1, <1>4, <2>2 DEF InPlan
  <1>8. /\ new \in Seq(Items) /\ d \in Int /\ Len(new) = Len(old) + d /\ Len(new) \in Nat
        /\ \A p \in 1 .. first - 1 : p <= Len(new) /\ new[p] = old[p]
        /\ \A p \in last + 1 .. Len(old) :
              p + d >= first /\ p + d <= Len(new) /\ new[p + d] = old[p]
    <2>1. LET next == Splice(old, h)
          IN  /\ next \in Seq(Items) /\ d \in Int /\ Len(next) = Len(old) + d
              /\ \A p \in 1 .. h.first - 1 : p <= Len(next) /\ next[p] = old[p]
              /\ \A p \in h.last + 1 .. Len(old) :
                    p + d >= h.first /\ p + d <= Len(next) /\ next[p + d] = old[p]
      <3>1. old \in Seq(Items) /\ h \in HunksOf(Items) /\ InPlan(old, h)
        BY <1>1, <1>4, <1>7
      <3> HIDE DEF old, h
      <3> QED BY <3>1, SpliceMoves
    <2> QED BY <1>2, <2>1, LenProperties
  <1> HIDE DEF n, h, len, old, new, e, f, first, last, d
  (* A line above the hunk stays, a line below it is pushed. *)
  <1>9. ASSUME NEW l \in 1 .. len, l < first
        PROVE  /\ f(l) \in Int /\ l + f(l) = l /\ l + f(l) \in 1 .. Len(new) /\ new[l + f(l)] = plan[l]
    <2>1. l <= last /\ l \in 1 .. first - 1
      BY <1>1, <1>9
    <2>2. l + e(l) = l /\ e(l) \in Int /\ old[l] = plan[l]
      BY <1>4, <1>6, <2>1
    <2>3. f(l) = e(l) + 0
      BY <1>1, <1>2, <2>1
    <2>4. e(l) = 0 /\ f(l) = 0 /\ l + f(l) = l
      BY <2>2, <2>3
    <2>5. l <= Len(new) /\ new[l] = old[l]
      BY <1>8, <2>1
    <2> QED BY <1>8, <2>2, <2>4, <2>5
  <1>10. ASSUME NEW l \in 1 .. len, last < l, Outside(l, j + 1, hunks)
         PROVE  /\ f(l) \in Int /\ e(l) \in Int /\ l + f(l) = (l + e(l)) + d /\ l + f(l) \in 1 .. Len(new)
                /\ new[l + f(l)] = plan[l] /\ l + f(l) >= first
    <2>1. e(l) \in Int /\ l + e(l) \in 1 .. Len(old) /\ old[l + e(l)] = plan[l]
      BY <1>4, <1>10
    <2>2. last < l + e(l)
      <3>1. last \in 1 .. len
        BY <1>1
      <3> QED BY <1>4, <1>7, <1>10, <3>1
    <2>3. f(l) = e(l) + d
      BY <1>2, <1>10
    <2>4. l + e(l) \in last + 1 .. Len(old) /\ f(l) \in Int /\ l + f(l) = (l + e(l)) + d
      <3>1. l \in Int /\ last \in Int
        BY <1>1
      <3>2. d \in Int
        BY <1>8
      <3>3. Len(old) \in Int
        BY <1>4
      <3> QED BY SMTT(30), <2>1, <2>2, <2>3, <3>1, <3>2, <3>3
    <2>5. /\ (l + e(l)) + d >= first /\ (l + e(l)) + d <= Len(new)
          /\ new[(l + e(l)) + d] = old[l + e(l)]
      BY <1>8, <2>4
    <2>6. new[l + f(l)] = plan[l]
      BY <2>1, <2>4, <2>5
    <2>7. l + f(l) >= first /\ l + f(l) <= Len(new) /\ l + f(l) \in Int
      BY <2>4, <2>5
    <2>8. l + f(l) \in 1 .. Len(new)
      BY <1>1, <1>8, <2>7
    <2> QED BY <2>1, <2>4, <2>6, <2>7, <2>8
  <1>11. ASSUME NEW l \in 1 .. len, Outside(l, j, hunks)
         PROVE  /\ f(l) \in Int /\ l + f(l) \in 1 .. Len(new) /\ new[l + f(l)] = plan[l]
                /\ (\A i \in j .. n : l < hunks[i].first) => l + f(l) = l
    <2>1. CASE l < first
      BY <1>9, <2>1
    <2>2. CASE last < l
      <3>1. ~ (\A i \in j .. n : l < hunks[i].first)
        BY <1>1, <2>2 DEF h, first, n
      <3> QED BY <1>5, <1>10, <1>11, <2>2, <3>1
    <2> QED BY <1>5, <1>11, <2>1, <2>2
  <1>12. ASSUME NEW l \in 1 .. len, NEW k \in 1 .. len, Outside(l, j, hunks), Outside(k, j, hunks), l < k
         PROVE  l + f(l) < k + f(k)
    <2>1. CASE k < first
      <3>1. l < first
        BY <1>1, <1>12, <2>1
      <3> QED BY <1>9, <1>12, <2>1, <3>1
    <2>2. CASE l < first /\ last < k
      <3>1. l + f(l) = l
        BY <1>9, <2>2
      <3>2. k + f(k) >= first /\ f(k) \in Int
        BY <1>5, <1>10, <1>12, <2>2
      <3> QED BY <1>1, <2>2, <3>1, <3>2
    <2>3. CASE last < l /\ last < k
      <3>1. l + e(l) < k + e(k)
        BY <1>4, <1>5, <1>12
      <3>2. l + f(l) = (l + e(l)) + d /\ k + f(k) = (k + e(k)) + d /\ e(l) \in Int /\ e(k) \in Int
        BY <1>5, <1>10, <1>12, <2>3
      <3>3. l + e(l) \in Int /\ k + e(k) \in Int
        BY <3>2
      <3> QED BY SMTT(30), <1>8, <3>1, <3>2, <3>3
    <2> QED BY <1>1, <1>5, <1>12, <2>1, <2>2, <2>3
  <1> QED BY <1>8, <1>11, <1>12 DEF LinesFollow, n, len, new, f

LEMMA PatchLinesFollow ==
    ASSUME NEW Items, NEW plan \in Seq(Items), NEW hunks \in Seq(HunksOf(Items)), InOrder(plan, hunks)
    PROVE  LinesFollow(Items, plan, hunks, 1)
  <1> DEFINE n == Len(hunks)
             S == {j \in 1 .. n + 1 : LinesFollow(Items, plan, hunks, j)}
  <1>1. n \in Nat
    OBVIOUS
  <1>2. n + 1 \in S
    BY <1>1, LastLinesFollow
  <1>3. \A j \in 1 .. n : j + 1 \in S => j \in S
    BY <1>1, OneHunkFollows
  <1>4. 1 \in S
    <2> HIDE DEF S, n
    <2> QED BY <1>1, <1>2, <1>3, CountDown
  <1> QED BY <1>4

(* "adjustThreadsForAppliedHunks", "positionAfterHunks": for every document  *)
(* and every patch whose hunks are in order, each line outside the hunks is   *)
(* found in the patched document where positionAfterHunks says, and the lines *)
(* keep their order.                                                         *)
THEOREM PatchKeepsLines ==
    ASSUME NEW Items, NEW plan \in Seq(Items), NEW hunks \in Seq(HunksOf(Items)), InOrder(plan, hunks)
    PROVE  /\ ApplyHunks(plan, hunks) \in Seq(Items)
           /\ \A l \in 1 .. Len(plan) : Outside(l, 1, hunks) =>
                 /\ positionAfterHunks(l, hunks) \in 1 .. Len(ApplyHunks(plan, hunks))
                 /\ ApplyHunks(plan, hunks)[positionAfterHunks(l, hunks)] = plan[l]
           /\ \A l, k \in 1 .. Len(plan) : Outside(l, 1, hunks) /\ Outside(k, 1, hunks) /\ l < k =>
                 positionAfterHunks(l, hunks) < positionAfterHunks(k, hunks)
  <1>1. LinesFollow(Items, plan, hunks, 1) /\ ApplyHunks(plan, hunks) = PatchedFrom(plan, hunks)[1]
    BY PatchLinesFollow, HunkFunctions
  <1>2. \A l : positionAfterHunks(l, hunks) = l + DeltaFrom(l, hunks)[1]
    BY HunkFunctions
  <1>3. ASSUME NEW l \in 1 .. Len(plan), Outside(l, 1, hunks)
        PROVE  /\ positionAfterHunks(l, hunks) \in 1 .. Len(ApplyHunks(plan, hunks))
               /\ ApplyHunks(plan, hunks)[positionAfterHunks(l, hunks)] = plan[l]
    BY <1>1, <1>2, <1>3 DEF LinesFollow
  <1>4. ASSUME NEW l \in 1 .. Len(plan), NEW k \in 1 .. Len(plan),
               Outside(l, 1, hunks), Outside(k, 1, hunks), l < k
        PROVE  positionAfterHunks(l, hunks) < positionAfterHunks(k, hunks)
    BY <1>1, <1>2, <1>4 DEF LinesFollow
  <1>5. ApplyHunks(plan, hunks) \in Seq(Items)
    BY <1>1 DEF LinesFollow
  <1> QED BY <1>3, <1>4, <1>5

(* Lines that the hunks do not tell apart are pushed by the same amount. *)
LEMMA SameDelta ==
    ASSUME NEW Items, NEW hunks \in Seq(Items), NEW l, NEW k,
           \A i \in 1 .. Len(hunks) : hunks[i].last < l <=> hunks[i].last < k
    PROVE  DeltaFrom(l, hunks)[1] = DeltaFrom(k, hunks)[1]
  <1> DEFINE n == Len(hunks)
             S == {j \in 1 .. n + 1 : DeltaFrom(l, hunks)[j] = DeltaFrom(k, hunks)[j]}
  <1>1. n \in Nat
    OBVIOUS
  <1>2. n + 1 \in S
    BY <1>1, DeltaEquations
  <1>3. ASSUME NEW j \in 1 .. n, j + 1 \in S PROVE j \in S
    <2>1. /\ DeltaFrom(l, hunks)[j] = DeltaFrom(l, hunks)[j + 1] + IF hunks[j].last < l THEN LineDelta(hunks[j]) ELSE 0
          /\ DeltaFrom(k, hunks)[j] = DeltaFrom(k, hunks)[j + 1] + IF hunks[j].last < k THEN LineDelta(hunks[j]) ELSE 0
      BY DeltaEquations
    <2>2. DeltaFrom(l, hunks)[j] = DeltaFrom(k, hunks)[j]
      BY <1>3, <2>1
    <2> QED BY <1>1, <2>2
  <1>4. \A j \in 1 .. n : j + 1 \in S => j \in S
    BY <1>3
  <1> HIDE DEF S, n
  <1>5. 1 .. n + 1 \subseteq S
    BY <1>1, <1>2, <1>4, CountDown
  <1>6. 1 \in S
    BY <1>1, <1>5
  <1> QED BY <1>6 DEF S

(* An anchor that no hunk meets selects the same text once the patch is      *)
(* applied and both of its ends have moved.                                  *)
LEMMA AnchorMoves ==
    ASSUME NEW Items, NEW plan \in Seq(Items), NEW hunks \in Seq(HunksOf(Items)), InOrder(plan, hunks), NEW a, InPlan(plan, a),
           \A i \in 1 .. Len(hunks) : ~anchorsOverlap(a, hunks[i])
    PROVE  LET next  == ApplyHunks(plan, hunks)
               moved == [first |-> positionAfterHunks(a.first, hunks),
                         last  |-> positionAfterHunks(a.last, hunks)]
           IN  InPlan(next, moved) /\ textForAnchor(next, moved) = textForAnchor(plan, a)
  <1> DEFINE n == Len(hunks)
             next == ApplyHunks(plan, hunks)
             d == DeltaFrom(a.first, hunks)[1]
             first == a.first
             last == a.last
             moved == [first |-> positionAfterHunks(a.first, hunks),
                       last  |-> positionAfterHunks(a.last, hunks)]
  <1>1. /\ n \in Nat /\ Len(plan) \in Nat /\ first \in Nat /\ last \in Nat
        /\ 1 <= first /\ first <= last /\ last <= Len(plan)
    BY DEF InPlan
  <1>2. ASSUME NEW i \in 1 .. n
        PROVE  /\ hunks[i].first \in Nat /\ hunks[i].last \in Nat /\ hunks[i].first <= hunks[i].last
               /\ hunks[i].last < first \/ last < hunks[i].first
    <2>1. hunks[i] \in HunksOf(Items) /\ InPlan(plan, hunks[i]) /\ ~anchorsOverlap(a, hunks[i])
      BY ElementOfSeq DEF InOrder
    <2>2. hunks[i].first \in Nat /\ hunks[i].last \in Nat /\ hunks[i].first <= hunks[i].last
      BY <1>1, <2>1 DEF HunksOf, InPlan
    <2>3. ~ (first <= hunks[i].last /\ hunks[i].first <= last)
      BY <2>1 DEF anchorsOverlap
    <2> HIDE DEF first, last
    <2> QED BY <1>1, <2>2, <2>3
  <1> HIDE DEF first, last, n
  <1>3. \A l \in first .. last : Outside(l, 1, hunks) /\ l \in 1 .. Len(plan)
    BY <1>1, <1>2 DEF Outside, n
  <1>4. \A l \in first .. last : positionAfterHunks(l, hunks) = l + d
    <2> SUFFICES ASSUME NEW l \in first .. last PROVE positionAfterHunks(l, hunks) = l + d
      OBVIOUS
    <2>1. \A i \in 1 .. n : hunks[i].last < l <=> hunks[i].last < first
      BY <1>1, <1>2
    <2>2. DeltaFrom(l, hunks)[1] = d
      BY <2>1, SameDelta DEF n, first
    <2> QED BY <2>2, HunkFunctions
  <1>5. /\ next \in Seq(Items) /\ Len(next) \in Nat
        /\ \A l \in first .. last : l + d \in 1 .. Len(next) /\ next[l + d] = plan[l]
    <2>1. next \in Seq(Items)
      BY PatchKeepsLines
    <2>2. ASSUME NEW l \in first .. last PROVE l + d \in 1 .. Len(next) /\ next[l + d] = plan[l]
      BY <1>3, <1>4, PatchKeepsLines
    <2> QED BY <2>1, <2>2, LenProperties
  <1>6. d \in Int
    <2>1. first \in 1 .. Len(plan) /\ LinesFollow(Items, plan, hunks, 1) /\ Outside(first, 1, hunks)
      BY <1>1, <1>3, PatchLinesFollow
    <2> QED BY <2>1 DEF LinesFollow, first
  <1>7. moved.first = first + d /\ moved.last = last + d
    BY <1>1, <1>4 DEF first, last
  <1> HIDE DEF next, d, moved
  <1>8. InPlan(next, moved)
    <2>1. first + d \in 1 .. Len(next) /\ last + d \in 1 .. Len(next) /\ first + d <= last + d
      <3>1. first \in first .. last /\ last \in first .. last
        BY <1>1
      <3>2. first + d \in 1 .. Len(next) /\ last + d \in 1 .. Len(next)
        BY <1>5, <3>1
      <3>3. first + d <= last + d
        BY <1>1, <1>6
      <3> QED BY <3>2, <3>3
    <2>2. Len(next) \in Nat
      BY <1>5
    <2> QED BY <1>7, <2>1, <2>2 DEF InPlan
  <1> DEFINE was == SubSeq(plan, first, last)
             is  == SubSeq(next, first + d, last + d)
  <1>9. /\ was \in Seq(Items) /\ Len(was) = last - first + 1
        /\ \A p \in 1 .. last - first + 1 : was[p] = plan[first + p - 1]
    <2>1. \A p \in first .. last : plan[p] \in Items
      BY <1>1
    <2> QED BY <1>1, <2>1, SubSeqProperties
  <1>10. /\ is \in Seq(Items) /\ Len(is) = (last + d) - (first + d) + 1
         /\ \A p \in 1 .. (last + d) - (first + d) + 1 : is[p] = next[(first + d) + p - 1]
    <2>1. first + d \in Int /\ last + d \in Int /\ first + d <= last + d
      BY <1>1, <1>6
    <2>2. \A p \in first + d .. last + d : next[p] \in Items
      <3> SUFFICES ASSUME NEW p \in first + d .. last + d PROVE next[p] \in Items
        OBVIOUS
      <3>1. p - d \in first .. last /\ (p - d) + d = p
        BY <1>1, <1>6
      <3>2. p \in 1 .. Len(next)
        BY <1>5, <3>1
      <3> QED BY <1>5, <3>2, ElementOfSeq
    <2> QED BY <2>1, <2>2, SubSeqProperties
  <1>11. was = is
    <2> HIDE DEF was, is
    <2>1. Len(was) = Len(is)
      BY <1>1, <1>6, <1>9, <1>10
    <2>2. ASSUME NEW p \in 1 .. Len(was) PROVE was[p] = is[p]
      <3>1. /\ p \in 1 .. last - first + 1 /\ p \in 1 .. (last + d) - (first + d) + 1
            /\ first + p - 1 \in first .. last /\ (first + d) + p - 1 = (first + p - 1) + d
        BY <1>1, <1>6, <1>9
      <3> QED BY <1>5, <1>9, <1>10, <3>1
    <2> QED BY <1>9, <1>10, <2>1, <2>2, SeqEqual
  <1>12. textForAnchor(plan, a) = was /\ textForAnchor(next, moved) = is
    BY <1>7, <1>8 DEF textForAnchor, first, last
  <1> QED BY <1>8, <1>11, <1>12 DEF next, moved

-----------------------------------------------------------------------------
(* The invariant behind the edges: the comments on a proposal stand on their *)
(* text, and its document is what its patch makes of the revision.           *)

Stands(p, t) == t.home = Proposal(p.id) /\ Active(t) /\ t.text # NoText => OnItsText(p.plan, t)

LEMMA TracedThreads ==
    ASSUME NEW s, Traced(s), s.pending.id # 0, NEW i \in DOMAIN s.threads
    PROVE  Stands(s.pending, s.threads[i])
  BY DEF Traced, Stands

(* The proposal stays; every comment is as it was, or stands on its text. *)
LEMMA ProposalStays ==
    ASSUME Traced(session), NEW next, next.plans = session.plans, next.pending = session.pending,
           Pending => \A i \in DOMAIN next.threads :
                         \/ i \in DOMAIN session.threads /\ next.threads[i] = session.threads[i]
                         \/ Stands(session.pending, next.threads[i])
    PROVE  Traced(next)
  <1>1. Plan(next) = Plan(session)
    BY DEF Plan
  <1>2. ASSUME next.pending.id # 0, NEW i \in DOMAIN next.threads
        PROVE  Stands(next.pending, next.threads[i])
    BY <1>2, TracedThreads DEF Pending
  <1> QED BY <1>1, <1>2 DEF Traced, Stands

LEMMA SaveTraced ==
    ASSUME Traced(session), NEW next, Save(next), Traced(next)
    PROVE  Traced(session')
  BY DEF Save

(* The text that the browser sends along is the text of the selection. *)
LEMMA SentText ==
    ASSUME NEW p, NEW a, NEW text \in SelectedTexts(p.plan, a), NEW t, t.anchor = a, t.text = text
    PROVE  Stands(p, t)
  BY DEF SelectedTexts, Stands, OnItsText

LEMMA CreateTraced ==
    ASSUME Typed(session), Traced(session), NEW intent, handleCreateThread(intent)
    PROVE  Traced(session')
  <1> DEFINE plan == TargetPlan(Pending)
             home == IF Pending THEN Proposal(session.pending.id) ELSE Revision(Current(session))
             n    == session.nextThread + 1
  <1>1. PICK a \in Ranges(plan) : \E text \in SelectedTexts(plan, a) :
           Mutate(AddThread(session, home, a, text, intent))
    BY DEF handleCreateThread
  <1>2. PICK text \in SelectedTexts(plan, a) : Mutate(AddThread(session, home, a, text, intent))
    BY <1>1
  <1> DEFINE next == AddThread(session, home, a, text, intent)
             t == [home |-> home, born |-> Current(session), anchor |-> a, text |-> text,
                   intent |-> intent, status |-> "active", answer |-> "none"]
  <1>3. /\ next.threads = With(session.threads, n, t)
        /\ next.plans = session.plans /\ next.pending = session.pending
    BY DEF Typed, Sessions, AddThread
  <1>4. Pending => Stands(session.pending, t)
    BY SentText DEF TargetPlan
  <1>5. \A i \in DOMAIN next.threads :
           \/ i \in DOMAIN session.threads /\ next.threads[i] = session.threads[i]
           \/ next.threads[i] = t
    BY <1>3 DEF With
  <1> HIDE DEF next, t
  <1>6. Traced(next)
    BY <1>3, <1>4, <1>5, ProposalStays
  <1> QED BY <1>2, <1>6, SaveTraced DEF Mutate, next

(* One comment changes, and nothing else. *)
LEMMA ChangeTraced ==
    ASSUME Typed(session), Traced(session), NEW i \in DOMAIN session.threads, NEW t,
           Pending => Stands(session.pending, t), Mutate([session EXCEPT !.threads[i] = t])
    PROVE  Traced(session')
  <1> DEFINE next == [session EXCEPT !.threads[i] = t]
  <1>1. /\ next.threads = [session.threads EXCEPT ![i] = t]
        /\ next.plans = session.plans /\ next.pending = session.pending
    BY DEF Typed, Sessions
  <1>2. \A j \in DOMAIN next.threads :
           \/ j \in DOMAIN session.threads /\ next.threads[j] = session.threads[j]
           \/ next.threads[j] = t
    BY <1>1
  <1> HIDE DEF next
  <1>3. Traced(next)
    BY <1>1, <1>2, ProposalStays
  <1> QED BY <1>3, SaveTraced DEF Mutate, next

LEMMA EditTraced ==
    ASSUME Typed(session), Traced(session), NEW i \in DOMAIN session.threads, handleEditThread(i)
    PROVE  Traced(session')
  <1> DEFINE plan == TargetPlan(OnProposal(i))
  <1>1. PICK a \in Ranges(plan) : \E text \in SelectedTexts(plan, a) :
           Mutate([session EXCEPT !.threads[i].anchor = a, !.threads[i].text = text,
                                  !.threads[i].status = "active"])
    BY DEF handleEditThread
  <1>2. PICK text \in SelectedTexts(plan, a) :
           Mutate([session EXCEPT !.threads[i].anchor = a, !.threads[i].text = text,
                                  !.threads[i].status = "active"])
    BY <1>1
  <1> DEFINE t == [session.threads[i] EXCEPT !.anchor = a, !.text = text, !.status = "active"]
  <1>3. [session EXCEPT !.threads[i].anchor = a, !.threads[i].text = text, !.threads[i].status = "active"]
          = [session EXCEPT !.threads[i] = t]
    BY DEF Typed, Sessions
  <1>4. t.anchor = a /\ t.text = text
    BY ThreadType DEF Comments
  <1>5. Pending => plan = session.pending.plan
    BY DEF handleEditThread, Unlocked, TargetPlan
  <1> HIDE DEF t, plan
  <1>6. Pending => Stands(session.pending, t)
    BY <1>4, <1>5, SentText
  <1> QED BY <1>2, <1>3, <1>6, ChangeTraced

LEMMA IntentTraced ==
    ASSUME Typed(session), Traced(session), NEW i \in DOMAIN session.threads, NEW intent,
           handleThreadIntent(i, intent)
    PROVE  Traced(session')
  <1> DEFINE t == [session.threads[i] EXCEPT !.intent = intent]
  <1>1. /\ t.home = session.threads[i].home /\ t.status = session.threads[i].status
        /\ t.text = session.threads[i].text /\ t.anchor = session.threads[i].anchor
    BY ThreadType DEF Comments
  <1>2. Mutate([session EXCEPT !.threads[i] = t])
    BY DEF handleThreadIntent, Typed, Sessions
  <1> HIDE DEF t
  <1>3. Pending => Stands(session.pending, t)
    BY <1>1, TracedThreads DEF Stands, Active, OnItsText, Pending
  <1> QED BY <1>2, <1>3, ChangeTraced

LEMMA DeleteTraced ==
    ASSUME Typed(session), Traced(session), NEW i \in DOMAIN session.threads, handleDeleteThread(i)
    PROVE  Traced(session')
  <1> DEFINE next == [session EXCEPT !.threads = Without(@, {i})]
  <1>1. /\ next.threads = Without(session.threads, {i})
        /\ next.plans = session.plans /\ next.pending = session.pending
    BY DEF Typed, Sessions
  <1>2. \A j \in DOMAIN next.threads : j \in DOMAIN session.threads /\ next.threads[j] = session.threads[j]
    BY <1>1 DEF Without
  <1> HIDE DEF next
  <1>3. Traced(next)
    BY <1>1, <1>2, ProposalStays
  <1> QED BY <1>3, SaveTraced DEF handleDeleteThread, Mutate, next

(* The handlers that wait until no proposal is pending. *)
LEMMA UnlockedTraced ==
    ASSUME Typed(session), Traced(session), NEW i \in DOMAIN session.threads,
           \/ handleCreateFollowUp(i) \/ handleReanchorThread(i)
           \/ \E r \in 1 .. Current(session) : handleMarkThreadAddressed(i, r)
           \/ handleSideQuestion(i) \/ handlePromoteSideAnswer(i) \/ handleUnpromoteSideAnswer(i)
    PROVE  Traced(session')
  <1>1. ASSUME NEW next, Mutate(next), ~Pending, next.pending = session.pending PROVE Traced(session')
    BY <1>1, SaveTraced DEF Mutate, Traced, Pending
  <1>2. ASSUME NEW home, NEW a, NEW text, NEW intent
        PROVE  AddThread(session, home, a, text, intent).pending = session.pending
    BY DEF AddThread, Typed, Sessions
  <1>3. CASE handleCreateFollowUp(i)
    BY <1>1, <1>2, <1>3 DEF handleCreateFollowUp
  <1>4. CASE handleReanchorThread(i)
    <2>1. PICK a : Mutate([session EXCEPT !.threads[i].anchor = a, !.threads[i].status = "active"])
      BY <1>4 DEF handleReanchorThread
    <2>2. [session EXCEPT !.threads[i].anchor = a, !.threads[i].status = "active"].pending = session.pending
      BY DEF Typed, Sessions
    <2> QED BY <1>1, <1>4, <2>1, <2>2 DEF handleReanchorThread
  <1>5. ASSUME NEW r, handleMarkThreadAddressed(i, r) PROVE Traced(session')
    <2>1. [session EXCEPT !.feedback[r] = @ \union {i}, !.threads[i] = resolveThread(@)].pending = session.pending
      BY DEF Typed, Sessions
    <2> QED BY <1>1, <1>5, <2>1 DEF handleMarkThreadAddressed
  <1>6. CASE handleSideQuestion(i) \/ handlePromoteSideAnswer(i) \/ handleUnpromoteSideAnswer(i)
    <2>1. \A answer : [session EXCEPT !.threads[i].answer = answer].pending = session.pending
      BY DEF Typed, Sessions
    <2> QED BY <1>1, <1>6, <2>1 DEF handleSideQuestion, handlePromoteSideAnswer, handleUnpromoteSideAnswer
  <1> QED BY <1>3, <1>4, <1>5, <1>6

LEMMA ProposeTraced ==
    ASSUME Typed(session), Housed(session), Traced(session), ~Pending, NEW kind, NEW anchor, NEW explicit,
           NEW hunks \in Resolved(Plan(session)), CreateProposal(kind, anchor, explicit, hunks)
    PROVE  Traced(session')
  <1> DEFINE scope == IF kind = "review" THEN Everywhere ELSE anchor
             p == [id |-> session.nextProposal + 1, kind |-> kind, parent |-> Current(session),
                   plan |-> ApplyHunks(Plan(session), hunks), anchor |-> anchor,
                   applied |-> primaryResolvedHunk(hunks, anchor), hunks |-> hunks,
                   included |-> Selected(Revision(Current(session)), anchor, explicit),
                   consumed |-> SelectedAnswers(scope, explicit), obsolete |-> FALSE]
             next == [session EXCEPT !.nextProposal = @ + 1, !.pending = p]
  <1>1. next.threads = session.threads /\ next.plans = session.plans /\ next.pending = p
    BY DEF Typed, Sessions
  <1>2. p.hunks = hunks /\ p.plan = ApplyHunks(Plan(session), hunks) /\ InOrder(Plan(session), hunks)
    BY DEF Resolved
  <1>3. \A i \in DOMAIN session.threads : session.threads[i].home # Proposal(p.id)
    BY DEF Housed, HasHome, Pending, Revision, Proposal
  <1>4. Mutate(next)
    BY DEF CreateProposal
  <1> HIDE DEF p, next
  <1>5. Plan(next) = Plan(session)
    BY <1>1 DEF Plan
  <1>6. Traced(next)
    BY <1>1, <1>2, <1>3, <1>5 DEF Traced
  <1> QED BY <1>4, <1>6, SaveTraced DEF Mutate

(* A refinement moves each comment on the proposal to its text, or forgets   *)
(* the text.                                                                 *)
LEMMA RetargetedStands ==
    ASSUME Typed(session), Housed(session), Pending, NEW p, p.id = session.nextProposal + 1,
           p.plan \in Seq(Lines), NEW i \in DOMAIN session.threads
    PROVE  Stands(p, RetargetProposalThreads(p.plan)[i])
  <1> DEFINE home == Proposal(session.nextProposal + 1)
             t    == session.threads[i]
             selected == IF t.text = NoText THEN textForAnchor(session.pending.plan, t.anchor) ELSE t.text
             place    == uniqueAnchorForText(p.plan, selected)
             found    == [t EXCEPT !.home = home, !.anchor = place]
             lost     == [t EXCEPT !.home = home, !.text = NoText, !.anchor = clampedLineAnchor(t.anchor, p.plan)]
             moved    == IF place # NoAnchor THEN found ELSE lost
             kept     == [t EXCEPT !.home = home]
             result   == RetargetProposalThreads(p.plan)[i]
  <1>1. t \in Comments
    BY ThreadType
  <1>2. result = IF ~OnProposal(i) THEN t
                 ELSE IF ~Active(t) THEN kept
                 ELSE IF t.intent = "instruction" THEN resolveThread(moved)
                 ELSE moved
    BY DEF RetargetProposalThreads
  <1>3. place # NoAnchor => textForAnchor(p.plan, place) = selected
    BY PlaceFound
  <1>4. found.anchor = place /\ found.text = t.text /\ lost.text = NoText /\ kept.status = t.status
    BY <1>1 DEF Comments
  <1>5. resolveThread(moved).status = "addressed"
    BY <1>1 DEF Comments, resolveThread, Silenced
  <1>6. ~OnProposal(i) => t.home # Proposal(p.id)
    BY DEF Housed, HasHome, OnProposal, Pending, Revision, Proposal
  <1> HIDE DEF found, lost, kept, place, result, t, home
  <1>7. Stands(p, result)
    <2>1. CASE ~OnProposal(i)
      BY <1>2, <1>6, <2>1 DEF Stands
    <2>2. CASE OnProposal(i) /\ ~Active(t)
      BY <1>2, <1>4, <2>2 DEF Stands, Active
    <2>3. CASE OnProposal(i) /\ Active(t) /\ t.intent = "instruction"
      BY <1>2, <1>5, <2>3 DEF Stands, Active
    <2>4. CASE OnProposal(i) /\ Active(t) /\ t.intent # "instruction"
      BY <1>2, <1>3, <1>4, <2>4 DEF Stands, OnItsText
    <2> QED BY <2>1, <2>2, <2>3, <2>4
  <1> QED BY <1>7 DEF result

LEMMA RefineTraced ==
    ASSUME Typed(session), Housed(session), Traced(session), Pending, NEW explicit,
           NEW hunks \in Resolved(session.pending.plan), refineProposal(explicit, hunks)
    PROVE  Traced(session')
  <1> DEFINE old  == session.pending
             plan == ApplyHunks(old.plan, hunks)
             included == IF old.included # {} THEN old.included
                         ELSE Selected(Proposal(old.id), Everywhere, explicit)
             consumed == IF old.kind = "review" /\ old.consumed # {} THEN old.consumed
                         ELSE SelectedAnswers(old.anchor, explicit)
             p == [old EXCEPT !.id = session.nextProposal + 1, !.plan = plan, !.hunks = <<>>,
                              !.included = included, !.consumed = consumed]
             next == [session EXCEPT !.nextProposal = @ + 1, !.threads = RetargetProposalThreads(plan), !.pending = p]
  <1>1. Mutate(next)
    BY DEF refineProposal, Typed, Sessions
  <1>2. p.id = session.nextProposal + 1 /\ p.plan = plan /\ p.hunks = <<>>
    BY DEF Typed, Sessions, Proposals
  <1>3. next.threads = RetargetProposalThreads(plan) /\ next.pending = p
    BY DEF Typed, Sessions
  <1>4. plan \in Seq(Lines)
    BY ResolvedHunks
  <1> HIDE DEF p, next, plan
  <1>5. DOMAIN next.threads = DOMAIN session.threads
    BY <1>3 DEF RetargetProposalThreads
  <1>6. \A i \in DOMAIN next.threads : Stands(next.pending, next.threads[i])
    BY <1>2, <1>3, <1>4, <1>5, RetargetedStands
  <1>7. Traced(next)
    BY <1>2, <1>3, <1>6 DEF Traced, Stands
  <1> QED BY <1>1, <1>7, SaveTraced DEF Mutate

LEMMA SyncTraced ==
    ASSUME Typed(session), Traced(session), NEW text, syncExternalSource(text)
    PROVE  Traced(session')
  <1> DEFINE next == [AddRevision(session, text, {}) EXCEPT
                         !.threads = reconcileActiveThreadAnchors(session, session.source, text),
                         !.pending.obsolete = session.pending.id # 0,
                         !.source = text]
  <1>1. /\ next.threads = reconcileActiveThreadAnchors(session, session.source, text)
        /\ next.pending = [session.pending EXCEPT !.obsolete = session.pending.id # 0]
    BY DEF AddRevision, Typed, Sessions
  <1>2. /\ next.pending.id = session.pending.id /\ next.pending.plan = session.pending.plan
        /\ next.pending.obsolete = (session.pending.id # 0)
    BY <1>1 DEF Typed, Sessions, Proposals
  <1>3. \A i \in DOMAIN session.threads :
           session.threads[i].home # Revision(Current(session)) => next.threads[i] = session.threads[i]
    BY <1>1 DEF reconcileActiveThreadAnchors
  <1>4. \A i \in DOMAIN session.threads : next.threads[i].home = session.threads[i].home
    <2> SUFFICES ASSUME NEW i \in DOMAIN session.threads PROVE next.threads[i].home = session.threads[i].home
      OBVIOUS
    <2> DEFINE t == session.threads[i]
               selected == IF t.text = NoText THEN textForAnchor(session.source, t.anchor) ELSE t.text
               place == uniqueAnchorForText(text, selected)
               result == reconcileActiveThreadAnchors(session, session.source, text)[i]
    <2>1. t \in Comments /\ next.threads[i] = result
      BY <1>1, ThreadType
    <2>2. result \in {t, DetachThread(t), [t EXCEPT !.anchor = place]}
      BY DEF reconcileActiveThreadAnchors
    <2> HIDE DEF next, t, place, result
    <2>3. result.home = t.home
      BY <2>1, <2>2, DetachedType DEF Comments
    <2> QED BY <2>1, <2>3 DEF t
  <1>5. DOMAIN next.threads = DOMAIN session.threads
    BY <1>1 DEF reconcileActiveThreadAnchors
  <1> HIDE DEF next
  <1>6. ASSUME next.pending.id # 0, NEW i \in DOMAIN next.threads, next.threads[i].home = Proposal(next.pending.id)
        PROVE  Stands(next.pending, next.threads[i])
    <2>1. next.threads[i] = session.threads[i]
      BY <1>3, <1>4, <1>5, <1>6 DEF Revision, Proposal
    <2> QED BY <1>2, <1>5, <1>6, <2>1, TracedThreads DEF Stands
  <1>7. Traced(next)
    BY <1>2, <1>6 DEF Traced, Stands
  <1> QED BY <1>7, SaveTraced DEF syncExternalSource, Mutate, next

(* Nothing is pending afterwards. *)
LEMMA EndTraced ==
    ASSUME Typed(session), Traced(session), DiscardProposal \/ ApplyProposal \/ \E r : RestoreRevision(r)
    PROVE  Traced(session')
  <1>1. ASSUME NEW next, Mutate(next), next.pending.id = 0 PROVE Traced(session')
    BY <1>1, SaveTraced DEF Mutate, Traced
  <1>2. ASSUME DiscardProposal PROVE Traced(session')
    <2>1. \A threads : [session EXCEPT !.pending = NoProposal, !.threads = threads].pending = NoProposal
      BY DEF Typed, Sessions
    <2> QED BY <1>1, <1>2, <2>1, NoProposalType DEF DiscardProposal
  <1>3. ASSUME ApplyProposal PROVE Traced(session')
    <2>1. \A consumed : Applied(consumed).pending = NoProposal
      BY DEF Applied, AddRevision, Typed, Sessions
    <2> QED BY <1>1, <1>3, <2>1, NoProposalType DEF ApplyProposal
  <1>4. ASSUME NEW r, RestoreRevision(r) PROVE Traced(session')
    <2>1. \A plan, threads : [AddRevision(session, plan, {}) EXCEPT !.threads = threads].pending = session.pending
      BY DEF AddRevision, Typed, Sessions
    <2> QED BY <1>1, <1>4, <2>1 DEF RestoreRevision
  <1> QED BY <1>2, <1>3, <1>4

LEMMA TracedStep ==
    ASSUME Typed(session), Housed(session), Traced(session), [Next]_vars
    PROVE  Traced(session')
  <1>1. CASE CommentAction
    BY <1>1, CreateTraced, EditTraced, IntentTraced, DeleteTraced, UnlockedTraced DEF CommentAction
  <1>2. CASE ProposalAction
    BY <1>2, ProposeTraced, RefineTraced, EndTraced DEF ProposalAction, proposeSection, proposeReview
  <1>3. CASE (\E text \in Sources : syncExternalSource(text)) \/ \E r \in 1 .. Current(session) : RestoreRevision(r)
    BY <1>3, SyncTraced, EndTraced
  <1>4. CASE finalize \/ Reopen \/ UNCHANGED vars
    BY <1>4 DEF finalize, Save, Reopen, vars
  <1> QED BY <1>1, <1>2, <1>3, <1>4 DEF Next

LEMMA TracedInvariant == Spec => []Traced(session)
  <1>1. Init => Traced(session)
    BY NoProposalType DEF Init, Traced
  <1>2. Inv /\ Traced(session) /\ [Next]_vars => Traced(session)'
    BY SessionInvariants, TracedStep DEF Inv
  <1> QED BY <1>1, <1>2, Invariant, PTL DEF Spec

(* What every save leaves behind, for any documents, patches and bounds: a   *)
(* typed session that Validate accepts, whose comments all have a home, and   *)
(* whose pending proposal has frozen its feedback and is what its patch and   *)
(* the comments on it say.                                                   *)
THEOREM Invariance == Spec => []IInv
  <1>1. Inv /\ Traced(session) => IInv
    BY DEF Inv, IInv
  <1> QED BY <1>1, Invariant, TracedInvariant, PTL

-----------------------------------------------------------------------------
(* One revision edge. *)

LEMMA ReconciledOnText ==
    ASSUME Typed(session), NEW previous, NEW next \in Seq(Lines), NEW i \in DOMAIN session.threads,
           session.threads[i].home = Revision(Current(session)),
           LET t == reconcileActiveThreadAnchors(session, previous, next)[i]
           IN  Active(t) /\ t.text # NoText
    PROVE  OnItsText(next, reconcileActiveThreadAnchors(session, previous, next)[i])
  <1> DEFINE t == session.threads[i]
             known == IF t.text = NoText THEN Plan(session) = previous
                                         ELSE textForAnchor(previous, t.anchor) = t.text
             selected == IF t.text = NoText THEN textForAnchor(previous, t.anchor) ELSE t.text
             place == uniqueAnchorForText(next, selected)
             result == reconcileActiveThreadAnchors(session, previous, next)[i]
  <1>1. t \in Comments
    BY ThreadType
  <1>2. result = IF t.home # Revision(Current(session)) \/ ~Active(t) THEN t
                 ELSE IF ~known \/ place = NoAnchor THEN DetachThread(t)
                 ELSE [t EXCEPT !.anchor = place]
    BY DEF reconcileActiveThreadAnchors
  <1>3. place # NoAnchor => textForAnchor(next, place) = selected
    BY PlaceFound
  <1>4. DetachThread(t).status = "detached"
    BY <1>1, DetachedType
  <1>5. [t EXCEPT !.anchor = place].anchor = place /\ [t EXCEPT !.anchor = place].text = t.text
    BY <1>1 DEF Comments
  <1>6. Active(result) /\ result.text # NoText /\ t.home = Revision(Current(session))
    OBVIOUS
  <1> HIDE DEF t, known, place, result
  <1>7. OnItsText(next, result)
    <2>1. place # NoAnchor /\ result = [t EXCEPT !.anchor = place]
      BY <1>2, <1>4, <1>6 DEF Active
    <2> QED BY <1>3, <1>5, <1>6, <2>1 DEF OnItsText
  <1> QED BY <1>7 DEF result

(* Silencing an answer moves no comment. *)
LEMMA SilencedOnText ==
    ASSUME NEW t \in Comments, NEW plan
    PROVE  /\ OnItsText(plan, Silenced(t)) <=> OnItsText(plan, t)
           /\ Active(Silenced(t)) <=> Active(t)
           /\ Silenced(t).text = t.text
  BY SilencedType DEF OnItsText, Active

(* An active comment that the patch of a section proposal carries over is    *)
(* one that no hunk meets.                                                   *)
LEMMA CarriedByPatch ==
    ASSUME Typed(session), Traced(session), Pending, ~session.pending.obsolete, session.pending.hunks # <<>>,
           NEW i \in DOMAIN session.threads, OnItsText(Plan(session), session.threads[i]),
           Active(AdjustedForHunks(i, session.threads[i]))
    PROVE  LET t == AdjustedForHunks(i, session.threads[i])
           IN  t \in Comments /\ OnItsText(session.pending.plan, t)
  <1> DEFINE p == session.pending
             t == session.threads[i]
             a == t.anchor
             moved == [first |-> positionAfterHunks(a.first, p.hunks), last |-> positionAfterHunks(a.last, p.hunks)]
             result == AdjustedForHunks(i, t)
  <1>1. /\ t \in Comments /\ p.hunks \in Seq(Hunks) /\ Plan(session) \in Seq(Lines)
        /\ InOrder(Plan(session), p.hunks) /\ p.plan = ApplyHunks(Plan(session), p.hunks)
    BY ThreadType, PlanType DEF Traced, Pending, Typed, Sessions, Proposals
  <1>2. InPlan(Plan(session), a) /\ textForAnchor(Plan(session), a) = t.text /\ t.text # NoText
    BY DEF OnItsText, textForAnchor
  <1>3. ~ (\E h \in Range(p.hunks) : anchorsOverlap(a, h)) /\ result = [t EXCEPT !.anchor = moved]
    <2>1. resolveThread(t).status = "addressed" /\ DetachThread(t).status = "detached"
      BY <1>1, ResolvedType, DetachedType
    <2> QED BY <2>1 DEF AdjustedForHunks, Active
  <1>4. \A k \in 1 .. Len(p.hunks) : ~anchorsOverlap(a, p.hunks[k])
    BY <1>1, <1>3 DEF Range
  <1> HIDE DEF p, a, t, result
  <1>5. InPlan(p.plan, moved) /\ textForAnchor(p.plan, moved) = textForAnchor(Plan(session), a)
    <2>1. p.hunks \in Seq(HunksOf(Lines))
      BY <1>1, HunksOfLines
    <2> QED BY <1>1, <1>2, <1>4, <2>1, AnchorMoves
  <1>6. moved \in Anchors
    <2>1. p.plan \in Seq(Lines)
      <3>1. p.hunks \in Seq(HunksOf(Lines))
        BY <1>1, HunksOfLines
      <3> QED BY <1>1, <3>1, PatchKeepsLines
    <2> QED BY <1>5, <2>1 DEF InPlan, Anchors
  <1> HIDE DEF moved
  <1>7. result \in Comments /\ result.anchor = moved /\ result.text = t.text
    BY <1>1, <1>3, <1>6 DEF Comments
  <1> QED BY <1>2, <1>5, <1>7 DEF OnItsText, result, t, p

(* A review proposal: the comment is addressed, found again or detached. *)
LEMMA CarriedByText ==
    ASSUME Typed(session), NEW i \in DOMAIN session.threads,
           LET t == AdjustedForReview(i, session.threads[i]) IN Active(t) /\ t.text # NoText
    PROVE  LET t == AdjustedForReview(i, session.threads[i])
           IN  t \in Comments /\ OnItsText(session.pending.plan, t)
  <1> DEFINE p == session.pending
             t == session.threads[i]
             selected == IF t.text = NoText THEN textForAnchor(Plan(session), t.anchor) ELSE t.text
             place == uniqueAnchorForText(p.plan, selected)
             found == [t EXCEPT !.anchor = place]
             result == AdjustedForReview(i, t)
  <1>1. t \in Comments /\ p.plan \in Seq(Lines)
    BY ThreadType DEF Typed, Sessions, Proposals
  <1>2. place \in Anchors /\ (place # NoAnchor => textForAnchor(p.plan, place) = selected)
    BY <1>1, PlaceFound
  <1>3. resolveThread(t).status = "addressed" /\ DetachThread(t).status = "detached"
    BY <1>1, ResolvedType, DetachedType
  <1>4. result = IF i \in p.included THEN resolveThread(t)
                 ELSE IF place # NoAnchor THEN found ELSE DetachThread(t)
    BY DEF AdjustedForReview
  <1>5. Active(result) /\ result.text # NoText
    OBVIOUS
  <1>6. found \in Comments /\ found.anchor = place /\ found.text = t.text
    BY <1>1, <1>2 DEF Comments
  <1> HIDE DEF t, place, found, result, p
  <1>7. result = found /\ place # NoAnchor
    BY <1>3, <1>4, <1>5 DEF Active
  <1>8. result \in Comments /\ OnItsText(p.plan, result)
    BY <1>2, <1>5, <1>6, <1>7 DEF OnItsText
  <1> QED BY <1>8 DEF result, t, p

(* The comments whose way is known when the proposal becomes the revision. *)
LEMMA AppliedOnText ==
    ASSUME Typed(session), Housed(session), Traced(session), Pending, ~session.pending.obsolete,
           NEW i \in DOMAIN session.threads,
           \/ OnProposal(i)
           \/ /\ session.threads[i].home = Revision(Current(session))
              /\ session.pending.kind = "section" =>
                    session.pending.hunks # <<>> /\ OnItsText(Plan(session), session.threads[i]),
           Active(AfterApply(i)), AfterApply(i).text # NoText
    PROVE  OnItsText(session.pending.plan, AfterApply(i))
  <1> DEFINE p == session.pending
             t == session.threads[i]
             adopted == [t EXCEPT !.home = Revision(Current(session) + 1)]
             after   == IF OnProposal(i)
                        THEN IF p.kind = "review" /\ i \in p.included /\ Active(t)
                             THEN resolveThread(adopted) ELSE adopted
                        ELSE IF Active(t) THEN Adjusted(i, t) ELSE t
             result  == AfterApply(i)
  <1>1. t \in Comments
    BY ThreadType
  <1>2. result = IF i \in p.consumed THEN Silenced(after) ELSE after
    BY DEF AfterApply
  <1>3. Active(result) /\ result.text # NoText
    OBVIOUS
  <1>4. ASSUME after \in Comments, Active(after) /\ after.text # NoText => OnItsText(p.plan, after)
        PROVE  OnItsText(p.plan, result)
    <2> HIDE DEF after, result, p
    <2> QED BY <1>2, <1>3, <1>4, SilencedOnText
  <1>5. CASE OnProposal(i)
    <2>1. /\ adopted \in Comments /\ adopted.status = t.status /\ adopted.text = t.text
          /\ adopted.anchor = t.anchor
      <3>1. Revision(Current(session) + 1) \in {"revision", "proposal"} \X Nat
        BY PlanType DEF Revision
      <3> QED BY <1>1, <3>1 DEF Comments
    <2>2. Stands(p, t) /\ t.home = Proposal(p.id)
      BY <1>5, TracedThreads DEF OnProposal, Pending
    <2>3. resolveThread(adopted) \in Comments /\ resolveThread(adopted).status = "addressed"
      BY <2>1, ResolvedType
    <2>4. after \in {resolveThread(adopted), adopted}
      BY <1>5
    <2> HIDE DEF after, adopted, t, p
    <2>5. after \in Comments
      BY <2>1, <2>3, <2>4
    <2>6. Active(after) /\ after.text # NoText => OnItsText(p.plan, after)
      BY <2>1, <2>2, <2>3, <2>4 DEF Stands, OnItsText, Active
    <2> QED BY <1>4, <2>5, <2>6 DEF p
  <1>6. CASE ~OnProposal(i) /\ ~Active(t)
    <2>1. after = t
      BY <1>6
    <2> HIDE DEF after
    <2> QED BY <1>1, <1>4, <1>6, <2>1
  <1>7. CASE ~OnProposal(i) /\ Active(t)
    <2>1. after = Adjusted(i, t)
      BY <1>7
    <2>2. ASSUME ~Active(after) PROVE FALSE
      <3>1. ~Active(result)
        <4>1. Silenced(after).status = after.status
          <5>0. \/ Adjusted(i, t) \in {resolveThread(t), DetachThread(t)}
                \/ \E first, last : Adjusted(i, t) = [t EXCEPT !.anchor = [first |-> first, last |-> last]]
            <6> HIDE DEF t
            <6> QED BY <1>1, AdjustedCases
          <5>1. \/ after \in {resolveThread(t), DetachThread(t)}
                \/ \E first, last : after = [t EXCEPT !.anchor = [first |-> first, last |-> last]]
            <6> HIDE DEF after, t
            <6> QED BY <2>1, <5>0
          <5>2. resolveThread(t) \in Comments /\ DetachThread(t) \in Comments
            BY <1>1, ResolvedType, DetachedType
          <5> HIDE DEF after
          <5>3. CASE after \in {resolveThread(t), DetachThread(t)}
            BY <5>2, <5>3, SilencedType
          <5>4. CASE \E first, last : after = [t EXCEPT !.anchor = [first |-> first, last |-> last]]
            BY <1>1, <5>4 DEF Silenced, Comments
          <5> QED BY <5>1, <5>3, <5>4
        <4> HIDE DEF after, result
        <4> QED BY <1>2, <2>2, <4>1 DEF Active
      <3> QED BY <1>3, <3>1
    <2>3. p.kind \in {"section", "review"}
      BY DEF Typed, Sessions, Proposals
    <2>4. CASE p.kind = "section"
      <3>1. p.hunks # <<>> /\ OnItsText(Plan(session), t) /\ after = AdjustedForHunks(i, t)
        BY <1>7, <2>1, <2>4 DEF Adjusted
      <3> HIDE DEF after
      <3>2. after \in Comments /\ OnItsText(p.plan, after)
        BY <2>2, <3>1, CarriedByPatch
      <3> QED BY <1>4, <3>2
    <2>5. CASE p.kind = "review"
      <3>1. after = AdjustedForReview(i, t)
        BY <2>1, <2>5 DEF Adjusted
      <3>2. after.text # NoText
        <4>1. after \in Comments \/ \E a : after = [t EXCEPT !.anchor = a]
          BY <1>1, <3>1, ResolvedType, DetachedType DEF AdjustedForReview
        <4>2. Silenced(after).text = after.text
          <5> HIDE DEF after
          <5>1. CASE after \in Comments
            BY <5>1, SilencedType
          <5>2. CASE \E a : after = [t EXCEPT !.anchor = a]
            BY <1>1, <5>2 DEF Silenced, Comments
          <5> QED BY <4>1, <5>1, <5>2
        <4> HIDE DEF after, result
        <4> QED BY <1>2, <1>3, <4>2
      <3> HIDE DEF after
      <3>3. after \in Comments /\ OnItsText(p.plan, after)
        BY <2>2, <3>1, <3>2, CarriedByText
      <3> QED BY <1>4, <3>3
    <2> QED BY <2>3, <2>4, <2>5
  <1> QED BY <1>5, <1>6, <1>7

LEMMA EdgeCases ==
    ASSUME Typed(session), Next, Edge
    PROVE  \/ ApplyProposal
           \/ \E text \in Sources : syncExternalSource(text)
           \/ \E r \in 1 .. Current(session) : RestoreRevision(r)
  <1>1. Len(session.plans) \in Nat
    BY PlanType DEF Current
  <1>2. session'.plans # session.plans /\ session' # session
    BY <1>1 DEF Edge, Current
  <1>3. ~CommentAction
    BY <1>2, CommentsKeepPlans
  <1>4. ASSUME NEW kind, NEW anchor, NEW explicit, NEW hunks, CreateProposal(kind, anchor, explicit, hunks)
        PROVE  FALSE
    BY <1>2, <1>4 DEF CreateProposal, Mutate, Save, Typed, Sessions
  <1>5. ~(\E explicit \in {0} \union DOMAIN session.threads : proposeSection(explicit)) /\ ~proposeReview
    BY <1>4 DEF proposeSection, proposeReview
  <1>6. ASSUME NEW explicit, NEW hunks, refineProposal(explicit, hunks) PROVE FALSE
    BY <1>2, <1>6 DEF refineProposal, Mutate, Save, Typed, Sessions
  <1>7. ~DiscardProposal
    BY <1>2 DEF DiscardProposal, Mutate, Save, Typed, Sessions
  <1>8. ~finalize /\ ~Reopen
    BY <1>2 DEF finalize, Reopen, Save
  <1> QED BY <1>3, <1>5, <1>6, <1>7, <1>8 DEF Next, ProposalAction

LEMMA AppendedPlan ==
    ASSUME NEW s, Typed(s), NEW t, NEW plan \in Documents, t.plans = Append(s.plans, plan)
    PROVE  Plan(t) = plan
  <1>1. s.plans \in Seq(Documents)
    BY DEF Typed, Sessions
  <1> QED BY <1>1, AppendProperties DEF Plan

(* An edit of the plan file and a restored revision. *)
LEMMA EditedOnText ==
    ASSUME Typed(session), Edge,
           \/ \E text \in Sources : syncExternalSource(text)
           \/ \E r \in 1 .. Current(session) : RestoreRevision(r)
    PROVE  /\ ~Applying
           /\ \E previous, next \in Seq(Lines) :
                 /\ Plan(session') = next
                 /\ session'.threads = reconcileActiveThreadAnchors(session, previous, next)
  <1>1. session' # session
    BY PlanType DEF Edge
  <1>2. ASSUME NEW text \in Sources, syncExternalSource(text)
        PROVE  /\ session'.plans = Append(session.plans, text)
               /\ session'.threads = reconcileActiveThreadAnchors(session, session.source, text)
               /\ session'.pending = [session.pending EXCEPT !.obsolete = session.pending.id # 0]
    <2>1. session' = [AddRevision(session, text, {}) EXCEPT
                 !.threads = reconcileActiveThreadAnchors(session, session.source, text),
                 !.pending.obsolete = session.pending.id # 0,
                 !.source = text]
      BY <1>1, <1>2 DEF syncExternalSource, Mutate, Save
    <2> QED BY <2>1 DEF AddRevision, Typed, Sessions
  <1>3. ASSUME NEW r \in 1 .. Current(session), RestoreRevision(r)
        PROVE  /\ session'.plans = Append(session.plans, session.plans[r])
               /\ session'.threads = reconcileActiveThreadAnchors(session, Plan(session), session.plans[r])
    <2>1. session' = [AddRevision(session, session.plans[r], {}) EXCEPT
                 !.threads = reconcileActiveThreadAnchors(session, Plan(session), session.plans[r])]
      BY <1>1, <1>3 DEF RestoreRevision, Mutate, Save
    <2> QED BY <2>1 DEF AddRevision, Typed, Sessions
  <1>4. CASE \E text \in Sources : syncExternalSource(text)
    <2>1. PICK text \in Sources : syncExternalSource(text)
      BY <1>4
    <2>2. text \in Documents /\ text \in Seq(Lines) /\ session.source \in Seq(Lines)
      BY DocumentAssumption DEF Documents, Typed, Sessions
    <2>3. Plan(session') = text
      BY <1>2, <2>1, <2>2, AppendedPlan
    <2>4. session'.pending.id = session.pending.id
      BY <1>2, <2>1 DEF Typed, Sessions, Proposals
    <2> QED BY <1>2, <2>1, <2>2, <2>3, <2>4 DEF Applying, Pending
  <1>5. CASE \E r \in 1 .. Current(session) : RestoreRevision(r)
    <2>1. PICK r \in 1 .. Current(session) : RestoreRevision(r)
      BY <1>5
    <2>2. session.plans[r] \in Documents /\ session.plans[r] \in Seq(Lines) /\ Plan(session) \in Seq(Lines)
      BY PlanType DEF Documents
    <2>3. Plan(session') = session.plans[r]
      BY <1>3, <2>1, <2>2, AppendedPlan
    <2>4. ~Applying
      BY <2>1 DEF RestoreRevision, Applying, Pending
    <2> QED BY <1>3, <2>1, <2>2, <2>3, <2>4
  <1> QED BY <1>4, <1>5

LEMMA EdgeOnText ==
    ASSUME Typed(session), Housed(session), Traced(session), Next, Edge,
           NEW i \in DOMAIN session.threads, Traceable(i),
           Active(session'.threads[i]), session'.threads[i].text # NoText
    PROVE  OnItsText(Plan(session'), session'.threads[i])
  <1>1. CASE ApplyProposal
    <2> DEFINE plan == session.pending.plan
               consumed == feedbackForProposal(session.threads)
    <2>1. session' = Applied(consumed)
      BY <1>1, PlanType DEF Edge, ApplyProposal, Mutate, Save
    <2> HIDE DEF consumed
    <2>2. /\ session'.plans = Append(session.plans, plan)
          /\ session'.pending = NoProposal
          /\ session'.threads = [j \in DOMAIN session.threads |-> AfterApply(j)]
      BY <2>1 DEF Applied, AddRevision, Typed, Sessions
    <2>3. Pending /\ ~session.pending.obsolete /\ plan \in Documents
      BY <1>1 DEF ApplyProposal, Typed, Pending
    <2>4. Applying
      BY <2>2, <2>3, NoProposalType DEF Applying
    <2>5. Plan(session') = plan
      BY <2>2, <2>3, AppendedPlan
    <2>6. session'.threads[i] = AfterApply(i)
      BY <2>2
    <2>7. \/ OnProposal(i)
          \/ /\ session.threads[i].home = Revision(Current(session))
             /\ session.pending.kind = "section" =>
                   session.pending.hunks # <<>> /\ OnItsText(Plan(session), session.threads[i])
      BY <2>4 DEF Traceable
    <2> HIDE DEF plan
    <2>8. Active(AfterApply(i)) /\ AfterApply(i).text # NoText
      BY <2>6
    <2>9. OnItsText(session.pending.plan, AfterApply(i))
      BY <2>3, <2>7, <2>8, AppliedOnText
    <2> QED BY <2>5, <2>6, <2>9 DEF plan
  <1>2. CASE \/ \E text \in Sources : syncExternalSource(text)
             \/ \E r \in 1 .. Current(session) : RestoreRevision(r)
    <2>1. ~Applying
      BY <1>2, EditedOnText
    <2>2. PICK previous, next \in Seq(Lines) :
                 /\ Plan(session') = next
                 /\ session'.threads = reconcileActiveThreadAnchors(session, previous, next)
      BY <1>2, EditedOnText
    <2>3. session.threads[i].home = Revision(Current(session))
      BY <2>1 DEF Traceable
    <2> QED BY <2>2, <2>3, ReconciledOnText
  <1> QED BY <1>1, <1>2, EdgeCases

(* From revision to revision - an edit of the plan file, a restored revision, *)
(* an applied proposal - a comment that stays active stands on the text it    *)
(* was made on, for any documents, patches and bounds: a comment follows its  *)
(* text or the exact patch, or it detaches.                                   *)
THEOREM AnchorsStayOnText == Spec => AnchorsFollowText
  <1> DEFINE Followed ==
        Edge => \A i \in DOMAIN session.threads \intersect DOMAIN session'.threads :
                  /\ Traceable(i)
                  /\ Active(session'.threads[i]) /\ session'.threads[i].text # NoText
                  => OnItsText(Plan(session'), session'.threads[i])
  <1>1. ASSUME Inv, Traced(session), Next PROVE Followed
    <2>1. Typed(session) /\ Housed(session)
      BY <1>1, SessionInvariants DEF Inv
    <2> QED BY <1>1, <2>1, EdgeOnText
  <1>2. Inv /\ Traced(session) /\ [Next]_vars => [Followed]_vars
    BY <1>1
  <1> QED BY <1>2, Invariant, TracedInvariant, PTL DEF Spec, AnchorsFollowText

=============================================================================
