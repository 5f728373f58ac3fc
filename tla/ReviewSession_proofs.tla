------------------------- MODULE ReviewSession_proofs -------------------------
(* Proofs about the comments, revisions and proposals of a review, for any *)
(* lines, documents, patches and bounds.                                   *)
EXTENDS ReviewSession, TLAPS, SequenceTheorems, FiniteSetTheorems, WellFoundedInduction

-----------------------------------------------------------------------------
(* Text and anchors. *)

LEMMA RangesAreAnchors ==
    ASSUME NEW plan \in Seq(Lines), NEW a \in Ranges(plan)
    PROVE  a \in Anchors /\ InPlan(plan, a)
  BY DEF Ranges, Anchors, InPlan

LEMMA TextType ==
    ASSUME NEW plan \in Seq(Lines), NEW a
    PROVE  textForAnchor(plan, a) \in Seq(Lines)
  <1>1. CASE InPlan(plan, a)
    <2>1. a.first \in Int /\ a.last \in Int /\ \A k \in a.first .. a.last : plan[k] \in Lines
      BY <1>1 DEF InPlan
    <2>2. SubSeq(plan, a.first, a.last) \in Seq(Lines)
      BY <2>1, SubSeqProperties
    <2> QED BY <1>1, <2>2 DEF textForAnchor
  <1>2. CASE ~InPlan(plan, a)
    BY <1>2 DEF textForAnchor, NoText
  <1> QED BY <1>1, <1>2

LEMMA SelectedType ==
    ASSUME NEW plan \in Seq(Lines), NEW a, NEW text \in SelectedTexts(plan, a)
    PROVE  text \in Seq(Lines)
  <1>1. NoText \in Seq(Lines)
    BY DEF NoText
  <1> QED BY <1>1, TextType DEF SelectedTexts

(* A unique place is a place. *)
LEMMA PlaceFound ==
    ASSUME NEW plan \in Seq(Lines), NEW text
    PROVE  LET place == uniqueAnchorForText(plan, text)
           IN  /\ place \in Anchors
               /\ place # NoAnchor => InPlan(plan, place) /\ textForAnchor(plan, place) = text
  <1> DEFINE places == {a \in Ranges(plan) : textForAnchor(plan, a) = text}
             place  == uniqueAnchorForText(plan, text)
  <1>1. CASE Cardinality(places) = 1
    <2>1. places # {}
      <3>1. ASSUME places = {} PROVE Cardinality(places) = 0
        BY <3>1, FS_EmptySet, Zenon
      <3> QED BY <1>1, <3>1
    <2>2. place \in places
      BY <1>1, <2>1 DEF uniqueAnchorForText
    <2> QED BY <2>2, RangesAreAnchors
  <1>2. CASE Cardinality(places) # 1
    BY <1>2 DEF uniqueAnchorForText, NoAnchor, Anchors
  <1> QED BY <1>1, <1>2

LEMMA NoAnchorType == NoAnchor \in Anchors
  BY DEF NoAnchor, Anchors

LEMMA ClampedType ==
    ASSUME NEW plan \in Seq(Lines), NEW a \in Anchors
    PROVE  clampedLineAnchor(a, plan) \in Anchors
  BY DEF clampedLineAnchor, Anchors, smaller, larger

LEMMA ShiftedType ==
    ASSUME NEW a \in Anchors, NEW delta \in Int
    PROVE  shiftAnchor(a, delta) \in Anchors
  BY DEF shiftAnchor, Anchors, larger

(* What happens to a comment never changes where it belongs. *)
LEMMA SilencedType ==
    ASSUME NEW t \in Comments
    PROVE  /\ Silenced(t) \in Comments /\ Silenced(t).home = t.home
           /\ Silenced(t).status = t.status /\ Silenced(t).text = t.text /\ Silenced(t).anchor = t.anchor
           /\ Silenced(t).intent = t.intent
  BY DEF Silenced, Comments

LEMMA DetachedType ==
    ASSUME NEW t \in Comments
    PROVE  /\ DetachThread(t) \in Comments /\ DetachThread(t).home = t.home
           /\ DetachThread(t).status = "detached"
  BY ZenonT(40), SilencedType, NoAnchorType DEF DetachThread, Comments

LEMMA ResolvedType ==
    ASSUME NEW t \in Comments
    PROVE  /\ resolveThread(t) \in Comments /\ resolveThread(t).home = t.home
           /\ resolveThread(t).status = "addressed"
  <1>1. NoText \in Seq(Lines)
    BY DEF NoText
  <1> QED BY ZenonT(40), <1>1, SilencedType, NoAnchorType DEF resolveThread, Comments
-----------------------------------------------------------------------------
(* The parts of the invariant that speak of the session alone, for any     *)
(* session, so that they can be stated of what a handler is about to save. *)

Typed(s) ==
    /\ s \in Sessions(DOMAIN s.threads)
    /\ s.plans # <<>> /\ Len(s.feedback) = Len(s.plans)
    /\ DOMAIN s.threads \subseteq 1 .. s.nextThread
    /\ s.pending.id # 0 => s.pending.id <= s.nextProposal /\ s.pending.plan \in Documents

HasHome(s, home) ==
    \/ \E r \in 1 .. Current(s) : home = Revision(r)
    \/ s.pending.id # 0 /\ home = Proposal(s.pending.id)

Housed(s) == \A i \in DOMAIN s.threads : HasHome(s, s.threads[i].home)

(* Addressed comments of s that next still has are addressed in it. *)
KeepsAddressed(s, next) ==
    \A i \in DOMAIN s.threads \intersect DOMAIN next.threads :
        s.threads[i].status = "addressed" => next.threads[i].status = "addressed"

Step(next) == Typed(next) /\ Housed(next) /\ Frozen(next) /\ KeepsAddressed(session, next)

(* What every handler does to the saved session. *)
Progress ==
    /\ Typed(session') /\ Housed(session') /\ Frozen(session') /\ refused' \in BOOLEAN
    /\ KeepsAddressed(session, session')

LEMMA SessionInvariants ==
    /\ TypeOK => Typed(session)
    /\ Typed(session) /\ finished \in BOOLEAN /\ refused \in BOOLEAN /\ delivered \subseteq ThreadIds
         => TypeOK
    /\ ThreadsHaveHome <=> Housed(session)
  BY DEF TypeOK, Typed, ThreadsHaveHome, Housed, HasHome, OnProposal, Pending, Current

(* Saving installs what the handler made of the session, or nothing. *)
LEMMA SaveStep ==
    ASSUME Typed(session), Housed(session), Frozen(session), NEW next, Save(next), Valid(next) => Step(next)
    PROVE  Progress
  <1>1. KeepsAddressed(session, session)
    BY DEF KeepsAddressed
  <1>2. CASE Valid(next)
    BY <1>2 DEF Save, Step, Progress
  <1>3. CASE ~Valid(next)
    BY <1>1, <1>3 DEF Save, Progress
  <1> QED BY <1>2, <1>3

LEMMA ThreadType ==
    ASSUME NEW s, Typed(s), NEW i \in DOMAIN s.threads
    PROVE  s.threads[i] \in Comments /\ i \in ThreadIds
  BY BoundAssumption DEF Typed, Sessions, ThreadIds

LEMMA PlanType ==
    ASSUME NEW s, Typed(s)
    PROVE  /\ Plan(s) \in Documents /\ Plan(s) \in Seq(Lines) /\ Len(Plan(s)) \in Nat
           /\ Current(s) \in Nat \ {0}
           /\ \A r \in 1 .. Current(s) : s.plans[r] \in Documents
  <1>1. s.plans \in Seq(Documents) /\ s.plans # <<>>
    BY DEF Typed, Sessions
  <1>2. Len(s.plans) \in Nat \ {0}
    BY <1>1, EmptySeq, LenProperties
  <1>3. \A r \in 1 .. Len(s.plans) : s.plans[r] \in Documents
    BY <1>1, ElementOfSeq
  <1> QED BY <1>2, <1>3 DEF Plan, Current, Documents

(* One comment changes, and stays where it is. *)
LEMMA ChangeThread ==
    ASSUME Typed(session), Housed(session), Frozen(session), NEW i \in DOMAIN session.threads,
           NEW t \in Comments, t.home = session.threads[i].home,
           session.threads[i].status = "addressed" => t.status = "addressed",
           Pending => OnProposal(i) /\ t.status # "detached"
    PROVE  Step([session EXCEPT !.threads[i] = t])
  <1> DEFINE next == [session EXCEPT !.threads[i] = t]
  <1>1. /\ next.threads = [session.threads EXCEPT ![i] = t]
        /\ next.plans = session.plans /\ next.feedback = session.feedback
        /\ next.pending = session.pending /\ next.nextThread = session.nextThread
        /\ next.nextProposal = session.nextProposal /\ next.source = session.source
        /\ DOMAIN next.threads = DOMAIN session.threads
    BY DEF Typed, Sessions
  <1>2. Typed(next)
    BY <1>1 DEF Typed, Sessions
  <1>3. Housed(next)
    BY <1>1 DEF Housed, HasHome, Current, Typed, Sessions
  <1>4. KeepsAddressed(session, next)
    BY <1>1 DEF KeepsAddressed, Typed, Sessions
  <1>5. \A j \in DOMAIN session.threads :
           /\ next.threads[j] = IF j = i THEN t ELSE session.threads[j]
           /\ next.threads[j].home = session.threads[j].home
    BY <1>1
  <1> HIDE DEF next
  <1>6. Frozen(next)
    <2>1. ASSUME next.pending.id # 0, NEW j \in DOMAIN next.threads,
                 next.threads[j].home = Proposal(next.pending.id)
          PROVE  next.threads[j].status # "detached"
      <3>1. CASE j = i
        BY <1>1, <1>5, <2>1, <3>1 DEF Pending
      <3>2. CASE j # i
        BY <1>1, <1>5, <2>1, <3>2 DEF Frozen
      <3> QED BY <3>1, <3>2
    <2>2. ASSUME next.pending.id # 0, ~next.pending.obsolete, next.pending.kind = "review",
                 NEW j \in next.pending.included \intersect DOMAIN next.threads
          PROVE  \/ next.threads[j].home = Proposal(next.pending.id)
                 \/ next.threads[j].home = Revision(Current(next)) /\ Active(next.threads[j])
      <3>1. CASE j = i
        BY <1>1, <1>5, <2>2, <3>1 DEF Pending, OnProposal
      <3>2. CASE j # i
        BY <1>1, <1>5, <2>2, <3>2 DEF Frozen, Current
      <3> QED BY <3>1, <3>2
    <2> QED BY <2>1, <2>2 DEF Frozen
  <1> QED BY <1>2, <1>3, <1>4, <1>6 DEF Step, next

-----------------------------------------------------------------------------
(* Handlers that change one comment. *)

LEMMA ReanchorStep ==
    ASSUME Typed(session), Housed(session), Frozen(session), NEW i \in DOMAIN session.threads, handleReanchorThread(i)
    PROVE  Progress
  <1>1. PICK a \in Ranges(Plan(session)) :
           Mutate([session EXCEPT !.threads[i].anchor = a, !.threads[i].status = "active"])
    BY DEF handleReanchorThread
  <1> DEFINE t == [session.threads[i] EXCEPT !.anchor = a, !.status = "active"]
  <1>2. a \in Anchors /\ session.threads[i] \in Comments
    BY PlanType, RangesAreAnchors, ThreadType
  <1>3. t \in Comments /\ t.home = session.threads[i].home
    BY <1>2 DEF Comments
  <1>4. [session EXCEPT !.threads[i].anchor = a, !.threads[i].status = "active"]
          = [session EXCEPT !.threads[i] = t]
    BY DEF Typed, Sessions
  <1>5. Step([session EXCEPT !.threads[i] = t])
    BY <1>3, ChangeThread DEF handleReanchorThread, Active
  <1> QED BY <1>1, <1>4, <1>5, SaveStep DEF Mutate

LEMMA EditStep ==
    ASSUME Typed(session), Housed(session), Frozen(session), NEW i \in DOMAIN session.threads, handleEditThread(i)
    PROVE  Progress
  <1> DEFINE plan == TargetPlan(OnProposal(i))
  <1>1. PICK a \in Ranges(plan) : \E text \in SelectedTexts(plan, a) :
           Mutate([session EXCEPT !.threads[i].anchor = a, !.threads[i].text = text,
                                  !.threads[i].status = "active"])
    BY DEF handleEditThread
  <1>2. PICK text \in SelectedTexts(plan, a) :
           Mutate([session EXCEPT !.threads[i].anchor = a, !.threads[i].text = text,
                                  !.threads[i].status = "active"])
    BY <1>1
  <1> DEFINE t == [session.threads[i] EXCEPT !.anchor = a, !.text = text, !.status = "active"]
  <1>3. plan \in Seq(Lines)
    BY PlanType DEF TargetPlan, OnProposal, Pending, Typed, Sessions, Documents, Proposals
  <1>4. a \in Anchors /\ text \in Seq(Lines) /\ session.threads[i] \in Comments
    BY <1>3, RangesAreAnchors, ThreadType, SelectedType
  <1>5. t \in Comments /\ t.home = session.threads[i].home
    BY <1>4 DEF Comments
  <1>6. [session EXCEPT !.threads[i].anchor = a, !.threads[i].text = text, !.threads[i].status = "active"]
          = [session EXCEPT !.threads[i] = t]
    BY DEF Typed, Sessions
  <1>7. t.status = "active"
    BY <1>4 DEF Comments
  <1> HIDE DEF t
  <1>8. Step([session EXCEPT !.threads[i] = t])
    BY <1>5, <1>7, ChangeThread DEF handleEditThread, Unlocked
  <1> QED BY <1>2, <1>6, <1>8, SaveStep DEF Mutate, t

LEMMA IntentStep ==
    ASSUME Typed(session), Housed(session), Frozen(session), NEW i \in DOMAIN session.threads,
           NEW intent \in {"instruction", "private"}, handleThreadIntent(i, intent)
    PROVE  Progress
  <1> DEFINE t == [session.threads[i] EXCEPT !.intent = intent]
  <1>1. session.threads[i] \in Comments
    BY ThreadType
  <1>2. t \in Comments /\ t.home = session.threads[i].home /\ t.status = session.threads[i].status
    BY <1>1 DEF Comments
  <1>3. [session EXCEPT !.threads[i].intent = intent] = [session EXCEPT !.threads[i] = t]
    BY DEF Typed, Sessions
  <1>4. Step([session EXCEPT !.threads[i] = t])
    BY <1>2, ChangeThread DEF handleThreadIntent, Unlocked, Active
  <1> QED BY <1>3, <1>4, SaveStep DEF handleThreadIntent, Mutate

LEMMA AnswerStep ==
    ASSUME Typed(session), Housed(session), Frozen(session), NEW i \in DOMAIN session.threads,
           handleSideQuestion(i) \/ handlePromoteSideAnswer(i) \/ handleUnpromoteSideAnswer(i)
    PROVE  Progress
  <1>1. PICK answer \in {"private", "included"} : Mutate([session EXCEPT !.threads[i].answer = answer])
    BY DEF handleSideQuestion, handlePromoteSideAnswer, handleUnpromoteSideAnswer
  <1> DEFINE t == [session.threads[i] EXCEPT !.answer = answer]
  <1>2. session.threads[i] \in Comments
    BY ThreadType
  <1>3. t \in Comments /\ t.home = session.threads[i].home /\ t.status = session.threads[i].status
    BY <1>2 DEF Comments
  <1>4. [session EXCEPT !.threads[i].answer = answer] = [session EXCEPT !.threads[i] = t]
    BY DEF Typed, Sessions
  <1>5. Step([session EXCEPT !.threads[i] = t])
    BY <1>3, ChangeThread DEF handleSideQuestion, handlePromoteSideAnswer, handleUnpromoteSideAnswer
  <1> QED BY <1>1, <1>4, <1>5, SaveStep DEF Mutate

(* The reviewer confirms it: the comment enters the feedback of a revision. *)
LEMMA MarkStep ==
    ASSUME Typed(session), Housed(session), Frozen(session), NEW i \in DOMAIN session.threads,
           NEW r \in 1 .. Current(session), handleMarkThreadAddressed(i, r)
    PROVE  Progress
  <1> DEFINE t    == resolveThread(session.threads[i])
             next == [session EXCEPT !.feedback[r] = @ \union {i}, !.threads[i] = resolveThread(@)]
             mid  == [session EXCEPT !.threads[i] = t]
  <1>1. t \in Comments /\ t.home = session.threads[i].home /\ t.status = "addressed"
    BY ThreadType, ResolvedType
  <1>2. Step(mid)
    BY <1>1, ChangeThread DEF handleMarkThreadAddressed
  <1>3. session.feedback \in Seq(SUBSET ThreadIds) /\ r \in 1 .. Len(session.feedback) /\ i \in ThreadIds
    BY ThreadType DEF Typed, Sessions, Current
  <1>4. session.feedback[r] \union {i} \in SUBSET ThreadIds
    BY <1>3, ElementOfSeq
  <1> DEFINE feedback == [session.feedback EXCEPT ![r] = session.feedback[r] \union {i}]
  <1>5. feedback \in Seq(SUBSET ThreadIds) /\ Len(feedback) = Len(session.feedback)
    BY <1>3, <1>4, ExceptSeq
  <1>6. next = [mid EXCEPT !.feedback = feedback]
    BY DEF Typed, Sessions
  <1>7. /\ next.feedback = feedback /\ next.threads = mid.threads /\ next.plans = mid.plans
        /\ next.pending = mid.pending /\ next.nextThread = mid.nextThread
        /\ next.nextProposal = mid.nextProposal /\ mid.plans = session.plans
    BY <1>6 DEF Typed, Sessions
  <1>8. Typed(next)
    BY <1>2, <1>5, <1>6, <1>7 DEF Step, Typed, Sessions
  <1>9. Housed(next) /\ Frozen(next) /\ KeepsAddressed(session, next)
    BY <1>2, <1>7 DEF Step, Housed, HasHome, Frozen, KeepsAddressed, Current
  <1> QED BY <1>8, <1>9, SaveStep DEF Step, handleMarkThreadAddressed, Mutate
-----------------------------------------------------------------------------
(* Handlers that add or remove comments. *)

LEMMA AddThreadStep ==
    ASSUME Typed(session), Housed(session), Frozen(session), session.nextThread < MaxThread + MaxFollowUp,
           NEW home \in {"revision", "proposal"} \X Nat, HasHome(session, home),
           Pending => home = Proposal(session.pending.id),
           NEW a \in Anchors, NEW text \in Seq(Lines), NEW intent \in {"instruction", "private"}
    PROVE  Step(AddThread(session, home, a, text, intent))
  <1> DEFINE next == AddThread(session, home, a, text, intent)
             n == session.nextThread + 1
             t == [home |-> home, born |-> Current(session), anchor |-> a, text |-> text,
                   intent |-> intent, status |-> "active", answer |-> "none"]
  <1>1. t \in Comments
    BY PlanType DEF Comments
  <1>2. /\ next.threads = With(session.threads, n, t)
        /\ next.plans = session.plans /\ next.feedback = session.feedback
        /\ next.pending = session.pending /\ next.nextThread = n
        /\ next.nextProposal = session.nextProposal /\ next.source = session.source
    BY DEF Typed, Sessions, AddThread
  <1>3. n \in 0 .. MaxThread + MaxFollowUp /\ session.nextThread \in Nat /\ n \notin DOMAIN session.threads
    BY SMTT(30), BoundAssumption DEF Typed, Sessions
  <1>4. /\ DOMAIN next.threads = DOMAIN session.threads \union {n}
        /\ next.threads[n] = t
        /\ \A i \in DOMAIN session.threads : next.threads[i] = session.threads[i]
    BY <1>2, <1>3 DEF With
  <1>5. next.threads \in [DOMAIN session.threads \union {n} -> Comments]
    BY <1>1, <1>2, ThreadType DEF With
  <1>6. next \in Sessions(DOMAIN next.threads)
    BY <1>2, <1>3, <1>4, <1>5 DEF Typed, Sessions, AddThread
  <1>7. Typed(next)
    BY <1>2, <1>3, <1>4, <1>6 DEF Typed
  <1>8. next.threads[n].home = home /\ next.threads[n].status = "active"
    BY <1>4
  <1>9. KeepsAddressed(session, next)
    BY <1>4 DEF KeepsAddressed
  <1> HIDE DEF next, n
  <1>10. Housed(next)
    BY <1>2, <1>4, <1>8 DEF Housed, HasHome, Current
  <1>11. Frozen(next)
    <2>1. ASSUME next.pending.id # 0, NEW j \in DOMAIN next.threads,
                 next.threads[j].home = Proposal(next.pending.id)
          PROVE  next.threads[j].status # "detached"
      <3>1. CASE j = n
        BY <1>8, <3>1
      <3>2. CASE j # n
        BY <1>2, <1>4, <2>1, <3>2 DEF Frozen
      <3> QED BY <3>1, <3>2
    <2>2. ASSUME next.pending.id # 0, ~next.pending.obsolete, next.pending.kind = "review",
                 NEW j \in next.pending.included \intersect DOMAIN next.threads
          PROVE  \/ next.threads[j].home = Proposal(next.pending.id)
                 \/ next.threads[j].home = Revision(Current(next)) /\ Active(next.threads[j])
      <3>1. CASE j = n
        BY <1>2, <1>8, <2>2, <3>1 DEF Pending
      <3>2. CASE j # n
        BY <1>2, <1>4, <2>2, <3>2 DEF Frozen, Current
      <3> QED BY <3>1, <3>2
    <2> QED BY <2>1, <2>2 DEF Frozen
  <1> QED BY <1>7, <1>9, <1>10, <1>11 DEF Step, next

LEMMA CurrentHome ==
    ASSUME Typed(session)
    PROVE  /\ Revision(Current(session)) \in {"revision", "proposal"} \X Nat
           /\ HasHome(session, Revision(Current(session)))
  BY PlanType DEF HasHome, Revision

LEMMA PendingHome ==
    ASSUME Typed(session), Pending
    PROVE  /\ Proposal(session.pending.id) \in {"revision", "proposal"} \X Nat
           /\ HasHome(session, Proposal(session.pending.id))
  <1>1. session.pending.id \in Nat
    BY BoundAssumption DEF Typed, Sessions, Proposals
  <1> QED BY <1>1 DEF HasHome, Proposal, Pending

LEMMA TargetPlanType ==
    ASSUME Typed(session), NEW onProposal \in BOOLEAN, onProposal => Pending
    PROVE  TargetPlan(onProposal) \in Seq(Lines)
  BY PlanType DEF TargetPlan, Pending, Typed, Documents

LEMMA CreateStep ==
    ASSUME Typed(session), Housed(session), Frozen(session), NEW intent \in {"instruction", "private"},
           handleCreateThread(intent)
    PROVE  Progress
  <1> DEFINE plan == TargetPlan(Pending)
             home == IF Pending THEN Proposal(session.pending.id) ELSE Revision(Current(session))
  <1>0. PICK a \in Ranges(plan) : \E text \in SelectedTexts(plan, a) :
           Mutate(AddThread(session, home, a, text, intent))
    BY DEF handleCreateThread
  <1>1. PICK text \in SelectedTexts(plan, a) : Mutate(AddThread(session, home, a, text, intent))
    BY <1>0
  <1>2. plan \in Seq(Lines)
    BY TargetPlanType DEF Pending
  <1>3. a \in Anchors /\ text \in Seq(Lines)
    BY <1>2, RangesAreAnchors, SelectedType
  <1>4. home \in {"revision", "proposal"} \X Nat /\ HasHome(session, home)
    BY CurrentHome, PendingHome
  <1>5. session.nextThread < MaxThread + MaxFollowUp
    BY BoundAssumption DEF handleCreateThread, Typed, Sessions
  <1>6. Step(AddThread(session, home, a, text, intent))
    BY <1>3, <1>4, <1>5, AddThreadStep
  <1> QED BY <1>1, <1>6, SaveStep DEF Mutate

LEMMA FollowUpStep ==
    ASSUME Typed(session), Housed(session), Frozen(session), NEW i \in DOMAIN session.threads, handleCreateFollowUp(i)
    PROVE  Progress
  <1> DEFINE home == Revision(Current(session))
             intent == session.threads[i].intent
  <1>1. PICK a \in Ranges(Plan(session)) : Mutate(AddThread(session, home, a, NoText, intent))
    BY DEF handleCreateFollowUp
  <1>2. a \in Anchors /\ NoText \in Seq(Lines)
    BY PlanType, RangesAreAnchors DEF NoText
  <1>3. intent \in {"instruction", "private"}
    BY ThreadType DEF Comments
  <1>4. home \in {"revision", "proposal"} \X Nat /\ HasHome(session, home)
    BY CurrentHome
  <1>5. Step(AddThread(session, home, a, NoText, intent))
    BY <1>2, <1>3, <1>4, AddThreadStep DEF handleCreateFollowUp
  <1> QED BY <1>1, <1>5, SaveStep DEF Mutate

(* Comments go, the rest stays. *)
LEMMA RemoveThreads ==
    ASSUME Typed(session), Housed(session), Frozen(session), NEW gone
    PROVE  LET next == [session EXCEPT !.threads = Without(@, gone)]
           IN  Step(next) /\ DOMAIN next.threads = DOMAIN session.threads \ gone
  <1> DEFINE next == [session EXCEPT !.threads = Without(@, gone)]
  <1>1. /\ next.threads = Without(session.threads, gone)
        /\ next.plans = session.plans /\ next.feedback = session.feedback
        /\ next.pending = session.pending /\ next.nextThread = session.nextThread
        /\ next.nextProposal = session.nextProposal /\ next.source = session.source
    BY DEF Typed, Sessions
  <1>2. /\ DOMAIN next.threads = DOMAIN session.threads \ gone
        /\ \A i \in DOMAIN next.threads : next.threads[i] = session.threads[i]
    BY <1>1 DEF Without
  <1>3. next.threads \in [DOMAIN next.threads -> Comments]
    BY <1>1, <1>2, ThreadType DEF Without
  <1>4. next \in Sessions(DOMAIN next.threads)
    BY <1>1, <1>3 DEF Typed, Sessions
  <1>5. Typed(next)
    BY <1>1, <1>2, <1>4 DEF Typed
  <1>6. Housed(next)
    BY <1>1, <1>2 DEF Housed, HasHome, Current
  <1>7. KeepsAddressed(session, next)
    BY <1>2 DEF KeepsAddressed
  <1>8. Frozen(next)
    BY <1>1, <1>2 DEF Frozen, Current
  <1> QED BY <1>2, <1>5, <1>6, <1>7, <1>8 DEF Step

LEMMA DeleteStep ==
    ASSUME Typed(session), Housed(session), Frozen(session), NEW i \in DOMAIN session.threads, handleDeleteThread(i)
    PROVE  Progress
  BY RemoveThreads, SaveStep DEF handleDeleteThread, Mutate

-----------------------------------------------------------------------------
(* New documents under the comments. *)

LEMMA ReconciledThreads ==
    ASSUME Typed(session), Housed(session), Frozen(session), NEW previous \in Seq(Lines), NEW next \in Seq(Lines)
    PROVE  LET threads == reconcileActiveThreadAnchors(session, previous, next)
           IN  /\ threads \in [DOMAIN session.threads -> Comments]
               /\ \A i \in DOMAIN session.threads :
                     /\ threads[i].home = session.threads[i].home
                     /\ session.threads[i].status = "addressed" => threads[i].status = "addressed"
                     /\ session.threads[i].home # Revision(Current(session)) => threads[i] = session.threads[i]
  <1> DEFINE threads == reconcileActiveThreadAnchors(session, previous, next)
  <1> SUFFICES ASSUME NEW i \in DOMAIN session.threads
               PROVE  /\ threads[i] \in Comments
                      /\ threads[i].home = session.threads[i].home
                      /\ session.threads[i].status = "addressed" => threads[i].status = "addressed"
                      /\ session.threads[i].home # Revision(Current(session)) => threads[i] = session.threads[i]
    BY DEF reconcileActiveThreadAnchors
  <1> DEFINE t == session.threads[i]
             selected == IF t.text = NoText THEN textForAnchor(previous, t.anchor) ELSE t.text
             place == uniqueAnchorForText(next, selected)
  <1>1. t \in Comments /\ place \in Anchors
    BY ThreadType, PlaceFound
  <1>2. threads[i] = t \/ (t.home = Revision(Current(session)) /\ Active(t) /\ threads[i] \in {DetachThread(t), [t EXCEPT !.anchor = place]})
    BY DEF reconcileActiveThreadAnchors
  <1>3. [t EXCEPT !.anchor = place] \in Comments /\ [t EXCEPT !.anchor = place].home = t.home
    BY <1>1 DEF Comments
  <1>4. DetachThread(t) \in Comments /\ DetachThread(t).home = t.home
    BY <1>1, DetachedType
  <1> HIDE DEF threads, place, t
  <1>5. threads[i] \in Comments /\ threads[i].home = t.home
    BY <1>1, <1>2, <1>3, <1>4
  <1>6. t.status = "addressed" => threads[i].status = "addressed"
    BY <1>2 DEF Active
  <1>7. t.home # Revision(Current(session)) => threads[i] = t
    BY <1>2
  <1> QED BY <1>5, <1>6, <1>7 DEF t

(* A revision is added; the comments, the proposal and the source become   *)
(* what the handler says.                                                  *)
LEMMA NewRevision ==
    ASSUME Typed(session), NEW plan \in Documents, NEW consumed \in SUBSET ThreadIds,
           NEW threads \in [DOMAIN session.threads -> Comments],
           NEW pending \in Proposals, NEW source \in Documents,
           pending.id # 0 => pending.id <= session.nextProposal /\ pending.plan \in Documents,
           \A i \in DOMAIN session.threads :
              \/ \E r \in 1 .. Current(session) + 1 : threads[i].home = Revision(r)
              \/ pending.id # 0 /\ threads[i].home = Proposal(pending.id),
           \A i \in DOMAIN session.threads :
              session.threads[i].status = "addressed" => threads[i].status = "addressed",
           pending.id # 0 => /\ pending.obsolete
                             /\ \A i \in DOMAIN session.threads :
                                   threads[i].home = Proposal(pending.id) => threads[i].status # "detached"
    PROVE  Step([AddRevision(session, plan, consumed) EXCEPT
                    !.pending = pending, !.threads = threads, !.source = source])
  <1> DEFINE next == [AddRevision(session, plan, consumed) EXCEPT
                         !.pending = pending, !.threads = threads, !.source = source]
  <1>1. /\ next.plans = Append(session.plans, plan) /\ next.feedback = Append(session.feedback, consumed)
        /\ next.threads = threads /\ next.pending = pending /\ next.source = source
        /\ next.nextThread = session.nextThread /\ next.nextProposal = session.nextProposal
        /\ DOMAIN next = DOMAIN session
    BY DEF Typed, Sessions, AddRevision
  <1>2. /\ next.plans \in Seq(Documents) /\ next.plans # <<>> /\ Len(next.plans) = Len(session.plans) + 1
        /\ next.feedback \in Seq(SUBSET ThreadIds) /\ Len(next.feedback) = Len(session.feedback) + 1
    <2>1. session.plans \in Seq(Documents) /\ session.feedback \in Seq(SUBSET ThreadIds)
      BY DEF Typed, Sessions
    <2>2. /\ Append(session.plans, plan) \in Seq(Documents) /\ Append(session.plans, plan) # <<>>
          /\ Len(Append(session.plans, plan)) = Len(session.plans) + 1
      BY <2>1, AppendProperties
    <2>3. /\ Append(session.feedback, consumed) \in Seq(SUBSET ThreadIds)
          /\ Len(Append(session.feedback, consumed)) = Len(session.feedback) + 1
      BY <2>1, AppendProperties
    <2> HIDE DEF next
    <2> QED BY <1>1, <2>2, <2>3
  <1>3. next \in Sessions(DOMAIN threads)
    BY <1>1, <1>2 DEF Typed, Sessions, AddRevision
  <1>4. Typed(next)
    BY <1>1, <1>2, <1>3 DEF Typed
  <1>5. Housed(next)
    BY <1>1, <1>2 DEF Housed, HasHome, Current
  <1>6. KeepsAddressed(session, next)
    BY <1>1 DEF KeepsAddressed
  <1>7. Frozen(next)
    BY <1>1 DEF Frozen
  <1> QED BY <1>4, <1>5, <1>6, <1>7 DEF Step

(* An earlier home is a home after a new revision. *)
LEMMA HomesStay ==
    ASSUME Typed(session), Housed(session), Frozen(session), NEW i \in DOMAIN session.threads
    PROVE  \/ \E r \in 1 .. Current(session) + 1 : session.threads[i].home = Revision(r)
           \/ Pending /\ session.threads[i].home = Proposal(session.pending.id)
  <1>1. HasHome(session, session.threads[i].home)
    BY DEF Housed
  <1>2. \A r \in 1 .. Current(session) : r \in 1 .. Current(session) + 1
    BY PlanType
  <1> QED BY <1>1, <1>2 DEF HasHome, Pending

LEMMA SyncStep ==
    ASSUME Typed(session), Housed(session), Frozen(session), NEW text \in Sources, syncExternalSource(text)
    PROVE  Progress
  <1> DEFINE threads == reconcileActiveThreadAnchors(session, session.source, text)
             pending == [session.pending EXCEPT !.obsolete = session.pending.id # 0]
             next == [AddRevision(session, text, {}) EXCEPT
                         !.threads = threads, !.pending.obsolete = session.pending.id # 0, !.source = text]
  <1>1. text \in Documents /\ text \in Seq(Lines) /\ session.source \in Seq(Lines)
    BY DocumentAssumption DEF Documents, Typed, Sessions
  <1>2. /\ threads \in [DOMAIN session.threads -> Comments]
        /\ \A i \in DOMAIN session.threads :
              /\ threads[i].home = session.threads[i].home
              /\ session.threads[i].status = "addressed" => threads[i].status = "addressed"
              /\ session.threads[i].home # Revision(Current(session)) => threads[i] = session.threads[i]
    BY <1>1, ReconciledThreads
  <1>3. session.pending \in Proposals
    BY DEF Typed, Sessions
  <1>4. /\ pending \in Proposals /\ pending.id = session.pending.id /\ pending.plan = session.pending.plan
    BY <1>3 DEF Proposals
  <1>5. \A i \in DOMAIN session.threads :
              \/ \E r \in 1 .. Current(session) + 1 : threads[i].home = Revision(r)
              \/ pending.id # 0 /\ threads[i].home = Proposal(pending.id)
    BY <1>2, <1>4, HomesStay DEF Pending
  <1>6. next = [AddRevision(session, text, {}) EXCEPT
                   !.pending = pending, !.threads = threads, !.source = text]
    BY DEF Typed, Sessions, AddRevision
  <1>7. pending.id # 0 => pending.id <= session.nextProposal /\ pending.plan \in Documents
    BY <1>4 DEF Typed
  <1>10. pending.id # 0 => pending.obsolete
    BY <1>3, <1>4 DEF Proposals
  <1>11. ASSUME pending.id # 0, NEW i \in DOMAIN session.threads, threads[i].home = Proposal(pending.id)
         PROVE  threads[i].status # "detached"
    <2>1. session.threads[i].home = Proposal(session.pending.id) /\ session.pending.id # 0
      BY <1>2, <1>4, <1>11
    <2>2. session.threads[i].home # Revision(Current(session))
      BY <2>1 DEF Proposal, Revision
    <2> QED BY <1>2, <2>1, <2>2 DEF Frozen
  <1> HIDE DEF threads, pending, next
  <1>8. Step([AddRevision(session, text, {}) EXCEPT
                   !.pending = pending, !.threads = threads, !.source = text])
    BY <1>1, <1>2, <1>4, <1>5, <1>7, <1>10, <1>11, NewRevision
  <1>9. Step(next)
    BY <1>6, <1>8
  <1> QED BY <1>9, SaveStep DEF syncExternalSource, Mutate, next, threads

LEMMA RestoreStep ==
    ASSUME Typed(session), Housed(session), Frozen(session), NEW r \in 1 .. Current(session), RestoreRevision(r)
    PROVE  Progress
  <1> DEFINE plan    == session.plans[r]
             threads == reconcileActiveThreadAnchors(session, Plan(session), plan)
             next    == [AddRevision(session, plan, {}) EXCEPT !.threads = threads]
  <1>1. plan \in Documents /\ plan \in Seq(Lines) /\ Plan(session) \in Seq(Lines)
    BY PlanType DEF Documents
  <1>2. /\ threads \in [DOMAIN session.threads -> Comments]
        /\ \A i \in DOMAIN session.threads :
              /\ threads[i].home = session.threads[i].home
              /\ session.threads[i].status = "addressed" => threads[i].status = "addressed"
              /\ session.threads[i].home # Revision(Current(session)) => threads[i] = session.threads[i]
    BY <1>1, ReconciledThreads
  <1>3. session.pending \in Proposals /\ session.source \in Documents
    BY DEF Typed, Sessions
  <1>4. \A i \in DOMAIN session.threads :
              \/ \E q \in 1 .. Current(session) + 1 : threads[i].home = Revision(q)
              \/ session.pending.id # 0 /\ threads[i].home = Proposal(session.pending.id)
    BY <1>2, HomesStay DEF Pending
  <1>5. next = [AddRevision(session, plan, {}) EXCEPT
                   !.pending = session.pending, !.threads = threads, !.source = session.source]
    BY DEF Typed, Sessions, AddRevision
  <1>6. session.pending.id = 0
    BY DEF RestoreRevision
  <1> HIDE DEF threads, plan, next
  <1>7. Step([AddRevision(session, plan, {}) EXCEPT
                   !.pending = session.pending, !.threads = threads, !.source = session.source])
    BY <1>1, <1>2, <1>3, <1>4, <1>6, NewRevision
  <1>8. Step(next)
    BY <1>5, <1>7
  <1> QED BY <1>8, SaveStep DEF RestoreRevision, Mutate, next, threads, plan

-----------------------------------------------------------------------------
(* Proposals. *)

LEMMA NoProposalType == NoProposal \in Proposals /\ NoProposal.id = 0
  <1>1. <<>> \in Seq(Lines) /\ <<>> \in Seq(Hunks) /\ 0 \in 0 .. MaxProposal
    BY BoundAssumption
  <1> QED BY <1>1, NoAnchorType DEF NoProposal, Proposals

LEMMA ResolvedHunks ==
    ASSUME NEW plan, NEW hunks \in Resolved(plan)
    PROVE  /\ hunks \in Seq(Hunks) /\ hunks # <<>>
           /\ ApplyHunks(plan, hunks) \in Documents /\ ApplyHunks(plan, hunks) \in Seq(Lines)
  <1>1. hunks \in Patches /\ ApplyHunks(plan, hunks) \in Documents
    BY DEF Resolved
  <1> QED BY <1>1, DocumentAssumption DEF Documents

LEMMA PrimaryType ==
    ASSUME NEW hunks \in Seq(Hunks), hunks # <<>>, NEW anchor
    PROVE  primaryResolvedHunk(hunks, anchor) \in Anchors
  <1> DEFINE meeting == {i \in 1 .. Len(hunks) : anchorsOverlap(hunks[i], anchor)}
             least   == IF meeting = {} THEN 1 ELSE CHOOSE i \in meeting : \A j \in meeting : i <= j
  <1>1. Len(hunks) \in Nat \ {0}
    BY EmptySeq, LenProperties
  <1>2. ASSUME meeting # {} PROVE \E i \in meeting : \A j \in meeting : i <= j
    <2>1. meeting \subseteq Nat
      BY <1>1
    <2>2. PICK i \in meeting : \A j \in meeting : ~ (<<j, i>> \in OpToRel(<, Nat))
      <3> HIDE DEF meeting
      <3> QED BY <1>2, <2>1, NatLessThanWellFounded, WFMin
    <2>3. \A j \in meeting : ~ (j < i)
      BY <2>1, <2>2 DEF OpToRel
    <2> QED BY <2>1, <2>3
  <1>3. least \in 1 .. Len(hunks)
    BY SMTT(30), <1>1, <1>2
  <1>4. hunks[least] \in Hunks
    <2> HIDE DEF least
    <2> QED BY <1>3, ElementOfSeq
  <1> QED BY <1>4 DEF primaryResolvedHunk, Hunks, Anchors

LEMMA SelectedIds ==
    ASSUME Typed(session), NEW home, NEW scope, NEW explicit
    PROVE  Selected(home, scope, explicit) \subseteq ThreadIds /\ SelectedAnswers(scope, explicit) \subseteq ThreadIds
  BY ThreadType DEF Selected, SelectedAnswers

LEMMA CreateProposalStep ==
    ASSUME Typed(session), Housed(session), Frozen(session), ~Pending, session.nextProposal < MaxProposal,
           NEW kind \in {"section", "review"}, NEW anchor \in Anchors, NEW explicit,
           NEW hunks \in Resolved(Plan(session)), CreateProposal(kind, anchor, explicit, hunks)
    PROVE  Progress
  <1> DEFINE scope == IF kind = "review" THEN Everywhere ELSE anchor
             p == [id |-> session.nextProposal + 1, kind |-> kind, parent |-> Current(session),
                   plan |-> ApplyHunks(Plan(session), hunks), anchor |-> anchor,
                   applied |-> primaryResolvedHunk(hunks, anchor), hunks |-> hunks,
                   included |-> Selected(Revision(Current(session)), anchor, explicit),
                   consumed |-> SelectedAnswers(scope, explicit), obsolete |-> FALSE]
             next == [session EXCEPT !.nextProposal = @ + 1, !.pending = p]
  <1>1. session.nextProposal \in Nat /\ session.nextProposal + 1 \in 0 .. MaxProposal
    BY BoundAssumption DEF Typed, Sessions
  <1>2. p \in Proposals
    BY <1>1, PlanType, ResolvedHunks, PrimaryType, SelectedIds DEF Proposals
  <1>3. /\ next.threads = session.threads /\ next.plans = session.plans /\ next.feedback = session.feedback
        /\ next.pending = p /\ next.nextThread = session.nextThread
        /\ next.nextProposal = session.nextProposal + 1
    BY DEF Typed, Sessions
  <1>4. p.id = session.nextProposal + 1 /\ p.plan \in Documents
    BY ResolvedHunks
  <1> HIDE DEF p
  <1>5. next \in Sessions(DOMAIN session.threads)
    BY <1>1, <1>2 DEF Typed, Sessions
  <1>6. Typed(next)
    BY <1>1, <1>3, <1>4, <1>5 DEF Typed
  <1>7. Housed(next)
    BY <1>3 DEF Housed, HasHome, Pending, Current
  <1>8. KeepsAddressed(session, next)
    BY <1>3 DEF KeepsAddressed
  <1>10. \A i \in DOMAIN session.threads : session.threads[i].home # Proposal(p.id)
    BY DEF Housed, HasHome, Pending, Revision, Proposal
  <1>11. \A i \in p.included : session.threads[i].home = Revision(Current(session)) /\ Active(session.threads[i])
    BY DEF p, Selected
  <1>12. Frozen(next)
    BY <1>3, <1>10, <1>11 DEF Frozen, Current
  <1>9. Step(next)
    BY <1>6, <1>7, <1>8, <1>12 DEF Step
  <1> QED BY <1>9, SaveStep DEF CreateProposal, Mutate, p

LEMMA ProposeStep ==
    ASSUME Typed(session), Housed(session), Frozen(session),
           (\E explicit \in {0} \union DOMAIN session.threads : proposeSection(explicit)) \/ proposeReview
    PROVE  Progress
  <1>1. ASSUME NEW explicit, proposeSection(explicit) PROVE Progress
    BY <1>1, PlanType, RangesAreAnchors, CreateProposalStep DEF proposeSection
  <1>2. ASSUME proposeReview PROVE Progress
    <2>1. Whole(Plan(session)) \in Anchors
      BY PlanType DEF Whole, Anchors
    <2> QED BY <1>2, <2>1, CreateProposalStep DEF proposeReview
  <1> QED BY <1>1, <1>2

LEMMA DiscardStep ==
    ASSUME Typed(session), Housed(session), Frozen(session), DiscardProposal
    PROVE  Progress
  <1> DEFINE gone == {i \in DOMAIN session.threads : OnProposal(i)}
             mid  == [session EXCEPT !.threads = Without(@, gone)]
             next == [session EXCEPT !.pending = NoProposal, !.threads = Without(@, gone)]
  <1>1. Step(mid) /\ DOMAIN mid.threads = DOMAIN session.threads \ gone
    BY RemoveThreads
  <1>2. /\ next.threads = mid.threads /\ next.plans = mid.plans /\ next.feedback = mid.feedback
        /\ next.pending = NoProposal /\ next.nextThread = mid.nextThread
        /\ next = [mid EXCEPT !.pending = NoProposal]
        /\ mid.pending = session.pending /\ mid.threads = Without(session.threads, gone)
    BY DEF Typed, Sessions
  <1>3. Typed(next)
    BY <1>1, <1>2, NoProposalType DEF Step, Typed, Sessions
  <1>4. Housed(next)
    <2> SUFFICES ASSUME NEW i \in DOMAIN next.threads PROVE \E r \in 1 .. Current(next) : next.threads[i].home = Revision(r)
      BY DEF Housed, HasHome
    <2>1. HasHome(mid, mid.threads[i].home)
      BY <1>1, <1>2 DEF Step, Housed
    <2>2. ~OnProposal(i) /\ mid.threads[i] = session.threads[i] /\ i \in DOMAIN session.threads
      BY <1>1, <1>2 DEF Without
    <2> QED BY <1>2, <2>1, <2>2 DEF HasHome, OnProposal, Pending, Current
  <1>5. KeepsAddressed(session, next)
    BY <1>1, <1>2 DEF Step, KeepsAddressed
  <1>7. Frozen(next)
    BY <1>2, NoProposalType DEF Frozen
  <1>6. Step(next)
    BY <1>3, <1>4, <1>5, <1>7 DEF Step
  <1> QED BY <1>6, SaveStep DEF DiscardProposal, Mutate

(* The comments on a refined proposal all move to the next one. *)
LEMMA RetargetedThreads ==
    ASSUME Typed(session), Housed(session), Frozen(session), Pending, NEW next \in Seq(Lines),
           NEW i \in DOMAIN session.threads
    PROVE  LET t   == RetargetProposalThreads(next)[i]
               old == session.threads[i]
           IN  /\ t \in Comments
               /\ t.home = IF OnProposal(i) THEN Proposal(session.nextProposal + 1) ELSE old.home
               /\ old.status = "addressed" => t.status = "addressed"
               /\ ~OnProposal(i) => t = old
               /\ OnProposal(i) => t.status # "detached"
  <1> DEFINE home == Proposal(session.nextProposal + 1)
             t    == session.threads[i]
             selected == IF t.text = NoText THEN textForAnchor(session.pending.plan, t.anchor) ELSE t.text
             place    == uniqueAnchorForText(next, selected)
             moved    == IF place # NoAnchor THEN [t EXCEPT !.home = home, !.anchor = place]
                         ELSE [t EXCEPT !.home = home, !.text = NoText, !.anchor = clampedLineAnchor(t.anchor, next)]
             kept     == [t EXCEPT !.home = home]
             result   == RetargetProposalThreads(next)[i]
  <1>1. t \in Comments /\ place \in Anchors /\ home \in {"revision", "proposal"} \X Nat /\ NoText \in Seq(Lines)
    BY SMTT(30), ThreadType, PlaceFound, BoundAssumption DEF Typed, Sessions, Proposal, NoText
  <1>2. clampedLineAnchor(t.anchor, next) \in Anchors
    BY <1>1, ClampedType DEF Comments
  <1>3. result = IF ~OnProposal(i) THEN t
                 ELSE IF ~Active(t) THEN kept
                 ELSE IF t.intent = "instruction" THEN resolveThread(moved)
                 ELSE moved
    BY DEF RetargetProposalThreads
  <1> HIDE DEF home, t, place, result
  <1>4. moved \in Comments /\ moved.home = home /\ moved.status = t.status
    BY <1>1, <1>2 DEF Comments
  <1>5. kept \in Comments /\ kept.home = home /\ kept.status = t.status
    BY <1>1 DEF Comments
  <1> HIDE DEF moved, kept
  <1>6. /\ resolveThread(moved) \in Comments /\ resolveThread(moved).home = home
        /\ resolveThread(moved).status = "addressed"
    BY <1>4, ResolvedType
  <1>9. OnProposal(i) => t.status # "detached"
    BY DEF OnProposal, Frozen, Pending, t
  <1>7. result \in Comments /\ result.home = IF OnProposal(i) THEN home ELSE t.home
    BY <1>1, <1>3, <1>4, <1>5, <1>6
  <1>8. t.status = "addressed" => result.status = "addressed"
    BY <1>3, <1>5 DEF Active
  <1>10. OnProposal(i) => result.status # "detached"
    BY <1>3, <1>4, <1>5, <1>6, <1>9
  <1> QED BY <1>3, <1>7, <1>8, <1>10 DEF home, t, result

LEMMA RefineStep ==
    ASSUME Typed(session), Housed(session), Frozen(session), Pending, NEW explicit,
           NEW hunks \in Resolved(session.pending.plan), refineProposal(explicit, hunks)
    PROVE  Progress
  <1> DEFINE old  == session.pending
             plan == ApplyHunks(old.plan, hunks)
             threads  == RetargetProposalThreads(plan)
             included == IF old.included # {} THEN old.included
                         ELSE Selected(Proposal(old.id), Everywhere, explicit)
             consumed == IF old.kind = "review" /\ old.consumed # {} THEN old.consumed
                         ELSE SelectedAnswers(old.anchor, explicit)
             p == [old EXCEPT !.id = session.nextProposal + 1, !.plan = plan, !.hunks = <<>>,
                              !.included = included, !.consumed = consumed]
             next == [session EXCEPT !.nextProposal = @ + 1, !.threads = threads, !.pending = p]
  <1>1. /\ session.nextProposal \in Nat /\ session.nextProposal + 1 \in 0 .. MaxProposal
        /\ old \in Proposals
    BY BoundAssumption DEF refineProposal, Typed, Sessions
  <1>2. plan \in Documents /\ plan \in Seq(Lines)
    BY ResolvedHunks
  <1>3. included \in SUBSET ThreadIds /\ consumed \in SUBSET ThreadIds /\ <<>> \in Seq(Hunks)
    <2>1. old.included \in SUBSET ThreadIds /\ old.consumed \in SUBSET ThreadIds
      BY <1>1 DEF Proposals
    <2>2. /\ Selected(Proposal(old.id), Everywhere, explicit) \in SUBSET ThreadIds
          /\ SelectedAnswers(old.anchor, explicit) \in SUBSET ThreadIds
      BY SelectedIds
    <2> QED BY <2>1, <2>2
  <1>4. Mutate(next)
    BY DEF refineProposal, Typed, Sessions
  <1> HIDE DEF included, consumed, plan
  <1>5. p \in Proposals /\ p.id = session.nextProposal + 1 /\ p.plan = plan
    BY <1>1, <1>2, <1>3 DEF Proposals
  <1>6. \A i \in DOMAIN session.threads :
           /\ threads[i] \in Comments
           /\ threads[i].home = IF OnProposal(i) THEN Proposal(session.nextProposal + 1)
                                ELSE session.threads[i].home
           /\ session.threads[i].status = "addressed" => threads[i].status = "addressed"
           /\ ~OnProposal(i) => threads[i] = session.threads[i]
           /\ OnProposal(i) => threads[i].status # "detached"
    BY <1>2, RetargetedThreads
  <1>7. threads \in [DOMAIN session.threads -> Comments]
    BY <1>6 DEF RetargetProposalThreads
  <1>14. \A i \in included \intersect DOMAIN session.threads : i \in old.included \/ OnProposal(i)
    BY DEF included, Selected, OnProposal
  <1>15. p.included = included /\ p.obsolete = old.obsolete /\ p.kind = old.kind
    BY <1>1 DEF Proposals
  <1> HIDE DEF p, threads
  <1>8. /\ next.threads = threads /\ next.plans = session.plans /\ next.feedback = session.feedback
        /\ next.pending = p /\ next.nextThread = session.nextThread
        /\ next.nextProposal = session.nextProposal + 1 /\ DOMAIN threads = DOMAIN session.threads
    BY <1>7 DEF Typed, Sessions
  <1>9. next \in Sessions(DOMAIN session.threads)
    BY <1>1, <1>5, <1>7 DEF Typed, Sessions
  <1>10. Typed(next)
    BY <1>1, <1>2, <1>5, <1>8, <1>9 DEF Typed
  <1>11. Housed(next)
    BY <1>1, <1>5, <1>6, <1>8 DEF Housed, HasHome, OnProposal, Pending, Current
  <1>12. KeepsAddressed(session, next)
    BY <1>6, <1>8 DEF KeepsAddressed
  <1>16. ASSUME NEW i \in DOMAIN session.threads, threads[i].home = Proposal(p.id)
         PROVE  OnProposal(i)
    <2>1. ASSUME ~OnProposal(i) PROVE FALSE
      <3>1. PICK r \in 1 .. Current(session) : session.threads[i].home = Revision(r)
        BY <2>1 DEF Housed, HasHome, OnProposal, Pending
      <3> QED BY <1>6, <1>16, <2>1, <3>1 DEF Revision, Proposal
    <2> QED BY <2>1
  <1>17. ASSUME ~p.obsolete, p.kind = "review", NEW i \in p.included \intersect DOMAIN session.threads
         PROVE  \/ threads[i].home = Proposal(p.id)
                \/ threads[i].home = Revision(Current(session)) /\ Active(threads[i])
    <2>1. CASE OnProposal(i)
      BY <1>5, <1>6, <2>1
    <2>2. CASE ~OnProposal(i)
      BY <1>6, <1>14, <1>15, <1>17, <2>2 DEF Frozen, Pending, OnProposal
    <2> QED BY <2>1, <2>2
  <1>18. Frozen(next)
    BY <1>6, <1>8, <1>16, <1>17 DEF Frozen, Current
  <1>13. Step(next)
    BY <1>10, <1>11, <1>12, <1>18 DEF Step
  <1> QED BY <1>4, <1>13, SaveStep DEF Mutate

(* What adjusting an active comment to the applied proposal can do to it.  *)
(* Where it stands in the new document is only known to be right once the  *)
(* session has been validated.                                             *)
LEMMA AdjustedCases ==
    ASSUME Typed(session), NEW i, NEW t \in Comments
    PROVE  \/ Adjusted(i, t) \in {resolveThread(t), DetachThread(t)}
           \/ \E first, last : Adjusted(i, t) = [t EXCEPT !.anchor = [first |-> first, last |-> last]]
  <1> DEFINE At(first, last) == [t EXCEPT !.anchor = [first |-> first, last |-> last]]
  <1>1. session.pending.plan \in Seq(Lines)
    BY DEF Typed, Sessions, Proposals
  <1>2. \A a \in Anchors : [t EXCEPT !.anchor = a] = At(a.first, a.last)
    BY DEF Anchors
  <1>3. t = At(t.anchor.first, t.anchor.last)
    BY DEF Comments, Anchors
  <1>4. AdjustedForReview(i, t) \in {resolveThread(t), DetachThread(t)}
        \/ \E a \in Anchors : AdjustedForReview(i, t) = [t EXCEPT !.anchor = a]
    BY <1>1, PlaceFound DEF AdjustedForReview
  <1>5. AdjustedForRange(i, t) \in {resolveThread(t), DetachThread(t), t}
        \/ \E first, last : AdjustedForRange(i, t) = At(first, last)
    BY DEF AdjustedForRange, shiftAnchor
  <1>6. AdjustedForHunks(i, t) \in {resolveThread(t), DetachThread(t)}
        \/ \E first, last : AdjustedForHunks(i, t) = At(first, last)
    BY DEF AdjustedForHunks
  <1>7. ASSUME NEW a \in Anchors, AdjustedForReview(i, t) = [t EXCEPT !.anchor = a]
        PROVE  AdjustedForReview(i, t) = At(a.first, a.last)
    BY <1>2, <1>7
  <1>8. \/ Adjusted(i, t) \in {resolveThread(t), DetachThread(t)}
        \/ \E first, last : Adjusted(i, t) = At(first, last)
    <2> HIDE DEF At
    <2> QED BY <1>3, <1>4, <1>5, <1>6, <1>7 DEF Adjusted
  <1> QED BY <1>8

LEMMA AppliedThread ==
    ASSUME Typed(session), Housed(session), Frozen(session), NEW i \in DOMAIN session.threads
    PROVE  LET old == session.threads[i]
               t   == AfterApply(i)
           IN  /\ ~Active(t) \/ InPlan(session.pending.plan, t.anchor) => t \in Comments
               /\ t.home = IF OnProposal(i) THEN Revision(Current(session) + 1) ELSE old.home
               /\ old.status = "addressed" => t.status = "addressed"
  <1> DEFINE p == session.pending
             t == session.threads[i]
             adopted == [t EXCEPT !.home = Revision(Current(session) + 1)]
             after   == IF OnProposal(i)
                        THEN IF p.kind = "review" /\ i \in p.included /\ Active(t)
                             THEN resolveThread(adopted) ELSE adopted
                        ELSE IF Active(t) THEN Adjusted(i, t) ELSE t
             home    == IF OnProposal(i) THEN Revision(Current(session) + 1) ELSE t.home
             Right(u) == /\ ~Active(u) \/ InPlan(p.plan, u.anchor) => u \in Comments
                         /\ u.home = home
                         /\ t.status = "addressed" => u.status = "addressed"
  <1>1. t \in Comments /\ p.plan \in Seq(Lines) /\ Len(p.plan) \in Nat
    BY ThreadType, LenProperties DEF Typed, Sessions, Proposals
  <1>2. adopted \in Comments /\ adopted.home = Revision(Current(session) + 1) /\ adopted.status = t.status
    <2>1. Revision(Current(session) + 1) \in {"revision", "proposal"} \X Nat
      BY PlanType DEF Revision
    <2> QED BY <1>1, <2>1 DEF Comments
  <1>3. AfterApply(i) = IF i \in p.consumed THEN Silenced(after) ELSE after
    BY DEF AfterApply
  <1> HIDE DEF adopted, t, p
  <1>4. CASE OnProposal(i)
    <2>1. after \in Comments /\ after.home = home /\ (t.status = "addressed" => after.status = "addressed")
      BY <1>2, <1>4, ResolvedType
    <2> HIDE DEF after, home
    <2>2. Right(after) /\ Right(Silenced(after))
      BY <2>1, SilencedType
    <2> QED BY <1>3, <2>2 DEF t, p, home
  <1>5. CASE ~OnProposal(i) /\ ~Active(t)
    <2>1. after = t
      BY <1>5
    <2> HIDE DEF after
    <2>2. Right(after) /\ Right(Silenced(after))
      BY <1>1, <1>5, <2>1, SilencedType
    <2> QED BY <1>3, <2>2 DEF t, p
  <1>6. CASE ~OnProposal(i) /\ Active(t) /\ after \in {resolveThread(t), DetachThread(t)}
    <2>1. after \in Comments /\ after.home = home
      BY <1>1, <1>6, ResolvedType, DetachedType
    <2> HIDE DEF after
    <2>2. Right(after) /\ Right(Silenced(after))
      BY <1>6, <2>1, SilencedType DEF Active
    <2> QED BY <1>3, <2>2 DEF t, p
  <1>7. ASSUME ~OnProposal(i), Active(t), NEW first, NEW last,
               after = [t EXCEPT !.anchor = [first |-> first, last |-> last]]
        PROVE  Right(after) /\ Right(Silenced(after))
    <2>1. /\ after.anchor = [first |-> first, last |-> last] /\ after.home = t.home /\ after.status = "active"
          /\ Silenced(after).anchor = after.anchor /\ Silenced(after).home = t.home
          /\ Silenced(after).status = "active"
      BY <1>1, <1>7 DEF Comments, Silenced, Active
    <2>2. ASSUME InPlan(p.plan, after.anchor) PROVE after \in Comments
      <3>1. first \in Nat /\ last \in Nat
        BY <1>1, <2>1, <2>2 DEF InPlan
      <3> QED BY <1>1, <1>7, <3>1 DEF Comments, Anchors
    <2> HIDE DEF after
    <2>3. ASSUME InPlan(p.plan, Silenced(after).anchor) PROVE Silenced(after) \in Comments
      BY <2>1, <2>2, <2>3, SilencedType
    <2> QED BY <1>7, <2>1, <2>2, <2>3 DEF Active
  <1>8. ~OnProposal(i) /\ Active(t) =>
           \/ after \in {resolveThread(t), DetachThread(t)}
           \/ \E first, last : after = [t EXCEPT !.anchor = [first |-> first, last |-> last]]
    BY <1>1, AdjustedCases
  <1>9. CASE ~OnProposal(i) /\ Active(t) /\ Right(after) /\ Right(Silenced(after))
    <2> HIDE DEF after
    <2> QED BY <1>3, <1>9 DEF t, p
  <1> QED
    <2> HIDE DEF after, home, Right
    <2> QED BY <1>4, <1>5, <1>6, <1>7, <1>8, <1>9

LEMMA ApplyStep ==
    ASSUME Typed(session), Housed(session), Frozen(session), ApplyProposal
    PROVE  Progress
  <1> DEFINE consumed == feedbackForProposal(session.threads)
             threads  == [i \in DOMAIN session.threads |-> AfterApply(i)]
             plan     == session.pending.plan
             next     == Applied(consumed)
  <1>1. plan \in Documents /\ session.source \in Documents /\ consumed \in SUBSET ThreadIds
    BY ThreadType DEF ApplyProposal, Pending, feedbackForProposal, Typed, Sessions
  <1>2. next = [AddRevision(session, plan, consumed) EXCEPT
                   !.pending = NoProposal, !.threads = threads, !.source = session.source]
    BY DEF Applied, Typed, Sessions, AddRevision
  <1>3. ASSUME Valid(next) PROVE Step(next)
    <2>1. next.threads = threads /\ next.plans = Append(session.plans, plan)
      BY <1>2 DEF AddRevision, Typed, Sessions
    <2>2. Plan(next) = plan
      <3>1. session.plans \in Seq(Documents)
        BY DEF Typed, Sessions
      <3> QED BY <1>1, <2>1, <3>1, AppendProperties DEF Plan
    <2>3. \A i \in DOMAIN session.threads : ~Active(threads[i]) \/ InPlan(plan, threads[i].anchor)
      <3> HIDE DEF next, plan
      <3> QED BY <1>3, <2>1, <2>2 DEF Valid
    <2>4. \A i \in DOMAIN session.threads :
             /\ threads[i] \in Comments
             /\ threads[i].home = IF OnProposal(i) THEN Revision(Current(session) + 1)
                                  ELSE session.threads[i].home
             /\ session.threads[i].status = "addressed" => threads[i].status = "addressed"
      BY <2>3, AppliedThread
    <2>5. threads \in [DOMAIN session.threads -> Comments]
      BY <2>4
    <2>6. \A i \in DOMAIN session.threads : \E r \in 1 .. Current(session) + 1 : threads[i].home = Revision(r)
      <3> SUFFICES ASSUME NEW i \in DOMAIN session.threads
                   PROVE  \E r \in 1 .. Current(session) + 1 : threads[i].home = Revision(r)
        OBVIOUS
      <3>1. Current(session) + 1 \in 1 .. Current(session) + 1
        BY PlanType
      <3> HIDE DEF threads
      <3> QED BY <2>4, <3>1, HomesStay DEF OnProposal
    <2> HIDE DEF threads, consumed, plan, next
    <2>7. Step([AddRevision(session, plan, consumed) EXCEPT
                   !.pending = NoProposal, !.threads = threads, !.source = session.source])
      BY <1>1, <2>4, <2>5, <2>6, NoProposalType, NewRevision
    <2> QED BY <1>2, <2>7
  <1> QED BY <1>3, SaveStep DEF ApplyProposal, Mutate

-----------------------------------------------------------------------------
(* The end of the review, and the whole next-state relation. *)

LEMMA FinalizeStep ==
    ASSUME Typed(session), Housed(session), Frozen(session), delivered \subseteq ThreadIds, finalize
    PROVE  Progress /\ finished' \in BOOLEAN /\ delivered' \subseteq ThreadIds
  <1>1. Typed(session') /\ Housed(session') /\ Frozen(session') /\ session' = session /\ refused' \in BOOLEAN
    BY DEF finalize, Save
  <1>2. finished' \in BOOLEAN
    BY DEF finalize, Valid
  <1>3. delivered' \subseteq ThreadIds
    BY SelectedIds DEF finalize
  <1> QED BY <1>1, <1>2, <1>3 DEF Progress, KeepsAddressed

LEMMA CommentStep ==
    ASSUME Typed(session), Housed(session), Frozen(session), CommentAction
    PROVE  Progress /\ UNCHANGED <<finished, delivered>>
  <1>1. Progress
    <2>1. ASSUME NEW i \in DOMAIN session.threads,
                 \/ handleCreateFollowUp(i) \/ handleDeleteThread(i) \/ handleReanchorThread(i) \/ handleEditThread(i)
                 \/ \E intent \in {"instruction", "private"} : handleThreadIntent(i, intent)
                 \/ \E r \in 1 .. Current(session) : handleMarkThreadAddressed(i, r)
                 \/ handleSideQuestion(i) \/ handlePromoteSideAnswer(i) \/ handleUnpromoteSideAnswer(i)
          PROVE  Progress
      BY <2>1, FollowUpStep, DeleteStep, ReanchorStep, EditStep, IntentStep, MarkStep, AnswerStep
    <2> QED BY <2>1, CreateStep DEF CommentAction
  <1>2. UNCHANGED <<finished, delivered>>
    BY ZenonT(40) DEF CommentAction, handleCreateThread, handleCreateFollowUp, handleDeleteThread, handleReanchorThread,
           handleEditThread, handleThreadIntent, handleMarkThreadAddressed, handleSideQuestion,
           handlePromoteSideAnswer, handleUnpromoteSideAnswer, Mutate
  <1> QED BY <1>1, <1>2

LEMMA ProposalStep ==
    ASSUME Typed(session), Housed(session), Frozen(session), ProposalAction
    PROVE  Progress /\ UNCHANGED <<finished, delivered>>
  <1>1. Progress
    BY ProposeStep, RefineStep, DiscardStep, ApplyStep DEF ProposalAction
  <1>2. UNCHANGED <<finished, delivered>>
    BY DEF ProposalAction, proposeSection, proposeReview, CreateProposal, refineProposal, DiscardProposal,
           ApplyProposal, Mutate
  <1> QED BY <1>1, <1>2

LEMMA NextStep ==
    ASSUME TypeOK, ThreadsHaveHome, Frozen(session), [Next]_vars
    PROVE  TypeOK' /\ ThreadsHaveHome' /\ Frozen(session') /\ KeepsAddressed(session, session')
  <1>1. Typed(session) /\ Housed(session) /\ Frozen(session) /\ finished \in BOOLEAN /\ delivered \subseteq ThreadIds
    BY SessionInvariants DEF TypeOK
  <1>2. ASSUME Progress, finished' \in BOOLEAN, delivered' \subseteq ThreadIds
        PROVE  TypeOK' /\ ThreadsHaveHome' /\ Frozen(session') /\ KeepsAddressed(session, session')
    BY <1>2 DEF Progress, TypeOK, Typed, ThreadsHaveHome, Housed, HasHome, OnProposal, Pending, Current
  <1>3. CASE CommentAction \/ ProposalAction
    BY <1>1, <1>2, <1>3, CommentStep, ProposalStep
  <1>4. ASSUME NEW text \in Sources, syncExternalSource(text)
        PROVE  TypeOK' /\ ThreadsHaveHome' /\ Frozen(session') /\ KeepsAddressed(session, session')
    <2>1. UNCHANGED <<finished, delivered>>
      BY <1>4 DEF syncExternalSource, Mutate
    <2> QED BY <1>1, <1>2, <1>4, <2>1, SyncStep
  <1>5. ASSUME NEW r \in 1 .. Current(session), RestoreRevision(r)
        PROVE  TypeOK' /\ ThreadsHaveHome' /\ Frozen(session') /\ KeepsAddressed(session, session')
    <2>1. UNCHANGED <<finished, delivered>>
      BY <1>5 DEF RestoreRevision, Mutate
    <2> QED BY <1>1, <1>2, <1>5, <2>1, RestoreStep
  <1>6. CASE finalize
    BY <1>1, <1>2, <1>6, FinalizeStep
  <1>7. ASSUME session' = session, refused' = refused, finished' \in BOOLEAN, delivered' \subseteq ThreadIds
        PROVE  TypeOK' /\ ThreadsHaveHome' /\ Frozen(session') /\ KeepsAddressed(session, session')
    <2>1. refused' \in BOOLEAN
      BY <1>7 DEF TypeOK
    <2>2. Progress
      BY <1>1, <1>7, <2>1 DEF Progress, KeepsAddressed
    <2> QED BY <1>2, <1>7, <2>2
  <1>8. CASE Reopen \/ UNCHANGED vars
    BY <1>1, <1>7, <1>8 DEF Reopen, vars
  <1> QED BY <1>3, <1>4, <1>5, <1>6, <1>8 DEF Next

LEMMA InitTyped == Init => TypeOK /\ ThreadsHaveHome
  <1> SUFFICES ASSUME Init PROVE TypeOK /\ ThreadsHaveHome
    OBVIOUS
  <1>1. /\ session.plans = <<FirstPlan>> /\ session.feedback = <<{}>> /\ session.source = FirstPlan
        /\ session.pending = NoProposal /\ session.threads = <<>>
        /\ session.nextThread = 0 /\ session.nextProposal = 0
    BY DEF Init
  <1>2. /\ <<FirstPlan>> \in Seq(Documents) /\ <<FirstPlan>> # <<>> /\ Len(<<FirstPlan>>) = 1
        /\ <<{}>> \in Seq(SUBSET ThreadIds) /\ Len(<<{}>>) = 1
    BY DocumentAssumption
  <1>3. DOMAIN session.threads = {} /\ session.threads \in [DOMAIN session.threads -> Comments]
    BY <1>1
  <1>4. session \in Sessions(DOMAIN session.threads)
    BY <1>1, <1>2, <1>3, NoProposalType, DocumentAssumption, BoundAssumption DEF Sessions, Init
  <1> QED BY <1>1, <1>2, <1>3, <1>4, NoProposalType DEF Init, TypeOK, ThreadsHaveHome, Pending
-----------------------------------------------------------------------------
(* Nothing is saved that has not been validated. *)
LEMMA ValidStep ==
    ASSUME Valid(session), [Next]_vars
    PROVE  Valid(session')
  <1>1. ASSUME NEW next, Save(next) PROVE Valid(session')
    BY <1>1 DEF Save
  <1>2. CASE CommentAction
    <2>1. \E next : Mutate(next)
      BY ZenonT(40), <1>2 DEF CommentAction, handleCreateThread, handleCreateFollowUp, handleDeleteThread,
                  handleReanchorThread, handleEditThread, handleThreadIntent, handleMarkThreadAddressed,
                  handleSideQuestion, handlePromoteSideAnswer, handleUnpromoteSideAnswer
    <2> QED BY <1>1, <2>1 DEF Mutate
  <1>3. CASE ProposalAction
    <2>1. \E next : Mutate(next)
      BY <1>3 DEF ProposalAction, proposeSection, proposeReview, CreateProposal, refineProposal,
                  DiscardProposal, ApplyProposal
    <2> QED BY <1>1, <2>1 DEF Mutate
  <1>4. ASSUME NEW text, syncExternalSource(text) PROVE Valid(session')
    BY <1>1, <1>4 DEF syncExternalSource, Mutate
  <1>5. ASSUME NEW r, RestoreRevision(r) PROVE Valid(session')
    BY <1>1, <1>5 DEF RestoreRevision, Mutate
  <1>6. CASE finalize
    BY <1>1, <1>6 DEF finalize
  <1>7. CASE Reopen \/ UNCHANGED vars
    BY <1>7 DEF Reopen, vars
  <1> QED BY <1>2, <1>3, <1>4, <1>5, <1>6, <1>7 DEF Next

LEMMA InitValid == Init => Valid(session)
  <1> SUFFICES ASSUME Init PROVE Valid(session)
    OBVIOUS
  <1>1. session.threads = <<>> /\ session.pending = NoProposal
    BY DEF Init
  <1> QED BY <1>1, NoProposalType DEF Valid

(* The parts of the inductive invariant IInv that do not speak of text: a   *)
(* saved session is typed, Validate accepts it, its comments have a home,   *)
(* and the feedback of its proposal is frozen.                              *)
Inv == TypeOK /\ Valid(session) /\ ThreadsHaveHome /\ Frozen(session)

LEMMA InvInit == Init => Inv
  <1> SUFFICES ASSUME Init PROVE Inv
    OBVIOUS
  <1>1. session.pending.id = 0
    BY NoProposalType DEF Init
  <1>2. Frozen(session)
    BY <1>1 DEF Frozen
  <1> QED BY <1>2, InitTyped, InitValid DEF Inv

LEMMA InvStep == Inv /\ [Next]_vars => Inv'
  <1> SUFFICES ASSUME Inv, [Next]_vars PROVE Inv'
    OBVIOUS
  <1>1. TypeOK' /\ ThreadsHaveHome' /\ Frozen(session')
    BY NextStep DEF Inv
  <1>2. Valid(session')
    BY ValidStep DEF Inv
  <1> QED BY <1>1, <1>2 DEF Inv

LEMMA Invariant == Spec => []Inv
  BY InvInit, InvStep, PTL DEF Spec

(* Discarding, refining and applying proposals never leave a comment on a  *)
(* proposal that is gone.                                                  *)
THEOREM CommentsHaveHome == Spec => []ThreadsHaveHome
  <1>1. Inv => ThreadsHaveHome
    BY DEF Inv
  <1> QED BY <1>1, Invariant, PTL

(* No handler, agent, edit of the plan file or reopened review takes        *)
(* addressed feedback back.                                                *)
THEOREM AddressedIsFinal == Spec => AddressedStays
  <1>1. Inv /\ [Next]_vars =>
           [\A i \in DOMAIN session.threads \intersect DOMAIN session'.threads :
               session.threads[i].status = "addressed" => session'.threads[i].status = "addressed"]_vars
    BY NextStep DEF Inv, KeepsAddressed
  <1> QED BY <1>1, Invariant, PTL DEF Spec, AddressedStays

-----------------------------------------------------------------------------
(* Only applying the pending proposal both adds a revision and ends it. *)

LEMMA CommentsKeepPlans ==
    ASSUME Typed(session), CommentAction
    PROVE  session'.plans = session.plans
  <1>1. ASSUME NEW next, next.plans = session.plans, Mutate(next) PROVE session'.plans = session.plans
    BY <1>1 DEF Mutate, Save
  <1>2. ASSUME NEW home, NEW a, NEW text, NEW intent
        PROVE  AddThread(session, home, a, text, intent).plans = session.plans
    BY DEF AddThread, Typed, Sessions
  <1>3. ASSUME NEW intent \in {"instruction", "private"}, handleCreateThread(intent)
        PROVE  session'.plans = session.plans
    BY <1>1, <1>2, <1>3 DEF handleCreateThread
  <1>4. ASSUME NEW i \in DOMAIN session.threads, handleCreateFollowUp(i)
        PROVE  session'.plans = session.plans
    BY <1>1, <1>2, <1>4 DEF handleCreateFollowUp
  <1>5. ASSUME NEW i \in DOMAIN session.threads, handleDeleteThread(i)
        PROVE  session'.plans = session.plans
    BY <1>5 DEF handleDeleteThread, Mutate, Save, Typed, Sessions
  <1>6. ASSUME NEW i \in DOMAIN session.threads, handleReanchorThread(i)
        PROVE  session'.plans = session.plans
    BY <1>6 DEF handleReanchorThread, Mutate, Save, Typed, Sessions
  <1>7. ASSUME NEW i \in DOMAIN session.threads, handleEditThread(i)
        PROVE  session'.plans = session.plans
    BY <1>7 DEF handleEditThread, Mutate, Save, Typed, Sessions
  <1>8. ASSUME NEW i \in DOMAIN session.threads,
                \/ \E intent \in {"instruction", "private"} : handleThreadIntent(i, intent)
                \/ handleSideQuestion(i) \/ handlePromoteSideAnswer(i) \/ handleUnpromoteSideAnswer(i)
         PROVE  session'.plans = session.plans
    BY <1>8 DEF handleThreadIntent, handleSideQuestion, handlePromoteSideAnswer, handleUnpromoteSideAnswer,
                 Mutate, Save, Typed, Sessions
  <1>9. ASSUME NEW i \in DOMAIN session.threads, NEW r \in 1 .. Current(session),
                handleMarkThreadAddressed(i, r)
         PROVE  session'.plans = session.plans
    BY <1>9 DEF handleMarkThreadAddressed, Mutate, Save, Typed, Sessions
  <1> QED BY <1>3, <1>4, <1>5, <1>6, <1>7, <1>8, <1>9 DEF CommentAction

LEMMA OnlyApplyEndsProposal ==
    ASSUME Typed(session), Next, Pending, Current(session') > Current(session), session'.pending.id = 0
    PROVE  ApplyProposal
  <1>1. Len(session.plans) \in Nat
    BY PlanType DEF Current
  <1>2. session'.plans # session.plans /\ session' # session
    BY <1>1 DEF Current
  <1>3. ~CommentAction
    BY <1>2, CommentsKeepPlans
  <1>4. ~(\E explicit \in {0} \union DOMAIN session.threads : proposeSection(explicit)) /\ ~proposeReview
    BY DEF proposeSection, proposeReview
  <1>5. ASSUME NEW explicit, NEW hunks, refineProposal(explicit, hunks) PROVE FALSE
    BY <1>2, <1>5 DEF refineProposal, Mutate, Save, Typed, Sessions
  <1>6. ~DiscardProposal
    BY <1>2 DEF DiscardProposal, Mutate, Save, Typed, Sessions
  <1>7. ASSUME NEW text, syncExternalSource(text) PROVE FALSE
    <2>1. session' = [AddRevision(session, text, {}) EXCEPT
                 !.threads = reconcileActiveThreadAnchors(session, session.source, text),
                 !.pending.obsolete = session.pending.id # 0,
                 !.source = text]
      BY <1>2, <1>7 DEF syncExternalSource, Mutate, Save
    <2>2. session'.pending = [session.pending EXCEPT !.obsolete = session.pending.id # 0]
      BY <2>1 DEF AddRevision, Typed, Sessions
    <2>3. session'.pending.id = session.pending.id
      BY <2>2 DEF Typed, Sessions, Proposals
    <2> QED BY <2>3 DEF Pending
  <1>8. ASSUME NEW r, RestoreRevision(r) PROVE FALSE
    BY <1>8 DEF RestoreRevision, Pending
  <1>9. ~finalize
    BY <1>2 DEF finalize, Save
  <1>10. ~Reopen
    BY <1>2 DEF Reopen
  <1> QED BY <1>3, <1>4, <1>5, <1>6, <1>7, <1>8, <1>9, <1>10 DEF Next, ProposalAction

LEMMA AppliedFeedback ==
    ASSUME Inv, ApplyProposal, Current(session') > Current(session), session.pending.kind = "review",
           NEW i \in session.pending.included
    PROVE  /\ session'.threads[i].status = "addressed"
           /\ ~OnProposal(i) => i \in session'.feedback[Current(session')]
  <1> DEFINE consumed == feedbackForProposal(session.threads)
             plan == session.pending.plan
             t == session.threads[i]
             adopted == [t EXCEPT !.home = Revision(Current(session) + 1)]
  <1>1. Typed(session) /\ Frozen(session) /\ Valid(session) /\ Pending
    BY SessionInvariants DEF Inv, ApplyProposal
  <1>2. i \in DOMAIN session.threads /\ t \in Comments /\ i \in ThreadIds
    BY <1>1, ThreadType DEF Valid, Pending
  <1>3. (OnProposal(i) /\ t.status # "detached") \/ (~OnProposal(i) /\ Active(t))
    <2>1. ~session.pending.obsolete /\ session.pending.id # 0
      BY DEF ApplyProposal, Pending
    <2>2. CASE t.home = Proposal(session.pending.id)
      <3>1. t.status # "detached"
        BY <1>1, <1>2, <2>1, <2>2 DEF Frozen
      <3> QED BY <2>1, <2>2, <3>1 DEF OnProposal, Pending
    <2>3. CASE t.home # Proposal(session.pending.id)
      <3>1. Active(t)
        BY <1>1, <1>2, <2>1, <2>3 DEF Frozen
      <3> QED BY <2>3, <3>1 DEF OnProposal
    <2> QED BY <2>2, <2>3
  <1>4. session' = Applied(consumed)
    <2>1. session' # session
      BY <1>1, PlanType
    <2> QED BY <2>1 DEF ApplyProposal, Mutate, Save
  <1>5. /\ session'.threads = [j \in DOMAIN session.threads |-> AfterApply(j)]
        /\ session'.plans = Append(session.plans, plan)
        /\ session'.feedback = Append(session.feedback, consumed)
    BY <1>1, <1>4 DEF Applied, AddRevision, Typed, Sessions
  <1>6. session'.threads[i] = AfterApply(i)
    BY <1>2, <1>5
  <1>7. AfterApply(i).status = "addressed"
    <2>1. adopted \in Comments /\ adopted.status = t.status
      <3>1. Revision(Current(session) + 1) \in {"revision", "proposal"} \X Nat
        BY <1>1, PlanType DEF Revision
      <3> QED BY <1>2, <3>1 DEF Comments
    <2>2. t.status \in {"active", "addressed", "detached"}
      BY <1>2 DEF Comments
    <2> DEFINE after == IF OnProposal(i) THEN IF Active(t) THEN resolveThread(adopted) ELSE adopted
                        ELSE resolveThread(t)
    <2>3. AfterApply(i) = IF i \in session.pending.consumed THEN Silenced(after) ELSE after
      BY <1>3 DEF AfterApply, Adjusted, AdjustedForReview
    <2> HIDE DEF adopted, t
    <2>4. after \in Comments /\ after.status = "addressed"
      BY <1>2, <1>3, <2>1, <2>2, ResolvedType DEF Active
    <2> HIDE DEF after
    <2> QED BY <2>3, <2>4, SilencedType
  <1>8. ASSUME ~OnProposal(i) PROVE i \in session'.feedback[Current(session')]
    <2>1. i \in consumed
      BY <1>2, <1>3, <1>8 DEF feedbackForProposal
    <2>2. /\ session.plans \in Seq(Documents) /\ plan \in Documents
          /\ session.feedback \in Seq(SUBSET ThreadIds) /\ consumed \in SUBSET ThreadIds
          /\ Len(session.feedback) = Len(session.plans)
      BY <1>1, ThreadType DEF Typed, Sessions, feedbackForProposal, Pending
    <2> HIDE DEF consumed, plan
    <2>3. Current(session') = Len(session.plans) + 1
      BY <1>5, <2>2, AppendProperties DEF Current
    <2>4. session'.feedback[Len(session.feedback) + 1] = consumed
      BY <1>5, <2>2, AppendProperties
    <2> QED BY <2>1, <2>2, <2>3, <2>4
  <1> QED BY <1>6, <1>7, <1>8

(* Accepting a review proposal records the frozen feedback: each comment the *)
(* agent was asked to carry out is addressed, and those of the revision it   *)
(* was made from are the feedback of the revision it becomes.                *)
THEOREM FeedbackIsRecorded == Spec => AcceptedFeedbackRecorded
  <1> DEFINE Recorded ==
        session.pending.kind = "review" /\ Pending /\ Current(session') > Current(session)
          /\ session'.pending.id = 0 =>
         \A i \in session.pending.included :
            /\ session'.threads[i].status = "addressed"
            /\ ~OnProposal(i) => i \in session'.feedback[Current(session')]
  <1>1. ASSUME Inv, Next PROVE Recorded
    <2>1. Typed(session)
      BY <1>1, SessionInvariants DEF Inv
    <2> QED BY <1>1, <2>1, OnlyApplyEndsProposal, AppliedFeedback
  <1>2. Inv /\ [Next]_vars => [Recorded]_vars
    BY <1>1
  <1> QED BY <1>2, Invariant, PTL DEF Spec, AcceptedFeedbackRecorded

-----------------------------------------------------------------------------
(* While a proposal is pending, the other comments do not change. *)

Kept(i) == i \in DOMAIN session'.threads /\ session'.threads[i] = session.threads[i]

LEMMA CommentsLocked ==
    ASSUME Typed(session), CommentAction, Pending, NEW i \in DOMAIN session.threads, ~OnProposal(i)
    PROVE  Kept(i)
  <1>1. CASE session' = session
    BY <1>1 DEF Kept
  <1>2. ASSUME session' # session, NEW intent \in {"instruction", "private"}, handleCreateThread(intent)
        PROVE  Kept(i)
    <2>1. PICK home, a, text : session' = AddThread(session, home, a, text, intent)
      BY <1>2 DEF handleCreateThread, Mutate, Save
    <2>2. \E t : session'.threads = With(session.threads, session.nextThread + 1, t)
      BY <2>1 DEF AddThread, Typed, Sessions
    <2>3. i # session.nextThread + 1
      BY BoundAssumption DEF Typed, Sessions
    <2> QED BY <2>2, <2>3 DEF With, Kept
  <1>3. ASSUME session' # session, NEW j \in DOMAIN session.threads, handleDeleteThread(j)
        PROVE  Kept(i)
    <2>1. i # j /\ session' = [session EXCEPT !.threads = Without(@, {j})]
      BY <1>3 DEF handleDeleteThread, Unlocked, Mutate, Save
    <2>2. session'.threads = Without(session.threads, {j})
      BY <2>1 DEF Typed, Sessions
    <2> QED BY <2>1, <2>2 DEF Without, Kept
  <1>4. ASSUME session' # session, NEW j \in DOMAIN session.threads,
               handleEditThread(j) \/ \E intent \in {"instruction", "private"} : handleThreadIntent(j, intent)
        PROVE  Kept(i)
    <2>1. i # j
      BY <1>4 DEF handleEditThread, handleThreadIntent, Unlocked
    <2>2. \E t : session' = [session EXCEPT !.threads[j] = t]
      <3>1. CASE handleEditThread(j)
        <4>1. PICK a, text : session' = [session EXCEPT !.threads[j].anchor = a, !.threads[j].text = text,
                                                        !.threads[j].status = "active"]
          BY <1>4, <3>1 DEF handleEditThread, Mutate, Save
        <4>2. session' = [session EXCEPT !.threads[j] =
                            [session.threads[j] EXCEPT !.anchor = a, !.text = text, !.status = "active"]]
          BY <4>1 DEF Typed, Sessions
        <4> QED BY <4>2
      <3>2. ASSUME NEW intent, handleThreadIntent(j, intent)
            PROVE  \E t : session' = [session EXCEPT !.threads[j] = t]
        <4>1. session' = [session EXCEPT !.threads[j] = [session.threads[j] EXCEPT !.intent = intent]]
          BY <1>4, <3>2 DEF handleThreadIntent, Mutate, Save, Typed, Sessions
        <4> QED BY <4>1
      <3> QED BY <1>4, <3>1, <3>2
    <2> QED BY <2>1, <2>2 DEF Kept, Typed, Sessions
  <1>5. \A j \in DOMAIN session.threads :
           /\ ~handleCreateFollowUp(j) /\ ~handleReanchorThread(j)
           /\ \A r : ~handleMarkThreadAddressed(j, r)
           /\ ~handleSideQuestion(j) /\ ~handlePromoteSideAnswer(j) /\ ~handleUnpromoteSideAnswer(j)
    BY DEF handleCreateFollowUp, handleReanchorThread, handleMarkThreadAddressed, handleSideQuestion,
           handlePromoteSideAnswer, handleUnpromoteSideAnswer
  <1> QED BY <1>1, <1>2, <1>3, <1>4, <1>5 DEF CommentAction

LEMMA NextLocked ==
    ASSUME Typed(session), Next, Pending, session'.pending.id # 0, ~session'.pending.obsolete,
           NEW i \in DOMAIN session.threads, ~OnProposal(i)
    PROVE  Kept(i)
  <1>1. CASE session' = session
    BY <1>1 DEF Kept
  <1>2. CASE CommentAction
    BY <1>2, CommentsLocked
  <1>3. ~(\E explicit \in {0} \union DOMAIN session.threads : proposeSection(explicit)) /\ ~proposeReview
    BY DEF proposeSection, proposeReview
  <1>4. ASSUME session' # session, NEW explicit, NEW hunks, refineProposal(explicit, hunks) PROVE Kept(i)
    <2>1. session'.threads = RetargetProposalThreads(ApplyHunks(session.pending.plan, hunks))
      BY <1>4 DEF refineProposal, Mutate, Save, Typed, Sessions
    <2> QED BY <2>1 DEF RetargetProposalThreads, Kept
  <1>5. ASSUME session' # session, DiscardProposal PROVE FALSE
    <2>1. session'.pending = NoProposal
      BY <1>5 DEF DiscardProposal, Mutate, Save, Typed, Sessions
    <2> QED BY <2>1, NoProposalType
  <1>6. ASSUME session' # session, ApplyProposal PROVE FALSE
    <2>1. session' = Applied(feedbackForProposal(session.threads))
      BY <1>6 DEF ApplyProposal, Mutate, Save
    <2>2. session'.pending = NoProposal
      BY <2>1 DEF Applied, AddRevision, Typed, Sessions
    <2> QED BY <2>2, NoProposalType
  <1>7. ASSUME session' # session, NEW text, syncExternalSource(text) PROVE FALSE
    <2>1. session' = [AddRevision(session, text, {}) EXCEPT
                 !.threads = reconcileActiveThreadAnchors(session, session.source, text),
                 !.pending.obsolete = session.pending.id # 0,
                 !.source = text]
      BY <1>7 DEF syncExternalSource, Mutate, Save
    <2>2. session'.pending = [session.pending EXCEPT !.obsolete = session.pending.id # 0]
      BY <2>1 DEF AddRevision, Typed, Sessions
    <2>3. session'.pending.obsolete = (session.pending.id # 0)
      BY <2>2 DEF Typed, Sessions, Proposals
    <2> QED BY <2>3 DEF Pending
  <1>8. ASSUME NEW r, RestoreRevision(r) PROVE FALSE
    BY <1>8 DEF RestoreRevision, Pending
  <1>9. CASE finalize \/ Reopen
    BY <1>9 DEF finalize, Reopen, Pending, Kept
  <1> QED BY <1>1, <1>2, <1>3, <1>4, <1>5, <1>6, <1>7, <1>8, <1>9 DEF Next, ProposalAction

(* Until it is applied, discarded or made obsolete by an edit of the plan    *)
(* file, a pending proposal keeps every comment that is not on it as it was. *)
THEOREM FeedbackStaysLocked == Spec => FeedbackLocked
  <1> DEFINE Locked ==
        Pending /\ session'.pending.id # 0 /\ ~session'.pending.obsolete =>
         \A i \in DOMAIN session.threads :
            ~OnProposal(i) => /\ i \in DOMAIN session'.threads
                              /\ session'.threads[i] = session.threads[i]
  <1>1. ASSUME Inv, Next PROVE Locked
    <2>1. Typed(session)
      BY <1>1, SessionInvariants DEF Inv
    <2> QED BY <1>1, <2>1, NextLocked DEF Kept
  <1>2. Inv /\ [Next]_vars => [Locked]_vars
    BY <1>1
  <1> QED BY <1>2, Invariant, PTL DEF Spec, FeedbackLocked

=============================================================================
