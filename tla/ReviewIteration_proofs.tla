----------------------- MODULE ReviewIteration_proofs -----------------------
(* Proofs about a review and the agent calls in flight, for any calls. *)
EXTENDS ReviewIteration, TLAPS

-----------------------------------------------------------------------------
(* The steps that touch the calls, the operation and the session. *)

CallStep ==
    \/ cancelOperation \/ (\E saved \in BOOLEAN : cancel(saved)) \/ abandonOrphanedReview
    \/ \E c \in Calls : Ask(c) \/ Answer(c)

ReviewStep ==
    \/ \E r \in Remarks : ChangeFeedback(r) \/ CommentOnProposal(r) \/ DeleteProposalComment(r)
    \/ ApplyProposal \/ DiscardProposal \/ RestoreRevision \/ syncExternalSource
    \/ \E c \in Calls : SyncOnAnswer(c) \/ StoreReply(c) \/ InstallProposal(c)

LEMMA QuietCalls ==
    ASSUME [Next]_vars, ~CallStep
    PROVE  UNCHANGED calls
  <1>1. ASSUME NEW r \in Remarks, ChangeFeedback(r) \/ CommentOnProposal(r) \/ DeleteProposalComment(r)
        PROVE  UNCHANGED calls
    BY <1>1 DEF ChangeFeedback, CommentOnProposal, DeleteProposalComment, mutateSession
  <1>2. ASSUME ApplyProposal \/ DiscardProposal \/ RestoreRevision PROVE UNCHANGED calls
    BY <1>2 DEF ApplyProposal, DiscardProposal, RestoreRevision, mutateSession
  <1>3. ASSUME NEW r \in Remarks, ChangeFeedbackOverflows(r) PROVE UNCHANGED calls
    BY <1>3 DEF ChangeFeedbackOverflows
  <1>4. ASSUME finalize \/ syncExternalSource \/ EditSource PROVE UNCHANGED calls
    BY <1>4 DEF finalize, syncExternalSource, EditSource
  <1>5. CASE UNCHANGED vars
    BY <1>5 DEF vars
  <1> QED BY <1>1, <1>2, <1>3, <1>4, <1>5 DEF Next, Reviewer, CallStep

LEMMA QuietReview ==
    ASSUME [Next]_vars, ~ReviewStep
    PROVE  UNCHANGED session
  <1>1. ASSUME NEW r \in Remarks, ChangeFeedbackOverflows(r) PROVE UNCHANGED session
    BY <1>1 DEF ChangeFeedbackOverflows
  <1>2. ASSUME finalize \/ EditSource \/ cancelOperation \/ abandonOrphanedReview
        PROVE  UNCHANGED session
    BY <1>2 DEF finalize, EditSource, cancelOperation, abandonOrphanedReview
  <1>3. ASSUME NEW saved \in BOOLEAN, cancel(saved) PROVE UNCHANGED session
    BY <1>3 DEF cancel
  <1>4. ASSUME NEW c \in Calls, Ask(c) PROVE UNCHANGED session
    BY <1>4 DEF Ask, startIteration, proposeSection, handleSideQuestion
  <1>5. ASSUME NEW c \in Calls, runIteration(c) \/ Return(c) \/ RefuseAnswer(c) \/ RecordOutcome(c)
        PROVE  UNCHANGED session
    BY <1>5 DEF runIteration, Return, AgentFails, AgentAnswers, RefuseAnswer, RecordOutcome
  <1>6. CASE UNCHANGED vars
    BY <1>6 DEF vars
  <1> QED BY <1>1, <1>2, <1>3, <1>4, <1>5, <1>6 DEF Next, Reviewer, Answer, Respond, ReviewStep

-----------------------------------------------------------------------------
(* Type correctness. *)

(* What reconciling with the source file does to the session. *)
LEMMA ReconcileType ==
    ASSUME SessionType, ReconcileExternalPlan
    PROVE  SessionType'
  <1> USE DEF SessionType, ReconcileExternalPlan
  <1>1. /\ revision' \in Nat /\ replies' \in Nat /\ nextProposal' \in Nat
        /\ feedback' \subseteq Remarks /\ notes' \subseteq Remarks
    OBVIOUS
  <1>2. pending' \in Proposals
    BY DEF Proposals
  <1> QED BY <1>1, <1>2

LEMMA NoProposalType == NoProposal \in Proposals
  BY DEF NoProposal, Proposals

LEMMA NextSession ==
    ASSUME SessionType, CallType, [Next]_vars
    PROVE  SessionType'
  <1> USE DEF SessionType
  <1>1. ASSUME NEW r \in Remarks, ChangeFeedback(r) \/ CommentOnProposal(r) \/ DeleteProposalComment(r)
        PROVE  SessionType'
    BY <1>1 DEF ChangeFeedback, CommentOnProposal, DeleteProposalComment
  <1>2. ASSUME ApplyProposal PROVE SessionType'
    BY <1>2, NoProposalType DEF ApplyProposal
  <1>3. ASSUME DiscardProposal PROVE SessionType'
    BY <1>3, NoProposalType DEF DiscardProposal
  <1>4. ASSUME RestoreRevision PROVE SessionType'
    BY <1>4 DEF RestoreRevision
  <1>5. ASSUME syncExternalSource PROVE SessionType'
    BY <1>5, ReconcileType DEF syncExternalSource
  <1>6. ASSUME NEW c \in Calls, SyncOnAnswer(c) PROVE SessionType'
    BY <1>6, ReconcileType DEF SyncOnAnswer
  <1>7. ASSUME NEW c \in Calls, StoreReply(c) PROVE SessionType'
    BY <1>7 DEF StoreReply
  <1>8. ASSUME NEW c \in Calls, InstallProposal(c) PROVE SessionType'
    <2>1. /\ revision' \in Nat /\ replies' \in Nat /\ nextProposal' \in Nat
          /\ feedback' \subseteq Remarks /\ notes' \subseteq Remarks
      BY <1>8 DEF InstallProposal, Install
    <2>2. calls[c].included \in SUBSET Remarks /\ calls[c].op \in Nat
      BY DEF CallType, CallRecords
    <2>3. pending' \in Proposals
      BY <1>8, <2>2 DEF InstallProposal, Install, Proposals
    <2> QED BY <2>1, <2>3
  <1>9. CASE UNCHANGED session
    BY <1>9 DEF session
  <1> QED BY <1>1, <1>2, <1>3, <1>4, <1>5, <1>6, <1>7, <1>8, <1>9, QuietReview DEF ReviewStep

(* Records of calls. *)
LEMMA IdleType == Idle \in CallRecords
  BY DEF Idle, NoBase, CallRecords, Bases, Outcomes

LEMMA CurrentType ==
    ASSUME SessionType
    PROVE  Current \in Bases
  BY DEF SessionType, Current, Bases, Proposals

LEMMA CallChange ==
    ASSUME CallType, NEW c \in Calls, NEW r \in CallRecords, calls' = [calls EXCEPT ![c] = r]
    PROVE  CallType'
  BY DEF CallType

LEMMA ConcludeType ==
    ASSUME CallType, NEW c \in Calls, NEW outcome \in Outcomes, Conclude(c, outcome)
    PROVE  CallType'
  <1> DEFINE r == [Idle EXCEPT !.step = "stored", !.kind = "background", !.op = calls[c].op,
                                !.outcome = outcome]
  <1>1. calls[c].op \in Nat
    BY DEF CallType, CallRecords
  <1>2. r \in CallRecords
    BY <1>1 DEF Idle, NoBase, CallRecords, Bases, Outcomes
  <1>3. calls' = [calls EXCEPT ![c] = r] \/ calls' = [calls EXCEPT ![c] = Idle]
    BY DEF Conclude
  <1> HIDE DEF r
  <1> QED BY <1>2, <1>3, IdleType, CallChange

LEMMA CancelType ==
    ASSUME CallType, OperationType, cancelIteration, UNCHANGED sequence
    PROVE  CallType' /\ OperationType'
  <1>1. CASE iterationRunning
    <2>1. ASSUME NEW d \in Calls PROVE [calls[d] EXCEPT !.canceled = TRUE] \in CallRecords
      BY DEF CallType, CallRecords
    <2>2. \A d \in Calls : calls[d] \in CallRecords
      BY DEF CallType
    <2>3. CallType'
      BY <1>1, <2>1, <2>2 DEF cancelIteration, CallType
    <2>4. OperationType'
      BY <1>1 DEF cancelIteration, OperationType, Running
    <2> QED BY <2>3, <2>4
  <1>2. CASE ~iterationRunning
    BY <1>2 DEF cancelIteration, CallType, OperationType
  <1> QED BY <1>1, <1>2

(* What a new call includes is feedback of the review it asks about. *)
LEMMA IncludedIsThere ==
    ASSUME SessionType, ProposalOK, NEW kind \in Kinds, prepareProposal(kind),
           NEW included \in MayInclude(kind)
    PROVE  included \subseteq feedback \union notes /\ included \subseteq Remarks
  <1>1. CASE pending.id # 0
    BY <1>1 DEF MayInclude, prepareProposal, ProposalOK, SessionType
  <1>2. CASE pending.id = 0
    BY <1>2 DEF MayInclude, SessionType
  <1> QED BY <1>1, <1>2 DEF SessionType

LEMMA NextCalls ==
    ASSUME SessionType, ProposalOK, OperationType, CallType, [Next]_vars
    PROVE  CallType'
  <1>1. ASSUME cancelOperation \/ abandonOrphanedReview PROVE CallType'
    BY <1>1, CancelType DEF cancelOperation, abandonOrphanedReview
  <1>2. ASSUME NEW saved \in BOOLEAN, cancel(saved) PROVE CallType'
    BY <1>2, CancelType DEF cancel
  <1>3. ASSUME NEW c \in Calls, NEW kind \in Kinds, startIteration(c, kind) PROVE CallType'
    <2>1. PICK included \in MayInclude(kind) :
            calls' = [calls EXCEPT ![c] = [step |-> "queued", kind |-> "background",
                    op |-> sequence + 1, canceled |-> FALSE, outcome |-> "none",
                    base |-> Current, included |-> included]]
      BY <1>3 DEF startIteration
    <2>2. included \subseteq Remarks
      BY <1>3, IncludedIsThere DEF startIteration
    <2>3. sequence + 1 \in Nat
      BY DEF OperationType
    <2>4. [step |-> "queued", kind |-> "background", op |-> sequence + 1, canceled |-> FALSE,
           outcome |-> "none", base |-> Current, included |-> included] \in CallRecords
      BY <2>2, <2>3, CurrentType DEF CallRecords, Outcomes
    <2> QED BY <2>1, <2>4, CallChange
  <1>4. ASSUME NEW c \in Calls, NEW kind \in Kinds, proposeSection(c, kind) PROVE CallType'
    <2>1. PICK included \in MayInclude(kind) :
            calls' = [calls EXCEPT ![c] = [step |-> "asking", kind |-> "propose", op |-> 0,
                    canceled |-> FALSE, outcome |-> "none", base |-> Current,
                    included |-> included]]
      BY <1>4 DEF proposeSection
    <2>2. included \subseteq Remarks
      BY <1>4, IncludedIsThere DEF proposeSection
    <2>3. [step |-> "asking", kind |-> "propose", op |-> 0, canceled |-> FALSE,
           outcome |-> "none", base |-> Current, included |-> included] \in CallRecords
      BY <2>2, CurrentType DEF CallRecords, Outcomes
    <2> QED BY <2>1, <2>3, CallChange
  <1>5. ASSUME NEW c \in Calls, handleSideQuestion(c) PROVE CallType'
    <2>1. [step |-> "asking", kind |-> "ask", op |-> 0, canceled |-> FALSE,
           outcome |-> "none", base |-> Current, included |-> {}] \in CallRecords
      BY CurrentType DEF CallRecords, Outcomes
    <2> QED BY <1>5, <2>1, CallChange DEF handleSideQuestion
  <1>6. ASSUME NEW c \in Calls, runIteration(c) PROVE CallType'
    <2>1. [calls[c] EXCEPT !.step = "asking"] \in CallRecords
      BY DEF CallType, CallRecords
    <2>2. \/ Conclude(c, "canceled")
          \/ calls' = [calls EXCEPT ![c] = [calls[c] EXCEPT !.step = "asking"]]
          \/ calls' = [calls EXCEPT ![c] = Idle]
      BY <1>6 DEF runIteration
    <2> QED BY <2>1, <2>2, CallChange, IdleType, ConcludeType DEF Outcomes
  <1>7. ASSUME NEW c \in Calls, Return(c) PROVE CallType'
    <2>1. ASSUME NEW outcome \in {"failed", "canceled"}, AgentFails(c, outcome) PROVE CallType'
      BY <2>1, ConcludeType DEF AgentFails, Outcomes
    <2>2. ASSUME NEW outcome \in {"proposal", "reply"}, AgentAnswers(c, outcome) PROVE CallType'
      <3>1. [calls[c] EXCEPT !.step = "answered", !.outcome = outcome] \in CallRecords
        BY DEF CallType, CallRecords, Outcomes
      <3>2. calls' = [calls EXCEPT ![c] = [calls[c] EXCEPT !.step = "answered", !.outcome = outcome]]
        BY <2>2 DEF AgentAnswers
      <3> QED BY <3>1, <3>2, CallChange
    <2> QED BY <1>7, <2>1, <2>2 DEF Return
  <1>8. ASSUME NEW c \in Calls, Respond(c) PROVE CallType'
    <2>1. \E outcome \in Outcomes : Conclude(c, outcome)
      BY <1>8 DEF Respond, RefuseAnswer, SyncOnAnswer, StoreReply, InstallProposal, Install, Outcomes
    <2> QED BY <2>1, ConcludeType
  <1>9. ASSUME NEW c \in Calls, RecordOutcome(c) PROVE CallType'
    BY <1>9, CallChange, IdleType DEF RecordOutcome
  <1>10. CASE UNCHANGED calls
    BY <1>10 DEF CallType
  <1> QED BY <1>1, <1>2, <1>3, <1>4, <1>5, <1>6, <1>7, <1>8, <1>9, <1>10, QuietCalls
          DEF CallStep, Ask, Answer

(* Whoever changes the operation. *)
LEMMA OperationSteps ==
    ASSUME [Next]_vars
    PROVE  \/ cancelOperation \/ abandonOrphanedReview \/ (\E saved \in BOOLEAN : cancel(saved))
           \/ \E c \in Calls, kind \in Kinds : startIteration(c, kind)
           \/ \E c \in Calls : runIteration(c) \/ StoreReply(c) \/ RecordOutcome(c)
           \/ mutateSession
           \/ UNCHANGED operation
  <1>1. ASSUME NEW r \in Remarks, ChangeFeedback(r) \/ CommentOnProposal(r) \/ DeleteProposalComment(r)
        PROVE  mutateSession
    BY <1>1 DEF ChangeFeedback, CommentOnProposal, DeleteProposalComment
  <1>2. ASSUME ApplyProposal \/ DiscardProposal \/ RestoreRevision PROVE mutateSession
    BY <1>2 DEF ApplyProposal, DiscardProposal, RestoreRevision
  <1>3. ASSUME NEW r \in Remarks, ChangeFeedbackOverflows(r) PROVE UNCHANGED operation
    BY <1>3 DEF ChangeFeedbackOverflows
  <1>4. ASSUME finalize \/ syncExternalSource \/ EditSource PROVE UNCHANGED operation
    BY <1>4 DEF finalize, syncExternalSource, EditSource
  <1>5. ASSUME NEW c \in Calls, NEW kind \in Kinds, proposeSection(c, kind) \/ handleSideQuestion(c)
        PROVE  UNCHANGED operation
    BY <1>5 DEF proposeSection, handleSideQuestion
  <1>6. ASSUME NEW c \in Calls, Return(c) \/ RefuseAnswer(c) \/ SyncOnAnswer(c) \/ InstallProposal(c)
        PROVE  UNCHANGED operation
    BY <1>6 DEF Return, AgentFails, AgentAnswers, RefuseAnswer, SyncOnAnswer, InstallProposal, Install
  <1>7. ASSUME UNCHANGED vars PROVE UNCHANGED operation
    BY <1>7 DEF vars
  <1>8. Kinds # {}
    BY DEF Kinds
  <1> QED BY <1>1, <1>2, <1>3, <1>4, <1>5, <1>6, <1>7, <1>8 DEF Next, Reviewer, Ask, Answer, Respond

LEMMA NextOperation ==
    ASSUME OperationType, CallType, [Next]_vars
    PROVE  OperationType'
  <1> USE DEF OperationType, Running, Terminal
  <1>1. ASSUME cancelOperation \/ abandonOrphanedReview PROVE OperationType'
    BY <1>1, CancelType DEF cancelOperation, abandonOrphanedReview
  <1>2. ASSUME NEW saved \in BOOLEAN, cancel(saved) PROVE OperationType'
    BY <1>2, CancelType DEF cancel
  <1>3. ASSUME NEW c \in Calls, NEW kind \in Kinds, startIteration(c, kind) PROVE OperationType'
    <2>1. sequence' \in Nat /\ sequence' = sequence + 1 /\ stopped' = FALSE
      BY <1>3 DEF startIteration
    <2>2. op' = [id |-> sequence', status |-> "queued", kind |-> kind]
      BY <1>3, <2>1 DEF startIteration
    <2> QED BY <2>1, <2>2
  <1>4. ASSUME NEW c \in Calls, runIteration(c) PROVE OperationType'
    BY <1>4 DEF runIteration
  <1>5. ASSUME NEW c \in Calls, RecordOutcome(c) PROVE OperationType'
    BY <1>5 DEF RecordOutcome
  <1>6. ASSUME NEW c \in Calls, StoreReply(c) PROVE OperationType'
    BY <1>6 DEF StoreReply, NoOp, Kinds
  <1>7. ASSUME mutateSession PROVE OperationType'
    BY <1>7 DEF mutateSession, NoOp, Kinds
  <1>8. CASE UNCHANGED operation
    BY <1>8 DEF operation
  <1> QED BY <1>1, <1>2, <1>3, <1>4, <1>5, <1>6, <1>7, <1>8, OperationSteps

LEMMA NextFlags ==
    ASSUME FlagType, [Next]_vars
    PROVE  FlagType'
  <1> USE DEF FlagType
  <1>1. ASSUME NEW r \in Remarks, ChangeFeedback(r) \/ CommentOnProposal(r) \/ DeleteProposalComment(r)
        PROVE  FlagType'
    BY <1>1 DEF ChangeFeedback, CommentOnProposal, DeleteProposalComment, mutateSession
  <1>2. ASSUME ApplyProposal \/ DiscardProposal \/ RestoreRevision PROVE FlagType'
    BY <1>2 DEF ApplyProposal, DiscardProposal, RestoreRevision, mutateSession
  <1>3. ASSUME NEW r \in Remarks, ChangeFeedbackOverflows(r) PROVE FlagType'
    BY <1>3 DEF ChangeFeedbackOverflows
  <1>4. ASSUME finalize \/ EditSource \/ syncExternalSource PROVE FlagType'
    BY <1>4 DEF finalize, EditSource, syncExternalSource, ReconcileExternalPlan
  <1>5. ASSUME cancelOperation \/ abandonOrphanedReview PROVE FlagType'
    BY <1>5 DEF cancelOperation, abandonOrphanedReview
  <1>6. ASSUME NEW saved \in BOOLEAN, cancel(saved) PROVE FlagType'
    BY <1>6 DEF cancel
  <1>7. ASSUME NEW c \in Calls, Ask(c) PROVE FlagType'
    BY <1>7 DEF Ask, startIteration, proposeSection, handleSideQuestion
  <1>8. ASSUME NEW c \in Calls, runIteration(c) \/ Return(c) \/ RecordOutcome(c)
        PROVE  FlagType'
    BY <1>8 DEF runIteration, Return, AgentFails, AgentAnswers, RecordOutcome
  <1>9. ASSUME NEW c \in Calls, Respond(c) PROVE FlagType'
    BY <1>9 DEF Respond, RefuseAnswer, SyncOnAnswer, StoreReply, InstallProposal, Install,
                ReconcileExternalPlan
  <1>10. CASE UNCHANGED vars
    BY <1>10 DEF vars
  <1> QED BY <1>1, <1>2, <1>3, <1>4, <1>5, <1>6, <1>7, <1>8, <1>9, <1>10 DEF Next, Reviewer, Answer

-----------------------------------------------------------------------------
(* Proposals: what may be applied was made from the review as it is. *)

LEMMA NextIncluded ==
    ASSUME SessionType, CallType, ProposalOK, IncludedOK, [Next]_vars
    PROVE  IncludedOK'
  <1> USE DEF IncludedOK
  <1> DEFINE Good(r) == r.included \subseteq r.base.feedback \union r.base.notes
  <1>1. ASSUME NEW c \in Calls, NEW r, Good(r), calls' = [calls EXCEPT ![c] = r] PROVE IncludedOK'
    BY <1>1 DEF CallType
  <1>2. ASSUME NEW c \in Calls, NEW outcome, Conclude(c, outcome) PROVE IncludedOK'
    BY <1>2 DEF Conclude, Idle, CallType
  <1>3. ASSUME cancelIteration PROVE IncludedOK'
    BY <1>3 DEF cancelIteration, CallType, CallRecords
  <1>4. ASSUME NEW kind \in Kinds, prepareProposal(kind), NEW included \in MayInclude(kind)
        PROVE  included \subseteq Current.feedback \union Current.notes
    BY <1>4, IncludedIsThere DEF Current
  <1>5. ASSUME NEW c \in Calls, NEW kind \in Kinds, startIteration(c, kind) PROVE IncludedOK'
    <2>1. PICK included \in MayInclude(kind) :
            calls' = [calls EXCEPT ![c] = [step |-> "queued", kind |-> "background",
                    op |-> sequence + 1, canceled |-> FALSE, outcome |-> "none",
                    base |-> Current, included |-> included]]
      BY <1>5 DEF startIteration
    <2>2. included \subseteq Current.feedback \union Current.notes
      BY <1>4, <1>5 DEF startIteration
    <2>3. Good([step |-> "queued", kind |-> "background", op |-> sequence + 1, canceled |-> FALSE,
                outcome |-> "none", base |-> Current, included |-> included])
      BY <2>2
    <2> HIDE DEF Good
    <2> QED BY <1>1, <2>1, <2>3
  <1>6. ASSUME NEW c \in Calls, NEW kind \in Kinds, proposeSection(c, kind) PROVE IncludedOK'
    <2>1. PICK included \in MayInclude(kind) :
            calls' = [calls EXCEPT ![c] = [step |-> "asking", kind |-> "propose", op |-> 0,
                    canceled |-> FALSE, outcome |-> "none", base |-> Current,
                    included |-> included]]
      BY <1>6 DEF proposeSection
    <2>2. included \subseteq Current.feedback \union Current.notes
      BY <1>4, <1>6 DEF proposeSection
    <2>3. Good([step |-> "asking", kind |-> "propose", op |-> 0, canceled |-> FALSE,
                outcome |-> "none", base |-> Current, included |-> included])
      BY <2>2
    <2> HIDE DEF Good
    <2> QED BY <1>1, <2>1, <2>3
  <1>7. ASSUME NEW c \in Calls, handleSideQuestion(c) PROVE IncludedOK'
    BY <1>1, <1>7 DEF handleSideQuestion
  <1>8. ASSUME NEW c \in Calls, runIteration(c) PROVE IncludedOK'
    <2>1. CASE calls' = [calls EXCEPT ![c].step = "asking"]
      BY <2>1 DEF CallType, CallRecords
    <2>2. CASE calls' = [calls EXCEPT ![c] = Idle]
      BY <2>2, <1>1 DEF Idle
    <2> QED BY <1>2, <1>8, <2>1, <2>2 DEF runIteration
  <1>9. ASSUME NEW c \in Calls, Return(c) PROVE IncludedOK'
    <2>1. ASSUME NEW outcome, AgentAnswers(c, outcome) PROVE IncludedOK'
      BY <2>1 DEF AgentAnswers, CallType, CallRecords
    <2> QED BY <1>2, <1>9, <2>1 DEF Return, AgentFails
  <1>10. ASSUME NEW c \in Calls, Respond(c) PROVE IncludedOK'
    BY <1>2, <1>10 DEF Respond, RefuseAnswer, SyncOnAnswer, StoreReply, InstallProposal, Install
  <1>11. ASSUME NEW c \in Calls, RecordOutcome(c) PROVE IncludedOK'
    BY <1>1, <1>11 DEF RecordOutcome, Idle
  <1>12. CASE UNCHANGED calls
    BY <1>12
  <1> QED BY <1>3, <1>5, <1>6, <1>7, <1>8, <1>9, <1>10, <1>11, <1>12, QuietCalls
          DEF CallStep, cancelOperation, cancel, abandonOrphanedReview, Ask, Answer

LEMMA NextProposal ==
    ASSUME SessionType, CallType, ProposalOK, IncludedOK, [Next]_vars
    PROVE  ProposalOK'
  <1> USE DEF ProposalOK
  <1>1. ASSUME NEW r \in Remarks, ChangeFeedback(r) \/ CommentOnProposal(r) \/ DeleteProposalComment(r)
        PROVE  ProposalOK'
    BY <1>1 DEF ChangeFeedback, CommentOnProposal, DeleteProposalComment
  <1>2. ASSUME ApplyProposal \/ DiscardProposal PROVE ProposalOK'
    BY <1>2 DEF ApplyProposal, DiscardProposal, NoProposal
  <1>3. ASSUME RestoreRevision PROVE ProposalOK'
    BY <1>3 DEF RestoreRevision
  <1>4. ASSUME ReconcileExternalPlan PROVE ProposalOK'
    <2>1. CASE pending.id = 0
      BY <1>4, <2>1 DEF ReconcileExternalPlan
    <2>2. CASE pending.id # 0
      <3>1. pending' = [pending EXCEPT !.obsolete = TRUE]
        BY <1>4, <2>2 DEF ReconcileExternalPlan
      <3>2. pending'.obsolete /\ pending'.id = pending.id
        BY <3>1 DEF SessionType, Proposals
      <3> QED BY <2>2, <3>2
    <2> QED BY <2>1, <2>2
  <1>5. ASSUME NEW c \in Calls, StoreReply(c) PROVE ProposalOK'
    BY <1>5 DEF StoreReply
  <1>6. ASSUME NEW c \in Calls, InstallProposal(c) PROVE ProposalOK'
    <2>1. pending' = [id |-> nextProposal + 1, parent |-> revision, included |-> calls[c].included,
                      obsolete |-> FALSE, maker |-> calls[c].op]
      BY <1>6 DEF InstallProposal, Install
    <2>2. UNCHANGED <<revision, feedback, notes>>
      BY <1>6 DEF InstallProposal, Install
    <2>3. calls[c].base.feedback = feedback /\ calls[c].base.notes = notes
      BY <1>6 DEF InstallProposal, Install, Fits, Current
    <2>4. calls[c].included \subseteq feedback \union notes
      BY <2>3 DEF IncludedOK
    <2>5. pending'.id # 0
      BY <2>1 DEF SessionType
    <2> QED BY <2>1, <2>2, <2>4, <2>5
  <1>7. CASE UNCHANGED session
    BY <1>7 DEF session
  <1> QED BY <1>1, <1>2, <1>3, <1>4, <1>5, <1>6, <1>7, QuietReview
          DEF ReviewStep, syncExternalSource, SyncOnAnswer

-----------------------------------------------------------------------------
(* Operations: a goroutine belongs to the operation that runs, and nothing   *)
(* is canceled but what was stopped.                                        *)

(* The steps that leave the calls and the operation as they are. *)
LEMMA QuietOwner ==
    ASSUME UNCHANGED <<calls, op, stopped>>, OwnerOK, StopOK
    PROVE  OwnerOK' /\ StopOK'
  BY DEF OwnerOK, StopOK, Background, iterationRunning

LEMMA CancelOwner ==
    ASSUME CallType, OperationType, OwnerOK, StopOK, cancelIteration
    PROVE  OwnerOK' /\ StopOK'
  <1>1. CASE iterationRunning
    <2>1. op'.id = op.id /\ op'.status = "canceling" /\ stopped' = TRUE
      BY <1>1 DEF cancelIteration, OperationType
    <2>2. ASSUME NEW c \in Calls
          PROVE  /\ calls'[c].step = calls[c].step /\ calls'[c].kind = calls[c].kind
                 /\ calls'[c].op = calls[c].op
                 /\ calls'[c].canceled => calls[c].canceled \/ Background(c)
      BY <1>1 DEF cancelIteration, CallType, CallRecords, Background
    <2>3. iterationRunning'
      BY <2>1 DEF iterationRunning, Running
    <2>4. OwnerOK'
      BY <2>1, <2>2, <2>3 DEF OwnerOK, Background
    <2>5. StopOK'
      BY <2>1, <2>2 DEF StopOK, Background
    <2> QED BY <2>4, <2>5
  <1>2. CASE ~iterationRunning
    BY <1>2, QuietOwner DEF cancelIteration
  <1> QED BY <1>1, <1>2

(* A call that ends, or goes on without becoming another. *)
LEMMA CallGoesOn ==
    ASSUME CallType, OwnerOK, StopOK, NEW c \in Calls, NEW r \in CallRecords,
           calls' = [calls EXCEPT ![c] = r],
           op'.id = op.id, stopped' = stopped,
           iterationRunning => iterationRunning',
           op'.status \in {"canceling", "canceled"} => stopped,
           r.step # "free" /\ r.kind = "background" => Background(c) /\ r.op = calls[c].op,
           r.step \in {"queued", "stored"} => r.kind = "background",
           r.canceled => Background(c) /\ calls[c].canceled /\ r.step # "free" /\ r.kind = "background",
           r.step # "free" /\ r.outcome = "canceled" => calls[c].canceled \/ calls[c].outcome = "canceled"
    PROVE  OwnerOK' /\ StopOK'
  <1>1. \A d \in Calls : calls'[d] = IF d = c THEN r ELSE calls[d]
    BY DEF CallType
  <1>2. \A d \in Calls : Background(d)' => Background(d) /\ calls'[d].op = calls[d].op
    BY <1>1 DEF Background
  <1>3. OwnerOK'
    BY <1>1, <1>2 DEF OwnerOK
  <1>4. \A d \in Calls : Background(d)' /\ (calls'[d].canceled \/ calls'[d].outcome = "canceled") =>
                 stopped
    BY <1>1, <1>2 DEF StopOK, Background
  <1>5. \A d \in Calls : calls'[d].canceled => Background(d)'
    BY <1>1 DEF StopOK, Background
  <1>6. StopOK'
    BY <1>4, <1>5 DEF StopOK
  <1> QED BY <1>3, <1>6

(* A call that asks in its own request, or is over. *)
LEMMA Concluding ==
    ASSUME CallType, OwnerOK, StopOK, NEW c \in Calls, calls[c].step # "free",
           NEW outcome \in Outcomes, Conclude(c, outcome),
           outcome = "canceled" => calls[c].canceled \/ calls[c].outcome = "canceled",
           op'.id = op.id, stopped' = stopped,
           iterationRunning => iterationRunning',
           op'.status \in {"canceling", "canceled"} => stopped
    PROVE  OwnerOK' /\ StopOK'
  <1> DEFINE r == [Idle EXCEPT !.step = "stored", !.kind = "background", !.op = calls[c].op,
                                !.outcome = outcome]
  <1>1. CASE calls[c].kind = "background"
    <2>1. calls[c].op \in Nat
      BY DEF CallType, CallRecords
    <2>2. r \in CallRecords
      BY <2>1 DEF Idle, NoBase, CallRecords, Bases, Outcomes
    <2>3. /\ r.step = "stored" /\ r.kind = "background" /\ r.op = calls[c].op
          /\ r.outcome = outcome /\ r.canceled = FALSE
      BY DEF Idle
    <2>4. calls' = [calls EXCEPT ![c] = r]
      BY <1>1 DEF Conclude
    <2>5. Background(c)
      BY <1>1 DEF Background
    <2> HIDE DEF r
    <2> QED BY <2>2, <2>3, <2>4, <2>5, CallGoesOn
  <1>2. CASE calls[c].kind # "background"
    <2>1. calls' = [calls EXCEPT ![c] = Idle]
      BY <1>2 DEF Conclude
    <2>2. Idle.step = "free" /\ Idle.canceled = FALSE
      BY DEF Idle
    <2> QED BY <2>1, <2>2, IdleType, CallGoesOn
  <1> QED BY <1>1, <1>2

(* With no iteration running there is no background goroutine. *)
LEMMA NoBackground ==
    ASSUME OwnerOK, ~iterationRunning, NEW c \in Calls
    PROVE  ~Background(c)
  BY DEF OwnerOK

LEMMA NextOwner ==
    ASSUME SessionType, ProposalOK, OperationType, CallType, OwnerOK, StopOK, [Next]_vars
    PROVE  OwnerOK' /\ StopOK'
  <1>1. ASSUME cancelIteration PROVE OwnerOK' /\ StopOK'
    BY <1>1, CancelOwner
  <1>2. ASSUME NEW c \in Calls, NEW kind \in Kinds, startIteration(c, kind) PROVE OwnerOK' /\ StopOK'
    <2>1. ~iterationRunning
      BY <1>2 DEF startIteration, prepareProposal
    <2>2. \A d \in Calls : ~Background(d)
      BY <2>1, NoBackground
    <2>3. \A d \in Calls : d # c => calls'[d] = calls[d]
      BY <1>2 DEF startIteration, CallType
    <2>4. /\ calls'[c].op = sequence + 1 /\ calls'[c].kind = "background"
          /\ calls'[c].canceled = FALSE /\ calls'[c].outcome = "none" /\ calls'[c].step = "queued"
      BY <1>2 DEF startIteration, CallType
    <2>5. op'.id = sequence + 1 /\ op'.status = "queued"
      BY <1>2 DEF startIteration
    <2>6. iterationRunning'
      BY <2>5 DEF iterationRunning, Running
    <2>7. \A d \in Calls : Background(d)' => d = c
      BY <2>2, <2>3 DEF Background
    <2>8. OwnerOK'
      BY <2>3, <2>4, <2>5, <2>6, <2>7 DEF OwnerOK
    <2>9. StopOK'
      BY <2>2, <2>3, <2>4, <2>5, <2>7 DEF StopOK, Background
    <2> QED BY <2>8, <2>9
  <1>3. ASSUME NEW c \in Calls, NEW kind \in Kinds, proposeSection(c, kind)
        PROVE  OwnerOK' /\ StopOK'
    <2>1. PICK included \in MayInclude(kind) :
            calls' = [calls EXCEPT ![c] = [step |-> "asking", kind |-> "propose", op |-> 0,
                    canceled |-> FALSE, outcome |-> "none", base |-> Current,
                    included |-> included]]
      BY <1>3 DEF proposeSection
    <2>2. included \subseteq Remarks
      BY <1>3, IncludedIsThere DEF proposeSection
    <2>3. [step |-> "asking", kind |-> "propose", op |-> 0, canceled |-> FALSE,
           outcome |-> "none", base |-> Current, included |-> included] \in CallRecords
      BY <2>2, CurrentType DEF CallRecords, Outcomes
    <2>4. op' = op /\ stopped' = stopped
      BY <1>3 DEF proposeSection, operation
    <2> QED BY <2>1, <2>3, <2>4, CallGoesOn DEF StopOK, iterationRunning
  <1>4. ASSUME NEW c \in Calls, handleSideQuestion(c) PROVE OwnerOK' /\ StopOK'
    <2>1. calls' = [calls EXCEPT ![c] = [step |-> "asking", kind |-> "ask", op |-> 0,
                    canceled |-> FALSE, outcome |-> "none", base |-> Current, included |-> {}]]
      BY <1>4 DEF handleSideQuestion
    <2>2. [step |-> "asking", kind |-> "ask", op |-> 0, canceled |-> FALSE,
           outcome |-> "none", base |-> Current, included |-> {}] \in CallRecords
      BY CurrentType DEF CallRecords, Outcomes
    <2>3. op' = op /\ stopped' = stopped
      BY <1>4 DEF handleSideQuestion, operation
    <2> QED BY <2>1, <2>2, <2>3, CallGoesOn DEF StopOK, iterationRunning
  <1>5. ASSUME NEW c \in Calls, runIteration(c) PROVE OwnerOK' /\ StopOK'
    <2>1. Background(c)
      BY <1>5 DEF runIteration, OwnerOK, Background
    <2>2. op.id = calls[c].op /\ iterationRunning
      BY <2>1 DEF OwnerOK
    <2>3. op'.id = op.id /\ op'.status = "running" /\ stopped' = stopped
      BY <1>5, <2>2 DEF runIteration, OperationType
    <2>4. iterationRunning'
      BY <2>3 DEF iterationRunning, Running
    <2>5. CASE calls[c].canceled /\ Conclude(c, "canceled")
      BY <1>5, <2>3, <2>4, <2>5, Concluding DEF runIteration, Outcomes
    <2>6. CASE calls' = [calls EXCEPT ![c].step = "asking"]
      <3>1. [calls[c] EXCEPT !.step = "asking"] \in CallRecords
        BY DEF CallType, CallRecords
      <3>2. calls' = [calls EXCEPT ![c] = [calls[c] EXCEPT !.step = "asking"]]
        BY <2>6
      <3>3. LET r == [calls[c] EXCEPT !.step = "asking"]
            IN  /\ r.step = "asking" /\ r.kind = calls[c].kind /\ r.op = calls[c].op
                /\ r.canceled = calls[c].canceled /\ r.outcome = calls[c].outcome
        BY DEF CallType, CallRecords
      <3>4. calls[c].kind = "background"
        BY <2>1 DEF Background
      <3> QED BY <2>1, <2>3, <2>4, <3>1, <3>2, <3>3, <3>4, CallGoesOn
    <2> QED BY <1>5, <2>2, <2>5, <2>6 DEF runIteration
  <1>6. ASSUME NEW c \in Calls, Return(c) PROVE OwnerOK' /\ StopOK'
    <2>1. ASSUME NEW outcome \in {"failed", "canceled"}, AgentFails(c, outcome)
          PROVE  OwnerOK' /\ StopOK'
      BY <2>1, Concluding DEF AgentFails, Outcomes, operation, StopOK, iterationRunning
    <2>2. ASSUME NEW outcome \in {"proposal", "reply"}, AgentAnswers(c, outcome)
          PROVE  OwnerOK' /\ StopOK'
      <3> DEFINE r == [calls[c] EXCEPT !.step = "answered", !.outcome = outcome]
      <3>1. r \in CallRecords
        BY DEF CallType, CallRecords, Outcomes
      <3>2. calls' = [calls EXCEPT ![c] = r] /\ UNCHANGED <<op, stopped>>
        BY <2>2 DEF AgentAnswers, operation
      <3>3. /\ r.step = "answered" /\ r.kind = calls[c].kind /\ r.op = calls[c].op
            /\ r.canceled = calls[c].canceled /\ r.outcome = outcome
        BY DEF CallType, CallRecords
      <3>4. calls[c].step = "asking"
        BY <2>2 DEF AgentAnswers
      <3>5. r.kind = "background" => Background(c)
        BY <3>3, <3>4 DEF Background
      <3>6. r.canceled => Background(c) /\ calls[c].canceled /\ r.kind = "background"
        BY <3>3 DEF StopOK, Background
      <3> HIDE DEF r
      <3> QED BY <3>1, <3>2, <3>3, <3>5, <3>6, CallGoesOn DEF StopOK, iterationRunning
    <2> QED BY <1>6, <2>1, <2>2 DEF Return
  <1>7. ASSUME NEW c \in Calls, RefuseAnswer(c) \/ SyncOnAnswer(c) \/ InstallProposal(c)
        PROVE  OwnerOK' /\ StopOK'
    <2>1. PICK outcome \in {"failed", "proposal"} : Conclude(c, outcome)
      BY <1>7 DEF RefuseAnswer, SyncOnAnswer, InstallProposal, Install
    <2>2. calls[c].step # "free" /\ op' = op /\ stopped' = stopped
      BY <1>7 DEF RefuseAnswer, SyncOnAnswer, InstallProposal, Install, operation
    <2> QED BY <2>1, <2>2, Concluding DEF Outcomes, StopOK, iterationRunning
  <1>8. ASSUME NEW c \in Calls, StoreReply(c) PROVE OwnerOK' /\ StopOK'
    <2>1. CASE calls[c].kind # "ask"
      <3>1. op' = op /\ stopped' = stopped /\ calls[c].step # "free" /\ Conclude(c, "reply")
        BY <1>8, <2>1 DEF StoreReply
      <3> QED BY <3>1, Concluding DEF Outcomes, StopOK, iterationRunning
    <2>2. CASE calls[c].kind = "ask"
      <3>1. ~iterationRunning
        BY <1>8, <2>2 DEF StoreReply, Welcome
      <3>2. \A d \in Calls : ~Background(d)
        BY <3>1, NoBackground
      <3>3. calls' = [calls EXCEPT ![c] = Idle] /\ op' = NoOp
        BY <1>8, <2>2 DEF StoreReply, Conclude
      <3>4. \A d \in Calls : ~Background(d)'
        BY <3>2, <3>3 DEF Background, CallType, Idle
      <3>5. \A d \in Calls : ~calls'[d].canceled
        BY <3>2, <3>3 DEF StopOK, CallType, Idle
      <3>6. \A d \in Calls : calls'[d].step \in {"queued", "stored"} => calls'[d].kind = "background"
        BY <3>3 DEF OwnerOK, CallType, Idle
      <3>7. OwnerOK'
        BY <3>4, <3>6 DEF OwnerOK
      <3>8. StopOK'
        BY <3>3, <3>4, <3>5 DEF StopOK, NoOp
      <3> QED BY <3>7, <3>8
    <2> QED BY <2>1, <2>2
  <1>9. ASSUME NEW c \in Calls, RecordOutcome(c) PROVE OwnerOK' /\ StopOK'
    <2>1. Background(c)
      BY <1>9 DEF RecordOutcome, OwnerOK, Background
    <2>2. \A d \in Calls : Background(d) => d = c
      BY <2>1 DEF OwnerOK
    <2>3. calls' = [calls EXCEPT ![c] = Idle] /\ stopped' = stopped
      BY <1>9 DEF RecordOutcome
    <2>4. \A d \in Calls : ~Background(d)'
      BY <2>2, <2>3 DEF Background, CallType, Idle
    <2>5. \A d \in Calls : ~calls'[d].canceled
      BY <2>2, <2>3 DEF StopOK, CallType, Idle
    <2>6. \A d \in Calls : calls'[d].step \in {"queued", "stored"} => calls'[d].kind = "background"
      BY <2>3 DEF OwnerOK, CallType, Idle
    <2>7. op'.status \in {"canceling", "canceled"} => stopped
      <3>1. \/ op' = op
            \/ op'.status \in {"failed", "succeeded"}
            \/ op.status = "canceling" \/ calls[c].outcome = "canceled"
        BY <1>9 DEF RecordOutcome, OperationType
      <3> QED BY <2>1, <3>1 DEF StopOK
    <2>8. OwnerOK'
      BY <2>4, <2>6 DEF OwnerOK
    <2>9. StopOK'
      BY <2>3, <2>4, <2>5, <2>7 DEF StopOK
    <2> QED BY <2>8, <2>9
  <1>10. ASSUME mutateSession PROVE OwnerOK' /\ StopOK'
    <2>1. \A d \in Calls : ~Background(d)
      BY <1>10, NoBackground DEF mutateSession
    <2>2. UNCHANGED <<calls, stopped>> /\ op' = NoOp
      BY <1>10 DEF mutateSession
    <2>3. \A d \in Calls : ~Background(d)'
      BY <2>1, <2>2 DEF Background
    <2> QED BY <2>1, <2>2, <2>3 DEF OwnerOK, StopOK, NoOp
  <1>11. CASE UNCHANGED operation /\ UNCHANGED calls
    BY <1>11, QuietOwner DEF operation
  <1>12. CASE ~CallStep
    BY <1>10, <1>11, <1>12, QuietCalls, OperationSteps DEF CallStep, Ask, Answer, Respond
  <1> QED BY <1>1, <1>2, <1>3, <1>4, <1>5, <1>6, <1>7, <1>8, <1>9, <1>12
          DEF CallStep, cancelOperation, cancel, abandonOrphanedReview, Ask, Answer, Respond

-----------------------------------------------------------------------------
(* The invariant and what follows from it. *)

LEMMA InitInv == Init => IInv
  <1> USE DEF Init
  <1>1. Init => SessionType
    BY NoProposalType DEF SessionType
  <1>2. Init => OperationType
    <2>1. NoOp \in [id : Nat, status : {"none"} \union Running \union Terminal, kind : Kinds]
      BY DEF NoOp, Kinds
    <2>2. Init => stopped \in BOOLEAN
      OBVIOUS
    <2>3. Init => sequence \in Nat
      OBVIOUS
    <2>4. Init => op \in [id : Nat, status : {"none"} \union Running \union Terminal, kind : Kinds]
      BY <2>1
    <2> QED BY <2>2, <2>3, <2>4, Zenon DEF OperationType
  <1>3. Init => CallType
    BY IdleType DEF CallType
  <1>4. Init => OwnerOK /\ StopOK
    BY DEF OwnerOK, StopOK, Background, Idle, NoOp
  <1>5. Init => ProposalOK /\ IncludedOK
    BY DEF ProposalOK, IncludedOK, Idle, NoBase, NoProposal
  <1>6. Init => FlagType
    BY DEF FlagType
  <1> QED BY <1>1, <1>2, <1>3, <1>4, <1>5, <1>6 DEF IInv, TypeOK

LEMMA NextInv == IInv /\ [Next]_vars => IInv'
  BY NextSession, NextCalls, NextOperation, NextFlags, NextIncluded, NextProposal, NextOwner
     DEF IInv, TypeOK

(* The invariant holds in every reachable state, for any number of calls in *)
(* flight and any bounds.                                                  *)
THEOREM Invariance == Spec => []IInv
  BY InitInv, NextInv, PTL DEF Spec

(* A proposal the reviewer can apply was made from the revision it replaces *)
(* and includes only feedback that still stands.                           *)
THEOREM ProposalsAreCurrent == Spec => []ProposalIsCurrent
  <1>1. IInv => ProposalIsCurrent
    BY DEF IInv, ProposalOK, ProposalIsCurrent
  <1> QED BY <1>1, Invariance, PTL

(* One background iteration runs at a time, and it is the one the server    *)
(* reports.                                                                *)
THEOREM IterationsExclude == Spec => []OneIteration
  <1>1. IInv => OneIteration
    BY DEF IInv, OwnerOK, OneIteration
  <1> QED BY <1>1, Invariance, PTL

(* Only the stop button and the end of the review cancel an iteration. *)
THEOREM StopsCancel == Spec => []OnlyStopCancels
  <1>1. IInv => OnlyStopCancels
    BY DEF IInv, StopOK, OnlyStopCancels
  <1> QED BY <1>1, Invariance, PTL

(* No handler and no late answer changes a review that has ended. *)
THEOREM EndedReviewStays == Spec => EndedReviewKeeps
  <1>1. ASSUME [Next]_vars, finished PROVE UNCHANGED session
    <2>1. ~ReviewStep
      BY <1>1 DEF ReviewStep, ChangeFeedback, CommentOnProposal, DeleteProposalComment, mutateSession,
                  ApplyProposal, DiscardProposal, RestoreRevision, syncExternalSource, SyncOnAnswer,
                  Welcome, StoreReply, InstallProposal
    <2> QED BY <1>1, <2>1, QuietReview
  <1>2. [Next]_vars => [finished => UNCHANGED session]_vars
    BY <1>1
  <1> QED BY <1>2, PTL DEF Spec, EndedReviewKeeps
=============================================================================
