--------------------------- MODULE ReviewIteration ---------------------------
(***************************************************************************)
(* One review server and the agent requests it has in flight               *)
(* (internal/review/operations.go and server.go).                          *)
(*                                                                         *)
(* Asking the agent takes minutes and holds no lock.  Three kinds of call  *)
(* do it: the background iteration, of which there is one at a time, the   *)
(* synchronous proposal request, and the side question.  Each remembers    *)
(* the review it asked about; when the answer comes the handler takes the  *)
(* mutex again and refuses the answer if the review has changed.  Every    *)
(* handler holds the mutex from its checks to the end of its save, so it   *)
(* is one action here.  A save that fails leaves the session as it was;    *)
(* locks, crashes and other processes are the subject of BundleStore.      *)
(***************************************************************************)
EXTENDS Naturals

CONSTANTS Calls,        \* room for agent calls in flight
          Remarks,      \* feedback the reviewer may ask the agent to heed
          MaxRevision,  \* bounds on revisions,
          MaxProposal,  \* proposals,
          MaxOperation, \* background iterations,
          MaxReplies    \* and agent replies and side answers

ASSUME BoundsAssumption ==
    MaxRevision \in Nat /\ MaxProposal \in Nat /\ MaxOperation \in Nat /\ MaxReplies \in Nat

VARIABLES
    revision,     \* number of Session.CurrentRevisionID
    feedback,     \* active instructions on the current revision
    notes,        \* threads on the pending proposal
    replies,      \* agent replies and side answers given so far
    pending,      \* Session.PendingProposal
    nextProposal, \* Session.NextProposalID
    edited,       \* the source file differs from the recorded baseline
    finished,     \* Server.finished
    op,           \* Server.iterationOperation
    sequence,     \* Server.iterationSequence
    stopped,      \* the newest iteration was stopped, by the button or the review's end
    calls,        \* the goroutines that ask the agent
    crashed       \* the process is gone

session   == <<revision, feedback, notes, replies, pending, nextProposal>>
operation == <<op, sequence, stopped>>
vars      == <<session, edited, finished, operation, calls, crashed>>

Kinds    == {"review", "section"}
Running  == {"queued", "running", "canceling"}
Terminal == {"succeeded", "failed", "canceled"}
Outcomes == {"none", "proposal", "reply", "failed", "canceled"}

(* parent, included and obsolete are the code's; maker is the iteration     *)
(* whose answer it is, 0 for a synchronous request.                         *)
Proposals  == [id : Nat, parent : Nat, included : SUBSET Remarks, obsolete : BOOLEAN, maker : Nat]
NoProposal == [id |-> 0, parent |-> 0, included |-> {}, obsolete |-> FALSE, maker |-> 0]
NoOp       == [id |-> 0, status |-> "none", kind |-> "section"]

(* The review a call asked about: base* of preparedProposal. *)
Bases  == [revision : Nat, pending : Nat, feedback : SUBSET Remarks, notes : SUBSET Remarks,
           replies : Nat]
NoBase == [revision |-> 0, pending |-> 0, feedback |-> {}, notes |-> {}, replies |-> 0]
Idle   == [step |-> "free", kind |-> "ask", op |-> 0, canceled |-> FALSE, outcome |-> "none",
           base |-> NoBase, included |-> {}]

SessionType ==
    /\ revision \in Nat /\ replies \in Nat /\ nextProposal \in Nat
    /\ feedback \subseteq Remarks /\ notes \subseteq Remarks
    /\ pending \in Proposals

OperationType ==
    /\ sequence \in Nat /\ stopped \in BOOLEAN
    /\ op \in [id : Nat, status : {"none"} \union Running \union Terminal, kind : Kinds]

CallRecords == [step     : {"free", "queued", "asking", "answered", "stored"},
                kind     : {"background", "propose", "ask"},
                op       : Nat,
                canceled : BOOLEAN,
                outcome  : Outcomes,
                base     : Bases,
                included : SUBSET Remarks]

CallType == calls \in [Calls -> CallRecords]

FlagType == edited \in BOOLEAN /\ finished \in BOOLEAN /\ crashed \in BOOLEAN

TypeOK == SessionType /\ OperationType /\ CallType /\ FlagType

Init ==
    /\ revision = 1 /\ feedback = {} /\ notes = {} /\ replies = 0
    /\ pending = NoProposal /\ nextProposal = 0
    /\ edited = FALSE /\ finished = FALSE /\ crashed = FALSE
    /\ op = NoOp /\ sequence = 0 /\ stopped = FALSE
    /\ calls = [c \in Calls |-> Idle]

-----------------------------------------------------------------------------
iterationRunning_UnlessStopped == op.status \in {"queued", "running"}

iterationRunning == op.status \in Running

Current == [revision |-> revision, pending |-> pending.id, feedback |-> feedback,
            notes |-> notes, replies |-> replies]

(* cancelIterationLocked: the status changes and the context is canceled. *)
cancelIteration ==
    IF iterationRunning
      THEN /\ op' = [op EXCEPT !.status = "canceling"]
           /\ stopped' = TRUE
           /\ calls' = [c \in Calls |->
                          IF calls[c].kind = "background" /\ calls[c].step # "free"
                            THEN [calls[c] EXCEPT !.canceled = TRUE] ELSE calls[c]]
      ELSE UNCHANGED <<op, stopped, calls>>

(* ReconcileExternalPlan: a new revision, on which threads that lost their  *)
(* text detach; a pending proposal is obsolete.                            *)
ReconcileExternalPlan ==
    /\ revision < MaxRevision
    /\ revision' = revision + 1
    /\ \E detached \in SUBSET feedback : feedback' = feedback \ detached
    /\ pending' = IF pending.id = 0 THEN pending ELSE [pending EXCEPT !.obsolete = TRUE]
    /\ edited' = FALSE
    /\ UNCHANGED <<notes, replies, nextProposal>>

(* A mutation, finalize or a new iteration notices the edit of the source   *)
(* file, records it, and refuses the request.                              *)
syncExternalSource ==
    /\ ~finished /\ edited
    /\ ReconcileExternalPlan
    /\ UNCHANGED <<finished, operation, calls, crashed>>

EditSource ==
    /\ ~edited
    /\ revision < MaxRevision
    /\ edited' = TRUE
    /\ UNCHANGED <<session, finished, operation, calls, crashed>>

-----------------------------------------------------------------------------
(* Asking the agent *)

(* prepareProposalLocked: a refinement keeps what its predecessor included  *)
(* and otherwise takes the comments on it; a review iteration includes all  *)
(* feedback, a section one what the section touches.                       *)
MayInclude(kind) ==
    IF pending.id # 0
      THEN {IF pending.included # {} THEN pending.included ELSE notes}
      ELSE IF kind = "review" THEN {feedback} ELSE SUBSET feedback

prepareProposal(kind) ==
    /\ ~iterationRunning /\ ~finished /\ ~edited
    /\ kind = "review" => pending.id = 0
    /\ ~pending.obsolete

(* startIteration: the same request again is told of the running iteration. *)
startIteration(c, kind) ==
    /\ calls[c].step = "free"
    /\ prepareProposal(kind)
    /\ sequence < MaxOperation
    /\ sequence' = sequence + 1
    /\ op' = [id |-> sequence + 1, status |-> "queued", kind |-> kind]
    /\ \E included \in MayInclude(kind) :
         calls' = [calls EXCEPT ![c] = [step |-> "queued", kind |-> "background",
                    op |-> sequence + 1, canceled |-> FALSE, outcome |-> "none",
                    base |-> Current, included |-> included]]
    /\ stopped' = FALSE
    /\ UNCHANGED <<session, edited, finished, crashed>>

(* What the call goes on with: a background iteration has yet to record its *)
(* outcome, a request answers its client.                                   *)
Conclude(c, outcome) ==
    calls' = [calls EXCEPT ![c] =
                IF calls[c].kind = "background"
                  THEN [Idle EXCEPT !.step = "stored", !.kind = "background", !.op = calls[c].op,
                                    !.outcome = outcome]
                  ELSE Idle]

runIteration_UnlessStopped(c) ==
    /\ calls[c].step = "queued"
    /\ IF op.id = calls[c].op /\ ~calls[c].canceled
         THEN /\ op' = [op EXCEPT !.status = "running"]
              /\ calls' = [calls EXCEPT ![c].step = "asking"]
         ELSE calls' = [calls EXCEPT ![c] = Idle] /\ UNCHANGED op
    /\ UNCHANGED <<session, edited, finished, sequence, stopped, crashed>>

(* The goroutine begins; Propose looks at its context first. *)
runIteration(c) ==
    /\ calls[c].step = "queued"
    /\ IF op.id = calls[c].op
         THEN /\ op' = [op EXCEPT !.status = "running"]
              /\ IF calls[c].canceled THEN Conclude(c, "canceled")
                                      ELSE calls' = [calls EXCEPT ![c].step = "asking"]
         ELSE calls' = [calls EXCEPT ![c] = Idle] /\ UNCHANGED op
    /\ UNCHANGED <<session, edited, finished, sequence, stopped, crashed>>

(* proposeSection: the same, inside the request. *)
proposeSection(c, kind) ==
    /\ calls[c].step = "free"
    /\ prepareProposal(kind)
    /\ \E included \in MayInclude(kind) :
         calls' = [calls EXCEPT ![c] = [step |-> "asking", kind |-> "propose", op |-> 0,
                    canceled |-> FALSE, outcome |-> "none", base |-> Current,
                    included |-> included]]
    /\ UNCHANGED <<session, edited, finished, operation, crashed>>

(* handleSideQuestion, up to the question; it does not look at the source. *)
handleSideQuestion(c) ==
    /\ calls[c].step = "free"
    /\ ~finished /\ pending.id = 0 /\ ~iterationRunning
    /\ feedback # {}
    /\ calls' = [calls EXCEPT ![c] = [step |-> "asking", kind |-> "ask", op |-> 0,
                  canceled |-> FALSE, outcome |-> "none", base |-> Current, included |-> {}]]
    /\ UNCHANGED <<session, edited, finished, operation, crashed>>

AgentFails_WithItsClient(c, outcome) ==
    /\ calls[c].step = "asking"
    /\ Conclude(c, outcome)
    /\ UNCHANGED <<session, edited, finished, operation, crashed>>

(* The agent fails or runs into the deadline, or a canceled context ends    *)
(* the wait.  A request's context also ends when its client goes away, that *)
(* of an iteration does not.                                               *)
AgentFails(c, outcome) ==
    /\ calls[c].step = "asking"
    /\ outcome = "canceled" => calls[c].canceled
    /\ Conclude(c, outcome)
    /\ UNCHANGED <<session, edited, finished, operation, crashed>>

(* An answer; the context may have been canceled too late to stop it. *)
AgentAnswers(c, outcome) ==
    /\ calls[c].step = "asking"
    /\ calls[c].kind = "ask" => outcome = "reply"
    /\ calls' = [calls EXCEPT ![c].step = "answered", ![c].outcome = outcome]
    /\ UNCHANGED <<session, edited, finished, operation, crashed>>

-----------------------------------------------------------------------------
(* The answer: executePreparedProposal and the end of handleSideQuestion. *)

(* The review is still the one the call asked about. *)
Fits_NoFeedback(c) ==
    /\ calls[c].base.revision = revision
    /\ calls[c].base.pending = pending.id

Fits(c) == calls[c].base = Current

(* A side question is also refused once an iteration runs. *)
Welcome(c) ==
    /\ ~finished
    /\ calls[c].kind = "ask" => pending.id = 0 /\ ~iterationRunning

(* The review has ended or changed, or the save failed. *)
RefuseAnswer(c) ==
    /\ calls[c].step = "answered"
    /\ Conclude(c, "failed")
    /\ UNCHANGED <<session, edited, finished, operation, crashed>>

SyncOnAnswer(c) ==
    /\ calls[c].step = "answered"
    /\ Welcome(c) /\ edited
    /\ ReconcileExternalPlan
    /\ Conclude(c, "failed")
    /\ UNCHANGED <<finished, operation, crashed>>

StoreReply(c) ==
    /\ calls[c].step = "answered" /\ calls[c].outcome = "reply"
    /\ Welcome(c) /\ ~edited /\ Fits(c)
    /\ replies < MaxReplies
    /\ replies' = replies + 1
    /\ op' = IF calls[c].kind = "ask" THEN NoOp ELSE op    \* clearTerminalIteration
    /\ Conclude(c, "reply")
    /\ UNCHANGED <<revision, feedback, notes, pending, nextProposal, edited, finished, sequence,
                   stopped, crashed>>

(* CreateSectionProposal, with RetargetProposalThreads: comments on the     *)
(* refined proposal move on to the new one.                                 *)
Install(c) ==
    /\ calls[c].step = "answered" /\ calls[c].outcome = "proposal"
    /\ ~edited /\ Fits(c)
    /\ nextProposal < MaxProposal
    /\ nextProposal' = nextProposal + 1
    /\ pending' = [id |-> nextProposal + 1, parent |-> revision, included |-> calls[c].included,
                   obsolete |-> FALSE, maker |-> calls[c].op]
    /\ Conclude(c, "proposal")
    /\ UNCHANGED <<revision, feedback, notes, replies, edited, finished, operation, crashed>>

InstallProposal_EvenFinished(c) == Install(c)

InstallProposal(c) == ~finished /\ Install(c)

(* The rest of runIteration: what became of the operation. *)
RecordOutcome(c) ==
    /\ calls[c].step = "stored"
    /\ op' = IF op.id # calls[c].op THEN op
             ELSE [op EXCEPT !.status =
                     IF @ = "canceling" \/ calls[c].outcome = "canceled" THEN "canceled"
                     ELSE IF calls[c].outcome = "failed" THEN "failed" ELSE "succeeded"]
    /\ calls' = [calls EXCEPT ![c] = Idle]
    /\ UNCHANGED <<session, edited, finished, sequence, stopped, crashed>>

(* The stop button: POST /api/operations/<id>/cancel. *)
cancelOperation ==
    /\ iterationRunning
    /\ cancelIteration
    /\ UNCHANGED <<session, edited, finished, sequence, crashed>>

-----------------------------------------------------------------------------
(* The reviewer *)

(* mutateSession, once it has saved: no mutation runs beside an iteration,  *)
(* and each puts the outcome of the last one away.                          *)
mutateSession ==
    /\ ~finished /\ ~iterationRunning /\ ~edited
    /\ op' = NoOp
    /\ UNCHANGED <<edited, finished, sequence, stopped, calls, crashed>>

(* Create, delete, edit or re-intend feedback on the current revision       *)
(* (rejectPendingFeedbackMutation refuses it while a proposal is pending).  *)
ChangeFeedback(r) ==
    /\ mutateSession
    /\ pending.id = 0
    /\ feedback' = IF r \in feedback THEN feedback \ {r} ELSE feedback \union {r}
    /\ UNCHANGED <<revision, notes, replies, pending, nextProposal>>

(* rejectPendingFeedbackMutation, for an obsolete proposal, calls itself:   *)
(* the stack grows until the runtime ends the process.                      *)
ChangeFeedbackOverflows(r) ==
    /\ ~finished /\ ~iterationRunning /\ ~edited
    /\ pending.obsolete
    /\ r \in feedback
    /\ crashed' = TRUE
    /\ UNCHANGED <<session, edited, finished, operation, calls>>

(* handleCreateThread on a pending proposal, which must not be obsolete. *)
CommentOnProposal(r) ==
    /\ mutateSession
    /\ pending.id # 0 /\ ~pending.obsolete
    /\ r \notin feedback \union notes
    /\ notes' = notes \union {r}
    /\ UNCHANGED <<revision, feedback, replies, pending, nextProposal>>

(* Validate keeps a thread that the proposal includes. *)
DeleteProposalComment(r) ==
    /\ mutateSession
    /\ r \in notes \ pending.included
    /\ notes' = notes \ {r}
    /\ UNCHANGED <<revision, feedback, replies, pending, nextProposal>>

(* ApplyProposalChecked: included feedback is addressed, other feedback may *)
(* detach, and comments on the proposal become comments on the revision.    *)
ApplyProposal ==
    /\ mutateSession
    /\ pending.id # 0 /\ ~pending.obsolete /\ pending.parent = revision
    /\ revision < MaxRevision
    /\ revision' = revision + 1
    /\ \E detached \in SUBSET (feedback \ pending.included) :
         feedback' = (feedback \ (pending.included \union detached))
                       \union (notes \ pending.included)
    /\ notes' = {}
    /\ pending' = NoProposal
    /\ UNCHANGED <<replies, nextProposal>>

DiscardProposal ==
    /\ mutateSession
    /\ pending.id # 0
    /\ notes' = {}
    /\ pending' = NoProposal
    /\ UNCHANGED <<revision, feedback, replies, nextProposal>>

RestoreRevision ==
    /\ mutateSession
    /\ pending.id = 0
    /\ revision < MaxRevision
    /\ revision' = revision + 1
    /\ UNCHANGED <<feedback, notes, replies, pending, nextProposal>>

finalize ==
    /\ ~finished /\ ~edited
    /\ pending.id = 0 /\ ~iterationRunning
    /\ finished' = TRUE
    /\ UNCHANGED <<session, edited, operation, calls, crashed>>

(* cancel stops the iteration, whether or not its save succeeds. *)
cancel(saved) ==
    /\ ~finished
    /\ cancelIteration
    /\ finished' = saved
    /\ UNCHANGED <<session, edited, sequence, crashed>>

abandonOrphanedReview ==
    /\ ~finished
    /\ cancelIteration
    /\ finished' = TRUE
    /\ UNCHANGED <<session, edited, sequence, crashed>>

-----------------------------------------------------------------------------
Reviewer ==
    \/ \E r \in Remarks : \/ ChangeFeedback(r) \/ ChangeFeedbackOverflows(r)
                          \/ CommentOnProposal(r) \/ DeleteProposalComment(r)
    \/ ApplyProposal \/ DiscardProposal \/ RestoreRevision
    \/ finalize \/ (\E saved \in BOOLEAN : cancel(saved)) \/ abandonOrphanedReview
    \/ cancelOperation \/ syncExternalSource \/ EditSource

Ask(c) ==
    \/ \E kind \in Kinds : startIteration(c, kind) \/ proposeSection(c, kind)
    \/ handleSideQuestion(c)

Respond(c) == RefuseAnswer(c) \/ SyncOnAnswer(c) \/ StoreReply(c) \/ InstallProposal(c)

Return(c) ==
    \/ \E outcome \in {"failed", "canceled"} : AgentFails(c, outcome)
    \/ \E outcome \in {"proposal", "reply"} : AgentAnswers(c, outcome)

Answer(c) == runIteration(c) \/ Return(c) \/ Respond(c) \/ RecordOutcome(c)

Next == ~crashed /\ (Reviewer \/ \E c \in Calls : Ask(c) \/ Answer(c))

(* A goroutine runs on, and the deadline of its context ends every wait for *)
(* the agent.                                                              *)
Fairness == \A c \in Calls : /\ WF_vars(~crashed /\ runIteration(c))
                            /\ WF_vars(~crashed /\ Return(c))
                            /\ WF_vars(~crashed /\ Respond(c))
                            /\ WF_vars(~crashed /\ RecordOutcome(c))

Spec == Init /\ [][Next]_vars
LiveSpec == Spec /\ Fairness

-----------------------------------------------------------------------------
(* The inductive invariant. *)

(* The goroutine of an iteration belongs to the operation, which runs.      *)
Background(c) == calls[c].step # "free" /\ calls[c].kind = "background"

OwnerOK ==
    /\ \A c \in Calls : Background(c) => op.id = calls[c].op /\ iterationRunning
    /\ \A c, d \in Calls : Background(c) /\ Background(d) => c = d
    /\ \A c \in Calls : calls[c].step \in {"queued", "stored"} => calls[c].kind = "background"

StopOK ==
    /\ op.status \in {"canceling", "canceled"} => stopped
    /\ \A c \in Calls :
         Background(c) /\ (calls[c].canceled \/ calls[c].outcome = "canceled") => stopped
    /\ \A c \in Calls : calls[c].canceled => Background(c)

(* A proposal that can be applied was made from this revision and includes  *)
(* feedback that is still there.                                           *)
ProposalOK ==
    /\ pending.id # 0 /\ ~pending.obsolete =>
         pending.parent = revision /\ pending.included \subseteq feedback \union notes
    /\ pending.id = 0 => pending = NoProposal /\ notes = {}

(* What a call included was in the review it asked about. *)
IncludedOK ==
    \A c \in Calls : calls[c].included \subseteq calls[c].base.feedback \union calls[c].base.notes

IInv == TypeOK /\ OwnerOK /\ StopOK /\ ProposalOK /\ IncludedOK

-----------------------------------------------------------------------------
(* Properties *)

(* The proposal a reviewer can apply was made from the revision it would    *)
(* replace, and all the feedback it claims to address is still there as the *)
(* agent saw it, however many calls, mutations and edits of the source      *)
(* overlapped.                                                             *)
ProposalIsCurrent ==
    pending.id # 0 /\ ~pending.obsolete =>
        pending.parent = revision /\ pending.included \subseteq feedback \union notes

(* There is one iteration at a time, also while one that was stopped winds  *)
(* down, and its goroutine finds its own operation at the end.              *)
OneIteration ==
    /\ \A c, d \in Calls : Background(c) /\ Background(d) => c = d
    /\ \A c \in Calls : Background(c) => op.id = calls[c].op

(* An iteration is canceled only because someone stopped it or the review   *)
(* ended, never because the browser that started it went away.              *)
OnlyStopCancels == op.status \in {"canceling", "canceled"} => stopped

(* A review that has ended keeps its plan, feedback and proposal: no answer *)
(* that comes late enters it.                                              *)
EndedReviewKeeps == [][finished => UNCHANGED session]_vars

(* Every iteration comes to an end, so the reviewer can go on.              *)
IterationsEnd == iterationRunning ~> ~iterationRunning

(* An iteration that ended as canceled has not changed the review.          *)
CanceledInstallsNothing == op.status = "canceled" => pending.id = 0 \/ pending.maker # op.id

(* Feedback beside a stale proposal is refused; the server lives on.        *)
ServerLivesOn == ~crashed
=============================================================================
