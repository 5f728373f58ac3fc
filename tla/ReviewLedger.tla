---------------------------- MODULE ReviewLedger ----------------------------
(***************************************************************************)
(* What the durable record of one plan's review promises to the servers    *)
(* that share it, whatever the storage underneath does.                    *)
(*                                                                         *)
(* The record is a history of review states.  A state is replaced by       *)
(* recording the next one behind it: the next state keeps every edit of    *)
(* the state before it and adds at most one.  An edit is answered to the   *)
(* client only once it is in the record.  Settled is the part of the       *)
(* history that survives a power failure.                                  *)
(***************************************************************************)
EXTENDS Naturals, Sequences

CONSTANT Edits  \* the feedback mutations clients may ask for

VARIABLES history,  \* the review states recorded so far, oldest first
          settled,  \* how many of them a power failure cannot take back
          answered  \* the edits whose client was told "saved"

vars == <<history, settled, answered>>

Statuses == {"active", "finalized", "canceled"}
Terminal(status) == status \in {"finalized", "canceled"}

(* The newest state; before the first one the review is empty and active. *)
Tip(h) == IF h = <<>> THEN [content |-> {}, status |-> "active"] ELSE h[Len(h)]

TypeOK ==
    /\ history \in Seq([content : SUBSET Edits, status : Statuses])
    /\ settled \in 0 .. Len(history)
    /\ answered \subseteq Edits

Init ==
    /\ history = <<>>
    /\ settled = 0
    /\ answered = {}

(* An edit is recorded on top of the newest state of a review that is open. *)
RecordEdit(e) ==
    /\ ~Terminal(Tip(history).status)
    /\ e \notin Tip(history).content
    /\ history' = Append(history, [content |-> Tip(history).content \union {e},
                                   status  |-> "active"])
    /\ UNCHANGED <<settled, answered>>

(* The review starts, ends, is reopened, or its finalized record is renewed. *)
RecordStatus(status) ==
    /\ Terminal(Tip(history).status) => status \in {"active", Tip(history).status}
    /\ history' = Append(history, [content |-> Tip(history).content, status |-> status])
    /\ UNCHANGED <<settled, answered>>

Answer(e) ==
    /\ e \in Tip(history).content
    /\ answered' = answered \union {e}
    /\ UNCHANGED <<history, settled>>

Settle ==
    /\ settled' = Len(history)
    /\ UNCHANGED <<history, answered>>

(* The storage confirms the newest state and answers for it in one step. *)
SettleAndAnswer(e) ==
    /\ e \in Tip(history).content
    /\ settled' = Len(history)
    /\ answered' = answered \union {e}
    /\ UNCHANGED history

(* A power failure: an unsettled tail may be lost, never a settled state. *)
Lose ==
    \E n \in settled .. Len(history) :
        /\ history' = SubSeq(history, 1, n)
        /\ settled' = n
        /\ UNCHANGED answered

Next ==
    \/ \E e \in Edits : RecordEdit(e) \/ Answer(e) \/ SettleAndAnswer(e)
    \/ \E status \in Statuses : RecordStatus(status)
    \/ Settle
    \/ Lose

Spec == Init /\ [][Next]_vars
=============================================================================
