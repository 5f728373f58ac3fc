---------------------------- MODULE GrokFork_proofs ----------------------------
(***************************************************************************)
(* What the Grok Build client keeps for any calls, files and bounds.       *)
(***************************************************************************)
EXTENDS GrokFork, TLAPS

(* The invariant, one call at a time. *)
CallInv(c) ==
    /\ (at[c] \in Inside) <=> (gate = c)
    /\ acp[c] # "none" => at[c] \in {"initializing", "forking", "closing"}
    /\ acp[c] = "told" => at[c] # "initializing" /\ c \in forkCreated
    /\ c \in forks => c \in forkCreated
    /\ c \in forkCreated =>
          at[c] \notin {"idle", "waiting", "validating", "starting", "initializing"}
                         \union Staging
    /\ at[c] = "closing" /\ outcome[c] = "none" => c \in forks
    /\ at[c] \in {"rewriting", "prompting", "running"} => c \in forks
    /\ c \in unclean => at[c] \in {"cleaning", "returned", "done"}
    /\ at[c] \in {"deleting", "cleaning", "returned", "done"} => outcome[c] # "none"
    /\ at[c] \in (Inside \ {"closing", "deleting", "cleaning"}) \union {"idle", "waiting"}
          => outcome[c] = "none"
    /\ at[c] = "cleaning" => acp[c] = "none" /\ (c \in unclean \/ c \notin forks)
    /\ at[c] \in {"returned", "done"} =>
          /\ acp[c] = "none"
          /\ outcome[c] = "unusable" \/ c \notin forks
          /\ c \in forkCreated \intersect homes => outcome[c] = "unusable"

(* What the copy in progress keeps, if it is the copy of this call. *)
CopyInv(c) ==
    /\ at[c] = "before" => ~changed /\ \A f \in Files \ todo : before[f] <= version[f]
    /\ at[c] \in {"copying", "after"} =>
          \A f \in Files : before[f] <= moment[f] /\ moment[f] <= version[f]
    /\ at[c] = "copying" =>
          ~changed /\ \A f \in Files \ todo : moment[f] <= copied[f] /\ copied[f] <= version[f]
    /\ at[c] = "after" =>
          /\ \A f \in Files : moment[f] <= copied[f] /\ copied[f] <= version[f]
          /\ ~changed => \A f \in Files \ todo : copied[f] = moment[f]
    /\ at[c] = "config" => copied = moment

Parts == \A c \in Calls : CallInv(c) /\ CopyInv(c)

(* The invariant is the types and these parts. *)
LEMMA InParts == IInv <=> TypeOK /\ Parts
BY DEF IInv, Parts, CallInv, CopyInv, OneInside, Accounted, CopyInProgress,
       SnapshotIsOfOneMoment, NothingLeftBehind

(* The same of the state after a step. *)
LEMMA FromParts == TypeOK' /\ Parts' => IInv'
BY DEF IInv, Parts, CallInv, CopyInv, OneInside, Accounted, CopyInProgress,
       SnapshotIsOfOneMoment, NothingLeftBehind

(* Before anything is read. *)
LEMMA UnreadTyped == Unread \in Versions
BY BoundAssumption DEF Unread, Versions

(* What a step of one call leaves alone. *)
OthersKeep(c) ==
    \A d \in Calls \ {c} :
        /\ at'[d] = at[d]
        /\ outcome'[d] = outcome[d]
        /\ acp'[d] = acp[d]
        /\ (gate' = d) <=> (gate = d)
        /\ (d \in forks') <=> (d \in forks)
        /\ (d \in homes') <=> (d \in homes)
        /\ (d \in forkCreated') <=> (d \in forkCreated)
        /\ (d \in unclean') <=> (d \in unclean)

(* Only the call inside can disturb the copy, and it is the only one to have one. *)
LEMMA Frame ==
    ASSUME NEW c \in Calls, TypeOK, Parts, OthersKeep(c), CallInv(c)', CopyInv(c)',
           at[c] \in Inside \/ UNCHANGED copyVars
    PROVE  Parts'
<1> SUFFICES ASSUME NEW d \in Calls, d # c
             PROVE  CallInv(d)' /\ CopyInv(d)'
  BY DEF Parts
<1>1. CallInv(d) /\ CopyInv(d) /\ CallInv(c)
  BY DEF Parts
<1>2. CallInv(d)'
  BY <1>1 DEF OthersKeep, CallInv
<1>3. CASE UNCHANGED copyVars
  BY <1>1, <1>2, <1>3 DEF OthersKeep, CopyInv, copyVars
<1>4. CASE at[c] \in Inside
  <2>1. at[d] \notin Inside
    BY <1>1, <1>4 DEF CallInv
  <2>2. at'[d] \notin Inside
    BY <2>1 DEF OthersKeep
  <2> QED
    BY <1>2, <2>2 DEF CopyInv, Inside, Staging
<1> QED
  BY <1>2, <1>3, <1>4

(* A fault more is within its bound. *)
LEMMA FaultCounted ==
    ASSUME TypeOK, Fault
    PROVE  faults' \in 0 .. MaxFaults
BY BoundAssumption DEF TypeOK, Fault

(* Attempts are counted from one. *)
LEMMA FirstAttempt == 1 \in 1 .. attempts
BY DEF attempts

(* One attempt more is within the limit. *)
LEMMA NextAttempt ==
    ASSUME TypeOK, attempt < attempts
    PROVE  attempt + 1 \in 1 .. attempts
BY DEF TypeOK, attempts

(* Leaving the staging keeps the types. *)
LEMMA UnstageTypes ==
    ASSUME NEW c \in Calls, NEW o \in Outcomes, TypeOK, Unstage(c, o),
           UNCHANGED <<canceled, forkCreated, acp, forks, faulty, failed>>,
           faults' \in 0 .. MaxFaults
    PROVE  TypeOK'
<1>1. at' \in [Calls -> Places] /\ outcome' \in [Calls -> Outcomes]
      /\ gate' \in Calls \union {NoCall}
  BY DEF TypeOK, Unstage, Leave, Move, Places
<1>2. homes' \in SUBSET Calls /\ unclean' \in SUBSET Calls
  BY DEF TypeOK, Unstage
<1>3. /\ version' \in Versions /\ before' \in Versions /\ copied' \in Versions
      /\ moment' \in Versions
  BY UnreadTyped DEF Unstage, EndCopy, ForgetCopy
<1>4. todo' = {} /\ changed' = FALSE /\ attempt' = 1
  BY DEF Unstage, EndCopy, ForgetCopy
<1> QED
  BY <1>1, <1>2, <1>3, <1>4, FirstAttempt DEF TypeOK


(* Ask keeps the invariant. *)
LEMMA AskKeeps ==
    ASSUME NEW c \in Calls, IInv, Ask(c)
    PROVE  IInv'
<1>1. TypeOK /\ Parts /\ CallInv(c) /\ CopyInv(c)
  BY InParts DEF Parts
<1>2. TypeOK'
  BY <1>1, CallAssumption, BoundAssumption, UnreadTyped
     DEF TypeOK, attempts, Places, Staging, Isolated, Outcomes, Ask, Move, callVars, worldVars,
         copyVars
<1>3. OthersKeep(c)
  BY <1>1, CallAssumption
     DEF TypeOK, OthersKeep, CallInv, Inside, Staging, Isolated, Ask, Move, callVars, worldVars,
         copyVars
<1>4. CallInv(c)'
  BY <1>1, CallAssumption
     DEF TypeOK, CallInv, Inside, Staging, Isolated, Places, Ask, Move, callVars, worldVars,
         copyVars
<1>5. CopyInv(c)'
  BY <1>1, BoundAssumption DEF TypeOK, CopyInv, Versions, Ask, Move, callVars, worldVars, copyVars
<1>6. at[c] \in Inside \/ UNCHANGED copyVars
  BY DEF Inside, Staging, Isolated, copyVars, Ask, Move
<1> QED
  BY <1>1, <1>2, <1>3, <1>4, <1>5, <1>6, Frame, FromParts

(* GiveUp keeps the invariant. *)
LEMMA GiveUpKeeps ==
    ASSUME NEW c \in Calls, IInv, GiveUp(c)
    PROVE  IInv'
<1>1. TypeOK /\ Parts /\ CallInv(c) /\ CopyInv(c)
  BY InParts DEF Parts
<1>2. TypeOK'
  BY <1>1, CallAssumption, BoundAssumption, UnreadTyped
     DEF TypeOK, attempts, Places, Staging, Isolated, Outcomes, GiveUp, Move, callVars,
         worldVars, copyVars
<1>3. OthersKeep(c)
  BY <1>1, CallAssumption
     DEF TypeOK, OthersKeep, CallInv, Inside, Staging, Isolated, GiveUp, Move, callVars,
         worldVars, copyVars
<1>4. CallInv(c)'
  BY <1>1, CallAssumption
     DEF TypeOK, CallInv, Inside, Staging, Isolated, Places, GiveUp, Move, callVars, worldVars,
         copyVars
<1>5. CopyInv(c)'
  BY <1>1, BoundAssumption
     DEF TypeOK, CopyInv, Versions, GiveUp, Move, callVars, worldVars, copyVars
<1>6. at[c] \in Inside \/ UNCHANGED copyVars
  BY DEF Inside, Staging, Isolated, copyVars, GiveUp, Move
<1> QED
  BY <1>1, <1>2, <1>3, <1>4, <1>5, <1>6, Frame, FromParts

(* Enter keeps the invariant. *)
LEMMA EnterKeeps ==
    ASSUME NEW c \in Calls, IInv, Enter(c)
    PROVE  IInv'
<1>1. TypeOK /\ Parts /\ CallInv(c) /\ CopyInv(c)
  BY InParts DEF Parts
<1>2. TypeOK'
  BY <1>1, CallAssumption, BoundAssumption, UnreadTyped
     DEF TypeOK, attempts, Places, Staging, Isolated, Outcomes, Enter, Move, callVars,
         worldVars, copyVars
<1>3. OthersKeep(c)
  BY <1>1, CallAssumption
     DEF TypeOK, OthersKeep, CallInv, Inside, Staging, Isolated, Enter, Move, callVars,
         worldVars, copyVars
<1>4. CallInv(c)'
  BY <1>1, CallAssumption
     DEF TypeOK, CallInv, Inside, Staging, Isolated, Places, Enter, Move, callVars, worldVars,
         copyVars
<1>5. CopyInv(c)'
  BY <1>1, BoundAssumption
     DEF TypeOK, CopyInv, Versions, Enter, Move, callVars, worldVars, copyVars
<1>6. at[c] \in Inside \/ UNCHANGED copyVars
  BY DEF Inside, Staging, Isolated, copyVars, Enter, Move
<1> QED
  BY <1>1, <1>2, <1>3, <1>4, <1>5, <1>6, Frame, FromParts

(* MakeRoot keeps the invariant. *)
LEMMA MakeRootKeeps ==
    ASSUME NEW c \in Calls, IInv, MakeRoot(c)
    PROVE  IInv'
<1>1. TypeOK /\ Parts /\ CallInv(c) /\ CopyInv(c)
  BY InParts DEF Parts
<1>2. TypeOK'
  BY <1>1, CallAssumption, BoundAssumption, UnreadTyped
     DEF TypeOK, attempts, Places, Staging, Isolated, Outcomes, MakeRoot, Move, Leave, Fault,
         Advance, callVars, worldVars, copyVars
<1>3. OthersKeep(c)
  BY <1>1, CallAssumption
     DEF TypeOK, OthersKeep, CallInv, Inside, Staging, Isolated, MakeRoot, Move, Leave, Fault,
         Advance, callVars, worldVars, copyVars
<1>4. CallInv(c)'
  BY <1>1, CallAssumption
     DEF TypeOK, CallInv, Inside, Staging, Isolated, Places, MakeRoot, Move, Leave, Fault,
         Advance, callVars, worldVars, copyVars
<1>5. CopyInv(c)'
  BY <1>1, BoundAssumption
     DEF TypeOK, CopyInv, Versions, MakeRoot, Move, Leave, Fault, Advance, callVars, worldVars,
         copyVars
<1>6. at[c] \in Inside \/ UNCHANGED copyVars
  BY DEF Inside, Staging, Isolated, copyVars, MakeRoot, Move, Leave, Fault, Advance
<1> QED
  BY <1>1, <1>2, <1>3, <1>4, <1>5, <1>6, Frame, FromParts

(* snapshotWorkspace keeps the invariant. *)
LEMMA snapshotWorkspaceKeeps ==
    ASSUME NEW c \in Calls, IInv, snapshotWorkspace(c)
    PROVE  IInv'
<1>1. TypeOK /\ Parts /\ CallInv(c) /\ CopyInv(c)
  BY InParts DEF Parts
<1>2. TypeOK'
  <2>1. CASE StagingCanceled(c) \/ StagingFault(c) \/ GitKilled(c)
    <3>1. faults' \in 0 .. MaxFaults
      BY <1>1, <2>1, FaultCounted DEF TypeOK, StagingCanceled, StagingFault, GitKilled
    <3>2. \E o \in Outcomes : Unstage(c, o)
      BY <2>1 DEF StagingCanceled, StagingFault, GitKilled, Outcomes
    <3> QED
      BY <1>1, <3>1, <3>2, UnstageTypes DEF snapshotWorkspace
  <2>2. CASE ForgetCopy /\ Walk(c, "before") /\ UNCHANGED <<homes, attempt>>
    BY <1>1, <2>2, UnreadTyped
       DEF TypeOK, snapshotWorkspace, ForgetCopy, Walk, Advance, Move, Places, Staging
  <2> QED
    BY <2>1, <2>2 DEF snapshotWorkspace
<1>3. OthersKeep(c)
  BY <1>1, CallAssumption
     DEF TypeOK, OthersKeep, CallInv, Inside, Staging, Isolated, snapshotWorkspace,
         StagingCanceled, StagingFault, GitKilled, Unstage, EndCopy, ForgetCopy, Unread,
         Fault, Leave, Advance, Move, Walk, callVars, worldVars, copyVars
<1>4. CallInv(c)'
  BY <1>1, CallAssumption
     DEF TypeOK, CallInv, Inside, Staging, Isolated, Places, snapshotWorkspace,
         StagingCanceled, StagingFault, GitKilled, Unstage, EndCopy, ForgetCopy, Unread,
         Fault, Leave, Advance, Move, Walk, callVars, worldVars, copyVars
<1>5. CopyInv(c)'
  BY <1>1, BoundAssumption
     DEF TypeOK, CopyInv, Versions, snapshotWorkspace, StagingCanceled, StagingFault,
         GitKilled, Unstage, EndCopy, ForgetCopy, Unread, Fault, Leave, Advance, Move,
         Walk, callVars, worldVars, copyVars
<1>6. at[c] \in Inside \/ UNCHANGED copyVars
  BY
     DEF Inside, Staging, Isolated, copyVars, snapshotWorkspace, StagingCanceled,
         StagingFault, GitKilled, Unstage, EndCopy, ForgetCopy, Unread, Fault, Leave,
         Advance, Move, Walk
<1> QED
  BY <1>1, <1>2, <1>3, <1>4, <1>5, <1>6, Frame, FromParts

(* WalkEnds keeps the invariant. *)
LEMMA WalkEndsKeeps ==
    ASSUME NEW c \in Calls, IInv, WalkEnds(c)
    PROVE  IInv'
<1>1. TypeOK /\ Parts /\ CallInv(c) /\ CopyInv(c)
  BY InParts DEF Parts
<1>2. TypeOK'
  <2>1. faults' \in 0 .. MaxFaults
    BY <1>1, FaultCounted DEF TypeOK, WalkEnds, StagingCanceled, StagingFault
  <2>2. \E o \in Outcomes : Unstage(c, o)
    BY DEF WalkEnds, StagingCanceled, StagingFault, Outcomes
  <2> QED
    BY <1>1, <2>1, <2>2, UnstageTypes DEF WalkEnds
<1>3. OthersKeep(c)
  BY <1>1, CallAssumption
     DEF TypeOK, OthersKeep, CallInv, Inside, Staging, Isolated, WalkEnds, StagingCanceled,
         StagingFault, Unstage, EndCopy, ForgetCopy, Unread, Fault, Leave, Advance, Move,
         callVars, worldVars, copyVars
<1>4. CallInv(c)'
  BY <1>1, CallAssumption
     DEF TypeOK, CallInv, Inside, Staging, Isolated, Places, WalkEnds, StagingCanceled,
         StagingFault, Unstage, EndCopy, ForgetCopy, Unread, Fault, Leave, Advance, Move,
         callVars, worldVars, copyVars
<1>5. CopyInv(c)'
  BY <1>1, BoundAssumption
     DEF TypeOK, CopyInv, Versions, WalkEnds, StagingCanceled, StagingFault, Unstage, EndCopy,
         ForgetCopy, Unread, Fault, Leave, Advance, Move, callVars, worldVars, copyVars
<1>6. at[c] \in Inside \/ UNCHANGED copyVars
  BY
     DEF Inside, Staging, Isolated, copyVars, WalkEnds, StagingCanceled, StagingFault, Unstage,
         EndCopy, ForgetCopy, Unread, Fault, Leave, Advance, Move
<1> QED
  BY <1>1, <1>2, <1>3, <1>4, <1>5, <1>6, Frame, FromParts

(* SignBefore keeps the invariant. *)
LEMMA SignBeforeKeeps ==
    ASSUME NEW c \in Calls, IInv, SignBefore(c)
    PROVE  IInv'
<1>1. TypeOK /\ Parts /\ CallInv(c) /\ CopyInv(c)
  BY InParts DEF Parts
<1>2. TypeOK'
  BY <1>1, CallAssumption, BoundAssumption, UnreadTyped
     DEF TypeOK, attempts, Places, Staging, Isolated, Outcomes, Versions, SignBefore, Walk,
         Advance, Move, callVars, worldVars, copyVars
<1>3. OthersKeep(c)
  BY <1>1, CallAssumption
     DEF TypeOK, OthersKeep, CallInv, Inside, Staging, Isolated, SignBefore, Walk, Advance,
         Move, callVars, worldVars, copyVars
<1>4. CallInv(c)'
  BY <1>1, CallAssumption
     DEF TypeOK, CallInv, Inside, Staging, Isolated, Places, SignBefore, Walk, Advance, Move,
         callVars, worldVars, copyVars
<1>5. CopyInv(c)'
  <2> PICK f \in todo :
           /\ before' = [before EXCEPT ![f] = version[f]]
           /\ IF todo = {f}
              THEN Walk(c, "copying") /\ moment' = version
              ELSE Advance(c, "before") /\ todo' = todo \ {f} /\ UNCHANGED moment
    BY DEF SignBefore
  <2>1. at[c] = "before" /\ UNCHANGED <<version, copied, changed>>
    BY DEF SignBefore
  <2>2. /\ version \in Versions /\ before \in Versions /\ todo \in SUBSET Files
        /\ at \in [Calls -> Places] /\ f \in Files
    BY <1>1 DEF TypeOK
  <2>3. \A g \in Files \ todo : before[g] <= version[g]
    BY <1>1, <2>1 DEF CopyInv
  <2>4. \A g \in Files : version[g] \in Int /\ before'[g] \in Int
    BY <2>2, BoundAssumption DEF Versions
  <2>5. \A g \in Files \ (todo \ {f}) : before'[g] <= version[g]
    BY <2>2, <2>3, <2>4 DEF Versions
  <2>6. CASE todo = {f}
    <3>1. at'[c] = "copying" /\ todo' = Files /\ moment' = version
      BY <2>2, <2>6 DEF Walk, Advance, Move
    <3>2. \A g \in Files : before'[g] <= version[g] /\ version[g] <= version[g]
      BY <2>4, <2>5, <2>6
    <3>3. ~changed
      BY <1>1, <2>1 DEF CopyInv
    <3> QED
      BY <2>1, <3>1, <3>2, <3>3 DEF CopyInv
  <2>7. CASE todo # {f}
    <3>1. at'[c] = "before" /\ todo' = todo \ {f}
      BY <2>2, <2>7 DEF Advance, Move
    <3>2. ~changed
      BY <1>1, <2>1 DEF CopyInv
    <3> QED
      BY <2>1, <2>5, <3>1, <3>2 DEF CopyInv
  <2> QED
    BY <2>6, <2>7
<1>6. at[c] \in Inside \/ UNCHANGED copyVars
  BY DEF Inside, Staging, Isolated, copyVars, SignBefore, Walk, Advance, Move
<1> QED
  BY <1>1, <1>2, <1>3, <1>4, <1>5, <1>6, Frame, FromParts

(* Copy keeps the invariant. *)
LEMMA CopyKeeps ==
    ASSUME NEW c \in Calls, IInv, Copy(c)
    PROVE  IInv'
<1>1. TypeOK /\ Parts /\ CallInv(c) /\ CopyInv(c)
  BY InParts DEF Parts
<1>2. TypeOK'
  BY <1>1, CallAssumption, BoundAssumption, UnreadTyped
     DEF TypeOK, attempts, Places, Staging, Isolated, Outcomes, Versions, Copy, Walk, Advance,
         Move, callVars, worldVars, copyVars
<1>3. OthersKeep(c)
  BY <1>1, CallAssumption
     DEF TypeOK, OthersKeep, CallInv, Inside, Staging, Isolated, Copy, Walk, Advance, Move,
         callVars, worldVars, copyVars
<1>4. CallInv(c)'
  BY <1>1, CallAssumption
     DEF TypeOK, CallInv, Inside, Staging, Isolated, Places, Copy, Walk, Advance, Move,
         callVars, worldVars, copyVars
<1>5. CopyInv(c)'
  BY <1>1, BoundAssumption
     DEF TypeOK, CopyInv, Versions, Copy, Walk, Advance, Move, callVars, worldVars, copyVars
<1>6. at[c] \in Inside \/ UNCHANGED copyVars
  BY DEF Inside, Staging, Isolated, copyVars, Copy, Walk, Advance, Move
<1> QED
  BY <1>1, <1>2, <1>3, <1>4, <1>5, <1>6, Frame, FromParts

(* CopyChanges keeps the invariant. *)
LEMMA CopyChangesKeeps ==
    ASSUME NEW c \in Calls, IInv, CopyChanges(c)
    PROVE  IInv'
<1>1. TypeOK /\ Parts /\ CallInv(c) /\ CopyInv(c)
  BY InParts DEF Parts
<1>2. TypeOK'
  <2>1. Unstage(c, "error") /\ "error" \in Outcomes /\ faults' \in 0 .. MaxFaults
    BY <1>1 DEF CopyChanges, Outcomes, TypeOK
  <2> QED
    BY <1>1, <2>1, UnstageTypes DEF CopyChanges
<1>3. OthersKeep(c)
  BY <1>1, CallAssumption
     DEF TypeOK, OthersKeep, CallInv, Inside, Staging, Isolated, CopyChanges, StagingCanceled,
         StagingFault, Unstage, EndCopy, ForgetCopy, Unread, Fault, Leave, Advance, Move,
         callVars, worldVars, copyVars
<1>4. CallInv(c)'
  BY <1>1, CallAssumption
     DEF TypeOK, CallInv, Inside, Staging, Isolated, Places, CopyChanges, StagingCanceled,
         StagingFault, Unstage, EndCopy, ForgetCopy, Unread, Fault, Leave, Advance, Move,
         callVars, worldVars, copyVars
<1>5. CopyInv(c)'
  BY <1>1, BoundAssumption
     DEF TypeOK, CopyInv, Versions, CopyChanges, StagingCanceled, StagingFault, Unstage,
         EndCopy, ForgetCopy, Unread, Fault, Leave, Advance, Move, callVars, worldVars, copyVars
<1>6. at[c] \in Inside \/ UNCHANGED copyVars
  BY
     DEF Inside, Staging, Isolated, copyVars, CopyChanges, StagingCanceled, StagingFault,
         Unstage, EndCopy, ForgetCopy, Unread, Fault, Leave, Advance, Move
<1> QED
  BY <1>1, <1>2, <1>3, <1>4, <1>5, <1>6, Frame, FromParts

(* SignAfter keeps the invariant. *)
LEMMA SignAfterKeeps ==
    ASSUME NEW c \in Calls, IInv, SignAfter(c)
    PROVE  IInv'
<1>1. TypeOK /\ Parts /\ CallInv(c) /\ CopyInv(c)
  BY InParts DEF Parts
<1>2. TypeOK'
  <2> PICK f \in todo : SignOn(c, f) \/ Unchanged(c, f) \/ TryAgain(c, f) \/ ChangedRepeatedly(c, f)
    BY DEF SignAfter
  <2>1. CASE SignOn(c, f)
    BY <1>1, <2>1 DEF TypeOK, SignAfter, SignOn, Differs, Advance, Move, Places, Staging
  <2>2. CASE Unchanged(c, f)
    BY <1>1, <2>2, UnreadTyped
       DEF TypeOK, SignAfter, Unchanged, Advance, Move, Places, Staging
  <2>3. CASE TryAgain(c, f)
    <3>1. attempt' \in 1 .. attempts
      BY <1>1, <2>3, NextAttempt DEF TryAgain
    <3> QED
      BY <1>1, <2>3, <3>1, UnreadTyped
         DEF TypeOK, SignAfter, TryAgain, ForgetCopy, Walk, Advance, Move, Places, Staging
  <2>4. CASE ChangedRepeatedly(c, f)
    <3>1. Unstage(c, "error") /\ "error" \in Outcomes /\ faults' \in 0 .. MaxFaults
      BY <1>1, <2>4 DEF ChangedRepeatedly, Outcomes, TypeOK
    <3> QED
      BY <1>1, <3>1, UnstageTypes DEF SignAfter
  <2> QED
    BY <2>1, <2>2, <2>3, <2>4
<1>3. OthersKeep(c)
  BY <1>1, CallAssumption
     DEF TypeOK, OthersKeep, CallInv, Inside, Staging, Isolated, SignAfter, SignOn, Unchanged,
         TryAgain, ChangedRepeatedly, StagingCanceled, StagingFault, Unstage, EndCopy,
         ForgetCopy, Unread, Fault, Leave, Advance, Move, Walk, Differs, callVars, worldVars,
         copyVars
<1>4. CallInv(c)'
  BY <1>1, CallAssumption
     DEF TypeOK, CallInv, Inside, Staging, Isolated, Places, SignAfter, SignOn, Unchanged,
         TryAgain, ChangedRepeatedly, StagingCanceled, StagingFault, Unstage, EndCopy,
         ForgetCopy, Unread, Fault, Leave, Advance, Move, Walk, Differs, callVars, worldVars,
         copyVars
<1>5. CopyInv(c)'
  <2> PICK f \in todo : SignOn(c, f) \/ Unchanged(c, f) \/ TryAgain(c, f) \/ ChangedRepeatedly(c, f)
    BY DEF SignAfter
  <2>1. /\ at[c] = "after" /\ at \in [Calls -> Places]
        /\ \A g \in Files : /\ before[g] <= moment[g] /\ moment[g] <= version[g]
                             /\ moment[g] <= copied[g] /\ copied[g] <= version[g]
        /\ ~changed => \A g \in Files \ todo : copied[g] = moment[g]
    BY <1>1 DEF SignAfter, TypeOK, CopyInv
  <2>2. \A g \in Files : /\ before[g] \in Int /\ moment[g] \in Int
                         /\ copied[g] \in Int /\ version[g] \in Int
    BY <1>1, BoundAssumption DEF TypeOK, Versions
  <2>3. f \in Files
    BY <1>1 DEF TypeOK
  <2>4. ~Differs(f) => ~changed /\ copied[f] = moment[f]
    BY <2>1, <2>2, <2>3 DEF Differs
  <2>5. CASE SignOn(c, f)
    BY <2>1, <2>3, <2>4, <2>5 DEF CopyInv, SignOn, Advance, Move
  <2>6. CASE Unchanged(c, f)
    <3>1. \A g \in Files : copied[g] = moment[g]
      BY <2>1, <2>4, <2>6 DEF Unchanged
    <3>2. copied = moment
      BY <1>1, <3>1 DEF TypeOK, Versions
    <3> QED
      BY <2>1, <2>6, <3>2 DEF CopyInv, Unchanged, Advance, Move
  <2>7. CASE TryAgain(c, f)
    BY <2>1, <2>7 DEF CopyInv, TryAgain, ForgetCopy, Walk, Advance, Move
  <2>8. CASE ChangedRepeatedly(c, f)
    BY <2>1, <2>8 DEF CopyInv, ChangedRepeatedly, Unstage, Leave, Move
  <2> QED
    BY <2>5, <2>6, <2>7, <2>8
<1>6. at[c] \in Inside \/ UNCHANGED copyVars
  BY
     DEF Inside, Staging, Isolated, copyVars, SignAfter, SignOn, Unchanged, TryAgain,
         ChangedRepeatedly, StagingCanceled, StagingFault, Unstage, EndCopy, ForgetCopy, Unread,
         Fault, Leave, Advance, Move, Walk, Differs
<1> QED
  BY <1>1, <1>2, <1>3, <1>4, <1>5, <1>6, Frame, FromParts

(* Configure keeps the invariant. *)
LEMMA ConfigureKeeps ==
    ASSUME NEW c \in Calls, IInv, Configure(c)
    PROVE  IInv'
<1>1. TypeOK /\ Parts /\ CallInv(c) /\ CopyInv(c)
  BY InParts DEF Parts
<1>2. TypeOK'
  <2>1. CASE StagingFault(c)
    <3>1. faults' \in 0 .. MaxFaults
      BY <1>1, <2>1, FaultCounted DEF StagingFault
    <3>2. Unstage(c, "error") /\ "error" \in Outcomes
      BY <2>1 DEF StagingFault, Outcomes
    <3> QED
      BY <1>1, <3>1, <3>2, UnstageTypes DEF Configure
  <2>2. CASE Advance(c, "validating") /\ EndCopy /\ UNCHANGED homes
    BY <1>1, <2>2, UnreadTyped, FirstAttempt
       DEF TypeOK, Configure, Advance, Move, EndCopy, ForgetCopy, Places, Isolated
  <2> QED
    BY <2>1, <2>2 DEF Configure
<1>3. OthersKeep(c)
  BY <1>1, CallAssumption
     DEF TypeOK, OthersKeep, CallInv, Inside, Staging, Isolated, Configure, StagingCanceled,
         StagingFault, Unstage, EndCopy, ForgetCopy, Unread, Fault, Leave, Advance, Move,
         callVars, worldVars, copyVars
<1>4. CallInv(c)'
  BY <1>1, CallAssumption
     DEF TypeOK, CallInv, Inside, Staging, Isolated, Places, Configure, StagingCanceled,
         StagingFault, Unstage, EndCopy, ForgetCopy, Unread, Fault, Leave, Advance, Move,
         callVars, worldVars, copyVars
<1>5. CopyInv(c)'
  BY <1>1, BoundAssumption
     DEF TypeOK, CopyInv, Versions, Configure, StagingCanceled, StagingFault, Unstage, EndCopy,
         ForgetCopy, Unread, Fault, Leave, Advance, Move, callVars, worldVars, copyVars
<1>6. at[c] \in Inside \/ UNCHANGED copyVars
  BY
     DEF Inside, Staging, Isolated, copyVars, Configure, StagingCanceled, StagingFault, Unstage,
         EndCopy, ForgetCopy, Unread, Fault, Leave, Advance, Move
<1> QED
  BY <1>1, <1>2, <1>3, <1>4, <1>5, <1>6, Frame, FromParts

(* Validate keeps the invariant. *)
LEMMA ValidateKeeps ==
    ASSUME NEW c \in Calls, IInv, Validate(c)
    PROVE  IInv'
<1>1. TypeOK /\ Parts /\ CallInv(c) /\ CopyInv(c)
  BY InParts DEF Parts
<1>2. TypeOK'
  BY <1>1, CallAssumption, BoundAssumption, UnreadTyped
     DEF TypeOK, attempts, Places, Staging, Isolated, Outcomes, Validate, ConcludeCanceled,
         ConcludeKilled, ConcludeFault, Conclude, Fault, Advance, Move, callVars, worldVars,
         copyVars
<1>3. OthersKeep(c)
  BY <1>1, CallAssumption
     DEF TypeOK, OthersKeep, CallInv, Inside, Staging, Isolated, Validate, ConcludeCanceled,
         ConcludeKilled, ConcludeFault, Conclude, Fault, Advance, Move, callVars, worldVars,
         copyVars
<1>4. CallInv(c)'
  BY <1>1, CallAssumption
     DEF TypeOK, CallInv, Inside, Staging, Isolated, Places, Validate, ConcludeCanceled,
         ConcludeKilled, ConcludeFault, Conclude, Fault, Advance, Move, callVars, worldVars,
         copyVars
<1>5. CopyInv(c)'
  BY <1>1, BoundAssumption
     DEF TypeOK, CopyInv, Versions, Validate, ConcludeCanceled, ConcludeKilled, ConcludeFault,
         Conclude, Fault, Advance, Move, callVars, worldVars, copyVars
<1>6. at[c] \in Inside \/ UNCHANGED copyVars
  BY
     DEF Inside, Staging, Isolated, copyVars, Validate, ConcludeCanceled, ConcludeKilled,
         ConcludeFault, Conclude, Fault, Advance, Move
<1> QED
  BY <1>1, <1>2, <1>3, <1>4, <1>5, <1>6, Frame, FromParts

(* StartAcp keeps the invariant. *)
LEMMA StartAcpKeeps ==
    ASSUME NEW c \in Calls, IInv, StartAcp(c)
    PROVE  IInv'
<1>1. TypeOK /\ Parts /\ CallInv(c) /\ CopyInv(c)
  BY InParts DEF Parts
<1>2. TypeOK'
  BY <1>1, CallAssumption, BoundAssumption, UnreadTyped
     DEF TypeOK, attempts, Places, Staging, Isolated, Outcomes, StartAcp, ConcludeCanceled,
         ConcludeKilled, ConcludeFault, Conclude, Fault, Advance, Move, callVars, worldVars,
         copyVars
<1>3. OthersKeep(c)
  BY <1>1, CallAssumption
     DEF TypeOK, OthersKeep, CallInv, Inside, Staging, Isolated, StartAcp, ConcludeCanceled,
         ConcludeKilled, ConcludeFault, Conclude, Fault, Advance, Move, callVars, worldVars,
         copyVars
<1>4. CallInv(c)'
  BY <1>1, CallAssumption
     DEF TypeOK, CallInv, Inside, Staging, Isolated, Places, StartAcp, ConcludeCanceled,
         ConcludeKilled, ConcludeFault, Conclude, Fault, Advance, Move, callVars, worldVars,
         copyVars
<1>5. CopyInv(c)'
  BY <1>1, BoundAssumption
     DEF TypeOK, CopyInv, Versions, StartAcp, ConcludeCanceled, ConcludeKilled, ConcludeFault,
         Conclude, Fault, Advance, Move, callVars, worldVars, copyVars
<1>6. at[c] \in Inside \/ UNCHANGED copyVars
  BY
     DEF Inside, Staging, Isolated, copyVars, StartAcp, ConcludeCanceled, ConcludeKilled,
         ConcludeFault, Conclude, Fault, Advance, Move
<1> QED
  BY <1>1, <1>2, <1>3, <1>4, <1>5, <1>6, Frame, FromParts

(* Initialized keeps the invariant. *)
LEMMA InitializedKeeps ==
    ASSUME NEW c \in Calls, IInv, Initialized(c)
    PROVE  IInv'
<1>1. TypeOK /\ Parts /\ CallInv(c) /\ CopyInv(c)
  BY InParts DEF Parts
<1>2. TypeOK'
  BY <1>1, CallAssumption, BoundAssumption, UnreadTyped
     DEF TypeOK, attempts, Places, Staging, Isolated, Outcomes, Initialized, Advance, Move,
         callVars, worldVars, copyVars
<1>3. OthersKeep(c)
  BY <1>1, CallAssumption
     DEF TypeOK, OthersKeep, CallInv, Inside, Staging, Isolated, Initialized, Advance, Move,
         callVars, worldVars, copyVars
<1>4. CallInv(c)'
  BY <1>1, CallAssumption
     DEF TypeOK, CallInv, Inside, Staging, Isolated, Places, Initialized, Advance, Move,
         callVars, worldVars, copyVars
<1>5. CopyInv(c)'
  BY <1>1, BoundAssumption
     DEF TypeOK, CopyInv, Versions, Initialized, Advance, Move, callVars, worldVars, copyVars
<1>6. at[c] \in Inside \/ UNCHANGED copyVars
  BY DEF Inside, Staging, Isolated, copyVars, Initialized, Advance, Move
<1> QED
  BY <1>1, <1>2, <1>3, <1>4, <1>5, <1>6, Frame, FromParts

(* Forked keeps the invariant. *)
LEMMA ForkedKeeps ==
    ASSUME NEW c \in Calls, IInv, Forked(c)
    PROVE  IInv'
<1>1. TypeOK /\ Parts /\ CallInv(c) /\ CopyInv(c)
  BY InParts DEF Parts
<1>2. TypeOK'
  BY <1>1, CallAssumption, BoundAssumption, UnreadTyped
     DEF TypeOK, attempts, Places, Staging, Isolated, Outcomes, Forked, Advance, Move, callVars,
         worldVars, copyVars
<1>3. OthersKeep(c)
  BY <1>1, CallAssumption
     DEF TypeOK, OthersKeep, CallInv, Inside, Staging, Isolated, Forked, Advance, Move,
         callVars, worldVars, copyVars
<1>4. CallInv(c)'
  BY <1>1, CallAssumption
     DEF TypeOK, CallInv, Inside, Staging, Isolated, Places, Forked, Advance, Move, callVars,
         worldVars, copyVars
<1>5. CopyInv(c)'
  BY <1>1, BoundAssumption
     DEF TypeOK, CopyInv, Versions, Forked, Advance, Move, callVars, worldVars, copyVars
<1>6. at[c] \in Inside \/ UNCHANGED copyVars
  BY DEF Inside, Staging, Isolated, copyVars, Forked, Advance, Move
<1> QED
  BY <1>1, <1>2, <1>3, <1>4, <1>5, <1>6, Frame, FromParts

(* ExchangeFails keeps the invariant. *)
LEMMA ExchangeFailsKeeps ==
    ASSUME NEW c \in Calls, IInv, ExchangeFails(c)
    PROVE  IInv'
<1>1. TypeOK /\ Parts /\ CallInv(c) /\ CopyInv(c)
  BY InParts DEF Parts
<1>2. TypeOK'
  BY <1>1, CallAssumption, BoundAssumption, UnreadTyped
     DEF TypeOK, attempts, Places, Staging, Isolated, Outcomes, ExchangeFails, Move, Fault,
         callVars, worldVars, copyVars
<1>3. OthersKeep(c)
  BY <1>1, CallAssumption
     DEF TypeOK, OthersKeep, CallInv, Inside, Staging, Isolated, ExchangeFails, Move, Fault,
         callVars, worldVars, copyVars
<1>4. CallInv(c)'
  BY <1>1, CallAssumption
     DEF TypeOK, CallInv, Inside, Staging, Isolated, Places, ExchangeFails, Move, Fault,
         callVars, worldVars, copyVars
<1>5. CopyInv(c)'
  BY <1>1, BoundAssumption
     DEF TypeOK, CopyInv, Versions, ExchangeFails, Move, Fault, callVars, worldVars, copyVars
<1>6. at[c] \in Inside \/ UNCHANGED copyVars
  BY DEF Inside, Staging, Isolated, copyVars, ExchangeFails, Move, Fault
<1> QED
  BY <1>1, <1>2, <1>3, <1>4, <1>5, <1>6, Frame, FromParts

(* WaitAcp keeps the invariant. *)
LEMMA WaitAcpKeeps ==
    ASSUME NEW c \in Calls, IInv, WaitAcp(c)
    PROVE  IInv'
<1>1. TypeOK /\ Parts /\ CallInv(c) /\ CopyInv(c)
  BY InParts DEF Parts
<1>2. TypeOK'
  BY <1>1, CallAssumption, BoundAssumption, UnreadTyped
     DEF TypeOK, attempts, Places, Staging, Isolated, Outcomes, WaitAcp, ConcludeCanceled,
         ConcludeKilled, ConcludeFault, Conclude, Fault, Advance, Move, callVars, worldVars,
         copyVars
<1>3. OthersKeep(c)
  BY <1>1, CallAssumption
     DEF TypeOK, OthersKeep, CallInv, Inside, Staging, Isolated, WaitAcp, ConcludeCanceled,
         ConcludeKilled, ConcludeFault, Conclude, Fault, Advance, Move, callVars, worldVars,
         copyVars
<1>4. CallInv(c)'
  BY <1>1, CallAssumption
     DEF TypeOK, CallInv, Inside, Staging, Isolated, Places, WaitAcp, ConcludeCanceled,
         ConcludeKilled, ConcludeFault, Conclude, Fault, Advance, Move, callVars, worldVars,
         copyVars
<1>5. CopyInv(c)'
  BY <1>1, BoundAssumption
     DEF TypeOK, CopyInv, Versions, WaitAcp, ConcludeCanceled, ConcludeKilled, ConcludeFault,
         Conclude, Fault, Advance, Move, callVars, worldVars, copyVars
<1>6. at[c] \in Inside \/ UNCHANGED copyVars
  BY
     DEF Inside, Staging, Isolated, copyVars, WaitAcp, ConcludeCanceled, ConcludeKilled,
         ConcludeFault, Conclude, Fault, Advance, Move
<1> QED
  BY <1>1, <1>2, <1>3, <1>4, <1>5, <1>6, Frame, FromParts

(* Rewrite keeps the invariant. *)
LEMMA RewriteKeeps ==
    ASSUME NEW c \in Calls, IInv, Rewrite(c)
    PROVE  IInv'
<1>1. TypeOK /\ Parts /\ CallInv(c) /\ CopyInv(c)
  BY InParts DEF Parts
<1>2. TypeOK'
  BY <1>1, CallAssumption, BoundAssumption, UnreadTyped
     DEF TypeOK, attempts, Places, Staging, Isolated, Outcomes, Rewrite, ConcludeCanceled,
         ConcludeKilled, ConcludeFault, Conclude, Fault, Advance, Move, callVars, worldVars,
         copyVars
<1>3. OthersKeep(c)
  BY <1>1, CallAssumption
     DEF TypeOK, OthersKeep, CallInv, Inside, Staging, Isolated, Rewrite, ConcludeCanceled,
         ConcludeKilled, ConcludeFault, Conclude, Fault, Advance, Move, callVars, worldVars,
         copyVars
<1>4. CallInv(c)'
  BY <1>1, CallAssumption
     DEF TypeOK, CallInv, Inside, Staging, Isolated, Places, Rewrite, ConcludeCanceled,
         ConcludeKilled, ConcludeFault, Conclude, Fault, Advance, Move, callVars, worldVars,
         copyVars
<1>5. CopyInv(c)'
  BY <1>1, BoundAssumption
     DEF TypeOK, CopyInv, Versions, Rewrite, ConcludeCanceled, ConcludeKilled, ConcludeFault,
         Conclude, Fault, Advance, Move, callVars, worldVars, copyVars
<1>6. at[c] \in Inside \/ UNCHANGED copyVars
  BY
     DEF Inside, Staging, Isolated, copyVars, Rewrite, ConcludeCanceled, ConcludeKilled,
         ConcludeFault, Conclude, Fault, Advance, Move
<1> QED
  BY <1>1, <1>2, <1>3, <1>4, <1>5, <1>6, Frame, FromParts

(* StartGrok keeps the invariant. *)
LEMMA StartGrokKeeps ==
    ASSUME NEW c \in Calls, IInv, StartGrok(c)
    PROVE  IInv'
<1>1. TypeOK /\ Parts /\ CallInv(c) /\ CopyInv(c)
  BY InParts DEF Parts
<1>2. TypeOK'
  BY <1>1, CallAssumption, BoundAssumption, UnreadTyped
     DEF TypeOK, attempts, Places, Staging, Isolated, Outcomes, StartGrok, ConcludeCanceled,
         ConcludeKilled, ConcludeFault, Conclude, Fault, Advance, Move, callVars, worldVars,
         copyVars
<1>3. OthersKeep(c)
  BY <1>1, CallAssumption
     DEF TypeOK, OthersKeep, CallInv, Inside, Staging, Isolated, StartGrok, ConcludeCanceled,
         ConcludeKilled, ConcludeFault, Conclude, Fault, Advance, Move, callVars, worldVars,
         copyVars
<1>4. CallInv(c)'
  BY <1>1, CallAssumption
     DEF TypeOK, CallInv, Inside, Staging, Isolated, Places, StartGrok, ConcludeCanceled,
         ConcludeKilled, ConcludeFault, Conclude, Fault, Advance, Move, callVars, worldVars,
         copyVars
<1>5. CopyInv(c)'
  BY <1>1, BoundAssumption
     DEF TypeOK, CopyInv, Versions, StartGrok, ConcludeCanceled, ConcludeKilled, ConcludeFault,
         Conclude, Fault, Advance, Move, callVars, worldVars, copyVars
<1>6. at[c] \in Inside \/ UNCHANGED copyVars
  BY
     DEF Inside, Staging, Isolated, copyVars, StartGrok, ConcludeCanceled, ConcludeKilled,
         ConcludeFault, Conclude, Fault, Advance, Move
<1> QED
  BY <1>1, <1>2, <1>3, <1>4, <1>5, <1>6, Frame, FromParts

(* GrokFails keeps the invariant. *)
LEMMA GrokFailsKeeps ==
    ASSUME NEW c \in Calls, IInv, GrokFails(c)
    PROVE  IInv'
<1>1. TypeOK /\ Parts /\ CallInv(c) /\ CopyInv(c)
  BY InParts DEF Parts
<1>2. TypeOK'
  BY <1>1, CallAssumption, BoundAssumption, UnreadTyped
     DEF TypeOK, attempts, Places, Staging, Isolated, Outcomes, GrokFails, ConcludeCanceled,
         ConcludeKilled, ConcludeFault, Conclude, Fault, Advance, Move, callVars, worldVars,
         copyVars
<1>3. OthersKeep(c)
  BY <1>1, CallAssumption
     DEF TypeOK, OthersKeep, CallInv, Inside, Staging, Isolated, GrokFails, ConcludeCanceled,
         ConcludeKilled, ConcludeFault, Conclude, Fault, Advance, Move, callVars, worldVars,
         copyVars
<1>4. CallInv(c)'
  BY <1>1, CallAssumption
     DEF TypeOK, CallInv, Inside, Staging, Isolated, Places, GrokFails, ConcludeCanceled,
         ConcludeKilled, ConcludeFault, Conclude, Fault, Advance, Move, callVars, worldVars,
         copyVars
<1>5. CopyInv(c)'
  BY <1>1, BoundAssumption
     DEF TypeOK, CopyInv, Versions, GrokFails, ConcludeCanceled, ConcludeKilled, ConcludeFault,
         Conclude, Fault, Advance, Move, callVars, worldVars, copyVars
<1>6. at[c] \in Inside \/ UNCHANGED copyVars
  BY
     DEF Inside, Staging, Isolated, copyVars, GrokFails, ConcludeCanceled, ConcludeKilled,
         ConcludeFault, Conclude, Fault, Advance, Move
<1> QED
  BY <1>1, <1>2, <1>3, <1>4, <1>5, <1>6, Frame, FromParts

(* GrokAnswers keeps the invariant. *)
LEMMA GrokAnswersKeeps ==
    ASSUME NEW c \in Calls, IInv, GrokAnswers(c)
    PROVE  IInv'
<1>1. TypeOK /\ Parts /\ CallInv(c) /\ CopyInv(c)
  BY InParts DEF Parts
<1>2. TypeOK'
  BY <1>1, CallAssumption, BoundAssumption, UnreadTyped
     DEF TypeOK, attempts, Places, Staging, Isolated, Outcomes, GrokAnswers, ConcludeCanceled,
         ConcludeKilled, ConcludeFault, Conclude, Fault, Advance, Move, callVars, worldVars,
         copyVars
<1>3. OthersKeep(c)
  BY <1>1, CallAssumption
     DEF TypeOK, OthersKeep, CallInv, Inside, Staging, Isolated, GrokAnswers, ConcludeCanceled,
         ConcludeKilled, ConcludeFault, Conclude, Fault, Advance, Move, callVars, worldVars,
         copyVars
<1>4. CallInv(c)'
  BY <1>1, CallAssumption
     DEF TypeOK, CallInv, Inside, Staging, Isolated, Places, GrokAnswers, ConcludeCanceled,
         ConcludeKilled, ConcludeFault, Conclude, Fault, Advance, Move, callVars, worldVars,
         copyVars
<1>5. CopyInv(c)'
  BY <1>1, BoundAssumption
     DEF TypeOK, CopyInv, Versions, GrokAnswers, ConcludeCanceled, ConcludeKilled,
         ConcludeFault, Conclude, Fault, Advance, Move, callVars, worldVars, copyVars
<1>6. at[c] \in Inside \/ UNCHANGED copyVars
  BY
     DEF Inside, Staging, Isolated, copyVars, GrokAnswers, ConcludeCanceled, ConcludeKilled,
         ConcludeFault, Conclude, Fault, Advance, Move
<1> QED
  BY <1>1, <1>2, <1>3, <1>4, <1>5, <1>6, Frame, FromParts

(* removeFork keeps the invariant. *)
LEMMA removeForkKeeps ==
    ASSUME NEW c \in Calls, IInv, removeFork(c)
    PROVE  IInv'
<1>1. TypeOK /\ Parts /\ CallInv(c) /\ CopyInv(c)
  BY InParts DEF Parts
<1>2. TypeOK'
  BY <1>1, CallAssumption, BoundAssumption, UnreadTyped
     DEF TypeOK, attempts, Places, Staging, Isolated, Outcomes, removeFork, Move, Fault,
         CleanupFault, callVars, worldVars, copyVars
<1>3. OthersKeep(c)
  BY <1>1, CallAssumption
     DEF TypeOK, OthersKeep, CallInv, Inside, Staging, Isolated, removeFork, Move, Fault,
         CleanupFault, callVars, worldVars, copyVars
<1>4. CallInv(c)'
  BY <1>1, CallAssumption
     DEF TypeOK, CallInv, Inside, Staging, Isolated, Places, removeFork, Move, Fault,
         CleanupFault, callVars, worldVars, copyVars
<1>5. CopyInv(c)'
  BY <1>1, BoundAssumption
     DEF TypeOK, CopyInv, Versions, removeFork, Move, Fault, CleanupFault, callVars, worldVars,
         copyVars
<1>6. at[c] \in Inside \/ UNCHANGED copyVars
  BY DEF Inside, Staging, Isolated, copyVars, removeFork, Move, Fault, CleanupFault
<1> QED
  BY <1>1, <1>2, <1>3, <1>4, <1>5, <1>6, Frame, FromParts

(* Cleanup keeps the invariant. *)
LEMMA CleanupKeeps ==
    ASSUME NEW c \in Calls, IInv, Cleanup(c)
    PROVE  IInv'
<1>1. TypeOK /\ Parts /\ CallInv(c) /\ CopyInv(c)
  BY InParts DEF Parts
<1>2. TypeOK'
  BY <1>1, CallAssumption, BoundAssumption, UnreadTyped
     DEF TypeOK, attempts, Places, Staging, Isolated, Outcomes, Cleanup, Move, Leave, Fault,
         CleanupFault, callVars, worldVars, copyVars
<1>3. OthersKeep(c)
  BY <1>1, CallAssumption
     DEF TypeOK, OthersKeep, CallInv, Inside, Staging, Isolated, Cleanup, Move, Leave, Fault,
         CleanupFault, callVars, worldVars, copyVars
<1>4. CallInv(c)'
  BY <1>1, CallAssumption
     DEF TypeOK, CallInv, Inside, Staging, Isolated, Places, Cleanup, Move, Leave, Fault,
         CleanupFault, callVars, worldVars, copyVars
<1>5. CopyInv(c)'
  BY <1>1, BoundAssumption
     DEF TypeOK, CopyInv, Versions, Cleanup, Move, Leave, Fault, CleanupFault, callVars,
         worldVars, copyVars
<1>6. at[c] \in Inside \/ UNCHANGED copyVars
  BY DEF Inside, Staging, Isolated, copyVars, Cleanup, Move, Leave, Fault, CleanupFault
<1> QED
  BY <1>1, <1>2, <1>3, <1>4, <1>5, <1>6, Frame, FromParts

(* Monitor keeps the invariant. *)
LEMMA MonitorKeeps ==
    ASSUME NEW c \in Calls, IInv, Monitor(c)
    PROVE  IInv'
<1>1. TypeOK /\ Parts /\ CallInv(c) /\ CopyInv(c)
  BY InParts DEF Parts
<1>2. TypeOK'
  BY <1>1, CallAssumption, BoundAssumption, UnreadTyped
     DEF TypeOK, attempts, Places, Staging, Isolated, Outcomes, Monitor, Move, callVars,
         worldVars, copyVars
<1>3. OthersKeep(c)
  BY <1>1, CallAssumption
     DEF TypeOK, OthersKeep, CallInv, Inside, Staging, Isolated, Monitor, Move, callVars,
         worldVars, copyVars
<1>4. CallInv(c)'
  BY <1>1, CallAssumption
     DEF TypeOK, CallInv, Inside, Staging, Isolated, Places, Monitor, Move, callVars, worldVars,
         copyVars
<1>5. CopyInv(c)'
  BY <1>1, BoundAssumption
     DEF TypeOK, CopyInv, Versions, Monitor, Move, callVars, worldVars, copyVars
<1>6. at[c] \in Inside \/ UNCHANGED copyVars
  BY DEF Inside, Staging, Isolated, copyVars, Monitor, Move
<1> QED
  BY <1>1, <1>2, <1>3, <1>4, <1>5, <1>6, Frame, FromParts

(* Cancel keeps the invariant. *)
LEMMA CancelKeeps ==
    ASSUME NEW c \in Calls, IInv, Cancel(c)
    PROVE  IInv'
<1>1. TypeOK /\ Parts /\ CallInv(c) /\ CopyInv(c)
  BY InParts DEF Parts
<1>2. TypeOK'
  BY <1>1, CallAssumption, BoundAssumption, UnreadTyped
     DEF TypeOK, attempts, Places, Staging, Isolated, Outcomes, Cancel, callVars, worldVars,
         copyVars
<1>3. OthersKeep(c)
  BY <1>1, CallAssumption
     DEF TypeOK, OthersKeep, CallInv, Inside, Staging, Isolated, Cancel, callVars, worldVars,
         copyVars
<1>4. CallInv(c)'
  BY <1>1, CallAssumption
     DEF TypeOK, CallInv, Inside, Staging, Isolated, Places, Cancel, callVars, worldVars,
         copyVars
<1>5. CopyInv(c)'
  BY <1>1, BoundAssumption DEF TypeOK, CopyInv, Versions, Cancel, callVars, worldVars, copyVars
<1>6. at[c] \in Inside \/ UNCHANGED copyVars
  BY DEF Inside, Staging, Isolated, copyVars, Cancel
<1> QED
  BY <1>1, <1>2, <1>3, <1>4, <1>5, <1>6, Frame, FromParts

(* killProcessTree keeps the invariant. *)
LEMMA killProcessTreeKeeps ==
    ASSUME NEW c \in Calls, IInv, killProcessTree(c)
    PROVE  IInv'
<1>1. TypeOK /\ Parts /\ CallInv(c) /\ CopyInv(c)
  BY InParts DEF Parts
<1>2. TypeOK'
  BY <1>1, CallAssumption, BoundAssumption, UnreadTyped
     DEF TypeOK, attempts, Places, Staging, Isolated, Outcomes, killProcessTree, callVars,
         worldVars, copyVars
<1>3. OthersKeep(c)
  BY <1>1, CallAssumption
     DEF TypeOK, OthersKeep, CallInv, Inside, Staging, Isolated, killProcessTree, callVars,
         worldVars, copyVars
<1>4. CallInv(c)'
  BY <1>1, CallAssumption
     DEF TypeOK, CallInv, Inside, Staging, Isolated, Places, killProcessTree, callVars,
         worldVars, copyVars
<1>5. CopyInv(c)'
  BY <1>1, BoundAssumption
     DEF TypeOK, CopyInv, Versions, killProcessTree, callVars, worldVars, copyVars
<1>6. at[c] \in Inside \/ UNCHANGED copyVars
  BY DEF Inside, Staging, Isolated, copyVars, killProcessTree
<1> QED
  BY <1>1, <1>2, <1>3, <1>4, <1>5, <1>6, Frame, FromParts

(* AcpDies keeps the invariant. *)
LEMMA AcpDiesKeeps ==
    ASSUME NEW c \in Calls, IInv, AcpDies(c)
    PROVE  IInv'
<1>1. TypeOK /\ Parts /\ CallInv(c) /\ CopyInv(c)
  BY InParts DEF Parts
<1>2. TypeOK'
  BY <1>1, CallAssumption, BoundAssumption, UnreadTyped
     DEF TypeOK, attempts, Places, Staging, Isolated, Outcomes, AcpDies, Fault, callVars,
         worldVars, copyVars
<1>3. OthersKeep(c)
  BY <1>1, CallAssumption
     DEF TypeOK, OthersKeep, CallInv, Inside, Staging, Isolated, AcpDies, Fault, callVars,
         worldVars, copyVars
<1>4. CallInv(c)'
  BY <1>1, CallAssumption
     DEF TypeOK, CallInv, Inside, Staging, Isolated, Places, AcpDies, Fault, callVars,
         worldVars, copyVars
<1>5. CopyInv(c)'
  BY <1>1, BoundAssumption
     DEF TypeOK, CopyInv, Versions, AcpDies, Fault, callVars, worldVars, copyVars
<1>6. at[c] \in Inside \/ UNCHANGED copyVars
  BY DEF Inside, Staging, Isolated, copyVars, AcpDies, Fault
<1> QED
  BY <1>1, <1>2, <1>3, <1>4, <1>5, <1>6, Frame, FromParts

(* AcpForks keeps the invariant. *)
LEMMA AcpForksKeeps ==
    ASSUME NEW c \in Calls, IInv, AcpForks(c)
    PROVE  IInv'
<1>1. TypeOK /\ Parts /\ CallInv(c) /\ CopyInv(c)
  BY InParts DEF Parts
<1>2. TypeOK'
  BY <1>1, CallAssumption, BoundAssumption, UnreadTyped
     DEF TypeOK, attempts, Places, Staging, Isolated, Outcomes, AcpForks, callVars, worldVars,
         copyVars
<1>3. OthersKeep(c)
  BY <1>1, CallAssumption
     DEF TypeOK, OthersKeep, CallInv, Inside, Staging, Isolated, AcpForks, callVars, worldVars,
         copyVars
<1>4. CallInv(c)'
  BY <1>1, CallAssumption
     DEF TypeOK, CallInv, Inside, Staging, Isolated, Places, AcpForks, callVars, worldVars,
         copyVars
<1>5. CopyInv(c)'
  BY <1>1, BoundAssumption DEF TypeOK, CopyInv, Versions, AcpForks, callVars, worldVars, copyVars
<1>6. at[c] \in Inside \/ UNCHANGED copyVars
  BY DEF Inside, Staging, Isolated, copyVars, AcpForks
<1> QED
  BY <1>1, <1>2, <1>3, <1>4, <1>5, <1>6, Frame, FromParts

(* The reviewer writes while a copy is made: versions only grow. *)
LEMMA SourceWritesKeeps ==
    ASSUME IInv, SourceWrites
    PROVE  IInv'
<1>1. TypeOK /\ Parts
  BY InParts
<1> PICK f \in Files : version[f] < MaxWrites /\ version' = [version EXCEPT ![f] = @ + 1]
  BY DEF SourceWrites
<1>2. version' \in Versions /\ \A g \in Files : version[g] \in Int /\ version[g] <= version'[g]
  BY <1>1, BoundAssumption DEF TypeOK, Versions
<1>3. TypeOK'
  BY <1>1, <1>2 DEF TypeOK, SourceWrites, callVars, worldVars
<1>4. ASSUME NEW c \in Calls
      PROVE  CallInv(c)' /\ CopyInv(c)'
  <2>1. CallInv(c) /\ CopyInv(c)
    BY <1>1 DEF Parts
  <2>2. CallInv(c)'
    BY <2>1 DEF CallInv, SourceWrites, callVars, worldVars
  <2>3. /\ \A g \in Files : before[g] \in Int /\ moment[g] \in Int /\ copied[g] \in Int
                            /\ version'[g] \in Int
    BY <1>1, <1>2, BoundAssumption DEF TypeOK, Versions
  <2>4. CopyInv(c)'
    BY <1>2, <2>1, <2>3 DEF CopyInv, SourceWrites, callVars
  <2> QED
    BY <2>2, <2>4
<1> QED
  BY <1>3, <1>4, FromParts DEF Parts

(* Nobody has asked yet. *)
LEMMA Initially == Init => IInv
<1> SUFFICES ASSUME Init PROVE IInv
  OBVIOUS
<1>1. TypeOK
  <2>1. at \in [Calls -> Places] /\ outcome \in [Calls -> Outcomes]
        /\ acp \in [Calls -> {"none", "running", "told"}]
    BY DEF Init, Places, Outcomes
  <2>2. faults \in 0 .. MaxFaults
    BY BoundAssumption DEF Init
  <2> QED
    BY <2>1, <2>2, UnreadTyped, FirstAttempt DEF Init, TypeOK
<1>2. Parts
  BY CallAssumption DEF Init, Parts, CallInv, CopyInv, Inside, Staging, Isolated
<1> QED
  BY <1>1, <1>2, InParts

(* A step nobody takes changes nothing. *)
LEMMA Stuttering == IInv /\ UNCHANGED vars => IInv'
<1> SUFFICES ASSUME IInv, UNCHANGED vars PROVE IInv'
  OBVIOUS
<1>1. TypeOK /\ Parts
  BY InParts
<1>2. TypeOK'
  BY <1>1 DEF TypeOK, vars, callVars, worldVars, copyVars
<1>3. Parts'
  BY <1>1 DEF Parts, CallInv, CopyInv, vars, callVars, worldVars, copyVars
<1> QED
  BY <1>2, <1>3, FromParts

(* The invariant is inductive. *)
LEMMA Inductive == IInv /\ [Next]_vars => IInv'
<1> SUFFICES ASSUME IInv, [Next]_vars PROVE IInv'
  OBVIOUS
<1>1. ASSUME NEW c \in Calls, Ask(c) \/ GiveUp(c) \/ Enter(c) \/ Cancel(c) \/ Monitor(c)
      PROVE  IInv'
  BY <1>1, AskKeeps, GiveUpKeeps, EnterKeeps, CancelKeeps, MonitorKeeps
<1>2. ASSUME NEW c \in Calls, Stage(c) \/ CopyChanges(c)
      PROVE  IInv'
  BY <1>2, MakeRootKeeps, snapshotWorkspaceKeeps, WalkEndsKeeps, SignBeforeKeeps, CopyKeeps,
     SignAfterKeeps, ConfigureKeeps, CopyChangesKeeps DEF Stage
<1>3. ASSUME NEW c \in Calls,
             \/ Validate(c) \/ StartAcp(c) \/ Initialized(c) \/ Forked(c) \/ ExchangeFails(c)
             \/ WaitAcp(c) \/ killProcessTree(c) \/ AcpDies(c) \/ AcpForks(c)
      PROVE  IInv'
  BY <1>3, ValidateKeeps, StartAcpKeeps, InitializedKeeps, ForkedKeeps, ExchangeFailsKeeps,
     WaitAcpKeeps, killProcessTreeKeeps, AcpDiesKeeps, AcpForksKeeps
<1>4. ASSUME NEW c \in Calls,
             \/ Rewrite(c) \/ StartGrok(c) \/ GrokFails(c) \/ GrokAnswers(c)
             \/ removeFork(c) \/ Cleanup(c)
      PROVE  IInv'
  BY <1>4, RewriteKeeps, StartGrokKeeps, GrokFailsKeeps, GrokAnswersKeeps, removeForkKeeps,
     CleanupKeeps
<1>5. CASE SourceWrites
  BY <1>5, SourceWritesKeeps
<1>6. CASE UNCHANGED vars
  BY <1>6, Stuttering
<1> QED
  BY <1>1, <1>2, <1>3, <1>4, <1>5, <1>6 DEF Next, Proceed, Outside

(* One operation is inside at a time and accounts for the processes and     *)
(* forks there are, for any number of questions (askPromptInFork).          *)
THEOREM Invariance == Spec => []IInv
<1>1. Init => IInv
  BY Initially
<1>2. IInv /\ [Next]_vars => IInv'
  BY Inductive
<1> QED
  BY <1>1, <1>2, PTL DEF Spec

(* The types. *)
THEOREM TypeCorrect == Spec => []TypeOK
<1>1. IInv => TypeOK
  BY DEF IInv
<1> QED
  BY <1>1, Invariance, PTL

(* What a fork is made from was there at one moment, for any files and any  *)
(* number of writes (copySessionDirectory).                                 *)
THEOREM SnapshotConsistent == Spec => []SnapshotIsOfOneMoment
<1>1. IInv => SnapshotIsOfOneMoment
  BY DEF IInv
<1> QED
  BY <1>1, Invariance, PTL

(* No fork, no process and no home outlives an operation that leaves the    *)
(* client usable (askPromptInFork, removeFork, relocateSessionWithACP).     *)
THEOREM OperationsAreDisposable == Spec => []NothingLeftBehind
<1>1. IInv => NothingLeftBehind
  BY DEF IInv
<1> QED
  BY <1>1, Invariance, PTL

(* What is unclean or unusable is so by a fault of its own cleanup. *)
BlameInv(c) ==
    /\ c \in unclean => c \in faulty
    /\ outcome[c] = "unusable" => at[c] \in {"returned", "done"} /\ c \in faulty
    /\ c \in faulty =>
          \/ at[c] = "cleaning" /\ c \in unclean
          \/ at[c] \in {"returned", "done"} /\ outcome[c] = "unusable"

Blamed == \A c \in Calls : BlameInv(c)

(* Only what fails by itself makes a cleanup unclean or the client unusable. *)
LEMMA BlameKept == TypeOK /\ Blamed /\ [Next]_vars => Blamed'
<1> SUFFICES ASSUME TypeOK, Blamed, [Next]_vars PROVE Blamed'
  OBVIOUS
<1>1. CASE SourceWrites \/ UNCHANGED vars
  BY <1>1 DEF Blamed, BlameInv, SourceWrites, vars, callVars
<1>2. ASSUME NEW c \in Calls, Ask(c) \/ GiveUp(c) \/ Enter(c) \/ Cancel(c) \/ Monitor(c)
      PROVE  Blamed'
  BY <1>2 DEF TypeOK, Blamed, BlameInv, Ask, GiveUp, Enter, Cancel, Monitor, Move
<1>3. ASSUME NEW c \in Calls, Stage(c) \/ CopyChanges(c)
      PROVE  Blamed'
  <2>1. /\ UNCHANGED <<unclean, faulty>>
        /\ at[c] \notin {"cleaning", "returned", "done"}
        /\ \E place \in Places : at' = [at EXCEPT ![c] = place]
    BY <1>3
       DEF Stage, MakeRoot, snapshotWorkspace, WalkEnds, SignBefore, Copy, CopyChanges, SignAfter,
           SignOn, Unchanged, TryAgain, ChangedRepeatedly, Configure, StagingCanceled,
           StagingFault, GitKilled, Unstage, Leave, Walk, Advance, Move, Places, Staging, Isolated
  <2>2. \/ UNCHANGED outcome
        \/ \E o \in {"canceled", "error"} : outcome' = [outcome EXCEPT ![c] = o]
    BY <1>3
       DEF Stage, MakeRoot, snapshotWorkspace, WalkEnds, SignBefore, Copy, CopyChanges, SignAfter,
           SignOn, Unchanged, TryAgain, ChangedRepeatedly, Configure, StagingCanceled,
           StagingFault, GitKilled, Unstage, Leave, Walk, Advance
  <2> QED
    BY <2>1, <2>2 DEF TypeOK, Blamed, BlameInv
<1>4. ASSUME NEW c \in Calls,
             \/ Validate(c) \/ StartAcp(c) \/ Initialized(c) \/ Forked(c) \/ ExchangeFails(c)
             \/ WaitAcp(c) \/ Rewrite(c) \/ StartGrok(c) \/ GrokFails(c) \/ GrokAnswers(c)
      PROVE  Blamed'
  <2>1. /\ UNCHANGED <<unclean, faulty>>
        /\ at[c] \notin {"cleaning", "returned", "done"}
        /\ \E place \in Places : at' = [at EXCEPT ![c] = place]
    BY <1>4
       DEF Validate, StartAcp, Initialized, Forked, ExchangeFails, WaitAcp, Rewrite, StartGrok,
           GrokFails, GrokAnswers, ConcludeCanceled, ConcludeKilled, ConcludeFault, Conclude,
           Advance, Move, Places, Isolated
  <2>2. \/ UNCHANGED outcome
        \/ \E o \in {"canceled", "error", "answer", outcome[c]} :
              outcome' = [outcome EXCEPT ![c] = o]
    BY <1>4
       DEF Validate, StartAcp, Initialized, Forked, ExchangeFails, WaitAcp, Rewrite, StartGrok,
           GrokFails, GrokAnswers, ConcludeCanceled, ConcludeKilled, ConcludeFault, Conclude,
           Advance
  <2> QED
    BY <2>1, <2>2 DEF TypeOK, Blamed, BlameInv
<1>5. ASSUME NEW c \in Calls, killProcessTree(c) \/ AcpDies(c) \/ AcpForks(c)
      PROVE  Blamed'
  BY <1>5 DEF Blamed, BlameInv, killProcessTree, AcpDies, AcpForks, callVars
<1>6. ASSUME NEW c \in Calls, removeFork(c) \/ Cleanup(c)
      PROVE  Blamed'
  BY <1>6 DEF TypeOK, Blamed, BlameInv, removeFork, Cleanup, CleanupFault, Leave, Move
<1> QED
  BY <1>1, <1>2, <1>3, <1>4, <1>5, <1>6 DEF Next, Proceed, Outside

(* Stopped or not, a question makes the client unusable exactly if its own  *)
(* cleanup failed, for any number of questions and faults (removeFork's own *)
(* context, combineCleanupError).                                           *)
THEOREM StopsAreClean == Spec => []StoppingIsClean
<1>1. Init => Blamed
  BY DEF Init, Blamed, BlameInv
<1>2. TypeOK /\ Blamed /\ [Next]_vars => Blamed'
  BY BlameKept
<1>3. Blamed => StoppingIsClean
  BY DEF Blamed, BlameInv, StoppingIsClean
<1> QED
  BY <1>1, <1>2, <1>3, TypeCorrect, PTL DEF Spec

=============================================================================
