------------------------- MODULE BundleStore_proofs -------------------------
(* Proofs about the bundle store, for any processes, edits and MaxGen. *)
EXTENDS BundleStore, TLAPS

-----------------------------------------------------------------------------
(* Facts about state histories. *)

(* Appending a commit makes a history whose head is that commit. *)
LEMMA AppendCommit ==
    ASSUME NEW h \in Seq(Commits), NEW c \in Commits
    PROVE  /\ Append(h, c) \in Seq(Commits)
           /\ Append(h, c) # <<>>
           /\ Len(Append(h, c)) = Len(h) + 1
           /\ Append(h, c)[Len(h) + 1] = c
           /\ \A i \in 1 .. Len(h) : Append(h, c)[i] = h[i]
           /\ GenAt(Append(h, c)) = c.gen
           /\ StateAt(Append(h, c)) = [content |-> c.content, status |-> c.status]
  <1>1. Len(Append(h, c)) = Len(h) + 1 /\ Append(h, c)[Len(h) + 1] = c
    OBVIOUS
  <1>2. Append(h, c) \in Seq(Commits) /\ Append(h, c) # <<>>
    <2>1. Append(h, c) \in Seq(Commits) /\ Len(h) \in Nat
      OBVIOUS
    <2>2. Len(<<>>) = 0
      OBVIOUS
    <2> QED BY <1>1, <2>1, <2>2
  <1>3. \A i \in 1 .. Len(h) : Append(h, c)[i] = h[i]
    OBVIOUS
  <1> QED BY <1>1, <1>2, <1>3 DEF GenAt, StateAt

(* The head of a history is a review state with a generation. *)
LEMMA HeadType ==
    ASSUME NEW h \in Seq(Commits)
    PROVE  StateAt(h) \in States /\ GenAt(h) \in Nat
  <1>1. CASE h = <<>>
    BY <1>1 DEF StateAt, GenAt, Fresh, States, Statuses
  <1>2. CASE h # <<>>
    <2>1. h[Len(h)] \in Commits
      BY <1>2
    <2> QED BY <1>2, <2>1 DEF StateAt, GenAt, States, Commits
  <1> QED BY <1>1, <1>2

(* The first n commits of a history are a history. *)
LEMMA FirstCommits ==
    ASSUME NEW h \in Seq(Commits), NEW n \in 0 .. Len(h)
    PROVE  /\ SubSeq(h, 1, n) \in Seq(Commits)
           /\ Len(SubSeq(h, 1, n)) = n
           /\ \A i \in 1 .. n : SubSeq(h, 1, n)[i] = h[i]
  OBVIOUS

LEMMA NextCommitType ==
    ASSUME TypeOK, NEW p \in Procs
    PROVE  NextCommit(p) \in Commits
  <1>1. GenAt(expected[p]) \in Nat
    BY HeadType DEF TypeOK
  <1>2. session[p] \in States
    BY DEF TypeOK
  <1> QED BY <1>1, <1>2 DEF NextCommit, Commits, States

-----------------------------------------------------------------------------
(* Type correctness. *)

LEMMA InitType == Init => TypeOK
  <1> SUFFICES ASSUME Init PROVE TypeOK
    OBVIOUS
  <1>1. Fresh \in States /\ NoJob \in Jobs
    BY DEF Fresh, States, Statuses, NoJob, Jobs, Kinds
  <1>2. <<>> \in Seq(Commits)
    OBVIOUS
  <1> QED BY <1>1, <1>2 DEF Init, TypeOK, Steps, Live

LEMMA NextType == TypeOK /\ [Next]_vars => TypeOK'
  <1> SUFFICES ASSUME TypeOK, [Next]_vars PROVE TypeOK'
    OBVIOUS
  <1> USE DEF store, memory, replies
  <1>a. Fresh \in States /\ NoJob \in Jobs /\ <<>> \in Seq(Commits)
    BY DEF Fresh, States, Statuses, NoJob, Jobs, Kinds
  <1>b. {"down", "opened", "idle", "probing", "waiting", "locked", "verified", "staged", "renamed"}
          = Steps
    BY DEF Steps, Live, Serving, Saving, Locked
  <1>c. ASSUME NEW p \in Procs, Gone(p)
        PROVE  /\ pc' \in [Procs -> Steps]
               /\ expected' \in [Procs -> Seq(Commits)]
               /\ session' \in [Procs -> States]
               /\ generation' \in [Procs -> Nat]
               /\ job' \in [Procs -> Jobs]
               /\ staged' \in [Procs -> Seq(Commits)]
               /\ closing' \in [Procs -> BOOLEAN]
    BY <1>a, <1>b, <1>c DEF TypeOK, Gone
  <1>d. ASSUME NEW p \in Procs, Unlock(p)
        PROVE  lock' \in Procs \union {NoProc}
    BY <1>d DEF TypeOK, Unlock
  <1>1. ASSUME NEW p \in Procs, Open(p) PROVE TypeOK'
    BY <1>1, <1>a, <1>b DEF TypeOK, Open
  <1>2. ASSUME NEW p \in Procs, EnableBundle(p) PROVE TypeOK'
    <2>1. StateAt(expected[p]) \in States /\ GenAt(expected[p]) \in Nat
      BY HeadType DEF TypeOK
    <2>2. Reopened(StateAt(expected[p])) \in States
      BY <2>1 DEF Reopened, States, Statuses
    <2>3. [NoJob EXCEPT !.kind = "enable", !.before = Reopened(StateAt(expected[p]))] \in Jobs
      BY <2>2, <1>a DEF Jobs, Kinds, NoJob
    <2> QED BY <1>2, <1>b, <2>1, <2>2, <2>3 DEF TypeOK, EnableBundle
  <1>3. ASSUME NEW p \in Procs, Handle(p) PROVE TypeOK'
    <2>1. ASSUME NEW kind \in Kinds, NEW adds \in SUBSET Edits, NEW next \in States,
                 StartSave(p, kind, adds, next)
          PROVE  TypeOK'
      <3>1. [kind |-> kind, adds |-> adds, before |-> session[p]] \in Jobs
        BY DEF TypeOK, Jobs
      <3> QED BY <2>1, <3>1, <1>b DEF TypeOK, StartSave
    <2>2. session[p] \in States
      BY DEF TypeOK
    <2>3. ASSUME NEW e \in Edits, mutateSession(p, e) PROVE TypeOK'
      <3>1. [session[p] EXCEPT !.content = @ \union {e}] \in States
        BY <2>2 DEF States
      <3> QED BY <2>1, <2>3, <3>1 DEF mutateSession, Kinds
    <2>4. ASSUME finalize(p) PROVE TypeOK'
      <3>1. [session[p] EXCEPT !.status = "finalized"] \in States
        BY <2>2 DEF States, Statuses
      <3> QED BY <2>1, <2>4, <3>1 DEF finalize, Kinds
    <2>5. ASSUME cancel(p) PROVE TypeOK'
      <3>1. [session[p] EXCEPT !.status = "canceled"] \in States
        BY <2>2 DEF States, Statuses
      <3> QED BY <2>1, <2>5, <3>1 DEF cancel, Kinds
    <2>6. ASSUME RecordSourceSave(p) PROVE TypeOK'
      BY <2>1, <2>2, <2>6 DEF RecordSourceSave, Kinds
    <2> QED BY <1>3, <2>3, <2>4, <2>5, <2>6 DEF Handle
  <1>4. ASSUME NEW p \in Procs, AcquireLock(p) PROVE TypeOK'
    BY <1>4, <1>b DEF TypeOK, AcquireLock
  <1>5. ASSUME NEW p \in Procs, CompareState(p) PROVE TypeOK'
    BY <1>5, <1>b DEF TypeOK, CompareState
  <1>6. ASSUME NEW p \in Procs, Stage(p) PROVE TypeOK'
    <2>1. Append(bundle, NextCommit(p)) \in Seq(Commits)
      BY NextCommitType, AppendCommit DEF TypeOK
    <2> QED BY <1>6, <1>b, <2>1 DEF TypeOK, Stage
  <1>7. ASSUME NEW p \in Procs, Rename(p) PROVE TypeOK'
    BY <1>7, <1>b DEF TypeOK, Rename
  <1>8. ASSUME NEW p \in Procs, NEW ok \in BOOLEAN, SyncDirectory(p, ok) PROVE TypeOK'
    <2>1. job[p].adds \in SUBSET Edits /\ GenAt(staged[p]) \in Nat
      BY HeadType DEF TypeOK, Jobs
    <2>2. /\ bundle' \in Seq(Commits) /\ stable' \in Seq(Commits)
          /\ acked' \subseteq Edits /\ synced' \subseteq Edits
      BY <1>8, <2>1 DEF TypeOK, SyncDirectory, Confirm
    <2>3. lock' \in Procs \union {NoProc}
      BY <1>8, <1>d DEF SyncDirectory
    <2>4. CASE Gone(p)
      BY <2>2, <2>3, <2>4, <1>c DEF TypeOK
    <2>5. CASE ~Gone(p)
      <3>1. /\ pc' = [pc EXCEPT ![p] = "idle"]
            /\ expected' = [expected EXCEPT ![p] = staged[p]]
            /\ generation' = [generation EXCEPT ![p] = GenAt(staged[p])]
            /\ job' = [job EXCEPT ![p] = NoJob]
            /\ staged' = [staged EXCEPT ![p] = <<>>]
            /\ closing' = [closing EXCEPT ![p] = @ \/ job[p].kind = "finalize"]
            /\ session' = session
        BY <1>8, <2>5 DEF SyncDirectory
      <3>2. closing' \in [Procs -> BOOLEAN]
        BY <3>1 DEF TypeOK
      <3> QED BY <2>1, <2>2, <2>3, <3>1, <3>2, <1>a, <1>b DEF TypeOK
    <2> QED BY <2>4, <2>5
  <1>9. ASSUME NEW p \in Procs, AbandonSave(p) PROVE TypeOK'
    <2>1. lock' \in Procs \union {NoProc}
      BY <1>9, <1>d DEF AbandonSave
    <2>2. job[p].before \in States
      BY DEF TypeOK, Jobs
    <2>3. CASE Gone(p)
      BY <1>9, <2>1, <2>3, <1>c DEF TypeOK, AbandonSave, Restore
    <2>4. CASE ~Gone(p)
      BY <1>9, <2>1, <2>2, <2>4, <1>a, <1>b DEF TypeOK, AbandonSave, Restore
    <2> QED BY <2>3, <2>4
  <1>10. ASSUME NEW p \in Procs, ProbeState(p) PROVE TypeOK'
    BY <1>10, <1>b DEF TypeOK, ProbeState
  <1>11. ASSUME NEW p \in Procs, reloadAutosave(p) PROVE TypeOK'
    <2>1. StateAt(bundle) \in States /\ GenAt(bundle) \in Nat
      BY HeadType DEF TypeOK
    <2> QED BY <1>11, <1>b, <2>1 DEF TypeOK, reloadAutosave
  <1>12. ASSUME NEW p \in Procs, Crash(p) PROVE TypeOK'
    BY <1>12, <1>c, <1>d DEF TypeOK, Crash
  <1>13. ASSUME PowerLoss PROVE TypeOK'
    <2>1. PICK n \in Len(stable) .. Len(bundle) :
            bundle' = SubSeq(bundle, 1, n) /\ stable' = SubSeq(bundle, 1, n)
      BY <1>13 DEF PowerLoss
    <2>2. n \in 0 .. Len(bundle)
      BY DEF TypeOK
    <2>3. SubSeq(bundle, 1, n) \in Seq(Commits)
      BY <2>2, FirstCommits DEF TypeOK
    <2> QED BY <1>13, <2>1, <2>3, <1>a, <1>b DEF TypeOK, PowerLoss
  <1>14. CASE UNCHANGED vars
    BY <1>14 DEF TypeOK, vars
  <1> QED BY <1>1, <1>2, <1>3, <1>4, <1>5, <1>6, <1>7, <1>8, <1>9, <1>10, <1>11, <1>12,
             <1>13, <1>14 DEF Next, Save

(* Every variable keeps its type: THEOREM over all processes and edits. *)
THEOREM TypeCorrect == Spec => []TypeOK
  BY InitType, NextType, PTL DEF Spec

-----------------------------------------------------------------------------
(* The inductive invariant. *)

LEMMA InitInv == Init => IInv
  <1> SUFFICES ASSUME Init PROVE IInv
    OBVIOUS
  <1>1. TypeOK
    BY InitType
  <1>2. LockOK /\ SessionOK /\ StagedOK
    BY NoProcAssumption DEF Init, LockOK, SessionOK, StagedOK, Locked, Saving
  <1>3. Len(<<>>) = 0
    OBVIOUS
  <1>4. ExpectedOK /\ HistoryOK
    BY <1>3 DEF Init, ExpectedOK, HistoryOK, IsPrefix, Serving, Saving, Locked
  <1> QED BY <1>1, <1>2, <1>4 DEF IInv

(* A history keeps every edit of its beginnings. *)
LEMMA ContentOfPrefix ==
    ASSUME NEW s \in Seq(Commits), NEW t \in Seq(Commits), IsPrefix(s, t),
           \A i, j \in 1 .. Len(t) : i <= j => t[i].content \subseteq t[j].content
    PROVE  StateAt(s).content \subseteq StateAt(t).content
  <1>1. CASE s = <<>>
    BY <1>1 DEF StateAt, Fresh
  <1>2. CASE s # <<>>
    <2>1. Len(s) \in 1 .. Len(t) /\ Len(t) \in 1 .. Len(t) /\ Len(s) <= Len(t)
      BY <1>2 DEF IsPrefix
    <2>2. s[Len(s)] = t[Len(s)] /\ t # <<>>
      BY <2>1 DEF IsPrefix
    <2> QED BY <1>2, <2>1, <2>2 DEF StateAt
  <1> QED BY <1>1, <1>2

(* Whether a save is one step depends on its own process only. *)
LEMMA SameSave ==
    ASSUME NEW q \in Procs, expected'[q] = expected[q], session'[q] = session[q], job'[q] = job[q]
    PROVE  SavesOneStep(q)' <=> SavesOneStep(q)
  BY DEF SavesOneStep

(* A step of one process that leaves the file, what the others know and    *)
(* the answers alone keeps the invariant if it does so for that process.   *)
LEMMA LocalStep ==
    ASSUME IInv, TypeOK', NEW p \in Procs,
           UNCHANGED <<bundle, stable, acked, synced>>,
           \A q \in Procs \ {p} :
             /\ pc'[q] = pc[q] /\ expected'[q] = expected[q] /\ session'[q] = session[q]
             /\ generation'[q] = generation[q] /\ job'[q] = job[q] /\ staged'[q] = staged[q],
           LockOK',
           IsPrefix(expected'[p], bundle),
           pc'[p] \in Serving => generation'[p] = GenAt(expected'[p]),
           pc'[p] \in {"idle", "probing"} => session'[p] = StateAt(expected'[p]),
           pc'[p] \in Saving =>
             /\ session'[p].content = StateAt(expected'[p]).content \union job'[p].adds
             /\ job'[p].kind \notin {"enable", "record"} =>
                  job'[p].before = StateAt(expected'[p])
             /\ SavesOneStep(p)',
           pc'[p] \in {"verified", "staged"} => expected'[p] = bundle,
           pc'[p] = "staged" => staged'[p] = Append(bundle, NextCommit(p)'),
           pc'[p] # "renamed"
    PROVE  IInv'
  <1>1. ExpectedOK'
    BY DEF IInv, ExpectedOK
  <1>2. SessionOK'
    <2>1. \A q \in Procs \ {p} : SavesOneStep(q) => SavesOneStep(q)'
      BY SameSave
    <2> QED BY <2>1 DEF IInv, SessionOK
  <1>3. StagedOK'
    <2> SUFFICES ASSUME NEW q \in Procs
                 PROVE  /\ pc'[q] \in {"verified", "staged"} => expected'[q] = bundle'
                        /\ pc'[q] = "staged" => staged'[q] = Append(bundle', NextCommit(q)')
                        /\ pc'[q] = "renamed" => /\ staged'[q] = Append(expected'[q], NextCommit(q)')
                                                 /\ bundle' = staged'[q]
      BY DEF StagedOK
    <2>1. CASE q = p
      BY <2>1
    <2>2. CASE q # p
      <3>1. NextCommit(q)' = NextCommit(q)
        BY <2>2 DEF NextCommit
      <3> QED BY <2>2, <3>1 DEF IInv, StagedOK
    <2> QED BY <2>1, <2>2
  <1>4. HistoryOK'
    BY DEF IInv, HistoryOK
  <1> QED BY <1>1, <1>2, <1>3, <1>4 DEF IInv

(* A process that leaves keeps nothing the invariant speaks about. *)
LEMMA GoneStep ==
    ASSUME IInv, TypeOK', NEW p \in Procs, Gone(p), Unlock(p),
           UNCHANGED <<bundle, stable, acked, synced>>
    PROVE  IInv'
  <1>1. /\ pc'[p] = "down" /\ expected'[p] = <<>>
        /\ \A q \in Procs \ {p} :
             /\ pc'[q] = pc[q] /\ expected'[q] = expected[q] /\ session'[q] = session[q]
             /\ generation'[q] = generation[q] /\ job'[q] = job[q] /\ staged'[q] = staged[q]
    BY DEF IInv, TypeOK, Gone
  <1>2. LockOK'
    BY <1>1, NoProcAssumption DEF IInv, LockOK, Unlock, Locked
  <1>3. Len(<<>>) = 0 /\ Len(bundle) \in Nat
    BY DEF IInv, TypeOK
  <1>4. IsPrefix(expected'[p], bundle)
    BY <1>1, <1>3 DEF IsPrefix
  <1>5. "down" \notin Serving /\ "down" \notin Saving
    BY DEF Serving, Saving, Locked
  <1> HIDE DEF Serving, Saving
  <1> QED BY <1>1, <1>2, <1>4, <1>5, LocalStep

LEMMA NextInv == IInv /\ [Next]_vars => IInv'
  <1> SUFFICES ASSUME IInv, [Next]_vars PROVE IInv'
    OBVIOUS
  <1> USE DEF store, memory, replies
  <1>t. TypeOK /\ TypeOK'
    BY NextType DEF IInv
  <1>n. NoProc \notin Procs
    BY NoProcAssumption
  <1>1. ASSUME NEW p \in Procs, Open(p) PROVE IInv'
    <2>1. LockOK'
      BY <1>1, <1>t DEF Open, IInv, TypeOK, LockOK, Locked
    <2>2. Len(bundle) \in Nat
      BY <1>t DEF TypeOK
    <2> QED BY <1>1, <1>t, <2>1, <2>2, LocalStep
            DEF Open, TypeOK, IsPrefix, Serving, Saving, Locked
  <1>2. ASSUME NEW p \in Procs, EnableBundle(p) PROVE IInv'
    <2>1. LockOK'
      BY <1>2, <1>t DEF EnableBundle, IInv, TypeOK, LockOK, Locked
    <2>2. IsPrefix(expected'[p], bundle) /\ generation'[p] = GenAt(expected'[p])
      BY <1>2, <1>t DEF EnableBundle, IInv, TypeOK, ExpectedOK
    <2>3. StateAt(expected[p]) \in States
      BY <1>t, HeadType DEF TypeOK
    <2>4. session'[p] = Reopened(StateAt(expected[p])) /\ expected' = expected
      BY <1>2, <1>t DEF EnableBundle, TypeOK
    <2>5. session'[p].content = StateAt(expected[p]).content
      BY <2>3, <2>4 DEF Reopened, States
    <2>6. CASE expected[p] = <<>> \/ isTerminalAutosaveStatus(StateAt(expected[p]).status)
      <3>1. pc'[p] = "waiting" /\ job'[p].kind = "enable" /\ job'[p].adds = {}
        BY <1>2, <1>t, <2>6 DEF EnableBundle, TypeOK, NoJob
      <3>2. /\ UNCHANGED <<bundle, stable, acked, synced, expected, staged>>
            /\ \A q \in Procs \ {p} :
                 /\ pc'[q] = pc[q] /\ session'[q] = session[q]
                 /\ generation'[q] = generation[q] /\ job'[q] = job[q]
        BY <1>2, <1>t, <2>6 DEF EnableBundle, TypeOK
      <3>3. SavesOneStep(p)'
        <4>1. session'[p].status = "active" \/ session'[p].status = StateAt(expected[p]).status
          BY <2>3, <2>4 DEF Reopened, States
        <4> QED BY <2>4, <3>1, <4>1 DEF SavesOneStep
      <3> QED BY <1>t, <2>1, <2>2, <2>4, <2>5, <3>1, <3>2, <3>3, LocalStep
              DEF Serving, Saving, Locked
    <2>7. CASE ~(expected[p] = <<>> \/ isTerminalAutosaveStatus(StateAt(expected[p]).status))
      <3>1. pc'[p] = "idle" /\ session'[p] = StateAt(expected[p])
        BY <1>2, <1>t, <2>3, <2>4, <2>7 DEF EnableBundle, TypeOK, Reopened, States
      <3> QED BY <1>2, <1>t, <2>1, <2>2, <2>4, <3>1, LocalStep
              DEF EnableBundle, TypeOK, Serving, Saving, Locked
    <2> QED BY <2>6, <2>7
  <1>3. ASSUME NEW p \in Procs, Handle(p) PROVE IInv'
    <2>1. ASSUME NEW kind \in Kinds, NEW adds \in SUBSET Edits, NEW next \in States,
                 StartSave(p, kind, adds, next),
                 next.content = session[p].content \union adds,
                 IF kind = "edit"
                   THEN /\ session[p].status = "active" /\ next.status = "active"
                        /\ \E e \in Edits \ session[p].content : adds = {e}
                   ELSE /\ adds = {}
                        /\ isTerminalAutosaveStatus(session[p].status) =>
                             next.status \in {"active", session[p].status}
          PROVE  IInv'
      <3>1. LockOK'
        BY <2>1, <1>t DEF StartSave, IInv, TypeOK, LockOK, Locked
      <3>2. IsPrefix(expected[p], bundle) /\ generation[p] = GenAt(expected[p])
        BY <2>1 DEF StartSave, IInv, ExpectedOK, Serving
      <3>3. session[p] = StateAt(expected[p])
        BY <2>1 DEF StartSave, IInv, SessionOK
      <3>4. /\ pc'[p] = "waiting" /\ session'[p] = next
            /\ job'[p].kind = kind /\ job'[p].adds = adds /\ job'[p].before = session[p]
        BY <2>1, <1>t DEF StartSave, TypeOK
      <3>5. SavesOneStep(p)'
        BY <2>1, <3>3, <3>4 DEF StartSave, SavesOneStep
      <3> QED BY <2>1, <1>t, <3>1, <3>2, <3>3, <3>4, <3>5, LocalStep
              DEF StartSave, TypeOK, Serving, Saving, Locked
    <2>2. session[p] \in States
      BY <1>t DEF TypeOK
    <2>3. ASSUME NEW e \in Edits, mutateSession(p, e) PROVE IInv'
      <3>1. session[p].status = "active" /\ e \in Edits \ session[p].content
        BY <2>2, <2>3 DEF mutateSession, finished, isTerminalAutosaveStatus, States, Statuses
      <3>2. /\ [session[p] EXCEPT !.content = @ \union {e}] \in States
            /\ [session[p] EXCEPT !.content = @ \union {e}].content = session[p].content \union {e}
            /\ [session[p] EXCEPT !.content = @ \union {e}].status = "active"
        BY <2>2, <3>1 DEF States
      <3> QED BY <2>1, <2>3, <3>1, <3>2 DEF mutateSession, Kinds
    <2>4. ASSUME finalize(p) PROVE IInv'
      BY <2>1, <2>2, <2>4 DEF finalize, finished, States, Statuses, Kinds
    <2>5. ASSUME cancel(p) PROVE IInv'
      BY <2>1, <2>2, <2>5 DEF cancel, finished, States, Statuses, Kinds
    <2>6. ASSUME RecordSourceSave(p) PROVE IInv'
      BY <2>1, <2>2, <2>6 DEF RecordSourceSave, Kinds
    <2> QED BY <1>3, <2>3, <2>4, <2>5, <2>6 DEF Handle
  <1>4. ASSUME NEW p \in Procs, AcquireLock(p) PROVE IInv'
    <2>1. LockOK'
      BY <1>4, <1>t, <1>n DEF AcquireLock, IInv, TypeOK, LockOK, Locked
    <2> QED BY <1>4, <1>t, <2>1, LocalStep, SameSave
            DEF AcquireLock, IInv, TypeOK, ExpectedOK, SessionOK, Serving, Saving, Locked
  <1>5. ASSUME NEW p \in Procs, CompareState(p) PROVE IInv'
    <2>1. LockOK'
      BY <1>5, <1>t DEF CompareState, IInv, TypeOK, LockOK, Locked
    <2> QED BY <1>5, <1>t, <2>1, LocalStep, SameSave
            DEF CompareState, IInv, TypeOK, ExpectedOK, SessionOK, Serving, Saving, Locked
  <1>6. ASSUME NEW p \in Procs, Stage(p) PROVE IInv'
    <2>1. LockOK'
      BY <1>6, <1>t DEF Stage, IInv, TypeOK, LockOK, Locked
    <2>2. NextCommit(p)' = NextCommit(p)
      BY <1>6 DEF Stage, NextCommit
    <2> QED BY <1>6, <1>t, <2>1, <2>2, LocalStep, SameSave
            DEF Stage, IInv, TypeOK, ExpectedOK, SessionOK, StagedOK, Serving, Saving, Locked
  <1>7. ASSUME NEW p \in Procs, Rename(p) PROVE IInv'
    <2>c. DEFINE c == NextCommit(p)
    <2>1. c \in Commits
      BY <1>t, NextCommitType
    <2>2. /\ pc[p] = "staged" /\ lock = p
          /\ expected[p] = bundle /\ bundle' = Append(bundle, c) /\ staged[p] = bundle'
      BY <1>7 DEF Rename, IInv, LockOK, StagedOK, Locked
    <2>3. bundle \in Seq(Commits) /\ Len(bundle) \in Nat
      BY <1>t DEF TypeOK
    <2> HIDE DEF c
    <2>4. /\ Len(bundle') = Len(bundle) + 1 /\ bundle'[Len(bundle) + 1] = c
          /\ \A i \in 1 .. Len(bundle) : bundle'[i] = bundle[i]
      BY <2>1, <2>2, <2>3, AppendCommit
    <2>5. \A q \in Procs : pc'[q] = IF q = p THEN "renamed" ELSE pc[q]
      BY <1>7, <1>t DEF Rename, TypeOK
    <2>6. \A s \in Seq(Commits) : IsPrefix(s, bundle) => IsPrefix(s, bundle')
      BY <2>3, <2>4 DEF IsPrefix
    <2>7. LockOK'
      BY <1>7, <2>2, <2>5 DEF Rename, IInv, LockOK, Locked
    <2>8. ExpectedOK'
      BY <1>7, <1>t, <2>2, <2>5, <2>6 DEF Rename, IInv, TypeOK, ExpectedOK, Serving, Saving, Locked
    <2>9. SessionOK'
      BY <1>7, <2>2, <2>5, SameSave DEF Rename, IInv, SessionOK, Saving, Locked
    <2>10. StagedOK'
      <3>1. \A q \in Procs : NextCommit(q)' = NextCommit(q)
        BY <1>7 DEF Rename, NextCommit
      <3>2. \A q \in Procs \ {p} : pc[q] \notin Locked
        BY <2>2 DEF IInv, LockOK
      <3>3. ASSUME NEW q \in Procs \ {p}
            PROVE  pc'[q] \notin {"verified", "staged", "renamed"}
        BY <2>5, <3>2 DEF Locked
      <3>4. NextCommit(p)' = c /\ expected' = expected /\ staged' = staged
        BY <1>7, <3>1 DEF Rename, c
      <3>5. pc'[p] = "renamed" /\ staged'[p] = Append(expected'[p], NextCommit(p)')
        BY <2>2, <2>5, <3>4
      <3> QED BY <2>2, <3>3, <3>4, <3>5 DEF StagedOK
    <2>11. HistoryOK'
      <3>1. \A i \in 1 .. Len(bundle') : bundle'[i].gen = i
        <4>1. c.gen = Len(bundle) + 1
          BY <2>2, <2>3 DEF c, NextCommit, GenAt, IInv, HistoryOK
        <4> QED BY <2>3, <2>4, <4>1 DEF IInv, HistoryOK
      <3>2. \A i, j \in 1 .. Len(bundle') : i <= j => bundle'[i].content \subseteq bundle'[j].content
        <4>1. c.content = StateAt(bundle).content \union job[p].adds
          BY <2>2 DEF c, NextCommit, IInv, SessionOK, Saving, Locked
        <4>2. \A i \in 1 .. Len(bundle) : bundle[i].content \subseteq c.content
          <5> SUFFICES ASSUME NEW i \in 1 .. Len(bundle)
                       PROVE  bundle[i].content \subseteq c.content
            OBVIOUS
          <5>1. bundle # <<>> /\ Len(bundle) \in 1 .. Len(bundle) /\ i <= Len(bundle)
            BY <2>3
          <5> QED BY <4>1, <5>1 DEF IInv, HistoryOK, StateAt
        <4> QED BY <2>3, <2>4, <4>2 DEF IInv, HistoryOK
      <3>3. IsPrefix(stable', bundle') /\ synced' \subseteq StateAt(stable').content
        BY <1>7, <1>t, <2>6 DEF Rename, IInv, HistoryOK, TypeOK
      <3> QED BY <3>1, <3>2, <3>3 DEF HistoryOK
    <2> QED BY <1>t, <2>7, <2>8, <2>9, <2>10, <2>11 DEF IInv
  <1>8. ASSUME NEW p \in Procs, NEW ok \in BOOLEAN, SyncDirectory(p, ok) PROVE IInv'
    <2>1. /\ pc[p] = "renamed" /\ lock = p /\ bundle = staged[p] /\ bundle' = bundle
          /\ bundle = Append(expected[p], NextCommit(p))
      BY <1>8 DEF SyncDirectory, Confirm, IInv, LockOK, StagedOK, Locked
    <2>2. /\ bundle \in Seq(Commits) /\ expected[p] \in Seq(Commits) /\ NextCommit(p) \in Commits
          /\ job[p].adds \subseteq Edits
      BY <1>t, NextCommitType DEF TypeOK, Jobs
    <2>3. /\ StateAt(bundle) = [content |-> session[p].content, status |-> session[p].status]
          /\ GenAt(bundle) = GenAt(expected[p]) + 1
      BY <2>1, <2>2, AppendCommit DEF NextCommit
    <2>4. session[p] = StateAt(bundle) /\ job[p].adds \subseteq StateAt(bundle).content
      <3>1. session[p] \in States
        BY <1>t DEF TypeOK
      <3>2. job[p].adds \subseteq session[p].content
        BY <2>1 DEF IInv, SessionOK, Saving, Locked
      <3> QED BY <2>3, <3>1, <3>2 DEF States
    <2>5. lock' = NoProc
      BY <1>8, <2>1 DEF SyncDirectory, Confirm, Unlock
    <2>6. /\ pc'[p] \in {"idle", "down"}
          /\ pc'[p] = "idle" => /\ expected'[p] = bundle /\ generation'[p] = GenAt(bundle)
                                /\ session'[p] = session[p]
          /\ pc'[p] = "down" => expected'[p] = <<>>
      <3>1. CASE Gone(p)
        BY <1>t, <3>1 DEF Gone, TypeOK
      <3>2. CASE ~Gone(p)
        <4>1. /\ pc' = [pc EXCEPT ![p] = "idle"]
              /\ expected' = [expected EXCEPT ![p] = staged[p]]
              /\ generation' = [generation EXCEPT ![p] = GenAt(staged[p])]
              /\ session' = session
          BY <1>8, <3>2 DEF SyncDirectory, Confirm
        <4> QED BY <1>t, <2>1, <4>1 DEF TypeOK
      <3> QED BY <3>1, <3>2
    <2>7. \A q \in Procs \ {p} :
             /\ pc'[q] = pc[q] /\ expected'[q] = expected[q] /\ session'[q] = session[q]
             /\ generation'[q] = generation[q] /\ job'[q] = job[q] /\ staged'[q] = staged[q]
      <3>1. CASE Gone(p)
        BY <1>t, <3>1 DEF Gone, TypeOK
      <3>2. CASE ~Gone(p)
        BY <1>8, <1>t, <3>2 DEF SyncDirectory, Confirm, TypeOK
      <3> QED BY <3>1, <3>2
    <2>8. \A q \in Procs \ {p} : pc[q] \notin Locked
      BY <2>1 DEF IInv, LockOK
    <2>9. LockOK'
      BY <1>n, <2>5, <2>6, <2>7, <2>8 DEF LockOK, Locked
    <2>10. ExpectedOK'
      <3>1. Len(bundle) \in Nat /\ Len(<<>>) = 0
        BY <2>2
      <3>2. IsPrefix(bundle, bundle) /\ IsPrefix(<<>>, bundle)
        BY <3>1 DEF IsPrefix
      <3> QED BY <2>1, <2>6, <2>7, <3>2 DEF IInv, ExpectedOK, Serving, Saving, Locked
    <2>11. SessionOK'
      BY <2>4, <2>6, <2>7, SameSave DEF IInv, SessionOK, Saving, Locked
    <2>12. StagedOK'
      BY <2>6, <2>7, <2>8 DEF StagedOK, Locked
    <2>13. HistoryOK'
      <3>1. CASE ok
        <4>1. stable' = bundle /\ synced' = synced \union job[p].adds
          BY <1>8, <3>1 DEF SyncDirectory, Confirm
        <4>2. StateAt(stable).content \subseteq StateAt(bundle).content
          BY <1>t, ContentOfPrefix DEF IInv, HistoryOK, TypeOK
        <4>3. IsPrefix(bundle, bundle)
          BY <2>2 DEF IsPrefix
        <4> QED BY <2>1, <2>4, <4>1, <4>2, <4>3 DEF IInv, HistoryOK
      <3>2. CASE ~ok
        <4>1. stable' = stable /\ synced' = synced
          BY <1>8, <3>2 DEF SyncDirectory, Confirm
        <4> QED BY <2>1, <4>1 DEF IInv, HistoryOK
      <3> QED BY <3>1, <3>2
    <2> QED BY <1>t, <2>9, <2>10, <2>11, <2>12, <2>13 DEF IInv
  <1>9. ASSUME NEW p \in Procs, AbandonSave(p) PROVE IInv'
    <2>1. CASE job[p].kind \in {"enable", "record"}
      BY <1>9, <1>t, <2>1, GoneStep DEF AbandonSave, Restore
    <2>2. CASE job[p].kind \notin {"enable", "record"}
      <3>1. pc' = [pc EXCEPT ![p] = "idle"] /\ Unlock(p)
        BY <1>9, <2>2 DEF AbandonSave, Restore
      <3>2. LockOK'
        BY <3>1, <1>t, <1>n DEF IInv, TypeOK, LockOK, Unlock, Locked
      <3>3. job[p].before = StateAt(expected[p]) /\ generation[p] = GenAt(expected[p])
        BY <1>9, <2>2 DEF AbandonSave, Restore, IInv, SessionOK, ExpectedOK, Serving, Saving, Locked
      <3>4. IsPrefix(expected[p], bundle)
        BY DEF IInv, ExpectedOK
      <3> QED BY <1>9, <1>t, <2>2, <3>1, <3>2, <3>3, <3>4, LocalStep
              DEF AbandonSave, Restore, TypeOK, Serving, Saving, Locked
    <2> QED BY <2>1, <2>2
  <1>10. ASSUME NEW p \in Procs, ProbeState(p) PROVE IInv'
    <2>1. LockOK'
      BY <1>10, <1>t DEF ProbeState, IInv, TypeOK, LockOK, Locked
    <2> QED BY <1>10, <1>t, <2>1, LocalStep
            DEF ProbeState, IInv, TypeOK, ExpectedOK, SessionOK, Serving, Saving, Locked
  <1>11. ASSUME NEW p \in Procs, reloadAutosave(p) PROVE IInv'
    <2>1. LockOK'
      BY <1>11, <1>t DEF reloadAutosave, IInv, TypeOK, LockOK, Locked
    <2>2. IsPrefix(bundle, bundle)
      BY <1>t DEF TypeOK, IsPrefix
    <2>3. /\ pc[p] = "probing" /\ session[p] = StateAt(expected[p])
          /\ generation[p] = GenAt(expected[p]) /\ IsPrefix(expected[p], bundle)
      BY <1>11 DEF reloadAutosave, IInv, SessionOK, ExpectedOK, Serving
    <2>4. pc'[p] = "idle" /\ expected'[p] = bundle
      BY <1>11, <1>t DEF reloadAutosave, TypeOK
    <2>5. session'[p] = StateAt(bundle) /\ generation'[p] = GenAt(bundle)
      <3>1. CASE GenAt(bundle) > generation[p]
        BY <1>11, <1>t, <3>1 DEF reloadAutosave, TypeOK
      <3>2. CASE ~(GenAt(bundle) > generation[p])
        <4>1. /\ bundle \in Seq(Commits) /\ expected[p] \in Seq(Commits)
              /\ GenAt(bundle) = Len(bundle) /\ GenAt(expected[p]) = Len(expected[p])
          <5>1. bundle \in Seq(Commits) /\ expected[p] \in Seq(Commits)
            BY <1>t DEF TypeOK
          <5>2. \A h \in Seq(Commits) :
                  (\A i \in 1 .. Len(h) : h[i].gen = i) => GenAt(h) = Len(h)
            <6> SUFFICES ASSUME NEW h \in Seq(Commits), \A i \in 1 .. Len(h) : h[i].gen = i
                         PROVE  GenAt(h) = Len(h)
              OBVIOUS
            <6>1. CASE h = <<>>
              BY <6>1 DEF GenAt
            <6>2. CASE h # <<>>
              BY <6>2 DEF GenAt
            <6> QED BY <6>1, <6>2
          <5>3. \A i \in 1 .. Len(bundle) : bundle[i].gen = i
            BY DEF IInv, HistoryOK
          <5>4. \A i \in 1 .. Len(expected[p]) : expected[p][i].gen = i
            BY <2>3, <5>1, <5>3 DEF IsPrefix
          <5> QED BY <5>1, <5>2, <5>3, <5>4
        <4>2. Len(expected[p]) = Len(bundle)
          BY <2>3, <3>2, <4>1 DEF IsPrefix
        <4>3. expected[p] = bundle
          BY <2>3, <4>1, <4>2 DEF IsPrefix
        <4> QED BY <1>11, <2>3, <3>2, <4>3 DEF reloadAutosave
      <3> QED BY <3>1, <3>2
    <2> QED BY <1>11, <1>t, <2>1, <2>2, <2>4, <2>5, LocalStep
            DEF reloadAutosave, TypeOK, Serving, Saving, Locked
  <1>12. ASSUME NEW p \in Procs, Crash(p) PROVE IInv'
    BY <1>12, <1>t, GoneStep DEF Crash
  <1>13. ASSUME PowerLoss PROVE IInv'
    <2>1. PICK n \in Len(stable) .. Len(bundle) :
            bundle' = SubSeq(bundle, 1, n) /\ stable' = SubSeq(bundle, 1, n)
      BY <1>13 DEF PowerLoss
    <2>2. /\ n \in 0 .. Len(bundle) /\ Len(stable) <= n
          /\ bundle \in Seq(Commits) /\ stable \in Seq(Commits) /\ bundle' \in Seq(Commits)
      BY <1>t DEF TypeOK
    <2>3. Len(bundle') = n /\ \A i \in 1 .. n : bundle'[i] = bundle[i]
      BY <2>1, <2>2, FirstCommits
    <2>4. \A q \in Procs : pc'[q] = "down" /\ expected'[q] = <<>>
      BY <1>13 DEF PowerLoss
    <2>5. LockOK' /\ SessionOK' /\ StagedOK'
      BY <1>13, <1>n, <2>4 DEF PowerLoss, LockOK, SessionOK, StagedOK, Saving, Locked
    <2>6. ExpectedOK'
      <3>1. IsPrefix(<<>>, bundle')
        BY <2>2, <2>3 DEF IsPrefix
      <3> QED BY <2>4, <3>1 DEF ExpectedOK, Serving, Saving, Locked
    <2>7. HistoryOK'
      <3>1. /\ \A i \in 1 .. Len(bundle') : bundle'[i].gen = i
            /\ \A i, j \in 1 .. Len(bundle') : i <= j => bundle'[i].content \subseteq bundle'[j].content
        BY SMTT(30), <2>2, <2>3 DEF IInv, HistoryOK
      <3>2. IsPrefix(stable, bundle')
        BY <2>2, <2>3 DEF IInv, HistoryOK, IsPrefix
      <3>3. StateAt(stable).content \subseteq StateAt(bundle').content
        BY <2>2, <3>1, <3>2, ContentOfPrefix
      <3>4. IsPrefix(stable', bundle')
        BY <2>1, <2>2 DEF IsPrefix
      <3>5. synced' = synced /\ stable' = bundle'
        BY <1>13, <2>1 DEF PowerLoss
      <3> QED BY <3>1, <3>3, <3>4, <3>5 DEF IInv, HistoryOK
    <2> QED BY <1>t, <2>5, <2>6, <2>7 DEF IInv
  <1>14. CASE UNCHANGED vars
    BY <1>14, <1>t, SameSave DEF vars, IInv, LockOK, ExpectedOK, SessionOK, StagedOK, NextCommit, HistoryOK
  <1> QED BY <1>1, <1>2, <1>3, <1>4, <1>5, <1>6, <1>7, <1>8, <1>9, <1>10, <1>11, <1>12,
             <1>13, <1>14 DEF Next, Save

(* The invariant holds in every reachable state, whatever the processes,   *)
(* the edits, the crashes and the power failures.                          *)
THEOREM Invariance == Spec => []IInv
  BY InitInv, NextInv, PTL DEF Spec

-----------------------------------------------------------------------------
(* What the invariant gives. *)

(* An edit whose save returned no error survives every crash and power     *)
(* failure.                                                                *)
THEOREM SyncedEditsSurvive == Spec => []SyncedSurvives
  <1>1. IInv => SyncedSurvives
    BY DEF IInv, HistoryOK, SyncedSurvives
  <1> QED BY <1>1, Invariance, PTL

(* Generations number the recorded states. *)
THEOREM GenerationsNumberStates == Spec => []GenerationsConsecutive
  <1>1. IInv => GenerationsConsecutive
    BY DEF IInv, HistoryOK, GenerationsConsecutive
  <1> QED BY <1>1, Invariance, PTL

(* A server that answers requests shows a recorded state. *)
THEOREM MemoryShowsRecord == Spec => []MemoryIsRecorded
  <1>1. IInv => MemoryIsRecorded
    BY DEF IInv, ExpectedOK, SessionOK, Serving, MemoryIsRecorded
  <1> QED BY <1>1, Invariance, PTL

(* What a step does to the bundle file: nothing, one commit more, or a     *)
(* power failure.                                                          *)
LEMMA BundleSteps ==
    ASSUME IInv, [Next]_vars
    PROVE  \/ UNCHANGED bundle
           \/ \E p \in Procs : Rename(p) /\ bundle' = Append(bundle, NextCommit(p))
                              /\ expected[p] = bundle
           \/ PowerLoss
  <1>1. CASE UNCHANGED vars
    BY <1>1 DEF vars, store
  <1>2. CASE PowerLoss
    BY <1>2
  <1>3. ASSUME NEW p \in Procs,
               Open(p) \/ EnableBundle(p) \/ Handle(p) \/ ProbeState(p)
                 \/ reloadAutosave(p) \/ Crash(p)
        PROVE  UNCHANGED bundle
    BY <1>3 DEF Open, EnableBundle, Handle, mutateSession, finalize, cancel, RecordSourceSave,
                StartSave, ProbeState, reloadAutosave, Crash, store
  <1>4. ASSUME NEW p \in Procs, Save(p), ~Rename(p)
        PROVE  UNCHANGED bundle
    BY <1>4 DEF Save, AcquireLock, CompareState, Stage, SyncDirectory, Confirm, AbandonSave, Restore, store
  <1>5. ASSUME NEW p \in Procs, Rename(p)
        PROVE  bundle' = Append(bundle, NextCommit(p)) /\ expected[p] = bundle
    BY <1>5 DEF Rename, IInv, StagedOK
  <1> QED BY <1>1, <1>2, <1>3, <1>4, <1>5 DEF Next

(* No process overwrites what another one recorded. *)
THEOREM NoUpdateIsLost == Spec => NoLostUpdate
  <1>1. ASSUME IInv, IInv', [Next]_vars, \E p \in Procs : pc'[p] # "down"
        PROVE  /\ IsPrefix(bundle, bundle')
               /\ StateAt(bundle).content \subseteq StateAt(bundle').content
    <2>1. bundle \in Seq(Commits) /\ bundle' \in Seq(Commits)
      BY <1>1 DEF IInv, TypeOK
    <2>2. IsPrefix(bundle, bundle')
      <3>1. CASE UNCHANGED bundle
        BY <2>1, <3>1 DEF IsPrefix
      <3>2. CASE \E p \in Procs : bundle' = Append(bundle, NextCommit(p))
        <4>1. PICK p \in Procs : bundle' = Append(bundle, NextCommit(p))
          BY <3>2
        <4>2. NextCommit(p) \in Commits
          BY <1>1, NextCommitType DEF IInv
        <4>3. /\ Len(bundle') = Len(bundle) + 1
              /\ \A i \in 1 .. Len(bundle) : bundle'[i] = bundle[i]
          BY <2>1, <4>1, <4>2, AppendCommit
        <4> QED BY <2>1, <4>3 DEF IsPrefix
      <3>3. CASE PowerLoss
        BY <1>1, <3>3 DEF PowerLoss
      <3> QED BY <1>1, <3>1, <3>2, <3>3, BundleSteps
    <2>3. StateAt(bundle).content \subseteq StateAt(bundle').content
      BY <1>1, <2>1, <2>2, ContentOfPrefix DEF IInv, HistoryOK
    <2> QED BY <2>2, <2>3
  <1>2. IInv /\ IInv' /\ [Next]_vars =>
          [(\E p \in Procs : pc'[p] # "down") =>
             /\ IsPrefix(bundle, bundle')
             /\ StateAt(bundle).content \subseteq StateAt(bundle').content]_vars
    BY <1>1
  <1> QED BY <1>2, Invariance, PTL DEF Spec, NoLostUpdate

(* What a step does to the record, commit by commit: it keeps a beginning  *)
(* of it, or a save adds its commit to what it compared with.              *)
LEMMA RecordSteps ==
    ASSUME IInv, IInv', [Next]_vars
    PROVE  \/ /\ Len(bundle') \in 0 .. Len(bundle)
              /\ \A i \in 1 .. Len(bundle') : bundle'[i] = bundle[i]
           \/ \E p \in Procs :
                /\ pc[p] = "staged" /\ expected[p] = bundle
                /\ Len(bundle') = Len(bundle) + 1
                /\ bundle'[Len(bundle) + 1] = NextCommit(p)
                /\ \A i \in 1 .. Len(bundle) : bundle'[i] = bundle[i]
  <1>1. bundle \in Seq(Commits) /\ bundle' \in Seq(Commits)
    BY DEF IInv, TypeOK
  <1>2. CASE UNCHANGED bundle
    BY <1>1, <1>2
  <1>3. ASSUME NEW p \in Procs, Rename(p), bundle' = Append(bundle, NextCommit(p)),
               expected[p] = bundle
        PROVE  /\ pc[p] = "staged"
               /\ Len(bundle') = Len(bundle) + 1
               /\ bundle'[Len(bundle) + 1] = NextCommit(p)
               /\ \A i \in 1 .. Len(bundle) : bundle'[i] = bundle[i]
    <2>1. NextCommit(p) \in Commits
      BY NextCommitType DEF IInv
    <2> QED BY <1>1, <1>3, <2>1, AppendCommit DEF Rename
  <1>4. CASE PowerLoss
    <2>1. PICK n \in Len(stable) .. Len(bundle) : bundle' = SubSeq(bundle, 1, n)
      BY <1>4 DEF PowerLoss
    <2>2. n \in 0 .. Len(bundle)
      BY <1>1, <2>1 DEF IInv, TypeOK
    <2> QED BY <1>1, <2>1, <2>2, FirstCommits
  <1> QED BY <1>2, <1>3, <1>4, BundleSteps

(* A commit whose content differs from the state it was compared with is   *)
(* one of an edit, and that state is open.                                 *)
LEMMA CommitOfEdit ==
    ASSUME IInv, NEW p \in Procs, pc[p] = "staged",
           NextCommit(p).content # StateAt(expected[p]).content
    PROVE  StateAt(expected[p]).status = "active"
  <1>1. /\ session[p].content = StateAt(expected[p]).content \union job[p].adds
        /\ SavesOneStep(p)
    BY DEF IInv, SessionOK, Saving, Locked
  <1>2. job[p].adds # {}
    BY <1>1 DEF NextCommit
  <1> QED BY <1>1, <1>2 DEF SavesOneStep

(* No process adds feedback to a review that another one has ended.        *)
THEOREM EditsNeedOpenReview == Spec => []EditsOnlyWhileOpen
  <1>1. Init => EditsOnlyWhileOpen
    <2>1. Len(<<>>) = 0
      OBVIOUS
    <2> QED BY <2>1 DEF Init, EditsOnlyWhileOpen
  <1>2. ASSUME IInv, IInv', EditsOnlyWhileOpen, [Next]_vars
        PROVE  EditsOnlyWhileOpen'
    <2>1. bundle \in Seq(Commits)
      BY <1>2 DEF IInv, TypeOK
    <2>2. SUFFICES ASSUME NEW i \in 2 .. Len(bundle'),
                          bundle'[i].content # bundle'[i - 1].content
                   PROVE  bundle'[i - 1].status = "active"
      BY DEF EditsOnlyWhileOpen
    <2>3. CASE i \in 2 .. Len(bundle) /\ bundle'[i] = bundle[i] /\ bundle'[i - 1] = bundle[i - 1]
      BY <1>2, <2>2, <2>3 DEF EditsOnlyWhileOpen
    <2>4. ASSUME NEW p \in Procs, pc[p] = "staged", expected[p] = bundle,
                 i = Len(bundle) + 1, bundle'[i] = NextCommit(p), bundle'[i - 1] = bundle[i - 1]
          PROVE  bundle'[i - 1].status = "active"
      <3>1. StateAt(bundle) = [content |-> bundle[i - 1].content, status |-> bundle[i - 1].status]
        BY <2>1, <2>2, <2>4 DEF StateAt
      <3> QED BY <1>2, <2>2, <2>4, <3>1, CommitOfEdit
    <2>5. CASE /\ Len(bundle') \in 0 .. Len(bundle)
               /\ \A j \in 1 .. Len(bundle') : bundle'[j] = bundle[j]
      BY <2>1, <2>2, <2>3, <2>5
    <2>6. CASE \E p \in Procs :
                 /\ pc[p] = "staged" /\ expected[p] = bundle
                 /\ Len(bundle') = Len(bundle) + 1
                 /\ bundle'[Len(bundle) + 1] = NextCommit(p)
                 /\ \A j \in 1 .. Len(bundle) : bundle'[j] = bundle[j]
      <3>1. i - 1 \in 1 .. Len(bundle)
        BY <2>1, <2>2, <2>6
      <3>2. i \in 1 .. Len(bundle) \/ i = Len(bundle) + 1
        BY <2>1, <2>2, <2>6
      <3> QED BY <2>1, <2>2, <2>3, <2>4, <2>6, <3>1, <3>2
    <2> QED BY <1>2, <2>5, <2>6, RecordSteps
  <1> QED BY <1>1, <1>2, Invariance, PTL DEF Spec

(* The tags beside the record are those of its finalizations.              *)
THEOREM TagsMarkFinalizations == Spec => []CheckpointPerFinalization
  <1>1. Init => CheckpointPerFinalization
    <2>1. Len(<<>>) = 0
      OBVIOUS
    <2> QED BY <2>1 DEF Init, CheckpointPerFinalization
  <1>2. ASSUME IInv, IInv', CheckpointPerFinalization, [Next]_vars
        PROVE  CheckpointPerFinalization'
    <2>1. bundle \in Seq(Commits)
      BY <1>2 DEF IInv, TypeOK
    <2>2. SUFFICES ASSUME NEW i \in 1 .. Len(bundle')
                   PROVE  bundle'[i].tagged <=> /\ bundle'[i].status = "finalized"
                                                /\ i > 1 => bundle'[i - 1].status # "finalized"
      BY DEF CheckpointPerFinalization
    <2>3. CASE /\ i \in 1 .. Len(bundle) /\ bundle'[i] = bundle[i]
               /\ i > 1 => bundle'[i - 1] = bundle[i - 1]
      BY <1>2, <2>3 DEF CheckpointPerFinalization
    <2>4. ASSUME NEW p \in Procs, expected[p] = bundle,
                 i = Len(bundle) + 1, bundle'[i] = NextCommit(p),
                 i > 1 => bundle'[i - 1] = bundle[i - 1]
          PROVE  bundle'[i].tagged <=> /\ bundle'[i].status = "finalized"
                                       /\ i > 1 => bundle'[i - 1].status # "finalized"
      <3>1. CASE i = 1
        <4>1. bundle = <<>>
          BY <2>1, <2>4, <3>1
        <4>2. StateAt(bundle).status # "finalized"
          BY <4>1 DEF StateAt, Fresh
        <4>3. /\ bundle'[i].status = session[p].status
              /\ bundle'[i].tagged = (session[p].status = "finalized"
                                        /\ StateAt(bundle).status # "finalized")
          BY <2>4 DEF NextCommit
        <4>4. ~(i > 1)
          BY <3>1
        <4> QED BY <4>2, <4>3, <4>4
      <3>2. CASE i > 1
        <4>1. StateAt(bundle).status = bundle[i - 1].status
          BY <2>1, <2>4, <3>2 DEF StateAt
        <4>2. /\ bundle'[i].status = session[p].status
              /\ bundle'[i].tagged = (session[p].status = "finalized"
                                        /\ StateAt(bundle).status # "finalized")
          BY <2>4 DEF NextCommit
        <4> QED BY <2>4, <3>2, <4>1, <4>2
      <3> QED BY <2>1, <2>4, <3>1, <3>2
    <2>5. CASE /\ Len(bundle') \in 0 .. Len(bundle)
               /\ \A j \in 1 .. Len(bundle') : bundle'[j] = bundle[j]
      BY <2>1, <2>2, <2>3, <2>5
    <2>6. CASE \E p \in Procs :
                 /\ pc[p] = "staged" /\ expected[p] = bundle
                 /\ Len(bundle') = Len(bundle) + 1
                 /\ bundle'[Len(bundle) + 1] = NextCommit(p)
                 /\ \A j \in 1 .. Len(bundle) : bundle'[j] = bundle[j]
      BY <2>1, <2>2, <2>3, <2>4, <2>6
    <2> QED BY <1>2, <2>5, <2>6, RecordSteps
  <1> QED BY <1>1, <1>2, Invariance, PTL DEF Spec

-----------------------------------------------------------------------------
(* Refinement of the ledger. *)

(* The ledger's history is the bundle's, generation and tag left out. *)
Abs(h) == [i \in 1 .. Len(h) |-> [content |-> h[i].content, status |-> h[i].status]]

LEMMA LedgerInit == Init => Ledger!Init
  <1> SUFFICES ASSUME Init PROVE Ledger!Init
    OBVIOUS
  <1>1. Len(<<>>) = 0
    OBVIOUS
  <1>2. Abs(<<>>) = <<>>
    BY <1>1 DEF Abs
  <1> QED BY <1>1, <1>2 DEF Init, Ledger!Init, Abs

LEMMA AbsFacts ==
    ASSUME NEW h \in Seq(Commits)
    PROVE  /\ Len(Abs(h)) = Len(h)
           /\ Abs(h) \in Seq(States)
           /\ Ledger!Tip(Abs(h)) = StateAt(h)
           /\ \A c \in Commits :
                Abs(Append(h, c)) = Append(Abs(h), [content |-> c.content, status |-> c.status])
           /\ \A n \in 0 .. Len(h) : Abs(SubSeq(h, 1, n)) = SubSeq(Abs(h), 1, n)
  <1>1. Len(Abs(h)) = Len(h) /\ Abs(h) \in Seq(States)
    <2>1. Len(h) \in Nat /\ \A i \in 1 .. Len(h) : h[i] \in Commits
      OBVIOUS
    <2>2. \A i \in 1 .. Len(h) : [content |-> h[i].content, status |-> h[i].status] \in States
      BY <2>1 DEF Commits, States
    <2>3. Abs(h) \in [1 .. Len(h) -> States]
      BY <2>2 DEF Abs
    <2> QED BY <2>1, <2>3
  <1>2. Ledger!Tip(Abs(h)) = StateAt(h)
    <2>1. CASE h = <<>>
      BY <1>1, <2>1 DEF Ledger!Tip, StateAt, Abs, Fresh
    <2>2. CASE h # <<>>
      BY <1>1, <2>2 DEF Ledger!Tip, StateAt, Abs
    <2> QED BY <2>1, <2>2
  <1>3. ASSUME NEW c \in Commits
        PROVE  Abs(Append(h, c)) = Append(Abs(h), [content |-> c.content, status |-> c.status])
    <2>1. [content |-> c.content, status |-> c.status] \in States
      BY DEF Commits, States
    <2> QED BY <1>1, <2>1, AppendCommit DEF Abs
  <1>4. ASSUME NEW n \in 0 .. Len(h) PROVE Abs(SubSeq(h, 1, n)) = SubSeq(Abs(h), 1, n)
    BY <1>1, FirstCommits DEF Abs
  <1> QED BY <1>1, <1>2, <1>3, <1>4

LEMMA LedgerNext == IInv /\ [Next]_vars => [Ledger!Next]_(Ledger!vars)
  <1> SUFFICES ASSUME IInv, [Next]_vars PROVE [Ledger!Next]_(Ledger!vars)
    OBVIOUS
  <1>1. /\ bundle \in Seq(Commits) /\ stable \in Seq(Commits) /\ bundle' \in Seq(Commits)
        /\ stable' \in Seq(Commits)
    BY NextType DEF IInv, TypeOK
  <1>2. /\ Ledger!vars = <<Abs(bundle), Len(stable), acked>>
        /\ Ledger!vars' = <<Abs(bundle'), Len(stable'), acked'>>
    BY DEF Ledger!vars, Abs
  <1>3. CASE UNCHANGED <<bundle, stable, acked>>
    BY <1>2, <1>3
  <1>4. ASSUME NEW p \in Procs, Rename(p) PROVE Ledger!Next
    <2>1. /\ bundle' = Append(bundle, NextCommit(p)) /\ NextCommit(p) \in Commits
          /\ expected[p] = bundle /\ pc[p] = "staged" /\ UNCHANGED <<stable, acked>>
      BY <1>4, NextCommitType DEF Rename, IInv, StagedOK, replies
    <2>2. Abs(bundle') = Append(Abs(bundle), [content |-> session[p].content,
                                              status  |-> session[p].status])
      BY <1>1, <2>1, AbsFacts DEF NextCommit
    <2>3. /\ session[p].content = StateAt(bundle).content \union job[p].adds
          /\ SavesOneStep(p) /\ session[p].status \in Statuses
      BY <2>1 DEF IInv, TypeOK, SessionOK, Saving, Locked, States
    <2>4. Ledger!Tip(Abs(bundle)) = StateAt(bundle)
      BY <1>1, AbsFacts
    <2>5. CASE job[p].kind = "edit"
      <3>1. PICK e \in Edits \ StateAt(bundle).content : job[p].adds = {e}
        BY <2>1, <2>3, <2>5 DEF SavesOneStep
      <3>2. StateAt(bundle).status = "active" /\ session[p].status = "active"
        BY <2>1, <2>3, <2>5 DEF SavesOneStep
      <3>3. Ledger!RecordEdit(e)
        BY <2>1, <2>2, <2>3, <2>4, <3>1, <3>2 DEF Ledger!RecordEdit, Ledger!Terminal, Abs
      <3> QED BY <3>1, <3>3 DEF Ledger!Next
    <2>6. CASE job[p].kind # "edit"
      <3>1. /\ job[p].adds = {}
            /\ isTerminalAutosaveStatus(StateAt(bundle).status) =>
                 session[p].status \in {"active", StateAt(bundle).status}
        BY <2>1, <2>3, <2>6 DEF SavesOneStep
      <3>2. PICK status \in Statuses : status = session[p].status
        BY <2>3
      <3>3. Ledger!RecordStatus(status)
        <4>1. session[p].content = StateAt(bundle).content
          BY <2>1, <2>3, <3>1
        <4>2. Ledger!Terminal(Ledger!Tip(Abs(bundle)).status) =>
                status \in {"active", Ledger!Tip(Abs(bundle)).status}
          BY <2>4, <3>1, <3>2 DEF Ledger!Terminal, isTerminalAutosaveStatus
        <4>3. Abs(bundle') = Append(Abs(bundle), [content |-> Ledger!Tip(Abs(bundle)).content,
                                                  status  |-> status])
          BY <2>2, <2>4, <3>2, <4>1
        <4> QED BY <2>1, <4>2, <4>3 DEF Ledger!RecordStatus, Abs
      <3> QED BY <3>3 DEF Ledger!Next, Ledger!Statuses, Statuses
    <2> QED BY <2>5, <2>6
  <1>5. ASSUME NEW p \in Procs, NEW ok \in BOOLEAN, SyncDirectory(p, ok)
        PROVE  [Ledger!Next]_(Ledger!vars)
    <2>1. /\ pc[p] = "renamed" /\ bundle' = bundle /\ acked' = acked \union job[p].adds
          /\ stable' = IF ok THEN bundle ELSE stable
          /\ bundle = Append(expected[p], NextCommit(p))
      BY <1>5 DEF SyncDirectory, Confirm, IInv, StagedOK
    <2>2. Abs(bundle') = Abs(bundle) /\ Len(Abs(bundle)) = Len(bundle)
      BY <1>1, <2>1, AbsFacts
    <2>3. Ledger!Tip(Abs(bundle)).content = session[p].content
      <3>1. expected[p] \in Seq(Commits) /\ NextCommit(p) \in Commits
        BY NextCommitType DEF IInv, TypeOK
      <3>2. StateAt(bundle).content = session[p].content
        BY <2>1, <3>1, AppendCommit DEF NextCommit
      <3> QED BY <1>1, <3>2, AbsFacts
    <2>4. job[p].adds \subseteq session[p].content /\ SavesOneStep(p)
      BY <2>1 DEF IInv, SessionOK, Saving, Locked
    <2>5. CASE \E e \in Edits : job[p].adds = {e}
      <3>1. PICK e \in Edits : job[p].adds = {e}
        BY <2>5
      <3>2. CASE ok
        <4>1. Ledger!SettleAndAnswer(e)
          BY <2>1, <2>2, <2>3, <2>4, <3>1, <3>2 DEF Ledger!SettleAndAnswer, Abs
        <4> QED BY <3>1, <4>1 DEF Ledger!Next
      <3>3. CASE ~ok
        <4>1. Ledger!Answer(e)
          BY <2>1, <2>2, <2>3, <2>4, <3>1, <3>3 DEF Ledger!Answer, Abs
        <4> QED BY <3>1, <4>1 DEF Ledger!Next
      <3> QED BY <3>2, <3>3
    <2>6. CASE job[p].adds = {}
      <3>1. CASE ok
        <4>1. Ledger!Settle
          BY <2>1, <2>2, <2>6, <3>1 DEF Ledger!Settle, Abs
        <4> QED BY <4>1 DEF Ledger!Next
      <3>2. CASE ~ok
        BY <1>2, <2>1, <2>2, <2>6, <3>2
      <3> QED BY <3>1, <3>2
    <2> QED BY <2>4, <2>5, <2>6 DEF SavesOneStep
  <1>6. ASSUME PowerLoss PROVE Ledger!Next
    <2>1. PICK n \in Len(stable) .. Len(bundle) :
            bundle' = SubSeq(bundle, 1, n) /\ stable' = SubSeq(bundle, 1, n)
      BY <1>6 DEF PowerLoss
    <2>2. n \in 0 .. Len(bundle) /\ acked' = acked
      BY <1>1, <1>6 DEF PowerLoss
    <2>3. /\ Abs(bundle') = SubSeq(Abs(bundle), 1, n) /\ Len(stable') = n
          /\ Len(Abs(bundle)) = Len(bundle)
      BY <1>1, <2>1, <2>2, AbsFacts, FirstCommits
    <2>4. Ledger!Lose
      BY <2>1, <2>2, <2>3 DEF Ledger!Lose, Abs
    <2> QED BY <2>4 DEF Ledger!Next
  <1>7. ASSUME NEW p \in Procs,
               Open(p) \/ EnableBundle(p) \/ Handle(p) \/ ProbeState(p)
                 \/ reloadAutosave(p) \/ Crash(p)
        PROVE  UNCHANGED <<bundle, stable, acked>>
    BY <1>7 DEF Open, EnableBundle, Handle, mutateSession, finalize, cancel, RecordSourceSave,
                StartSave, ProbeState, reloadAutosave, Crash, store, replies
  <1>8. ASSUME NEW p \in Procs,
               AcquireLock(p) \/ CompareState(p) \/ Stage(p) \/ AbandonSave(p)
        PROVE  UNCHANGED <<bundle, stable, acked>>
    BY <1>8 DEF AcquireLock, CompareState, Stage, AbandonSave, Restore, store, replies
  <1>9. CASE UNCHANGED vars
    BY <1>3, <1>9 DEF vars, store, replies
  <1> QED BY <1>3, <1>4, <1>5, <1>6, <1>7, <1>8, <1>9 DEF Next, Save

(* The bundle store implements the ledger, for every number of processes.  *)
THEOREM StoreImplementsLedger == Spec => LedgerSpec
  BY LedgerInit, LedgerNext, Invariance, PTL DEF Spec, LedgerSpec, Ledger!Spec
=============================================================================
