----------------------------- MODULE BundleStore -----------------------------
(***************************************************************************)
(* The durable review record of one plan, shared by several PlanMaxx       *)
(* processes (internal/review/bundle.go and the persistence half of        *)
(* internal/review/server.go).                                             *)
(*                                                                         *)
(* The record is one Git bundle file.  Its `state` ref heads a linear      *)
(* history of commits, so an object id stands for the whole history below  *)
(* it: here an OID is the sequence of commits itself and <<>> is the       *)
(* missing file.  A process keeps the OID it last read (expectedState),    *)
(* writes under a cross-process flock, compares, builds the next bundle in *)
(* a staging repository, renames it over the file and syncs the directory. *)
(*                                                                         *)
(* A process may crash at any step, a step may fail, and the machine may   *)
(* lose power: the rename of a file whose directory was not synced may     *)
(* then be undone.                                                         *)
(***************************************************************************)
EXTENDS Naturals, Sequences, FiniteSets

CONSTANTS Procs,   \* processes that review the plan, one server each
          Edits,   \* accepted feedback mutations, told apart by identity
          MaxGen   \* bound on the generations written

NoProc == "none"

ASSUME MaxGenAssumption == MaxGen \in Nat
ASSUME NoProcAssumption == NoProc \notin Procs

VARIABLES
    bundle,      \* the bundle file, as its state history
    stable,      \* the part of it a power failure cannot take back
    lock,        \* the process that holds the flock, or NoProc
    pc,          \* where each process is
    expected,    \* BundleStore.expectedState and the autosave read with it
    session,     \* Server.session and Server.autosaveStatus
    generation,  \* Server.autosaveGeneration
    job,         \* the handler that runs in the process, with its undo copy
    staged,      \* the state history of the staging repository
    closing,     \* the finalized result went to Server.done
    acked,       \* edits answered with success
    synced       \* those among them whose save returned no error at all

store   == <<bundle, stable, lock>>
memory  == <<expected, session, generation>>
replies == <<closing, acked, synced>>
vars    == <<store, pc, memory, job, staged, replies>>

Statuses == {"active", "finalized", "canceled"}
Kinds == {"none", "enable", "edit", "finalize", "cancel", "record"}

isTerminalAutosaveStatus(status) == status \in {"finalized", "canceled"}

States  == [content : SUBSET Edits, status : Statuses]
Commits == [gen : Nat, content : SUBSET Edits, status : Statuses, tagged : BOOLEAN]
Jobs    == [kind : Kinds, adds : SUBSET Edits, before : States]

Fresh == [content |-> {}, status |-> "active"]
NoJob == [kind |-> "none", adds |-> {}, before |-> Fresh]

(* The review state and the generation at the head of a state history. *)
StateAt(oid) == IF oid = <<>> THEN Fresh
                ELSE [content |-> oid[Len(oid)].content, status |-> oid[Len(oid)].status]
GenAt(oid)   == IF oid = <<>> THEN 0 ELSE oid[Len(oid)].gen

Locked  == {"locked", "verified", "staged", "renamed"}   \* holds the flock
Saving  == {"waiting"} \union Locked                      \* inside Save
Serving == {"idle", "probing"} \union Saving              \* EnableBundle was called
Live    == {"opened"} \union Serving
Steps   == {"down"} \union Live

TypeOK ==
    /\ bundle \in Seq(Commits) /\ stable \in Seq(Commits)
    /\ lock \in Procs \union {NoProc}
    /\ pc \in [Procs -> Steps]
    /\ expected \in [Procs -> Seq(Commits)]
    /\ session \in [Procs -> States]
    /\ generation \in [Procs -> Nat]
    /\ job \in [Procs -> Jobs]
    /\ staged \in [Procs -> Seq(Commits)]
    /\ closing \in [Procs -> BOOLEAN]
    /\ acked \subseteq Edits /\ synced \subseteq Edits

Init ==
    /\ bundle = <<>> /\ stable = <<>>
    /\ lock = NoProc
    /\ pc = [p \in Procs |-> "down"]
    /\ expected = [p \in Procs |-> <<>>]
    /\ session = [p \in Procs |-> Fresh]
    /\ generation = [p \in Procs |-> 0]
    /\ job = [p \in Procs |-> NoJob]
    /\ staged = [p \in Procs |-> <<>>]
    /\ closing = [p \in Procs |-> FALSE]
    /\ acked = {} /\ synced = {}

-----------------------------------------------------------------------------
(* Opening the review. *)

(* The process starts: OpenBundleStore materializes the bundle and reads it. *)
Open(p) ==
    /\ pc[p] = "down"
    /\ pc' = [pc EXCEPT ![p] = "opened"]
    /\ expected' = [expected EXCEPT ![p] = bundle]
    /\ session' = [session EXCEPT ![p] = Fresh]
    /\ generation' = [generation EXCEPT ![p] = 0]
    /\ closing' = [closing EXCEPT ![p] = FALSE]
    /\ UNCHANGED <<store, job, staged, acked, synced>>

(* migrateLoadedSession(reopenTerminal): a finished review is open again. *)
Reopened(state) ==
    [state EXCEPT !.status = IF isTerminalAutosaveStatus(@) THEN "active" ELSE @]

(* EnableBundle: the first review of a plan, and a finished one, is saved *)
(* at once; an interrupted one continues as it is.                        *)
EnableBundle(p) ==
    LET saved == StateAt(expected[p])
        needsSave == expected[p] = <<>> \/ isTerminalAutosaveStatus(saved.status)
    IN  /\ pc[p] = "opened"
        /\ needsSave => GenAt(expected[p]) < MaxGen
        /\ session' = [session EXCEPT ![p] = Reopened(saved)]
        /\ generation' = [generation EXCEPT ![p] = GenAt(expected[p])]
        /\ pc' = [pc EXCEPT ![p] = IF needsSave THEN "waiting" ELSE "idle"]
        /\ job' = IF needsSave
                    THEN [job EXCEPT ![p] = [NoJob EXCEPT !.kind = "enable",
                                                          !.before = Reopened(saved)]]
                    ELSE job
        /\ UNCHANGED <<store, expected, staged, replies>>

-----------------------------------------------------------------------------
(* Handlers: change the session in memory, then save it.  Server.mu is held *)
(* until the answer, so the process runs no other handler meanwhile.        *)

finished(p) == isTerminalAutosaveStatus(session[p].status)

StartSave(p, kind, adds, next) ==
    /\ pc[p] = "idle"
    /\ GenAt(expected[p]) < MaxGen
    /\ pc' = [pc EXCEPT ![p] = "waiting"]
    /\ job' = [job EXCEPT ![p] = [kind |-> kind, adds |-> adds, before |-> session[p]]]
    /\ session' = [session EXCEPT ![p] = next]
    /\ UNCHANGED <<store, expected, generation, staged, replies>>

mutateSession_EvenFinished(p, e) ==
    /\ e \notin session[p].content
    /\ StartSave(p, "edit", {e}, [session[p] EXCEPT !.content = @ \union {e}])

mutateSession(p, e) ==
    /\ ~finished(p)
    /\ e \notin session[p].content
    /\ StartSave(p, "edit", {e}, [session[p] EXCEPT !.content = @ \union {e}])

finalize(p) ==
    /\ ~finished(p)
    /\ StartSave(p, "finalize", {}, [session[p] EXCEPT !.status = "finalized"])

cancel(p) ==
    /\ ~finished(p)
    /\ StartSave(p, "cancel", {}, [session[p] EXCEPT !.status = "canceled"])

(* The CLI took the finalized result, wrote the plan and records that. *)
RecordSourceSave(p) ==
    /\ closing[p]
    /\ StartSave(p, "record", {}, session[p])

-----------------------------------------------------------------------------
(* BundleStore.Save *)

AcquireLock_Shared(p) ==
    /\ pc[p] = "waiting"
    /\ lock' = p
    /\ pc' = [pc EXCEPT ![p] = "locked"]
    /\ UNCHANGED <<bundle, stable, memory, job, staged, replies>>

(* acquireAutosaveLock: a blocking flock. *)
AcquireLock(p) ==
    /\ pc[p] = "waiting"
    /\ lock = NoProc
    /\ lock' = p
    /\ pc' = [pc EXCEPT ![p] = "locked"]
    /\ UNCHANGED <<bundle, stable, memory, job, staged, replies>>

CompareState_Skipped(p) ==
    /\ pc[p] = "locked"
    /\ pc' = [pc EXCEPT ![p] = "verified"]
    /\ UNCHANGED <<store, memory, job, staged, replies>>

(* The compare half of compare-and-swap on the bundled state ref. *)
CompareState(p) ==
    /\ pc[p] = "locked"
    /\ bundle = expected[p]
    /\ pc' = [pc EXCEPT ![p] = "verified"]
    /\ UNCHANGED <<store, memory, job, staged, replies>>

NextCommit_SameGeneration(p) ==
    [gen     |-> GenAt(expected[p]),
     content |-> session[p].content,
     status  |-> session[p].status,
     tagged  |-> session[p].status = "finalized"
                   /\ StateAt(expected[p]).status # "finalized"]

NextCommit_TagsEverySave(p) ==
    [gen     |-> GenAt(expected[p]) + 1,
     content |-> session[p].content,
     status  |-> session[p].status,
     tagged  |-> session[p].status = "finalized"]

(* The commit Save builds from the cached autosave and the session. *)
NextCommit(p) ==
    [gen     |-> GenAt(expected[p]) + 1,
     content |-> session[p].content,
     status  |-> session[p].status,
     tagged  |-> session[p].status = "finalized"
                   /\ StateAt(expected[p]).status # "finalized"]

(* Materialize the bundle file, commit the state, tag a finalization. *)
Stage(p) ==
    /\ pc[p] = "verified"
    /\ staged' = [staged EXCEPT ![p] = Append(bundle, NextCommit(p))]
    /\ pc' = [pc EXCEPT ![p] = "staged"]
    /\ UNCHANGED <<store, memory, job, replies>>

(* writeBundleAtomic: create, verify and sync the file, rename it over. *)
Rename(p) ==
    /\ pc[p] = "staged"
    /\ bundle' = staged[p]
    /\ pc' = [pc EXCEPT ![p] = "renamed"]
    /\ UNCHANGED <<stable, lock, memory, job, staged, replies>>

(* The process is gone, with everything it held in memory. *)
Gone(p) ==
    /\ pc' = [pc EXCEPT ![p] = "down"]
    /\ expected' = [expected EXCEPT ![p] = <<>>]
    /\ session' = [session EXCEPT ![p] = Fresh]
    /\ generation' = [generation EXCEPT ![p] = 0]
    /\ job' = [job EXCEPT ![p] = NoJob]
    /\ staged' = [staged EXCEPT ![p] = <<>>]
    /\ closing' = [closing EXCEPT ![p] = FALSE]

Unlock_Leaked(p) == lock' = lock
Unlock(p) == lock' = IF lock = p THEN NoProc ELSE lock

Confirm_DirectoryNotSynced(p, ok) ==
    /\ stable' = stable
    /\ acked' = acked \union job[p].adds
    /\ synced' = synced \union job[p].adds

(* What the answer tells the client, and what it can rely on. *)
Confirm(p, ok) ==
    /\ stable' = IF ok THEN bundle ELSE stable
    /\ acked' = acked \union job[p].adds
    /\ synced' = IF ok THEN synced \union job[p].adds ELSE synced

(* Save adopts what it wrote and the handler answers.  When only the       *)
(* directory sync failed, the save counts as committed: mutateSession,     *)
(* finalize and cancel answer success, but EnableBundle returns the error  *)
(* and the command ends.  It also ends, either way, after RecordSourceSave. *)
SyncDirectory(p, ok) ==
    LET exits == job[p].kind = "record" \/ (job[p].kind = "enable" /\ ~ok)
    IN  /\ pc[p] = "renamed"
        /\ Confirm(p, ok)
        /\ Unlock(p)
        /\ IF exits
             THEN Gone(p)
             ELSE /\ pc' = [pc EXCEPT ![p] = "idle"]
                  /\ expected' = [expected EXCEPT ![p] = staged[p]]
                  /\ generation' = [generation EXCEPT ![p] = GenAt(staged[p])]
                  /\ job' = [job EXCEPT ![p] = NoJob]
                  /\ staged' = [staged EXCEPT ![p] = <<>>]
                  /\ closing' = [closing EXCEPT ![p] = @ \/ job[p].kind = "finalize"]
                  /\ UNCHANGED session
        /\ UNCHANGED bundle

Restore_Forgotten(p) == UNCHANGED session

(* The copy taken before the change comes back. *)
Restore(p) == session' = [session EXCEPT ![p] = job[p].before]

(* An error before the rename: no lock, a state another process advanced   *)
(* (ErrBundleConflict), a Git or file failure.  The handler restores the   *)
(* session it copied and answers with the error.                           *)
AbandonSave(p) ==
    /\ pc[p] \in {"waiting", "locked", "verified", "staged"}
    /\ Unlock(p)
    /\ IF job[p].kind \in {"enable", "record"}
         THEN Gone(p)
         ELSE /\ pc' = [pc EXCEPT ![p] = "idle"]
              /\ Restore(p)
              /\ job' = [job EXCEPT ![p] = NoJob]
              /\ staged' = [staged EXCEPT ![p] = <<>>]
              /\ UNCHANGED <<expected, generation, closing>>
    /\ UNCHANGED <<bundle, stable, acked, synced>>

-----------------------------------------------------------------------------
(* BundleStore.Refresh, from handleState: notice that another process      *)
(* advanced the state ref, then read the file again.                       *)
ProbeState(p) ==
    /\ pc[p] = "idle"
    /\ bundle # expected[p]
    /\ pc' = [pc EXCEPT ![p] = "probing"]
    /\ UNCHANGED <<store, memory, job, staged, replies>>

reloadAutosave(p) ==
    /\ pc[p] = "probing"
    /\ pc' = [pc EXCEPT ![p] = "idle"]
    /\ expected' = [expected EXCEPT ![p] = bundle]
    /\ IF GenAt(bundle) > generation[p]
         THEN /\ session' = [session EXCEPT ![p] = StateAt(bundle)]
              /\ generation' = [generation EXCEPT ![p] = GenAt(bundle)]
         ELSE UNCHANGED <<session, generation>>
    /\ UNCHANGED <<store, job, staged, replies>>

-----------------------------------------------------------------------------
(* The process exits between handlers, or crashes anywhere: the kernel     *)
(* drops its flock.                                                        *)
Crash(p) ==
    /\ pc[p] # "down"
    /\ Gone(p)
    /\ Unlock(p)
    /\ UNCHANGED <<bundle, stable, acked, synced>>

(* The machine stops.  Renames whose directory entry was not synced may be *)
(* undone, newest first.                                                   *)
PowerLoss ==
    /\ \E p \in Procs : pc[p] # "down"
    /\ \E n \in Len(stable) .. Len(bundle) :
         /\ bundle' = SubSeq(bundle, 1, n)
         /\ stable' = SubSeq(bundle, 1, n)
    /\ lock' = NoProc
    /\ pc' = [p \in Procs |-> "down"]
    /\ expected' = [p \in Procs |-> <<>>]
    /\ session' = [p \in Procs |-> Fresh]
    /\ generation' = [p \in Procs |-> 0]
    /\ job' = [p \in Procs |-> NoJob]
    /\ staged' = [p \in Procs |-> <<>>]
    /\ closing' = [p \in Procs |-> FALSE]
    /\ UNCHANGED <<acked, synced>>

Handle(p) ==
    \/ \E e \in Edits : mutateSession(p, e)
    \/ finalize(p)
    \/ cancel(p)
    \/ RecordSourceSave(p)

Save(p) ==
    \/ AcquireLock(p)
    \/ CompareState(p)
    \/ Stage(p)
    \/ Rename(p)
    \/ \E ok \in BOOLEAN : SyncDirectory(p, ok)
    \/ AbandonSave(p)

Next ==
    \/ \E p \in Procs : \/ Open(p) \/ EnableBundle(p)
                        \/ Handle(p) \/ Save(p)
                        \/ ProbeState(p) \/ reloadAutosave(p)
                        \/ Crash(p)
    \/ PowerLoss

(* A handler inside Save keeps running, and Linux wakes the waiters of a    *)
(* flock in the order they came: no waiter is passed over for ever.        *)
Fairness ==
    \A p \in Procs : /\ WF_vars((Save(p) /\ pc[p] # "waiting") \/ reloadAutosave(p))
                     /\ SF_vars(AcquireLock(p))

Spec == Init /\ [][Next]_vars
LiveSpec == Spec /\ Fairness

-----------------------------------------------------------------------------
(* The inductive invariant behind the properties below. *)

IsPrefix(s, t) == Len(s) <= Len(t) /\ \A i \in 1 .. Len(s) : s[i] = t[i]

(* The flock is held exactly by the process between AcquireLock and release. *)
LockOK == \A p \in Procs : pc[p] \in Locked <=> lock = p

(* What a process read or wrote last is a beginning of the record. *)
ExpectedOK ==
    \A p \in Procs : /\ IsPrefix(expected[p], bundle)
                     /\ pc[p] \in Serving => generation[p] = GenAt(expected[p])

(* A save takes the review one step on: one new edit while it is open, or   *)
(* no edit and a status that may follow.                                   *)
SavesOneStep(p) ==
    LET known == StateAt(expected[p])
    IN  IF job[p].kind = "edit"
          THEN /\ known.status = "active" /\ session[p].status = "active"
               /\ \E e \in Edits \ known.content : job[p].adds = {e}
          ELSE /\ job[p].adds = {}
               /\ isTerminalAutosaveStatus(known.status) =>
                    session[p].status \in {"active", known.status}

(* Between handlers the memory is that state; in one it is a step ahead. *)
SessionOK ==
    \A p \in Procs :
        /\ pc[p] \in {"idle", "probing"} => session[p] = StateAt(expected[p])
        /\ pc[p] \in Saving =>
             /\ session[p].content = StateAt(expected[p]).content \union job[p].adds
             /\ job[p].kind \notin {"enable", "record"} =>
                  job[p].before = StateAt(expected[p])
             /\ SavesOneStep(p)

(* From the comparison to the rename nobody else moves the state ref. *)
StagedOK ==
    \A p \in Procs :
        /\ pc[p] \in {"verified", "staged"} => expected[p] = bundle
        /\ pc[p] = "staged" => staged[p] = Append(bundle, NextCommit(p))
        /\ pc[p] = "renamed" => /\ staged[p] = Append(expected[p], NextCommit(p))
                                /\ bundle = staged[p]

(* The record numbers its states and never drops an edit. *)
HistoryOK ==
    /\ \A i \in 1 .. Len(bundle) : bundle[i].gen = i
    /\ \A i, j \in 1 .. Len(bundle) : i <= j => bundle[i].content \subseteq bundle[j].content
    /\ IsPrefix(stable, bundle)
    /\ synced \subseteq StateAt(stable).content

IInv == TypeOK /\ LockOK /\ ExpectedOK /\ SessionOK /\ StagedOK /\ HistoryOK

-----------------------------------------------------------------------------
(* Properties *)

(* An edit whose save returned no error is in what survives a power        *)
(* failure, however many processes write and wherever they crash.          *)
SyncedSurvives == synced \subseteq StateAt(stable).content

(* Short of a power failure, no step of any process takes an edit out of   *)
(* the record or rewrites a state another process recorded: the CAS makes  *)
(* a stale writer fail instead of overwriting.                             *)
NoLostUpdate ==
    [][(\E p \in Procs : pc'[p] # "down") =>
            /\ IsPrefix(bundle, bundle')
            /\ StateAt(bundle).content \subseteq StateAt(bundle').content]_vars

(* Generations count the recorded states without gap or repetition, so a   *)
(* reload that compares them (reloadAutosaveLocked) never misses a state.  *)
GenerationsConsecutive == \A i \in 1 .. Len(bundle) : bundle[i].gen = i

(* A process that answers requests shows some state of the record, never   *)
(* the remains of a save that failed.                                      *)
MemoryIsRecorded ==
    \A p \in Procs : pc[p] = "idle" =>
        /\ IsPrefix(expected[p], bundle)
        /\ generation[p] = GenAt(expected[p])
        /\ session[p] = StateAt(expected[p])

(* Feedback enters the record only while the review is open there: a       *)
(* process that has not heard of a finalization cannot add to it.          *)
EditsOnlyWhileOpen ==
    \A i \in 2 .. Len(bundle) :
        bundle[i].content # bundle[i - 1].content => bundle[i - 1].status = "active"

(* Every finalization of the review has one annotated tag, and nothing     *)
(* else has: not a renewed record of a finalized review.                   *)
CheckpointPerFinalization ==
    \A i \in 1 .. Len(bundle) :
        bundle[i].tagged <=> /\ bundle[i].status = "finalized"
                             /\ i > 1 => bundle[i - 1].status # "finalized"

(* Whoever waits for the flock or holds it gets an answer.                 *)
RequestsAnswered == \A p \in Procs : pc[p] \in Saving ~> pc[p] \in {"idle", "down"}

(* The store is an implementation of the ledger its servers rely on.       *)
Ledger == INSTANCE ReviewLedger WITH
    history  <- [i \in 1 .. Len(bundle) |-> [content |-> bundle[i].content,
                                             status  |-> bundle[i].status]],
    settled  <- Len(stable),
    answered <- acked
LedgerSpec == Ledger!Spec
=============================================================================
