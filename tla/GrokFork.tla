------------------------------- MODULE GrokFork -------------------------------
(***************************************************************************)
(* The Grok Build client: every question is asked in a disposable fork of  *)
(* the reviewer's session, made in a temporary home of its own.            *)
(*                                                                         *)
(* A call passes the gate, copies the workspace and the session into a     *)
(* home, has an ACP process fork the copy, asks the fork, deletes it and    *)
(* removes the home.  Meanwhile the reviewer goes on using the session that *)
(* is copied, any step may fail, and the call's context may end at any time. *)
(*                                                                         *)
(* A home, an ACP process and a fork are named by the call they are made    *)
(* for (MkdirTemp and newUUID do not repeat).  A file of the session is its *)
(* version: a write changes the signature (size, time, mode).               *)
(***************************************************************************)
EXTENDS Integers, FiniteSets

CONSTANTS Calls,      \* the questions
          NoCall,     \* nobody
          Files,      \* the files of the session
          MaxWrites,  \* bound: writes to one file during one attempt to copy
          MaxFaults   \* bound: steps that fail by themselves

ASSUME CallAssumption == NoCall \notin Calls
ASSUME FileAssumption == Files # {}
ASSUME BoundAssumption == MaxWrites \in Nat /\ MaxFaults \in Nat

attempts == 3

VARIABLES
    at,           \* where a call is: see Places
    canceled,     \* the calls whose context has ended
    outcome,      \* what a call is to return, or has
    gate,         \* Client.gate: the call inside
    homes,        \* the temporary homes there are
    acp,          \* the ACP process of a call; told: it was sent the fork request
    forks,        \* the forks there are, in their homes
    forkCreated,  \* the calls that have a fork to delete
    unclean,      \* the calls whose cleanup failed so far
    version,      \* the files of the session: writes since this attempt to copy it
    todo,         \* copySessionDirectory: files this walk has not reached
    before,       \* signatures of the first walk
    copied,       \* what was copied
    moment,       \* the session as it was when the first walk ended
    changed,      \* the second walk found another signature
    attempt,
    faults,       \* steps that failed by themselves
    faulty,       \* history: the calls in whose own cleanup a step did
    failed        \* monitoredAgentClient.failed

callVars == <<at, canceled, outcome, gate, forkCreated, unclean>>
worldVars == <<homes, acp, forks>>
copyVars == <<version, todo, before, copied, moment, changed, attempt>>
vars == <<callVars, worldVars, copyVars, faults, faulty, failed>>

Staging == {"root", "workspace", "before", "copying", "after", "config"}
Isolated == {"validating", "starting", "initializing", "forking", "closing",
             "rewriting", "prompting", "running", "deleting", "cleaning"}
Places == {"idle", "waiting", "returned", "done"} \union Staging \union Isolated
Outcomes == {"none", "answer", "canceled", "error", "unusable"}
Versions == [Files -> 0 .. MaxWrites]

TypeOK ==
    /\ at \in [Calls -> Places]
    /\ canceled \in SUBSET Calls
    /\ outcome \in [Calls -> Outcomes]
    /\ gate \in Calls \union {NoCall}
    /\ homes \in SUBSET Calls
    /\ acp \in [Calls -> {"none", "running", "told"}]
    /\ forks \in SUBSET Calls
    /\ forkCreated \in SUBSET Calls
    /\ unclean \in SUBSET Calls
    /\ version \in Versions
    /\ todo \in SUBSET Files
    /\ before \in Versions
    /\ copied \in Versions
    /\ moment \in Versions
    /\ changed \in BOOLEAN
    /\ attempt \in 1 .. attempts
    /\ faults \in 0 .. MaxFaults
    /\ faulty \in SUBSET Calls
    /\ failed \in BOOLEAN

Unread == [f \in Files |-> 0]

Init ==
    /\ at = [c \in Calls |-> "idle"]
    /\ canceled = {}
    /\ outcome = [c \in Calls |-> "none"]
    /\ gate = NoCall
    /\ homes = {}
    /\ acp = [c \in Calls |-> "none"]
    /\ forks = {}
    /\ forkCreated = {}
    /\ unclean = {}
    /\ version = Unread
    /\ todo = {}
    /\ before = Unread
    /\ copied = Unread
    /\ moment = Unread
    /\ changed = FALSE
    /\ attempt = 1
    /\ faults = 0
    /\ faulty = {}
    /\ failed = FALSE

-----------------------------------------------------------------------------
(* Going on, failing and leaving. *)

Move(c, place) == at' = [at EXCEPT ![c] = place]

(* On to the next place, with nothing to report yet. *)
Advance(c, place) ==
    /\ Move(c, place)
    /\ UNCHANGED <<outcome, gate, unclean, faults>>

Fault ==
    /\ faults < MaxFaults
    /\ faults' = faults + 1

(* The call returns and lets go of the gate. *)
Leave(c, o) ==
    /\ Move(c, "returned")
    /\ outcome' = [outcome EXCEPT ![c] = o]
    /\ gate' = NoCall

(* Nothing of the session is read yet. *)
ForgetCopy ==
    /\ version' = Unread
    /\ before' = Unread
    /\ copied' = Unread
    /\ moment' = Unread
    /\ changed' = FALSE

(* copySessionDirectory is done with its variables, and nobody looks at the *)
(* session.                                                                 *)
EndCopy ==
    /\ ForgetCopy
    /\ todo' = {}
    /\ attempt' = 1

(* stageIsolatedSession failed: it removes the home and does not look       *)
(* whether that worked.                                                     *)
Unstage(c, o) ==
    /\ Leave(c, o)
    /\ homes' \in {homes, homes \ {c}}
    /\ EndCopy
    /\ UNCHANGED unclean

(* A step of the staging fails by itself. *)
StagingFault(c) ==
    /\ Fault
    /\ Unstage(c, "error")

(* The look at the context, in the loops of the staging. *)
StagingCanceled(c) ==
    /\ c \in canceled
    /\ Unstage(c, "canceled")
    /\ UNCHANGED faults

(* askPromptInFork returns o: the deferred cleanup comes first, with the    *)
(* fork if there may be one.                                                *)
Conclude(c, o) ==
    /\ Move(c, IF c \in forkCreated THEN "deleting" ELSE "cleaning")
    /\ outcome' = [outcome EXCEPT ![c] = o]
    /\ UNCHANGED <<gate, unclean>>

ConcludeFault(c) ==
    /\ Fault
    /\ Conclude(c, "error")

ConcludeCanceled(c) ==
    /\ c \in canceled
    /\ Conclude(c, "canceled")
    /\ UNCHANGED faults

(* A process that is killed has an exit status, which Wait prefers to the   *)
(* context's error.                                                         *)
ConcludeKilled(c) ==
    /\ c \in canceled
    /\ Conclude(c, "error")
    /\ UNCHANGED faults

-----------------------------------------------------------------------------
(* Into the gate. *)

Ask(c) ==
    /\ at[c] = "idle"
    /\ IF failed
       THEN Move(c, "done") /\ outcome' = [outcome EXCEPT ![c] = "error"]
       ELSE Move(c, "waiting") /\ UNCHANGED outcome
    /\ UNCHANGED <<canceled, gate, forkCreated, unclean, worldVars, copyVars, faults,
                   faulty, failed>>

(* Canceled before the gate, or while waiting at it. *)
GiveUp(c) ==
    /\ at[c] = "waiting"
    /\ c \in canceled
    /\ Move(c, "returned")
    /\ outcome' = [outcome EXCEPT ![c] = "canceled"]
    /\ UNCHANGED <<canceled, gate, forkCreated, unclean, worldVars, copyVars, faults,
                   faulty, failed>>

(* Mutant: the gate is not there. *)
Enter_Ungated(c) ==
    /\ at[c] = "waiting"
    /\ gate' = c
    /\ Move(c, "root")
    /\ UNCHANGED <<canceled, outcome, forkCreated, unclean, worldVars, copyVars,
                   faults, faulty, failed>>

Enter(c) ==
    /\ at[c] = "waiting"
    /\ gate = NoCall
    /\ gate' = c
    /\ Move(c, "root")
    /\ UNCHANGED <<canceled, outcome, forkCreated, unclean, worldVars, copyVars,
                   faults, faulty, failed>>

-----------------------------------------------------------------------------
(* stageIsolatedSession. *)

(* Up to MkdirTemp there is nothing to remove. *)
MakeRoot(c) ==
    /\ at[c] = "root"
    /\ \/ /\ c \in canceled
          /\ Leave(c, "canceled")
          /\ UNCHANGED <<homes, unclean, faults>>
       \/ /\ Fault
          /\ Leave(c, "error")
          /\ UNCHANGED <<homes, unclean>>
       \/ /\ c \notin canceled
          /\ homes' = homes \union {c}
          /\ Advance(c, "workspace")
    /\ UNCHANGED <<canceled, forkCreated, acp, forks, copyVars, faulty, failed>>

(* A walk over the session begins. *)
Walk(c, place) ==
    /\ Advance(c, place)
    /\ todo' = Files

(* workspaceFileList: of its two git processes the second may be killed.    *)
GitKilled(c) ==
    /\ c \in canceled
    /\ Unstage(c, "error")
    /\ UNCHANGED faults

(* The working directory of the session, and a copy of its workspace.       *)
snapshotWorkspace(c) ==
    /\ at[c] = "workspace"
    /\ \/ StagingCanceled(c) \/ StagingFault(c) \/ GitKilled(c)
       \/ /\ c \notin canceled
          /\ ForgetCopy
          /\ Walk(c, "before")
          /\ UNCHANGED <<homes, attempt>>
    /\ UNCHANGED <<canceled, forkCreated, acp, forks, faulty, failed>>

(* A walk over the session is cut short by its context or by a fault.       *)
WalkEnds(c) ==
    /\ at[c] \in {"before", "copying", "after"}
    /\ StagingCanceled(c) \/ StagingFault(c)
    /\ UNCHANGED <<canceled, forkCreated, acp, forks, faulty, failed>>

(* sessionDirectorySignature, before copying. *)
SignBefore(c) ==
    /\ at[c] = "before"
    /\ c \notin canceled
    /\ \E f \in todo :
          /\ before' = [before EXCEPT ![f] = version[f]]
          /\ IF todo = {f}
             THEN /\ Walk(c, "copying")
                  /\ moment' = version
             ELSE /\ Advance(c, "before")
                  /\ todo' = todo \ {f}
                  /\ UNCHANGED moment
    /\ UNCHANGED <<canceled, forkCreated, worldVars, copied, changed, attempt,
                   version, faulty, failed>>

(* copySessionDirectoryOnce, one file that keeps still while it is read.    *)
Copy(c) ==
    /\ at[c] = "copying"
    /\ c \notin canceled
    /\ \E f \in todo :
          /\ copied' = [copied EXCEPT ![f] = version[f]]
          /\ IF todo = {f}
             THEN Walk(c, "after")
             ELSE Advance(c, "copying") /\ todo' = todo \ {f}
    /\ UNCHANGED <<canceled, forkCreated, worldVars, before, moment, changed, attempt,
                   version, faulty, failed>>

(* readRegularFileBoundedAt: a file written while it is read is an error,   *)
(* and not a reason to try again.                                           *)
CopyChanges(c) ==
    /\ at[c] = "copying"
    /\ \E f \in todo : version[f] < MaxWrites
    /\ Unstage(c, "error")
    /\ UNCHANGED <<canceled, forkCreated, acp, forks, faults, faulty, failed>>

(* Mutant: what the walk found before this file is forgotten. *)
Differs_ByThisFile(f) == version[f] # before[f]

(* sessionSignaturesEqual, as far as the walk has come. *)
Differs(f) == changed \/ version[f] # before[f]

(* The second walk goes on after this file. *)
SignOn(c, f) ==
    /\ todo # {f}
    /\ changed' = Differs(f)
    /\ todo' = todo \ {f}
    /\ Advance(c, "after")
    /\ UNCHANGED <<homes, version, before, copied, moment, attempt>>

(* It ends with this file and found nothing: the copy is good. *)
Unchanged(c, f) ==
    /\ todo = {f}
    /\ ~Differs(f)
    /\ todo' = {}
    /\ before' = Unread
    /\ Advance(c, "config")
    /\ UNCHANGED <<homes, version, copied, moment, changed, attempt>>

TryAgain(c, f) ==
    /\ todo = {f}
    /\ Differs(f)
    /\ attempt < attempts
    /\ attempt' = attempt + 1
    /\ ForgetCopy
    /\ Walk(c, "before")
    /\ UNCHANGED homes

ChangedRepeatedly(c, f) ==
    /\ todo = {f}
    /\ Differs(f)
    /\ attempt = attempts
    /\ Unstage(c, "error")
    /\ UNCHANGED faults

(* sessionDirectorySignature after copying, and the attempts. *)
SignAfter(c) ==
    /\ at[c] = "after"
    /\ c \notin canceled
    /\ \E f \in todo :
          SignOn(c, f) \/ Unchanged(c, f) \/ TryAgain(c, f) \/ ChangedRepeatedly(c, f)
    /\ UNCHANGED <<canceled, forkCreated, acp, forks, faulty, failed>>

(* The sandbox profile and the authentication state. *)
Configure(c) ==
    /\ at[c] = "config"
    /\ \/ StagingFault(c)
       \/ /\ Advance(c, "validating")
          /\ EndCopy
          /\ UNCHANGED homes
    /\ UNCHANGED <<canceled, forkCreated, acp, forks, faulty, failed>>

-----------------------------------------------------------------------------
(* askPromptInFork, once it has a home. *)

(* validateIsolatedConfiguration: grok inspect in the sandbox. *)
Validate(c) ==
    /\ at[c] = "validating"
    /\ \/ ConcludeCanceled(c) \/ ConcludeKilled(c) \/ ConcludeFault(c)
       \/ c \notin canceled /\ Advance(c, "starting")
    /\ UNCHANGED <<canceled, forkCreated, worldVars, copyVars, faulty, failed>>

(* relocateSessionWithACP up to Start, and the initialize request. *)
StartAcp(c) ==
    /\ at[c] = "starting"
    /\ \/ /\ ConcludeCanceled(c) \/ ConcludeFault(c)
          /\ UNCHANGED acp
       \/ /\ c \notin canceled
          /\ acp' = [acp EXCEPT ![c] = "running"]
          /\ Advance(c, "initializing")
    /\ UNCHANGED <<canceled, forkCreated, homes, forks, copyVars, faulty, failed>>

(* Mutant: there is a fork once it was reported. *)
Initialized_BeforeAnswer(c) ==
    /\ at[c] = "initializing"
    /\ acp[c] = "running"
    /\ acp' = [acp EXCEPT ![c] = "told"]
    /\ Advance(c, "forking")
    /\ UNCHANGED <<canceled, homes, forks, forkCreated, copyVars, faulty, failed>>

(* The answer to initialize; the fork request is handed over, and from here *)
(* on there may be a fork.                                                  *)
Initialized(c) ==
    /\ at[c] = "initializing"
    /\ acp[c] = "running"
    /\ acp' = [acp EXCEPT ![c] = "told"]
    /\ forkCreated' = forkCreated \union {c}
    /\ Advance(c, "forking")
    /\ UNCHANGED <<canceled, homes, forks, copyVars, faulty, failed>>

(* The answer to the fork request. *)
Forked(c) ==
    /\ at[c] = "forking"
    /\ c \in forks
    /\ Advance(c, "closing")
    /\ UNCHANGED <<canceled, forkCreated, worldVars, copyVars, faulty, failed>>

(* exchangeACP fails: an error, a request for the client, an answer that    *)
(* does not fit, or the end of the stream.                                  *)
ExchangeFails(c) ==
    /\ at[c] \in {"initializing", "forking"}
    /\ \/ acp[c] = "none" /\ UNCHANGED faults
       \/ acp[c] # "none" /\ Fault
    /\ Move(c, "closing")
    /\ outcome' = [outcome EXCEPT ![c] = "error"]
    /\ UNCHANGED <<canceled, gate, forkCreated, unclean, worldVars, copyVars, faulty, failed>>

(* Mutant: only the input is closed. *)
WaitAcp_Unawaited(c) ==
    /\ at[c] = "closing"
    /\ \/ outcome[c] # "none" /\ Conclude(c, outcome[c]) /\ UNCHANGED faults
       \/ outcome[c] = "none" /\ Advance(c, "rewriting")
    /\ UNCHANGED <<canceled, homes, acp, forks, forkCreated, copyVars, faulty, failed>>

(* Its input closed, the process ends within acpExitTimeout or is killed;   *)
(* one that was killed before has an exit status.                           *)
WaitAcp(c) ==
    /\ at[c] = "closing"
    /\ acp' = [acp EXCEPT ![c] = "none"]
    /\ \/ /\ outcome[c] # "none"
          /\ Conclude(c, outcome[c])
          /\ UNCHANGED faults
       \/ /\ outcome[c] = "none" /\ acp[c] = "none"
          /\ Conclude(c, "error")
          /\ UNCHANGED faults
       \/ /\ outcome[c] = "none" /\ acp[c] # "none"
          /\ ConcludeFault(c) \/ Advance(c, "rewriting")
    /\ UNCHANGED <<canceled, homes, forks, forkCreated, copyVars, faulty, failed>>

(* findSourceSession of the fork, rewriteChildSessionPaths,                 *)
(* rewriteSessionMetadata.                                                  *)
Rewrite(c) ==
    /\ at[c] = "rewriting"
    /\ \/ ConcludeCanceled(c) \/ ConcludeFault(c)
       \/ c \notin canceled /\ Advance(c, "prompting")
    /\ UNCHANGED <<canceled, forkCreated, worldVars, copyVars, faulty, failed>>

(* The prompt file, and the start of grok. *)
StartGrok(c) ==
    /\ at[c] = "prompting"
    /\ \/ ConcludeCanceled(c) \/ ConcludeFault(c)
       \/ c \notin canceled /\ Advance(c, "running")
    /\ UNCHANGED <<canceled, forkCreated, worldVars, copyVars, faulty, failed>>

(* grok ends: killed, with an error or an unusable envelope.  Here the      *)
(* context's error is preferred.                                            *)
GrokFails(c) ==
    /\ at[c] = "running"
    /\ ConcludeCanceled(c) \/ ConcludeFault(c)
    /\ UNCHANGED <<canceled, forkCreated, worldVars, copyVars, faulty, failed>>

GrokAnswers(c) ==
    /\ at[c] = "running"
    /\ Conclude(c, "answer")
    /\ UNCHANGED <<canceled, forkCreated, worldVars, copyVars, faults, faulty, failed>>

(* Mutant: the cleanup runs in the context of the call. *)
removeFork_CallContext(c) ==
    /\ at[c] = "deleting"
    /\ Move(c, "cleaning")
    /\ IF c \in canceled
       THEN unclean' = unclean \union {c} /\ UNCHANGED forks
       ELSE forks' = forks \ {c} /\ UNCHANGED unclean
    /\ UNCHANGED <<canceled, outcome, gate, forkCreated, homes, acp, copyVars,
                   faults, faulty, failed>>

(* A step of the cleanup fails by itself. *)
CleanupFault(c) ==
    /\ Fault
    /\ faulty' = faulty \union {c}

(* removeFork, in a context of its own: deleting fails or times out, or     *)
(* verifySessionAbsent still finds the fork.                                *)
removeFork(c) ==
    /\ at[c] = "deleting"
    /\ Move(c, "cleaning")
    /\ \/ /\ forks' = forks \ {c}
          /\ UNCHANGED <<unclean, faults, faulty>>
       \/ /\ CleanupFault(c)
          /\ forks' \in {forks, forks \ {c}}
          /\ unclean' = unclean \union {c}
    /\ UNCHANGED <<canceled, outcome, gate, forkCreated, homes, acp, copyVars, failed>>

(* Cleanup removes the home; combineCleanupError.  The local state of the   *)
(* operation ends here.                                                     *)
Cleanup(c) ==
    /\ at[c] = "cleaning"
    /\ \/ /\ homes' = homes \ {c}
          /\ forks' = forks \ {c}
          /\ Leave(c, IF c \in unclean THEN "unusable" ELSE outcome[c])
          /\ UNCHANGED <<faults, faulty>>
       \/ /\ CleanupFault(c)
          /\ forks' \in {forks, forks \ {c}}
          /\ Leave(c, "unusable")
          /\ UNCHANGED homes
    /\ UNCHANGED <<canceled, forkCreated, unclean, acp, copyVars, failed>>

(* monitoredAgentClient.fail: an error that is no cancellation demotes the  *)
(* agent.                                                                   *)
Monitor(c) ==
    /\ at[c] = "returned"
    /\ Move(c, "done")
    /\ failed' = (failed \/ outcome[c] \in {"error", "unusable"})
    /\ UNCHANGED <<canceled, outcome, gate, forkCreated, unclean, worldVars, copyVars,
                   faults,
                   faulty>>

-----------------------------------------------------------------------------
(* What the client does not decide. *)

(* A stop, a deadline, or a browser that went away. *)
Cancel(c) ==
    /\ at[c] \notin {"idle", "returned", "done"}
    /\ c \notin canceled
    /\ canceled' = canceled \union {c}
    /\ UNCHANGED <<at, outcome, gate, forkCreated, unclean, worldVars, copyVars,
                   faults, faulty, failed>>

(* Mutant: the process is not tied to the context. *)
killProcessTree_Untied(c) ==
    /\ acp[c] # "none"
    /\ at[c] = "closing"
    /\ acp' = [acp EXCEPT ![c] = "none"]
    /\ UNCHANGED <<callVars, homes, forks, copyVars, faults, faulty, failed>>

(* The end of the context kills the ACP process. *)
killProcessTree(c) ==
    /\ acp[c] # "none"
    /\ c \in canceled
    /\ acp' = [acp EXCEPT ![c] = "none"]
    /\ UNCHANGED <<callVars, homes, forks, copyVars, faults, faulty, failed>>

(* It ends by itself, in the middle of an exchange. *)
AcpDies(c) ==
    /\ acp[c] # "none"
    /\ at[c] \in {"initializing", "forking"}
    /\ Fault
    /\ acp' = [acp EXCEPT ![c] = "none"]
    /\ UNCHANGED <<callVars, homes, forks, copyVars, faulty, failed>>

(* A process that was told to makes the fork, sooner or later. *)
AcpForks(c) ==
    /\ acp[c] = "told"
    /\ c \notin forks
    /\ forks' = forks \union {c}
    /\ UNCHANGED <<callVars, homes, acp, copyVars, faults, faulty, failed>>

(* The reviewer's own grok writes to the session that is copied. *)
SourceWrites ==
    /\ \E c \in Calls : at[c] \in {"before", "copying", "after"}
    /\ \E f \in Files :
          /\ version[f] < MaxWrites
          /\ version' = [version EXCEPT ![f] = @ + 1]
    /\ UNCHANGED <<callVars, worldVars, todo, before, copied, moment, changed, attempt,
                   faults, faulty, failed>>

-----------------------------------------------------------------------------
Stage(c) ==
    \/ MakeRoot(c) \/ snapshotWorkspace(c) \/ WalkEnds(c) \/ SignBefore(c)
    \/ Copy(c) \/ SignAfter(c) \/ Configure(c)

Proceed(c) ==
    \/ GiveUp(c) \/ Enter(c) \/ Stage(c)
    \/ Validate(c) \/ StartAcp(c) \/ ExchangeFails(c) \/ WaitAcp(c)
    \/ Rewrite(c) \/ StartGrok(c) \/ GrokFails(c)
    \/ removeFork(c) \/ Cleanup(c) \/ Monitor(c)

Outside(c) ==
    \/ Initialized(c) \/ Forked(c) \/ GrokAnswers(c) \/ CopyChanges(c)
    \/ AcpDies(c) \/ AcpForks(c)

Next ==
    \/ \E c \in Calls :
          Ask(c) \/ Proceed(c) \/ Outside(c) \/ Cancel(c) \/ killProcessTree(c)
    \/ SourceWrites

Spec == Init /\ [][Next]_vars

(* A goroutine runs on, contexts end (every question has a deadline) and    *)
(* kill what runs in them; the cleanup has a time limit of its own.  Grok   *)
(* owes no answer.                                                          *)
LiveSpec ==
    /\ Spec
    /\ \A c \in Calls :
          WF_vars(Proceed(c)) /\ WF_vars(Cancel(c)) /\ WF_vars(killProcessTree(c))

-----------------------------------------------------------------------------
(* Properties. *)

Inside == Staging \union Isolated

(* From the gate to the last cleanup there is one call.                     *)
OneInside == \A c \in Calls : (at[c] \in Inside) <=> (gate = c)

(* A process runs only while its call listens to it, a fork and what is     *)
(* told to make one are known to the call that will delete it, a fork is    *)
(* asked once the process that made it is gone, and a call has an outcome   *)
(* once it has one to return.                                               *)
Accounted ==
    \A c \in Calls :
        /\ acp[c] # "none" => at[c] \in {"initializing", "forking", "closing"}
        /\ acp[c] = "told" => at[c] # "initializing" /\ c \in forkCreated
        /\ c \in forks => c \in forkCreated
        /\ c \in forkCreated =>
              at[c] \notin {"idle", "waiting", "validating", "starting", "initializing"}
                             \union Staging
        /\ at[c] = "closing" /\ outcome[c] = "none" => c \in forks
        /\ at[c] \in {"rewriting", "prompting", "running"} => c \in forks
        /\ c \in unclean => at[c] \in {"cleaning", "returned", "done"}
        /\ at[c] \in {"deleting", "cleaning", "returned", "done"} => outcome[c] # "none"
        /\ at[c] \in (Inside \ {"closing", "deleting", "cleaning"}) \union {"idle", "waiting"}
              => outcome[c] = "none"

(* The copy in progress: what was copied between two equal signatures is    *)
(* what was there when the first walk ended.                                *)
CopyInProgress ==
    \A c \in Calls :
        /\ at[c] = "before" => ~changed /\ \A f \in Files \ todo : before[f] <= version[f]
        /\ at[c] \in {"copying", "after"} =>
              \A f \in Files : before[f] <= moment[f] /\ moment[f] <= version[f]
        /\ at[c] = "copying" =>
              ~changed /\ \A f \in Files \ todo : moment[f] <= copied[f] /\ copied[f] <= version[f]
        /\ at[c] = "after" =>
              /\ \A f \in Files : moment[f] <= copied[f] /\ copied[f] <= version[f]
              /\ ~changed => \A f \in Files \ todo : copied[f] = moment[f]

(* The fork is made from the session as it was at one moment, although its  *)
(* files are copied one after the other while the reviewer's grok writes    *)
(* them (copySessionDirectory).                                             *)
SnapshotIsOfOneMoment ==
    \A c \in Calls : at[c] = "config" => copied = moment

(* An operation leaves nothing behind on a client that stays usable,        *)
(* however it ended: by the time its home is removed the fork is deleted    *)
(* and nothing runs that could make it again, and with the fork asked for   *)
(* the home is gone in the end (docs/agent-integrations.md:142-145).        *)
NothingLeftBehind ==
    \A c \in Calls :
        /\ at[c] = "cleaning" => acp[c] = "none" /\ (c \in unclean \/ c \notin forks)
        /\ at[c] \in {"returned", "done"} =>
              /\ acp[c] = "none"
              /\ outcome[c] = "unusable" \/ c \notin forks
              /\ c \in forkCreated \intersect homes => outcome[c] = "unusable"

(* One operation at a time is inside, it and it alone has processes and     *)
(* forks, each of which it will have deleted (askPromptInFork).             *)
IInv ==
    /\ TypeOK
    /\ OneInside
    /\ Accounted
    /\ CopyInProgress
    /\ SnapshotIsOfOneMoment
    /\ NothingLeftBehind

(* Stopped or not, a question leaves the client unusable exactly if a step  *)
(* of its own cleanup failed by itself: the cleanup does not run in the     *)
(* context that may have ended (removeFork), and its failure is not passed  *)
(* over as a cancellation (combineCleanupError).                            *)
StoppingIsClean ==
    \A c \in Calls : at[c] \in {"returned", "done"} =>
        (outcome[c] = "unusable" <=> c \in faulty)

(* "An attached provider is demoted after a non-cancellation request or     *)
(* protocol failure" (docs/agent-integrations.md:173-174): while nothing    *)
(* fails by itself, no question that was stopped demotes it.  A process     *)
(* killed by the stop leaves an exit status, which fail takes for a failure. *)
StopsDemoteNobody ==
    faults = 0 /\ failed =>
        \E c \in Calls \ canceled : at[c] = "done" /\ outcome[c] = "error"

(* Every question returns, whatever Grok does: it fails, hangs, or never    *)
(* answers.                                                                 *)
EveryCallReturns == <>[](\A c \in Calls : at[c] \in {"idle", "done"})

=============================================================================
