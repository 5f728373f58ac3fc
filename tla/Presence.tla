------------------------------ MODULE Presence ------------------------------
(***************************************************************************)
(* Who is watching a review, and how it ends                               *)
(* (internal/review/presence.go, the end of internal/review/server.go and  *)
(* the wait of internal/cli/review.go).                                    *)
(*                                                                         *)
(* Every browser tab keeps a WebSocket.  When the last one is gone a timer *)
(* runs; its callback abandons the review.  A Go timer that was stopped too *)
(* late still runs its callback, so callbacks carry the id of their timer. *)
(* Finalizing, canceling and abandoning each want to send the result on a  *)
(* channel with room for one, from which the command reads once.           *)
(*                                                                         *)
(* Several servers may review one plan (docs/storage.md:75).  A tab that    *)
(* asks for the state makes its server load what another one has recorded,  *)
(* which may end the review here without a result, or open it again.        *)
(***************************************************************************)
EXTENDS Naturals

CONSTANTS Tabs,       \* browser connections
          MaxTimerID, \* bound on timer generations
          MaxReopened \* bound on the finishes that a reload takes back

ASSUME BoundAssumption == MaxTimerID \in Nat /\ MaxReopened \in Nat

VARIABLES
    conns,      \* browserPresence.conns
    closed,     \* browserPresence.closed
    timeout,    \* whether browserPresence.timeout is positive
    timerID,    \* browserPresence.timerID
    timer,      \* the id the timer in browserPresence.timer carries, 0 for nil
    armed,      \* ids of the runtime timers that still run
    expiring,   \* ids whose callback has started and waits for the mutex
    orphaning,  \* expire decided; abandonOrphanedReview has not run yet
    handler,    \* where the handler of each tab's connection is
    severed,    \* tabs whose socket the server closed
    finished,   \* Server.finished
    results,    \* results made so far; they are numbered
    pending,    \* results that handlers are about to send on Server.done
    done,       \* the result buffered in Server.done, 0 for none
    command,    \* the review command: it starts, waits, and closes the server
    elsewhere,  \* what another process recorded and this one has not loaded
    reopened,   \* finishes that a reload took back
    orphanedBy, \* the timer id that ended the review, 0 before
    disturbed   \* the newest timer id that a connection has put out of use

presence == <<conns, closed, timeout, timerID, timer, armed>>
callback == <<expiring, orphaning, orphanedBy>>
sending  == <<results, pending, done>>
shared   == <<elsewhere, reopened>>
review   == <<finished, sending, command, shared>>
vars     == <<presence, callback, handler, severed, review, disturbed>>

Handling == {"upgrading", "serving", "leaving"}

SocketType ==
    /\ conns \subseteq Tabs /\ severed \subseteq Tabs
    /\ handler \in [Tabs -> {"away"} \union Handling]

FlagType == closed \in BOOLEAN /\ timeout \in BOOLEAN /\ orphaning \in BOOLEAN

TimerType ==
    /\ timerID \in Nat /\ timer \in Nat /\ orphanedBy \in Nat /\ disturbed \in Nat
    /\ armed \subseteq Nat /\ expiring \subseteq Nat

ReviewType ==
    /\ finished \in BOOLEAN
    /\ results \in Nat /\ reopened \in Nat
    /\ pending \subseteq 1 .. results /\ done \in 0 .. results
    /\ elsewhere \in {"none", "active", "terminal"}
    /\ command \in {"starting", "waiting", "ending", "closed"}

TypeOK == SocketType /\ FlagType /\ TimerType /\ ReviewType

Init ==
    /\ conns = {} /\ severed = {}
    /\ closed = FALSE /\ timeout = FALSE
    /\ orphaning = FALSE /\ finished = FALSE
    /\ timerID = 0 /\ timer = 0 /\ orphanedBy = 0 /\ disturbed = 0
    /\ armed = {} /\ expiring = {}
    /\ handler = [c \in Tabs |-> "away"]
    /\ results = 0 /\ pending = {} /\ done = 0
    /\ elsewhere = "none" /\ reopened = 0
    /\ command = "starting"

-----------------------------------------------------------------------------
(* Stopping kills the id too: a callback that has started already is void. *)
stopTimerLocked ==
    /\ timerID' = timerID + 1
    /\ timer' = 0
    /\ armed' = armed \ {timer}

(* startTimerLocked, with no timer set, after conns, timeout and timerID    *)
(* became cs, on and id.                                                   *)
startTimerLocked(cs, on, id) ==
    IF closed \/ cs # {} \/ ~on
      THEN timerID' = id /\ UNCHANGED <<timer, armed>>
      ELSE timerID' = id + 1 /\ timer' = id + 1 /\ armed' = armed \union {id + 1}

(* SetTimeout, before the server listens; 0 disables the cleanup. *)
SetTimeout(on) ==
    /\ command = "starting"
    /\ command' = "waiting"
    /\ timeout' = on
    /\ startTimerLocked(conns, on, timerID + 1)
    /\ UNCHANGED <<conns, closed, callback, handler, severed, finished, sending, shared,
                   disturbed>>

-----------------------------------------------------------------------------
(* A tab's connection *)

(* handlePresence: a completed review refuses; the upgrade takes its time. *)
handlePresence(c) ==
    /\ command # "starting"
    /\ handler[c] = "away"
    /\ ~finished
    /\ handler' = [handler EXCEPT ![c] = "upgrading"]
    /\ severed' = severed \ {c}
    /\ UNCHANGED <<presence, callback, review, disturbed>>

UpgradeFails(c) ==
    /\ handler[c] = "upgrading"
    /\ handler' = [handler EXCEPT ![c] = "away"]
    /\ UNCHANGED <<presence, callback, severed, review, disturbed>>

add(c) ==
    /\ handler[c] = "upgrading"
    /\ IF closed
         THEN /\ handler' = [handler EXCEPT ![c] = "away"]
              /\ UNCHANGED <<conns, timerID, timer, armed, disturbed>>
         ELSE /\ timerID + 2 <= MaxTimerID
              /\ handler' = [handler EXCEPT ![c] = "serving"]
              /\ conns' = conns \union {c}
              /\ stopTimerLocked
              /\ disturbed' = timerID
    /\ UNCHANGED <<closed, timeout, callback, severed, review>>

(* The read loop ends: the tab closes, its pongs stop, or the server closed *)
(* the socket.                                                              *)
ReadFails(c) ==
    /\ handler[c] = "serving"
    /\ handler' = [handler EXCEPT ![c] = "leaving"]
    /\ UNCHANGED <<presence, callback, severed, review, disturbed>>

remove_Silently(c) ==
    /\ handler[c] = "leaving"
    /\ handler' = [handler EXCEPT ![c] = "away"]
    /\ conns' = conns \ {c}
    /\ UNCHANGED <<closed, timeout, timerID, timer, armed, callback, severed, review, disturbed>>

remove(c) ==
    /\ handler[c] = "leaving"
    /\ handler' = [handler EXCEPT ![c] = "away"]
    /\ conns' = conns \ {c}
    /\ IF c \in conns
         THEN startTimerLocked(conns \ {c}, timeout, timerID)
         ELSE UNCHANGED <<timerID, timer, armed>>
    /\ UNCHANGED <<closed, timeout, callback, severed, review, disturbed>>

-----------------------------------------------------------------------------
(* The orphan timer *)

(* The runtime starts the callback; from here Stop comes too late. *)
TimerFires(id) ==
    /\ id \in armed
    /\ armed' = armed \ {id}
    /\ expiring' = expiring \union {id}
    /\ UNCHANGED <<conns, closed, timeout, timerID, timer, orphaning, orphanedBy, handler,
                   severed, review, disturbed>>

expire_AnyTimer(id) ==
    /\ id \in expiring
    /\ expiring' = expiring \ {id}
    /\ IF closed \/ conns # {}
         THEN UNCHANGED <<closed, timer, orphaning, orphanedBy>>
         ELSE closed' = TRUE /\ timer' = 0 /\ orphaning' = TRUE /\ orphanedBy' = id
    /\ UNCHANGED <<conns, timeout, timerID, armed, handler, severed, review, disturbed>>

expire(id) ==
    /\ id \in expiring
    /\ expiring' = expiring \ {id}
    /\ IF closed \/ id # timerID \/ conns # {}
         THEN UNCHANGED <<closed, timer, orphaning, orphanedBy>>
         ELSE closed' = TRUE /\ timer' = 0 /\ orphaning' = TRUE /\ orphanedBy' = id
    /\ UNCHANGED <<conns, timeout, timerID, armed, handler, severed, review, disturbed>>

(* One result more, which its handler is about to send. *)
MakeResult ==
    /\ results' = results + 1
    /\ pending' = pending \union {results + 1}

abandonOrphanedReview_EvenFinished ==
    /\ orphaning
    /\ orphaning' = FALSE
    /\ finished' = TRUE
    /\ MakeResult
    /\ UNCHANGED <<presence, expiring, orphanedBy, handler, severed, done, command, shared,
                   disturbed>>

(* It does not save, and a review that has finished is none of its business. *)
abandonOrphanedReview ==
    /\ orphaning
    /\ orphaning' = FALSE
    /\ finished' = TRUE
    /\ IF finished THEN UNCHANGED <<results, pending>> ELSE MakeResult
    /\ UNCHANGED <<presence, expiring, orphanedBy, handler, severed, done, command, shared,
                   disturbed>>

-----------------------------------------------------------------------------
(* The other process of a shared review *)

(* It saves an edit, reopens the review, finalizes or cancels it. *)
SaveElsewhere ==
    /\ elsewhere' \in {"active", "terminal"}
    /\ UNCHANGED <<presence, callback, handler, severed, finished, sending, command, reopened,
                   disturbed>>

(* handleState installs what was recorded; when that fails the review stays *)
(* as it is, and the store does not offer the record again.                 *)
Reload ==
    /\ command # "starting"
    /\ elsewhere # "none"
    /\ elsewhere' = "none"
    /\ \/ UNCHANGED <<finished, reopened>>
       \/ /\ finished' = (elsewhere = "terminal")
          /\ IF finished /\ elsewhere = "active"
               THEN reopened < MaxReopened /\ reopened' = reopened + 1
               ELSE UNCHANGED reopened
    /\ UNCHANGED <<presence, callback, handler, severed, sending, command, disturbed>>

-----------------------------------------------------------------------------
(* The review's end *)

(* finalize and cancel, once their save succeeded: with a newer record      *)
(* elsewhere it is a conflict, and finished is set back.                    *)
Finish ==
    /\ command # "starting"
    /\ ~finished
    /\ elsewhere = "none"
    /\ finished' = TRUE
    /\ MakeResult
    /\ UNCHANGED <<presence, callback, handler, severed, done, command, shared, disturbed>>

(* s.done <- result, outside the mutex: blocks while the channel is full. *)
SendResult(result) ==
    /\ result \in pending
    /\ done = 0
    /\ done' = result
    /\ pending' = pending \ {result}
    /\ UNCHANGED <<presence, callback, handler, severed, finished, results, command, shared,
                   disturbed>>

(* Wait returns the result, or the command's context is done. *)
Wait ==
    /\ command = "waiting"
    /\ done # 0
    /\ done' = 0
    /\ command' = "ending"
    /\ UNCHANGED <<presence, callback, handler, severed, finished, results, pending, shared,
                   disturbed>>

Interrupt ==
    /\ command = "waiting"
    /\ command' = "ending"
    /\ UNCHANGED <<presence, callback, handler, severed, finished, sending, shared, disturbed>>

Close_LeavesSockets ==
    /\ command = "ending"
    /\ command' = "closed"
    /\ closed' = TRUE
    /\ IF closed THEN UNCHANGED <<timerID, timer, armed>> ELSE stopTimerLocked
    /\ UNCHANGED <<conns, timeout, callback, handler, severed, finished, sending, shared,
                   disturbed>>

(* browserPresence.Close, when the command returns. *)
Close ==
    /\ command = "ending"
    /\ command' = "closed"
    /\ closed' = TRUE
    /\ IF closed
         THEN UNCHANGED <<timerID, timer, armed, severed>>
         ELSE stopTimerLocked /\ severed' = severed \union conns
    /\ UNCHANGED <<conns, timeout, callback, handler, finished, sending, shared, disturbed>>

Next ==
    \/ \E on \in BOOLEAN : SetTimeout(on)
    \/ \E c \in Tabs : handlePresence(c) \/ UpgradeFails(c) \/ add(c) \/ ReadFails(c) \/ remove(c)
    \/ \E id \in armed : TimerFires(id)
    \/ \E id \in expiring : expire(id)
    \/ abandonOrphanedReview
    \/ SaveElsewhere \/ Reload
    \/ Finish
    \/ \E result \in pending : SendResult(result)
    \/ Wait \/ Interrupt \/ Close

(* Goroutines that can run do run, and timers fire; nothing makes a tab     *)
(* connect, leave or ask for the state, a reviewer finish, or another       *)
(* process save.  A read on a closed socket fails.                          *)
Fairness ==
    /\ \A c \in Tabs : /\ WF_vars(add(c)) /\ WF_vars(remove(c))
                       /\ WF_vars(c \in severed /\ ReadFails(c))
    /\ \A id \in 1 .. MaxTimerID + 2 : WF_vars(TimerFires(id)) /\ WF_vars(expire(id))
    /\ WF_vars(abandonOrphanedReview)
    /\ \A result \in 1 .. MaxReopened + 1 : WF_vars(SendResult(result))
    /\ WF_vars(Wait) /\ WF_vars(Close)

Spec == Init /\ [][Next]_vars
LiveSpec == Spec /\ Fairness

-----------------------------------------------------------------------------
(* The inductive invariant behind the safety properties. *)

(* Only the newest timer can end the review, and it has seen no connection. *)
TimersOK ==
    /\ \A id \in armed \union expiring : id \in 1 .. timerID
    /\ timerID \in armed \union expiring => conns = {} /\ timerID > disturbed
    /\ disturbed <= timerID

OrphanOK == orphanedBy # 0 => closed /\ conns = {} /\ orphanedBy > disturbed

(* Every result but one belongs to a finish that was taken back, and a      *)
(* result is in one place.                                                  *)
ResultOK ==
    /\ results <= reopened + 1
    /\ ~finished => results <= reopened
    /\ done \notin pending

IInv == TypeOK /\ TimersOK /\ OrphanOK /\ ResultOK

-----------------------------------------------------------------------------
(* Properties *)

(* A review is abandoned only by a timer that ran its whole period with no  *)
(* tab connected, never by the late callback of an earlier one, and no tab  *)
(* is served after the decision.                                            *)
OrphanWasAlone == orphanedBy # 0 => conns = {} /\ orphanedBy > disturbed

(* A handler that sends a result never waits for room in the channel: the   *)
(* review ends once, whoever finalizes, cancels or abandons it meanwhile,   *)
(* as long as no reload of another process's state opens it again.          *)
SendNeverBlocks ==
    reopened = 0 =>
        /\ \A r, q \in pending : r = q
        /\ pending # {} => done = 0

(* The orphan callback has ended and left the command without a result: it  *)
(* found the review finished, by a reload of what another process recorded. *)
Overlooked == orphanedBy # 0 /\ ~orphaning /\ results = 0

(* A review whose tabs stay away ends by itself when cleanup is on, unless  *)
(* another process has ended it and this one has loaded that: then nobody   *)
(* tells the command.                                                       *)
LeftAloneEnds == <>[](timeout /\ conns = {}) => <>(command = "closed" \/ Overlooked)

(* When the command returns, every connection handler ends.                 *)
ConnectionsReleased ==
    \A c \in Tabs : (command = "closed" /\ handler[c] # "away") ~> handler[c] = "away"
=============================================================================
