--------------------------- MODULE Presence_proofs ---------------------------
(* Proofs about browser presence and the end of a review, for any tabs. *)
EXTENDS Presence, TLAPS

-----------------------------------------------------------------------------
(* Most actions leave the timers alone, and most leave the result alone. *)

timers == <<conns, closed, timeout, orphaning, timerID, timer, orphanedBy, disturbed, armed, expiring>>

TimerStep ==
    \/ \E on \in BOOLEAN : SetTimeout(on)
    \/ \E c \in Tabs : add(c) \/ remove(c)
    \/ \E id \in armed : TimerFires(id)
    \/ \E id \in expiring : expire(id)
    \/ abandonOrphanedReview \/ Close

LEMMA QuietTimers ==
    ASSUME [Next]_vars, ~TimerStep
    PROVE  UNCHANGED timers
  <1> USE DEF timers, presence, callback, review
  <1>1. ASSUME NEW c \in Tabs, handlePresence(c) \/ UpgradeFails(c) \/ ReadFails(c)
        PROVE  UNCHANGED timers
    BY <1>1 DEF handlePresence, UpgradeFails, ReadFails
  <1>2. ASSUME Finish \/ SaveElsewhere \/ Reload PROVE UNCHANGED timers
    BY <1>2 DEF Finish, SaveElsewhere, Reload
  <1>3. ASSUME NEW result \in pending, SendResult(result) PROVE UNCHANGED timers
    BY <1>3 DEF SendResult
  <1>4. ASSUME Wait \/ Interrupt PROVE UNCHANGED timers
    BY <1>4 DEF Wait, Interrupt
  <1>5. CASE UNCHANGED vars
    BY <1>5 DEF vars
  <1> QED BY <1>1, <1>2, <1>3, <1>4, <1>5 DEF Next, TimerStep

ReviewStep ==
    \/ \E on \in BOOLEAN : SetTimeout(on)
    \/ abandonOrphanedReview \/ SaveElsewhere \/ Reload \/ Finish
    \/ \E result \in pending : SendResult(result)
    \/ Wait \/ Interrupt \/ Close

LEMMA QuietReview ==
    ASSUME [Next]_vars, ~ReviewStep
    PROVE  UNCHANGED review
  <1> USE DEF presence, callback, review
  <1>1. ASSUME NEW c \in Tabs, handlePresence(c) \/ UpgradeFails(c) \/ ReadFails(c)
        PROVE  UNCHANGED review
    BY <1>1 DEF handlePresence, UpgradeFails, ReadFails
  <1>2. ASSUME NEW c \in Tabs, add(c) \/ remove(c) PROVE UNCHANGED review
    BY <1>2 DEF add, remove
  <1>3. ASSUME NEW id \in armed, TimerFires(id) PROVE UNCHANGED review
    BY <1>3 DEF TimerFires
  <1>4. ASSUME NEW id \in expiring, expire(id) PROVE UNCHANGED review
    BY <1>4 DEF expire
  <1>5. CASE UNCHANGED vars
    BY <1>5 DEF vars
  <1> QED BY <1>1, <1>2, <1>3, <1>4, <1>5 DEF Next, ReviewStep

-----------------------------------------------------------------------------
(* Type correctness. *)

(* Connections. *)
LEMMA NextSockets ==
    ASSUME SocketType, [Next]_vars
    PROVE  SocketType'
  <1> USE DEF SocketType, Handling, presence, callback, review
  <1>1. ASSUME NEW on \in BOOLEAN, SetTimeout(on) PROVE SocketType'
    BY <1>1 DEF SetTimeout, startTimerLocked
  <1>2. ASSUME NEW c \in Tabs, handlePresence(c) PROVE SocketType'
    BY <1>2 DEF handlePresence
  <1>3. ASSUME NEW c \in Tabs, UpgradeFails(c) PROVE SocketType'
    BY <1>3 DEF UpgradeFails
  <1>4. ASSUME NEW c \in Tabs, add(c) PROVE SocketType'
    BY <1>4 DEF add, stopTimerLocked
  <1>5. ASSUME NEW c \in Tabs, ReadFails(c) PROVE SocketType'
    BY <1>5 DEF ReadFails
  <1>6. ASSUME NEW c \in Tabs, remove(c) PROVE SocketType'
    BY <1>6 DEF remove, startTimerLocked
  <1>7. ASSUME NEW id \in armed, TimerFires(id) PROVE SocketType'
    BY <1>7 DEF TimerFires
  <1>8. ASSUME NEW id \in expiring, expire(id) PROVE SocketType'
    BY <1>8 DEF expire
  <1>9. ASSUME abandonOrphanedReview PROVE SocketType'
    BY <1>9 DEF abandonOrphanedReview
  <1>10. ASSUME Finish \/ SaveElsewhere \/ Reload PROVE SocketType'
    BY <1>10 DEF Finish, SaveElsewhere, Reload
  <1>11. ASSUME NEW result \in pending, SendResult(result) PROVE SocketType'
    BY <1>11 DEF SendResult
  <1>12. ASSUME Wait \/ Interrupt PROVE SocketType'
    BY <1>12 DEF Wait, Interrupt
  <1>13. ASSUME Close PROVE SocketType'
    BY <1>13 DEF Close, stopTimerLocked
  <1>14. CASE UNCHANGED vars
    BY <1>14 DEF vars
  <1> QED BY <1>1, <1>2, <1>3, <1>4, <1>5, <1>6, <1>7, <1>8, <1>9, <1>10, <1>11, <1>12,
             <1>13, <1>14 DEF Next

(* The flags of presence. *)
LEMMA NextFlags ==
    ASSUME FlagType, [Next]_vars
    PROVE  FlagType'
  <1> USE DEF FlagType
  <1>1. ASSUME NEW on \in BOOLEAN, SetTimeout(on) PROVE FlagType'
    BY <1>1 DEF SetTimeout, startTimerLocked, callback
  <1>2. ASSUME NEW c \in Tabs, add(c) PROVE FlagType'
    BY <1>2 DEF add, stopTimerLocked, callback
  <1>3. ASSUME NEW c \in Tabs, remove(c) PROVE FlagType'
    BY <1>3 DEF remove, startTimerLocked, callback
  <1>4. ASSUME NEW id \in armed, TimerFires(id) PROVE FlagType'
    BY <1>4 DEF TimerFires
  <1>5. ASSUME NEW id \in expiring, expire(id) PROVE FlagType'
    BY <1>5 DEF expire
  <1>6. ASSUME abandonOrphanedReview PROVE FlagType'
    BY <1>6 DEF abandonOrphanedReview, presence
  <1>7. ASSUME Close PROVE FlagType'
    BY <1>7 DEF Close, stopTimerLocked, callback
  <1>8. CASE UNCHANGED timers
    BY <1>8 DEF timers
  <1> QED BY <1>1, <1>2, <1>3, <1>4, <1>5, <1>6, <1>7, <1>8, QuietTimers DEF TimerStep

(* What stopping and starting the timer do to the ids. *)
LEMMA StopTimer ==
    ASSUME TimerType, stopTimerLocked
    PROVE  /\ timerID' \in Nat /\ timer' \in Nat /\ armed' \subseteq Nat
           /\ timerID' = timerID + 1 /\ armed' \subseteq armed
  <1>1. timerID' = timerID + 1 /\ timerID' \in Nat /\ timer' \in Nat
    BY DEF TimerType, stopTimerLocked
  <1>2. armed' \subseteq armed /\ armed' \subseteq Nat
    BY DEF TimerType, stopTimerLocked
  <1> QED BY <1>1, <1>2

LEMMA StartTimer ==
    ASSUME TimerType, NEW cs, NEW on, NEW id \in Nat, startTimerLocked(cs, on, id)
    PROVE  /\ timerID' \in Nat /\ timer' \in Nat /\ armed' \subseteq Nat
           /\ \/ timerID' = id /\ armed' = armed
              \/ timerID' = id + 1 /\ armed' = armed \union {id + 1} /\ cs = {}
  <1>1. CASE closed \/ cs # {} \/ ~on
    <2>1. timerID' = id /\ timer' = timer /\ armed' = armed
      BY <1>1 DEF startTimerLocked
    <2> QED BY <2>1 DEF TimerType
  <1>2. CASE ~(closed \/ cs # {} \/ ~on)
    <2>1. /\ timerID' = id + 1 /\ timer' = id + 1 /\ armed' = armed \union {id + 1}
          /\ cs = {}
      BY <1>2 DEF startTimerLocked
    <2> QED BY <2>1 DEF TimerType
  <1> QED BY <1>1, <1>2

(* The orphan timer. *)
LEMMA NextTimers ==
    ASSUME TimerType, [Next]_vars
    PROVE  TimerType'
  <1> USE DEF TimerType
  <1>1. ASSUME NEW on \in BOOLEAN, SetTimeout(on) PROVE TimerType'
    <2>1. startTimerLocked(conns, on, timerID + 1)
      BY <1>1 DEF SetTimeout
    <2>2. UNCHANGED <<orphanedBy, disturbed, expiring, conns>>
      BY <1>1 DEF SetTimeout, callback
    <2> QED BY <2>1, <2>2, StartTimer
  <1>2. ASSUME NEW c \in Tabs, add(c) PROVE TimerType'
    <2>1. UNCHANGED <<orphanedBy, expiring>>
      BY <1>2 DEF add, callback
    <2>2. CASE UNCHANGED <<conns, timerID, timer, armed, disturbed>>
      BY <2>1, <2>2
    <2>3. CASE stopTimerLocked /\ disturbed' = timerID
      BY <2>1, <2>3, StopTimer
    <2> QED BY <1>2, <2>2, <2>3 DEF add
  <1>3. ASSUME NEW c \in Tabs, remove(c) PROVE TimerType'
    <2>1. conns' = conns \ {c} /\ UNCHANGED <<orphanedBy, expiring, disturbed>>
      BY <1>3 DEF remove, callback
    <2>2. CASE UNCHANGED <<timerID, timer, armed>>
      BY <2>1, <2>2
    <2>3. CASE startTimerLocked(conns \ {c}, timeout, timerID)
      BY <2>1, <2>3, StartTimer
    <2> QED BY <1>3, <2>2, <2>3 DEF remove
  <1>4. ASSUME NEW id \in armed, TimerFires(id) PROVE TimerType'
    BY <1>4 DEF TimerFires
  <1>5. ASSUME NEW id \in expiring, expire(id) PROVE TimerType'
    BY <1>5 DEF expire
  <1>6. ASSUME abandonOrphanedReview PROVE TimerType'
    BY <1>6 DEF abandonOrphanedReview, presence
  <1>7. ASSUME Close PROVE TimerType'
    <2>1. UNCHANGED <<conns, orphanedBy, expiring, disturbed>>
      BY <1>7 DEF Close, callback
    <2>2. CASE UNCHANGED <<timerID, timer, armed>>
      BY <2>1, <2>2
    <2>3. CASE stopTimerLocked
      BY <2>1, <2>3, StopTimer
    <2> QED BY <1>7, <2>2, <2>3 DEF Close
  <1>8. CASE UNCHANGED timers
    BY <1>8 DEF timers
  <1> QED BY <1>1, <1>2, <1>3, <1>4, <1>5, <1>6, <1>7, <1>8, QuietTimers DEF TimerStep

(* A result more has the next number. *)
LEMMA ResultMade ==
    ASSUME ReviewType, MakeResult, done' = done
    PROVE  /\ results' = results + 1 /\ results' \in Nat
           /\ pending' \subseteq 1 .. results' /\ done' \in 0 .. results'
  <1>1. results' = results + 1 /\ results' \in Nat
    BY DEF ReviewType, MakeResult
  <1>2. ASSUME NEW r \in pending' PROVE r \in 1 .. results'
    BY <1>1, <1>2 DEF ReviewType, MakeResult
  <1>3. done' \in 0 .. results'
    BY <1>1 DEF ReviewType
  <1> QED BY <1>1, <1>2, <1>3

(* The review's result. *)
LEMMA NextReview ==
    ASSUME ReviewType, [Next]_vars
    PROVE  ReviewType'
  <1> USE DEF ReviewType, sending, shared
  <1>1. ASSUME NEW on \in BOOLEAN, SetTimeout(on) PROVE ReviewType'
    BY <1>1 DEF SetTimeout
  <1>2. ASSUME abandonOrphanedReview PROVE ReviewType'
    <2>1. finished' = TRUE /\ UNCHANGED <<done, command, shared>>
      BY <1>2 DEF abandonOrphanedReview
    <2>2. CASE UNCHANGED <<results, pending>>
      BY <2>1, <2>2
    <2>3. CASE MakeResult
      BY <2>1, <2>3, ResultMade
    <2> QED BY <1>2, <2>2, <2>3 DEF abandonOrphanedReview
  <1>3. ASSUME SaveElsewhere PROVE ReviewType'
    BY <1>3 DEF SaveElsewhere
  <1>4. ASSUME Reload PROVE ReviewType'
    <2>1. UNCHANGED <<sending, command>> /\ elsewhere' = "none"
      BY <1>4 DEF Reload
    <2>2. finished' = finished \/ finished' = (elsewhere = "terminal")
      BY <1>4 DEF Reload
    <2>3. finished' \in BOOLEAN
      BY <2>2, Zenon
    <2>4. reopened' \in {reopened, reopened + 1}
      BY <1>4, Zenon DEF Reload
    <2> QED BY <2>1, <2>3, <2>4
  <1>5. ASSUME Finish PROVE ReviewType'
    <2>1. finished' = TRUE /\ UNCHANGED <<done, command, shared>>
      BY <1>5 DEF Finish
    <2>2. MakeResult
      BY <1>5 DEF Finish
    <2> QED BY <2>1, <2>2, ResultMade
  <1>6. ASSUME NEW result \in pending, SendResult(result) PROVE ReviewType'
    BY <1>6 DEF SendResult
  <1>7. ASSUME Wait \/ Interrupt PROVE ReviewType'
    <2>1. CASE Wait
      <3>1. done' = 0 /\ 0 \in 0 .. results
        BY <2>1 DEF Wait
      <3> QED BY <2>1, <3>1 DEF Wait
    <2>2. CASE Interrupt
      BY <2>2 DEF Interrupt
    <2> QED BY <1>7, <2>1, <2>2
  <1>8. ASSUME Close PROVE ReviewType'
    BY <1>8 DEF Close
  <1>9. CASE UNCHANGED review
    BY <1>9 DEF review
  <1> QED BY <1>1, <1>2, <1>3, <1>4, <1>5, <1>6, <1>7, <1>8, <1>9, QuietReview DEF ReviewStep

LEMMA InitType == Init => TypeOK
  <1>1. Init => SocketType
    BY DEF Init, SocketType, Handling
  <1>2. Init => TimerType
    BY DEF Init, TimerType
  <1>3. Init => FlagType
    BY DEF Init, FlagType
  <1>4. Init => ReviewType
    <2>1. Init => finished = FALSE /\ command = "starting" /\ elsewhere = "none"
      BY DEF Init
    <2>2. Init => results = 0 /\ reopened = 0 /\ pending = {} /\ done = 0
      BY DEF Init
    <2>3. 0 \in Nat /\ 0 \in 0 .. 0
      OBVIOUS
    <2> QED BY <2>1, <2>2, <2>3 DEF ReviewType
  <1> QED BY <1>1, <1>2, <1>3, <1>4 DEF TypeOK

LEMMA NextType == TypeOK /\ [Next]_vars => TypeOK'
  BY NextSockets, NextFlags, NextTimers, NextReview DEF TypeOK

-----------------------------------------------------------------------------
(* The inductive invariant. *)

(* A new timer id puts every earlier timer out of use. *)
LEMMA TimersAdvance ==
    ASSUME TimerType, TimersOK, UNCHANGED expiring,
           timerID' \in Nat, timerID' > timerID, disturbed' \in {disturbed, timerID},
           armed' \subseteq armed \union {timerID'},
           timerID' \in armed' => conns' = {}
    PROVE  TimersOK'
  <1>1. ASSUME NEW id \in armed' \union expiring' PROVE id \in 1 .. timerID'
    <2>1. CASE id = timerID'
      BY <2>1 DEF TimerType
    <2>2. CASE id \in armed \union expiring
      <3>1. id \in 1 .. timerID
        BY <2>2 DEF TimersOK
      <3> QED BY <3>1 DEF TimerType
    <2> QED BY <1>1, <2>1, <2>2
  <1>2. disturbed' <= timerID /\ disturbed' \in Nat
    BY DEF TimerType, TimersOK
  <1>3. timerID' > disturbed'
    BY <1>2 DEF TimerType
  <1>4. timerID' \notin expiring
    <2>1. ASSUME timerID' \in expiring PROVE FALSE
      <3>1. timerID' \in 1 .. timerID
        BY <2>1 DEF TimersOK
      <3> QED BY <3>1 DEF TimerType
    <2> QED BY <2>1
  <1>5. timerID' \in armed' \union expiring' => conns' = {}
    BY <1>4
  <1>6. disturbed' <= timerID'
    BY <1>2, <1>3
  <1> QED BY <1>1, <1>3, <1>5, <1>6 DEF TimersOK

(* The newest timer, if it runs, has seen no connection. *)
LEMMA NextTimersOK ==
    ASSUME TimerType, TimersOK, [Next]_vars
    PROVE  TimersOK'
  <1> USE DEF TimerType, TimersOK
  <1>1. ASSUME NEW on \in BOOLEAN, SetTimeout(on) PROVE TimersOK'
    <2>1. startTimerLocked(conns, on, timerID + 1)
      BY <1>1 DEF SetTimeout
    <2>2. UNCHANGED <<orphanedBy, disturbed, expiring, conns>>
      BY <1>1 DEF SetTimeout, callback
    <2>3. timerID + 1 \in Nat /\ timerID + 1 > timerID
      OBVIOUS
    <2>4. CASE timerID' = timerID + 1 /\ armed' = armed
      <3>1. timerID' \notin armed
        BY <2>4
      <3> QED BY <2>2, <2>3, <2>4, <3>1, TimersAdvance
    <2>5. CASE timerID' = timerID + 1 + 1 /\ armed' = armed \union {timerID + 1 + 1} /\ conns = {}
      <3>1. timerID' \in Nat /\ timerID' > timerID
        BY <2>5
      <3> QED BY <2>2, <2>5, <3>1, TimersAdvance
    <2> QED BY <2>1, <2>3, <2>4, <2>5, StartTimer
  <1>2. ASSUME NEW c \in Tabs, add(c) PROVE TimersOK'
    <2>1. UNCHANGED <<orphanedBy, expiring>>
      BY <1>2 DEF add, callback
    <2>2. CASE UNCHANGED <<conns, timerID, timer, armed, disturbed>>
      BY <2>1, <2>2
    <2>3. CASE stopTimerLocked /\ disturbed' = timerID
      <3>1. timerID' = timerID + 1 /\ timerID' \in Nat /\ armed' \subseteq armed
        BY <2>3, StopTimer
      <3>2. timerID' > timerID /\ timerID' \notin armed'
        BY <3>1
      <3> QED BY <2>1, <2>3, <3>1, <3>2, TimersAdvance
    <2> QED BY <1>2, <2>2, <2>3 DEF add
  <1>3. ASSUME NEW c \in Tabs, remove(c) PROVE TimersOK'
    <2>1. conns' = conns \ {c} /\ UNCHANGED <<orphanedBy, expiring, disturbed>>
      BY <1>3 DEF remove, callback
    <2>2. CASE UNCHANGED <<timerID, timer, armed>>
      BY <2>1, <2>2
    <2>3. CASE startTimerLocked(conns \ {c}, timeout, timerID)
      <3>1. CASE timerID' = timerID /\ armed' = armed
        BY <2>1, <3>1
      <3>2. CASE /\ timerID' = timerID + 1 /\ armed' = armed \union {timerID + 1}
                 /\ conns \ {c} = {}
        <4>1. timerID' \in Nat /\ timerID' > timerID
          BY <3>2
        <4> QED BY <2>1, <3>2, <4>1, TimersAdvance
      <3> QED BY <2>3, <3>1, <3>2, StartTimer
    <2> QED BY <1>3, <2>2, <2>3 DEF remove
  <1>4. ASSUME NEW id \in armed, TimerFires(id) PROVE TimersOK'
    BY <1>4 DEF TimerFires
  <1>5. ASSUME NEW id \in expiring, expire(id) PROVE TimersOK'
    BY <1>5 DEF expire
  <1>6. ASSUME abandonOrphanedReview PROVE TimersOK'
    BY <1>6 DEF abandonOrphanedReview, presence
  <1>7. ASSUME Close PROVE TimersOK'
    <2>1. UNCHANGED <<conns, orphanedBy, expiring, disturbed>>
      BY <1>7 DEF Close, callback
    <2>2. CASE UNCHANGED <<timerID, timer, armed>>
      BY <2>1, <2>2
    <2>3. CASE stopTimerLocked
      <3>1. timerID' = timerID + 1 /\ timerID' \in Nat /\ armed' \subseteq armed
        BY <2>3, StopTimer
      <3>2. timerID' > timerID /\ timerID' \notin armed'
        BY <3>1
      <3> QED BY <2>1, <2>3, <3>1, <3>2, TimersAdvance
    <2> QED BY <1>7, <2>2, <2>3 DEF Close
  <1>8. CASE UNCHANGED timers
    BY <1>8 DEF timers
  <1> QED BY <1>1, <1>2, <1>3, <1>4, <1>5, <1>6, <1>7, <1>8, QuietTimers DEF TimerStep

(* Whoever ended the review was such a timer. *)
LEMMA NextOrphanOK ==
    ASSUME TimerType, TimersOK, OrphanOK, [Next]_vars
    PROVE  OrphanOK'
  <1> USE DEF TimerType, TimersOK, OrphanOK
  <1>1. ASSUME NEW on \in BOOLEAN, SetTimeout(on) PROVE OrphanOK'
    BY <1>1 DEF SetTimeout, startTimerLocked, callback
  <1>2. ASSUME NEW c \in Tabs, add(c) PROVE OrphanOK'
    BY <1>2 DEF add, stopTimerLocked, callback
  <1>3. ASSUME NEW c \in Tabs, remove(c) PROVE OrphanOK'
    BY <1>3 DEF remove, startTimerLocked, callback
  <1>4. ASSUME NEW id \in armed, TimerFires(id) PROVE OrphanOK'
    BY <1>4 DEF TimerFires
  <1>5. ASSUME NEW id \in expiring, expire(id) PROVE OrphanOK'
    BY <1>5 DEF expire
  <1>6. ASSUME abandonOrphanedReview PROVE OrphanOK'
    BY <1>6 DEF abandonOrphanedReview, presence
  <1>7. ASSUME Close PROVE OrphanOK'
    BY <1>7 DEF Close, stopTimerLocked, callback
  <1>8. CASE UNCHANGED timers
    BY <1>8 DEF timers
  <1> QED BY <1>1, <1>2, <1>3, <1>4, <1>5, <1>6, <1>7, <1>8, QuietTimers DEF TimerStep

(* A new result belongs to a review that had not finished. *)
LEMMA ResultMadeOK ==
    ASSUME ReviewType, ResultOK, ~finished, finished' = TRUE, MakeResult,
           UNCHANGED <<done, shared>>
    PROVE  ResultOK'
  <1> USE DEF ReviewType, ResultOK, shared
  <1>1. results' = results + 1
    BY DEF MakeResult
  <1>2. results' <= reopened' + 1
    BY <1>1
  <1>3. done' \notin pending'
    BY DEF MakeResult
  <1> QED BY <1>2, <1>3

(* The results are as many as the finishes that were taken back allow. *)
LEMMA NextResultOK ==
    ASSUME ReviewType, ResultOK, [Next]_vars
    PROVE  ResultOK'
  <1> USE DEF ReviewType, ResultOK, sending, shared
  <1>1. ASSUME NEW on \in BOOLEAN, SetTimeout(on) PROVE ResultOK'
    BY <1>1 DEF SetTimeout
  <1>2. ASSUME abandonOrphanedReview PROVE ResultOK'
    <2>1. finished' = TRUE /\ UNCHANGED <<done, shared>>
      BY <1>2 DEF abandonOrphanedReview
    <2>2. CASE finished
      BY <1>2, <2>1, <2>2 DEF abandonOrphanedReview
    <2>3. CASE ~finished
      BY <1>2, <2>1, <2>3, ResultMadeOK DEF abandonOrphanedReview
    <2> QED BY <2>2, <2>3
  <1>3. ASSUME SaveElsewhere PROVE ResultOK'
    BY <1>3 DEF SaveElsewhere
  <1>4. ASSUME Reload PROVE ResultOK'
    BY <1>4 DEF Reload
  <1>5. ASSUME Finish PROVE ResultOK'
    BY <1>5, ResultMadeOK DEF Finish
  <1>6. ASSUME NEW result \in pending, SendResult(result) PROVE ResultOK'
    BY <1>6 DEF SendResult
  <1>7. ASSUME Wait \/ Interrupt PROVE ResultOK'
    BY <1>7 DEF Wait, Interrupt
  <1>8. ASSUME Close PROVE ResultOK'
    BY <1>8 DEF Close
  <1>9. CASE UNCHANGED review
    BY <1>9 DEF review
  <1> QED BY <1>1, <1>2, <1>3, <1>4, <1>5, <1>6, <1>7, <1>8, <1>9, QuietReview DEF ReviewStep

LEMMA InitInv == Init => IInv
  <1>1. Init => TimersOK /\ OrphanOK /\ ResultOK
    BY DEF Init, TimersOK, OrphanOK, ResultOK
  <1> QED BY <1>1, InitType DEF IInv

LEMMA NextInv == IInv /\ [Next]_vars => IInv'
  BY NextType, NextTimersOK, NextOrphanOK, NextResultOK DEF IInv, TypeOK

(* The invariant holds in every reachable state, whatever tabs come and go. *)
THEOREM Invariance == Spec => []IInv
  BY InitInv, NextInv, PTL DEF Spec

(* Only a timer that saw no connection for its whole period abandons a      *)
(* review, and no tab is served afterwards.                                *)
THEOREM OrphanIsAlone == Spec => []OrphanWasAlone
  <1>1. IInv => OrphanWasAlone
    BY DEF IInv, OrphanOK, OrphanWasAlone
  <1> QED BY <1>1, Invariance, PTL

(* The review ends once: no handler ever blocks on the result channel while *)
(* no reload has opened the review again.                                  *)
THEOREM ResultIsSentOnce == Spec => []SendNeverBlocks
  <1>1. ASSUME IInv, reopened = 0
        PROVE  (\A r, q \in pending : r = q) /\ (pending # {} => done = 0)
    <2>1. results \in 0 .. 1 /\ done \notin pending
      BY <1>1 DEF IInv, ResultOK, TypeOK, ReviewType
    <2>2. \A r \in pending : r = 1
      BY <1>1, <2>1 DEF IInv, TypeOK, ReviewType
    <2>3. done \in 0 .. 1
      BY <1>1, <2>1 DEF IInv, TypeOK, ReviewType
    <2> QED BY <2>1, <2>2, <2>3
  <1>2. IInv => SendNeverBlocks
    BY <1>1 DEF SendNeverBlocks
  <1> QED BY <1>2, Invariance, PTL
=============================================================================
