------------------------ MODULE AppServerClient_proofs ------------------------
(* Proofs about the app-server client, for any number of questions and any *)
(* behaviour of the child.                                                 *)
EXTENDS AppServerClient, TLAPS, SequenceTheorems

-----------------------------------------------------------------------------
(* The invariant, one call, one request and one line at a time. *)

Over(c) ==
    /\ turn[c] # "running"
    /\ \A request \in pending :
          request.call = c => request.method \notin {"start", "interrupt"}
    /\ \A i \in DOMAIN lines : lines[i].kind # "response" => lines[i].thread # c

CallInv(c) ==
    /\ thread[c] \in {c, NoCall}
    /\ step[c] \in {"start", "interrupt"} => thread[c] = c
    /\ phase[c] \in {"idle", "waiting", "writing", "reading"} => step[c] # "interrupt"
    /\ phase[c] \in {"turn", "interrupting"} => step[c] = "start"
    /\ phase[c] = "draining" => step[c] = "interrupt"
    /\ phase[c] # "draining" => drained[c] = {}
    /\ answer[c] \subseteq {c}
    /\ phase[c] \in {"idle", "waiting"} \union Holding => outcome[c] = "none"
    /\ NotStarted(c) => turn[c] = "none"
    /\ "completion" \in drained[c] =>
          /\ turn[c] \in Terminal
          /\ \A i \in DOMAIN lines : lines[i].kind # "response" => lines[i].thread # c
    /\ outcome[c] = "answer" => thread[c] = c /\ turn[c] = "completed" /\ answer[c] = {c}
    /\ outcome[c] = "canceled" => Over(c)

RequestInv(request) ==
    /\ request.method = "start" =>
          /\ request.thread = request.call
          /\ ~NotStarted(request.call)
          /\ turn[request.call] = "none"
    /\ request.method = "interrupt" =>
          /\ request.thread = request.call
          /\ step[request.call] = "interrupt"
          /\ "response" \notin drained[request.call]

Interrupted(call) ==
    /\ step[call] = "interrupt"
    /\ \A request \in pending : request.method = "interrupt" => request.call # call

LineInv(i) ==
    /\ lines[i].kind = "response" =>
          /\ lines[i].call \in Calls
          /\ lines[i].method = "fork" => lines[i].thread = lines[i].call
          /\ lines[i].method = "interrupt" => Interrupted(lines[i].call)
    /\ lines[i].kind # "response" =>
          lines[i].thread \in Calls /\ turn[lines[i].thread] # "none"
    /\ lines[i].kind = "completed" =>
          /\ turn[lines[i].thread] = lines[i].value
          /\ \A j \in DOMAIN lines :
                j > i => lines[j].kind = "response" \/ lines[j].thread # lines[i].thread

Parts ==
    /\ OneReader
    /\ unusable => owner = NoCall
    /\ \A c \in Calls : CallInv(c)
    /\ \A request \in pending : RequestInv(request)
    /\ \A i \in DOMAIN lines : LineInv(i)

LEMMA InParts == IInv <=> TypeOK /\ Parts
  <1>1. (\A c \in Calls : CallInv(c)) <=>
            /\ InStep /\ DrainedIsOver /\ AnswersAreOwn /\ CanceledTurnsAreOver
            /\ \A c \in Calls : NotStarted(c) => turn[c] = "none"
    BY DEF CallInv, InStep, DrainedIsOver, AnswersAreOwn, CanceledTurnsAreOver, Over
  <1>2. TurnsAreAskedFor <=>
            /\ \A c \in Calls : NotStarted(c) => turn[c] = "none"
            /\ \A request \in pending : RequestInv(request)
    BY DEF TurnsAreAskedFor, RequestInv
  <1>3. LinesAreTrue <=> \A i \in DOMAIN lines : LineInv(i)
    BY DEF LinesAreTrue, LineInv, Interrupted
  <1> QED BY <1>1, <1>2, <1>3, Zenon DEF IInv, Parts

-----------------------------------------------------------------------------
(* Types. *)

CallTypes ==
    /\ phase \in [Calls -> Phases]
    /\ step \in [Calls -> Methods]
    /\ canceled \in [Calls -> BOOLEAN]
    /\ thread \in [Calls -> Threads]
    /\ answer \in [Calls -> SUBSET Calls]
    /\ drained \in [Calls -> SUBSET {"response", "completion"}]
    /\ outcome \in [Calls -> Outcomes]

SharedTypes ==
    /\ owner \in Threads
    /\ unusable \in BOOLEAN
    /\ lines \in Seq(Line)
    /\ pending \in SUBSET Request
    /\ turn \in [Calls -> Terminal \union {"none", "running"}]
    /\ pieces \in 0 .. MaxPieces
    /\ nonsense \in 0 .. MaxNonsense
    /\ running \in BOOLEAN
    /\ failed \in BOOLEAN
    /\ agent \in {"probing", "available", "unavailable"}

LEMMA InTypes == TypeOK <=> CallTypes /\ SharedTypes
  BY DEF TypeOK, CallTypes, SharedTypes

LEMMA Counted ==
    ASSUME NEW max \in Nat, NEW n \in 0 .. max, n < max
    PROVE  n + 1 \in 0 .. max
  OBVIOUS

LEMMA CallsAreThreads == /\ NoCall \notin Calls /\ NoCall \in Threads
                         /\ \A c \in Calls : c \in Threads
  BY CallAssumption DEF Calls, Threads

-----------------------------------------------------------------------------
(* Reading the stream. *)

LinesShrink ==
    \E k \in {0, 1} : \A i \in DOMAIN lines' :
        /\ i \in Int
        /\ i + k \in DOMAIN lines
        /\ lines'[i] = lines[i + k]

LEMMA Untouched ==
    ASSUME lines \in Seq(Line), lines' = lines
    PROVE  LinesShrink /\ lines' \in Seq(Line)
  <1>1. \A i \in DOMAIN lines' : i \in Int /\ i + 0 \in DOMAIN lines /\ lines'[i] = lines[i + 0]
    BY LenProperties
  <1> QED BY <1>1, Zenon DEF LinesShrink

LEMMA Taken ==
    ASSUME lines \in Seq(Line), lines # <<>>, Take
    PROVE  /\ LinesShrink /\ lines' \in Seq(Line)
           /\ 1 \in DOMAIN lines /\ Head(lines) = lines[1] /\ Head(lines) \in Line
           /\ \A i \in DOMAIN lines' :
                 i \in Int /\ i > 0 /\ i + 1 \in DOMAIN lines /\ lines'[i] = lines[i + 1]
  <1>1. /\ lines' \in Seq(Line) /\ Len(lines') = Len(lines) - 1 /\ Len(lines) \in Nat
        /\ \A i \in 1 .. Len(lines') : lines'[i] = lines[i + 1]
    BY HeadTailProperties, LenProperties DEF Take
  <1>2. DOMAIN lines' = 1 .. Len(lines') /\ DOMAIN lines = 1 .. Len(lines)
    BY <1>1, LenProperties
  <1>3. Len(lines) # 0
    BY EmptySeq
  <1>4. 1 \in DOMAIN lines /\ Head(lines) = lines[1] /\ Head(lines) \in Line
    BY <1>1, <1>2, <1>3, HeadTailProperties
  <1>5. \A i \in DOMAIN lines' :
            i \in Int /\ i > 0 /\ i + 1 \in DOMAIN lines /\ lines'[i] = lines[i + 1]
    BY <1>1, <1>2
  <1> QED BY <1>1, <1>4, <1>5, Zenon DEF LinesShrink

-----------------------------------------------------------------------------
(* Steps of one call: the others keep what they have. *)

OthersKeep(c) ==
    /\ \A d \in Calls : d # c =>
          /\ phase'[d] = phase[d] /\ step'[d] = step[d] /\ thread'[d] = thread[d]
          /\ answer'[d] = answer[d] /\ drained'[d] = drained[d] /\ outcome'[d] = outcome[d]
          /\ owner' = d <=> owner = d
    /\ \A request : request.call # c => (request \in pending' <=> request \in pending)

(* What the call itself has to show for the invariant to hold again. *)
Own(c) ==
    /\ phase'[c] \in Holding <=> owner' = c
    /\ unusable' => owner' = NoCall
    /\ CallInv(c)'
    /\ \A request \in pending' : request.call = c => RequestInv(request)'
    /\ \A i \in DOMAIN lines' :
          lines'[i].kind = "response" /\ lines'[i].method = "interrupt" /\ lines'[i].call = c
             => Interrupted(c)'

LEMMA Frame ==
    ASSUME TypeOK, Parts, NEW c \in Calls, OthersKeep(c), turn' = turn, LinesShrink, Own(c),
           lines' \in Seq(Line), pending' \in SUBSET Request
    PROVE  Parts'
  <1>1. OneReader'
    BY DEF OneReader, OthersKeep, Own, Parts
  <1> PICK k \in {0, 1} : \A i \in DOMAIN lines' :
            i \in Int /\ i + k \in DOMAIN lines /\ lines'[i] = lines[i + k]
    BY DEF LinesShrink
  <1>2. ASSUME NEW d \in Calls PROVE CallInv(d)'
    <2>1. CASE d = c
      BY <2>1 DEF Own
    <2>2. CASE d # c
      <3>1. /\ phase'[d] = phase[d] /\ step'[d] = step[d] /\ thread'[d] = thread[d]
            /\ answer'[d] = answer[d] /\ drained'[d] = drained[d] /\ outcome'[d] = outcome[d]
        BY <2>2 DEF OthersKeep
      <3>2. CallInv(d)
        BY DEF Parts
      <3>3. \A request \in pending' : request.call = d => request \in pending
        BY <2>2 DEF OthersKeep
      <3>4. Over(d) => Over(d)'
        BY <3>3 DEF Over
      <3> QED BY <3>1, <3>2, <3>4 DEF CallInv, NotStarted
    <2> QED BY <2>1, <2>2
  <1>3. ASSUME NEW request \in pending' PROVE RequestInv(request)'
    <2>1. CASE request.call = c
      BY <2>1 DEF Own
    <2>2. CASE request.call # c
      <3>1. request \in pending /\ request.call \in Calls
        BY <2>2 DEF OthersKeep, Request
      <3>2. RequestInv(request)
        BY <3>1 DEF Parts
      <3> DEFINE d == request.call
      <3>3. phase'[d] = phase[d] /\ step'[d] = step[d] /\ drained'[d] = drained[d]
        BY <2>2, <3>1 DEF OthersKeep
      <3> QED BY <3>2, <3>3 DEF RequestInv, NotStarted
    <2> QED BY <2>1, <2>2
  <1>4. ASSUME NEW i \in DOMAIN lines' PROVE LineInv(i)'
    <2>1. LineInv(i + k) /\ lines'[i] = lines[i + k] /\ i + k \in DOMAIN lines
      BY DEF Parts
    <2>2. ASSUME lines'[i].kind = "response", lines'[i].method = "interrupt"
          PROVE  Interrupted(lines[i].call)'
      <3> DEFINE d == lines[i + k].call
      <3>1. CASE d = c
        <4>1. Interrupted(c)'
          BY <2>1, <2>2, <3>1 DEF Own
        <4> QED BY <2>1, <3>1, <4>1
      <3>2. CASE d # c
        <4>1. /\ step[d] = "interrupt" /\ d \in Calls
              /\ \A r \in pending : r.method = "interrupt" => r.call # d
          BY <2>1, <2>2 DEF LineInv, Interrupted
        <4>2. step'[d] = step[d]
          BY <3>2, <4>1 DEF OthersKeep
        <4>3. \A r \in pending' : r.method = "interrupt" => r.call # d
          BY <3>2, <4>1 DEF OthersKeep
        <4> QED BY <2>1, <4>1, <4>2, <4>3 DEF Interrupted
      <3> QED BY <3>1, <3>2
    <2>3. \A j \in DOMAIN lines' :
             j > i => j + k \in DOMAIN lines /\ j + k > i + k /\ lines'[j] = lines[j + k]
      <3> TAKE j \in DOMAIN lines'
      <3>1. i \in Int /\ j \in Int /\ k \in Int
        OBVIOUS
      <3> QED BY <3>1
    <2> QED BY <2>1, <2>2, <2>3 DEF LineInv
  <1>5. unusable' => owner' = NoCall
    BY DEF Own
  <1> QED BY <1>1, <1>2, <1>3, <1>4, <1>5 DEF Parts

-----------------------------------------------------------------------------
(* Leaving an operation. *)

LEMMA OverKeeps ==
    ASSUME NEW c \in Calls, Over(c), LinesShrink, turn' = turn, pending' \subseteq pending
    PROVE  Over(c)'
  BY DEF Over, LinesShrink

LEMMA NotStartedIsOver ==
    ASSUME TypeOK, Parts, NEW c \in Calls, NotStarted(c)
    PROVE  Over(c)
  <1>1. turn[c] = "none" /\ step[c] # "interrupt"
    BY DEF Parts, CallInv, NotStarted
  <1>2. ASSUME NEW request \in pending, request.call = c
        PROVE  request.method \notin {"start", "interrupt"}
    BY <1>1, <1>2 DEF Parts, RequestInv
  <1>3. ASSUME NEW i \in DOMAIN lines, lines[i].kind # "response"
        PROVE  lines[i].thread # c
    BY <1>1, <1>3 DEF Parts, LineInv
  <1> QED BY <1>1, <1>2, <1>3 DEF Over

LEMMA ReturnEffect ==
    ASSUME TypeOK, NEW c \in Calls, NEW o \in Outcomes, Return(c, o)
    PROVE  /\ CallTypes' /\ OthersKeep(c)
           /\ phase'[c] \in {"done", "returned"} /\ step'[c] = step[c] /\ thread'[c] = thread[c]
           /\ drained'[c] = {} /\ outcome'[c] = o
           /\ answer'[c] \subseteq answer[c] /\ (o = "answer" => answer'[c] = answer[c])
           /\ owner' = (IF owner = c THEN NoCall ELSE owner) /\ owner' \in Threads
           /\ pending' = pending
  <1>1. CallTypes' /\ owner' \in Threads
    BY CallsAreThreads, InTypes DEF CallTypes, SharedTypes, Return, Phases
  <1>2. OthersKeep(c)
    BY CallsAreThreads DEF TypeOK, OthersKeep, Return
  <1> QED BY <1>1, <1>2 DEF TypeOK, Return

LEMMA Left ==
    ASSUME TypeOK, Parts, NEW c \in Calls, NEW o \in Outcomes, Return(c, o),
           unusable' = unusable \/ owner = c, turn' = turn, LinesShrink, lines' \in Seq(Line),
           o = "answer" => thread[c] = c /\ turn[c] = "completed" /\ answer[c] = {c},
           o = "canceled" => Over(c)'
    PROVE  Parts' /\ CallTypes' /\ owner' \in Threads /\ pending' \in SUBSET Request
  <1>1. /\ CallTypes' /\ OthersKeep(c)
        /\ phase'[c] \in {"done", "returned"} /\ step'[c] = step[c] /\ thread'[c] = thread[c]
        /\ drained'[c] = {} /\ outcome'[c] = o
        /\ answer'[c] \subseteq answer[c] /\ (o = "answer" => answer'[c] = answer[c])
        /\ owner' = (IF owner = c THEN NoCall ELSE owner) /\ owner' \in Threads
        /\ pending' = pending
    BY ReturnEffect
  <1>2. pending' \in SUBSET Request
    BY <1>1 DEF TypeOK
  <1>3. CallInv(c)'
    <2>1. CallInv(c)
      BY DEF Parts
    <2> QED BY <1>1, <2>1 DEF CallInv, NotStarted, Holding
  <1>4. \A request \in pending' : request.call = c => RequestInv(request)'
    <2> TAKE request \in pending'
    <2>1. RequestInv(request)
      BY <1>1 DEF Parts
    <2> QED BY <1>1, <2>1 DEF RequestInv, NotStarted
  <1>5. \A i \in DOMAIN lines' :
           lines'[i].kind = "response" /\ lines'[i].method = "interrupt" /\ lines'[i].call = c
              => Interrupted(c)'
    <2> TAKE i \in DOMAIN lines'
    <2>1. PICK j \in DOMAIN lines : lines'[i] = lines[j]
      BY DEF LinesShrink
    <2>2. LineInv(j)
      BY DEF Parts
    <2> QED BY <1>1, <2>1, <2>2 DEF LineInv, Interrupted
  <1>6. (phase'[c] \in Holding <=> owner' = c) /\ (unusable' => owner' = NoCall)
    BY <1>1, CallsAreThreads DEF Parts, Holding
  <1>7. Own(c)
    BY <1>3, <1>4, <1>5, <1>6 DEF Own
  <1>8. Parts'
    BY <1>1, <1>2, <1>7, Frame
  <1> QED BY <1>1, <1>2, <1>8

LEMMA Poisoned ==
    ASSUME TypeOK, Parts, NEW c \in Calls, Poison(c), phase[c] \in Holding,
           turn' = turn, LinesShrink, lines' \in Seq(Line)
    PROVE  Parts' /\ CallTypes' /\ owner' \in Threads /\ pending' \in SUBSET Request
  <1>1. Return(c, "unusable") /\ owner = c /\ "unusable" \in Outcomes
    BY DEF Poison, Parts, OneReader, Outcomes
  <1> QED BY <1>1, Left

LEMMA Failed ==
    ASSUME TypeOK, Parts, NEW c \in Calls, Fail(c), phase[c] \in Holding \/ ~canceled[c],
           turn' = turn, LinesShrink, lines' \in Seq(Line)
    PROVE  Parts' /\ CallTypes' /\ owner' \in Threads /\ pending' \in SUBSET Request
  <1>1. CASE Poison(c) /\ phase[c] \in Holding
    BY <1>1, Poisoned
  <1>2. CASE Return(c, "error") /\ unusable' = unusable
    BY <1>2, Left DEF Outcomes
  <1> QED BY <1>1, <1>2 DEF Fail

(* The call keeps the stream or gives it back, and puts at most one request *)
(* of its own on the wire, for which it is ready.                           *)
LEMMA InterruptEffect ==
    ASSUME TypeOK, Parts, NEW c \in Calls, Interrupt(c), running
    PROVE  /\ CallTypes' /\ OthersKeep(c) /\ thread[c] = c
           /\ phase'[c] = "draining" /\ step'[c] = "interrupt"
           /\ pending' = pending \union {[call |-> c, method |-> "interrupt", thread |-> c]}
           /\ UNCHANGED <<canceled, thread, answer, drained, outcome, owner, unusable>>
  <1>1. thread[c] = c
    BY DEF Parts, CallInv, Interrupt
  <1>2. CallTypes' /\ UNCHANGED <<canceled, thread, answer, drained, outcome, owner, unusable>>
    BY InTypes DEF CallTypes, Interrupt, Phases, Methods, clientVars
  <1>3. /\ phase'[c] = "draining" /\ step'[c] = "interrupt"
        /\ pending' = pending \union {[call |-> c, method |-> "interrupt", thread |-> c]}
    BY <1>1 DEF TypeOK, Interrupt, Write
  <1>4. \A d \in Calls : d # c => phase'[d] = phase[d] /\ step'[d] = step[d]
    BY DEF TypeOK, Interrupt
  <1>5. OthersKeep(c)
    BY <1>2, <1>3, <1>4 DEF OthersKeep
  <1> QED BY <1>1, <1>2, <1>3, <1>5

LEMMA Interrupting ==
    ASSUME TypeOK, Parts, NEW c \in Calls, Interrupt(c),
           turn' = turn, LinesShrink, lines' \in Seq(Line)
    PROVE  Parts' /\ CallTypes' /\ owner' \in Threads /\ pending' \in SUBSET Request
  <1>1. CASE ~running
    <2>1. Poison(c) /\ phase[c] = "interrupting"
      BY <1>1 DEF Interrupt
    <2> QED BY <2>1, Poisoned DEF Holding
  <1>2. CASE running
    <2> DEFINE new == [call |-> c, method |-> "interrupt", thread |-> c]
    <2>1. /\ CallTypes' /\ OthersKeep(c) /\ thread[c] = c
          /\ phase'[c] = "draining" /\ step'[c] = "interrupt"
          /\ pending' = pending \union {new}
          /\ UNCHANGED <<canceled, thread, answer, drained, outcome, owner, unusable>>
      BY <1>2, InterruptEffect
    <2>2. owner = c /\ step[c] = "start" /\ drained[c] = {} /\ CallInv(c) /\ ~unusable
      BY CallsAreThreads DEF Parts, OneReader, Holding, CallInv, Interrupt
    <2>3. new \in Request
      BY CallsAreThreads DEF Request, Methods
    <2>4. pending' \in SUBSET Request
      BY <2>1, <2>3 DEF TypeOK
    <2>5. outcome[c] = "none"
      BY <2>2 DEF CallInv, Holding, Interrupt
    <2>6. CallInv(c)'
      BY <2>1, <2>2, <2>5 DEF CallInv, NotStarted, Holding
    <2>7. \A request \in pending' : request.call = c => RequestInv(request)'
      <3> TAKE request \in pending'
      <3>1. CASE request = new
        BY <2>1, <2>2, <3>1 DEF RequestInv, NotStarted
      <3>2. CASE request \in pending
        <4>1. RequestInv(request)
          BY <3>2 DEF Parts
        <4> QED BY <2>1, <2>2, <4>1 DEF RequestInv, NotStarted
      <3> QED BY <2>1, <3>1, <3>2
    <2>8. \A i \in DOMAIN lines' :
             lines'[i].kind = "response" /\ lines'[i].method = "interrupt" /\ lines'[i].call = c
                => Interrupted(c)'
      <3> TAKE i \in DOMAIN lines'
      <3>1. PICK j \in DOMAIN lines : lines'[i] = lines[j]
        BY DEF LinesShrink
      <3>2. LineInv(j)
        BY DEF Parts
      <3> QED BY <2>2, <3>1, <3>2 DEF LineInv, Interrupted
    <2>9. Own(c)
      BY <2>1, <2>2, <2>6, <2>7, <2>8 DEF Own, Holding
    <2>10. Parts'
      BY <2>1, <2>4, <2>9, Frame
    <2> QED BY <2>1, <2>4, <2>10 DEF TypeOK
  <1> QED BY <1>1, <1>2

(* Before its turn is asked for, nothing on the wire is about the call.     *)
LEMMA NothingAsked ==
    ASSUME TypeOK, Parts, NEW c \in Calls, NotStarted(c)
    PROVE  /\ \A request \in pending :
                 request.call = c => request.method \notin {"start", "interrupt"}
           /\ LinesShrink => \A i \in DOMAIN lines' :
                 ~(lines'[i].kind = "response" /\ lines'[i].method = "interrupt"
                     /\ lines'[i].call = c)
  <1>1. step[c] # "interrupt"
    BY DEF Parts, CallInv, NotStarted
  <1>2. ASSUME LinesShrink, NEW i \in DOMAIN lines',
               lines'[i].kind = "response", lines'[i].method = "interrupt", lines'[i].call = c
        PROVE  FALSE
    <2>1. PICK j \in DOMAIN lines : lines'[i] = lines[j]
      BY <1>2 DEF LinesShrink
    <2>2. LineInv(j)
      BY DEF Parts
    <2> QED BY <1>1, <1>2, <2>1, <2>2 DEF LineInv, Interrupted
  <1> QED BY <1>2, NotStartedIsOver DEF Over

LEMMA Continuing ==
    ASSUME TypeOK, Parts, NEW c \in Calls, NotStarted(c), phase[c] # "idle",
           NEW next \in {"initialized", "read", "fork", "start"}, Continue(c, next),
           thread' = thread \/ thread' = [thread EXCEPT ![c] = c],
           next = "start" => thread'[c] = c, phase[c] = "waiting" => owner = NoCall,
           turn' = turn, LinesShrink, lines' \in Seq(Line)
    PROVE  Parts' /\ CallTypes' /\ owner' \in Threads /\ pending' \in SUBSET Request
  <1>1. /\ step' = [step EXCEPT ![c] = next] /\ phase' = [phase EXCEPT ![c] = "waiting"]
        /\ owner' = NoCall
        /\ UNCHANGED <<canceled, answer, drained, outcome, unusable, pending>>
    BY DEF Continue
  <1>2. CallTypes'
    BY <1>1, InTypes, CallsAreThreads DEF CallTypes, Phases, Methods
  <1>3. thread'[c] \in {thread[c], c} /\ step'[c] = next /\ phase'[c] = "waiting"
    BY <1>1 DEF TypeOK
  <1>4. owner \in {c, NoCall}
    BY DEF Parts, OneReader, Holding, NotStarted
  <1>5. \A d \in Calls : d # c => /\ phase'[d] = phase[d] /\ step'[d] = step[d]
                                  /\ thread'[d] = thread[d] /\ (owner' = d <=> owner = d)
    BY <1>1, <1>4, CallsAreThreads DEF TypeOK
  <1>6. OthersKeep(c)
    BY <1>1, <1>5 DEF OthersKeep
  <1>7. CallInv(c)
    BY DEF Parts
  <1>8. CallInv(c)'
    BY <1>1, <1>3, <1>7 DEF CallInv, NotStarted, Holding
  <1>9. Own(c)
    BY <1>1, <1>3, <1>8, NothingAsked, CallsAreThreads DEF Own, RequestInv, Holding
  <1>10. pending' \in SUBSET Request /\ owner' \in Threads
    BY <1>1, CallsAreThreads DEF TypeOK
  <1> QED BY <1>2, <1>6, <1>9, <1>10, Frame

LEMMA Sending ==
    ASSUME TypeOK, Parts, NEW c \in Calls, phase[c] = "writing",
           Write(c, step[c]), phase' = [phase EXCEPT ![c] = "reading"],
           UNCHANGED <<step, canceled, thread, answer, drained, outcome, clientVars>>,
           turn' = turn, LinesShrink, lines' \in Seq(Line)
    PROVE  Parts' /\ CallTypes' /\ owner' \in Threads /\ pending' \in SUBSET Request
  <1> DEFINE new == [call |-> c, method |-> step[c], thread |-> thread[c]]
  <1>1. pending' = pending \union {new} /\ new \in Request
    BY DEF TypeOK, Write, Request
  <1>2. CallTypes'
    BY InTypes DEF CallTypes, Phases
  <1>3. phase'[c] = "reading" /\ \A d \in Calls : d # c => phase'[d] = phase[d]
    BY DEF TypeOK
  <1>4. OthersKeep(c)
    BY <1>1, <1>3 DEF OthersKeep, clientVars
  <1>5. CallInv(c) /\ NotStarted(c) /\ owner = c /\ ~unusable
    BY CallsAreThreads DEF Parts, NotStarted, OneReader, Holding
  <1>6. CallInv(c)'
    BY <1>3, <1>5 DEF CallInv, NotStarted, Holding
  <1>7. RequestInv(new)'
    BY <1>3, <1>5 DEF RequestInv, NotStarted, CallInv
  <1>8. Own(c)
    BY <1>1, <1>3, <1>5, <1>6, <1>7, NothingAsked DEF Own, RequestInv, Holding, clientVars
  <1>9. pending' \in SUBSET Request /\ owner' \in Threads
    BY <1>1 DEF TypeOK, clientVars
  <1> QED BY <1>2, <1>4, <1>8, <1>9, Frame

(* The call has the slot, and nothing of it is on the wire yet. *)
LEMMA Acquiring ==
    ASSUME TypeOK, Parts, NEW c \in Calls, phase[c] = "waiting", owner = NoCall, ~unusable,
           phase' = [phase EXCEPT ![c] = "writing"], owner' = c,
           UNCHANGED <<step, canceled, thread, answer, drained, outcome, unusable, pending>>,
           turn' = turn, LinesShrink, lines' \in Seq(Line)
    PROVE  Parts' /\ CallTypes' /\ owner' \in Threads /\ pending' \in SUBSET Request
  <1>1. CallTypes'
    BY InTypes DEF CallTypes, Phases
  <1>2. phase'[c] = "writing" /\ \A d \in Calls : d # c => phase'[d] = phase[d]
    BY DEF TypeOK
  <1>3. OthersKeep(c)
    BY <1>2, CallsAreThreads DEF OthersKeep
  <1>4. CallInv(c) /\ NotStarted(c)
    BY DEF Parts, NotStarted
  <1>5. CallInv(c)'
    BY <1>2, <1>4 DEF CallInv, NotStarted, Holding
  <1>6. Own(c)
    BY <1>2, <1>4, <1>5, NothingAsked DEF Own, RequestInv, Holding
  <1>7. pending' \in SUBSET Request /\ owner' \in Threads
    BY CallsAreThreads DEF TypeOK
  <1> QED BY <1>1, <1>3, <1>6, <1>7, Frame

-----------------------------------------------------------------------------
(* The actions of a call. *)

LEMMA Typed ==
    ASSUME TypeOK, CallTypes', owner' \in Threads, pending' \in SUBSET Request,
           unusable' \in BOOLEAN, lines' \in Seq(Line), nonsense' \in 0 .. MaxNonsense,
           UNCHANGED <<turn, pieces, running, failed, agent>>
    PROVE  TypeOK'
  BY DEF TypeOK, CallTypes

LEMMA AcquireStep ==
    ASSUME TypeOK, Parts, NEW c \in Calls, acquireOperation(c)
    PROVE  TypeOK' /\ Parts'
  <1>1. /\ phase[c] = "waiting" /\ owner = NoCall /\ NotStarted(c)
        /\ UNCHANGED <<turn, pieces, nonsense, lines, running, failed, agent>>
    BY DEF acquireOperation, childVars, NotStarted
  <1>2. LinesShrink /\ lines' \in Seq(Line)
    BY <1>1, Untouched DEF TypeOK
  <1>3. unusable' \in BOOLEAN
    BY DEF TypeOK, acquireOperation, Send
  <1> DEFINE Goal == Parts' /\ CallTypes' /\ owner' \in Threads /\ pending' \in SUBSET Request
  <1>4. CASE unusable
    <2>1. Return(c, "unusable") /\ unusable' = unusable
      BY <1>4 DEF acquireOperation
    <2>2. Goal
      BY <1>1, <1>2, <2>1, Left DEF Outcomes
    <2> QED BY <1>1, <1>2, <1>3, <2>2, Typed DEF TypeOK
  <1>5. CASE ~unusable /\ canceled[c] /\ Return(c, "canceled") /\ unusable' = unusable
    <2>1. Over(c)
      BY <1>1, NotStartedIsOver
    <2>2. pending' = pending
      BY <1>5 DEF Return
    <2>3. Over(c)'
      BY <1>1, <1>2, <2>1, <2>2, OverKeeps
    <2>4. Goal
      BY <1>1, <1>2, <1>5, <2>3, Left DEF Outcomes
    <2> QED BY <1>1, <1>2, <1>3, <2>4, Typed DEF TypeOK
  <1>6. CASE /\ ~unusable /\ phase' = [phase EXCEPT ![c] = "writing"] /\ owner' = c
             /\ UNCHANGED <<step, canceled, thread, answer, drained, outcome, unusable, pending>>
    <2>1. Goal
      BY <1>1, <1>2, <1>6, Acquiring
    <2> QED BY <1>1, <1>2, <1>3, <2>1, Typed DEF TypeOK
  <1> QED BY <1>4, <1>5, <1>6 DEF acquireOperation, Send

LEMMA WriteStep ==
    ASSUME TypeOK, Parts, NEW c \in Calls, WriteRequest(c)
    PROVE  TypeOK' /\ Parts'
  <1>1. /\ phase[c] = "writing" /\ NotStarted(c)
        /\ UNCHANGED <<turn, pieces, nonsense, lines, running, failed, agent>>
    BY DEF WriteRequest, childVars, NotStarted
  <1>2. LinesShrink /\ lines' \in Seq(Line)
    BY <1>1, Untouched DEF TypeOK
  <1>3. unusable' \in BOOLEAN
    BY DEF TypeOK, WriteRequest, Fail, Poison, Continue, clientVars
  <1> DEFINE Goal == Parts' /\ CallTypes' /\ owner' \in Threads /\ pending' \in SUBSET Request
  <1>4. CASE Fail(c)
    <2>1. Goal
      BY <1>1, <1>2, <1>4, Failed DEF Holding
    <2> QED BY <1>1, <1>2, <1>3, <2>1, Typed DEF TypeOK
  <1>5. CASE Continue(c, "read") /\ thread' = thread
    <2>1. Goal
      BY <1>1, <1>2, <1>5, Continuing
    <2> QED BY <1>1, <1>2, <1>3, <2>1, Typed DEF TypeOK
  <1>6. CASE /\ Write(c, step[c]) /\ phase' = [phase EXCEPT ![c] = "reading"]
             /\ UNCHANGED <<step, canceled, thread, answer, drained, outcome, clientVars>>
    <2>1. Goal
      BY <1>1, <1>2, <1>6, Sending
    <2> QED BY <1>1, <1>2, <1>3, <2>1, Typed DEF TypeOK
  <1> QED BY <1>4, <1>5, <1>6 DEF WriteRequest

LEMMA InterruptStep ==
    ASSUME TypeOK, Parts, NEW c \in Calls, Interrupt(c)
    PROVE  TypeOK' /\ Parts'
  <1>1. UNCHANGED <<turn, pieces, nonsense, lines, running, failed, agent>>
    BY DEF Interrupt, childVars
  <1>2. LinesShrink /\ lines' \in Seq(Line)
    BY <1>1, Untouched DEF TypeOK
  <1>3. unusable' \in BOOLEAN
    BY DEF TypeOK, Interrupt, Poison, clientVars
  <1>4. Parts' /\ CallTypes' /\ owner' \in Threads /\ pending' \in SUBSET Request
    BY <1>1, <1>2, Interrupting
  <1> QED BY <1>1, <1>2, <1>3, <1>4, Typed DEF TypeOK

(* The call stays as it is but for its phase and what it has collected.     *)
LEMMA Collecting ==
    ASSUME TypeOK, Parts, NEW c \in Calls, phase[c] \in Holding, phase'[c] \in Holding,
           CallTypes', OthersKeep(c), CallInv(c)',
           UNCHANGED <<step, thread, clientVars, pending, turn>>,
           NotStarted(c)' => NotStarted(c), "response" \in drained'[c] =>
              \A request \in pending : request.call = c => request.method # "interrupt",
           LinesShrink, lines' \in Seq(Line)
    PROVE  Parts'
  <1>1. step'[c] = step[c] /\ turn'[c] = turn[c] /\ pending' = pending
    OBVIOUS
  <1>2. \A request \in pending' : request.call = c => RequestInv(request)'
    <2> TAKE request \in pending'
    <2>1. RequestInv(request)
      BY <1>1 DEF Parts
    <2> QED BY <1>1, <2>1 DEF RequestInv
  <1>3. \A i \in DOMAIN lines' :
           lines'[i].kind = "response" /\ lines'[i].method = "interrupt" /\ lines'[i].call = c
              => Interrupted(c)'
    BY <1>1 DEF Parts, LineInv, Interrupted, LinesShrink
  <1>4. Own(c)
    BY <1>2, <1>3 DEF Own, Parts, OneReader, clientVars
  <1> QED BY <1>1, <1>4, Frame DEF TypeOK

(* The turn gives an error, or is to be interrupted. *)
LEMMA TurnFailing ==
    ASSUME TypeOK, Parts, NEW c \in Calls, phase[c] = "turn", TurnFailed(c),
           turn' = turn, LinesShrink, lines' \in Seq(Line)
    PROVE  /\ Parts' /\ CallTypes' /\ owner' \in Threads /\ pending' \in SUBSET Request
           /\ unusable' \in BOOLEAN
  <1>1. unusable' \in BOOLEAN
    BY DEF TypeOK, TurnFailed, clientVars
  <1>2. CASE /\ phase' = [phase EXCEPT ![c] = "interrupting"]
             /\ UNCHANGED <<step, canceled, thread, answer, drained, outcome, clientVars, pending>>
    <2>1. phase'[c] = "interrupting" /\ \A d \in Calls : d # c => phase'[d] = phase[d]
      BY <1>2 DEF TypeOK
    <2>2. CallTypes'
      BY <1>2, InTypes DEF CallTypes, Phases
    <2>3. OthersKeep(c)
      BY <1>2, <2>1 DEF OthersKeep, clientVars
    <2>4. CallInv(c)
      BY DEF Parts
    <2>5. CallInv(c)'
      BY <1>2, <2>1, <2>4 DEF CallInv, NotStarted, Holding
    <2>6. Parts'
      BY <1>2, <2>1, <2>2, <2>3, <2>4, <2>5, Collecting DEF NotStarted, Holding, CallInv
    <2> QED BY <1>1, <1>2, <2>2, <2>6 DEF TypeOK, clientVars
  <1>3. CASE Return(c, "error") /\ unusable' = unusable
    BY <1>1, <1>3, Left DEF Outcomes
  <1> QED BY <1>2, <1>3 DEF TurnFailed

LEMMA ContextDoneStep ==
    ASSUME TypeOK, Parts, NEW c \in Calls, ContextDone(c)
    PROVE  TypeOK' /\ Parts'
  <1>1. UNCHANGED <<turn, pieces, nonsense, lines, running, failed, agent>>
    BY DEF ContextDone, childVars
  <1>2. LinesShrink /\ lines' \in Seq(Line)
    BY <1>1, Untouched DEF TypeOK
  <1> DEFINE Goal == Parts' /\ CallTypes' /\ owner' \in Threads /\ pending' \in SUBSET Request
  <1>3. CASE NotStarted(c) /\ Return(c, "canceled") /\ unusable' = unusable
    <2>1. Over(c)
      BY <1>3, NotStartedIsOver
    <2>2. pending' = pending
      BY <1>3 DEF Return
    <2>3. Over(c)'
      BY <1>1, <1>2, <2>1, <2>2, OverKeeps
    <2>4. Goal
      BY <1>1, <1>2, <1>3, <2>3, Left DEF Outcomes
    <2> QED BY <1>1, <1>2, <1>3, <2>4, Typed DEF TypeOK
  <1>4. CASE phase[c] = "reading" /\ Poison(c)
    <2>1. Goal
      BY <1>1, <1>2, <1>4, Poisoned DEF Holding
    <2>2. unusable' \in BOOLEAN
      BY <1>4 DEF Poison
    <2> QED BY <1>1, <1>2, <2>1, <2>2, Typed DEF TypeOK
  <1>5. CASE phase[c] = "turn" /\ TurnFailed(c)
    <2>1. Goal /\ unusable' \in BOOLEAN
      BY <1>1, <1>2, <1>5, TurnFailing
    <2> QED BY <1>1, <1>2, <2>1, Typed DEF TypeOK
  <1> QED BY <1>3, <1>4, <1>5 DEF ContextDone, NotStarted

(* What EndOfStream and Undecodable have in common. *)
LEMMA Broken ==
    ASSUME TypeOK, Parts, NEW c \in Calls, turn' = turn, LinesShrink, lines' \in Seq(Line),
           \/ phase[c] = "reading" /\ Fail(c)
           \/ phase[c] = "turn" /\ TurnFailed(c)
           \/ phase[c] = "draining" /\ Poison(c)
    PROVE  /\ Parts' /\ CallTypes' /\ owner' \in Threads /\ pending' \in SUBSET Request
           /\ unusable' \in BOOLEAN
  <1>1. CASE phase[c] = "reading" /\ Fail(c)
    <2>1. unusable' \in BOOLEAN
      BY <1>1 DEF TypeOK, Fail, Poison
    <2> QED BY <1>1, <2>1, Failed DEF Holding
  <1>2. CASE phase[c] = "turn" /\ TurnFailed(c)
    BY <1>2, TurnFailing
  <1>3. CASE phase[c] = "draining" /\ Poison(c)
    <2>1. unusable' \in BOOLEAN
      BY <1>3 DEF Poison
    <2> QED BY <1>3, <2>1, Poisoned DEF Holding
  <1> QED BY <1>1, <1>2, <1>3

LEMMA BreakSteps ==
    ASSUME TypeOK, Parts, NEW c \in Calls,
           EndOfStream(c) \/ InterruptTimeout(c) \/ Undecodable(c)
    PROVE  TypeOK' /\ Parts'
  <1>1. CASE EndOfStream(c) \/ InterruptTimeout(c)
    <2>1. UNCHANGED <<turn, pieces, nonsense, lines, running, failed, agent>>
      BY <1>1 DEF EndOfStream, InterruptTimeout, childVars
    <2>2. LinesShrink /\ lines' \in Seq(Line)
      BY <2>1, Untouched DEF TypeOK
    <2>3. /\ Parts' /\ CallTypes' /\ owner' \in Threads /\ pending' \in SUBSET Request
          /\ unusable' \in BOOLEAN
      BY <1>1, <2>1, <2>2, Broken DEF EndOfStream, InterruptTimeout
    <2> QED BY <2>1, <2>2, <2>3, Typed DEF TypeOK
  <1>2. CASE Undecodable(c)
    <2>1. /\ UNCHANGED <<turn, pieces, running, failed, agent>>
          /\ nonsense' \in 0 .. MaxNonsense /\ lines # <<>> /\ Take
      BY <1>2, BoundAssumption DEF Undecodable, TypeOK
    <2>2. LinesShrink /\ lines' \in Seq(Line)
      BY <2>1, Taken DEF TypeOK
    <2>3. /\ Parts' /\ CallTypes' /\ owner' \in Threads /\ pending' \in SUBSET Request
          /\ unusable' \in BOOLEAN
      BY <1>2, <2>1, <2>2, Broken DEF Undecodable
    <2> QED BY <2>1, <2>2, <2>3, Typed
  <1> QED BY <1>1, <1>2

(* A line is read and the call itself stays as it is. *)
LEMMA SkipStep ==
    ASSUME TypeOK, Parts, NEW c \in Calls, Skip(c)
    PROVE  TypeOK' /\ Parts'
  <1>1. UNCHANGED <<callVars, clientVars, childVars, pending, running, failed, agent>>
    BY DEF Skip
  <1>2. LinesShrink /\ lines' \in Seq(Line)
    BY Taken DEF TypeOK, Skip
  <1>3. TypeOK'
    BY <1>1, <1>2 DEF TypeOK, callVars, clientVars, childVars
  <1>4. OthersKeep(c) /\ turn' = turn /\ pending' = pending
    BY <1>1 DEF OthersKeep, callVars, clientVars, childVars
  <1>5. Own(c)
    <2>1. CallInv(c)'
      <3>1. CallInv(c)
        BY DEF Parts
      <3>2. Over(c) => Over(c)'
        BY <1>2, <1>4, OverKeeps
      <3>3. "completion" \in drained[c] =>
               \A i \in DOMAIN lines' : lines'[i].kind # "response" => lines'[i].thread # c
        BY <1>2, <3>1 DEF CallInv, LinesShrink
      <3> QED BY <1>1, <3>1, <3>2, <3>3 DEF CallInv, callVars, childVars, NotStarted
    <2>2. \A request \in pending' : request.call = c => RequestInv(request)'
      BY <1>1 DEF Parts, RequestInv, callVars, childVars, NotStarted
    <2>3. \A i \in DOMAIN lines' :
             lines'[i].kind = "response" /\ lines'[i].method = "interrupt" /\ lines'[i].call = c
                => Interrupted(c)'
      BY <1>1, <1>2 DEF Parts, LineInv, Interrupted, LinesShrink, callVars
    <2> QED BY <1>1, <2>1, <2>2, <2>3 DEF Own, Parts, OneReader, callVars, clientVars
  <1> QED BY <1>2, <1>3, <1>4, <1>5, Frame DEF TypeOK

LEMMA ResponseStep ==
    ASSUME TypeOK, Parts, NEW c \in Calls, Response(c)
    PROVE  TypeOK' /\ Parts'
  <1>1. /\ UNCHANGED <<turn, pieces, nonsense, running, failed, agent>>
        /\ lines # <<>> /\ Take /\ phase[c] = "reading" /\ responseIDMatches(Head(lines), c)
    BY DEF Response, childVars
  <1>2. /\ LinesShrink /\ lines' \in Seq(Line)
        /\ 1 \in DOMAIN lines /\ Head(lines) = lines[1]
    BY <1>1, Taken DEF TypeOK
  <1>3. unusable' \in BOOLEAN
    BY DEF TypeOK, Response, Return, Fail, Poison, Continue, clientVars
  <1> DEFINE Goal == Parts' /\ CallTypes' /\ owner' \in Threads /\ pending' \in SUBSET Request
  <1>4. CASE Fail(c)
    <2>1. Goal
      BY <1>1, <1>2, <1>4, Failed DEF Holding
    <2> QED BY <1>1, <1>2, <1>3, <2>1, Typed DEF TypeOK
  <1>5. CASE \E next \in {"initialized", "fork"} : /\ step[c] \in {"initialize", "read"}
                                                   /\ Continue(c, next) /\ thread' = thread
    <2>1. Goal
      BY <1>1, <1>2, <1>5, Continuing DEF NotStarted
    <2> QED BY <1>1, <1>2, <1>3, <2>1, Typed DEF TypeOK
  <1>6. CASE \E o \in {"ok", "error"} : Return(c, o) /\ unusable' = unusable
    <2>1. Goal
      BY <1>1, <1>2, <1>6, Left DEF Outcomes
    <2> QED BY <1>1, <1>2, <1>3, <2>1, Typed DEF TypeOK
  <1>7. CASE /\ step[c] = "fork" /\ thread' = [thread EXCEPT ![c] = Head(lines).thread]
             /\ Continue(c, "start")
    <2>1. Head(lines).thread = c
      BY <1>1, <1>2, <1>7 DEF Parts, LineInv, responseIDMatches
    <2>2. NotStarted(c) /\ thread' = [thread EXCEPT ![c] = c] /\ thread'[c] = c
      BY <1>1, <1>7, <2>1 DEF NotStarted, TypeOK
    <2>3. Goal
      BY <1>1, <1>2, <1>7, <2>2, Continuing
    <2> QED BY <1>1, <1>2, <1>3, <2>3, Typed DEF TypeOK
  <1>8. CASE Poison(c)
    <2>1. Goal
      BY <1>1, <1>2, <1>8, Poisoned DEF Holding
    <2> QED BY <1>1, <1>2, <1>3, <2>1, Typed DEF TypeOK
  <1>9. CASE /\ step[c] = "start" /\ phase' = [phase EXCEPT ![c] = "turn"]
             /\ UNCHANGED <<step, canceled, thread, answer, drained, outcome, clientVars, pending>>
    <2>1. phase'[c] = "turn" /\ \A d \in Calls : d # c => phase'[d] = phase[d]
      BY <1>9 DEF TypeOK
    <2>2. CallTypes'
      BY <1>9, InTypes DEF CallTypes, Phases
    <2>3. OthersKeep(c)
      BY <1>9, <2>1 DEF OthersKeep, clientVars
    <2>4. CallInv(c)
      BY DEF Parts
    <2>5. CallInv(c)'
      BY <1>1, <1>9, <2>1, <2>4 DEF CallInv, NotStarted, Holding
    <2>6. Parts'
      BY <1>1, <1>2, <1>9, <2>1, <2>2, <2>3, <2>4, <2>5, Collecting
         DEF NotStarted, Holding, CallInv
    <2> QED BY <1>1, <1>2, <1>3, <1>9, <2>2, <2>6, Typed DEF TypeOK, clientVars
  <1> QED BY <1>4, <1>5, <1>6, <1>7, <1>8, <1>9 DEF Response

LEMMA TurnLineStep ==
    ASSUME TypeOK, Parts, NEW c \in Calls, TurnLine(c)
    PROVE  TypeOK' /\ Parts'
  <1> DEFINE line == Head(lines)
  <1>1. /\ UNCHANGED <<turn, pieces, nonsense, running, failed, agent>>
        /\ lines # <<>> /\ Take /\ phase[c] = "turn" /\ line.thread = thread[c]
        /\ line.kind \in {"delta", "item", "completed"}
    BY DEF TurnLine, childVars
  <1>2. /\ LinesShrink /\ lines' \in Seq(Line)
        /\ 1 \in DOMAIN lines /\ line = lines[1]
    BY <1>1, Taken DEF TypeOK
  <1>3. CallInv(c) /\ LineInv(1) /\ line.thread = c
    BY <1>1, <1>2 DEF Parts, CallInv
  <1>4. ASSUME answer'[c] \subseteq {c}, answer' \in [Calls -> SUBSET Calls],
               \A d \in Calls : d # c => answer'[d] = answer[d],
               UNCHANGED <<phase, step, canceled, thread, drained, outcome, clientVars, pending>>
        PROVE  TypeOK' /\ Parts'
    <2>1. CallTypes'
      BY <1>4 DEF TypeOK, CallTypes
    <2>2. OthersKeep(c)
      BY <1>4 DEF OthersKeep, clientVars
    <2>3. CallInv(c)'
      BY <1>1, <1>3, <1>4 DEF CallInv, NotStarted, Holding
    <2>4. Parts'
      BY <1>1, <1>2, <1>3, <1>4, <2>1, <2>2, <2>3, Collecting DEF NotStarted, Holding, CallInv
    <2> QED BY <1>1, <1>2, <1>4, <2>1, <2>4, Typed DEF TypeOK, clientVars
  <1>5. CASE line.kind = "delta" \/ line.kind = "item"
    <2>1. /\ answer' = [answer EXCEPT ![c] = @ \union {c}] \/ answer' = [answer EXCEPT ![c] = {c}]
          /\ UNCHANGED <<phase, step, canceled, thread, drained, outcome, clientVars, pending>>
      BY <1>3, <1>5 DEF TurnLine
    <2>2. answer[c] \subseteq {c} /\ answer \in [Calls -> SUBSET Calls]
      BY <1>3 DEF CallInv, TypeOK
    <2>3. /\ answer'[c] \subseteq {c} /\ answer' \in [Calls -> SUBSET Calls]
          /\ \A d \in Calls : d # c => answer'[d] = answer[d]
      BY <2>1, <2>2
    <2> QED BY <1>4, <2>1, <2>3
  <1>6. CASE TurnFailed(c)
    <2>1. /\ Parts' /\ CallTypes' /\ owner' \in Threads /\ pending' \in SUBSET Request
          /\ unusable' \in BOOLEAN
      BY <1>1, <1>2, <1>6, TurnFailing
    <2> QED BY <1>1, <1>2, <2>1, Typed DEF TypeOK
  <1>7. CASE /\ line.kind = "completed" /\ line.value = "completed" /\ answer[c] # {}
             /\ Return(c, "answer") /\ unusable' = unusable
    <2>1. thread[c] = c /\ turn[c] = "completed" /\ answer[c] = {c}
      BY <1>1, <1>2, <1>3, <1>7 DEF CallInv, LineInv
    <2>2. Parts' /\ CallTypes' /\ owner' \in Threads /\ pending' \in SUBSET Request
      BY <1>1, <1>2, <1>7, <2>1, Left DEF Outcomes
    <2> QED BY <1>1, <1>2, <1>7, <2>2, Typed DEF TypeOK
  <1> QED BY <1>5, <1>6, <1>7 DEF TurnLine

(* After its completion nothing on the stream is about a turn. *)
LEMMA CompletionIsLast ==
    ASSUME TypeOK, Parts, lines # <<>>, Take, Head(lines).kind = "completed"
    PROVE  /\ turn[Head(lines).thread] \in Terminal
           /\ \A i \in DOMAIN lines' :
                 lines'[i].kind # "response" => lines'[i].thread # Head(lines).thread
  <1>1. /\ 1 \in DOMAIN lines /\ Head(lines) = lines[1] /\ Head(lines) \in Line
        /\ \A i \in DOMAIN lines' :
              i \in Int /\ i > 0 /\ i + 1 \in DOMAIN lines /\ lines'[i] = lines[i + 1]
    BY Taken DEF TypeOK
  <1>2. LineInv(1)
    BY <1>1 DEF Parts
  <1>3. /\ turn[Head(lines).thread] = Head(lines).value /\ Head(lines).thread \in Calls
        /\ \A j \in DOMAIN lines :
              j > 1 => lines[j].kind = "response" \/ lines[j].thread # Head(lines).thread
    BY <1>1, <1>2 DEF LineInv
  <1>4. turn[Head(lines).thread] \in Terminal
    BY <1>1, <1>3 DEF TypeOK, Line, Values, Terminal
  <1>5. \A i \in DOMAIN lines' : i + 1 > 1
    BY <1>1
  <1> QED BY <1>1, <1>3, <1>4, <1>5

LEMMA DrainLineStep ==
    ASSUME TypeOK, Parts, NEW c \in Calls, DrainLine(c)
    PROVE  TypeOK' /\ Parts'
  <1> DEFINE line == Head(lines)
  <1>1. /\ UNCHANGED <<turn, pieces, nonsense, running, failed, agent>>
        /\ lines # <<>> /\ Take /\ phase[c] = "draining"
    BY DEF DrainLine, childVars
  <1>2. /\ LinesShrink /\ lines' \in Seq(Line)
        /\ 1 \in DOMAIN lines /\ line = lines[1]
    BY <1>1, Taken DEF TypeOK
  <1>3. CallInv(c) /\ LineInv(1) /\ thread[c] = c /\ step[c] = "interrupt"
    BY <1>1, <1>2 DEF Parts, CallInv
  <1>4. CASE Poison(c)
    <2>1. Parts' /\ CallTypes' /\ owner' \in Threads /\ pending' \in SUBSET Request
      BY <1>1, <1>2, <1>4, Poisoned DEF Holding
    <2> QED BY <1>1, <1>2, <1>4, <2>1, Typed DEF TypeOK, Poison
  <1>5. CASE \E what \in {"response", "completion"} :
                /\ Received(c, what)
                /\ what = "response" => responseIDMatches(line, c)
                /\ what = "completion" => line.kind = "completed" /\ line.thread = thread[c]
    <2> PICK what \in {"response", "completion"} :
                /\ Received(c, what)
                /\ what = "response" => responseIDMatches(line, c)
                /\ what = "completion" => line.kind = "completed" /\ line.thread = thread[c]
      BY <1>5
    <2> DEFINE now == drained[c] \union {what}
    <2>1. "response" \in now =>
             \A request \in pending : request.call = c => request.method # "interrupt"
      BY <1>2, <1>3 DEF Parts, RequestInv, LineInv, Interrupted, responseIDMatches
    <2>2. "completion" \in now =>
             /\ turn[c] \in Terminal
             /\ \A i \in DOMAIN lines' : lines'[i].kind # "response" => lines'[i].thread # c
      <3>1. CASE what = "completion"
        BY <1>1, <1>3, <3>1, CompletionIsLast
      <3>2. CASE "completion" \in drained[c]
        <4>1. /\ turn[c] \in Terminal
              /\ \A i \in DOMAIN lines : lines[i].kind # "response" => lines[i].thread # c
          BY <1>3, <3>2 DEF CallInv
        <4> QED BY <1>2, <4>1 DEF LinesShrink
      <3> QED BY <3>1, <3>2
    <2>3. CASE now = {"response", "completion"}
      <3>1. Return(c, "canceled") /\ unusable' = unusable
        BY <2>3 DEF Received
      <3>2. pending' = pending
        BY <3>1 DEF Return
      <3>3. \A request \in pending :
               request.call = c => request.method \notin {"start", "interrupt"}
        BY <2>1, <2>2, <2>3 DEF Parts, RequestInv, Terminal
      <3>4. Over(c)'
        BY <1>1, <2>2, <2>3, <3>2, <3>3 DEF Over, Terminal
      <3>5. Parts' /\ CallTypes' /\ owner' \in Threads /\ pending' \in SUBSET Request
        BY <1>1, <1>2, <3>1, <3>4, Left DEF Outcomes
      <3> QED BY <1>1, <1>2, <3>1, <3>5, Typed DEF TypeOK
    <2>4. CASE now # {"response", "completion"}
      <3>1. /\ drained' = [drained EXCEPT ![c] = now]
            /\ UNCHANGED <<phase, step, canceled, thread, answer, outcome, clientVars, pending>>
        BY <2>4 DEF Received
      <3>2. drained'[c] = now /\ \A d \in Calls : d # c => drained'[d] = drained[d]
        BY <3>1 DEF TypeOK
      <3>3. CallTypes'
        BY <3>1, InTypes DEF CallTypes
      <3>4. OthersKeep(c)
        BY <3>1, <3>2 DEF OthersKeep, clientVars
      <3>5. CallInv(c)'
        BY <1>1, <1>3, <2>2, <3>1, <3>2 DEF CallInv, NotStarted, Holding
      <3>6. Parts'
        BY <1>1, <1>2, <2>1, <3>1, <3>2, <3>3, <3>4, <3>5, Collecting DEF NotStarted, Holding
      <3> QED BY <1>1, <1>2, <3>1, <3>3, <3>6, Typed DEF TypeOK, clientVars
    <2> QED BY <2>3, <2>4
  <1> QED BY <1>4, <1>5 DEF DrainLine

LEMMA AskStep ==
    ASSUME TypeOK, Parts, NEW c \in Calls, Ask(c)
    PROVE  TypeOK' /\ Parts'
  <1>1. /\ UNCHANGED <<step, canceled, thread, answer, drained, clientVars, childVars,
                       lines, pending, running, failed, agent>>
        /\ phase[c] = "idle"
        /\ \/ phase' = [phase EXCEPT ![c] = "done"] /\ outcome' = [outcome EXCEPT ![c] = "error"]
           \/ phase' = [phase EXCEPT ![c] = "waiting"] /\ outcome' = outcome
    BY DEF Ask
  <1>2. LinesShrink /\ lines' \in Seq(Line)
    BY <1>1, Untouched DEF TypeOK
  <1>3. CallTypes'
    BY <1>1, InTypes DEF CallTypes, Phases, Outcomes
  <1>4. TypeOK'
    BY <1>1, <1>3, Typed DEF TypeOK, clientVars, childVars
  <1>5. /\ \A d \in Calls : d # c => phase'[d] = phase[d] /\ outcome'[d] = outcome[d]
        /\ \/ phase'[c] = "done" /\ outcome'[c] = "error"
           \/ phase'[c] = "waiting" /\ outcome'[c] = outcome[c]
    BY <1>1 DEF TypeOK
  <1>6. OthersKeep(c)
    BY <1>1, <1>5 DEF OthersKeep, clientVars
  <1>7. CallInv(c) /\ NotStarted(c)
    BY <1>1 DEF Parts, NotStarted
  <1>8. CallInv(c)'
    BY <1>1, <1>5, <1>7 DEF CallInv, NotStarted, Holding, childVars
  <1>9. owner # c /\ (unusable => owner = NoCall)
    BY <1>1 DEF Parts, OneReader, Holding
  <1>10. Own(c)
    BY <1>1, <1>2, <1>5, <1>7, <1>8, <1>9, NothingAsked DEF Own, RequestInv, Holding, clientVars
  <1> QED BY <1>1, <1>2, <1>4, <1>6, <1>10, Frame DEF TypeOK, childVars

(* Calls that have left move on, and the child may forget what it was asked. *)
After == {"returned", "stopping", "marking", "done"}

LEMMA Onward ==
    ASSUME TypeOK, Parts, pending' \subseteq pending,
           UNCHANGED <<step, thread, answer, drained, outcome, clientVars, turn, lines>>,
           \A d \in Calls : phase'[d] = phase[d] \/ (phase[d] \in After /\ phase'[d] \in After)
    PROVE  Parts'
  <1>1. ASSUME NEW c \in Calls PROVE CallInv(c)'
    <2>1. CallInv(c)
      BY DEF Parts
    <2>2. Over(c) => Over(c)'
      BY DEF Over
    <2>3. phase'[c] = phase[c] \/ (phase[c] \in After /\ phase'[c] \in After)
      OBVIOUS
    <2> QED BY <2>1, <2>2, <2>3 DEF CallInv, NotStarted, Holding, After
  <1>2. ASSUME NEW request \in pending' PROVE RequestInv(request)'
    <2>1. RequestInv(request) /\ request.call \in Calls
      BY DEF Parts, TypeOK, Request
    <2>2. LET c == request.call
          IN  phase'[c] = phase[c] \/ (phase[c] \in After /\ phase'[c] \in After)
      BY <2>1
    <2> QED BY <2>1, <2>2 DEF RequestInv, NotStarted, After
  <1>3. ASSUME NEW i \in DOMAIN lines' PROVE LineInv(i)'
    <2>1. LineInv(i)
      BY DEF Parts
    <2> QED BY <2>1 DEF LineInv, Interrupted
  <1>4. ASSUME NEW c \in Calls PROVE (phase'[c] \in Holding) <=> (owner' = c)
    <2>1. phase'[c] = phase[c] \/ (phase[c] \in After /\ phase'[c] \in After)
      OBVIOUS
    <2> QED BY <2>1 DEF Parts, OneReader, Holding, After, clientVars
  <1> QED BY <1>1, <1>2, <1>3, <1>4 DEF Parts, OneReader, clientVars

LEMMA AfterStep ==
    ASSUME TypeOK, Parts,
           \/ \E c \in Calls : Monitor(c) \/ stopAppServerProcess(c) \/ MarkAgentUnavailable(c)
           \/ \E c \in Calls : Cancel(c)
           \/ ChildExits
    PROVE  TypeOK' /\ Parts'
  <1>1. CASE \E c \in Calls : Monitor(c) \/ stopAppServerProcess(c) \/ MarkAgentUnavailable(c)
    <2> PICK c \in Calls : Monitor(c) \/ stopAppServerProcess(c) \/ MarkAgentUnavailable(c)
      BY <1>1
    <2>1. \E p \in After : phase' = [phase EXCEPT ![c] = p] /\ phase[c] \in After
      BY DEF Monitor, stopAppServerProcess, MarkAgentUnavailable, After
    <2>2. /\ UNCHANGED <<step, canceled, thread, answer, drained, outcome, clientVars,
                         childVars, lines>>
          /\ pending' \subseteq pending /\ running' \in BOOLEAN /\ failed' \in BOOLEAN
          /\ agent' \in {"probing", "available", "unavailable"}
      BY DEF Monitor, stopAppServerProcess, MarkAgentUnavailable, TypeOK
    <2>3. phase' \in [Calls -> Phases] /\ pending' \in SUBSET Request
      BY <2>1, <2>2 DEF TypeOK, After, Phases
    <2>4. TypeOK'
      BY <2>2, <2>3 DEF TypeOK, clientVars, childVars
    <2>5. \A d \in Calls : phase'[d] = phase[d] \/ (phase[d] \in After /\ phase'[d] \in After)
      BY <2>1 DEF TypeOK
    <2>6. Parts'
      BY <2>2, <2>5, Onward DEF childVars
    <2> QED BY <2>4, <2>6
  <1>2. CASE (\E c \in Calls : Cancel(c)) \/ ChildExits
    <2>1. /\ UNCHANGED <<phase, step, thread, answer, drained, outcome, clientVars, childVars,
                         lines, failed, agent>>
          /\ pending' \subseteq pending /\ running' \in BOOLEAN
          /\ canceled' \in [Calls -> BOOLEAN]
      BY <1>2 DEF Cancel, ChildExits, callVars, TypeOK
    <2>2. TypeOK'
      <3>1. pending' \in SUBSET Request
        BY <2>1 DEF TypeOK
      <3> QED BY <2>1, <3>1 DEF TypeOK, clientVars, childVars
    <2>3. Parts'
      BY <2>1, Onward DEF childVars
    <2> QED BY <2>2, <2>3
  <1> QED BY <1>1, <1>2

-----------------------------------------------------------------------------
(* The actions of the child. *)

LEMMA Appended ==
    ASSUME lines \in Seq(Line), NEW line \in Line, Emit(line)
    PROVE  /\ lines' \in Seq(Line)
           /\ \A i \in DOMAIN lines' :
                 \/ i \in DOMAIN lines /\ lines'[i] = lines[i]
                 \/ i \notin DOMAIN lines /\ lines'[i] = line
           /\ \A i \in DOMAIN lines', j \in DOMAIN lines' :
                 j > i => i \in DOMAIN lines
  <1>1. /\ lines' \in Seq(Line) /\ Len(lines') = Len(lines) + 1 /\ Len(lines) \in Nat
        /\ \A i \in 1 .. Len(lines) : lines'[i] = lines[i]
        /\ lines'[Len(lines) + 1] = line
    BY AppendProperties, LenProperties DEF Emit
  <1>2. DOMAIN lines' = 1 .. Len(lines') /\ DOMAIN lines = 1 .. Len(lines)
    BY <1>1, LenProperties
  <1> QED BY <1>1, <1>2

(* One line more, and turns that go on as the line tells. *)
LEMMA Emitting ==
    ASSUME TypeOK, Parts, UNCHANGED <<callVars, clientVars>>, pending' \subseteq pending,
           NEW line \in Line, Emit(line),
           \A d \in Calls : turn'[d] # turn[d] =>
              /\ turn[d] \in {"none", "running"} /\ turn'[d] # "none" /\ ~NotStarted(d)
              /\ turn'[d] = "running" =>
                    \E request \in pending : request.method = "start" /\ request.call = d,
           \A request \in pending' :
              request.method = "start" => turn'[request.call] = turn[request.call],
           line.kind = "response" =>
              /\ line.call \in Calls
              /\ line.method = "fork" => line.thread = line.call
              /\ line.method = "interrupt" => Interrupted(line.call)',
           line.kind # "response" =>
              /\ line.thread \in Calls
              /\ turn[line.thread] = "running" /\ turn'[line.thread] # "none",
           line.kind = "completed" => turn'[line.thread] = line.value
    PROVE  Parts'
  <1>1. /\ \A i \in DOMAIN lines' :
              \/ i \in DOMAIN lines /\ lines'[i] = lines[i]
              \/ i \notin DOMAIN lines /\ lines'[i] = line
        /\ \A i \in DOMAIN lines', j \in DOMAIN lines' : j > i => i \in DOMAIN lines
    BY Appended DEF TypeOK
  <1>2. ASSUME NEW c \in Calls PROVE CallInv(c)'
    <2>1. CallInv(c)
      BY DEF Parts
    <2>2. UNCHANGED <<phase, step, thread, answer, drained, outcome>>
      BY DEF callVars
    <2>3. NotStarted(c)' => NotStarted(c)
      BY <2>2 DEF NotStarted
    <2>4. ASSUME turn[c] # "running",
                 \A i \in DOMAIN lines : lines[i].kind # "response" => lines[i].thread # c
          PROVE  \A i \in DOMAIN lines' : lines'[i].kind # "response" => lines'[i].thread # c
      BY <1>1, <2>4
    <2>5. ASSUME Over(c) PROVE Over(c)'
      <3>1. turn'[c] # "running"
        BY <2>5 DEF Over
      <3> QED BY <2>4, <2>5, <3>1 DEF Over
    <2>6. turn[c] \in Terminal => turn'[c] = turn[c]
      BY DEF Terminal
    <2> QED BY <2>1, <2>2, <2>3, <2>4, <2>5, <2>6 DEF CallInv, Terminal
  <1>3. ASSUME NEW request \in pending' PROVE RequestInv(request)'
    <2>1. RequestInv(request)
      BY DEF Parts
    <2> QED BY <2>1 DEF RequestInv, NotStarted, callVars
  <1>4. ASSUME NEW i \in DOMAIN lines' PROVE LineInv(i)'
    <2>1. CASE i \in DOMAIN lines /\ lines'[i] = lines[i]
      <3>1. LineInv(i)
        BY <2>1 DEF Parts
      <3>2. ASSUME lines[i].kind = "response", lines[i].method = "interrupt"
            PROVE  Interrupted(lines[i].call)'
        <4>1. Interrupted(lines[i].call)
          BY <3>1, <3>2 DEF LineInv
        <4>2. pending' \subseteq pending /\ step' = step /\ lines'[i] = lines[i]
          BY <2>1 DEF callVars
        <4> QED BY <4>1, <4>2 DEF Interrupted
      <3>3. ASSUME lines[i].kind # "response"
            PROVE  lines[i].thread \in Calls /\ turn'[lines[i].thread] # "none"
        BY <3>1, <3>3 DEF LineInv
      <3>4. ASSUME lines[i].kind = "completed"
            PROVE  /\ turn'[lines[i].thread] = lines[i].value
                   /\ \A j \in DOMAIN lines' :
                         j > i => lines'[j].kind = "response" \/ lines'[j].thread # lines[i].thread
        <4>1. /\ turn[lines[i].thread] = lines[i].value /\ lines[i].thread \in Calls
              /\ \A j \in DOMAIN lines :
                    j > i => lines[j].kind = "response" \/ lines[j].thread # lines[i].thread
          BY <3>1, <3>4 DEF LineInv
        <4>2. turn[lines[i].thread] \in Terminal
          <5>1. lines[i] \in Line
            BY <2>1, ElementOfSeq, LenProperties DEF TypeOK
          <5>2. lines[i].value \in Values
            BY <5>1 DEF Line
          <5>3. turn[lines[i].thread] \in Terminal \union {"none", "running"}
            BY <4>1 DEF TypeOK
          <5> QED BY <4>1, <5>2, <5>3 DEF Values, Terminal
        <4>3. turn'[lines[i].thread] = turn[lines[i].thread]
          BY <4>1, <4>2 DEF Terminal
        <4> QED BY <1>1, <4>1, <4>2, <4>3 DEF Terminal
      <3> QED BY <2>1, <3>1, <3>2, <3>3, <3>4 DEF LineInv
    <2>2. CASE i \notin DOMAIN lines /\ lines'[i] = line
      <3>1. \A j \in DOMAIN lines' : ~(j > i)
        BY <1>1, <2>2
      <3>2. line.kind = "response" /\ line.method = "interrupt" =>
                Interrupted(lines[i].call)' \/ lines'[i] = line
        BY <2>2
      <3> QED BY <2>2, <3>1 DEF LineInv, Interrupted
    <2> QED BY <1>1, <2>1, <2>2
  <1>5. OneReader' /\ (unusable' => owner' = NoCall)
    BY DEF Parts, OneReader, callVars, clientVars
  <1> QED BY <1>2, <1>3, <1>4, <1>5 DEF Parts

LEMMA ChildAnswersStep ==
    ASSUME TypeOK, Parts, ChildAnswers
    PROVE  TypeOK' /\ Parts'
  <1> PICK request \in pending, value \in {"ok", "bad", "error"} :
          /\ value = "bad" => request.method \in {"read", "fork", "start"}
          /\ Emit(ResponseLine(request, value))
          /\ turn' = IF request.method = "start" /\ value # "error"
                     THEN [turn EXCEPT ![request.thread] = "running"] ELSE turn
          /\ pending' = pending \ {request}
    BY DEF ChildAnswers
  <1> DEFINE c == request.call
             line == ResponseLine(request, value)
  <1>1. /\ UNCHANGED <<callVars, clientVars, pieces, nonsense, running, failed, agent>>
        /\ pending' \subseteq pending /\ pending' \in SUBSET Request
    BY DEF ChildAnswers, TypeOK
  <1>2. request \in Request /\ c \in Calls /\ RequestInv(request)
    BY DEF TypeOK, Request, Parts
  <1>3. /\ line.kind = "response" /\ line.call = c /\ line.method = request.method
        /\ line.method = "fork" => line.thread = c
    BY DEF ResponseLine
  <1>4. line \in Line
    BY <1>2, CallsAreThreads DEF ResponseLine, Line, Kinds, Values, Request
  <1>5. lines' \in Seq(Line)
    BY <1>4, Appended DEF TypeOK
  <1>6. turn' \in [Calls -> Terminal \union {"none", "running"}]
    BY DEF TypeOK
  <1>7. TypeOK'
    BY <1>1, <1>5, <1>6 DEF TypeOK, callVars, clientVars
  <1>8. \A r \in pending' : r.method = request.method /\ r.method \in {"start", "interrupt"}
                               => r.call # c
    <2> SUFFICES ASSUME NEW r \in pending', r.method = request.method, r.call = c,
                        r.method \in {"start", "interrupt"}
                 PROVE  r = request
      OBVIOUS
    <2>1. r \in Request /\ RequestInv(r)
      BY DEF TypeOK, Parts
    <2>2. r.thread = request.thread
      BY <1>2, <2>1 DEF RequestInv
    <2> QED BY <1>2, <2>1, <2>2 DEF Request
  <1>9. line.method = "interrupt" => Interrupted(c)'
    BY <1>1, <1>2, <1>3, <1>8 DEF RequestInv, Interrupted, callVars
  <1>10. CASE request.method = "start" /\ value # "error"
    <2>1. /\ turn[c] = "none" /\ ~NotStarted(c) /\ turn'[c] = "running"
          /\ \A d \in Calls : d # c => turn'[d] = turn[d]
      BY <1>2, <1>10 DEF RequestInv, TypeOK
    <2>2. \A r \in pending' : r.method = "start" => turn'[r.call] = turn[r.call]
      BY <1>1, <1>8, <1>10, <2>1 DEF Request
    <2>3. Parts'
      BY <1>1, <1>2, <1>3, <1>4, <1>9, <1>10, <2>1, <2>2, Emitting
    <2> QED BY <1>7, <2>3
  <1>11. CASE ~(request.method = "start" /\ value # "error")
    <2>1. turn' = turn
      BY <1>11
    <2>2. Parts'
      BY <1>1, <1>2, <1>3, <1>4, <1>9, <2>1, Emitting
    <2> QED BY <1>7, <2>2
  <1> QED BY <1>10, <1>11

LEMMA ChildTurnStep ==
    ASSUME TypeOK, Parts, ChildWrites \/ ChildEndsTurn
    PROVE  TypeOK' /\ Parts'
  <1>1. CASE ChildWrites
    <2> PICK t \in Calls, kind \in {"delta", "item"} :
            turn[t] = "running" /\ Emit(Notification(kind, t, ""))
      BY <1>1 DEF ChildWrites
    <2> DEFINE line == Notification(kind, t, "")
    <2>1. /\ UNCHANGED <<callVars, clientVars, pending, turn, nonsense, running, failed, agent>>
          /\ pieces' \in 0 .. MaxPieces
      <3>1. pieces \in 0 .. MaxPieces /\ pieces < MaxPieces /\ pieces' = pieces + 1
        BY <1>1 DEF ChildWrites, TypeOK
      <3>2. pieces + 1 \in 0 .. MaxPieces
        BY <3>1, Counted, BoundAssumption, Zenon
      <3> QED BY <1>1, <3>1, <3>2 DEF ChildWrites
    <2>2. line \in Line /\ line.kind \in {"delta", "item"} /\ line.thread = t
      BY CallsAreThreads DEF Notification, Line, Kinds, Values
    <2>3. TypeOK'
      <3>1. lines' \in Seq(Line)
        BY <2>2, Appended DEF TypeOK
      <3> QED BY <2>1, <3>1 DEF TypeOK, callVars, clientVars
    <2>4. Parts'
      BY <2>1, <2>2, Emitting
    <2> QED BY <2>3, <2>4
  <1>2. CASE ChildEndsTurn
    <2> PICK t \in Calls, value \in Terminal :
            /\ turn[t] = "running" /\ turn' = [turn EXCEPT ![t] = value]
            /\ Emit(Notification("completed", t, value))
      BY <1>2 DEF ChildEndsTurn
    <2> DEFINE line == Notification("completed", t, value)
    <2>1. UNCHANGED <<callVars, clientVars, pending, pieces, nonsense, running, failed, agent>>
      BY <1>2 DEF ChildEndsTurn
    <2>2. /\ line \in Line /\ line.kind = "completed" /\ line.thread = t
          /\ line.value = value
      BY CallsAreThreads DEF Notification, Line, Kinds, Values
    <2>3. /\ turn'[t] = value /\ \A d \in Calls : d # t => turn'[d] = turn[d]
          /\ turn' \in [Calls -> Terminal \union {"none", "running"}]
      BY DEF TypeOK
    <2>4. TypeOK'
      <3>1. lines' \in Seq(Line)
        BY <2>2, Appended DEF TypeOK
      <3> QED BY <2>1, <2>3, <3>1 DEF TypeOK, callVars, clientVars
    <2>5. ~NotStarted(t) /\ value \notin {"none", "running"}
      BY DEF Parts, CallInv, Terminal
    <2>6. \A request \in pending' :
             request.method = "start" => turn'[request.call] = turn[request.call]
      BY <2>1, <2>3 DEF Parts, RequestInv, TypeOK, Request
    <2>7. Parts'
      BY <2>1, <2>2, <2>3, <2>5, <2>6, Emitting
    <2> QED BY <2>4, <2>7
  <1> QED BY <1>1, <1>2

-----------------------------------------------------------------------------
(* The theorems. *)

LEMMA InitParts == Init => TypeOK /\ Parts
  <1> SUFFICES ASSUME Init PROVE TypeOK /\ Parts
    OBVIOUS
  <1>1. lines \in Seq(Line) /\ DOMAIN lines = {}
    BY EmptySeq DEF Init
  <1>2. pending \in SUBSET Request /\ pending = {}
    BY DEF Init
  <1>3. CallTypes
    BY CallsAreThreads, CallAssumption
       DEF Init, CallTypes, Calls, Threads, Phases, Methods, Outcomes
  <1>4. TypeOK
    <2>1. pieces \in 0 .. MaxPieces /\ nonsense \in 0 .. MaxNonsense
      BY BoundAssumption DEF Init
    <2>2. turn \in [Calls -> Terminal \union {"none", "running"}]
      BY DEF Init
    <2> QED BY <1>1, <1>2, <1>3, <2>1, <2>2, CallsAreThreads DEF Init, TypeOK, CallTypes
  <1>5. \A c \in Calls : CallInv(c)
    BY DEF Init, CallInv, NotStarted, Holding
  <1>6. OneReader
    BY CallsAreThreads DEF Init, OneReader, Holding
  <1> QED BY <1>1, <1>2, <1>4, <1>5, <1>6 DEF Init, Parts

LEMMA StepParts ==
    ASSUME TypeOK, Parts, [Next]_vars
    PROVE  TypeOK' /\ Parts'
  <1>1. ASSUME NEW c \in Calls, Proceed(c) PROVE TypeOK' /\ Parts'
    <2>1. CASE acquireOperation(c)
      BY <2>1, AcquireStep
    <2>2. CASE ContextDone(c)
      BY <2>2, ContextDoneStep
    <2>3. CASE InterruptTimeout(c) \/ EndOfStream(c) \/ Undecodable(c)
      BY <2>3, BreakSteps
    <2>4. CASE Skip(c)
      BY <2>4, SkipStep
    <2>5. CASE Response(c)
      BY <2>5, ResponseStep
    <2>6. CASE TurnLine(c)
      BY <2>6, TurnLineStep
    <2>7. CASE DrainLine(c)
      BY <2>7, DrainLineStep
    <2>8. CASE Monitor(c) \/ stopAppServerProcess(c) \/ MarkAgentUnavailable(c)
      BY <2>8, AfterStep
    <2>9. CASE WriteRequest(c)
      BY <2>9, WriteStep
    <2>10. CASE Interrupt(c)
      BY <2>10, InterruptStep
    <2> QED BY <1>1, <2>1, <2>2, <2>3, <2>4, <2>5, <2>6, <2>7, <2>8, <2>9, <2>10 DEF Proceed
  <1>2. CASE \E c \in Calls : Ask(c)
    BY <1>2, AskStep
  <1>3. CASE (\E c \in Calls : Cancel(c)) \/ ChildExits
    BY <1>3, AfterStep
  <1>4. CASE ChildAnswers
    BY <1>4, ChildAnswersStep
  <1>5. CASE ChildWrites \/ ChildEndsTurn
    BY <1>5, ChildTurnStep
  <1>6. CASE UNCHANGED vars
    <2>1. TypeOK'
      BY <1>6 DEF TypeOK, vars, callVars, clientVars, childVars
    <2>2. Parts'
      BY <1>6, Onward DEF vars, callVars, clientVars, childVars
    <2> QED BY <2>1, <2>2
  <1> QED BY <1>1, <1>2, <1>3, <1>4, <1>5, <1>6 DEF Next, Child

LEMMA Inductive == Spec => [](TypeOK /\ Parts)
  <1>1. TypeOK /\ Parts /\ [Next]_vars => (TypeOK /\ Parts)'
    BY StepParts
  <1> QED BY InitParts, <1>1, PTL DEF Spec

(* The variables of the client keep their types. *)
THEOREM TypeCorrect == Spec => []TypeOK
  BY Inductive, PTL

(* The stream has one reader, and requests, lines and turns fit the calls.  *)
THEOREM Invariance == Spec => []IInv
  BY Inductive, InParts, PTL

(* An answer is the whole text of the caller's own turn, which ended well.  *)
THEOREM AnswersBelong == Spec => []AnswersAreOwn
  <1>1. IInv => AnswersAreOwn
    BY DEF IInv
  <1> QED BY <1>1, Invariance, PTL

(* A canceled question leaves nothing behind on a client that stays usable. *)
THEOREM CancellationsAreClean == Spec => []CanceledTurnsAreOver
  <1>1. IInv => CanceledTurnsAreOver
    BY DEF IInv
  <1> QED BY <1>1, Invariance, PTL

(* Once a call lost track of a turn, no further request reaches the child.  *)
THEOREM LostClientIsSilent == Spec => UnusableIsSilent
  <1>1. TypeOK /\ Parts /\ [Next]_vars => [unusable => pending' \subseteq pending]_vars
    <2> SUFFICES ASSUME TypeOK, Parts, Next, unusable PROVE pending' \subseteq pending
      BY DEF vars, callVars, clientVars, childVars
    <2>1. owner = NoCall /\ \A c \in Calls : phase[c] \notin Holding
      BY CallsAreThreads DEF Parts, OneReader
    <2>2. ASSUME NEW c \in Calls, Proceed(c) PROVE pending' \subseteq pending
      <3>1. CASE acquireOperation(c)
        BY <3>1 DEF acquireOperation, Send, Return
      <3>2. CASE ContextDone(c)
        BY <2>1, <3>2 DEF ContextDone, Return, Holding
      <3>3. CASE Monitor(c) \/ stopAppServerProcess(c) \/ MarkAgentUnavailable(c)
        BY <3>3 DEF Monitor, stopAppServerProcess, MarkAgentUnavailable
      <3>4. ~(\/ WriteRequest(c) \/ Interrupt(c)
              \/ InterruptTimeout(c) \/ EndOfStream(c) \/ Skip(c) \/ Undecodable(c)
              \/ Response(c) \/ TurnLine(c) \/ DrainLine(c))
        BY <2>1 DEF WriteRequest, Interrupt, InterruptTimeout, EndOfStream, Skip, Undecodable,
                    Response, TurnLine,
                    DrainLine, Holding
      <3> QED BY <2>2, <3>1, <3>2, <3>3, <3>4 DEF Proceed
    <2>3. ASSUME NEW c \in Calls, Ask(c) \/ Cancel(c) PROVE pending' \subseteq pending
      BY <2>3 DEF Ask, Cancel
    <2>4. CASE Child
      BY <2>4 DEF Child, ChildAnswers, ChildWrites, ChildEndsTurn, ChildExits
    <2> QED BY <2>2, <2>3, <2>4 DEF Next
  <1> QED BY <1>1, Inductive, PTL DEF Spec, UnusableIsSilent

=============================================================================
