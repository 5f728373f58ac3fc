--------------------------- MODULE AppServerClient ---------------------------
(***************************************************************************)
(* The Codex app-server client: one child process, one stream of lines     *)
(* from it, and calls that take turns on that stream.                      *)
(*                                                                         *)
(* The child answers requests in any order it likes, notifies of the turns *)
(* it runs, and may send nonsense or exit at any time.  A call is one      *)
(* question (monitoredAgentClient.Ask), or the probe that attaches the     *)
(* agent (ValidateAttachment).  Its context may be canceled at any moment. *)
(* What is written blocks until the child has taken it, or there is room in *)
(* the pipe: a write has no context, and ends with the child at the latest.  *)
(*                                                                         *)
(* A question is asked in a fork made for it, so a thread is named by the  *)
(* call whose request made it, a turn by its thread, and a request by its   *)
(* call and method, since no call sends one twice (nextID counts).          *)
(***************************************************************************)
EXTENDS Integers, Sequences, FiniteSets

CONSTANTS Asks,        \* the questions
          Probe,       \* the call that validates the attachment
          NoCall,      \* nobody, and the name of no thread
          MaxPieces,   \* bound: pieces of text all turns write
          MaxNonsense  \* bound: lines that break the protocol

ASSUME CallAssumption == Probe \notin Asks /\ NoCall \notin Asks \union {Probe}
ASSUME BoundAssumption == MaxPieces \in Nat /\ MaxNonsense \in Nat

Calls == Asks \union {Probe}
Threads == Calls \union {NoCall}

VARIABLES
    phase,      \* where a call is: see Phases
    step,       \* the request it is about to send or has sent
    canceled,   \* its context is done
    thread,     \* the fork it uses
    answer,     \* the threads whose text it has collected
    drained,    \* what interruptTurnAndDrainLocked has received
    outcome,    \* what it returned
    owner,      \* operationSem: the call that holds the stream
    unusable,   \* Client.unusable
    lines,      \* lines not read yet: the pipe and the channel, as one
    pending,    \* requests the child has not answered
    turn,       \* what became of the turn of a thread
    pieces,     \* pieces all turns have written
    nonsense,   \* lines that broke the protocol so far
    running,    \* the child runs
    failed,     \* monitoredAgentClient.failed
    agent       \* what the review shows of the agent

callVars == <<phase, step, canceled, thread, answer, drained, outcome>>
clientVars == <<owner, unusable>>
childVars == <<turn, pieces, nonsense>>
vars == <<callVars, clientVars, childVars, lines, pending, running, failed, agent>>

Phases == {"idle", "waiting", "writing", "reading", "turn", "interrupting",
           "draining", "returned", "stopping", "marking", "done"}
Methods == {"initialize", "initialized", "read", "fork", "start", "interrupt"}
Outcomes == {"none", "ok", "answer", "canceled", "unusable", "error"}
Kinds == {"response", "delta", "item", "completed"}
Terminal == {"completed", "failed"}   \* interrupted is the same as failed
Values == Terminal \union {"", "ok", "bad", "error"}
Request == [call : Calls, method : Methods, thread : Threads]
Line == [kind : Kinds, thread : Threads, value : Values,
         call : Threads, method : Methods \union {""}]

TypeOK ==
    /\ phase \in [Calls -> Phases]
    /\ step \in [Calls -> Methods]
    /\ canceled \in [Calls -> BOOLEAN]
    /\ thread \in [Calls -> Threads]
    /\ answer \in [Calls -> SUBSET Calls]
    /\ drained \in [Calls -> SUBSET {"response", "completion"}]
    /\ outcome \in [Calls -> Outcomes]
    /\ owner \in Threads
    /\ unusable \in BOOLEAN
    /\ lines \in Seq(Line)
    /\ pending \in SUBSET Request
    /\ turn \in [Calls -> Terminal \union {"none", "running"}]
    /\ pieces \in 0 .. MaxPieces
    /\ nonsense \in 0 .. MaxNonsense
    /\ running \in BOOLEAN
    /\ failed \in BOOLEAN
    /\ agent \in {"probing", "available", "unavailable"}

(* The child was started; the probe is about to initialize it. *)
Init ==
    /\ phase = [c \in Calls |-> IF c = Probe THEN "waiting" ELSE "idle"]
    /\ step = [c \in Calls |-> IF c = Probe THEN "initialize" ELSE "read"]
    /\ canceled = [c \in Calls |-> FALSE]
    /\ thread = [c \in Calls |-> NoCall]
    /\ answer = [c \in Calls |-> {}]
    /\ drained = [c \in Calls |-> {}]
    /\ outcome = [c \in Calls |-> "none"]
    /\ owner = NoCall
    /\ unusable = FALSE
    /\ lines = <<>>
    /\ pending = {}
    /\ turn = [c \in Calls |-> "none"]
    /\ pieces = 0
    /\ nonsense = 0
    /\ running = TRUE
    /\ failed = FALSE
    /\ agent = "probing"

-----------------------------------------------------------------------------
(* Leaving an operation. *)

(* Mutant: whatever happens after a cancellation counts as one. *)
Return_CancellationFirst(c, o) ==
    /\ phase' = [phase EXCEPT ![c] =
          IF c \in Asks /\ (o \in {"answer", "canceled"} \/ canceled[c])
          THEN "done" ELSE "returned"]
    /\ outcome' = [outcome EXCEPT ![c] = o]
    /\ owner' = IF owner = c THEN NoCall ELSE owner
    /\ canceled' = [canceled EXCEPT ![c] = FALSE]
    /\ drained' = [drained EXCEPT ![c] = {}]
    /\ answer' = IF o = "answer" THEN answer ELSE [answer EXCEPT ![c] = {}]
    /\ UNCHANGED <<step, thread, pending>>

(* The call returns o; its deferred release frees the stream if it had it,  *)
(* and its context, request and partial answer are no more.  The monitor    *)
(* (fail) passes over answers and cancellations.                            *)
Return(c, o) ==
    /\ phase' = [phase EXCEPT ![c] = IF c \in Asks /\ o \in {"answer", "canceled"}
                                     THEN "done" ELSE "returned"]
    /\ outcome' = [outcome EXCEPT ![c] = o]
    /\ owner' = IF owner = c THEN NoCall ELSE owner
    /\ canceled' = [canceled EXCEPT ![c] = FALSE]
    /\ drained' = [drained EXCEPT ![c] = {}]
    /\ answer' = IF o = "answer" THEN answer ELSE [answer EXCEPT ![c] = {}]
    /\ UNCHANGED <<step, thread, pending>>

(* The client can no longer tell what the stream carries. *)
Poison(c) ==
    /\ unusable' = TRUE
    /\ Return(c, "unusable")

(* callLocked failed for a reason of its own.  A turn that was asked for by *)
(* a call whose context ended may be running under an id nobody knows.      *)
Fail(c) ==
    IF step[c] = "start" /\ canceled[c]
    THEN Poison(c)
    ELSE /\ Return(c, "error")
         /\ UNCHANGED unusable

(* The call is done with one request and wants the stream for the next. *)
Continue(c, next) ==
    /\ phase' = [phase EXCEPT ![c] = "waiting"]
    /\ step' = [step EXCEPT ![c] = next]
    /\ owner' = NoCall
    /\ UNCHANGED <<canceled, answer, drained, outcome, unusable, pending>>

(* One request more on the wire. *)
Write(c, method) ==
    pending' = pending \union {[call |-> c, method |-> method, thread |-> thread[c]]}

(* waitForTurnAnswerLocked failed; its error is the answer unless the       *)
(* context has ended: then the turn is interrupted.                         *)
TurnFailed(c) ==
    IF canceled[c]
    THEN /\ phase' = [phase EXCEPT ![c] = "interrupting"]
         /\ UNCHANGED <<step, canceled, thread, answer, drained, outcome, clientVars, pending>>
    ELSE /\ Return(c, "error")
         /\ UNCHANGED unusable

-----------------------------------------------------------------------------
(* The steps of a call. *)

(* Ask, AskPrompt: a failed agent is not asked again. *)
Ask(c) ==
    /\ c \in Asks
    /\ phase[c] = "idle"
    /\ outcome[Probe] = "ok"
    /\ phase[Probe] = "done"
    /\ IF failed
       THEN /\ phase' = [phase EXCEPT ![c] = "done"]
            /\ outcome' = [outcome EXCEPT ![c] = "error"]
       ELSE /\ phase' = [phase EXCEPT ![c] = "waiting"]
            /\ UNCHANGED outcome
    /\ UNCHANGED <<step, canceled, thread, answer, drained, clientVars, childVars,
                   lines, pending, running, failed, agent>>

(* call, StartTurnAndWait, NotifyInitialized: a look at the context, and    *)
(* then the write.                                                         *)
Send(c) ==
    \/ /\ canceled[c]
       /\ Return(c, "canceled")
       /\ UNCHANGED unusable
    \/ /\ ~canceled[c]
       /\ phase' = [phase EXCEPT ![c] = "writing"]
       /\ owner' = c
       /\ UNCHANGED <<step, canceled, thread, answer, drained, outcome, unusable, pending>>

(* Mutant: does not look whether the client is still usable. *)
acquireOperation_Unchecked(c) ==
    /\ phase[c] = "waiting"
    /\ owner = NoCall
    /\ Send(c)
    /\ UNCHANGED <<childVars, lines, running, failed, agent>>

(* acquireOperation: the slot, and what its last holder left behind. *)
acquireOperation(c) ==
    /\ phase[c] = "waiting"
    /\ owner = NoCall
    /\ \/ /\ unusable
          /\ Return(c, "unusable")
          /\ UNCHANGED unusable
       \/ /\ ~unusable
          /\ Send(c)
    /\ UNCHANGED <<childVars, lines, running, failed, agent>>

(* callLocked, NotifyInitialized: the write returns, at some time if at all, *)
(* and fails if the child is gone.  Nobody answers the notification that     *)
(* ends the handshake.                                                      *)
WriteRequest(c) ==
    /\ phase[c] = "writing"
    /\ \/ /\ ~running
          /\ Fail(c)
       \/ /\ running
          /\ step[c] = "initialized"
          /\ Continue(c, "read")
          /\ UNCHANGED thread
       \/ /\ running
          /\ step[c] # "initialized"
          /\ Write(c, step[c])
          /\ phase' = [phase EXCEPT ![c] = "reading"]
          /\ UNCHANGED <<step, canceled, thread, answer, drained, outcome, clientVars>>
    /\ UNCHANGED <<childVars, lines, running, failed, agent>>

(* Mutant: the interrupt is sent and its outcome not waited for. *)
Interrupt_Unawaited(c) ==
    /\ phase[c] = "interrupting"
    /\ IF running
       THEN /\ Write(c, "interrupt")
            /\ phase' = [phase EXCEPT ![c] = "done"]
            /\ outcome' = [outcome EXCEPT ![c] = "canceled"]
            /\ owner' = NoCall
            /\ UNCHANGED <<step, canceled, thread, answer, drained, unusable>>
       ELSE Poison(c)
    /\ UNCHANGED <<childVars, lines, running, failed, agent>>

(* interruptTurnAndDrainLocked up to its loop: the cleanup's own timeout    *)
(* does not end the write either.                                           *)
Interrupt(c) ==
    /\ phase[c] = "interrupting"
    /\ IF running
       THEN /\ Write(c, "interrupt")
            /\ step' = [step EXCEPT ![c] = "interrupt"]
            /\ phase' = [phase EXCEPT ![c] = "draining"]
            /\ UNCHANGED <<canceled, thread, answer, drained, outcome, clientVars>>
       ELSE Poison(c)
    /\ UNCHANGED <<childVars, lines, running, failed, agent>>

(* nextLine chose the context over the stream. *)
ContextDone(c) ==
    /\ canceled[c]
    /\ \/ /\ phase[c] = "waiting"
          /\ Return(c, "canceled")
          /\ UNCHANGED unusable
       \/ /\ phase[c] = "reading"
          /\ step[c] # "start"
          /\ Return(c, "canceled")
          /\ UNCHANGED unusable
       \/ /\ phase[c] = "reading"
          /\ step[c] = "start"
          /\ Poison(c)
       \/ /\ phase[c] = "turn"
          /\ TurnFailed(c)
    /\ UNCHANGED <<childVars, lines, running, failed, agent>>

(* Mutant: the cleanup waits for as long as the child lives. *)
InterruptTimeout_AtExit(c) ==
    /\ phase[c] = "draining"
    /\ ~running
    /\ Poison(c)
    /\ UNCHANGED <<childVars, lines, running, failed, agent>>

(* turnInterruptTimeout ran out. *)
InterruptTimeout(c) ==
    /\ phase[c] = "draining"
    /\ Poison(c)
    /\ UNCHANGED <<childVars, lines, running, failed, agent>>

(* The child exited and everything it wrote was read. *)
EndOfStream(c) ==
    /\ lines = <<>>
    /\ ~running
    /\ \/ phase[c] = "reading" /\ Fail(c)
       \/ phase[c] = "turn" /\ TurnFailed(c)
       \/ phase[c] = "draining" /\ Poison(c)
    /\ UNCHANGED <<childVars, lines, running, failed, agent>>

(* Mutant: ids start anew with every call. *)
responseIDMatches_AnyCall(line, c) ==
    line.kind = "response" /\ line.method = step[c]

responseIDMatches(line, c) ==
    line.kind = "response" /\ line.call = c /\ line.method = step[c]

Take == lines' = Tail(lines)

(* A line nobody at this point of the call is interested in. *)
Skip(c) ==
    /\ lines # <<>>
    /\ \/ phase[c] = "reading" /\ ~responseIDMatches(Head(lines), c)
       \/ /\ phase[c] = "turn"
          /\ Head(lines).kind = "response" \/ Head(lines).thread # thread[c]
       \/ /\ phase[c] = "draining"
          /\ ~responseIDMatches(Head(lines), c)
          /\ Head(lines).kind # "completed" \/ Head(lines).thread # thread[c]
    /\ Take
    /\ UNCHANGED <<callVars, clientVars, childVars, pending, running, failed, agent>>

(* A line that does not decode, or a completion with a status that is none, *)
(* ends any wait for a line: the child spoiled what it had to say.          *)
Undecodable(c) ==
    /\ lines # <<>>
    /\ nonsense < MaxNonsense
    /\ nonsense' = nonsense + 1
    /\ Take
    /\ \/ phase[c] = "reading" /\ Fail(c)
       \/ phase[c] = "turn" /\ TurnFailed(c)
       \/ phase[c] = "draining" /\ Poison(c)
    /\ UNCHANGED <<turn, pieces, running, failed, agent>>

(* The response to the request of this call.  "error" is an error, a missing *)
(* result or one of another shape; "bad" decodes and is not what was asked   *)
(* for: another thread, an unsafe fork, a turn without an id.                *)
Response(c) ==
    /\ lines # <<>>
    /\ phase[c] = "reading"
    /\ responseIDMatches(Head(lines), c)
    /\ Take
    /\ LET value == Head(lines).value IN
       \/ /\ value = "error"
          /\ Fail(c)
       \/ /\ value # "error" /\ step[c] = "initialize"
          /\ Continue(c, "initialized")
          /\ UNCHANGED thread
       \/ /\ value # "error" /\ step[c] = "read" /\ c \in Asks
          /\ Continue(c, "fork")
          /\ UNCHANGED thread
       \/ /\ value # "error" /\ step[c] = "read" /\ c = Probe
          /\ Return(c, IF value = "bad" THEN "error" ELSE "ok")
          /\ UNCHANGED unusable
       \/ /\ value = "bad" /\ step[c] = "fork"
          /\ Fail(c)
       \/ /\ value = "ok" /\ step[c] = "fork"
          /\ thread' = [thread EXCEPT ![c] = Head(lines).thread]
          /\ Continue(c, "start")
       \/ /\ value = "bad" /\ step[c] = "start"
          /\ Poison(c)
       \/ /\ value = "ok" /\ step[c] = "start"
          /\ phase' = [phase EXCEPT ![c] = "turn"]
          /\ UNCHANGED <<step, canceled, thread, answer, drained, outcome,
                         clientVars, pending>>
    /\ UNCHANGED <<childVars, running, failed, agent>>

(* waitForTurnAnswerLocked: a line about the turn of this call. *)
TurnLine(c) ==
    /\ lines # <<>>
    /\ phase[c] = "turn"
    /\ Head(lines).kind \in {"delta", "item", "completed"}
    /\ Head(lines).thread = thread[c]
    /\ Take
    /\ LET line == Head(lines) IN
       \/ /\ line.kind = "delta"
          /\ answer' = [answer EXCEPT ![c] = @ \union {line.thread}]
          /\ UNCHANGED <<phase, step, canceled, thread, drained, outcome, clientVars, pending>>
       \/ /\ line.kind = "item"
          /\ answer' = [answer EXCEPT ![c] = {line.thread}]
          /\ UNCHANGED <<phase, step, canceled, thread, drained, outcome, clientVars, pending>>
       \/ /\ line.kind = "completed"
          /\ line.value # "completed" \/ answer[c] = {}
          /\ TurnFailed(c)
       \/ /\ line.kind = "completed"
          /\ line.value = "completed" /\ answer[c] # {}
          /\ Return(c, "answer")
          /\ UNCHANGED unusable
    /\ UNCHANGED <<childVars, running, failed, agent>>

(* Mutant: the response to the interrupt, or the completion, is enough. *)
Received_Either(c, what) ==
    /\ Return(c, "canceled")
    /\ UNCHANGED unusable

(* interruptTurnAndDrainLocked is done once it has both lines. *)
Received(c, what) ==
    IF drained[c] \union {what} = {"response", "completion"}
    THEN /\ Return(c, "canceled")
         /\ UNCHANGED unusable
    ELSE /\ drained' = [drained EXCEPT ![c] = @ \union {what}]
         /\ UNCHANGED <<phase, step, canceled, thread, answer, outcome, clientVars, pending>>

(* interruptTurnAndDrainLocked: the two lines it waits for. *)
DrainLine(c) ==
    /\ lines # <<>>
    /\ phase[c] = "draining"
    /\ Take
    /\ LET line == Head(lines) IN
       \/ /\ responseIDMatches(line, c)
          /\ IF line.value = "error" THEN Poison(c) ELSE Received(c, "response")
       \/ /\ line.kind = "completed" /\ line.thread = thread[c]
          /\ Received(c, "completion")
    /\ UNCHANGED <<childVars, running, failed, agent>>

-----------------------------------------------------------------------------
(* The monitor around the client, and the probe's caller. *)

(* monitoredAgentClient.fail: the first error of a question that is no      *)
(* cancellation stops the child, and so does any error of the probe.        *)
Monitor(c) ==
    /\ phase[c] = "returned"
    /\ \/ /\ c = Probe /\ outcome[c] = "ok"
          /\ phase' = [phase EXCEPT ![c] = "done"]
          /\ agent' = "available"
          /\ UNCHANGED failed
       \/ /\ c = Probe /\ outcome[c] # "ok"
          /\ phase' = [phase EXCEPT ![c] = "stopping"]
          /\ UNCHANGED <<failed, agent>>
       \/ /\ c \in Asks
          /\ phase' = [phase EXCEPT ![c] = IF failed THEN "done" ELSE "stopping"]
          /\ failed' = TRUE
          /\ UNCHANGED agent
    /\ UNCHANGED <<step, canceled, thread, answer, drained, outcome, clientVars,
                   childVars, lines, pending, running>>

(* stopAppServerProcess closes the input and kills. *)
stopAppServerProcess(c) ==
    /\ phase[c] = "stopping"
    /\ running' = FALSE
    /\ pending' = {}
    /\ phase' = [phase EXCEPT ![c] = "marking"]
    /\ UNCHANGED <<step, canceled, thread, answer, drained, outcome, clientVars,
                   childVars, lines, failed, agent>>

MarkAgentUnavailable(c) ==
    /\ phase[c] = "marking"
    /\ agent' = "unavailable"
    /\ phase' = [phase EXCEPT ![c] = "done"]
    /\ UNCHANGED <<step, canceled, thread, answer, drained, outcome, clientVars,
                   childVars, lines, pending, running, failed>>

-----------------------------------------------------------------------------
(* Contexts and the child: what the client does not decide. *)

(* A stop, a deadline, or a browser that went away. *)
Cancel(c) ==
    /\ ~canceled[c]
    /\ phase[c] \in {"waiting", "writing", "reading", "turn", "draining"}
    /\ canceled' = [canceled EXCEPT ![c] = TRUE]
    /\ UNCHANGED <<phase, step, thread, answer, drained, outcome, clientVars,
                   childVars, lines, pending, running, failed, agent>>

Emit(line) == lines' = Append(lines, line)

ResponseLine(request, value) ==
    [kind |-> "response", call |-> request.call, method |-> request.method, value |-> value,
     thread |-> IF request.method = "fork" THEN request.call ELSE NoCall]

Notification(kind, t, value) ==
    [kind |-> kind, thread |-> t, value |-> value, call |-> NoCall, method |-> ""]

(* The child answers a request.  A turn starts with its answer, an          *)
(* interrupt is refused when there is no turn to interrupt.                 *)
ChildAnswers ==
    /\ running
    /\ \E request \in pending, value \in {"ok", "bad", "error"} :
          /\ value = "bad" => request.method \in {"read", "fork", "start"}
          /\ request.method = "interrupt" /\ turn[request.thread] # "running"
                => value = "error"
          /\ Emit(ResponseLine(request, value))
          /\ turn' = IF request.method = "start" /\ value # "error"
                     THEN [turn EXCEPT ![request.thread] = "running"] ELSE turn
          /\ pending' = pending \ {request}
    /\ UNCHANGED <<callVars, clientVars, pieces, nonsense, running, failed, agent>>

(* A turn writes a piece of text or the whole message so far. *)
ChildWrites ==
    /\ running
    /\ pieces < MaxPieces
    /\ pieces' = pieces + 1
    /\ \E t \in Calls, kind \in {"delta", "item"} :
          /\ turn[t] = "running"
          /\ Emit(Notification(kind, t, ""))
    /\ UNCHANGED <<callVars, clientVars, pending, turn, nonsense, running, failed, agent>>

ChildEndsTurn ==
    /\ running
    /\ \E t \in Calls, value \in Terminal :
          /\ turn[t] = "running"
          /\ turn' = [turn EXCEPT ![t] = value]
          /\ Emit(Notification("completed", t, value))
    /\ UNCHANGED <<callVars, clientVars, pending, pieces, nonsense, running, failed, agent>>

ChildExits ==
    /\ running
    /\ running' = FALSE
    /\ pending' = {}
    /\ UNCHANGED <<callVars, clientVars, childVars, lines, failed, agent>>

-----------------------------------------------------------------------------
Proceed(c) ==
    \/ acquireOperation(c) \/ WriteRequest(c) \/ Interrupt(c) \/ ContextDone(c)
    \/ InterruptTimeout(c) \/ EndOfStream(c) \/ Skip(c) \/ Undecodable(c)
    \/ Response(c) \/ TurnLine(c) \/ DrainLine(c)
    \/ Monitor(c) \/ stopAppServerProcess(c) \/ MarkAgentUnavailable(c)

Child == ChildAnswers \/ ChildWrites \/ ChildEndsTurn \/ ChildExits

Next ==
    \/ \E c \in Calls : Ask(c) \/ Proceed(c) \/ Cancel(c)
    \/ Child

Spec == Init /\ [][Next]_vars

(* A goroutine runs on, contexts end (every question has a deadline) and    *)
(* the cleanup's own timeout fires.  The child owes nothing: a write to one *)
(* that has gone fails, but one that lives need not take it.                 *)
LiveSpec ==
    /\ Spec
    /\ \A c \in Calls :
          /\ WF_vars(acquireOperation(c)) /\ WF_vars(ContextDone(c))
          /\ WF_vars(~running /\ WriteRequest(c)) /\ WF_vars(~running /\ Interrupt(c))
          /\ WF_vars(InterruptTimeout(c)) /\ WF_vars(EndOfStream(c))
          /\ WF_vars(Monitor(c)) /\ WF_vars(stopAppServerProcess(c))
          /\ WF_vars(MarkAgentUnavailable(c)) /\ WF_vars(Cancel(c))

-----------------------------------------------------------------------------
(* Properties. *)

Holding == {"writing", "reading", "turn", "interrupting", "draining"}

NotStarted(c) ==
    \/ phase[c] \in {"idle", "waiting", "writing"}
    \/ phase[c] = "reading" /\ step[c] # "start"

OneReader == \A c \in Calls : (phase[c] \in Holding) <=> (owner = c)

(* Every question has a fork of its own, and is in step with its requests.  *)
InStep ==
    \A c \in Calls :
        /\ thread[c] \in {c, NoCall}
        /\ step[c] \in {"start", "interrupt"} => thread[c] = c
        /\ phase[c] \in {"idle", "waiting", "writing", "reading"} => step[c] # "interrupt"
        /\ phase[c] \in {"turn", "interrupting"} => step[c] = "start"
        /\ phase[c] = "draining" => step[c] = "interrupt"
        /\ phase[c] # "draining" => drained[c] = {}
        /\ answer[c] \subseteq {c}
        /\ phase[c] \in {"idle", "waiting"} \union Holding => outcome[c] = "none"

(* A turn begins with the answer to the one request for it.                 *)
TurnsAreAskedFor ==
    /\ \A c \in Calls : NotStarted(c) => turn[c] = "none"
    /\ \A request \in pending :
          /\ request.method = "start" =>
                /\ request.thread = request.call
                /\ ~NotStarted(request.call)
                /\ turn[request.call] = "none"
          /\ request.method = "interrupt" =>
                /\ request.thread = request.call
                /\ step[request.call] = "interrupt"
                /\ "response" \notin drained[request.call]

(* What is on the stream tells the truth about the turns, in order.         *)
LinesAreTrue ==
    \A i \in DOMAIN lines :
        LET line == lines[i] IN
        /\ line.kind = "response" =>
              /\ line.call \in Calls
              /\ line.method = "fork" => line.thread = line.call
              /\ line.method = "interrupt" =>
                    /\ step[line.call] = "interrupt"
                    /\ \A request \in pending :
                          request.method = "interrupt" => request.call # line.call
        /\ line.kind # "response" => line.thread \in Calls /\ turn[line.thread] # "none"
        /\ line.kind = "completed" =>
              /\ turn[line.thread] = line.value
              /\ \A j \in DOMAIN lines :
                    j > i => lines[j].kind = "response" \/ lines[j].thread # line.thread

DrainedIsOver ==
    \A c \in Calls : "completion" \in drained[c] =>
        /\ turn[c] \in Terminal
        /\ \A i \in DOMAIN lines : lines[i].kind # "response" => lines[i].thread # c

(* An answer is the text of a turn this very call started in a fork of its  *)
(* own, and that turn has ended well: no late response of a canceled call,  *)
(* no piece of another turn on the shared stream gets into it               *)
(* (callLocked, waitForTurnAnswerLocked).                                   *)
AnswersAreOwn ==
    \A c \in Calls : outcome[c] = "answer" =>
        /\ thread[c] = c
        /\ turn[c] = "completed"
        /\ answer[c] = {c}

(* A question that was canceled and left the client usable has nothing on   *)
(* the stream and nothing running in the child: its turn was never asked    *)
(* for, or has ended and its last line was read                             *)
(* (docs/agent-integrations.md:39, interruptTurnAndDrainLocked).            *)
CanceledTurnsAreOver ==
    \A c \in Calls : outcome[c] = "canceled" =>
        /\ turn[c] # "running"
        /\ \A request \in pending :
              request.call = c => request.method \notin {"start", "interrupt"}
        /\ \A i \in DOMAIN lines : lines[i].kind # "response" => lines[i].thread # c

(* Whoever reads the stream is the one call that holds the slot, an         *)
(* unusable client is held by nobody, and the lines on the stream, the      *)
(* requests that wait and the turns that run fit the steps of the calls: a  *)
(* turn runs only for a call that asked for it and is at most one turn per  *)
(* call, its last line is its completion (Client, StartTurnAndWait).        *)
IInv ==
    /\ TypeOK
    /\ OneReader
    /\ unusable => owner = NoCall
    /\ InStep
    /\ TurnsAreAskedFor
    /\ LinesAreTrue
    /\ DrainedIsOver
    /\ AnswersAreOwn
    /\ CanceledTurnsAreOver

(* An unusable client writes nothing more (acquireOperation). *)
UnusableIsSilent == [][unusable => pending' \subseteq pending]_vars

(* A call that began returns, whatever the child does with its request: it  *)
(* answers late, never, with nonsense, or exits.  The one exception is what  *)
(* the code does not bound: a write that the child does not take holds its  *)
(* call, and the slot with it, beyond every deadline, while the calls behind *)
(* it return.  With a child that takes what is written, or exits, no write   *)
(* stays, and every call returns.                                           *)
EveryCallReturns ==
    <>[](\A c \in Calls : phase[c] \in {"idle", "done", "writing", "interrupting"})

(* A client that lost track of a turn loses its child and is shown as       *)
(* unavailable (docs/agent-integrations.md:40).                             *)
UnusableIsStopped == <>[](unusable => ~running /\ agent = "unavailable")

=============================================================================
