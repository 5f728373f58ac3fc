# PlanMaxx in TLA+

PlanMaxx (`src/`) lets a person review the Markdown or HTML plan of a coding
agent in a browser: comments on lines, side questions, revisions proposed by an
agent, and at the end a handoff that the agent reads. This directory holds the
TLA+ model of the part of it that carries state, the TLC runs that check it on
small instances, and the TLAPS proofs of its main theorems. `PROJECT.json` maps
every definition to the lines it models.

## 1. Inventory

| part | state | operations | interacts through |
|---|---|---|---|
| Review bundle (`review/bundle.go`, `autosave_lock_*.go`) | one Git bundle file: `state` ref with a linear history, tags, revision/proposal/note objects; in memory `expectedState` | open, load, refresh, save (lock, compare, stage, rename, sync) | `flock` beside the file; object ids compared |
| Review server (`review/server.go`) | `Session`, `finished`, `done` (one slot), `autosaveStatus`, `autosaveGeneration`, source text, one `iterationOperation` | about thirty HTTP handlers, each under `Server.mu` | saves to the bundle, calls agents without the mutex, re-reads the plan file |
| Session (`session/*.go`) | revisions, pending proposal, threads with anchors and life cycle, side answers, counters | edits of threads, proposals, revisions; `Validate` before every save | called by the handlers only |
| Iterations (`review/operations.go`) | the latest operation: queued, running, canceling, succeeded, failed, canceled | start, run, cancel, refuse other mutations meanwhile | goroutine, context cancellation, `Server.mu` |
| Browser presence (`review/presence.go`) | set of WebSockets, one timer with an id, `closed` | upgrade, add, remove, expire, close | timer callback into `abandonOrphanedReview` |
| Review command (`cli/review.go`) | position in `newReviewCommand` | open, serve, wait, write the plan, record the write, hand off | `Server.Wait`, the plan file |
| App-server client (`appserver`, its monitor in `cli/review.go`) | one child process and stream, `operationSem`, `unusable`; `failed` of the monitor, agent status | attach, ask, interrupt and drain, poison, stop the child | called from handlers and iterations; contexts; child process |
| Grok Build client (`grokbuild`) | `gate`; per question a temporary home, an ACP process, a fork | copy the session, fork, ask, delete, clean up | the same; the reviewer's own grok writes the session that is copied |
| Claude Code client (`claudecode`) | `gate` | run one process per question | the same |
| Agent services (`sectioniter`, `sidequestions`) | none | prompt, parse, build a proposal | call a client and `patches` |
| Legacy record (`review/autosave.go`, `revisions/store.go`) | JSON autosave, journal, revision objects | write through a journal, recover, migrate | migration into the bundle |
| Hunks (`patches`) | none | locate, widen, trim and splice hunks | called to build a proposal |
| Diffs (`reviewmodel`, `diff`) | none | compare two revisions for display | called by the web handlers |
| Web client (`web/`) | React state | requests to the handlers | HTTP, WebSocket |
| Installation (`cli/skill.go`, `updater`) | files of the skill and the binary | install, back up, replace | file system |

What is hard: several processes may review one plan; every handler may be
followed by a crash, a failing save or a power failure; the mutex is released
while an agent works; the plan file changes under the review; timers fire late;
an agent's stream is shared by calls that are canceled in the middle; its session
is copied while somebody writes it; cleaning up may itself fail; comments have to follow their text from revision to revision. The hazards are
listed one by one, at their lines, in `PROJECT.json`.

## 2. Modules

| module | models | main sources |
|---|---|---|
| `ReviewLedger` | abstract: what the record of a review promises the servers that share it | (implemented by `BundleStore`) |
| `BundleStore` | the bundle file, its lock and save protocol, the handlers' rollback, crashes and power loss | `review/bundle.go`, `review/server.go` |
| `Presence` | browser tabs, orphan timers and their late callbacks, the result channel, the waiting command, and a second process that ends or reopens the review | `review/presence.go`, `cli/review.go` |
| `ReviewIteration` | agent calls in flight against everything else that happens in one server | `review/operations.go`, `review/server.go` |
| `ReviewSession` | comments, revisions, proposals and the feedback they carry out, over documents of lines | `session/*.go`, the handlers of `review/server.go` |
| `TextPatches` | the bytes below it: how a hunk of text is found, which delimiters a deleted line takes, and how many lines that moves; extends `ReviewSession` | `patches/hunks.go`, `sectioniter/service.go` |
| `AppServerClient` | calls that take turns on the stream of one Codex app server, and the monitor that gives it up | `appserver/client.go`, `cli/review.go` |
| `GrokFork` | a question asked in a disposable fork of the reviewer's session, with every failure on the way | `grokbuild/client.go`, `grokbuild/acp.go` |
| `MC_*` | constant definitions for TLC | |
| `*_proofs` | the TLAPS proofs of each component | |

Each module looks at one boundary and treats the rest as choice: `BundleStore`
does not know what an edit says, `ReviewIteration` does not know where a comment
stands, and `ReviewSession` runs one handler at a time because
`ReviewIteration` shows that answers of overtaken calls are refused and
`BundleStore` shows that a failed save leaves the memory as it was. To
`ReviewIteration` an agent is something that answers, fails or is canceled;
`AppServerClient` and `GrokFork` are two such agents from the inside, and their
`EveryCallReturns` is what its `Return` relies on, in the app server's case but for
a write that its child never takes (section 5). `ReviewSession` moves whole lines;
`TextPatches` shows that the byte arithmetic underneath does the same.

### BundleStore

Several processes, each one server with its own memory, share one bundle. The
bundle is its state history: Git object ids are content addresses of a linear
history, so comparing two ids is comparing two sequences of commits. A commit
keeps the generation, the accepted edits, the status of the review and whether
the checkpoint tag of a finalization goes with it.

- `Open`, `EnableBundle` start a process: read the bundle, reopen a finished
  review, save at once if the review is new or was finished.
- `mutateSession`, `finalize`, `cancel`, `RecordSourceSave` are the handlers.
  Each changes the memory and calls `StartSave`; the process is in the handler,
  with `Server.mu`, until the answer.
- `AcquireLock`, `CompareState`, `Stage`, `Rename`, `SyncDirectory` are the steps
  of `BundleStore.Save`. `AbandonSave` is an error before the rename (also the
  conflict with another writer): `Restore` puts the copy back. After the rename
  an error counts as committed, as in `mutateSession`.
- `ProbeState` and `reloadAutosave` are the two halves of `Refresh`; other processes
  run between them.
- `Crash`, `Gone` and `PowerLoss` are external: the kernel drops the flock of a
  dead process, and a power failure may undo renames in a directory not synced.

`bundle`, `stable` and `lock` are the storage; `expected`, `session`,
`generation` are fields of the process; `job` holds the handler and its undo copy;
`acked` and `synced` record what clients were told.

`ReviewLedger` says what is left when files, locks and processes are forgotten:
a history that only grows by one recorded state, edits that are answered once
they are in it, and a settled part that survives. `Ledger` in `BundleStore` is
the refinement mapping (the history without generations and tags, the length of
`stable`, the acknowledged edits).

### Presence

One action per critical section of `browserPresence`: `add`, `remove`,
`SetTimeout`, `expire`, `Close`. A handler is `upgrading` between the hijack of
the connection and `add`, which is where `Close` can miss it. A timer is an id in
`armed` until the runtime fires it (`TimerFires`) and in `expiring` until its
callback has the mutex; `stopTimerLocked` removes the former and changes the id
for the latter. `abandonOrphanedReview` runs after the mutex was dropped
(`orphaning`). `Finish` is `finalize` or `cancel` under `Server.mu` with a save that
succeeds, `SendResult` the later send on `done`, `Wait`, `Interrupt` and `Close` are
the command. Results are numbered (`results`), since the review may end more than
once: another process of the same plan saves (`SaveElsewhere`, external; what it
recorded last is `elsewhere`), and a tab that asks for the state makes this server
load it (`Reload`), which sets `finished` without a result, or back
(`installReloadedAutosaveLocked`). While something newer is recorded elsewhere a
finish of this process is a conflict and changes nothing.
`orphanedBy`, `disturbed` and `reopened` are history variables: which timer ended the
review, which was the last one a connection put out of use, and how many finishes a
reload took back.

### ReviewIteration

A call is an agent request in flight: a background iteration, a synchronous
proposal, or a side question. It remembers the review it asked about (`base`, the
fingerprint of the feedback among it). `startIteration`, `runIteration` and
`RecordOutcome` are the life of an iteration; between them the call is `asking`
(no lock), `answered` (the answer waits for the mutex) or `stored` (it was
installed or refused, the operation not yet updated). Stops, mutations, edits of the
plan file and the end of the review happen between any two of these. `Fits`
compares exactly, as the code does (its fingerprint is the whole JSON text of the
comments and answers): feedback that was changed and changed back fits again.

### ReviewSession

A document is a nonempty sequence of lines and an anchor a range of lines. A
session has the documents and feedback of its revisions, the source file as last
seen, the pending proposal and the comments. Every action builds the session the
handler would save and calls `Save`: `Valid` is `Session.Validate`, and a refused
session leaves the old one, as `mutateSession` does.

- Comments: create, follow up, edit, reanchor, delete, intent, mark as addressed,
  and one side answer each with promotion and its reverse.
- Proposals: made for a section (`proposeSection`, with or without a comment that
  says "iterate now") or for the whole review, refined, discarded, applied. A
  patch is a sequence of hunks; `Resolved` is what `patches.Resolve` accepts and
  `ApplyHunks` what `patches.Apply` makes of it.
- Revisions: `syncExternalSource` (the plan file was edited), `RestoreRevision`,
  `ApplyProposal`. Each moves every comment: by the unique place of its text
  (`reconcileActiveThreadAnchors`, `AdjustedForReview`), by the exact patch
  (`AdjustedForHunks`), or by one difference of lengths after a refined section
  proposal (`AdjustedForRange`).
- `finalize` selects the instructions the handoff carries, `Reopen` continues a
  finished review.

Abstractions: the anchor of a comment that is not active is `NoAnchor`, since no
handler reads it except the follow-up, which may then anchor anywhere (the code
clamps the old anchor, which may be anywhere). What comments say, replies,
card positions and character ranges inside a line are left out; a second side
answer of a comment behaves like the first. The expected text of a hunk is the
document's own, a patch that does not match is refused by `Resolve` and changes
nothing. Asking for a proposal and installing it is one step. The endless
recursion on an obsolete proposal is modelled in `ReviewIteration`; here the
handlers it would run in do not complete. `cancel` is left to `BundleStore`: it
changes nothing in the session.

### TextPatches

A text is a sequence of symbols, a hunk what the agent sends: `expected`, `content`
and the context `before` and `after`. `Exact`, `Matching` and `Places` are the search
of `Resolve`, with overlapping occurrences and with the fallback to text that occurs
once; `Widened` is its second loop, in which a deleted line takes the delimiter after
or before it, never past the hunk before (`fullLineDeletionOffsets`);
`trimTerminalDeletionDelimiter` and `Apply` are the functions of that name.
`AppliedHunks` and `positionAfterAppliedHunks` are what the session is told of the
patch and does with it. `Cases` are the documents with patches of whole lines, their
text with LF, with LF and the neighbouring lines as context, and with CR LF; the
hunks are sent in reverse order. `Splices` and `Carries` compare the result with
`ApplyHunks` and `positionAfterHunks` of `ReviewSession`. Both are facts about
texts; they are stated as invariants of the states that hold a patch.
Lines are sequences of `Letters`, which are neither CR nor LF. A replacement by one
blank line is not among the patches: its text is empty, so that an agent who sends it
deletes the lines, and that is what the code does.

Columns, UTF-16 lengths and selections inside a line are left out. With CR LF no
context is sent: the code compares a neighbouring line with its CR, so that a context
without it matches nothing there, or a place in the middle of a line.

### AppServerClient

The child may answer the requests on its pipe in any order, late, with an error or with
something undecodable, write pieces of the turns it runs, end them, and exit. `lines`
is the pipe together with the channel of `readLines`. A call is `waiting` for
`operationSem`, `writing` its request (`step`), `reading` the response, in its `turn`,
`interrupting` (it writes the interrupt), `draining` after it, and after `returned` in the hands of the monitor:
`stopping` the process and `marking` the agent.

- `acquireOperation`, `Send`, `WriteRequest`, `Skip`, `Response`, `TurnLine` are the
  loops of `callLocked` and `waitForTurnAnswerLocked`: a line for nobody is skipped,
  whatever cannot be decoded ends the call.
- `WriteRequest` and `Interrupt` are steps of their own because a write to the
  child's pipe blocks until there is room or the child is gone, and no context or
  timeout ends it (`client.go:316`, `:237`). Why there is no room is left open: the child
  does not read, or it waits itself for somebody to empty the channel of 64 lines.
- `ContextDone`, `Interrupt`, `DrainLine`, `Received` and `InterruptTimeout` are the
  cancellation: in a turn it interrupts and reads on until both the response and the
  completion were seen, or a timeout of its own; between `turn/start` and its response
  nobody knows the turn, and the client is given up (`Poison`).
- `Monitor`, `stopAppServerProcess`, `MarkAgentUnavailable` are
  `monitoredAgentClient.fail`: cancellations do not count, anything else stops the child
  and demotes the agent, once.
- `ChildAnswers`, `ChildWrites`, `ChildEndsTurn`, `ChildExits` and `Cancel` are external.

A thread is named by the call that forked it and a request by its call and method: the
code numbers them (`nextID`) and never repeats. The reviewer's own thread is only read.

### GrokFork

One action per step of `askPromptInFork`, in order: the gate, the home, the
workspace snapshot, the copy of the session (a walk for signatures, the copy, a second
walk; three attempts), validation, the ACP process with its initialize and fork
requests, the rewriting of the fork's model, the prompt, the run, the deletion and the
cleanup. Every step has a failing alternative, counted in `faults`; the context may end
in any step (`Cancel`), which kills what runs in it (`killProcessTree`, `GitKilled`). The
fork request is `told` before its response is read: from then on the fork may appear
whatever happens to the response. `faulty` is a history variable: the questions in
whose own cleanup a step failed by itself (`CleanupFault`). `SourceWrites` is the reviewer's grok, which writes a
file of the session at any moment of the copy. `moment` is a history variable: the
session as it was when the first walk ended. What files contain, what the
validations compare and the arguments of the commands are left out.

## 3. Runs

All runs are in `PROJECT.json`, each with its properties and a mutant of the code
for every property that the run then finds violated.

| run | instance | shows |
|---|---|---|
| `bundle_store` | 2 processes, 2 edits, generations to 3; 45 354 states | the record loses, forges and misnumbers nothing, memory shows recorded states, the store implements `ReviewLedger`, and a handler inside `Save` gets to its answer |
| `presence` | 2 tabs, 8 timer ids, 1 finish taken back by a reload, any number of saves elsewhere; 135 195 states | only an undisturbed timer abandons, no handler waits to send its result unless a reload opens the review again, a review left alone ends unless a reload has ended it before, connections are released |
| `iteration` | 2 calls, 1 comment, 2 revisions, 2 proposals, 2 iterations; 519 000 states, symmetry | answers enter only the review they were asked about |
| `iteration_live` | no comment, 2 revisions, 1 proposal, 2 iterations, 1 reply; 99 546 states | every iteration ends |
| `session` | lines a and b, 3 documents an editor may leave, 2 patches, 3 revisions, 1 comment and 1 follow-up, 2 proposals; 514 456 states. 108 documents of up to 4 lines for the texts, in three forms, with every patch that keeps, deletes or doubles ranges of their lines | anchors keep to their text or detach, feedback is locked under a proposal and recorded when it is accepted, addressed is final, only strays cannot be saved; a patch of lines is spliced and carries the other lines as the session believes |
| `app_server` | the probe and 2 questions, 1 piece of text, 1 line of nonsense; 242 585 states | an answer is of the call's own turn, a canceled turn is over before the next call reads, a client that lost track is silent and is stopped, every call returns unless it is held by a write that the living child never takes |
| `grok` | 2 questions, 2 files, 1 write to each, 2 failing steps; 134 809 states | a fork is of one moment of the session, no fork or process, nor the home of a question that had asked for a fork, is left behind on a client that stays usable, the client becomes unusable exactly by a step of a cleanup that failed, every question returns |
| `iteration_canceled`, `stale_proposal`, `lost_instruction`, `raw_line_numbers` | as above | the findings below |
| `stop_demotes` | as `grok`, but no write and no failing step | a finding below |

Why the bounds are enough for the interesting cases:

- `bundle_store`: two processes give every race of the protocol (one writer
  against one stale reader); three generations fit the enabling save, an edit of one
  process and a finalization or an edit of the other, or a reopening. A third process
  would only wait for the same lock. Two edits are what lost updates need.
- `presence`: a disturbed review needs two tabs and two timers, the newer of which
  runs while the callback of the older waits. Eight ids leave room for both,
  several times. One finish that a reload takes back is enough for a second
  result; saves elsewhere and their reloads are not bounded.
- `iteration`: two calls are an iteration beside a synchronous request or a side
  question, two operations are a stopped one and its successor, two proposals a
  proposal and its refinement. `MaxReplies` is 0 there and 1 in the live run and
  the violation runs: with both, the safety instance exceeds the time a run may take.
  The live run has no remarks but an edge between two revisions, a stopped
  iteration and its successor.
- `session`: lines that repeat make text ambiguous; the sources hold one
  document with the text moved and one in which it occurs twice; the patches hold
  a growing line, a deletion and two hunks with a line between. Three
  revisions are two edges, so that something left behind by the first one can go
  wrong at the second, and a follow-up beside a comment is two
  comments in different states. Longer documents and a third revision edge were
  not explored.
- the texts: up to three lines that may be blank, equal, or part of one another
  (ambiguous, overlapping and mid-line occurrences); four different lines, so that
  there is a line kept before, between and after deletions at either end. A longer
  document adds lines between hunks, which the arithmetic does not see; the theorems
  `PatchesAreOfLines` and `LinesAreCarried` are for every length.
- `app_server`: the attachment and two questions are one call that loses track, one
  that waits behind it and one before. One piece of text distinguishes the turn it
  belongs to; one line of nonsense is all a call survives.
- `grok`: two questions are one inside the gate and one behind it; two files are what a
  mixture of two moments needs, one write between two walks makes it; two faults are
  a failing step and a failing cleanup after it.

`CHECK_DEADLOCK FALSE` stands where a review that has ended has nothing left to
do (`Presence`, `ReviewIteration`, and the clients, whose questions all end). `BundleStore` and `ReviewSession` never stop:
processes can be started again and finished reviews reopened.

### Fairness

- `BundleStore`: a handler inside `Save` takes its next step (weak fairness: it is
  a running goroutine doing local file work) and a waiter gets the flock in turn
  (strong fairness: the kernel grants a `flock` in order of arrival, and each
  release enables it again). Nothing else is fair: no client has to send a request
  and no process has to survive.
- `Presence`: handlers, fired callbacks and the command's goroutine run on. A read
  fails once the server severed the socket, but a browser is not obliged to leave, nor
  to ask for the state, and another process need not save. A timer fires: that is
  what `time.AfterFunc` promises.
- `ReviewIteration`: a goroutine runs on, and a call returns because its context
  has a deadline. `Return` is fair as a whole: nothing says the agent answers. With
  the app server this inherits what `EveryCallReturns` assumes there: that a write to
  a child that lives on ends.
- `AppServerClient`, `GrokFork`: a goroutine runs on; a context ends, since every question
  and every iteration has a deadline; the timeout of an interrupt's drain fires; the
  kernel ends a process that is killed. The child, grok and the reviewer owe nothing:
  no answer, no completion, no exit, no pause between two writes. The app server need
  not even take what is written to it: only a write to a child that has gone is sure to
  end, with an error.

The runs of safety properties use specifications without fairness, or with it where
one run checks both.

## 4. Proofs

All theorems hold for every value of the constants that satisfies the named
assumptions: the bounds are natural numbers, `NoProc` is no process, and the documents
and patches of `ReviewSession` are what their names say (`DocumentAssumption`), the
probe and `NoCall` are no questions, and a session has a file (`FileAssumption`). For
the texts, letters are neither CR nor LF, a document has a line (an empty text is one
blank line), and no replacement is the single blank line (`TextAssumption`).
Nothing is assumed about finiteness.

- `BundleStore_proofs`. `IInv` joins types, lock ownership (`LockOK`), expected
  states as prefixes of the record (`ExpectedOK`), sessions as the recorded state
  plus the job's step (`SessionOK`), staged histories as the record plus one commit
  while the lock is held (`StagedOK`) and the shape of the history (`HistoryOK`).
  `MemoryIsRecorded` is not inductive alone, since what an aborted handler
  restores matters only because `job.before` is the recorded state.
  From it: `SyncedEditsSurvive`, `GenerationsNumberStates`, `MemoryShowsRecord`,
  `NoUpdateIsLost`, `EditsNeedOpenReview` and `TagsMarkFinalizations` (a step keeps a
  beginning of the record or adds the commit of a save to the state it was compared
  with, `RecordSteps`), and `StoreImplementsLedger`: initial states and every step map to a
  step of `ReviewLedger` or a stutter.
- `Presence_proofs`. `TimersOK` says that the newest timer id is live only while
  nobody is connected; `OrphanOK` carries the decision on. `ResultOK` counts: every
  result but one belongs to a finish that a reload took back.
  From it: `OrphanIsAlone`, `ResultIsSentOnce`.
- `ReviewIteration_proofs`. `OwnerOK` gives the running operation exactly one
  goroutine, `StopOK` traces every cancellation to a stop, `IncludedOK` ties what a
  call includes to its base, so that `Fits` makes `ProposalOK` true when an answer
  is installed. From it: `ProposalsAreCurrent`, `IterationsExclude`,
  `StopsCancel`, `EndedReviewStays`.
- `ReviewSession_proofs`. While a proposal is pending none of its own comments is
  detached, and while a review proposal can still be applied each comment it
  includes is active on the current revision or is on the proposal (`Frozen`). This is
  stated of any session, so that each handler is proved to build a session that
  keeps it (`Step`), and `SaveStep` carries this over the validation. There is one
  lemma per handler. From it: `CommentsHaveHome`,
  `AddressedIsFinal`, `FeedbackStaysLocked`, and `FeedbackIsRecorded`, which also
  needs that applying is the only step that both adds a revision and ends a
  proposal (`OnlyApplyEndsProposal`).
- `ReviewAnchors_proofs` adds what the session says of text. `RefusalsAreStrays`: with
  no proposal pending and every active comment on the current revision, each handler builds
  a session of acceptable comments (`Acceptable`), so that `Valid` holds of it.
  `PatchKeepsLines`: for any document and any hunks in order, each line outside the hunks
  is in the patched document where `positionAfterHunks` says, and lines keep their order.
  It counts down over the hunks: `LinesFollow(.., j)` says it of the hunks from j on, and
  `SpliceMoves` is the step. `AnchorMoves` turns this into anchors: what no hunk meets
  selects the same text afterwards. `Traced` is the last part of `IInv`: a comment on
  the proposal stands on its text there, through every refinement, and a proposal that has a
  patch and is not obsolete is what that patch makes of the current revision; without it
  nothing would tie the hunks of a proposal to the document in which the anchors are when it is applied.
  From it: `Invariance` of the whole `IInv`, and `AnchorsStayOnText` over the three kinds
  of revision edge.
- `TextPatches_proofs` goes from the bytes to the lines, for documents of any length and
  patches of any number of hunks. The argument follows the code:
  - `Offsets` and `LinesAt` say where in the text each line is and what stands there;
    a hunk that is found is found at its own lines (`LocatedAt`, for text that occurs
    several times because the only place of a hunk must be that one), and sorting
    restores the order of the patch (`SortedPlaces`).
  - `WidenedPlaces` gives every hunk after the widening as a formula of its lines;
    no two of them overlap (`WideApart`). Only when a patch deletes the end of the document
    does it matter which of them meet: apart from `AwkwardEnd` a deletion meets the next
    hunk exactly where their lines are neighbours (`Meeting`), and `Trimmed` says
    which delimiter the run of deletions at the end takes.
  - `Spliced` is the invariant of `Apply`, which counts down: the text so far is that
    of the patched lines below, except that deletions at the end leave a last
    delimiter until the first of their run takes its own (`EndSplice`, `MiddleSplice`).
    `TextPatched` is its end, and with `Answered` it gives `PatchesAreOfLines`.
  - `DeltaOfPlace`: before the deletions that end the document the delta in bytes of
    a hunk is that of its lines. A kept line is above those deletions (`KeptAbove`) and so
    never counts them, and both sums are the same (`AppliedDelta`). `PatchKeepsLines`
    then gives `LinesAreCarried`.

  Both are facts about texts and hold in every state; neither theorem uses the
  guard `PatchHeld`.
- `AppServerClient_proofs`. That an answer is the call's own needs to know what may lie
  on the stream: `OneReader` gives the stream to the one call inside the slot, `InStep`
  keeps each call in a fork of its own, `TurnsAreAskedFor` lets a turn begin only
  with the answer to the one request for it, `LinesAreTrue` says that a completion is
  the last line of its turn, and `DrainedIsOver` that a drain which saw one leaves
  nothing. The lemmas `Taken` and `Appended` carry these over the queue. From it: `AnswersBelong`, `CancellationsAreClean`, and `LostClientIsSilent`,
  since an unusable client is held by nobody (`unusable => owner = NoCall`).
- `GrokFork_proofs`. `OneInside` ties the gate to the one call inside, `Accounted` knows
  for each place which processes and forks may exist, and `CopyInProgress` squeezes a
  copied version between the signatures of the two walks, so that equal signatures
  leave one moment. From it: `SnapshotConsistent`, `OperationsAreDisposable`,
  `StopsAreClean` (with `Blamed`: before its cleanup a question is not faulty, during it
  exactly if the cleanup has failed).

Recursion over hunks is written as recursive functions: the prover knows of
`f[i \in S] == e` only that `f` is whatever satisfies its equation, so that
`PatchedEquations`, `DeltaEquations`, `TextEquations`, `WidenedPlaces` and
`SplicedEquations` first build such a function, hunk by hunk or line by line. The
library's induction theorems cannot be used (they take an operator); `CountUp` and
`CountDown` are induction over a set of numbers and suffice (`SequenceInduction`).

Only model-checked: liveness under fairness (`RequestsAnswered`, `LeftAloneEnds`,
`ConnectionsReleased`, `IterationsEnd`, `UnusableIsStopped`, and `EveryCallReturns` of
both clients), which the prover does not reach. Every invariant and every other
action property of the passing runs is a theorem.

## 5. Findings

Each is a property that a document, comment or test of the repository states, with a
run whose counterexample is a behaviour of the code.

1. `iteration_canceled`. `executePreparedProposal` never looks at its operation:
   an answer that came before the stop was handled installs its proposal, and the operation
   ends as canceled.
2. `stale_proposal`. `rejectPendingFeedbackMutation` calls itself when the
   pending proposal is obsolete: changing locked feedback after an external edit
   ends the process.
3. `lost_instruction`. A comment whose anchor follows an external edit keeps the id
   of the old revision, and everything that reads feedback selects by that id: the
   instruction is shown as active and is missing in the handoff.
4. `raw_line_numbers`. From its second edge on, a comment left behind on an older
   revision, and a comment moved by a refined section proposal, keep line numbers
   nobody compared with the text. When such a line is past the end of a
   later document every save fails until the comment is edited or deleted.
5. `stop_demotes`. A stop that kills git, `grok inspect` or the ACP process comes back as
   an exit status and not as a cancellation (`grokbuild/client.go:585`); the monitor
   (`cli/review.go:477-486`) then marks the agent as unavailable and refuses every later
   question, although `docs/agent-integrations.md:173-174` keeps that for failures other
   than a cancellation. In the run nothing fails by itself. `StoppingIsClean` is about
   the client inside the monitor, which a stop alone leaves usable.

Met while modelling, and without a run of their own:

- Two whole-line deletions with one blank line between them, the second at the end of
  the document (`patches/hunks.go:92-125`). In "a, b, blank, c" the deletion of c
  takes the delimiter before it, which is where the deletion of b ends; the trimming
  that is "only for an adjacent group where the last hunk could not claim its leading
  delimiter" (`hunks.go:106-108`) takes the two for neighbours and removes a further
  delimiter: the result is "a" and not "a, blank", and a comment on the blank line moves to
  line 1. `AwkwardEnd` names the case, `PatchesReplaceLines` and
  `KeptLinesFollowTheirText` hold everywhere else; without the exception TLC finds it.
- `AwkwardEnd` also leaves out a deletion whose text ends with the terminal delimiter: on
  its own it takes the delimiter before it as well ("a, b" with a terminal newline becomes
  "a" without), next to another deletion it does not.
- `Validate` looks for the lines of a comment on the proposed document in the current
  one (`session/transitions.go:106-109`): a comment on a line that only the proposal has
  passes `handleCreateThread` and then cannot be saved, against `PRODUCT.md:76-77` ("the
  proposed document behaves like any other revision"). `OnlyStraysAreRefused`
  states the other side of this and of 4: with no proposal pending and no active comment left
  on an older revision, nothing the handlers build fails validation.
- When another process of a shared review finalizes or cancels, the first `GET
  /api/state` here sets `finished` (`server.go:1709`) and nothing is sent on `done`.
  When the last tab has gone, `abandonOrphanedReview` finds the review finished
  (`server.go:1477`) and returns: the command waits until it is interrupted. `Overlooked`
  names the case, `LeftAloneEnds` holds in every other; without the exception TLC finds
  it. `docs/storage.md:75` says that several servers may review one plan. If the other
  process reopens the review after that, this one may finish it a second time,
  and with the first result unread its handler waits for room in the channel.
- A request to the app server is written without context or deadline
  (`appserver/client.go:316`, an interrupt `:237`, outside the "independent bounded
  context" of `:218-221`): when the child lives but takes nothing more, the call outlasts
  its deadline with the slot in its hands, the attachment probe its timeout too. Calls
  behind it return at their own deadlines. `EveryCallReturns` excepts the phases
  `writing` and `interrupting` for this reason alone: without the exception TLC
  finds it.
- `stageIsolatedSession` does not look at the result of `RemoveAll`
  (`grokbuild/client.go:364-371`): after a failing staging a home may stay,
  against `docs/agent-integrations.md:142-145`. `NothingLeftBehind` therefore speaks of the
  homes of calls that had asked for a fork.
- A question that waits at Grok's gate goes on although the cleanup before it failed:
  only the monitor refuses questions, and it does so before the gate.
- The command returns without waiting for `runIteration`: an iteration that is
  canceled by its end may leave a temporary home.

## 6. Not modelled

- The Claude Code client: one process per question behind a gate, with nothing kept;
  its failures are those of an agent in `ReviewIteration`.
- The legacy autosave, its revision store and journal; the migration into the bundle.
- Git objects inside a commit: revision chain, proposal and note files, inspection
  and snapshots of a bundle.
- Selections inside a line and UTF-16 columns; the diffs of `reviewmodel` and `diff`,
  which are only displayed.
- Details inside what is modelled, on which no property turns: the saves of
  `EnableBundle` after an edit of the plan file before the start
  (`server.go:178-186`); comments that `RestoreRevision` detaches, in `ReviewIteration` (in
  `ReviewSession` it detaches them); the baseline of the source file after the command
  has written the plan (`server.go:1492-1507`; `finalize` in `ReviewSession` leaves it,
  see `SharedReview` below); expected texts that end with a delimiter, which
  `LinePatches` does not send.
- The client state projection, the web client, XML, prompts, digest texts, skill
  installation, the updater, printing and argument parsing.

## 7. Plan

Done since the first version: the clients of Codex and Grok Build, the bytes below
the patches, and the proofs of the safety properties of all of these.

In this order; each step with its runs and, where the prover reaches, theorems.

1. `SharedReview`: source file, baseline, `RecordSourceSave` and the command's write
   of the plan over the ledger, with a second process: a finish seen only through a
   reload, a crash between handoff and record, an own write taken for an external
   edit, a torn plan file. It uses `ReviewLedger` in place of `BundleStore`.
2. `RevisionJournal`: the two-file write of the legacy record with its journal and
   recovery; refinement of an atomic write.
3. `ClientState`: what the projection allows is what the handlers accept.
4. `Updater` and skill installation: replacement with backup, interrupted anywhere.
5. Proofs: the invariants of 1 and 2; what the splice leaves under `AwkwardEnd`,
   as a theorem that names the result.
6. Selections inside a line, in `TextPatches` and in the anchors of `ReviewSession`.
