# pydantic-ai-go: a TLA+ verification project

pydantic-ai-go is an agent library: an `Agent` sends a conversation to a model,
executes the tools the model calls, sends the results back, and goes on until it
has an output. Runs are concurrent programs: parallel tools, event consumers,
goroutines that enqueue messages or cancel, and a manual driver all touch one
`run` value. The modules here describe that control: what the run does with each
of these at every point, and which promises survive every order of steps.
Around it are the parts that outlive a run or serve several: the history a caller
stores between runs, a response a provider goes on generating, the credentials of
several processes, a realtime session.
Provider clients, schemas, message formats and other data are left out.

Contents: 1 inventory, 2 the modules and the code, 3 what the runs check,
4 bounds, 5 fairness, 6 proofs, 7 disagreements between code and text,
8 abstractions and what is not modelled, 9 plan.

Lines are those of `src/` at the commit this project describes. PROJECT.json maps
every definition to them, and lists the hazards with the properties that cover them.

## 1. Inventory

### The run and what touches it

| Component | State | Operations | Hard behaviour |
|---|---|---|---|
| Run loop (`loop.go`) | `run`: messages, step, retry counters, usage, `deferredResults`, `pendingDeferred` | `newRun`, `loop`, `modelRequest`, `executeCalls`, `finishOutput`, `wrappedLoop`, `closeRunResources` | several exits, each of which must settle the queue, the history and the deferred calls |
| Tool calls (`loop.go`, `stream_commit.go`) | outcome per call, winner, group context, `toolRetries`, `availabilityRefused`, tool call count | three end strategies, barriers, goroutine groups, collection, inline handlers | parallel failure, cancellation and counting; every call needs exactly one answer |
| Pending messages (`enqueue.go`) | `pendingMessageQueue`: entries with a priority, `closed` | enqueue, `drain`, `drainForRedirect`, `close`, persist, restore | producers race the end of the run; messages outlive a deferred or cancelled run |
| Event queue (`loop.go`) | `eventQueue`, `eventDispatching`, `eventErr`, `emit` | `emitStreamEvent`, `emitImmediateEvent`, `setEventEmitter`, `drainStreamEvents` | one emitting goroutine runs the consumer's loop body for all others |
| Manual driver (`agent_run.go`) | worker goroutine, channels `events`, `advance`, `stop`, `done`, `pendingAdvance`, published outcome | `StartRun`, `Next`, `Events`, `Close`, `Cancel`, `Emit`, `Result`, `Err` | a two-way handshake over unbuffered channels that anyone may end |
| Streaming consumer (`stream_run.go`) | the range-over-func loop, committed output | `RunStream`, detachment | the consumer may leave at any event |
| Concurrency limiter (`concurrency.go`) | channel of slots, waiting counter under a mutex | `Acquire`, `Release`, gated model, gated run | channel and counter change in separate steps |
| Continuation (`continuation.go`, `loop.go`) | suspended response, poll and generation counters | poll, merge, cancel, detach | a remote response is left running, or cancelled twice |
| Fallback (`fallback.go`) | pinned model, attempts, opened models | `Request`, `StreamRequest`, cancel, close | which model owns a suspended response |
| Deferred calls (`deferred.go`, `loop.go`) | `DeferredToolResults`, kinds stored in the history | apply, resolve inline, persist kinds | a call deferred again as another kind; answers refused; results that come back in a later process |
| History (`loop.go`, `history_repair.go`, `tool_call_ids.go`) | messages, as a run sends them and as a caller stores them | drop orphans, merge, repair dangling calls, order results, fit IDs | two functions match calls with results in different orders; IDs used again; what was sent once must be sent alike for ever |
| Lifecycle (`toolset_open.go`, `toolset_lifecycle.go`, `loop.go`, `fallback.go`) | opened toolsets, entered models, their closers | open, replace per step, switch models, close in reverse | a failure half way, in either direction; a model named before it is opened |
| Capabilities (`capability*.go`) | hooks, order | sort, wrap, before and after hooks | constraints, cycles |
| OAuth credentials (`internal/oauthcreds/`) | revision, flight, failure count, unsaved predecessor; a storage shared by processes | `Prepare`, `Refresh`, load, `RoundTrip` | one refresh token is spent once, also when saving its successor fails |
| Usage and limits (`usage.go`, `limits.go`) | counters; the usage a wrapper read before the request | add, subtract what a resumed response had cost, check before and after | the same subtraction in two places that learn of the resumed response differently |
| HTTP retries (`retries/`) | attempts | transport | retry of a request that was answered |
| Realtime sessions (`realtime/`) | counters of replies owed and tool batches in the session; requested and deferred responses in the connection; history | `Send`, `Enqueue`, `WaitForReply`, `Close`, tool goroutines, the pump, redialing | two locks and two views of one conversation, over a socket that drops |
| MCP (`mcp/`) | sessions, shared toolsets | open, call, reconnect | sessions shared by runs |
| Everything else | — | streaming accumulation, serialization, providers, instrumentation, workspaces, durable adapters, UI adapters, evals, CLI | conversion or I/O |

### How they interact

* A caller uses `Run`, `RunStream` or `StartRun`. All three build a `run`
  (`newRun` restores messages persisted in the history), install an emitter,
  call `wrappedLoop` and then `closeRunResources`.
* The loop alternates model requests and tool execution. A model, or the whole
  run, may be gated by a **limiter** that other runs share.
* Before each request, and once more when the response is final, the loop drains
  the **pending message queue**. Any goroutine with a `RunContext` or the
  `AgentRun` adds to it.
* `executeCalls` starts goroutines. They emit into the **event queue**, count
  against shared counters, and may cancel the run.
* The event queue calls the consumer: for `RunStream` the body of the
  application's `range` loop, for `StartRun` the worker's `send`, which is one
  side of the **driver** handshake.
* Cancellation is a context cause shared by all of them: `ErrRunCancelled` for
  `Cancel` and `Close`, `errStreamDetached` for a consumer that left, or the
  caller's own context. `wrappedLoop` lets it prevail over every outcome.

### What makes each part correct

* Limiter: exact counts, both bounds, no idle slot while somebody waits, and every `Acquire` returns.
* Pending messages: a finished run has delivered all it accepted; nothing is
  delivered twice; order is kept; a deferred or cancelled run keeps its queue.
* Tool calls: every call has one answer; the winner is the one the strategy
  promises; a barrier runs alone; the limit holds.
* Run loop: what is billed is counted once and stays within the limits, the run's own
  messages are told from the history, a reminder is sent once, and what was answered or
  rejected stays in the history.
* Event queue: one owner; nothing stranded; each event once and in order; refused after detachment.
* Driver: progress only inside a call; no standoff; `Close` returns and is
  reported as a cancellation; `Next` is an iterator; `Err` covers what `Next` said.
* Suspended responses: nothing is left running for nobody, nothing is counted twice, every request ends.
* Deferred calls: however often it is deferred, a call has one result or is reported; the
  answer that was asked for is accepted; an approval is used once.
* History: what a provider is sent answers each call once, and only grows.
* Credentials: a refresh token is presented once, and a replayed request bears a new token.
* Realtime: session and connection agree on what is owed; a wait for a reply returns.
* Lifecycle: whatever a run opened is closed, last first, and a request reaches an opened model.
* Planned parts: see section 9.

## 2. The modules and the code

| Module | Models | Composes with |
|---|---|---|
| `ConcurrencyLimiter` | `concurrency.go` | proofs in `Remote_proofs` |
| `RunLoop` | `loop` and `modelRequest` of `loop.go`, `limits.go`, the sums of `usage.go` | proofs in `RunLoop_proofs` |
| `PendingMessages` | `enqueue.go` and every use of the queue in `loop.go` | proofs in `PendingMessages_proofs` |
| `ToolCalls` | `executeCalls` and what surrounds it in `loop.go`, `stream_commit.go` | proofs in `Calls_proofs` |
| `DeferredCalls` | deferral, `applyDeferredToolResults`, `handleDeferredToolCalls` and resumption in `loop.go`; the deferring ends of `executeCall` | proofs in `Calls_proofs` |
| `EventQueue` | emission and draining in `loop.go` | proofs in `EventQueue_proofs` |
| `AgentRun` | `agent_run.go` | implements `RunIterator`; proofs in `AgentRun_proofs` |
| `RunIterator` | what `Next`, `Result` and `Err` promise their caller | abstract: instantiated by `AgentRun` |
| `SuspendedResponses` | `doModelRequest` with `continuation.go` and `fallback.go` | proofs in `Remote_proofs` |
| `Credentials` | `internal/oauthcreds/manager.go`, `transport.go` | proofs in `Resources_proofs` |
| `RunHistory` | messages through the runs of `loop.go`, `history_repair.go`, `tool_call_ids.go` | — |
| `RealtimeSession` | `realtime/session*.go` over `realtime/internal/openaiprotocol/connection.go` | proofs in `RealtimeSession_proofs` |
| `Lifecycle` | `toolset_open.go`, `toolset_lifecycle.go`, opening and closing in `loop.go`, `OpenModel` of `fallback.go` | proofs in `Resources_proofs` |
| `MC*` | the constants of the instances TLC checks | extend the module of the same name |
| `MCComponents`, `MCRemote`, `MCResponses`, `MCLoopEvents` | several components side by side: `part` is chosen in the initial state and the variables of the others rest | `MCComponents` extends `Credentials`, `Lifecycle` and `RealtimeSession` and instantiates `RunHistory`; `MCRemote` extends `ConcurrencyLimiter` and `SuspendedResponses` and instantiates `RealtimeSession`; `MCResponses` extends `ToolCalls`, `DeferredCalls` and `PendingMessages`; `MCLoopEvents` extends `EventQueue` and `RunLoop` |

Operators named "Mutant" in a comment are broken variants of the definition that
follows them. No action uses them: substituted for the definition they vary,
each makes one property fail, which shows that the property depends on that code.

### ConcurrencyLimiter

`slots` is the length of the channel, `waiting` the counter under the mutex, and
`sendq` the Go runtime's queue of senders blocked on the channel. An operation walks
through `Acquire` one synchronisation at a time: the context check (`Begin`), the
non-blocking send (`TryFast`), the critical section (`Join`, `Reject`), the
select (`SelectSlot`, `SelectDone`, `SelectBlock`) and the deferred decrement
(`Leave`). `Release` hands its element to the head of `sendq`, as the runtime
does, so a slot released while somebody is blocked never becomes free. The four
users differ only in when they release: `Finish` on return, `OpenFails` when a
wrapped model gives no stream, `EndStream` at the end of the range.

### RunLoop

`at` is the place in one turn of `loop`: the head of `modelRequest` (`Prepare`), the second
delivery and the wrappers (`Wrap`), the hooks before the request (`Hooks`), the request
(`Ask`, `AskFails`), the hooks after it (`After`), and what `loop` does with the result:
`GiveUp` without a response, `Reject` with one a hook sent back, `Accept`, and then one of
`Finalize`, `Commit`, `EndEarly` and `Execute`. `Fail` is an error of any callback. A message
is its role, the kinds of its parts, whether the run made it, and a number for a reminder; `asked` is the list a
request is made with, which ends in the suspended response while `seed` holds. `spent` is
`r.usage`, in requests and tokens; `billed` is what the providers and tools really billed.
`odd` names the ways the two may part: `lost` and `made` are a response the loop never
learns of and one an error hook made up, `standin` a wrapper that answers for the suspended
response, `polled` a job that is asked again after it had answered. `conf` holds the
options and the history of the run.

### PendingMessages

`pc` follows the loop from `newRun` to `closeRunResources`. `history` keeps the responses and
the enqueued messages; other requests are left out, because nothing about the queue depends
on them. A response carries in `waiting` the queue persisted in its metadata, which
`StartRun` restores (`Restored`) and strips (`Stripped`). `queue` is the one slice of the
code, as a sequence per priority. `DrainAsap`, `DrainForRedirect` and `Persist` are
operators. `DeliverGroup` is one round of `deliverPendingMessageGroups`, which may stop half
way. `Enqueue` and `CancelRun` interleave everywhere; a refusal by a closed queue changes
nothing. Every exit is kept: `Finish` with a result, an error, `DeferCalls` and
`DeferResult` (which persists the queue, as `ConcludeRun` may do again), cancellation, an
outcome recovered by an error hook (`Unwind`), and the panic. `turn` records the order in
which messages were accepted, which is what `OnceInOrder` compares a history with.

### ToolCalls

A response is a sequence of kinds of calls. `phase` follows `executeCalls`
through its three strategies, with one pass (`Scan`) for all three: a group of
consecutive calls that do not stop the pass runs in parallel, a barrier alone.
Each goroutine has three steps: `Execute` (or `EnterRefusal` and `LeaveRefusal`
for a tool the model has not searched for yet), and `Settle`, which counts, emits
and may cancel the group. `Join` is `wg.Wait` and the choice of the error.
`Collect`, `Returned`, `Handlers` and `Answer` follow `collectCallOutcomes` to
the append of the answering request. `committed` is an output a streamed run took
while the response was still arriving.

### DeferredCalls

The calls of one response, from its first batch to the request that answers them, through
handlers and later runs. `tool` is what the definitions say (`Tools` are those that
`prepareModelParams` accepts), `deferrer` who else may defer a call. A batch is a `fate`
per call: `Resolve`, `Defer` and `CallTool` are the ends of `executeCall` without, before and
after `callTool`, and `Gather` is `collectCallOutcomes` with the parts, the kinds it stores
(`Persisted`) and the requests that remain (`Remaining`). A handler's answer and the caller's
pass the same checks (`Accepts`), complete only for the caller, and select the next batch
(`Select`). `Conclude` puts results into the history and ends the run if something is still
deferred; `Resume` is the later run. A run that fails leaves the conversation it came
with (`kept`). Two history variables: `credit` counts approvals not yet used, `lost` says
that a handler made a resumed run retry.

### EventQueue

An emission is split where the code releases `eventMu`: append (`Emit`,
`EmitImmediate`), listeners (`Listen`), the test of `r.emit` (`Check`, `Release`),
`Pop`, and the consumer's body (`EnterBody`, `LeaveBody`, `Stop`). `consumer` is the
state the Go runtime keeps for a range-over-func loop: calling the body of a
loop that was left, or leaving the iterator while the body runs, stops the
program (`panicked`).

### AgentRun and RunIterator

`worker` and `pc` are the places of the two sides. A transfer over an unbuffered
channel is one joint action (`Send`, `Advance`); a select offers each of its
ready cases. `phase` tells whether the worker is still in `setEventEmitter`, where
events emitted before the first call are drained, or in `wrappedLoop`.
`runErr` is the set of errors joined in the variable of that name and is
overwritten exactly where the code assigns it. `Finish` publishes before the
channels close. `RunIterator` has four actions: `Deliver`, `Settle`, `Fail` (at
most once, after the outcome is final) and `Over`. The refinement mapping is
the identity on the two history variables, and `Verdict` is what `Result` and
`Err` return.

### SuspendedResponses

One model request from its first segment to its last. `place` is at the top of the loop of
`doModelRequest`, at a candidate of the chain (`send`), or at the end. `jobs` is what
the providers know: each response they made, the usage they billed for it and whether
it is still running. The model has both kinds of suspension: a job, polled under its
ID, and a pause, continued by a new response; `MergeMode` and `Merge` tell them apart as
`continuation.go` does. `Ask` picks the candidate the response is pinned to;
`PinnedFails`, `CandidateFails` and `PredicateRejects` are the three ways the chain goes on, and
`NextCandidate` its exhaustion. `StreamBreaks` is an answer that comes with an error, streamed
or drained by a `Request` (`openaicodex`, `openaichatgpt`); it, `SendFails` and `Interrupt` bring
the consumer that leaves; `Resume` is the later run whose history ends in what it left.

### Credentials

A credential set is the number of its issue. A request (`at`) loads, takes a snapshot,
sends, and after a 401 refreshes and sends again. When the expiry hint is near it refreshes
before it sends, whether or not the provider still accepts the set. `EnterLate`, `Join` and `TakeOff` are the
outcomes of the critical section at the head of `refreshRevision`; the flight goes
through `LoadStored`, `Exchange` and `Save`, each at the mercy of the storage or the
provider, and `Settle` publishes its result to those that joined. Several requests share
a process, several processes the storage.

### RunHistory

A message is a request or a response, a part the ID of a call, of a result, or a
prompt. The repairs are operators on sequences, in the code's own order, and `Sent` is
what a provider receives. Runs (`StartRun`, `ResumeDeferred`, `Respond`, `Execute`,
`Finish`, `Refuse`, `CancelTools`, `FailRun`) append; the caller (`Reorder`, `Cut`,
`Repair`) edits what it stores in between.

### RealtimeSession

`replies`, `batch`, `of`, `tool` and `history` are the session's, `conn` the connection's;
`wire` holds what the provider sent and the pump has not read. A step is one
critical section of one of the two mutexes, but for those that have several: an event handed
to the connection and then to the session (`HandleStarted`, `HandleCall`, `HandleDone`,
`HandleRejected`), the reset after a reconnection (`HandleReconnected`), and the writes that
count or ask afterwards (`ToolSends`, `SendWrites`, `DeliverWrites`). A tool that ends first counts itself in the
session's batch (`ToolReturns`), then reserves a reply (`ToolReserves`), then writes to the
connection (`ToolSends`), which counts it again, then is recorded (`ToolRecords`).
`Drop`, `Redial`, `Reconnects` and `HandleReconnected` are a socket lost without restored
state.

### Lifecycle

A resource is the number of its opening. `stage` follows the run: `Resolve` (`toolsetForRun`
of every toolset), the toolsets part by part (`OpenPart`, `ToolsetOpened`), then for each step
the model the selectors name (`Select`), opened part by part unless `entered` has it
(`OpenModel`, `ModelOpened`), the hooks before the request, which may switch to another model
(`Hooks`), and the request. A combined toolset and a fallback model collect in `opening` what
becomes their one closer. When a part fails, `closing` takes over what was collected
(`OpenPartFails`, `OpenModelFails`), and when the run is over `CloseNext` hands it the closers,
models before toolsets, last first. `AskAgain` is a wrapper that calls
`next` again; `refused` is the model that call asks although it did not open, unless a hook
names another.

## 3. The runs

| Run | Checks | Shows |
|---|---|---|
| `loop_events` | of RunLoop UsageExact, NewMessagesExact, WithinLimits, ReminderOnce; of EventQueue SingleOwner, NoStrand, InOrder, ListenersOnce | the books a run keeps of its usage and messages are right whatever its hooks do; ownership of the queue, and order and multiplicity of delivery |
| `responses` | TypesOK; of ToolCalls ResultJustified, BarrierAlone, AnswersEveryCall, LimitHeld; of PendingMessages ResultDeliversAll, OnceInOrder, ConcludeKeepsQueue; of DeferredCalls EachCallOnce, DecisionsHonoured | the output is the one the strategy promises, a sequential tool runs alone, one answer per call, also with a consumer that leaves; a message accepted at any moment of two consecutive runs reaches the model once, in order, unless the run fails; a call deferred again and again is answered once, by whom it was put to |
| `agent_run` | LockStep, NoStandoff, ClosedIsCancelled, IsIterator, CloseReturns, NextReturns | the handshake, the end of the run, and the refinement of `RunIterator` |
| `components` | AllTypesOK; of Credentials NeverSpendsTwice, ReplaysFreshSet, WaitsForFlight; of RunHistory HistoriesValid (SentValid and RepairStable), CacheStable; of RealtimeSession BatchesSound (BatchesAgree and ResultsFollowResponses); of Lifecycle UsedWhileOpen, Released | rotated tokens are safe in the hands of several requests and processes; every history a run sends is acceptable and keeps the provider's cache; the two sides of a realtime session count alike; a run closes all it opened in reverse, whatever fails, and opens each model once and asks opened ones only |
| `remote` | of ConcurrencyLimiter CountsExact, WorkConserving, AcquireReturns; of SuspendedResponses JobsAccountedFor, UsageCountedOnce, RequestEnds; of RealtimeSession WaitReturns | counts are exact in every interleaving although channel and counter change apart, and nobody is starved; no job is left running unseen and none is billed to two runs; a request ends however long its providers stall, and so does a wait for a reply |
| `pending_persist`, `tool_calls_cancel`, `tool_calls_refusal`, `event_detach`, `agent_run_error`, `loop_resume`, `loop_rejected` | one property each | a violation: see section 7 |

Some properties name an exception, because the code has one:

* `AnswersEveryCall` exempts a run cancelled meanwhile, and deferred calls beside
  an output committed while streaming, which get no answer (`stream_commit.go:299`).
* `UsageExact` exempts the runs in which `odd` says `lost`, `made` or `polled`, and
  `NewMessagesExact` a run whose history a hook replaced.
* `WithinLimits` exempts a last step whose hooks billed usage of their own, which the limits
  read before them (`limits.go:16`), and a wrapper that answers for a suspended response.
* `ClosedIsCancelled` exempts a run closed before `wrappedLoop` started: it ends
  with neither a result nor an error.
* `NextReturns` exempts `Standoff`: a stream processor failed on an event emitted
  before the start, that error was forgotten, and closing the resources failed as
  well. The `Next` that took the first error then waits for the worker, and the
  worker for a `Next` that would take the second.
* `ConcludeKeepsQueue` is about the queue at the step that concludes the run. What
  is accepted between that step and the closing of the queue is lost
  (`loop.go:4159`), which no text of the repository excludes.
* `JobsAccountedFor` exempts a suspended response that a predicate rejected
  (`fallback.go:190`), and a job without a pin that an agent without the chain left.
* `UsageCountedOnce` exempts a rejected poll of such a job, and asks for equality of a
  first run whose responses no later one replaced.
* `ReplaysFreshSet` exempts a request refused with a set whose own flight was still
  saving it: it joins that flight, whose success says nothing about the refused set.
* `SentValid` and `RepairStable` exempt a history that lost a response and used the ID of
  one of its calls again; `CacheStable` a history that was cut, and results split over
  two requests (`loop.go:1451`).
* `EachCallOnce` exempts a resumed run in which a handler fails with a `RetryError`: the model
  is asked again at once, without the results that were resolved (`loop.go:1219`).
* `DecisionsHonoured` exempts answers to calls deferred by a `ToolValidationWrapper` when no
  hook might have: they are refused (`loop.go:1549`). The call of an external tool that a
  hook put up for approval runs in the process once approved (`loop.go:3585`); the property
  asks only that it was.
* `ResultsFollowResponses` is about sessions that are not ending; `BatchesAgree` about
  moments at which the pump is not redialing, since a redial tells the session first.
* `UsedWhileOpen` exempts one model for one call: the one a hook switched to and that did not
  open, when a wrapper calls `next` again and no hook switches to another. The run's model names
  it already (`loop.go:1292`), so nothing opens it. All else the property asks of that call too:
  what is open, remembered and to be closed agrees.
* `Released` exempts a closer that came with a nil toolset, which is dropped although
  `toolset.go:38` says that it is called once, and lets a stream keep its result although a
  closer failed when its consumer had left (`stream_run.go:268`).

Deadlock is checked in `remote`, `responses`, `loop_events` and the violations of `ToolCalls` and
`RunLoop`, where ended runs stutter (`Finished`, `LoopEnded`) and so may the parts that
really stop: `PendingMessages` after its last run or a panic, `EventQueue` after its bound on
events or a panic, a request or a session that has ended. `AgentRun` stops when
every caller is inside `Next` while `Standoff` holds; the two liveness properties
say that there is no other way to be stuck. `components` ends when every
request is done, the runs and edits are used up, a session is closed, or the resources
of a run are. `RequestEnds` and
`WaitReturns` tell such an end from a wait.

## 4. Bounds

| Module | Instance | Why it is enough to meet the hard cases |
|---|---|---|
| ConcurrencyLimiter | 4 operations, one of them streamed, 2 slots, queue of 1; operations repeat for ever | two holders, one waiter and one rejected or racing the critical section at once. `AcquireReturns` is checked of one operation (`Watched`): three are alike, and all acquire alike |
| RunLoop | 24 runs (`MCRuns`): output by text or tool, streamed or not, early or not; system prompts; limits with usage carried over; resumed, with a wrapper, with reminders in the history. 1 turn with tools, 1 message enqueued, 1 retry | a retry after a reminder, with one more request around it; a limit met exactly, by what was carried, what a tool or a summary cost or what a resumed response had cost before; a resumed response rejected and asked for again |
| PendingMessages | 2 ASAP messages, 1 idle message, 2 responses per run, 2 runs | two of a priority for order, one of the other for precedence; one response before and one after a redirect; a second run to restore. The violations need 1 message and 1 run |
| ToolCalls | up to 3 calls in 1 response, streamed or not, and 2 in each of 2 responses, not streamed; 1 retry; a limit of as many calls as a response may hold | a group before, a barrier, and a group after; two outputs and a function call; counters carried to a second response |
| DeferredCalls | 2 calls of any two of the tools that are accepted; no deferrer, a hook or a wrapper; 2 handlers, 2 later runs | one call answered while the other is deferred, and deferred again as the other kind by a handler, then by a later run, then by one more; a run that fails after a run that went well |
| EventQueue | the loop, 2 tools, 1 outside goroutine; 2 events each, 5 in all | an owner, an emission that appends, and one that arrives as the owner lets go |
| AgentRun | 3 callers, 2 events | one inside `Next`, one waiting for the mutex, one in `Close`; an event before the start and one after |
| SuspendedResponses | 3 candidates, two of them with jobs; 1 generation, 2 polls, limit of 4 units; 2 runs | a pin, a rewind and exhaustion after it; both limits; a run that resumes what another left |
| Credentials | 3 requests of 2 processes, 3 sets, 1 failure each | two requests of one process in one flight and one that comes late, while the other process rotates what they hold |
| RunHistory | 2 IDs, one of the demanded length, of 2 such; 5 messages, 2 runs, 1 edit | two parallel calls, a response of the first run shadowed by one of the second, an ID that must be renamed because another one's hash took it |
| RealtimeSession | `components`: 2 calls, 1 text or prompt, 1 response the provider starts, 1 drop. `remote`: 1 call and 1 waiting caller | two tools of one response that end before and after it; a request refused because the provider was faster; a drop at each step |
| Lifecycle | a toolset of two parts and one of one; a model that is no opener, one that is, a fallback of two; 3 steps, 1 repeated request | a second toolset failing after the first, a second part after its sibling; two models entered, one named again, a third that fails |

`MaxSets`, `MaxFailures`, `MaxMessages`, `MaxEdits`, `MaxInputs`, `MaxSpeech`, `MaxDrops`,
`MaxResponses`, `MaxRuns`, `MaxRounds`, `MaxCalls`, `MaxEvents`, `MaxTurns`,
`MaxArrivals`, `MaxSteps`, `MaxAgain`, `MaxResumes` and `MaxQueued` (of EventQueue) bound the model and not the program. `MaxQueued` of the limiter,
`MaxRetries` and `ToolCallLimit` are parameters of the program. Symmetry is used
over the ASAP messages, the deferred calls and the tools, in runs without liveness properties.

## 5. Fairness

* **Limiter**: weak fairness of each operation's own steps (`Run(o)`): a goroutine
  that can run does, and an operation that holds a slot ends. Contexts are not
  cancelled and callers do not come back by fairness. The FIFO order of
  blocked senders is the Go runtime's; it is why weak fairness is enough.
* **AgentRun**: weak fairness of the worker, because models and tools return; weak
  fairness of each caller's steps inside a call; strong fairness of `Lock`,
  because `sync.Mutex` hands over to a goroutine that has waited for a
  millisecond. Nobody has to call `Next` or `Close` again.
* **SuspendedResponses**: weak fairness of `Request`, the steps of the request's own
  goroutine: a provider answers or fails. Interruptions and resumptions are not assumed.
* **RealtimeSession**: weak fairness of `Pump` (the goroutine reads what the socket has, and
  dialing ends), `Answering` (a provider ends each response), `Delivering`, each `Tool`,
  each `Sending` and each `Waiting`: goroutines that can move do, and tools return.
* RunLoop, Credentials, RunHistory, PendingMessages, ToolCalls, DeferredCalls, EventQueue and
  Lifecycle are checked for safety only: whether they go on depends on models, tools and consumers outside the code.

## 6. Proofs

For every value of the constants allowed by the named assumptions of the
modules, and without TLC's bounds on the number of actors:

* **Remote_proofs**, on ConcurrencyLimiter. Assumes that the set of operations is finite, a
  capacity of at least 1, and a natural bound or none. `CountsExact` is not inductive: a
  release hands its slot to the head of `sendq`, which has to be a blocked
  operation that appears once. `IInv` adds `QueueOfBlocked`, which says just that.
  The counts are handled by one lemma on how a cardinality changes when one
  operation moves (`CountMove`). Results: `LimiterInvariant`, `CountsHold`,
  `NoIdleSlot`, `TypeCorrect`.
* **Remote_proofs**, on SuspendedResponses. Assumes a chain of at least one model and that
  every model has a name (the pin of a response is the name of a model, and no name is no
  pin); any limits, any jobs, any number of runs. Neither property is inductive. `Accounted`
  adds what a request in progress knows: the response in hand names a job (`Tied`), while
  suspended it is pinned to that job's model unless it came with a foreign history, a chain
  that was rewound has cancelled it, and no other job runs (`Followed`). `Books` adds that
  what was counted, with the response in hand and the attempts that failed, is covered by the
  bills: also if the job has been polled by an answer that was lost (second part of
  `Covered`), and exactly while nothing was left or replaced (`Complete`). `Billed` sums a
  sequence with a recursive function; what a new response or a poll adds to the sum
  (`BilledAppend`, `BilledPolled`) is proved from the least index at which two sums would
  differ (`Least`). `AnswerShape` and `MergeShape` say once what an answer may be and what
  merging makes of it. Results: `RequestInvariant`, `NothingLeftRunning`,
  `EveryUnitCountedOnce`.
* **EventQueue_proofs**. Assumes disjoint sets of goroutines. Five layers, each
  using the ones before: types; `SingleOwner`, which is inductive given the types;
  `Phases` (which goroutines can be where in each phase of the run) for `NoStrand`;
  all three for `InOrder`, whose steps are sequence equations (`OrderAppended`,
  `OrderPopped`, `OrderDelivered`); and `Told` for `ListenersOnce`, which alone is not
  inductive: the listeners of an event that waits may run long after it was appended.
  `Told` says that every event on its way belongs to an emission already counted
  (`AllPast`), that listeners still to run belong to different events, none of them heard
  (`Unheard`), and that what passes them by has been seen by them (`Followed`). Results:
  `TypeCorrect`, `Ownership`, `NothingStranded`, `DeliveryInOrder`, `ListenedOnce`.
* **AgentRun_proofs**. Assumes only that `None` is not a caller. `Driving` is `TypeOK` and ten
  parts: the mutex admits one caller (`Mutex`), before the start nothing has
  happened (`Fresh`), whoever stopped the run waits for its end (`Stopper`), a worker
  that runs has somebody waiting for it (`Driven`), `Marked` and `Handshake` for the
  two ends of the channels, when the outcome is published (`Outcome`), a `Next`
  with an error finds a worker that is ending (`Drained`), nothing follows the end
  (`Told`), and what an interrupted worker knows of the cancellation
  (`Interrupted`). `LockStep`, `NoStandoff` and `ClosedIsCancelled` follow from it,
  and so does `StepRefines`: every step is a step of `RunIterator` or a stutter,
  which gives `DriverIsIterator`. Results: also `DrivingHolds`, `TypeCorrect`,
  `RunsInLockStep`, `HandshakeAgrees`, `ClosedReportsCancellation`.

* **Resources_proofs**, on Credentials. Assumes only that `Nobody` is not a request: any number of
  requests, processes and sets. `IInv` is in layers. `Types` and `Known` say what each
  place of a request implies; `Owned` that a flight has one owner, which is in flight;
  `Secrets` that a process holds no set it has exchanged, that such a set is in the storage
  only as the predecessor the process remembers, and that a set not saved yet is known to
  one process; `Seen` and `Rotated` that a revision changes with the set and success
  means it did. Results: `CredentialsInvariant`, `TypeCorrect`, `TokensPresentedOnce`,
  `FreshReplay`, `NobodyStranded`.

* **RunLoop_proofs**. Assumes `RunsAssumption`: limits and carried usage are two integers
  each, and a history holds messages of earlier runs, so that the reminders of this run are
  numbered from 1; any runs, and any values of the bounds on turns and enqueued messages.
  There are two invariants, with one lemma per action for each. `IInv` has four parts:
  `Types`; `Books`, the equation between `spent` and `billed` with and without the response
  in hand; `Known`, that the wrapper of the limits and the loop mean the same usage and the
  same seed, each in its own variables; `Checked`, that what is judged was within the limits.
  `UsageExact` needs `Books` at every step of a turn, `WithinLimits` needs `Known`, without
  which the projection and what is recorded could differ. `MInv` is about messages:
  `Written` (types), `Owned` (`newMessages` holds the run's own messages, also between the
  request and the judgement of its answer) and `Unshown`, the strengthening `ReminderOnce`
  needs: what a request has shown leaves the trailing requests before the next one is made.
  Dropping reminders removes messages from the middle of a list, so the lemmas number the
  positions that stay (`Ranks`, `NthRank`, `RankKept`) and say what a shortened list shows
  and owns (`DroppedShown`, `DroppedOwning`). Results: `BooksKept`, `UsageReported`,
  `LimitsKept`, `MessagesKept`, `NewMessagesCounted`, `RemindersShownOnce`.

* **Calls_proofs**, on ToolCalls. Assumes `ConstantsAssumption`: any calls, responses, strategies and
  limit. `IInv` says where a pass stands: `Types`; `Order`, which calls have been started and
  which have not (the pass of outputs and the pass of functions differ, which is why
  `OutputPass` and `FunctionPass` are told apart); `Budget`, that what was counted and the
  calls that may still be (`Open`) fit in the limit together, since the limit is read once
  and the goroutines count later; and `BarrierAlone` itself, which `Order` makes inductive.
  `AInv` adds that every call a pass has left behind has an outcome or is running
  (`Covered`), that only a cancelled run drops one (`Undropped`), and what the request and
  the deferred calls hold at each phase after the collection (`Answered`). A group is the
  least run of calls without a stopping one (`GroupHeads`), which rests on the existence of
  least and greatest elements (`Least`, `Greatest`), proved from well-foundedness. `JInv` adds
  what makes the result the one the strategy promises: who can have an output before the
  answer is put together (`Winners`; with `early`, no function call runs once an output call
  has succeeded), and that the answer in the making stands by it (`Judged`) until it is
  handed over. For the types, `TInv` adds that a join leaves no failure behind (`Joined`), that
  the counters stay within the limits (`InBounds`) and what is asked for at each phase
  (`Requests`). Results: `PassesKept`, `BarriersHold`, `LimitKept`, `AnswersKept`,
  `EveryCallAnswered`, `ResultsJudged`, `ResultsHold`, `CallsTyped`.

* **Resources_proofs**, on Lifecycle. Assumes `LifecycleAssumption`: any toolsets and models, of any
  number of parts, and bounds that are natural numbers. `LInv` says that the closers of a run, read from the
  first toolset to the last model and then to what is being opened or closed, hold exactly what
  is open, each resource once and in the order of opening (`Order`); where in the run each of
  these can be non-empty (`Staged`); and that the model of a request was entered, and one that is
  being opened was not (`Chosen`). `Matched`, kept by the same steps, counts: each model the run
  remembers has its closer.
  Resources are numbered as they are opened, so the order is an order of numbers and `Released`
  follows from the last one being the greatest. Four lemmas on sequences carry it: adding to and
  taking from a list of resources or of closers (`Added`, `Popped`, `AddedCloser`,
  `PoppedCloser`). The types follow from these and from `Control`, the counters within their
  bounds: all that is in the order has been numbered. Results: `ResourcesOrdered`, `AllReleased`,
  `AskedWhileOpen`, `ResourcesKeepTypes`.

* **Calls_proofs**, on DeferredCalls. No assumption: any calls, any number of handlers and later runs.
  `DeferralInv` says of a run under way that each call is settled, in the batch or deferred,
  and not two of these (`Placed`), that a request agrees with the stored kind and with who
  may defer (`Sound`, `MayBe`), and of a conversation that is handed back, or that a failing
  run falls back to, the same without a batch (`Whole`). `Consented` and `Unguarded` balance
  `credit` against the approvals in the batch not yet used (`Owed`). One lemma per action.
  Results: `DeferralInvariant`, `DeferralsTyped`, `CallsOnce`, `DecisionsKept`.

* **PendingMessages_proofs**. No assumption: any messages, responses and runs. `IInv` adds two
  parts to the types. `Order` says that what was delivered, what is about to be and what
  waits were accepted in this order, priority by priority (`InLine`), that only the last
  response of a history carries messages, accepted after those delivered (`Sound`, of the
  run's history and of the one the application holds), and that a run in progress carries
  none. `Owed` says that a message of this run is in one of the three places until the run
  fails, and that a result is returned over a closed and empty queue. `OnceInOrder` alone is
  not inductive: it does not compare the queue with what was delivered. Lemmas say what
  appending to a history, persisting and restoring do to it (`AddMessage`, `AddResponse`,
  `PersistSound`, `RestoreSound`) and to the queue (`Joined`, `Taken`). Results:
  `PendingInvariant`, `MessagesTyped`, `ResultsDeliverAll`, `DeliveredOnceInOrder`, `QueueHandedOn`.

* **RealtimeSession_proofs**. Assumes `RealtimeAssumption`: calls, texts and prompts are finite sets
  without a common name, and the provider starts a natural number of responses by itself. The
  bounds on inputs and on dropped sockets are arbitrary. `BatchesAgree` compares two sides that
  learn of a response at different moments: the connection when an event is read, the session
  when it handles it. `IInv` has five parts. `Shapes` are the types. `Channel` says what is on
  the wire: the events take a reader from the response the session collects to the one the
  provider generates (`Flow`), and their responses and calls are new to the session
  (`Orderly`). It holds through a dropped socket because the wire is lost with it. `Recorder`
  ties the calls to the history, `Counted` the session's batches to the tools that run, and
  `InStep` the batches of the connection to the calls still open (`Mirrors`). The type
  invariant bounds what is owed, which takes two counting arguments. `Numbered`: every response
  that the provider did not start by itself answers a text, a prompt or a call that asked for
  nothing else. `Owing`: every reply pending was reserved for a text, a prompt or a batch that
  was counted, once for each, also while a tool is about to reserve it; and the counter of tools
  is the number of tools that run, so none is given back twice or never. Results: `BatchesInv`,
  `RealtimeBatchesAgree`, `RealtimeResultsFollow`, `RealtimeBatchesSound`, `RealtimeKeepsTypes`.

Only model-checked:

* every liveness property (`AcquireReturns`, `CloseReturns`, `NextReturns`, `RequestEnds`,
  `WaitReturns`), because liveness under fairness and ENABLED are out of the prover's reach;
* `HistoriesValid`, `CacheStable` and the types of RunHistory, which is made of folds and
  selections over sequences: what they compute for every input needs induction over data, whose
  theorems the installed provers cannot instantiate. The detour that serves for the one sum of
  SuspendedResponses, a least index at which two functions would differ, needs a recursive
  function over the indexes of one sequence; the repairs feed one fold into another;
* `TypesOK` and `AllTypesOK` as they stand, because they range over components that are only
  put side by side for a run. Their parts for ToolCalls, PendingMessages, DeferredCalls,
  Credentials, Lifecycle and RealtimeSession are theorems (`CallsTyped`, `MessagesTyped`,
  `DeferralsTyped`, `TypeCorrect`, `ResourcesKeepTypes`, `RealtimeKeepsTypes`).

## 7. Where the code and its text disagree

Each is a run that finds the violation; PROJECT.json quotes the text.

1. **`pending_persist`** (`enqueue.go:242`). The search for the last response has
   no lower bound, because "a queue is reachable only from a run context created
   after a model response". A message enqueued earlier, in a run that is
   cancelled before its first response, makes the index negative: the run panics.
2. **`tool_calls_cancel`** (`loop.go:2683`). An inline handler fails because the run
   is cancelled; the loop returns before it records the results of tools that had
   finished, which the documentation says a cancelled run keeps.
3. **`tool_calls_refusal`** (`loop.go:3508`). Parallel calls of unavailable tools
   write the map `availabilityRefused` without a lock.
4. **`event_detach`** (`loop.go:2803`). Nothing records that the consumer left. The
   result event of a parallel tool calls the body of the loop again.
5. **`agent_run_error`** (`agent_run.go:100`). The error of a stream processor, which
   `Next` has returned, is overwritten as the run unwinds: `Err` reports the internal
   `errStreamDetached` or nothing.

6. **`loop_resume`** (`loop.go:1375`). The suspended response a run resumes is forgotten only
   when its answer was accepted. An after hook that rejects the answer makes the next
   request end in it again: the finished job is polled and billed once more.
7. **`loop_rejected`** (`limits.go:22`). With usage limits, the wrapper that checks them drops
   the response that comes with a retry: it stays neither in the history, as the
   documentation says, nor in the usage.

## 8. Abstractions, and what is not modelled

* **Limiter**: each operation holds one slot. An agent and its model sharing one limiter
  is a hazard without a property. Streams are ranged over once, as the run loop does.
* **RunLoop**: output validation is a choice between an output and a retry; deferred
  results are handled in RunHistory, and a run that summarizes its history does not resume.
  Images, native output and the choice of a model have no step of their own, nor has the
  counting of tokens before a request. Requests and tokens stand for the other counters.
* **PendingMessages**: messages are model values, a message's parts are one entry, and
  requests are no entries. The one slice of the queue is a sequence per priority.
  Encoding errors of the persisting step are left out. After an error the application
  keeps the history it had.
* **ToolCalls**: what a tool does is a choice among the outcomes `executeCall` tells apart.
  A duplicate call ID, a usage limit and a consumer's refusal are choices as well.
  `Handlers` is one step: the calls an inline handler approves are executed
  inside it (DeferredCalls has the steps). Two calls of the same kind are calls of the same tool.
* **DeferredCalls**: metadata and override arguments are left out, and so are outputs, limits,
  barriers and cancellation, which ToolCalls has. A call runs when `executeCall` reaches
  `callTool`; a wrapper around the execution might call it again. A later run has the same
  tools and capabilities, and what fails before it executes anything is a `Resume` that
  changes nothing.
* **EventQueue**: payloads, validation and stream processors are left out. A listener may
  fail; it may also emit, which is an emission of the same goroutine that appends
  only and is not repeated here. The test whether the run is active and the append
  are one step. Immediate events come from the goroutines of the run.
* **AgentRun**: usage snapshots and accessors are left out. A wrapper around the
  event stream ends at the first error it sees, as those of the repository do.
  Events are yielded by the worker or by goroutines it waits for.
* **SuspendedResponses**: a segment bills one unit, a poll one more. The usage of a response that
  came with an error, and that the chain dropped for the next candidate, is what the provider
  had reported by then: none. A model of the caller's own whose `Request` returns a suspended
  response together with an error is left out; no model of the repository does. Indexes of the events of
  a continued stream, `OpenModel` and a chain inside a chain are left out.
* **Credentials**: the content of a set is its number. A set that fails validation is a
  load or a refresh that fails. The provider expires a set when it likes.
* **RunHistory**: no tool names, files, thinking or speech; a response has at most two calls.
  Hashes of IDs are `(id + k) % Capacity + 1`: some ID of the demanded length, in a
  sequence that visits all of them.
* **RealtimeSession**: the OpenAI protocol without audio, transcripts, images, playback or
  pruning; the channel of events is never full. One caller of `WaitForReply` at a time. The
  moments between two critical sections of the merged steps section 2 names are no states:
  `BatchesAgree` is about the moments at which both sides have heard of the same events, and
  the decision to answer a batch is one critical section in the code too.
* **Lifecycle**: `ForRun` and `ForRunStep` succeed or fail, and wrappers of toolsets hand on
  what they are given. A combination inside a combination is left out. Models are closed
  before toolsets (`loop.go:898`), as `CHECKLIST.md:40` and a test say, while `model.go:163` has
  them closed after; which of the two is meant is not for the model to say, and `ReleaseStep`
  follows the order of opening, which the code keeps.
* **Not modelled**: section 1's planned parts, with reasons in PROJECT.json; providers,
  embeddings and images (HTTP clients); serialization and partial JSON (data);
  instrumentation (observes only); durable adapters (guarantees of external
  engines); UI adapters, CLI and evals (conversion around a run).

## 9. Plan

Done, in order of construction: limiter, pending messages, tool calls, event queue,
driver; then what outlives a run, by the weight of the hazards: suspended responses with
fallback, credentials, history with its repairs, realtime sessions; the run loop, which
keeps the books of all of them; the lifecycle of toolsets and models; and the resolution of
deferred calls.

Next, in this order:

1. **MCP sessions**, which runs share and Lifecycle opens.
2. **Capability ordering** as a function over small sets of constraints.
3. **Nested limiters** (`concurrency.go:112`), HTTP retries, a full channel of events in
   realtime sessions, the Gemini connection.
