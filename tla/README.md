# A TLA+ model of MCode

MCode is a coding agent in Rust: an agent loop that talks to model providers
and runs tools, a host for WebAssembly plugin Packs, a configuration store with
its own protocol for durable updates, and a terminal interface.  This directory
models the parts of it whose difficulty is in the order of events, checks them
with TLC on small instances, and proves their safety with TLAPS for instances
of every size.

Paths below are relative to `src/crates/`.

## The system

| component | state it keeps | operations | what makes it hard, what makes it correct |
|---|---|---|---|
| generation fence (`mcode-plugin-host/src/generation.rs`) | one atomic word per generation (phase and activity count), one publication epoch shared by all of them, a commit mutex, a `Notify` | `enter`, drop of an activity, `begin_commit`, `mark_current`, `mark_retired`, `wait_drained`, `close_publication` | lock-free; entry races with publication and retirement.  Nobody is admitted to a generation that is being replaced, no commit window spans a retirement, and Stores are reclaimed only after the last activity |
| Pack selection authority (`pack_selection.rs`) | accepted root document, its projection per family, live stamps, a cache per client | `publish`, `issue`, `begin_activation`, `commit_activation`, `close`, drop of a client | a stamp must name one selection of one client; revisions never go back |
| Pack activation (`pack_activation.rs`, `pack_loading.rs`) | the active Pack set of each client | `configured_selection`, `activate`, `load_candidate` | everything that was checked may change while Packs are loaded and instantiated; a failure must leave the old set whole |
| Pack task worker (`runtime/task_worker.rs`) | command channel, open operations, close signals that own admissions, expiry tasks | `invoke`, `pull`, `close`, drop of the client, deadlines | close can come from four sides while the guest hangs; the admission must go back exactly then |
| Store owner, segments, limits, epoch ticker (`runtime/*`) | Wasmtime Store, fuel lease, ledger of admissions | `instantiate_pack`, guest calls, disposal | cancelled guest calls must not return a half-mutated Store |
| provider routes (`provider_routes/*`) | route claims, leases, usage contexts | register, mint, resolve, terminal sample | exactly one terminal sample per request |
| provider validation (`provider_validation/*`) | decoder state, context counters | decode, prepare, count | bounds, order of events |
| provider event stream (`mcode-provider-api/src/stream.rs`) | bounded channel, terminal claim, cancellation token | `send`, `next`, drops | one terminal and nothing after it, from any number of producers, with futures dropped while they wait |
| agent loop (`mcode-agent/src/agent.rs`, `turn.rs`) | history, steering and follow-up queues, the token of the turn | `prompt`, `steer`, `follow_up`, `abort`, `clear_queues`, `set_queue_mode` | handles act between any two steps; every tool call is answered, every message delivered once |
| tool stream (`mcode-tools/src/{core,stream}.rs`) | progress channel | progress, terminal | first terminal wins |
| file tools (`mcode-tools/src/builtin/{write,edit,fs_io}`) | the execution lease and the write lock, a bound capability, a temporary file and a mode probe | read, prepare, bind, check, publish, clean up | one rename publishes; the checks before it are on a snapshot that other calls and other programs outdate; a call may be stopped at any point |
| command tools (`mcode-tools/src/builtin/{exec,shell,process}`) | the execution lease, a launch gate, a child with its pipes, supervisors | queue, launch, collect, tear down, supervise | futures are dropped, deadlines pass and signals fail between any two steps; somebody must own the child, and the lease must come back |
| search tools (`grep.rs`, `find.rs`, `fs_search.rs`, `fs_walk.rs`) | budgets of a walk | search | budgets, cancellation |
| configuration staging (`mcode-config/src/staging.rs`, `secure_fs/unix_staging*.rs`) | staging root, transactions with journals and payloads, advisory locks | begin, write, finish, drop, recover | crashes of a process or of the machine between any two system calls; other processes recover at the same time |
| other configuration (`mcode-config/src/*`) | owned documents, host vault | publish, reduce | durable replacement, revisions |
| terminal interface, renderer, command line (`mcode-tui`, `mcode-render`, `mcode-cli`, `mcode`) | interaction state, terminal modes | key events, drawing | the terminal is restored on every exit |
| core vocabulary (`mcode-core`), WIT interface (`mcode-plugin-api`) | none | none | data types |

How they interact: the agent calls a provider and reads its *event stream*;
a plugin provider is a Pack whose calls go through a *task worker* to a *Store
owner*; the Packs that run are those of an *active Pack set*, loaded for a
selection that the *authority* issued, inside an activity of the *generation
fence*; the director of generations retires a fence and waits for it to drain
before it reclaims Stores.  The agent's tool calls go to the tool registry and
come back over the *tool stream*; the tools that change files or run programs
share one *execution lease*.  A plugin provider is reached over a *route* that its
Pack claimed, and every request through it holds a usage context of the
*ledger*.  Documents that become effective together are written by a *staging
transaction*.  The root composition the authority projects
is a configuration document.

## The modules

| module | models | corresponds to |
|---|---|---|
| `GenerationFence` | the fence, one step per access to the epoch, the word, the mutex or the `Notify` | `epoch` = `publication_state`, `state` = the packed word, `lock` = `commit`, `permit`/`queue` = `drained`; `pc`/`seen` are the locals of a call |
| `AtomicFence` | what the fence promises: admission, commit windows, retirement and reclamation as atomic steps | abstract specification of `GenerationFence` |
| `GenerationFence_proofs` | the inductive invariant and the refinement | |
| `PackSelection` | the authority for the clients of one family | `cache`, `liveStamps`, `revision`, `projection`; operations are single steps, because each runs under the authority's mutex |
| `PackActivation` | `activate` and `load_candidate` over `PackSelection` and (an instance of) `AtomicFence` | `apc` walks through `activate` and `commit`; `mutex` is the authority locked by a commit |
| `PackActivation_proofs` | the inductive invariant of both, the three invariants and the two action properties | |
| `MCPackActivation` | its symmetry sets | |
| `TaskActor` | client, worker, close signals, expiry tasks, Drop | `closed`/`taking`/`admission` are a `TaskCloseSignal` (the swap and the lock are two steps), `operations` the worker's table, `live` the shared one; `invocation` keeps the worker's send of an id (`sent`) apart from its receipt (`open`) and from its loss with the future (`lost`); each pull in the channel or in service has its own reply (`wanted`) |
| `TaskActor_proofs` | its inductive invariant and the three safety properties | |
| `TerminalStream` | what a single-terminal stream promises to both sides | abstract specification of `EventStream` |
| `EventStream` | sender and receiver over the bounded channel | `holder` is the asynchronous mutex, `claimed` = `terminal_claimed`, `rpc` walks through `next()`; `sent`, `got` and `due` (what was sent when the request was cancelled) are histories |
| `AgentLoop` | `prompt` and the double loop, with the handles | `phase` walks through `double_loop`; `queued`, `cleared`, `late`, `turnStart` are histories for the properties |
| `AgentStream_proofs` | the inductive invariants of `EventStream` and of `AgentLoop`, the refinement of the stream, and the safety properties of both | |
| `ProviderRoutes` | claims in batches, leases, usage contexts and terminal samples of several ledgers | `routes`/`providers`/`slots` = the indexes of `RouteTable`, `requests` = `LedgerState.requests`; `held` are the snapshots callers have; each operation is one step under the ledger's mutex |
| `UsageRequests` | a request instance begins once, has one model recorded, is reported once | abstract specification of `ProviderRoutes` |
| `MCProviderRoutes` | its claims, owners and symmetry | |
| `ProviderRoutes_proofs` | its inductive invariant and the refinement | |
| `Staging` | processes that begin, write, finish, drop and recover transactions on one disk | `vol`/`dur` are the directory entries in the cache and on the disk, `dirty` the files with unsynced bytes; `pc` walks through `begin`, `write_file`, `finish` and `recover_abandoned`, one step per system call that changes something; `ledger` = `PayloadLedger` |
| `Staging_proofs` | its inductive invariant and the three safety properties | |
| `ExecSpawn` | a call of `exec` or `shell` on Linux from the queue to the end of its supervisor | `pc`, `worker` and `supervisor` are the future of the call, the launch worker and the owned cleanup; `gate` = `SpawnGate` with its two stores as two steps; `lease` = `EXECUTION_LEASE` |
| `ExecSpawn_proofs` | its inductive invariant and the two safety properties | |
| `FileWrite` | `write` and `edit` on one name, from the revision to the answer | `names` is what the name has referred to, with `durable` the part a power failure cannot undo; `directory` says whether the path to it exists and is on the disk; `pc` walks through the call and, from `bind` on, its blocking worker |
| `FileWrite_proofs` | its inductive invariant and the three properties | |

`PackActivation` uses the atomic fence; that the real one may stand in its
place is the refinement that `GenerationFence` checks and proves.  `AgentLoop`
takes from `EventStream` that a cancelled stream ends (its fairness condition)
and that an event that is queued wins over cancellation.

## Runs

| run | instance | shows |
|---|---|---|
| `fence` | one generation, two threads, one waiter, epochs up to 3 and Closed, at most two activities | type, count, quiescence, commit windows, admission, implementation of `AtomicFence`, and that the waiter wakes |
| `fence_waiters` | the same with a second waiter | *violation*: the second waiter is never woken |
| `pack_activation` | two clients, three stamps, two Packs, revisions 0..2, one generation, one candidate load | stamps, and what an activation may publish |
| `task_actor` | two invocations, a channel of one, two admissions | ownership of admissions and operations under every race of the closers and with futures dropped before and after the reply, and release by the deadline |
| `event_stream` | two producers, capacity two, three events | single terminal, order, no loss of what was sent before a cancellation, wake-ups |
| `agent_loop` | two turns, three queued messages, two responses with up to two tool calls | history and queues at every step, abort |
| `agent_abort` | one turn | *violation*: an aborted turn ends `Completed` |
| `staging` | two processes, two transactions, a file in a subdirectory, one failure | what the journal calls staged is on the disk; live transactions are left alone; removed ones stay removed; the global lock comes free |
| `staging_root` | two processes, one transaction, two failures | *violation*: a power failure takes a transaction that was staged |
| `provider_routes` | two ledgers, two request ids, three instances, three claims that collide in pairs | indexes, live records, one sample per instance |
| `exec_spawn` | two commands, one failure of a signal, a wait or an enrolment | one owner per child, true answers, the lease comes back, calls end |
| `file_write` | an edit, a write with a revision and one without, one change by another program | no update lost, answers durable up to the loss of a new directory, publication only under the lease |

**Why the bounds are enough.**  Two threads are the least that race on the
fence, and the limit of two activities is reached, so that the refusal at
the limit occurs.  Epochs 0 to 3 hold a publication that begins and ends inside
one `enter`, followed by another.  Two clients race for stamps and compete for
the authority; three stamps let a released stamp be drawn again; two Packs make
a set that is half loaded.  Two revisions after the absent one let a selection
go stale while another is activated.  A channel of one makes the
expiry task wait behind a caller; two operations let one hang in a guest while
the deadline of the other passes.  Two producers and three events hold two
terminals and a delta that race, with a full channel.  Two turns show what one
leaves to the next.  `MaxEpoch`, `MaxRevision`, `MaxInvocations`, `MaxEvents`, `MaxTurns`,
`MaxQueued`, `MaxResponses` and `MaxCalls` are bounds of the models;
`MaxActivities`, `Capacity` and `MaxOpenOperations` are the code's own limits
with small values.  The number of responses with and without tool calls is
bounded together by `MaxResponses`.

In `Staging` two processes are the least that hold the two locks at once: one
writes while the other recovers; the nested file needs a directory of its own, so
that every kind of sync occurs; `MaxFaults` counts power failures and processes that
end in the midst of a call, while guards are dropped and I/O errors poison as
often as they like.  `staging_root` needs two faults, one for the creator and one
for the machine.  In `ProviderRoutes` three instances of two request ids let one id be
used again while snapshots of its first instance are still held, and in two
ledgers; three claims collide by provider, by slot or not at all, within a batch or
across batches; the limits on claims, batches and live contexts are all reached.
In `ExecSpawn` two commands compete for the lease.  `MaxFailures` bounds the
signals, waits and enrolments that fail; the answer, the Drop and the supervisor each
meet a failure in some behaviour.  In `FileWrite` three calls, one of each
kind, compete for the name; `MaxForeign` bounds what other programs do, and one change
is enough to fall between any check and the rename.

Deadlock is not checked in the runs whose system may really stop: all
clients dropped and the authority closed, the worker ended, the stream
closed, no prompt left to make, no id or stamp left to draw, all calls answered.

The type invariants (`TypeOK`, `LoopTypeOK`) document the variables; they are part of
what is proved.

**Three disagreements with the documentation.**  `release` wakes one waiter of a
drained generation (`notify_one`, `generation.rs:198`), while `wait_drained` is
documented for every consumer; nothing in this commit waits twice on one fence.
`double_loop` does not look at the token after the last response, so that a
turn aborted then ends `Completed` or `Steered`, while `agent.rs:34` promises
`Aborted`, "never a half `TurnEnded::Completed`".  And
`create_or_open_private_directory` (`unix_staging.rs:552-555`) syncs the staging root
and its parent only in the call that created it: if that process dies first, the
next one stages in a root that is not on the disk, although the creator is to make
every level durable and staged bytes are to be durable
(`docs/design/03-plugins.md:49`, `:51`).

## Fairness

* `GenerationFence`: a thread that has called goes on, and the work of an
  activity is finite, so its guard is dropped in the end (strong fairness,
  because commit windows may come between); a waiter that is woken is polled.
  Nobody has to enter, commit, publish or wait.
* `TaskActor`: time passes; the runtime runs the worker between guest calls, the
  expiry tasks and a close that has begun.  Guests never have to answer, and a Drop
  never has to end: `AdmissionReleased` holds with a guest that hangs for ever.
* `EventStream`: tokio's mutex and channel semaphore are FIFO, which strong
  fairness of `Lock` stands for; the consumer calls `next` until the terminal
  unless it drops the stream.  Producers never have to send.
* `AgentLoop`: the prompt's future is polled; after a cancellation the stream
  ends (that is `EventStream`'s promise) and the tool returns, because it
  watches the token.  A provider or a tool that is not cancelled may take
  for ever.

* `Staging`: a call that was begun goes on, whoever makes it (weak fairness of its next
  step); an I/O error is never counted on to end it.  Nobody has to begin, to
  write, to finish or to drop a guard.
* `ExecSpawn`: a call that waits is polled, its worker threads and its supervisor run,
  and its timer fires.  Nobody has to cancel, to drop the future or to exit, and the
  pipes may stay open for ever.

## What is proved

`GenerationFence_proofs` proves, for all sets of fences and waiters, all finite sets
of threads and all bounds, assuming only `FenceAssumption` (the constants
are distinct and the bounds are numbers):

* `InductiveInvariant`: `Spec => []IInv`;
* `TypeCorrect`, `CountCorrect`, `ReclaimSafe`, `CommitSafe`: the type invariant
  and the three safety invariants of run `fence`;
* `AdmissionSafe`: its action property `AdmittedOnCurrent`;
* `WakeupCorrect`: in a retired generation that nobody is left in, a consumer that still
  sleeps has the notification stored, about to be sent, or gone to another consumer of it,
  and a stored notification and a parked consumer exclude each other;
* `AloneCorrect`: a consumer alone with its generation, parked when the last activity has
  left, has a thread that has yet to wake it;
* `Refinement`: `Spec => ImplementsAtomicFence`.

The argument.  None of the safety invariants is inductive alone.  `CountIsHolders`
needs the type invariant (counts do not wrap: only a word with room is swapped,
and a holder's count is positive).  `CommitWindowExclusive` needs `LockHeld`:
the phase read under the mutex stays true because `mark_retired` takes the
mutex as well.  `AdmittedOnCurrent` needs `EntersStable`: the epoch an entry
loaded was even and epochs only grow, so that if it is still there at the second
read no publication lies between, and phases change only under an odd
epoch (`RetiresInTransition`).  `ReclaimQuiescent` needs `WaitsRetired`: the count of a
retired generation cannot grow.  `ParkedQueued` types the wake-ups.  `IInv` is
their conjunction; there is a lemma for each part, with one step per action that
can disturb it.  The last two theorems are the safety half of `WaitersDrain`: a
consumer that found the count positive sleeps only until the thread that takes it to
zero, which has the notification to send before it does anything else; who takes the
notification in reads the count again, and the count of a retired generation cannot grow.
Only the first of several consumers is promised one, which is why run `fence_waiters`
finds the second asleep.  For the refinement there is a lemma for each abstract step and one that
sorts the concrete steps into these and stuttering.

`ProviderRoutes_proofs` proves, from `RoutesAssumption` (`None` is no value, the limits
are numbers) and for all ledgers, claims, owners, requests, models and stamps:

* `InductiveInvariant`: `IInv` = `TypeOK` /\ `IndexesAgree` /\ `LiveExactly` /\
  `OneInstance` /\ `NothingEarly`;
* `IndexesCorrect` and `LiveCorrect`: the invariants of run `provider_routes`;
* `Refinement`: `Spec => ImplementsUsageRequests`.

`IndexesAgree` is inductive with the types: a batch that passes the comparison of all
three keys extends the indexes in step.  `LiveExactly` is not: that a snapshot which is
equal to the record is the only live thing with its stamp needs `OneInstance` (the
snapshots of one stamp agree in everything but the model), and the model in it is the one
recorded only because of `NothingEarly` (nothing is recorded or reported for a stamp before
it is minted, nor reported before it is terminal).

`FileWrite_proofs` proves, from `ConstantsAssumption` and for every set of calls and every
number of changes by other programs:

* `InductiveInvariant`: `IInv` = `TypeOK` /\ `PublishesUnderLease` /\ `WholeFiles` /\
  `PublishedOnce` /\ `OwnNames` /\ `StillCurrent`;
* `LeaseCorrect`, `DurableCorrect` and `NoUpdateLost`: the two invariants and the action
  property of run `file_write`.

The argument: the lease is held by one call, so that only one worker is past its checks
(`PublishesUnderLease`); what that worker has checked stays true until its rename, unless
another program overtook it (`StillCurrent`), because the other calls cannot touch the
name; and a temporary file is renamed only with its bytes on the disk (`WholeFiles`), at
most once (`PublishedOnce`, `OwnNames`).  `DurableCorrect` speaks of every entry a power failure can
leave; what it cannot promise is that a directory which a write has just made is still there
(see below).  Every action has a lemma per conjunct it
disturbs and one frame lemma for those it does not.

`AgentStream_proofs` proves of `EventStream`, from `StreamAssumption` (there is a producer, the capacity is
positive) and for all sets of producers, all capacities and all bounds on the events:

* `InductiveInvariant`: `IInv` = the two halves of `TypeOK` (`Typed`, `Bounded`) /\ `Mutex`
  /\ `TerminalLast` /\ `Reading` /\ `OpenAligned` /\ `Fulfilled` /\ `Complete`;
* `TypeCorrect`, `ClaimCorrect` and `LossFree`: the invariants of run `event_stream`;
* `Refinement`: `Spec => ImplementsTerminalStream`.

The argument: nothing is claimed while the asynchronous mutex is held (`Mutex`), so that who
delivers a terminal delivers the last item (`TerminalLast`).  What the consumer has and
what is in the channel is, together and in order, what was sent, as long as the stream is
open (`OpenAligned`), and `next()` runs only on an open stream (`Reading`).  When it
takes a terminal that was the last item; when it finds the channel closed, the channel is
empty and no producer is left to send (`Complete`); and when it gives up for a cancelled
request, it has seen the channel empty after the cancellation, so that it has handed out
everything that was sent before (`Fulfilled`).

The same module proves of `AgentLoop`, from `LoopAssumption` (the bounds are numbers) and
for every number of turns, queued messages, responses and tool calls:

* `LoopInductive`: `LoopInv` = `LoopTyped` /\ `Answering` /\ `CallsAnswered` /\ `Sorted` /\
  `Kept` /\ `Spaced` /\ `SteeringFirst` /\ `Remembers`;
* `LoopTypeCorrect`, and `AnswersCorrect`, `DeliveryCorrect`, `BoundariesCorrect`,
  `SteeringCorrect`, `OutcomeCorrect`: the invariants of run `agent_loop`.

The argument: messages only flow from a queue to the hands of the loop (`pending`) and
from there to the history, and `Flow` sorts the steps of the loop and of the handles
into those that queue, clear, take, inject, or add something that was never queued.
What is queued later has a higher number, so each place is in order and everything in a
queue is behind what was taken from it (`Sorted`); hence a message that was not cleared is
in one place, once (`Kept`), and `DeliveredOnce` counts it.  A clear between its two locks
leaves the order alone, because it only empties.  In a `OneAtATime` turn
at most one message is taken at a time, and what is injected comes after a response or a
result, never after a message that was queued (`Spaced`).  The results of a response follow it and the
calls that are still open are its last ones (`Answering`), also when the dispatch is cut
short by an abort, so that `CallsAnswered` is inductive with it; it is not alone.  The loop remembers
that it was steered exactly when there is steering behind `turnStart` in the history or in its hands
(`Remembers`).  The counting in `DeliveredOnce` is one lemma (`Once`), the concatenations are
another (`Concat`); no property needs more than that of the sequences.

`ExecSpawn_proofs` proves, from `ConstantsAssumption` and for every set of calls and every
number of failed system calls:

* `InductiveInvariant`: `IInv` = `Typed` /\ `Shared` /\ `InLine` /\ for each call `LeaseKept`
  /\ `Stages` /\ `GateTells` /\ `ChildPassed` /\ `Answered`;
* `TypeCorrect`, and `ChildCorrect`, `AnswerCorrect`: the invariants of run `exec_spawn`;
* `LeaseCorrect`: a call has the lease exactly while its worker, its future or its
  supervisor has a part of it in hand;
* `QueueCorrect`: the calls in the queue are those that wait, each in one place.

The argument: calls share only the lease and its queue, and a call unlocks it only when it
has it, so that a lemma (`Elsewhere`) leaves each call to its own steps.  The gate cannot be both
`started` and `cancelled`: a worker past its swap finds the call waiting or dropped
(`GateTells`, `Stages`), so that the child is always with the worker, the call or the
supervisor (`ChildPassed`), and a call that closed the gate first never gets a child
(`Answered`).  `LeaseCorrect` and `QueueCorrect` are the safety half of `LeaseFreed` and
`CallEnds`: whoever has the lease has somebody who will drop it, and the head of the queue
is a call that can take it.  That they do is left to TLC, as all liveness is.

`TaskActor_proofs` proves, from `TaskAssumption` and for every number of invocations, every
capacity of the channel and every number of slots of the ledger:

* `InductiveInvariant`: `IInv` = `TypeOK` /\ `Busy` /\ `ClosedHoldsNothing` /\ `Holders` /\
  `Dropped` /\ `Tables` /\ `Kept` /\ `Ending`;
* `TypeCorrect`, `ClosedCorrect`, `DeadCorrect` and `KeptCorrect`: the invariants of run
  `task_actor`.

The argument: an admission is with an operation that the worker is binding, keeps, or whose
signal is closed (`Holders`).  When the worker is aborted the Drop of the client has closed
every operation in the table (`Dropped`), which it can because the table that clients see
is never behind the worker's (`Tables`), and because an operation that is inserted too late for
it finds nobody to reply to and is closed before the worker awaits again.  `KeptCorrect`
needs two parts.  `Kept`: the worker sends the id before it awaits anything, and closes the
operation at once if the send finds nobody.  A send that succeeds is no receipt: the future of
`invoke` may be dropped before it is polled, and then the worker keeps an operation whose
id nobody has.  `Ending`: every operation in the table, that one included, has an expiry
task that waits for its deadline or its signal, or is about to send its close command, or that
command is in the channel or in the hands of the worker (`ReceivesCommand`, `SendQueues` and
`PullGivenUp` say that no command is lost on the way).

`PackActivation_proofs` proves, from `SelectionAssumption` and `ActivationAssumption`
(`None` is no value, calls are not clients) and for all sets of clients, stamps, Packs, generations
and candidate loads:

* `InductiveInvariant`: `IInv` = `TypeOK` /\ `StampsHeld` /\ `Working` /\ `Windows` /\
  `Found` /\ `ActiveWhole` /\ `NotAhead`;
* `TypeCorrect`, `StampsCorrect`, `WholeCorrect`, `WorkCorrect`: the invariants, and
  `PublicationCorrect`, `RevisionCorrect`: the action properties of run `pack_activation`.

The argument: what `commit` finds under the two mutexes cannot change before the swap, the
generation because a window excludes its retirement (`Windows`), the selection because the
authority is locked (`Found`); only the swap makes a set active (`OnlySwap`).  The
active revision cannot regress because it was the accepted one when it was swapped in and the
accepted one only grows (`NotAhead`).

`Staging_proofs` proves, from `StagingAssumption` (the names of the entries are different)
and for all sets of ids, processes and files, every capacity of the staging root and every
number of failures:

* `InductiveInvariant`: `IInv` = `Typed` /\ `Owned` /\ `Making` /\ `Disk` /\
  `StagedDurable` /\ `Recovering`;
* `TypeCorrect`, and `LiveCorrect`, `DurableCorrect` and `GoneCorrect`: the invariants of
  run `staging`.

The argument: an id is drawn once and a transaction has one owner at a time (`Owned`), so
that what its maker has brought to the disk stays there (`Making`, one line per stage
of `begin`, `write_file` and `finish`) and the journal is renamed when everything it speaks of is
there.  `ImageBounds` says what a failure of the power can leave: nothing that was neither in
the cache nor on the disk, and all that was in both.  What a recovery has still to
remove is as it found it, because the global lock keeps other recoveries out and no maker
has it (`Recovering`).

## Only model-checked

Liveness (`WaitersDrain`, `AdmissionReleased`, `GoneEnds`, `ClosedWakes`,
`AbortStops`, `GlobalLockFreed`, `LeaseFreed`, `CallEnds`): the prover does not
reason about fairness and `ENABLED`.  The three properties that the code violates
(`WaitersDrain` with two waiters, `AbortedOutcome`, `StagedSurvives`) are refuted by TLC
on a small instance, which is enough.  Every invariant and every other action property
that a run checks, and the three refinements, are proved.

## Not modelled, and what the models leave out

* Memory orders weaker than sequential consistency: the fence uses `SeqCst` for the
  epoch and acquire/release swaps for the word, and each model step is atomic.
* Poisoned mutexes, exhaustion of 64-bit counters, and a panic in a handler.
* The publisher of generations is not in this commit.  The model takes it to do what
  the module's documentation says of it (`generation.rs:8-14`): it is the only
  writer of the epoch, makes generations current and retires them while the
  epoch is odd or closed, and waits for a fence to drain only after retiring it.
  (The unit tests of the fence mark and retire without moving the epoch.)
* In `AgentLoop`: a `prompt` future that is dropped (it leaves `is_streaming`
  and the token behind; nothing in the repository reuses such an agent),
  `state_mut`, hooks that change or block (the production runner passes everything
  through), the events for observers, and what a dispatched tool does.
* In `TaskActor`: the receipt of a pull, or of an error, is one step with its send; what the
  worker does next depends only on whether the send found a receiver.  An `invoke` whose
  reply was sent is not lost by its deadline alone (`timeout_at` polls the reply first),
  only by being dropped.
* In `EventStream`: a producer that floods the channel for ever postpones the
  `Cancelled` terminal for ever; a bounded model has no infinite flood.
* Contents: encodings, digests, prompts, rendering.
* In `Staging`: the Windows implementation; the checks that a path is still the inode
  that was opened (other programs are not modelled); that random ids could collide;
  `.staging.lock`, taken to exist once somebody has begun.  A recovery deletes the
  payload in any bottom-up order.  What an interrupted deletion leaves behind no longer
  has the shape of a transaction and is preserved for ever, as the code documents, so
  that `PassedIsGone` speaks of the transactions that are whole when a recovery starts.  An
  I/O error outside a write ends the call like the death of the process.
* In `ExecSpawn`: the launchers of Windows and macOS and the resolution of the image;
  `getpgid` and `killpg` are one step; a cancellation wins over a deadline (the `select`
  is biased), so that `signal` keeps one of the two.  A program that moves itself into another
  process group is refused by every termination; its leader is killed and never waited for,
  and the lease is kept: `LeaseFreed` and `CallEnds` exclude it.
* In `FileWrite`: planning of edits, formatting, the hard-link proof and Windows.  The
  directories on the way to the file may be missing and are made by `MakeParents`, all of
  them in one step, and nobody removes one.  `ensure_directory` (`unix.rs:362-370`) syncs
  nothing and `write_missing` syncs only the innermost directory (`fs_io/mod.rs:1420-1428`,
  `:1467`), so that a `write` that answers ok in a directory which it, or an earlier
  `write`, has made may be lost in a power failure together with the directory.  The
  model has this loss (`AfterPowerLoss`), and `DurableAndWhole` allows it and no other.  It is not
  listed as a disagreement: no comment or document promises that a new directory is
  durable.  The write lock is never contended, because its callers hold the
  lease.  Between the last check and the rename another program is not kept out,
  as `fs_io/mod.rs` says itself.  A worker that has passed its last gate publishes even when
  its call is cancelled a moment later and answers an error (the comment at
  `fs_io/mod.rs:1361-1363` is read as: under the lease).
* In `ProviderRoutes`: the revision number, fingerprints, the requested model, the alias and
  the turn of a context, which no operation changes, and the exhaustion of counters.
* The Store owner: the segment calls that hand the Store to a guest and take it back are
  made only by tests in this commit, so that there is no scheduling to justify a model.
* The Decoder and the context counters, the scanners, the adapters of documents, the
  search tools, the renderer and the interface are mostly sequential data
  transformations, for which the repository has example tests; they are left to those.
  They are most of its lines.

## Plan

1. **Built**: `GenerationFence` with `AtomicFence` and its proofs; `PackSelection`
   and `PackActivation` with their proofs; `TaskActor` and its proofs; `EventStream` with
   `TerminalStream` and its proofs; `AgentLoop` and its proofs; `ProviderRoutes` with `UsageRequests` and its proofs; `Staging` and its
   proofs; `ExecSpawn` and its proofs; `FileWrite` and its proofs.
2. `ToolDispatch`: the tool stream and `dispatch_tool_call`, a second
   implementation of `TerminalStream`.
3. `OwnedFile` and `HostVault`: durable replacement, and the vault's reducer.
4. `Decoder` and `ContextCounter` of provider validation, against reference
   definitions over bounded inputs; search budgets; `TerminalGuard` of the interface.
5. `StoreOwner`, when its segments have a caller; composed with `TaskActor`.

Theorems to add: what the abstract specifications promise (`TerminalStream`,
`UsageRequests`, `AtomicFence`), as invariants of those; the safety halves of the other
liveness properties, as `LeaseCorrect` and `QueueCorrect` are for `ExecSpawn` and
`WakeupCorrect` and `AloneCorrect` for the fence.
