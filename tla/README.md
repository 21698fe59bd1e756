# Verification of rag_embeddings

TLA+ modules, TLC configurations and TLAPS proofs for the document pipeline of
this repository: queues, dispatcher, parse containers, cache and index workers.
Every definition is translated from the code; `PROJECT.json` names the lines
each one stands for. Paths below are relative to `src/rag_embeddings/`.

## 1. The system

| part | source | state it keeps | operations |
|---|---|---|---|
| enqueuer | `workers/enqueue.py`, `steps/parse.py` | none | publish one message per file, per cached parse, per stale document |
| queue contract | `queues/base.py` | counters of one `consume()` | `poll`, `consume`, `receive_batch`, `drain` |
| in-memory queue | `queues/memory.py` | `_ready`, `_inflight`, `_dead` under a lock | publish, receive, ack, nack, dead_letter, depth |
| file queue | `queues/files.py` | directories `tmp/ ready/ inflight/ dead/`, one JSON file per message | the same, without a lock: a claim is a rename |
| dispatcher | `workers/dispatcher.py` | `_pending`, `_running`, `_Batch` records, statistics | one loop: reap, launch, receive, settle, decide whether to end |
| task runners | `runners/` (docker, process, ECS, Kubernetes, memory) | handles of what was started | launch, status, cancel, cleanup, close |
| parse worker | `workers/parse_worker.py` | none; one document per container | fetch, drop, parse and cache, manifest, announce, exit code |
| cache and blob store | `cache.py`, `blobstore.py` | `{sha}.json`, `{sha}.meta.json`, scratch files | exists, reading, writing, write_bytes, delete, keys |
| index worker | `workers/index_worker.py`, `storage/`, `extraction/`, `embedder.py` | one connection, one model | load the parse, extract, embed, one transaction |
| Lambda entry point | `workers/lambda_dispatch.py` | an `EventBatch` per invocation | the dispatcher over one SQS event |
| database | `sql/schema.sql`, `storage/queries.py` | `documents`, `doc_tables`, `chunks` with their unique keys | upsert, delete, insert, search statements |
| in-process pipeline | `pipeline.py` | none | ingest, reextract, rechunk |
| search API | `api/`, `steps/search.py` | connection pool, model | embed the query, nearest chunks, their windows |
| shutdown, configuration | `shutdown.py`, `config.py`, `cli.py`, `profiles.py` | a flag | first signal sets it, second kills |

How they interact:

    enqueuer -> to-parse -> dispatcher -> container -> cache + to-index
                                             to-index -> index worker -> Postgres -> API

Messages travel only through the queues. The dispatcher never parses: it holds
the claim on a `to-parse` message while containers run and learns of them only
through exit codes. Containers and index workers share the cache directory;
file-queue clients share directories. Nothing is locked outside one process
and one Postgres row.

**What is hard.** A claim lapses after `visibility_timeout` (300 s) while the
work it covers may take `task_timeout` (900 s), so a message can be delivered
again beside itself. The dispatcher may die with claims held and containers
running. File-queue operations are several filesystem calls each, and so are
the cache's. Cancelling is best effort; a launch may fail after the container
was started; a container may vanish with its exit code unread. A stop signal
may arrive at any time. `PROJECT.json` lists each hazard with its line and the
properties that would catch it.

**What makes each part correct.** *Queue and consumer*: a message is owed until its
work is done or it is parked (`AtLeastOnce`); one worker per claim; a true count of
deliveries. *Dispatcher*: exact counters per message, no early settlement, bounds on
containers and messages, an end that leaves nothing behind. *Cache*: readers see whole
parses; `--force` returns no parse of before. *Index side*: nothing is lost between
the two queues; the database ends with the announced parse; a branch of a document
never mixes two parses or two profiles, whoever writes it; a change of profile comes
to an end. *Runners*: exit code zero is the only success; no container runs beside its
replacement; of a task that was accepted nothing is kept or left running. *Lambda*:
what an answer lets SQS delete has been worked off; the handler outlives its tasks;
nothing is sent back untried while a slot is free. *Embedder*: each text gets its own
vector.

## 2. Modules

| module | models | reads as |
|---|---|---|
| `Maps` | `With`, `Without` | dicts and directories as functions |
| `AtLeastOnce` | the promise in `queues/base.py:4-7` | abstract ledger of owed, parked and worked-off messages |
| `MemoryQueue` | `InMemoryQueue` | one action per method: each is one critical section |
| `Dispatcher` | `Dispatcher` and `run()` over `MemoryQueue` | one action per queue or runner call |
| `MCDispatcher` | constants for TLC | how many documents a message names |
| `FileQueue` | `FileQueue` | one action per filesystem call |
| `Consume` | `Queue.consume` by several workers over `FileQueue` | the loop, its faults, its properties |
| `Documents` | containers, cache, `to-index`, index workers, rows | one action per filesystem call, queue call or transaction |
| `Runner` | the promise of `Runner` and `TaskState` in `runners/base.py` | abstract: a container runs and ends once, its caller is told once |
| `Runners` | `DockerRunner`, `ProcessRunner`, `EcsRunner`, `KubernetesRunner` | one action per call, and what containers and backends do |
| `LambdaDispatch`, `MCLambda` | `lambda_dispatch.py`: the loop over an `EventBatch`, SQS around it | one action per queue or runner call, and a clock |
| `Storage`, `MCStorage` | `write_all`, `ingest`, `reextract`, `rechunk`, `enqueue_stale` | one action per SQL statement |
| `Embedder` | `encode_passages` and its batches | a function of texts and lengths |
| `MemoryQueueProofs` | – | lemmas on deques and on the operations of a queue |
| `DispatcherProofs`, `DispatcherLimits`, `ConsumeProofs`, `RunnersProofs`, `DocumentsProofs`, `LambdaProofs`, `StorageProofs` | – | theorems |

`Dispatcher` and `Documents` extend `MemoryQueue`; `Consume` extends
`FileQueue`; `Dispatcher`, `Consume` and `LambdaDispatch` each instance `AtLeastOnce`,
`Runners` instances `Runner`.
`MCStorage` puts `Storage` and `Embedder` together: the vectors of its rows are
those `Embedder` computes.

**MemoryQueue.** `ready` is the deque, `inflight` maps a receipt to its claim,
`dead` holds parked deliveries. The clock is one bit per claim: whether its
deadline has passed. `_reap` runs first in `receive` and `depth`, as in the code.
Entries reclaimed together go back in any order.

**Dispatcher.** `pc` is where the loop is: `reap` (one action per handle of the
snapshot), `launch`, `receive` (one claim per action), `unpack`, `relaunch`,
`check`. `pending`, `running`, `batches` and `stats` are the fields of that
name. The runner is the environment: containers end with success or failure, hang,
are lost, survive a cancel, or exist although `launch()` raised. `Crash` kills
the process anywhere; the queue and the containers survive it, as they do when
the queue is a service or a directory. A second stop signal is a `Crash`;
the children a closing `ProcessRunner` terminates are containers that fail.
`LaunchRaises` is a document whose specification cannot be built, `ReapRaises` a
`status()` that raises: both end the loop through `run()`.

**Runners.** A task is a container, which runs whatever anyone says, and the record
the backend answers from: what Docker lists, the entry of `_running`, the ECS
task, the Job. `Launch`, `Poll`, `CancelTask` and `CleanupTask` are the calls of
the dispatcher for one document, in its order; `DockerSays`, `EcsSays`, ... are what
each `status()` makes of a record. Clusters start, stop and notice late and forget
what has stopped; calls are refused, unheard, time out or raise. `Dispatcher`
sees a runner as launches, exit codes, overruns, lost containers and cancels
without effect; `Runners` is what these come from. A `docker inspect` that
exceeds `CLI_TIMEOUT` is told as `FAILED`, "container not found", although
`TaskState.UNKNOWN` is documented for a backend that would not say
(`PollWedged`): the retry may then run beside it, one container for each such inspect
(`OneContainer`). A `docker run` that fails may leave a container that was created and not
started, which nobody has a handle to remove (`Refused`).

`Runner` is what all of this amounts to for the caller: tasks are started one after the
other, each only when the one before is settled and has ended or was asked to; a container
ends once, with an exit code of its own; the caller is told once, "succeeded" only of a
container that exited zero, "failed" of one that did not unless something failed.
`Runners` refines it (`KeepsPromise`): a container with a stop request under way is
"stopping" whatever it does until then, one a cluster has still to place is as good as
"running", and a fault is any of the counted ones. A cluster's `cancel()` is what makes
"stopping" last; it is what `Dispatcher` takes for a cancel without effect until the
container ends.

**FileQueue.** A directory maps names to files, a file being an inode: a
rename moves it, a descriptor follows it, an unlinked file lives while it is open.
`write_text` is two steps, truncation and write; between them the file is
"torn". A rebuilt envelope is shorter than a published one, so writing it over a
full one somebody wrote in between leaves a tail, torn as well; other
simultaneous writers are taken to write envelopes of one length. `publish` stages
under `tmp/`, which no client reads, and so appears as its final rename.
Listing is one step and its order is open. An mtime is one bit, older than
`visibility_timeout` or not; a rename keeps it, which is the point.

**Consume.** `client[c].pc` walks through `receive`, handler, `ack`, `nack`,
`dead_letter`. `Ages` lets the deadline pass for a file: in `ready/` (fault
"backlog"), under a working client (fault "expiry"), or for an abandoned claim (no
fault, it must happen). A client that dies starts again.

**Documents.** A container makes at most one parse and creates at most one
scratch file, so parse, file and container share a name, and "which parse" is
exact. `writing()` is Create, Write, Replace, Clean; `drop_cached` is two deletes;
a manifest is written atomically under a name `mkstemp` makes unique. The
dispatcher is reduced to the claims it holds on `to-parse` (`waiting`, `claimed`,
`parked`), one document to a message. `WriteAll` is one step because the
upsert locks the document's row until the commit. A row remembers which parse each
branch came from.

**LambdaDispatch.** The same loop as `Dispatcher`, written for what an
`EventBatch` lets it do: `ack` is a note for the answer (`acked`), `nack` and
`dead_letter` do nothing, and `failures()` names what was not acked. The counters of
a batch are read off `pending` and `running` (`Bookkeeping` of `Dispatcher` is that
they agree). Time is a clock here, since the deadline is about it: calls take none,
each sleep of the loop one unit. `Invoke` takes any visible messages as an event;
`Dies` is an invocation out of time, or one that raises or is killed; `Settle` is SQS
acting on the answer and `Redrive` its redrive policy. Events of one invocation at a
time: two invocations share no message unless SQS delivers one twice, which would
be a second invocation with the same message. That case, and a handler called with a
body directly, are not modelled.

**Storage.** `proc[p]` is what a worker or a caller of the library is doing: which
call, at which statement (`pc`), with which branches still to write (`left`) and
what its open transaction has deleted and inserted (`gone`, `new`). READ COMMITTED
is modelled as Postgres does it: a delete sees the rows committed when it began
(`sees`), waits for those another transaction has deleted, and skips them if that one
commits; an insert waits for a key another transaction has in hand and fails on a
committed one; a commit publishes everything. Only `write_all` locks the document's
row (`Upsert`). `Breaks` is an exception anywhere, `Dies` the end of the
process, `Disconnects` the loss of a worker's one connection, after which each
message fails at its first statement. A parse is a number, a profile decides how
many chunks it gives and with which vectors.

**Embedder.** `Order` is the sort, longest first and equals in their own order;
`Place` puts one more passage into the open batch or closes it, and `Batches` is the
loop, a recursive function of how many passages are placed; `Scatter` is the assignment
by index, `Encode` the model: a vector depends on its own text only, unless the padded
batch exceeds the budget.

## 3. Runs

| run | module, bounds | shows |
|---|---|---|
| `dispatch_faults` | 2 messages: two documents, and an unreadable one published meanwhile; 1 slot, 2 attempts, any 2 faults of 7 kinds; containers may hang for ever | bookkeeping exact, settled once, deliveries and containers bounded by the limits and what faults add, none lost, parked for good, implements `AtLeastOnce`, every message acked or parked in the end |
| `dispatch_ends` | 3 messages (2 documents, 1, none), 2 slots, limit 3, all options, 1 fault | how the loop may end and what it leaves; caps and limits; nothing new after a stop |
| `runners` | each backend, 3 tasks, 2 faults of 6 kinds | verdicts true, each older container that runs on paid for by a fault, nothing kept of an accepted task, implements `Runner`, every task settled, nothing runs on |
| `stop_hangs` | 1 message, 2 documents, 1 slot | violated: a stop request may hang the loop |
| `file_faults` | 2 workers, 1 message, 2 attempts, limit 3, 2 faults | nothing lost, one worker per claim, true counts |
| `file_live` | 1 worker, 2 messages, 2 faults, stop requests | settles, stops, implements `AtLeastOnce` |
| `file_claims` | 2 workers, 1 message, a backlog | violated: two handlers at once |
| `documents` | 1 request, forced or not, 3 containers, 1 index worker, 1 `enqueue` run asking for chunks, 2 attempts, 1 fault | whole parses, nothing lost between queues, database current, `--force` fresh, all indexed or parked |
| `shared_scratch` | 2 containers, both PID 1, one lapse | violated: a torn parse under its final name |
| `lambda` | 3 messages (2 documents, 1, unreadable), 2 slots, either `ack_on`, limits of 1 and 2, 2 receives, 1 fault | what is deleted was worked off (`AtLeastOnce`); the handler outlives its tasks; what is sent back untried met a full house |
| `indexing` | 1 document, 2 profiles (3 and 2 chunks), an old and a new index worker, a caller, 2 attempts, 2 parses, 1 event | one build per branch, commits whole, each chunk its own vector, a change of profile ends; the inductive invariant |
| `file_torn` | 1 worker, 1 message, 1 crash, fair | violated: a message neither settled nor parked, for ever |

Type invariants and inductive invariants of `Dispatcher`, `Runners`, `Consume` and
`LambdaDispatch` were checked by the same runs before they were proved; now the theorems of
section 5 state them and the runs keep what a reader wants to see violated by a mutant.

*Why the bounds suffice.* Two attempts give a retry and a dead letter; two faults let
one interrupt the recovery from another; two documents in a message give a batch that
is partly done; two slots and a third document make the cap bite (`dispatch_ends`);
one slot and two documents make documents wait (`dispatch_faults`, which also checks
liveness and so cannot afford a second slot). Two workers on one message give every
race on a name: file-queue messages share nothing. In `documents`, a second container
of the same content comes from a lapsed claim; three containers are all that two
attempts and a lapse can start. `Handles`, `Files`, `Containers` and `Messages` are
sized so that none runs out under the other bounds. The fault counter is a bound of
the models (`MaxFaults`); `handed` saturates above `MaxAttempts`, which is all the
properties ask. An enqueuer that asks for the table branch alone behaves as one that
asks for chunks alone, and is left out of the run; one that asks for both repeats an
announcement, which lapses do too.

In `lambda` a limit of 1 leaves no time above the margin and a limit of 2 cuts the
task timeout; two documents and two slots fill the slots, a third waits. In
`indexing` documents share no row, so one document is enough; three processes give
a writer, one that waits for it and one that waits for both; the two profiles give
builds of different length. One event (a call, a new parse, a drop, a failure, a
death, a lost connection) beside the workers' own messages already makes 179,000
states; with two events and no liveness, 688,000 states, the safety properties held
as well. `MaxEvents` and `MaxParses` are bounds of the model. The lengths of
passages cover zero, equal ones, one that fills the budget and one beyond it.

Three tasks give a retry of a retry, which is where an older container could
still be running. The runs take `ack_on=exit`; for `ack_on=launch` the safety
properties are the theorems of section 5.

*Fairness.* Weak fairness on the steps of every loop: each is a `while` with
sleeps, and nothing else competes for it. Containers finish or fail in `Documents`
because the runner's timeout sees to it; in `Dispatcher` they may hang for ever and
the overrun of `task_timeout` is fair instead, being the passing of time.
In `Runners` the overrun is fair too, and so is the end of a container its
backend has accepted to stop (SIGKILL follows SIGTERM). Deadlines of claims
nobody works on pass. In `Storage` the steps of a transaction and the taking of a
message are strongly fair: a row lock is granted in the order it was asked for, and
a queue hands out every message in its turn although workers that are about to stop
compete for it; the enqueuer is run again and again, and a worker of the old profile
is at some time asked to stop. `LambdaDispatch` has no liveness: SQS owes no
delivery. Never assumed: that faults happen, that
a handler succeeds, that a stop signal arrives.

*Where the system may stop*: a loop that has ended, or a queue left empty. Those
runs set `CHECK_DEADLOCK FALSE`; the others check it.

*Deadlock-free but not live*: two workers and one message older than the
deadline can hand the claim back and forth without either loading it, the same
window as `file_claims`; hence one worker in `file_live`.

*Index workers*: `DbIsCurrent` is stated for one, the default of
`docker-compose.yml`. Two can commit a parse loaded before a forced re-parse after
the new one. What is left then is an older parse, but a whole one: `OneBuild`, which
is proved for any number of workers.

## 4. Findings

Checked by a run that expects the violation:

1. `stop_hangs`: a stop signal with documents in `_pending` never ends
   (`dispatcher.py:268,285`).
2. `file_claims`: a claim of an old message can be reclaimed before its mtime is
   refreshed (`files.py:70,153`).
3. `shared_scratch`: the scratch name of `writing()` is unique only per process
   (`blobstore.py:97`).
4. `file_torn`: a crash inside `write_text` (`files.py:78`) makes a message that is
   never delivered again nor parked. `EventuallySettled` excepts it (`Lost`).

Met while modelling, and visible in the models as a guard, a bound or an exception of
a property, which says how far the code goes and no more:

- A cancelled task gives up its slot before its container has stopped
  (`dispatcher.py:408`), and a dead process's containers run on, so `max_in_flight`
  does not bound the containers that run. `CapHolds` bounds what comes on top by a
  capful for each fault.
- A `docker inspect` that is not answered in time is a failed task (`local.py:80`), not
  an unknown one, and with keep set its container runs on beside the retry; a `docker
  run` that is not answered counts as refused (`local.py:163`), and its container runs
  untracked. `OneContainer` allows one older container for each.
- The task timeout is cut to the invocation's time once (`lambda_dispatch.py:148`), but a
  document that waits for a slot starts its clock later: `OutlivesItsTasks` has a slot
  for each document. With fewer the handler may be killed at its limit. With
  `ack_on=launch` the timeout is not cut at all, although a message with more documents
  than slots makes the handler wait for them.
- With `ack_on=launch` the loop ends when its slots are full and nothing waits
  (`dispatcher.py:284`); messages not read by then go back to SQS and lose a receive.
  `NoneSentBackUntried` says that an answer sends nothing else back untried.
- Between the drop of a forced container and its look into the cache (`cache.py:111`)
  another that was running beside it may put its parse back. `ForcedIsFresh` is what
  holds: no parse of a container that was over before.
- `enqueue_stale` with nothing stale asks for the whole cache (`enqueue.py:58`):
  `EnqueueStale` has the branch, and what holds of the tables holds in spite of it.
- A hit and its window come from two statements (`search.py:51`) on an autocommit
  connection and may be of different builds. The search changes no state and is not
  modelled; each statement sees whole builds (`OneBuild`).
- `spec_for()` is called outside the `try` (`dispatcher.py:362`): what it raises
  kills the process, and the message is redelivered past `max_attempts`
  (`DeliveriesBounded` counts such deliveries as faults).
- A `docker run` that creates its container and cannot start it (an entrypoint, a
  mount, a network that is not there) leaves it behind: the command has no `--rm`,
  `launch()` raises (`local.py:64`), and the dispatcher has no handle to clean up
  (`dispatcher.py:365`). Each retry leaves another. `NothingKept` speaks of accepted
  tasks and names this container as its exception; that it never runs is in
  `RecordTrue`.
- A missing manifest ends the enqueuer with the rest unpublished (`enqueue.py:62`),
  which is why `StaleConverges` excepts it; no property covers what was left out, the
  caller has the exception.
- An index worker whose connection is lost (`connection.py:10`) fails every later
  message and parks them; `StaleConverges` accepts the parked message.
- A query is embedded while it holds a pool connection, though the comment at
  `routes.py:30-32` says otherwise.

## 5. Proofs

The theorems hold for every value of the constants: messages, documents, workers,
limits, `ack_on` modes, options and faults, under the named assumptions of the
modules (positive limits and, in `LambdaDispatch`, a positive margin; finite sets of
messages and contents; `None` is no message and no file; in `Storage` a branch is
empty under every profile or under none, as a document without tables has none
whatever the profile).

`DispatcherProofs` proves `Spec => []IndInv` and from it `TypesHold`,
`BookkeepingHolds`, `NoMessageIsLost` and `DispatcherKeepsPromise`. "No message
is lost" is not inductive: an ack is issued because the counters of a batch are
zero, so `IndInv` adds that the counters count exactly the entries of `_pending`
and `_running` (`Bookkeeping`), that an open batch without failures has every
document accounted for, waiting or running (`Covered`), that a container is
the one its task was started for and exits zero only after the parse
(`RunnerTruth`), that no task is queued twice (`Distinct`), that batch numbers
are fresh (`Numbered`) and that nothing of a settled batch is still queued
(`Complete`). Then zero counters and no failure imply that every document is
accounted for. There is one lemma per action, and lemmas on what a settlement, a
launch and a reap do to the counters. The refinement uses the same invariant for
the one step that matters: a message leaves the queue only as `Finish` or `Park`.

`DispatcherLimits` proves the cap on containers (`CapHolds`), the limit on messages,
and that every delivery is settled exactly once. These need invariants on loop
locations; a settled batch keeps its record while a task points at it, which
`SettledInv` tells apart from open ones. `CapInv` counts the containers no task tracks
(`Untracked`): a fault adds what was running when the process died, or one. It also
proves `ExitLeavesNothing`: `HeldInv` says that an open batch still has a task waiting
or running, so that a loop that finds neither holds no message. And it proves
`ParkedForGood`, for as long as no claim has lapsed: `SoleInv` says that a message is
in one place of the queue at a time and that an open batch holds the one delivery of
its message, so that a message parked is with nobody who could hand it back.
`StoppingStartsNothing` is `NoNewWorkOnceStopping`: `StopInv` says where a loop that
has seen the stop request can be, which is nowhere it launches or claims.
`IdleExitLeavesNothing` proves `IdleExitDrained` under `Preloaded = Messages`, since a
message published behind the loop's last look is honestly left: `DrainInv` says that a
turn without progress has found the queue empty, or `max_messages` reached, or no slot
free, or documents waiting, and that nothing it found has changed since.

`DeliveriesAreBounded` (`DeliveriesBounded`) is a budget. A message delivered *a*
times may come again by each hand that holds an older delivery of it with tries left
(`Weak`, once each, since only those nack it) and by the queue itself, once, while it
waits or its claim is bound to lapse (`Lapse`). `Budget` keeps the sum of these within
`MaxAttempts + faults`. A delivery spends one unit of the queue's share on a new
holder; a nack turns a holder into a waiting entry; a claim lapses under a holder, or
all holders die, only by a fault, which raises the bound by one. `OneHand` is why a
holder is counted once: `claimed` and the open batches never share a delivery.

`MemoryQueueProofs` holds the lemmas on queue operations that these and
`DocumentsProofs` rest on: what each does to the messages outstanding and to the type
invariant.

`ConsumeProofs` proves `Spec => []IndInv` for the consumers over the file queue,
and from it `TypesHold` and `NoMessageIsLost`, for any number of workers,
messages and files and any faults. `NoMessageLost` alone is not inductive: `ack`
and `dead_letter` unlink whatever the name stands for by then, perhaps the claim
of another worker. `IndInv` adds what a worker knows by where it is: before an
`ack` a handler has returned from the message, before the `unlink` of
`dead_letter` it is in `dead/`. Both facts are stable, no step removes a name
from `dead/`, and so no interleaving can falsify them. It also says that only a
client inside `write_text` has a file open, that a busy worker's message has been
published (a fresh publish cannot meet its name), and that a worker inside
`receive` may still take one. The proof splits a step into what it does to the
directories (`Moves`), to the files (`FilesOK`) and to one client (`Alone`), which
`StepOfOne` puts together; each action is then a short lemma.

Without faults, and only then, `ConsumeProofs` proves `Exclusive` and
`AttemptsReal`. `CalmInv` says that a name is then in one directory at most, that the
name a worker holds is in `inflight/` with the file the worker claimed, and that no
two workers hold one name; the counter in the file is what its claims made it.

With any faults `ParkedOnlyAfterTries` proves `ParkedAfterTries`: a message in `dead/`
has been handed over `max_attempts` times. Counts are not exact then, as racing
workers write old ones over newer, and torn or rebuilt envelopes restart them; but they
never run ahead. `TriesOK` says that no file of a message and no worker carries a count
above the deliveries made, unless these are used up anyway, that whoever parks has used
them, and that a file somebody has open belongs to no other message.

`OneWorkerKeepsPromise` and `WorkersKeepPromise` prove the refinement of `AtLeastOnce`
for one worker under any faults, and for any number of workers without faults. Both
rest on `InHand`: what a worker is busy with is in `inflight/`. Then `write_text` of a
claim never makes a name anew, and the names of messages change only as the ledger
does. With two workers and one lapsed claim TLC refutes it: the slow worker acks while
the other, which has loaded the message, is about to rewrite it, and `write_text`
(`files.py:78`; `files.py:97` for a late `nack`) makes the file anew. At-least-once
delivery permits that; `AtLeastOnce`, where nothing comes back once settled, does not.

`RunnersProofs` proves `VerdictTrue`, `OneContainer` and `NothingKept` (of accepted
tasks; a refused launch may leave a container that never ran) for any number of tasks
and faults. A verdict is given from a record, so `IndInv` adds that
a record names an exit only if the container exited so, and one that was created and no
more belongs to a refused launch (`RecordTrue`), that a
record vanishes under a poll only by a fault (`Polled`), and that a task the caller
is through with has ended or is being stopped, without a fault (`Stopped`). For
`OneContainer` the containers that run on unasked behind the caller (`Loose`) are counted:
`LooseStep` says that a step adds none, or is a fault and adds one.

`RunnersKeepPromise` proves that every backend implements `Runner` (`KeepsPromise`).
A launch beside a container nobody asked to stop would be no step of it, nor a second
verdict or one that is not the container's. The invariant gives that a task polled has not
been told of and has a container (`Told`), that a record shows an exit only as it happened,
and that a task the caller is through with was told of and has ended or is being
stopped. One lemma covers the calls that move no container, or end one (`Aside`); each
action is then a launch, a verdict, a stop request, an end, or a stutter.

`DocumentsProofs` proves `NotLostBetween` for any number of documents, containers,
index workers and faults, and, for containers with process ids of their own,
`CacheWhole` and `ForcedIsFresh`; the other case is the finding `shared_scratch`.
`NotLostBetween` needs that the id a message is published under was free, so that its
body never changes; that a worker about to write has a parse and one about to ack has
filled each branch asked for (`WorkerOK`); and that no write empties a branch
(`WrittenFills`): a message then leaves the queue only once it is answered, even under
another worker's ack. For the cache, `Private` says that a scratch name is of one
container, that what a container's file holds is its own parse or nothing, and that what
is under a final name belongs to a container past its writing, so that no later
truncation reaches it.

`DbStaysCurrent` proves `DbIsCurrent` for containers with process ids of their own and
one index worker. `CurrentInv` adds that a container returns its own parse or that of
one done with it (`GotOK`), that the body of an announced message names what its
container hashed (`BodyOK`), and, while the cache still has the parse that was
announced (`Reflects`), that the database has it once the message is worked off, that
the worker holding the message writes no other, and that no worker about to write the
same content afterwards holds an older one. The last is where the single worker is
needed: a second could have loaded its parse before.

`LambdaProofs` proves the invariant of the handler and, from it, that the handler
implements `AtLeastOnce`, for any events, limits, slots and faults and both values of
`ack_on`. What makes it inductive is `Coverage`: every document of a message taken
off the batch waits, runs, is accounted for, or is of a message with a failure; and
`SuccessCounts`: a container that has exited zero has parsed. Then a message is noted
as acked only when its documents are accounted for (`AckedDone`), which is what the one
step that deletes it (`Settle`) needs.

`HandlerOutlivesTasks` and `NothingSentBackUntried` are about time and the end of the
loop. `SettledInTime` says that a message none of whose documents waits or is awaited
has been settled, `Once` that no document is queued twice, `Turn` what a turn of the
loop without progress has seen. With a slot for every document (`Ample`) the first turn
starts them all at time 0 and the loop sleeps only when none waits (`OnTime`), so the
cut timeout stops the last one `Margin` before the limit.

`StorageProofs` proves `OneBuild` and `OneCommit` for any number of documents,
profiles, workers and callers, any sizes, and any failures. `OneBuild` is not
inductive: what an insert may add depends on what the deletes of this and of other
transactions have in hand. `IndInv` adds that a transaction holds all rows of a branch
or none (`WholeBranches`), that what it has written of a branch is a whole build and
that what was there before is in its hands by then, and that two transactions on a
document delete different rows and write different branches (`Apart`). The unique keys
carry the argument: all builds of a branch share their first key, so that an insert
beside another transaction's rows, or over a build that was not deleted, must wait or
fail (`BuildsClash`). `write_all`'s lock is not needed for it.

The same module proves the embedder's algorithm for any number of passages.
`BatchesPartition` says that every passage is in exactly one batch and that a batch is
one passage or, padded to its longest, within the token budget; `EveryTextItsVector` that
`encode_passages` returns at each place the vector of the text at that place.
`ChunksKeepTheirVector` puts the latter together with `OneBuild`: a row of `chunks` has
the vector of its own text (`EmbeddingSound`), if the rows of a build carry what the
embedder computes. That hypothesis is what `MCStorage` gives the constant `Vectors`;
the lengths are any set of naturals.

Both loops are recursive functions, and facts about them need induction over the number of
passages or batches, for which the library's theorems cannot be used here. Two lemmas
stand in. `IntervalInduction`: a set that holds the first of `0 .. n`, and with each the
next, holds all of them. Otherwise, stepping on from each of its members would map it into
itself without the first one, one to one, which no finite set allows. `Iteration`, from it:
a step that keeps a set has a function that iterates it. The invariant of the batching
loop (`Made`) is that the batches so far, with the open one, partition the passages
placed so far; `Ranks` and `Ordered` say that the sort is a permutation, longest first,
which is why the first of a batch bounds its padding.

*Only model-checked*: all liveness (`EventuallySettled`, `StopTerminates`,
`EventuallyTold`, `NothingRunsOn`, `StaleConverges`, `EventuallyIndexed`), which is out
of the prover's reach. Every other property of the passing runs is a theorem, under the
hypotheses named above.

## 6. Not modelled

- `config.py`, `cli.py`, `profiles.py` and the runner URLs: option parsing; the
  values are the constants of the models.
- `drain`, `purge`, `Runner.wait`, `Runner.run`, `RecordingRunner`: used by tests.
- Command lines and manifests of tasks, `copy_tree` (a migration), logging, `logs()`,
  glob resolution.
- Docling, the tokenizer and the embedding model, which are external; the text of
  rows; ranking, and the HTTP layer and pool of the API, which change no state.
- A source edited while it is parsed (`cache.py:121`): the cache is keyed by
  content, so this one read is the only place it would show.
- An SQS message delivered to two invocations at once, and direct invocations.
- Page and row order of the database beyond READ COMMITTED's visibility and locks.

## 7. Plan

1. *Done*: queue contract, dispatcher, runners, file queue, document pipeline,
   Lambda entry point, tables and their writers, embedder; proofs for the
   dispatcher, the runners and the promise they keep, the consumers of the file queue,
   the document pipeline, Lambda, the tables and the embedder's batches.
2. *Open*: that what `Dispatcher` takes of a runner follows from `Runner`, a task at a
   time; that `LambdaDispatch`'s loop is `Dispatcher`'s over an `EventBatch`.
