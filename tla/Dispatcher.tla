---------------------------- MODULE Dispatcher ----------------------------
(***************************************************************************)
(* The dispatcher (workers/dispatcher.py): one loop that claims messages   *)
(* off to-parse, starts a container for every document they name, polls    *)
(* the containers, and settles a message once its documents are accounted  *)
(* for.  The loop is modelled step by step, at the grain of one call to    *)
(* the queue or to the runner, because claims expire, containers finish,   *)
(* signals arrive and the process dies between any two of those calls.     *)
(*                                                                         *)
(* The queue is MemoryQueue.  The runner is what runners/base.py promises: *)
(* launch() accepts a task or raises, status() says running, succeeded or  *)
(* failed, and cancel() is best effort.                                    *)
(***************************************************************************)
EXTENDS MemoryQueue

CONSTANTS
    Docs,            \* Docs[m]: how many documents message m names
    Unreadable,      \* messages documents_in() raises on
    Preloaded,       \* messages published before the dispatcher starts
    Handles,         \* task handles the runner can give out
    MaxInFlight,     \* max_in_flight
    BatchSize,       \* batch_size
    MaxAttempts,     \* max_attempts
    MaxMessages,     \* max_messages, when it is one of the Options
    AckOn,           \* ack_on: "exit" or "launch"
    Options,         \* the optional arguments of run() that are not None
    Faults,          \* the kinds of fault that may happen
    MaxFaults        \* how many of them may

ASSUME DocsAssumption == Docs \in [Messages -> Nat]
ASSUME KindsAssumption ==
    /\ Unreadable \subseteq Messages
    /\ Preloaded \subseteq Messages
ASSUME LimitsAssumption ==
    /\ MaxInFlight \in Nat \ {0}
    /\ BatchSize \in Nat \ {0}
    /\ MaxAttempts \in Nat \ {0}
    /\ MaxMessages \in Nat
    /\ MaxFaults \in Nat
ASSUME ModeAssumption ==
    /\ AckOn \in {"exit", "launch"}
    /\ Options \subseteq {"task_timeout", "max_messages", "idle_timeout", "should_stop"}
    /\ Faults \subseteq {"expiry", "crash", "cancel", "launch", "status", "poll", "spec"}

-----------------------------------------------------------------------------
VARIABLES
    unsent,       \* messages no enqueuer has published yet
    pc,           \* where the loop of run() is
    stopping,     \* the local of that name: should_stop() at the top of the loop
    progressed,   \* the local of that name
    scan,         \* _reap: the tasks of list(self._running) still to be looked at
    want,         \* receive_batch: how many messages are still to be claimed
    claimed,      \* receive_batch: the messages claimed, not yet unpacked
    pending,      \* _pending: <<batch, document>> pairs waiting for a slot
    running,      \* _running: handle -> the batch and document of the task
    batches,      \* the _Batch objects, by the order they were received in
    stats,        \* DispatchStats
    container,    \* the runner's side: handle -> document and state
    overrun,      \* tasks that have run past task_timeout
    signalled,    \* a stop signal has arrived
    faults,       \* faults so far
    accounted     \* history: the documents for which what ack_on waits for
                  \* has happened, the parse (exit) or the launch (launch)

loopVars    == <<stopping, progressed, scan, want, claimed>>
taskVars    == <<pending, running, batches>>
runnerVars  == <<container, overrun, accounted>>
vars == <<queueVars, unsent, pc, loopVars, taskVars, stats, runnerVars,
          signalled, faults>>

-----------------------------------------------------------------------------
(* The documents a message names, by position. *)
DocsOf(m) == 1..Docs[m]
Documents == UNION {{m} \X DocsOf(m) : m \in Messages}

(* The four counters of DispatchStats that say what became of a message. *)
Stats   == [received : Nat, acked : Nat, retried : Nat, deadLettered : Nat]
NoStats == [received |-> 0, acked |-> 0, retried |-> 0, deadLettered |-> 0]

Batch == [message : Delivery, queued : Nat, running : Nat,
          failed : BOOLEAN, settled : BOOLEAN]

(* Mutant: one slot too many. *)
FreeOneMore == MaxInFlight + 1 - Cardinality(DOMAIN running)

Free == MaxInFlight - Cardinality(DOMAIN running)

Bump(field) == [stats EXCEPT ![field] = @ + 1]

-----------------------------------------------------------------------------
(* Mutant: a batch is settled while documents of it still run. *)
NotYetRunning(b) == b.settled \/ b.queued > 0

(* _settle.  A batch is settled once nothing of it is queued and, with      *)
(* ack_on=exit, nothing of it is running.                                   *)
NotYet(b) ==
    \/ b.settled
    \/ b.queued > 0
    \/ AckOn = "exit" /\ b.running > 0

(* Mutant: one delivery too many. *)
OutOfAttemptsLate(b) == b.message.attempts > MaxAttempts

(* The attempt rule that must stay identical to that of Queue.consume. *)
OutOfAttempts(b) == b.message.attempts >= MaxAttempts

(* The batch object after the call; once settled it lives only as long as a *)
(* task points at it.                                                       *)
Store(n, b) ==
    batches' = IF b.settled /\ b.running = 0 THEN Without(batches, {n})
               ELSE With(batches, n, b)

(* Mutant: batch.settled is not set. *)
VerdictUnmarked(n, b, count, field) ==
    /\ Store(n, b)
    /\ stats' = [count EXCEPT ![field] = @ + 1]

Verdict(n, b, count, field) ==
    /\ Store(n, [b EXCEPT !.settled = TRUE])
    /\ stats' = [count EXCEPT ![field] = @ + 1]

(* The batch b of number n is complete as far as the caller knows; count is *)
(* what the caller has made of the statistics.                              *)
SettleCounting(n, b, count) ==
    \/ /\ NotYet(b)
       /\ Store(n, b)
       /\ stats' = count
       /\ UNCHANGED queueVars
    \/ /\ ~NotYet(b) /\ ~b.failed
       /\ Ack(b.message)
       /\ Verdict(n, b, count, "acked")
    \/ /\ ~NotYet(b) /\ b.failed /\ OutOfAttempts(b)
       /\ DeadLetter(b.message)
       /\ Verdict(n, b, count, "deadLettered")
    \/ /\ ~NotYet(b) /\ b.failed /\ ~OutOfAttempts(b)
       /\ Nack(b.message)
       /\ Verdict(n, b, count, "retried")

Settle(n, b) == SettleCounting(n, b, stats)

-----------------------------------------------------------------------------
(* A fault of one kind: there are at most MaxFaults of them in a behaviour. *)
Fault(kind) ==
    /\ kind \in Faults
    /\ faults < MaxFaults
    /\ faults' = faults + 1

Init ==
    /\ ready \in Bijection(1..Cardinality(Preloaded),
                           [id : Preloaded, attempts : {0}])
    /\ inflight = [m \in {} |-> 0]
    /\ dead = {}
    /\ unsent = Messages \ Preloaded
    /\ pc = "down"
    /\ stopping = FALSE
    /\ progressed = FALSE
    /\ scan = {}
    /\ want = 0
    /\ claimed = <<>>
    /\ pending = <<>>
    /\ running = [h \in {} |-> 0]
    /\ batches = [n \in {} |-> 0]
    /\ stats = NoStats
    /\ container = [h \in {} |-> 0]
    /\ overrun = {}
    /\ signalled = FALSE
    /\ faults = 0
    /\ accounted = {}

(* run(), up to the loop: a new process, and the depth() of its first log   *)
(* line, which is also the first _reap of the queue.                        *)
Start ==
    /\ pc = "down"
    /\ pc' = "top"
    /\ Depth
    /\ UNCHANGED <<unsent, loopVars, taskVars, stats, runnerVars, signalled, faults>>

(* The process ends where it stands.  Its memory is lost; its claims and    *)
(* its containers are not.                                                  *)
Die ==
    /\ pc' = "down"
    /\ stopping' = FALSE
    /\ progressed' = FALSE
    /\ scan' = {}
    /\ want' = 0
    /\ claimed' = <<>>
    /\ pending' = <<>>
    /\ running' = [h \in {} |-> 0]
    /\ batches' = [n \in {} |-> 0]
    /\ stats' = NoStats
    /\ container' = Without(container,
           {h \in DOMAIN container : container[h].state # "running"})
    /\ overrun' = {}
    /\ signalled' = FALSE
    /\ UNCHANGED <<queueVars, unsent, accounted>>

-----------------------------------------------------------------------------
(* The top of the loop: should_stop() is asked once, and _reap begins.      *)
Begin ==
    /\ pc = "top"
    /\ pc' = "reap"
    /\ stopping' = signalled
    /\ progressed' = FALSE
    /\ scan' = DOMAIN running
    /\ UNCHANGED <<queueVars, unsent, want, claimed, taskVars, stats, runnerVars,
                   signalled, faults>>

(* _reap, the task h is not due for a poll, or is polled and still running. *)
PassOver(h) ==
    /\ pc = "reap"
    /\ h \in scan
    /\ scan' = scan \ {h}
    /\ UNCHANGED <<queueVars, unsent, pc, stopping, progressed, want, claimed,
                   taskVars, stats, runnerVars, signalled, faults>>

(* _reap, once the result of task h is final: it leaves _running and its    *)
(* batch hears of it.                                                       *)
Reaped(h, ok) ==
    LET n == running[h].batch
    IN  /\ pc = "reap"
        /\ h \in scan
        /\ scan' = scan \ {h}
        /\ running' = Without(running, {h})
        /\ progressed' = TRUE
        /\ Settle(n, [batches[n] EXCEPT !.running = @ - 1,
                                        !.failed = @ \/ ~ok])
        /\ overrun' = overrun \ {h}
        /\ UNCHANGED <<unsent, pc, stopping, want, claimed, pending, signalled>>

(* status() is terminal; cleanup() removes the container. *)
ReapExited(h) ==
    /\ pc = "reap" /\ h \in scan
    /\ container[h].state # "running"
    /\ Reaped(h, container[h].state = "succeeded")
    /\ container' = Without(container, {h})
    /\ UNCHANGED <<accounted, faults>>

(* The documents accounted for once container h has parsed its own. *)
ParsedBy(h) == IF AckOn = "exit" THEN accounted \cup {container[h].doc} ELSE accounted

(* status() is not terminal and the task is past task_timeout: cancel() and *)
(* count it failed.  The container may still finish between the two calls.  *)
ReapOverrun(h) ==
    /\ pc = "reap" /\ h \in scan
    /\ h \in overrun
    /\ container[h].state = "running"
    /\ Reaped(h, FALSE)
    /\ \/ /\ container' = Without(container, {h})
          /\ accounted' \in {accounted, ParsedBy(h)}
          /\ UNCHANGED faults
       \/ /\ Fault("cancel")          \* best effort: it had no effect, or has not yet
          /\ UNCHANGED <<container, accounted>>

(* status() cannot tell what became of the container and reports it failed; *)
(* cleanup() removes it whatever it was doing.                              *)
ReapLost(h) ==
    /\ pc = "reap" /\ h \in scan
    /\ Fault("status")
    /\ Reaped(h, FALSE)
    /\ container' = Without(container, {h})
    /\ UNCHANGED accounted

(* status() raises, as an API call may: nothing between it and main()       *)
(* catches that.                                                            *)
ReapRaises ==
    /\ pc = "reap"
    /\ scan # {}
    /\ Fault("poll")
    /\ Die

(* Mutant: _launch runs whether or not the loop is stopping. *)
ReapEndGoesOn ==
    /\ pc = "reap"
    /\ scan = {}
    /\ pc' = "launch"
    /\ UNCHANGED <<queueVars, unsent, loopVars, taskVars, stats, runnerVars,
                   signalled, faults>>

ReapEnd ==
    /\ pc = "reap"
    /\ scan = {}
    /\ pc' = IF stopping THEN "check" ELSE "launch"
    /\ UNCHANGED <<queueVars, unsent, loopVars, taskVars, stats, runnerVars,
                   signalled, faults>>

-----------------------------------------------------------------------------
(* _launch, one turn of its loop: a document leaves _pending ...            *)
LaunchTurn ==
    /\ pc \in {"launch", "relaunch"}
    /\ pending # <<>>
    /\ Free > 0

Popped ==
    /\ pending' = Tail(pending)
    /\ progressed' = TRUE
    /\ UNCHANGED <<unsent, pc, stopping, scan, want, claimed, overrun, signalled>>

(* The next task handle: any that names no container. *)
Fresh == CHOOSE h \in Handles : h \notin DOMAIN container

(* Mutants: the batch is not told, or is told twice. *)
PoppingUntold == batches[Head(pending).batch]
PoppingTwice  == [batches[Head(pending).batch] EXCEPT !.queued = @ - 1, !.running = @ - 1]

Popping == [batches[Head(pending).batch] EXCEPT !.queued = @ - 1]

Started(h) == With(container, h, [doc |-> Head(pending).doc, state |-> "running"])

(* ... and the runner accepts its task,                                     *)
LaunchAccepted(h) ==
    /\ LaunchTurn
    /\ Popped
    /\ container' = Started(h)
    /\ accounted' = IF AckOn = "launch" THEN accounted \cup {Head(pending).doc}
                    ELSE accounted
    /\ running' = With(running, h, Head(pending))
    /\ Settle(Head(pending).batch, [Popping EXCEPT !.running = @ + 1])
    /\ UNCHANGED faults

(* or launch() raises, having perhaps started the container all the same,   *)
LaunchRefused ==
    /\ LaunchTurn
    /\ Popped
    /\ Settle(Head(pending).batch, [Popping EXCEPT !.failed = TRUE])
    /\ UNCHANGED <<running, accounted>>
    /\ \/ UNCHANGED <<container, faults>>
       \/ /\ Fault("launch")
          /\ Handles \ DOMAIN container # {}
          /\ container' = Started(Fresh)

(* or spec_for() raises, and no handler stands between it and main().       *)
LaunchRaises ==
    /\ LaunchTurn
    /\ Fault("spec")
    /\ Die

Launch ==
    \/ Handles \ DOMAIN container # {} /\ LaunchAccepted(Fresh)
    \/ LaunchRefused
    \/ LaunchRaises

(* The end of _launch.  The first one leads to _receive if _pending is      *)
(* empty and there is room, the second never does.                          *)
Least(a, b) == IF a <= b THEN a ELSE b

(* Mutants: max_messages forgotten, or taken to be exclusive. *)
RoomUnlimited == Least(BatchSize, Free)
RoomShort ==
    IF stats.received + 1 < MaxMessages
    THEN Least(Least(BatchSize, Free), MaxMessages - stats.received - 1) ELSE 0

Room ==
    LET room == Least(BatchSize, Free)
    IN  IF "max_messages" \in Options
        THEN IF stats.received < MaxMessages
             THEN Least(room, MaxMessages - stats.received) ELSE 0
        ELSE room

LaunchEnd ==
    /\ pc \in {"launch", "relaunch"}
    /\ pending = <<>> \/ Free <= 0
    /\ IF pc = "launch" /\ pending = <<>> /\ Free > 0
       THEN pc' = "receive" /\ want' = Room
       ELSE pc' = "check" /\ UNCHANGED want
    /\ UNCHANGED <<queueVars, unsent, stopping, progressed, scan, claimed, taskVars,
                   stats, runnerVars, signalled, faults>>

-----------------------------------------------------------------------------
(* receive_batch: claim messages one at a time until there are enough, or   *)
(* receive() has none to give.                                              *)
ReceiveOne ==
    /\ pc = "receive"
    /\ want > 0
    /\ \/ \E q \in AfterReap :
            /\ Receive(q)
            /\ claimed' = Append(claimed, Delivering(q))
            /\ want' = want - 1
       \/ /\ ReceiveNone
          /\ want' = 0
          /\ UNCHANGED claimed
    /\ UNCHANGED <<unsent, pc, stopping, progressed, scan, taskVars, stats, runnerVars,
                   signalled, faults>>

ReceiveEnd ==
    /\ pc = "receive"
    /\ want = 0
    /\ pc' = "unpack"
    /\ progressed' = (progressed \/ claimed # <<>>)
    /\ UNCHANGED <<queueVars, unsent, stopping, scan, want, claimed, taskVars, stats,
                   runnerVars, signalled, faults>>

(* The rest of _receive: a claimed message becomes a batch.  One that       *)
(* cannot be read, or that names no document, is settled at once.           *)
Unpack ==
    LET d == Head(claimed)
        n == stats.received + 1
        m == d.id
        b == [message |-> d, queued |-> 0, running |-> 0, failed |-> FALSE,
              settled |-> FALSE]
    IN  /\ pc = "unpack"
        /\ claimed # <<>>
        /\ claimed' = Tail(claimed)
        /\ \/ /\ m \in Unreadable
              /\ SettleCounting(n, [b EXCEPT !.failed = TRUE], Bump("received"))
              /\ UNCHANGED pending
           \/ /\ m \notin Unreadable
              /\ Docs[m] = 0
              /\ SettleCounting(n, b, Bump("received"))
              /\ UNCHANGED pending
           \/ /\ m \notin Unreadable
              /\ Docs[m] > 0
              /\ batches' = With(batches, n, [b EXCEPT !.queued = Docs[m]])
              /\ pending' = pending \o
                    [k \in DocsOf(m) |-> [batch |-> n, doc |-> <<m, k>>]]
              /\ stats' = Bump("received")
              /\ UNCHANGED queueVars
        /\ UNCHANGED <<unsent, pc, stopping, progressed, scan, want, running, runnerVars,
                       signalled, faults>>

UnpackEnd ==
    /\ pc = "unpack"
    /\ claimed = <<>>
    /\ pc' = "relaunch"
    /\ UNCHANGED <<queueVars, unsent, loopVars, taskVars, stats, runnerVars,
                   signalled, faults>>

-----------------------------------------------------------------------------
(* The bottom of the loop: go round at once if anything moved; otherwise    *)
(* end, for the first of three reasons that holds, or sleep and go round.   *)
(* Mutant: tasks still running do not count. *)
MayEndRunning == pending = <<>>

MayEnd ==
    /\ DOMAIN running = {} \/ AckOn = "launch"
    /\ pending = <<>>

Reached == "max_messages" \in Options /\ stats.received >= MaxMessages

Check ==
    /\ pc = "check"
    /\ \/ progressed /\ pc' = "top"
       \/ ~progressed /\ MayEnd /\ (stopping \/ Reached) /\ pc' = "done"
       \/ /\ ~progressed /\ MayEnd /\ ~stopping /\ ~Reached
          /\ "idle_timeout" \in Options
          /\ pc' = "done"
       \/ ~progressed /\ ~(MayEnd /\ (stopping \/ Reached)) /\ pc' = "top"
    /\ UNCHANGED <<queueVars, unsent, loopVars, taskVars, stats, runnerVars,
                   signalled, faults>>

-----------------------------------------------------------------------------
(* What goes on around the loop. *)
PublishNew(m) ==
    /\ m \in unsent
    /\ unsent' = unsent \ {m}
    /\ Publish(m)
    /\ UNCHANGED <<pc, loopVars, taskVars, stats, runnerVars, signalled, faults>>

(* The parser in container h exits.  One that nothing tracks any more       *)
(* leaves nothing behind but what it parsed.                                *)
ContainerExits(h) ==
    /\ h \in DOMAIN container
    /\ container[h].state = "running"
    /\ \E outcome \in {"succeeded", "failed"} :
        /\ container' = IF h \in DOMAIN running
                        THEN With(container, h, [container[h] EXCEPT !.state = outcome])
                        ELSE Without(container, {h})
        /\ accounted' = IF outcome = "succeeded" THEN ParsedBy(h) ELSE accounted
    /\ UNCHANGED <<queueVars, unsent, pc, loopVars, taskVars, stats, overrun, signalled, faults>>

TaskOverruns(h) ==
    /\ "task_timeout" \in Options
    /\ h \in DOMAIN running \ overrun
    /\ overrun' = overrun \cup {h}
    /\ UNCHANGED <<queueVars, unsent, pc, loopVars, taskVars, stats, container, accounted,
                   signalled, faults>>

(* The messages this process holds a claim for, or believes it does. *)
Held == {d.id : d \in Range(claimed)} \cup
        {b.message.id : b \in {c \in Range(batches) : ~c.settled}}

(* A claim nobody holds any more expires in time; one that is being worked  *)
(* on expires only when the work outlasts visibility_timeout, a fault.      *)
Expires(m) ==
    /\ ClaimExpires(m)
    /\ m \in Held => Fault("expiry")
    /\ m \notin Held => UNCHANGED faults
    /\ UNCHANGED <<unsent, pc, loopVars, taskVars, stats, runnerVars, signalled>>

Signal ==
    /\ "should_stop" \in Options
    /\ pc \notin {"down", "done"}
    /\ ~signalled
    /\ signalled' = TRUE
    /\ UNCHANGED <<queueVars, unsent, pc, loopVars, taskVars, stats, runnerVars, faults>>

Crash ==
    /\ pc \notin {"down", "done"}
    /\ Fault("crash")
    /\ Die

-----------------------------------------------------------------------------
Reap(h) == ReapExited(h) \/ ReapOverrun(h) \/ ReapLost(h)

Loop ==
    \/ Start \/ Begin \/ ReapEnd \/ Launch \/ LaunchEnd
    \/ ReceiveOne \/ ReceiveEnd \/ Unpack \/ UnpackEnd \/ Check
    \/ \E h \in Handles : PassOver(h) \/ Reap(h)
    \/ ReapRaises

Environment ==
    \/ \E m \in Messages : PublishNew(m) \/ Expires(m)
    \/ \E h \in Handles : ContainerExits(h) \/ TaskOverruns(h)
    \/ Signal
    \/ Crash

Next == Loop \/ Environment

Spec == Init /\ [][Next]_vars

(* The loop keeps going; a task that has something to say is polled again   *)
(* whenever status_interval has passed; time passes for timeouts and for    *)
(* claims nobody holds.  Nothing makes a container exit.                    *)
Fairness ==
    /\ WF_vars(Loop)
    /\ \A h \in Handles : SF_vars(ReapExited(h) \/ ReapOverrun(h))
    /\ \A h \in Handles : WF_vars(TaskOverruns(h))
    /\ \A m \in Messages : WF_vars(m \notin Held /\ Expires(m))

FairSpec == Spec /\ Fairness

-----------------------------------------------------------------------------
(* Properties. *)

Task == [batch : Nat, doc : Documents]

(* The variables have the types the code gives them, and what the loop      *)
(* tracks names batches and containers that exist.                          *)
TypeOK ==
    /\ QueueTypeOK
    /\ unsent \subseteq Messages
    /\ pc \in {"down", "top", "reap", "launch", "receive", "unpack", "relaunch",
               "check", "done"}
    /\ stopping \in BOOLEAN /\ progressed \in BOOLEAN /\ signalled \in BOOLEAN
    /\ want \in Nat /\ faults \in Nat
    /\ claimed \in Seq(Delivery)
    /\ pending \in Seq(Task)
    /\ DOMAIN container \subseteq Handles
    /\ container \in [DOMAIN container ->
            [doc : Documents, state : {"running", "succeeded", "failed"}]]
    /\ DOMAIN running \subseteq DOMAIN container
    /\ running \in [DOMAIN running -> Task]
    /\ scan \subseteq DOMAIN running /\ overrun \subseteq DOMAIN running
    /\ DOMAIN batches \subseteq Nat
    /\ batches \in [DOMAIN batches -> Batch]
    /\ stats \in Stats
    /\ accounted \subseteq Documents

QueuedTasks(n)  == {p \in Range(pending) : p.batch = n}
RunningTasks(n) == {h \in DOMAIN running : running[h].batch = n}

(* The counters of a batch say what is really queued and running of it, so  *)
(* that _settle, which looks at nothing else, settles neither early (an ack *)
(* with a document outstanding) nor never.                                  *)
Bookkeeping ==
    /\ \A n \in DOMAIN batches :
        /\ batches[n].queued = Cardinality(QueuedTasks(n))
        /\ batches[n].running = Cardinality(RunningTasks(n))
    /\ \A p \in Range(pending) \cup Range(running) : p.batch \in DOMAIN batches

(* Every delivery received is settled once: acked, retried, dead-lettered,  *)
(* or still open.  A second settlement would ack or retry a claim that is   *)
(* no longer the batch's own.                                               *)
SettledOnce ==
    stats.received = stats.acked + stats.retried + stats.deadLettered
                     + Cardinality({n \in DOMAIN batches : ~batches[n].settled})

(* Nothing can leave a container behind that the loop does not track. *)
RunnerObeys == Faults \cap {"crash", "cancel", "launch", "poll", "spec"} = {}

(* max_in_flight bounds the containers that exist, not just those counted   *)
(* (config.py, "Containers in flight at once"), while the runner obeys; and *)
(* a fault lets no more than a capful go uncounted: all that ran when the   *)
(* process ended, or the one that was cancelled or refused and runs on.     *)
CapHolds ==
    /\ RunnerObeys => Cardinality(DOMAIN container) <= MaxInFlight
    /\ Cardinality(DOMAIN container) <= MaxInFlight * (1 + faults)

(* With ack_on=exit the loop ends with no claim held and no container left: *)
(* "anything else abandons a claimed message".                              *)
ExitLeavesNothing ==
    pc = "done" /\ AckOn = "exit" /\ RunnerObeys
        => inflight = [m \in {} |-> 0] /\ container = [h \in {} |-> 0]

(* What a message waits for before it may be acked: that every document of  *)
(* it is parsed or, with ack_on=launch, that every one has a container.     *)
AccountedFor(m) ==
    /\ m \notin Unreadable
    /\ {m} \X DocsOf(m) \subseteq accounted

Parked == {d.id : d \in dead}

(* "A dispatcher that dies abandons nothing": a published message is still  *)
(* on the queue, or parked for a human, or accounted for, whatever crashes, *)
(* expires, is refused or overruns.                                         *)
NoMessageLost ==
    \A m \in Messages \ unsent :
        m \in Outstanding \/ m \in Parked \/ AccountedFor(m)

-----------------------------------------------------------------------------
(* Why the two properties above hold: an invariant that every step keeps.   *)

(* No document waits twice, and the set of tasks is finite. *)
Distinct ==
    /\ IsInjective(pending)
    /\ IsFiniteSet(DOMAIN running)

(* Batches are numbered in the order they were received. *)
Numbered == \A n \in DOMAIN batches : n <= stats.received

(* Nothing of a settled batch is still to be launched. *)
Complete == \A n \in DOMAIN batches : batches[n].settled => batches[n].queued = 0

(* A document of an open batch without failures is waiting, or running, or  *)
(* has been accounted for.                                                  *)
CoveredBatch(n, b) ==
    ~b.settled /\ ~b.failed =>
        /\ b.message.id \notin Unreadable
        /\ \A k \in DocsOf(b.message.id) :
            LET task == [batch |-> n, doc |-> <<b.message.id, k>>]
            IN  \/ task.doc \in accounted
                \/ task \in Range(pending)
                \/ AckOn = "exit" /\ task \in Range(running)

Covered == \A n \in DOMAIN batches : CoveredBatch(n, batches[n])

(* The container behind a handle is the one the task was started for, and   *)
(* it exits zero only after the parse.                                      *)
RunnerTruth ==
    \A h \in DOMAIN running :
        /\ container[h].doc = running[h].doc
        /\ AckOn = "exit" /\ container[h].state = "succeeded"
                => container[h].doc \in accounted

IndInv ==
    /\ TypeOK
    /\ Distinct
    /\ Bookkeeping
    /\ Numbered
    /\ Complete
    /\ Covered
    /\ RunnerTruth
    /\ NoMessageLost

-----------------------------------------------------------------------------
(* The dispatcher keeps the promise a queue makes of its consumer: a        *)
(* message is owed as long as it is on the queue, and no step, not even one *)
(* taken with a claim that lapsed, forgets it early or brings it back late. *)
Promise == INSTANCE AtLeastOnce WITH
    Items    <- Messages,
    Needs    <- [m \in Messages |-> {m} \X DocsOf(m)],
    Workable <- Messages \ Unreadable,
    owed     <- Outstanding,
    parked   <- Parked,
    worked   <- accounted

KeepsPromise == Promise!Spec

(* max_attempts bounds the deliveries of a message; each delivery beyond it *)
(* is owed to a fault that made a claim lapse without a verdict.            *)
DeliveriesBounded ==
    \A m \in DOMAIN inflight : inflight[m].attempts <= MaxAttempts + faults

(* A parked message is not delivered again, unless a claim has expired      *)
(* under the delivery that parked it.                                       *)
ParkedForGood ==
    "expiry" \notin Faults \/ faults = 0 => Parked \cap Outstanding = {}

(* max_messages is a bound on the messages claimed, batches included. *)
LimitHolds ==
    "max_messages" \in Options => stats.received + Len(claimed) + want <= MaxMessages

(* A loop that ends because the queue stayed idle leaves nothing waiting    *)
(* (ack_on=launch ends it as soon as all its slots are taken, line 284).    *)
IdleExitDrained ==
    AckOn = "exit" /\ pc = "done" /\ ~stopping /\ ~Reached => ready = <<>>

(* Once the loop has seen the stop request it starts no container and       *)
(* claims no message: it only finishes what it has.                         *)
NoNewWorkOnceStopping ==
    [][stopping /\ pc # "down" => DOMAIN container' \subseteq DOMAIN container
                                  /\ claimed' \in {claimed, <<>>}]_vars

(* Every message is in the end acked or parked, though a container may hang *)
(* forever and claims lapse: the task timeout and the attempt rule see to it*)
EventuallySettled == \A m \in Messages : m \in Outstanding ~> m \notin Outstanding

(* "Dispatch until told to stop": a stop signal ends the loop. *)
StopTerminates == signalled ~> pc \in {"done", "down"}

=============================================================================
