--------------------------- MODULE LambdaDispatch ---------------------------
(***************************************************************************)
(* The Lambda entry point (workers/lambda_dispatch.py): the dispatcher's    *)
(* loop over the messages of one SQS event, inside an invocation that has   *)
(* only so much time.  EventBatch is the queue the loop sees: its ack() is  *)
(* a note for the response, its nack() and dead_letter() do nothing, and    *)
(* whatever was not acked is reported back.                                 *)
(*                                                                         *)
(* The loop is the one of Dispatcher.tla, with what an EventBatch cannot    *)
(* tell apart left out: the counters of a batch, which are exact there      *)
(* (Bookkeeping), are read off pending and running, and batch.settled is    *)
(* not needed where settling twice is settling once.  Time, which is a bit  *)
(* there, is a clock here: it is what the deadline is about.  The calls     *)
(* take no time and the loop sleeps one unit, after which every task is due *)
(* for a poll; DEADLINE_MARGIN is there to cover the rest.                  *)
(***************************************************************************)
EXTENDS Integers, Sequences, FiniteSets, Functions, Maps

CONSTANTS
    Messages,        \* the messages on the SQS queue
    Docs,            \* Docs[m]: how many documents message m names
    Unreadable,      \* messages documents_in() raises on
    MaxInFlight,     \* max_in_flight
    BatchSize,       \* batch_size
    Modes,           \* the values of RAG_ACK_ON, of which one is chosen
    Limits,          \* the function's time limits, of which one is chosen
    TaskTimeout,     \* task_timeout
    Margin,          \* DEADLINE_MARGIN
    MaxReceives,     \* maxReceiveCount of the queue's redrive policy
    MaxFaults        \* how many faults may happen

ASSUME MessagesAssumption ==
    /\ Docs \in [Messages -> Nat]
    /\ Unreadable \subseteq Messages
    /\ IsFiniteSet(Messages)
ASSUME BoundsAssumption ==
    /\ MaxInFlight \in Nat \ {0}
    /\ BatchSize \in Nat \ {0}
    /\ Modes \subseteq {"exit", "launch"}
    /\ Limits \subseteq Nat
    /\ TaskTimeout \in Nat
    /\ Margin \in Nat \ {0}
    /\ MaxReceives \in Nat
    /\ MaxFaults \in Nat

VARIABLES
    sqs,          \* what SQS does with each message
    count,        \* ApproximateReceiveCount
    ackOn,        \* ack_on
    limit,        \* get_remaining_time_in_millis() when the handler is called
    pc,           \* where the handler is
    clock,        \* time since it was called
    event,        \* the messages of the event the handler was called with
    left,         \* EventBatch._messages
    acked,        \* EventBatch._acked
    want,         \* _receive: how many messages are still to be taken
    pending,      \* _pending: documents waiting for a slot
    running,      \* _running: document -> start and state of its task
    failed,       \* messages with a failure in their _Batch
    progressed,   \* the local of that name
    accounted,    \* history: documents for which what ack_on waits for happened
    faults        \* faults so far

queueVars == <<sqs, count>>
modeVars  == <<ackOn, limit>>
batchVars == <<left, acked, want>>
taskVars  == <<pending, running, failed>>
vars == <<queueVars, modeVars, pc, clock, event, batchVars, taskVars, progressed,
          accounted, faults>>

DocsOf(m)  == {m} \X (1..Docs[m])
AllDocs == UNION {DocsOf(m) : m \in Messages}

Free == MaxInFlight - Cardinality(DOMAIN running)

(* Mutant: no time is kept back. *)
BudgetToTheLimit ==
    IF ackOn = "exit" /\ limit < TaskTimeout THEN limit ELSE TaskTimeout

(* _fit_to_deadline: the task timeout, cut so that the handler outlives its *)
(* tasks if it waits for them.                                              *)
Budget ==
    LET budget == IF limit - Margin >= 1 THEN limit - Margin ELSE 1
    IN  IF ackOn = "exit" /\ budget < TaskTimeout THEN budget ELSE TaskTimeout

-----------------------------------------------------------------------------
(* Mutant: documents still waiting do not count. *)
SettledWhileQueued(m, queued, run, bad) ==
    IF m \notin bad /\ (ackOn = "exit" => DOMAIN run \cap DocsOf(m) = {})
    THEN acked \cup {m} ELSE acked

(* _settle over an EventBatch: the messages acked once queued is _pending,  *)
(* run is _running and bad are the messages with failures.                  *)
Settled(m, queued, run, bad) ==
    IF /\ m \notin bad
       /\ Range(queued) \cap DocsOf(m) = {}
       /\ ackOn = "exit" => DOMAIN run \cap DocsOf(m) = {}
    THEN acked \cup {m} ELSE acked

Clean ==
    /\ clock' = 0 /\ left' = {} /\ want' = 0
    /\ pending' = <<>> /\ running' = [d \in {} |-> 0] /\ failed' = {}
    /\ progressed' = FALSE

Init ==
    /\ sqs = [m \in Messages |-> "visible"]
    /\ count = [m \in Messages |-> 0]
    /\ ackOn \in Modes
    /\ limit \in Limits
    /\ pc = "off" /\ clock = 0
    /\ event = {} /\ left = {} /\ acked = {} /\ want = 0
    /\ pending = <<>> /\ running = [d \in {} |-> 0] /\ failed = {}
    /\ progressed = FALSE
    /\ accounted = {}
    /\ faults = 0

(* SQS hands a batch of messages to the function, and EventBatch takes them *)
(* in.                                                                      *)
Invoke ==
    /\ pc = "off"
    /\ event' \in SUBSET {m \in Messages : sqs[m] = "visible" /\ count[m] < MaxReceives}
    /\ event' # {}
    /\ sqs' = [m \in Messages |-> IF m \in event' THEN "inflight" ELSE sqs[m]]
    /\ count' = [m \in Messages |-> IF m \in event' THEN count[m] + 1 ELSE count[m]]
    /\ left' = event'
    /\ pc' = "top"
    /\ UNCHANGED <<modeVars, clock, acked, want, taskVars, progressed, accounted, faults>>

(* The documents accounted for once the containers of D have parsed them.   *)
Parsed(D) == IF ackOn = "exit" THEN accounted \cup D ELSE accounted

(* Containers nobody looks at any more run on, and end one way or the       *)
(* other; which way is settled when they are left alone.                    *)
LeftAlone(D) == \E parsed \in SUBSET D : accounted' = Parsed(parsed)

Abandoned == LeftAlone({d \in DOMAIN running : running[d].state = "running"})

(* The invocation ends without an answer and SQS makes the whole batch      *)
(* visible again: it is out of time, or the loop raises, or is killed.      *)
Dies ==
    /\ pc \notin {"off", "answered"}
    /\ \/ clock >= limit /\ UNCHANGED faults
       \/ faults < MaxFaults /\ faults' = faults + 1
    /\ pc' = "off"
    /\ sqs' = [m \in Messages |-> IF m \in event THEN "visible" ELSE sqs[m]]
    /\ event' = {} /\ acked' = {}
    /\ Abandoned
    /\ Clean
    /\ UNCHANGED <<count, modeVars>>

-----------------------------------------------------------------------------
(* The loop of Dispatcher.run, without a stop signal and without a limit on *)
(* messages.                                                                *)
Begin ==
    /\ pc = "top"
    /\ pc' = "reap"
    /\ progressed' = FALSE
    /\ UNCHANGED <<queueVars, modeVars, clock, event, batchVars, taskVars, accounted, faults>>

(* _reap: a task that has a result leaves _running.                         *)
Reaped(d, bad) ==
    /\ running' = Without(running, {d})
    /\ failed' = bad
    /\ acked' = Settled(d[1], pending, running', bad)
    /\ progressed' = TRUE
    /\ UNCHANGED <<queueVars, modeVars, pc, clock, event, left, want, pending>>

ReapExited(d) ==
    /\ pc = "reap"
    /\ d \in DOMAIN running
    /\ running[d].state # "running"
    /\ Reaped(d, IF running[d].state = "succeeded" THEN failed ELSE failed \cup {d[1]})
    /\ UNCHANGED <<accounted, faults>>

Overrun(d) == clock - running[d].since >= Budget

(* The task is cancelled, though its container may still finish; or status()*)
(* has lost sight of a container that runs on, a fault.                     *)
ReapGivenUp(d) ==
    /\ pc = "reap"
    /\ d \in DOMAIN running
    /\ running[d].state = "running"
    /\ Reaped(d, failed \cup {d[1]})
    /\ LeftAlone({d})
    /\ \/ Overrun(d) /\ UNCHANGED faults
       \/ faults < MaxFaults /\ faults' = faults + 1

(* Every task past its timeout has been dealt with; one that exits now is   *)
(* found in a later turn.                                                   *)
ReapEnd ==
    /\ pc = "reap"
    /\ \A d \in DOMAIN running : ~Overrun(d)
    /\ pc' = "launch"
    /\ UNCHANGED <<queueVars, modeVars, clock, event, batchVars, taskVars, progressed,
                   accounted, faults>>

(* _launch, one turn of its loop: the runner accepts the task or refuses.   *)
Launch ==
    /\ pc \in {"launch", "relaunch"}
    /\ pending # <<>> /\ Free > 0
    /\ LET d == Head(pending)
       IN  /\ pending' = Tail(pending)
           /\ progressed' = TRUE
           /\ \/ /\ running' = With(running, d, [since |-> clock, state |-> "running"])
                 /\ accounted' = IF ackOn = "launch" THEN accounted \cup {d} ELSE accounted
                 /\ UNCHANGED failed
              \/ /\ failed' = failed \cup {d[1]}
                 /\ UNCHANGED <<running, accounted>>
           /\ acked' = Settled(d[1], pending', running', failed')
    /\ UNCHANGED <<queueVars, modeVars, pc, clock, event, left, want, faults>>

Least(a, b) == IF a <= b THEN a ELSE b

LaunchEnd ==
    /\ pc \in {"launch", "relaunch"}
    /\ pending = <<>> \/ Free <= 0
    /\ IF pc = "launch" /\ pending = <<>> /\ Free > 0
       THEN pc' = "receive" /\ want' = Least(BatchSize, Free)
       ELSE pc' = "check" /\ UNCHANGED want
    /\ UNCHANGED <<queueVars, modeVars, clock, event, left, acked, taskVars, progressed,
                   accounted, faults>>

(* EventBatch.receive and the unpacking of the message: unreadable, asking  *)
(* for nothing, or for documents that now wait for a slot.                  *)
Receive(m) ==
    /\ pc = "receive"
    /\ want > 0 /\ m \in left
    /\ want' = want - 1
    /\ left' = left \ {m}
    /\ progressed' = TRUE
    /\ failed' = IF m \in Unreadable THEN failed \cup {m} ELSE failed
    /\ pending' = IF m \in Unreadable THEN pending
                  ELSE pending \o [k \in 1..Docs[m] |-> <<m, k>>]
    /\ acked' = Settled(m, pending', running, failed')
    /\ UNCHANGED <<queueVars, modeVars, pc, clock, event, running, accounted, faults>>

ReceiveEnd ==
    /\ pc = "receive"
    /\ want = 0 \/ left = {}
    /\ want' = 0
    /\ pc' = "relaunch"
    /\ UNCHANGED <<queueVars, modeVars, clock, event, left, acked, taskVars, progressed,
                   accounted, faults>>

(* Mutant: tasks still running do not keep the loop.                        *)
MayEndRunning == pending = <<>>

(* The loop may end: nothing is awaited, and nothing waits for a slot.      *)
MayEnd == (running = [d \in {} |-> 0] \/ ackOn = "launch") /\ pending = <<>>

(* Nothing moved and the loop ends, idle_timeout being zero; the response   *)
(* names the messages of the event that were not acked.                     *)
Answer ==
    /\ pc = "check"
    /\ ~progressed /\ MayEnd
    /\ pc' = "answered"
    /\ UNCHANGED <<queueVars, modeVars, clock, event, batchVars, taskVars, progressed,
                   accounted, faults>>

GoRound ==
    /\ pc = "check"
    /\ \/ progressed /\ UNCHANGED clock
       \/ ~progressed /\ ~MayEnd /\ clock < limit /\ clock' = clock + 1
    /\ pc' = "top"
    /\ UNCHANGED <<queueVars, modeVars, event, batchVars, taskVars, progressed, accounted,
                   faults>>

-----------------------------------------------------------------------------
(* Mutant: a failure is reported for the messages that failed, and only for *)
(* them.                                                                    *)
ReportedFailed(m) == m \in failed

(* EventBatch.failures. *)
Reported(m) == m \notin acked

(* SQS acts on the response: what is not named in it is deleted.            *)
Settle(m) ==
    /\ pc = "answered"
    /\ m \in event /\ sqs[m] = "inflight"
    /\ sqs' = [sqs EXCEPT ![m] = IF Reported(m) THEN "visible" ELSE "deleted"]
    /\ UNCHANGED <<count, modeVars, pc, clock, event, batchVars, taskVars, progressed,
                   accounted, faults>>

Over ==
    /\ pc = "answered"
    /\ \A m \in event : sqs[m] # "inflight"
    /\ pc' = "off"
    /\ event' = {} /\ acked' = {}
    /\ Abandoned
    /\ Clean
    /\ UNCHANGED <<queueVars, modeVars, faults>>

(* The redrive policy parks what was received too often. *)
Redrive(m) ==
    /\ sqs[m] = "visible" /\ count[m] >= MaxReceives
    /\ sqs' = [sqs EXCEPT ![m] = "redriven"]
    /\ UNCHANGED <<count, modeVars, pc, clock, event, batchVars, taskVars, progressed,
                   accounted, faults>>

(* A container the loop tracks exits. *)
Exits(d) ==
    /\ d \in DOMAIN running
    /\ running[d].state = "running"
    /\ \E outcome \in {"succeeded", "failed"} :
        /\ running' = With(running, d, [running[d] EXCEPT !.state = outcome])
        /\ accounted' = IF outcome = "succeeded" THEN Parsed({d}) ELSE accounted
    /\ UNCHANGED <<queueVars, modeVars, pc, clock, event, batchVars, pending, failed,
                   progressed, faults>>

-----------------------------------------------------------------------------
Loop ==
    \/ Begin \/ ReapEnd \/ Launch \/ LaunchEnd \/ ReceiveEnd \/ Answer \/ GoRound
    \/ \E d \in AllDocs : ReapExited(d) \/ ReapGivenUp(d)
    \/ \E m \in Messages : Receive(m)

Service ==
    \/ Invoke \/ Over
    \/ \E m \in Messages : Settle(m) \/ Redrive(m)

Next ==
    \/ Loop \/ Service \/ Dies
    \/ \E d \in AllDocs : Exits(d)

Spec == Init /\ [][Next]_vars

-----------------------------------------------------------------------------
(* Properties. *)

(* The types, and that the messages of the event are in flight until the    *)
(* handler has answered, and that there is an event only while it runs.     *)
TypeOK ==
    /\ sqs \in [Messages -> {"visible", "inflight", "deleted", "redriven"}]
    /\ count \in [Messages -> Nat]
    /\ ackOn \in Modes /\ limit \in Limits
    /\ pc \in {"off", "top", "reap", "launch", "receive", "relaunch", "check", "answered"}
    /\ clock \in Nat /\ want \in Nat /\ faults \in Nat /\ progressed \in BOOLEAN
    /\ event \subseteq Messages
    /\ pc # "answered" => \A m \in event : sqs[m] = "inflight"
    /\ pc = "off" => event = {}
    /\ left \subseteq Messages /\ acked \subseteq Messages /\ failed \subseteq Messages
    /\ pending \in Seq(AllDocs)
    /\ DOMAIN running \subseteq AllDocs /\ IsFiniteSet(DOMAIN running)
    /\ running \in [DOMAIN running ->
            [since : Nat, state : {"running", "succeeded", "failed"}]]
    /\ accounted \subseteq AllDocs

(* What waits for a slot or has one is of messages taken off the batch.     *)
Sources ==
    /\ left \subseteq event
    /\ \A d \in DOMAIN running : d[1] \in event \ (left \cup Unreadable)
    /\ \A d \in Range(pending) : d[1] \in event \ (left \cup Unreadable)

(* An acked message has all its documents accounted for. *)
AckedDone == acked \cap Unreadable = {} /\ \A m \in acked : DocsOf(m) \subseteq accounted

SuccessCounts ==
    ackOn = "exit" =>
        \A d \in DOMAIN running : running[d].state = "succeeded" => d \in accounted

(* Every document of a message that was taken off the batch and has not     *)
(* failed waits, runs, or has been accounted for.                           *)
Covered(d) ==
    \/ d \in accounted
    \/ d \in Range(pending)
    \/ ackOn = "exit" /\ d \in DOMAIN running

Coverage ==
    \A m \in event \ (left \cup failed) :
        m \notin Unreadable /\ \A d \in DocsOf(m) : Covered(d)

(* A message of which nothing waits, or is awaited, has been settled.       *)
SettledInTime ==
    \A m \in event \ (left \cup failed) :
        /\ Range(pending) \cap DocsOf(m) = {}
        /\ ackOn = "exit" => DOMAIN running \cap DocsOf(m) = {}
        => m \in acked

(* No document waits twice, or waits and runs. *)
Once == IsInjective(pending) /\ Range(pending) \cap DOMAIN running = {}

(* A turn of the loop in which nothing moves has found the batch empty, or  *)
(* no slot free; and one that is answered had nothing left to do.           *)
Turn ==
    /\ pc = "off" => clock = 0 /\ failed = {} /\ pending = <<>> /\ DOMAIN running = {}
    /\ pc = "receive" /\ ~progressed => want > 0
    /\ pc = "relaunch" /\ ~progressed => left = {}
    /\ pc = "check" /\ ~progressed => (pending = <<>> /\ left = {}) \/ Free <= 0
    /\ pc = "answered" =>
        /\ MayEnd
        /\ left = {} \/ Free <= 0

(* The documents of the event that can be read. *)
Event == UNION {DocsOf(m) : m \in event \ Unreadable}

(* With a slot for every document, and a limit that leaves some time after  *)
(* the margin, each task is started at once and stopped before the margin.  *)
Ample == ackOn = "exit" /\ limit > Margin /\ Cardinality(Event) <= MaxInFlight

OnTime ==
    Ample /\ pc \notin {"off", "answered"} =>
        /\ \A d \in DOMAIN running : running[d].since = 0
        /\ clock > 0 => /\ pending = <<>>
                        /\ \A m \in left \ Unreadable : DocsOf(m) = {}
        /\ clock <= limit - Margin
        /\ pc \in {"launch", "receive", "relaunch", "check"} /\ DOMAIN running # {}
                => clock < limit - Margin

IndInv ==
    /\ TypeOK /\ Sources /\ AckedDone /\ SuccessCounts /\ Coverage
    /\ SettledInTime /\ Once /\ Turn /\ OnTime

(* A message SQS deleted has been worked off: nothing is taken for done     *)
(* because an invocation was cut short, a task was given up on, or a batch  *)
(* was answered for while a document of it was waiting.                     *)
Ledger == INSTANCE AtLeastOnce WITH
    Items    <- Messages,
    Needs    <- [m \in Messages |-> DocsOf(m)],
    Workable <- Messages \ Unreadable,
    unsent   <- {},
    owed     <- {m \in Messages : sqs[m] \in {"visible", "inflight"}},
    parked   <- {m \in Messages : sqs[m] = "redriven"},
    worked   <- accounted

KeepsPromise == Ledger!Spec

(* "Shorten the task timeout so the handler outlives its own tasks" (line   *)
(* 143): an invocation whose containers all hang still answers in time, if  *)
(* there is a slot for each and the limit exceeds the margin.  The timeout  *)
(* is cut once, so a container that has to wait for a slot may outrun it.   *)
OutlivesItsTasks == Ample /\ pc \notin {"off", "answered"} => clock < limit

(* "every message not explicitly acked" is reported (line 67), and it did   *)
(* fail.  None is sent back untried, which would use up one of its          *)
(* receives, but those the loop had not come to when, with ack_on=launch,   *)
(* containers it does not wait for had taken the last slot.                 *)
NoneSentBackUntried ==
    pc = "answered" =>
        /\ event \ acked \subseteq failed \cup left
        /\ left # {} => ackOn = "launch" /\ Free <= 0

=============================================================================
