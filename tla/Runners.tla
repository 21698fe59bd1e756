------------------------------ MODULE Runners ------------------------------
(***************************************************************************)
(* The runners (runners/local.py, ecs.py, kube.py): what launch, status,    *)
(* cancel and cleanup do on each backend, and what they make of what the    *)
(* backend answers.  They are called as the dispatcher calls them for one   *)
(* document: a task is started, polled, cancelled when it overruns, cleaned *)
(* up, and when it failed the message comes back and the next is started.   *)
(*                                                                         *)
(* A task is two things: the container, which runs whatever anyone says,    *)
(* and the record of it that the backend answers from: the container Docker *)
(* lists, the entry of ProcessRunner._running, the ECS task, the Job.       *)
(***************************************************************************)
EXTENDS Naturals, FiniteSets

CONSTANTS
    Backends,    \* the backends looked at, one in each behaviour
    MaxTasks,    \* how many tasks the deliveries of the message can start
    Faults,      \* the kinds of fault that may happen
    MaxFaults    \* how many of them may

Docker == {"docker", "dockerKeep"}      \* without and with ?keep
Remote == {"ecs", "k8s"}

ASSUME RunnersAssumption ==
    /\ Backends \subseteq Docker \cup Remote \cup {"process"}
    /\ MaxTasks \in Nat
    /\ MaxFaults \in Nat
    /\ Faults \subseteq {"launch", "poll", "wedged", "cancel", "lost", "crash"}

VARIABLES
    backend,     \* where the tasks run
    task,        \* the task the caller is at
    pc,          \* where the caller is with it
    overrun,     \* it has run for task_timeout
    verdict,     \* what the caller was told of each task in the end
    container,   \* what the container of each task is doing
    record,      \* what the backend says of each task
    asked,       \* tasks the backend, or a SIGTERM, has asked to stop
    faults       \* faults so far

callerVars  == <<task, pc, overrun, verdict>>
worldVars   == <<container, record, asked>>
vars == <<backend, callerVars, worldVars, faults>>

Tasks == 1..MaxTasks

Live == {"waiting", "running"}           \* not started, or started
Over == {"zero", "nonzero"}              \* exited zero, or not, or never started

-----------------------------------------------------------------------------
Fault(kind) ==
    /\ kind \in Faults
    /\ faults < MaxFaults
    /\ faults' = faults + 1

Init ==
    /\ backend \in Backends
    /\ task = 0
    /\ pc = "next"
    /\ overrun = FALSE
    /\ verdict = [t \in Tasks |-> "none"]
    /\ container = [t \in Tasks |-> "none"]
    /\ record = [t \in Tasks |-> "none"]
    /\ asked = {}
    /\ faults = 0

(* What is asked of a cluster waits for a place; the rest runs at once.     *)
Begins(t) == IF backend \in Remote THEN "waiting" ELSE "running"

Accepted(t) ==
    /\ pc' = "poll"
    /\ container' = [container EXCEPT ![t] = Begins(t)]
    /\ record' = [record EXCEPT ![t] = Begins(t)]
    /\ UNCHANGED <<verdict, faults>>

(* Mounts on a backend without a host, no capacity, a bad manifest, a       *)
(* failing `docker run`: launch() raises and nothing was started.  Docker   *)
(* may have created the container it could not start, and lists it, as run  *)
(* was not given --rm; of that nobody has a handle.                         *)
Refused(t) ==
    /\ pc' = "next"
    /\ verdict' = [verdict EXCEPT ![t] = "refused"]
    /\ \/ UNCHANGED record
       \/ backend \in Docker /\ record' = [record EXCEPT ![t] = "created"]
    /\ UNCHANGED <<container, faults>>

(* The CLI or the API call times out: launch() raises, the container starts.*)
Unheard(t) ==
    /\ backend # "process"
    /\ Fault("launch")
    /\ pc' = "next"
    /\ verdict' = [verdict EXCEPT ![t] = "refused"]
    /\ container' = [container EXCEPT ![t] = Begins(t)]
    /\ record' = [record EXCEPT ![t] = Begins(t)]

Launch ==
    LET t == task + 1
    IN  /\ pc = "next"
        /\ t \in Tasks
        /\ task' = t
        /\ overrun' = FALSE
        /\ Accepted(t) \/ Refused(t) \/ Unheard(t)
        /\ UNCHANGED <<backend, asked>>

(* The message is out of attempts. *)
GiveUp ==
    /\ pc = "next"
    /\ task = MaxTasks
    /\ pc' = "end"
    /\ UNCHANGED <<backend, task, overrun, verdict, worldVars, faults>>

(* What an exit code stands for. *)
ExitSays(r) == IF r = "zero" THEN "succeeded" ELSE "failed"

(* Mutant: a container that is gone has done its work. *)
DockerSaysDone(r) ==
    IF r \in Live THEN r ELSE IF r = "nonzero" THEN "failed" ELSE "succeeded"

(* status(), of the record r.  A container Docker does not know has failed. *)
DockerSays(r) == IF r \in Live THEN r ELSE ExitSays(r)

(* A task not in _running is not this runner's. *)
ProcessSays(r) ==
    IF r = "gone" THEN "unknown" ELSE IF r \in Live THEN "running" ELSE ExitSays(r)

(* Of a task ECS has forgotten nothing can be said. *)
EcsSays(r) ==
    IF r = "gone" THEN "unknown" ELSE IF r \in Live THEN r ELSE ExitSays(r)

(* Nor of a Job that was reaped; one whose Pod is neither active nor over   *)
(* is pending.                                                              *)
K8sSays(r) ==
    IF r = "gone" THEN "unknown" ELSE IF r \in Over THEN ExitSays(r) ELSE r

Says(r) ==
    CASE backend \in Docker -> DockerSays(r)
      [] backend = "process" -> ProcessSays(r)
      [] backend = "ecs" -> EcsSays(r)
      [] OTHER -> K8sSays(r)

(* Mutant: UNKNOWN counts as done.                                          *)
DoneUnknown == {"succeeded", "failed", "unknown"}

(* TaskState.done. *)
Done == {"succeeded", "failed"}

(* Mutant: a task of which nothing can be said does not time out. *)
TimedOutKnown == overrun /\ Says(record[task]) \in Live

(* The task is not done and its time is up. *)
TimedOut == overrun /\ Says(record[task]) \notin Done

(* The dispatcher polls: the task is done, or has overrun and is cancelled, *)
(* or, which changes nothing, is passed over.                               *)
Poll ==
    /\ pc = "poll"
    /\ \/ /\ Says(record[task]) \in Done
          /\ verdict' = [verdict EXCEPT ![task] = Says(record[task])]
          /\ pc' = "cleanup"
       \/ /\ TimedOut
          /\ verdict' = [verdict EXCEPT ![task] = "overran"]
          /\ pc' = "cancel"
    /\ UNCHANGED <<backend, task, overrun, worldVars, faults>>

(* docker inspect does not answer within CLI_TIMEOUT, which _cli makes a    *)
(* return code, and status() a container that was not found.                *)
PollWedged ==
    /\ pc = "poll"
    /\ backend \in Docker
    /\ Fault("wedged")
    /\ verdict' = [verdict EXCEPT ![task] = "failed"]
    /\ pc' = "cleanup"
    /\ UNCHANGED <<backend, task, overrun, worldVars>>

(* The containers after t was killed, or asked to stop and has ended.       *)
Ended(t, how) == [container EXCEPT ![t] = IF @ \in Live THEN how ELSE @]

(* cancel(), if the call gets through: Docker kills. *)
DockerCancel ==
    /\ backend \in Docker
    /\ container[task] = "running"
    /\ container' = [container EXCEPT ![task] = "nonzero"]
    /\ record' = [record EXCEPT ![task] = "nonzero"]
    /\ UNCHANGED asked

(* There is nothing to kill, or to find. *)
DockerCancelNone ==
    /\ backend \in Docker
    /\ container[task] # "running"
    /\ UNCHANGED worldVars

(* A process is given ten seconds to end and is killed after them. *)
ProcessCancel ==
    /\ backend = "process"
    /\ \E how \in Over : container' = Ended(task, how)
    /\ record' = [record EXCEPT ![task] = container'[task]]
    /\ UNCHANGED asked

(* ECS is asked to stop the task, and does so later. *)
EcsCancel ==
    /\ backend = "ecs"
    /\ asked' = asked \cup {task}
    /\ UNCHANGED <<container, record>>

(* Mutant: the Job is deleted without its Pod. *)
K8sCancelOrphaning ==
    /\ backend = "k8s"
    /\ record' = [record EXCEPT ![task] = "gone"]
    /\ UNCHANGED <<container, asked>>

(* The Job is deleted at once, its Pod in the background. *)
K8sCancel ==
    /\ backend = "k8s"
    /\ record' = [record EXCEPT ![task] = "gone"]
    /\ asked' = asked \cup {task}
    /\ UNCHANGED container

(* Mutant: the default of the base class, which only logs. *)
CancelNot == UNCHANGED worldVars

Cancel ==
    DockerCancel \/ DockerCancelNone \/ ProcessCancel \/ EcsCancel \/ K8sCancel

(* What the call raises is logged, or made a return code, and forgotten.    *)
CancelTask ==
    /\ pc = "cancel"
    /\ pc' = "cleanup"
    /\ \/ Cancel /\ UNCHANGED faults
       \/ backend # "process" /\ Fault("cancel") /\ UNCHANGED worldVars
    /\ UNCHANGED <<backend, task, overrun, verdict>>

(* cleanup(): docker rm --force, which also kills. *)
DockerCleanup ==
    /\ backend = "docker"
    /\ container' = Ended(task, "nonzero")
    /\ record' = [record EXCEPT ![task] = "gone"]
    /\ UNCHANGED asked

(* Mutant: the entry stays. *)
ProcessCleanupNot == backend = "process" /\ UNCHANGED worldVars

(* The entry of _running is popped and the zombie reaped. *)
ProcessCleanup ==
    /\ backend = "process"
    /\ record' = [record EXCEPT ![task] = "gone"]
    /\ UNCHANGED <<container, asked>>

(* Nothing to do with ?keep, and on a cluster, which sees to it itself.     *)
NoCleanup == backend \notin {"docker", "process"} /\ UNCHANGED worldVars

Cleanup == DockerCleanup \/ ProcessCleanup \/ NoCleanup

CleanupTask ==
    /\ pc = "cleanup"
    /\ pc' = IF verdict[task] = "succeeded" THEN "end" ELSE "next"
    /\ \/ Cleanup /\ UNCHANGED faults
       \/ backend = "docker" /\ Fault("cancel") /\ UNCHANGED worldVars
    /\ UNCHANGED <<backend, task, overrun, verdict>>

-----------------------------------------------------------------------------
(* status() raises on anything but a 404, and the dispatcher with it, whose *)
(* next incarnation gets the message again.  No remote task is told.        *)
PollRaises ==
    /\ pc = "poll"
    /\ backend \in Remote
    /\ Fault("poll")
    /\ pc' = "next"
    /\ UNCHANGED <<backend, task, overrun, verdict, worldVars>>

(* The dispatcher dies: stopped a second time, it closes the runner, which  *)
(* terminates what is in _running; killed, it does not.  Containers go on.  *)
Crash ==
    /\ pc \in {"poll", "cancel", "cleanup"}
    /\ Fault("crash")
    /\ pc' = "next"
    /\ record' = IF backend = "process" THEN [record EXCEPT ![task] = "gone"] ELSE record
    /\ asked' \in IF backend = "process" THEN {asked, asked \cup {task}} ELSE {asked}
    /\ UNCHANGED <<backend, task, overrun, verdict, container>>

Overruns ==
    /\ pc = "poll"
    /\ overrun' = TRUE
    /\ UNCHANGED <<backend, task, pc, verdict, worldVars, faults>>

(* A task is placed and its container starts, if it ever does. *)
Starts(t) ==
    /\ container[t] = "waiting"
    /\ container' = [container EXCEPT ![t] = "running"]
    /\ record' = [record EXCEPT ![t] = IF @ = "waiting" THEN "running" ELSE @]
    /\ UNCHANGED <<backend, callerVars, asked, faults>>

(* A container ends: the parser exits, or it could not be started.  The     *)
(* daemon, or poll(), knows at once; a cluster finds out later.             *)
Exits(t) ==
    /\ container[t] \in Live
    /\ \E how \in Over :
        /\ container[t] = "waiting" => how = "nonzero"
        /\ container' = Ended(t, how)
        /\ record' = [record EXCEPT ![t] =
                        IF backend \notin Remote /\ @ # "gone" THEN how ELSE @]
    /\ UNCHANGED <<backend, callerVars, asked, faults>>

(* ECS moves the task to STOPPED; the Job counts its Pod as succeeded or    *)
(* failed.                                                                  *)
Noticed(t) ==
    /\ container[t] \in Over
    /\ record[t] \in Live
    /\ record' = [record EXCEPT ![t] = container[t]]
    /\ UNCHANGED <<backend, callerVars, container, asked, faults>>

(* A record disappears unread: the Job's TTL or the hour ECS keeps a        *)
(* stopped task has passed, or somebody removed the container.              *)
Disappears(t) ==
    /\ record[t] \in Over \/ (backend \in Docker /\ record[t] \in Live \cup {"created"})
    /\ Fault("lost")
    /\ record' = [record EXCEPT ![t] = "gone"]
    /\ container' = Ended(t, "nonzero")
    /\ UNCHANGED <<backend, callerVars, asked>>

Caller ==
    \/ Launch \/ GiveUp \/ Poll \/ PollWedged \/ CancelTask \/ CleanupTask
    \/ PollRaises

World(t) == Starts(t) \/ Exits(t) \/ Noticed(t) \/ Disappears(t)

Next == Caller \/ Overruns \/ Crash \/ \E t \in Tasks : World(t)

Spec == Init /\ [][Next]_vars

(* The dispatcher's loop turns, time passes, and what has been asked to     *)
(* stop is killed if it does not.  Nothing makes a container end otherwise. *)
Fairness ==
    /\ WF_vars(Caller)
    /\ WF_vars(Overruns)
    /\ \A t \in Tasks : WF_vars(t \in asked /\ Exits(t))

FairSpec == Spec /\ Fairness

-----------------------------------------------------------------------------
(* Properties. *)

(* The variables have their types, the verdicts among them: "unknown" is no *)
(* verdict, a task of which nothing can be said is still polled.            *)
TypeOK ==
    /\ backend \in Backends
    /\ task \in 0..MaxTasks
    /\ pc \in {"next", "poll", "cancel", "cleanup", "end"}
    /\ pc \in {"poll", "cancel", "cleanup"} => task \in Tasks
    /\ overrun \in BOOLEAN
    /\ verdict \in [Tasks -> {"none", "refused", "succeeded", "failed", "overran"}]
    /\ container \in [Tasks -> {"none"} \cup Live \cup Over]
    /\ record \in [Tasks -> {"none", "created", "gone"} \cup Live \cup Over]
    /\ asked \subseteq Tasks
    /\ faults \in Nat

(* "Treating it as success would lose a document": whatever disappears,     *)
(* times out or raises, a task is told to have succeeded only if its        *)
(* container exited zero; and without a fault it is told to have failed     *)
(* only if its container exited otherwise or never started.                 *)
VerdictTrue ==
    \A t \in Tasks :
        /\ verdict[t] = "succeeded" => container[t] = "zero"
        /\ verdict[t] = "failed" /\ faults = 0 => container[t] = "nonzero"

(* No verdict lets the message be retried beside a container that nobody    *)
(* has stopped or asked to stop, as a cluster does in its own time.  Each   *)
(* one that runs on under a later task is the price of a fault of its own:  *)
(* an inspect or a cancel that was not answered, a launch that only seemed  *)
(* to fail, a poll that raised, a crash.                                    *)
OneContainer ==
    Cardinality({s \in Tasks : s < task /\ container[s] \in Live /\ s \notin asked}) <= faults

(* Without a fault a local backend keeps no record of a task it accepted    *)
(* once that is settled: no exited container, no zombie and no entry in     *)
(* _running.  What does stay is the container of a refused launch that      *)
(* Docker created and could not start: it never runs.                       *)
NothingKept ==
    \A t \in Tasks :
        record[t] \notin {"none", "gone"} /\ backend \in {"docker", "process"}
            => \/ faults > 0
               \/ t = task /\ pc \in {"poll", "cancel", "cleanup"}
               \/ verdict[t] = "refused" /\ container[t] = "none"

(* What the promise of a runner sees: a container that was asked to stop is *)
(* stopping, whatever it is doing, and one that waits is as good as started.*)
States ==
    [t \in Tasks |-> IF container[t] \notin Live THEN container[t]
                     ELSE IF t \in asked THEN "stopping" ELSE "running"]

Faulted == faults > 0

Promise == INSTANCE Runner WITH state <- States, told <- verdict, faulted <- Faulted

(* A runner keeps its promise on every backend: whatever the backend is     *)
(* slow to notice, forgets or fails to answer, a container runs and ends    *)
(* once, its caller is told once and truly, and no container is started     *)
(* beside one that was not asked to stop, unless something failed.          *)
KeepsPromise == Promise!Spec

(* Every task is settled, though containers hang, records disappear and     *)
(* backends have nothing to say: the task timeout sees to it.               *)
EventuallyTold == \A t \in Tasks : pc = "poll" /\ task = t ~> pc # "poll" \/ task # t

(* Without a fault no container is left running once its message is done:   *)
(* cancelling stops it, on a cluster some time later.                       *)
NothingRunsOn ==
    pc = "end" /\ faults = 0 ~> \A t \in Tasks : container[t] \notin Live

-----------------------------------------------------------------------------
(* Why the four invariants hold: an invariant that every step keeps.        *)

(* Nothing is known of a task that was not launched yet. *)
Untouched ==
    \A t \in Tasks : t > task => verdict[t] = "none" /\ container[t] = "none"

(* A record that names an exit names the right one, only a container that   *)
(* was never started has none, only clusters let a container wait, and only *)
(* a refused launch leaves one that was created and no more.                *)
RecordTrue ==
    \A t \in Tasks :
        /\ record[t] \in Over => container[t] = record[t]
        /\ record[t] = "none" => container[t] = "none"
        /\ record[t] = "created" => container[t] = "none" /\ verdict[t] = "refused"
        /\ container[t] = "waiting" => backend \in Remote

(* A task that is polled has its record, and loses it only by a fault, and  *)
(* with the container.                                                      *)
Polled ==
    pc = "poll" =>
        /\ record[task] \notin {"none", "created"}
        /\ record[task] = "gone" => faults > 0 /\ container[task] \notin Live

(* Without a fault a task the caller is through with does not run on.       *)
Through(t) == t < task \/ (t = task /\ pc \in {"next", "cleanup", "end"})

Stopped ==
    \A t \in Tasks :
        Through(t) /\ faults = 0 => container[t] \notin Live \/ t \in asked

(* The caller is told of a task when it is done with polling it, and only   *)
(* of what was launched is anything asked.                                  *)
Told ==
    /\ pc = "poll" => verdict[task] = "none"
    /\ pc = "cancel" => verdict[task] = "overran"
    /\ pc = "cleanup" => verdict[task] # "none"
    /\ pc \in {"poll", "cancel", "cleanup"} => container[task] # "none"
    /\ \A t \in Tasks : Through(t) /\ faults = 0 => verdict[t] # "none"
    /\ \A t \in asked : t <= task

(* The parts together are an inductive invariant. *)
IndInv ==
    /\ TypeOK
    /\ Untouched
    /\ RecordTrue
    /\ Polled
    /\ Stopped
    /\ Told
    /\ VerdictTrue
    /\ NothingKept

=============================================================================
