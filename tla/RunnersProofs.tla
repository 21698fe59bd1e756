--------------------------- MODULE RunnersProofs ---------------------------
(***************************************************************************)
(* Proofs about the runners, for every backend, any number of tasks and any *)
(* faults: what the caller is told of a task is true of its container, no   *)
(* container is replaced before it was stopped, and of what was started     *)
(* nothing is kept.                                                         *)
(***************************************************************************)
EXTENDS Runners, FiniteSetTheorems, TLAPS

(* The initial state is in the invariant. *)
LEMMA InitInv == Init => IndInv
<1> SUFFICES ASSUME Init PROVE IndInv
  OBVIOUS
<1>0. MaxTasks \in Nat
  BY RunnersAssumption DEF RunnersAssumption
<1> USE DEF Init, Live, Over
<1>1. TypeOK
  <2>1. container \in [Tasks -> {"none"} \cup Live \cup Over]
    OBVIOUS
  <2>2. task \in 0..MaxTasks
    BY <1>0
  <2> QED
    BY <2>1, <2>2 DEF TypeOK
<1>2. Untouched /\ RecordTrue /\ Polled
  BY DEF Untouched, RecordTrue, Polled
<1>3. Stopped /\ VerdictTrue /\ NothingKept
  BY DEF Stopped, VerdictTrue, NothingKept
<1>4. Told
  BY <1>0 DEF Told, Through, Tasks
<1> QED
  BY <1>1, <1>2, <1>3, <1>4 DEF IndInv

(* What status() calls done is an exit, or a record that is gone.           *)
LEMMA SaysDone ==
    ASSUME NEW r \in {"gone"} \cup Live \cup Over
    PROVE  /\ Says(r) = "succeeded" => r = "zero"
           /\ Says(r) = "failed" => r \in {"nonzero", "gone"}
BY DEF Says, DockerSays, ProcessSays, EcsSays, K8sSays, ExitSays, Live, Over

(* Every step of the caller and of the world keeps it. *)
LEMMA StepInv == IndInv /\ [Next]_vars => IndInv'
<1> SUFFICES ASSUME IndInv, [Next]_vars PROVE IndInv'
  OBVIOUS
<1> USE DEF Live, Over, Docker, Remote
<1>1. CASE Launch
  <2> USE DEF IndInv, TypeOK, callerVars, worldVars
  <2> DEFINE t == task + 1
  <2>1. t \in Tasks /\ t \in 0..MaxTasks /\ task \in Nat /\ \A u \in Tasks : u \in Nat
    BY <1>1, RunnersAssumption DEF Launch, Tasks, RunnersAssumption
  <2>2. faults' \in Nat /\ (faults' = 0 => faults = 0)
    BY <1>1 DEF Launch, Accepted, Refused, Unheard, Fault
  <2>3. /\ task' = t /\ pc = "next" /\ pc' \in {"next", "poll"}
        /\ UNCHANGED <<backend, asked>>
        /\ overrun' = FALSE
    BY <1>1 DEF Launch, Accepted, Refused, Unheard
  <2>4. \/ /\ pc' = "poll"
           /\ UNCHANGED <<verdict, faults>>
           /\ container' = [container EXCEPT ![t] = Begins(t)]
           /\ record' = [record EXCEPT ![t] = Begins(t)]
        \/ /\ pc' = "next"
           /\ verdict' = [verdict EXCEPT ![t] = "refused"]
           /\ \/ UNCHANGED record
              \/ backend \in Docker /\ record' = [record EXCEPT ![t] = "created"]
           /\ UNCHANGED <<container, faults>>
        \/ /\ pc' = "next"
           /\ faults' # 0
           /\ verdict' = [verdict EXCEPT ![t] = "refused"]
           /\ container' = [container EXCEPT ![t] = Begins(t)]
           /\ record' = [record EXCEPT ![t] = Begins(t)]
    BY <1>1 DEF Launch, Accepted, Refused, Unheard, Fault
  <2>5. /\ Begins(t) \in Live
        /\ Begins(t) = "waiting" => backend \in Remote
    BY DEF Begins
  <2> HIDE DEF t
  <2>6. TypeOK'
    BY <2>1, <2>2, <2>3, <2>4, <2>5
  <2>7. task < t /\ \A u \in Tasks : u > t => u # t /\ u > task
    BY <2>1 DEF t
  <2>8. Untouched'
    BY <2>1, <2>3, <2>4, <2>7 DEF Untouched
  <2>9. container[t] = "none" /\ verdict[t] = "none"
    BY <2>1, <2>7 DEF Untouched
  <2>10. Polled'
    BY <2>1, <2>3, <2>4, <2>5 DEF Polled
  <2>11. RecordTrue'
    BY <2>1, <2>3, <2>4, <2>5, <2>9 DEF RecordTrue
  <2>12. Stopped'
    <3>1. \A u \in Tasks : u < t => Through(u)
      BY <2>1, <2>3 DEF Through, t
    <3> QED
      BY <2>1, <2>2, <2>3, <2>4, <2>5, <2>9, <3>1 DEF Stopped, Through
  <2>13. VerdictTrue'
    BY <2>1, <2>2, <2>4, <2>9 DEF VerdictTrue
  <2>14. NothingKept'
    BY <2>1, <2>2, <2>3, <2>4, <2>9 DEF NothingKept
  <2>15. Told'
    <3>1. \A u \in Tasks : Through(u)' => Through(u) \/ u = t
      BY <2>1, <2>3 DEF Through, t
    <3>2. pc' = "next" => verdict'[t] # "none"
      BY <2>1, <2>4
    <3>3. pc' = "poll" => container'[t] # "none" /\ verdict'[t] = "none"
      BY <2>1, <2>4, <2>5, <2>9
    <3>4. \A u \in Tasks \ {t} : verdict'[u] = verdict[u]
      BY <2>4
    <3>5. \A u \in asked' : u <= task'
      BY <2>1, <2>3, <2>7 DEF Told, Tasks
    <3>6. \A u \in Tasks : Through(u)' /\ faults' = 0 => verdict'[u] # "none"
      <4>1. \A u \in Tasks \ {t} : Through(u)' /\ faults' = 0 => verdict'[u] # "none"
        BY <2>2, <3>1, <3>4 DEF Told
      <4>2. ASSUME NEW u \in Tasks, u = t, Through(u)' PROVE pc' = "next"
        BY <2>1, <2>3, <4>2 DEF Through, t
      <4>3. \A u \in Tasks : u = t /\ Through(u)' => verdict'[u] # "none"
        BY <3>2, <4>2
      <4> QED
        BY <4>1, <4>3
    <3> QED
      BY <2>3, <3>3, <3>5, <3>6 DEF Told
  <2> QED
    BY <2>6, <2>8, <2>10, <2>11, <2>12, <2>13, <2>14, <2>15
<1>2. CASE GiveUp
  <2> USE <1>2 DEF IndInv, TypeOK, GiveUp, callerVars, worldVars
  <2>1. TypeOK'
    OBVIOUS
  <2>2. Untouched'
    BY DEF Untouched
  <2>3. RecordTrue'
    BY DEF RecordTrue
  <2>4. Polled'
    BY DEF Polled
  <2>5. Stopped'
    BY DEF Stopped, Through, Untouched, RecordTrue, Polled
  <2>6. VerdictTrue'
    BY DEF VerdictTrue, Untouched, RecordTrue, Polled
  <2>7. NothingKept'
    BY DEF NothingKept, Untouched, RecordTrue
  <2>8. Told'
    BY DEF Told, Through
  <2> QED
    BY <2>1, <2>2, <2>3, <2>4, <2>5, <2>6, <2>7, <2>8
<1>3. CASE Poll
  <2> USE <1>3 DEF IndInv, TypeOK, Poll, Done, callerVars, worldVars
  <2>0. /\ Says(record[task]) = "succeeded" => record[task] = "zero"
        /\ Says(record[task]) = "failed" => record[task] \in {"nonzero", "gone"}
    BY SaysDone DEF Polled
  <2>1. TypeOK'
    OBVIOUS
  <2>2. Untouched'
    BY DEF Untouched
  <2>3. RecordTrue'
    BY DEF RecordTrue, Polled
  <2>4. Polled'
    BY DEF Polled
  <2>5. Stopped'
    BY <2>0 DEF Stopped, Through, Untouched, RecordTrue, Polled
  <2>6. VerdictTrue'
    BY <2>0 DEF VerdictTrue, Untouched, RecordTrue, Polled
  <2>7. NothingKept'
    BY DEF NothingKept, Untouched, RecordTrue
  <2>8. Told'
    BY DEF Told, Through
  <2> QED
    BY <2>1, <2>2, <2>3, <2>4, <2>5, <2>6, <2>7, <2>8
<1>4. CASE PollWedged
  <2> USE <1>4 DEF IndInv, TypeOK, PollWedged, Fault, callerVars, worldVars
  <2>1. TypeOK'
    OBVIOUS
  <2>2. Untouched'
    BY DEF Untouched
  <2>3. RecordTrue'
    BY DEF RecordTrue, Polled
  <2>4. Polled'
    BY DEF Polled
  <2>5. Stopped'
    BY DEF Stopped, Through, Untouched, RecordTrue, Polled
  <2>6. VerdictTrue'
    BY DEF VerdictTrue, Untouched, RecordTrue, Polled
  <2>7. NothingKept'
    BY DEF NothingKept, Untouched, RecordTrue
  <2>8. Told'
    BY DEF Told, Through
  <2> QED
    BY <2>1, <2>2, <2>3, <2>4, <2>5, <2>6, <2>7, <2>8
<1>5. CASE CancelTask
  <2> USE <1>5 DEF IndInv, TypeOK, CancelTask, Cancel, DockerCancel,
              DockerCancelNone, ProcessCancel, EcsCancel, K8sCancel, Ended, Fault, callerVars,
              worldVars
  <2>1. TypeOK'
    OBVIOUS
  <2>2. Untouched'
    BY DEF Untouched
  <2>3. RecordTrue'
    BY DEF RecordTrue
  <2>4. Polled'
    BY DEF Polled
  <2>5. Stopped'
    BY DEF Stopped, Through, Untouched, RecordTrue, Polled
  <2>6. VerdictTrue'
    BY DEF VerdictTrue, Untouched, RecordTrue, Polled
  <2>7. NothingKept'
    BY DEF NothingKept, Untouched, RecordTrue
  <2>8. Told'
    BY DEF Told, Through
  <2> QED
    BY <2>1, <2>2, <2>3, <2>4, <2>5, <2>6, <2>7, <2>8
<1>6. CASE CleanupTask
  <2> USE <1>6 DEF IndInv, TypeOK, CleanupTask, Cleanup, DockerCleanup,
              ProcessCleanup, NoCleanup, Ended, Fault, callerVars, worldVars
  <2>1. TypeOK'
    OBVIOUS
  <2>2. Untouched'
    BY DEF Untouched
  <2>3. RecordTrue'
    BY DEF RecordTrue
  <2>4. Polled'
    BY DEF Polled
  <2>5. Stopped'
    BY DEF Stopped, Through, Untouched, RecordTrue, Polled
  <2>6. VerdictTrue'
    BY DEF VerdictTrue, Untouched, RecordTrue, Polled
  <2>7. NothingKept'
    BY DEF NothingKept, Untouched, RecordTrue
  <2>8. Told'
    BY DEF Told, Through
  <2> QED
    BY <2>1, <2>2, <2>3, <2>4, <2>5, <2>6, <2>7, <2>8
<1>7. CASE PollRaises
  <2> USE <1>7 DEF IndInv, TypeOK, PollRaises, Fault, callerVars, worldVars
  <2>1. TypeOK'
    OBVIOUS
  <2>2. Untouched'
    BY DEF Untouched
  <2>3. RecordTrue'
    BY DEF RecordTrue
  <2>4. Polled'
    BY DEF Polled
  <2>5. Stopped'
    BY DEF Stopped, Through, Untouched, RecordTrue, Polled
  <2>6. VerdictTrue'
    BY DEF VerdictTrue, Untouched, RecordTrue, Polled
  <2>7. NothingKept'
    BY DEF NothingKept, Untouched, RecordTrue
  <2>8. Told'
    BY DEF Told, Through
  <2> QED
    BY <2>1, <2>2, <2>3, <2>4, <2>5, <2>6, <2>7, <2>8
<1>8. CASE Crash
  <2> USE <1>8 DEF IndInv, TypeOK, Crash, Fault, callerVars, worldVars
  <2>1. TypeOK'
    OBVIOUS
  <2>2. Untouched'
    BY DEF Untouched
  <2>3. RecordTrue'
    BY DEF RecordTrue
  <2>4. Polled'
    BY DEF Polled
  <2>5. Stopped'
    BY DEF Stopped, Through, Untouched, RecordTrue, Polled
  <2>6. VerdictTrue'
    BY DEF VerdictTrue, Untouched, RecordTrue, Polled
  <2>7. NothingKept'
    BY DEF NothingKept, Untouched, RecordTrue
  <2>8. Told'
    BY DEF Told, Through
  <2> QED
    BY <2>1, <2>2, <2>3, <2>4, <2>5, <2>6, <2>7, <2>8
<1>9. CASE Overruns
  <2> USE <1>9 DEF IndInv, TypeOK, Overruns, callerVars, worldVars
  <2>1. TypeOK'
    OBVIOUS
  <2>2. Untouched'
    BY DEF Untouched
  <2>3. RecordTrue'
    BY DEF RecordTrue
  <2>4. Polled'
    BY DEF Polled
  <2>5. Stopped'
    BY DEF Stopped, Through, Untouched, RecordTrue, Polled
  <2>6. VerdictTrue'
    BY DEF VerdictTrue, Untouched, RecordTrue, Polled
  <2>7. NothingKept'
    BY DEF NothingKept, Untouched, RecordTrue
  <2>8. Told'
    BY DEF Told, Through
  <2> QED
    BY <2>1, <2>2, <2>3, <2>4, <2>5, <2>6, <2>7, <2>8
<1>10. CASE UNCHANGED vars
  <2> USE <1>10 DEF IndInv, TypeOK, vars, callerVars, worldVars
  <2>1. TypeOK'
    OBVIOUS
  <2>2. Untouched'
    BY DEF Untouched
  <2>3. RecordTrue'
    BY DEF RecordTrue
  <2>4. Polled'
    BY DEF Polled
  <2>5. Stopped'
    BY DEF Stopped, Through, Untouched, RecordTrue, Polled
  <2>6. VerdictTrue'
    BY DEF VerdictTrue, Untouched, RecordTrue, Polled
  <2>7. NothingKept'
    BY DEF NothingKept, Untouched, RecordTrue
  <2>8. Told'
    BY DEF Told, Through
  <2> QED
    BY <2>1, <2>2, <2>3, <2>4, <2>5, <2>6, <2>7, <2>8
<1>11. ASSUME NEW t \in Tasks, Starts(t) PROVE IndInv'
  <2> USE <1>11 DEF IndInv, TypeOK, Starts, callerVars, worldVars
  <2>1. TypeOK'
    OBVIOUS
  <2>2. Untouched'
    BY DEF Untouched
  <2>3. RecordTrue'
    BY DEF RecordTrue
  <2>4. Polled'
    BY DEF Polled
  <2>5. Stopped'
    BY DEF Stopped, Through, Untouched, RecordTrue, Polled
  <2>6. VerdictTrue'
    BY DEF VerdictTrue, Untouched, RecordTrue, Polled
  <2>7. NothingKept'
    BY DEF NothingKept, Untouched, RecordTrue
  <2>8. Told'
    BY DEF Told, Through
  <2> QED
    BY <2>1, <2>2, <2>3, <2>4, <2>5, <2>6, <2>7, <2>8
<1>12. ASSUME NEW t \in Tasks, Exits(t) PROVE IndInv'
  <2> USE <1>12 DEF IndInv, TypeOK, Exits, Ended, callerVars, worldVars
  <2>1. TypeOK'
    OBVIOUS
  <2>2. Untouched'
    BY DEF Untouched
  <2>3. RecordTrue'
    BY DEF RecordTrue
  <2>4. Polled'
    BY DEF Polled
  <2>5. Stopped'
    BY DEF Stopped, Through, Untouched, RecordTrue, Polled
  <2>6. VerdictTrue'
    BY DEF VerdictTrue, Untouched, RecordTrue, Polled
  <2>7. NothingKept'
    BY DEF NothingKept, Untouched, RecordTrue
  <2>8. Told'
    BY DEF Told, Through
  <2> QED
    BY <2>1, <2>2, <2>3, <2>4, <2>5, <2>6, <2>7, <2>8
<1>13. ASSUME NEW t \in Tasks, Noticed(t) PROVE IndInv'
  <2> USE <1>13 DEF IndInv, TypeOK, Noticed, callerVars, worldVars
  <2>1. TypeOK'
    OBVIOUS
  <2>2. Untouched'
    BY DEF Untouched
  <2>3. RecordTrue'
    BY DEF RecordTrue
  <2>4. Polled'
    BY DEF Polled
  <2>5. Stopped'
    BY DEF Stopped, Through, Untouched, RecordTrue, Polled
  <2>6. VerdictTrue'
    BY DEF VerdictTrue, Untouched, RecordTrue, Polled
  <2>7. NothingKept'
    BY DEF NothingKept, Untouched, RecordTrue
  <2>8. Told'
    BY DEF Told, Through
  <2> QED
    BY <2>1, <2>2, <2>3, <2>4, <2>5, <2>6, <2>7, <2>8
<1>14. ASSUME NEW t \in Tasks, Disappears(t) PROVE IndInv'
  <2> USE <1>14 DEF IndInv, TypeOK, Disappears, Ended, Fault, callerVars, worldVars
  <2>1. TypeOK'
    OBVIOUS
  <2>2. Untouched'
    BY DEF Untouched
  <2>3. RecordTrue'
    BY DEF RecordTrue
  <2>4. Polled'
    BY DEF Polled
  <2>5. Stopped'
    BY DEF Stopped, Through, Untouched, RecordTrue, Polled
  <2>6. VerdictTrue'
    BY DEF VerdictTrue, Untouched, RecordTrue, Polled
  <2>7. NothingKept'
    BY DEF NothingKept, Untouched, RecordTrue
  <2>8. Told'
    BY DEF Told, Through
  <2> QED
    BY <2>1, <2>2, <2>3, <2>4, <2>5, <2>6, <2>7, <2>8
<1> QED
  BY <1>1, <1>2, <1>3, <1>4, <1>5, <1>6, <1>7, <1>8, <1>9, <1>10, <1>11,
     <1>12, <1>13, <1>14 DEF Next, Caller, World

(* The invariant holds throughout. *)
THEOREM InvariantHolds == Spec => []IndInv
<1> QED
  BY InitInv, StepInv, PTL DEF Spec

(* The variables have their types. *)
THEOREM TypesHold == Spec => []TypeOK
<1>1. IndInv => TypeOK
  BY DEF IndInv
<1> QED
  BY <1>1, InvariantHolds, PTL

(* A task is told to have succeeded only if its container exited zero,      *)
(* whatever the backend forgets, refuses or fails to answer.                *)
THEOREM VerdictsAreTrue == Spec => []VerdictTrue
<1>1. IndInv => VerdictTrue
  BY DEF IndInv
<1> QED
  BY <1>1, InvariantHolds, PTL

(* The containers that run on, asked by nobody to stop, of tasks the caller  *)
(* is through with.                                                         *)
Loose == {t \in Tasks : Through(t) /\ container[t] \in Live /\ t \notin asked}

(* The faults of the caller make loose the task it is at, at most. *)
LEMMA LooseFault ==
    ASSUME IndInv, \/ PollWedged \/ PollRaises \/ Crash
                   \/ CancelTask /\ faults' # faults
    PROVE  faults' = faults + 1 /\ \E t \in Tasks : Loose' \subseteq Loose \cup {t}
<1>1. /\ task \in Tasks /\ task' = task /\ container' = container
      /\ asked \subseteq asked' /\ faults' = faults + 1
  BY DEF PollWedged, PollRaises, Crash, CancelTask, Fault, IndInv, TypeOK, worldVars
<1>2. Loose' \subseteq Loose \cup {task}
  BY <1>1 DEF Loose, Through
<1> QED
  BY <1>1, <1>2

(* A step makes none loose, or it is a fault and makes one loose at most. *)
LEMMA LooseStep ==
    ASSUME IndInv, [Next]_vars
    PROVE  \/ Loose' \subseteq Loose /\ faults' \in {faults, faults + 1}
           \/ faults' = faults + 1 /\ \E t \in Tasks : Loose' \subseteq Loose \cup {t}
<1>0. PollWedged \/ PollRaises \/ Crash \/ (CancelTask /\ faults' # faults) =>
        faults' = faults + 1 /\ \E t \in Tasks : Loose' \subseteq Loose \cup {t}
  BY LooseFault
<1> USE DEF IndInv, TypeOK, Loose, Through, callerVars, worldVars
<1>1. CASE Launch
  <2>1. PICK t : t = task + 1
    OBVIOUS
  <2>2. t \in Tasks /\ pc = "next" /\ task' = t /\ asked' = asked /\ task \in Nat
    BY <1>1, <2>1 DEF Launch
  <2>3. /\ pc' \in {"poll", "next"} /\ \A s \in Tasks : s # t => container'[s] = container[s]
        /\ \/ pc' = "poll" /\ faults' = faults
           \/ pc' = "next" /\ container' = container /\ faults' = faults
           \/ faults' = faults + 1
    BY <1>1, <2>1 DEF Launch, Accepted, Refused, Unheard, Fault
  <2>4. \A s \in Tasks : s < t => s <= task
    BY <2>1, <2>2 DEF Tasks
  <2>5. container[t] = "none"
    BY <2>1, <2>2 DEF Untouched
  <2>6. Loose' \subseteq Loose \cup {t}
    BY <2>1, <2>2, <2>3, <2>4 DEF Tasks
  <2>7. CASE pc' = "poll" /\ faults' = faults
    <3>1. t \notin Loose'
      BY <2>2, <2>7 DEF Tasks
    <3> QED
      BY <2>6, <2>7, <3>1
  <2>8. CASE pc' = "next" /\ container' = container /\ faults' = faults
    <3>1. t \notin Loose'
      BY <2>5, <2>8 DEF Live
    <3> QED
      BY <2>6, <2>8, <3>1
  <2> QED
    BY <2>2, <2>3, <2>6, <2>7, <2>8
<1>2. ASSUME GiveUp PROVE Loose' \subseteq Loose /\ faults' \in {faults, faults + 1}
  BY <1>2 DEF GiveUp
<1>3. ASSUME Poll PROVE Loose' \subseteq Loose /\ faults' \in {faults, faults + 1}
  <2>1. /\ Says(record[task]) = "succeeded" => record[task] = "zero"
        /\ Says(record[task]) = "failed" => record[task] \in {"nonzero", "gone"}
    BY <1>3, SaysDone DEF Poll, Polled
  <2>2. /\ task \in Tasks /\ task' = task /\ UNCHANGED <<container, asked, faults>>
        /\ pc = "poll" /\ pc' \in {"cleanup", "cancel"}
        /\ pc' = "cleanup" => record[task] \in {"zero", "nonzero", "gone"}
    BY <1>3, <2>1 DEF Poll, Done
  <2>3. pc' = "cleanup" => container[task] \notin Live
    BY <2>2 DEF RecordTrue, Polled, Live, Over
  <2>4. Loose' \subseteq Loose
    BY <2>2, <2>3
  <2>5. faults' \in {faults, faults + 1}
    BY <2>2
  <2> QED
    BY <2>4, <2>5
<1>5. ASSUME CancelTask, faults' = faults PROVE Loose' \subseteq Loose
  <2>1. Cancel /\ task \in Tasks /\ task' = task /\ pc = "cancel" /\ pc' = "cleanup"
    BY <1>5 DEF CancelTask, Fault
  <2>2. asked \subseteq asked' /\ \A u \in Tasks \ {task} : container'[u] = container[u]
    BY <2>1 DEF Cancel, DockerCancel, DockerCancelNone, ProcessCancel, EcsCancel, K8sCancel,
       Ended
  <2>3. container'[task] \notin Live \/ task \in asked'
    BY <2>1 DEF Cancel, DockerCancel, DockerCancelNone, ProcessCancel, EcsCancel, K8sCancel,
       Ended, RecordTrue, Docker, Remote, Live, Over
  <2> QED
    BY <2>1, <2>2, <2>3
<1>6. ASSUME CleanupTask PROVE Loose' \subseteq Loose /\ faults' \in {faults, faults + 1}
  BY <1>6 DEF CleanupTask, Cleanup, DockerCleanup, ProcessCleanup, NoCleanup, Ended, Fault
<1>7. ASSUME Overruns \/ UNCHANGED vars PROVE Loose' \subseteq Loose /\ faults' \in {faults, faults + 1}
  BY <1>7 DEF Overruns, vars
<1>8. ASSUME NEW t \in Tasks, Starts(t) \/ Exits(t) \/ Noticed(t) \/ Disappears(t)
      PROVE  Loose' \subseteq Loose /\ faults' \in {faults, faults + 1}
  BY <1>8 DEF Starts, Exits, Noticed, Disappears, Ended, Fault, Live, Over
<1> HIDE DEF Loose
<1> QED
  BY <1>0, <1>1, <1>2, <1>3, <1>5, <1>6, <1>7, <1>8 DEF Next, Caller, World

(* A container that runs on beside a retry, asked by nobody to stop, is the  *)
(* price of a fault of its own.                                             *)
THEOREM OneContainerHolds == Spec => []OneContainer
<1> DEFINE Paid == IsFiniteSet(Loose) /\ Cardinality(Loose) <= faults
<1>1. Init => Paid
  <2> SUFFICES ASSUME Init PROVE Paid
    OBVIOUS
  <2>1. Loose = {} /\ faults = 0
    BY DEF Init, Loose, Live
  <2> QED
    BY <2>1, FS_EmptySet
<1>2. IndInv /\ Paid /\ [Next]_vars => Paid'
  <2> SUFFICES ASSUME IndInv, Paid, [Next]_vars PROVE Paid'
    OBVIOUS
  <2>1. faults \in Nat /\ Cardinality(Loose) \in Nat
    BY FS_CardinalityType DEF IndInv, TypeOK
  <2>2. CASE Loose' \subseteq Loose /\ faults' \in {faults, faults + 1}
    <3>1. /\ IsFiniteSet(Loose') /\ Cardinality(Loose') <= Cardinality(Loose)
          /\ Cardinality(Loose') \in Nat
      BY <2>2, FS_Subset, FS_CardinalityType
    <3> QED
      BY <2>1, <2>2, <3>1
  <2>3. ASSUME faults' = faults + 1, NEW t \in Tasks, Loose' \subseteq Loose \cup {t}
        PROVE  Paid'
    <3>1. /\ IsFiniteSet(Loose \cup {t}) /\ Cardinality(Loose \cup {t}) \in Nat
          /\ Cardinality(Loose \cup {t}) <= Cardinality(Loose) + 1
      <4>1. CASE t \in Loose
        <5>1. Loose \cup {t} = Loose
          BY <4>1
        <5>2. Cardinality(Loose) <= Cardinality(Loose) + 1
          BY <2>1
        <5> QED
          BY <2>1, <5>1, <5>2
      <4>2. CASE t \notin Loose
        <5>1. IsFiniteSet(Loose)
          OBVIOUS
        <5>2. /\ IsFiniteSet(Loose \cup {t})
              /\ Cardinality(Loose \cup {t}) = Cardinality(Loose) + 1
          BY <4>2, <5>1, FS_AddElement
        <5> QED
          BY <2>1, <5>2
      <4> QED
        BY <4>1, <4>2
    <3>2. /\ IsFiniteSet(Loose') /\ Cardinality(Loose') <= Cardinality(Loose \cup {t})
          /\ Cardinality(Loose') \in Nat
      BY <2>3, <3>1, FS_Subset, FS_CardinalityType
    <3> QED
      BY <2>1, <2>3, <3>1, <3>2
  <2> QED
    BY <2>2, <2>3, LooseStep
<1>3. IndInv /\ Paid => OneContainer
  <2> SUFFICES ASSUME IndInv, Paid PROVE OneContainer
    OBVIOUS
  <2> DEFINE Older == {s \in Tasks : s < task /\ container[s] \in Live /\ s \notin asked}
  <2>1. Older \subseteq Loose
    BY DEF Loose, Through
  <2>2. IsFiniteSet(Older) /\ Cardinality(Older) <= Cardinality(Loose)
    BY <2>1, FS_Subset
  <2>3. Cardinality(Older) \in Nat /\ Cardinality(Loose) \in Nat /\ faults \in Nat
    BY <2>2, FS_CardinalityType DEF IndInv, TypeOK
  <2> QED
    BY <2>2, <2>3 DEF OneContainer
<1> HIDE DEF Paid
<1> QED
  BY <1>1, <1>2, <1>3, InvariantHolds, PTL DEF Spec

(* A local backend keeps nothing of a settled task it had accepted; what a  *)
(* refused launch leaves behind on Docker never runs.                       *)
THEOREM NothingIsKept == Spec => []NothingKept
<1>1. IndInv => NothingKept
  BY DEF IndInv
<1> QED
  BY <1>1, InvariantHolds, PTL

-----------------------------------------------------------------------------
(* The promise of Runner. *)

(* What the promise sees of a container that changes, and of the others.    *)
LEMMA StateMoves ==
    ASSUME NEW t \in Tasks, NEW x, States'[t] = x,
           \A u \in Tasks \ {t} : container'[u] = container[u] /\ (u \in asked' <=> u \in asked)
    PROVE  States' = [States EXCEPT ![t] = x]
<1>1. \A u \in Tasks \ {t} : States'[u] = States[u]
  BY DEF States
<1>2. /\ States' = [u \in Tasks |-> States'[u]]
      /\ [States EXCEPT ![t] = x] = [u \in Tasks |-> IF u = t THEN x ELSE States[u]]
  BY DEF States
<1> QED
  BY <1>1, <1>2

LEMMA StatesStay ==
    ASSUME \A u \in Tasks : States'[u] = States[u]
    PROVE  States' = States
<1>1. States' = [u \in Tasks |-> States'[u]] /\ States = [u \in Tasks |-> States[u]]
  BY DEF States
<1> QED
  BY <1>1

(* A step that says nothing and moves no container, or lets one end.        *)
LEMMA Aside ==
    ASSUME verdict' = verdict, Faulted' \in {Faulted, TRUE}, NEW t \in Tasks,
           \A u \in Tasks \ {t} : States'[u] = States[u],
           \/ States'[t] = States[t]
           \/ States[t] \in {"running", "stopping"} /\ States'[t] \in {"zero", "nonzero"}
    PROVE  Promise!Next
<1>1. CASE States'[t] = States[t]
  BY <1>1, StatesStay DEF Promise!Next
<1>2. CASE States[t] \in {"running", "stopping"} /\ States'[t] \in {"zero", "nonzero"}
  <2>1. States' = [States EXCEPT ![t] = States'[t]]
    <3>1. /\ States' = [u \in Tasks |-> States'[u]]
          /\ [States EXCEPT ![t] = States'[t]] =
                [u \in Tasks |-> IF u = t THEN States'[t] ELSE States[u]]
      BY DEF States
    <3> QED
      BY <3>1
  <2>2. PICK how \in {"zero", "nonzero"} : how = States'[t]
    BY <1>2
  <2>3. Promise!Exit(t)
    BY <1>2, <2>1, <2>2 DEF Promise!Exit
  <2> QED
    BY <2>3 DEF Promise!Next
<1> QED
  BY <1>1, <1>2

(* Every step is one the promise allows. *)
LEMMA StepPromised ==
    ASSUME IndInv, [Next]_vars
    PROVE  [Promise!Next]_(Promise!promise)
<1> USE DEF IndInv, TypeOK
<1>1. Faulted' \in {Faulted, TRUE}
  <2>1. faults \in Nat /\ (faults' = faults \/ faults' = faults + 1)
    BY DEF Next, Caller, Launch, Accepted, Refused, Unheard, GiveUp, Poll, PollWedged,
           CancelTask, CleanupTask, PollRaises, Overruns, Crash, World, Starts, Exits,
           Noticed, Disappears, Fault, vars
  <2>2. CASE faults' = faults
    BY <2>2 DEF Faulted
  <2>3. CASE faults' = faults + 1
    <3>1. Faulted' = TRUE
      BY <2>1, <2>3 DEF Faulted
    <3> QED
      BY <3>1
  <2> QED
    BY <2>1, <2>2, <2>3
<1>2. \A t \in Tasks : States[t] = IF container[t] \notin Live THEN container[t]
                                   ELSE IF t \in asked THEN "stopping" ELSE "running"
  BY DEF States
<1>3. \A t \in Tasks : States'[t] = IF container'[t] \notin Live THEN container'[t]
                                    ELSE IF t \in asked' THEN "stopping" ELSE "running"
  BY DEF States
<1>4. ASSUME verdict' = verdict, container' = container, asked' = asked
      PROVE  [Promise!Next]_(Promise!promise)
  <2>1. States' = States
    BY <1>4 DEF States
  <2> QED
    BY <1>1, <1>4, <2>1 DEF Promise!Next
<1>5. ASSUME Launch PROVE Promise!Next
  <2>1. PICK t : t = task + 1
    OBVIOUS
  <2>2. t \in Tasks /\ pc = "next" /\ task \in Nat /\ asked' = asked
    BY <1>5, <2>1, RunnersAssumption DEF Launch, Tasks, RunnersAssumption
  <2>3. t > task /\ t \notin asked
    <3>1. t > task
      BY <2>1, <2>2
    <3> QED
      BY <2>1, <2>2, <3>1 DEF Told, Tasks
  <2>4. States[t] = "none" /\ verdict[t] = "none"
    BY <1>2, <2>2, <2>3 DEF Untouched, Live
  <2>5. ASSUME NEW s \in Tasks, s < t PROVE Faulted \/ Promise!Settled(s)
    <3>1. Through(s)
      BY <2>1, <2>2, <2>5 DEF Through, Tasks
    <3>2. faults = 0 => verdict[s] # "none" /\ (container[s] \notin Live \/ s \in asked)
      BY <3>1 DEF Told, Stopped
    <3>3. faults = 0 => States[s] # "running"
      BY <1>2, <3>2 DEF Live
    <3> QED
      BY <3>2, <3>3 DEF Faulted, Promise!Settled
  <2>6. Begins(t) \in Live
    BY DEF Begins, Live
  <2>7. \/ container' = [container EXCEPT ![t] = Begins(t)] /\ verdict' = verdict
        \/ container' = container /\ verdict' = [verdict EXCEPT ![t] = "refused"]
        \/ /\ container' = [container EXCEPT ![t] = Begins(t)]
           /\ verdict' = [verdict EXCEPT ![t] = "refused"] /\ faults' = faults + 1
    BY <1>5, <2>1 DEF Launch, Accepted, Refused, Unheard, Fault
  <2>8. ASSUME container' = [container EXCEPT ![t] = Begins(t)]
        PROVE  States' = [States EXCEPT ![t] = "running"]
    <3>1. States'[t] = "running"
      BY <1>3, <2>2, <2>3, <2>6, <2>8
    <3>2. \A u \in Tasks \ {t} : container'[u] = container[u]
      BY <2>8
    <3> QED
      BY <2>2, <3>1, <3>2, StateMoves
  <2>9. ASSUME container' = container PROVE States' = States
    BY <2>2, <2>9 DEF States
  <2>10. Promise!Launch(t)
    <3>1. CASE container' = [container EXCEPT ![t] = Begins(t)] /\ verdict' = verdict
      BY <2>4, <2>5, <2>8, <3>1 DEF Promise!Launch
    <3>2. CASE container' = container /\ verdict' = [verdict EXCEPT ![t] = "refused"]
      BY <2>4, <2>5, <2>9, <3>2 DEF Promise!Launch
    <3>3. CASE /\ container' = [container EXCEPT ![t] = Begins(t)]
               /\ verdict' = [verdict EXCEPT ![t] = "refused"] /\ faults' = faults + 1
      <4>1. Faulted'
        BY <3>3 DEF Faulted
      <4> QED
        BY <2>4, <2>5, <2>8, <3>3, <4>1 DEF Promise!Launch
    <3> QED
      BY <2>7, <3>1, <3>2, <3>3
  <2> QED
    BY <1>1, <2>2, <2>10 DEF Promise!Next
<1>6. ASSUME Poll \/ PollWedged PROVE Promise!Next
  <2>1. /\ pc = "poll" /\ task \in Tasks /\ verdict[task] = "none"
        /\ container' = container /\ asked' = asked
    BY <1>6 DEF Poll, PollWedged, Told, worldVars
  <2>2. States' = States
    BY <2>1 DEF States
  <2>3. container[task] # "none" /\ States[task] # "none"
    <3>1. container[task] # "none"
      BY <2>1 DEF Told
    <3> QED
      BY <1>2, <2>1, <3>1 DEF Live
  <2>4. \/ verdict' = [verdict EXCEPT ![task] = "overran"]
        \/ container[task] = "zero" /\ verdict' = [verdict EXCEPT ![task] = "succeeded"]
        \/ /\ container[task] = "nonzero" \/ Faulted'
           /\ verdict' = [verdict EXCEPT ![task] = "failed"]
    <3>1. CASE PollWedged
      BY <3>1 DEF PollWedged, Fault, Faulted
    <3>2. CASE Poll
      <4>1. /\ Says(record[task]) = "succeeded" => record[task] = "zero"
            /\ Says(record[task]) = "failed" => record[task] \in {"nonzero", "gone"}
        BY <2>1, SaysDone DEF Polled, Live, Over
      <4>2. record[task] \in Over => container[task] = record[task]
        BY <2>1 DEF RecordTrue
      <4>3. record[task] = "gone" => Faulted'
        BY <1>1, <2>1 DEF Polled, Faulted
      <4> QED
        BY <3>2, <4>1, <4>2, <4>3 DEF Poll, Done, Over
    <3> QED
      BY <1>6, <3>1, <3>2
  <2>5. Promise!Tell(task)
    <3>1. container[task] \in Over => States[task] = container[task]
      BY <1>2, <2>1 DEF Live, Over
    <3> QED
      BY <2>1, <2>2, <2>3, <2>4, <3>1 DEF Promise!Tell, Over
  <2> QED
    BY <1>1, <2>1, <2>5 DEF Promise!Next

<1>7. ASSUME NEW t \in Tasks, verdict' = verdict, container' = container,
             asked' = asked \cup {t}, verdict[t] = "overran" \/ Faulted'
      PROVE  [Promise!Next]_(Promise!promise)
  <2>1. CASE States[t] = "running"
    <3>1. container[t] \in Live /\ t \in asked'
      BY <1>2, <1>7, <2>1 DEF Live
    <3>2. States'[t] = "stopping"
      BY <1>3, <1>7, <3>1
    <3>3. States' = [States EXCEPT ![t] = "stopping"]
      BY <1>7, <3>2, StateMoves
    <3>4. Promise!Stop(t)
      BY <1>7, <2>1, <3>3 DEF Promise!Stop
    <3> QED
      BY <1>1, <3>4 DEF Promise!Next
  <2>2. CASE States[t] # "running"
    <3>1. container[t] \notin Live \/ t \in asked
      BY <1>2, <2>2
    <3>2. \A u \in Tasks : States'[u] = States[u]
      BY <1>2, <1>3, <1>7, <3>1
    <3> QED
      BY <1>1, <1>7, <3>2, StatesStay DEF Promise!Next
  <2> QED
    BY <2>1, <2>2
<1>8. ASSUME NEW t \in Tasks, verdict' = verdict, asked' = asked,
             \A u \in Tasks \ {t} : container'[u] = container[u],
             \/ container'[t] = container[t]
             \/ container[t] \in Live /\ container'[t] \in Live \cup Over
      PROVE  Promise!Next
  <2>1. \A u \in Tasks \ {t} : States'[u] = States[u]
    BY <1>2, <1>3, <1>8
  <2>2. \/ States'[t] = States[t]
        \/ States[t] \in {"running", "stopping"} /\ States'[t] \in {"zero", "nonzero"}
    BY <1>2, <1>3, <1>8 DEF Live, Over
  <2> QED
    BY <1>1, <1>8, <2>1, <2>2, Aside
<1>9. ASSUME CancelTask PROVE [Promise!Next]_(Promise!promise)
  <2>1. /\ task \in Tasks /\ verdict' = verdict /\ verdict[task] = "overran"
        /\ Cancel \/ UNCHANGED worldVars
    BY <1>9 DEF CancelTask, Told
  <2>2. ASSUME DockerCancel \/ ProcessCancel PROVE Promise!Next
    <3>1. /\ asked' = asked /\ \A u \in Tasks \ {task} : container'[u] = container[u]
          /\ \/ container'[task] = container[task]
             \/ container[task] \in Live /\ container'[task] \in Live \cup Over
      BY <2>1, <2>2 DEF DockerCancel, ProcessCancel, Ended, Live, Over
    <3> QED
      BY <1>8, <2>1, <3>1
  <2>3. CASE EcsCancel \/ K8sCancel
    BY <1>7, <2>1, <2>3 DEF EcsCancel, K8sCancel
  <2>4. CASE DockerCancelNone \/ UNCHANGED worldVars
    BY <1>4, <2>1, <2>4 DEF DockerCancelNone, worldVars
  <2> QED
    BY <2>1, <2>2, <2>3, <2>4 DEF Cancel
<1>10. ASSUME CleanupTask PROVE [Promise!Next]_(Promise!promise)
  <2>1. task \in Tasks /\ verdict' = verdict /\ (Cleanup \/ UNCHANGED worldVars)
    BY <1>10 DEF CleanupTask
  <2>2. ASSUME DockerCleanup PROVE Promise!Next
    <3>1. /\ asked' = asked /\ \A u \in Tasks \ {task} : container'[u] = container[u]
          /\ \/ container'[task] = container[task]
             \/ container[task] \in Live /\ container'[task] \in Live \cup Over
      BY <2>1, <2>2 DEF DockerCleanup, Ended, Live, Over
    <3> QED
      BY <1>8, <2>1, <3>1
  <2>3. CASE ProcessCleanup \/ NoCleanup \/ UNCHANGED worldVars
    BY <1>4, <2>1, <2>3 DEF ProcessCleanup, NoCleanup, worldVars
  <2> QED
    BY <2>1, <2>2, <2>3 DEF Cleanup
<1>11. ASSUME Crash PROVE [Promise!Next]_(Promise!promise)
  <2>1. /\ task \in Tasks /\ verdict' = verdict /\ container' = container
        /\ asked' = asked \/ asked' = asked \cup {task}
    BY <1>11 DEF Crash
  <2>2. Faulted'
    BY <1>11 DEF Crash, Fault, Faulted
  <2> QED
    BY <1>4, <1>7, <2>1, <2>2
<1>12. ASSUME NEW t \in Tasks, World(t) PROVE [Promise!Next]_(Promise!promise)
  <2>1. verdict' = verdict /\ asked' = asked
    BY <1>12 DEF World, Starts, Exits, Noticed, Disappears, callerVars
  <2>2. \A u \in Tasks \ {t} : container'[u] = container[u]
    BY <1>12 DEF World, Starts, Exits, Noticed, Disappears, Ended
  <2>3. \/ container'[t] = container[t]
        \/ container[t] \in Live /\ container'[t] \in Live \cup Over
    BY <1>12 DEF World, Starts, Exits, Noticed, Disappears, Ended, Live, Over
  <2> QED
    BY <1>8, <2>1, <2>2, <2>3
<1>13. CASE GiveUp \/ PollRaises \/ Overruns \/ UNCHANGED vars
  BY <1>4, <1>13 DEF GiveUp, PollRaises, Overruns, worldVars, callerVars, vars
<1> QED
  BY <1>5, <1>6, <1>9, <1>10, <1>11, <1>12, <1>13 DEF Next, Caller

(* Every backend's runner keeps the promise of Runner: whatever it is slow  *)
(* to notice, forgets or fails to answer, a container runs and ends once,   *)
(* its caller is told once and truly, and no other is started beside it.    *)
THEOREM RunnersKeepPromise == Spec => KeepsPromise
<1>1. Init => Promise!Init
  BY DEF Init, Promise!Init, States, Faulted, Live
<1>2. IndInv /\ [Next]_vars => [Promise!Next]_(Promise!promise)
  BY StepPromised
<1> QED
  BY <1>1, <1>2, InvariantHolds, PTL DEF Spec, KeepsPromise, Promise!Spec


=============================================================================
