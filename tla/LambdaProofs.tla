---------------------------- MODULE LambdaProofs ----------------------------
(***************************************************************************)
(* Proofs about the Lambda entry point, for any messages, batches, limits,  *)
(* deadlines and faults and either value of ack_on: an answer deletes only  *)
(* what has been worked off, an invocation with a slot for each document    *)
(* keeps its deadline, and nothing is sent back that was not tried.         *)
(***************************************************************************)
EXTENDS LambdaDispatch, SequenceTheorems, FiniteSetTheorems, TLAPS

-----------------------------------------------------------------------------
(* popleft() takes the first element of a deque and keeps the rest. *)
LEMMA RangeTail ==
    ASSUME NEW S, NEW s \in Seq(S), s # <<>>
    PROVE  /\ Head(s) \in S
           /\ Tail(s) \in Seq(S)
           /\ Head(s) \in Range(s)
           /\ Range(s) = {Head(s)} \cup Range(Tail(s))
<1>1. /\ Head(s) \in S /\ Tail(s) \in Seq(S) /\ Len(Tail(s)) = Len(s) - 1
      /\ \A i \in 1..Len(Tail(s)) : Tail(s)[i] = s[i + 1]
  BY HeadTailProperties
<1>2. Len(s) \in Nat \ {0} /\ Head(s) = s[1]
  BY EmptySeq
<1>3. Range(s) = {s[i] : i \in 1..Len(s)}
  BY RangeEquality
<1>4. Range(Tail(s)) = {Tail(s)[i] : i \in 1..Len(Tail(s))}
  BY <1>1, RangeEquality
<1>5. ASSUME NEW i \in 1..Len(s)
      PROVE  s[i] \in {Head(s)} \cup Range(Tail(s))
  <2>1. CASE i = 1
    BY <2>1, <1>2
  <2>2. CASE i # 1
    <3>1. i - 1 \in 1..Len(Tail(s)) /\ Tail(s)[i - 1] = s[i]
      BY <2>2, <1>1, <1>2
    <3> QED
      BY <3>1, <1>4
  <2> QED
    BY <2>1, <2>2
<1>6. ASSUME NEW i \in 1..Len(Tail(s))
      PROVE  Tail(s)[i] \in Range(s)
  <2>1. i + 1 \in 1..Len(s) /\ Tail(s)[i] = s[i + 1]
    BY <1>1, <1>2
  <2> QED
    BY <2>1, <1>3
<1>7. Head(s) \in Range(s)
  BY <1>2, <1>3
<1> QED
  BY <1>1, <1>3, <1>4, <1>5, <1>6, <1>7

(* A document is of one message.  *)
LEMMA DocOfMessage ==
    /\ \A m \in Messages : \A d \in DocsOf(m) : d[1] = m /\ d \in AllDocs
    /\ \A d \in AllDocs : d[1] \in Messages /\ d \in DocsOf(d[1])
BY DEF AllDocs, DocsOf

(* What the invariant says but for the types.  *)
Rest == Sources /\ AckedDone /\ SuccessCounts /\ Coverage

LEMMA RestUnchanged ==
    ASSUME Rest, UNCHANGED <<ackOn, event, left, acked, pending, running, failed, accounted>>
    PROVE  Rest'
<1>1. Sources'
  BY DEF Rest, Sources
<1>2. AckedDone'
  BY DEF Rest, AckedDone, DocsOf
<1>3. SuccessCounts'
  BY DEF Rest, SuccessCounts
<1>4. Coverage'
  <2>1. \A d : Covered(d) => Covered(d)'
    BY DEF Covered
  <2> QED
    BY <2>1 DEF Rest, Coverage, DocsOf
<1> QED
  BY <1>1, <1>2, <1>3, <1>4 DEF Rest

(* The step that settles a message acks it only when its documents have     *)
(* been accounted for, given that it still covers them.                     *)
LEMMA SettledSound ==
    ASSUME Rest, NEW m \in Messages, acked' = Settled(m, pending', running', failed'),
           accounted \subseteq accounted', ackOn' = ackOn,
           m \notin failed' => m \notin Unreadable /\ \A d \in DocsOf(m) : Covered(d)'
    PROVE  AckedDone'
<1>1. CASE acked' = acked
  BY <1>1 DEF Rest, AckedDone, DocsOf
<1>2. CASE acked' # acked
  <2>1. /\ acked' = acked \cup {m}
        /\ m \notin failed'
        /\ Range(pending') \cap DocsOf(m) = {}
        /\ ackOn = "exit" => DOMAIN running' \cap DocsOf(m) = {}
    BY <1>2 DEF Settled
  <2>2. DocsOf(m) \subseteq accounted' /\ m \notin Unreadable
    BY <2>1 DEF Covered
  <2> QED
    BY <2>1, <2>2 DEF Rest, AckedDone, DocsOf
<1> QED
  BY <1>1, <1>2

(* An invocation that has ended leaves nothing to account for. *)
LEMMA CleanRest ==
    ASSUME Clean, event' = {}, acked' = {}
    PROVE  Rest'
<1>1. Range(<<>>) = {}
  BY DEF Range
<1> QED
  BY <1>1 DEF Clean, Rest, Sources, AckedDone, SuccessCounts, Coverage

-----------------------------------------------------------------------------
(* Types. *)
TaskState == [since : Nat, state : {"running", "succeeded", "failed"}]

RunningOK(f) ==
    /\ DOMAIN f \subseteq AllDocs /\ IsFiniteSet(DOMAIN f)
    /\ f \in [DOMAIN f -> TaskState]

LEMMA RunningMoves ==
    ASSUME NEW f, RunningOK(f), NEW d \in AllDocs
    PROVE  /\ RunningOK(Without(f, {d}))
           /\ \A t \in TaskState : RunningOK(With(f, d, t))
<1>1. DOMAIN Without(f, {d}) = DOMAIN f \ {d}
  BY DEF Without
<1>2. \A t : DOMAIN With(f, d, t) = DOMAIN f \cup {d}
  BY DEF With
<1>3. IsFiniteSet(DOMAIN f \ {d}) /\ IsFiniteSet(DOMAIN f \cup {d})
  BY FS_AddElement, FS_RemoveElement DEF RunningOK
<1>4. RunningOK(Without(f, {d}))
  BY <1>1, <1>3 DEF RunningOK, Without
<1>5. ASSUME NEW t \in TaskState PROVE RunningOK(With(f, d, t))
  BY <1>2, <1>3 DEF RunningOK, With
<1> QED
  BY <1>4, <1>5

LEMMA CleanTypes ==
    ASSUME Clean
    PROVE  /\ clock' \in Nat /\ left' \subseteq Messages /\ want' \in Nat
           /\ pending' \in Seq(AllDocs) /\ RunningOK(running')
           /\ failed' \subseteq Messages /\ progressed' \in BOOLEAN
BY EmptySeq, FS_EmptySet DEF Clean, RunningOK

LEMMA NewDocs ==
    ASSUME NEW m \in Messages
    PROVE  /\ [k \in 1..Docs[m] |-> <<m, k>>] \in Seq(AllDocs)
           /\ Range([k \in 1..Docs[m] |-> <<m, k>>]) = DocsOf(m)
<1> DEFINE s == [k \in 1..Docs[m] |-> <<m, k>>]
<1>1. Docs[m] \in Nat
  BY MessagesAssumption
<1>2. \A k \in 1..Docs[m] : <<m, k>> \in AllDocs
  BY DEF AllDocs, DocsOf
<1>3. s \in Seq(AllDocs)
  BY <1>1, <1>2
<1>4. Range(s) = DocsOf(m)
  <2>1. Range(s) = {s[k] : k \in 1..Docs[m]}
    BY DEF Range
  <2>2. \A k \in 1..Docs[m] : s[k] = <<m, k>>
    OBVIOUS
  <2>3. DocsOf(m) = {<<m, k>> : k \in 1..Docs[m]}
    BY DEF DocsOf
  <2> HIDE DEF s
  <2> QED
    BY <2>1, <2>2, <2>3
<1> QED
  BY <1>3, <1>4

-----------------------------------------------------------------------------
(* Each step keeps the types. *)
LEMMA TypesKept ==
    ASSUME TypeOK, Sources, Next
    PROVE  TypeOK'
<1> USE DEF TypeOK, queueVars, modeVars, batchVars, taskVars
<1>0. RunningOK(running) /\ \A f : RunningOK(f) =>
        /\ DOMAIN f \subseteq AllDocs /\ IsFiniteSet(DOMAIN f)
        /\ f \in [DOMAIN f -> [since : Nat, state : {"running", "succeeded", "failed"}]]
  BY DEF RunningOK, TaskState
<1>1. ASSUME Begin PROVE TypeOK'
  BY <1>1 DEF Begin
<1>2. ASSUME ReapEnd PROVE TypeOK'
  BY <1>2 DEF ReapEnd
<1>3. ASSUME Launch PROVE TypeOK'
  <2>1. /\ Head(pending) \in AllDocs /\ Tail(pending) \in Seq(AllDocs)
        /\ Head(pending)[1] \in Messages
    BY <1>3, RangeTail, DocOfMessage DEF Launch
  <2>2. RunningOK(running')
    <3>1. [since |-> clock, state |-> "running"] \in TaskState
      BY DEF TaskState
    <3>2. RunningOK(With(running, Head(pending), [since |-> clock, state |-> "running"]))
      BY <1>0, <2>1, <3>1, RunningMoves
    <3>3. \/ running' = With(running, Head(pending), [since |-> clock, state |-> "running"])
          \/ running' = running
      BY <1>3 DEF Launch
    <3> QED
      BY <1>0, <3>2, <3>3
  <2>3. failed' \subseteq Messages /\ accounted' \subseteq AllDocs
    BY <1>3, <2>1 DEF Launch
  <2>4. acked' \subseteq Messages
    BY <1>3, <2>1 DEF Launch, Settled
  <2> QED
    BY <1>0, <1>3, <2>1, <2>2, <2>3, <2>4 DEF Launch
<1>4. ASSUME LaunchEnd PROVE TypeOK'
  <2>1. Cardinality(DOMAIN running) \in Nat
    BY FS_CardinalityType
  <2> QED
    BY <1>4, <2>1, BoundsAssumption DEF LaunchEnd, Least, Free, BoundsAssumption
<1>5. ASSUME ReceiveEnd PROVE TypeOK'
  BY <1>5 DEF ReceiveEnd
<1>6. ASSUME Answer PROVE TypeOK'
  BY <1>6 DEF Answer
<1>7. ASSUME GoRound PROVE TypeOK'
  BY <1>7 DEF GoRound
<1>8. ASSUME NEW d \in AllDocs, NEW bad, bad \subseteq Messages, Reaped(d, bad)
      PROVE  /\ RunningOK(running') /\ failed' \subseteq Messages /\ acked' \subseteq Messages
             /\ progressed' \in BOOLEAN
  <2>1. d[1] \in Messages
    BY DocOfMessage
  <2> QED
    BY <1>0, <1>8, <2>1, RunningMoves DEF Reaped, Settled
<1>9. ASSUME NEW d \in AllDocs, ReapExited(d) PROVE TypeOK'
  <2>1. d[1] \in Messages
    BY DocOfMessage
  <2>2. RunningOK(running') /\ failed' \subseteq Messages /\ acked' \subseteq Messages
    BY <1>8, <1>9, <2>1 DEF ReapExited
  <2> QED
    BY <1>0, <1>9, <2>2 DEF ReapExited, Reaped
<1>10. ASSUME NEW d \in AllDocs, ReapGivenUp(d) PROVE TypeOK'
  <2>1. d[1] \in Messages
    BY DocOfMessage
  <2>2. RunningOK(running') /\ failed' \subseteq Messages /\ acked' \subseteq Messages
    BY <1>8, <1>10, <2>1 DEF ReapGivenUp
  <2>3. accounted' \subseteq AllDocs
    <3>1. PICK parsed \in SUBSET {d} : accounted' = Parsed(parsed)
      BY <1>10 DEF ReapGivenUp, LeftAlone
    <3> QED
      BY <3>1 DEF Parsed
  <2>4. faults' \in Nat
    BY <1>10 DEF ReapGivenUp
  <2>5. Reaped(d, failed \cup {d[1]})
    BY <1>10 DEF ReapGivenUp
  <2> QED
    BY <1>0, <2>2, <2>3, <2>4, <2>5 DEF Reaped
<1>11. ASSUME NEW m \in Messages, Receive(m) PROVE TypeOK'
  <2>1. pending' \in Seq(AllDocs)
    BY <1>11, NewDocs, ConcatProperties DEF Receive
  <2>2. failed' \subseteq Messages /\ acked' \subseteq Messages /\ want' \in Nat
    BY <1>11 DEF Receive, Settled
  <2> QED
    BY <1>11, <2>1, <2>2 DEF Receive
<1>12. ASSUME Abandoned PROVE accounted' \subseteq AllDocs
  BY <1>12 DEF Abandoned, LeftAlone, Parsed
<1>13. ASSUME Invoke PROVE TypeOK'
  BY <1>13 DEF Invoke
<1>14. ASSUME Over PROVE TypeOK'
  BY <1>0, <1>12, <1>14, CleanTypes DEF Over
<1>15. ASSUME NEW m \in Messages, Settle(m) PROVE TypeOK'
  BY <1>15 DEF Settle
<1>16. ASSUME NEW m \in Messages, Redrive(m) PROVE TypeOK'
  BY <1>16 DEF Redrive
<1>17. ASSUME Dies PROVE TypeOK'
  BY <1>0, <1>12, <1>17, CleanTypes DEF Dies
<1>18. ASSUME NEW d \in AllDocs, Exits(d) PROVE TypeOK'
  <2>1. PICK outcome \in {"succeeded", "failed"} :
          /\ running' = With(running, d, [running[d] EXCEPT !.state = outcome])
          /\ accounted' = IF outcome = "succeeded" THEN Parsed({d}) ELSE accounted
    BY <1>18 DEF Exits
  <2>2. [running[d] EXCEPT !.state = outcome] \in TaskState
    BY <1>18 DEF Exits, TaskState
  <2>3. RunningOK(running') /\ accounted' \subseteq AllDocs
    BY <1>0, <2>1, <2>2, RunningMoves DEF Parsed
  <2> QED
    BY <1>0, <1>18, <2>3 DEF Exits
<1> QED
  BY <1>1, <1>2, <1>3, <1>4, <1>5, <1>6, <1>7, <1>9, <1>10, <1>11, <1>13, <1>14, <1>15,
     <1>16, <1>17, <1>18 DEF Next, Loop, Service

-----------------------------------------------------------------------------
(* Each step keeps the rest. *)
LEMMA RestKept ==
    ASSUME TypeOK, Rest, Next
    PROVE  Rest'
<1> USE DEF queueVars, modeVars, batchVars, taskVars
<1>0. \A m \in Messages : DocsOf(m)' = DocsOf(m)
  BY DEF DocsOf
<1>1. ASSUME \/ Begin \/ ReapEnd \/ LaunchEnd \/ ReceiveEnd \/ Answer \/ GoRound
             \/ \E m \in Messages : Settle(m) \/ Redrive(m)
      PROVE  Rest'
  <2>1. UNCHANGED <<ackOn, event, left, acked, pending, running, failed, accounted>>
    BY <1>1 DEF Begin, ReapEnd, LaunchEnd, ReceiveEnd, Answer, GoRound, Settle, Redrive
  <2> QED
    BY <2>1, RestUnchanged
<1>2. ASSUME Launch PROVE Rest'
  <2>0. /\ Head(pending) \in AllDocs /\ Head(pending) \in Range(pending)
        /\ Range(pending) = {Head(pending)} \cup Range(Tail(pending))
    BY <1>2, RangeTail DEF TypeOK, Launch
  <2>1. PICK d \in AllDocs : /\ d = Head(pending) /\ d \in Range(pending)
                             /\ Range(pending) = {d} \cup Range(Tail(pending))
    BY <2>0
  <2>2. /\ pending' = Tail(pending)
        /\ ackOn' = ackOn /\ event' = event /\ left' = left
        /\ acked' = Settled(d[1], pending', running', failed')
    BY <1>2, <2>1 DEF Launch
  <2>3. Range(pending') \subseteq Range(pending)
        /\ \A e \in Range(pending) : e = d \/ e \in Range(pending')
    BY <2>1, <2>2
  <2>4. \/ /\ running' = With(running, d, [since |-> clock, state |-> "running"])
           /\ accounted' = IF ackOn = "launch" THEN accounted \cup {d} ELSE accounted
           /\ failed' = failed
        \/ failed' = failed \cup {d[1]} /\ running' = running /\ accounted' = accounted
    BY <1>2, <2>1 DEF Launch
  <2>5. d[1] \in event \ (left \cup Unreadable) /\ d[1] \in Messages
    BY <2>1, DocOfMessage DEF Rest, Sources
  <2>6. /\ DOMAIN running' \subseteq DOMAIN running \cup {d}
        /\ DOMAIN running \subseteq DOMAIN running'
        /\ accounted \subseteq accounted' /\ failed \subseteq failed'
        /\ \A e \in DOMAIN running' :
              running'[e].state = "succeeded"
                  => e \in DOMAIN running /\ running[e].state = "succeeded"
    <3>1. CASE running' = With(running, d, [since |-> clock, state |-> "running"])
      BY <2>4, <3>1 DEF With
    <3>2. CASE running' = running
      BY <2>4, <3>2
    <3> QED
      BY <2>4, <3>1, <3>2
  <2>7. Sources'
    BY <2>2, <2>3, <2>5, <2>6 DEF Rest, Sources
  <2>8. SuccessCounts'
    BY <2>2, <2>6 DEF Rest, SuccessCounts
  <2>9. d[1] \notin failed' => Covered(d)'
    <3>1. ackOn \in {"exit", "launch"}
      BY BoundsAssumption DEF TypeOK, BoundsAssumption
    <3>2. d[1] \notin failed' => IF ackOn = "launch" THEN d \in accounted' ELSE d \in DOMAIN running'
      BY <2>4 DEF With
    <3> QED
      BY <2>2, <3>1, <3>2 DEF Covered
  <2>10. Coverage'
    <3>1. ASSUME NEW m \in event' \ (left' \cup failed')
          PROVE  m \notin Unreadable /\ \A e \in DocsOf(m) : Covered(e)'
      <4>1. m \notin Unreadable /\ \A e \in DocsOf(m) : Covered(e)
        BY <2>2, <2>6, <3>1 DEF Rest, Coverage
      <4>2. ASSUME NEW e \in DocsOf(m) PROVE Covered(e)'
        <5>1. CASE e = d
          <6>1. d[1] = m
            BY <5>1 DEF DocsOf
          <6> QED
            BY <2>9, <3>1, <5>1, <6>1 DEF Covered
        <5>2. CASE e # d
          BY <2>2, <2>3, <2>6, <4>1, <5>2 DEF Covered
        <5> QED
          BY <5>1, <5>2
      <4> QED
        BY <4>1, <4>2
    <3> QED
      BY <3>1 DEF Coverage, DocsOf
  <2>11. d[1] \notin failed' =>
            d[1] \notin Unreadable /\ \A e \in DocsOf(d[1]) : Covered(e)'
    BY <2>2, <2>5, <2>10 DEF Coverage, DocsOf
  <2> QED
    BY <2>2, <2>5, <2>6, <2>7, <2>8, <2>10, <2>11, SettledSound DEF Rest
<1>3. ASSUME NEW d \in DOMAIN running, NEW bad, bad \subseteq Messages, Reaped(d, bad),
             failed \subseteq bad, accounted \subseteq accounted',
             d[1] \notin bad /\ ackOn = "exit" => d \in accounted'
      PROVE  Rest'
  <2>1. /\ running' = Without(running, {d}) /\ failed' = bad
        /\ acked' = Settled(d[1], pending', running', failed')
        /\ ackOn' = ackOn /\ event' = event /\ left' = left /\ pending' = pending
    BY <1>3 DEF Reaped
  <2>2. /\ DOMAIN running' = DOMAIN running \ {d}
        /\ \A e \in DOMAIN running' : running'[e] = running[e]
    BY <2>1 DEF Without
  <2>3. Sources' /\ SuccessCounts'
    BY <1>3, <2>1, <2>2 DEF Rest, Sources, SuccessCounts
  <2>4. Coverage'
    <3>1. ASSUME NEW m \in event' \ (left' \cup failed')
          PROVE  m \notin Unreadable /\ \A e \in DocsOf(m) : Covered(e)'
      <4>1. m \notin Unreadable /\ \A e \in DocsOf(m) : Covered(e)
        BY <1>3, <2>1, <3>1 DEF Rest, Coverage
      <4>2. ASSUME NEW e \in DocsOf(m) PROVE Covered(e)'
        <5>1. e = d => d[1] = m
          BY DEF DocsOf
        <5> QED
          BY <1>3, <2>1, <2>2, <3>1, <4>1, <5>1 DEF Covered
      <4> QED
        BY <4>1, <4>2
    <3> QED
      BY <3>1 DEF Coverage, DocsOf
  <2>5. d[1] \in event' \ left' /\ d[1] \notin failed' =>
            d[1] \notin Unreadable /\ \A e \in DocsOf(d[1]) : Covered(e)'
    BY <2>4 DEF Coverage, DocsOf
  <2>6. d[1] \in Messages /\ d[1] \in event' \ left'
    BY <2>1, DocOfMessage DEF Rest, Sources, TypeOK
  <2> QED
    BY <1>3, <2>1, <2>3, <2>4, <2>5, <2>6, SettledSound DEF Rest
<1>4. ASSUME NEW d \in AllDocs, ReapExited(d) PROVE Rest'
  <2>1. CASE running[d].state = "succeeded"
    BY <1>3, <1>4, <2>1 DEF ReapExited, Rest, SuccessCounts, TypeOK
  <2>2. CASE running[d].state # "succeeded"
    BY <1>3, <1>4, <2>2, DocOfMessage DEF ReapExited, TypeOK
  <2> QED
    BY <2>1, <2>2
<1>5. ASSUME NEW D, LeftAlone(D) PROVE accounted \subseteq accounted'
  BY <1>5 DEF LeftAlone, Parsed
<1>6. ASSUME NEW d \in AllDocs, ReapGivenUp(d) PROVE Rest'
  <2>1. /\ Reaped(d, failed \cup {d[1]}) /\ accounted \subseteq accounted'
        /\ d \in DOMAIN running
    BY <1>5, <1>6 DEF ReapGivenUp
  <2>2. failed \cup {d[1]} \subseteq Messages
    BY DocOfMessage DEF TypeOK
  <2> QED
    BY <1>3, <2>1, <2>2
<1>7. ASSUME NEW m \in Messages, Receive(m) PROVE Rest'
  <2>1. /\ left' = left \ {m} /\ m \in left /\ m \in event
        /\ ackOn' = ackOn /\ event' = event /\ running' = running /\ accounted' = accounted
        /\ failed' = IF m \in Unreadable THEN failed \cup {m} ELSE failed
        /\ acked' = Settled(m, pending', running', failed')
    BY <1>7 DEF Receive, Rest, Sources
  <2>2. /\ Range(pending) \subseteq Range(pending')
        /\ Range(pending') \subseteq Range(pending) \cup DocsOf(m)
        /\ m \notin Unreadable => DocsOf(m) \subseteq Range(pending')
        /\ m \in Unreadable => Range(pending') = Range(pending)
    <3>1. CASE m \in Unreadable
      BY <1>7, <3>1 DEF Receive
    <3>2. CASE m \notin Unreadable
      <4>1. pending' = pending \o [k \in 1..Docs[m] |-> <<m, k>>]
        BY <1>7, <3>2 DEF Receive
      <4>2. Range(pending') = Range(pending) \cup DocsOf(m)
        <5> DEFINE new == [k \in 1..Docs[m] |-> <<m, k>>]
        <5>1. new \in Seq(AllDocs) /\ Range(new) = DocsOf(m)
          BY NewDocs
        <5>2. pending \in Seq(AllDocs) /\ pending' = pending \o new
          BY <4>1 DEF TypeOK
        <5> HIDE DEF new
        <5> QED
          BY <5>1, <5>2, RangeConcatenation
      <4> QED
        BY <3>2, <4>2
    <3> QED
      BY <3>1, <3>2
  <2>3. Sources'
    BY <2>1, <2>2, DocOfMessage DEF Rest, Sources
  <2>4. SuccessCounts'
    BY <2>1 DEF Rest, SuccessCounts
  <2>5. m \notin failed' => m \notin Unreadable /\ \A e \in DocsOf(m) : Covered(e)'
    BY <2>1, <2>2 DEF Covered
  <2>6. Coverage'
    <3>1. ASSUME NEW n \in event' \ (left' \cup failed')
          PROVE  n \notin Unreadable /\ \A e \in DocsOf(n) : Covered(e)'
      <4>1. CASE n = m
        BY <2>5, <3>1, <4>1
      <4>2. CASE n # m
        <5>1. n \notin Unreadable /\ \A e \in DocsOf(n) : Covered(e)
          BY <2>1, <3>1, <4>2 DEF Rest, Coverage
        <5> QED
          BY <2>1, <2>2, <5>1 DEF Covered
      <4> QED
        BY <4>1, <4>2
    <3> QED
      BY <3>1 DEF Coverage, DocsOf
  <2> QED
    BY <2>1, <2>3, <2>4, <2>5, <2>6, SettledSound DEF Rest
<1>8. ASSUME NEW d \in AllDocs, Exits(d) PROVE Rest'
  <2>1. PICK outcome \in {"succeeded", "failed"} :
          /\ running' = With(running, d, [running[d] EXCEPT !.state = outcome])
          /\ accounted' = IF outcome = "succeeded" THEN Parsed({d}) ELSE accounted
    BY <1>8 DEF Exits
  <2>2. /\ UNCHANGED <<ackOn, event, left, acked, pending, failed>>
        /\ d \in DOMAIN running
    BY <1>8 DEF Exits
  <2>3. /\ DOMAIN running' = DOMAIN running
        /\ accounted \subseteq accounted'
        /\ ackOn = "exit" /\ outcome = "succeeded" => d \in accounted'
        /\ \A e \in DOMAIN running \ {d} : running'[e] = running[e]
    BY <2>1, <2>2 DEF With, Parsed
  <2>4. running'[d].state = outcome
    BY <2>1, <2>2 DEF With, TypeOK
  <2>5. Sources'
    BY <2>2, <2>3 DEF Rest, Sources
  <2>6. SuccessCounts'
    BY <2>2, <2>3, <2>4 DEF Rest, SuccessCounts
  <2>7. AckedDone'
    BY <2>2, <2>3 DEF Rest, AckedDone, DocsOf
  <2>8. Coverage'
    <3>1. \A e : Covered(e) => Covered(e)'
      BY <2>2, <2>3 DEF Covered
    <3> QED
      BY <2>2, <3>1 DEF Rest, Coverage, DocsOf
  <2> QED
    BY <2>5, <2>6, <2>7, <2>8 DEF Rest
<1>9. ASSUME Invoke PROVE Rest'
  <2>1. /\ event' \ left' = {} /\ UNCHANGED <<ackOn, acked, pending, running, accounted>>
        /\ event = {}
    BY <1>9 DEF Invoke, TypeOK
  <2>2. Range(pending') = {} /\ DOMAIN running' = {}
    BY <2>1 DEF Rest, Sources
  <2>3. AckedDone'
    BY <2>1 DEF Rest, AckedDone, DocsOf
  <2> QED
    BY <1>9, <2>1, <2>2, <2>3 DEF Invoke, Rest, Sources, SuccessCounts, Coverage
<1>10. ASSUME Over \/ Dies PROVE Rest'
  BY <1>10, CleanRest DEF Over, Dies
<1> QED
  BY <1>1, <1>2, <1>4, <1>6, <1>7, <1>8, <1>9, <1>10 DEF Next, Loop, Service

-----------------------------------------------------------------------------
(* Slots: what waits or runs is of the event, and takes a slot of its own.  *)
LEMMA EventFinite == TypeOK => IsFiniteSet(Event)
<1> SUFFICES ASSUME TypeOK PROVE IsFiniteSet(Event)
  OBVIOUS
<1> DEFINE names == event \ Unreadable
           docs  == [m \in names |-> DocsOf(m)]
           parts == {DocsOf(m) : m \in names}
<1>1. IsFiniteSet(names)
  <2>1. names \subseteq Messages
    BY DEF TypeOK
  <2> QED
    BY <2>1, MessagesAssumption, FS_Subset
<1>2. docs \in Surjection(names, parts)
  BY DEF Surjection
<1>3. IsFiniteSet(parts)
  BY <1>1, <1>2, FS_Surjection
<1>4. ASSUME NEW m \in names PROVE IsFiniteSet(DocsOf(m))
  <2>0. m \in Messages
    BY <1>4 DEF TypeOK
  <2>1. Docs[m] \in Nat
    BY <2>0, MessagesAssumption
  <2>2. IsFiniteSet(1..Docs[m])
    BY <2>1, FS_Interval
  <2>3. IsFiniteSet({m})
    BY FS_Singleton
  <2> QED
    BY <2>2, <2>3, FS_Product DEF DocsOf
<1>5. IsFiniteSet(UNION parts)
  BY <1>3, <1>4, FS_UNION
<1> QED
  BY <1>5 DEF Event

LEMMA Slots ==
    ASSUME TypeOK, Sources, Once
    PROVE  /\ DOMAIN running \subseteq Event /\ Range(pending) \subseteq Event
           /\ Free \in Int
           /\ DOMAIN running = {} => Free > 0
           /\ Cardinality(Event) < MaxInFlight => Free > 0
           /\ Cardinality(Event) <= MaxInFlight /\ Free <= 0 =>
                /\ Event = DOMAIN running
                /\ pending = <<>>
                /\ \A m \in left \ Unreadable : DocsOf(m) = {}
<1>1. DOMAIN running \subseteq Event
  BY DocOfMessage DEF TypeOK, Sources, Event
<1>2. Range(pending) \subseteq Event
  <2>1. Range(pending) \subseteq AllDocs
    BY RangeOfSeq DEF TypeOK
  <2> QED
    BY <2>1, DocOfMessage DEF Sources, Event
<1>3. /\ Cardinality(Event) \in Nat /\ Cardinality(DOMAIN running) \in Nat
      /\ Cardinality(DOMAIN running) <= Cardinality(Event)
      /\ Cardinality(DOMAIN running) = Cardinality(Event) => Event = DOMAIN running
  BY <1>1, EventFinite, FS_CardinalityType, FS_Subset DEF TypeOK
<1>4. DOMAIN running = {} => Cardinality(DOMAIN running) = 0
  BY FS_EmptySet
<1>5. ASSUME Event = DOMAIN running
      PROVE  pending = <<>> /\ \A m \in left \ Unreadable : DocsOf(m) = {}
  <2>1. Range(pending) = {}
    BY <1>2, <1>5 DEF Once
  <2>2. pending = <<>>
    BY <2>1, RangeTail DEF TypeOK
  <2>3. ASSUME NEW m \in left \ Unreadable PROVE DocsOf(m) = {}
    <3>1. m \in event \ Unreadable /\ m \in Messages
      BY <2>3 DEF TypeOK, Sources
    <3>2. DocsOf(m) \subseteq DOMAIN running
      BY <1>5, <3>1 DEF Event
    <3> QED
      BY <2>3, <3>1, <3>2, DocOfMessage DEF Sources
  <2> QED
    BY <2>2, <2>3
<1> QED
  BY <1>1, <1>2, <1>3, <1>4, <1>5, BoundsAssumption DEF Free, BoundsAssumption

-----------------------------------------------------------------------------
(* Each step settles in time, and lets no document wait twice. *)
LEMMA PendingTail ==
    ASSUME TypeOK, Once, pending # <<>>
    PROVE  /\ IsInjective(Tail(pending))
           /\ Range(Tail(pending)) = Range(pending) \ {Head(pending)}
<1>1. /\ pending \in Seq(AllDocs)
      /\ \A i, j \in DOMAIN pending : pending[i] = pending[j] => i = j
  BY DEF TypeOK, Once, IsInjective
<1>2. Len(pending) \in Nat \ {0} /\ Head(pending) = pending[1]
      /\ DOMAIN pending = 1..Len(pending)
  BY <1>1, EmptySeq, LenProperties
<1>3. /\ Tail(pending) \in Seq(AllDocs) /\ Len(Tail(pending)) = Len(pending) - 1
      /\ \A i \in 1..Len(Tail(pending)) : Tail(pending)[i] = pending[i + 1]
  BY <1>1, HeadTailProperties
<1>4. DOMAIN Tail(pending) = 1..(Len(pending) - 1)
  BY <1>3, LenProperties
<1>5. IsInjective(Tail(pending))
  <2>1. ASSUME NEW i \in DOMAIN Tail(pending), NEW j \in DOMAIN Tail(pending),
               Tail(pending)[i] = Tail(pending)[j]
        PROVE  i = j
    <3>1. i + 1 \in DOMAIN pending /\ j + 1 \in DOMAIN pending
      BY <1>2, <1>4, <2>1
    <3>2. pending[i + 1] = pending[j + 1]
      BY <1>3, <1>4, <2>1
    <3>3. i + 1 = j + 1
      BY <1>1, <3>1, <3>2
    <3> QED
      BY <1>4, <2>1, <3>3
  <2> QED
    BY <2>1 DEF IsInjective
<1>6. Head(pending) \notin Range(Tail(pending))
  <2>1. SUFFICES ASSUME NEW i \in DOMAIN Tail(pending), Tail(pending)[i] = Head(pending)
                 PROVE  FALSE
    BY DEF Range
  <2>2. i + 1 \in DOMAIN pending /\ 1 \in DOMAIN pending /\ pending[i + 1] = pending[1]
    BY <1>2, <1>3, <1>4, <2>1
  <2>3. i + 1 = 1
    BY <1>1, <2>2
  <2> QED
    BY <1>4, <2>1, <2>3
<1>7. Range(pending) = {Head(pending)} \cup Range(Tail(pending))
  BY <1>1, RangeTail
<1> QED
  BY <1>5, <1>6, <1>7

Order == SettledInTime /\ Once

LEMMA OrderUnchanged ==
    ASSUME Order, UNCHANGED <<ackOn, event, left, acked, pending, failed>>,
           DOMAIN running' = DOMAIN running
    PROVE  Order'
<1>1. \A m : DocsOf(m)' = DocsOf(m)
  BY DEF DocsOf
<1>2. SettledInTime'
  BY <1>1 DEF Order, SettledInTime
<1>3. Once'
  BY DEF Order, Once, IsInjective
<1> QED
  BY <1>2, <1>3 DEF Order

(* The step that lets go of a document settles its message. *)
LEMMA OrderSettles ==
    ASSUME Order, NEW n, UNCHANGED <<ackOn, event>>,
           acked' = Settled(n, pending', running', failed'),
           failed \subseteq failed', left \ {n} \subseteq left',
           \A m \in Messages \ {n} :
               /\ Range(pending) \cap DocsOf(m) \subseteq Range(pending')
               /\ DOMAIN running \cap DocsOf(m) \subseteq DOMAIN running',
           event \subseteq Messages
    PROVE  SettledInTime'
<1>1. ASSUME NEW m \in event \ (left' \cup failed'),
             Range(pending') \cap DocsOf(m) = {},
             ackOn = "exit" => DOMAIN running' \cap DocsOf(m) = {}
      PROVE  m \in acked'
  <2>1. CASE m = n
    BY <1>1, <2>1 DEF Settled
  <2>2. CASE m # n
    <3>1. Range(pending) \cap DocsOf(m) = {}
      BY <1>1, <2>2
    <3>2. ackOn = "exit" => DOMAIN running \cap DocsOf(m) = {}
      BY <1>1, <2>2
    <3>3. m \in event \ (left \cup failed)
      BY <1>1, <2>2
    <3>4. m \in acked
      BY <3>1, <3>2, <3>3 DEF Order, SettledInTime
    <3> QED
      BY <3>4 DEF Settled
  <2> QED
    BY <2>1, <2>2
<1> QED
  BY <1>1 DEF SettledInTime, DocsOf

LEMMA ExitsMoves ==
    ASSUME NEW d, Exits(d)
    PROVE  /\ d \in DOMAIN running /\ DOMAIN running' = DOMAIN running
           /\ \A e \in DOMAIN running :
                 running[e] \in TaskState => running'[e].since = running[e].since
           /\ UNCHANGED <<queueVars, modeVars, pc, clock, event, batchVars, pending, failed,
                          progressed, faults>>
<1>1. PICK outcome \in {"succeeded", "failed"} :
        running' = With(running, d, [running[d] EXCEPT !.state = outcome])
  BY DEF Exits
<1>2. d \in DOMAIN running
  BY DEF Exits
<1> QED
  BY <1>1, <1>2 DEF With, TaskState, Exits

LEMMA OrderKept ==
    ASSUME TypeOK, Sources, Order, Turn, Next
    PROVE  Order'
<1> USE DEF queueVars, modeVars, batchVars, taskVars
<1>1. ASSUME \/ Begin \/ ReapEnd \/ LaunchEnd \/ ReceiveEnd \/ Answer \/ GoRound
             \/ \E m \in Messages : Settle(m) \/ Redrive(m)
      PROVE  Order'
  <2>1. UNCHANGED <<ackOn, event, left, acked, pending, running, failed>>
    BY <1>1 DEF Begin, ReapEnd, LaunchEnd, ReceiveEnd, Answer, GoRound, Settle, Redrive
  <2> QED
    BY <2>1, OrderUnchanged
<1>2. ASSUME Launch PROVE Order'
  <2>1. PICK d \in AllDocs : /\ d = Head(pending) /\ d \in Range(pending)
    BY <1>2, RangeTail DEF TypeOK, Launch
  <2>2. /\ pending' = Tail(pending) /\ UNCHANGED <<ackOn, event, left>>
        /\ acked' = Settled(d[1], pending', running', failed')
        /\ failed \subseteq failed'
    BY <1>2, <2>1 DEF Launch
  <2>3. DOMAIN running \subseteq DOMAIN running' /\ DOMAIN running' \subseteq DOMAIN running \cup {d}
    BY <1>2, <2>1 DEF Launch, With
  <2>4. IsInjective(pending') /\ Range(pending') = Range(pending) \ {d}
    BY <1>2, <2>1, <2>2, PendingTail DEF Launch, Order
  <2>5. Once'
    BY <2>3, <2>4 DEF Order, Once
  <2>6. d \in DocsOf(d[1]) /\ \A m \in Messages : d \in DocsOf(m) => m = d[1]
    BY <2>1, DocOfMessage
  <2>7. SettledInTime'
    BY <2>2, <2>3, <2>4, <2>6, OrderSettles DEF TypeOK
  <2> QED
    BY <2>5, <2>7 DEF Order
<1>3. ASSUME NEW d \in AllDocs, NEW bad, Reaped(d, bad), failed \subseteq bad PROVE Order'
  <2>1. /\ DOMAIN running' = DOMAIN running \ {d} /\ failed' = bad
        /\ acked' = Settled(d[1], pending', running', failed')
        /\ UNCHANGED <<ackOn, event, left, pending>>
    BY <1>3 DEF Reaped, Without
  <2>2. Once'
    BY <2>1 DEF Order, Once, IsInjective
  <2>3. \A m \in Messages : d \in DocsOf(m) => m = d[1]
    BY DocOfMessage
  <2>4. SettledInTime'
    BY <1>3, <2>1, <2>3, OrderSettles DEF TypeOK
  <2> QED
    BY <2>2, <2>4 DEF Order
<1>4. ASSUME NEW d \in AllDocs, ReapExited(d) \/ ReapGivenUp(d) PROVE Order'
  BY <1>3, <1>4 DEF ReapExited, ReapGivenUp
<1>5. ASSUME NEW m \in Messages, Receive(m) PROVE Order'
  <2>1. /\ left' = left \ {m} /\ m \in left
        /\ UNCHANGED <<ackOn, event, running>> /\ failed \subseteq failed'
        /\ acked' = Settled(m, pending', running', failed')
    BY <1>5 DEF Receive
  <2>2. CASE pending' = pending
    <3>1. Once'
      BY <2>1, <2>2 DEF Order, Once, IsInjective
    <3>2. SettledInTime'
      BY <2>1, <2>2, OrderSettles DEF TypeOK
    <3> QED
      BY <3>1, <3>2 DEF Order
  <2>3. CASE pending' = pending \o [k \in 1..Docs[m] |-> <<m, k>>]
    <3> DEFINE new == [k \in 1..Docs[m] |-> <<m, k>>]
    <3>1. /\ new \in Seq(AllDocs) /\ Range(new) = DocsOf(m)
          /\ pending \in Seq(AllDocs) /\ pending' = pending \o new
          /\ IsInjective(new)
      BY <2>3, NewDocs DEF TypeOK, IsInjective
    <3> HIDE DEF new
    <3>2. Range(pending') = Range(pending) \cup DocsOf(m)
      BY <3>1, RangeConcatenation
    <3>3. DocsOf(m) \cap (Range(pending) \cup DOMAIN running) = {}
      BY <2>1, DocOfMessage DEF Sources
    <3>4. IsInjective(pending')
      <4>1. /\ Len(pending') = Len(pending) + Len(new)
            /\ \A i \in 1..Len(pending') :
                 pending'[i] = IF i <= Len(pending) THEN pending[i] ELSE new[i - Len(pending)]
            /\ pending' \in Seq(AllDocs) /\ Len(pending) \in Nat /\ Len(new) \in Nat
        BY <3>1, ConcatProperties, LenProperties
      <4>2. DOMAIN pending' = 1..Len(pending') /\ DOMAIN pending = 1..Len(pending)
            /\ DOMAIN new = 1..Len(new)
        BY <3>1, <4>1, LenProperties
      <4>3. \A i \in DOMAIN pending, j \in DOMAIN new : pending[i] # new[j]
        <5>1. \A i \in DOMAIN pending : pending[i] \in Range(pending)
          BY DEF Range
        <5>2. \A j \in DOMAIN new : new[j] \in DocsOf(m)
          BY <3>1 DEF Range
        <5> QED
          BY <3>3, <5>1, <5>2
      <4>4. IsInjective(pending)
        BY DEF Order, Once
      <4>5. ASSUME NEW i \in DOMAIN pending', NEW j \in DOMAIN pending',
                   pending'[i] = pending'[j]
            PROVE  i = j
        <5>1. CASE i <= Len(pending) /\ j <= Len(pending)
          BY <4>1, <4>2, <4>4, <4>5, <5>1 DEF IsInjective
        <5>2. CASE i > Len(pending) /\ j > Len(pending)
          <6>1. i - Len(pending) \in DOMAIN new /\ j - Len(pending) \in DOMAIN new
            BY <4>1, <4>2, <5>2
          <6>2. new[i - Len(pending)] = new[j - Len(pending)]
            BY <4>1, <4>2, <4>5, <5>2
          <6>3. i - Len(pending) = j - Len(pending)
            BY <3>1, <6>1, <6>2 DEF IsInjective
          <6> QED
            BY <4>1, <4>2, <6>3
        <5>3. CASE i <= Len(pending) /\ j > Len(pending)
          BY <4>1, <4>2, <4>3, <4>5, <5>3
        <5>4. CASE i > Len(pending) /\ j <= Len(pending)
          BY <4>1, <4>2, <4>3, <4>5, <5>4
        <5> QED
          BY <4>1, <4>2, <5>1, <5>2, <5>3, <5>4
      <4> QED
        BY <4>5 DEF IsInjective
    <3>5. Once'
      BY <2>1, <3>2, <3>3, <3>4 DEF Order, Once
    <3>6. SettledInTime'
      BY <2>1, <3>2, OrderSettles DEF TypeOK
    <3> QED
      BY <3>5, <3>6 DEF Order
  <2> QED
    BY <1>5, <2>2, <2>3 DEF Receive
<1>6. ASSUME NEW d \in AllDocs, Exits(d) PROVE Order'
  BY <1>6, ExitsMoves, OrderUnchanged
<1>7. ASSUME Invoke PROVE Order'
  <2>1. event' \ left' = {} /\ UNCHANGED <<pending, running>>
    BY <1>7 DEF Invoke
  <2> QED
    BY <2>1 DEF Order, SettledInTime, Once, IsInjective
<1>8. ASSUME Over \/ Dies PROVE Order'
  <2>1. event' = {} /\ pending' = <<>> /\ DOMAIN running' = {}
    BY <1>8 DEF Over, Dies, Clean
  <2> QED
    BY <2>1 DEF Order, SettledInTime, Once, IsInjective, Range
<1> QED
  BY <1>1, <1>2, <1>4, <1>5, <1>6, <1>7, <1>8 DEF Next, Loop, Service

-----------------------------------------------------------------------------
(* The clock, and what a turn in which nothing moved has found. *)
Timed == Turn /\ OnTime

LEMMA TimedKept ==
    ASSUME TypeOK, Sources, Order, Timed, Next, TypeOK', Sources', Order'
    PROVE  Timed'
<1> USE DEF queueVars, modeVars, batchVars, taskVars
<1>1. /\ limit \in Nat /\ Margin \in Nat \ {0} /\ clock \in Nat /\ want \in Nat
      /\ ackOn \in {"exit", "launch"} /\ BatchSize \in Nat \ {0}
      /\ TaskTimeout \in Nat
  BY BoundsAssumption DEF TypeOK, BoundsAssumption
<1>2. Turn /\ OnTime /\ Once /\ SettledInTime
  BY DEF Timed, Order
<1>3. /\ Free \in Int /\ (DOMAIN running = {} => Free > 0)
      /\ Ample /\ Free <= 0 => /\ pending = <<>>
                              /\ \A m \in left \ Unreadable : DocsOf(m) = {}
  BY <1>2, Slots DEF Ample
<1>4. \A m : DocsOf(m)' = DocsOf(m)
  BY DEF DocsOf
<1>5. UNCHANGED <<ackOn, limit, event>> => Ample' = Ample
  BY <1>4 DEF Ample, Event
<1>6. DOMAIN running' = DOMAIN running => Free' = Free
  BY DEF Free
<1>7. MayEnd <=> (DOMAIN running = {} \/ ackOn = "launch") /\ pending = <<>>
  BY DEF MayEnd, TypeOK
<1>8. MayEnd' <=> (DOMAIN running' = {} \/ ackOn' = "launch") /\ pending' = <<>>
  BY DEF MayEnd, TypeOK
<1>9. CASE Begin
  <2>1. /\ pc = "top" /\ pc' = "reap"
        /\ UNCHANGED <<ackOn, limit, event, clock, left, pending, running, failed>>
    BY <1>9 DEF Begin
  <2> QED
    BY <1>2, <1>4, <1>5, <2>1 DEF Timed, Turn, OnTime
<1>10. CASE ReapEnd
  <2>1. /\ pc = "reap" /\ pc' = "launch"
        /\ UNCHANGED <<ackOn, limit, event, clock, left, pending, running, failed>>
        /\ \A d \in DOMAIN running : ~Overrun(d)
    BY <1>10 DEF ReapEnd
  <2>2. Ample /\ DOMAIN running # {} => clock < limit - Margin
    <3>1. SUFFICES ASSUME Ample, NEW d \in DOMAIN running PROVE clock < limit - Margin
      OBVIOUS
    <3>2. running[d].since = 0 /\ ~(clock - 0 >= Budget)
      BY <1>2, <2>1, <3>1 DEF OnTime, Overrun
    <3>3. Budget <= limit - Margin /\ Budget \in Int
      BY <1>1, <3>1 DEF Budget, Ample
    <3> QED
      BY <1>1, <3>2, <3>3
  <2>3. Turn'
    BY <2>1 DEF Turn
  <2> QED
    BY <1>2, <1>4, <1>5, <2>1, <2>2, <2>3 DEF Timed, OnTime
<1>11. CASE \E d \in AllDocs : ReapExited(d) \/ ReapGivenUp(d)
  <2>1. /\ pc = "reap" /\ pc' = pc
        /\ UNCHANGED <<ackOn, limit, event, clock, left, pending>>
    BY <1>11 DEF ReapExited, ReapGivenUp, Reaped
  <2>2. \E d : running' = Without(running, {d})
    BY <1>11 DEF ReapExited, ReapGivenUp, Reaped
  <2>3. \A e \in DOMAIN running' : e \in DOMAIN running /\ running'[e] = running[e]
    BY <2>2 DEF Without
  <2> QED
    BY <1>2, <1>4, <1>5, <2>1, <2>3 DEF Timed, Turn, OnTime
<1>12. CASE Launch
  <2>1. /\ pc \in {"launch", "relaunch"} /\ pc' = pc /\ pending # <<>> /\ progressed'
        /\ UNCHANGED <<ackOn, limit, event, clock, left>>
    BY <1>12 DEF Launch
  <2>2. Turn'
    BY <2>1 DEF Turn
  <2>3. Ample => clock = 0
    BY <1>1, <1>2, <2>1 DEF OnTime
  <2>4. \A e \in DOMAIN running' :
            \/ running'[e] = [since |-> clock, state |-> "running"]
            \/ e \in DOMAIN running /\ running'[e] = running[e]
    BY <1>12 DEF Launch, With
  <2>5. Ample => /\ \A e \in DOMAIN running' : running'[e].since = 0
                 /\ clock < limit - Margin
    BY <1>1, <1>2, <2>1, <2>3, <2>4 DEF OnTime, Ample
  <2> QED
    BY <1>1, <1>5, <2>1, <2>2, <2>3, <2>5 DEF Timed, OnTime
<1>13. CASE LaunchEnd
  <2>1. /\ pc \in {"launch", "relaunch"}
        /\ UNCHANGED <<ackOn, limit, event, clock, left, pending, running, failed, progressed>>
        /\ pending = <<>> \/ Free <= 0
    BY <1>13 DEF LaunchEnd
  <2>2. CASE pc' = "receive" /\ want' = Least(BatchSize, Free) /\ Free > 0
    <3>1. want' > 0
      BY <1>1, <1>3, <2>2 DEF Least
    <3> QED
      BY <1>2, <1>4, <1>5, <2>1, <2>2, <3>1 DEF Timed, Turn, OnTime
  <2>3. CASE pc' = "check" /\ (pc = "relaunch" \/ Free <= 0)
    <3>1. Turn'
      BY <1>2, <1>3, <1>6, <2>1, <2>3 DEF Turn
    <3> QED
      BY <1>2, <1>4, <1>5, <2>1, <2>3, <3>1 DEF Timed, OnTime
  <2> QED
    BY <1>3, <1>13, <2>1, <2>2, <2>3 DEF LaunchEnd
<1>14. CASE \E m \in Messages : Receive(m)
  <2>1. PICK m \in Messages : Receive(m)
    BY <1>14
  <2>2. /\ pc = "receive" /\ pc' = pc /\ progressed' /\ m \in left /\ left' = left \ {m}
        /\ UNCHANGED <<ackOn, limit, event, clock, running>>
        /\ \/ m \in Unreadable /\ pending' = pending
           \/ m \notin Unreadable /\ pending' = pending \o [k \in 1..Docs[m] |-> <<m, k>>]
    BY <2>1 DEF Receive
  <2>3. Turn'
    BY <2>2 DEF Turn
  <2>4. pending = <<>> /\ (m \in Unreadable \/ DocsOf(m) = {}) => pending' = <<>>
    <3>1. CASE m \in Unreadable
      BY <2>2, <3>1
    <3>2. CASE m \notin Unreadable
      <4> DEFINE new == [k \in 1..Docs[m] |-> <<m, k>>]
      <4>1. new \in Seq(AllDocs) /\ Range(new) = DocsOf(m)
        BY NewDocs
      <4>2. pending' = pending \o new
        BY <2>2, <3>2
      <4> HIDE DEF new
      <4>3. DocsOf(m) = {} => new = <<>>
        BY <4>1, RangeTail
      <4> QED
        BY <3>2, <4>2, <4>3, ConcatEmptySeq, EmptySeq
    <3> QED
      BY <3>1, <3>2
  <2> QED
    BY <1>2, <1>4, <1>5, <2>2, <2>3, <2>4 DEF Timed, OnTime
<1>15. CASE ReceiveEnd
  <2>1. /\ pc = "receive" /\ pc' = "relaunch" /\ (want = 0 \/ left = {})
        /\ UNCHANGED <<ackOn, limit, event, clock, left, pending, running, failed, progressed>>
    BY <1>15 DEF ReceiveEnd
  <2>2. Turn'
    BY <1>1, <1>2, <2>1 DEF Turn
  <2> QED
    BY <1>2, <1>4, <1>5, <2>1, <2>2 DEF Timed, OnTime
<1>16. CASE Answer
  <2>1. /\ pc = "check" /\ pc' = "answered" /\ ~progressed /\ MayEnd
        /\ UNCHANGED <<ackOn, left, pending, running>>
    BY <1>16 DEF Answer
  <2> QED
    BY <1>2, <1>6, <1>7, <1>8, <2>1 DEF Timed, Turn, OnTime
<1>17. CASE GoRound
  <2>1. /\ pc = "check" /\ pc' = "top"
        /\ UNCHANGED <<ackOn, limit, event, left, pending, running, failed>>
    BY <1>17 DEF GoRound
  <2>2. CASE clock' = clock
    BY <1>2, <1>4, <1>5, <2>1, <2>2 DEF Timed, Turn, OnTime
  <2>3. CASE ~progressed /\ ~MayEnd /\ clock' = clock + 1
    <3>1. Ample => pending = <<>> /\ \A m \in left \ Unreadable : DocsOf(m) = {}
      BY <1>2, <1>3, <2>1, <2>3 DEF Turn
    <3>2. Ample => DOMAIN running # {} /\ clock < limit - Margin
      BY <1>2, <1>7, <2>1, <2>3, <3>1 DEF OnTime
    <3>3. Turn'
      BY <2>1 DEF Turn
    <3> QED
      BY <1>1, <1>2, <1>4, <1>5, <2>1, <2>3, <3>1, <3>2, <3>3 DEF Timed, OnTime
  <2> QED
    BY <1>17, <2>2, <2>3 DEF GoRound
<1>18. CASE \E m \in Messages : Settle(m) \/ Redrive(m)
  <2>1. UNCHANGED <<ackOn, limit, pc, clock, event, left, pending, running, failed, want,
                    progressed>>
    BY <1>18 DEF Settle, Redrive
  <2> QED
    BY <1>2, <1>4, <1>5, <1>6, <1>7, <1>8, <2>1 DEF Timed, Turn, OnTime
<1>19. CASE \E d \in AllDocs : Exits(d)
  <2>1. PICK d \in AllDocs : Exits(d)
    BY <1>19
  <2>2. /\ DOMAIN running' = DOMAIN running
        /\ \A e \in DOMAIN running : running'[e].since = running[e].since
        /\ UNCHANGED <<ackOn, limit, pc, clock, event, left, pending, failed, want, progressed>>
    BY <2>1, ExitsMoves DEF TypeOK, TaskState
  <2> QED
    BY <1>2, <1>4, <1>5, <1>6, <1>7, <1>8, <2>2 DEF Timed, Turn, OnTime
<1>20. CASE Invoke
  <2>1. /\ pc = "off" /\ pc' = "top" /\ ackOn' = ackOn /\ limit' = limit
        /\ clock' = clock /\ UNCHANGED <<pending, running>>
    BY <1>20 DEF Invoke
  <2>2. clock = 0 /\ pending = <<>> /\ DOMAIN running = {}
    BY <1>2, <2>1 DEF Turn
  <2>3. Ample' => clock' <= limit' - Margin
    BY <1>1, <2>1, <2>2 DEF Ample
  <2> QED
    BY <1>1, <2>1, <2>2, <2>3 DEF Timed, Turn, OnTime
<1>21. CASE Over \/ Dies
  <2>1. /\ pc' = "off" /\ clock' = 0 /\ failed' = {} /\ pending' = <<>>
        /\ DOMAIN running' = {}
    BY <1>21 DEF Over, Dies, Clean
  <2> QED
    BY <2>1 DEF Timed, Turn, OnTime
<1> QED
  BY <1>9, <1>10, <1>11, <1>12, <1>13, <1>14, <1>15, <1>16, <1>17, <1>18, <1>19, <1>20, <1>21
     DEF Next, Loop, Service

-----------------------------------------------------------------------------
(* Theorems. *)

LEMMA IndInvKept ==
    ASSUME IndInv, [Next]_vars
    PROVE  IndInv'
<1>1. CASE Next
  <2>1. TypeOK' /\ Rest'
    BY <1>1, TypesKept, RestKept DEF IndInv, Rest
  <2>2. Order'
    BY <1>1, OrderKept DEF IndInv, Order
  <2>3. Timed'
    BY <1>1, <2>1, <2>2, TimedKept DEF IndInv, Rest, Order, Timed
  <2> QED
    BY <2>1, <2>2, <2>3 DEF IndInv, Rest, Order, Timed
<1>2. CASE UNCHANGED vars
  <2>0. UNCHANGED <<ackOn, limit, pc, clock, event, left, acked, want, pending, running,
                    failed, progressed, accounted>>
    BY <1>2 DEF vars, queueVars, modeVars, batchVars, taskVars
  <2>1. Rest'
    BY <2>0, RestUnchanged DEF IndInv, Rest
  <2>3. Order'
    BY <2>0, OrderUnchanged DEF IndInv, Order
  <2>4. Timed'
    BY <2>0 DEF IndInv, Timed, Turn, OnTime, Free, MayEnd, Ample, Event, DocsOf
  <2>2. TypeOK'
    BY <1>2 DEF IndInv, TypeOK, vars, queueVars, modeVars, batchVars, taskVars
  <2> QED
    BY <2>1, <2>2, <2>3, <2>4 DEF IndInv, Rest, Order, Timed
<1> QED
  BY <1>1, <1>2

LEMMA InitHolds == Init => IndInv
<1> SUFFICES ASSUME Init PROVE IndInv
  OBVIOUS
<1>1. Range(<<>>) = {}
  BY DEF Range
<1>2. TypeOK
  BY EmptySeq, FS_EmptySet DEF Init, TypeOK
<1>3. Sources /\ AckedDone /\ SuccessCounts /\ Coverage
  BY <1>1 DEF Init, Sources, AckedDone, SuccessCounts, Coverage
<1>4. SettledInTime /\ Once /\ Turn /\ OnTime
  BY <1>1 DEF Init, SettledInTime, Once, IsInjective, Turn, OnTime
<1> QED
  BY <1>2, <1>3, <1>4 DEF IndInv

(* Between any two steps of an invocation every document it took off its    *)
(* batch waits, runs, has been accounted for, or is of a message with a     *)
(* failure; and what is noted for the answer as acked is done.              *)
THEOREM InvariantHolds == Spec => []IndInv
<1>1. Init => IndInv
  BY InitHolds
<1>2. IndInv /\ [Next]_vars => IndInv'
  BY IndInvKept
<1> QED
  BY <1>1, <1>2, PTL DEF Spec

(* The state keeps its types, and an event is in flight from the call of    *)
(* the handler to its answer.                                               *)
THEOREM TypesHold == Spec => []TypeOK
<1>1. IndInv => TypeOK
  BY DEF IndInv
<1> QED
  BY <1>1, InvariantHolds, PTL

(* An invocation that waits for its tasks, with a slot for each and some     *)
(* time left over the margin, is at every step within its time limit, even  *)
(* if no container ever exits: the timeout it was given is soon enough.      *)
THEOREM HandlerOutlivesTasks == Spec => []OutlivesItsTasks
<1>1. IndInv => OutlivesItsTasks
  BY BoundsAssumption DEF IndInv, TypeOK, OnTime, OutlivesItsTasks, BoundsAssumption, Ample
<1> QED
  BY <1>1, InvariantHolds, PTL

(* An answer names a message as not done only if it failed, or if the loop   *)
(* had not come to it when, not waiting for its containers, it ran out of   *)
(* slots.                                                                   *)
THEOREM NothingSentBackUntried == Spec => []NoneSentBackUntried
<1>1. IndInv => NoneSentBackUntried
  <2> SUFFICES ASSUME IndInv, pc = "answered"
               PROVE  /\ event \ acked \subseteq failed \cup left
                      /\ left # {} => ackOn = "launch" /\ Free <= 0
    BY DEF NoneSentBackUntried
  <2>1. (DOMAIN running = {} \/ ackOn = "launch") /\ pending = <<>> /\ (left = {} \/ Free <= 0)
    BY DEF IndInv, Turn, MayEnd
  <2>2. Free \in Int /\ (DOMAIN running = {} => Free > 0)
    BY Slots DEF IndInv
  <2>3. left # {} => Free <= 0 /\ ackOn = "launch"
    BY <2>1, <2>2
  <2>4. (ackOn = "exit" => DOMAIN running = {}) /\ Range(pending) = {}
    BY <2>1 DEF IndInv, TypeOK, Range
  <2> QED
    BY <2>3, <2>4 DEF IndInv, SettledInTime
<1> QED
  BY <1>1, InvariantHolds, PTL

-----------------------------------------------------------------------------
(* What is owed and what is parked, of the promise. *)
OwedNow   == {m \in Messages : sqs[m] \in {"visible", "inflight"}}
ParkedNow == {m \in Messages : sqs[m] = "redriven"}

(* Only an answer and the redrive policy settle a message; the rest moves   *)
(* it between visible and in flight at most.                                *)
LEMMA StepPromised ==
    ASSUME IndInv, [Next]_vars
    PROVE  [Ledger!Next]_(Ledger!ledger)
<1> USE DEF queueVars, modeVars, batchVars, taskVars
<1>1. ASSUME accounted \subseteq accounted', OwedNow' = OwedNow, ParkedNow' = ParkedNow
      PROVE  Ledger!Next
  BY <1>1 DEF Ledger!Next, OwedNow, ParkedNow
<1>2. ASSUME NEW D, LeftAlone(D) PROVE accounted \subseteq accounted'
  BY <1>2 DEF LeftAlone, Parsed
<1>3. ASSUME NEW m \in Messages, Settle(m) PROVE Ledger!Next
  <2>1. m \in OwedNow /\ accounted' = accounted
    BY <1>3 DEF Settle, OwedNow
  <2>2. CASE Reported(m)
    <3>1. sqs' = [sqs EXCEPT ![m] = "visible"]
      BY <1>3, <2>2 DEF Settle
    <3>2. OwedNow' = OwedNow /\ ParkedNow' = ParkedNow
      BY <2>1, <3>1 DEF OwedNow, ParkedNow, IndInv, TypeOK
    <3> QED
      BY <1>1, <2>1, <3>2
  <2>3. CASE ~Reported(m)
    <3>1. sqs' = [sqs EXCEPT ![m] = "deleted"]
      BY <1>3, <2>3 DEF Settle
    <3>2. OwedNow' = OwedNow \ {m} /\ ParkedNow' = ParkedNow
      BY <2>1, <3>1 DEF OwedNow, ParkedNow, IndInv, TypeOK
    <3>3. DocsOf(m) \subseteq accounted' /\ m \notin Unreadable
      BY <2>1, <2>3 DEF Reported, IndInv, AckedDone
    <3>4. Ledger!Finish(m)
      BY <2>1, <3>2, <3>3 DEF Ledger!Finish, OwedNow, ParkedNow
    <3> QED
      BY <2>1, <3>4 DEF Ledger!Next
  <2> QED
    BY <2>2, <2>3
<1>4. ASSUME NEW m \in Messages, Redrive(m) PROVE Ledger!Next
  <2>1. /\ sqs' = [sqs EXCEPT ![m] = "redriven"]
        /\ m \in OwedNow /\ accounted' = accounted
    BY <1>4 DEF Redrive, OwedNow
  <2>2. OwedNow' = OwedNow \ {m} /\ ParkedNow' = ParkedNow \cup {m}
    BY <2>1 DEF OwedNow, ParkedNow, IndInv, TypeOK
  <2>3. Ledger!Park(m)
    BY <2>1, <2>2 DEF Ledger!Park, OwedNow, ParkedNow
  <2> QED
    BY <2>1, <2>3 DEF Ledger!Next
<1>5. ASSUME Invoke PROVE Ledger!Next
  <2>1. /\ sqs' = [m \in Messages |-> IF m \in event' THEN "inflight" ELSE sqs[m]]
        /\ \A m \in event' : sqs[m] = "visible"
        /\ accounted' = accounted
    BY <1>5 DEF Invoke
  <2>2. OwedNow' = OwedNow /\ ParkedNow' = ParkedNow
    BY <2>1 DEF OwedNow, ParkedNow
  <2> QED
    BY <1>1, <2>1, <2>2
<1>6. ASSUME Dies PROVE Ledger!Next
  <2>1. /\ sqs' = [m \in Messages |-> IF m \in event THEN "visible" ELSE sqs[m]]
        /\ \A m \in event : sqs[m] = "inflight"
        /\ accounted \subseteq accounted'
    BY <1>2, <1>6 DEF Dies, Abandoned, IndInv, TypeOK
  <2>2. OwedNow' = OwedNow /\ ParkedNow' = ParkedNow
    BY <2>1 DEF OwedNow, ParkedNow
  <2> QED
    BY <1>1, <2>1, <2>2
<1>7. ASSUME sqs' = sqs, accounted \subseteq accounted'
      PROVE  Ledger!Next
  <2>1. OwedNow' = OwedNow /\ ParkedNow' = ParkedNow
    BY <1>7 DEF OwedNow, ParkedNow
  <2> QED
    BY <1>1, <1>7, <2>1
<1>8. ASSUME Loop PROVE Ledger!Next
  <2>1. ASSUME NEW d \in AllDocs, ReapGivenUp(d)
        PROVE  sqs' = sqs /\ accounted \subseteq accounted'
    BY <1>2, <2>1 DEF ReapGivenUp, Reaped
  <2>2. ASSUME NEW d \in AllDocs, ReapExited(d)
        PROVE  sqs' = sqs /\ accounted \subseteq accounted'
    BY <2>2 DEF ReapExited, Reaped
  <2>3. ASSUME Launch PROVE sqs' = sqs /\ accounted \subseteq accounted'
    BY <2>3 DEF Launch
  <2>4. ASSUME \/ Begin \/ ReapEnd \/ LaunchEnd \/ ReceiveEnd \/ Answer \/ GoRound
               \/ \E m \in Messages : Receive(m)
        PROVE  sqs' = sqs /\ accounted \subseteq accounted'
    BY <2>4 DEF Begin, ReapEnd, LaunchEnd, ReceiveEnd, Answer, GoRound, Receive
  <2> QED
    BY <1>7, <1>8, <2>1, <2>2, <2>3, <2>4 DEF Loop
<1>9. ASSUME Over PROVE Ledger!Next
  BY <1>2, <1>7, <1>9 DEF Over, Abandoned
<1>10. ASSUME NEW d \in AllDocs, Exits(d) PROVE Ledger!Next
  <2>1. sqs' = sqs /\ accounted \subseteq accounted'
    BY <1>10 DEF Exits, Parsed
  <2> QED
    BY <1>7, <2>1
<1>11. CASE UNCHANGED vars
  BY <1>11 DEF vars, Ledger!ledger
<1> QED
  BY <1>3, <1>4, <1>5, <1>6, <1>8, <1>9, <1>10, <1>11 DEF Next, Service

(* The promise of the queue holds of a function cut short at any point: SQS *)
(* deletes a message only when every document of it has been worked off,    *)
(* whatever the answer, the deadline or a dying invocation leaves unsaid.   *)
THEOREM LambdaKeepsPromise == Spec => KeepsPromise
<1>1. Init => Ledger!Init
  BY DEF Init, Ledger!Init
<1>2. IndInv /\ [Next]_vars => [Ledger!Next]_(Ledger!ledger)
  BY StepPromised
<1> QED
  BY <1>1, <1>2, InvariantHolds, PTL DEF Spec, KeepsPromise, Ledger!Spec

=============================================================================
