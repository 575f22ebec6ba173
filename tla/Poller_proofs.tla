---------------------------- MODULE Poller_proofs ----------------------------
(***************************************************************************)
(* NoUseAfterClose and NoLostWakeup hold for any number of sockets,        *)
(* packets and events.                                                     *)
(*                                                                         *)
(* NoUseAfterClose needs to know what the count of a listener counts: the  *)
(* reference that is on its way to the map of handlers or in it, and one   *)
(* for every task that reads or delivers.  NoLostWakeup needs to know that *)
(* a handler comes into the map before the first event it is asked for.    *)
(***************************************************************************)
EXTENDS Poller, SequenceFacts

\* The references to the listener of s, by where they are.
References(s) ==
  (IF s \in handlers \/ stage[s] \in {"made", "added"} THEN 1 ELSE 0)
    + reading[s] + Cardinality(delivering[s])

CountIsRight == \A s \in Sockets : listenerRefs[s] = References(s)

\* Packets are numbered as they arrive; those handed to a task have left the buffer.
Numbered ==
  \A s \in Sockets :
    /\ Len(buffer[s]) <= arrived[s]
    /\ \A p \in 1 .. Len(buffer[s]) : buffer[s][p] = arrived[s] - Len(buffer[s]) + p
    /\ \A n \in delivering[s] : n <= arrived[s] - Len(buffer[s])

Stages ==
  \A s \in Sockets :
    /\ s \in handlers => stage[s] \in {"connected", "dropped"}
    /\ s \in removing => stage[s] = "dropped"
    /\ stage[s] = "none" => listenerRefs[s] = 0
    /\ s \in closed => stage[s] = "dropped" /\ listenerRefs[s] = 0

IInv == TypeOK /\ Numbered /\ CountIsRight /\ Stages /\ NoLostWakeup

-----------------------------------------------------------------------------
(* The ready list. *)

\* A socket that is marked is on the ready list, and none leaves it.
LEMMA MarkReadyFacts ==
  ASSUME ready \in Seq(Sockets), NEW s \in Sockets, MarkReady(s)
  PROVE  ready' \in Seq(Sockets) /\ Range(ready') = Range(ready) \cup {s}
<1>1. CASE s \in Range(ready)
  BY <1>1 DEF MarkReady
<1>2. CASE s \notin Range(ready)
  <2>1. ready' = Append(ready, s)
    BY <1>2 DEF MarkReady
  <2>2. /\ ready' \in Seq(Sockets) /\ Len(ready') = Len(ready) + 1
        /\ \A p \in 1 .. Len(ready) : ready'[p] = ready[p]
        /\ ready'[Len(ready) + 1] = s
    BY <2>1
  <2>3. QED
    BY <2>2 DEF Range
<1>3. QED
  BY <1>1, <1>2

\* Taking a socket off the ready list leaves the others on it.
LEMMA ReadyWithoutFacts ==
  ASSUME ready \in Seq(Sockets), NEW s \in Sockets
  PROVE  /\ ReadyWithout(s) \in Seq(Sockets)
         /\ \A r \in Range(ready) : r # s => r \in Range(ReadyWithout(s))
<1>1. CASE s \notin Range(ready)
  BY <1>1 DEF ReadyWithout
<1>2. CASE s \in Range(ready)
  <2> DEFINE k == CHOOSE p \in DOMAIN ready : ready[p] = s
             t == ReadyWithout(s)
  <2>1. k \in 1 .. Len(ready) /\ ready[k] = s
    BY <1>2 DEF Range
  <2>2. t = RemoveAt(ready, k)
    BY <1>2 DEF ReadyWithout
  <2> HIDE DEF k, t
  <2>3. /\ t \in Seq(Sockets)
        /\ Len(t) = Len(ready) - 1
        /\ \A p \in 1 .. k - 1 : t[p] = ready[p]
        /\ \A p \in k .. Len(ready) - 1 : t[p] = ready[p + 1]
    BY <2>1, <2>2, RemoveAtFacts
  <2>4. ASSUME NEW r \in Range(ready), r # s PROVE r \in Range(t)
    <3>1. PICK p \in 1 .. Len(ready) : ready[p] = r /\ p # k
      BY <2>1, <2>4 DEF Range
    <3>2. CASE p < k
      BY <2>1, <2>3, <3>1, <3>2 DEF Range
    <3>3. CASE p > k
      <4>1. p - 1 \in 1 .. Len(t) /\ t[p - 1] = r
        BY <2>1, <2>3, <3>1, <3>3
      <4>2. QED
        BY <2>3, <4>1 DEF Range
    <3>4. QED
      BY <2>1, <3>1, <3>2, <3>3
  <2>5. QED
    BY <2>3, <2>4 DEF t
<1>3. QED
  BY <1>1, <1>2

-----------------------------------------------------------------------------
(* The count of references. *)

\* The packets in delivery can be counted.
LEMMA DeliveringIsFinite ==
  ASSUME TypeOK, NEW s \in Sockets
  PROVE  /\ IsFiniteSet(delivering[s]) /\ Cardinality(delivering[s]) \in Nat
         /\ Cardinality(delivering[s]) = 0 <=> delivering[s] = {}
<1>1. delivering[s] \subseteq 1 .. MaxPackets
  BY DEF TypeOK
<1>2. IsFiniteSet(1 .. MaxPackets)
  BY PollerAssumption, FS_Interval
<1>3. QED
  BY <1>1, <1>2, FS_Subset, FS_CardinalityType, FS_EmptySet

\* A listener that nobody counts is neither in the map nor in a task.
LEMMA Uncounted ==
  ASSUME TypeOK, CountIsRight, NEW s \in Sockets
  PROVE  /\ s \in handlers => listenerRefs[s] > 0
         /\ reading[s] > 0 => listenerRefs[s] > 0
         /\ delivering[s] # {} => listenerRefs[s] > 0
         /\ stage[s] \in {"made", "added"} => listenerRefs[s] > 0
<1>1. Cardinality(delivering[s]) \in Nat /\ (delivering[s] # {} => Cardinality(delivering[s]) # 0)
  BY DeliveringIsFinite
<1>2. reading[s] \in Nat
  BY DEF TypeOK
<1>3. listenerRefs[s] = References(s)
  BY DEF CountIsRight
<1>4. QED
  BY <1>1, <1>2, <1>3 DEF References

\* The count of a socket that a step does not touch.
LEMMA Untouched ==
  ASSUME CountIsRight, NEW r \in Sockets,
         listenerRefs'[r] = listenerRefs[r], stage'[r] = stage[r],
         r \in handlers' <=> r \in handlers,
         reading'[r] = reading[r], delivering'[r] = delivering[r]
  PROVE  listenerRefs'[r] = References(r)'
BY DEF CountIsRight, References

\* What dropping references changes.
LEMMA DropListenerFacts ==
  ASSUME TypeOK, NEW s \in Sockets, NEW n \in Nat, n <= listenerRefs[s], NEW st,
         DropListener(s, n, st)
  PROVE  /\ listenerRefs' = [listenerRefs EXCEPT ![s] = @ - n]
         /\ listenerRefs' \in [Sockets -> Nat]
         /\ closed' \subseteq Sockets
         /\ \A r \in closed' : r \in closed \/ (r = s /\ listenerRefs'[s] = 0 /\ ~Held(st))
         /\ ready' \in Seq(Sockets)
         /\ \A r \in Range(ready) : r # s => r \in Range(ready')
<1>1. /\ listenerRefs' = [listenerRefs EXCEPT ![s] = @ - n]
      /\ listenerRefs' \in [Sockets -> Nat]
      /\ listenerRefs'[s] = listenerRefs[s] - n
  BY DEF DropListener, TypeOK
<1>2. CASE listenerRefs[s] = n /\ ~Held(st)
  <2>1. closed' = closed \cup {s} /\ ready' = ReadyWithout(s)
    BY <1>2 DEF DropListener
  <2>2. QED
    BY <1>1, <1>2, <2>1, ReadyWithoutFacts DEF TypeOK
<1>3. CASE ~(listenerRefs[s] = n /\ ~Held(st))
  <2>1. closed' = closed /\ ready' = ready
    BY <1>3 DEF DropListener
  <2>2. QED
    BY <1>1, <2>1 DEF TypeOK
<1>4. QED
  BY <1>2, <1>3

\* What epoll_wait takes from the ready list becomes an event, if there is
\* something to read.
LEMMA EpollWaitFacts ==
  ASSUME TypeOK, EpollWait
  PROVE  /\ ready' \in Seq(Sockets)
         /\ events' \in [Sockets -> Nat]
         /\ \A s \in Sockets : events'[s] >= events[s]
         /\ \A s \in Range(ready) :
              buffer[s] # <<>> => s \in Range(ready') \/ events'[s] > 0
<1> DEFINE n        == IF Len(ready) < MaxEvents THEN Len(ready) ELSE MaxEvents
           reported == {s \in Range(SubSeq(ready, 1, n)) : buffer[s] # <<>>}
<1>1. n \in 0 .. Len(ready)
  BY PollerAssumption DEF TypeOK
<1>2. /\ ready' = SubSeq(ready, n + 1, Len(ready))
      /\ events' = [s \in Sockets |-> events[s] + (IF s \in reported THEN 1 ELSE 0)]
  BY DEF EpollWait
<1> HIDE DEF n
<1>3. ready \in Seq(Sockets) /\ events \in [Sockets -> Nat]
  BY DEF TypeOK
<1>4. ready' \in Seq(Sockets)
  BY <1>1, <1>2, <1>3, SplitFacts
<1>5. events' \in [Sockets -> Nat] /\ \A s \in Sockets : events'[s] >= events[s]
  BY <1>2, <1>3
<1>6. ASSUME NEW s \in Range(ready), buffer[s] # <<>>
      PROVE  s \in Range(ready') \/ events'[s] > 0
  <2>1. s \in Sockets
    BY <1>3 DEF Range
  <2>2. s \in reported => events'[s] > 0
    BY <1>2, <1>3, <2>1
  <2>3. s \in Range(SubSeq(ready, 1, n)) \/ s \in Range(ready')
    BY <1>1, <1>2, <1>3, SplitFacts
  <2>4. QED
    BY <1>6, <2>2, <2>3
<1>7. QED
  BY <1>4, <1>5, <1>6

-----------------------------------------------------------------------------
(* The steps. *)

\* The type of the state is kept by every step.
LEMMA TypeStep == IInv /\ [Next]_vars => TypeOK'
<1> SUFFICES ASSUME IInv, [Next]_vars PROVE TypeOK'
  OBVIOUS
<1>1. ASSUME NEW s \in Sockets, MakeSocket(s) PROVE TypeOK'
  BY <1>1 DEF MakeSocket, interfaceVars, kernelVars, threadVars, taskVars, IInv, TypeOK
<1>2. ASSUME NEW s \in Sockets, EpollAdd(s) PROVE TypeOK'
  <2>1. ready' \in Seq(Sockets)
    BY <1>2, MarkReadyFacts DEF EpollAdd, IInv, TypeOK
  <2>2. QED
    BY <1>2, <2>1 DEF EpollAdd, interfaceVars, threadVars, taskVars, IInv, TypeOK
<1>3. ASSUME NEW s \in Sockets, EpollAddFails(s) PROVE TypeOK'
  <2>1. listenerRefs[s] \in Nat
    BY DEF IInv, TypeOK
  <2>2. listenerRefs[s] > 0
    BY <1>3, Uncounted DEF EpollAddFails, IInv
  <2>3. DropListener(s, 1, "dropped")
    BY <1>3 DEF EpollAddFails
  <2>4. /\ listenerRefs' \in [Sockets -> Nat] /\ closed' \subseteq Sockets
        /\ ready' \in Seq(Sockets)
    BY <2>1, <2>2, <2>3, DropListenerFacts DEF IInv
  <2>5. QED
    BY <1>3, <2>4 DEF EpollAddFails, threadVars, IInv, TypeOK
<1>4. ASSUME NEW s \in Sockets, InsertHandler(s) PROVE TypeOK'
  BY <1>4 DEF InsertHandler, interfaceVars, kernelVars, threadVars, taskVars, IInv, TypeOK
<1>5. ASSUME NEW s \in Sockets, DropInterface(s) PROVE TypeOK'
  BY <1>5 DEF DropInterface, interfaceVars, kernelVars, threadVars, taskVars, IInv, TypeOK
<1>6. ASSUME NEW s \in Sockets, RemoveHandler(s) PROVE TypeOK'
  <2>1. listenerRefs[s] \in Nat
    BY DEF IInv, TypeOK
  <2>2. s \in handlers => listenerRefs[s] > 0
    BY Uncounted DEF IInv
  <2>3. DropListener(s, IF s \in handlers THEN 1 ELSE 0, stage[s])
    BY <1>6 DEF RemoveHandler
  <2>4. /\ listenerRefs' \in [Sockets -> Nat] /\ closed' \subseteq Sockets
        /\ ready' \in Seq(Sockets)
    BY <2>1, <2>2, <2>3, DropListenerFacts DEF IInv
  <2>5. QED
    BY <1>6, <2>4 DEF RemoveHandler, threadVars, IInv, TypeOK
<1>7. ASSUME NEW s \in Sockets, PacketArrives(s) PROVE TypeOK'
  <2>1. ready' \in Seq(Sockets)
    BY <1>7, MarkReadyFacts DEF PacketArrives, IInv, TypeOK
  <2>2. buffer[s] \in Seq(1 .. MaxPackets) /\ arrived[s] + 1 \in 1 .. MaxPackets
    BY <1>7, PollerAssumption DEF PacketArrives, IInv, TypeOK
  <2>3. buffer' \in [Sockets -> Seq(1 .. MaxPackets)] /\ arrived' \in [Sockets -> 0 .. MaxPackets]
    BY <1>7, <2>2 DEF PacketArrives, IInv, TypeOK
  <2>4. QED
    BY <1>7, <2>1, <2>3 DEF PacketArrives, interfaceVars, threadVars, taskVars, IInv, TypeOK
<1>8. ASSUME NEW s \in Sockets, LookUp(s) PROVE TypeOK'
  <2>1. events' \in [Sockets -> Nat]
    BY <1>8 DEF LookUp, IInv, TypeOK
  <2>2. reading' \in [Sockets -> Nat] /\ listenerRefs' \in [Sockets -> Nat]
    <3> reading \in [Sockets -> Nat] /\ listenerRefs \in [Sockets -> Nat]
      BY DEF IInv, TypeOK
    <3>1. CASE s \in handlers
      BY <1>8, <3>1 DEF LookUp
    <3>2. CASE s \notin handlers
      BY <1>8, <3>2 DEF LookUp
    <3>3. QED
      BY <3>1, <3>2
  <2>3. QED
    BY <1>8, <2>1, <2>2 DEF LookUp, kernelVars, threadVars, IInv, TypeOK
<1>9. ASSUME NEW s \in Sockets, Recv(s) PROVE TypeOK'
  <2>1. buffer[s] \in Seq(1 .. MaxPackets) /\ buffer[s] # <<>>
    BY <1>9 DEF Recv, IInv, TypeOK
  <2>2. Head(buffer[s]) \in 1 .. MaxPackets /\ Tail(buffer[s]) \in Seq(1 .. MaxPackets)
    BY <2>1, HeadTailFacts
  <2>3. /\ buffer' \in [Sockets -> Seq(1 .. MaxPackets)]
        /\ reading' \in [Sockets -> Nat]
        /\ delivering' \in [Sockets -> SUBSET (1 .. MaxPackets)]
    BY <1>9, <2>2 DEF Recv, IInv, TypeOK
  <2>4. QED
    BY <1>9, <2>3 DEF Recv, interfaceVars, threadVars, IInv, TypeOK
<1>10. ASSUME NEW s \in Sockets, RecvEmpty(s) PROVE TypeOK'
  <2>1. listenerRefs[s] \in Nat
    BY DEF IInv, TypeOK
  <2>2. listenerRefs[s] > 0
    BY <1>10, Uncounted DEF RecvEmpty, IInv
  <2>3. DropListener(s, 1, stage[s])
    BY <1>10 DEF RecvEmpty
  <2>4. /\ listenerRefs' \in [Sockets -> Nat] /\ closed' \subseteq Sockets
        /\ ready' \in Seq(Sockets)
    BY <2>1, <2>2, <2>3, DropListenerFacts DEF IInv
  <2>5. reading' \in [Sockets -> Nat]
    BY <1>10 DEF RecvEmpty, IInv, TypeOK
  <2>6. QED
    BY <1>10, <2>4, <2>5 DEF RecvEmpty, threadVars, IInv, TypeOK
<1>11. ASSUME NEW s \in Sockets, NEW p \in 1 .. MaxPackets, Deliver(s, p) PROVE TypeOK'
  BY <1>11 DEF Deliver, interfaceVars, kernelVars, threadVars, taskVars, IInv, TypeOK
<1>12. CASE EpollWait
  <2>1. ready' \in Seq(Sockets) /\ events' \in [Sockets -> Nat]
    BY <1>12, EpollWaitFacts DEF IInv
  <2>2. QED
    BY <1>12, <2>1 DEF EpollWait, interfaceVars, threadVars, IInv, TypeOK
<1>13. CASE EpollWaitFails
  <2>1. interrupts' \in 0 .. MaxInterrupts
    BY <1>13, PollerAssumption DEF EpollWaitFails, IInv, TypeOK
  <2>2. polling' \in BOOLEAN
    BY <1>13 DEF EpollWaitFails
  <2>3. QED
    BY <1>13, <2>1, <2>2 DEF EpollWaitFails, interfaceVars, kernelVars, taskVars, IInv, TypeOK
<1>14. CASE DropPoller
  <2>1. epollOpen' \in BOOLEAN
    BY <1>14 DEF DropPoller
  <2>2. ready' \in Seq(Sockets)
    BY <1>14 DEF DropPoller
  <2>3. QED
    BY <1>14, <2>1, <2>2 DEF DropPoller, interfaceVars, threadVars, taskVars, IInv, TypeOK
<1>15. CASE UNCHANGED vars
  BY <1>15 DEF vars, interfaceVars, kernelVars, threadVars, taskVars, IInv, TypeOK
<1>16. QED
  BY <1>1, <1>2, <1>3, <1>4, <1>5, <1>6, <1>7, <1>8, <1>9,
     <1>10, <1>11, <1>12, <1>13, <1>14, <1>15
  DEF Next, Task

\* Packets keep their order.
LEMMA NumberedStep == IInv /\ [Next]_vars => Numbered'
<1> SUFFICES ASSUME IInv, [Next]_vars PROVE Numbered'
  OBVIOUS
<1>1. ASSUME NEW s \in Sockets, MakeSocket(s) PROVE Numbered'
  BY <1>1 DEF MakeSocket, interfaceVars, kernelVars, threadVars, taskVars, IInv, Numbered
<1>2. ASSUME NEW s \in Sockets, EpollAdd(s) PROVE Numbered'
  BY <1>2 DEF EpollAdd, interfaceVars, kernelVars, threadVars, taskVars, IInv, Numbered
<1>3. ASSUME NEW s \in Sockets, EpollAddFails(s) PROVE Numbered'
  BY <1>3 DEF EpollAddFails, interfaceVars, kernelVars, threadVars, taskVars, IInv, Numbered
<1>4. ASSUME NEW s \in Sockets, InsertHandler(s) PROVE Numbered'
  BY <1>4 DEF InsertHandler, interfaceVars, kernelVars, threadVars, taskVars, IInv, Numbered
<1>5. ASSUME NEW s \in Sockets, DropInterface(s) PROVE Numbered'
  BY <1>5 DEF DropInterface, interfaceVars, kernelVars, threadVars, taskVars, IInv, Numbered
<1>6. ASSUME NEW s \in Sockets, RemoveHandler(s) PROVE Numbered'
  BY <1>6 DEF RemoveHandler, interfaceVars, kernelVars, threadVars, taskVars, IInv, Numbered
<1>7. ASSUME NEW s \in Sockets, PacketArrives(s) PROVE Numbered'
  <2> SUFFICES ASSUME NEW r \in Sockets
               PROVE  /\ Len(buffer'[r]) <= arrived'[r]
                      /\ \A p \in 1 .. Len(buffer'[r]) :
                           buffer'[r][p] = arrived'[r] - Len(buffer'[r]) + p
                      /\ \A n \in delivering'[r] : n <= arrived'[r] - Len(buffer'[r])
    BY DEF Numbered
  <2>1. buffer[r] \in Seq(1 .. MaxPackets) /\ arrived[r] \in Nat
    BY DEF IInv, TypeOK
  <2>2. delivering' = delivering
    BY <1>7 DEF PacketArrives, taskVars
  <2>3. CASE r = s
    <3>1. /\ buffer'[r] = Append(buffer[r], arrived[r] + 1)
          /\ arrived'[r] = arrived[r] + 1
      BY <1>7, <2>3 DEF PacketArrives, IInv, TypeOK
    <3>2. /\ Len(buffer'[r]) = Len(buffer[r]) + 1
          /\ \A p \in 1 .. Len(buffer[r]) : buffer'[r][p] = buffer[r][p]
          /\ buffer'[r][Len(buffer[r]) + 1] = arrived[r] + 1
      BY <2>1, <3>1
    <3>3. QED
      BY <2>1, <2>2, <3>1, <3>2 DEF IInv, Numbered
  <2>4. CASE r # s
    BY <1>7, <2>2, <2>4 DEF PacketArrives, IInv, TypeOK, Numbered
  <2>5. QED
    BY <2>3, <2>4
<1>8. ASSUME NEW s \in Sockets, LookUp(s) PROVE Numbered'
  BY <1>8 DEF LookUp, interfaceVars, kernelVars, threadVars, taskVars, IInv, Numbered
<1>9. ASSUME NEW s \in Sockets, Recv(s) PROVE Numbered'
  <2> SUFFICES ASSUME NEW r \in Sockets
               PROVE  /\ Len(buffer'[r]) <= arrived'[r]
                      /\ \A p \in 1 .. Len(buffer'[r]) :
                           buffer'[r][p] = arrived'[r] - Len(buffer'[r]) + p
                      /\ \A n \in delivering'[r] : n <= arrived'[r] - Len(buffer'[r])
    BY DEF Numbered
  <2>1. /\ buffer[r] \in Seq(1 .. MaxPackets) /\ arrived[r] \in Nat
        /\ delivering[r] \subseteq 1 .. MaxPackets
    BY DEF IInv, TypeOK
  <2>2. arrived' = arrived
    BY <1>9 DEF Recv
  <2>3. CASE r = s
    <3>1. /\ buffer[r] # <<>> /\ buffer'[r] = Tail(buffer[r])
          /\ delivering'[r] = delivering[r] \cup {Head(buffer[r])}
      BY <1>9, <2>3 DEF Recv, IInv, TypeOK
    <3>2. /\ Len(buffer'[r]) = Len(buffer[r]) - 1
          /\ \A p \in 1 .. Len(buffer'[r]) : buffer'[r][p] = buffer[r][p + 1]
          /\ Len(buffer[r]) >= 1 /\ Head(buffer[r]) = buffer[r][1]
      BY <2>1, <3>1, HeadTailFacts
    <3>3. Head(buffer[r]) = arrived[r] - Len(buffer[r]) + 1
      BY <2>1, <3>2 DEF IInv, Numbered
    <3>4. \A p \in 1 .. Len(buffer'[r]) :
            buffer'[r][p] = arrived'[r] - Len(buffer'[r]) + p
      <4>1. \A p \in 1 .. Len(buffer[r]) : buffer[r][p] = arrived[r] - Len(buffer[r]) + p
        BY DEF IInv, Numbered
      <4>2. ASSUME NEW p \in 1 .. Len(buffer'[r])
            PROVE  buffer'[r][p] = arrived'[r] - Len(buffer'[r]) + p
        <5>1. Len(buffer[r]) \in Nat /\ p + 1 \in 1 .. Len(buffer[r])
          BY <2>1, <3>2
        <5>2. buffer'[r][p] = arrived[r] - Len(buffer[r]) + (p + 1)
          BY <3>2, <4>1, <5>1
        <5>3. QED
          BY <2>1, <2>2, <3>2, <5>1, <5>2
      <4>3. QED
        BY <4>2
    <3>5. \A n \in delivering'[r] : n <= arrived'[r] - Len(buffer'[r])
      BY <2>1, <2>2, <3>1, <3>2, <3>3 DEF IInv, Numbered
    <3>6. Len(buffer'[r]) <= arrived'[r]
      BY <2>1, <2>2, <3>2 DEF IInv, Numbered
    <3>7. QED
      BY <3>4, <3>5, <3>6
  <2>4. CASE r # s
    BY <1>9, <2>2, <2>4 DEF Recv, IInv, TypeOK, Numbered
  <2>5. QED
    BY <2>3, <2>4
<1>10. ASSUME NEW s \in Sockets, RecvEmpty(s) PROVE Numbered'
  BY <1>10 DEF RecvEmpty, interfaceVars, kernelVars, threadVars, taskVars, IInv, Numbered
<1>11. ASSUME NEW s \in Sockets, NEW p \in 1 .. MaxPackets, Deliver(s, p) PROVE Numbered'
  BY <1>11 DEF Deliver, kernelVars, IInv, TypeOK, Numbered
<1>12. CASE EpollWait
  BY <1>12 DEF EpollWait, interfaceVars, kernelVars, threadVars, taskVars, IInv, Numbered
<1>13. CASE EpollWaitFails
  BY <1>13 DEF EpollWaitFails, interfaceVars, kernelVars, threadVars, taskVars, IInv, Numbered
<1>14. CASE DropPoller
  BY <1>14 DEF DropPoller, interfaceVars, kernelVars, threadVars, taskVars, IInv, Numbered
<1>15. CASE UNCHANGED vars
  BY <1>15 DEF vars, interfaceVars, kernelVars, threadVars, taskVars, IInv, Numbered
<1>16. QED
  BY <1>1, <1>2, <1>3, <1>4, <1>5, <1>6, <1>7, <1>8, <1>9,
     <1>10, <1>11, <1>12, <1>13, <1>14, <1>15
  DEF Next, Task

\* The count of a listener stays right.
LEMMA CountStep == IInv /\ [Next]_vars => CountIsRight'
<1> SUFFICES ASSUME IInv, [Next]_vars PROVE CountIsRight'
  OBVIOUS
<1>1. ASSUME NEW s \in Sockets, MakeSocket(s) PROVE CountIsRight'
  <2> SUFFICES ASSUME NEW r \in Sockets PROVE listenerRefs'[r] = References(r)'
    BY DEF CountIsRight
  <2>1. /\ listenerRefs[r] = References(r) /\ listenerRefs[r] \in Nat /\ reading[r] \in Nat
        /\ Cardinality(delivering[r]) \in Nat
    BY DeliveringIsFinite DEF IInv, TypeOK, CountIsRight
  <2>2. CASE r = s
    <3>1. listenerRefs[r] = 0 /\ stage[r] = "none"
      BY <1>1, <2>2 DEF MakeSocket, IInv, Stages
    <3>2. reading[r] = 0 /\ Cardinality(delivering[r]) = 0 /\ r \notin handlers
      BY <2>1, <3>1 DEF References
    <3>3. listenerRefs'[r] = 1 /\ stage'[r] = "made"
      BY <1>1, <2>2 DEF MakeSocket, IInv, TypeOK
    <3>4. reading' = reading /\ delivering' = delivering
      BY <1>1 DEF MakeSocket, taskVars
    <3>5. QED
      BY <3>2, <3>3, <3>4 DEF References
  <2>3. CASE r # s
    <3>1. /\ listenerRefs'[r] = listenerRefs[r] /\ stage'[r] = stage[r]
          /\ r \in handlers' <=> r \in handlers
          /\ reading'[r] = reading[r] /\ delivering'[r] = delivering[r]
      BY <1>1, <2>3 DEF MakeSocket, interfaceVars, kernelVars, threadVars, taskVars, IInv, TypeOK
    <3>2. QED
      BY <3>1, Untouched DEF IInv
  <2>4. QED
    BY <2>2, <2>3
<1>2. ASSUME NEW s \in Sockets, EpollAdd(s) PROVE CountIsRight'
  <2> SUFFICES ASSUME NEW r \in Sockets PROVE listenerRefs'[r] = References(r)'
    BY DEF CountIsRight
  <2>1. /\ listenerRefs[r] = References(r) /\ listenerRefs[r] \in Nat /\ reading[r] \in Nat
        /\ Cardinality(delivering[r]) \in Nat
    BY DeliveringIsFinite DEF IInv, TypeOK, CountIsRight
  <2>2. CASE r = s
    <3>1. stage[r] = "made" /\ stage'[r] = "added"
      BY <1>2, <2>2 DEF EpollAdd, IInv, TypeOK
    <3>2. /\ listenerRefs' = listenerRefs /\ handlers' = handlers
          /\ reading' = reading /\ delivering' = delivering
      BY <1>2 DEF EpollAdd, taskVars
    <3>3. QED
      BY <2>1, <3>1, <3>2 DEF References
  <2>3. CASE r # s
    <3>1. /\ listenerRefs'[r] = listenerRefs[r] /\ stage'[r] = stage[r]
          /\ r \in handlers' <=> r \in handlers
          /\ reading'[r] = reading[r] /\ delivering'[r] = delivering[r]
      BY <1>2, <2>3 DEF EpollAdd, interfaceVars, kernelVars, threadVars, taskVars, IInv, TypeOK
    <3>2. QED
      BY <3>1, Untouched DEF IInv
  <2>4. QED
    BY <2>2, <2>3
<1>3. ASSUME NEW s \in Sockets, EpollAddFails(s) PROVE CountIsRight'
  <2> SUFFICES ASSUME NEW r \in Sockets PROVE listenerRefs'[r] = References(r)'
    BY DEF CountIsRight
  <2>1. /\ listenerRefs[r] = References(r) /\ listenerRefs[r] \in Nat /\ reading[r] \in Nat
        /\ Cardinality(delivering[r]) \in Nat
    BY DeliveringIsFinite DEF IInv, TypeOK, CountIsRight
  <2>2. listenerRefs' = [listenerRefs EXCEPT ![s] = @ - 1]
    BY <1>3 DEF EpollAddFails, DropListener
  <2>3. CASE r = s
    <3>1. /\ stage[r] = "made" /\ stage'[r] = "dropped"
          /\ listenerRefs'[r] = listenerRefs[r] - 1
      BY <1>3, <2>3, <2>2 DEF EpollAddFails, IInv, TypeOK
    <3>2. r \notin handlers
      BY <3>1 DEF IInv, Stages
    <3>3. /\ handlers' = handlers /\ reading' = reading /\ delivering' = delivering
      BY <1>3 DEF EpollAddFails
    <3>4. QED
      BY <2>1, <3>1, <3>2, <3>3 DEF References
  <2>4. CASE r # s
    <3>1. /\ listenerRefs'[r] = listenerRefs[r] /\ stage'[r] = stage[r]
          /\ r \in handlers' <=> r \in handlers
          /\ reading'[r] = reading[r] /\ delivering'[r] = delivering[r]
      BY <1>3, <2>4, <2>2 DEF EpollAddFails, interfaceVars, kernelVars, threadVars, taskVars, IInv, TypeOK
    <3>2. QED
      BY <3>1, Untouched DEF IInv
  <2>5. QED
    BY <2>3, <2>4
<1>4. ASSUME NEW s \in Sockets, InsertHandler(s) PROVE CountIsRight'
  <2> SUFFICES ASSUME NEW r \in Sockets PROVE listenerRefs'[r] = References(r)'
    BY DEF CountIsRight
  <2>1. /\ listenerRefs[r] = References(r) /\ listenerRefs[r] \in Nat /\ reading[r] \in Nat
        /\ Cardinality(delivering[r]) \in Nat
    BY DeliveringIsFinite DEF IInv, TypeOK, CountIsRight
  <2>2. CASE r = s
    <3>1. stage[r] = "added" /\ r \in handlers'
      BY <1>4, <2>2 DEF InsertHandler
    <3>2. listenerRefs' = listenerRefs /\ reading' = reading /\ delivering' = delivering
      BY <1>4 DEF InsertHandler
    <3>3. QED
      BY <2>1, <3>1, <3>2 DEF References
  <2>3. CASE r # s
    <3>1. /\ listenerRefs'[r] = listenerRefs[r] /\ stage'[r] = stage[r]
          /\ r \in handlers' <=> r \in handlers
          /\ reading'[r] = reading[r] /\ delivering'[r] = delivering[r]
      BY <1>4, <2>3 DEF InsertHandler, interfaceVars, kernelVars, threadVars, taskVars, IInv, TypeOK
    <3>2. QED
      BY <3>1, Untouched DEF IInv
  <2>4. QED
    BY <2>2, <2>3
<1>5. ASSUME NEW s \in Sockets, DropInterface(s) PROVE CountIsRight'
  <2> SUFFICES ASSUME NEW r \in Sockets PROVE listenerRefs'[r] = References(r)'
    BY DEF CountIsRight
  <2>1. /\ listenerRefs[r] = References(r) /\ listenerRefs[r] \in Nat /\ reading[r] \in Nat
        /\ Cardinality(delivering[r]) \in Nat
    BY DeliveringIsFinite DEF IInv, TypeOK, CountIsRight
  <2>2. CASE r = s
    <3>1. stage[r] = "connected" /\ stage'[r] = "dropped"
      BY <1>5, <2>2 DEF DropInterface, IInv, TypeOK
    <3>2. /\ listenerRefs' = listenerRefs /\ handlers' = handlers
          /\ reading' = reading /\ delivering' = delivering
      BY <1>5 DEF DropInterface
    <3>3. QED
      BY <2>1, <3>1, <3>2 DEF References
  <2>3. CASE r # s
    <3>1. /\ listenerRefs'[r] = listenerRefs[r] /\ stage'[r] = stage[r]
          /\ r \in handlers' <=> r \in handlers
          /\ reading'[r] = reading[r] /\ delivering'[r] = delivering[r]
      BY <1>5, <2>3 DEF DropInterface, interfaceVars, kernelVars, threadVars, taskVars, IInv, TypeOK
    <3>2. QED
      BY <3>1, Untouched DEF IInv
  <2>4. QED
    BY <2>2, <2>3
<1>6. ASSUME NEW s \in Sockets, RemoveHandler(s) PROVE CountIsRight'
  <2> SUFFICES ASSUME NEW r \in Sockets PROVE listenerRefs'[r] = References(r)'
    BY DEF CountIsRight
  <2>1. /\ listenerRefs[r] = References(r) /\ listenerRefs[r] \in Nat /\ reading[r] \in Nat
        /\ Cardinality(delivering[r]) \in Nat
    BY DeliveringIsFinite DEF IInv, TypeOK, CountIsRight
  <2>2. listenerRefs' = [listenerRefs EXCEPT ![s] = @ - (IF s \in handlers THEN 1 ELSE 0)]
    BY <1>6 DEF RemoveHandler, DropListener
  <2>3. CASE r = s
    <3>1. stage[r] = "dropped" /\ stage' = stage /\ r \notin handlers'
      BY <1>6, <2>3 DEF RemoveHandler, IInv, Stages
    <3>2. listenerRefs'[r] = listenerRefs[r] - (IF r \in handlers THEN 1 ELSE 0)
      BY <2>3, <2>2 DEF IInv, TypeOK
    <3>3. reading' = reading /\ delivering' = delivering
      BY <1>6 DEF RemoveHandler
    <3>4. QED
      BY <2>1, <3>1, <3>2, <3>3 DEF References
  <2>4. CASE r # s
    <3>1. /\ listenerRefs'[r] = listenerRefs[r] /\ stage'[r] = stage[r]
          /\ r \in handlers' <=> r \in handlers
          /\ reading'[r] = reading[r] /\ delivering'[r] = delivering[r]
      BY <1>6, <2>4, <2>2 DEF RemoveHandler, interfaceVars, kernelVars, threadVars, taskVars, IInv, TypeOK
    <3>2. QED
      BY <3>1, Untouched DEF IInv
  <2>5. QED
    BY <2>3, <2>4
<1>7. ASSUME NEW s \in Sockets, PacketArrives(s) PROVE CountIsRight'
  BY <1>7 DEF PacketArrives, interfaceVars, kernelVars, threadVars, taskVars, IInv, CountIsRight, References
<1>8. ASSUME NEW s \in Sockets, LookUp(s) PROVE CountIsRight'
  <2> SUFFICES ASSUME NEW r \in Sockets PROVE listenerRefs'[r] = References(r)'
    BY DEF CountIsRight
  <2>1. /\ listenerRefs[r] = References(r) /\ listenerRefs[r] \in Nat /\ reading[r] \in Nat
        /\ Cardinality(delivering[r]) \in Nat
    BY DeliveringIsFinite DEF IInv, TypeOK, CountIsRight
  <2>2. CASE r = s
    <3>1. stage' = stage /\ handlers' = handlers /\ delivering' = delivering
      BY <1>8 DEF LookUp
    <3>2. CASE s \in handlers
      <4>1. listenerRefs'[r] = listenerRefs[r] + 1 /\ reading'[r] = reading[r] + 1
        BY <1>8, <2>2, <3>2 DEF LookUp, IInv, TypeOK
      <4>2. QED
        BY <2>1, <3>1, <4>1 DEF References
    <3>3. CASE s \notin handlers
      BY <1>8, <2>1, <3>1, <3>3 DEF LookUp, References
    <3>4. QED
      BY <3>2, <3>3
  <2>3. CASE r # s
    <3>1. /\ listenerRefs'[r] = listenerRefs[r] /\ stage'[r] = stage[r]
          /\ r \in handlers' <=> r \in handlers
          /\ reading'[r] = reading[r] /\ delivering'[r] = delivering[r]
      BY <1>8, <2>3 DEF LookUp, interfaceVars, kernelVars, threadVars, taskVars, IInv, TypeOK
    <3>2. QED
      BY <3>1, Untouched DEF IInv
  <2>4. QED
    BY <2>2, <2>3
<1>9. ASSUME NEW s \in Sockets, Recv(s) PROVE CountIsRight'
  <2> SUFFICES ASSUME NEW r \in Sockets PROVE listenerRefs'[r] = References(r)'
    BY DEF CountIsRight
  <2>1. /\ listenerRefs[r] = References(r) /\ listenerRefs[r] \in Nat /\ reading[r] \in Nat
        /\ Cardinality(delivering[r]) \in Nat
    BY DeliveringIsFinite DEF IInv, TypeOK, CountIsRight
  <2>2. CASE r = s
    <3>1. Head(buffer[r]) \notin delivering[r]
      <4>1. /\ buffer[r] \in Seq(1 .. MaxPackets) /\ buffer[r] # <<>>
            /\ arrived[r] \in Nat /\ delivering[r] \subseteq 1 .. MaxPackets
        BY <1>9, <2>2 DEF Recv, IInv, TypeOK
      <4>2. Head(buffer[r]) = buffer[r][1] /\ Len(buffer[r]) >= 1
        BY <4>1, HeadTailFacts
      <4>3. Head(buffer[r]) = arrived[r] - Len(buffer[r]) + 1
        BY <4>1, <4>2 DEF IInv, Numbered
      <4>4. QED
        BY <4>1, <4>2, <4>3 DEF IInv, Numbered
    <3>2. /\ delivering'[r] = delivering[r] \cup {Head(buffer[r])}
          /\ reading'[r] = reading[r] - 1
      BY <1>9, <2>2 DEF Recv, IInv, TypeOK
    <3>3. Cardinality(delivering'[r]) = Cardinality(delivering[r]) + 1
      BY <3>1, <3>2, DeliveringIsFinite, FS_AddElement DEF IInv
    <3>4. stage' = stage /\ handlers' = handlers /\ listenerRefs' = listenerRefs
      BY <1>9 DEF Recv, interfaceVars
    <3>5. QED
      BY <2>1, <3>2, <3>3, <3>4 DEF References
  <2>3. CASE r # s
    <3>1. /\ listenerRefs'[r] = listenerRefs[r] /\ stage'[r] = stage[r]
          /\ r \in handlers' <=> r \in handlers
          /\ reading'[r] = reading[r] /\ delivering'[r] = delivering[r]
      BY <1>9, <2>3 DEF Recv, interfaceVars, kernelVars, threadVars, taskVars, IInv, TypeOK
    <3>2. QED
      BY <3>1, Untouched DEF IInv
  <2>4. QED
    BY <2>2, <2>3
<1>10. ASSUME NEW s \in Sockets, RecvEmpty(s) PROVE CountIsRight'
  <2> SUFFICES ASSUME NEW r \in Sockets PROVE listenerRefs'[r] = References(r)'
    BY DEF CountIsRight
  <2>1. /\ listenerRefs[r] = References(r) /\ listenerRefs[r] \in Nat /\ reading[r] \in Nat
        /\ Cardinality(delivering[r]) \in Nat
    BY DeliveringIsFinite DEF IInv, TypeOK, CountIsRight
  <2>2. listenerRefs' = [listenerRefs EXCEPT ![s] = @ - 1]
    BY <1>10 DEF RecvEmpty, DropListener
  <2>3. CASE r = s
    <3>1. listenerRefs'[r] = listenerRefs[r] - 1 /\ reading'[r] = reading[r] - 1
      BY <1>10, <2>3, <2>2 DEF RecvEmpty, IInv, TypeOK
    <3>2. stage' = stage /\ handlers' = handlers /\ delivering' = delivering
      BY <1>10 DEF RecvEmpty
    <3>3. QED
      BY <2>1, <3>1, <3>2 DEF References
  <2>4. CASE r # s
    <3>1. /\ listenerRefs'[r] = listenerRefs[r] /\ stage'[r] = stage[r]
          /\ r \in handlers' <=> r \in handlers
          /\ reading'[r] = reading[r] /\ delivering'[r] = delivering[r]
      BY <1>10, <2>4, <2>2 DEF RecvEmpty, interfaceVars, kernelVars, threadVars, taskVars, IInv, TypeOK
    <3>2. QED
      BY <3>1, Untouched DEF IInv
  <2>5. QED
    BY <2>3, <2>4
<1>11. ASSUME NEW s \in Sockets, NEW p \in 1 .. MaxPackets, Deliver(s, p) PROVE CountIsRight'
  <2> SUFFICES ASSUME NEW r \in Sockets PROVE listenerRefs'[r] = References(r)'
    BY DEF CountIsRight
  <2>1. /\ listenerRefs[r] = References(r) /\ listenerRefs[r] \in Nat /\ reading[r] \in Nat
        /\ Cardinality(delivering[r]) \in Nat
    BY DeliveringIsFinite DEF IInv, TypeOK, CountIsRight
  <2>2. CASE r = s
    <3>1. /\ p \in delivering[r] /\ delivering'[r] = delivering[r] \ {p}
          /\ reading'[r] = reading[r] + 1
      BY <1>11, <2>2 DEF Deliver, IInv, TypeOK
    <3>2. Cardinality(delivering'[r]) = Cardinality(delivering[r]) - 1
      BY <3>1, DeliveringIsFinite, FS_RemoveElement DEF IInv
    <3>3. stage' = stage /\ handlers' = handlers /\ listenerRefs' = listenerRefs
      BY <1>11 DEF Deliver, interfaceVars
    <3>4. QED
      BY <2>1, <3>1, <3>2, <3>3 DEF References
  <2>3. CASE r # s
    <3>1. /\ listenerRefs'[r] = listenerRefs[r] /\ stage'[r] = stage[r]
          /\ r \in handlers' <=> r \in handlers
          /\ reading'[r] = reading[r] /\ delivering'[r] = delivering[r]
      BY <1>11, <2>3 DEF Deliver, interfaceVars, kernelVars, threadVars, taskVars, IInv, TypeOK
    <3>2. QED
      BY <3>1, Untouched DEF IInv
  <2>4. QED
    BY <2>2, <2>3
<1>12. CASE EpollWait
  BY <1>12 DEF EpollWait, interfaceVars, kernelVars, threadVars, taskVars, IInv, CountIsRight, References
<1>13. CASE EpollWaitFails
  BY <1>13 DEF EpollWaitFails, interfaceVars, kernelVars, threadVars, taskVars, IInv, CountIsRight, References
<1>14. CASE DropPoller
  BY <1>14 DEF DropPoller, interfaceVars, kernelVars, threadVars, taskVars, IInv, CountIsRight, References
<1>15. CASE UNCHANGED vars
  BY <1>15 DEF vars, interfaceVars, kernelVars, threadVars, taskVars, IInv, CountIsRight, References
<1>16. QED
  BY <1>1, <1>2, <1>3, <1>4, <1>5, <1>6, <1>7, <1>8, <1>9,
     <1>10, <1>11, <1>12, <1>13, <1>14, <1>15
  DEF Next, Task

\* The stages of the interfaces, the map and the closed sockets stay in step.
LEMMA StagesStep == IInv /\ [Next]_vars => Stages'
<1> SUFFICES ASSUME IInv, [Next]_vars PROVE Stages'
  OBVIOUS
<1>1. ASSUME NEW s \in Sockets, MakeSocket(s) PROVE Stages'
  BY <1>1 DEF MakeSocket, taskVars, IInv, TypeOK, Stages
<1>2. ASSUME NEW s \in Sockets, EpollAdd(s) PROVE Stages'
  BY <1>2 DEF EpollAdd, interfaceVars, kernelVars, threadVars, taskVars, IInv, TypeOK, Stages
<1>3. ASSUME NEW s \in Sockets, EpollAddFails(s) PROVE Stages'
  <2>1. listenerRefs[s] \in Nat
    BY DEF IInv, TypeOK
  <2>2. listenerRefs[s] > 0
    BY <1>3, Uncounted DEF EpollAddFails, IInv
  <2>3. DropListener(s, 1, "dropped")
    BY <1>3 DEF EpollAddFails
  <2>4. /\ listenerRefs' = [listenerRefs EXCEPT ![s] = @ - (1)]
        /\ \A r \in closed' :
             r \in closed \/ (r = s /\ listenerRefs'[s] = 0 /\ ~Held("dropped"))
    BY <2>1, <2>2, <2>3, DropListenerFacts DEF IInv
  <2>5. QED
    BY <1>3, <2>1, <2>2, <2>4 DEF EpollAddFails, Held, IInv, TypeOK, Stages
<1>4. ASSUME NEW s \in Sockets, InsertHandler(s) PROVE Stages'
  BY <1>4 DEF InsertHandler, interfaceVars, kernelVars, threadVars, taskVars, IInv, TypeOK, Stages
<1>5. ASSUME NEW s \in Sockets, DropInterface(s) PROVE Stages'
  BY <1>5 DEF DropInterface, interfaceVars, kernelVars, threadVars, taskVars, IInv, TypeOK, Stages
<1>6. ASSUME NEW s \in Sockets, RemoveHandler(s) PROVE Stages'
  <2>1. listenerRefs[s] \in Nat
    BY DEF IInv, TypeOK
  <2>2. s \in handlers => listenerRefs[s] > 0
    BY Uncounted DEF IInv
  <2>3. DropListener(s, IF s \in handlers THEN 1 ELSE 0, stage[s])
    BY <1>6 DEF RemoveHandler
  <2>4. /\ listenerRefs' = [listenerRefs EXCEPT ![s] = @ - (IF s \in handlers THEN 1 ELSE 0)]
        /\ \A r \in closed' :
             r \in closed \/ (r = s /\ listenerRefs'[s] = 0 /\ ~Held(stage[s]))
    BY <2>1, <2>2, <2>3, DropListenerFacts DEF IInv
  <2>5. QED
    BY <1>6, <2>1, <2>2, <2>4 DEF RemoveHandler, Held, IInv, TypeOK, Stages
<1>7. ASSUME NEW s \in Sockets, PacketArrives(s) PROVE Stages'
  BY <1>7 DEF PacketArrives, interfaceVars, kernelVars, threadVars, taskVars, IInv, TypeOK, Stages
<1>8. ASSUME NEW s \in Sockets, LookUp(s) PROVE Stages'
  <2>1. s \in handlers => listenerRefs[s] > 0
    BY Uncounted DEF IInv
  <2>2. QED
    BY <1>8, <2>1 DEF LookUp, IInv, TypeOK, Stages
<1>9. ASSUME NEW s \in Sockets, Recv(s) PROVE Stages'
  BY <1>9 DEF Recv, interfaceVars, kernelVars, threadVars, taskVars, IInv, TypeOK, Stages
<1>10. ASSUME NEW s \in Sockets, RecvEmpty(s) PROVE Stages'
  <2>1. listenerRefs[s] \in Nat
    BY DEF IInv, TypeOK
  <2>2. listenerRefs[s] > 0
    BY <1>10, Uncounted DEF RecvEmpty, IInv
  <2>3. DropListener(s, 1, stage[s])
    BY <1>10 DEF RecvEmpty
  <2>4. /\ listenerRefs' = [listenerRefs EXCEPT ![s] = @ - (1)]
        /\ \A r \in closed' :
             r \in closed \/ (r = s /\ listenerRefs'[s] = 0 /\ ~Held(stage[s]))
    BY <2>1, <2>2, <2>3, DropListenerFacts DEF IInv
  <2>5. QED
    BY <1>10, <2>1, <2>2, <2>4 DEF RecvEmpty, Held, IInv, TypeOK, Stages
<1>11. ASSUME NEW s \in Sockets, NEW p \in 1 .. MaxPackets, Deliver(s, p) PROVE Stages'
  BY <1>11 DEF Deliver, interfaceVars, kernelVars, threadVars, taskVars, IInv, TypeOK, Stages
<1>12. CASE EpollWait
  BY <1>12 DEF EpollWait, interfaceVars, kernelVars, threadVars, taskVars, IInv, TypeOK, Stages
<1>13. CASE EpollWaitFails
  BY <1>13 DEF EpollWaitFails, interfaceVars, kernelVars, threadVars, taskVars, IInv, TypeOK, Stages
<1>14. CASE DropPoller
  BY <1>14 DEF DropPoller, interfaceVars, kernelVars, threadVars, taskVars, IInv, TypeOK, Stages
<1>15. CASE UNCHANGED vars
  BY <1>15 DEF vars, interfaceVars, kernelVars, threadVars, taskVars, IInv, TypeOK, Stages
<1>16. QED
  BY <1>1, <1>2, <1>3, <1>4, <1>5, <1>6, <1>7, <1>8, <1>9,
     <1>10, <1>11, <1>12, <1>13, <1>14, <1>15
  DEF Next, Task

\* No step loses a wakeup.
LEMMA WakeupStep == IInv /\ [Next]_vars => NoLostWakeup'
<1> SUFFICES ASSUME IInv, [Next]_vars PROVE NoLostWakeup'
  OBVIOUS
<1>1. ASSUME NEW s \in Sockets, MakeSocket(s) PROVE NoLostWakeup'
  BY <1>1 DEF MakeSocket, interfaceVars, kernelVars, threadVars, taskVars, IInv, Covered, NoLostWakeup
<1>2. ASSUME NEW s \in Sockets, EpollAdd(s) PROVE NoLostWakeup'
  <2> SUFFICES ASSUME NEW r \in Sockets, Covered(r)', epollOpen', buffer'[r] # <<>>
               PROVE  r \in Range(ready') \/ events'[r] > 0 \/ reading'[r] > 0
                        \/ delivering'[r] # {}
    BY DEF NoLostWakeup
  <2>1. /\ Range(ready) \subseteq Range(ready')
        /\ handlers' = handlers /\ arrived' = arrived /\ before' = before
        /\ epollOpen' = epollOpen /\ buffer' = buffer /\ events' = events
        /\ reading' = reading /\ delivering' = delivering
    BY <1>2, MarkReadyFacts DEF EpollAdd, taskVars, IInv, TypeOK
  <2>2. QED
    BY <2>1 DEF Covered, IInv, NoLostWakeup
<1>3. ASSUME NEW s \in Sockets, EpollAddFails(s) PROVE NoLostWakeup'
  <2> SUFFICES ASSUME NEW r \in Sockets, Covered(r)', epollOpen', buffer'[r] # <<>>
               PROVE  r \in Range(ready') \/ events'[r] > 0 \/ reading'[r] > 0
                        \/ delivering'[r] # {}
    BY DEF NoLostWakeup
  <2>1. r # s
    BY <1>3 DEF EpollAddFails, Covered, IInv, Stages
  <2>2. listenerRefs[s] \in Nat
    BY DEF IInv, TypeOK
  <2>3. listenerRefs[s] > 0
    BY <1>3, Uncounted DEF EpollAddFails, IInv
  <2>4. DropListener(s, 1, "dropped")
    BY <1>3 DEF EpollAddFails
  <2>5. r \in Range(ready) => r \in Range(ready')
    BY <2>1, <2>2, <2>3, <2>4, DropListenerFacts DEF IInv
  <2>6. QED
    BY <1>3, <2>1, <2>5 DEF EpollAddFails, Covered, IInv, TypeOK, NoLostWakeup
<1>4. ASSUME NEW s \in Sockets, InsertHandler(s) PROVE NoLostWakeup'
  <2> SUFFICES ASSUME NEW r \in Sockets, Covered(r)', epollOpen', buffer'[r] # <<>>
               PROVE  r \in Range(ready') \/ events'[r] > 0 \/ reading'[r] > 0
                        \/ delivering'[r] # {}
    BY DEF NoLostWakeup
  <2>1. r # s
    BY <1>4 DEF InsertHandler, Covered, IInv, TypeOK
  <2>2. QED
    BY <1>4, <2>1 DEF InsertHandler, Covered, IInv, TypeOK, NoLostWakeup
<1>5. ASSUME NEW s \in Sockets, DropInterface(s) PROVE NoLostWakeup'
  BY <1>5 DEF DropInterface, interfaceVars, kernelVars, threadVars, taskVars, IInv, Covered, NoLostWakeup
<1>6. ASSUME NEW s \in Sockets, RemoveHandler(s) PROVE NoLostWakeup'
  <2> SUFFICES ASSUME NEW r \in Sockets, Covered(r)', epollOpen', buffer'[r] # <<>>
               PROVE  r \in Range(ready') \/ events'[r] > 0 \/ reading'[r] > 0
                        \/ delivering'[r] # {}
    BY DEF NoLostWakeup
  <2>1. r # s
    BY <1>6 DEF RemoveHandler, Covered
  <2>2. listenerRefs[s] \in Nat
    BY DEF IInv, TypeOK
  <2>3. s \in handlers => listenerRefs[s] > 0
    BY Uncounted DEF IInv
  <2>4. DropListener(s, IF s \in handlers THEN 1 ELSE 0, stage[s])
    BY <1>6 DEF RemoveHandler
  <2>5. r \in Range(ready) => r \in Range(ready')
    BY <2>1, <2>2, <2>3, <2>4, DropListenerFacts DEF IInv
  <2>6. QED
    BY <1>6, <2>1, <2>5 DEF RemoveHandler, Covered, IInv, TypeOK, NoLostWakeup
<1>7. ASSUME NEW s \in Sockets, PacketArrives(s) PROVE NoLostWakeup'
  <2> SUFFICES ASSUME NEW r \in Sockets, Covered(r)', epollOpen', buffer'[r] # <<>>
               PROVE  r \in Range(ready') \/ events'[r] > 0 \/ reading'[r] > 0
                        \/ delivering'[r] # {}
    BY DEF NoLostWakeup
  <2>1. /\ handlers' = handlers /\ before' = before /\ epollOpen' = epollOpen
        /\ events' = events /\ reading' = reading /\ delivering' = delivering
    BY <1>7 DEF PacketArrives, taskVars
  <2>2. CASE r = s
    <3>1. stage[s] # "made"
      BY <2>1, <2>2 DEF Covered, IInv, Stages
    <3>2. MarkReady(s)
      BY <1>7, <2>1, <3>1 DEF PacketArrives
    <3>3. QED
      BY <2>2, <3>2, MarkReadyFacts DEF IInv, TypeOK
  <2>3. CASE r # s
    <3>1. arrived'[r] = arrived[r] /\ buffer'[r] = buffer[r]
      BY <1>7, <2>3 DEF PacketArrives, IInv, TypeOK
    <3>2. Range(ready) \subseteq Range(ready')
      BY <1>7, MarkReadyFacts DEF PacketArrives, IInv, TypeOK
    <3>3. QED
      BY <2>1, <3>1, <3>2 DEF Covered, IInv, NoLostWakeup
  <2>4. QED
    BY <2>2, <2>3
<1>8. ASSUME NEW s \in Sockets, LookUp(s) PROVE NoLostWakeup'
  <2> SUFFICES ASSUME NEW r \in Sockets, Covered(r)', epollOpen', buffer'[r] # <<>>
               PROVE  r \in Range(ready') \/ events'[r] > 0 \/ reading'[r] > 0
                        \/ delivering'[r] # {}
    BY DEF NoLostWakeup
  <2>1. CASE r = s
    <3>1. s \in handlers
      BY <1>8, <2>1 DEF LookUp, Covered
    <3>2. reading'[r] = reading[r] + 1 /\ reading[r] \in Nat
      BY <1>8, <2>1, <3>1 DEF LookUp, IInv, TypeOK
    <3>3. QED
      BY <3>2
  <2>2. CASE r # s
    BY <1>8, <2>2 DEF LookUp, kernelVars, Covered, IInv, TypeOK, NoLostWakeup
  <2>3. QED
    BY <2>1, <2>2
<1>9. ASSUME NEW s \in Sockets, Recv(s) PROVE NoLostWakeup'
  <2> SUFFICES ASSUME NEW r \in Sockets, Covered(r)', epollOpen', buffer'[r] # <<>>
               PROVE  r \in Range(ready') \/ events'[r] > 0 \/ reading'[r] > 0
                        \/ delivering'[r] # {}
    BY DEF NoLostWakeup
  <2>1. CASE r = s
    BY <1>9, <2>1 DEF Recv, IInv, TypeOK
  <2>2. CASE r # s
    BY <1>9, <2>2 DEF Recv, Covered, IInv, TypeOK, NoLostWakeup
  <2>3. QED
    BY <2>1, <2>2
<1>10. ASSUME NEW s \in Sockets, RecvEmpty(s) PROVE NoLostWakeup'
  <2> SUFFICES ASSUME NEW r \in Sockets, Covered(r)', epollOpen', buffer'[r] # <<>>
               PROVE  r \in Range(ready') \/ events'[r] > 0 \/ reading'[r] > 0
                        \/ delivering'[r] # {}
    BY DEF NoLostWakeup
  <2>1. r # s
    BY <1>10 DEF RecvEmpty
  <2>2. listenerRefs[s] \in Nat
    BY DEF IInv, TypeOK
  <2>3. listenerRefs[s] > 0
    BY <1>10, Uncounted DEF RecvEmpty, IInv
  <2>4. DropListener(s, 1, stage[s])
    BY <1>10 DEF RecvEmpty
  <2>5. r \in Range(ready) => r \in Range(ready')
    BY <2>1, <2>2, <2>3, <2>4, DropListenerFacts DEF IInv
  <2>6. QED
    BY <1>10, <2>1, <2>5 DEF RecvEmpty, Covered, IInv, TypeOK, NoLostWakeup
<1>11. ASSUME NEW s \in Sockets, NEW p \in 1 .. MaxPackets, Deliver(s, p) PROVE NoLostWakeup'
  <2> SUFFICES ASSUME NEW r \in Sockets, Covered(r)', epollOpen', buffer'[r] # <<>>
               PROVE  r \in Range(ready') \/ events'[r] > 0 \/ reading'[r] > 0
                        \/ delivering'[r] # {}
    BY DEF NoLostWakeup
  <2>1. CASE r = s
    BY <1>11, <2>1 DEF Deliver, IInv, TypeOK
  <2>2. CASE r # s
    BY <1>11, <2>2 DEF Deliver, kernelVars, Covered, IInv, TypeOK, NoLostWakeup
  <2>3. QED
    BY <2>1, <2>2
<1>12. CASE EpollWait
  <2> SUFFICES ASSUME NEW r \in Sockets, Covered(r)', epollOpen', buffer'[r] # <<>>
               PROVE  r \in Range(ready') \/ events'[r] > 0 \/ reading'[r] > 0
                        \/ delivering'[r] # {}
    BY DEF NoLostWakeup
  <2>1. /\ handlers' = handlers /\ before' = before /\ epollOpen' = epollOpen
        /\ buffer' = buffer /\ arrived' = arrived
        /\ reading' = reading /\ delivering' = delivering
    BY <1>12 DEF EpollWait
  <2>2. \/ r \in Range(ready) \/ events[r] > 0 \/ reading[r] > 0 \/ delivering[r] # {}
    BY <2>1 DEF Covered, IInv, NoLostWakeup
  <2>3. /\ events[r] \in Nat /\ events'[r] \in Nat /\ events'[r] >= events[r]
        /\ r \in Range(ready) => r \in Range(ready') \/ events'[r] > 0
    BY <1>12, <2>1, EpollWaitFacts DEF IInv, TypeOK
  <2>4. QED
    BY <2>1, <2>2, <2>3
<1>13. CASE EpollWaitFails
  BY <1>13 DEF EpollWaitFails, interfaceVars, kernelVars, threadVars, taskVars, IInv, Covered, NoLostWakeup
<1>14. CASE DropPoller
  BY <1>14 DEF DropPoller, NoLostWakeup
<1>15. CASE UNCHANGED vars
  BY <1>15 DEF vars, interfaceVars, kernelVars, threadVars, taskVars, IInv, Covered, NoLostWakeup
<1>16. QED
  BY <1>1, <1>2, <1>3, <1>4, <1>5, <1>6, <1>7, <1>8, <1>9,
     <1>10, <1>11, <1>12, <1>13, <1>14, <1>15
  DEF Next, Task

\* The invariant holds at all times.
LEMMA Invariance == Spec => []IInv
<1>1. Init => IInv
  <2> SUFFICES ASSUME Init PROVE IInv
    OBVIOUS
  <2>1. TypeOK
    BY PollerAssumption DEF Init, TypeOK
  <2>2. Numbered
    BY DEF Init, Numbered
  <2>3. CountIsRight
    BY FS_EmptySet DEF Init, CountIsRight, References
  <2>4. Stages
    BY DEF Init, Stages
  <2>5. NoLostWakeup
    BY DEF Init, NoLostWakeup
  <2>6. QED
    BY <2>1, <2>2, <2>3, <2>4, <2>5 DEF IInv
<1>2. IInv /\ [Next]_vars => IInv'
  BY TypeStep, NumberedStep, CountStep, StagesStep, WakeupStep DEF IInv
<1>3. QED
  BY <1>1, <1>2, PTL DEF Spec

\* The state is well typed, for any number of sockets, packets and events.
THEOREM TypeCorrect == Spec => []TypeOK
BY Invariance, PTL DEF IInv

\* A descriptor is not used again once it is closed, however the drop of an
\* interface, the removal of its handler and its tasks interleave.
THEOREM NeverUsedAfterClose == Spec => []NoUseAfterClose
<1>1. IInv => NoUseAfterClose
  <2> SUFFICES ASSUME IInv, NEW s \in closed
               PROVE  s \notin handlers /\ reading[s] = 0 /\ delivering[s] = {}
    BY DEF NoUseAfterClose
  <2>1. s \in Sockets /\ reading[s] \in Nat /\ listenerRefs[s] = 0
    BY DEF IInv, TypeOK, Stages
  <2>2. QED
    BY <2>1, Uncounted DEF IInv
<1>2. QED
  BY <1>1, Invariance, PTL

\* Packets never wait in a socket whose handler is in place with nobody about to
\* read them, although epoll reports a socket only once (edge-triggered).
THEOREM WakeupNeverLost == Spec => []NoLostWakeup
BY Invariance, PTL DEF IInv
=============================================================================
