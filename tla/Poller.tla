------------------------------- MODULE Poller -------------------------------
(***************************************************************************)
(* The receive path of network.rs: raw sockets registered with an          *)
(* edge-triggered epoll instance.  One thread waits for events and spawns  *)
(* a task for them; that task looks the handlers up and spawns one task    *)
(* per socket, which reads until the socket is empty (EAGAIN) and hands    *)
(* every packet to the protocol.                                           *)
(*                                                                         *)
(* A socket is closed when the last reference to it goes: the interface    *)
(* holds one, its listener the other, and the listener lives in the map of *)
(* handlers and in every task that reads.  Dropping an interface only      *)
(* spawns the task that takes its listener out of the map.                 *)
(*                                                                         *)
(* One event stands for one entry of the buffer epoll_wait fills; that a   *)
(* single task looks up all entries of a buffer is left out, since no two  *)
(* of them are for the same socket.                                        *)
(***************************************************************************)
EXTENDS Naturals, FiniteSets, SequencesExt

CONSTANTS
  Sockets,        \* the sockets of the interfaces that are ever connected
  MaxEvents,      \* size of the buffer for epoll_wait (100 in the code)
  MaxPackets,     \* bound on the packets that arrive at a socket
  MaxInterrupts   \* bound on epoll_wait calls that fail, with EINTR say

ASSUME PollerAssumption ==
  /\ MaxEvents \in Nat \ {0}
  /\ MaxPackets \in Nat
  /\ MaxInterrupts \in Nat

VARIABLES
  stage,          \* how far LinuxInetPacketNetworkInterface::new has got
  closed,         \* the sockets AutoCloseFd has closed
  listenerRefs,   \* strong count of each socket's listener
  buffer,         \* packets (by number) the kernel holds for a socket
  arrived,        \* packets that have arrived at a socket
  before,         \* how many of them before its handler was in the map
  ready,          \* epoll's ready list, oldest first
  epollOpen,      \* the epoll instance has not been closed
  polling,        \* the poller thread runs
  interrupts,     \* epoll_wait calls that may still fail
  events,         \* socket -> events taken from epoll and not looked up yet
  handlers,       \* sockets with an entry in the map of handlers
  removing,       \* sockets whose ticket was dropped and is not served yet
  reading,        \* socket -> tasks about to call recv
  delivering      \* socket -> packets read and not yet handed over

interfaceVars == <<stage, closed, listenerRefs>>
kernelVars    == <<buffer, arrived, before, ready, epollOpen>>
threadVars    == <<polling, interrupts>>
taskVars      == <<events, handlers, removing, reading, delivering>>
vars == <<interfaceVars, kernelVars, threadVars, taskVars>>

TypeOK ==
  /\ stage \in [Sockets -> {"none", "made", "added", "connected", "dropped"}]
  /\ closed \subseteq Sockets
  /\ listenerRefs \in [Sockets -> Nat]
  /\ buffer \in [Sockets -> Seq(1 .. MaxPackets)]
  /\ arrived \in [Sockets -> 0 .. MaxPackets]
  /\ before \in [Sockets -> 0 .. MaxPackets]
  /\ ready \in Seq(Sockets)
  /\ epollOpen \in BOOLEAN /\ polling \in BOOLEAN
  /\ interrupts \in 0 .. MaxInterrupts
  /\ events \in [Sockets -> Nat]
  /\ handlers \subseteq Sockets /\ removing \subseteq Sockets
  /\ reading \in [Sockets -> Nat]
  /\ delivering \in [Sockets -> SUBSET (1 .. MaxPackets)]

Init ==
  /\ stage = [s \in Sockets |-> "none"]
  /\ closed = {}
  /\ listenerRefs = [s \in Sockets |-> 0]
  /\ buffer = [s \in Sockets |-> <<>>]
  /\ arrived = [s \in Sockets |-> 0]
  /\ before = [s \in Sockets |-> 0]
  /\ ready = <<>>
  /\ epollOpen = TRUE /\ polling = TRUE
  /\ interrupts = MaxInterrupts
  /\ events = [s \in Sockets |-> 0]
  /\ handlers = {} /\ removing = {}
  /\ reading = [s \in Sockets |-> 0]
  /\ delivering = [s \in Sockets |-> {}]

-----------------------------------------------------------------------------
(* The interface. *)

Open(s) == stage[s] # "none" /\ s \notin closed

\* The socket is put on the ready list, unless it is there already.
MarkReady(s) == ready' = IF s \in Range(ready) THEN ready ELSE Append(ready, s)

\* The interface keeps its own reference to the socket until it is dropped.
Held(st) == st \in {"made", "added", "connected"}

\* What is left of the ready list without s, which is on it once at most.
ReadyWithout(s) ==
  IF s \in Range(ready)
  THEN RemoveAt(ready, CHOOSE p \in DOMAIN ready : ready[p] = s)
  ELSE ready

\* Drop n references to the listener while the interface is at stage st: the
\* last reference to the socket closes it, which takes it out of epoll.
DropListener(s, n, st) ==
  /\ listenerRefs' = [listenerRefs EXCEPT ![s] = @ - n]
  /\ IF listenerRefs[s] = n /\ ~Held(st)
     THEN closed' = closed \cup {s} /\ ready' = ReadyWithout(s)
     ELSE UNCHANGED <<closed, ready>>

\* socket(2) with its options, and the listener that add_item is given.  The
\* poller is borrowed until the interface is made: see DropPoller.
MakeSocket(s) ==
  /\ stage[s] = "none" /\ epollOpen
  /\ stage' = [stage EXCEPT ![s] = "made"]
  /\ listenerRefs' = [listenerRefs EXCEPT ![s] = 1]
  /\ UNCHANGED <<closed, kernelVars, threadVars, taskVars>>

\* add_item, up to epoll_ctl: epoll reports at once what has arrived already.
EpollAdd(s) ==
  /\ stage[s] = "made"
  /\ stage' = [stage EXCEPT ![s] = "added"]
  /\ IF buffer[s] = <<>> THEN UNCHANGED ready ELSE MarkReady(s)
  /\ UNCHANGED <<closed, listenerRefs, buffer, arrived, before, epollOpen,
                 threadVars, taskVars>>

\* epoll_ctl fails: the ticket, the listener and the socket are dropped.
EpollAddFails(s) ==
  /\ stage[s] = "made"
  /\ stage' = [stage EXCEPT ![s] = "dropped"]
  /\ removing' = removing \cup {s}
  /\ DropListener(s, 1, "dropped")
  /\ UNCHANGED <<buffer, arrived, before, epollOpen, threadVars,
                 events, handlers, reading, delivering>>

\* The rest of add_item: the listener's reference moves into the map.
InsertHandler(s) ==
  /\ stage[s] = "added"
  /\ stage' = [stage EXCEPT ![s] = "connected"]
  /\ handlers' = handlers \cup {s}
  /\ before' = [before EXCEPT ![s] = arrived[s]]
  /\ UNCHANGED <<closed, listenerRefs, buffer, arrived, ready, epollOpen,
                 threadVars, events, removing, reading, delivering>>

DropInterfaceOnly(s) ==
  /\ stage[s] = "connected"
  /\ stage' = [stage EXCEPT ![s] = "dropped"]
  /\ UNCHANGED <<closed, listenerRefs, kernelVars, threadVars, taskVars>>

\* The interface is dropped, its ticket first.
DropInterface(s) ==
  /\ stage[s] = "connected"
  /\ stage' = [stage EXCEPT ![s] = "dropped"]
  /\ removing' = removing \cup {s}
  /\ UNCHANGED <<closed, listenerRefs, kernelVars, threadVars,
                 events, handlers, reading, delivering>>

\* The task a dropped ticket spawns.
RemoveHandler(s) ==
  /\ s \in removing
  /\ removing' = removing \ {s}
  /\ handlers' = handlers \ {s}
  /\ DropListener(s, IF s \in handlers THEN 1 ELSE 0, stage[s])
  /\ UNCHANGED <<stage, buffer, arrived, before, epollOpen, threadVars,
                 events, reading, delivering>>

-----------------------------------------------------------------------------
(* The kernel (external). *)

\* A packet arrives: an edge for epoll, whether or not earlier packets are
\* still there.
PacketArrives(s) ==
  /\ Open(s) /\ arrived[s] < MaxPackets
  /\ arrived' = [arrived EXCEPT ![s] = @ + 1]
  /\ buffer' = [buffer EXCEPT ![s] = Append(@, arrived[s] + 1)]
  /\ IF epollOpen /\ stage[s] # "made" THEN MarkReady(s) ELSE UNCHANGED ready
  /\ UNCHANGED <<interfaceVars, before, epollOpen, threadVars, taskVars>>

-----------------------------------------------------------------------------
(* The poller thread. *)

\* epoll_wait returns the oldest entries of the ready list, and forgets them;
\* a socket that has been emptied since is not reported.
EpollWait ==
  LET n        == IF Len(ready) < MaxEvents THEN Len(ready) ELSE MaxEvents
      reported == {s \in Range(SubSeq(ready, 1, n)) : buffer[s] # <<>>}
  IN  /\ polling /\ epollOpen /\ ready # <<>>
      /\ ready' = SubSeq(ready, n + 1, Len(ready))
      /\ events' = [s \in Sockets |-> events[s] + (IF s \in reported THEN 1 ELSE 0)]
      /\ UNCHANGED <<interfaceVars, buffer, arrived, before, epollOpen, threadVars,
                     handlers, removing, reading, delivering>>

\* Any error of epoll_wait ends the thread for good; so does the closing of the
\* instance, by the error it makes or by the flags that follow.
EpollWaitFails ==
  /\ polling
  /\ \/ ~epollOpen /\ UNCHANGED interrupts
     \/ epollOpen /\ interrupts > 0 /\ interrupts' = interrupts - 1
  /\ polling' = FALSE
  /\ UNCHANGED <<interfaceVars, kernelVars, taskVars>>

\* Drop for Poller: the instance is closed before the thread is told to stop.
\* Not while LinuxInetPacketNetworkInterface::new has it on loan.
DropPoller ==
  /\ epollOpen
  /\ \A s \in Sockets : stage[s] \notin {"made", "added"}
  /\ epollOpen' = FALSE
  /\ ready' = <<>>
  /\ UNCHANGED <<interfaceVars, buffer, arrived, before, threadVars, taskVars>>

\* The task for an event looks the handler up and spawns its recv.
LookUpUncounted(s) ==
  /\ events[s] > 0
  /\ events' = [events EXCEPT ![s] = @ - 1]
  /\ reading' = [reading EXCEPT ![s] = @ + (IF s \in handlers THEN 1 ELSE 0)]
  /\ UNCHANGED <<interfaceVars, kernelVars, threadVars, handlers, removing, delivering>>

LookUp(s) ==
  /\ events[s] > 0
  /\ events' = [events EXCEPT ![s] = @ - 1]
  /\ IF s \in handlers
     THEN /\ listenerRefs' = [listenerRefs EXCEPT ![s] = @ + 1]
          /\ reading' = [reading EXCEPT ![s] = @ + 1]
     ELSE UNCHANGED <<listenerRefs, reading>>
  /\ UNCHANGED <<stage, closed, kernelVars, threadVars, handlers, removing, delivering>>

-----------------------------------------------------------------------------
(* PollerListener::recv.  An error other than EAGAIN is reported and the      *)
(* call is repeated, which changes nothing here.                            *)

\* recv(2) returns a packet.
Recv(s) ==
  /\ reading[s] > 0 /\ buffer[s] # <<>>
  /\ reading' = [reading EXCEPT ![s] = @ - 1]
  /\ delivering' = [delivering EXCEPT ![s] = @ \cup {Head(buffer[s])}]
  /\ buffer' = [buffer EXCEPT ![s] = Tail(@)]
  /\ UNCHANGED <<interfaceVars, arrived, before, ready, epollOpen, threadVars,
                 events, handlers, removing>>

\* recv(2) returns EAGAIN: the task ends.
RecvEmpty(s) ==
  /\ reading[s] > 0 /\ buffer[s] = <<>>
  /\ reading' = [reading EXCEPT ![s] = @ - 1]
  /\ DropListener(s, 1, stage[s])
  /\ UNCHANGED <<stage, buffer, arrived, before, epollOpen, threadVars,
                 events, handlers, removing, delivering>>

DeliverOnce(s, p) ==
  /\ p \in delivering[s]
  /\ delivering' = [delivering EXCEPT ![s] = @ \ {p}]
  /\ DropListener(s, 1, stage[s])
  /\ UNCHANGED <<stage, buffer, arrived, before, epollOpen, threadVars,
                 events, handlers, removing, reading>>

\* on_recv has the packet; the task goes on to the next.
Deliver(s, p) ==
  /\ p \in delivering[s]
  /\ delivering' = [delivering EXCEPT ![s] = @ \ {p}]
  /\ reading' = [reading EXCEPT ![s] = @ + 1]
  /\ UNCHANGED <<interfaceVars, kernelVars, threadVars, events, handlers, removing>>

-----------------------------------------------------------------------------
Task(s) ==
  \/ LookUp(s) \/ Recv(s) \/ RecvEmpty(s)
  \/ \E p \in 1 .. MaxPackets : Deliver(s, p)

Next ==
  \/ \E s \in Sockets :
       \/ MakeSocket(s) \/ EpollAdd(s) \/ EpollAddFails(s) \/ InsertHandler(s)
       \/ DropInterface(s) \/ RemoveHandler(s)
       \/ PacketArrives(s)
       \/ Task(s)
  \/ EpollWait \/ EpollWaitFails \/ DropPoller

\* The thread comes back to epoll_wait, and tokio runs every task that can go
\* on.  Nothing is assumed of the network, of failures or of who drops what.
Fairness ==
  /\ WF_vars(EpollWait)
  /\ \A s \in Sockets : /\ WF_vars(InsertHandler(s))
                        /\ WF_vars(RemoveHandler(s))
                        /\ WF_vars(Task(s))

Spec == Init /\ [][Next]_vars /\ Fairness

-----------------------------------------------------------------------------
\* A socket's descriptor is never used again once it is closed: no task that
\* can still call recv outlives the last reference, however the drop of the
\* interface, the removal from the map and the running tasks interleave.
NoUseAfterClose ==
  \A s \in closed : s \notin handlers /\ reading[s] = 0 /\ delivering[s] = {}

\* The last packet that arrived found the handler in place.
Covered(s) == s \in handlers /\ arrived[s] > before[s]

\* No lost wakeup: packets wait in a covered socket only while epoll has an
\* edge for it, an event is being looked up, or a task will read on.
NoLostWakeup ==
  \A s \in Sockets :
    Covered(s) /\ epollOpen /\ buffer[s] # <<>> =>
      s \in Range(ready) \/ events[s] > 0 \/ reading[s] > 0 \/ delivering[s] # {}

\* Packets are handed over in the end if one of them arrived with the handler
\* in place, unless the interface or the poller goes.  (Without such a packet
\* they may stay: the edge of what arrives between epoll_ctl and the insertion
\* finds no handler.)
EventuallyHandedOver ==
  \A s \in Sockets :
    Covered(s) ~> \/ buffer[s] = <<>> /\ delivering[s] = {}
                  \/ s \notin handlers
                  \/ ~polling \/ ~epollOpen

\* The socket of a dropped interface is closed in the end.
EventuallyClosed ==
  \A s \in Sockets : stage[s] = "dropped" ~> s \in closed

\* "Edge triggering will prevent a socket from being read across multiple
\* threads" (network.rs, poller_process_messages).
OneReader == \A s \in Sockets : reading[s] + Cardinality(delivering[s]) <= 1
=============================================================================
