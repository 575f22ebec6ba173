--------------------------- MODULE NetlinkSocket ----------------------------
(***************************************************************************)
(* DefaultNetlinkSocket (netlink/socket.rs) with the two tasks that live   *)
(* on it:                                                                  *)
(*                                                                         *)
(*   - the worker of the InterfaceManager, which sends a request for the   *)
(*     links and one for the addresses on every poll and collects each     *)
(*     answer until the kernel says it is done, or nothing has come for    *)
(*     100 ms;                                                             *)
(*   - the task that collects the kernel's multicast messages on a socket  *)
(*     of its own until nothing has come for 100 ms, and then hands them   *)
(*     to the listener one by one.                                         *)
(*                                                                         *)
(* Dropping the InterfaceManager stops the worker at its next tick, which  *)
(* drops the socket, which stops the multicast task.                       *)
(*                                                                         *)
(* A datagram is a sequence of messages.  build_default_packet draws the   *)
(* sequence number of a request at random from 32 bits: here every request *)
(* has a number of its own.  A receive that fails is repeated, so all that *)
(* is seen of it is the datagram that was lost.                            *)
(***************************************************************************)
EXTENDS Naturals, FiniteSets, SequencesExt

CONSTANTS
  Parts,        \* how many messages a dump has, the final one not counted
  MaxPolls,     \* bound on the polls of the worker
  MaxEvents,    \* bound on the multicast messages of the kernel
  MaxFaults     \* bound on datagrams lost, refused or unreadable

ASSUME BoundsAssumption ==
  /\ Parts \in Nat \ {0} /\ MaxPolls \in Nat \ {0}
  /\ MaxEvents \in Nat /\ MaxFaults \in Nat

VARIABLES
  manager,      \* the InterfaceManager: "new", "running", "dropped"
  worker,       \* "idle", "links", "linksDone", "addresses", "ended"
  open,         \* the flag `running` of the socket
  asked,        \* how many requests have been sent; the last one's number
  answer,       \* what send_message has collected, and how it ended
  dumps,        \* request -> the message of its dump the kernel sends next
  replies,      \* datagrams at the request socket
  task,         \* the multicast task, with the messages it has collected
  events,       \* datagrams at the multicast socket
  announced,    \* how many multicast messages the kernel has sent
  delivered,    \* those handed to the listener, in order
  lost,         \* those that were lost on the way, or came unreadable
  spoiled,      \* requests that timed out, or whose answer is refused, lost or
                \* unreadable in part
  polls,        \* polls the worker may still make
  faults        \* faults that may still happen

managerVars == <<manager, worker, open, asked, answer, polls>>
kernelVars  == <<dumps, replies, spoiled>>
taskVars    == <<task, events, announced, delivered, lost>>
vars == <<managerVars, kernelVars, taskVars, faults>>

-----------------------------------------------------------------------------
(* Netlink messages and recv_loop.  Sequence number 0 is the multicasts'.   *)

Message(seq, type, n) == [seq |-> seq, type |-> type, n |-> n]

\* The n-th message of the answer to request r: its last one says done.
DumpMessage(r, n) == Message(r, IF n <= Parts THEN "part" ELSE "done", n)

Unfiltered == 0

MatchesAll(m, wanted) == TRUE

\* Messages of other requests are passed over, if they can be read at all.
Matches(m, wanted) == wanted = Unfiltered \/ m.seq = wanted

EndsAtAnyDone(m, wanted) == m.type \in {"garbage", "done"}

\* What ends recv_loop within a datagram: a message that cannot be read, or
\* the end of the dump that is waited for.
Ends(m, wanted) == m.type = "garbage" \/ (m.type = "done" /\ Matches(m, wanted))

\* The place of the message that ends the loop, or the one after the last.
Stop(d, wanted) ==
  LET ends == {p \in DOMAIN d : Ends(d[p], wanted)} IN
  IF ends = {} THEN Len(d) + 1 ELSE Min(ends)

\* What the callback has been given of the first p messages of a datagram.
Given(d, wanted) ==
  LET given[p \in 0 .. Len(d)] ==
        IF p = 0 THEN <<>>
        ELSE IF Matches(d[p], wanted) THEN Append(given[p - 1], d[p]) ELSE given[p - 1]
  IN  given

Collected(d, wanted) == Given(d, wanted)[Stop(d, wanted) - 1]

\* "more": the loop goes on to the next datagram.
Outcome(d, wanted) ==
  IF Stop(d, wanted) > Len(d) THEN "more"
  ELSE IF d[Stop(d, wanted)].type = "done" THEN "received" ELSE "failed"

-----------------------------------------------------------------------------
(* The kernel (external). *)

Fault == faults > 0 /\ faults' = faults - 1

\* One of the messages of a datagram comes in a form the library cannot read.
Garbled(d) == {[d EXCEPT ![p].type = "garbage"] : p \in DOMAIN d}

\* The next messages of the dump for request r, as many as fit a datagram.  The
\* kernel makes one dump at a time.
KernelAnswers(r) ==
  /\ dumps[r] <= Parts + 1
  /\ \A q \in 1 .. r - 1 : dumps[q] > Parts + 1
  /\ \E last \in dumps[r] .. Parts + 1 :
       LET d == [p \in 1 .. last - dumps[r] + 1 |-> DumpMessage(r, dumps[r] + p - 1)]
       IN  /\ dumps' = [dumps EXCEPT ![r] = last + 1]
           /\ \/ replies' = Append(replies, d) /\ UNCHANGED <<spoiled, faults>>
              \/ Fault /\ spoiled' = spoiled \cup {r} /\ UNCHANGED replies
              \/ /\ Fault /\ spoiled' = spoiled \cup {r}
                 /\ \E g \in Garbled(d) : replies' = Append(replies, g)
  /\ UNCHANGED <<managerVars, taskVars>>

\* An error in place of a dump.
KernelRefuses(r) ==
  /\ dumps[r] = 1
  /\ Fault
  /\ dumps' = [dumps EXCEPT ![r] = Parts + 2]
  /\ replies' = Append(replies, <<Message(r, "error", 1)>>)
  /\ spoiled' = spoiled \cup {r}
  /\ UNCHANGED <<managerVars, taskVars>>

KernelAnnounces ==
  /\ announced < MaxEvents
  /\ announced' = announced + 1
  /\ LET d == <<Message(0, "event", announced')>> IN
     \/ events' = Append(events, d) /\ UNCHANGED <<lost, faults>>
     \/ Fault /\ lost' = lost \cup {announced'} /\ UNCHANGED events
     \/ /\ Fault /\ lost' = lost \cup {announced'}
        /\ \E g \in Garbled(d) : events' = Append(events, g)
  /\ UNCHANGED <<managerVars, kernelVars, task, delivered>>

Kernel == KernelAnnounces \/ \E r \in 1 .. asked : KernelAnswers(r) \/ KernelRefuses(r)

-----------------------------------------------------------------------------
(* The worker: InterfaceManagerWorker::start, poll and try_poll, up to the  *)
(* two answers; what it makes of them is in InterfaceManager.               *)

\* send_message: the request is on its way.
Send(next) ==
  /\ worker' = next
  /\ asked' = asked + 1
  /\ answer' = [how |-> "waiting", messages |-> <<>>]
  /\ dumps' = Append(dumps, 1)
  /\ UNCHANGED <<manager, open, replies, spoiled, taskVars, faults>>

PollOverRunsOn ==
  /\ worker' = "idle"
  /\ manager' = "running"

\* The first poll is part of InterfaceManager::new.
PollOver ==
  /\ worker' = "idle"
  /\ manager' = IF manager = "new" THEN "running" ELSE manager

\* interval.tick(), and the loop's condition holds.
PollBegins ==
  /\ worker = "idle" /\ manager # "dropped"
  /\ polls > 0 /\ polls' = polls - 1
  /\ Send("links")

AskForAddresses ==
  /\ worker = "linksDone"
  /\ Send("addresses")
  /\ UNCHANGED polls

\* The socket does not take the request for the addresses.
SendFails ==
  /\ worker = "linksDone"
  /\ Fault
  /\ PollOver
  /\ UNCHANGED <<open, asked, answer, polls, kernelVars, taskVars>>

Waiting == worker \in {"links", "addresses"}

\* send_message returns Ok, or an error, which ends the poll.
Return(how, messages) ==
  /\ answer' = [how |-> how, messages |-> messages]
  /\ IF worker = "links" /\ how = "returned"
     THEN worker' = "linksDone" /\ UNCHANGED manager
     ELSE PollOver

ReceiveReply ==
  /\ Waiting /\ replies # <<>>
  /\ replies' = Tail(replies)
  /\ LET d   == Head(replies)
         all == answer.messages \o Collected(d, asked)
     IN  CASE Outcome(d, asked) = "more" ->
                /\ answer' = [answer EXCEPT !.messages = all]
                /\ UNCHANGED <<manager, worker, spoiled>>
           [] Outcome(d, asked) = "received" ->
                Return("returned", all) /\ UNCHANGED spoiled
           [] Outcome(d, asked) = "failed" ->
                Return("failed", <<>>) /\ UNCHANGED spoiled
  /\ UNCHANGED <<open, asked, polls, dumps, taskVars, faults>>

\* 100 ms without a datagram: RecvState::Timeout, which send_message ignores.
ReplyTimeout ==
  /\ Waiting /\ replies = <<>>
  /\ Return("returned", answer.messages)
  /\ spoiled' = spoiled \cup {asked}
  /\ UNCHANGED <<open, asked, polls, dumps, replies, taskVars, faults>>

WorkerEndsOnly ==
  /\ worker = "idle" /\ manager = "dropped"
  /\ worker' = "ended"
  /\ UNCHANGED <<manager, open, asked, answer, polls, kernelVars, taskVars, faults>>

\* The worker ends and drops the last reference to the socket.
WorkerEnds ==
  /\ worker = "idle" /\ manager = "dropped"
  /\ worker' = "ended"
  /\ open' = FALSE
  /\ UNCHANGED <<manager, asked, answer, polls, kernelVars, taskVars, faults>>

Worker ==
  PollBegins \/ AskForAddresses \/ SendFails \/ ReceiveReply \/ ReplyTimeout \/ WorkerEnds

\* The owner of the InterfaceManager drops it, whatever the worker is doing.
DropManager ==
  /\ manager = "running"
  /\ manager' = "dropped"
  /\ UNCHANGED <<worker, open, asked, answer, polls, kernelVars, taskVars, faults>>

-----------------------------------------------------------------------------
(* The multicast task: recv_multicast_messages.                             *)

TaskLoops ==
  /\ task.at = "delivering" /\ task.messages = <<>>
  /\ task' = [task EXCEPT !.at = IF open THEN "receiving" ELSE "ended"]
  /\ UNCHANGED <<managerVars, kernelVars, events, announced, delivered, lost, faults>>

CollectEventOrNothing ==
  /\ task.at = "receiving" /\ events # <<>>
  /\ events' = Tail(events)
  /\ task' = IF Outcome(Head(events), Unfiltered) = "more"
             THEN [task EXCEPT !.messages = @ \o Collected(Head(events), Unfiltered)]
             ELSE [at |-> "delivering", messages |-> <<>>]
  /\ UNCHANGED <<managerVars, kernelVars, announced, delivered, lost, faults>>

\* The messages collected so far are kept even when the loop fails.
CollectEvent ==
  /\ task.at = "receiving" /\ events # <<>>
  /\ events' = Tail(events)
  /\ task' = [at |-> IF Outcome(Head(events), Unfiltered) = "more" THEN "receiving"
                                                            ELSE "delivering",
              messages |-> task.messages \o Collected(Head(events), Unfiltered)]
  /\ UNCHANGED <<managerVars, kernelVars, announced, delivered, lost, faults>>

\* 100 ms without a datagram.
EventTimeout ==
  /\ task.at = "receiving" /\ events = <<>>
  /\ task' = [task EXCEPT !.at = "delivering"]
  /\ UNCHANGED <<managerVars, kernelVars, events, announced, delivered, lost, faults>>

DeliverEvent ==
  /\ task.at = "delivering" /\ task.messages # <<>>
  /\ delivered' = Append(delivered, Head(task.messages).n)
  /\ task' = [task EXCEPT !.messages = Tail(@)]
  /\ UNCHANGED <<managerVars, kernelVars, events, announced, lost, faults>>

Task == TaskLoops \/ CollectEvent \/ EventTimeout \/ DeliverEvent

-----------------------------------------------------------------------------
Init ==
  /\ manager = "new" /\ worker = "idle" /\ open = TRUE
  /\ asked = 0 /\ answer = [how |-> "none", messages |-> <<>>]
  /\ dumps = <<>> /\ replies = <<>>
  /\ task = [at |-> "delivering", messages |-> <<>>]
  /\ events = <<>> /\ announced = 0 /\ delivered = <<>> /\ lost = {}
  /\ spoiled = {}
  /\ polls = MaxPolls /\ faults = MaxFaults

Next == Kernel \/ Worker \/ DropManager \/ Task

\* Both tasks run: a tick comes every ten seconds, and a receive ends with a
\* datagram or after 100 ms.  Nothing is assumed of the kernel, except that the
\* bound on its multicasts makes it fall silent in the end.
Spec == Init /\ [][Next]_vars /\ WF_vars(Worker) /\ WF_vars(Task)

-----------------------------------------------------------------------------
(* What must hold. *)

Types == {"part", "done", "error", "garbage", "event"}

Messages == [seq : 0 .. asked, type : Types, n : 1 .. Parts + 1 + MaxEvents]

TypeOK ==
  /\ manager \in {"new", "running", "dropped"}
  /\ worker \in {"idle", "links", "linksDone", "addresses", "ended"}
  /\ open = (worker # "ended")
  /\ asked \in 0 .. 2 * MaxPolls
  /\ answer.how \in {"none", "waiting", "returned", "failed"}
  /\ \A p \in DOMAIN answer.messages : answer.messages[p] \in Messages
  /\ Len(dumps) = asked /\ \A r \in 1 .. asked : dumps[r] \in 1 .. Parts + 2
  /\ \A q \in {replies, events} : \A p \in DOMAIN q : \A i \in DOMAIN q[p] : q[p][i] \in Messages
  /\ task.at \in {"receiving", "delivering", "ended"}
  /\ \A p \in DOMAIN task.messages : task.messages[p] \in Messages
  /\ spoiled \subseteq 1 .. asked
  /\ lost \subseteq 1 .. announced

\* A request that timed out leaves the rest of its dump to arrive during the
\* next one, on the same socket.  send_message never hands out a message of
\* another request, and hands out those of its own once each, in order.
AnswerIsOwn ==
  /\ \A p \in DOMAIN answer.messages :
       answer.messages[p].seq = asked /\ answer.messages[p].type \in {"part", "error"}
  /\ \A p, q \in DOMAIN answer.messages :
       p < q => answer.messages[p].n < answer.messages[q].n

\* The messages at the request socket that cannot be read.
Unreadable ==
  {m \in UNION {Range(replies[p]) : p \in DOMAIN replies} : m.type = "garbage"}

\* What send_message returns is what Dumps promises.  A dump with something missing
\* comes only where something has gone wrong with this very request: nothing an
\* earlier one left behind gets into it, or ends it early.  An error comes only of a
\* message that cannot be read, and there an earlier request does reach into this
\* one: a message is read before its sequence number is looked at, so what is left
\* of another answer and cannot be read makes this request fail.
Service ==
  INSTANCE Dumps WITH
    request <- asked,
    answer  <- [how |-> answer.how,
                parts |-> IF answer.how # "returned" THEN {}
                          ELSE {answer.messages[p].n :
                                  p \in {p \in DOMAIN answer.messages :
                                           answer.messages[p].type = "part"}}],
    excused <- asked \in spoiled,
    unreadable <- Unreadable

ImplementsDumps == Service!Spec

Numbers(messages) == [p \in DOMAIN messages |-> messages[p].n]

\* The readable messages that still wait at the multicast socket.
Readable == {p \in DOMAIN events : events[p][1].type = "event"}

\* Every multicast message that was not lost is delivered, collected or still
\* waiting, once, and in the order the kernel sent them, even when the loop that
\* collected it fails on a later one.
EventsInOrder ==
  LET taken == delivered \o Numbers(task.messages)
  IN  /\ \A p, q \in DOMAIN taken : p < q => taken[p] < taken[q]
      /\ \A p, q \in Readable : p < q => events[p][1].n < events[q][1].n
      /\ \A p \in DOMAIN taken, q \in Readable : taken[p] < events[q][1].n
      /\ Range(taken) \cup {events[q][1].n : q \in Readable} = (1 .. announced) \ lost

\* Collected messages are held back until the kernel is silent for 100 ms; when
\* that happens they all reach the listener, unless the task has been stopped.
EventuallyDelivered ==
  \A n \in 1 .. MaxEvents :
    n <= announced ~> n \in {delivered[p] : p \in DOMAIN delivered} \cup lost
                      \/ task.at = "ended"

\* Dropping the InterfaceManager ends both tasks, whatever each is waiting for:
\* a dump, a tick, or silence on the multicast socket.
EventuallyEnded ==
  manager = "dropped" ~> worker = "ended" /\ task.at = "ended"
=============================================================================
