----------------------------- MODULE StatusFeed -----------------------------
(***************************************************************************)
(* The subscribers of the InterfaceManager (interface/mod.rs): who is told *)
(* what, over channels of limited capacity, and what a client that lists   *)
(* and then subscribes, as the router program does (main.rs), ends up      *)
(* believing.                                                              *)
(*                                                                         *)
(* The database is reduced to a status for each entry, a link or an        *)
(* interface, as its name and its device tell it apart for a client; what  *)
(* other identities it is filed under is left open.  Its two writers are   *)
(* those of InterfaceManager:                                              *)
(*   - the listener stores an entry and tells the subscribers of it, while *)
(*     it keeps the database lock, or changes an entry and tells nobody;   *)
(*   - the poll changes any entries under the lock and tells the           *)
(*     subscribers after it has released it.                               *)
(* An entry that is displaced, by another one that has taken over one of   *)
(* the keys it was filed under, goes without a word from either.           *)
(* Telling holds the lock of the subscriber list and never waits for a     *)
(* channel: a subscriber that has no room, or is gone, is removed.         *)
(***************************************************************************)
EXTENDS Naturals, FiniteSets, SequencesExt

CONSTANTS
  LinkEntries,  \* links the database can list
  OtherEntries, \* interfaces it can list
  Configured,   \* those of either that have a configured name
  KernelStates, \* operational states the kernel reports
  Clients,      \* programs that list and subscribe
  Capacity,     \* of a client's channel
  MaxWrites     \* bound on the changes of the database

Absent == "Absent"

ASSUME FeedAssumption ==
  /\ IsFiniteSet(LinkEntries) /\ IsFiniteSet(OtherEntries)
  /\ LinkEntries \cap OtherEntries = {} /\ Configured \subseteq LinkEntries \cup OtherEntries
  /\ KernelStates \cap {Absent, "NotFound"} = {}
  /\ Capacity \in Nat \ {0} /\ MaxWrites \in Nat

Entries == LinkEntries \cup OtherEntries

Statuses == KernelStates \cup {"NotFound"}

\* What is configured is listed even if the kernel does not have it.
Missing(e) == IF e \in Configured THEN "NotFound" ELSE Absent

\* An interface that is gone may be believed to be NotFound.
Agree(e, believed, actual) ==
  believed = actual \/ (e \in OtherEntries /\ actual = Absent /\ believed = "NotFound")

VARIABLES
  db,           \* entry -> its status, or Absent
  listener,     \* the listener has the database lock
  poll,         \* what the poll has still to tell
  telling,      \* who has the lock of the subscriber list, and whom it has yet
                \* to tell what
  subscribers,  \* the clients on the list
  client,       \* client -> "new", "links", "listed", "subscribed",
                \* "gone"
  channel,      \* client -> updates in its channel
  heard,        \* client -> updates it has received
  view,         \* client -> what it believes of every entry
  log,          \* every update the subscribers were to be told, in order
  since,        \* client -> length of log when it subscribed
  stale,        \* client -> entries it may be wrong about
  writes        \* changes that may still be made

clientVars == <<subscribers, client, channel, heard, view, since>>
vars == <<db, listener, poll, telling, clientVars, log, stale, writes>>

-----------------------------------------------------------------------------
(* Telling the subscribers: the calls of subscribers.retain. *)

Update(e, s) == [entry |-> e, status |-> s]

Nobody == [by |-> "nobody", left |-> [c \in Clients |-> <<>>]]

\* The lock of the subscriber list is taken, and the updates go to each of them.
StartTelling(by, updates) ==
  /\ telling = Nobody
  /\ telling' = [by |-> by,
                 left |-> [c \in Clients |-> IF c \in subscribers THEN updates ELSE <<>>]]
  /\ log' = log \o updates

RemovedKeepsSending(c) ==
  /\ subscribers' = subscribers \ {c}
  /\ telling' = [telling EXCEPT !.left[c] = Tail(@)]
  /\ UNCHANGED channel

\* retain drops the sender: what is in the channel can still be received.
Removed(c) ==
  /\ subscribers' = subscribers \ {c}
  /\ telling' = [telling EXCEPT !.left[c] = <<>>]
  /\ UNCHANGED channel

HasRoom(c) == client[c] # "gone" /\ Len(channel[c]) < Capacity

Sent(c) ==
  /\ channel' = [channel EXCEPT ![c] = Append(@, Head(telling.left[c]))]
  /\ telling' = [telling EXCEPT !.left[c] = Tail(@)]
  /\ UNCHANGED subscribers

TrySendOrSkip(c) ==
  /\ telling.left[c] # <<>>
  /\ IF HasRoom(c) THEN Sent(c)
     ELSE /\ telling' = [telling EXCEPT !.left[c] = Tail(@)]
          /\ UNCHANGED <<subscribers, channel>>
  /\ UNCHANGED <<db, listener, poll, client, heard, view, since, log, stale, writes>>

WaitToSend(c) ==
  /\ telling.left[c] # <<>>
  /\ HasRoom(c) /\ Sent(c)
  /\ UNCHANGED <<db, listener, poll, client, heard, view, since, log, stale, writes>>

\* try_send: the first one that fails ends the subscription.
TrySend(c) ==
  /\ telling.left[c] # <<>>
  /\ IF HasRoom(c) THEN Sent(c) ELSE Removed(c)
  /\ UNCHANGED <<db, listener, poll, client, heard, view, since, log, stale, writes>>

AllTold ==
  /\ telling.by # "nobody"
  /\ \A c \in Clients : telling.left[c] = <<>>
  /\ telling' = Nobody
  /\ UNCHANGED <<db, listener, poll, clientVars, log, stale, writes>>

Tell == AllTold \/ \E c \in Clients : TrySend(c)

-----------------------------------------------------------------------------
(* The writers of the database. *)

Write == writes > 0 /\ writes' = writes - 1

Overtakes(e) == \E p \in DOMAIN poll : poll[p].entry = e

\* The client has read the entry and is not on the list of subscribers yet.
Listed(c, e) == client[c] = "listed" \/ (client[c] = "links" /\ e \in LinkEntries)

\* NewLink: a link is stored, or the interface on it after the link has been
\* told, and the subscribers are told of it.  Another link that was filed under
\* the index of the new one is displaced.  An update the poll has still to send about
\* the same entry is older.  A client on the list will hear of the entry; one that
\* has listed but not yet subscribed will not.
Store(e, s, displaced) ==
  /\ Write
  /\ displaced # {} => e \in LinkEntries /\ displaced \subseteq LinkEntries \ {e}
  /\ Cardinality(displaced) <= 1
  /\ \A d \in displaced : db[d] # Absent
  /\ db' = [d \in Entries |-> IF d = e THEN s ELSE IF d \in displaced THEN Absent ELSE db[d]]
  /\ listener' = TRUE
  /\ StartTelling("listener", <<Update(e, s)>>)
  /\ stale' = [c \in Clients |->
                 displaced \cup (IF Overtakes(e) \/ Listed(c, e) THEN stale[c] \cup {e}
                                                                ELSE stale[c] \ {e})]
  /\ UNCHANGED <<poll, clientVars>>

\* message_received returns: the database lock is free again.
ListenerDone ==
  /\ listener /\ telling.by # "listener"
  /\ listener' = FALSE
  /\ UNCHANGED <<db, poll, telling, clientVars, log, stale, writes>>

\* DelLink, NewAddress and DelAddress change an entry, or remove it, and notify
\* nobody: where they would, the code has a TODO.
ChangeSilently(e, s) ==
  /\ ~listener
  /\ Write
  /\ db[e] # Absent /\ s # db[e]
  /\ db' = [db EXCEPT ![e] = s]
  /\ stale' = [c \in Clients |-> stale[c] \cup {e}]
  /\ UNCHANGED <<listener, poll, telling, clientVars, log>>

\* What a poll can leave in the database.
Results ==
  {new \in [Entries -> Statuses \cup {Absent}] :
     \A e \in Entries : new[e] \in KernelStates \cup {Missing(e)}}

\* The entries a poll takes out of the database.
Gone(new) == {e \in Entries : db[e] # Absent /\ new[e] = Absent}

SameKind(e, f) == e \in LinkEntries <=> f \in LinkEntries

\* Whom a poll tells the subscribers of: what it changes, even if only the index;
\* and what is gone, unless an entry of the snapshot has taken over a key of it:
\* then it is removed with that entry, before what is left over is looked at.
MayTell(new, told) ==
  /\ told # {}
  /\ \A e \in Entries : new[e] \notin {db[e], Absent} => e \in told
  /\ \A e \in told : new[e] # Absent \/ e \in Gone(new)
  /\ \A e \in Gone(new) \ told : \E f \in told : f # e /\ SameKind(e, f) /\ new[f] # Absent

\* A link that is gone is sent with the status it last had, an interface as
\* NotFound.
FarewellAsItWas(e) == Update(e, db[e])

Farewell(e) == Update(e, IF e \in LinkEntries THEN db[e] ELSE "NotFound")

\* The order in which try_poll sends: the links, then the interfaces, and of each
\* what is gone before what is new.
News(new, told) ==
  LET Of(entries) ==
        SetToSeq({Farewell(e) : e \in told \cap Gone(new) \cap entries}) \o
        SetToSeq({Update(e, new[e]) : e \in (told \cap entries) \ Gone(new)})
  IN  Of(LinkEntries) \o Of(OtherEntries)

\* The poll changes the database and releases it.  A client that has listed but
\* not subscribed misses what is told before it does.
ApplyPoll(new, told) ==
  /\ ~listener /\ poll = <<>> /\ telling.by # "poll"
  /\ Write
  /\ MayTell(new, told)
  /\ db' = new
  /\ poll' = News(new, told)
  /\ stale' = [c \in Clients |->
                 (stale[c] \ told) \cup (Gone(new) \cap LinkEntries) \cup (Gone(new) \ told)]
  /\ UNCHANGED <<listener, telling, clientVars, log>>

NotifyPoll ==
  /\ poll # <<>>
  /\ StartTelling("poll", poll)
  /\ poll' = <<>>
  /\ stale' = [c \in Clients |->
                 stale[c] \cup {e \in Entries : Listed(c, e) /\ Overtakes(e)}]
  /\ UNCHANGED <<db, listener, clientVars, writes>>

Writers ==
  \/ \E e \in Entries, s \in KernelStates, displaced \in SUBSET LinkEntries :
       Store(e, s, displaced)
  \/ \E e \in Entries : \E s \in KernelStates \cup {Missing(e)} : ChangeSilently(e, s)
  \/ \E new \in Results, told \in SUBSET Entries : ApplyPoll(new, told)

-----------------------------------------------------------------------------
(* A client: main lists the links and interfaces, prints them, subscribes, and *)
(* may then receive, or not.                                                   *)

\* The news the poll has still to send say what the database does not say any more.
Outdated(e) ==
  \E p \in DOMAIN poll : poll[p].entry = e /\ ~Agree(e, poll[p].status, db[e])

List(c, before, entries, after) ==
  /\ client[c] = before /\ ~listener
  /\ client' = [client EXCEPT ![c] = after]
  /\ view' = [view EXCEPT ![c] = [e \in Entries |-> IF e \in entries THEN db[e] ELSE @[e]]]
  /\ stale' = [stale EXCEPT ![c] = (@ \ entries) \cup {e \in entries : Outdated(e)}]
  /\ UNCHANGED <<db, listener, poll, telling, subscribers, channel, heard, since,
                 log, writes>>

ListNetworkLinks(c)      == List(c, "new", LinkEntries, "links")
ListNetworkInterfaces(c) == List(c, "links", OtherEntries, "listed")

\* The lock of the subscriber list is free.
Subscribe(c) ==
  /\ client[c] = "listed" /\ telling = Nobody
  /\ client' = [client EXCEPT ![c] = "subscribed"]
  /\ subscribers' = subscribers \cup {c}
  /\ since' = [since EXCEPT ![c] = Len(log)]
  /\ UNCHANGED <<db, listener, poll, telling, channel, heard, view, log, stale, writes>>

Receive(c) ==
  /\ client[c] = "subscribed" /\ channel[c] # <<>>
  /\ LET u == Head(channel[c]) IN
     /\ view' = [view EXCEPT ![c][u.entry] = u.status]
     /\ heard' = [heard EXCEPT ![c] = Append(@, u)]
  /\ channel' = [channel EXCEPT ![c] = Tail(@)]
  /\ UNCHANGED <<db, listener, poll, telling, subscribers, client, since, log,
                 stale, writes>>

\* The receiver is dropped; its sender stays on the list until it is used.
Leave(c) ==
  /\ client[c] = "subscribed"
  /\ client' = [client EXCEPT ![c] = "gone"]
  /\ channel' = [channel EXCEPT ![c] = <<>>]
  /\ UNCHANGED <<db, listener, poll, telling, subscribers, heard, view, since, log,
                 stale, writes>>

Client ==
  \E c \in Clients :
    \/ ListNetworkLinks(c) \/ ListNetworkInterfaces(c) \/ Subscribe(c)
    \/ Receive(c) \/ Leave(c)

-----------------------------------------------------------------------------
Init ==
  /\ db = [e \in Entries |-> Absent]
  /\ listener = FALSE /\ poll = <<>> /\ telling = Nobody
  /\ subscribers = {} /\ client = [c \in Clients |-> "new"]
  /\ channel = [c \in Clients |-> <<>>] /\ heard = [c \in Clients |-> <<>>]
  /\ view = [c \in Clients |-> db]
  /\ log = <<>> /\ since = [c \in Clients |-> 0]
  /\ stale = [c \in Clients |-> {}]
  /\ writes = MaxWrites

Next == Tell \/ ListenerDone \/ NotifyPoll \/ Writers \/ Client

\* The tasks of the listener and of the poll run.  Clients need not.
Spec ==
  Init /\ [][Next]_vars /\ WF_vars(Tell) /\ WF_vars(ListenerDone) /\ WF_vars(NotifyPoll)

-----------------------------------------------------------------------------
(* What must hold. *)

Updates == [entry : Entries, status : Statuses]

TypeOK ==
  /\ db \in [Entries -> Statuses \cup {Absent}]
  /\ listener \in BOOLEAN
  /\ telling.by \in {"nobody", "listener", "poll"}
  /\ telling.by = "listener" => listener
  /\ subscribers \subseteq {c \in Clients : client[c] \in {"subscribed", "gone"}}
  /\ \A c \in Clients :
       /\ telling.left[c] # <<>> => c \in subscribers
       /\ Len(channel[c]) <= Capacity
       /\ \A u \in {channel[c][p] : p \in DOMAIN channel[c]} : u \in Updates
       /\ stale[c] \subseteq Entries
       /\ since[c] \in 0 .. Len(log)

\* What a client has received and will find in its channel is what was told
\* since it subscribed, without a gap: a subscriber on the list lacks only what is
\* being sent, and one that could not take an update never gets a later one.
NoGaps ==
  \A c \in Clients : client[c] = "subscribed" =>
    LET told == SubSeq(log, since[c] + 1, Len(log))
        got  == heard[c] \o channel[c]
    IN  /\ IsPrefix(got, told)
        /\ c \in subscribers => got \o telling.left[c] = told

Settled(c) ==
  /\ c \in subscribers /\ client[c] = "subscribed"
  /\ channel[c] = <<>> /\ telling = Nobody /\ poll = <<>>

\* A subscriber that has received everything there is believes of every entry
\* what the database says, except for one that has been changed, or displaced,
\* without a word; one told of between the client's list and its subscription; one
\* the listener told of while older news of the poll was still to be sent; or a link
\* the poll found gone.  What the next ordinary update of the entry says is right
\* again.
BelievesOrStale ==
  \A c \in Clients : Settled(c) =>
    \A e \in Entries \ stale[c] : Agree(e, view[c][e], db[e])

\* A subscriber that never receives, or has gone, holds up neither the listener,
\* which has the database lock meanwhile, nor the poll.
EventuallyTold == listener \/ poll # <<>> ~> ~listener /\ poll = <<>>
=============================================================================
