-------------------------- MODULE StatusFeed_proofs --------------------------
(***************************************************************************)
(* Proofs about the subscribers of the InterfaceManager (StatusFeed): a    *)
(* subscriber receives what was told without a gap, and what it believes   *)
(* is right or listed as stale, for any number of links, interfaces,       *)
(* clients and any capacity of their channels.                             *)
(***************************************************************************)
EXTENDS StatusFeed, SequenceFacts

-----------------------------------------------------------------------------
(* The inductive invariant. *)

\* What each variable holds.
Typed ==
  /\ db \in [Entries -> Statuses \cup {Absent}]
  /\ listener \in BOOLEAN
  /\ poll \in Seq(Updates)
  /\ telling \in [by : {"nobody", "listener", "poll"}, left : [Clients -> Seq(Updates)]]
  /\ subscribers \subseteq Clients
  /\ client \in [Clients -> {"new", "links", "listed", "subscribed", "gone"}]
  /\ channel \in [Clients -> Seq(Updates)]
  /\ heard \in [Clients -> Seq(Updates)]
  /\ view \in [Clients -> [Entries -> Statuses \cup {Absent}]]
  /\ log \in Seq(Updates)
  /\ since \in [Clients -> Nat]
  /\ stale \in [Clients -> SUBSET Entries]
  /\ writes \in Nat

\* Whoever tells the subscribers: the listener does it under the database lock,
\* and only clients on the list have something to be told.
Holding ==
  /\ telling.by = "listener" => listener
  /\ telling.by = "nobody" => telling = Nobody
  /\ \A c \in Clients : telling.left[c] # <<>> => c \in subscribers

\* A client's channel is there from its subscription on, and never holds more
\* than its capacity.
Channels ==
  \A c \in Clients :
    /\ Len(channel[c]) <= Capacity
    /\ since[c] <= Len(log)
    /\ c \in subscribers => client[c] \in {"subscribed", "gone"}
    /\ client[c] \in {"new", "links", "listed"} => channel[c] = <<>> /\ heard[c] = <<>>

Mentions(q, e) == \E p \in DOMAIN q : q[p].entry = e

AllAgree(q, e) == \A p \in DOMAIN q : q[p].entry = e => Agree(e, q[p].status, db[e])

\* What the client believes of the entry once it has emptied its channel is right.
WillAgree(c, e) ==
  \/ \E p \in DOMAIN channel[c] :
       /\ channel[c][p].entry = e
       /\ Agree(e, channel[c][p].status, db[e])
       /\ \A r \in DOMAIN channel[c] : r > p => channel[c][r].entry # e
  \/ ~Mentions(channel[c], e) /\ Agree(e, view[c][e], db[e])

\* The client has read the entry and has not lost its subscription.
Follows(c, e) == Listed(c, e) \/ (c \in subscribers /\ client[c] = "subscribed")

\* What is still to be told of the entry is right, and what has been told to the
\* client is right unless there is more to come.
Right(c, e) ==
  /\ AllAgree(poll, e) /\ AllAgree(telling.left[c], e)
  /\ Follows(c, e) =>
       Mentions(poll, e) \/ Mentions(telling.left[c], e) \/ WillAgree(c, e)

Current == \A c \in Clients : \A e \in Entries \ stale[c] : Right(c, e)

IInv == Typed /\ Holding /\ Channels /\ NoGaps /\ Current

-----------------------------------------------------------------------------
(* What the model's operators return. *)

\* No status is Absent, and Nobody tells nobody anything.
LEMMA FeedFacts ==
  /\ Absent \notin Statuses /\ IsFiniteSet(Entries)
  /\ Nobody \in [by : {"nobody", "listener", "poll"}, left : [Clients -> Seq(Updates)]]
<1>1. Absent \notin Statuses
  BY FeedAssumption DEF Statuses, Absent
<1>2. IsFiniteSet(Entries)
  BY FeedAssumption, FS_Union DEF Entries
<1>3. [c \in Clients |-> <<>>] \in [Clients -> Seq(Updates)]
  OBVIOUS
<1>4. QED
  BY <1>1, <1>2, <1>3 DEF Nobody

\* The writers store statuses, or nothing.
LEMMA WritersInRange ==
  Writers =>
    \/ \E e \in Entries, s \in KernelStates, displaced \in SUBSET LinkEntries :
         Store(e, s, displaced)
    \/ \E e \in Entries, s \in Statuses \cup {Absent} : ChangeSilently(e, s)
    \/ \E new \in [Entries -> Statuses \cup {Absent}], told \in SUBSET Entries :
         ApplyPoll(new, told)
<1>1. \A e : KernelStates \cup {Missing(e)} \subseteq Statuses \cup {Absent}
  BY DEF Missing, Statuses
<1>2. Results \subseteq [Entries -> Statuses \cup {Absent}]
  BY DEF Results
<1>3. QED
  BY <1>1, <1>2 DEF Writers

\* The news of one kind of entry: an update of each entry of the set, in any order.
LEMMA NewsOfFacts ==
  ASSUME NEW set, IsFiniteSet(set), set \subseteq Updates
  PROVE  /\ SetToSeq(set) \in Seq(Updates)
         /\ \A p \in DOMAIN SetToSeq(set) : SetToSeq(set)[p] \in set
         /\ \A u \in set : \E p \in DOMAIN SetToSeq(set) : SetToSeq(set)[p] = u
<1>1. SetToSeq(set) \in Seq(set) /\ Range(SetToSeq(set)) = set
  BY SetToSeqFacts
<1> DEFINE q == SetToSeq(set)
<1> HIDE DEF q
<1>2. q \in Seq(set) /\ Range(q) = set
  BY <1>1 DEF q
<1>3. q \in Seq(Updates)
  BY <1>2
<1>4. \A p \in DOMAIN q : q[p] \in set
  BY <1>2 DEF Range
<1>5. \A u \in set : \E p \in DOMAIN q : q[p] = u
  BY <1>2 DEF Range
<1>6. QED
  BY <1>3, <1>4, <1>5 DEF q

\* What is in two sequences put together is in one of them.
LEMMA ConcatMembers ==
  ASSUME NEW S, NEW q \in Seq(S), NEW r \in Seq(S)
  PROVE  /\ \A p \in DOMAIN (q \o r) :
              \/ \E k \in DOMAIN q : (q \o r)[p] = q[k]
              \/ \E k \in DOMAIN r : (q \o r)[p] = r[k]
         /\ \A k \in DOMAIN q : \E p \in DOMAIN (q \o r) : (q \o r)[p] = q[k]
         /\ \A k \in DOMAIN r : \E p \in DOMAIN (q \o r) : (q \o r)[p] = r[k]
<1> DEFINE x == q \o r
<1>1. /\ x \in Seq(S) /\ Len(x) = Len(q) + Len(r)
      /\ \A p \in 1 .. Len(q) : x[p] = q[p]
      /\ \A p \in 1 .. Len(r) : x[Len(q) + p] = r[p]
  OBVIOUS
<1> HIDE DEF x
<1>2. DOMAIN x = 1 .. Len(x) /\ DOMAIN q = 1 .. Len(q) /\ DOMAIN r = 1 .. Len(r)
  BY <1>1
<1>3. Len(q) \in Nat /\ Len(r) \in Nat
  OBVIOUS
<1>4. ASSUME NEW p \in DOMAIN x
      PROVE  (\E k \in DOMAIN q : x[p] = q[k]) \/ (\E k \in DOMAIN r : x[p] = r[k])
  <2>1. CASE p <= Len(q)
    <3>1. p \in DOMAIN q
      BY <1>1, <1>2, <1>3, <2>1
    <3>2. QED
      BY <1>1, <1>2, <3>1
  <2>2. CASE p > Len(q)
    <3>1. p - Len(q) \in DOMAIN r /\ Len(q) + (p - Len(q)) = p
      BY <1>1, <1>2, <1>3, <2>2
    <3>2. QED
      BY <1>1, <1>2, <3>1
  <2>3. QED
    BY <1>1, <1>2, <1>3, <2>1, <2>2
<1>5. ASSUME NEW k \in DOMAIN q PROVE k \in DOMAIN x /\ x[k] = q[k]
  BY <1>1, <1>2, <1>3
<1>6. ASSUME NEW k \in DOMAIN r PROVE Len(q) + k \in DOMAIN x /\ x[Len(q) + k] = r[k]
  BY <1>1, <1>2, <1>3
<1>7. QED
  BY <1>4, <1>5, <1>6 DEF x

\* The news of the poll: an update of every entry it tells of and of no other,
\* with its new status, or its farewell where it is gone.
LEMMA NewsFacts ==
  ASSUME Typed, NEW new \in [Entries -> Statuses \cup {Absent}],
         NEW told \in SUBSET Entries, MayTell(new, told)
  PROVE  /\ News(new, told) \in Seq(Updates)
         /\ \A p \in DOMAIN News(new, told) :
              LET u == News(new, told)[p]
              IN  /\ u.entry \in told
                  /\ new[u.entry] # Absent => u.status = new[u.entry]
                  /\ u.entry \in OtherEntries /\ new[u.entry] = Absent =>
                       u.status = "NotFound"
         /\ \A e \in told : Mentions(News(new, told), e)
<1> DEFINE Goes(entries)  == {Farewell(e) : e \in told \cap Gone(new) \cap entries}
           Comes(entries) == {Update(e, new[e]) : e \in (told \cap entries) \ Gone(new)}
           Fits(u) == /\ u.entry \in told
                      /\ new[u.entry] # Absent => u.status = new[u.entry]
                      /\ u.entry \in OtherEntries /\ new[u.entry] = Absent =>
                           u.status = "NotFound"
           Good(q, entries) ==
             /\ q \in Seq(Updates)
             /\ \A p \in DOMAIN q : Fits(q[p])
             /\ \A e \in told \cap entries : \E p \in DOMAIN q : q[p].entry = e
<1>1. IsFiniteSet(told) /\ IsFiniteSet(told \cap Gone(new)) /\ told \subseteq Entries
  BY FeedFacts, FS_Subset DEF Gone
<1>2. ASSUME NEW e \in told \cap Gone(new)
      PROVE  Farewell(e) \in Updates /\ Fits(Farewell(e)) /\ Farewell(e).entry = e
  <2>1. e \in Entries /\ e \in told /\ new[e] = Absent /\ db[e] # Absent
    BY DEF Gone
  <2>2. db[e] \in Statuses /\ "NotFound" \in Statuses
    BY <2>1 DEF Typed, Statuses
  <2>3. e \in LinkEntries => e \notin OtherEntries
    BY FeedAssumption
  <2>4. QED
    BY <2>1, <2>2, <2>3 DEF Farewell, Update, Updates
<1>3. ASSUME NEW e \in told \ Gone(new)
      PROVE  Update(e, new[e]) \in Updates /\ Fits(Update(e, new[e])) /\ Update(e, new[e]).entry = e
  <2>1. e \in Entries /\ new[e] # Absent /\ new[e] \in Statuses
    BY <1>1 DEF Gone, MayTell
  <2>2. QED
    BY <2>1 DEF Update, Updates
<1>4. ASSUME NEW entries
      PROVE  Good(SetToSeq(Goes(entries)) \o SetToSeq(Comes(entries)), entries)
  <2> DEFINE g == SetToSeq(Goes(entries))
             h == SetToSeq(Comes(entries))
  <2>1. IsFiniteSet(Goes(entries)) /\ Goes(entries) \subseteq Updates
    <3>1. IsFiniteSet(told \cap Gone(new) \cap entries)
      BY <1>1, FS_Subset
    <3> DEFINE f == [e \in told \cap Gone(new) \cap entries |-> Farewell(e)]
    <3>2. IsFiniteSet(Goes(entries))
      <4>1. f \in Surjection(told \cap Gone(new) \cap entries, Goes(entries))
        BY DEF Surjection
      <4> HIDE DEF Goes, f
      <4>2. QED
        BY <3>1, <4>1, FS_Surjection
    <3>3. QED
      BY <1>2, <3>2
  <2>2. IsFiniteSet(Comes(entries)) /\ Comes(entries) \subseteq Updates
    <3>1. IsFiniteSet((told \cap entries) \ Gone(new))
      BY <1>1, FS_Subset
    <3> DEFINE f == [e \in (told \cap entries) \ Gone(new) |-> Update(e, new[e])]
    <3>2. IsFiniteSet(Comes(entries))
      <4>1. f \in Surjection((told \cap entries) \ Gone(new), Comes(entries))
        BY DEF Surjection
      <4> HIDE DEF Comes, f
      <4>2. QED
        BY <3>1, <4>1, FS_Surjection
    <3>3. QED
      BY <1>3, <3>2
  <2>3. /\ g \in Seq(Updates) /\ (\A p \in DOMAIN g : g[p] \in Goes(entries))
        /\ \A u \in Goes(entries) : \E p \in DOMAIN g : g[p] = u
    BY <2>1, NewsOfFacts
  <2>4. /\ h \in Seq(Updates) /\ (\A p \in DOMAIN h : h[p] \in Comes(entries))
        /\ \A u \in Comes(entries) : \E p \in DOMAIN h : h[p] = u
    BY <2>2, NewsOfFacts
  <2> HIDE DEF g, h
  <2>5. \A p \in DOMAIN g : Fits(g[p])
    <3>1. \A u \in Goes(entries) : Fits(u)
      BY <1>2
    <3> HIDE DEF Fits, Goes
    <3>2. QED
      BY <2>3, <3>1
  <2>6. \A p \in DOMAIN h : Fits(h[p])
    <3>1. \A u \in Comes(entries) : Fits(u)
      BY <1>3
    <3> HIDE DEF Fits, Comes
    <3>2. QED
      BY <2>4, <3>1
  <2> HIDE DEF Fits
  <2>7. \A p \in DOMAIN (g \o h) : Fits((g \o h)[p])
    BY <2>3, <2>4, <2>5, <2>6, ConcatMembers
  <2>8. ASSUME NEW e \in told \cap entries
        PROVE  \E p \in DOMAIN (g \o h) : (g \o h)[p].entry = e
    <3>1. CASE e \in Gone(new)
      <4>1. PICK k \in DOMAIN g : g[k] = Farewell(e)
        BY <2>3, <3>1
      <4>2. g[k].entry = e
        BY <1>2, <3>1, <4>1
      <4>3. PICK p \in DOMAIN (g \o h) : (g \o h)[p] = g[k]
        BY <2>3, <2>4, ConcatMembers
      <4>4. QED
        BY <4>2, <4>3
    <3>2. CASE e \notin Gone(new)
      <4>1. PICK k \in DOMAIN h : h[k] = Update(e, new[e])
        BY <2>4, <3>2
      <4>2. h[k].entry = e
        BY <1>3, <3>2, <4>1
      <4>3. PICK p \in DOMAIN (g \o h) : (g \o h)[p] = h[k]
        BY <2>3, <2>4, ConcatMembers
      <4>4. QED
        BY <4>2, <4>3
    <3>3. QED
      BY <3>1, <3>2
  <2>9. g \o h \in Seq(Updates)
    BY <2>3, <2>4
  <2>10. QED
    BY <2>7, <2>8, <2>9 DEF g, h
<1> DEFINE links  == SetToSeq(Goes(LinkEntries)) \o SetToSeq(Comes(LinkEntries))
           others == SetToSeq(Goes(OtherEntries)) \o SetToSeq(Comes(OtherEntries))
<1>5. News(new, told) = links \o others
  BY DEF News
<1>6. Good(links, LinkEntries) /\ Good(others, OtherEntries)
  <2> HIDE DEF Good, Goes, Comes
  <2>1. QED
    BY <1>4
<1> HIDE DEF links, others
<1>7. links \o others \in Seq(Updates)
  BY <1>6
<1>8. \A p \in DOMAIN (links \o others) : Fits((links \o others)[p])
  <2>1. /\ links \in Seq(Updates) /\ others \in Seq(Updates)
        /\ \A p \in DOMAIN links : Fits(links[p])
        /\ \A p \in DOMAIN others : Fits(others[p])
    BY <1>6
  <2> HIDE DEF Fits
  <2>2. QED
    BY <2>1, ConcatMembers
<1>9. ASSUME NEW e \in told PROVE Mentions(links \o others, e)
  <2>1. e \in LinkEntries \/ e \in OtherEntries
    BY <1>1 DEF Entries
  <2>2. CASE e \in LinkEntries
    <3>1. PICK k \in DOMAIN links : links[k].entry = e
      BY <1>6, <2>2
    <3>2. PICK p \in DOMAIN (links \o others) : (links \o others)[p] = links[k]
      BY <1>6, ConcatMembers
    <3>3. QED
      BY <3>1, <3>2 DEF Mentions
  <2>3. CASE e \in OtherEntries
    <3>1. PICK k \in DOMAIN others : others[k].entry = e
      BY <1>6, <2>3
    <3>2. PICK p \in DOMAIN (links \o others) : (links \o others)[p] = others[k]
      BY <1>6, ConcatMembers
    <3>3. QED
      BY <3>1, <3>2 DEF Mentions
  <2>4. QED
    BY <2>1, <2>2, <2>3
<1>10. QED
  BY <1>5, <1>7, <1>8, <1>9

-----------------------------------------------------------------------------
(* The steps, one lemma for each part of the invariant. *)

\* What taking the lock of the subscriber list leaves to be told.
LEMMA StartTellingFacts ==
  ASSUME Typed, NEW by \in {"listener", "poll"}, NEW updates \in Seq(Updates),
         StartTelling(by, updates)
  PROVE  /\ telling = Nobody /\ \A c \in Clients : telling.left[c] = <<>>
         /\ telling' \in [by : {"nobody", "listener", "poll"}, left : [Clients -> Seq(Updates)]]
         /\ telling'.by = by
         /\ \A c \in Clients :
              telling'.left[c] = IF c \in subscribers THEN updates ELSE <<>>
         /\ log' = log \o updates /\ log' \in Seq(Updates)
BY DEF StartTelling, Nobody, Typed

\* What one call of try_send leaves to be told.
LEMMA TrySendFacts ==
  ASSUME Typed, NEW c \in Clients, TrySend(c)
  PROVE  /\ telling' \in [by : {"nobody", "listener", "poll"}, left : [Clients -> Seq(Updates)]]
         /\ telling'.by = telling.by
         /\ \A d \in Clients \ {c} :
              telling'.left[d] = telling.left[d] /\ channel'[d] = channel[d]
         /\ \/ /\ HasRoom(c)
               /\ telling'.left[c] = Tail(telling.left[c])
               /\ channel'[c] = Append(channel[c], Head(telling.left[c]))
               /\ subscribers' = subscribers
            \/ /\ telling'.left[c] = <<>> /\ channel'[c] = channel[c]
               /\ subscribers' = subscribers \ {c}
         /\ channel' \in [Clients -> Seq(Updates)]
<1>1. telling.left[c] \in Seq(Updates) /\ telling.left[c] # <<>>
  BY DEF Typed, TrySend
<1>2. Head(telling.left[c]) \in Updates /\ Tail(telling.left[c]) \in Seq(Updates)
  BY <1>1
<1>3. channel[c] \in Seq(Updates)
  BY DEF Typed
<1>4. CASE HasRoom(c)
  <2>1. /\ channel' = [channel EXCEPT ![c] = Append(channel[c], Head(telling.left[c]))]
        /\ telling' = [telling EXCEPT !.left[c] = Tail(telling.left[c])]
        /\ subscribers' = subscribers
    BY <1>4 DEF TrySend, Sent
  <2>2. telling' \in [by : {"nobody", "listener", "poll"}, left : [Clients -> Seq(Updates)]]
    BY <1>2, <2>1 DEF Typed
  <2>3. channel' \in [Clients -> Seq(Updates)]
    BY <1>2, <1>3, <2>1 DEF Typed
  <2>4. /\ telling'.by = telling.by /\ telling'.left[c] = Tail(telling.left[c])
        /\ \A d \in Clients \ {c} : telling'.left[d] = telling.left[d]
    BY <2>1 DEF Typed
  <2>5. /\ channel'[c] = Append(channel[c], Head(telling.left[c]))
        /\ \A d \in Clients \ {c} : channel'[d] = channel[d]
    BY <2>1 DEF Typed
  <2>6. QED
    BY <1>4, <2>1, <2>2, <2>3, <2>4, <2>5
<1>5. CASE ~HasRoom(c)
  <2>1. /\ channel' = channel /\ subscribers' = subscribers \ {c}
        /\ telling' = [telling EXCEPT !.left[c] = <<>>]
    BY <1>5 DEF TrySend, Removed
  <2>2. telling' \in [by : {"nobody", "listener", "poll"}, left : [Clients -> Seq(Updates)]]
    <3>1. <<>> \in Seq(Updates)
      OBVIOUS
    <3>2. QED
      BY <2>1, <3>1 DEF Typed
  <2>3. /\ telling'.by = telling.by /\ telling'.left[c] = <<>>
        /\ \A d \in Clients \ {c} : telling'.left[d] = telling.left[d]
    BY <2>1 DEF Typed
  <2>4. QED
    BY <2>1, <2>2, <2>3 DEF Typed
<1>6. QED
  BY <1>4, <1>5

\* A step leaves every variable with a value it may have.
LEMMA TypedStep ==
  ASSUME IInv, [Next]_vars
  PROVE  Typed'
<1> USE DEF IInv
<1>1. CASE AllTold
  BY <1>1, FeedFacts DEF AllTold, clientVars, Typed
<1>2. ASSUME NEW c \in Clients, TrySend(c) PROVE Typed'
  <2>1. /\ telling' \in [by : {"nobody", "listener", "poll"}, left : [Clients -> Seq(Updates)]]
        /\ channel' \in [Clients -> Seq(Updates)]
        /\ subscribers' \subseteq Clients
    BY <1>2, TrySendFacts DEF Typed
  <2>2. QED
    BY <1>2, <2>1 DEF TrySend, Typed
<1>3. CASE ListenerDone
  BY <1>3 DEF ListenerDone, clientVars, Typed
<1>4. CASE NotifyPoll
  <2>1. /\ telling' \in [by : {"nobody", "listener", "poll"}, left : [Clients -> Seq(Updates)]]
        /\ log' \in Seq(Updates)
    BY <1>4, StartTellingFacts DEF NotifyPoll, Typed
  <2>2. stale' \in [Clients -> SUBSET Entries]
    BY <1>4 DEF NotifyPoll, Typed
  <2>3. QED
    BY <1>4, <2>1, <2>2 DEF NotifyPoll, clientVars, Typed
<1>5. ASSUME NEW e \in Entries, NEW s \in KernelStates,
             NEW displaced \in SUBSET LinkEntries, Store(e, s, displaced)
      PROVE  Typed'
  <2>1. <<Update(e, s)>> \in Seq(Updates)
    BY DEF Update, Updates, Statuses
  <2>2. /\ telling' \in [by : {"nobody", "listener", "poll"}, left : [Clients -> Seq(Updates)]]
        /\ log' \in Seq(Updates)
    BY <1>5, <2>1, StartTellingFacts DEF Store
  <2>3. stale' \in [Clients -> SUBSET Entries]
    BY <1>5 DEF Store, Typed, Entries
  <2>4. db' \in [Entries -> Statuses \cup {Absent}]
    BY <1>5 DEF Store, Typed, Statuses
  <2>5. QED
    BY <1>5, <2>2, <2>3, <2>4 DEF Store, Write, clientVars, Typed
<1>6. ASSUME NEW e \in Entries, NEW s \in Statuses \cup {Absent}, ChangeSilently(e, s)
      PROVE  Typed'
  BY <1>6 DEF ChangeSilently, Write, clientVars, Typed
<1>7. ASSUME NEW new \in [Entries -> Statuses \cup {Absent}],
             NEW told \in SUBSET Entries, ApplyPoll(new, told)
      PROVE  Typed'
  <2>1. poll' = News(new, told) /\ MayTell(new, told)
    BY <1>7 DEF ApplyPoll
  <2>2. poll' \in Seq(Updates)
    BY <2>1, NewsFacts
  <2>3. stale' \in [Clients -> SUBSET Entries]
    BY <1>7 DEF ApplyPoll, Gone, Typed
  <2>4. QED
    BY <1>7, <2>2, <2>3 DEF ApplyPoll, Write, clientVars, Typed
<1>8. ASSUME NEW c \in Clients, NEW before, NEW entries \in SUBSET Entries,
             NEW after \in {"links", "listed"}, List(c, before, entries, after)
      PROVE  Typed'
  <2>1. view' \in [Clients -> [Entries -> Statuses \cup {Absent}]]
    BY <1>8 DEF List, Typed
  <2>2. stale' \in [Clients -> SUBSET Entries]
    BY <1>8 DEF List, Typed
  <2>3. QED
    BY <1>8, <2>1, <2>2 DEF List, Typed
<1>9. ASSUME NEW c \in Clients, Subscribe(c) PROVE Typed'
  <2>1. Len(log) \in Nat
    BY DEF Typed
  <2>2. QED
    BY <1>9, <2>1 DEF Subscribe, Typed
<1>10. ASSUME NEW c \in Clients, Receive(c) PROVE Typed'
  <2>1. channel[c] \in Seq(Updates) /\ channel[c] # <<>> /\ heard[c] \in Seq(Updates)
    BY <1>10 DEF Receive, Typed
  <2> DEFINE u == Head(channel[c])
  <2>2. u \in Updates /\ Tail(channel[c]) \in Seq(Updates) /\ Append(heard[c], u) \in Seq(Updates)
    BY <2>1
  <2>3. u.entry \in Entries /\ u.status \in Statuses
    BY <2>2 DEF Updates
  <2>4. /\ view' = [view EXCEPT ![c][u.entry] = u.status]
        /\ heard' = [heard EXCEPT ![c] = Append(heard[c], u)]
        /\ channel' = [channel EXCEPT ![c] = Tail(channel[c])]
    BY <1>10 DEF Receive
  <2> HIDE DEF u
  <2>5. view' \in [Clients -> [Entries -> Statuses \cup {Absent}]]
    BY <2>3, <2>4 DEF Typed
  <2>6. heard' \in [Clients -> Seq(Updates)] /\ channel' \in [Clients -> Seq(Updates)]
    BY <2>2, <2>4 DEF Typed
  <2>7. QED
    BY <1>10, <2>5, <2>6 DEF Receive, Typed
<1>11. ASSUME NEW c \in Clients, Leave(c) PROVE Typed'
  BY <1>11 DEF Leave, Typed
<1>12. CASE UNCHANGED vars
  BY <1>12 DEF vars, clientVars, Typed
<1>13. QED
  BY <1>1, <1>2, <1>3, <1>4, <1>5, <1>6, <1>7, <1>8, <1>9, <1>10, <1>11, <1>12,
     WritersInRange
     DEF Next, Tell, Client, ListNetworkLinks, ListNetworkInterfaces, Entries

\* A step leaves the lock of the subscriber list with one writer, or nobody, and
\* something to be told only to those on the list.
LEMMA HoldingStep ==
  ASSUME IInv, [Next]_vars
  PROVE  Holding'
<1> USE DEF IInv
<1>0. /\ telling.by = "listener" => listener
      /\ telling.by = "nobody" => telling = Nobody
      /\ \A c \in Clients : telling.left[c] # <<>> => c \in subscribers
  BY DEF Holding
<1>1. CASE AllTold
  BY <1>1 DEF AllTold, Nobody, Holding, clientVars
<1>2. ASSUME NEW c \in Clients, TrySend(c) PROVE Holding'
  <2>1. telling.left[c] # <<>> /\ listener' = listener
    BY <1>2 DEF TrySend
  <2>2. telling'.by = telling.by
    BY <1>2, TrySendFacts
  <2>3. telling.by # "nobody"
    BY <1>0, <2>1 DEF Nobody
  <2>4. ASSUME NEW d \in Clients, telling'.left[d] # <<>> PROVE d \in subscribers'
    <3>1. CASE d = c
      BY <1>0, <1>2, <2>1, <2>4, <3>1, TrySendFacts
    <3>2. CASE d # c
      <4>1. telling.left[d] # <<>>
        BY <1>2, <2>4, <3>2, TrySendFacts
      <4>2. subscribers \ {c} \subseteq subscribers'
        BY <1>2, TrySendFacts
      <4>3. QED
        BY <1>0, <3>2, <4>1, <4>2
    <3>3. QED
      BY <3>1, <3>2
  <2>5. QED
    BY <1>0, <2>1, <2>2, <2>3, <2>4 DEF Holding
<1>3. CASE ListenerDone
  BY <1>0, <1>3 DEF ListenerDone, clientVars, Holding
<1>4. CASE NotifyPoll
  <2>1. telling'.by = "poll" /\ \A c \in Clients : telling'.left[c] # <<>> => c \in subscribers
    BY <1>4, StartTellingFacts DEF NotifyPoll, Typed
  <2>2. QED
    BY <1>4, <2>1 DEF NotifyPoll, clientVars, Holding
<1>5. ASSUME NEW e \in Entries, NEW s \in KernelStates,
             NEW displaced \in SUBSET LinkEntries, Store(e, s, displaced)
      PROVE  Holding'
  <2>1. <<Update(e, s)>> \in Seq(Updates)
    BY DEF Update, Updates, Statuses
  <2>2. telling'.by = "listener" /\ \A c \in Clients : telling'.left[c] # <<>> => c \in subscribers
    BY <1>5, <2>1, StartTellingFacts DEF Store
  <2>3. QED
    BY <1>5, <2>2 DEF Store, clientVars, Holding
<1>6. ASSUME NEW e \in Entries, NEW s, ChangeSilently(e, s) PROVE Holding'
  BY <1>0, <1>6 DEF ChangeSilently, clientVars, Holding
<1>7. ASSUME NEW new, NEW told, ApplyPoll(new, told) PROVE Holding'
  BY <1>0, <1>7 DEF ApplyPoll, clientVars, Holding
<1>8. ASSUME NEW c \in Clients, NEW before, NEW entries, NEW after,
             List(c, before, entries, after)
      PROVE  Holding'
  BY <1>0, <1>8 DEF List, Holding
<1>9. ASSUME NEW c \in Clients, Subscribe(c) PROVE Holding'
  BY <1>0, <1>9 DEF Subscribe, Holding
<1>10. ASSUME NEW c \in Clients, Receive(c) PROVE Holding'
  BY <1>0, <1>10 DEF Receive, Holding
<1>11. ASSUME NEW c \in Clients, Leave(c) PROVE Holding'
  BY <1>0, <1>11 DEF Leave, Holding
<1>12. CASE UNCHANGED vars
  BY <1>0, <1>12 DEF vars, clientVars, Holding
<1>13. QED
  BY <1>1, <1>2, <1>3, <1>4, <1>5, <1>6, <1>7, <1>8, <1>9, <1>10, <1>11, <1>12
     DEF Next, Tell, Writers, Client, ListNetworkLinks, ListNetworkInterfaces

\* A step puts nothing into a channel that has no room or no subscription.
LEMMA ChannelsStep ==
  ASSUME IInv, [Next]_vars
  PROVE  Channels'
<1> USE DEF IInv
<1>0. Channels /\ Typed
  OBVIOUS
<1> DEFINE Unchanged ==
             UNCHANGED <<subscribers, client, channel, heard, since>>
<1>1. ASSUME Unchanged, UNCHANGED log PROVE Channels'
  BY <1>1 DEF Channels
<1>2. ASSUME NEW c \in Clients, TrySend(c) PROVE Channels'
  <2>1. Len(channel'[c]) <= Capacity
    <3>1. channel[c] \in Seq(Updates) /\ Len(channel[c]) <= Capacity /\ Capacity \in Nat
      BY FeedAssumption DEF Channels, Typed
    <3>2. telling.left[c] \in Seq(Updates) /\ telling.left[c] # <<>>
      BY <1>2 DEF TrySend, Typed
    <3>3. HasRoom(c) => Len(channel[c]) < Capacity
      BY DEF HasRoom
    <3>4. \/ channel'[c] = Append(channel[c], Head(telling.left[c])) /\ HasRoom(c)
          \/ channel'[c] = channel[c]
      BY <1>2, TrySendFacts
    <3>5. Len(Append(channel[c], Head(telling.left[c]))) = Len(channel[c]) + 1
      BY <3>1, <3>2
    <3>6. QED
      BY <3>1, <3>3, <3>4, <3>5
  <2>2. c \in subscribers
    BY <1>2 DEF Holding, TrySend
  <2>3. client[c] \in {"subscribed", "gone"}
    BY <2>2 DEF Channels
  <2>4. \A d \in Clients \ {c} : channel'[d] = channel[d]
    BY <1>2, TrySendFacts
  <2>5. subscribers' \subseteq subscribers
    BY <1>2, TrySendFacts
  <2>6. UNCHANGED <<client, heard, since, log>>
    BY <1>2 DEF TrySend
  <2>7. QED
    BY <2>1, <2>3, <2>4, <2>5, <2>6 DEF Channels
<1>3. ASSUME NEW updates \in Seq(Updates), log' = log \o updates, Unchanged PROVE Channels'
  <2>1. Len(log') = Len(log) + Len(updates) /\ Len(updates) \in Nat /\ Len(log) \in Nat
    BY <1>3 DEF Typed
  <2>2. ASSUME NEW c \in Clients PROVE since'[c] <= Len(log')
    <3>1. since[c] \in Nat /\ since[c] <= Len(log) /\ since' = since
      BY <1>3 DEF Channels, Typed
    <3>2. QED
      BY <2>1, <3>1
  <2>3. QED
    BY <1>3, <2>2 DEF Channels
<1>4. CASE NotifyPoll
  BY <1>3, <1>4 DEF NotifyPoll, StartTelling, clientVars, Typed
<1>5. ASSUME NEW e \in Entries, NEW s \in KernelStates,
             NEW displaced \in SUBSET LinkEntries, Store(e, s, displaced)
      PROVE  Channels'
  <2>1. <<Update(e, s)>> \in Seq(Updates)
    BY DEF Update, Updates, Statuses
  <2>2. log' = log \o <<Update(e, s)>> /\ Unchanged
    BY <1>5 DEF Store, StartTelling, clientVars
  <2>3. QED
    BY <1>3, <2>1, <2>2
<1>6. ASSUME NEW e \in Entries, NEW s, ChangeSilently(e, s) PROVE Channels'
  BY <1>1, <1>6 DEF ChangeSilently, clientVars
<1>7. ASSUME NEW new, NEW told, ApplyPoll(new, told) PROVE Channels'
  BY <1>1, <1>7 DEF ApplyPoll, clientVars
<1>8. ASSUME NEW c \in Clients, NEW before \in {"new", "links"}, NEW entries, NEW after,
             after \in {"links", "listed"}, List(c, before, entries, after)
      PROVE  Channels'
  BY <1>8 DEF List, Channels, Typed
<1>9. ASSUME NEW c \in Clients, Subscribe(c) PROVE Channels'
  <2>1. Len(log) \in Nat
    BY DEF Typed
  <2>2. QED
    BY <1>9, <2>1 DEF Subscribe, Channels, Typed
<1>10. ASSUME NEW c \in Clients, Receive(c) PROVE Channels'
  <2>1. channel[c] \in Seq(Updates) /\ channel[c] # <<>> /\ Len(channel[c]) <= Capacity
    BY <1>10 DEF Receive, Typed, Channels
  <2>2. Len(Tail(channel[c])) <= Capacity
    BY <2>1, FeedAssumption
  <2>3. channel' = [channel EXCEPT ![c] = Tail(channel[c])] /\ client[c] = "subscribed"
    BY <1>10 DEF Receive
  <2>4. \A d \in Clients : d # c => channel'[d] = channel[d] /\ heard'[d] = heard[d]
    BY <1>10 DEF Receive, Typed
  <2>5. Len(channel'[c]) <= Capacity
    BY <2>2, <2>3 DEF Typed
  <2>6. UNCHANGED <<subscribers, client, since, log>>
    BY <1>10 DEF Receive
  <2>7. QED
    BY <2>3, <2>4, <2>5, <2>6 DEF Channels
<1>11. ASSUME NEW c \in Clients, Leave(c) PROVE Channels'
  <2>1. Len(<<>>) <= Capacity
    BY FeedAssumption
  <2>2. QED
    BY <1>11, <2>1 DEF Leave, Channels, Typed
<1>12. QED
  BY <1>1, <1>2, <1>4, <1>5, <1>6, <1>7, <1>8, <1>9, <1>10, <1>11
     DEF Next, Tell, AllTold, ListenerDone, Writers, Client, ListNetworkLinks,
         ListNetworkInterfaces, vars, clientVars

\* Updates that are told follow those that have been.
LEMMA NoGapsTold ==
  ASSUME IInv, NEW by \in {"listener", "poll"}, NEW updates \in Seq(Updates),
         StartTelling(by, updates), UNCHANGED clientVars
  PROVE  NoGaps'
<1> USE DEF IInv
<1>0. Typed
  OBVIOUS
<1> SUFFICES ASSUME NEW c \in Clients, client[c] = "subscribed"
             PROVE  LET told == SubSeq(log', since[c] + 1, Len(log'))
                        got  == heard[c] \o channel[c]
                    IN  /\ IsPrefix(got, told)
                        /\ c \in subscribers => got \o telling'.left[c] = told
  BY DEF NoGaps, clientVars
<1> DEFINE told == SubSeq(log, since[c] + 1, Len(log))
           got  == heard[c] \o channel[c]
<1>1. /\ telling.left[c] = <<>> /\ log' = log \o updates
      /\ telling'.left[c] = IF c \in subscribers THEN updates ELSE <<>>
  BY StartTellingFacts
<1>2. log \in Seq(Updates) /\ since[c] \in 0 .. Len(log)
  BY DEF Typed, Channels
<1>3. SubSeq(log', since[c] + 1, Len(log')) = told \o updates
  BY <1>1, <1>2, SuffixGrows
<1>4. got \in Seq(Updates) /\ told \in Seq(Updates)
  BY <1>2, ConcatFacts DEF Typed
<1>5. IsPrefix(got, told) /\ (c \in subscribers => got \o telling.left[c] = told)
  BY DEF NoGaps
<1> HIDE DEF told, got
<1>6. IsPrefix(got, told \o updates)
  BY <1>4, <1>5, PrefixGrows
<1>7. ASSUME c \in subscribers PROVE got \o telling'.left[c] = told \o updates
  BY <1>1, <1>4, <1>5, <1>7, ConcatEmpty
<1>8. QED
  BY <1>3, <1>6, <1>7 DEF got

\* A step leaves no gap in what a subscriber receives.
LEMMA NoGapsStep ==
  ASSUME IInv, [Next]_vars
  PROVE  NoGaps'
<1> USE DEF IInv
<1>0. Typed /\ NoGaps
  OBVIOUS
<1>1. ASSUME UNCHANGED <<subscribers, client, channel, heard, since, log>>,
             \A c \in Clients : telling'.left[c] = telling.left[c]
      PROVE  NoGaps'
  BY <1>1 DEF NoGaps
<1>2. CASE AllTold
  <2>1. \A c \in Clients : telling'.left[c] = telling.left[c]
    BY <1>2 DEF AllTold, Nobody
  <2>2. QED
    BY <1>1, <1>2, <2>1 DEF AllTold, clientVars
<1>3. ASSUME NEW c \in Clients, TrySend(c) PROVE NoGaps'
  <2>1. UNCHANGED <<client, heard, since, log>> /\ telling.left[c] # <<>>
    BY <1>3 DEF TrySend
  <2>2. ASSUME NEW d \in Clients, client'[d] = "subscribed"
        PROVE  LET told == SubSeq(log', since'[d] + 1, Len(log'))
                   got  == heard'[d] \o channel'[d]
               IN  /\ IsPrefix(got, told)
                   /\ d \in subscribers' => got \o telling'.left[d] = told
    <3> DEFINE told == SubSeq(log, since[d] + 1, Len(log))
    <3>1. /\ client[d] = "subscribed"
          /\ IsPrefix(heard[d] \o channel[d], told)
          /\ d \in subscribers => (heard[d] \o channel[d]) \o telling.left[d] = told
      BY <2>1, <2>2 DEF NoGaps
    <3>2. CASE d # c
      <4>1. /\ telling'.left[d] = telling.left[d] /\ channel'[d] = channel[d]
            /\ subscribers' \subseteq subscribers
        BY <1>3, <3>2, TrySendFacts
      <4>2. QED
        BY <2>1, <3>1, <4>1
    <3>3. CASE d = c /\ ~(channel'[c] = channel[c] /\ subscribers' = subscribers \ {c})
      <4> DEFINE u == Head(telling.left[c])
                 next == Append(channel[c], u)
      <4>1. /\ telling'.left[c] = Tail(telling.left[c]) /\ channel'[c] = next
            /\ subscribers' = subscribers
        BY <1>3, <3>3, TrySendFacts
      <4>2. /\ heard[c] \in Seq(Updates) /\ channel[c] \in Seq(Updates)
            /\ telling.left[c] \in Seq(Updates) /\ c \in subscribers
        BY <2>1 DEF Typed, Holding
      <4>3. u \in Updates /\ Tail(telling.left[c]) \in Seq(Updates) /\ next \in Seq(Updates)
        BY <2>1, <4>2
      <4>4. next \o Tail(telling.left[c]) = channel[c] \o telling.left[c]
        BY <2>1, <4>2, ConcatMoves
      <4> HIDE DEF told, next
      <4>5. (heard[c] \o next) \o Tail(telling.left[c]) = told
        <5>0. \A q, r, w \in Seq(Updates) : (q \o r) \o w = q \o (r \o w)
          BY ConcatAssociates
        <5>1. (heard[c] \o next) \o Tail(telling.left[c]) =
                heard[c] \o (next \o Tail(telling.left[c]))
          BY <4>2, <4>3, <5>0, Zenon
        <5>2. (heard[c] \o channel[c]) \o telling.left[c] =
                heard[c] \o (channel[c] \o telling.left[c])
          BY <4>2, <5>0, Zenon
        <5>3. QED
          BY <3>1, <3>3, <4>2, <4>4, <5>1, <5>2
      <4>6. IsPrefix(heard[c] \o next, told)
        <5>1. heard[c] \o next \in Seq(Updates)
          BY <4>2, <4>3, ConcatFacts
        <5>2. IsPrefix(heard[c] \o next, (heard[c] \o next) \o Tail(telling.left[c]))
          BY <4>3, <5>1, PrefixGrows
        <5>3. QED
          BY <4>5, <5>2
      <4>7. QED
        BY <2>1, <3>3, <4>1, <4>5, <4>6 DEF told
    <3>4. CASE d = c /\ channel'[c] = channel[c] /\ subscribers' = subscribers \ {c}
      BY <2>1, <3>1, <3>4
    <3>5. QED
      BY <3>2, <3>3, <3>4
  <2>3. QED
    BY <2>2 DEF NoGaps
<1>4. CASE NotifyPoll
  <2>1. poll \in Seq(Updates) /\ StartTelling("poll", poll) /\ UNCHANGED clientVars
    BY <1>4 DEF NotifyPoll, Typed
  <2>2. QED
    BY <2>1, NoGapsTold
<1>5. ASSUME NEW e \in Entries, NEW s \in KernelStates,
             NEW displaced \in SUBSET LinkEntries, Store(e, s, displaced)
      PROVE  NoGaps'
  <2>1. <<Update(e, s)>> \in Seq(Updates)
    BY DEF Update, Updates, Statuses
  <2>2. StartTelling("listener", <<Update(e, s)>>) /\ UNCHANGED clientVars
    BY <1>5 DEF Store
  <2>3. QED
    BY <2>1, <2>2, NoGapsTold
<1>6. ASSUME NEW e \in Entries, NEW s, ChangeSilently(e, s) PROVE NoGaps'
  BY <1>1, <1>6 DEF ChangeSilently, clientVars
<1>7. ASSUME NEW new, NEW told, ApplyPoll(new, told) PROVE NoGaps'
  BY <1>1, <1>7 DEF ApplyPoll, clientVars
<1>8. ASSUME NEW c \in Clients, NEW before, NEW entries, NEW after \in {"links", "listed"},
             List(c, before, entries, after)
      PROVE  NoGaps'
  <2>1. UNCHANGED <<subscribers, channel, heard, since, log, telling>>
    BY <1>8 DEF List
  <2>2. \A d \in Clients : client'[d] = "subscribed" => client[d] = "subscribed"
    BY <1>8 DEF List, Typed
  <2>3. QED
    BY <2>1, <2>2 DEF NoGaps
<1>9. ASSUME NEW c \in Clients, Subscribe(c) PROVE NoGaps'
  <2>1. /\ UNCHANGED <<channel, heard, log, telling>> /\ telling = Nobody
        /\ client' = [client EXCEPT ![c] = "subscribed"] /\ client[c] = "listed"
        /\ since' = [since EXCEPT ![c] = Len(log)]
        /\ subscribers' = subscribers \cup {c}
    BY <1>9 DEF Subscribe
  <2>2. ASSUME NEW d \in Clients, client'[d] = "subscribed"
        PROVE  LET told == SubSeq(log, since'[d] + 1, Len(log))
                   got  == heard[d] \o channel[d]
               IN  /\ IsPrefix(got, told)
                   /\ d \in subscribers' => got \o telling.left[d] = told
    <3>1. CASE d # c
      <4>1. client[d] = "subscribed" /\ since'[d] = since[d] /\ (d \in subscribers' => d \in subscribers)
        BY <2>1, <2>2, <3>1 DEF Typed
      <4>2. QED
        BY <4>1 DEF NoGaps
    <3>2. CASE d = c
      <4>1. /\ heard[c] = <<>> /\ channel[c] = <<>> /\ telling.left[c] = <<>>
            /\ since'[c] = Len(log)
        BY <2>1 DEF Channels, Typed, Nobody
      <4>2. SubSeq(log, Len(log) + 1, Len(log)) = <<>>
        BY DEF Typed
      <4>3. <<>> \o <<>> = <<>> /\ IsPrefix(<<>>, <<>>)
        BY DEF IsPrefix
      <4>4. QED
        BY <3>2, <4>1, <4>2, <4>3
    <3>3. QED
      BY <3>1, <3>2
  <2>3. QED
    BY <2>1, <2>2 DEF NoGaps
<1>10. ASSUME NEW c \in Clients, Receive(c) PROVE NoGaps'
  <2>1. channel[c] \in Seq(Updates) /\ channel[c] # <<>> /\ heard[c] \in Seq(Updates)
    BY <1>10 DEF Receive, Typed
  <2>2. Append(heard[c], Head(channel[c])) \o Tail(channel[c]) = heard[c] \o channel[c]
    BY <2>1, ConcatMoves
  <2>3. \A d \in Clients : heard'[d] \o channel'[d] = heard[d] \o channel[d]
    <3> DEFINE h == Append(heard[c], Head(channel[c]))
               t == Tail(channel[c])
    <3>1. heard' = [heard EXCEPT ![c] = h] /\ channel' = [channel EXCEPT ![c] = t]
      BY <1>10 DEF Receive
    <3> HIDE DEF h, t
    <3>2. /\ heard'[c] = h /\ channel'[c] = t
          /\ \A d \in Clients \ {c} : heard'[d] = heard[d] /\ channel'[d] = channel[d]
      BY <3>1 DEF Typed
    <3>3. h \o t = heard[c] \o channel[c]
      BY <2>2 DEF h, t
    <3>4. QED
      BY <3>2, <3>3
  <2>4. UNCHANGED <<subscribers, client, since, log, telling>>
    BY <1>10 DEF Receive
  <2>5. QED
    BY <2>3, <2>4 DEF NoGaps
<1>11. ASSUME NEW c \in Clients, Leave(c) PROVE NoGaps'
  <2>1. UNCHANGED <<subscribers, heard, since, log, telling>>
    BY <1>11 DEF Leave
  <2>2. \A d \in Clients : client'[d] = "subscribed" =>
          client[d] = "subscribed" /\ channel'[d] = channel[d]
    BY <1>11 DEF Leave, Typed
  <2>3. QED
    BY <2>1, <2>2 DEF NoGaps
<1>12. QED
  BY <1>1, <1>2, <1>3, <1>4, <1>5, <1>6, <1>7, <1>8, <1>9, <1>10, <1>11
     DEF Next, Tell, ListenerDone, Writers, Client, ListNetworkLinks,
         ListNetworkInterfaces, vars, clientVars

\* Nothing changes for an entry and a client that the step does not touch.
LEMMA RightStays ==
  ASSUME NEW c \in Clients, NEW e \in Entries, Right(c, e),
         db'[e] = db[e], poll' = poll, telling'.left[c] = telling.left[c],
         channel'[c] = channel[c], view'[c][e] = view[c][e],
         Follows(c, e)' => Follows(c, e)
  PROVE  Right(c, e)'
BY DEF Right, AllAgree, Mentions, WillAgree, Agree

\* An update that goes into the channel is the last one there about its entry.
LEMMA RightSent ==
  ASSUME Typed, NEW c \in Clients, NEW e \in Entries, Right(c, e),
         telling.left[c] # <<>>,
         UNCHANGED <<db, poll, view>>,
         telling'.left[c] = Tail(telling.left[c]),
         channel'[c] = Append(channel[c], Head(telling.left[c])),
         Follows(c, e)' => Follows(c, e)
  PROVE  Right(c, e)'
<1> DEFINE left == telling.left[c]
           rest == Tail(left)
           u    == Head(left)
           ch   == channel[c]
           next == Append(ch, u)
<1>1. left \in Seq(Updates) /\ left # <<>> /\ ch \in Seq(Updates)
  BY DEF Typed
<1>2. /\ rest \in Seq(Updates) /\ u = left[1] /\ 1 \in DOMAIN left
      /\ \A p \in DOMAIN rest : p + 1 \in DOMAIN left /\ rest[p] = left[p + 1]
      /\ \A p \in DOMAIN left : p # 1 => p - 1 \in DOMAIN rest /\ rest[p - 1] = left[p]
  <2> HIDE DEF left
  <2>1. /\ Len(left) >= 1 /\ u = left[1] /\ u \in Updates
        /\ rest \in Seq(Updates) /\ Len(rest) = Len(left) - 1
        /\ \A p \in 1 .. Len(rest) : rest[p] = left[p + 1]
    BY <1>1, HeadTailFacts
  <2> HIDE DEF rest, u
  <2>2. DOMAIN left = 1 .. Len(left) /\ DOMAIN rest = 1 .. Len(rest)
    BY <1>1, <2>1
  <2>3. Len(left) \in Nat
    BY <1>1
  <2>4. QED
    BY <2>1, <2>2, <2>3
<1>3. /\ DOMAIN ch = 1 .. Len(ch) /\ DOMAIN next = 1 .. Len(ch) + 1 /\ Len(ch) \in Nat
      /\ next[Len(ch) + 1] = u
      /\ \A p \in DOMAIN ch : next[p] = ch[p]
  <2> HIDE DEF u, ch
  <2>1. QED
    BY <1>1
<1>4. telling'.left[c] = rest /\ channel'[c] = next
  OBVIOUS
<1> HIDE DEF left, rest, u, ch, next
<1>5. \A x : Agree(e, x, db[e])' <=> Agree(e, x, db[e])
  BY DEF Agree
<1>6. AllAgree(poll, e) /\ \A p \in DOMAIN left : left[p].entry = e => Agree(e, left[p].status, db[e])
  BY DEF Right, AllAgree, left
<1>7. AllAgree(telling.left[c], e)'
  <2>1. \A p \in DOMAIN rest : rest[p].entry = e => Agree(e, rest[p].status, db[e])
    BY <1>2, <1>6
  <2>2. QED
    BY <1>4, <2>1 DEF AllAgree, Agree
<1>8. CASE u.entry = e
  <2>1. Agree(e, u.status, db[e])
    BY <1>2, <1>6, <1>8
  <2>2. \A r \in DOMAIN next : ~ (r > Len(ch) + 1)
    BY <1>3
  <2>3. Len(ch) + 1 \in DOMAIN next
    BY <1>3
  <2>4. WillAgree(c, e)'
    BY <1>3, <1>4, <1>8, <2>1, <2>2, <2>3 DEF WillAgree, Agree
  <2>5. AllAgree(poll, e)'
    BY <1>6 DEF AllAgree, Agree
  <2>6. QED
    BY <1>7, <2>4, <2>5 DEF Right
<1>9. CASE u.entry # e
  <2>1. Mentions(left, e) => Mentions(rest, e)
    BY <1>2, <1>9 DEF Mentions
  <2>2. WillAgree(c, e) => WillAgree(c, e)'
    <3>1. \A r \in DOMAIN next : r \in DOMAIN ch \/ next[r] = u
      BY <1>3
    <3>2. \A r \in DOMAIN ch : r \in DOMAIN next
      BY <1>3
    <3>3. ASSUME NEW p \in DOMAIN ch, ch[p].entry = e, Agree(e, ch[p].status, db[e]),
                 \A r \in DOMAIN ch : r > p => ch[r].entry # e
          PROVE  WillAgree(c, e)'
      <4>1. p \in DOMAIN next /\ next[p] = ch[p]
        BY <1>3, <3>2
      <4>2. \A r \in DOMAIN next : r > p => next[r].entry # e
        BY <1>3, <1>9, <3>1, <3>3
      <4>3. QED
        BY <1>4, <3>3, <4>1, <4>2 DEF WillAgree, Agree
    <3>4. ASSUME ~Mentions(ch, e), Agree(e, view[c][e], db[e]) PROVE WillAgree(c, e)'
      <4>1. ~Mentions(next, e)
        BY <1>3, <1>9, <3>1, <3>4 DEF Mentions
      <4>2. QED
        BY <1>4, <3>4, <4>1 DEF WillAgree, Mentions, Agree
    <3>5. QED
      BY <3>3, <3>4 DEF WillAgree, ch
  <2>3. AllAgree(poll, e)' /\ (Mentions(poll, e) => Mentions(poll, e)')
    BY <1>6 DEF AllAgree, Agree, Mentions
  <2>4. Follows(c, e)' => Mentions(poll, e) \/ Mentions(left, e) \/ WillAgree(c, e)
    BY DEF Right, left
  <2>5. QED
    BY <1>4, <1>7, <2>1, <2>2, <2>3, <2>4 DEF Right
<1>10. QED
  BY <1>8, <1>9

\* Receiving an update leaves what the client will end up believing as it was.
LEMMA RightReceived ==
  ASSUME Typed, NEW c \in Clients, NEW e \in Entries, Right(c, e), channel[c] # <<>>,
         UNCHANGED <<db, poll, telling>>,
         channel'[c] = Tail(channel[c]),
         view'[c][e] = IF Head(channel[c]).entry = e THEN Head(channel[c]).status
                       ELSE view[c][e],
         Follows(c, e)' => Follows(c, e)
  PROVE  Right(c, e)'
<1> DEFINE ch   == channel[c]
           rest == Tail(ch)
           u    == Head(ch)
<1>1. ch \in Seq(Updates) /\ ch # <<>>
  BY DEF Typed
<1>2. /\ u = ch[1] /\ 1 \in DOMAIN ch
      /\ \A p \in DOMAIN rest : p + 1 \in DOMAIN ch /\ rest[p] = ch[p + 1] /\ p + 1 > 1
      /\ \A p \in DOMAIN ch : p # 1 => p - 1 \in DOMAIN rest /\ rest[p - 1] = ch[p]
      /\ DOMAIN ch \subseteq Nat /\ DOMAIN rest \subseteq Nat
  <2> HIDE DEF ch
  <2>1. /\ Len(ch) >= 1 /\ u = ch[1] /\ u \in Updates
        /\ rest \in Seq(Updates) /\ Len(rest) = Len(ch) - 1
        /\ \A p \in 1 .. Len(rest) : rest[p] = ch[p + 1]
    BY <1>1, HeadTailFacts
  <2> HIDE DEF rest, u
  <2>2. DOMAIN ch = 1 .. Len(ch) /\ DOMAIN rest = 1 .. Len(rest)
    BY <1>1, <2>1
  <2>3. Len(ch) \in Nat
    BY <1>1
  <2>4. QED
    BY <2>1, <2>2, <2>3
<1>3. /\ channel'[c] = rest
      /\ view'[c][e] = IF u.entry = e THEN u.status ELSE view[c][e]
  OBVIOUS
<1>4. WillAgree(c, e) =>
        \/ \E p \in DOMAIN ch :
             /\ ch[p].entry = e /\ Agree(e, ch[p].status, db[e])
             /\ \A r \in DOMAIN ch : r > p => ch[r].entry # e
        \/ ~Mentions(ch, e) /\ Agree(e, view[c][e], db[e])
  BY DEF WillAgree
<1> HIDE DEF ch, rest, u
<1>5. WillAgree(c, e) => WillAgree(c, e)'
  <2>1. ASSUME NEW p \in DOMAIN ch, ch[p].entry = e, Agree(e, ch[p].status, db[e]),
               \A r \in DOMAIN ch : r > p => ch[r].entry # e
        PROVE  WillAgree(c, e)'
    <3>1. CASE p = 1
      <4>1. ~Mentions(rest, e)
        BY <1>2, <2>1, <3>1 DEF Mentions
      <4>2. view'[c][e] = u.status /\ Agree(e, u.status, db[e])
        BY <1>2, <1>3, <2>1, <3>1
      <4>3. QED
        BY <1>3, <4>1, <4>2 DEF WillAgree, Mentions, Agree
    <3>2. CASE p # 1
      <4>1. p - 1 \in DOMAIN rest /\ rest[p - 1] = ch[p]
        BY <1>2, <3>2
      <4>2. \A r \in DOMAIN rest : r > p - 1 => rest[r].entry # e
        BY <1>2, <2>1
      <4>3. QED
        BY <1>3, <2>1, <4>1, <4>2 DEF WillAgree, Agree
    <3>3. QED
      BY <3>1, <3>2
  <2>2. ASSUME ~Mentions(ch, e), Agree(e, view[c][e], db[e]) PROVE WillAgree(c, e)'
    <3>1. ~Mentions(rest, e) /\ u.entry # e
      BY <1>2, <2>2 DEF Mentions
    <3>2. QED
      BY <1>3, <2>2, <3>1 DEF WillAgree, Mentions, Agree
  <2>3. QED
    BY <1>4, <2>1, <2>2
<1>6. QED
  BY <1>5 DEF Right, AllAgree, Mentions, Agree

\* A step leaves every entry that is not stale right, or about to be.
LEMMA CurrentStep ==
  ASSUME IInv, [Next]_vars
  PROVE  Current'
<1> USE DEF IInv
<1>0. Typed /\ Holding /\ Channels /\ Current
  OBVIOUS
<1>1. ASSUME UNCHANGED <<db, poll, subscribers, client, channel, view, stale>>,
             \A c \in Clients : telling'.left[c] = telling.left[c]
      PROVE  Current'
  <2>1. \A c \in Clients, e \in Entries : Right(c, e) => Right(c, e)'
    BY <1>1, RightStays DEF Follows, Listed
  <2>2. QED
    BY <1>1, <2>1 DEF Current
<1>2. CASE AllTold
  <2>1. \A c \in Clients : telling'.left[c] = telling.left[c]
    BY <1>2 DEF AllTold, Nobody
  <2>2. QED
    BY <1>1, <1>2, <2>1 DEF AllTold, clientVars
<1>3. ASSUME NEW c \in Clients, TrySend(c) PROVE Current'
  <2>1. UNCHANGED <<db, poll, client, view, stale>> /\ telling.left[c] # <<>>
    BY <1>3 DEF TrySend
  <2>2. subscribers' \subseteq subscribers
    BY <1>3, TrySendFacts
  <2>3. \A d \in Clients, e \in Entries : Follows(d, e)' => Follows(d, e)
    BY <2>1, <2>2 DEF Follows, Listed
  <2>4. ASSUME NEW d \in Clients, NEW e \in Entries, Right(d, e) PROVE Right(d, e)'
    <3>1. CASE d # c
      <4>1. telling'.left[d] = telling.left[d] /\ channel'[d] = channel[d]
        BY <1>3, <3>1, TrySendFacts
      <4>2. QED
        BY <2>1, <2>3, <2>4, <4>1, RightStays
    <3>2. CASE d = c /\ telling'.left[c] = Tail(telling.left[c])
                     /\ channel'[c] = Append(channel[c], Head(telling.left[c]))
      BY <2>1, <2>3, <2>4, <3>2, RightSent
    <3>3. CASE d = c /\ telling'.left[c] = <<>> /\ subscribers' = subscribers \ {c}
      <4>1. c \in subscribers /\ client[c] \in {"subscribed", "gone"}
        BY <2>1 DEF Holding, Channels
      <4>2. ~Follows(c, e)'
        BY <2>1, <3>3, <4>1 DEF Follows, Listed
      <4>3. AllAgree(telling.left[c], e)' /\ AllAgree(poll, e)'
        BY <2>1, <2>4, <3>3 DEF AllAgree, Agree, Right
      <4>4. QED
        BY <3>3, <4>2, <4>3 DEF Right
    <3>4. QED
      BY <1>3, <3>1, <3>2, <3>3, TrySendFacts
  <2>5. QED
    BY <2>1, <2>4 DEF Current
<1>4. CASE NotifyPoll
  <2>1. /\ poll # <<>> /\ poll' = <<>> /\ StartTelling("poll", poll)
        /\ stale' = [c \in Clients |->
                       stale[c] \cup {e \in Entries : Listed(c, e) /\ Overtakes(e)}]
        /\ UNCHANGED <<db, clientVars>>
    BY <1>4 DEF NotifyPoll
  <2>2. /\ \A c \in Clients : telling.left[c] = <<>>
        /\ \A c \in Clients : telling'.left[c] = IF c \in subscribers THEN poll ELSE <<>>
    BY <2>1, StartTellingFacts DEF Typed
  <2>3. ASSUME NEW c \in Clients, NEW e \in Entries, e \notin stale'[c] PROVE Right(c, e)'
    <3>1. e \notin stale[c] /\ ~(Listed(c, e) /\ Mentions(poll, e))
      BY <2>1, <2>3 DEF Overtakes, Mentions
    <3>2. Right(c, e)
      BY <3>1 DEF Current
    <3>3. AllAgree(poll, e)' /\ AllAgree(telling.left[c], e)'
      <4>1. AllAgree(poll, e)
        BY <3>2 DEF Right
      <4>2. AllAgree(poll, e)' /\ telling'.left[c] \in {poll, <<>>}
        BY <2>1, <2>2 DEF AllAgree
      <4>3. QED
        BY <2>1, <2>2, <4>1 DEF AllAgree, Agree
    <3>4. ASSUME Follows(c, e)' PROVE Mentions(telling.left[c], e)' \/ WillAgree(c, e)'
      <4>1. Follows(c, e)
        BY <2>1, <3>4 DEF Follows, Listed, clientVars
      <4>2. Mentions(poll, e) \/ Mentions(telling.left[c], e) \/ WillAgree(c, e)
        BY <3>2, <4>1 DEF Right
      <4>3. WillAgree(c, e) => WillAgree(c, e)'
        BY <2>1 DEF WillAgree, clientVars, Mentions, Agree
      <4>4. ~Mentions(telling.left[c], e)
        BY <2>2 DEF Mentions
      <4>5. CASE Listed(c, e)
        BY <3>1, <4>2, <4>3, <4>4, <4>5
      <4>6. CASE c \in subscribers
        <5>1. telling'.left[c] = poll
          BY <2>2, <4>6
        <5>2. QED
          BY <4>2, <4>3, <4>4, <5>1 DEF Mentions
      <4>7. QED
        BY <4>1, <4>5, <4>6 DEF Follows
    <3>5. QED
      BY <3>3, <3>4 DEF Right
  <2>4. QED
    BY <2>3 DEF Current
<1>5. ASSUME NEW e \in Entries, NEW s \in KernelStates,
             NEW displaced \in SUBSET LinkEntries, Store(e, s, displaced)
      PROVE  Current'
  <2> DEFINE u == Update(e, s)
  <2>1. /\ db' = [d \in Entries |-> IF d = e THEN s ELSE IF d \in displaced THEN Absent ELSE db[d]]
        /\ StartTelling("listener", <<u>>)
        /\ stale' = [c \in Clients |->
                       displaced \cup (IF Overtakes(e) \/ Listed(c, e) THEN stale[c] \cup {e}
                                                                      ELSE stale[c] \ {e})]
        /\ UNCHANGED <<poll, clientVars>>
    BY <1>5 DEF Store
  <2>2. <<u>> \in Seq(Updates) /\ u.entry = e /\ u.status = s
    BY DEF Update, Updates, Statuses
  <2> HIDE DEF u
  <2>3. /\ \A c \in Clients : telling.left[c] = <<>>
        /\ \A c \in Clients : telling'.left[c] = IF c \in subscribers THEN <<u>> ELSE <<>>
    BY <2>1, <2>2, StartTellingFacts
  <2>4. db'[e] = s /\ \A f \in Entries \ {e} : f \notin displaced => db'[f] = db[f]
    BY <2>1
  <2>5. DOMAIN <<u>> = {1} /\ <<u>>[1] = u /\ DOMAIN <<>> = {}
    BY <2>2
  <2>6. ASSUME NEW c \in Clients, NEW f \in Entries, f \notin stale'[c] PROVE Right(c, f)'
    <3>1. AllAgree(telling.left[c], f)'
      <4>1. AllAgree(<<u>>, f)'
        BY <2>2, <2>4, <2>5 DEF AllAgree, Agree
      <4>2. AllAgree(<<>>, f)'
        BY <2>5 DEF AllAgree
      <4>3. QED
        BY <2>3, <4>1, <4>2
    <3>2. CASE f = e
      <4>1. ~Mentions(poll, f) /\ ~Listed(c, f)
        BY <2>1, <2>6, <3>2 DEF Overtakes, Mentions
      <4>2. AllAgree(poll, f)'
        BY <2>1, <4>1 DEF AllAgree, Mentions
      <4>3. Follows(c, f)' => c \in subscribers
        BY <2>1, <4>1 DEF Follows, Listed, clientVars
      <4>4. c \in subscribers => Mentions(telling.left[c], f)'
        BY <2>2, <2>3, <2>5, <3>2 DEF Mentions
      <4>5. QED
        BY <3>1, <4>2, <4>3, <4>4 DEF Right
    <3>3. CASE f # e
      <4>1. f \notin stale[c] /\ f \notin displaced
        BY <2>1, <2>6, <3>3
      <4>2. Right(c, f)
        BY <4>1 DEF Current
      <4>3. AllAgree(poll, f)'
        BY <2>1, <2>4, <3>3, <4>1, <4>2 DEF Right, AllAgree, Agree
      <4>4. ~Mentions(telling.left[c], f)
        BY <2>3, <2>5 DEF Mentions
      <4>5. Follows(c, f)' => Mentions(poll, f) \/ WillAgree(c, f)
        BY <2>1, <4>2, <4>4 DEF Right, Follows, Listed, clientVars
      <4>6. WillAgree(c, f) => WillAgree(c, f)'
        BY <2>1, <2>4, <3>3, <4>1 DEF WillAgree, Mentions, Agree, clientVars
      <4>7. Mentions(poll, f) => Mentions(poll, f)'
        BY <2>1 DEF Mentions
      <4>8. QED
        BY <3>1, <4>3, <4>5, <4>6, <4>7 DEF Right
    <3>4. QED
      BY <3>2, <3>3
  <2>7. QED
    BY <2>6 DEF Current
<1>6. ASSUME NEW e \in Entries, NEW s, ChangeSilently(e, s) PROVE Current'
  <2>1. /\ db' = [db EXCEPT ![e] = s] /\ stale' = [c \in Clients |-> stale[c] \cup {e}]
        /\ UNCHANGED <<poll, telling, clientVars>>
    BY <1>6 DEF ChangeSilently
  <2>2. ASSUME NEW c \in Clients, NEW f \in Entries, f \notin stale'[c] PROVE Right(c, f)'
    <3>1. f \notin stale[c] /\ f # e /\ db'[f] = db[f]
      BY <2>1, <2>2 DEF Typed
    <3>2. Right(c, f)
      BY <3>1 DEF Current
    <3>3. Follows(c, f)' => Follows(c, f)
      BY <2>1 DEF Follows, Listed, clientVars
    <3>4. QED
      BY <2>1, <3>1, <3>2, <3>3, RightStays DEF clientVars
  <2>3. QED
    BY <2>2 DEF Current
<1>7. ASSUME NEW new \in [Entries -> Statuses \cup {Absent}],
             NEW told \in SUBSET Entries, ApplyPoll(new, told)
      PROVE  Current'
  <2> DEFINE gone == Gone(new)
  <2>1. /\ ~listener /\ poll = <<>> /\ telling.by # "poll"
        /\ db' = new /\ poll' = News(new, told) /\ MayTell(new, told)
        /\ stale' = [c \in Clients |->
                       (stale[c] \ told) \cup (gone \cap LinkEntries) \cup (gone \ told)]
        /\ UNCHANGED <<telling, clientVars>>
    BY <1>7 DEF ApplyPoll
  <2>2. telling = Nobody
    BY <2>1 DEF Holding, Typed
  <2>3. \A c \in Clients : telling.left[c] = <<>>
    BY <2>2 DEF Nobody
  <2>4. /\ \A p \in DOMAIN poll' :
             /\ poll'[p].entry \in told
             /\ new[poll'[p].entry] # Absent => poll'[p].status = new[poll'[p].entry]
             /\ poll'[p].entry \in OtherEntries /\ new[poll'[p].entry] = Absent =>
                  poll'[p].status = "NotFound"
        /\ \A e \in told : Mentions(poll', e)
    BY <2>1, NewsFacts
  <2>5. /\ \A e \in told : new[e] = Absent => e \in gone
        /\ \A e \in gone : e \in Entries /\ new[e] = Absent
    BY <2>1 DEF Gone, MayTell
  <2>6. \A e \in Entries : e \notin told /\ e \notin gone => db'[e] = db[e]
    BY <2>1 DEF Gone, MayTell
  <2> HIDE DEF gone
  <2>7. ASSUME NEW c \in Clients, NEW e \in Entries, e \notin stale'[c] PROVE Right(c, e)'
    <3>1. AllAgree(telling.left[c], e)'
      BY <2>1, <2>3 DEF AllAgree
    <3>2. CASE e \in told
      <4>1. e \in gone => e \in OtherEntries
        BY <2>1, <2>7 DEF Entries
      <4>2. AllAgree(poll, e)'
        BY <2>1, <2>4, <2>5, <3>2, <4>1 DEF AllAgree, Agree
      <4>3. Mentions(poll, e)'
        BY <2>4, <3>2 DEF Mentions
      <4>4. QED
        BY <3>1, <4>2, <4>3 DEF Right
    <3>3. CASE e \notin told
      <4>1. e \notin stale[c] /\ e \notin gone /\ db'[e] = db[e]
        BY <2>1, <2>6, <2>7, <3>3
      <4>2. Right(c, e)
        BY <4>1 DEF Current
      <4>3. AllAgree(poll, e)'
        BY <2>4, <3>3 DEF AllAgree
      <4>4. ~Mentions(telling.left[c], e) /\ ~Mentions(poll, e)
        BY <2>1, <2>3 DEF Mentions
      <4>5. Follows(c, e)' => WillAgree(c, e)
        BY <2>1, <4>2, <4>4 DEF Right, Follows, Listed, clientVars
      <4>6. WillAgree(c, e) => WillAgree(c, e)'
        BY <2>1, <4>1 DEF WillAgree, Mentions, Agree, clientVars
      <4>7. QED
        BY <3>1, <4>3, <4>5, <4>6 DEF Right
    <3>4. QED
      BY <3>2, <3>3
  <2>8. QED
    BY <2>7 DEF Current
<1>8. ASSUME NEW c \in Clients, NEW before, NEW entries \in SUBSET Entries, NEW after,
             \/ before = "new" /\ entries = LinkEntries /\ after = "links"
             \/ before = "links" /\ entries = OtherEntries /\ after = "listed",
             List(c, before, entries, after)
      PROVE  Current'
  <2>1. /\ client[c] = before /\ client' = [client EXCEPT ![c] = after]
        /\ view' = [view EXCEPT ![c] =
                      [e \in Entries |-> IF e \in entries THEN db[e] ELSE view[c][e]]]
        /\ stale' = [stale EXCEPT ![c] =
                       (stale[c] \ entries) \cup {e \in entries : Outdated(e)}]
        /\ UNCHANGED <<db, poll, telling, subscribers, channel>>
    BY <1>8 DEF List
  <2>2. channel[c] = <<>> /\ c \notin subscribers /\ telling.left[c] = <<>>
    BY <1>8, <2>1 DEF Channels, Holding
  <2>3. ASSUME NEW d \in Clients, NEW e \in Entries, e \notin stale'[d] PROVE Right(d, e)'
    <3>1. CASE d # c
      <4>1. client'[d] = client[d] /\ view'[d] = view[d] /\ stale'[d] = stale[d]
        BY <2>1, <3>1 DEF Typed
      <4>2. Right(d, e) /\ (Follows(d, e)' => Follows(d, e))
        BY <2>1, <2>3, <4>1 DEF Current, Follows, Listed
      <4>3. QED
        BY <2>1, <4>1, <4>2, RightStays
    <3>2. CASE d = c /\ e \in entries
      <4>1. ~Outdated(e) /\ view'[c][e] = db[e]
        BY <2>1, <2>3, <3>2 DEF Typed
      <4>2. AllAgree(poll, e)'
        BY <2>1, <4>1 DEF AllAgree, Outdated, Agree
      <4>3. AllAgree(telling.left[c], e)'
        BY <2>1, <2>2 DEF AllAgree
      <4>4. WillAgree(c, e)'
        BY <2>1, <2>2, <4>1 DEF WillAgree, Mentions, Agree
      <4>5. QED
        BY <3>2, <4>2, <4>3, <4>4 DEF Right
    <3>3. CASE d = c /\ e \notin entries
      <4>1. e \notin stale[c] /\ view'[c][e] = view[c][e] /\ client'[c] = after
        BY <2>1, <2>3, <3>3 DEF Typed
      <4>2. Right(c, e)
        BY <4>1 DEF Current
      <4>3. Follows(c, e)' => Follows(c, e)
        BY <1>8, <2>1, <2>2, <3>3, <4>1 DEF Follows, Listed, Entries
      <4>4. QED
        BY <2>1, <3>3, <4>1, <4>2, <4>3, RightStays
    <3>4. QED
      BY <3>1, <3>2, <3>3
  <2>4. QED
    BY <2>3 DEF Current
<1>9. ASSUME NEW c \in Clients, Subscribe(c) PROVE Current'
  <2>1. /\ UNCHANGED <<db, poll, telling, channel, view, stale>> /\ client[c] = "listed"
        /\ client' = [client EXCEPT ![c] = "subscribed"] /\ subscribers' = subscribers \cup {c}
    BY <1>9 DEF Subscribe
  <2>2. \A d \in Clients, e \in Entries : Follows(d, e)' => Follows(d, e)
    BY <2>1 DEF Follows, Listed, Typed
  <2>3. \A d \in Clients, e \in Entries : Right(d, e) => Right(d, e)'
    BY <2>1, <2>2, RightStays
  <2>4. QED
    BY <2>1, <2>3 DEF Current
<1>10. ASSUME NEW c \in Clients, Receive(c) PROVE Current'
  <2> DEFINE u == Head(channel[c])
  <2>1. /\ channel[c] # <<>> /\ client[c] = "subscribed"
        /\ view' = [view EXCEPT ![c][u.entry] = u.status]
        /\ channel' = [channel EXCEPT ![c] = Tail(channel[c])]
        /\ UNCHANGED <<db, poll, telling, subscribers, client, stale>>
    BY <1>10 DEF Receive
  <2>2. u.entry \in Entries
    <3>1. channel[c] \in Seq(Updates)
      BY DEF Typed
    <3>2. u \in Updates
      BY <2>1, <3>1
    <3>3. QED
      BY <3>2 DEF Updates
  <2>3. ASSUME NEW d \in Clients, NEW e \in Entries, Right(d, e) PROVE Right(d, e)'
    <3>1. Follows(d, e)' => Follows(d, e)
      BY <2>1 DEF Follows, Listed
    <3>2. CASE d # c
      <4>1. channel'[d] = channel[d] /\ view'[d][e] = view[d][e]
        BY <2>1, <3>2 DEF Typed
      <4>2. QED
        BY <2>1, <2>3, <3>1, <4>1, RightStays
    <3>3. CASE d = c
      <4>1. channel'[c] = Tail(channel[c])
        BY <2>1 DEF Typed
      <4>2. view'[c][e] = IF u.entry = e THEN u.status ELSE view[c][e]
        <5> HIDE DEF u
        <5>1. QED
          BY <2>1, <2>2 DEF Typed
      <4>3. QED
        BY <2>1, <2>3, <3>1, <3>3, <4>1, <4>2, RightReceived
    <3>4. QED
      BY <3>2, <3>3
  <2>4. QED
    BY <2>1, <2>3 DEF Current
<1>11. ASSUME NEW c \in Clients, Leave(c) PROVE Current'
  <2>1. /\ client' = [client EXCEPT ![c] = "gone"] /\ channel' = [channel EXCEPT ![c] = <<>>]
        /\ UNCHANGED <<db, poll, telling, subscribers, view, stale>>
    BY <1>11 DEF Leave
  <2>2. ASSUME NEW d \in Clients, NEW e \in Entries, Right(d, e) PROVE Right(d, e)'
    <3>1. CASE d # c
      <4>1. channel'[d] = channel[d] /\ client'[d] = client[d]
        BY <2>1, <3>1 DEF Typed
      <4>2. Follows(d, e)' => Follows(d, e)
        BY <2>1, <4>1 DEF Follows, Listed
      <4>3. QED
        BY <2>1, <2>2, <4>1, <4>2, RightStays
    <3>2. CASE d = c
      <4>1. ~Follows(c, e)'
        BY <2>1 DEF Follows, Listed, Typed
      <4>2. AllAgree(poll, e)' /\ AllAgree(telling.left[c], e)'
        BY <2>1, <2>2, <3>2 DEF Right, AllAgree, Agree
      <4>3. QED
        BY <3>2, <4>1, <4>2 DEF Right
    <3>3. QED
      BY <3>1, <3>2
  <2>3. QED
    BY <2>1, <2>2 DEF Current
<1>12. QED
  BY <1>1, <1>2, <1>3, <1>4, <1>5, <1>6, <1>7, <1>8, <1>9, <1>10, <1>11,
     WritersInRange
     DEF Next, Tell, ListenerDone, Client, ListNetworkLinks,
         ListNetworkInterfaces, vars, clientVars, Entries

-----------------------------------------------------------------------------
(* The theorems. *)

\* The invariant holds at first and every step keeps it.
LEMMA Invariance == Spec => []IInv
<1>1. Init => IInv
  <2> SUFFICES ASSUME Init PROVE IInv
    OBVIOUS
  <2>1. Typed
    <3>1. MaxWrites \in Nat
      BY FeedAssumption
    <3>2. telling \in [by : {"nobody", "listener", "poll"}, left : [Clients -> Seq(Updates)]]
      BY FeedFacts DEF Init
    <3>3. poll \in Seq(Updates) /\ log \in Seq(Updates) /\ <<>> \in Seq(Updates)
      BY DEF Init
    <3>4. QED
      BY <3>1, <3>2, <3>3 DEF Init, Typed
  <2>2. Holding
    BY DEF Init, Holding, Nobody
  <2>3. Channels
    <3>1. Len(<<>>) <= Capacity /\ 0 <= Len(log)
      BY FeedAssumption DEF Init
    <3>2. QED
      BY <3>1 DEF Init, Channels
  <2>4. NoGaps
    BY DEF Init, NoGaps
  <2>5. Current
    BY DEF Init, Current, Right, AllAgree, Follows, Listed, Nobody
  <2>6. QED
    BY <2>1, <2>2, <2>3, <2>4, <2>5 DEF IInv
<1>2. IInv /\ [Next]_vars => IInv'
  BY TypedStep, HoldingStep, ChannelsStep, NoGapsStep, CurrentStep DEF IInv
<1>3. QED
  BY <1>1, <1>2, PTL DEF Spec

\* A channel never holds more than its capacity, the listener tells only while it
\* has the database lock, and only those on the list are told anything.
THEOREM TypeCorrect == Spec => []TypeOK
<1>1. IInv => TypeOK
  <2> SUFFICES ASSUME IInv PROVE TypeOK
    OBVIOUS
  <2>1. Typed /\ Holding /\ Channels
    BY DEF IInv
  <2>2. ASSUME NEW c \in Clients
        PROVE  /\ \A u \in {channel[c][p] : p \in DOMAIN channel[c]} : u \in Updates
               /\ since[c] \in 0 .. Len(log)
    <3>1. channel[c] \in Seq(Updates) /\ log \in Seq(Updates) /\ since[c] \in Nat
      BY <2>1 DEF Typed
    <3>2. since[c] <= Len(log)
      BY <2>1 DEF Channels
    <3>3. QED
      BY <3>1, <3>2
  <2>3. QED
    BY <2>1, <2>2 DEF TypeOK, Typed, Holding, Channels
<1>2. QED
  BY <1>1, Invariance, PTL

\* What a subscriber receives is what was told since it subscribed, in that order
\* and with nothing left out, until it loses its subscription.
THEOREM NothingLeftOut == Spec => []NoGaps
<1>1. IInv => NoGaps
  BY DEF IInv
<1>2. QED
  BY <1>1, Invariance, PTL

\* A subscriber that has received everything there is believes what the database
\* says of every entry that is not stale.
THEOREM BeliefsAreRight == Spec => []BelievesOrStale
<1>1. IInv => BelievesOrStale
  <2> SUFFICES ASSUME IInv, NEW c \in Clients, Settled(c), NEW e \in Entries \ stale[c]
               PROVE  Agree(e, view[c][e], db[e])
    BY DEF BelievesOrStale
  <2>1. Right(c, e) /\ Follows(c, e)
    BY DEF IInv, Current, Settled, Follows
  <2>2. ~Mentions(poll, e) /\ ~Mentions(telling.left[c], e)
    BY DEF Settled, Mentions, Nobody
  <2>3. WillAgree(c, e)
    BY <2>1, <2>2 DEF Right
  <2>4. QED
    BY <2>3 DEF WillAgree, Settled
<1>2. QED
  BY <1>1, Invariance, PTL
=============================================================================
