------------------------- MODULE NetlinkSocket_proofs -------------------------
(***************************************************************************)
(* Proofs about DefaultNetlinkSocket (NetlinkSocket): whatever is still to *)
(* come of earlier requests, send_message hands out messages of its own    *)
(* request only and implements Dumps; no multicast message that was not    *)
(* lost is left out, doubled or overtaken.  All of it for dumps of any     *)
(* length and any number of polls, multicasts and faults.                  *)
(***************************************************************************)
EXTENDS NetlinkSocket, SequenceFacts

-----------------------------------------------------------------------------
(* The inductive invariant. *)

AnyMessage == [seq : Nat, type : Types, n : Nat]

\* What each variable holds.
Typed ==
  /\ manager \in {"new", "running", "dropped"}
  /\ worker \in {"idle", "links", "linksDone", "addresses", "ended"}
  /\ open \in BOOLEAN
  /\ asked \in Nat
  /\ answer \in [how : {"none", "waiting", "returned", "failed"}, messages : Seq(AnyMessage)]
  /\ dumps \in Seq(1 .. Parts + 2)
  /\ replies \in Seq(Seq(AnyMessage))
  /\ task \in [at : {"receiving", "delivering", "ended"}, messages : Seq(AnyMessage)]
  /\ events \in Seq(Seq(AnyMessage))
  /\ announced \in Nat
  /\ delivered \in Seq(Nat)
  /\ lost \subseteq 1 .. announced
  /\ spoiled \subseteq 1 .. asked
  /\ polls \in Nat
  /\ faults \in Nat

\* The worker waits exactly while its request is open, and every poll makes at
\* most two requests.
Turns ==
  /\ open = (worker # "ended")
  /\ Waiting <=> answer.how = "waiting"
  /\ worker \in {"links", "linksDone", "addresses"} \/ answer.messages # <<>> => asked >= 1
  /\ Len(dumps) = asked
  /\ asked + 2 * polls + (IF worker \in {"links", "linksDone"} THEN 1 ELSE 0) <= 2 * MaxPolls

\* The type the n-th message of a dump has where it can be read.
Kind(n) == IF n <= Parts THEN "part" ELSE "done"

\* A datagram at the request socket: consecutive messages of one dump, or an error.
Regular(d) ==
  /\ d # <<>> /\ d[1].seq \in 1 .. asked /\ d[1].n >= 1
  /\ \A p \in DOMAIN d :
       /\ d[p].seq = d[1].seq /\ d[p].n = d[1].n + p - 1
       /\ d[p].n < dumps[d[1].seq]
       /\ \/ d[p].type \in {Kind(d[p].n), "garbage"}
          \/ d[p].type = "error" /\ d[p].n = 1

\* The messages of a request arrive in the order of its dump, and those that have
\* been collected come before those that have yet to arrive.
Ordered ==
  /\ \A i \in DOMAIN replies : Regular(replies[i])
  /\ \A i, j \in DOMAIN replies :
       i < j /\ replies[i][1].seq = replies[j][1].seq =>
         \A p \in DOMAIN replies[i] : replies[i][p].n < replies[j][1].n
  /\ \A p \in DOMAIN answer.messages :
       LET m == answer.messages[p]
       IN  /\ m.n >= 1 /\ m.n < dumps[asked]
           /\ m.type = "part" => m.n <= Parts
           /\ \A i \in DOMAIN replies : replies[i][1].seq = asked => m.n < replies[i][1].n

\* As long as nothing has gone wrong with the open request, everything the kernel
\* has sent of its dump has been collected or is still to be read, and readable.
Whole ==
  Waiting /\ asked \notin spoiled =>
    /\ \A n \in 1 .. dumps[asked] - 1 :
         \/ \E p \in DOMAIN answer.messages : answer.messages[p].n = n
         \/ \E i \in DOMAIN replies :
              replies[i][1].seq = asked /\ \E p \in DOMAIN replies[i] : replies[i][p].n = n
    /\ \A i \in DOMAIN replies : replies[i][1].seq = asked =>
         \A p \in DOMAIN replies[i] : replies[i][p].type = Kind(replies[i][p].n)
    /\ \A p \in DOMAIN answer.messages : answer.messages[p].type = "part"

\* A datagram at the multicast socket is one message, of those announced.
Single ==
  \A p \in DOMAIN events :
    /\ Len(events[p]) = 1
    /\ events[p][1].type \in {"event", "garbage"}
    /\ events[p][1].seq = 0 /\ events[p][1].n \in 1 .. announced

\* Of a message that has been collected only its number matters, and its type.
Taken ==
  /\ announced <= MaxEvents
  /\ \A p \in DOMAIN task.messages :
       task.messages[p].seq = 0 /\ task.messages[p].type = "event"

IInv == Typed /\ Turns /\ Ordered /\ AnswerIsOwn /\ Whole /\ Single /\ Taken /\ EventsInOrder

-----------------------------------------------------------------------------
(* What recv_loop makes of one datagram. *)

\* The loop stops at the first message that ends it.
LEMMA StopFacts ==
  ASSUME NEW d \in Seq(AnyMessage), NEW wanted
  PROVE  /\ Stop(d, wanted) \in 1 .. Len(d) + 1
         /\ \A p \in 1 .. Stop(d, wanted) - 1 : ~Ends(d[p], wanted)
         /\ Stop(d, wanted) <= Len(d) => Ends(d[Stop(d, wanted)], wanted)
<1> DEFINE ends == {p \in DOMAIN d : Ends(d[p], wanted)}
<1>1. ends \in SUBSET Nat /\ \A p \in ends : p \in 1 .. Len(d) /\ Ends(d[p], wanted)
  OBVIOUS
<1>2. \A p \in 1 .. Len(d) : p \notin ends => ~Ends(d[p], wanted)
  OBVIOUS
<1>3. Stop(d, wanted) = IF ends = {} THEN Len(d) + 1 ELSE Min(ends)
  BY DEF Stop
<1>4. Len(d) \in Nat
  OBVIOUS
<1> HIDE DEF ends
<1>5. CASE ends = {}
  BY <1>2, <1>3, <1>4, <1>5
<1>6. CASE ends # {}
  <2> DEFINE s == Min(ends)
  <2>1. s \in ends /\ \A p \in ends : s <= p
    BY <1>1, <1>6, LeastElement
  <2>2. Stop(d, wanted) = s
    BY <1>3, <1>6
  <2> HIDE DEF s
  <2>3. s \in 1 .. Len(d) /\ Ends(d[s], wanted)
    BY <1>1, <2>1
  <2>4. \A p \in 1 .. s - 1 : p \in 1 .. Len(d) /\ p \notin ends
    BY <1>4, <2>1, <2>3
  <2>5. QED
    BY <1>2, <1>4, <2>2, <2>3, <2>4
<1>7. QED
  BY <1>5, <1>6

\* The steps of a recursive function on 0 .. m that some function takes.
Steps(f, d, wanted) ==
  f = [p \in 0 .. Len(d) |->
         IF p = 0 THEN <<>>
         ELSE IF Matches(d[p], wanted) THEN Append(f[p - 1], d[p]) ELSE f[p - 1]]

\* What the callback has been given takes those steps, if anything does.
LEMMA GivenSteps ==
  ASSUME NEW d, NEW wanted, NEW g, Steps(g, d, wanted)
  PROVE  Steps(Given(d, wanted), d, wanted)
<1>1. Given(d, wanted) = CHOOSE f : Steps(f, d, wanted)
  BY DEF Given, Steps
<1>2. QED
  BY <1>1

\* A datagram of the awaited request: the callback is given every message of it.
LEMMA GivenAll ==
  ASSUME NEW d \in Seq(AnyMessage), NEW wanted, \A p \in DOMAIN d : Matches(d[p], wanted),
         NEW k \in 0 .. Len(d)
  PROVE  Given(d, wanted)[k] = SubSeq(d, 1, k)
<1> DEFINE g == [p \in 0 .. Len(d) |-> SubSeq(d, 1, p)]
           f == Given(d, wanted)
<1>1. Len(d) \in Nat /\ \A p \in 1 .. Len(d) : Matches(d[p], wanted)
  OBVIOUS
<1>2. SubSeq(d, 1, 0) = <<>>
  OBVIOUS
<1>3. ASSUME NEW p \in 1 .. Len(d) PROVE SubSeq(d, 1, p) = Append(SubSeq(d, 1, p - 1), d[p])
  OBVIOUS
<1>4. Steps(g, d, wanted)
  <2>1. ASSUME NEW p \in 0 .. Len(d)
        PROVE  SubSeq(d, 1, p) =
                 IF p = 0 THEN <<>>
                 ELSE IF Matches(d[p], wanted) THEN Append(g[p - 1], d[p]) ELSE g[p - 1]
    <3>1. CASE p = 0
      BY <1>2, <3>1
    <3>2. CASE p # 0
      <4>1. p \in 1 .. Len(d) /\ p - 1 \in 0 .. Len(d)
        BY <1>1, <3>2
      <4>2. QED
        BY <1>1, <1>3, <3>2, <4>1
    <3>3. QED
      BY <3>1, <3>2
  <2>2. QED
    BY <2>1 DEF Steps
<1>5. Steps(f, d, wanted)
  BY <1>4, GivenSteps
<1>6. \A x \in {f, g} : x[0] = <<>> /\ \A p \in 1 .. Len(d) : x[p] = Append(x[p - 1], d[p])
  <2>1. ASSUME NEW x, Steps(x, d, wanted), NEW p \in 0 .. Len(d)
        PROVE  x[p] = IF p = 0 THEN <<>>
                      ELSE IF Matches(d[p], wanted) THEN Append(x[p - 1], d[p]) ELSE x[p - 1]
    BY <2>1, Zenon DEF Steps
  <2>2. 0 \in 0 .. Len(d) /\ \A p \in 1 .. Len(d) : p \in 0 .. Len(d) /\ p # 0
    BY <1>1
  <2> HIDE DEF f, g
  <2>3. QED
    BY <1>1, <1>4, <1>5, <2>1, <2>2, Zenon
<1>7. \A p \in 0 .. Len(d) : g[p] = SubSeq(d, 1, p)
  OBVIOUS
<1> HIDE DEF f, g
<1> DEFINE T == {p \in 0 .. Len(d) : f[p] = g[p]}
<1>8. 0 \in T
  BY <1>1, <1>6
<1>9. ASSUME NEW p \in 0 .. Len(d) - 1, p \in T PROVE p + 1 \in T
  <2>1. p + 1 \in 1 .. Len(d) /\ (p + 1) - 1 = p /\ p + 1 \in 0 .. Len(d)
    BY <1>1
  <2>2. f[p + 1] = Append(f[p], d[p + 1]) /\ g[p + 1] = Append(g[p], d[p + 1])
    BY <1>6, <2>1
  <2>3. f[p] = g[p]
    BY <1>9
  <2>4. QED
    BY <2>1, <2>2, <2>3, Zenon
<1> HIDE DEF T
<1>10. 0 .. Len(d) \subseteq T
  BY <1>1, <1>8, <1>9, FiniteInduction
<1>11. QED
  BY <1>7, <1>10 DEF T, f

\* A datagram of another request: the callback is given none of it.
LEMMA GivenNone ==
  ASSUME NEW d \in Seq(AnyMessage), NEW wanted, \A p \in DOMAIN d : ~Matches(d[p], wanted),
         NEW k \in 0 .. Len(d)
  PROVE  Given(d, wanted)[k] = <<>>
<1> DEFINE g == [p \in 0 .. Len(d) |-> <<>>]
           f == Given(d, wanted)
<1>1. Len(d) \in Nat /\ \A p \in 1 .. Len(d) : ~Matches(d[p], wanted)
  OBVIOUS
<1>2. Steps(g, d, wanted)
  <2>1. ASSUME NEW p \in 0 .. Len(d)
        PROVE  <<>> =
                 IF p = 0 THEN <<>>
                 ELSE IF Matches(d[p], wanted) THEN Append(g[p - 1], d[p]) ELSE g[p - 1]
    <3>1. CASE p = 0
      BY <3>1
    <3>2. CASE p # 0
      <4>1. p \in 1 .. Len(d) /\ p - 1 \in 0 .. Len(d)
        BY <1>1, <3>2
      <4>2. QED
        BY <1>1, <3>2, <4>1
    <3>3. QED
      BY <3>1, <3>2
  <2>2. QED
    BY <2>1 DEF Steps
<1>3. Steps(f, d, wanted)
  BY <1>2, GivenSteps
<1> HIDE DEF f, g
<1>4. f[0] = <<>> /\ \A p \in 1 .. Len(d) : f[p] = f[p - 1]
  BY <1>1, <1>3 DEF Steps
<1> DEFINE T == {p \in 0 .. Len(d) : f[p] = <<>>}
<1>5. 0 \in T
  BY <1>1, <1>4
<1>6. ASSUME NEW p \in 0 .. Len(d) - 1, p \in T PROVE p + 1 \in T
  <2>1. p + 1 \in 1 .. Len(d) /\ (p + 1) - 1 = p
    BY <1>1
  <2>2. QED
    BY <1>4, <1>6, <2>1
<1> HIDE DEF T
<1>7. 0 .. Len(d) \subseteq T
  BY <1>1, <1>5, <1>6, FiniteInduction
<1>8. QED
  BY <1>7 DEF T, f

\* What one datagram at the request socket contributes to the answer: nothing if
\* it is of an earlier request, else its messages up to the one that ends the loop.
LEMMA CollectedFacts ==
  ASSUME Typed, Ordered, NEW d \in Seq(AnyMessage), Regular(d)
  PROVE  LET s == Stop(d, asked)
             c == Collected(d, asked)
         IN  /\ c \in Seq(AnyMessage)
             /\ s \in 1 .. Len(d) + 1
             /\ d[1].seq # asked => c = <<>>
             /\ d[1].seq = asked =>
                  /\ Len(c) = s - 1
                  /\ \A p \in 1 .. s - 1 : c[p] = d[p] /\ d[p].type \in {"part", "error"}
             /\ Outcome(d, asked) = "more" => s = Len(d) + 1
             /\ Outcome(d, asked) = "received" =>
                  s <= Len(d) /\ d[s].type = "done" /\ d[1].seq = asked
             /\ Outcome(d, asked) \in {"more", "received", "failed"}
<1> DEFINE s == Stop(d, asked)
           c == Collected(d, asked)
<1>1. s \in 1 .. Len(d) + 1 /\ (\A p \in 1 .. s - 1 : ~Ends(d[p], asked))
      /\ (s <= Len(d) => Ends(d[s], asked))
  BY StopFacts
<1>2. /\ Len(d) \in Nat /\ DOMAIN d = 1 .. Len(d) /\ asked \in Nat /\ asked # 0
      /\ \A p \in 1 .. Len(d) : d[p].seq = d[1].seq
  BY DEF Regular, Typed
<1>3. \A p \in 1 .. Len(d) : Matches(d[p], asked) <=> d[1].seq = asked
  BY <1>2 DEF Matches, Unfiltered
<1>4. c = Given(d, asked)[s - 1]
  BY DEF Collected
<1> HIDE DEF s, c
<1>5. s - 1 \in 0 .. Len(d)
  BY <1>1, <1>2
<1>6. CASE d[1].seq # asked
  <2>1. c = <<>>
    BY <1>2, <1>3, <1>4, <1>5, <1>6, GivenNone
  <2>2. s <= Len(d) => d[s].type = "garbage"
    BY <1>1, <1>2, <1>3, <1>6 DEF Ends
  <2>3. /\ Outcome(d, asked) = "more" => s = Len(d) + 1
        /\ Outcome(d, asked) \in {"more", "failed"}
    BY <1>1, <1>2, <2>2 DEF Outcome, s
  <2>4. QED
    BY <1>1, <1>6, <2>1, <2>3 DEF s, c
<1>7. CASE d[1].seq = asked
  <2>1. c = SubSeq(d, 1, s - 1)
    BY <1>2, <1>3, <1>4, <1>5, <1>7, GivenAll
  <2>2. c \in Seq(AnyMessage) /\ Len(c) = s - 1 /\ \A p \in 1 .. s - 1 : c[p] = d[p]
    BY <1>2, <1>5, <2>1
  <2>3. ASSUME NEW p \in 1 .. s - 1 PROVE d[p].type \in {"part", "error"}
    <3>1. p \in 1 .. Len(d) /\ ~Ends(d[p], asked)
      BY <1>1, <1>2, <1>5
    <3>2. d[p].type \in {Kind(d[p].n), "garbage", "error"}
      BY <1>2, <3>1 DEF Regular
    <3>3. QED
      BY <1>3, <1>7, <3>1, <3>2 DEF Ends, Kind
  <2>4. /\ Outcome(d, asked) = "more" => s = Len(d) + 1
        /\ Outcome(d, asked) = "received" => s <= Len(d) /\ d[s].type = "done"
        /\ Outcome(d, asked) \in {"more", "received", "failed"}
    BY <1>1, <1>2 DEF Outcome, s
  <2>5. QED
    BY <1>1, <1>7, <2>2, <2>3, <2>4 DEF s, c
<1>8. QED
  BY <1>6, <1>7

\* A multicast: the loop collects it and goes on, or fails on it.
LEMMA CollectedEvent ==
  ASSUME NEW m \in AnyMessage, m.type \in {"event", "garbage"}
  PROVE  IF m.type = "event"
         THEN Collected(<<m>>, Unfiltered) = <<m>> /\ Outcome(<<m>>, Unfiltered) = "more"
         ELSE Collected(<<m>>, Unfiltered) = <<>> /\ Outcome(<<m>>, Unfiltered) = "failed"
<1> DEFINE d == <<m>>
           s == Stop(d, Unfiltered)
<1>1. d \in Seq(AnyMessage) /\ Len(d) = 1 /\ d[1] = m /\ DOMAIN d = {1}
  OBVIOUS
<1>2. \A p \in DOMAIN d : Matches(d[p], Unfiltered)
  BY DEF Matches
<1>3. s \in 1 .. 2 /\ (s <= 1 => Ends(m, Unfiltered)) /\ (s = 2 => ~Ends(m, Unfiltered))
  <2> HIDE DEF d
  <2>1. /\ s \in 1 .. Len(d) + 1 /\ (\A p \in 1 .. s - 1 : ~Ends(d[p], Unfiltered))
        /\ (s <= Len(d) => Ends(d[s], Unfiltered))
    BY <1>1, StopFacts
  <2> HIDE DEF s
  <2>2. s = 1 \/ s = 2
    BY <1>1, <2>1
  <2>3. QED
    BY <1>1, <2>1, <2>2
<1>4. Collected(d, Unfiltered) = SubSeq(d, 1, s - 1)
  <2> HIDE DEF d
  <2>1. s - 1 \in 0 .. Len(d)
    <3> HIDE DEF s
    <3>1. QED
      BY <1>1, <1>3
  <2>2. Collected(d, Unfiltered) = Given(d, Unfiltered)[s - 1]
    BY DEF Collected
  <2>3. QED
    BY <1>1, <1>2, <2>1, <2>2, GivenAll
<1>5. Ends(m, Unfiltered) <=> m.type = "garbage"
  BY DEF Ends
<1> HIDE DEF s
<1>6. CASE m.type = "event"
  <2>1. s = 2
    BY <1>3, <1>5, <1>6
  <2>2. SubSeq(d, 1, s - 1) = d
    <3> HIDE DEF d
    <3>1. SubSeq(d, 1, 1) = d
      BY <1>1, WholeOrNone
    <3>2. s - 1 = 1
      BY <2>1
    <3>3. QED
      BY <3>1, <3>2
  <2>3. Outcome(d, Unfiltered) = "more"
    BY <1>1, <2>1 DEF Outcome, s
  <2>4. QED
    BY <1>4, <1>6, <2>2, <2>3
<1>7. CASE m.type = "garbage"
  <2>1. s = 1
    BY <1>3, <1>5, <1>7
  <2>2. SubSeq(d, 1, s - 1) = <<>>
    BY <2>1
  <2>3. Outcome(d, Unfiltered) = "failed"
    BY <1>1, <1>7, <2>1 DEF Outcome, s
  <2>4. QED
    BY <1>4, <1>7, <2>2, <2>3
<1>8. QED
  BY <1>6, <1>7

-----------------------------------------------------------------------------
(* What the steps of the kernel come to. *)

\* The messages the kernel sends of dump r, the next of which is number `next`
\* afterwards.
Fresh(d, r, next) ==
  /\ d \in Seq(AnyMessage) /\ d # <<>>
  /\ \A p \in DOMAIN d :
       /\ d[p].seq = r /\ d[p].n = dumps[r] + p - 1 /\ d[p].n < next
       /\ \/ d[p].type \in {Kind(d[p].n), "garbage"}
          \/ d[p].type = "error" /\ d[p].n = 1

\* A datagram of a dump arrives, or is lost, which spoils the request; so does
\* one that is an error or not readable.
Sends(r) ==
  \E next \in dumps[r] + 1 .. Parts + 2 :
    /\ dumps' = [dumps EXCEPT ![r] = next]
    /\ spoiled' \in {spoiled, spoiled \cup {r}}
    /\ \/ replies' = replies /\ r \in spoiled'
       \/ \E d : /\ Fresh(d, r, next) /\ replies' = Append(replies, d)
                 /\ \/ r \in spoiled'
                    \/ /\ Len(d) = next - dumps[r]
                       /\ \A p \in DOMAIN d : d[p].type = Kind(d[p].n)
    /\ faults' \in Nat
    /\ UNCHANGED <<managerVars, taskVars>>

\* Losing a datagram, or refusing a request, uses up one of the faults.
LEMMA FaultCounts == ASSUME faults \in Nat, Fault PROVE faults' \in Nat
BY DEF Fault

\* Every answer of the kernel is such a step.
LEMMA KernelAnswersSends ==
  ASSUME Typed, Turns, NEW r \in 1 .. asked, KernelAnswers(r)
  PROVE  Sends(r)
<1> USE BoundsAssumption
<1>1. r \in DOMAIN dumps /\ dumps[r] \in 1 .. Parts + 1 /\ r \in Nat
  <2>1. dumps \in Seq(1 .. Parts + 2) /\ Len(dumps) = asked /\ asked \in Nat
    BY DEF Typed, Turns
  <2>2. dumps[r] \in 1 .. Parts + 2 /\ r \in DOMAIN dumps
    BY <2>1
  <2>3. dumps[r] <= Parts + 1
    BY DEF KernelAnswers
  <2>4. QED
    BY <2>2, <2>3
<1>2. PICK last \in dumps[r] .. Parts + 1 :
        LET d == [p \in 1 .. last - dumps[r] + 1 |-> DumpMessage(r, dumps[r] + p - 1)]
        IN  /\ dumps' = [dumps EXCEPT ![r] = last + 1]
            /\ \/ replies' = Append(replies, d) /\ UNCHANGED <<spoiled, faults>>
               \/ Fault /\ spoiled' = spoiled \cup {r} /\ UNCHANGED replies
               \/ /\ Fault /\ spoiled' = spoiled \cup {r}
                  /\ \E g \in Garbled(d) : replies' = Append(replies, g)
  BY DEF KernelAnswers
<1> DEFINE len  == last - dumps[r] + 1
           d    == [p \in 1 .. len |-> DumpMessage(r, dumps[r] + p - 1)]
           next == last + 1
<1>3. len \in Nat /\ len >= 1 /\ next \in dumps[r] + 1 .. Parts + 2 /\ len = next - dumps[r]
  BY <1>1
<1>4. ASSUME NEW p \in 1 .. len
      PROVE  /\ DumpMessage(r, dumps[r] + p - 1) \in AnyMessage
             /\ DumpMessage(r, dumps[r] + p - 1) =
                  [seq |-> r, type |-> Kind(dumps[r] + p - 1), n |-> dumps[r] + p - 1]
             /\ dumps[r] + p - 1 < next
  BY <1>1 DEF DumpMessage, Message, AnyMessage, Types, Kind
<1>5. d \in Seq(AnyMessage) /\ Len(d) = len /\ DOMAIN d = 1 .. len
  <2>1. d \in [1 .. len -> AnyMessage]
    BY <1>4
  <2> HIDE DEF d, len
  <2>2. QED
    BY <1>3, <2>1, FunctionIsSeq
<1>6. ASSUME NEW p \in 1 .. len
      PROVE  /\ d[p].seq = r /\ d[p].n = dumps[r] + p - 1 /\ d[p].n < next
             /\ d[p].type = Kind(d[p].n) /\ d[p] \in AnyMessage
  <2>1. d[p] = DumpMessage(r, dumps[r] + p - 1)
    OBVIOUS
  <2>2. /\ d[p] = [seq |-> r, type |-> Kind(dumps[r] + p - 1), n |-> dumps[r] + p - 1]
        /\ d[p] \in AnyMessage /\ dumps[r] + p - 1 < next
    BY <1>4, <2>1
  <2> HIDE DEF d, next, len
  <2>3. QED
    BY <2>2
<1>7. /\ dumps' = [dumps EXCEPT ![r] = next]
      /\ \/ replies' = Append(replies, d) /\ UNCHANGED <<spoiled, faults>>
         \/ Fault /\ spoiled' = spoiled \cup {r} /\ UNCHANGED replies
         \/ /\ Fault /\ spoiled' = spoiled \cup {r}
            /\ \E g \in Garbled(d) : replies' = Append(replies, g)
  BY <1>2
<1> HIDE DEF d, next, len
<1>8. d # <<>>
  BY <1>3, <1>5
<1>9. Fresh(d, r, next)
  BY <1>5, <1>6, <1>8 DEF Fresh
<1>10. ASSUME NEW g \in Garbled(d) PROVE Fresh(g, r, next)
  <2>1. PICK q \in DOMAIN d : g = [d EXCEPT ![q].type = "garbage"]
    BY DEF Garbled
  <2>2. DOMAIN g = 1 .. len /\ g = [p \in 1 .. len |-> g[p]]
    BY <1>5, <2>1
  <2>3. ASSUME NEW p \in 1 .. len
        PROVE  /\ g[p].seq = d[p].seq /\ g[p].n = d[p].n
               /\ g[p].type \in {d[p].type, "garbage"} /\ g[p] \in AnyMessage
    <3>1. d[p] \in AnyMessage
      BY <1>6
    <3>2. g[p] = d[p] \/ g[p] = [d[p] EXCEPT !.type = "garbage"]
      BY <1>5, <2>1
    <3>3. QED
      BY <3>1, <3>2 DEF AnyMessage, Types
  <2>4. g \in Seq(AnyMessage) /\ Len(g) = len
    <3>1. g \in [1 .. len -> AnyMessage]
      BY <2>2, <2>3
    <3>2. QED
      BY <1>3, <3>1, FunctionIsSeq
  <2>5. g # <<>>
    BY <1>3, <2>4
  <2>6. QED
    BY <1>6, <2>2, <2>3, <2>4, <2>5 DEF Fresh
<1>11. UNCHANGED <<managerVars, taskVars>>
  BY DEF KernelAnswers
<1>12. faults' \in Nat
  BY <1>7, FaultCounts DEF Typed
<1>13. CASE replies' = Append(replies, d) /\ UNCHANGED <<spoiled, faults>>
  BY <1>3, <1>5, <1>6, <1>7, <1>9, <1>11, <1>12, <1>13 DEF Sends
<1>14. CASE spoiled' = spoiled \cup {r} /\ UNCHANGED replies
  BY <1>3, <1>7, <1>11, <1>12, <1>14 DEF Sends
<1>15. CASE spoiled' = spoiled \cup {r} /\ \E g \in Garbled(d) : replies' = Append(replies, g)
  BY <1>3, <1>7, <1>10, <1>11, <1>12, <1>15 DEF Sends
<1>16. QED
  BY <1>7, <1>13, <1>14, <1>15

\* And so is its refusal.
LEMMA KernelRefusesSends ==
  ASSUME Typed, Turns, NEW r \in 1 .. asked, KernelRefuses(r)
  PROVE  Sends(r)
<1> USE BoundsAssumption
<1> DEFINE m == Message(r, "error", 1)
<1>1. dumps[r] = 1 /\ dumps' = [dumps EXCEPT ![r] = Parts + 2]
      /\ replies' = Append(replies, <<m>>) /\ spoiled' = spoiled \cup {r}
      /\ Fault /\ UNCHANGED <<managerVars, taskVars>>
  BY DEF KernelRefuses
<1>2. m \in AnyMessage /\ m.seq = r /\ m.type = "error" /\ m.n = 1
  BY DEF Message, AnyMessage, Types, Typed
<1> HIDE DEF m
<1>3. /\ <<m>> \in Seq(AnyMessage) /\ <<m>> # <<>> /\ DOMAIN <<m>> = {1} /\ <<m>>[1] = m
  BY <1>2
<1>4. Parts + 2 \in dumps[r] + 1 .. Parts + 2 /\ 1 < Parts + 2 /\ dumps[r] + 1 - 1 = 1
  BY <1>1
<1>5. Fresh(<<m>>, r, Parts + 2)
  BY <1>1, <1>2, <1>3, <1>4 DEF Fresh
<1>6. faults' \in Nat
  BY <1>1, FaultCounts DEF Typed
<1>7. QED
  BY <1>1, <1>4, <1>5, <1>6 DEF Sends

\* A multicast arrives, is lost, or arrives unreadable.
LEMMA KernelAnnouncesFacts ==
  ASSUME Typed, KernelAnnounces
  PROVE  /\ announced \in Nat /\ announced < MaxEvents /\ announced' = announced + 1
         /\ faults' \in Nat /\ UNCHANGED <<managerVars, kernelVars, task, delivered>>
         /\ \E m \in AnyMessage :
              /\ m.seq = 0 /\ m.n = announced + 1
              /\ \/ m.type = "event" /\ events' = Append(events, <<m>>) /\ lost' = lost
                 \/ events' = events /\ lost' = lost \cup {announced + 1}
                 \/ /\ m.type = "garbage" /\ events' = Append(events, <<m>>)
                    /\ lost' = lost \cup {announced + 1}
<1> DEFINE m == Message(0, "event", announced + 1)
           b == [m EXCEPT !.type = "garbage"]
<1>1. /\ announced \in Nat /\ announced < MaxEvents /\ announced' = announced + 1
      /\ UNCHANGED <<managerVars, kernelVars, task, delivered>>
  BY DEF KernelAnnounces, Typed
<1>2. m \in AnyMessage /\ m.seq = 0 /\ m.n = announced + 1 /\ m.type = "event"
  BY <1>1 DEF Message, AnyMessage, Types
<1>3. b \in AnyMessage /\ b.seq = 0 /\ b.n = announced + 1 /\ b.type = "garbage"
  <2> HIDE DEF m
  <2>1. QED
    BY <1>2 DEF AnyMessage, Types
<1>4. \/ events' = Append(events, <<m>>) /\ UNCHANGED <<lost, faults>>
      \/ Fault /\ lost' = lost \cup {announced + 1} /\ UNCHANGED events
      \/ /\ Fault /\ lost' = lost \cup {announced + 1}
         /\ \E g \in Garbled(<<m>>) : events' = Append(events, g)
  BY <1>1 DEF KernelAnnounces
<1>5. \A g \in Garbled(<<m>>) : g = <<b>>
  <2> HIDE DEF m
  <2>1. DOMAIN <<m>> = {1} /\ <<m>>[1] = m
    OBVIOUS
  <2>2. [<<m>> EXCEPT ![1].type = "garbage"] = <<b>>
    BY <2>1
  <2>3. Garbled(<<m>>) = {[<<m>> EXCEPT ![p].type = "garbage"] : p \in {1}}
    BY <2>1 DEF Garbled
  <2>4. QED
    BY <2>2, <2>3
<1> HIDE DEF m, b
<1>6. faults' \in Nat
  BY <1>4, FaultCounts DEF Typed
<1>7. CASE events' = Append(events, <<m>>) /\ UNCHANGED <<lost, faults>>
  BY <1>1, <1>2, <1>6, <1>7
<1>8. CASE lost' = lost \cup {announced + 1} /\ UNCHANGED events
  BY <1>1, <1>2, <1>6, <1>8
<1>9. CASE lost' = lost \cup {announced + 1} /\ \E g \in Garbled(<<m>>) : events' = Append(events, g)
  BY <1>1, <1>3, <1>5, <1>6, <1>9
<1>10. QED
  BY <1>4, <1>7, <1>8, <1>9

-----------------------------------------------------------------------------
(* The steps, one lemma for each part of the invariant. *)

\* What a datagram does to the request that waits for it.
LEMMA ReceiveFacts ==
  ASSUME Typed, Turns, Ordered, ReceiveReply
  PROVE  LET d == replies[1]
             s == Stop(d, asked)
             c == Collected(d, asked)
         IN  /\ Waiting /\ replies # <<>> /\ replies' = Tail(replies) /\ 1 \in DOMAIN replies
             /\ d \in Seq(AnyMessage) /\ Regular(d)
             /\ \/ /\ Outcome(d, asked) = "more" /\ UNCHANGED <<manager, worker, spoiled>>
                   /\ answer' = [how |-> "waiting", messages |-> answer.messages \o c]
                \/ /\ Outcome(d, asked) = "received" /\ spoiled' = spoiled
                   /\ answer' = [how |-> "returned", messages |-> answer.messages \o c]
                   /\ Return("returned", answer.messages \o c)
                \/ /\ Outcome(d, asked) = "failed" /\ spoiled' = spoiled
                   /\ answer' = [how |-> "failed", messages |-> <<>>]
                   /\ Return("failed", <<>>)
             /\ UNCHANGED <<open, asked, polls, dumps, taskVars, faults>>
<1> DEFINE d == replies[1]
           all == answer.messages \o Collected(d, asked)
<1>1. Waiting /\ replies # <<>> /\ replies' = Tail(replies)
      /\ UNCHANGED <<open, asked, polls, dumps, taskVars, faults>>
  BY DEF ReceiveReply
<1>2. replies \in Seq(Seq(AnyMessage))
  BY DEF Typed
<1>3. Head(replies) = d /\ d \in Seq(AnyMessage) /\ 1 \in DOMAIN replies
  BY <1>1, <1>2
<1>4. Regular(d)
  BY <1>3 DEF Ordered
<1>5. Outcome(d, asked) \in {"more", "received", "failed"}
  BY <1>3, <1>4, CollectedFacts
<1>6. /\ Outcome(d, asked) = "more" =>
             answer' = [answer EXCEPT !.messages = all] /\ UNCHANGED <<manager, worker, spoiled>>
      /\ Outcome(d, asked) = "received" => Return("returned", all) /\ UNCHANGED spoiled
      /\ Outcome(d, asked) = "failed" => Return("failed", <<>>) /\ UNCHANGED spoiled
  <2>1. CASE Outcome(d, asked) = "more"
    BY <1>3, <2>1 DEF ReceiveReply
  <2>2. CASE Outcome(d, asked) = "received"
    BY <1>3, <2>2 DEF ReceiveReply
  <2>3. CASE Outcome(d, asked) = "failed"
    BY <1>3, <2>3 DEF ReceiveReply
  <2>4. QED
    BY <1>5, <2>1, <2>2, <2>3
<1>7. CASE Outcome(d, asked) = "more"
  <2>1. answer.how = "waiting"
    BY <1>1 DEF Turns
  <2>2. answer' = [how |-> "waiting", messages |-> all]
    BY <1>6, <1>7, <2>1 DEF Typed
  <2>3. QED
    BY <1>1, <1>3, <1>4, <1>6, <1>7, <2>2
<1>8. CASE Outcome(d, asked) = "received"
  BY <1>1, <1>3, <1>4, <1>6, <1>8 DEF Return
<1>9. CASE Outcome(d, asked) = "failed"
  BY <1>1, <1>3, <1>4, <1>6, <1>9 DEF Return
<1>10. QED
  BY <1>5, <1>7, <1>8, <1>9

\* What is collected with an answer stays a sequence of messages.
LEMMA AnswerTyped ==
  ASSUME Typed, NEW how \in {"none", "waiting", "returned", "failed"},
         NEW messages \in Seq(AnyMessage), answer' = [how |-> how, messages |-> messages]
  PROVE  answer' \in [how : {"none", "waiting", "returned", "failed"}, messages : Seq(AnyMessage)]
OBVIOUS

\* A step leaves every variable with a value it may have.
LEMMA TypedStep ==
  ASSUME IInv, [Next]_vars
  PROVE  Typed'
<1> USE BoundsAssumption
<1>0. Typed /\ Turns /\ Ordered
  BY DEF IInv
<1>1. ASSUME NEW r \in 1 .. asked, Sends(r) PROVE Typed'
  <2>1. PICK next \in dumps[r] + 1 .. Parts + 2 :
          /\ dumps' = [dumps EXCEPT ![r] = next]
          /\ spoiled' \in {spoiled, spoiled \cup {r}}
          /\ \/ replies' = replies
             \/ \E d \in Seq(AnyMessage) : replies' = Append(replies, d)
          /\ faults' \in Nat
          /\ UNCHANGED <<managerVars, taskVars>>
    BY <1>1 DEF Sends, Fresh
  <2>2. dumps[r] \in 1 .. Parts + 2
    BY <1>0 DEF Typed, Turns
  <2>3. dumps' \in Seq(1 .. Parts + 2)
    <3>1. next \in 1 .. Parts + 2
      BY <2>2
    <3>2. dumps \in Seq(1 .. Parts + 2) /\ r \in DOMAIN dumps
      BY <1>0 DEF Typed, Turns
    <3>3. [dumps EXCEPT ![r] = next] \in Seq(1 .. Parts + 2)
      BY <3>1, <3>2, ExceptFacts
    <3>4. QED
      BY <2>1, <3>3
  <2>4. replies' \in Seq(Seq(AnyMessage))
    <3>1. replies \in Seq(Seq(AnyMessage))
      BY <1>0 DEF Typed
    <3>2. \A d \in Seq(AnyMessage) : Append(replies, d) \in Seq(Seq(AnyMessage))
      BY <3>1, AppendFacts
    <3>3. QED
      BY <2>1, <3>1, <3>2
  <2>5. QED
    BY <1>0, <2>1, <2>3, <2>4 DEF Typed, managerVars, taskVars
<1>2. CASE KernelAnnounces
  <2>1. /\ announced \in Nat /\ announced' = announced + 1 /\ faults' \in Nat
        /\ UNCHANGED <<managerVars, kernelVars, task, delivered>>
        /\ events' = events \/ \E m \in AnyMessage : events' = Append(events, <<m>>)
        /\ lost' \in {lost, lost \cup {announced + 1}}
    BY <1>0, <1>2, KernelAnnouncesFacts
  <2>2. events' \in Seq(Seq(AnyMessage))
    <3>1. events \in Seq(Seq(AnyMessage))
      BY <1>0 DEF Typed
    <3>2. \A m \in AnyMessage : <<m>> \in Seq(AnyMessage)
      OBVIOUS
    <3>3. \A m \in AnyMessage : Append(events, <<m>>) \in Seq(Seq(AnyMessage))
      BY <3>1, <3>2, AppendFacts
    <3>4. QED
      BY <2>1, <3>1, <3>3
  <2>3. lost' \subseteq 1 .. announced + 1
    BY <1>0, <2>1 DEF Typed
  <2>4. QED
    BY <1>0, <2>1, <2>2, <2>3 DEF Typed, managerVars, kernelVars
<1>3. ASSUME NEW next \in {"links", "addresses"}, Send(next), polls' \in Nat PROVE Typed'
  <2>1. answer' \in [how : {"none", "waiting", "returned", "failed"}, messages : Seq(AnyMessage)]
    <3>1. <<>> \in Seq(AnyMessage)
      OBVIOUS
    <3>2. QED
      BY <1>0, <1>3, <3>1, AnswerTyped DEF Send
  <2>2. dumps' \in Seq(1 .. Parts + 2)
    BY <1>0, <1>3 DEF Send, Typed
  <2>3. asked' \in Nat /\ spoiled' \subseteq 1 .. asked'
    BY <1>0, <1>3 DEF Send, Typed
  <2>4. QED
    BY <1>0, <1>3, <2>1, <2>2, <2>3 DEF Send, Typed, taskVars
<1>4. CASE PollBegins
  <2>1. polls' \in Nat
    BY <1>0, <1>4 DEF PollBegins, Typed
  <2>2. QED
    BY <1>3, <1>4, <2>1 DEF PollBegins
<1>5. CASE AskForAddresses
  BY <1>0, <1>3, <1>5 DEF AskForAddresses, Typed
<1>6. CASE SendFails
  BY <1>0, <1>6, FaultCounts DEF SendFails, PollOver, kernelVars, taskVars, Typed
<1>7. ASSUME NEW how \in {"returned", "failed"}, NEW messages \in Seq(AnyMessage),
             Return(how, messages), spoiled' \in {spoiled, spoiled \cup {asked}},
             replies' \in Seq(Seq(AnyMessage)), asked # 0,
             UNCHANGED <<open, asked, polls, dumps, taskVars, faults>>
      PROVE  Typed'
  <2>1. answer' \in [how : {"none", "waiting", "returned", "failed"}, messages : Seq(AnyMessage)]
    BY <1>0, <1>7, AnswerTyped DEF Return
  <2>2. worker' \in {"linksDone", "idle"} /\ manager' \in {"new", "running", "dropped"}
    BY <1>0, <1>7 DEF Return, PollOver, Typed
  <2>3. spoiled' \subseteq 1 .. asked
    BY <1>0, <1>7 DEF Typed
  <2>4. QED
    BY <1>0, <1>7, <2>1, <2>2, <2>3 DEF Typed, taskVars
<1>8. CASE ReceiveReply
  <2> DEFINE d == replies[1]
             x == answer.messages \o Collected(d, asked)
  <2>1. replies \in Seq(Seq(AnyMessage)) /\ answer.messages \in Seq(AnyMessage)
    BY <1>0 DEF Typed
  <2>2. replies' \in Seq(Seq(AnyMessage)) /\ d \in Seq(AnyMessage) /\ Regular(d)
    <3>1. /\ replies # <<>> /\ replies' = Tail(replies)
          /\ replies[1] \in Seq(AnyMessage) /\ Regular(replies[1])
      BY <1>0, <1>8, ReceiveFacts
    <3>2. Tail(replies) \in Seq(Seq(AnyMessage))
      BY <2>1, <3>1
    <3>3. QED
      BY <3>1, <3>2
  <2>3. x \in Seq(AnyMessage)
    BY <1>0, <2>1, <2>2, CollectedFacts
  <2>4. asked # 0
    <3>1. Waiting
      BY <1>8 DEF ReceiveReply
    <3>2. QED
      BY <1>0, <3>1 DEF Turns, Waiting
  <2>5. /\ UNCHANGED <<open, asked, polls, dumps, taskVars, faults>>
        /\ \/ UNCHANGED <<manager, worker, spoiled>> /\ answer' = [how |-> "waiting", messages |-> x]
           \/ spoiled' = spoiled /\ Return("returned", x)
           \/ spoiled' = spoiled /\ Return("failed", <<>>)
    BY <1>0, <1>8, ReceiveFacts
  <2> HIDE DEF x
  <2>6. CASE UNCHANGED <<manager, worker, spoiled>> /\ answer' = [how |-> "waiting", messages |-> x]
    <3>1. answer' \in [how : {"none", "waiting", "returned", "failed"}, messages : Seq(AnyMessage)]
      BY <1>0, <2>3, <2>6, AnswerTyped
    <3>2. QED
      BY <1>0, <2>2, <2>5, <2>6, <3>1 DEF Typed, taskVars
  <2>7. CASE spoiled' = spoiled /\ Return("returned", x)
    BY <1>7, <2>2, <2>3, <2>4, <2>5, <2>7
  <2>8. CASE spoiled' = spoiled /\ Return("failed", <<>>)
    <3>1. <<>> \in Seq(AnyMessage)
      OBVIOUS
    <3>2. QED
      BY <1>7, <2>2, <2>4, <2>5, <2>8, <3>1
  <2>9. QED
    BY <2>5, <2>6, <2>7, <2>8
<1>9. CASE ReplyTimeout
  <2>1. /\ replies' \in Seq(Seq(AnyMessage)) /\ answer.messages \in Seq(AnyMessage)
        /\ Return("returned", answer.messages) /\ spoiled' = spoiled \cup {asked}
        /\ UNCHANGED <<open, asked, polls, dumps, taskVars, faults>>
    BY <1>0, <1>9 DEF ReplyTimeout, Typed
  <2>2. asked # 0
    BY <1>0, <1>9 DEF ReplyTimeout, Turns, Waiting
  <2>3. QED
    BY <1>7, <2>1, <2>2
<1>10. CASE WorkerEnds
  BY <1>0, <1>10 DEF WorkerEnds, kernelVars, taskVars, Typed
<1>11. CASE DropManager
  BY <1>0, <1>11 DEF DropManager, kernelVars, taskVars, Typed
<1>12. CASE TaskLoops
  BY <1>0, <1>12 DEF TaskLoops, managerVars, kernelVars, Typed
<1>13. CASE CollectEvent
  <2>1. events \in Seq(Seq(AnyMessage)) /\ events # <<>> /\ task.messages \in Seq(AnyMessage)
    BY <1>0, <1>13 DEF CollectEvent, Typed
  <2>2. Collected(Head(events), Unfiltered) \in Seq(AnyMessage)
    <3>1. Head(events) = events[1] /\ 1 \in DOMAIN events /\ Head(events) \in Seq(AnyMessage)
      BY <2>1
    <3>2. Single
      BY DEF IInv
    <3>3. PICK m \in AnyMessage : Head(events) = <<m>> /\ m.type \in {"event", "garbage"}
      BY <3>1, <3>2 DEF Single
    <3>4. <<m>> \in Seq(AnyMessage) /\ <<>> \in Seq(AnyMessage)
      OBVIOUS
    <3>5. QED
      BY <3>3, <3>4, CollectedEvent
  <2> DEFINE c == Collected(Head(events), Unfiltered)
             at == IF Outcome(Head(events), Unfiltered) = "more" THEN "receiving" ELSE "delivering"
  <2>3. task' = [at |-> at, messages |-> task.messages \o c] /\ events' = Tail(events)
    BY <1>13 DEF CollectEvent
  <2>4. at \in {"receiving", "delivering", "ended"}
    OBVIOUS
  <2> HIDE DEF at, c
  <2>5. task.messages \o c \in Seq(AnyMessage)
    BY <2>1, <2>2 DEF c
  <2>6. task' \in [at : {"receiving", "delivering", "ended"}, messages : Seq(AnyMessage)]
    BY <2>3, <2>4, <2>5
  <2>7. events' \in Seq(Seq(AnyMessage))
    BY <2>1, <2>3
  <2>8. QED
    BY <1>0, <1>13, <2>6, <2>7 DEF CollectEvent, managerVars, kernelVars, Typed
<1>14. CASE EventTimeout
  BY <1>0, <1>14 DEF EventTimeout, managerVars, kernelVars, Typed
<1>15. CASE DeliverEvent
  <2>1. task.messages \in Seq(AnyMessage) /\ task.messages # <<>>
    BY <1>0, <1>15 DEF DeliverEvent, Typed
  <2>2. Head(task.messages) \in AnyMessage /\ Tail(task.messages) \in Seq(AnyMessage)
    BY <2>1
  <2>3. Append(delivered, Head(task.messages).n) \in Seq(Nat)
    BY <1>0, <2>2 DEF Typed, AnyMessage
  <2>4. task' \in [at : {"receiving", "delivering", "ended"}, messages : Seq(AnyMessage)]
    BY <1>0, <1>15, <2>2 DEF DeliverEvent, Typed
  <2>5. QED
    BY <1>0, <1>15, <2>3, <2>4 DEF DeliverEvent, managerVars, kernelVars, Typed
<1>16. CASE UNCHANGED vars
  BY <1>0, <1>16 DEF vars, managerVars, kernelVars, taskVars, Typed
<1>17. QED
  BY <1>0, <1>1, <1>2, <1>4, <1>5, <1>6, <1>8, <1>9, <1>10, <1>11, <1>12, <1>13, <1>14,
     <1>15, <1>16, KernelAnswersSends, KernelRefusesSends
     DEF Next, Kernel, Worker, Task

\* A step leaves the worker waiting exactly for an open request.
LEMMA TurnsStep ==
  ASSUME IInv, [Next]_vars
  PROVE  Turns'
<1> USE BoundsAssumption
<1>0. Typed /\ Turns /\ Ordered
  BY DEF IInv
<1>1. ASSUME UNCHANGED <<worker, open, asked, polls>>, answer'.how = answer.how,
             Waiting \/ answer' = answer, Len(dumps') = Len(dumps)
      PROVE  Turns'
  BY <1>0, <1>1 DEF Turns, Waiting
<1>2. ASSUME NEW r \in 1 .. asked, Sends(r) PROVE Turns'
  <2>1. PICK next \in dumps[r] + 1 .. Parts + 2 :
          dumps' = [dumps EXCEPT ![r] = next] /\ UNCHANGED managerVars
    BY <1>2 DEF Sends
  <2>2. dumps \in Seq(1 .. Parts + 2) /\ r \in DOMAIN dumps
    BY <1>0 DEF Typed, Turns
  <2>3. Len(dumps') = Len(dumps)
    BY <2>1, <2>2
  <2>4. QED
    BY <1>1, <2>1, <2>3 DEF managerVars
<1>3. ASSUME NEW next \in {"links", "addresses"}, Send(next)
      PROVE  Len(dumps') = asked' /\ asked' \in Nat /\ asked' = asked + 1
  <2>1. dumps \in Seq(1 .. Parts + 2) /\ Len(dumps) = asked /\ asked \in Nat
    BY <1>0 DEF Typed, Turns
  <2>2. QED
    BY <1>3, <2>1 DEF Send
<1>4. CASE PollBegins
  <2>1. /\ worker = "idle" /\ worker' = "links" /\ polls' = polls - 1 /\ open' = open
        /\ answer'.how = "waiting" /\ answer'.messages = <<>>
    BY <1>4 DEF PollBegins, Send
  <2>2. asked' = asked + 1 /\ Len(dumps') = asked'
    BY <1>3, <1>4 DEF PollBegins
  <2>3. asked \in Nat /\ polls \in Nat
    BY <1>0 DEF Typed
  <2>4. QED
    BY <1>0, <2>1, <2>2, <2>3 DEF Turns, Waiting
<1>5. CASE AskForAddresses
  <2>1. /\ worker = "linksDone" /\ worker' = "addresses" /\ polls' = polls /\ open' = open
        /\ answer'.how = "waiting" /\ answer'.messages = <<>>
    BY <1>5 DEF AskForAddresses, Send
  <2>2. asked' = asked + 1 /\ Len(dumps') = asked'
    BY <1>3, <1>5 DEF AskForAddresses
  <2>3. asked \in Nat /\ polls \in Nat
    BY <1>0 DEF Typed
  <2>4. QED
    BY <1>0, <2>1, <2>2, <2>3 DEF Turns, Waiting
<1>6. CASE SendFails
  <2>1. asked \in Nat /\ polls \in Nat
    BY <1>0 DEF Typed
  <2>2. QED
    BY <1>0, <1>6, <2>1 DEF SendFails, PollOver, kernelVars, Turns, Waiting
<1>7. ASSUME NEW how \in {"returned", "failed"}, NEW messages, Return(how, messages),
             Waiting, UNCHANGED <<open, asked, polls, dumps>>
      PROVE  Turns'
  <2>1. asked \in Nat /\ polls \in Nat
    BY <1>0 DEF Typed
  <2>2. answer'.how = how
    BY <1>7 DEF Return
  <2>3. worker' = "idle" \/ (worker = "links" /\ worker' = "linksDone")
    BY <1>7 DEF Return, PollOver
  <2>4. QED
    BY <1>0, <1>7, <2>1, <2>2, <2>3 DEF Turns, Waiting
<1>8. CASE ReceiveReply
  <2> DEFINE x == answer.messages \o Collected(replies[1], asked)
  <2>1. /\ UNCHANGED <<open, asked, polls, dumps>> /\ Waiting
        /\ \/ UNCHANGED worker /\ answer' = [how |-> "waiting", messages |-> x]
           \/ Return("returned", x)
           \/ Return("failed", <<>>)
    BY <1>0, <1>8, ReceiveFacts
  <2> HIDE DEF x
  <2>2. CASE UNCHANGED worker /\ answer' = [how |-> "waiting", messages |-> x]
    <3>1. answer'.how = answer.how
      BY <1>0, <2>1, <2>2 DEF Turns
    <3>2. QED
      BY <1>1, <2>1, <2>2, <3>1
  <2>3. QED
    BY <1>7, <2>1, <2>2
<1>9. CASE ReplyTimeout
  BY <1>7, <1>9 DEF ReplyTimeout
<1>10. CASE WorkerEnds
  <2>1. asked \in Nat /\ polls \in Nat
    BY <1>0 DEF Typed
  <2>2. QED
    BY <1>0, <1>10, <2>1 DEF WorkerEnds, kernelVars, Turns, Waiting
<1>11. QED
  BY <1>0, <1>1, <1>2, <1>4, <1>5, <1>6, <1>8, <1>9, <1>10, KernelAnswersSends, KernelRefusesSends
     DEF Next, Kernel, Worker, Task, KernelAnnounces, DropManager, TaskLoops, CollectEvent,
         EventTimeout, DeliverEvent, vars, managerVars, kernelVars

\* A message of the answer that a datagram makes longer is one that was there, or
\* one of the datagram, which is then of the open request.
LEMMA AnswerGrows ==
  ASSUME Typed, Ordered, NEW d \in Seq(AnyMessage), Regular(d)
  PROVE  LET s == Stop(d, asked)
             x == answer.messages \o Collected(d, asked)
             n == Len(answer.messages)
         IN  /\ x \in Seq(AnyMessage) /\ n \in Nat /\ DOMAIN x = 1 .. Len(x)
             /\ DOMAIN answer.messages = 1 .. n /\ Len(x) >= n /\ DOMAIN x \subseteq Nat
             /\ \A p \in 1 .. n : p \in DOMAIN x /\ x[p] = answer.messages[p]
             /\ \A p \in DOMAIN x : p > n =>
                  d[1].seq = asked /\ p - n \in 1 .. s - 1 /\ p - n \in DOMAIN d /\ x[p] = d[p - n]
             /\ d[1].seq = asked =>
                  \A k \in 1 .. s - 1 : n + k \in DOMAIN x /\ x[n + k] = d[k]
             /\ \A k \in 1 .. s - 1 : k \in DOMAIN d
<1> DEFINE s == Stop(d, asked)
           c == Collected(d, asked)
           m == answer.messages
<1>1. /\ c \in Seq(AnyMessage) /\ s \in 1 .. Len(d) + 1
      /\ d[1].seq # asked => c = <<>>
      /\ d[1].seq = asked => Len(c) = s - 1 /\ \A p \in 1 .. s - 1 : c[p] = d[p]
  BY CollectedFacts
<1>2. m \in Seq(AnyMessage)
  BY DEF Typed
<1> HIDE DEF s, c, m
<1>3. /\ m \o c \in Seq(AnyMessage) /\ Len(m \o c) = Len(m) + Len(c)
      /\ \A p \in 1 .. Len(m) : (m \o c)[p] = m[p]
      /\ \A p \in 1 .. Len(c) : (m \o c)[Len(m) + p] = c[p]
  BY <1>1, <1>2, ConcatFacts
<1> DEFINE x == m \o c
<1> HIDE DEF x
<1>4. /\ x \in Seq(AnyMessage) /\ Len(x) = Len(m) + Len(c) /\ Len(m) \in Nat /\ Len(c) \in Nat
      /\ DOMAIN x = 1 .. Len(x) /\ DOMAIN m = 1 .. Len(m) /\ Len(x) \in Nat
      /\ \A p \in 1 .. Len(m) : x[p] = m[p]
      /\ \A p \in 1 .. Len(c) : x[Len(m) + p] = c[p]
      /\ DOMAIN d = 1 .. Len(d) /\ Len(d) \in Nat
  BY <1>1, <1>2, <1>3 DEF x
<1>5. \A k \in 1 .. s - 1 : k \in DOMAIN d
  BY <1>1, <1>4
<1>6. ASSUME NEW p \in DOMAIN x, p > Len(m)
      PROVE  d[1].seq = asked /\ p - Len(m) \in 1 .. s - 1 /\ x[p] = d[p - Len(m)]
  <2>1. p - Len(m) \in 1 .. Len(c) /\ x[p] = c[p - Len(m)]
    <3>1. p - Len(m) \in 1 .. Len(c) /\ Len(m) + (p - Len(m)) = p
      BY <1>4, <1>6
    <3>2. QED
      BY <1>4, <3>1
  <2>2. Len(c) # 0
    BY <1>4, <2>1
  <2>3. d[1].seq = asked
    BY <1>1, <2>2
  <2>4. QED
    BY <1>1, <2>1, <2>3
<1>7. ASSUME d[1].seq = asked, NEW k \in 1 .. s - 1
      PROVE  Len(m) + k \in DOMAIN x /\ x[Len(m) + k] = d[k]
  BY <1>1, <1>4, <1>7
<1>8. \A p \in 1 .. Len(m) : p \in DOMAIN x
  BY <1>4
<1>9. QED
  BY <1>4, <1>5, <1>6, <1>7, <1>8 DEF x, s, c, m

\* What follows the datagram that has been received.
LEMMA RestFacts ==
  ASSUME Typed, replies # <<>>
  PROVE  \A i \in DOMAIN Tail(replies) :
           /\ i + 1 \in DOMAIN replies /\ 1 < i + 1 /\ Tail(replies)[i] = replies[i + 1]
           /\ i \in Nat
<1>1. replies \in Seq(Seq(AnyMessage))
  BY DEF Typed
<1>2. QED
  BY <1>1, HeadTailFacts

\* A datagram stays what it is when the kernel goes on with a dump or begins one.
LEMMA RegularStays ==
  ASSUME Typed, NEW d \in Seq(AnyMessage), Regular(d), asked' \in Nat, asked' >= asked,
         \A r \in 1 .. asked : dumps'[r] \in Nat /\ dumps[r] \in Nat /\ dumps'[r] >= dumps[r]
  PROVE  Regular(d)'
<1>1. d[1].seq \in 1 .. asked /\ d[1].seq \in 1 .. asked'
  BY DEF Regular, Typed
<1>2. ASSUME NEW p \in DOMAIN d PROVE d[p].n < dumps'[d[1].seq]
  <2>1. d[p] \in AnyMessage
    OBVIOUS
  <2>2. d[p].n < dumps[d[1].seq] /\ d[p].n \in Nat
    BY <2>1 DEF Regular, AnyMessage
  <2>3. QED
    BY <1>1, <2>2
<1>3. QED
  BY <1>1, <1>2 DEF Regular, Kind

\* What the kernel's sending does to the dumps and to the queue of replies.
LEMMA SendsFacts ==
  ASSUME Typed, Turns, NEW r \in 1 .. asked, Sends(r)
  PROVE  /\ UNCHANGED <<managerVars, taskVars>> /\ r \in Nat
         /\ spoiled' \in {spoiled, spoiled \cup {r}}
         /\ \A q \in 1 .. asked :
              /\ dumps[q] \in 1 .. Parts + 2 /\ dumps'[q] \in 1 .. Parts + 2
              /\ dumps'[q] >= dumps[q] /\ (q # r => dumps'[q] = dumps[q])
         /\ \/ replies' = replies /\ r \in spoiled'
            \/ \E d \in Seq(AnyMessage) :
                 /\ Fresh(d, r, dumps'[r])
                 /\ \/ r \in spoiled'
                    \/ /\ Len(d) = dumps'[r] - dumps[r]
                       /\ \A p \in DOMAIN d : d[p].type = Kind(d[p].n)
                 /\ Len(replies) \in Nat /\ DOMAIN replies = 1 .. Len(replies)
                 /\ DOMAIN replies' = 1 .. Len(replies) + 1
                 /\ \A i \in 1 .. Len(replies) : replies'[i] = replies[i]
                 /\ replies'[Len(replies) + 1] = d
<1> USE BoundsAssumption
<1>1. PICK next \in dumps[r] + 1 .. Parts + 2 :
        /\ dumps' = [dumps EXCEPT ![r] = next]
        /\ spoiled' \in {spoiled, spoiled \cup {r}}
        /\ \/ replies' = replies /\ r \in spoiled'
           \/ \E d : /\ Fresh(d, r, next) /\ replies' = Append(replies, d)
                     /\ \/ r \in spoiled'
                        \/ /\ Len(d) = next - dumps[r]
                           /\ \A p \in DOMAIN d : d[p].type = Kind(d[p].n)
        /\ UNCHANGED <<managerVars, taskVars>>
  BY DEF Sends
<1>2. dumps \in Seq(1 .. Parts + 2) /\ DOMAIN dumps = 1 .. asked /\ asked \in Nat
      /\ replies \in Seq(Seq(AnyMessage))
  BY DEF Typed, Turns
<1>3. \A q \in 1 .. asked : dumps[q] \in 1 .. Parts + 2
  BY <1>2
<1>4. next \in 1 .. Parts + 2 /\ next >= dumps[r] /\ r \in Nat
  BY <1>2, <1>3
<1>5. \A q \in 1 .. asked : dumps'[q] = IF q = r THEN next ELSE dumps[q]
  BY <1>1, <1>2
<1>6. \A q \in 1 .. asked :
        /\ dumps[q] \in 1 .. Parts + 2 /\ dumps'[q] \in 1 .. Parts + 2
        /\ dumps'[q] >= dumps[q] /\ (q # r => dumps'[q] = dumps[q])
  BY <1>3, <1>4, <1>5
<1>7. dumps'[r] = next
  BY <1>5
<1>8. ASSUME NEW d, Fresh(d, r, next), replies' = Append(replies, d)
      PROVE  /\ Len(replies) \in Nat /\ DOMAIN replies = 1 .. Len(replies)
             /\ DOMAIN replies' = 1 .. Len(replies) + 1
             /\ \A i \in 1 .. Len(replies) : replies'[i] = replies[i]
             /\ replies'[Len(replies) + 1] = d
             /\ d \in Seq(AnyMessage)
  <2>1. d \in Seq(AnyMessage)
    BY <1>8 DEF Fresh
  <2>2. /\ Len(replies) \in Nat /\ DOMAIN replies = 1 .. Len(replies)
        /\ DOMAIN Append(replies, d) = 1 .. Len(replies) + 1
        /\ \A i \in 1 .. Len(replies) : Append(replies, d)[i] = replies[i]
        /\ Append(replies, d)[Len(replies) + 1] = d
    BY <1>2, <2>1, AppendFacts
  <2>3. QED
    BY <1>8, <2>1, <2>2
<1>9. CASE replies' = replies /\ r \in spoiled'
  BY <1>1, <1>4, <1>6, <1>9
<1>10. ASSUME NEW d, Fresh(d, r, next), replies' = Append(replies, d),
              \/ r \in spoiled'
              \/ Len(d) = next - dumps[r] /\ \A p \in DOMAIN d : d[p].type = Kind(d[p].n)
       PROVE  \E e \in Seq(AnyMessage) :
                 /\ Fresh(e, r, dumps'[r])
                 /\ \/ r \in spoiled'
                    \/ /\ Len(e) = dumps'[r] - dumps[r]
                       /\ \A p \in DOMAIN e : e[p].type = Kind(e[p].n)
                 /\ Len(replies) \in Nat /\ DOMAIN replies = 1 .. Len(replies)
                 /\ DOMAIN replies' = 1 .. Len(replies) + 1
                 /\ \A i \in 1 .. Len(replies) : replies'[i] = replies[i]
                 /\ replies'[Len(replies) + 1] = e
  BY <1>7, <1>8, <1>10
<1>11. CASE ~(replies' = replies /\ r \in spoiled')
  <2>1. PICK d : /\ Fresh(d, r, next) /\ replies' = Append(replies, d)
                 /\ \/ r \in spoiled'
                    \/ Len(d) = next - dumps[r] /\ \A p \in DOMAIN d : d[p].type = Kind(d[p].n)
    BY <1>1, <1>11
  <2>2. QED
    BY <1>1, <1>4, <1>6, <1>10, <2>1
<1>12. QED
  BY <1>9, <1>11

\* What the kernel sends is as a datagram at the request socket should be.
LEMMA FreshRegular ==
  ASSUME Typed, Turns, NEW r \in 1 .. asked, NEW d \in Seq(AnyMessage), Fresh(d, r, dumps'[r]),
         dumps[r] \in 1 .. Parts + 2, asked' = asked
  PROVE  /\ Regular(d)' /\ d[1].seq = r /\ d[1].n = dumps[r] /\ 1 \in DOMAIN d
         /\ \A p \in DOMAIN d : d[p].n = dumps[r] + p - 1 /\ d[p].n < dumps'[r]
<1> USE BoundsAssumption
<1>1. d # <<>> /\ Len(d) \in Nat /\ DOMAIN d = 1 .. Len(d)
  BY DEF Fresh
<1>2. 1 \in DOMAIN d
  BY <1>1
<1>3. d[1].seq = r /\ d[1].n = dumps[r]
  BY <1>2 DEF Fresh
<1>4. \A p \in DOMAIN d :
       /\ d[p].seq = r /\ d[p].n = dumps[r] + p - 1 /\ d[p].n < dumps'[r]
       /\ \/ d[p].type \in {Kind(d[p].n), "garbage"}
          \/ d[p].type = "error" /\ d[p].n = 1
  BY DEF Fresh
<1>5. dumps[r] >= 1
  OBVIOUS
<1>6. Regular(d)'
  BY <1>1, <1>3, <1>4, <1>5 DEF Regular, Kind
<1>7. QED
  BY <1>2, <1>3, <1>4, <1>6

\* A step keeps the messages of a request in the order of its dump.
LEMMA OrderedStep ==
  ASSUME IInv, [Next]_vars
  PROVE  Ordered'
<1> USE BoundsAssumption
<1>0. Typed /\ Turns /\ Ordered
  BY DEF IInv
<1>91. /\ asked \in Nat /\ replies \in Seq(Seq(AnyMessage)) /\ Len(dumps) = asked
      /\ dumps \in Seq(1 .. Parts + 2) /\ answer.messages \in Seq(AnyMessage)
  BY <1>0 DEF Typed, Turns
<1>92. \A i \in DOMAIN replies : replies[i] \in Seq(AnyMessage) /\ Regular(replies[i])
  BY <1>0, <1>91 DEF Ordered
<1>93. \A i \in DOMAIN replies : \A p \in DOMAIN replies[i] : replies[i][p] \in AnyMessage
  BY <1>92
<1>94. \A p \in DOMAIN answer.messages : answer.messages[p] \in AnyMessage
  BY <1>91
<1>1. ASSUME UNCHANGED <<asked, dumps, replies>>, answer'.messages = answer.messages
      PROVE  Ordered'
  BY <1>0, <1>1 DEF Ordered, Regular, Kind
<1>2. ASSUME NEW r \in 1 .. asked, Sends(r) PROVE Ordered'
  <2>1. /\ asked' = asked /\ answer' = answer
        /\ \A q \in 1 .. asked :
              /\ dumps[q] \in 1 .. Parts + 2 /\ dumps'[q] \in 1 .. Parts + 2 /\ dumps'[q] >= dumps[q]
    BY <1>0, <1>2, SendsFacts DEF managerVars
  <2>2. \A e \in Seq(AnyMessage) : Regular(e) => Regular(e)'
    BY <1>0, <1>91, <2>1, RegularStays
  <2>3. \A p \in DOMAIN answer.messages : answer.messages[p].n < dumps'[asked]
    <3>1. ASSUME NEW p \in DOMAIN answer.messages PROVE answer.messages[p].n < dumps'[asked]
      <4>1. answer.messages[p].n < dumps[asked] /\ answer.messages[p].n \in Nat
        BY <1>0, <1>94 DEF Ordered, AnyMessage
      <4>2. asked \in 1 .. asked
        BY <1>2, <1>91
      <4>3. QED
        BY <2>1, <4>1, <4>2
    <3>2. QED
      BY <3>1
  <2>4. CASE replies' = replies
    BY <1>0, <1>92, <2>1, <2>2, <2>3, <2>4 DEF Ordered
  <2>5. CASE replies' # replies
    <3> DEFINE n == Len(replies)
    <3>1. PICK d \in Seq(AnyMessage) :
            /\ Fresh(d, r, dumps'[r]) /\ n \in Nat /\ DOMAIN replies = 1 .. n
            /\ DOMAIN replies' = 1 .. n + 1 /\ (\A i \in 1 .. n : replies'[i] = replies[i])
            /\ replies'[n + 1] = d
      BY <1>0, <1>2, <2>5, SendsFacts
    <3>2. /\ Regular(d)' /\ d[1].seq = r /\ d[1].n = dumps[r]
      BY <1>0, <1>2, <2>1, <3>1, FreshRegular
    <3> HIDE DEF n
    <3>3. ASSUME NEW i \in DOMAIN replies' PROVE i \in 1 .. n \/ i = n + 1
      BY <3>1
    <3>4. ASSUME NEW e, e \in {replies'[i] : i \in DOMAIN replies'} PROVE Regular(e)'
      <4>1. PICK i \in DOMAIN replies' : e = replies'[i]
        BY <3>4
      <4>2. CASE i \in 1 .. n
        BY <1>92, <2>2, <3>1, <4>1, <4>2
      <4>3. CASE i = n + 1
        BY <3>1, <3>2, <4>1, <4>3
      <4>4. QED
        BY <3>3, <4>2, <4>3
    <3>5. ASSUME NEW i \in DOMAIN replies', NEW j \in DOMAIN replies', i < j,
                 replies'[i][1].seq = replies'[j][1].seq, NEW p \in DOMAIN replies'[i]
          PROVE  replies'[i][p].n < replies'[j][1].n
      <4>1. i \in 1 .. n /\ replies'[i] = replies[i] /\ i \in DOMAIN replies
        BY <3>1, <3>5
      <4>2. CASE j \in 1 .. n
        BY <1>0, <3>1, <3>5, <4>1, <4>2 DEF Ordered
      <4>3. CASE j = n + 1
        <5>1. replies[i][1].seq = r /\ replies'[j][1].n = dumps[r]
          BY <3>1, <3>2, <3>5, <4>1, <4>3
        <5>2. Regular(replies[i]) /\ p \in DOMAIN replies[i]
          BY <1>92, <3>5, <4>1
        <5>3. replies[i][p].n < dumps[r]
          BY <5>1, <5>2 DEF Regular
        <5>4. QED
          BY <4>1, <5>1, <5>3
      <4>4. QED
        BY <3>3, <4>2, <4>3
    <3>6. ASSUME NEW p \in DOMAIN answer.messages, NEW i \in DOMAIN replies',
                 replies'[i][1].seq = asked
          PROVE  answer.messages[p].n < replies'[i][1].n
      <4>1. CASE i \in 1 .. n
        BY <1>0, <3>1, <3>6, <4>1 DEF Ordered
      <4>2. CASE i = n + 1
        BY <1>0, <3>1, <3>2, <3>6, <4>2 DEF Ordered
      <4>3. QED
        BY <3>3, <4>1, <4>2
    <3>7. \A i \in DOMAIN replies' : Regular(replies[i])'
      BY <3>4
    <3>8. QED
      BY <1>0, <2>1, <2>3, <3>5, <3>6, <3>7 DEF Ordered
  <2>6. QED
    BY <2>4, <2>5
<1>3. ASSUME NEW next, Send(next) PROVE Ordered'
  <2>1. /\ asked' = asked + 1 /\ answer'.messages = <<>> /\ dumps' = Append(dumps, 1)
        /\ replies' = replies
    BY <1>3 DEF Send
  <2>2. /\ \A q \in 1 .. asked : dumps[q] \in 1 .. Parts + 2
        /\ DOMAIN dumps = 1 .. asked
    BY <1>91
  <2>3. 1 \in 1 .. Parts + 2
    OBVIOUS
  <2>4. \A q \in 1 .. asked : dumps'[q] = dumps[q]
    BY <1>91, <2>1, <2>3, AppendFacts
  <2>5. \A q \in 1 .. asked : dumps[q] \in Nat /\ dumps'[q] \in Nat /\ dumps'[q] >= dumps[q]
    BY <2>2, <2>4
  <2>6. \A e \in Seq(AnyMessage) : Regular(e) => Regular(e)'
    BY <1>0, <1>91, <2>1, <2>5, RegularStays
  <2>7. \A i \in DOMAIN replies' : Regular(replies[i])'
    BY <1>92, <2>1, <2>6
  <2>8. DOMAIN answer'.messages = {}
    BY <2>1
  <2>9. QED
    BY <1>0, <2>1, <2>7, <2>8 DEF Ordered
<1>4. CASE ReceiveReply
  <2> DEFINE d == replies[1]
             s == Stop(d, asked)
             x == answer.messages \o Collected(d, asked)
             n == Len(answer.messages)
  <2>1. /\ replies # <<>> /\ replies' = Tail(replies) /\ 1 \in DOMAIN replies
        /\ d \in Seq(AnyMessage) /\ Regular(d)
        /\ answer'.messages \in {x, <<>>}
        /\ UNCHANGED <<asked, dumps>>
    BY <1>0, <1>4, ReceiveFacts
  <2>2. \A i \in DOMAIN replies' :
           i + 1 \in DOMAIN replies /\ 1 < i + 1 /\ replies'[i] = replies[i + 1] /\ i \in Nat
    BY <1>0, <2>1, RestFacts
  <2>3. \A e \in Seq(AnyMessage) : Regular(e) => Regular(e)'
    BY <2>1 DEF Regular, Kind
  <2>4. \A i \in DOMAIN replies' : Regular(replies[i])'
    BY <1>92, <2>2, <2>3
  <2>5. ASSUME NEW i \in DOMAIN replies', NEW j \in DOMAIN replies', i < j,
               replies'[i][1].seq = replies'[j][1].seq, NEW p \in DOMAIN replies'[i]
        PROVE  replies'[i][p].n < replies'[j][1].n
    <3>1. i + 1 \in DOMAIN replies /\ j + 1 \in DOMAIN replies /\ i + 1 < j + 1
          /\ replies'[i] = replies[i + 1] /\ replies'[j] = replies[j + 1]
      BY <2>2, <2>5
    <3>2. QED
      BY <1>0, <2>5, <3>1 DEF Ordered
  <2>6. ASSUME NEW p \in DOMAIN x
        PROVE  /\ x[p].n >= 1 /\ x[p].n < dumps[asked]
               /\ x[p].type = "part" => x[p].n <= Parts
               /\ \A i \in DOMAIN replies' : replies'[i][1].seq = asked => x[p].n < replies'[i][1].n
    <3>1. /\ n \in Nat /\ DOMAIN x \subseteq Nat /\ DOMAIN answer.messages = 1 .. n
          /\ \A q \in 1 .. n : x[q] = answer.messages[q]
          /\ p > n => d[1].seq = asked /\ p - n \in DOMAIN d /\ x[p] = d[p - n]
      BY <1>0, <2>1, AnswerGrows
    <3> HIDE DEF x, n
    <3>2. p \in Nat /\ (p \in DOMAIN answer.messages \/ p > n) /\ p >= 1
      <4>1. p \in 1 .. Len(x)
        BY <1>0, <2>1, AnswerGrows DEF x
      <4>2. QED
        BY <3>1, <4>1
    <3>3. CASE p \in DOMAIN answer.messages
      <4>1. x[p] = answer.messages[p]
        BY <3>1, <3>3
      <4>2. QED
        BY <1>0, <2>2, <3>3, <4>1 DEF Ordered
    <3>4. CASE p > n
      <4> DEFINE k == p - n
      <4>1. d[1].seq = asked /\ k \in DOMAIN d /\ x[p] = d[k] /\ k \in Nat /\ k >= 1
        <5>1. DOMAIN d = 1 .. Len(d) /\ Len(d) \in Nat
          BY <2>1
        <5>2. QED
          BY <3>1, <3>4, <5>1
      <4> HIDE DEF k
      <4>2. /\ d[k].n = d[1].n + k - 1 /\ d[k].n < dumps[asked] /\ d[1].n >= 1
            /\ d[k].type \in {Kind(d[k].n), "garbage", "error"}
        BY <2>1, <4>1 DEF Regular
      <4>3. d[1] \in AnyMessage /\ d[1].n \in Nat
        <5>1. d # <<>>
          BY <2>1 DEF Regular
        <5> HIDE DEF d
        <5>2. d[1] \in AnyMessage
          BY <2>1, <5>1, HeadTailFacts
        <5>3. QED
          BY <5>2 DEF AnyMessage
      <4>4. d[k].n >= 1 /\ d[k].n \in Nat
        BY <4>1, <4>2, <4>3
      <4>5. d[k].type = "part" => d[k].n <= Parts
        BY <4>2 DEF Kind
      <4>6. ASSUME NEW i \in DOMAIN replies', replies'[i][1].seq = asked
            PROVE  d[k].n < replies'[i][1].n
        BY <1>0, <2>1, <2>2, <4>1, <4>6 DEF Ordered
      <4>7. QED
        BY <4>1, <4>2, <4>4, <4>5, <4>6
    <3>5. QED
      BY <3>2, <3>3, <3>4
  <2> HIDE DEF x
  <2>7. ASSUME NEW p \in DOMAIN answer'.messages
        PROVE  /\ answer'.messages[p].n >= 1 /\ answer'.messages[p].n < dumps'[asked']
               /\ answer'.messages[p].type = "part" => answer'.messages[p].n <= Parts
               /\ \A i \in DOMAIN replies' :
                    replies'[i][1].seq = asked' => answer'.messages[p].n < replies'[i][1].n
    <3>1. answer'.messages # <<>>
      BY <2>7
    <3>2. answer'.messages = x
      BY <2>1, <3>1
    <3>3. QED
      BY <2>1, <2>6, <2>7, <3>2
  <2>8. QED
    BY <2>4, <2>5, <2>7 DEF Ordered
<1>5. CASE ReplyTimeout
  BY <1>1, <1>5 DEF ReplyTimeout, Return
<1>6. QED
  BY <1>0, <1>1, <1>2, <1>3, <1>4, <1>5, KernelAnswersSends, KernelRefusesSends
     DEF Next, Kernel, Worker, Task, PollBegins, AskForAddresses, SendFails, WorkerEnds,
         KernelAnnounces, DropManager, TaskLoops, CollectEvent,
         EventTimeout, DeliverEvent, vars, managerVars, kernelVars

\* A step hands out nothing of another request, and nothing twice.
LEMMA AnswerIsOwnStep ==
  ASSUME IInv, [Next]_vars
  PROVE  AnswerIsOwn'
<1>0. Typed /\ Turns /\ Ordered /\ AnswerIsOwn
  BY DEF IInv
<1>1. ASSUME UNCHANGED asked, answer'.messages = answer.messages PROVE AnswerIsOwn'
  BY <1>0, <1>1 DEF AnswerIsOwn
<1>2. ASSUME NEW r \in 1 .. asked, Sends(r) PROVE AnswerIsOwn'
  BY <1>0, <1>1, <1>2, SendsFacts DEF managerVars
<1>3. ASSUME answer'.messages = <<>> PROVE AnswerIsOwn'
  <2>1. DOMAIN answer'.messages = {}
    BY <1>3
  <2>2. QED
    BY <2>1 DEF AnswerIsOwn
<1>4. CASE ReceiveReply
  <2> DEFINE d == replies[1]
             s == Stop(d, asked)
             x == answer.messages \o Collected(d, asked)
             n == Len(answer.messages)
  <2>1. /\ replies # <<>> /\ replies' = Tail(replies) /\ 1 \in DOMAIN replies
        /\ d \in Seq(AnyMessage) /\ Regular(d)
        /\ answer'.messages \in {x, <<>>}
        /\ UNCHANGED <<asked, dumps>>
    BY <1>0, <1>4, ReceiveFacts
  <2>2. /\ n \in Nat /\ DOMAIN x \subseteq Nat /\ DOMAIN answer.messages = 1 .. n
        /\ DOMAIN x = 1 .. Len(x)
        /\ \A q \in 1 .. n : x[q] = answer.messages[q]
        /\ \A p \in DOMAIN x : p > n =>
             d[1].seq = asked /\ p - n \in 1 .. s - 1 /\ p - n \in DOMAIN d /\ x[p] = d[p - n]
    BY <1>0, <2>1, AnswerGrows
  <2>3. /\ s \in 1 .. Len(d) + 1 /\ Len(d) \in Nat
        /\ d[1].seq = asked => \A p \in 1 .. s - 1 : d[p].type \in {"part", "error"}
    BY <1>0, <2>1, CollectedFacts
  <2>4. ASSUME NEW p \in DOMAIN d
        PROVE  d[p].seq = d[1].seq /\ d[p].n = d[1].n + p - 1 /\ d[p].n \in Nat /\ p \in Nat
               /\ d[1].n \in Nat
    <3>1. d[p].seq = d[1].seq /\ d[p].n = d[1].n + p - 1
      BY <2>1 DEF Regular
    <3>2. d[p] \in AnyMessage /\ 1 \in DOMAIN d /\ p \in Nat /\ d[1] \in AnyMessage
      <4> HIDE DEF d
      <4>1. QED
        BY <2>1
    <3>3. QED
      BY <3>1, <3>2 DEF AnyMessage
  <2> HIDE DEF x, n, s
  <2>5. ASSUME NEW p \in DOMAIN x
        PROVE  p \in Nat /\ (p \in DOMAIN answer.messages \/ p > n) /\ p >= 1
    BY <2>2
  <2>6. ASSUME NEW p \in DOMAIN x
        PROVE  x[p].seq = asked /\ x[p].type \in {"part", "error"}
    <3>1. CASE p \in DOMAIN answer.messages
      BY <1>0, <2>2, <3>1 DEF AnswerIsOwn
    <3>2. CASE p > n
      BY <2>2, <2>3, <2>4, <3>2
    <3>3. QED
      BY <2>5, <3>1, <3>2
  <2>7. ASSUME NEW p \in DOMAIN x, NEW q \in DOMAIN x, p < q
        PROVE  x[p].n < x[q].n
    <3>1. CASE q \in DOMAIN answer.messages
      <4>1. p \in DOMAIN answer.messages
        BY <2>2, <2>5, <2>7, <3>1
      <4>2. QED
        BY <1>0, <2>2, <2>7, <3>1, <4>1 DEF AnswerIsOwn
    <3>2. CASE q > n /\ p \in DOMAIN answer.messages
      <4>1. d[1].seq = asked /\ q - n \in DOMAIN d /\ x[q] = d[q - n] /\ x[p] = answer.messages[p]
        BY <2>2, <3>2
      <4>2. answer.messages[p].n < d[1].n
        BY <1>0, <2>1, <3>2, <4>1 DEF Ordered
      <4>3. x[q].n = d[1].n + (q - n) - 1 /\ d[1].n \in Nat /\ q - n >= 1 /\ q - n \in Nat
        BY <2>2, <2>4, <2>5, <3>2, <4>1
      <4>4. answer.messages[p].n \in Nat
        <5>1. answer.messages \in Seq(AnyMessage)
          BY <1>0 DEF Typed
        <5>2. answer.messages[p] \in AnyMessage
          BY <3>2, <5>1
        <5>3. QED
          BY <5>2 DEF AnyMessage
      <4>5. QED
        BY <4>1, <4>2, <4>3, <4>4
    <3>3. CASE q > n /\ p > n
      <4>1. /\ p - n \in DOMAIN d /\ x[p] = d[p - n] /\ q - n \in DOMAIN d /\ x[q] = d[q - n]
        BY <2>2, <3>3
      <4>2. /\ x[p].n = d[1].n + (p - n) - 1 /\ x[q].n = d[1].n + (q - n) - 1 /\ d[1].n \in Nat
        BY <2>4, <4>1
      <4>3. QED
        BY <2>2, <2>5, <2>7, <4>2
    <3>4. QED
      BY <2>5, <3>1, <3>2, <3>3
  <2>8. CASE answer'.messages = x
    BY <2>1, <2>6, <2>7, <2>8 DEF AnswerIsOwn
  <2>9. QED
    BY <1>3, <2>1, <2>8
<1>5. CASE ReplyTimeout
  BY <1>1, <1>5 DEF ReplyTimeout, Return
<1>6. ASSUME NEW next, Send(next) PROVE AnswerIsOwn'
  BY <1>3, <1>6 DEF Send
<1>7. QED
  BY <1>0, <1>1, <1>2, <1>4, <1>5, <1>6, KernelAnswersSends, KernelRefusesSends
     DEF Next, Kernel, Worker, Task, PollBegins, AskForAddresses, SendFails, WorkerEnds,
         KernelAnnounces, DropManager, TaskLoops, CollectEvent,
         EventTimeout, DeliverEvent, vars, managerVars, kernelVars

\* A message that has yet to be read is one of its request's dump.
LEMMA ReplyFacts ==
  ASSUME Typed, Ordered
  PROVE  \A i \in DOMAIN replies :
           /\ replies[i] \in Seq(AnyMessage) /\ Regular(replies[i])
           /\ i \in Nat /\ i >= 1 /\ replies[i][1].seq \in 1 .. asked
           /\ replies[i][1].n \in Nat /\ replies[i][1].n >= 1
           /\ \A p \in DOMAIN replies[i] :
                /\ p \in Nat /\ p >= 1
                /\ replies[i][p].n \in Nat /\ replies[i][p].n = replies[i][1].n + p - 1
                /\ replies[i][p].n < dumps[replies[i][1].seq]
<1>1. replies \in Seq(Seq(AnyMessage)) /\ DOMAIN replies = 1 .. Len(replies)
  BY DEF Typed
<1>2. ASSUME NEW i \in DOMAIN replies
      PROVE  replies[i] \in Seq(AnyMessage) /\ Regular(replies[i]) /\ i \in Nat /\ i >= 1
  BY <1>1 DEF Ordered
<1>3. ASSUME NEW d \in Seq(AnyMessage), Regular(d)
      PROVE  /\ d[1].seq \in 1 .. asked /\ d[1].n \in Nat /\ d[1].n >= 1
             /\ \A p \in DOMAIN d :
                /\ p \in Nat /\ p >= 1
                /\ d[p].n \in Nat /\ d[p].n = d[1].n + p - 1
                /\ d[p].n < dumps[d[1].seq]
  <2>1. \A p \in DOMAIN d : d[p] \in AnyMessage /\ p \in Nat /\ p >= 1
    OBVIOUS
  <2>2. d # <<>>
    BY <1>3 DEF Regular
  <2>3. d[1] \in AnyMessage
    BY <2>2, HeadTailFacts
  <2>4. QED
    BY <1>3, <2>1, <2>3 DEF Regular, AnyMessage
<1>4. QED
  BY <1>2, <1>3

\* A step drops nothing of the dump that is waited for, unless it spoils it.
LEMMA WholeStep ==
  ASSUME IInv, [Next]_vars
  PROVE  Whole'
<1> USE BoundsAssumption
<1>90. Typed /\ Turns /\ Ordered /\ AnswerIsOwn /\ Whole
  BY DEF IInv
<1>91. /\ asked \in Nat /\ replies \in Seq(Seq(AnyMessage)) /\ Len(dumps) = asked
       /\ dumps \in Seq(1 .. Parts + 2) /\ answer.messages \in Seq(AnyMessage)
  BY <1>90 DEF Typed, Turns
<1>1. ASSUME Waiting' => Waiting, UNCHANGED <<asked, dumps, replies, spoiled>>,
             answer'.messages = answer.messages
      PROVE  Whole'
  <2> DEFINE w == Waiting
  <2>1. SUFFICES ASSUME w', asked' \notin spoiled' PROVE Whole'
    BY DEF Whole
  <2>2. Waiting /\ asked \notin spoiled
    BY <1>1, <2>1
  <2>3. QED
    BY <1>90, <1>1, <2>2 DEF Whole, Kind
<1>2. ASSUME answer'.how # "waiting" PROVE Whole'
  BY <1>2, TurnsStep DEF Turns, Whole
<1>3. ASSUME NEW r \in 1 .. asked, Sends(r) PROVE Whole'
  <2>1. /\ asked' = asked /\ answer' = answer /\ worker' = worker
        /\ spoiled' \in {spoiled, spoiled \cup {r}}
        /\ \A q \in 1 .. asked :
              /\ dumps[q] \in 1 .. Parts + 2 /\ dumps'[q] \in 1 .. Parts + 2
              /\ dumps'[q] >= dumps[q] /\ (q # r => dumps'[q] = dumps[q])
    BY <1>90, <1>3, SendsFacts DEF managerVars
  <2>2. SUFFICES ASSUME Waiting, asked \notin spoiled' PROVE Whole'
    BY <2>1 DEF Whole, Waiting
  <2>3. asked \notin spoiled /\ asked \in 1 .. asked
    BY <1>91, <1>3, <2>1, <2>2
  <2>4. /\ \A n \in 1 .. dumps[asked] - 1 :
             \/ \E p \in DOMAIN answer.messages : answer.messages[p].n = n
             \/ \E i \in DOMAIN replies :
                  replies[i][1].seq = asked /\ \E p \in DOMAIN replies[i] : replies[i][p].n = n
        /\ \A i \in DOMAIN replies : replies[i][1].seq = asked =>
             \A p \in DOMAIN replies[i] : replies[i][p].type = Kind(replies[i][p].n)
        /\ \A p \in DOMAIN answer.messages : answer.messages[p].type = "part"
    BY <1>90, <2>2, <2>3 DEF Whole
  <2>5. CASE replies' = replies /\ r \in spoiled'
    <3>1. dumps'[asked] = dumps[asked]
      BY <2>1, <2>2, <2>3, <2>5
    <3>2. QED
      BY <2>1, <2>4, <2>5, <3>1 DEF Whole, Kind
  <2>6. CASE ~(replies' = replies /\ r \in spoiled')
    <3> DEFINE k == Len(replies)
    <3>1. PICK d \in Seq(AnyMessage) :
            /\ Fresh(d, r, dumps'[r])
            /\ \/ r \in spoiled'
               \/ /\ Len(d) = dumps'[r] - dumps[r]
                  /\ \A p \in DOMAIN d : d[p].type = Kind(d[p].n)
            /\ k \in Nat /\ DOMAIN replies = 1 .. k /\ DOMAIN replies' = 1 .. k + 1
            /\ (\A i \in 1 .. k : replies'[i] = replies[i]) /\ replies'[k + 1] = d
      BY <1>90, <1>3, <2>6, SendsFacts
    <3>2. /\ d[1].seq = r /\ d[1].n = dumps[r] /\ 1 \in DOMAIN d
          /\ \A p \in DOMAIN d : d[p].n = dumps[r] + p - 1
      BY <1>90, <1>3, <2>1, <3>1, FreshRegular
    <3> HIDE DEF k
    <3>3. \A i \in DOMAIN replies : i \in DOMAIN replies' /\ replies'[i] = replies[i]
      BY <3>1
    <3>4. k + 1 \in DOMAIN replies' /\ \A i \in DOMAIN replies' : i \in DOMAIN replies \/ i = k + 1
      BY <3>1
    <3>5. ASSUME NEW n \in 1 .. dumps'[asked] - 1
          PROVE  \/ \E p \in DOMAIN answer.messages : answer.messages[p].n = n
                 \/ \E i \in DOMAIN replies' :
                      replies'[i][1].seq = asked /\ \E p \in DOMAIN replies'[i] : replies'[i][p].n = n
      <4>1. CASE n < dumps[asked]
        <5>1. n \in 1 .. dumps[asked] - 1
          BY <2>1, <2>3, <4>1
        <5>2. CASE \E p \in DOMAIN answer.messages : answer.messages[p].n = n
          BY <5>2
        <5>3. CASE \E i \in DOMAIN replies :
                  replies[i][1].seq = asked /\ \E p \in DOMAIN replies[i] : replies[i][p].n = n
          BY <3>3, <5>3
        <5>4. QED
          BY <2>4, <5>1, <5>2, <5>3
      <4>2. CASE n >= dumps[asked]
        <5>1. r = asked
          BY <2>1, <2>3, <4>2
        <5>2. Len(d) = dumps'[r] - dumps[r]
          BY <2>2, <3>1, <5>1
        <5> DEFINE p == n - dumps[r] + 1
        <5>3. p \in DOMAIN d /\ dumps[r] + p - 1 = n
          <6>1. DOMAIN d = 1 .. Len(d)
            OBVIOUS
          <6>2. QED
            BY <2>1, <2>3, <4>2, <5>1, <5>2, <6>1
        <5> HIDE DEF p
        <5>4. replies'[k + 1][1].seq = asked /\ replies'[k + 1][p].n = n /\ p \in DOMAIN replies'[k + 1]
          BY <3>1, <3>2, <5>1, <5>3
        <5>5. QED
          BY <3>4, <5>4
      <4>3. QED
        BY <2>1, <2>3, <4>1, <4>2
    <3>6. ASSUME NEW i \in DOMAIN replies', replies'[i][1].seq = asked, NEW p \in DOMAIN replies'[i]
          PROVE  replies'[i][p].type = Kind(replies'[i][p].n)
      <4>1. CASE i \in DOMAIN replies
        BY <2>4, <3>3, <3>6, <4>1
      <4>2. CASE i = k + 1
        <5>1. r = asked
          BY <3>1, <3>2, <3>6, <4>2
        <5>2. QED
          BY <2>2, <3>1, <3>6, <4>2, <5>1
      <4>3. QED
        BY <3>4, <4>1, <4>2
    <3>7. QED
      BY <2>1, <2>4, <3>5, <3>6 DEF Whole, Kind
  <2>7. QED
    BY <2>5, <2>6
<1>4. ASSUME NEW next, Send(next) PROVE Whole'
  <2>1. /\ asked' = asked + 1 /\ answer'.messages = <<>> /\ dumps' = Append(dumps, 1)
        /\ replies' = replies
    BY <1>4 DEF Send
  <2>2. dumps'[asked'] = 1
    BY <1>91, <2>1, AppendFacts
  <2>3. 1 .. dumps'[asked'] - 1 = {} /\ DOMAIN answer'.messages = {}
    <3>1. 1 .. 1 - 1 = {} /\ DOMAIN <<>> = {}
      OBVIOUS
    <3>2. QED
      BY <2>1, <2>2, <3>1
  <2>4. \A i \in DOMAIN replies' : replies'[i][1].seq # asked'
    BY <1>90, <1>91, <2>1, ReplyFacts
  <2>5. QED
    BY <2>3, <2>4 DEF Whole
<1>5. CASE ReceiveReply
  <2> DEFINE d == replies[1]
             s == Stop(d, asked)
             x == answer.messages \o Collected(d, asked)
             n == Len(answer.messages)
  <2>1. /\ replies # <<>> /\ replies' = Tail(replies) /\ 1 \in DOMAIN replies /\ Waiting
        /\ d \in Seq(AnyMessage) /\ Regular(d)
        /\ \/ Outcome(d, asked) = "more" /\ spoiled' = spoiled /\ answer'.messages = x
           \/ answer'.how # "waiting"
        /\ UNCHANGED <<asked, dumps>>
    BY <1>90, <1>5, ReceiveFacts
  <2>2. SUFFICES ASSUME Outcome(d, asked) = "more", spoiled' = spoiled, answer'.messages = x,
                        asked \notin spoiled
                 PROVE  Whole'
    BY <1>2, <2>1 DEF Whole
  <2>3. /\ \A i \in DOMAIN replies' :
             i + 1 \in DOMAIN replies /\ replies'[i] = replies[i + 1]
        /\ \A i \in DOMAIN replies : i # 1 => i - 1 \in DOMAIN replies' /\ replies'[i - 1] = replies[i]
    <3>1. /\ DOMAIN replies = 1 .. Len(replies) /\ Len(replies) \in Nat
          /\ Len(replies') = Len(replies) - 1 /\ DOMAIN replies' = 1 .. Len(replies')
          /\ \A i \in 1 .. Len(replies') : replies'[i] = replies[i + 1]
      BY <1>91, <2>1, HeadTailFacts
    <3>2. QED
      BY <3>1
  <2>4. /\ n \in Nat /\ DOMAIN x \subseteq Nat /\ DOMAIN answer.messages = 1 .. n
        /\ DOMAIN x = 1 .. Len(x)
        /\ \A q \in 1 .. n : q \in DOMAIN x /\ x[q] = answer.messages[q]
        /\ \A p \in DOMAIN x : p > n =>
             d[1].seq = asked /\ p - n \in 1 .. s - 1 /\ p - n \in DOMAIN d /\ x[p] = d[p - n]
        /\ d[1].seq = asked => \A k \in 1 .. s - 1 : n + k \in DOMAIN x /\ x[n + k] = d[k]
    BY <1>90, <2>1, AnswerGrows
  <2>5. /\ s = Len(d) + 1 /\ Len(d) \in Nat /\ DOMAIN d = 1 .. Len(d)
        /\ d[1].seq = asked => \A p \in 1 .. s - 1 : d[p].type \in {"part", "error"}
    BY <1>90, <2>1, <2>2, CollectedFacts
  <2>6. DOMAIN d = 1 .. s - 1
    BY <2>5
  <2>7. /\ \A m \in 1 .. dumps[asked] - 1 :
             \/ \E p \in DOMAIN answer.messages : answer.messages[p].n = m
             \/ \E i \in DOMAIN replies :
                  replies[i][1].seq = asked /\ \E p \in DOMAIN replies[i] : replies[i][p].n = m
        /\ \A i \in DOMAIN replies : replies[i][1].seq = asked =>
             \A p \in DOMAIN replies[i] : replies[i][p].type = Kind(replies[i][p].n)
        /\ \A p \in DOMAIN answer.messages : answer.messages[p].type = "part"
    BY <1>90, <2>1, <2>2 DEF Whole
  <2> HIDE DEF x, n, s
  <2>8. ASSUME NEW m \in 1 .. dumps[asked] - 1
        PROVE  \/ \E p \in DOMAIN x : x[p].n = m
               \/ \E i \in DOMAIN replies' :
                    replies'[i][1].seq = asked /\ \E p \in DOMAIN replies'[i] : replies'[i][p].n = m
    <3>1. CASE \E p \in DOMAIN answer.messages : answer.messages[p].n = m
      BY <2>4, <3>1
    <3>2. CASE \E i \in DOMAIN replies :
                 replies[i][1].seq = asked /\ \E p \in DOMAIN replies[i] : replies[i][p].n = m
      <4>1. PICK i \in DOMAIN replies :
              replies[i][1].seq = asked /\ \E p \in DOMAIN replies[i] : replies[i][p].n = m
        BY <3>2
      <4>2. CASE i = 1
        BY <2>4, <2>6, <4>1, <4>2
      <4>3. CASE i # 1
        BY <2>3, <4>1, <4>3
      <4>4. QED
        BY <4>2, <4>3
    <3>3. QED
      BY <2>7, <3>1, <3>2
  <2>9. ASSUME NEW p \in DOMAIN x PROVE x[p].type = "part"
    <3>1. CASE p \in DOMAIN answer.messages
      BY <2>4, <2>7, <3>1
    <3>2. CASE p > n
      <4>1. d[1].seq = asked /\ p - n \in DOMAIN d /\ x[p] = d[p - n]
        BY <2>4, <3>2
      <4>2. d[p - n].type \in {"part", "error"} /\ d[p - n].type = Kind(d[p - n].n)
        BY <2>1, <2>5, <2>6, <2>7, <4>1
      <4>3. QED
        BY <4>1, <4>2 DEF Kind
    <3>3. QED
      BY <2>4, <3>1, <3>2
  <2>10. \A i \in DOMAIN replies' : replies'[i][1].seq = asked =>
             \A p \in DOMAIN replies'[i] : replies'[i][p].type = Kind(replies'[i][p].n)
    BY <2>3, <2>7
  <2>11. QED
    BY <2>1, <2>2, <2>8, <2>9, <2>10 DEF Whole, Kind
<1>6. CASE ReplyTimeout
  BY <1>2, <1>6 DEF ReplyTimeout, Return
<1>7. CASE SendFails
  BY <1>1, <1>7 DEF SendFails, PollOver, Waiting, kernelVars
<1>8. CASE WorkerEnds
  BY <1>1, <1>8 DEF WorkerEnds, Waiting, kernelVars
<1>9. ASSUME UNCHANGED <<worker, asked, dumps, replies, spoiled, answer>> PROVE Whole'
  BY <1>1, <1>9 DEF Waiting
<1>10. QED
  BY <1>90, <1>3, <1>4, <1>5, <1>6, <1>7, <1>8, <1>9, KernelAnswersSends, KernelRefusesSends
     DEF Next, Kernel, Worker, Task, PollBegins, AskForAddresses,
         KernelAnnounces, DropManager, TaskLoops, CollectEvent,
         EventTimeout, DeliverEvent, vars, managerVars, kernelVars

\* An answer that the end of the dump completes is the whole dump, unless
\* something has gone wrong with its request.
LEMMA ReceivedWhole ==
  ASSUME IInv, ReceiveReply, Outcome(replies[1], asked) = "received", asked \notin spoiled,
         NEW x, x = answer.messages \o Collected(replies[1], asked)
  PROVE  {x[p].n : p \in {p \in DOMAIN x : x[p].type = "part"}} = 1 .. Parts
<1> USE BoundsAssumption
<1> DEFINE d == replies[1]
           s == Stop(d, asked)
           n == Len(answer.messages)
<1>0. Typed /\ Turns /\ Ordered /\ AnswerIsOwn /\ Whole
  BY DEF IInv
<1>1. 1 \in DOMAIN replies /\ Waiting /\ d \in Seq(AnyMessage) /\ Regular(d)
  BY <1>0, ReceiveFacts
<1>2. /\ n \in Nat /\ DOMAIN x \subseteq Nat /\ DOMAIN answer.messages = 1 .. n
      /\ DOMAIN x = 1 .. Len(x)
      /\ \A q \in 1 .. n : q \in DOMAIN x /\ x[q] = answer.messages[q]
      /\ \A p \in DOMAIN x : p > n =>
           d[1].seq = asked /\ p - n \in 1 .. s - 1 /\ p - n \in DOMAIN d /\ x[p] = d[p - n]
      /\ d[1].seq = asked => \A k \in 1 .. s - 1 : n + k \in DOMAIN x /\ x[n + k] = d[k]
  BY <1>0, <1>1, AnswerGrows
<1>3. /\ s \in 1 .. Len(d) + 1 /\ s <= Len(d) /\ d[s].type = "done" /\ d[1].seq = asked
      /\ \A p \in 1 .. s - 1 : d[p].type \in {"part", "error"}
      /\ DOMAIN d = 1 .. Len(d) /\ Len(d) \in Nat
  BY <1>0, <1>1, CollectedFacts
<1>4. /\ \A m \in 1 .. dumps[asked] - 1 :
           \/ \E p \in DOMAIN answer.messages : answer.messages[p].n = m
           \/ \E i \in DOMAIN replies :
                replies[i][1].seq = asked /\ \E p \in DOMAIN replies[i] : replies[i][p].n = m
      /\ \A p \in DOMAIN d : d[p].type = Kind(d[p].n)
      /\ \A p \in DOMAIN answer.messages : answer.messages[p].type = "part"
  BY <1>0, <1>1, <1>3 DEF Whole
<1>5. \A i \in DOMAIN replies :
         /\ i \in Nat /\ i >= 1
         /\ replies[i][1].n \in Nat /\ replies[i][1].n >= 1
         /\ \A p \in DOMAIN replies[i] :
              /\ p \in Nat /\ p >= 1
              /\ replies[i][p].n \in Nat /\ replies[i][p].n = replies[i][1].n + p - 1
              /\ replies[i][p].n < dumps[replies[i][1].seq]
  BY <1>0, ReplyFacts
<1>6. dumps[asked] \in 1 .. Parts + 2
  <2>1. asked \in DOMAIN dumps /\ dumps \in Seq(1 .. Parts + 2)
    <3>1. asked \in Nat /\ asked >= 1 /\ dumps \in Seq(1 .. Parts + 2) /\ Len(dumps) = asked
      BY <1>0, <1>1 DEF Typed, Turns, Waiting
    <3>2. QED
      BY <3>1
  <2>2. QED
    BY <2>1
<1> HIDE DEF s, n
<1>7. s \in DOMAIN d /\ s \in Nat
  BY <1>3
<1>8. d[s].n = Parts + 1 /\ dumps[asked] = Parts + 2
  <2>1. Kind(d[s].n) = "done"
    BY <1>3, <1>4, <1>7
  <2>2. ~(d[s].n <= Parts)
    BY <2>1 DEF Kind
  <2>3. d[s].n \in Nat /\ d[s].n < dumps[asked]
    BY <1>1, <1>3, <1>5, <1>7
  <2>4. QED
    BY <1>6, <2>2, <2>3
<1>9. ASSUME NEW p \in DOMAIN x PROVE x[p].n \in 1 .. Parts /\ x[p].type = "part"
  <2>1. CASE p \in DOMAIN answer.messages
    <3>1. x[p] = answer.messages[p] /\ answer.messages[p].type = "part"
      BY <1>2, <1>4, <2>1
    <3>2. answer.messages \in Seq(AnyMessage)
      BY <1>0 DEF Typed
    <3>3. answer.messages[p] \in AnyMessage
      BY <2>1, <3>2
    <3>4. QED
      BY <1>0, <2>1, <3>1, <3>3 DEF Ordered, AnyMessage
  <2>2. CASE p > n
    <3> DEFINE k == p - n
    <3>1. k \in 1 .. s - 1 /\ k \in DOMAIN d /\ x[p] = d[k] /\ k \in Nat
      <4>1. k \in 1 .. s - 1 /\ k \in DOMAIN d /\ x[p] = d[k]
        BY <1>2, <2>2
      <4> HIDE DEF k
      <4>2. QED
        BY <1>7, <4>1
    <3> HIDE DEF k
    <3>2. d[k].n = d[1].n + k - 1 /\ d[s].n = d[1].n + s - 1 /\ d[1].n \in Nat /\ d[1].n >= 1
      BY <1>1, <1>5, <1>7, <3>1
    <3>3. d[k].type = "part"
      BY <1>3, <1>4, <3>1 DEF Kind
    <3>4. QED
      BY <1>7, <1>8, <3>1, <3>2, <3>3
  <2>3. QED
    BY <1>2, <2>1, <2>2
<1>10. ASSUME NEW m \in 1 .. Parts PROVE \E p \in DOMAIN x : x[p].n = m
  <2>1. m \in 1 .. dumps[asked] - 1
    BY <1>8
  <2>2. CASE \E p \in DOMAIN answer.messages : answer.messages[p].n = m
    BY <1>2, <2>2
  <2>3. CASE \E i \in DOMAIN replies :
               replies[i][1].seq = asked /\ \E p \in DOMAIN replies[i] : replies[i][p].n = m
    <3>1. PICK i \in DOMAIN replies :
            replies[i][1].seq = asked /\ \E p \in DOMAIN replies[i] : replies[i][p].n = m
      BY <2>3
    <3>2. PICK p \in DOMAIN replies[i] : replies[i][p].n = m
      BY <3>1
    <3>3. i = 1
      <4>1. SUFFICES ASSUME i # 1 PROVE FALSE
        OBVIOUS
      <4>2. 1 < i
        BY <1>5, <4>1
      <4>3. d[s].n < replies[i][1].n
        BY <1>0, <1>1, <1>3, <1>7, <3>1, <4>2 DEF Ordered
      <4>4. replies[i][1].n <= m
        BY <1>5, <3>2
      <4>5. QED
        BY <1>5, <1>8, <4>3, <4>4
    <3>4. p < s
      <4>1. m = d[1].n + p - 1 /\ Parts + 1 = d[1].n + s - 1 /\ d[1].n \in Nat /\ p \in Nat
        BY <1>1, <1>5, <1>7, <1>8, <3>2, <3>3
      <4>2. QED
        BY <1>7, <4>1
    <3>5. p \in 1 .. s - 1
      BY <1>1, <1>5, <1>7, <3>2, <3>3, <3>4
    <3>6. QED
      BY <1>2, <1>3, <3>2, <3>3, <3>5
  <2>4. QED
    BY <1>4, <2>1, <2>2, <2>3
<1>11. {p \in DOMAIN x : x[p].type = "part"} = DOMAIN x
  BY <1>9
<1>12. {x[p].n : p \in DOMAIN x} = 1 .. Parts
  <2>1. \A m \in {x[p].n : p \in DOMAIN x} : m \in 1 .. Parts
    BY <1>9, Zenon
  <2>2. \A m \in 1 .. Parts : m \in {x[p].n : p \in DOMAIN x}
    BY <1>10, Zenon
  <2>3. QED
    BY <2>1, <2>2, Zenon
<1>13. QED
  BY <1>11, <1>12

-----------------------------------------------------------------------------
(* The multicasts. *)

\* What the task gets to see of a multicast it takes from the socket.
LEMMA CollectFacts ==
  ASSUME Typed, Single, CollectEvent
  PROVE  /\ events # <<>> /\ events' = Tail(events)
         /\ UNCHANGED <<managerVars, kernelVars, announced, delivered, lost, faults>>
         /\ \E m \in AnyMessage :
              /\ events[1] = <<m>> /\ events[1][1] = m
              /\ m.seq = 0 /\ m.type \in {"event", "garbage"}
              /\ task'.messages = IF m.type = "event" THEN Append(task.messages, m)
                                                      ELSE task.messages
<1>1. /\ events # <<>> /\ events' = Tail(events)
      /\ UNCHANGED <<managerVars, kernelVars, announced, delivered, lost, faults>>
      /\ task'.messages = task.messages \o Collected(Head(events), Unfiltered)
  BY DEF CollectEvent
<1>2. events \in Seq(Seq(AnyMessage)) /\ task.messages \in Seq(AnyMessage)
  BY DEF Typed
<1>3. Head(events) = events[1] /\ 1 \in DOMAIN events /\ events[1] \in Seq(AnyMessage)
  BY <1>1, <1>2
<1>4. PICK m \in AnyMessage :
        /\ events[1] = <<m>> /\ events[1][1] = m
        /\ m.seq = 0 /\ m.type \in {"event", "garbage"}
  BY <1>3 DEF Single
<1>5. CASE m.type = "event"
  <2>1. Collected(Head(events), Unfiltered) = <<m>>
    BY <1>3, <1>4, <1>5, CollectedEvent
  <2>2. task.messages \o <<m>> = Append(task.messages, m)
    BY <1>2
  <2>3. QED
    BY <1>1, <1>4, <1>5, <2>1, <2>2
<1>6. CASE m.type # "event"
  <2>1. Collected(Head(events), Unfiltered) = <<>>
    BY <1>3, <1>4, <1>6, CollectedEvent
  <2>2. task.messages \o <<>> = task.messages
    BY <1>2, ConcatEmpty
  <2>3. QED
    BY <1>1, <1>4, <1>6, <2>1, <2>2
<1>7. QED
  BY <1>5, <1>6

\* A step leaves one message in each datagram at the multicast socket.
LEMMA SingleStep ==
  ASSUME IInv, [Next]_vars
  PROVE  Single'
<1>0. Typed /\ Single
  BY DEF IInv
<1>1. ASSUME UNCHANGED <<events, announced>> PROVE Single'
  BY <1>0, <1>1 DEF Single
<1>2. CASE KernelAnnounces
  <2>1. PICK m \in AnyMessage :
          /\ m.seq = 0 /\ m.n = announced + 1
          /\ \/ events' = events
             \/ m.type \in {"event", "garbage"} /\ events' = Append(events, <<m>>)
    BY <1>0, <1>2, KernelAnnouncesFacts
  <2>2. announced \in Nat /\ announced' = announced + 1
    BY <1>0, <1>2, KernelAnnouncesFacts
  <2>3. ASSUME NEW n \in 1 .. announced PROVE n \in 1 .. announced'
    BY <2>2
  <2>4. CASE events' = events
    BY <1>0, <2>3, <2>4 DEF Single
  <2>5. CASE m.type \in {"event", "garbage"} /\ events' = Append(events, <<m>>)
    <3>1. events \in Seq(Seq(AnyMessage)) /\ <<m>> \in Seq(AnyMessage)
      BY <1>0 DEF Typed
    <3>2. /\ DOMAIN events' = 1 .. Len(events) + 1 /\ DOMAIN events = 1 .. Len(events)
          /\ Len(events) \in Nat
          /\ \A p \in 1 .. Len(events) : events'[p] = events[p]
          /\ events'[Len(events) + 1] = <<m>>
      BY <2>5, <3>1, AppendFacts
    <3>3. Len(<<m>>) = 1 /\ <<m>>[1] = m /\ m.n \in 1 .. announced'
      BY <2>1, <2>2
    <3>4. ASSUME NEW p \in DOMAIN events'
          PROVE  /\ Len(events'[p]) = 1
                 /\ events'[p][1].type \in {"event", "garbage"}
                 /\ events'[p][1].seq = 0 /\ events'[p][1].n \in 1 .. announced'
      <4>1. CASE p \in DOMAIN events
        BY <1>0, <2>3, <3>2, <4>1 DEF Single
      <4>2. CASE p = Len(events) + 1
        BY <2>1, <2>5, <3>2, <3>3, <4>2
      <4>3. QED
        BY <3>2, <4>1, <4>2
    <3>5. QED
      BY <3>4 DEF Single
  <2>6. QED
    BY <2>1, <2>4, <2>5
<1>3. CASE CollectEvent
  <2>1. events # <<>> /\ events' = Tail(events) /\ announced' = announced
    BY <1>0, <1>3, CollectFacts
  <2>2. events \in Seq(Seq(AnyMessage))
    BY <1>0 DEF Typed
  <2>3. \A p \in DOMAIN events' : p + 1 \in DOMAIN events /\ events'[p] = events[p + 1]
    BY <2>1, <2>2, HeadTailFacts
  <2>4. QED
    BY <1>0, <2>1, <2>3 DEF Single
<1>4. QED
  BY <1>1, <1>2, <1>3
     DEF Next, Kernel, KernelAnswers, KernelRefuses, Worker, PollBegins, AskForAddresses, Send,
         SendFails, ReceiveReply, ReplyTimeout, WorkerEnds, DropManager, Task, TaskLoops,
         EventTimeout, DeliverEvent, vars, taskVars

\* A step collects only multicasts that can be read.
LEMMA TakenStep ==
  ASSUME IInv, [Next]_vars
  PROVE  Taken'
<1> USE BoundsAssumption
<1>0. Typed /\ Single /\ Taken
  BY DEF IInv
<1>91. task.messages \in Seq(AnyMessage)
  BY <1>0 DEF Typed
<1>1. ASSUME announced' = announced, task'.messages = task.messages PROVE Taken'
  BY <1>0, <1>1 DEF Taken
<1>2. CASE KernelAnnounces
  <2>1. announced \in Nat /\ announced < MaxEvents /\ announced' = announced + 1 /\ task' = task
    BY <1>0, <1>2, KernelAnnouncesFacts
  <2>2. announced' <= MaxEvents
    BY <2>1
  <2>3. QED
    BY <1>0, <2>1, <2>2 DEF Taken
<1>3. CASE CollectEvent
  <2>1. PICK m \in AnyMessage :
          /\ m.seq = 0 /\ m.type \in {"event", "garbage"}
          /\ task'.messages = IF m.type = "event" THEN Append(task.messages, m)
                                                  ELSE task.messages
    BY <1>0, <1>3, CollectFacts
  <2>2. announced' = announced
    BY <1>0, <1>3, CollectFacts
  <2>3. CASE m.type = "event"
    <3>1. task'.messages = Append(task.messages, m)
      BY <2>1, <2>3
    <3>2. /\ DOMAIN task'.messages = 1 .. Len(task.messages) + 1
          /\ DOMAIN task.messages = 1 .. Len(task.messages) /\ Len(task.messages) \in Nat
          /\ \A p \in 1 .. Len(task.messages) : task'.messages[p] = task.messages[p]
          /\ task'.messages[Len(task.messages) + 1] = m
      BY <1>91, <3>1, AppendFacts
    <3>3. QED
      BY <1>0, <2>1, <2>2, <2>3, <3>2 DEF Taken
  <2>4. CASE m.type # "event"
    BY <1>1, <2>1, <2>2, <2>4
  <2>5. QED
    BY <2>3, <2>4
<1>4. CASE DeliverEvent
  <2>1. task.messages # <<>> /\ task'.messages = Tail(task.messages) /\ announced' = announced
    BY <1>0, <1>4 DEF DeliverEvent, Typed
  <2>2. \A p \in DOMAIN task'.messages :
          p + 1 \in DOMAIN task.messages /\ task'.messages[p] = task.messages[p + 1]
    BY <1>91, <2>1, HeadTailFacts
  <2>3. QED
    BY <1>0, <2>1, <2>2 DEF Taken
<1>5. CASE TaskLoops
  BY <1>0, <1>1, <1>5 DEF TaskLoops, Typed
<1>6. CASE EventTimeout
  BY <1>0, <1>1, <1>6 DEF EventTimeout, Typed
<1>7. QED
  BY <1>1, <1>2, <1>3, <1>4, <1>5, <1>6
     DEF Next, Kernel, KernelAnswers, KernelRefuses, Worker, PollBegins, AskForAddresses, Send,
         SendFails, ReceiveReply, ReplyTimeout, WorkerEnds, DropManager, Task, vars, taskVars

\* EventsInOrder, of any multicasts taken, waiting, announced and lost.
InOrder(taken, waiting, sent, gone) ==
  LET readable == {p \in DOMAIN waiting : waiting[p][1].type = "event"}
  IN  /\ \A p, q \in DOMAIN taken : p < q => taken[p] < taken[q]
      /\ \A p, q \in readable : p < q => waiting[p][1].n < waiting[q][1].n
      /\ \A p \in DOMAIN taken, q \in readable : taken[p] < waiting[q][1].n
      /\ Range(taken) \cup {waiting[q][1].n : q \in readable} = (1 .. sent) \ gone

\* One more is announced, and arrives where it can be read.
LEMMA OneMore ==
  ASSUME NEW t \in Seq(Nat), NEW v, NEW a \in Nat, NEW l, InOrder(t, v, a, l),
         NEW n \in Nat, DOMAIN v = 1 .. n, NEW w, DOMAIN w = 1 .. n + 1,
         \A p \in 1 .. n : w[p] = v[p], w[n + 1][1].type = "event", w[n + 1][1].n = a + 1,
         l \subseteq 1 .. a
  PROVE  InOrder(t, w, a + 1, l)
<1> DEFINE R == {p \in DOMAIN v : v[p][1].type = "event"}
           S == {p \in DOMAIN w : w[p][1].type = "event"}
<1>1. S = R \cup {n + 1} /\ R \subseteq 1 .. n
  OBVIOUS
<1>2. /\ \A p, q \in DOMAIN t : p < q => t[p] < t[q]
      /\ \A p, q \in R : p < q => v[p][1].n < v[q][1].n
      /\ \A p \in DOMAIN t, q \in R : t[p] < v[q][1].n
      /\ Range(t) \cup {v[q][1].n : q \in R} = (1 .. a) \ l
  BY DEF InOrder
<1> HIDE DEF R, S
<1>3. /\ \A p \in DOMAIN t : t[p] \in 1 .. a
      /\ \A q \in R : v[q][1].n \in 1 .. a
  <2>1. \A p \in DOMAIN t : t[p] \in Range(t)
    BY DEF Range
  <2>2. QED
    BY <1>2, <2>1
<1>4. ASSUME NEW q \in R PROVE w[q] = v[q] /\ q < n + 1
  <2>1. q \in 1 .. n
    BY <1>1
  <2>2. QED
    BY <2>1
<1>5. \A p, q \in S : p < q => w[p][1].n < w[q][1].n
  BY <1>1, <1>2, <1>3, <1>4
<1>6. ASSUME NEW p \in DOMAIN t, NEW q \in S PROVE t[p] < w[q][1].n
  <2>1. CASE q \in R
    BY <1>2, <1>4, <2>1
  <2>2. CASE q = n + 1
    <3>1. t[p] \in 1 .. a
      BY <1>3
    <3>2. QED
      BY <2>2, <3>1
  <2>3. QED
    BY <1>1, <2>1, <2>2
<1>7. {w[q][1].n : q \in S} = {v[q][1].n : q \in R} \cup {a + 1}
  BY <1>1, <1>4
<1>8. (1 .. a + 1) \ l = ((1 .. a) \ l) \cup {a + 1}
  OBVIOUS
<1>9. Range(t) \cup {w[q][1].n : q \in S} = (1 .. a + 1) \ l
  BY <1>2, <1>7, <1>8
<1>10. QED
  BY <1>2, <1>5, <1>6, <1>9 DEF InOrder, S

\* One more is announced, and is lost, or arrives where it cannot be read.
LEMMA OneLost ==
  ASSUME NEW t, NEW v, NEW a \in Nat, NEW l, InOrder(t, v, a, l), NEW w,
         {p \in DOMAIN w : w[p][1].type = "event"} = {p \in DOMAIN v : v[p][1].type = "event"},
         \A p \in DOMAIN v : w[p] = v[p]
  PROVE  InOrder(t, w, a + 1, l \cup {a + 1})
<1>1. (1 .. a + 1) \ (l \cup {a + 1}) = (1 .. a) \ l
  OBVIOUS
<1> DEFINE R == {p \in DOMAIN v : v[p][1].type = "event"}
<1>2. \A p \in R : w[p] = v[p]
  OBVIOUS
<1>3. R = {p \in DOMAIN w : w[p][1].type = "event"}
  OBVIOUS
<1>4. /\ \A p, q \in DOMAIN t : p < q => t[p] < t[q]
      /\ \A p, q \in R : p < q => v[p][1].n < v[q][1].n
      /\ \A p \in DOMAIN t, q \in R : t[p] < v[q][1].n
      /\ Range(t) \cup {v[q][1].n : q \in R} = (1 .. a) \ l
  BY DEF InOrder
<1> HIDE DEF R
<1>5. {w[q][1].n : q \in R} = {v[q][1].n : q \in R}
  BY <1>2
<1>6. QED
  BY <1>1, <1>2, <1>3, <1>4, <1>5 DEF InOrder

\* The first of those that wait is taken, if it can be read, and waits no longer.
LEMMA OneTaken ==
  ASSUME NEW t \in Seq(Nat), NEW v \in Seq(Seq(AnyMessage)), v # <<>>, NEW a \in Nat, NEW l,
         InOrder(t, v, a, l), NEW m \in AnyMessage, v[1] = <<m>>
  PROVE  InOrder(IF m.type = "event" THEN Append(t, m.n) ELSE t, Tail(v), a, l)
<1> DEFINE R == {p \in DOMAIN v : v[p][1].type = "event"}
           w == Tail(v)
           S == {p \in DOMAIN w : w[p][1].type = "event"}
           u == IF m.type = "event" THEN Append(t, m.n) ELSE t
<1>1. /\ \A p, q \in DOMAIN t : p < q => t[p] < t[q]
      /\ \A p, q \in R : p < q => v[p][1].n < v[q][1].n
      /\ \A p \in DOMAIN t, q \in R : t[p] < v[q][1].n
      /\ Range(t) \cup {v[q][1].n : q \in R} = (1 .. a) \ l
  BY DEF InOrder
<1>2. /\ DOMAIN v = 1 .. Len(v) /\ Len(v) \in Nat /\ Len(v) >= 1
      /\ DOMAIN w = 1 .. Len(v) - 1
      /\ \A p \in DOMAIN w : w[p] = v[p + 1]
  BY HeadTailFacts
<1>3. v[1][1] = m /\ m.n \in Nat
  BY DEF AnyMessage
<1>4. /\ \A p \in S : p + 1 \in R /\ w[p] = v[p + 1] /\ p \in Nat /\ 1 < p + 1
      /\ \A q \in R : q = 1 \/ (q - 1 \in S /\ w[q - 1] = v[q])
      /\ 1 \in R <=> m.type = "event"
  <2> HIDE DEF w, u
  <2>1. ASSUME NEW p \in S PROVE p + 1 \in R /\ w[p] = v[p + 1] /\ p \in Nat /\ 1 < p + 1
    <3>1. p \in 1 .. Len(v) - 1 /\ w[p] = v[p + 1] /\ w[p][1].type = "event"
      BY <1>2
    <3>2. p + 1 \in DOMAIN v
      BY <1>2, <3>1
    <3>3. QED
      BY <1>2, <3>1, <3>2
  <2>2. ASSUME NEW q \in R, q # 1 PROVE q - 1 \in S /\ w[q - 1] = v[q]
    <3>1. q \in 1 .. Len(v) /\ v[q][1].type = "event"
      BY <1>2
    <3>2. q - 1 \in DOMAIN w /\ (q - 1) + 1 = q
      BY <1>2, <2>2, <3>1
    <3>3. w[q - 1] = v[q]
      BY <1>2, <3>2
    <3>4. QED
      BY <3>1, <3>2, <3>3
  <2>3. 1 \in R <=> m.type = "event"
    BY <1>2, <1>3
  <2>4. QED
    BY <2>1, <2>2, <2>3
<1> HIDE DEF w, R, S
<1>5. \A p, q \in S : p < q => w[p][1].n < w[q][1].n
  <2>1. ASSUME NEW p \in S, NEW q \in S, p < q PROVE w[p][1].n < w[q][1].n
    <3>1. p + 1 \in R /\ q + 1 \in R /\ p + 1 < q + 1 /\ w[p] = v[p + 1] /\ w[q] = v[q + 1]
      BY <1>4, <2>1
    <3>2. QED
      BY <1>1, <3>1
  <2>2. QED
    BY <2>1
<1>6. CASE m.type = "event"
  <2>1. /\ u = Append(t, m.n) /\ DOMAIN t = 1 .. Len(t) /\ DOMAIN u = 1 .. Len(t) + 1
        /\ Len(t) \in Nat /\ (\A p \in 1 .. Len(t) : u[p] = t[p]) /\ u[Len(t) + 1] = m.n
    BY <1>3, <1>6, AppendFacts
  <2> HIDE DEF u
  <2>2. 1 \in R /\ (\A p \in DOMAIN t : t[p] < m.n)
    BY <1>1, <1>3, <1>4, <1>6
  <2>3. \A p, q \in DOMAIN u : p < q => u[p] < u[q]
    BY <1>1, <2>1, <2>2
  <2>4. ASSUME NEW p \in DOMAIN u, NEW q \in S PROVE u[p] < w[q][1].n
    <3>1. q + 1 \in R /\ w[q] = v[q + 1] /\ 1 < q + 1
      BY <1>4
    <3>2. CASE p \in DOMAIN t
      BY <1>1, <2>1, <3>1, <3>2
    <3>3. CASE p = Len(t) + 1
      BY <1>1, <1>3, <2>1, <2>2, <3>1, <3>3
    <3>4. QED
      BY <2>1, <3>2, <3>3
  <2>5. Range(u) = Range(t) \cup {m.n}
    BY <2>1 DEF Range
  <2>6. {v[q][1].n : q \in R} = {w[q][1].n : q \in S} \cup {m.n}
    <3>1. ASSUME NEW q \in R PROVE v[q][1].n \in {w[k][1].n : k \in S} \cup {m.n}
      BY <1>3, <1>4
    <3>2. ASSUME NEW k \in S PROVE w[k][1].n \in {v[q][1].n : q \in R}
      BY <1>4
    <3>3. m.n \in {v[q][1].n : q \in R}
      BY <1>3, <2>2
    <3>4. QED
      BY <3>1, <3>2, <3>3
  <2>7. Range(u) \cup {w[q][1].n : q \in S} = (1 .. a) \ l
    BY <1>1, <2>5, <2>6
  <2>8. QED
    BY <1>5, <2>3, <2>4, <2>7 DEF InOrder, S, w, u
<1>7. CASE m.type # "event"
  <2>1. u = t
    BY <1>7
  <2>2. 1 \notin R
    BY <1>4, <1>7
  <2>3. {v[q][1].n : q \in R} = {w[q][1].n : q \in S}
    <3>1. ASSUME NEW q \in R PROVE v[q][1].n \in {w[k][1].n : k \in S}
      BY <1>4, <2>2
    <3>2. ASSUME NEW k \in S PROVE w[k][1].n \in {v[q][1].n : q \in R}
      BY <1>4
    <3>3. QED
      BY <3>1, <3>2
  <2>4. \A p \in DOMAIN t, q \in S : t[p] < w[q][1].n
    BY <1>1, <1>4
  <2>5. Range(t) \cup {w[q][1].n : q \in S} = (1 .. a) \ l
    BY <1>1, <2>3
  <2> HIDE DEF u
  <2>6. QED
    BY <1>1, <1>5, <2>1, <2>4, <2>5 DEF InOrder, S, w, u
<1>8. QED
  BY <1>6, <1>7

\* The numbers of messages, as they are appended and taken off.
LEMMA NumbersFacts ==
  ASSUME NEW s \in Seq(AnyMessage)
  PROVE  /\ Numbers(s) \in Seq(Nat) /\ Len(Numbers(s)) = Len(s)
         /\ \A m \in AnyMessage : Numbers(Append(s, m)) = Append(Numbers(s), m.n)
         /\ s # <<>> => /\ Numbers(s) # <<>> /\ Head(Numbers(s)) = Head(s).n
                        /\ Numbers(Tail(s)) = Tail(Numbers(s))
<1>1. Len(s) \in Nat /\ DOMAIN s = 1 .. Len(s)
  OBVIOUS
<1>2. \A m \in AnyMessage : m.n \in Nat
  BY DEF AnyMessage
<1>3. \A r \in Seq(AnyMessage) : /\ Numbers(r) \in Seq(Nat) /\ Len(Numbers(r)) = Len(r)
                                 /\ \A p \in 1 .. Len(r) : Numbers(r)[p] = r[p].n
  <2>1. ASSUME NEW r \in Seq(AnyMessage)
        PROVE  /\ Numbers(r) \in Seq(Nat) /\ Len(Numbers(r)) = Len(r)
               /\ \A p \in 1 .. Len(r) : Numbers(r)[p] = r[p].n
    <3>1. \A p \in 1 .. Len(r) : r[p].n \in Nat
      BY <1>2
    <3>2. Numbers(r) = [p \in 1 .. Len(r) |-> r[p].n]
      BY DEF Numbers
    <3> DEFINE f == [p \in 1 .. Len(r) |-> r[p].n]
    <3>3. f \in [1 .. Len(r) -> Nat] /\ \A p \in 1 .. Len(r) : f[p] = r[p].n
      BY <3>1
    <3> HIDE DEF f
    <3>4. f \in Seq(Nat) /\ Len(f) = Len(r)
      BY <3>3, FunctionIsSeq
    <3>5. QED
      BY <3>2, <3>3, <3>4 DEF f
  <2>2. QED
    BY <2>1
<1>4. ASSUME NEW m \in AnyMessage PROVE Numbers(Append(s, m)) = Append(Numbers(s), m.n)
  <2> DEFINE x == Append(s, m)
             y == Append(Numbers(s), m.n)
  <2>1. /\ x \in Seq(AnyMessage) /\ Len(x) = Len(s) + 1
        /\ (\A p \in 1 .. Len(s) : x[p] = s[p]) /\ x[Len(s) + 1] = m
    BY AppendFacts
  <2>2. /\ y \in Seq(Nat) /\ Len(y) = Len(s) + 1
        /\ (\A p \in 1 .. Len(s) : y[p] = Numbers(s)[p]) /\ y[Len(s) + 1] = m.n
    BY <1>2, <1>3, AppendFacts
  <2> HIDE DEF x, y
  <2>3. Numbers(x) \in Seq(Nat) /\ Len(Numbers(x)) = Len(y)
    BY <1>3, <2>1, <2>2
  <2>4. ASSUME NEW p \in 1 .. Len(y) PROVE Numbers(x)[p] = y[p]
    <3>0. p \in 1 .. Len(x)
      BY <2>1, <2>2
    <3>1. CASE p \in 1 .. Len(s)
      BY <1>3, <2>1, <2>2, <3>0, <3>1
    <3>2. CASE p = Len(s) + 1
      BY <1>3, <2>1, <2>2, <3>0, <3>2
    <3>3. QED
      BY <1>1, <2>2, <3>1, <3>2
  <2>5. Numbers(x) = y
    BY <2>2, <2>3, <2>4, EqualSeqs
  <2>6. QED
    BY <2>5 DEF x, y
<1>5. ASSUME s # <<>>
      PROVE  /\ Numbers(s) # <<>> /\ Head(Numbers(s)) = Head(s).n
             /\ Numbers(Tail(s)) = Tail(Numbers(s))
  <2> DEFINE x == Tail(s)
             y == Tail(Numbers(s))
  <2>1. /\ x \in Seq(AnyMessage) /\ Len(x) = Len(s) - 1 /\ Len(s) >= 1 /\ Head(s) = s[1]
        /\ \A p \in 1 .. Len(x) : x[p] = s[p + 1]
    BY <1>5, HeadTailFacts
  <2>2. Numbers(s) # <<>>
    BY <1>3, <2>1
  <2>3. /\ y \in Seq(Nat) /\ Len(y) = Len(s) - 1 /\ Head(Numbers(s)) = Numbers(s)[1]
        /\ \A p \in 1 .. Len(y) : y[p] = Numbers(s)[p + 1]
    BY <1>3, <2>2, HeadTailFacts
  <2> HIDE DEF x, y
  <2>4. Numbers(x) \in Seq(Nat) /\ Len(Numbers(x)) = Len(y)
    BY <1>3, <2>1, <2>3
  <2>5. ASSUME NEW p \in 1 .. Len(y) PROVE Numbers(x)[p] = y[p]
    <3>1. p + 1 \in 1 .. Len(s) /\ p \in 1 .. Len(x)
      BY <1>1, <2>1, <2>3
    <3>2. QED
      BY <1>3, <2>1, <2>3, <3>1
  <2>6. Numbers(x) = y
    BY <2>3, <2>4, <2>5, EqualSeqs
  <2>7. Head(Numbers(s)) = Head(s).n
    BY <1>1, <1>3, <2>1, <2>3
  <2>8. QED
    BY <2>2, <2>6, <2>7 DEF x, y
<1>6. QED
  BY <1>3, <1>4, <1>5

\* A step neither loses, doubles nor overtakes a multicast.
LEMMA EventsInOrderStep ==
  ASSUME IInv, [Next]_vars
  PROVE  EventsInOrder'
<1> DEFINE t == delivered \o Numbers(task.messages)
<1>0. Typed /\ Single /\ EventsInOrder
  BY DEF IInv
<1>91. /\ delivered \in Seq(Nat) /\ task.messages \in Seq(AnyMessage)
       /\ events \in Seq(Seq(AnyMessage)) /\ announced \in Nat /\ lost \subseteq 1 .. announced
  BY <1>0 DEF Typed
<1>92. Numbers(task.messages) \in Seq(Nat)
  BY <1>91, NumbersFacts
<1>93. t \in Seq(Nat)
  BY <1>91, <1>92, ConcatFacts
<1>94. InOrder(t, events, announced, lost)
  BY <1>0 DEF EventsInOrder, InOrder, Readable
<1>95. ASSUME InOrder(t', events', announced', lost') PROVE EventsInOrder'
  BY <1>95 DEF EventsInOrder, InOrder, Readable
<1>1. ASSUME UNCHANGED <<delivered, events, announced, lost>>, task'.messages = task.messages
      PROVE  EventsInOrder'
  <2>1. t' = t
    BY <1>1 DEF Numbers
  <2> HIDE DEF t
  <2>2. QED
    BY <1>1, <1>94, <1>95, <2>1
<1>2. CASE KernelAnnounces
  <2>1. /\ UNCHANGED <<delivered, task>> /\ announced' = announced + 1
        /\ \E m \in AnyMessage :
              /\ m.seq = 0 /\ m.n = announced + 1
              /\ \/ m.type = "event" /\ events' = Append(events, <<m>>) /\ lost' = lost
                 \/ events' = events /\ lost' = lost \cup {announced + 1}
                 \/ /\ m.type = "garbage" /\ events' = Append(events, <<m>>)
                    /\ lost' = lost \cup {announced + 1}
    BY <1>0, <1>2, KernelAnnouncesFacts
  <2>2. t' = t
    BY <2>1 DEF Numbers
  <2>3. PICK m \in AnyMessage :
              /\ m.seq = 0 /\ m.n = announced + 1
              /\ \/ m.type = "event" /\ events' = Append(events, <<m>>) /\ lost' = lost
                 \/ events' = events /\ lost' = lost \cup {announced + 1}
                 \/ /\ m.type = "garbage" /\ events' = Append(events, <<m>>)
                    /\ lost' = lost \cup {announced + 1}
    BY <2>1
  <2> HIDE DEF t
  <2>4. <<m>> \in Seq(AnyMessage) /\ <<m>>[1] = m
    OBVIOUS
  <2> DEFINE n == Len(events)
             w == Append(events, <<m>>)
  <2>5. /\ n \in Nat /\ DOMAIN events = 1 .. n /\ DOMAIN w = 1 .. n + 1
        /\ (\A p \in 1 .. n : w[p] = events[p]) /\ w[n + 1] = <<m>>
    BY <1>91, <2>4, AppendFacts
  <2> HIDE DEF n, w
  <2>6. CASE m.type = "event" /\ events' = Append(events, <<m>>) /\ lost' = lost
    <3>1. w[n + 1][1].type = "event" /\ w[n + 1][1].n = announced + 1
      BY <2>3, <2>4, <2>5, <2>6
    <3>2. InOrder(t, w, announced + 1, lost)
      BY <1>91, <1>93, <1>94, <2>5, <3>1, OneMore
    <3>3. QED
      BY <1>95, <2>1, <2>2, <2>6, <3>2 DEF w
  <2>7. CASE events' = events /\ lost' = lost \cup {announced + 1}
    <3>1. InOrder(t, events, announced + 1, lost \cup {announced + 1})
      BY <1>91, <1>94, OneLost
    <3>2. QED
      BY <1>95, <2>1, <2>2, <2>7, <3>1
  <2>8. CASE m.type = "garbage" /\ events' = w /\ lost' = lost \cup {announced + 1}
    <3>1. w[n + 1][1].type # "event"
      BY <2>4, <2>5, <2>8
    <3>2. \A p \in DOMAIN w : (p \in DOMAIN events /\ w[p] = events[p]) \/ p = n + 1
      BY <2>5
    <3>3. \A p \in DOMAIN events : p \in DOMAIN w /\ w[p] = events[p]
      BY <2>5
    <3>4. {p \in DOMAIN w : w[p][1].type = "event"} =
            {p \in DOMAIN events : events[p][1].type = "event"}
      BY <3>1, <3>2, <3>3
    <3>5. InOrder(t, w, announced + 1, lost \cup {announced + 1})
      BY <1>91, <1>94, <3>3, <3>4, OneLost
    <3>6. QED
      BY <1>95, <2>1, <2>2, <2>8, <3>5
  <2>9. QED
    BY <2>3, <2>6, <2>7, <2>8 DEF w
<1>3. CASE CollectEvent
  <2>1. /\ events # <<>> /\ events' = Tail(events)
        /\ UNCHANGED <<announced, delivered, lost>>
        /\ \E m \in AnyMessage :
              /\ events[1] = <<m>> /\ events[1][1] = m
              /\ m.seq = 0 /\ m.type \in {"event", "garbage"}
              /\ task'.messages = IF m.type = "event" THEN Append(task.messages, m)
                                                      ELSE task.messages
    BY <1>0, <1>3, CollectFacts
  <2>2. PICK m \in AnyMessage :
              /\ events[1] = <<m>>
              /\ task'.messages = IF m.type = "event" THEN Append(task.messages, m)
                                                      ELSE task.messages
    BY <2>1
  <2>3. t' = IF m.type = "event" THEN Append(t, m.n) ELSE t
    <3>1. t' = delivered \o Numbers(task'.messages)
      BY <2>1 DEF Numbers
    <3>2. CASE m.type = "event"
      <4>1. Numbers(task'.messages) = Append(Numbers(task.messages), m.n) /\ m.n \in Nat
        BY <1>91, <2>2, <3>2, NumbersFacts DEF AnyMessage
      <4>2. \A q, r \in Seq(Nat) : \A k \in Nat : q \o Append(r, k) = Append(q \o r, k)
        OBVIOUS
      <4>3. QED
        BY <1>91, <1>92, <3>1, <3>2, <4>1, <4>2
    <3>3. CASE m.type # "event"
      BY <2>2, <3>1, <3>3
    <3>4. QED
      BY <3>2, <3>3
  <2> HIDE DEF t
  <2>4. InOrder(IF m.type = "event" THEN Append(t, m.n) ELSE t, Tail(events), announced, lost)
    BY <1>91, <1>93, <1>94, <2>1, <2>2, OneTaken
  <2>5. QED
    BY <1>95, <2>1, <2>3, <2>4
<1>4. CASE DeliverEvent
  <2>1. /\ task.messages # <<>> /\ task'.messages = Tail(task.messages)
        /\ delivered' = Append(delivered, Head(task.messages).n)
        /\ UNCHANGED <<events, announced, lost>>
    BY <1>0, <1>4 DEF DeliverEvent, Typed
  <2> DEFINE r == Numbers(task.messages)
  <2>2. r # <<>> /\ Head(r) = Head(task.messages).n /\ Numbers(Tail(task.messages)) = Tail(r)
    BY <1>91, <2>1, NumbersFacts
  <2>3. t' = delivered' \o Numbers(task'.messages)
    BY DEF Numbers
  <2>4. r \in Seq(Nat)
    BY <1>92
  <2> HIDE DEF r
  <2>5. Append(delivered, Head(r)) \o Tail(r) = delivered \o r
    BY <1>91, <2>2, <2>4, ConcatMoves
  <2>6. t' = t
    BY <2>1, <2>2, <2>3, <2>5 DEF r
  <2> HIDE DEF t
  <2>7. QED
    BY <1>94, <1>95, <2>1, <2>6
<1>5. CASE TaskLoops
  BY <1>0, <1>1, <1>5 DEF TaskLoops, Typed
<1>6. CASE EventTimeout
  BY <1>0, <1>1, <1>6 DEF EventTimeout, Typed
<1>7. QED
  BY <1>1, <1>2, <1>3, <1>4, <1>5, <1>6
     DEF Next, Kernel, KernelAnswers, KernelRefuses, Worker, PollBegins, AskForAddresses, Send,
         SendFails, ReceiveReply, ReplyTimeout, WorkerEnds, DropManager, Task, vars, taskVars

-----------------------------------------------------------------------------
(* The theorems. *)

\* It holds in the beginning.
LEMMA Initially == Init => IInv
<1> USE BoundsAssumption
<1> SUFFICES ASSUME Init PROVE IInv
  OBVIOUS
<1>1. /\ manager = "new" /\ worker = "idle" /\ open = TRUE
      /\ asked = 0 /\ answer = [how |-> "none", messages |-> <<>>]
      /\ dumps = <<>> /\ replies = <<>>
      /\ task = [at |-> "delivering", messages |-> <<>>]
      /\ events = <<>> /\ announced = 0 /\ delivered = <<>> /\ lost = {}
      /\ spoiled = {} /\ polls = MaxPolls /\ faults = MaxFaults
  BY DEF Init
<1>2. /\ DOMAIN replies = {} /\ DOMAIN events = {} /\ DOMAIN answer.messages = {}
      /\ DOMAIN task.messages = {} /\ Len(dumps) = 0
  BY <1>1
<1>3. Typed
  <2>1. /\ answer \in [how : {"none", "waiting", "returned", "failed"}, messages : Seq(AnyMessage)]
        /\ task \in [at : {"receiving", "delivering", "ended"}, messages : Seq(AnyMessage)]
    <3>1. <<>> \in Seq(AnyMessage)
      OBVIOUS
    <3>2. QED
      BY <1>1, <3>1
  <2>2. /\ dumps \in Seq(1 .. Parts + 2) /\ replies \in Seq(Seq(AnyMessage))
        /\ events \in Seq(Seq(AnyMessage)) /\ delivered \in Seq(Nat)
    BY <1>1
  <2>3. QED
    BY <1>1, <2>1, <2>2 DEF Typed
<1>4. Turns
  <2>1. answer.messages = <<>> /\ answer.how = "none" /\ ~Waiting /\ open = TRUE
    BY <1>1 DEF Waiting
  <2>2. asked + 2 * polls + 0 <= 2 * MaxPolls
    BY <1>1
  <2>3. worker \notin {"links", "linksDone", "addresses"} /\ worker # "ended"
    BY <1>1
  <2>4. asked + 2 * polls + (IF worker \in {"links", "linksDone"} THEN 1 ELSE 0) <= 2 * MaxPolls
    BY <2>2, <2>3
  <2>5. QED
    BY <1>1, <1>2, <2>1, <2>3, <2>4 DEF Turns
<1>5. Ordered /\ AnswerIsOwn /\ Whole /\ Single /\ Taken
  BY <1>1, <1>2 DEF Ordered, AnswerIsOwn, Whole, Waiting, Single, Taken
<1>6. EventsInOrder
  <2>1. Numbers(task.messages) = <<>>
    BY <1>1 DEF Numbers
  <2>2. delivered \o Numbers(task.messages) = <<>> /\ DOMAIN <<>> = {}
    BY <1>1, <2>1
  <2>3. Readable = {}
    BY <1>2 DEF Readable
  <2>4. Range(<<>>) = {} /\ 1 .. 0 = {}
    BY DEF Range
  <2>5. QED
    BY <1>1, <2>2, <2>3, <2>4 DEF EventsInOrder
<1>7. QED
  BY <1>3, <1>4, <1>5, <1>6 DEF IInv

\* And every step keeps it.
LEMMA Invariance == Spec => []IInv
<1>1. Init => IInv
  BY Initially
<1>2. IInv /\ [Next]_vars => IInv'
  BY TypedStep, TurnsStep, OrderedStep, AnswerIsOwnStep, WholeStep, SingleStep, TakenStep,
     EventsInOrderStep DEF IInv
<1>3. QED
  BY <1>1, <1>2, PTL DEF Spec

\* What has been taken of the multicasts was announced.
LEMMA TakenAnnounced ==
  ASSUME Typed, EventsInOrder
  PROVE  \A p \in DOMAIN task.messages : task.messages[p].n \in 1 .. announced
<1> DEFINE r == Numbers(task.messages)
           t == delivered \o r
<1>1. delivered \in Seq(Nat) /\ task.messages \in Seq(AnyMessage)
  BY DEF Typed
<1>2. r \in Seq(Nat) /\ Len(r) = Len(task.messages)
  BY <1>1, NumbersFacts
<1>3. Range(t) \subseteq 1 .. announced
  BY DEF EventsInOrder
<1> SUFFICES ASSUME NEW p \in DOMAIN task.messages PROVE task.messages[p].n \in 1 .. announced
  OBVIOUS
<1>4. r[p] = task.messages[p].n
  BY DEF Numbers
<1> HIDE DEF r
<1>5. t \in Seq(Nat) /\ Len(t) = Len(delivered) + Len(r) /\ t[Len(delivered) + p] = r[p]
      /\ Len(delivered) \in Nat /\ Len(r) \in Nat /\ p \in 1 .. Len(r)
  <2>1. p \in 1 .. Len(r)
    BY <1>1, <1>2
  <2>2. /\ t \in Seq(Nat) /\ Len(t) = Len(delivered) + Len(r)
        /\ \A k \in 1 .. Len(r) : t[Len(delivered) + k] = r[k]
    <3>1. \A q, s \in Seq(Nat) :
            /\ q \o s \in Seq(Nat) /\ Len(q \o s) = Len(q) + Len(s)
            /\ \A k \in 1 .. Len(s) : (q \o s)[Len(q) + k] = s[k]
      BY ConcatFacts
    <3>2. QED
      BY <1>1, <1>2, <3>1, Zenon
  <2> HIDE DEF t
  <2>3. QED
    BY <1>1, <1>2, <2>1, <2>2
<1> HIDE DEF t
<1>6. Len(delivered) + p \in DOMAIN t
  BY <1>5
<1>7. t[Len(delivered) + p] \in Range(t)
  BY <1>6 DEF Range
<1>8. QED
  BY <1>3, <1>4, <1>5, <1>7

\* Whatever is received, and in whatever pieces, the variables keep to their types:
\* the queues and the answer hold messages of requests that were made, and of
\* multicasts that were announced.
THEOREM TypeCorrect == Spec => []TypeOK
<1> USE BoundsAssumption
<1>1. IInv => TypeOK
  <2> SUFFICES ASSUME IInv PROVE TypeOK
    OBVIOUS
  <2>1. Typed /\ Turns /\ Ordered /\ AnswerIsOwn /\ Single /\ Taken /\ EventsInOrder
    BY DEF IInv
  <2>2. asked \in Nat /\ polls \in Nat /\ announced \in Nat /\ announced <= MaxEvents
    BY <2>1 DEF Typed, Taken
  <2>3. asked \in 0 .. 2 * MaxPolls
    <3>1. asked + 2 * polls <= 2 * MaxPolls
      BY <2>1, <2>2 DEF Turns
    <3>2. QED
      BY <2>2, <3>1
  <2>4. dumps \in Seq(1 .. Parts + 2) /\ Len(dumps) = asked
    BY <2>1 DEF Typed, Turns
  <2>5. \A r \in 1 .. asked : dumps[r] \in 1 .. Parts + 2
    BY <2>4
  <2>6. ASSUME NEW m \in AnyMessage, m.seq \in 0 .. asked, m.n >= 1, m.n <= Parts + 1 + MaxEvents
        PROVE  m \in Messages
    BY <2>6 DEF AnyMessage, Messages
  <2>7. ASSUME NEW p \in DOMAIN answer.messages PROVE answer.messages[p] \in Messages
    <3>1. answer.messages \in Seq(AnyMessage)
      BY <2>1 DEF Typed
    <3>2. answer.messages[p] \in AnyMessage /\ answer.messages # <<>>
      BY <3>1
    <3>3. asked \in 1 .. asked
      BY <2>1, <2>2, <3>2 DEF Turns
    <3>4. answer.messages[p].n >= 1 /\ answer.messages[p].n < dumps[asked]
          /\ answer.messages[p].seq = asked
      BY <2>1 DEF Ordered, AnswerIsOwn
    <3>5. answer.messages[p].n \in Nat /\ dumps[asked] \in 1 .. Parts + 2
      BY <2>5, <3>2, <3>3 DEF AnyMessage
    <3>6. QED
      BY <2>2, <2>6, <3>2, <3>4, <3>5
  <2>8. ASSUME NEW p \in DOMAIN replies, NEW i \in DOMAIN replies[p]
        PROVE  replies[p][i] \in Messages
    <3>1. /\ replies[p] \in Seq(AnyMessage) /\ Regular(replies[p])
          /\ replies[p][1].seq \in 1 .. asked
          /\ replies[p][1].n \in Nat /\ replies[p][1].n >= 1
          /\ i \in Nat /\ i >= 1
          /\ replies[p][i].n \in Nat /\ replies[p][i].n = replies[p][1].n + i - 1
          /\ replies[p][i].n < dumps[replies[p][1].seq]
      BY <2>1, ReplyFacts
    <3>2. replies[p][i].seq = replies[p][1].seq
      BY <3>1 DEF Regular
    <3>3. replies[p][i] \in AnyMessage
      BY <3>1
    <3>4. replies[p][i].n >= 1 /\ replies[p][i].n <= Parts + 1 + MaxEvents
      BY <2>5, <3>1
    <3>5. replies[p][i].seq \in 0 .. asked
      BY <2>2, <3>1, <3>2
    <3>6. QED
      BY <2>6, <3>3, <3>4, <3>5
  <2>9. ASSUME NEW p \in DOMAIN events, NEW i \in DOMAIN events[p]
        PROVE  events[p][i] \in Messages
    <3>1. events \in Seq(Seq(AnyMessage))
      BY <2>1 DEF Typed
    <3>2. events[p] \in Seq(AnyMessage) /\ Len(events[p]) = 1 /\ events[p][1].seq = 0
          /\ events[p][1].n \in 1 .. announced
      BY <2>1, <3>1 DEF Single
    <3>3. i = 1 /\ events[p][i] \in AnyMessage
      BY <3>2
    <3>4. QED
      BY <2>2, <2>6, <3>2, <3>3
  <2>10. ASSUME NEW p \in DOMAIN task.messages PROVE task.messages[p] \in Messages
    <3>1. task.messages \in Seq(AnyMessage)
      BY <2>1 DEF Typed
    <3>2. task.messages[p] \in AnyMessage
      BY <3>1
    <3>3. task.messages[p].n \in 1 .. announced /\ task.messages[p].seq = 0
      BY <2>1, TakenAnnounced DEF Taken
    <3>4. QED
      BY <2>2, <2>6, <3>2, <3>3
  <2>11. /\ manager \in {"new", "running", "dropped"}
         /\ worker \in {"idle", "links", "linksDone", "addresses", "ended"}
         /\ open = (worker # "ended")
         /\ answer.how \in {"none", "waiting", "returned", "failed"}
         /\ task.at \in {"receiving", "delivering", "ended"}
         /\ spoiled \subseteq 1 .. asked /\ lost \subseteq 1 .. announced
    BY <2>1 DEF Typed, Turns
  <2>12. QED
    BY <2>3, <2>4, <2>5, <2>7, <2>8, <2>9, <2>10, <2>11 DEF TypeOK
<1>2. QED
  BY <1>1, Invariance, PTL

\* Whatever earlier requests have left behind, send_message hands out messages of
\* its own request only, each of them once and in the order of the dump.
THEOREM AnswersAreOwn == Spec => []AnswerIsOwn
<1>1. IInv => AnswerIsOwn
  BY DEF IInv
<1>2. QED
  BY <1>1, Invariance, PTL

\* Every multicast that was not lost has been delivered, is collected or still
\* waits, once and in order, also when the loop fails on a later one.
THEOREM EventsStayInOrder == Spec => []EventsInOrder
<1>1. IInv => EventsInOrder
  BY DEF IInv
<1>2. QED
  BY <1>1, Invariance, PTL

-----------------------------------------------------------------------------
(* The refinement of Dumps. *)

\* The answer as Dumps sees it, and whether it may be short.
Handed ==
  [how |-> answer.how,
   parts |-> IF answer.how # "returned" THEN {}
             ELSE {answer.messages[p].n :
                     p \in {p \in DOMAIN answer.messages : answer.messages[p].type = "part"}}]

Excused == asked \in spoiled

\* The numbers of the parts that have been collected are those of parts.
LEMMA HandedParts ==
  ASSUME NEW x \in Seq(AnyMessage),
         \A p \in DOMAIN x : x[p].n >= 1 /\ (x[p].type = "part" => x[p].n <= Parts)
  PROVE  {x[p].n : p \in {p \in DOMAIN x : x[p].type = "part"}} \in SUBSET (1 .. Parts)
<1> USE BoundsAssumption
<1>1. ASSUME NEW p \in DOMAIN x, x[p].type = "part"
      PROVE  x[p].n \in 1 .. Parts
  <2>1. x[p] \in AnyMessage
    OBVIOUS
  <2>2. QED
    BY <1>1, <2>1 DEF AnyMessage
<1>2. QED
  BY <1>1

\* The messages that cannot be read, one by one, before and after a step.
LEMMA UnreadableMembers ==
  /\ \A m : m \in Unreadable <=>
       /\ m.type = "garbage"
       /\ \E i \in DOMAIN replies : \E p \in DOMAIN replies[i] : m = replies[i][p]
  /\ \A m : m \in Unreadable' <=>
       /\ m.type = "garbage"
       /\ \E i \in DOMAIN replies' : \E p \in DOMAIN replies'[i] : m = replies'[i][p]
BY DEF Unreadable, Range

\* The kernel leaves those that wait where they are.
LEMMA SendsUnreadable ==
  ASSUME Typed, Turns, NEW r \in 1 .. asked, Sends(r)
  PROVE  Unreadable \subseteq Unreadable'
<1>1. CASE replies' = replies
  BY <1>1 DEF Unreadable
<1>2. CASE \A i \in DOMAIN replies : i \in DOMAIN replies' /\ replies'[i] = replies[i]
  <2>1. ASSUME NEW m \in Unreadable PROVE m \in Unreadable'
    <3>1. PICK i \in DOMAIN replies : \E p \in DOMAIN replies[i] : m = replies[i][p]
      BY UnreadableMembers
    <3>2. QED
      BY <1>2, <3>1, UnreadableMembers
  <2>2. QED
    BY <2>1
<1>3. QED
  <2>1. \/ replies' = replies
        \/ /\ Len(replies) \in Nat /\ DOMAIN replies = 1 .. Len(replies)
           /\ DOMAIN replies' = 1 .. Len(replies) + 1
           /\ \A i \in 1 .. Len(replies) : replies'[i] = replies[i]
    BY SendsFacts
  <2>2. QED
    BY <1>1, <1>2, <2>1

\* Where recv_loop does not fail it has read the whole datagram; what it fails on
\* is in no later one.
LEMMA TakesUnreadable ==
  ASSUME Typed, Turns, Ordered, ReceiveReply
  PROVE  /\ Unreadable' \subseteq Unreadable
         /\ Outcome(replies[1], asked) # "failed" => Unreadable' = Unreadable
         /\ Outcome(replies[1], asked) = "failed" => Unreadable' # Unreadable
<1> USE BoundsAssumption
<1> DEFINE d == replies[1]
           s == Stop(d, asked)
<1>1. /\ replies # <<>> /\ replies' = Tail(replies) /\ 1 \in DOMAIN replies
      /\ d \in Seq(AnyMessage) /\ Regular(d) /\ UNCHANGED <<asked, dumps>>
  BY ReceiveFacts
<1>2. \A i \in DOMAIN replies' :
        i + 1 \in DOMAIN replies /\ 1 < i + 1 /\ replies'[i] = replies[i + 1]
  BY <1>1, RestFacts
<1>3. \A i \in DOMAIN replies : i # 1 => \E j \in DOMAIN replies' : replies'[j] = replies[i]
  <2>1. replies \in Seq(Seq(AnyMessage))
    BY DEF Typed
  <2>2. ASSUME NEW i \in DOMAIN replies, i # 1
        PROVE  i - 1 \in DOMAIN Tail(replies) /\ Tail(replies)[i - 1] = replies[i]
    BY <1>1, <2>1, <2>2
  <2>3. QED
    BY <1>1, <2>2
<1>4. Unreadable' \subseteq Unreadable
  <2>1. ASSUME NEW m \in Unreadable' PROVE m \in Unreadable
    <3>1. PICK i \in DOMAIN replies' : \E p \in DOMAIN replies'[i] : m = replies'[i][p]
      BY UnreadableMembers
    <3>2. QED
      BY <1>2, <3>1, UnreadableMembers
  <2>2. QED
    BY <2>1
<1>5. ASSUME \A p \in DOMAIN d : d[p].type # "garbage" PROVE Unreadable' = Unreadable
  <2>1. ASSUME NEW m \in Unreadable PROVE m \in Unreadable'
    <3>1. PICK i \in DOMAIN replies : \E p \in DOMAIN replies[i] : m = replies[i][p]
      BY UnreadableMembers
    <3>2. m.type = "garbage"
      BY UnreadableMembers
    <3>3. i # 1
      BY <1>5, <3>1, <3>2
    <3>4. QED
      BY <1>3, <3>1, <3>2, <3>3, UnreadableMembers
  <2>2. QED
    BY <1>4, <2>1
<1>6. /\ s \in 1 .. Len(d) + 1 /\ (\A p \in 1 .. s - 1 : ~Ends(d[p], asked))
      /\ (s <= Len(d) => Ends(d[s], asked))
      /\ Len(d) \in Nat /\ DOMAIN d = 1 .. Len(d)
      /\ Outcome(d, asked) = IF s > Len(d) THEN "more"
                             ELSE IF d[s].type = "done" THEN "received" ELSE "failed"
  BY <1>1, StopFacts DEF Outcome
<1>7. \A p \in 1 .. s - 1 : d[p].type # "garbage"
  BY <1>6 DEF Ends
<1>8. \A i \in DOMAIN replies :
        /\ replies[i][1].seq \in Nat /\ replies[i][1].n \in Nat
        /\ \A p \in DOMAIN replies[i] :
             /\ p \in Nat /\ p >= 1
             /\ replies[i][p].n \in Nat /\ replies[i][p].n = replies[i][1].n + p - 1
             /\ replies[i][p].n < dumps[replies[i][1].seq]
             /\ replies[i][p].seq = replies[i][1].seq
             /\ dumps[replies[i][1].seq] \in 1 .. Parts + 2
             /\ \/ replies[i][p].type \in {Kind(replies[i][p].n), "garbage"}
                \/ replies[i][p].type = "error" /\ replies[i][p].n = 1
  <2>1. ASSUME NEW i \in DOMAIN replies
        PROVE  /\ Regular(replies[i]) /\ replies[i] \in Seq(AnyMessage)
               /\ replies[i][1].seq \in DOMAIN dumps
    <3>1. Regular(replies[i]) /\ replies[i] \in Seq(AnyMessage)
      BY DEF Ordered, Typed
    <3>2. dumps \in Seq(1 .. Parts + 2) /\ Len(dumps) = asked /\ asked \in Nat
      BY DEF Typed, Turns
    <3>3. DOMAIN dumps = 1 .. asked
      BY <3>2
    <3>4. QED
      BY <3>1, <3>3 DEF Regular
  <2>2. \A r \in DOMAIN dumps : dumps[r] \in 1 .. Parts + 2
    BY DEF Typed
  <2>3. QED
    BY <2>1, <2>2, ReplyFacts DEF Regular
<1>9. CASE Outcome(d, asked) = "more"
  BY <1>4, <1>5, <1>6, <1>7, <1>9
<1>10. CASE Outcome(d, asked) = "received"
  <2>1. s \in 1 .. Len(d) /\ s \in DOMAIN d /\ d[s].type = "done"
    BY <1>6, <1>10
  <2>2. ~(d[s].n <= Parts)
    BY <1>1, <1>8, <2>1 DEF Kind
  <2>3. s = Len(d)
    <3>1. Len(d) \in DOMAIN d
      BY <1>6, <2>1
    <3>2. d[Len(d)].n < dumps[d[1].seq] /\ dumps[d[1].seq] \in 1 .. Parts + 2
          /\ d[Len(d)].n = d[1].n + Len(d) - 1 /\ d[s].n = d[1].n + s - 1
          /\ d[1].n \in Nat /\ d[s].n \in Nat
      BY <1>1, <1>8, <2>1, <3>1
    <3> HIDE DEF d, s
    <3>3. QED
      BY <1>6, <2>1, <2>2, <3>2
  <2>4. \A p \in DOMAIN d : d[p].type # "garbage"
    <3> HIDE DEF d, s
    <3>1. \A p \in DOMAIN d : p = s \/ p \in 1 .. s - 1
      BY <1>6, <2>3
    <3>2. QED
      BY <1>7, <2>1, <3>1
  <2>5. QED
    BY <1>4, <1>5, <1>10, <2>4
<1>11. CASE Outcome(d, asked) = "failed"
  <2>1. s \in DOMAIN d /\ d[s].type = "garbage"
    BY <1>6, <1>11 DEF Ends
  <2>2. d[s] \in Unreadable
    BY <1>1, <2>1, UnreadableMembers
  <2>3. ASSUME d[s] \in Unreadable' PROVE FALSE
    <3>1. PICK j \in DOMAIN replies' : \E p \in DOMAIN replies'[j] : d[s] = replies'[j][p]
      BY <2>3, UnreadableMembers
    <3> DEFINE i == j + 1
    <3>2. i \in DOMAIN replies /\ 1 < i /\ replies'[j] = replies[i]
      BY <1>2
    <3> HIDE DEF i
    <3>3. PICK p \in DOMAIN replies[i] : d[s] = replies[i][p]
      BY <3>1, <3>2
    <3>4. replies[1][1].seq = replies[i][1].seq
      <4>1. replies[1][s].seq = replies[1][1].seq
        <5> HIDE DEF s
        <5>1. QED
          BY <1>1, <1>8, <2>1
      <4>2. replies[i][p].seq = replies[i][1].seq
        BY <1>8, <3>2, <3>3
      <4>3. QED
        BY <3>3, <4>1, <4>2
    <3>5. replies[1][s].n < replies[i][1].n
      BY <1>1, <2>1, <3>2, <3>4 DEF Ordered
    <3>6. /\ replies[i][p].n = replies[i][1].n + p - 1 /\ p \in Nat /\ p >= 1
          /\ replies[i][1].n \in Nat
      BY <1>8, <3>2, <3>3
    <3>7. QED
      BY <3>3, <3>5, <3>6
  <2>4. QED
    BY <1>4, <1>11, <2>2, <2>3
<1>12. QED
  BY <1>4, <1>6, <1>9, <1>10, <1>11

\* Every step of the socket is one that Dumps allows, or changes nothing it sees.
LEMMA StepRefines ==
  ASSUME IInv, [Next]_vars
  PROVE  Service!Next \/ UNCHANGED Service!vars
<1>0. Typed /\ Turns /\ Ordered /\ Typed' /\ Turns' /\ Ordered'
  BY TypedStep, TurnsStep, OrderedStep DEF IInv
<1>91. asked \in Nat /\ spoiled \subseteq 1 .. asked
  BY <1>0 DEF Typed
<1>1. ASSUME UNCHANGED <<asked, answer, Unreadable>>, Excused' = Excused
      PROVE  UNCHANGED Service!vars
  BY <1>1 DEF Service!vars, Excused
<1>2. ASSUME UNCHANGED <<asked, answer>>, Unreadable \subseteq Unreadable', ~Excused, Excused'
      PROVE  Service!Suffer
  BY <1>2 DEF Service!Suffer, Excused
<1>92. ASSUME UNCHANGED <<asked, answer>>, Unreadable \subseteq Unreadable', Excused' = Excused
       PROVE  Service!LeaveBehind
  BY <1>92 DEF Service!LeaveBehind, Excused
<1>3. ASSUME NEW r \in 1 .. asked, Sends(r) PROVE Service!Next \/ UNCHANGED Service!vars
  <2>1. UNCHANGED <<asked, answer>> /\ spoiled' \in {spoiled, spoiled \cup {r}}
    BY <1>0, <1>3, SendsFacts DEF managerVars
  <2>2. Excused' = Excused \/ (~Excused /\ Excused')
    BY <2>1 DEF Excused
  <2>3. Unreadable \subseteq Unreadable'
    BY <1>0, <1>3, SendsUnreadable
  <2>4. QED
    BY <1>2, <1>92, <2>1, <2>2, <2>3 DEF Service!Next
<1>4. ASSUME NEW next, Send(next), ~Waiting PROVE Service!Ask
  <2>1. answer.how # "waiting"
    BY <1>0, <1>4 DEF Turns
  <2>2. asked' = asked + 1 /\ answer' = [how |-> "waiting", messages |-> <<>>]
        /\ spoiled' = spoiled /\ Unreadable' = Unreadable
    BY <1>4 DEF Send, Unreadable
  <2>3. (asked' \in spoiled') = FALSE
    BY <1>91, <2>2
  <2>4. Handed' = [how |-> "waiting", parts |-> {}]
    BY <2>2 DEF Handed
  <2>5. QED
    BY <2>1, <2>2, <2>3, <2>4 DEF Service!Ask, Handed
<1>5. ASSUME answer.how = "waiting", answer'.how = "returned", asked' = asked,
             NEW parts, parts = {answer'.messages[p].n :
                  p \in {p \in DOMAIN answer'.messages : answer'.messages[p].type = "part"}},
             Unreadable' = Unreadable
      PROVE  /\ (parts = 1 .. Parts \/ Excused) /\ Excused' = Excused => Service!Return
             /\ Excused' = TRUE => Service!TimeOut
  <2>1. parts \in SUBSET (1 .. Parts)
    <3>1. answer'.messages \in Seq(AnyMessage)
      BY <1>0 DEF Typed
    <3>2. \A p \in DOMAIN answer'.messages :
            /\ answer'.messages[p].n >= 1
            /\ answer'.messages[p].type = "part" => answer'.messages[p].n <= Parts
      BY <1>0 DEF Ordered
    <3>3. QED
      BY <1>5, <3>1, <3>2, HandedParts
  <2>2. Handed' = [how |-> "returned", parts |-> parts]
    BY <1>5 DEF Handed
  <2>3. QED
    BY <1>5, <2>1, <2>2 DEF Service!Return, Service!TimeOut, Service!Answer, Handed, Excused
<1>6. CASE ReceiveReply
  <2> DEFINE d == replies[1]
             x == answer.messages \o Collected(d, asked)
  <2>1. /\ Waiting /\ asked' = asked
        /\ \/ /\ Outcome(d, asked) = "more" /\ spoiled' = spoiled
              /\ answer' = [how |-> "waiting", messages |-> x]
           \/ /\ Outcome(d, asked) = "received" /\ spoiled' = spoiled
              /\ answer' = [how |-> "returned", messages |-> x]
           \/ /\ Outcome(d, asked) = "failed" /\ spoiled' = spoiled
              /\ answer' = [how |-> "failed", messages |-> <<>>]
    BY <1>0, <1>6, ReceiveFacts
  <2>2. answer.how = "waiting"
    BY <1>0, <2>1 DEF Turns
  <2>3. asked \notin spoiled /\ Outcome(d, asked) = "received" =>
          {x[p].n : p \in {p \in DOMAIN x : x[p].type = "part"}} = 1 .. Parts
    BY <1>6, ReceivedWhole
  <2>8. /\ Unreadable' \subseteq Unreadable
        /\ Outcome(d, asked) # "failed" => Unreadable' = Unreadable
        /\ Outcome(d, asked) = "failed" => Unreadable' # Unreadable
    BY <1>0, <1>6, TakesUnreadable
  <2> HIDE DEF x, d
  <2>4. CASE /\ Outcome(d, asked) = "more" /\ spoiled' = spoiled
             /\ answer' = [how |-> "waiting", messages |-> x]
    <3>1. Handed' = Handed /\ Excused' = Excused
      BY <2>1, <2>2, <2>4 DEF Handed, Excused
    <3>2. UNCHANGED Service!vars
      BY <2>1, <2>4, <2>8, <3>1 DEF Service!vars, Handed, Excused
    <3>3. QED
      BY <3>2
  <2>5. CASE /\ Outcome(d, asked) = "received" /\ spoiled' = spoiled
             /\ answer' = [how |-> "returned", messages |-> x]
    <3>1. answer'.how = "returned" /\ answer'.messages = x
      BY <2>5
    <3>2. Excused' = Excused /\ (asked \notin spoiled \/ Excused) /\ Unreadable' = Unreadable
      BY <2>1, <2>5, <2>8 DEF Excused
    <3> DEFINE parts == {answer'.messages[p].n :
                  p \in {p \in DOMAIN answer'.messages : answer'.messages[p].type = "part"}}
    <3>3. parts = 1 .. Parts \/ Excused
      BY <2>3, <2>5, <3>1, <3>2
    <3> HIDE DEF parts
    <3>4. Service!Return
      BY <1>5, <2>1, <2>2, <3>1, <3>2, <3>3 DEF parts
    <3>5. QED
      BY <3>4 DEF Service!Next
  <2>6. CASE /\ Outcome(d, asked) = "failed" /\ spoiled' = spoiled
             /\ answer' = [how |-> "failed", messages |-> <<>>]
    <3>1. Handed' = [how |-> "failed", parts |-> {}] /\ Excused' = Excused
      BY <2>1, <2>6 DEF Handed, Excused
    <3>2. Service!Fail
      BY <2>1, <2>2, <2>6, <2>8, <3>1 DEF Service!Fail, Service!Answer, Handed, Excused
    <3>3. QED
      BY <3>2 DEF Service!Next
  <2>7. QED
    BY <2>1, <2>4, <2>5, <2>6
<1>7. CASE ReplyTimeout
  <2>1. /\ Waiting /\ asked' = asked /\ spoiled' = spoiled \cup {asked}
        /\ answer' = [how |-> "returned", messages |-> answer.messages]
    BY <1>7 DEF ReplyTimeout, Return
  <2>2. answer.how = "waiting" /\ Excused' = TRUE /\ Unreadable' = Unreadable
    BY <1>0, <1>7, <2>1 DEF Turns, Excused, ReplyTimeout, Unreadable
  <2>3. Service!TimeOut
    BY <1>5, <2>1, <2>2
  <2>4. QED
    BY <2>3 DEF Service!Next
<1>8. ASSUME UNCHANGED <<asked, answer, spoiled, replies>> PROVE UNCHANGED Service!vars
  BY <1>1, <1>8 DEF Excused, Unreadable
<1>9. CASE PollBegins
  BY <1>4, <1>9 DEF PollBegins, Waiting, Service!Next
<1>10. CASE AskForAddresses
  BY <1>4, <1>10 DEF AskForAddresses, Waiting, Service!Next
<1>11. QED
  BY <1>0, <1>3, <1>6, <1>7, <1>8, <1>9, <1>10, KernelAnswersSends, KernelRefusesSends
     DEF Next, Kernel, Worker, Task, SendFails, WorkerEnds,
         KernelAnnounces, DropManager, TaskLoops, CollectEvent,
         EventTimeout, DeliverEvent, vars, managerVars, kernelVars

\* send_message implements Dumps: what it returns is the whole dump, or something
\* has gone wrong with this very request; and it fails of a message that cannot be
\* read only, of this answer or left behind by an earlier one.
THEOREM ImplementsService == Spec => ImplementsDumps
<1>1. Init => Service!Init
  <2> SUFFICES ASSUME Init PROVE Service!Init
    OBVIOUS
  <2>1. asked = 0 /\ answer = [how |-> "none", messages |-> <<>>] /\ spoiled = {}
    BY DEF Init
  <2>2. Handed = [how |-> "none", parts |-> {}] /\ (asked \in spoiled) = FALSE
    BY <2>1 DEF Handed
  <2>4. Unreadable = {}
    <3>1. replies = <<>>
      BY DEF Init
    <3>2. QED
      BY <3>1, UnreadableMembers
  <2>3. QED
    BY <2>1, <2>2, <2>4 DEF Service!Init, Handed
<1>2. IInv /\ [Next]_vars => [Service!Next]_Service!vars
  BY StepRefines
<1>3. QED
  BY <1>1, <1>2, Invariance, PTL DEF Spec, ImplementsDumps, Service!Spec
=============================================================================
