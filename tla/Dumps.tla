------------------------------- MODULE Dumps --------------------------------
(***************************************************************************)
(* What NetlinkSocket::send_message promises its caller (netlink/socket.rs,*)
(* send_message): one request at a time; its answer is the whole dump, or, *)
(* if something went wrong with this request, some of it; or an error, if  *)
(* a message that cannot be read was met, of this answer or left behind by *)
(* an earlier one, and each such message makes one request fail at most.   *)
(* The poller of InterfaceManager rests on this: DumpLinks and             *)
(* DumpAddresses take a subset of a dump only where a fault happens.       *)
(***************************************************************************)
EXTENDS Naturals

CONSTANT Parts  \* how many messages a dump has

VARIABLES
  request,      \* number of the last request
  answer,       \* what it has come to
  excused,      \* something has gone wrong with it since it was sent
  unreadable    \* the messages nobody can read that wait at the socket

vars == <<request, answer, excused, unreadable>>

Hows == {"none", "waiting", "returned", "failed"}

Init ==
  /\ request = 0
  /\ answer = [how |-> "none", parts |-> {}]
  /\ excused = FALSE
  /\ unreadable = {}

Ask ==
  /\ answer.how # "waiting"
  /\ request' = request + 1
  /\ answer' = [how |-> "waiting", parts |-> {}]
  /\ excused' = FALSE
  /\ UNCHANGED unreadable

\* Something goes wrong with the answer to this request.
Suffer ==
  /\ ~excused /\ excused' = TRUE
  /\ unreadable \subseteq unreadable'
  /\ UNCHANGED <<request, answer>>

\* More of an answer arrives that nobody waits for any more.
LeaveBehind ==
  /\ unreadable \subseteq unreadable'
  /\ UNCHANGED <<request, answer, excused>>

Answer(how, parts) ==
  /\ answer.how = "waiting"
  /\ answer' = [how |-> how, parts |-> parts]
  /\ UNCHANGED request

Return ==
  /\ \E parts \in SUBSET (1 .. Parts) :
       /\ parts = 1 .. Parts \/ excused
       /\ Answer("returned", parts)
  /\ UNCHANGED <<excused, unreadable>>

\* Nothing comes for as long as the socket waits.
TimeOut ==
  /\ \E parts \in SUBSET (1 .. Parts) : Answer("returned", parts)
  /\ excused' = TRUE
  /\ UNCHANGED unreadable

\* At least one message that cannot be read goes with the answer.
Fail ==
  /\ Answer("failed", {})
  /\ unreadable' \subseteq unreadable /\ unreadable' # unreadable
  /\ UNCHANGED excused

Next == Ask \/ Suffer \/ LeaveBehind \/ Return \/ TimeOut \/ Fail

Spec == Init /\ [][Next]_vars
=============================================================================
