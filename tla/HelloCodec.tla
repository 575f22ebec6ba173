----------------------------- MODULE HelloCodec -----------------------------
(***************************************************************************)
(* A Hello on its way from OspfHelloPacketBuilder to OspfHelloPacket::     *)
(* try_from: built and serialised by this library, or sent by another      *)
(* implementation, with the authentication and the type of its choice;     *)
(* padded, cut short or changed in some byte; and parsed.                  *)
(***************************************************************************)
EXTENDS OspfPacket

CONSTANTS
  Hellos,       \* what a builder is given
  Changes,      \* what a changed byte is off by, modulo 256
  MaxFaults     \* bound on what happens to a packet on the way

\* What the types of OspfHelloPacketBuilder allow, and build accepts.
ASSUME CodecAssumption ==
  /\ MaxFaults \in Nat
  /\ Changes \subseteq 1 .. 255
  /\ \A f \in Hellos :
       /\ f \in [router_id : Address, area_id : Address,
                 network_mask : [netmask_number : Address, prefix_length : 0 .. 32],
                 hello_interval : 0 .. Word - 1, options : Byte, router_priority : Byte,
                 router_dead_interval : Address, designated_router : Address,
                 backup_designated_router : Address, neighbors : Seq(Address)]
       /\ f.network_mask = Ipv4Netmask(f.network_mask.netmask_number)
       /\ Len(f.neighbors) <= MaxNeighbors

VARIABLES
  sent,         \* the type, authentication and fields the sender means
  packet,       \* the bytes
  damage,       \* what has happened to them on the way
  read          \* what the parsers make of them: header and Hello

codecVars == <<sent, packet, damage, read>>

Nothing == <<>>

-----------------------------------------------------------------------------
(* Senders. *)

Send(type, authentication, fields, data) ==
  /\ sent = Nothing
  /\ sent' = [type |-> type, authentication |-> authentication, fields |-> fields]
  /\ packet' = data
  /\ UNCHANGED <<damage, read>>

\* OspfHelloPacketBuilder::build, and the packet as bytes.
SendBuilt(f) == Send(Hello, AuthenticationTypes.Null, f, HelloBytes(BuildHello(f)))

\* The authentication headers another implementation uses; a cryptographic one
\* comes with a digest after the packet, and without a checksum.
Credentials(authentication) ==
  CASE authentication = 0 -> <<>>
    [] authentication = 1 -> <<115, 101, 99, 114, 101, 116, 0, 0>>
    [] authentication = 2 -> [key_id |-> 7, authentication_data_length |-> 16,
                              cryptographic_sequence_number |-> <<0, 0, 255, 255>>]

ForeignPacket(type, authentication, f) ==
  LET draft(checksum) ==
        HelloBytes([HelloPacket(f, 44 + 4 * Len(f.neighbors), checksum) EXCEPT
                      !.header.message_type = type,
                      !.header.authentication_type = authentication,
                      !.header.authentication_header = Credentials(authentication)])
      unauthenticated == WordSum(draft(0), 16 .. 23)
  IN  IF authentication = 2
      THEN draft(0) \o [i \in 1 .. 16 |-> 17 * (i - 1)]
      ELSE draft((Word - 1) - Fold(Fold(unauthenticated)))

\* Only the type is another one in a packet that is not a Hello: its body could
\* be read as one.
SendForeign(type, authentication, f) ==
  Send(type, authentication, f, ForeignPacket(type, authentication, f))

-----------------------------------------------------------------------------
(* The way (external). *)

Damage(what, data) ==
  /\ sent # Nothing /\ read = Nothing /\ Len(damage) < MaxFaults
  /\ damage' = Append(damage, what)
  /\ packet' = data
  /\ UNCHANGED <<sent, read>>

ChangeByte(i, value) ==
  value # packet[i] /\ Damage("changed", [packet EXCEPT ![i] = value])

Cut(length) == Damage("cut", Slice(packet, 0, length))

Pad(count) == Damage("padded", packet \o [i \in 1 .. count |-> 170])

Way ==
  \/ \E i \in DOMAIN packet, off \in Changes : ChangeByte(i, (packet[i] + off) % 256)
  \/ \E length \in 0 .. Len(packet) - 1 : Cut(length)
  \/ \E count \in 1 .. 5 : Pad(count)

-----------------------------------------------------------------------------
Parse ==
  /\ sent # Nothing /\ read = Nothing
  /\ read' = [header |-> ParseHeader(packet), hello |-> ParseHello(packet)]
  /\ UNCHANGED <<sent, packet, damage>>

CodecInit == sent = Nothing /\ packet = <<>> /\ damage = <<>> /\ read = Nothing

CodecNext ==
  \/ \E f \in Hellos : SendBuilt(f)
  \/ \E f \in Hellos, type \in MessageTypes, authentication \in 0 .. 2 :
       SendForeign(type, authentication, f)
  \/ Way
  \/ Parse

CodecSpec == CodecInit /\ [][CodecNext]_codecVars

-----------------------------------------------------------------------------
(* What must hold. *)

CodecTypeOK ==
  /\ \A i \in DOMAIN packet : packet[i] \in Byte
  /\ Len(damage) <= MaxFaults
  /\ read # Nothing /\ Ok(read.header) =>
       /\ read.header.packet_length \in HeaderLength .. Len(packet)
       /\ read.header.checksum \in 0 .. Word - 1
       /\ read.header.message_type \in MessageTypes

HeaderAccepted == read # Nothing /\ Ok(read.header)
HelloAccepted  == read # Nothing /\ Ok(read.hello)

\* The parser folds the sum of the packet's words once.  That is not enough when
\* the fold carries itself.
FoldCarries ==
  LET length == Number16(Slice(packet, 2, 4)) IN
  Fold(WordSum(Slice(packet, 0, length), Unsummed)) >= Word

\* What the sender means.  The neighbours are read up to the length in the header.
Means(hello) ==
  /\ hello.header.router_id = sent.fields.router_id
  /\ hello.header.area_id = sent.fields.area_id
  /\ hello.header.message_type = sent.type
  /\ \A n \in DOMAIN hello \ {"header", "neighbors"} : hello[n] = sent.fields[n]
  /\ IsPrefix(hello.neighbors, sent.fields.neighbors)
  /\ hello.header.packet_length = 44 + 4 * Len(sent.fields.neighbors)
       => hello.neighbors = sent.fields.neighbors

Untouched == \A i \in DOMAIN damage : damage[i] = "padded"

\* No change of one byte, cut or padding makes a Hello out of what was not one,
\* or one with other contents: what is accepted is what was meant.  There are
\* two exceptions, since a sum that comes out right is all the parser asks for.
\* A shorter length hides neighbours; it is accepted where their addresses make up
\* for it.  And a packet with cryptographic authentication carries the checksum 0,
\* so that with another kind of authentication it can be right.
\* A packet of another type that has the form of a Hello is accepted as one, with
\* the type in its header: try_from leaves it to the caller to look.  A sum that
\* carries twice is compared with the wrong checksum.
AcceptedAsMeant ==
  HelloAccepted /\ ~FoldCarries /\ (Untouched \/ Len(damage) <= 1) =>
    /\ Means(read.hello)
    /\ \/ sent.authentication = AuthenticationTypes.Null
       \/ /\ sent.authentication = AuthenticationTypes.CryptographicAuthentication
          /\ damage = <<"changed">> /\ read.hello.header.checksum = 0

\* What a builder has made, or another implementation has sent with any type and
\* authentication, is accepted, also with more bytes after it than its length
\* says; unless its sum carries twice.
AcceptedUnlessCarries ==
  read # Nothing /\ Untouched =>
    \/ FoldCarries /\ sent.authentication # AuthenticationTypes.CryptographicAuthentication
    \/ /\ Ok(read.header)
       /\ sent.authentication = AuthenticationTypes.Null => Ok(read.hello)

\* An accepted packet is serialised to the bytes it came in, except for what its
\* kind of authentication does not use; and parsing them again gives the same.
Reserialises ==
  /\ HeaderAccepted =>
       ParseHeader(HeaderBytes(read.header)
                     \o Slice(packet, HeaderLength, read.header.packet_length)) = read.header
  /\ HelloAccepted =>
       HelloBytes(read.hello) =
         Slice(packet, 0, 16) \o AuthenticationBytes(0, <<>>)
           \o Slice(packet, HeaderLength, read.header.packet_length)

\* The packets this library builds are packets this library accepts: the builder
\* folds the sum "twice to account for carry", so the parser's comparison must come
\* to the same.
BuiltIsAccepted ==
  read # Nothing /\ damage = <<>> /\ sent.authentication = AuthenticationTypes.Null
    => Ok(read.hello)
=============================================================================
