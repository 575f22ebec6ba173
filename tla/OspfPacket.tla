----------------------------- MODULE OspfPacket -----------------------------
(***************************************************************************)
(* Packets of OSPF version 2: the header common to all of them and the     *)
(* Hello (rusty-router-proto-ospfv2/src/packet/), and the netmask of       *)
(* rusty-router-proto-ip/src/lib.rs.                                       *)
(*                                                                         *)
(* Addresses, masks and other 32-bit numbers are tuples of four bytes.  A  *)
(* parser returns a record of the fields, or Failed with the error.        *)
(***************************************************************************)
EXTENDS Checksum, SequencesExt

\* An address, or another number of 32 bits.
Address == [1 .. 4 -> Byte]

Failed(error) == [error |-> error]
Ok(result) == "error" \notin DOMAIN result

-----------------------------------------------------------------------------
(* Netmasks. *)

\* How many of the first n bits of a mask lie in its i-th byte.
BitsIn(n, i) == IF n <= 8 * (i - 1) THEN 0 ELSE IF n >= 8 * i THEN 8 ELSE n - 8 * (i - 1)

MaskOf(n) == [i \in 1 .. 4 |-> 256 - 2^(8 - BitsIn(n, i))]

\* Ipv4Netmask::new: a mask with gaps counts as length 0.
Ipv4Netmask(number) ==
  LET lengths == {n \in 0 .. 32 : MaskOf(n) = number} IN
  [netmask_number |-> number,
   prefix_length  |-> IF lengths = {} THEN 0 ELSE CHOOSE n \in lengths : TRUE]

-----------------------------------------------------------------------------
(* The authentication header: eight bytes, read as the type says. *)

AuthenticationTypes == [Null |-> 0, SimplePassword |-> 1, CryptographicAuthentication |-> 2]

AuthenticationHeaderKeyFirst(type, bytes) ==
  CASE type = 0 -> <<>>
    [] type = 1 -> bytes
    [] type = 2 -> [key_id |-> bytes[1], authentication_data_length |-> bytes[2],
                    cryptographic_sequence_number |-> Slice(bytes, 4, 8)]

AuthenticationHeader(type, bytes) ==
  CASE type = 0 -> <<>>
    [] type = 1 -> bytes
    [] type = 2 -> [key_id |-> bytes[3], authentication_data_length |-> bytes[4],
                    cryptographic_sequence_number |-> Slice(bytes, 4, 8)]

AuthenticationBytes(type, header) ==
  CASE type = 0 -> [i \in 1 .. 8 |-> 0]
    [] type = 1 -> header
    [] type = 2 -> <<0, 0, header.key_id, header.authentication_data_length>>
                     \o header.cryptographic_sequence_number

-----------------------------------------------------------------------------
(* The header. *)

HeaderLength == 24
MessageTypes == 1 .. 5
Hello == 1

\* OspfHeaderBuilder, with_checksum and build.
BuildHeader(type, length, router_id, area_id, checksum) ==
  [version |-> 2, message_type |-> type, packet_length |-> length,
   router_id |-> router_id, area_id |-> area_id, checksum |-> checksum,
   authentication_type |-> AuthenticationTypes.Null, authentication_header |-> <<>>]

HeaderBytes(h) ==
  <<h.version, h.message_type>> \o Bytes16(h.packet_length) \o h.router_id \o h.area_id
    \o Bytes16(h.checksum) \o Bytes16(h.authentication_type)
    \o AuthenticationBytes(h.authentication_type, h.authentication_header)

\* The checksum and the authentication header are left out of the sum.
Unsummed == (12 .. 13) \cup (16 .. 23)

\* What the parser wants: the sum is folded once and cut to 16 bits.
ExpectedChecksum(data, type) ==
  IF type = AuthenticationTypes.CryptographicAuthentication THEN 0
  ELSE FinalResultFoldedOnce(WordSum(data, Unsummed))

\* The last steps of OspfHeader::try_from, data cut to its length.
ReadHeader(data, length, type) ==
  LET checksum == Number16(Slice(data, 12, 14)) IN
  IF checksum # ExpectedChecksum(data, type) THEN Failed("InvalidChecksum")
  ELSE IF data[1] # 2 THEN Failed("Version")
  ELSE IF data[2] \notin MessageTypes THEN Failed("Type")
  ELSE [version |-> data[1], message_type |-> data[2], packet_length |-> length,
        router_id |-> Slice(data, 4, 8), area_id |-> Slice(data, 8, 12),
        checksum |-> checksum, authentication_type |-> type,
        authentication_header |-> AuthenticationHeader(type, Slice(data, 16, 24))]

ParseHeaderUncut(data) ==
  IF Len(data) < HeaderLength THEN Failed("InvalidHeaderLength")
  ELSE LET length == Number16(Slice(data, 2, 4))
           type   == Number16(Slice(data, 14, 16))
       IN  IF length < HeaderLength THEN Failed("InvalidHeaderLength")
           ELSE IF Len(data) < length THEN Failed("InvalidMinimumLength")
           ELSE IF length % 4 # 0 THEN Failed("InvalidBitBoundary")
           ELSE IF type \notin 0 .. 2 THEN Failed("AuthenticationType")
           ELSE ReadHeader(data, length, type)

\* OspfHeader::try_from, in the order of its early returns.
ParseHeader(data) ==
  IF Len(data) < HeaderLength THEN Failed("InvalidHeaderLength")
  ELSE LET length == Number16(Slice(data, 2, 4))
           type   == Number16(Slice(data, 14, 16))
       IN  IF length < HeaderLength THEN Failed("InvalidHeaderLength")
           ELSE IF Len(data) < length THEN Failed("InvalidMinimumLength")
           ELSE IF length % 4 # 0 THEN Failed("InvalidBitBoundary")
           ELSE IF type \notin 0 .. 2 THEN Failed("AuthenticationType")
           ELSE ReadHeader(Slice(data, 0, length), length, type)

-----------------------------------------------------------------------------
(* The Hello. *)

MaxNeighbors == (65536 - HeaderLength - 20) \div 4 - 1

HelloLengthOfBody(neighbors) == (20 + 4 * neighbors) % 65536

\* The arithmetic of u16.
HelloLength(neighbors) == (HeaderLength + 20 + 4 * neighbors) % 65536

HelloBytes(p) ==
  HeaderBytes(p.header) \o p.network_mask.netmask_number \o Bytes16(p.hello_interval)
    \o <<p.options, p.router_priority>> \o p.router_dead_interval
    \o p.designated_router \o p.backup_designated_router \o FlattenSeq(p.neighbors)

\* f: what the builder was given.
HelloPacket(f, length, checksum) ==
  [header |-> BuildHeader(Hello, length, f.router_id, f.area_id, checksum),
   network_mask |-> f.network_mask, hello_interval |-> f.hello_interval,
   options |-> f.options, router_priority |-> f.router_priority,
   router_dead_interval |-> f.router_dead_interval,
   designated_router |-> f.designated_router,
   backup_designated_router |-> f.backup_designated_router, neighbors |-> f.neighbors]

\* OspfHelloPacketBuilder::build: the checksum is that of the packet with none.
BuildHello(f) ==
  LET length == HelloLength(Len(f.neighbors)) IN
  IF Len(f.neighbors) > MaxNeighbors THEN Failed("Neighbor List Length")
  ELSE HelloPacket(f, length, InternetChecksum(HelloBytes(HelloPacket(f, length, 0))))

\* The neighbors are read up to the length the header gives.
ReadHello(data, header) ==
  [header |-> header,
   network_mask |-> Ipv4Netmask(Slice(data, 24, 28)),
   hello_interval |-> Number16(Slice(data, 28, 30)),
   options |-> data[31], router_priority |-> data[32],
   router_dead_interval |-> Slice(data, 32, 36),
   designated_router |-> Slice(data, 36, 40),
   backup_designated_router |-> Slice(data, 40, 44),
   neighbors |-> [i \in 1 .. (header.packet_length - 44) \div 4 |->
                    Slice(data, 40 + 4 * i, 44 + 4 * i)]]

ParseHelloOfAnyAuthentication(data) ==
  LET header == ParseHeader(data) IN
  IF ~Ok(header) THEN header
  ELSE IF header.packet_length < 44 THEN Failed("InvalidMinimumLength")
  ELSE IF header.packet_length % 4 # 0 THEN Failed("InvalidBitBoundary")
  ELSE ReadHello(data, header)

\* OspfHelloPacket::try_from
ParseHello(data) ==
  LET header == ParseHeader(data) IN
  IF ~Ok(header) THEN header
  ELSE IF header.packet_length < 44 THEN Failed("InvalidMinimumLength")
  ELSE IF header.packet_length % 4 # 0 THEN Failed("InvalidBitBoundary")
  ELSE IF header.authentication_type # AuthenticationTypes.Null THEN Failed("AuthType")
  ELSE ReadHello(data, header)
=============================================================================
