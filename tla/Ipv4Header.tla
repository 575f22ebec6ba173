----------------------------- MODULE Ipv4Header -----------------------------
(***************************************************************************)
(* The IPv4 header of rusty-router-proto-ip/src/lib.rs: built, serialised  *)
(* and parsed.  As in OspfPacket, an address is a tuple of four bytes and a *)
(* parser returns a record of the fields, or Failed with the error.        *)
(***************************************************************************)
EXTENDS OspfPacket

Unforced == -1

-----------------------------------------------------------------------------
(* Flags.  The values are those of Ipv4Flag::get_value. *)

Ipv4Flags == [Reserved |-> 1, DontFragment |-> 2, MoreFragments |-> 4]

FlagsOf(flags) ==
  LET value(flag) == IF flag \in flags THEN Ipv4Flags[flag] ELSE 0 IN
  value("Reserved") + value("DontFragment") + value("MoreFragments")

-----------------------------------------------------------------------------
(* IpV4Header as bytes.  The header length written is always that of a     *)
(* header without options.  The fragment offset is not divided by the 8 it *)
(* is multiplied with in parsing, so a fragment's runs into its flags.     *)

\* The bitwise or of the last three bits of a and of b.
LastBits(a, b) ==
  LET bit(w) == IF (a \div w) % 2 = 1 \/ (b \div w) % 2 = 1 THEN w ELSE 0 IN
  bit(4) + bit(2) + bit(1)

\* The flags are shifted to the upper three of sixteen bits.
FlagsWithFragmentOffset(h) ==
  8192 * LastBits(h.fragment_offset \div 8192, h.flags) + (h.fragment_offset % 8192)

IpBytes(h) ==
  <<16 * h.version + 5, h.type_of_service>> \o Bytes16(h.total_length)
    \o Bytes16(h.identification) \o Bytes16(FlagsWithFragmentOffset(h))
    \o <<h.time_to_live, h.protocol>> \o Bytes16(h.header_checksum)
    \o h.source_address \o h.destination_address

\* IpV4HeaderBuilder::new, with the header length, identification and checksum
\* that are forced on it, and build.  What is not forced is 5, random, and right.
BuildIp(source, destination, protocol, payload_length, ihl, id, checksum) ==
  IF payload_length > 65535 - 20 THEN {Failed("InvalidLength")}
  ELSE LET draft(number) ==
             [version |-> 4, time_to_live |-> 128, protocol |-> protocol,
              source_address |-> source, destination_address |-> destination,
              total_length |-> 20 + payload_length, identification |-> number,
              fragment_offset |-> 0, header_checksum |-> 0, type_of_service |-> 0,
              internet_header_length |-> IF ihl = Unforced THEN 5 ELSE ihl,
              flags |-> FlagsOf({})]
           numbers == IF id = Unforced THEN 0 .. 65535 ELSE {id}
           sum(h)  == IF checksum = Unforced THEN InternetChecksum(IpBytes(h))
                      ELSE checksum
       IN  {[draft(n) EXCEPT !.header_checksum = sum(draft(n))] : n \in numbers}

-----------------------------------------------------------------------------
(* IpV4Header::try_from.  The checksum and the total length are not looked *)
(* at: the kernel has done that.                                           *)

ReadIp(data) ==
  LET offsetAndFlags == Number16(Slice(data, 6, 8)) IN
  [version |-> 4, internet_header_length |-> data[1] % 16, type_of_service |-> data[2],
   total_length |-> Number16(Slice(data, 2, 4)),
   identification |-> Number16(Slice(data, 4, 6)),
   fragment_offset |-> (offsetAndFlags % 8192) * 8,
   flags |-> offsetAndFlags \div 8192,
   time_to_live |-> data[9], protocol |-> data[10],
   header_checksum |-> Number16(Slice(data, 10, 12)),
   source_address |-> Slice(data, 12, 16), destination_address |-> Slice(data, 16, 20)]

ParseIp(data) ==
  IF Len(data) < 20 THEN Failed("InvalidMinimumLength")
  ELSE LET length == (data[1] % 16) * 4 IN
       IF data[1] \div 16 # 4 THEN Failed("Version")
       ELSE IF length < 20 THEN Failed("Internet Header Length")
       ELSE IF length > Len(data) THEN Failed("InvalidMinimumLength")
       ELSE ReadIp(data)
=============================================================================
