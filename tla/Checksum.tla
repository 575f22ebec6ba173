------------------------------ MODULE Checksum ------------------------------
(***************************************************************************)
(* The Internet checksum (rusty-router-proto-common/src/lib.rs) and the    *)
(* numbers in packets.  A packet is a sequence of bytes; offsets count     *)
(* from 0, as in the code.                                                 *)
(*                                                                         *)
(* The code adds the data in groups of eight bytes as they lie in memory,  *)
(* swaps the bytes of the sum once, and folds 128 bits to 64, 32 and 16.   *)
(* A 16-bit word weighs 1 modulo 65535 wherever it stands in a group, so   *)
(* that is the sum of the 16-bit words, folded: Hello_proofs shows         *)
(* that each fold keeps the value modulo 65535.                            *)
(***************************************************************************)
EXTENDS Integers, Sequences

Byte == 0 .. 255

\* data[from .. to] of the code.
Slice(data, from, to) == SubSeq(data, from + 1, to)

\* from_be_bytes!(u16, ..) and to_be_bytes.
Number16(bytes) == 256 * bytes[1] + bytes[2]
Bytes16(n)      == <<n \div 256, n % 256>>

\* What each byte of data counts in the sum of the 16-bit words, those at the
\* offsets in skipped as zero.  A byte left over is the high half of a word.
Weights(data, skipped) ==
  [i \in 1 .. Len(data) |->
     IF i - 1 \in skipped THEN 0 ELSE IF i % 2 = 1 THEN 256 * data[i] ELSE data[i]]

SumOf(weights) ==
  LET sum[i \in 0 .. Len(weights)] == IF i = 0 THEN 0 ELSE sum[i - 1] + weights[i]
  IN  sum[Len(weights)]

WordSum(data, skipped) == SumOf(Weights(data, skipped))

Word == 65536

\* The carry is added to what is left: once, a carry may remain.
Fold(sum) == (sum % Word) + (sum \div Word)

FinalResultFoldedOnce(sum) == (65535 - Fold(sum)) % Word

FinalResultOfOneFold(sum) == 65535 - Fold(sum)

\* calculate_final_result: folded twice, then inverted.
FinalResult(sum) == 65535 - Fold(Fold(sum))

\* InternetChecksum::checksum
InternetChecksum(data) == FinalResult(WordSum(data, {}))
=============================================================================
