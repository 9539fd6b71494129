------------------------------- MODULE Bytes -------------------------------
(***************************************************************************)
(* utils/integer_serialization on the little-endian machine its assertion  *)
(* demands. A byte has Base values (256 in the program); every integer of  *)
(* several bytes is scaled to two of them, enough to tell byte orders and  *)
(* neighbouring fields apart.                                              *)
(***************************************************************************)
EXTENDS Integers, Sequences

CONSTANT Base

ASSUME BaseAssumption == Base \in Nat /\ Base > 6  \* room for the codes in use

Byte == 0..(Base - 1)
Word == 0..(Base * Base - 1)

\* Mutant: the bytes are read back in the opposite order.
IntFromBytesReversed(first, second) == second + Base * first

\* memcpy of the object: the least significant byte comes first in memory.
IntToBytes(x) == <<x % Base, x \div Base>>
IntFromBytes(first, second) == first + Base * second

\* htons, htonl: the integer whose bytes in memory are those of x in network
\* order, the most significant first.
HostToNetwork(x) == IntFromBytes(x \div Base, x % Base)

=============================================================================
