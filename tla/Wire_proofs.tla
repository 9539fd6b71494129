---------------------------- MODULE Wire_proofs ----------------------------
(***************************************************************************)
(* Proofs about the protocol, for bytes of any number of values, IPv6      *)
(* addresses of any length and every content of a message.                 *)
(***************************************************************************)
EXTENDS Wire, SequenceTheorems, TLAPS

---------------------------------------------------------------------------
(* Integers of several bytes.                                              *)

\* What the assumptions say of the sizes.
LEMMA BaseFacts == /\ Base \in Nat /\ Base > 6 /\ V6Len \in Nat /\ V6Len > 2
                   /\ Base * Base \in Nat
  BY BaseAssumption, V6LenAssumption

\* The two digits of a word are bytes, and it is made of them.
LEMMA Digits ==
  ASSUME NEW x \in Word
  PROVE  /\ x % Base \in Byte /\ x \div Base \in Byte
         /\ x = (x % Base) + Base * (x \div Base)
<1>1. x \in Nat /\ x < Base * Base
  BY BaseFacts DEF Word
<1>2. x % Base \in 0..(Base - 1) /\ x \div Base \in Nat
  BY <1>1, BaseFacts
<1>3. x = (x % Base) + Base * (x \div Base)
  BY <1>1, BaseFacts
<1>4. x \div Base < Base
  <2>1. SUFFICES ASSUME x \div Base >= Base PROVE FALSE
    BY <1>2, BaseFacts
  <2>2. Base * (x \div Base) >= Base * Base
    BY <1>2, <2>1, BaseFacts
  <2> QED
    BY <1>1, <1>2, <1>3, <2>2, BaseFacts
<1> QED
  BY <1>2, <1>3, <1>4, BaseFacts DEF Byte

\* Two bytes make a word, whose digits they are.
LEMMA Composed ==
  ASSUME NEW a \in Byte, NEW b \in Byte
  PROVE  /\ IntFromBytes(a, b) \in Word
         /\ IntFromBytes(a, b) % Base = a /\ IntFromBytes(a, b) \div Base = b
<1> DEFINE x == a + Base * b
<1>1. a \in Nat /\ a < Base /\ b \in Nat /\ b =< Base - 1
  BY BaseFacts DEF Byte
<1>2. Base * b =< Base * (Base - 1) /\ Base * b \in Nat
  BY <1>1, BaseFacts
<1>3. Base * (Base - 1) = Base * Base - Base
  BY BaseFacts
<1>4. x \in Nat /\ x < Base * Base
  BY <1>1, <1>2, <1>3, BaseFacts
<1>5. x % Base = a /\ x \div Base = b
  BY <1>1, <1>4, BaseFacts
<1> QED
  BY <1>4, <1>5, BaseFacts DEF IntFromBytes, Word

\* HostToNetwork exchanges the bytes of a word in memory.
LEMMA NetworkOrder ==
  ASSUME NEW x \in Word
  PROVE  /\ HostToNetwork(x) \in Word
         /\ HostToNetwork(x) % Base = x \div Base
         /\ HostToNetwork(x) \div Base = x % Base
  BY Digits, Composed DEF HostToNetwork

---------------------------------------------------------------------------
(* The layout of each message.                                             *)

\* The bytes of an integer in memory, and the integer read back from them.
LEMMA PairOfBytes ==
  ASSUME NEW x \in Word
  PROVE  /\ IntToBytes(x) \in Seq(Byte) /\ Len(IntToBytes(x)) = 2
         /\ IntToBytes(x)[1] = x % Base /\ IntToBytes(x)[2] = x \div Base
         /\ IntFromBytes(IntToBytes(x)[1], IntToBytes(x)[2]) = x
  BY Digits, BaseFacts DEF IntToBytes, IntFromBytes

\* A byte in front of a sequence of bytes moves each of them by one.
LEMMA ByteInFront ==
  ASSUME NEW b \in Byte, NEW s \in Seq(Byte)
  PROVE  /\ <<b>> \o s \in Seq(Byte) /\ Len(<<b>> \o s) = 1 + Len(s)
         /\ (<<b>> \o s)[1] = b
         /\ \A i \in 1..Len(s) : (<<b>> \o s)[1 + i] = s[i]
         /\ Tail(<<b>> \o s) = s
<1>1. <<b>> \in Seq(Byte) /\ Len(<<b>>) = 1
  OBVIOUS
<1> QED
  BY <1>1

\* The bytes of a concatenation are those of its parts.
LEMMA Concatenated ==
  ASSUME NEW s \in Seq(Byte), NEW t \in Seq(Byte)
  PROVE  /\ s \o t \in Seq(Byte) /\ Len(s \o t) = Len(s) + Len(t)
         /\ \A i \in 1..Len(s) : (s \o t)[i] = s[i]
         /\ \A i \in 1..Len(t) : (s \o t)[Len(s) + i] = t[i]
  OBVIOUS

\* A piece of a sequence.
LEMMA Cut ==
  ASSUME NEW S, NEW s \in Seq(S), NEW m \in Nat, NEW n \in Nat,
         1 =< m, m =< n + 1, n =< Len(s)
  PROVE  /\ SubSeq(s, m, n) \in Seq(S) /\ Len(SubSeq(s, m, n)) = n - m + 1
         /\ \A i \in 1..(n - m + 1) : SubSeq(s, m, n)[i] = s[m + i - 1]
  OBVIOUS

\* What a function on an initial segment holds is a sequence.
LEMMA BytesAreSeq ==
  ASSUME NEW n \in Nat, NEW f \in [1..n -> Byte]
  PROVE  f \in Seq(Byte) /\ Len(f) = n
  OBVIOUS

\* The address on the wire: family, port, and the address filled up to the
\* length of the longer one.
LEMMA AddressLayout ==
  ASSUME NEW a \in Addresses
  PROVE  LET b == AddressToBytes(a)
         IN  /\ b \in Seq(Byte) /\ Len(b) = 3 + V6Len
             /\ b[1] = AddrFamily[a.family]
             /\ b[2] = a.port % Base /\ b[3] = a.port \div Base
             /\ a.family = "v4" => b[4] = a.addr % Base /\ b[5] = a.addr \div Base
             /\ a.family = "v6" => \A i \in 1..V6Len : b[3 + i] = a.addr[i]
<1> DEFINE port == IntToBytes(a.port)
           head == <<AddrFamily[a.family]>> \o port
           rest == IF a.family = "v4" THEN IntToBytes(a.addr) \o Zeros(V6Len - 2) ELSE a.addr
<1>1. a.port \in Word /\ a.family \in {"v4", "v6"} /\ AddrFamily[a.family] \in {4, 6}
  BY DEF Addresses, AddrFamily
<1>2. AddrFamily[a.family] \in Byte
  BY <1>1, BaseFacts DEF Byte
<1>3. port \in Seq(Byte) /\ Len(port) = 2 /\ port[1] = a.port % Base /\ port[2] = a.port \div Base
  BY <1>1, PairOfBytes
<1>4. /\ head \in Seq(Byte) /\ Len(head) = 3 /\ head[1] = AddrFamily[a.family]
      /\ head[2] = a.port % Base /\ head[3] = a.port \div Base
  <2> HIDE DEF port
  <2>1. /\ head \in Seq(Byte) /\ Len(head) = 1 + Len(port) /\ head[1] = AddrFamily[a.family]
        /\ \A i \in 1..Len(port) : head[1 + i] = port[i]
    BY <1>2, <1>3, ByteInFront
  <2> HIDE DEF head
  <2>2. head[1 + 1] = port[1] /\ head[1 + 2] = port[2]
    BY <1>3, <2>1
  <2> QED
    BY <1>3, <2>1, <2>2
<1>5. /\ rest \in Seq(Byte) /\ Len(rest) = V6Len
      /\ a.family = "v4" => rest[1] = a.addr % Base /\ rest[2] = a.addr \div Base
      /\ a.family = "v6" => rest = a.addr
  <2>1. CASE a.family = "v4"
    <3>1. a.addr \in Word
      BY <2>1 DEF Addresses
    <3> DEFINE two == IntToBytes(a.addr)
               zeros == Zeros(V6Len - 2)
    <3>2. zeros \in Seq(Byte) /\ Len(zeros) = V6Len - 2
      BY BaseFacts DEF Zeros, Byte
    <3>3. /\ two \in Seq(Byte) /\ Len(two) = 2
          /\ two[1] = a.addr % Base /\ two[2] = a.addr \div Base
      BY <3>1, PairOfBytes
    <3> HIDE DEF two, zeros
    <3>4. rest = two \o zeros
      BY <2>1 DEF two, zeros
    <3> HIDE DEF rest
    <3>5. /\ rest \in Seq(Byte) /\ Len(rest) = Len(two) + Len(zeros)
          /\ \A i \in 1..Len(two) : rest[i] = two[i]
      BY <3>2, <3>3, <3>4, Concatenated
    <3>6. rest[1] = two[1] /\ rest[2] = two[2]
      BY <3>3, <3>5
    <3> QED
      BY <2>1, <3>2, <3>3, <3>5, <3>6, BaseFacts
  <2>2. CASE a.family = "v6"
    <3>1. a.addr \in [1..V6Len -> Byte]
      BY <2>2 DEF Addresses
    <3>2. rest = a.addr
      BY <2>2
    <3> HIDE DEF rest
    <3> QED
      BY <2>2, <3>1, <3>2, BytesAreSeq, BaseFacts
  <2> QED
    BY <1>1, <2>1, <2>2
<1>6. AddressToBytes(a) = head \o rest
  BY DEF AddressToBytes
<1> HIDE DEF head, rest, port
<1> DEFINE b == head \o rest
<1>7. /\ b \in Seq(Byte) /\ Len(b) = Len(head) + Len(rest)
      /\ \A i \in 1..Len(head) : b[i] = head[i]
      /\ \A i \in 1..Len(rest) : b[Len(head) + i] = rest[i]
  BY <1>4, <1>5, Concatenated
<1> HIDE DEF b
<1>8. /\ b[1] = head[1] /\ b[2] = head[2] /\ b[3] = head[3]
      /\ \A i \in 1..V6Len : b[3 + i] = rest[i]
  BY <1>4, <1>5, <1>7
<1>9. b[4] = rest[1] /\ b[5] = rest[2]
  <2>1. 1 \in 1..V6Len /\ 2 \in 1..V6Len
    BY BaseFacts
  <2>2. b[3 + 1] = rest[1] /\ b[3 + 2] = rest[2]
    BY <1>8, <2>1
  <2> QED
    BY <2>2
<1> QED
  BY <1>4, <1>5, <1>6, <1>7, <1>8, <1>9 DEF b

\* What stands behind the type byte has the length the reader expects.
LEMMA BodyLayout ==
  ASSUME NEW m \in Messages
  PROVE  m.type \in Types /\ ToBytes(m) \in Seq(Byte) /\ Len(ToBytes(m)) = SerializedSize(m.type)
<1>1. CASE m \in [type : {"CreateNewGameRequest"}]
  <2>1. m.type = "CreateNewGameRequest" /\ ToBytes(m) = <<>>
    BY <1>1 DEF ToBytes
  <2> QED
    BY <2>1 DEF SerializedSize, Types, MessageType
<1>2. CASE m \in [type : {"CreateNewGameResponse"}, alternative : {"GameId"}, value : Word]
  <2>1. m.type = "CreateNewGameResponse" /\ ToBytes(m) = <<0>> \o IntToBytes(m.value)
        /\ m.value \in Word
    BY <1>2 DEF ToBytes, ResponseToBytes, VariantIndex
  <2>2. 0 \in Byte
    BY BaseFacts DEF Byte
  <2> DEFINE two == IntToBytes(m.value)
  <2>3. two \in Seq(Byte) /\ Len(two) = 2
    BY <2>1, PairOfBytes
  <2> HIDE DEF two
  <2>4. <<0>> \o two \in Seq(Byte) /\ Len(<<0>> \o two) = 1 + Len(two)
    BY <2>2, <2>3, ByteInFront
  <2>5. ToBytes(m) \in Seq(Byte) /\ Len(ToBytes(m)) = 3
    BY <2>1, <2>3, <2>4 DEF two
  <2> QED
    BY <2>1, <2>5 DEF SerializedSize, Types, MessageType
<1>3. CASE m \in [type : {"CreateNewGameResponse"}, alternative : {"Error"},
                  value : {NoAvailableSpaceInGameDB}]
  <2>1. m.type = "CreateNewGameResponse" /\ ToBytes(m) = <<1>> \o <<1, 0>>
    BY <1>3 DEF ToBytes, ResponseToBytes, VariantIndex, NoAvailableSpaceInGameDB
  <2>2. 0 \in Byte /\ 1 \in Byte /\ <<1, 0>> \in Seq(Byte) /\ Len(<<1, 0>>) = 2
    BY BaseFacts DEF Byte
  <2>3. ToBytes(m) \in Seq(Byte) /\ Len(ToBytes(m)) = 3
    BY <2>1, <2>2, ByteInFront
  <2> QED
    BY <2>1, <2>3 DEF SerializedSize, Types, MessageType
<1>4. CASE m \in [type : {"JoinGameRequest"}, GameIdToJoin : Word]
  <2>1. m.type = "JoinGameRequest" /\ ToBytes(m) = IntToBytes(m.GameIdToJoin)
        /\ m.GameIdToJoin \in Word
    BY <1>4 DEF ToBytes
  <2> QED
    BY <2>1, PairOfBytes DEF SerializedSize, Types, MessageType
<1>5. CASE m \in [type : {"JoinGameResponse"}, Result : ResultCodes]
  <2>1. m.type = "JoinGameResponse" /\ ToBytes(m) = <<m.Result>> /\ m.Result \in 0..2
    BY <1>5 DEF ToBytes, ResultCodes
  <2>2. m.Result \in Byte
    BY <2>1, BaseFacts DEF Byte
  <2> QED
    BY <2>1, <2>2 DEF SerializedSize, Types, MessageType
<1>6. CASE m \in [type : {"SocketAddress"}, address : Addresses]
  <2>1. m.type = "SocketAddress" /\ ToBytes(m) = AddressToBytes(m.address)
        /\ m.address \in Addresses
    BY <1>6 DEF ToBytes
  <2> QED
    BY <2>1, AddressLayout DEF SerializedSize, Types, MessageType
<1> QED
  BY <1>1, <1>2, <1>3, <1>4, <1>5, <1>6 DEF Messages

\* A frame is the code of its type and the body of the length read for it.
LEMMA FrameLayout ==
  ASSUME NEW m \in Messages
  PROVE  LET b == Serialize(m)
         IN  /\ m.type \in Types
             /\ b \in Seq(Byte) /\ Len(b) = BufSize(m.type)
             /\ b[1] = MessageType[m.type] /\ Tail(b) = ToBytes(m)
<1>1. MessageType[m.type] \in 1..5
  BY BodyLayout DEF Types, MessageType
<1>2. MessageType[m.type] \in Byte
  BY <1>1, BaseFacts DEF Byte
<1> QED
  BY <1>2, BodyLayout, ByteInFront DEF Serialize, BufSize

---------------------------------------------------------------------------
(* Reading back.                                                           *)

\* A message as it arrives: the scope of an IPv6 address is not on the wire.
Unscoped(m) ==
  IF m.type = "SocketAddress" /\ m.address.family = "v6"
  THEN [m EXCEPT !.address = [m.address EXCEPT !.scope = 0]]
  ELSE m

\* To the program an address is the same with and without its scope.
LEMMA UnscopedIsSame ==
  ASSUME NEW m \in Messages
  PROVE  Same(Unscoped(m), m) /\ Unscoped(m).type = m.type
<1>1. CASE m.type = "SocketAddress" /\ m.address.family = "v6"
  <2>1. m \in [type : {"SocketAddress"}, address : Addresses]
    BY <1>1 DEF Messages
  <2>2. m.address \in [family : {"v6"}, port : Word, addr : [1..V6Len -> Byte], scope : {0, 1}]
    BY <1>1, <2>1 DEF Addresses
  <2> QED
    BY <1>1, <2>1, <2>2 DEF Unscoped, Same, SameSockAddr
<1>2. CASE ~(m.type = "SocketAddress" /\ m.address.family = "v6")
  BY <1>2 DEF Unscoped, Same, SameSockAddr
<1> QED
  BY <1>1, <1>2

\* The body of an address is read back without its scope.
LEMMA AddressRoundTrip ==
  ASSUME NEW a \in Addresses
  PROVE  AddressFromBytes(AddressToBytes(a)) = Unscoped([type |-> "SocketAddress", address |-> a])
<1> DEFINE b == AddressToBytes(a)
<1>1. /\ b[1] = AddrFamily[a.family]
      /\ b[2] = a.port % Base /\ b[3] = a.port \div Base
      /\ a.family = "v4" => b[4] = a.addr % Base /\ b[5] = a.addr \div Base
      /\ a.family = "v6" => \A i \in 1..V6Len : b[3 + i] = a.addr[i]
  BY AddressLayout
<1> HIDE DEF b
<1>2. a.port \in Word /\ IntFromBytes(b[2], b[3]) = a.port
  BY <1>1, Digits DEF Addresses, IntFromBytes
<1>3. CASE a.family = "v4"
  <2>1. a \in [family : {"v4"}, port : Word, addr : Word]
    BY <1>3 DEF Addresses
  <2>2. IntFromBytes(b[4], b[5]) = a.addr
    BY <1>1, <1>3, <2>1, Digits DEF IntFromBytes
  <2>3. b[1] = AddrFamily.v4
    BY <1>1, <1>3 DEF AddrFamily
  <2>4. AddressFromBytes(b)
          = [type |-> "SocketAddress",
             address |-> [family |-> "v4", port |-> a.port, addr |-> a.addr]]
    BY <1>2, <2>2, <2>3 DEF AddressFromBytes, AddrFamily
  <2>5. a = [family |-> "v4", port |-> a.port, addr |-> a.addr]
    BY <2>1
  <2> QED
    BY <1>3, <2>4, <2>5 DEF Unscoped, b
<1>4. CASE a.family = "v6"
  <2>1. a \in [family : {"v6"}, port : Word, addr : [1..V6Len -> Byte], scope : {0, 1}]
    BY <1>4 DEF Addresses
  <2>2. [i \in 1..V6Len |-> b[3 + i]] = a.addr
    BY <1>1, <1>4, <2>1
  <2>3. b[1] = AddrFamily.v6 /\ AddrFamily.v6 # AddrFamily.v4
    BY <1>1, <1>4 DEF AddrFamily
  <2>4. AddressFromBytes(b)
          = [type |-> "SocketAddress",
             address |-> [family |-> "v6", port |-> a.port, addr |-> a.addr, scope |-> 0]]
    BY <1>2, <2>2, <2>3 DEF AddressFromBytes
  <2>5. [a EXCEPT !.scope = 0]
          = [family |-> "v6", port |-> a.port, addr |-> a.addr, scope |-> 0]
    BY <2>1
  <2> QED
    BY <1>4, <2>4, <2>5 DEF Unscoped, b
<1> QED
  BY <1>3, <1>4 DEF Addresses

\* Every message is read back as it was written, up to the scope of an address.
LEMMA BodyRoundTrip ==
  ASSUME NEW m \in Messages
  PROVE  FromBytes(m.type, ToBytes(m)) = Unscoped(m)
<1>1. CASE m \in [type : {"CreateNewGameRequest"}]
  BY <1>1 DEF FromBytes, Unscoped
<1>2. CASE m \in [type : {"CreateNewGameResponse"}, alternative : {"GameId"}, value : Word]
  <2> DEFINE b == <<0>> \o IntToBytes(m.value)
  <2>1. ToBytes(m) = b /\ m.value \in Word
    BY <1>2 DEF ToBytes, ResponseToBytes, VariantIndex
  <2>2. 0 \in Byte
    BY BaseFacts DEF Byte
  <2>3. b[1] = 0 /\ \A i \in 1..2 : b[1 + i] = IntToBytes(m.value)[i]
    BY <2>1, <2>2, PairOfBytes, ByteInFront
  <2> HIDE DEF b
  <2>4. b[1 + 1] = m.value % Base /\ b[1 + 2] = m.value \div Base
    BY <2>1, <2>3, PairOfBytes
  <2>5. IntFromBytes(b[2], b[3]) = m.value
    BY <2>1, <2>4, Digits DEF IntFromBytes
  <2>6. FromBytes(m.type, b)
          = [type |-> "CreateNewGameResponse", alternative |-> "GameId", value |-> m.value]
    BY <1>2, <2>3, <2>5 DEF FromBytes, ResponseFromBytes, VariantIndex
  <2> QED
    BY <1>2, <2>1, <2>6 DEF Unscoped
<1>3. CASE m \in [type : {"CreateNewGameResponse"}, alternative : {"Error"},
                  value : {NoAvailableSpaceInGameDB}]
  <2> DEFINE b == <<1>> \o <<1, 0>>
  <2>1. ToBytes(m) = b
    BY <1>3 DEF ToBytes, ResponseToBytes, VariantIndex, NoAvailableSpaceInGameDB
  <2>2. b[1] = 1 /\ b[2] = 1
    OBVIOUS
  <2> HIDE DEF b
  <2>3. FromBytes(m.type, b)
          = [type |-> "CreateNewGameResponse", alternative |-> "Error", value |-> 1]
    BY <1>3, <2>2 DEF FromBytes, ResponseFromBytes, VariantIndex, NoAvailableSpaceInGameDB
  <2> QED
    BY <1>3, <2>1, <2>3 DEF Unscoped, NoAvailableSpaceInGameDB
<1>4. CASE m \in [type : {"JoinGameRequest"}, GameIdToJoin : Word]
  BY <1>4, PairOfBytes DEF ToBytes, FromBytes, Unscoped
<1>5. CASE m \in [type : {"JoinGameResponse"}, Result : ResultCodes]
  <2>1. ToBytes(m) = <<m.Result>> /\ m.type = "JoinGameResponse" /\ m.Result \in ResultCodes
    BY <1>5 DEF ToBytes
  <2>2. FromBytes(m.type, ToBytes(m)) = [type |-> "JoinGameResponse", Result |-> m.Result]
    BY <2>1 DEF FromBytes, JoinResponseFromBytes
  <2> QED
    BY <1>5, <2>2 DEF Unscoped
<1>6. CASE m \in [type : {"SocketAddress"}, address : Addresses]
  <2>1. /\ m.address \in Addresses
        /\ m = [type |-> "SocketAddress", address |-> m.address]
    BY <1>6
  <2>2. FromBytes(m.type, ToBytes(m)) = AddressFromBytes(AddressToBytes(m.address))
    BY <1>6 DEF FromBytes, ToBytes
  <2> QED
    BY <2>1, <2>2, AddressRoundTrip
<1> QED
  BY <1>1, <1>2, <1>3, <1>4, <1>5, <1>6 DEF Messages

\* The reader of the right type gets back what was written.
THEOREM RoundTrip ==
  ASSUME NEW m \in Messages
  PROVE  /\ Deserialize(m.type, Serialize(m)) = Unscoped(m)
         /\ Same(Deserialize(m.type, Serialize(m)), m)
<1>1. Deserialize(m.type, Serialize(m)) = FromBytes(m.type, ToBytes(m))
  BY FrameLayout DEF Deserialize
<1> QED
  BY <1>1, BodyRoundTrip, UnscopedIsSame

---------------------------------------------------------------------------
(* Reading what anybody wrote.                                             *)

Failures ==
  [error : {"UnknownMessageTypeError", "WrongMessageTypeError", "UnknownVariantIndex",
            "UnknownCreateNewGameError", "UnknownResultError", "UnknownAddressFamily"},
   value : Byte]

\* A message of the type, without a scope, that is not a failure.
IsArrival(type, r) == r \in Messages /\ r.type = type /\ Unscoped(r) = r /\ ~IsFailure(r)

\* The body of an address is read as an address without a scope, or refused
\* for its family.
LEMMA AddressArrives ==
  ASSUME NEW b \in Seq(Byte), Len(b) = 3 + V6Len
  PROVE  \/ IsArrival("SocketAddress", AddressFromBytes(b))
         \/ AddressFromBytes(b) \in Failures /\ IsFailure(AddressFromBytes(b))
<1>1. b[1] \in Byte /\ b[2] \in Byte /\ b[3] \in Byte /\ b[4] \in Byte /\ b[5] \in Byte
  BY BaseFacts
<1>2. \A i \in 1..V6Len : b[3 + i] \in Byte
  BY BaseFacts
<1> DEFINE port == IntFromBytes(b[2], b[3])
<1>3. port \in Word
  BY <1>1, Composed
<1> HIDE DEF port
<1>4. CASE b[1] = AddrFamily.v4
  <2> DEFINE a == [family |-> "v4", port |-> port, addr |-> IntFromBytes(b[4], b[5])]
             m == [type |-> "SocketAddress", address |-> a]
  <2>1. a \in Addresses /\ a.family = "v4"
    BY <1>1, <1>3, Composed DEF Addresses
  <2>2. AddressFromBytes(b) = m
    BY <1>4 DEF AddressFromBytes, AddrFamily, port
  <2> HIDE DEF a
  <2>3. m \in Messages /\ m.type = "SocketAddress" /\ ~IsFailure(m) /\ Unscoped(m) = m
    BY <2>1 DEF Messages, IsFailure, Unscoped
  <2> QED
    BY <2>2, <2>3 DEF IsArrival
<1>5. CASE b[1] = AddrFamily.v6
  <2> DEFINE addr == [i \in 1..V6Len |-> b[3 + i]]
             a == [family |-> "v6", port |-> port, addr |-> addr, scope |-> 0]
             m == [type |-> "SocketAddress", address |-> a]
  <2>1. addr \in [1..V6Len -> Byte]
    BY <1>2
  <2>2. AddressFromBytes(b) = m
    BY <1>5 DEF AddressFromBytes, AddrFamily, port
  <2> HIDE DEF addr
  <2>3. /\ a \in [family : {"v6"}, port : Word, addr : [1..V6Len -> Byte], scope : {0, 1}]
        /\ a.family = "v6" /\ [a EXCEPT !.scope = 0] = a
    BY <1>3, <2>1
  <2>4. a \in Addresses
    BY <2>3 DEF Addresses
  <2> HIDE DEF a
  <2>5. m \in Messages /\ m.type = "SocketAddress" /\ ~IsFailure(m)
    BY <2>4 DEF Messages, IsFailure
  <2>6. Unscoped(m) = m
    BY <2>3 DEF Unscoped
  <2> QED
    BY <2>2, <2>5, <2>6 DEF IsArrival
<1>6. CASE b[1] # AddrFamily.v4 /\ b[1] # AddrFamily.v6
  BY <1>1, <1>6 DEF AddressFromBytes, Failure, IsFailure, Failures
<1> QED
  BY <1>4, <1>5, <1>6

\* The body of any message is read as a message of its type, or refused.
LEMMA BodyArrives ==
  ASSUME NEW type \in Types, NEW b \in Seq(Byte), Len(b) = SerializedSize(type)
  PROVE  \/ IsArrival(type, FromBytes(type, b))
         \/ FromBytes(type, b) \in Failures /\ IsFailure(FromBytes(type, b))
<1> DEFINE r == FromBytes(type, b)
<1>1. CASE type = "CreateNewGameRequest"
  <2>1. r = [type |-> "CreateNewGameRequest"]
    BY <1>1 DEF FromBytes
  <2> QED
    BY <1>1, <2>1 DEF IsArrival, Messages, IsFailure, Unscoped
<1>2. CASE type = "CreateNewGameResponse"
  <2>1. b[1] \in Byte /\ b[2] \in Byte /\ b[3] \in Byte
    BY <1>2 DEF SerializedSize
  <2>2. r = ResponseFromBytes(b)
    BY <1>2 DEF FromBytes
  <2>3. CASE b[1] = VariantIndex.GameId
    <3> DEFINE x == IntFromBytes(b[2], b[3])
    <3>1. x \in Word
      BY <2>1, Composed
    <3>2. r = [type |-> "CreateNewGameResponse", alternative |-> "GameId", value |-> x]
      BY <2>2, <2>3 DEF ResponseFromBytes, VariantIndex
    <3> HIDE DEF x, r
    <3>3. r \in Messages
      BY <3>1, <3>2 DEF Messages
    <3> QED
      BY <1>2, <3>2, <3>3 DEF IsArrival, IsFailure, Unscoped, r
  <2>4. CASE b[1] = VariantIndex.Error /\ b[2] = NoAvailableSpaceInGameDB
    <3>1. r = [type |-> "CreateNewGameResponse", alternative |-> "Error",
               value |-> NoAvailableSpaceInGameDB]
      BY <2>2, <2>4 DEF ResponseFromBytes, VariantIndex
    <3> HIDE DEF r
    <3>2. r \in Messages
      BY <3>1 DEF Messages
    <3> QED
      BY <1>2, <3>1, <3>2 DEF IsArrival, IsFailure, Unscoped, r
  <2>5. CASE b[1] = VariantIndex.Error /\ b[2] # NoAvailableSpaceInGameDB
    BY <2>1, <2>2, <2>5 DEF ResponseFromBytes, VariantIndex, Failure, IsFailure, Failures
  <2>6. CASE b[1] # VariantIndex.GameId /\ b[1] # VariantIndex.Error
    BY <2>1, <2>2, <2>6 DEF ResponseFromBytes, Failure, IsFailure, Failures
  <2> QED
    BY <2>3, <2>4, <2>5, <2>6
<1>3. CASE type = "JoinGameRequest"
  <2>0. Len(b) = 2
    BY <1>3 DEF SerializedSize
  <2>1. b[1] \in Byte /\ b[2] \in Byte
    BY <2>0
  <2> DEFINE x == IntFromBytes(b[1], b[2])
  <2>2. x \in Word
    BY <2>1, Composed
  <2>3. r = [type |-> "JoinGameRequest", GameIdToJoin |-> x]
    BY <1>3 DEF FromBytes
  <2> HIDE DEF x, r
  <2>4. r \in Messages
    BY <2>2, <2>3 DEF Messages
  <2> QED
    BY <1>3, <2>3, <2>4 DEF IsArrival, IsFailure, Unscoped, r
<1>4. CASE type = "JoinGameResponse"
  <2>1. b[1] \in Byte
    BY <1>4 DEF SerializedSize
  <2>2. r = JoinResponseFromBytes(b)
    BY <1>4 DEF FromBytes
  <2>3. CASE b[1] \in ResultCodes
    <3>1. r = [type |-> "JoinGameResponse", Result |-> b[1]]
      BY <2>2, <2>3 DEF JoinResponseFromBytes
    <3> HIDE DEF r
    <3>2. r \in Messages
      BY <2>3, <3>1 DEF Messages
    <3> QED
      BY <1>4, <3>1, <3>2 DEF IsArrival, IsFailure, Unscoped, r
  <2>4. CASE b[1] \notin ResultCodes
    BY <2>1, <2>2, <2>4 DEF JoinResponseFromBytes, Failure, IsFailure, Failures
  <2> QED
    BY <2>3, <2>4
<1>5. CASE type = "SocketAddress"
  <2>1. r = AddressFromBytes(b) /\ Len(b) = 3 + V6Len
    BY <1>5 DEF FromBytes, SerializedSize
  <2> QED
    BY <1>5, <2>1, AddressArrives
<1> QED
  BY <1>1, <1>2, <1>3, <1>4, <1>5 DEF Types, MessageType

\* Whatever bytes arrive, a reader gets a message of the type it expects or
\* one of the failures: no content leads anywhere else.
THEOREM EveryFrameArrives ==
  ASSUME NEW expected \in Types, NEW buf \in Seq(Byte), Len(buf) = BufSize(expected)
  PROVE  LET r == Deserialize(expected, buf)
         IN  IsArrival(expected, r) \/ (r \in Failures /\ IsFailure(r))
<1>1. SerializedSize(expected) \in Nat
  BY BaseFacts DEF SerializedSize, Types, MessageType
<1>2. buf[1] \in Byte /\ Tail(buf) \in Seq(Byte) /\ Len(Tail(buf)) = SerializedSize(expected)
  BY <1>1 DEF BufSize
<1>3. CASE buf[1] = MessageType[expected]
  BY <1>2, <1>3, BodyArrives DEF Deserialize
<1>4. CASE buf[1] # MessageType[expected]
  BY <1>2, <1>4 DEF Deserialize, Failure, IsFailure, Failures
<1> QED
  BY <1>3, <1>4

\* What was accepted, from whatever bytes, is written again in one way only,
\* and read back as it was accepted.
THEOREM AcceptedReadsTheSame ==
  ASSUME NEW expected \in Types, NEW buf \in Seq(Byte), Len(buf) = BufSize(expected),
         ~IsFailure(Deserialize(expected, buf))
  PROVE  LET r == Deserialize(expected, buf)
         IN  /\ Len(Serialize(r)) = BufSize(expected)
             /\ Deserialize(expected, Serialize(r)) = r
<1> DEFINE r == Deserialize(expected, buf)
<1>1. r \in Messages /\ r.type = expected /\ Unscoped(r) = r
  BY EveryFrameArrives DEF IsArrival
<1> HIDE DEF r
<1>2. Len(Serialize(r)) = BufSize(expected) /\ Deserialize(expected, Serialize(r)) = r
  BY <1>1, FrameLayout, RoundTrip
<1> QED
  BY <1>2 DEF r

---------------------------------------------------------------------------
(* Frames on the stream.                                                   *)

Kinds == {"text", "v4::any", "v4::loopback", "v6::any", "v6::loopback"}
Origins == {Unnamed} \cup [kind : Kinds, port : Word]

\* A frame of either version: as long as its type says, and of that type or of
\* one this version does not know.
IsFrame(f) ==
  /\ f.msg \in Messages /\ f.bytes \in Seq(Byte)
  /\ Len(f.bytes) = BufSize(f.msg.type)
  /\ f.bytes[1] = MessageType[f.msg.type] \/ ~IsKnownMessageType(f.bytes[1])
  /\ f.native => f.bytes = Serialize(f.msg)
  /\ f.origin # Unnamed => f.bytes[3] * Base + f.bytes[4] = f.origin.port

Frames ==
  {f \in [msg : Messages, bytes : Seq(Byte), native : BOOLEAN, origin : Origins] : IsFrame(f)}

\* Stream s is the frames fs one after the other, the i-th ending at off[i].
IsAligned(fs, s, off) ==
  /\ off \in [0..Len(fs) -> Nat]
  /\ off[0] = 0 /\ off[Len(fs)] = Len(s)
  /\ \A i, j \in 0..Len(fs) : i =< j => off[i] =< off[j]
  /\ \A i \in 1..Len(fs) :
       /\ off[i] = off[i - 1] + Len(fs[i].bytes)
       /\ \A j \in 1..Len(fs[i].bytes) : s[off[i - 1] + j] = fs[i].bytes[j]

\* Every message has at least its type byte.
LEMMA SizeFacts ==
  ASSUME NEW type \in Types
  PROVE  BufSize(type) \in Nat /\ BufSize(type) >= 1
  BY BaseFacts DEF BufSize, SerializedSize, Types, MessageType

\* What is known of a frame.
LEMMA FrameFacts ==
  ASSUME NEW f \in Frames
  PROVE  /\ IsFrame(f) /\ f.bytes \in Seq(Byte) /\ f.msg.type \in Types
         /\ Len(f.bytes) \in Nat /\ Len(f.bytes) >= 1 /\ Len(f.bytes) = BufSize(f.msg.type)
<1>1. IsFrame(f)
  BY DEF Frames
<1>2. f.msg.type \in Types
  BY <1>1, BodyLayout DEF IsFrame
<1> QED
  BY <1>1, <1>2, SizeFacts DEF IsFrame

\* The first frame lies at the beginning of the stream.
LEMMA HeadAligned ==
  ASSUME NEW fs \in Seq(Frames), NEW s \in Seq(Byte), NEW off, IsAligned(fs, s, off), fs # <<>>
  PROVE  off[1] = Len(Head(fs).bytes)
         /\ \A j \in 1..Len(Head(fs).bytes) : s[j] = Head(fs).bytes[j]
<1>1. Len(fs) \in Nat /\ 1 \in 1..Len(fs) /\ fs[1] = Head(fs) /\ Head(fs) \in Frames
  OBVIOUS
<1>2. off[0] = 0 /\ off[1] = off[1 - 1] + Len(fs[1].bytes)
      /\ \A j \in 1..Len(fs[1].bytes) : s[off[1 - 1] + j] = fs[1].bytes[j]
  BY <1>1 DEF IsAligned
<1>3. Len(fs[1].bytes) \in Nat
  BY <1>1, FrameFacts
<1> QED
  BY <1>1, <1>2, <1>3

\* Writing a frame keeps the stream aligned.
LEMMA AppendAligned ==
  ASSUME NEW fs \in Seq(Frames), NEW s \in Seq(Byte), NEW off, IsAligned(fs, s, off),
         NEW f \in Frames
  PROVE  \E o : IsAligned(Append(fs, f), s \o f.bytes, o)
<1> DEFINE n == Len(fs)
           gs == Append(fs, f)
           t == s \o f.bytes
           o == [i \in 0..(n + 1) |-> IF i =< n THEN off[i] ELSE off[n] + Len(f.bytes)]
<1>1. n \in Nat /\ Len(gs) = n + 1 /\ gs[n + 1] = f /\ \A i \in 1..n : gs[i] = fs[i]
  OBVIOUS
<1>2. f.bytes \in Seq(Byte) /\ Len(f.bytes) \in Nat
  BY FrameFacts
<1>3. /\ Len(t) = Len(s) + Len(f.bytes) /\ Len(s) \in Nat
      /\ \A i \in 1..Len(s) : t[i] = s[i]
      /\ \A i \in 1..Len(f.bytes) : t[Len(s) + i] = f.bytes[i]
  BY <1>2, Concatenated
<1>4. /\ off \in [0..n -> Nat] /\ off[0] = 0 /\ off[n] = Len(s)
      /\ \A i, j \in 0..n : i =< j => off[i] =< off[j]
      /\ \A i \in 1..n : /\ off[i] = off[i - 1] + Len(fs[i].bytes)
                         /\ \A j \in 1..Len(fs[i].bytes) : s[off[i - 1] + j] = fs[i].bytes[j]
  BY DEF IsAligned
<1> HIDE DEF gs, t, n
<1>5. o \in [0..(n + 1) -> Nat] /\ o[0] = 0 /\ o[n + 1] = Len(t)
  BY <1>1, <1>2, <1>3, <1>4
<1>6. /\ \A i \in 0..n : o[i] = off[i]
      /\ o[n + 1] = off[n] + Len(f.bytes)
  BY <1>1
<1> HIDE DEF o
<1>7. ASSUME NEW i \in 1..(n + 1)
      PROVE  /\ o[i] = o[i - 1] + Len(gs[i].bytes)
             /\ \A j \in 1..Len(gs[i].bytes) : t[o[i - 1] + j] = gs[i].bytes[j]
  <2>1. CASE i = n + 1
    <3>1. gs[i] = f /\ o[i - 1] = Len(s) /\ i - 1 \in 0..n
      BY <1>1, <1>4, <1>6, <2>1
    <3> QED
      BY <1>1, <1>3, <1>4, <1>6, <2>1, <3>1
  <2>2. CASE i # n + 1
    <3>1. i \in 1..n /\ i - 1 \in 0..n /\ gs[i] = fs[i]
      BY <1>1, <2>2
    <3>2. fs[i] \in Frames /\ Len(fs[i].bytes) \in Nat
      BY <1>1, <3>1, FrameFacts DEF n
    <3>3. o[i] = off[i] /\ o[i - 1] = off[i - 1] /\ off[i - 1] \in Nat /\ off[i] \in Nat
      BY <1>4, <1>6, <3>1
    <3>4. off[i] =< Len(s)
      BY <1>1, <1>4, <3>1
    <3>5. ASSUME NEW j \in 1..Len(fs[i].bytes)
          PROVE  t[off[i - 1] + j] = fs[i].bytes[j]
      <4>1. off[i - 1] + j \in 1..Len(s)
        BY <1>3, <1>4, <3>1, <3>2, <3>3, <3>4, SMTT(30)
      <4> QED
        BY <1>3, <1>4, <3>1, <4>1
    <3> QED
      BY <1>4, <3>1, <3>3, <3>5
  <2> QED
    BY <2>1, <2>2
<1>8. ASSUME NEW i \in 0..(n + 1), NEW j \in 0..(n + 1), i =< j
      PROVE  o[i] =< o[j]
  <2>1. CASE j \in 0..n
    <3>1. i \in 0..n
      BY <1>1, <1>8, <2>1
    <3>2. o[i] = off[i] /\ o[j] = off[j]
      BY <1>6, <2>1, <3>1
    <3> QED
      BY <1>4, <1>8, <2>1, <3>1, <3>2
  <2>2. CASE j = n + 1 /\ i \in 0..n
    <3>1. o[i] =< off[n] /\ o[i] \in Nat /\ off[n] \in Nat
      BY <1>1, <1>4, <1>6, <2>2
    <3> QED
      BY <1>2, <1>6, <2>2, <3>1
  <2>3. CASE i = n + 1 /\ j = n + 1
    BY <1>1, <1>5, <2>3
  <2> QED
    BY <1>1, <1>8, <2>1, <2>2, <2>3
<1>9. IsAligned(gs, t, o)
  BY <1>1, <1>5, <1>7, <1>8 DEF IsAligned
<1> QED
  BY <1>9 DEF gs, t

\* Reading one whole frame keeps the stream aligned.
LEMMA TailAligned ==
  ASSUME NEW fs \in Seq(Frames), NEW s \in Seq(Byte), NEW off, IsAligned(fs, s, off), fs # <<>>
  PROVE  \E o : IsAligned(Tail(fs), SubSeq(s, Len(Head(fs).bytes) + 1, Len(s)), o)
<1> DEFINE n == Len(fs)
           k == Len(Head(fs).bytes)
           gs == Tail(fs)
           t == SubSeq(s, k + 1, Len(s))
           o == [i \in 0..(n - 1) |-> off[i + 1] - k]
<1>1. /\ n \in Nat /\ n >= 1 /\ Len(gs) = n - 1
      /\ \A i \in 1..(n - 1) : gs[i] = fs[i + 1] /\ fs[i + 1] \in Frames
  OBVIOUS
<1>2. k \in Nat /\ off[1] = k
  BY HeadAligned, FrameFacts
<1>3. /\ off \in [0..n -> Nat] /\ off[n] = Len(s)
      /\ \A i, j \in 0..n : i =< j => off[i] =< off[j]
      /\ \A i \in 1..n : /\ off[i] = off[i - 1] + Len(fs[i].bytes)
                         /\ \A j \in 1..Len(fs[i].bytes) : s[off[i - 1] + j] = fs[i].bytes[j]
  BY DEF IsAligned
<1>4. k =< Len(s) /\ Len(s) \in Nat
  BY <1>1, <1>2, <1>3
<1>5. Len(t) = Len(s) - k /\ \A i \in 1..(Len(s) - k) : t[i] = s[k + i]
  <2> HIDE DEF k
  <2>1. k + 1 \in Nat /\ 1 =< k + 1 /\ k + 1 =< Len(s) + 1
    BY <1>2, <1>4
  <2>2. /\ Len(t) = Len(s) - (k + 1) + 1
        /\ \A i \in 1..(Len(s) - (k + 1) + 1) : t[i] = s[(k + 1) + i - 1]
    BY <1>4, <2>1, Cut
  <2> HIDE DEF t
  <2>3. Len(t) = Len(s) - k
    BY <1>2, <1>4, <2>2
  <2>4. ASSUME NEW i \in 1..(Len(s) - k)
        PROVE  t[i] = s[k + i]
    <3>1. i \in 1..(Len(s) - (k + 1) + 1) /\ (k + 1) + i - 1 = k + i
      BY <1>2, <1>4
    <3> QED
      BY <2>2, <3>1
  <2> QED
    BY <2>3, <2>4
<1> HIDE DEF n, k, gs, t
<1>6. ASSUME NEW i \in 0..(n - 1)
      PROVE  i + 1 \in 0..n /\ k =< off[i + 1] /\ off[i + 1] \in Nat
  BY <1>1, <1>2, <1>3
<1>7. \A i \in 0..(n - 1) : o[i] = off[i + 1] - k
  OBVIOUS
<1>8. o \in [0..(n - 1) -> Nat]
  BY <1>2, <1>6
<1> HIDE DEF o
<1>9. o[0] = 0 /\ o[n - 1] = Len(t)
  <2>1. 0 \in 0..(n - 1) /\ n - 1 \in 0..(n - 1) /\ (n - 1) + 1 = n /\ 0 + 1 = 1
    BY <1>1
  <2>2. o[0] = off[1] - k /\ o[n - 1] = off[n] - k
    BY <1>7, <2>1
  <2> QED
    BY <1>2, <1>3, <1>5, <2>2
<1>10. \A i, j \in 0..(n - 1) : i =< j => o[i] =< o[j]
  BY <1>1, <1>2, <1>3, <1>6, <1>7, SMTT(30)
<1>11. ASSUME NEW i \in 1..(n - 1)
       PROVE  /\ o[i] = o[i - 1] + Len(gs[i].bytes)
              /\ \A j \in 1..Len(gs[i].bytes) : t[o[i - 1] + j] = gs[i].bytes[j]
  <2>1. /\ i + 1 \in 1..n /\ i \in 0..(n - 1) /\ i - 1 \in 0..(n - 1)
        /\ gs[i] = fs[i + 1] /\ (i + 1) - 1 = i /\ (i - 1) + 1 = i
    BY <1>1
  <2>2. o[i] = off[i + 1] - k /\ o[i - 1] = off[i] - k
    BY <1>7, <2>1
  <2>3. /\ off[i + 1] = off[i] + Len(fs[i + 1].bytes)
        /\ \A j \in 1..Len(fs[i + 1].bytes) : s[off[i] + j] = fs[i + 1].bytes[j]
    BY <1>3, <2>1
  <2>4. off[i] \in Nat /\ k =< off[i] /\ off[i + 1] =< Len(s) /\ Len(fs[i + 1].bytes) \in Nat
    <3>1. off[i] \in Nat /\ k =< off[i]
      BY <1>6, <2>1
    <3>2. off[i + 1] =< Len(s)
      BY <1>1, <1>3, <2>1
    <3>3. Len(fs[i + 1].bytes) \in Nat
      BY <1>1, FrameFacts
    <3> QED
      BY <3>1, <3>2, <3>3
  <2>5. ASSUME NEW j \in 1..Len(fs[i + 1].bytes)
        PROVE  t[o[i - 1] + j] = fs[i + 1].bytes[j]
    <3>0. off[i + 1] = off[i] + Len(fs[i + 1].bytes)
      BY <2>3
    <3>1. o[i - 1] + j \in 1..(Len(s) - k) /\ k + (o[i - 1] + j) = off[i] + j
      BY <1>2, <1>4, <2>2, <2>4, <3>0, SMTT(30)
    <3>2. t[o[i - 1] + j] = s[off[i] + j]
      BY <1>5, <3>1
    <3> QED
      BY <2>3, <3>2
  <2> QED
    BY <1>2, <2>1, <2>2, <2>3, <2>4, <2>5
<1>12. IsAligned(gs, t, o)
  BY <1>1, <1>8, <1>9, <1>10, <1>11 DEF IsAligned
<1> QED
  BY <1>12 DEF gs, t, k

---------------------------------------------------------------------------
(* What the program writes are frames.                                     *)

\* A message this version writes is a frame.
LEMMA NativeIsFrame ==
  ASSUME NEW m \in Messages
  PROVE  [msg |-> m, bytes |-> Serialize(m), native |-> TRUE, origin |-> Unnamed] \in Frames
  BY FrameLayout DEF Frames, IsFrame, Origins

\* So is one in which another version puts another byte.
LEMMA ForeignIsFrame ==
  ASSUME NEW m \in Messages, NEW position \in Nat \ {0}, NEW byte \in Byte,
         position =< Len(Serialize(m)), position = 1 => ~IsKnownMessageType(byte)
  PROVE  [msg |-> m, bytes |-> [Serialize(m) EXCEPT ![position] = byte],
          native |-> FALSE, origin |-> Unnamed] \in Frames
<1> DEFINE b == Serialize(m)
           c == [b EXCEPT ![position] = byte]
<1>1. b \in Seq(Byte) /\ Len(b) = BufSize(m.type) /\ b[1] = MessageType[m.type]
      /\ m.type \in Types
  BY FrameLayout
<1>2. position \in 1..Len(b) /\ 1 \in 1..Len(b)
  BY <1>1, SizeFacts
<1> HIDE DEF b
<1>3. c \in Seq(Byte) /\ Len(c) = Len(b) /\ c[1] = IF position = 1 THEN byte ELSE b[1]
  BY <1>1, <1>2
<1> HIDE DEF c
<1>4. [msg |-> m, bytes |-> c, native |-> FALSE, origin |-> Unnamed] \in Frames
  BY <1>1, <1>3 DEF Frames, IsFrame, Origins
<1> QED
  BY <1>4 DEF b, c

\* An address constructed from any name is an IPv4 or an IPv6 address.
LEMMA StorageTypes ==
  ASSUME NEW ip \in IpAddrs, ConstructIpAddrStorage(ip) # NoAddress
  PROVE  LET storage == ConstructIpAddrStorage(ip)
         IN  \/ storage.family = "v4" /\ storage.addr \in Word
             \/ storage.family = "v6" /\ storage.addr \in [1..V6Len -> Byte]
<1>1. 0 \in Word /\ INADDR_LOOPBACK \in Word /\ Base + 2 \in Word
  <2>1. Base * Base >= 6 * Base /\ (Base - 1) * Base = Base * Base - Base
    BY BaseFacts
  <2> QED
    BY <2>1, BaseFacts DEF Word, INADDR_LOOPBACK
<1>2. 0 \in Byte /\ 1 \in Byte /\ \A i \in Nat : i % Base \in Byte
  BY BaseFacts DEF Byte
<1>3. /\ Zeros(V6Len) \in [1..V6Len -> Byte]
      /\ [Zeros(V6Len) EXCEPT ![V6Len] = 1] \in [1..V6Len -> Byte]
      /\ [i \in 1..V6Len |-> i % Base] \in [1..V6Len -> Byte]
  <2>1. Zeros(V6Len) \in [1..V6Len -> Byte]
    BY <1>2 DEF Zeros
  <2>2. [i \in 1..V6Len |-> i % Base] \in [1..V6Len -> Byte]
    BY <1>2
  <2> QED
    BY <1>2, <2>1, <2>2
<1>4. HostToNetwork(INADDR_LOOPBACK) \in Word /\ HostToNetwork(Base + 2) \in Word
  BY <1>1, NetworkOrder
<1>5. CASE ip \in [kind : {"text"}, parsed : Texts]
  <2>1. ConstructIpAddrStorage(ip) = ip.parsed /\ ip.parsed \in Texts
    BY <1>5 DEF ConstructIpAddrStorage
  <2> QED
    BY <1>3, <1>4, <2>1 DEF Texts, V4, V6
<1>6. CASE ip \in [kind : {"v4::any", "v4::loopback", "v6::any", "v6::loopback"}]
  BY <1>1, <1>3, <1>6 DEF ConstructIpAddrStorage, V4, V6
<1> QED
  BY <1>5, <1>6 DEF IpAddrs

\* An endpoint of the program is announced in a frame that carries its port
\* in network order.
LEMMA AnnouncedIsFrame ==
  ASSUME NEW ip \in IpAddrs, NEW port \in Word, ConstructIpAddrStorage(ip) # NoAddress
  PROVE  LET m == [type |-> "SocketAddress",
                   address |-> ConstructSockAddr(ConstructIpAddrStorage(ip), port)]
         IN  [msg |-> m, bytes |-> Serialize(m), native |-> TRUE,
              origin |-> [kind |-> ip.kind, port |-> port]] \in Frames
<1> DEFINE storage == ConstructIpAddrStorage(ip)
           a == ConstructSockAddr(storage, port)
           m == [type |-> "SocketAddress", address |-> a]
           b == Serialize(m)
<1>1. a \in Addresses /\ a.port = HostToNetwork(port)
  BY StorageTypes, NetworkOrder DEF ConstructSockAddr, Addresses
<1> HIDE DEF storage, a
<1>2. m \in Messages /\ m.type = "SocketAddress" /\ m.address = a
  BY <1>1 DEF Messages
<1> HIDE DEF m
<1>3. b \in Seq(Byte) /\ Len(b) = BufSize(m.type) /\ b[1] = MessageType[m.type]
      /\ Tail(b) = AddressToBytes(a)
  BY <1>2, FrameLayout DEF ToBytes
<1>4. b[2] = AddressToBytes(a)[1] /\ b[3] = AddressToBytes(a)[2] /\ b[4] = AddressToBytes(a)[3]
  <2>1. Len(AddressToBytes(a)) = 3 + V6Len /\ AddressToBytes(a) \in Seq(Byte)
    BY <1>1, AddressLayout
  <2> DEFINE t == AddressToBytes(a)
  <2> HIDE DEF b
  <2>2. Len(t) \in Nat /\ Len(t) >= 3 /\ Len(b) >= 1 /\ Len(b) \in Nat
    BY <1>2, <1>3, <2>1, BaseFacts, SizeFacts, FrameLayout
  <2>3. \A i \in 1..Len(t) : t[i] = b[i + 1]
    BY <1>3, <2>2
  <2> HIDE DEF t
  <2>4. t[1] = b[1 + 1] /\ t[2] = b[2 + 1] /\ t[3] = b[3 + 1]
    BY <2>2, <2>3
  <2> QED
    BY <2>4 DEF t
<1>5. b[3] = port \div Base /\ b[4] = port % Base
  BY <1>1, <1>4, AddressLayout, NetworkOrder
<1>6. b[3] * Base + b[4] = port
  <2>1. b[3] * Base = Base * (port \div Base)
    BY <1>5, Digits, BaseFacts DEF Byte
  <2> QED
    BY <1>5, <2>1, Digits, BaseFacts DEF Byte
<1> HIDE DEF b
<1> DEFINE origin == [kind |-> ip.kind, port |-> port]
<1>7. ip.kind \in Kinds
  BY DEF IpAddrs, Kinds
<1>8. origin \in Origins /\ origin.port = port
  BY <1>7 DEF Origins
<1> HIDE DEF origin
<1>9. [msg |-> m, bytes |-> b, native |-> TRUE, origin |-> origin] \in Frames
  BY <1>2, <1>3, <1>6, <1>8 DEF Frames, IsFrame, b
<1> QED
  BY <1>9 DEF origin, b, m, a, storage

---------------------------------------------------------------------------
(* What a reader makes of the frame at the beginning of the stream.        *)

\* No two types have the same code.
LEMMA CodesDiffer ==
  ASSUME NEW s \in Types, NEW t \in Types, MessageType[s] = MessageType[t]
  PROVE  s = t
  BY DEF Types, MessageType

\* A reader delivers the frame at the beginning of the stream if it expected
\* its type, and refuses it for its type otherwise.
LEMMA FrameRead ==
  ASSUME NEW f \in Frames, NEW expected \in Types, NEW buf \in Seq(Byte),
         Len(buf) = BufSize(expected),
         \A j \in 1..Len(f.bytes) : j =< Len(buf) => buf[j] = f.bytes[j]
  PROVE  LET r == Deserialize(expected, buf)
         IN  /\ ~IsFailure(r) => expected = f.msg.type
             /\ ~IsFailure(r) /\ f.native => Same(r, f.msg)
             /\ IsFailure(r) /\ f.native => r.error = "WrongMessageTypeError"
                                           /\ expected # f.msg.type
<1> DEFINE r == Deserialize(expected, buf)
<1>1. /\ IsFrame(f) /\ f.bytes \in Seq(Byte) /\ f.msg.type \in Types /\ f.msg \in Messages
      /\ Len(f.bytes) = BufSize(f.msg.type) /\ Len(f.bytes) \in Nat /\ Len(f.bytes) >= 1
      /\ f.native => f.bytes = Serialize(f.msg)
  BY FrameFacts DEF IsFrame
<1>2. buf[1] = f.bytes[1] /\ buf[1] \in Byte
  BY <1>1, SizeFacts
<1>3. CASE buf[1] = MessageType[expected]
  <2>1. expected = f.msg.type
    BY <1>1, <1>2, <1>3, CodesDiffer DEF IsFrame, IsKnownMessageType
  <2>2. buf = f.bytes
    BY <1>1, <2>1, SeqEqual
  <2>3. f.native => ~IsFailure(r) /\ Same(r, f.msg)
    <3>1. SUFFICES ASSUME f.native PROVE ~IsFailure(r) /\ Same(r, f.msg)
      OBVIOUS
    <3>2. r = Unscoped(f.msg) /\ Same(r, f.msg)
      BY <1>1, <2>1, <2>2, <3>1, RoundTrip
    <3>3. ~IsFailure(Unscoped(f.msg))
      BY <1>1 DEF Unscoped, IsFailure, Messages
    <3> QED
      BY <3>2, <3>3
  <2> QED
    BY <2>1, <2>3
<1>4. CASE buf[1] # MessageType[expected]
  <2>1. IsFailure(r)
    BY <1>4 DEF Deserialize, Failure, IsFailure
  <2>2. f.native => buf[1] = MessageType[f.msg.type]
    BY <1>1, <1>2, FrameLayout
  <2>3. f.native => r.error = "WrongMessageTypeError" /\ expected # f.msg.type
    BY <1>1, <1>4, <2>2 DEF Deserialize, Failure, IsKnownMessageType
  <2> QED
    BY <2>1, <2>3
<1> QED
  BY <1>3, <1>4

---------------------------------------------------------------------------
(* The specification.                                                      *)

\* Until the reader fails, it has taken whole frames only and what is left is
\* whole frames.
InStep == ~Failed => inStep /\ \E off : IsAligned(frames, stream, off)

\* What was read last came from bytes of the length of what was expected, and
\* DeliversWhatWasSent and FailureIsReal hold of it.
LastRead ==
  Received =>
    /\ last.expected \in Types /\ last.frame \in Frames
    /\ \E buf \in Seq(Byte) : /\ Len(buf) = BufSize(last.expected)
                              /\ last.result = Deserialize(last.expected, buf)
    /\ DeliversWhatWasSent /\ FailureIsReal

StreamInv ==
  /\ stream \in Seq(Byte) /\ frames \in Seq(Frames)
  /\ inStep \in BOOLEAN /\ written \in 0..MaxFrames
  /\ InStep /\ LastRead

\* Every frame a step writes is one.
LEMMA Written ==
  ASSUME NEW m, NEW bytes, NEW native, NEW origin,
         [msg |-> m, bytes |-> bytes, native |-> native, origin |-> origin] \in Frames,
         StreamInv, WriteFrame(m, bytes, native, origin)
  PROVE  StreamInv'
<1> DEFINE f == [msg |-> m, bytes |-> bytes, native |-> native, origin |-> origin]
<1>1. f \in Frames /\ f.bytes = bytes /\ bytes \in Seq(Byte)
  BY FrameFacts
<1> HIDE DEF f
<1>2. stream' = stream \o f.bytes /\ frames' = Append(frames, f)
      /\ inStep' = inStep /\ last' = last
  BY <1>1 DEF WriteFrame, f
<1>3. stream' \in Seq(Byte) /\ frames' \in Seq(Frames)
  BY <1>1, <1>2, Concatenated DEF StreamInv
<1>4. written' \in 0..MaxFrames
  BY WireAssumption DEF WriteFrame, StreamInv
<1>5. (Failed' <=> Failed) /\ (Received' <=> Received)
  BY <1>2 DEF Failed, Received
<1>6. InStep'
  <2>1. SUFFICES ASSUME ~Failed
                 PROVE  inStep' /\ \E off : IsAligned(frames', stream', off)
    BY <1>5 DEF InStep
  <2>2. inStep /\ \E off : IsAligned(frames, stream, off)
    BY <2>1 DEF StreamInv, InStep
  <2>3. \E off : IsAligned(Append(frames, f), stream \o f.bytes, off)
    BY <1>1, <2>2, AppendAligned DEF StreamInv
  <2> QED
    BY <1>2, <2>2, <2>3
<1>7. LastRead'
  BY <1>2, <1>5 DEF StreamInv, LastRead, DeliversWhatWasSent, FailureIsReal, Received, Failed
<1> QED
  BY <1>2, <1>3, <1>4, <1>6, <1>7 DEF StreamInv

\* Every read preserves the invariant.
LEMMA Read ==
  ASSUME NEW expected \in Types, StreamInv, Receive(expected)
  PROVE  StreamInv'
<1> DEFINE f == Head(frames)
           buf == SubSeq(stream, 1, BufSize(expected))
           r == Deserialize(expected, buf)
<1>1. /\ stream \in Seq(Byte) /\ frames \in Seq(Frames) /\ Len(stream) \in Nat
      /\ ~Failed /\ inStep /\ Len(stream) >= BufSize(expected)
      /\ BufSize(expected) \in Nat /\ BufSize(expected) >= 1
  BY SizeFacts DEF StreamInv, InStep, Receive
<1>2. PICK off : IsAligned(frames, stream, off)
  BY <1>1 DEF StreamInv, InStep
<1>3. frames # <<>>
  BY <1>1, <1>2 DEF IsAligned
<1>4. f \in Frames /\ Len(f.bytes) \in Nat /\ Len(f.bytes) = BufSize(f.msg.type)
  BY <1>1, <1>3, FrameFacts
<1>5. \A j \in 1..Len(f.bytes) : stream[j] = f.bytes[j]
  BY <1>1, <1>2, <1>3, HeadAligned
<1>6. /\ buf \in Seq(Byte) /\ Len(buf) = BufSize(expected)
      /\ \A j \in 1..Len(buf) : buf[j] = stream[j]
  <2> DEFINE k == BufSize(expected)
  <2>1. k \in Nat /\ k =< Len(stream) /\ 1 =< k + 1
    BY <1>1
  <2> HIDE DEF k
  <2>2. /\ SubSeq(stream, 1, k) \in Seq(Byte) /\ Len(SubSeq(stream, 1, k)) = k - 1 + 1
        /\ \A j \in 1..(k - 1 + 1) : SubSeq(stream, 1, k)[j] = stream[1 + j - 1]
    BY <1>1, <2>1, Cut
  <2>3. k - 1 + 1 = k /\ \A j \in 1..k : 1 + j - 1 = j
    BY <2>1
  <2>4. Len(SubSeq(stream, 1, k)) = k /\ \A j \in 1..k : SubSeq(stream, 1, k)[j] = stream[j]
    BY <2>2, <2>3
  <2> QED
    BY <2>2, <2>4 DEF k
<1>7. /\ last' = [expected |-> expected, frame |-> f, result |-> r]
      /\ inStep' = (BufSize(expected) = Len(f.bytes))
      /\ frames' = IF inStep' THEN Tail(frames) ELSE frames
      /\ stream' = SubSeq(stream, BufSize(expected) + 1, Len(stream))
      /\ written' = written
  BY <1>1 DEF Receive
<1> HIDE DEF f, buf
<1>8. \A j \in 1..Len(f.bytes) : j =< Len(buf) => buf[j] = f.bytes[j]
  BY <1>1, <1>4, <1>5, <1>6
<1>9. /\ ~IsFailure(r) => expected = f.msg.type
      /\ ~IsFailure(r) /\ f.native => Same(r, f.msg)
      /\ IsFailure(r) /\ f.native => r.error = "WrongMessageTypeError" /\ expected # f.msg.type
  BY <1>4, <1>6, <1>8, FrameRead
<1> HIDE DEF r
<1>10. stream' \in Seq(Byte) /\ frames' \in Seq(Frames)
  <2>1. stream' \in Seq(Byte)
    BY <1>1, <1>7, Cut
  <2> QED
    BY <1>1, <1>3, <1>7, <2>1
<1>11. expected # "none" /\ Received' /\ (Failed' <=> IsFailure(r))
  BY <1>7 DEF Received, Failed, Types, MessageType
<1>12. InStep'
  <2>1. SUFFICES ASSUME ~IsFailure(r)
                 PROVE  inStep' /\ \E o : IsAligned(frames', stream', o)
    BY <1>11 DEF InStep
  <2>2. BufSize(expected) = Len(f.bytes)
    BY <1>4, <1>9, <2>1
  <2>3. inStep' /\ frames' = Tail(frames) /\ stream' = SubSeq(stream, Len(f.bytes) + 1, Len(stream))
    BY <1>7, <2>2
  <2>4. \E o : IsAligned(Tail(frames), SubSeq(stream, Len(f.bytes) + 1, Len(stream)), o)
    BY <1>1, <1>2, <1>3, TailAligned DEF f
  <2> QED
    BY <2>3, <2>4
<1>13. LastRead'
  <2>1. last'.expected = expected /\ last'.frame = f /\ last'.result = r
    BY <1>7
  <2>2. DeliversWhatWasSent' /\ FailureIsReal'
    BY <1>9, <1>11, <2>1 DEF DeliversWhatWasSent, FailureIsReal
  <2> QED
    BY <1>4, <1>6, <2>1, <2>2 DEF LastRead, r
<1> QED
  BY <1>7, <1>10, <1>12, <1>13 DEF StreamInv

\* What the writer chooses from are messages.
LEMMA SamplesAreMessages ==
  Samples \cup [type : {"SocketAddress"}, address : PeerAddresses] \subseteq Messages
<1>1. Base + 1 \in Word
  <2>1. Base * Base >= 6 * Base
    BY BaseFacts
  <2> QED
    BY <2>1, BaseFacts DEF Word
<1>2. [i \in 1..V6Len |-> (2 * i) % Base] \in [1..V6Len -> Byte]
  <2>1. \A i \in 1..V6Len : (2 * i) % Base \in Byte
    BY BaseFacts DEF Byte
  <2> QED
    BY <2>1
<1>3. PeerAddresses \subseteq Addresses
  BY <1>1, <1>2, NetworkOrder, WireAssumption DEF PeerAddresses, Addresses
<1>4. Samples \subseteq Messages
  BY WireAssumption DEF Samples, Messages
<1> QED
  BY <1>3, <1>4 DEF Messages

\* The invariant holds in every reachable state.
THEOREM StreamCorrect == Spec => []StreamInv
<1>1. Init => StreamInv
  <2> SUFFICES ASSUME Init PROVE StreamInv
    OBVIOUS
  <2>1. ~Received /\ inStep /\ frames = <<>> /\ stream = <<>> /\ written = 0
    BY DEF Init, Received, NoRead
  <2>2. IsAligned(<<>>, <<>>, [i \in 0..0 |-> 0])
    BY DEF IsAligned
  <2> QED
    BY <2>1, <2>2, WireAssumption DEF StreamInv, InStep, LastRead
<1>2. StreamInv /\ [Next]_vars => StreamInv'
  <2> SUFFICES ASSUME StreamInv, [Next]_vars
               PROVE  StreamInv'
    OBVIOUS
  <2> DEFINE Sent == Samples \cup [type : {"SocketAddress"}, address : PeerAddresses]
  <2>1. ASSUME NEW m \in Sent, SendMessage(m)
        PROVE  StreamInv'
    <3>1. m \in Messages
      BY SamplesAreMessages
    <3> QED
      BY <2>1, <3>1, NativeIsFrame, Written DEF SendMessage
  <2>2. ASSUME NEW m \in Sent, NEW position \in 1..3, NEW byte \in ForeignBytes,
               SendForeign(m, position, byte)
        PROVE  StreamInv'
    <3>1. m \in Messages /\ position \in Nat \ {0} /\ byte \in Byte
      BY SamplesAreMessages, WireAssumption
    <3>2. /\ position =< Len(Serialize(m)) /\ (position = 1 => ~IsKnownMessageType(byte))
          /\ WriteFrame(m, [Serialize(m) EXCEPT ![position] = byte], FALSE, Unnamed)
      BY <2>2 DEF SendForeign
    <3> QED
      BY <3>1, <3>2, ForeignIsFrame, Written
  <2>3. ASSUME NEW ip \in IpAddrs, NEW port \in Ports, Announce(ip, port)
        PROVE  StreamInv'
    <3> DEFINE m == [type |-> "SocketAddress",
                     address |-> ConstructSockAddr(ConstructIpAddrStorage(ip), port)]
    <3>1. port \in Word
      BY WireAssumption
    <3>2. /\ ConstructIpAddrStorage(ip) # NoAddress
          /\ WriteFrame(m, Serialize(m), TRUE, [kind |-> ip.kind, port |-> port])
      BY <2>3 DEF Announce
    <3>3. [msg |-> m, bytes |-> Serialize(m), native |-> TRUE,
           origin |-> [kind |-> ip.kind, port |-> port]] \in Frames
      BY <3>1, <3>2, AnnouncedIsFrame
    <3> HIDE DEF m
    <3> QED
      BY <3>2, <3>3, Written
  <2>4. CASE UNCHANGED vars
    BY <2>4 DEF vars, StreamInv, InStep, LastRead, Failed, Received,
                DeliversWhatWasSent, FailureIsReal
  <2> QED
    BY <2>1, <2>2, <2>3, <2>4, Read DEF Next
<1> QED
  BY <1>1, <1>2, PTL DEF Spec

\* Every reachable state has the types TypeOK gives: in particular, a read ends
\* with a message of the expected type or a failure, whatever arrives.
THEOREM TypeCorrect == Spec => []TypeOK
<1>1. StreamInv => TypeOK
  <2> SUFFICES ASSUME StreamInv PROVE TypeOK
    OBVIOUS
  <2>1. ASSUME NEW i \in 1..Len(frames)
        PROVE  frames[i].msg \in Messages
    BY DEF StreamInv, Frames
  <2>2. ASSUME Received
        PROVE  \/ last.result \in Messages /\ last.result.type = last.expected
               \/ last.result \in Failures
    BY <2>2, EveryFrameArrives DEF StreamInv, LastRead, IsArrival
  <2> QED
    BY <2>1, <2>2 DEF StreamInv, TypeOK, Failures
<1> QED
  BY <1>1, StreamCorrect, PTL

\* A reader that stops at its first failure has taken whole frames only,
\* whatever it expected when and whatever was written.
THEOREM FramingCorrect == Spec => []StaysFramed
<1>1. StreamInv => StaysFramed
  BY DEF StreamInv, InStep, StaysFramed
<1> QED
  BY <1>1, StreamCorrect, PTL

\* What is delivered is what was sent, to a reader who expected it.
THEOREM DeliveryCorrect == Spec => []DeliversWhatWasSent
<1>1. StreamInv => DeliversWhatWasSent
  BY DEF StreamInv, LastRead, DeliversWhatWasSent
<1> QED
  BY <1>1, StreamCorrect, PTL

\* Between ends of one version only a wrong expectation fails.
THEOREM FailureCorrect == Spec => []FailureIsReal
<1>1. StreamInv => FailureIsReal
  BY DEF StreamInv, LastRead, FailureIsReal, Failed, Received
<1> QED
  BY <1>1, StreamCorrect, PTL

\* What is accepted means one thing, whoever wrote it.
THEOREM CanonicalCorrect == Spec => []AcceptedIsCanonical
<1>1. StreamInv => AcceptedIsCanonical
  BY AcceptedReadsTheSame DEF StreamInv, LastRead, AcceptedIsCanonical
<1> QED
  BY <1>1, StreamCorrect, PTL

\* The port of an endpoint is announced in network order.
THEOREM PortsCorrect == Spec => []PortsInNetworkOrder
<1>1. StreamInv => PortsInNetworkOrder
  <2> SUFFICES ASSUME StreamInv, NEW i \in 1..Len(frames), frames[i].origin # Unnamed
               PROVE  frames[i].bytes[3] * Base + frames[i].bytes[4] = frames[i].origin.port
    BY DEF PortsInNetworkOrder
  <2>1. frames[i] \in Frames
    BY DEF StreamInv
  <2> QED
    BY <2>1 DEF Frames, IsFrame
<1> QED
  BY <1>1, StreamCorrect, PTL

=============================================================================
