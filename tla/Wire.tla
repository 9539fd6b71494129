-------------------------------- MODULE Wire --------------------------------
(***************************************************************************)
(* The binary protocol between a client and the central server (api/): how *)
(* each message is laid out, how it is read back, and what becomes of the  *)
(* byte stream when the two ends disagree on what comes next.              *)
(*                                                                         *)
(* The reader asks for exactly as many bytes as the message it expects has *)
(* (Buf<MT>, filled by RobustSyncRead) and gives up at its first failure,  *)
(* as every handler of the client does. The writer may be of another       *)
(* version of the program, whose frames hold codes this one has not.       *)
(***************************************************************************)
EXTENDS SockAddr

CONSTANTS GameIds, Ports,  \* words
          ForeignBytes,    \* bytes another version puts where this one has others
          MaxFrames        \* bound: frames written

ASSUME WireAssumption ==
  /\ GameIds \subseteq Word /\ Ports \subseteq Word
  /\ ForeignBytes \subseteq Byte /\ MaxFrames \in Nat

---------------------------------------------------------------------------
(* Messages and their codes.                                               *)

MessageType == [CreateNewGameRequest |-> 1, CreateNewGameResponse |-> 2,
                JoinGameRequest |-> 3, JoinGameResponse |-> 4, SocketAddress |-> 5]

Types == DOMAIN MessageType
IsKnownMessageType(code) == \E t \in Types : MessageType[t] = code

NoAvailableSpaceInGameDB == 1
ResultCodes == 0..2  \* Success, GameIdDoesNotExist, GameAlreadyHasTwoPlayers

VariantIndex == [GameId |-> 0, Error |-> 1]
AddrFamily == [v4 |-> 4, v6 |-> 6]

Addresses ==
  [family : {"v4"}, port : Word, addr : Word]
    \cup [family : {"v6"}, port : Word, addr : [1..V6Len -> Byte], scope : {0, 1}]

Messages ==
  [type : {"CreateNewGameRequest"}]
    \cup [type : {"CreateNewGameResponse"}, alternative : {"GameId"}, value : Word]
    \cup [type : {"CreateNewGameResponse"}, alternative : {"Error"},
          value : {NoAvailableSpaceInGameDB}]
    \cup [type : {"JoinGameRequest"}, GameIdToJoin : Word]
    \cup [type : {"JoinGameResponse"}, Result : ResultCodes]
    \cup [type : {"SocketAddress"}, address : Addresses]

---------------------------------------------------------------------------
(* Serialize.                                                              *)

\* kSerializedSize; the IPv6 address is the longer one.
SerializedSize(type) ==
  CASE type = "CreateNewGameRequest"  -> 0
    [] type = "CreateNewGameResponse" -> 3
    [] type = "JoinGameRequest"       -> 2
    [] type = "JoinGameResponse"      -> 1
    [] type = "SocketAddress"         -> 3 + V6Len

\* Mutant: the rest is filled with zeros from where the error was just put.
ResponseToBytesFilledLast(m) ==
  <<VariantIndex[m.alternative]>>
    \o IF m.alternative = "GameId" THEN IntToBytes(m.value) ELSE <<0, 0>>

ResponseToBytes(m) ==
  <<VariantIndex[m.alternative]>>
    \o IF m.alternative = "GameId" THEN IntToBytes(m.value) ELSE <<m.value, 0>>

\* Mutant: the port, already in network order, is converted once more.
AddressToBytesSwapped(a) ==
  <<AddrFamily[a.family]>> \o IntToBytes(HostToNetwork(a.port))
    \o IF a.family = "v4" THEN IntToBytes(a.addr) \o Zeros(V6Len - 2) ELSE a.addr

\* An IPv4 address is filled up with zeros.
AddressToBytes(a) ==
  <<AddrFamily[a.family]>> \o IntToBytes(a.port)
    \o IF a.family = "v4" THEN IntToBytes(a.addr) \o Zeros(V6Len - 2) ELSE a.addr

ToBytes(m) ==
  CASE m.type = "CreateNewGameRequest"  -> <<>>
    [] m.type = "CreateNewGameResponse" -> ResponseToBytes(m)
    [] m.type = "JoinGameRequest"       -> IntToBytes(m.GameIdToJoin)
    [] m.type = "JoinGameResponse"      -> <<m.Result>>
    [] m.type = "SocketAddress"         -> AddressToBytes(m.address)

Serialize(m) == <<MessageType[m.type]>> \o ToBytes(m)

---------------------------------------------------------------------------
(* Deserialize. A failure is a record with a field `error`.                *)

Failure(error, value) == [error |-> error, value |-> value]
IsFailure(result) == "error" \in DOMAIN result

ResponseFromBytes(b) ==
  CASE b[1] = VariantIndex.GameId ->
         [type |-> "CreateNewGameResponse", alternative |-> "GameId",
          value |-> IntFromBytes(b[2], b[3])]
    [] b[1] = VariantIndex.Error ->
         IF b[2] = NoAvailableSpaceInGameDB
         THEN [type |-> "CreateNewGameResponse", alternative |-> "Error", value |-> b[2]]
         ELSE Failure("UnknownCreateNewGameError", b[2])
    [] OTHER -> Failure("UnknownVariantIndex", b[1])

\* Mutant: the byte is cast to the enumeration without the switch.
JoinResponseFromBytesAny(b) == [type |-> "JoinGameResponse", Result |-> b[1]]

JoinResponseFromBytes(b) ==
  IF b[1] \in ResultCodes
  THEN [type |-> "JoinGameResponse", Result |-> b[1]]
  ELSE Failure("UnknownResultError", b[1])

\* The fields that are not on the wire, the scope among them, are left 0.
AddressFromBytes(b) ==
  LET port == IntFromBytes(b[2], b[3])
      Address(a) == [type |-> "SocketAddress", address |-> a]
  IN CASE b[1] = AddrFamily.v4 ->
            Address([family |-> "v4", port |-> port, addr |-> IntFromBytes(b[4], b[5])])
       [] b[1] = AddrFamily.v6 ->
            Address([family |-> "v6", port |-> port,
                     addr |-> [i \in 1..V6Len |-> b[3 + i]], scope |-> 0])
       [] OTHER -> Failure("UnknownAddressFamily", b[1])

FromBytes(type, b) ==
  CASE type = "CreateNewGameRequest"  -> [type |-> type]
    [] type = "CreateNewGameResponse" -> ResponseFromBytes(b)
    [] type = "JoinGameRequest"       -> [type |-> type, GameIdToJoin |-> IntFromBytes(b[1], b[2])]
    [] type = "JoinGameResponse"      -> JoinResponseFromBytes(b)
    [] type = "SocketAddress"         -> AddressFromBytes(b)

\* Mutant: the type byte is skipped, not compared.
DeserializeUnchecked(expected, buf) == FromBytes(expected, Tail(buf))

Deserialize(expected, buf) ==
  CASE buf[1] = MessageType[expected] -> FromBytes(expected, Tail(buf))
    [] buf[1] # MessageType[expected] /\ IsKnownMessageType(buf[1]) ->
         Failure("WrongMessageTypeError", buf[1])
    [] OTHER -> Failure("UnknownMessageTypeError", buf[1])

BufSize(type) == 1 + SerializedSize(type)

---------------------------------------------------------------------------
(* The stream.                                                             *)

VARIABLES
  stream,   \* bytes written and not yet read
  frames,   \* the frames they belong to, as they were written
  inStep,   \* every read so far took one whole frame
  last,     \* the last read: what was expected, the frame, what came out of it
  written   \* number of frames written

vars == <<stream, frames, inStep, last, written>>

NoRead == [expected |-> "none"]
Unnamed == [kind |-> "none"]

\* origin: the endpoint whose address the frame announces, if it is one.
WriteFrame(m, bytes, native, origin) ==
  /\ written < MaxFrames /\ written' = written + 1
  /\ stream' = stream \o bytes
  /\ frames' = Append(frames, [msg |-> m, bytes |-> bytes, native |-> native, origin |-> origin])
  /\ UNCHANGED <<inStep, last>>

SendMessage(m) == WriteFrame(m, Serialize(m), TRUE, Unnamed)

\* An endpoint of the program, announced as the SocketAddress it stands for.
Announce(ip, port) ==
  LET storage == ConstructIpAddrStorage(ip)
      m == [type |-> "SocketAddress", address |-> ConstructSockAddr(storage, port)]
  IN  /\ storage # NoAddress
      /\ WriteFrame(m, Serialize(m), TRUE, [kind |-> ip.kind, port |-> port])

\* Another version of the program: one byte of the frame is not what this one
\* writes there. The codes of the message types never change their meaning
\* (the warning in message.hpp), so a foreign type is an unknown one.
SendForeign(m, position, byte) ==
  LET bytes == Serialize(m)
  IN  /\ position =< Len(bytes) /\ bytes[position] # byte
      /\ position = 1 => ~IsKnownMessageType(byte)
      /\ WriteFrame(m, [bytes EXCEPT ![position] = byte], FALSE, Unnamed)

Failed == last.expected # "none" /\ IsFailure(last.result)

Receive(expected) ==
  /\ ~Failed
  /\ Len(stream) >= BufSize(expected)
  /\ LET buf == SubSeq(stream, 1, BufSize(expected))
     IN  last' = [expected |-> expected, frame |-> Head(frames),
                  result |-> Deserialize(expected, buf)]
  /\ stream' = SubSeq(stream, BufSize(expected) + 1, Len(stream))
  /\ inStep' = (inStep /\ BufSize(expected) = Len(Head(frames).bytes))
  /\ frames' = IF inStep' THEN Tail(frames) ELSE frames
  /\ UNCHANGED written

\* What the writer chooses from.
Samples ==
  [type : {"CreateNewGameRequest"}]
    \cup [type : {"CreateNewGameResponse"}, alternative : {"GameId"}, value : GameIds]
    \cup [type : {"CreateNewGameResponse"}, alternative : {"Error"},
          value : {NoAvailableSpaceInGameDB}]
    \cup [type : {"JoinGameRequest"}, GameIdToJoin : GameIds]
    \cup [type : {"JoinGameResponse"}, Result : ResultCodes]

\* Addresses accept4() may have reported of a peer.
PeerAddresses ==
  [family : {"v4"}, port : Ports, addr : {HostToNetwork(Base + 1)}]
    \cup [family : {"v6"}, port : Ports, addr : {[i \in 1..V6Len |-> (2 * i) % Base]}, scope : {0, 1}]

Init ==
  /\ stream = <<>> /\ frames = <<>> /\ inStep = TRUE
  /\ last = NoRead /\ written = 0

Next ==
  \/ \E m \in Samples \cup [type : {"SocketAddress"}, address : PeerAddresses] :
       SendMessage(m) \/ \E position \in 1..3, byte \in ForeignBytes : SendForeign(m, position, byte)
  \/ \E ip \in IpAddrs, port \in Ports : Announce(ip, port)
  \/ \E expected \in Types : Receive(expected)

Spec == Init /\ [][Next]_vars

---------------------------------------------------------------------------
(* Properties.                                                             *)

Received == last.expected # "none"

\* Two messages are the same message: addresses as operator== compares them.
Same(m, n) ==
  IF m.type = "SocketAddress" /\ n.type = "SocketAddress"
  THEN SameSockAddr(m.address, n.address)
  ELSE m = n

\* Every variable has its type; in particular whatever bytes arrive, a read
\* yields a message of the expected type or one of the failures.
TypeOK ==
  /\ stream \in Seq(Byte)
  /\ \A i \in 1..Len(frames) : frames[i].msg \in Messages
  /\ inStep \in BOOLEAN
  /\ Received =>
       \/ last.result \in Messages /\ last.result.type = last.expected
       \/ last.result \in [error : {"UnknownMessageTypeError", "WrongMessageTypeError",
                                    "UnknownVariantIndex", "UnknownCreateNewGameError",
                                    "UnknownResultError", "UnknownAddressFamily"},
                           value : Byte]
  /\ written \in 0..MaxFrames

\* A reader that stops at its first failure never loses the frame boundary:
\* bytes of one message are never taken for part of another, whichever
\* message it expects at whichever moment.
StaysFramed == inStep \/ Failed

\* What is delivered is what was sent, and only to a reader who expected it.
DeliversWhatWasSent ==
  Received /\ ~IsFailure(last.result) /\ last.frame.native
    => last.expected = last.frame.msg.type /\ Same(last.result, last.frame.msg)

\* Between ends of the same version only a wrong expectation fails.
FailureIsReal ==
  Failed /\ last.frame.native => last.result.error = "WrongMessageTypeError"
                                 /\ last.expected # last.frame.msg.type

\* What is accepted of another version's frame is unambiguous: written again
\* it differs at most in the bytes that mean nothing, and reads the same.
AcceptedIsCanonical ==
  Received /\ ~IsFailure(last.result) =>
    LET again == Serialize(last.result)
    IN  /\ Len(again) = BufSize(last.expected)
        /\ Deserialize(last.expected, again) = last.result

\* The port of an endpoint is on the wire in network order, whatever the kind
\* of address: the two ends need not agree on an order of their own.
PortsInNetworkOrder ==
  \A i \in 1..Len(frames) :
    LET f == frames[i]
    IN  f.origin # Unnamed => f.bytes[3] * Base + f.bytes[4] = f.origin.port

\* serialization_ut.cpp takes htonl(INADDR_LOOPBACK) for the IPv4 loopback
\* address; so is the address the program constructs for v4::loopback.
LoopbackInNetworkOrder ==
  \A i \in 1..Len(frames) :
    frames[i].origin.kind = "v4::loopback"
      => frames[i].msg.address.addr = HostToNetwork(INADDR_LOOPBACK)

=============================================================================
