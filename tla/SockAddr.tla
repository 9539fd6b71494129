------------------------------ MODULE SockAddr ------------------------------
(***************************************************************************)
(* networking/ip_addr and networking/sock_addr: from an address as the     *)
(* program names it to the address the kernel is given. s_addr and         *)
(* sin_port hold bytes in network order; an IPv6 address is its bytes.     *)
(***************************************************************************)
EXTENDS Bytes

CONSTANT V6Len  \* bytes of an IPv6 address, 16 in the program

ASSUME V6LenAssumption == V6Len \in Nat /\ V6Len > 2

\* 127.0.0.1 in host order: the largest network number, then 1.
INADDR_LOOPBACK == (Base - 1) * Base + 1

Zeros(n) == [i \in 1..n |-> 0]

V4(addr) == [family |-> "v4", addr |-> addr]
V6(addr) == [family |-> "v6", addr |-> addr]
NoAddress == [family |-> "none"]

\* What inet_aton() and inet_pton() make of a text: an address, already in
\* network order, or nothing.
Texts == {V4(HostToNetwork(INADDR_LOOPBACK)), V4(HostToNetwork(Base + 2)),
          V6([i \in 1..V6Len |-> i % Base]), NoAddress}

IpAddrs ==
  [kind : {"text"}, parsed : Texts]
    \cup [kind : {"v4::any", "v4::loopback", "v6::any", "v6::loopback"}]

ConstructIpAddrStorage(ip) ==
  CASE ip.kind = "text"         -> ip.parsed
    [] ip.kind = "v4::any"      -> V4(0)
    [] ip.kind = "v4::loopback" -> V4(INADDR_LOOPBACK)
    [] ip.kind = "v6::any"      -> V6(Zeros(V6Len))
    [] ip.kind = "v6::loopback" -> V6([Zeros(V6Len) EXCEPT ![V6Len] = 1])

\* Mutant: the port is not converted for an IPv6 address.
ConstructSockAddrHostPort(storage, port) ==
  IF storage.family = "v4"
  THEN [family |-> "v4", port |-> HostToNetwork(port), addr |-> storage.addr]
  ELSE [family |-> "v6", port |-> port, addr |-> storage.addr, scope |-> 0]

\* The scope of an IPv6 address is left 0.
ConstructSockAddr(storage, port) ==
  IF storage.family = "v4"
  THEN [family |-> "v4", port |-> HostToNetwork(port), addr |-> storage.addr]
  ELSE [family |-> "v6", port |-> HostToNetwork(port), addr |-> storage.addr, scope |-> 0]

\* operator== on socket addresses: the scope is not compared.
SameSockAddr(a, b) == a.family = b.family /\ a.port = b.port /\ a.addr = b.addr

=============================================================================
