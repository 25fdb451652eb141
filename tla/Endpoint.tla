------------------------------ MODULE Endpoint ------------------------------
(***************************************************************************)
(* Address and Endpoint: from text to the sockaddr the system calls take,  *)
(* and from the sockaddr of an accepted peer back.                         *)
(*                                                                         *)
(* An Endpoint keeps its address twice: as an Address with a port in host  *)
(* order, and as a sockaddr (sa) with the port in network order.  Garbage  *)
(* stands for memory nobody has set, or which a copy that is too long has  *)
(* written over.                                                           *)
(***************************************************************************)
EXTENDS Naturals

CONSTANTS
  Hosts,        \* addresses
  Ports,        \* ports, in host order
  Garbage       \* an address that was never set, or was overwritten

\* The largest value of port_, which has 16 bits.
MaxPort == 65535

ASSUME EndpointAssumption == Ports \subseteq 0 .. MaxPort /\ Garbage \notin Hosts

\* What make_address sees of a text: the separators it contains and the family
\* as which inet_pton takes it ("" for none).
Texts ==
  [dot : BOOLEAN, colon : BOOLEAN, is : {"Ipv4", "Ipv6", ""}, host : Hosts]

\* htons on a little-endian machine: the bytes of the port change places.
HToNS(p) == (p % 256) * 256 + p \div 256

-----------------------------------------------------------------------------
(* Address                                                                 *)

NoAddress == [type |-> "None", addr |-> Garbage]

\* make_address: the separators alone decide on the type, the dot first.
MakeAddress(text) ==
  LET type == IF text.dot THEN "Ipv4" ELSE IF text.colon THEN "Ipv6" ELSE "None"
  IN  [type |-> type,
       addr |-> IF type # "None" /\ text.is = type THEN text.host ELSE Garbage]

\* make_address sets its ErrorCode to InvalidArgument.
BadText(text) == MakeAddress(text).addr = Garbage

\* copy_addr into the sockaddr of the Endpoint around the address: what becomes
\* of the sockaddr, and of the address itself.  For Ipv4 the bytes too many that
\* it copies mean nothing.  For Ipv6 it copies sizeof(sockaddr_in6) bytes out of
\* the 16 of addr6_: type_ comes into the scope, and what follows overwrites the
\* beginning of the address, which lies behind the sockaddr.  Source and
\* destination overlap, so that the address in the sockaddr may be spoilt too.
CopyAddr(address) ==
  IF address.type = "Ipv4"
  THEN {[addr |-> address.addr, scope |-> 0, source |-> address.addr]}
  ELSE {[addr |-> a, scope |-> 2, source |-> Garbage] : a \in {address.addr, Garbage}}

\* set_ipv4_address, set_ipv6_address
SetAddress(family, addr) == [type |-> family, addr |-> addr]

-----------------------------------------------------------------------------
(* Endpoint                                                                *)

NoSockaddr == [family |-> "unset", port |-> 0, addr |-> Garbage, scope |-> 0]

\* The default constructor: port_(-1).
NoEndpoint == [sa |-> NoSockaddr, address |-> NoAddress, port |-> MaxPort]

\* Mutant of ConvertToSockaddr: the port stays in host order.
BugConvertKeepsOrder(e) ==
  IF e.address.type # "Ipv4" THEN {e}
  ELSE {[e EXCEPT !.sa = [family |-> "Ipv4", port |-> e.port,
                          addr |-> e.address.addr, scope |-> 0]]}

\* convert_to_sockaddr_in: the endpoints it may leave.
ConvertToSockaddr(e) ==
  IF e.address.type = "None" THEN {e}
  ELSE {[e EXCEPT !.sa = [family |-> e.address.type, port |-> HToNS(e.port),
                          addr |-> c.addr, scope |-> c.scope],
                  !.address.addr = c.source] : c \in CopyAddr(e.address)}

\* make_endpoint, whatever make_address has reported.
MakeEndpoint(text, port) ==
  ConvertToSockaddr([NoEndpoint EXCEPT !.address = MakeAddress(text), !.port = port])

\* to_sockaddr_in returns nullptr.
IsNull(e) == e.address.type = "None"

\* from_sockaddr: port_ takes the port in network order, and the sockaddr of
\* the endpoint stays what it was.
FromSockaddr(e, sa) ==
  IF sa.family \notin {"Ipv4", "Ipv6"} THEN e
  ELSE [e EXCEPT !.address = SetAddress(sa.family, sa.addr),
                 !.port = sa.port]

\* What to_string shows.
Shown(e) == [host |-> e.address.addr, port |-> e.port]

\* The sockaddr of an Ipv4 peer as the kernel fills it in.
PeerSockaddr(host, port) ==
  [family |-> "Ipv4", port |-> HToNS(port), addr |-> host, scope |-> 0]

=============================================================================
