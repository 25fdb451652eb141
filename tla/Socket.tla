------------------------------- MODULE Socket -------------------------------
(***************************************************************************)
(* TcpSocket and Acceptor over the descriptors of the kernel and over the  *)
(* blocking calls.  An object is a descriptor and flags that say how far   *)
(* it has come; every operation looks at the flags, makes one call and     *)
(* sets them.  connect, accept, read, read_until and write give the worker *)
(* up in between when a coroutine makes them: other coroutines then use    *)
(* the same objects, and descriptors are closed and given out again.       *)
(*                                                                         *)
(* A caller is a coroutine ("coro") or a thread that is no worker          *)
(* ("thread"), for which the smart_* functions are the system calls.       *)
(***************************************************************************)
EXTENDS Endpoint

CONSTANTS
  Sockets,      \* TcpSocket objects
  Acceptors,    \* the Acceptors among them
  Fds,          \* descriptors
  NoFd,         \* -1
  NoSocket,     \* no object
  Callers,      \* who calls: "coro", "thread"
  Errnos,       \* errors the system calls report
  Transfers,    \* "read", "read_until", "write"
  Inputs,       \* texts the program makes its endpoint of
  MaxEffects,   \* bound: operations that have an effect
  MoveTargets   \* objects that come to life in a move constructor

ASSUME SocketAssumption ==
  /\ Acceptors \subseteq Sockets /\ NoSocket \notin Sockets
  /\ NoFd \notin Fds
  /\ Callers \subseteq {"coro", "thread"}
  /\ Transfers \subseteq {"read", "read_until", "write"}
  /\ Inputs \subseteq Texts

VARIABLES
  life,         \* of each object: "unborn", "alive" or "dead"
  sock,         \* socket_, opened_, bound_, connected_ and listening_
  file,         \* what the kernel has behind each descriptor
  call,         \* the call that is suspended in each object, one at a time
  ep,           \* an Endpoint of the program
  named,        \* history: the address ep was made for
  last,         \* how the last operation ended: "ok", "reported" through its
                \* ErrorCode, or "silent", with ErrorCode Success
  stuck,        \* the system call of a callback blocks the epoller
  shared,       \* history: a descriptor was closed, or its object moved, under a
                \* suspended call
  stale,        \* history: Acceptors that lost their descriptor with listening_ set
  effects       \* operations so far that had an effect

objects == <<life, sock, stale>>
endpoint == <<ep, named>>
vars == <<objects, file, call, endpoint, last, stuck, shared, effects>>

NoFile == [open |-> FALSE, nonblock |-> FALSE, bound |-> FALSE, listening |-> FALSE,
           conn |-> "no"]

NoCall == [op |-> "none", state |-> "none", fd |-> NoFd, peer |-> NoSocket, got |-> NoFd]

\* Mutant of Closed: socket_ is not initialised.
BugClosedUninitialised ==
  [fd |-> Garbage, opened |-> FALSE, bound |-> FALSE, connected |-> FALSE,
   listening |-> FALSE]

\* TcpSocket::TcpSocket, Acceptor::Acceptor
Closed == [fd |-> NoFd, opened |-> FALSE, bound |-> FALSE, connected |-> FALSE,
           listening |-> FALSE]

Init ==
  /\ life = [s \in Sockets |-> IF s \in MoveTargets THEN "unborn" ELSE "alive"]
  /\ sock = [s \in Sockets |-> Closed]
  /\ file = [f \in Fds |-> NoFile]
  /\ call = [s \in Sockets |-> NoCall]
  /\ \/ ep = NoEndpoint /\ named = [from |-> "nothing", host |-> Garbage, port |-> 0]
     \/ \E text \in Inputs, port \in Ports :
          /\ ep \in MakeEndpoint(text, port)
          /\ named = [from |-> IF BadText(text) THEN "nothing" ELSE "text",
                      host |-> text.host, port |-> port]
  /\ last = "ok"
  /\ stuck = FALSE
  /\ shared = FALSE
  /\ stale = {}
  /\ effects = 0

Alive(s) == life[s] = "alive"
Suspended(s) == call[s].state # "none"
FreeFds == {f \in Fds : ~file[f].open}

\* Nobody is in the middle of an operation on the object.
Idle(s) == ~Suspended(s) /\ \A t \in Sockets : call[t].peer # s

Succeed == last' = "ok"
Refuse == last' = "reported"  \* InvalidArgument

\* The errno of a failed call becomes an ErrorCode, or is only logged.
OpenCode(e) ==
  CASE e \in {"EMFILE", "ENFILE"} -> "InsufficientResources"
    [] e \in {"ENOBUFS", "ENOMEM"} -> "OutOfMemory"
    [] OTHER -> "Success"

BindCode(e) ==
  CASE e = "EACCES" -> "PermissionDenied"
    [] e = "EADDRINUSE" -> "AddressInUse"
    [] OTHER -> "Success"

ConnectCode(e) ==
  CASE e \in {"EACCES", "EPERM"} -> "PermissionDenied"
    [] e = "EADDRINUSE" -> "AddressInUse"
    [] OTHER -> "Success"

ListenCode(e) == IF e = "EADDRINUSE" THEN "AddressInUse" ELSE "Success"

AcceptCode(e) ==
  CASE e = "ECONNABORTED" -> "ConnectionAborted"
    [] e \in {"EMFILE", "ENFILE"} -> "InsufficientResources"
    [] e = "EINVAL" -> "InvalidArgument"
    [] e \in {"ENOBUFS", "ENOMEM"} -> "OutOfMemory"
    [] e = "EPERM" -> "PermissionDenied"
    [] OTHER -> "Success"

\* TcpSocket::read and write only log their errors; read_until reports that the
\* buffer is full, and not that read(2) has failed.
TransferCodes(op) ==
  IF op = "read_until" THEN {"Success", "ExceedBufferBound"} ELSE {"Success"}

FailWith(code) == last' = IF code = "Success" THEN "silent" ELSE "reported"
Fail(code(_)) == \E e \in Errnos : FailWith(code(e))

-----------------------------------------------------------------------------
(* Descriptors                                                             *)

\* close(2) of the descriptors F: epoll forgets whoever waits for one of them
\* there, and a thread inside a system call is not followed any further.
FilesWithout(F) == [f \in Fds |-> IF f \in F THEN NoFile ELSE file[f]]

CallsWithout(F) ==
  [s \in Sockets |-> IF call[s].fd \in F /\ call[s].state \in {"waiting", "blocking"}
                     THEN [call[s] EXCEPT !.state = "lost"] ELSE call[s]]

CloseFds(F) ==
  /\ file' = FilesWithout(F)
  /\ call' = CallsWithout(F)
  /\ shared' = (shared \/ \E s \in Sockets : Suspended(s) /\ call[s].fd \in F)

Held(s) == {sock[s].fd} \cap Fds

Listening(s) == {a \in {s} : sock[a].listening}

\* What smart_socket may return: a descriptor that a coroutine opens is made
\* non-blocking, unless fcntl fails, which is only logged.
SmartSockets(who) ==
  {[NoFile EXCEPT !.open = TRUE, !.nonblock = b] : b \in {FALSE, who = "coro"}}

\* accept(2): the new descriptor does not inherit O_NONBLOCK.
Accepted == [NoFile EXCEPT !.open = TRUE, !.bound = TRUE, !.conn = "yes"]

-----------------------------------------------------------------------------
(* The life of an object                                                   *)

\* An Acceptor is made of an Acceptor; a TcpSocket takes what an Acceptor has of one.
CanMove(s, t) == Alive(s) /\ life[t] = "unborn" /\ (t \in Acceptors => s \in Acceptors)

MovedFlags(s, t) ==
  [sock[s] EXCEPT !.listening = (t \in Acceptors /\ sock[s].listening)]

\* Mutant of MoveConstruct: the source keeps its descriptor.
BugMoveCopies(s, t) ==
  /\ CanMove(s, t)
  /\ life' = [life EXCEPT ![t] = "alive"]
  /\ sock' = [sock EXCEPT ![t] = MovedFlags(s, t)]
  /\ stale' = stale \cup {u \in {t} \cap Acceptors : s \in stale}
  /\ shared' = (shared \/ Suspended(s))
  /\ Succeed
  /\ UNCHANGED <<file, call, endpoint, stuck>>

\* TcpSocket::TcpSocket(TcpSocket &&), and the move constructor the compiler
\* makes for Acceptor, which copies listening_ and leaves it set in the source.
\* A call that is suspended in the source stays with it.
MoveConstruct(s, t) ==
  /\ CanMove(s, t)
  /\ life' = [life EXCEPT ![t] = "alive"]
  /\ sock' = [sock EXCEPT ![t] = MovedFlags(s, t),
                          ![s] = [Closed EXCEPT !.listening = sock[s].listening]]
  /\ stale' = stale \cup Listening(s) \cup {u \in {t} \cap Acceptors : s \in stale}
  /\ shared' = (shared \/ Suspended(s))
  /\ Succeed
  /\ UNCHANGED <<file, call, endpoint, stuck>>

\* TcpSocket::~TcpSocket, when nobody is in an operation on it.
Destroy(s) ==
  /\ Alive(s) /\ Idle(s)
  /\ life' = [life EXCEPT ![s] = "dead"]
  /\ CloseFds(Held(s))
  /\ sock' = [sock EXCEPT ![s] = Closed]
  /\ Succeed
  /\ UNCHANGED <<stale, endpoint, stuck>>

-----------------------------------------------------------------------------
(* Operations that do not suspend                                          *)

\* TcpSocket::open
Open(s, who) ==
  /\ Alive(s)
  /\ \/ /\ sock[s].opened
        /\ Refuse
        /\ UNCHANGED <<sock, file>>
     \/ /\ ~sock[s].opened
        /\ Fail(OpenCode)
        /\ sock' = [sock EXCEPT ![s].fd = NoFd]
        /\ file' = file
     \/ /\ ~sock[s].opened
        /\ \E f \in FreeFds, new \in SmartSockets(who) :
             /\ file' = [file EXCEPT ![f] = new]
             /\ sock' = [sock EXCEPT ![s].fd = f, ![s].opened = TRUE]
        /\ Succeed
  /\ UNCHANGED <<life, stale, call, endpoint, stuck, shared>>

\* TcpSocket::bind; bind(2) takes an Ipv4 sockaddr.
Bind(s) ==
  /\ Alive(s)
  /\ \/ /\ ~sock[s].opened \/ sock[s].bound \/ IsNull(ep)
        /\ Refuse
        /\ UNCHANGED <<sock, file>>
     \/ /\ sock[s].opened /\ ~sock[s].bound /\ ~IsNull(ep)
        /\ \/ Fail(BindCode) /\ UNCHANGED <<sock, file>>
           \/ /\ ep.sa.family = "Ipv4"
              /\ sock' = [sock EXCEPT ![s].bound = TRUE]
              /\ file' = [file EXCEPT ![sock[s].fd].bound = TRUE]
              /\ Succeed
  /\ UNCHANGED <<life, stale, call, endpoint, stuck, shared>>

\* Mutant of Close: the flags of the closed socket stay.
BugCloseKeepsFlags(s) ==
  /\ Alive(s)
  /\ sock[s].opened
  /\ CloseFds(Held(s))
  /\ sock' = [sock EXCEPT ![s] = [@ EXCEPT !.fd = NoFd, !.opened = FALSE]]
  /\ Succeed
  /\ UNCHANGED <<life, stale, endpoint, stuck>>

\* TcpSocket::close; listening_ is not a member of TcpSocket and stays.
Close(s) ==
  /\ Alive(s)
  /\ \/ /\ ~sock[s].opened
        /\ Refuse
        /\ UNCHANGED <<sock, stale, file, call, shared>>
     \/ /\ sock[s].opened
        /\ CloseFds(Held(s))
        /\ sock' = [sock EXCEPT ![s] = [Closed EXCEPT !.listening = sock[s].listening]]
        /\ stale' = stale \cup Listening(s)
        /\ Succeed
  /\ UNCHANGED <<life, endpoint, stuck>>

\* Acceptor::listen; listen(2) refuses a socket that connects or is connected.
Listen(a) ==
  /\ Alive(a)
  /\ \/ /\ ~sock[a].opened \/ sock[a].listening
        /\ Refuse
        /\ UNCHANGED <<sock, file>>
     \/ /\ sock[a].opened /\ ~sock[a].listening
        /\ \/ Fail(ListenCode) /\ UNCHANGED <<sock, file>>
           \/ /\ file[sock[a].fd].conn = "no"
              /\ sock' = [sock EXCEPT ![a].listening = TRUE]
              /\ file' = [file EXCEPT ![sock[a].fd].listening = TRUE]
              /\ Succeed
  /\ UNCHANGED <<life, stale, call, endpoint, stuck, shared>>

\* Acceptor::set_address_reuse
SetAddressReuse(a) ==
  /\ Alive(a)
  /\ \/ ~sock[a].opened /\ Refuse
     \/ sock[a].opened /\ (Succeed \/ FailWith("Success"))
  /\ UNCHANGED <<objects, file, call, endpoint, stuck, shared>>

-----------------------------------------------------------------------------
(* Operations that suspend a coroutine                                     *)

\* Whether the flags let a call through to the system.
Admits(s, op) ==
  /\ sock[s].opened
  /\ CASE op = "connect" -> ~sock[s].connected
       [] op = "accept" -> sock[s].listening
       [] OTHER -> sock[s].connected

Ops == {"connect", "accept"} \cup Transfers

\* The tests at the beginning of connect, accept, read, read_until and write.
RefuseCall(s, op) ==
  /\ Alive(s) /\ ~Suspended(s)
  /\ op = "accept" => s \in Acceptors
  /\ ~Admits(s, op)
  /\ Refuse
  /\ UNCHANGED <<objects, file, call, endpoint, stuck, shared>>

Begin(s, op) ==
  /\ Alive(s) /\ ~Suspended(s)
  /\ op = "accept" => s \in Acceptors
  /\ Admits(s, op)

\* "deferred": the coroutine has yielded and left the registration of its item
\* behind; "blocking": the caller is in the system call.
Suspend(s, op, peer, state) ==
  call' = [call EXCEPT ![s] = [op |-> op, fd |-> sock[s].fd, peer |-> peer, got |-> NoFd,
                               state |-> state]]

StateFor(who) == IF who = "coro" THEN "deferred" ELSE "blocking"

\* connect(2), at once.  It takes an Ipv4 sockaddr, and refuses the nullptr that
\* to_sockaddr_in returns for an endpoint without an address and a socket that
\* listens.  EINPROGRESS makes a coroutine wait, and is an error for a thread.  A
\* second connect(2), after such an error, tells how the first one went.
BeginConnect(s, who) ==
  LET f == sock[s].fd
      inProgress == file[f].nonblock /\ file[f].conn = "no"
  IN  /\ Begin(s, "connect")
      /\ \/ Fail(ConnectCode) /\ UNCHANGED <<file, call>>
         \/ /\ ~IsNull(ep) /\ ep.sa.family = "Ipv4"
            /\ file[f].conn # "yes" /\ ~file[f].listening
            /\ file' = [file EXCEPT ![f].conn = "trying"]
            /\ \/ /\ who = "coro" \/ ~inProgress
                  /\ Suspend(s, "connect", NoSocket,
                             IF inProgress THEN StateFor(who) ELSE "blocking")
                  /\ last' = last
               \/ /\ who = "thread" /\ inProgress
                  /\ call' = call
                  /\ FailWith(ConnectCode("EINPROGRESS"))
      /\ UNCHANGED <<objects, endpoint, stuck, shared>>

BeginAccept(s, peer, who) ==
  /\ Begin(s, "accept")
  /\ Alive(peer)
  /\ Suspend(s, "accept", peer, StateFor(who))
  /\ UNCHANGED <<objects, file, endpoint, last, stuck, shared>>

\* smart_read, smart_read_until, smart_write.  smart_read_until is not for threads.
BeginTransfer(s, op, who) ==
  /\ Begin(s, op)
  /\ \/ /\ who = "thread" => op # "read_until"
        /\ Suspend(s, op, NoSocket, StateFor(who))
        /\ last' = last
     \/ /\ who = "thread" /\ op = "read_until"
        /\ FailWith("Success")
        /\ call' = call
  /\ UNCHANGED <<objects, file, endpoint, stuck, shared>>

\* Mutant of Register: watching_ belongs to the epoller instead of the item, so that
\* a second call is not added.
BugRegisterOneItem(s) ==
  /\ call[s].state = "deferred"
  /\ call' = [call EXCEPT ![s].state =
                IF /\ file[call[s].fd].open
                   /\ \A t \in Sockets : call[t].state # "waiting"
                THEN "waiting" ELSE "lost"]
  /\ UNCHANGED <<objects, file, endpoint, last, stuck, shared>>

\* The deferred registration, by the number of the descriptor, whatever is
\* behind that number by now.
Register(s) ==
  /\ call[s].state = "deferred"
  /\ call' = [call EXCEPT ![s].state =
                IF /\ file[call[s].fd].open
                   /\ \A t \in Sockets : call[t].state = "waiting" => call[t].fd # call[s].fd
                THEN "waiting" ELSE "lost"]
  /\ UNCHANGED <<objects, file, endpoint, last, stuck, shared>>

Finished(s, state, got) ==
  call' = [call EXCEPT ![s].state = state, ![s].got = got]

\* smart_connect_impl: SO_ERROR is 0 for a connection that stands and for a
\* socket that has tried none.
SmartConnectImpl(s) ==
  LET f == call[s].fd
  IN  /\ call[s].op = "connect"
      /\ \/ /\ file[f].conn = "trying"
            /\ \/ file' = [file EXCEPT ![f].conn = "yes"] /\ Finished(s, "ok", NoFd)
               \/ file' = [file EXCEPT ![f].conn = "no"] /\ Finished(s, "failed", NoFd)
         \/ /\ file[f].conn # "trying"
            /\ file' = file
            /\ Finished(s, "ok", NoFd)

\* smart_accept_impl; accept(2) refuses a socket that does not listen (EINVAL).
SmartAcceptImpl(s) ==
  /\ call[s].op = "accept"
  /\ \/ /\ file[call[s].fd].listening
        /\ \E f \in FreeFds : file' = [file EXCEPT ![f] = Accepted] /\ Finished(s, "ok", f)
     \/ file' = file /\ Finished(s, "failed", NoFd)

\* smart_read_impl, smart_read_until_impl, smart_write_impl
SmartTransferImpl(s) ==
  /\ call[s].op \in Transfers
  /\ \/ file[call[s].fd].conn = "yes" /\ Finished(s, "ok", NoFd)
     \/ Finished(s, "failed", NoFd)
  /\ file' = file

\* The epoller runs the callback of a waiting call, or the system call that
\* blocks its caller returns.
Complete(s) ==
  /\ (call[s].state = "waiting" /\ ~stuck) \/ call[s].state = "blocking"
  /\ SmartConnectImpl(s) \/ SmartAcceptImpl(s) \/ SmartTransferImpl(s)
  /\ UNCHANGED <<objects, endpoint, last, stuck, shared>>

\* The system call of a callback blocks: write(2) until everything is written,
\* accept(2) when the connection that made the socket readable is gone.
Blocks(s) ==
  /\ ~stuck
  /\ call[s].state = "waiting"
  /\ ~file[call[s].fd].nonblock
  /\ \/ call[s].op = "write" /\ file[call[s].fd].conn = "yes"
     \/ call[s].op = "accept" /\ file[call[s].fd].listening
  /\ stuck' = TRUE
  /\ UNCHANGED <<objects, file, call, endpoint, last, shared>>

\* The peer reads, or another connection comes.
Unblocks ==
  /\ stuck
  /\ stuck' = FALSE
  /\ UNCHANGED <<objects, file, call, endpoint, last, shared>>

-----------------------------------------------------------------------------
(* The end of the suspended operations                                     *)

\* Mutant of EndConnect: a socket that could not be connected is closed.
BugEndConnectCloses(s) ==
  /\ call[s].op = "connect"
  /\ \/ /\ call[s].state = "ok"
        /\ sock' = [sock EXCEPT ![s].connected = TRUE]
        /\ file' = file
        /\ Succeed
     \/ /\ call[s].state = "failed"
        /\ sock' = [sock EXCEPT ![s] = Closed]
        /\ file' = FilesWithout(Held(s))
        /\ Fail(ConnectCode)
  /\ call' = [call EXCEPT ![s] = NoCall]
  /\ UNCHANGED <<life, stale, endpoint, stuck, shared>>

EndConnect(s) ==
  /\ call[s].op = "connect"
  /\ \/ /\ call[s].state = "ok"
        /\ sock' = [sock EXCEPT ![s].connected = TRUE]
        /\ Succeed
     \/ /\ call[s].state = "failed"
        /\ sock' = sock
        /\ Fail(ConnectCode)
  /\ call' = [call EXCEPT ![s] = NoCall]
  /\ UNCHANGED <<life, stale, file, endpoint, stuck, shared>>

\* The peer gets descriptor f: TcpSocket::set_accepted_fd.
AcceptedFlags(p, f) ==
  [sock[p] EXCEPT !.fd = f, !.opened = TRUE, !.bound = TRUE, !.connected = TRUE]

\* The end of Acceptor::accept: set_accepted_fd, then from_sockaddr.
EndAccept(s) ==
  LET p == call[s].peer
  IN  /\ call[s].op = "accept"
      /\ \/ /\ call[s].state = "ok"
            /\ sock' = [sock EXCEPT ![p] = AcceptedFlags(p, call[s].got)]
            /\ stale' = stale \cup Listening(p)
            /\ file' = FilesWithout(Held(p))
            /\ call' = [CallsWithout(Held(p)) EXCEPT ![s] = NoCall]
            /\ shared' = (shared \/ \E u \in Sockets \ {s} :
                                      Suspended(u) /\ call[u].fd \in Held(p))
            /\ \E h \in Hosts, port \in Ports :
                 /\ ep' = FromSockaddr(ep, PeerSockaddr(h, port))
                 /\ named' = [from |-> "peer", host |-> h, port |-> port]
            /\ Succeed
         \/ /\ call[s].state = "failed"
            /\ call' = [call EXCEPT ![s] = NoCall]
            /\ Fail(AcceptCode)
            /\ UNCHANGED <<sock, stale, file, endpoint, shared>>
      /\ UNCHANGED <<life, stuck>>

EndTransfer(s) ==
  /\ call[s].op \in Transfers
  /\ \/ call[s].state = "ok" /\ Succeed
     \/ call[s].state = "failed" /\ \E code \in TransferCodes(call[s].op) : FailWith(code)
  /\ call' = [call EXCEPT ![s] = NoCall]
  /\ UNCHANGED <<objects, file, endpoint, stuck, shared>>

-----------------------------------------------------------------------------
Operate(s) ==
  \/ Destroy(s) \/ Bind(s) \/ Close(s)
  \/ \E t \in Sockets : MoveConstruct(s, t)
  \/ s \in Acceptors /\ (Listen(s) \/ SetAddressReuse(s))
  \/ \E op \in Ops : RefuseCall(s, op)
  \/ \E who \in Callers :
       \/ Open(s, who) \/ BeginConnect(s, who)
       \/ \E p \in Sockets : BeginAccept(s, p, who)
       \/ \E op \in Transfers : BeginTransfer(s, op, who)

Resume(s) == EndConnect(s) \/ EndAccept(s) \/ EndTransfer(s)

\* The bound: operations that change nothing but last are free.
CountEffect ==
  /\ effects' = IF UNCHANGED <<objects, file, call>> THEN effects ELSE effects + 1
  /\ effects' <= MaxEffects

Next ==
  \/ \E s \in Sockets : Operate(s) /\ CountEffect
  \/ /\ \/ \E s \in Sockets : Register(s) \/ Complete(s) \/ Blocks(s) \/ Resume(s)
        \/ Unblocks
     /\ effects' = effects

Spec == Init /\ [][Next]_vars

-----------------------------------------------------------------------------
(* Properties                                                              *)

\* The type of the objects, of the kernel's files and of the suspended calls.
TypeOK ==
  /\ life \in [Sockets -> {"unborn", "alive", "dead"}]
  /\ sock \in [Sockets -> [fd : Fds \cup {NoFd}, opened : BOOLEAN, bound : BOOLEAN,
                            connected : BOOLEAN, listening : BOOLEAN]]
  /\ file \in [Fds -> [open : BOOLEAN, nonblock : BOOLEAN, bound : BOOLEAN,
                        listening : BOOLEAN, conn : {"no", "trying", "yes"}]]
  /\ call \in [Sockets -> [op : Ops \cup {"none"},
                            state : {"none", "deferred", "blocking", "waiting", "lost",
                                     "ok", "failed"},
                            fd : Fds \cup {NoFd}, peer : Sockets \cup {NoSocket},
                            got : Fds \cup {NoFd}]]
  /\ stale \subseteq Acceptors
  /\ stuck \in BOOLEAN

\* Who is responsible for closing descriptor f: the object that holds it, or the
\* accept that has not handed it over.
Owners(f) ==
  {<<s, "object">> : s \in {t \in Sockets : Alive(t) /\ sock[t].fd = f}} \cup
  {<<s, "accept">> : s \in {t \in Sockets : call[t].got = f}}

\* Every open descriptor has exactly one owner and every closed one has none:
\* moves, failed opens, accepts into an object that is open already and closes
\* under suspended calls neither leak a descriptor nor close one twice.  opened_
\* tells whether there is one.
OwnedOnce ==
  /\ \A f \in Fds : IF file[f].open THEN \E o \in Owners(f) : Owners(f) = {o}
                    ELSE Owners(f) = {}
  /\ \A s \in Sockets : sock[s].opened <=> sock[s].fd # NoFd

\* The flags say what the kernel has done with the descriptor, as long as no
\* descriptor is closed and no object moved under a suspended call and, for
\* listening_, the Acceptor has not lost the descriptor it listened on: read and
\* write go to a descriptor on which a connection was made, accept to a listening
\* one.  That the peer may have dropped the connection since, no flag tells.
FlagsTrue ==
  ~shared =>
    \A s \in Sockets :
      LET behind == IF sock[s].fd \in Fds THEN file[sock[s].fd] ELSE NoFile
      IN  /\ sock[s].bound => behind.bound
          /\ sock[s].connected => behind.conn = "yes"
          /\ sock[s].listening /\ s \notin stale => behind.listening

\* An operation that fails, with or without an ErrorCode, leaves every object as
\* it was, so that the next one does not take it for done.
FailureChangesNothing == [][last' # "ok" => sock' = sock]_vars

\* A suspended call is about the descriptor its object holds, and is not stranded
\* by a registration that epoll refuses or by a close, as long as no descriptor is
\* closed and no object moved under a suspended call: open, accept, moves and
\* destructors of other objects do not reach it, although descriptors are given
\* out again.  The calls of one object come one at a time here.
CallsKeepDescriptor ==
  ~shared => \A s \in Sockets : Suspended(s) => /\ call[s].fd = sock[s].fd
                                              /\ call[s].state # "lost"

\* An endpoint made of an Ipv4 text hands that address and port to the system
\* calls, the port in network order, and shows them; one filled in by accept
\* shows the address of the peer.
EndpointFaithful ==
  /\ named.from = "text" /\ ep.address.type = "Ipv4" =>
       /\ ep.sa = PeerSockaddr(named.host, named.port)
       /\ Shown(ep) = [host |-> named.host, port |-> named.port]
  /\ named.from = "peer" => Shown(ep).host = named.host

=============================================================================
