---------------------------- MODULE SocketProofs -----------------------------
(***************************************************************************)
(* Proofs about Socket: who owns a descriptor, what the flags of an object *)
(* are worth, and what an endpoint hands to the system calls, for any      *)
(* number of objects, descriptors and suspended calls.                     *)
(***************************************************************************)
EXTENDS Socket, TLAPS

-----------------------------------------------------------------------------
(* The parts of the inductive invariant                                    *)

\* An object has a descriptor when it is open, and none outside its life.
ObjectsSound ==
  \A s \in Sockets :
    /\ sock[s].opened <=> sock[s].fd # NoFd
    /\ ~Alive(s) => sock[s].fd = NoFd
    /\ sock[s].listening => s \in Acceptors

\* A suspended call has a descriptor; it brings one back only from accept, for a
\* peer that lives.
CallsSound ==
  \A s \in Sockets :
    /\ Suspended(s) => call[s].fd \in Fds /\ call[s].op # "none"
    /\ call[s].got # NoFd <=> call[s].state = "ok" /\ call[s].op = "accept"
    /\ call[s].op = "accept" => call[s].peer \in Sockets
    /\ call[s].peer \in Sockets => Alive(call[s].peer)

\* What OwnedOnce says, without the sets of owners.
Owned ==
  /\ \A f \in Fds : file[f].open <=> \E s \in Sockets : sock[s].fd = f \/ call[s].got = f
  /\ \A s, t \in Sockets : s # t => /\ sock[s].fd = sock[t].fd => sock[s].fd = NoFd
                                    /\ call[s].got = call[t].got => call[s].got = NoFd
  /\ \A s, t \in Sockets : sock[s].fd = call[t].got => sock[s].fd = NoFd

\* The flags of an object are true of its descriptor.
FlagsAt(s) ==
  /\ sock[s].bound => sock[s].fd \in Fds /\ file[sock[s].fd].bound
  /\ sock[s].connected => sock[s].fd \in Fds /\ file[sock[s].fd].conn = "yes"
  /\ sock[s].listening /\ s \notin stale => sock[s].fd \in Fds /\ file[sock[s].fd].listening

\* A suspended call is about its object's descriptor and will be answered, a
\* connect in progress is the kernel's, and an accepted descriptor is connected.
CallAt(s) ==
  /\ Suspended(s) => call[s].fd = sock[s].fd /\ call[s].state # "lost"
  /\ call[s].op = "connect" /\ call[s].state \in {"deferred", "waiting", "blocking"} =>
       file[call[s].fd].conn = "trying"
  /\ call[s].op = "connect" /\ call[s].state = "ok" => file[call[s].fd].conn = "yes"
  /\ call[s].got \in Fds => file[call[s].got].bound /\ file[call[s].got].conn = "yes"

\* So it is as long as nobody closes a descriptor, or moves its object, under a
\* suspended call.
Truth == ~shared => \A s \in Sockets : FlagsAt(s) /\ CallAt(s)

\* The fields an endpoint has.
Endpoints ==
  [sa : [family : {"unset", "None", "Ipv4", "Ipv6"}, port : Nat,
         addr : Hosts \cup {Garbage}, scope : Nat],
   address : [type : {"None", "Ipv4", "Ipv6"}, addr : Hosts \cup {Garbage}],
   port : Nat]

Socks == [fd : Fds \cup {NoFd}, opened : BOOLEAN, bound : BOOLEAN, connected : BOOLEAN,
          listening : BOOLEAN]
Files == [open : BOOLEAN, nonblock : BOOLEAN, bound : BOOLEAN, listening : BOOLEAN,
          conn : {"no", "trying", "yes"}]
Calls == [op : Ops \cup {"none"},
          state : {"none", "deferred", "blocking", "waiting", "lost", "ok", "failed"},
          fd : Fds \cup {NoFd}, peer : Sockets \cup {NoSocket}, got : Fds \cup {NoFd}]

-----------------------------------------------------------------------------
(* The steps, without how they end                                         *)

\* Nothing but last, stuck and effects changes.
Idles == UNCHANGED <<life, sock, stale, file, call, shared, ep, named>>

\* smart_socket gives descriptor f with file new.
Opens(s, new, f) ==
  /\ Alive(s) /\ ~sock[s].opened /\ ~file[f].open
  /\ new \in Files /\ new.open
  /\ file' = [file EXCEPT ![f] = new]
  /\ sock' = [sock EXCEPT ![s].fd = f, ![s].opened = TRUE]
  /\ last' = "ok"
  /\ UNCHANGED <<life, stale, call, shared, ep, named>>

Binds(s) ==
  /\ Alive(s) /\ sock[s].opened
  /\ sock' = [sock EXCEPT ![s].bound = TRUE]
  /\ file' = [file EXCEPT ![sock[s].fd].bound = TRUE]
  /\ last' = "ok"
  /\ UNCHANGED <<life, stale, call, shared, ep, named>>

Closes(s) ==
  /\ Alive(s) /\ sock[s].opened
  /\ CloseFds(Held(s))
  /\ sock' = [sock EXCEPT ![s] = [Closed EXCEPT !.listening = sock[s].listening]]
  /\ stale' = stale \cup Listening(s)
  /\ last' = "ok"
  /\ UNCHANGED <<life, ep, named>>

Listens(s) ==
  /\ Alive(s) /\ sock[s].opened /\ s \in Acceptors
  /\ sock' = [sock EXCEPT ![s].listening = TRUE]
  /\ file' = [file EXCEPT ![sock[s].fd].listening = TRUE]
  /\ last' = "ok"
  /\ UNCHANGED <<life, stale, call, shared, ep, named>>

\* connect(2) has begun; a thread may have given it up.
Connects(s) ==
  /\ Begin(s, "connect")
  /\ file[sock[s].fd].conn # "yes"
  /\ file' = [file EXCEPT ![sock[s].fd].conn = "trying"]
  /\ \/ \E state \in {"deferred", "blocking"} : Suspend(s, "connect", NoSocket, state)
     \/ call' = call
  /\ UNCHANGED <<life, sock, stale, shared, ep, named>>

\* Another call is suspended.
Begins(s) ==
  /\ \E op \in {"accept"} \cup Transfers, peer \in Sockets \cup {NoSocket},
        state \in {"deferred", "blocking"} :
       /\ Begin(s, op)
       /\ op = "accept" => peer \in Sockets
       /\ peer \in Sockets => Alive(peer)
       /\ Suspend(s, op, peer, state)
  /\ UNCHANGED <<life, sock, stale, file, shared, ep, named>>

\* A call goes from waiting to its end; it has no descriptor to bring.
Settles(s) ==
  /\ call[s].state \in {"deferred", "waiting", "blocking"}
  /\ \/ /\ call[s].state = "deferred"
        /\ \E state \in {"waiting", "lost"} :
             /\ call' = [call EXCEPT ![s].state = state]
             /\ state = "lost" =>
                  \/ ~file[call[s].fd].open
                  \/ \E t \in Sockets : call[t].state = "waiting" /\ call[t].fd = call[s].fd
     \/ /\ call[s].op \in Transfers
        /\ \E state \in {"ok", "failed"} : Finished(s, state, NoFd)
     \/ /\ call[s].op = "accept"
        /\ Finished(s, "failed", NoFd)
     \/ /\ call[s].op = "connect"
        /\ file[call[s].fd].conn # "trying"
        /\ Finished(s, "ok", NoFd)
  /\ UNCHANGED <<life, sock, stale, file, shared, ep, named>>

\* The kernel ends a connection attempt.
Connected(s) ==
  /\ call[s].state \in {"waiting", "blocking"} /\ call[s].op = "connect"
  /\ file[call[s].fd].conn = "trying"
  /\ \/ file' = [file EXCEPT ![call[s].fd].conn = "yes"] /\ Finished(s, "ok", NoFd)
     \/ file' = [file EXCEPT ![call[s].fd].conn = "no"] /\ Finished(s, "failed", NoFd)
  /\ UNCHANGED <<life, sock, stale, shared, ep, named>>

\* accept(2) brings descriptor f.
Brings(s, f) ==
  /\ call[s].state \in {"waiting", "blocking"} /\ call[s].op = "accept"
  /\ ~file[f].open
  /\ file' = [file EXCEPT ![f] = Accepted]
  /\ Finished(s, "ok", f)
  /\ UNCHANGED <<life, sock, stale, shared, ep, named>>

\* A call returns and its object is told at most that it is connected.
Returns(s) ==
  /\ \/ /\ call[s].op = "connect" /\ call[s].state = "ok" /\ last' = "ok"
        /\ sock' = [sock EXCEPT ![s].connected = TRUE]
     \/ call[s].state = "failed" /\ sock' = sock
     \/ call[s].op \in Transfers /\ call[s].state = "ok" /\ sock' = sock
  /\ call' = [call EXCEPT ![s] = NoCall]
  /\ UNCHANGED <<life, stale, file, shared, ep, named>>

\* accept returns and hands its descriptor over.
HandsOver(s) ==
  /\ call[s].op = "accept" /\ call[s].state = "ok"
  /\ EndAccept(s)

\* A step is one of the following.
Stepped ==
  \/ Idles
  \/ \E s \in Sockets :
       \/ \E t \in Sockets : MoveConstruct(s, t)
       \/ Destroy(s) \/ Closes(s) \/ Binds(s) \/ Listens(s) \/ Connects(s) \/ Begins(s)
       \/ Settles(s) \/ Connected(s) \/ Returns(s) \/ HandsOver(s)
       \/ \E f \in Fds : Brings(s, f)
       \/ \E new \in Files, f \in Fds : Opens(s, new, f)

\* The records the actions start from.
LEMMA Blanks ==
  /\ Closed \in Socks /\ NoFile \in Files /\ NoCall \in Calls /\ Accepted \in Files
  /\ \A who \in Callers : \A new \in SmartSockets(who) : new \in Files /\ new.open
  /\ [Closed EXCEPT !.listening = TRUE] \in Socks
<1>1. Closed \in Socks /\ [Closed EXCEPT !.listening = TRUE] \in Socks
  BY DEF Closed, Socks
<1>2. NoFile \in Files
  BY DEF NoFile, Files
<1>3. NoCall \in Calls
  BY DEF NoCall, Calls
<1>4. Accepted \in Files
  BY DEF Accepted, NoFile, Files
<1>5. ASSUME NEW b \in BOOLEAN
      PROVE  LET new == [NoFile EXCEPT !.open = TRUE, !.nonblock = b]
             IN  new \in Files /\ new.open
  BY DEF NoFile, Files
<1>6. ASSUME NEW who \in Callers, NEW new \in SmartSockets(who)
      PROVE  new \in Files /\ new.open
  <2>1. PICK b \in {FALSE, who = "coro"} : new = [NoFile EXCEPT !.open = TRUE, !.nonblock = b]
    BY DEF SmartSockets
  <2>2. b \in BOOLEAN
    BY <2>1
  <2> QED
    BY <1>5, <2>1, <2>2, Zenon
<1> QED
  BY <1>1, <1>2, <1>3, <1>4, <1>6, Zenon

\* This is what Next amounts to.
LEMMA StepCases ==
  ASSUME TypeOK, ObjectsSound, [Next]_vars
  PROVE  Stepped
<1> USE DEF objects, endpoint, Fail
<1>1. ASSUME NEW s \in Sockets, NEW who \in Callers, Open(s, who) PROVE Stepped
  <2>1. CASE ~sock[s].opened /\ sock' = [sock EXCEPT ![s].fd = NoFd] /\ file' = file
    <3>1. sock' = sock
      BY <2>1 DEF TypeOK, ObjectsSound
    <3> QED
      BY <1>1, <2>1, <3>1 DEF Open, Stepped, Idles
  <2>2. CASE UNCHANGED <<sock, file>>
    BY <1>1, <2>2 DEF Open, Stepped, Idles
  <2>3. CASE /\ ~sock[s].opened
             /\ \E f \in FreeFds, new \in SmartSockets(who) :
                  /\ file' = [file EXCEPT ![f] = new]
                  /\ sock' = [sock EXCEPT ![s].fd = f, ![s].opened = TRUE]
             /\ Succeed
    <3>1. PICK f \in FreeFds, new \in SmartSockets(who) :
            /\ file' = [file EXCEPT ![f] = new]
            /\ sock' = [sock EXCEPT ![s].fd = f, ![s].opened = TRUE]
      BY <2>3
    <3>2. f \in Fds /\ ~file[f].open /\ new \in Files /\ new.open
      BY <3>1, Blanks DEF FreeFds
    <3>3. Opens(s, new, f)
      BY <1>1, <2>3, <3>1, <3>2 DEF Open, Opens, Succeed
    <3> QED
      BY <3>2, <3>3 DEF Stepped
  <2> QED
    BY <1>1, <2>1, <2>2, <2>3 DEF Open
<1>2. ASSUME NEW s \in Sockets, Bind(s) PROVE Idles \/ Binds(s)
  BY <1>2 DEF Bind, Idles, Binds, Succeed
<1>3. ASSUME NEW s \in Sockets, Close(s) PROVE Idles \/ Closes(s)
  BY <1>3 DEF Close, Idles, Closes, Succeed
<1>4. ASSUME NEW s \in Acceptors, Listen(s) PROVE Idles \/ Listens(s)
  BY <1>4 DEF Listen, Idles, Listens, Succeed
<1>5. ASSUME NEW s \in Sockets, NEW op, SetAddressReuse(s) \/ RefuseCall(s, op) PROVE Idles
  BY <1>5 DEF SetAddressReuse, RefuseCall, Idles
<1>6. ASSUME NEW s \in Sockets, NEW who \in Callers, BeginConnect(s, who)
      PROVE  Idles \/ Connects(s)
  <2>1. UNCHANGED <<life, sock, stale, shared, ep, named>> /\ Begin(s, "connect")
    BY <1>6 DEF BeginConnect
  <2>2. \/ UNCHANGED <<file, call>>
        \/ /\ file[sock[s].fd].conn # "yes"
           /\ file' = [file EXCEPT ![sock[s].fd].conn = "trying"]
           /\ \/ \E state \in {"deferred", "blocking"} : Suspend(s, "connect", NoSocket, state)
              \/ call' = call
    BY <1>6 DEF BeginConnect, StateFor
  <2> QED
    BY <2>1, <2>2 DEF Idles, Connects
<1>7. ASSUME NEW s \in Sockets, NEW p \in Sockets, NEW who, BeginAccept(s, p, who)
      PROVE  Begins(s)
  BY <1>7 DEF BeginAccept, Begins, StateFor
<1>8. ASSUME NEW s \in Sockets, NEW op \in Transfers, NEW who, BeginTransfer(s, op, who)
      PROVE  Idles \/ Begins(s)
  <2>1. UNCHANGED <<life, sock, stale, file, shared, ep, named>> /\ Begin(s, op)
    BY <1>8 DEF BeginTransfer
  <2>2. \/ call' = call
        \/ \E state \in {"deferred", "blocking"} : Suspend(s, op, NoSocket, state)
    BY <1>8 DEF BeginTransfer, StateFor
  <2> QED
    BY <2>1, <2>2, SocketAssumption DEF Idles, Begins
<1>9. ASSUME NEW s \in Sockets, Register(s) PROVE Settles(s)
  BY <1>9 DEF Register, Settles
<1>10. ASSUME NEW s \in Sockets, Complete(s)
       PROVE  Settles(s) \/ Connected(s) \/ \E f \in Fds : Brings(s, f)
  <2>1. /\ call[s].state \in {"waiting", "blocking"}
        /\ UNCHANGED <<life, sock, stale, shared, ep, named>>
    BY <1>10 DEF Complete
  <2>2. CASE SmartConnectImpl(s)
    BY <2>1, <2>2 DEF SmartConnectImpl, Settles, Connected
  <2>3. CASE SmartAcceptImpl(s)
    BY <2>1, <2>3 DEF SmartAcceptImpl, Settles, Brings, FreeFds
  <2>4. CASE SmartTransferImpl(s)
    BY <2>1, <2>4 DEF SmartTransferImpl, Settles
  <2> QED
    BY <1>10, <2>2, <2>3, <2>4 DEF Complete
<1>11. ASSUME NEW s \in Sockets, Blocks(s) PROVE Idles
  BY <1>11 DEF Blocks, Idles
<1>12. ASSUME NEW s \in Sockets, Resume(s) PROVE Returns(s) \/ HandsOver(s)
  <2>1. CASE EndConnect(s)
    BY <2>1 DEF EndConnect, Returns, Succeed
  <2>2. CASE EndAccept(s)
    BY <2>2 DEF EndAccept, Returns, HandsOver
  <2>3. CASE EndTransfer(s)
    BY <2>3 DEF EndTransfer, Returns
  <2> QED
    BY <1>12, <2>1, <2>2, <2>3 DEF Resume
<1>13. ASSUME UNCHANGED vars PROVE Idles
  BY <1>13 DEF vars, Idles
<1>14. ASSUME NEW s \in Sockets, Operate(s) PROVE Stepped
  BY <1>1, <1>2, <1>3, <1>4, <1>5, <1>6, <1>7, <1>8, <1>14 DEF Operate, Stepped
<1>15. ASSUME Unblocks PROVE Idles
  BY <1>15 DEF Unblocks, Idles
<1>16. CASE UNCHANGED vars
  BY <1>13, <1>16 DEF Stepped
<1>17. CASE \E s \in Sockets : Operate(s)
  BY <1>14, <1>17
<1>18. CASE \E s \in Sockets : Register(s) \/ Complete(s) \/ Blocks(s) \/ Resume(s)
  BY <1>9, <1>10, <1>11, <1>12, <1>18 DEF Stepped
<1> QED
  BY <1>15, <1>16, <1>17, <1>18 DEF Next, Stepped

-----------------------------------------------------------------------------
(* What close(2) leaves                                                    *)

\* TypeOK in terms of these sets.
LEMMA TypeParts ==
  TypeOK <=> /\ life \in [Sockets -> {"unborn", "alive", "dead"}]
             /\ sock \in [Sockets -> Socks] /\ file \in [Fds -> Files]
             /\ call \in [Sockets -> Calls] /\ stale \subseteq Acceptors
             /\ stuck \in BOOLEAN
  BY Zenon DEF TypeOK, Socks, Files, Calls

\* close(2) of the descriptors F: they are closed, whoever waits for one of them
\* is lost, and no call changes otherwise.
LEMMA CloseFacts ==
  ASSUME TypeOK, NEW F
  PROVE  /\ FilesWithout(F) \in [Fds -> Files]
         /\ \A f \in Fds : FilesWithout(F)[f] = IF f \in F THEN NoFile ELSE file[f]
         /\ CallsWithout(F) \in [Sockets -> Calls]
         /\ \A s \in Sockets :
              LET c == CallsWithout(F)[s]
              IN  /\ c.op = call[s].op /\ c.fd = call[s].fd /\ c.peer = call[s].peer
                  /\ c.got = call[s].got
                  /\ \/ c.state = call[s].state
                     \/ /\ call[s].state \in {"waiting", "blocking"}
                        /\ c.state = "lost" /\ call[s].fd \in F
<1>1. file \in [Fds -> Files] /\ call \in [Sockets -> Calls]
  BY TypeParts
<1>2. FilesWithout(F) \in [Fds -> Files]
  BY <1>1, Blanks DEF FilesWithout
<1>3. \A f \in Fds : FilesWithout(F)[f] = IF f \in F THEN NoFile ELSE file[f]
  BY DEF FilesWithout
<1>4. ASSUME NEW s \in Sockets
      PROVE  LET c == CallsWithout(F)[s]
             IN  /\ c \in Calls
                 /\ c.op = call[s].op /\ c.fd = call[s].fd /\ c.peer = call[s].peer
                 /\ c.got = call[s].got
                 /\ \/ c.state = call[s].state
                    \/ /\ call[s].state \in {"waiting", "blocking"}
                       /\ c.state = "lost" /\ call[s].fd \in F
  <2> DEFINE c == CallsWithout(F)[s]
             old == call[s]
  <2>1. old \in Calls
    BY <1>1
  <2>2. \/ c = old
        \/ /\ old.state \in {"waiting", "blocking"} /\ old.fd \in F
           /\ c = [old EXCEPT !.state = "lost"]
    BY DEF CallsWithout
  <2> HIDE DEF c, old
  <2>3. c \in Calls
    BY <2>1, <2>2 DEF Calls
  <2>4. /\ c.op = old.op /\ c.fd = old.fd /\ c.peer = old.peer /\ c.got = old.got
        /\ \/ c.state = old.state
           \/ old.state \in {"waiting", "blocking"} /\ c.state = "lost" /\ old.fd \in F
    BY <2>1, <2>2 DEF Calls
  <2> QED
    BY <2>3, <2>4 DEF c, old
<1>5. CallsWithout(F) \in [Sockets -> Calls]
  <2>1. \A s \in Sockets : CallsWithout(F)[s] \in Calls
    BY Zenon, <1>4
  <2>2. CallsWithout(F) = [s \in Sockets |-> CallsWithout(F)[s]]
    BY Zenon DEF CallsWithout
  <2> QED
    BY <2>1, <2>2
<1> QED
  BY Zenon, <1>2, <1>3, <1>4, <1>5

States == {"none", "deferred", "blocking", "waiting", "lost", "ok", "failed"}

\* The end of a call is noted in its own record.
LEMMA FinishFacts ==
  ASSUME TypeOK, NEW s \in Sockets, NEW state \in States, NEW g \in Fds \cup {NoFd},
         Finished(s, state, g)
  PROVE  /\ call' \in [Sockets -> Calls]
         /\ \A t \in Sockets \ {s} : call'[t] = call[t]
         /\ call'[s].state = state /\ call'[s].got = g
         /\ call'[s].op = call[s].op /\ call'[s].fd = call[s].fd
         /\ call'[s].peer = call[s].peer
<1> DEFINE old == call[s]
           mid == [old EXCEPT !.state = state]
           new == [mid EXCEPT !.got = g]
           between == [call EXCEPT ![s] = mid]
<1>1. call \in [Sockets -> Calls] /\ old \in Calls
  BY TypeParts
<1>2. mid \in Calls /\ mid.state = state /\ mid.op = old.op /\ mid.fd = old.fd
      /\ mid.peer = old.peer
  BY <1>1 DEF Calls, States
<1>3. call' = [between EXCEPT ![s] = [@ EXCEPT !.got = g]]
  BY DEF Finished
<1> HIDE DEF old, mid
<1>4. between \in [Sockets -> Calls] /\ between[s] = mid
      /\ \A t \in Sockets \ {s} : between[t] = call[t]
  BY <1>1, <1>2
<1> HIDE DEF between
<1>5. new \in Calls /\ new.state = state /\ new.op = old.op /\ new.fd = old.fd
      /\ new.peer = old.peer /\ new.got = g
  BY <1>2 DEF Calls
<1>6. call' = [between EXCEPT ![s] = new]
  BY <1>3, <1>4
<1> HIDE DEF new
<1>7. call' \in [Sockets -> Calls] /\ call'[s] = new
      /\ \A t \in Sockets \ {s} : call'[t] = call[t]
  BY <1>4, <1>5, <1>6
<1> QED
  BY <1>5, <1>7 DEF old

\* What a move hands over: everything, and listening_ to an Acceptor.
LEMMA MovedType ==
  ASSUME TypeOK, NEW s \in Sockets, NEW t \in Sockets
  PROVE  LET new == MovedFlags(s, t)
         IN  /\ new \in Socks /\ new.fd = sock[s].fd /\ new.opened = sock[s].opened
             /\ new.bound = sock[s].bound /\ new.connected = sock[s].connected
             /\ new.listening <=> t \in Acceptors /\ sock[s].listening
<1> DEFINE old == sock[s]
           l == (t \in Acceptors /\ old.listening)
           new == [old EXCEPT !.listening = l]
<1>1. old \in Socks /\ l \in BOOLEAN
  BY TypeParts DEF Socks
<1> HIDE DEF old, l
<1>2. /\ new \in Socks /\ new.fd = old.fd /\ new.opened = old.opened
      /\ new.bound = old.bound /\ new.connected = old.connected /\ new.listening = l
  BY <1>1 DEF Socks
<1>3. new = MovedFlags(s, t)
  BY DEF MovedFlags, old, l
<1> HIDE DEF new
<1> QED
  BY <1>2, <1>3, Zenon DEF old, l

\* Only Blocks and Unblocks change stuck.
LEMMA StepStuck ==
  ASSUME TypeOK, [Next]_vars
  PROVE  stuck' \in BOOLEAN
<1>1. ASSUME NEW s \in Sockets, Operate(s) PROVE stuck' = stuck
  BY <1>1 DEF Operate, Destroy, Bind, Close, MoveConstruct, Listen, SetAddressReuse,
     RefuseCall, Open, BeginConnect, BeginAccept, BeginTransfer
<1>2. ASSUME NEW s \in Sockets, Register(s) \/ Complete(s) \/ Resume(s) PROVE stuck' = stuck
  BY <1>2 DEF Register, Complete, Resume, EndConnect, EndAccept, EndTransfer
<1>3. ASSUME UNCHANGED vars PROVE stuck' = stuck
  BY <1>3 DEF vars
<1>4. ASSUME NEW s \in Sockets, Blocks(s) PROVE stuck' = TRUE
  BY <1>4 DEF Blocks
<1>5. ASSUME Unblocks PROVE stuck' = FALSE
  BY <1>5 DEF Unblocks
<1>6. stuck \in BOOLEAN
  BY DEF TypeOK
<1> QED
  BY <1>1, <1>2, <1>3, <1>4, <1>5, <1>6 DEF Next

\* Every step keeps the types.
LEMMA StepType ==
  ASSUME TypeOK, ObjectsSound, CallsSound, Stepped, stuck' \in BOOLEAN
  PROVE  TypeOK'
<1>0. /\ life \in [Sockets -> {"unborn", "alive", "dead"}]
      /\ sock \in [Sockets -> Socks] /\ file \in [Fds -> Files]
      /\ call \in [Sockets -> Calls] /\ stale \subseteq Acceptors
  BY TypeParts
<1> DEFINE Typed == /\ life' \in [Sockets -> {"unborn", "alive", "dead"}]
                    /\ sock' \in [Sockets -> Socks] /\ file' \in [Fds -> Files]
                    /\ call' \in [Sockets -> Calls] /\ stale' \subseteq Acceptors
<1> SUFFICES Typed
  BY Zenon DEF TypeOK, Socks, Files, Calls
<1>1. ASSUME Idles PROVE Typed
  BY <1>0, <1>1 DEF Idles
<1>2. ASSUME NEW s \in Sockets, NEW t \in Sockets, MoveConstruct(s, t) PROVE Typed
  <2>1. [Closed EXCEPT !.listening = sock[s].listening] \in Socks
    BY <1>0 DEF Closed, Socks
  <2>a. MovedFlags(s, t) \in Socks
    BY <1>0, MovedType
  <2>2. sock' \in [Sockets -> Socks]
    BY <1>0, <1>2, <2>1, <2>a DEF MoveConstruct
  <2>3. stale' \subseteq Acceptors
    BY <1>0, <1>2 DEF MoveConstruct, Listening, ObjectsSound
  <2> QED
    BY <1>0, <1>2, <2>2, <2>3 DEF MoveConstruct
<1>3. ASSUME NEW s \in Sockets, Destroy(s) PROVE Typed
  BY <1>0, <1>3, CloseFacts, Blanks DEF Destroy, CloseFds
<1>4. ASSUME NEW s \in Sockets, Closes(s) PROVE Typed
  <2>1. [Closed EXCEPT !.listening = sock[s].listening] \in Socks
    BY <1>0 DEF Closed, Socks
  <2>2. stale' \subseteq Acceptors
    BY <1>0, <1>4 DEF Closes, Listening, ObjectsSound
  <2> QED
    BY <1>0, <1>4, <2>1, <2>2, CloseFacts DEF Closes, CloseFds
<1>5. ASSUME NEW s \in Sockets, Binds(s) PROVE Typed
  <2>1. sock' \in [Sockets -> Socks]
    BY <1>0, <1>5 DEF Binds, Socks
  <2>2. file' \in [Fds -> Files]
    BY <1>0, <1>5 DEF Binds, Files
  <2> QED
    BY <1>0, <1>5, <2>1, <2>2 DEF Binds
<1>6. ASSUME NEW s \in Sockets, Listens(s) PROVE Typed
  <2>1. sock' \in [Sockets -> Socks]
    BY <1>0, <1>6 DEF Listens, Socks
  <2>2. file' \in [Fds -> Files]
    BY <1>0, <1>6 DEF Listens, Files
  <2> QED
    BY <1>0, <1>6, <2>1, <2>2 DEF Listens
<1>7. ASSUME NEW s \in Sockets, Connects(s) PROVE Typed
  <2>1. file' \in [Fds -> Files]
    BY <1>0, <1>7 DEF Connects, Files
  <2>2. call' \in [Sockets -> Calls]
    BY <1>0, <1>7 DEF Connects, Suspend, Calls, Socks, Ops
  <2> QED
    BY <1>0, <1>7, <2>1, <2>2 DEF Connects
<1>8. ASSUME NEW s \in Sockets, Begins(s) PROVE Typed
  <2>1. call' \in [Sockets -> Calls]
    BY <1>0, <1>8 DEF Begins, Suspend, Calls, Socks, Ops
  <2> QED
    BY <1>0, <1>8, <2>1 DEF Begins
<1>9. ASSUME NEW s \in Sockets, Settles(s) PROVE Typed
  <2>1. call' \in [Sockets -> Calls]
    BY <1>0, <1>9 DEF Settles, Finished, Calls
  <2> QED
    BY <1>0, <1>9, <2>1 DEF Settles
<1>10. ASSUME NEW s \in Sockets, Connected(s) PROVE Typed
  <2>1. call' \in [Sockets -> Calls]
    <3>1. \E state \in {"ok", "failed"} : Finished(s, state, NoFd)
      BY <1>10 DEF Connected
    <3> QED
      BY <3>1, FinishFacts DEF States
  <2>2. file' \in [Fds -> Files]
    BY <1>0, <1>10 DEF Connected, Files
  <2> QED
    BY <1>0, <1>10, <2>1, <2>2 DEF Connected
<1>11. ASSUME NEW s \in Sockets, Returns(s) PROVE Typed
  <2>1. sock' = sock \/ sock' = [sock EXCEPT ![s].connected = TRUE]
    BY <1>11 DEF Returns
  <2>2. sock' \in [Sockets -> Socks]
    BY <1>0, <2>1 DEF Socks
  <2>3. call' \in [Sockets -> Calls]
    BY <1>0, <1>11, Blanks DEF Returns
  <2> QED
    BY <1>0, <1>11, <2>2, <2>3 DEF Returns
<1>12. ASSUME NEW s \in Sockets, HandsOver(s) PROVE Typed
  <2> DEFINE p == call[s].peer
  <2>1. p \in Sockets /\ call[s].got \in Fds \cup {NoFd}
    BY <1>0, <1>12 DEF HandsOver, CallsSound, Calls
  <2>2. /\ sock' = [sock EXCEPT ![p] = AcceptedFlags(p, call[s].got)]
        /\ stale' = stale \cup Listening(p) /\ file' = FilesWithout(Held(p))
        /\ call' = [CallsWithout(Held(p)) EXCEPT ![s] = NoCall] /\ life' = life
    BY <1>12 DEF HandsOver, EndAccept
  <2> HIDE DEF p
  <2>3. AcceptedFlags(p, call[s].got) \in Socks
    BY <1>0, <2>1 DEF AcceptedFlags, Socks
  <2>4. stale' \subseteq Acceptors
    BY <1>0, <2>1, <2>2 DEF Listening, ObjectsSound
  <2> QED
    BY <1>0, <2>1, <2>2, <2>3, <2>4, CloseFacts, Blanks
<1>13. ASSUME NEW s \in Sockets, NEW f \in Fds, Brings(s, f) PROVE Typed
  <2>1. call' \in [Sockets -> Calls]
    BY <1>13, FinishFacts DEF Brings, States
  <2> QED
    BY <1>0, <1>13, <2>1, Blanks DEF Brings
<1>14. ASSUME NEW s \in Sockets, NEW new \in Files, NEW f \in Fds, Opens(s, new, f)
       PROVE  Typed
  <2>1. file' \in [Fds -> Files]
    BY <1>0, <1>14, Blanks DEF Opens
  <2>2. sock' \in [Sockets -> Socks]
    BY <1>0, <1>14 DEF Opens, Socks
  <2> QED
    BY <1>0, <1>14, <2>1, <2>2 DEF Opens
<1> HIDE DEF Typed
<1> QED
  BY <1>1, <1>2, <1>3, <1>4, <1>5, <1>6, <1>7, <1>8, <1>9, <1>10, <1>11, <1>12, <1>13, <1>14
     DEF Stepped

-----------------------------------------------------------------------------
(* What the steps do to the objects, one field at a time                   *)

\* The objects that a step leaves alone.
Others(s) == \A t \in Sockets \ {s} : sock'[t] = sock[t]

\* open
LEMMA OpensSock ==
  ASSUME TypeOK, NEW s \in Sockets, NEW new, NEW f \in Fds, Opens(s, new, f)
  PROVE  /\ Others(s) /\ sock'[s].fd = f /\ sock'[s].opened = TRUE
         /\ sock'[s].bound = sock[s].bound /\ sock'[s].connected = sock[s].connected
         /\ sock'[s].listening = sock[s].listening
         /\ file'[f].open /\ \A g \in Fds \ {f} : file'[g] = file[g]
<1>1. sock \in [Sockets -> Socks] /\ file \in [Fds -> Files] /\ sock[s] \in Socks
  BY TypeParts
<1> DEFINE mid == [sock[s] EXCEPT !.fd = f]
           between == [sock EXCEPT ![s] = mid]
           obj == [mid EXCEPT !.opened = TRUE]
<1>2. mid \in Socks /\ mid.fd = f /\ mid.bound = sock[s].bound
      /\ mid.connected = sock[s].connected /\ mid.listening = sock[s].listening
  BY <1>1 DEF Socks
<1>3. sock' = [between EXCEPT ![s] = [@ EXCEPT !.opened = TRUE]]
  BY DEF Opens
<1> HIDE DEF mid
<1>4. between \in [Sockets -> Socks] /\ between[s] = mid
      /\ \A t \in Sockets \ {s} : between[t] = sock[t]
  BY <1>1, <1>2
<1> HIDE DEF between
<1>5. sock'[s] = obj /\ \A t \in Sockets \ {s} : sock'[t] = sock[t]
  BY <1>3, <1>4
<1>6. /\ obj.fd = f /\ obj.opened = TRUE /\ obj.bound = sock[s].bound
      /\ obj.connected = sock[s].connected /\ obj.listening = sock[s].listening
  BY <1>2 DEF Socks
<1>7. file'[f].open /\ \A g \in Fds \ {f} : file'[g] = file[g]
  BY <1>1 DEF Opens
<1> QED
  BY <1>5, <1>6, <1>7 DEF Others

\* bind, listen and the end of connect set one flag, and keep the descriptor.
LEMMA FlagSock ==
  ASSUME TypeOK, NEW s \in Sockets,
         \/ sock' = sock
         \/ sock' = [sock EXCEPT ![s].bound = TRUE]
         \/ sock' = [sock EXCEPT ![s].connected = TRUE]
         \/ sock' = [sock EXCEPT ![s].listening = TRUE]
  PROVE  /\ Others(s)
         /\ sock'[s].fd = sock[s].fd /\ sock'[s].opened = sock[s].opened
<1>1. sock \in [Sockets -> Socks] /\ sock[s] \in Socks
  BY TypeParts
<1>2. CASE sock' = sock
  BY <1>2 DEF Others
<1>3. CASE sock' = [sock EXCEPT ![s].bound = TRUE]
  BY <1>1, <1>3 DEF Others, Socks
<1>4. CASE sock' = [sock EXCEPT ![s].connected = TRUE]
  BY <1>1, <1>4 DEF Others, Socks
<1>5. CASE sock' = [sock EXCEPT ![s].listening = TRUE]
  BY <1>1, <1>5 DEF Others, Socks
<1> QED
  BY <1>2, <1>3, <1>4, <1>5

\* The move constructor hands everything over; the source keeps listening_.
LEMMA MoveSock ==
  ASSUME TypeOK, NEW s \in Sockets, NEW t \in Sockets, MoveConstruct(s, t)
  PROVE  /\ s # t
         /\ sock'[t].fd = sock[s].fd /\ sock'[t].opened = sock[s].opened
         /\ sock'[t].bound = sock[s].bound /\ sock'[t].connected = sock[s].connected
         /\ sock'[t].listening <=> t \in Acceptors /\ sock[s].listening
         /\ sock'[s].fd = NoFd /\ sock'[s].opened = FALSE /\ sock'[s].bound = FALSE
         /\ sock'[s].connected = FALSE /\ sock'[s].listening = sock[s].listening
         /\ \A u \in Sockets \ {s, t} : sock'[u] = sock[u]
<1>1. sock \in [Sockets -> Socks]
  BY TypeParts
<1> DEFINE left == [Closed EXCEPT !.listening = sock[s].listening]
<1>2. /\ left.fd = NoFd /\ left.opened = FALSE /\ left.bound = FALSE
      /\ left.connected = FALSE /\ left.listening = sock[s].listening
  BY DEF Closed
<1>3. sock' = [sock EXCEPT ![t] = MovedFlags(s, t), ![s] = left] /\ s # t
  BY DEF MoveConstruct, CanMove, Alive
<1> HIDE DEF left
<1>4. /\ sock'[t] = MovedFlags(s, t) /\ sock'[s] = left
      /\ \A u \in Sockets \ {s, t} : sock'[u] = sock[u]
  BY <1>1, <1>3
<1> DEFINE moved == MovedFlags(s, t)
<1>5. /\ moved.fd = sock[s].fd /\ moved.opened = sock[s].opened
      /\ moved.bound = sock[s].bound /\ moved.connected = sock[s].connected
      /\ moved.listening <=> t \in Acceptors /\ sock[s].listening
  BY MovedType, Zenon
<1>6. sock'[t] = moved
  BY <1>4
<1> HIDE DEF moved
<1>7. /\ sock'[t].fd = sock[s].fd /\ sock'[t].opened = sock[s].opened
      /\ sock'[t].bound = sock[s].bound /\ sock'[t].connected = sock[s].connected
      /\ sock'[t].listening <=> t \in Acceptors /\ sock[s].listening
  BY <1>5, <1>6, Zenon
<1> QED
  BY <1>2, <1>3, <1>4, <1>7, Zenon

\* close leaves listening_ set, too.
LEMMA CloseSock ==
  ASSUME TypeOK, NEW s \in Sockets, Closes(s)
  PROVE  /\ Others(s)
         /\ sock'[s].fd = NoFd /\ sock'[s].opened = FALSE /\ sock'[s].bound = FALSE
         /\ sock'[s].connected = FALSE /\ sock'[s].listening = sock[s].listening
<1>1. sock \in [Sockets -> Socks]
  BY TypeParts
<1> DEFINE left == [Closed EXCEPT !.listening = sock[s].listening]
<1>2. /\ left.fd = NoFd /\ left.opened = FALSE /\ left.bound = FALSE
      /\ left.connected = FALSE /\ left.listening = sock[s].listening
  BY DEF Closed
<1>3. sock' = [sock EXCEPT ![s] = left]
  BY DEF Closes
<1> HIDE DEF left
<1> QED
  BY <1>1, <1>2, <1>3 DEF Others

\* The destructor.
LEMMA DestroySock ==
  ASSUME TypeOK, NEW s \in Sockets, Destroy(s)
  PROVE  /\ Others(s)
         /\ sock'[s].fd = NoFd /\ sock'[s].opened = FALSE /\ sock'[s].bound = FALSE
         /\ sock'[s].connected = FALSE /\ sock'[s].listening = FALSE
<1>1. sock \in [Sockets -> Socks] /\ sock' = [sock EXCEPT ![s] = Closed]
  BY TypeParts DEF Destroy
<1>2. sock'[s] = Closed /\ Others(s)
  BY <1>1 DEF Others
<1> QED
  BY <1>2 DEF Closed

\* The end of accept: the peer has the new descriptor and all flags, except for
\* listening_, as set_accepted_fd sets them.
LEMMA AcceptSock ==
  ASSUME TypeOK, CallsSound, NEW s \in Sockets, HandsOver(s)
  PROVE  LET p == call[s].peer
         IN  /\ p \in Sockets /\ Alive(p) /\ Others(p)
             /\ call[s].got \in Fds
             /\ sock'[p].fd = call[s].got /\ sock'[p].opened = TRUE
             /\ sock'[p].bound = TRUE /\ sock'[p].connected = TRUE
             /\ sock'[p].listening = sock[p].listening
             /\ stale' = stale \cup Listening(p)
             /\ file' = FilesWithout(Held(p))
             /\ call' = [CallsWithout(Held(p)) EXCEPT ![s] = NoCall]
             /\ shared' = (shared \/ \E u \in Sockets \ {s} :
                                       Suspended(u) /\ call[u].fd \in Held(p))
             /\ life' = life /\ last' = "ok"
<1> DEFINE p == call[s].peer
           new == AcceptedFlags(p, call[s].got)
<1>1. /\ sock' = [sock EXCEPT ![p] = new]
      /\ stale' = stale \cup Listening(p) /\ file' = FilesWithout(Held(p))
      /\ call' = [CallsWithout(Held(p)) EXCEPT ![s] = NoCall]
      /\ shared' = (shared \/ \E u \in Sockets \ {s} :
                                       Suspended(u) /\ call[u].fd \in Held(p)) /\ life' = life /\ last' = "ok"
  BY DEF HandsOver, EndAccept, Succeed
<1>2. /\ call[s].op = "accept" /\ call[s].state = "ok"
  BY DEF HandsOver
<1>3. call[s].got \in Fds \cup {NoFd} /\ sock \in [Sockets -> Socks]
  BY TypeParts DEF Calls
<1>4. p \in Sockets /\ Alive(p) /\ call[s].got \in Fds
  BY <1>2, <1>3 DEF CallsSound
<1> HIDE DEF p
<1>5. /\ new.fd = call[s].got /\ new.opened = TRUE /\ new.bound = TRUE
      /\ new.connected = TRUE /\ new.listening = sock[p].listening
  BY <1>3, <1>4 DEF AcceptedFlags, Socks
<1> HIDE DEF new
<1>6. sock'[p] = new /\ Others(p)
  BY <1>1, <1>3, <1>4 DEF Others
<1> QED
  BY <1>1, <1>4, <1>5, <1>6 DEF p

-----------------------------------------------------------------------------
(* Every step keeps the parts of the invariant                             *)

\* opened_ and the descriptor go together.
LEMMA StepObjects ==
  ASSUME TypeOK, ObjectsSound, CallsSound, Stepped
  PROVE  ObjectsSound'
<1> DEFINE Fine(t) ==
             /\ sock[t].opened <=> sock[t].fd # NoFd
             /\ ~Alive(t) => sock[t].fd = NoFd
             /\ sock[t].listening => t \in Acceptors
<1> SUFFICES ASSUME NEW u \in Sockets PROVE Fine(u)'
  BY Zenon DEF ObjectsSound
<1>0. \A t \in Sockets : Fine(t)
  BY Zenon DEF ObjectsSound
<1>a. life \in [Sockets -> {"unborn", "alive", "dead"}] /\ NoFd \notin Fds
      /\ sock \in [Sockets -> Socks]
  BY TypeParts, SocketAssumption
<1> USE DEF Alive
<1>1. ASSUME UNCHANGED <<life, sock>> PROVE Fine(u)'
  BY <1>0, <1>1
<1>2. ASSUME NEW s \in Sockets,
             Connects(s) \/ Begins(s) \/ Settles(s) \/ Connected(s) \/ \E f \in Fds : Brings(s, f)
      PROVE  UNCHANGED <<life, sock>>
  BY <1>2 DEF Connects, Begins, Settles, Connected, Brings
<1>3. ASSUME Idles PROVE UNCHANGED <<life, sock>>
  BY <1>3 DEF Idles
<1>4. ASSUME NEW s \in Sockets, NEW t \in Sockets, MoveConstruct(s, t) PROVE Fine(u)'
  <2>1. life' = [life EXCEPT ![t] = "alive"] /\ life[s] = "alive"
    BY <1>4 DEF MoveConstruct, CanMove
  <2>2. CASE u = s
    BY <1>0, <1>4, <2>2, MoveSock
  <2>3. CASE u = t
    <3>1. /\ sock'[u].fd = sock[s].fd /\ sock'[u].opened = sock[s].opened
          /\ sock'[u].listening => u \in Acceptors
          /\ life'[u] = "alive"
      BY <1>4, <1>a, <2>1, <2>3, MoveSock
    <3>2. Fine(s)
      BY <1>0
    <3> QED
      BY <2>1, <2>3, <3>1, <3>2
  <2>4. CASE u \notin {s, t}
    <3>a. \A v \in Sockets \ {s, t} : sock'[v] = sock[v]
      BY <1>4, MoveSock
    <3>1. sock'[u] = sock[u]
      BY <2>4, <3>a
    <3>2. life'[u] = life[u]
      BY <1>a, <2>1, <2>4
    <3> QED
      BY <1>0, <3>1, <3>2
  <2> QED
    BY <2>2, <2>3, <2>4
<1>5. ASSUME NEW s \in Sockets, Destroy(s) PROVE Fine(u)'
  <2>1. life' = [life EXCEPT ![s] = "dead"]
    BY <1>5 DEF Destroy
  <2> QED
    BY <1>0, <1>5, <1>a, <2>1, DestroySock DEF Others
<1>6. ASSUME NEW s \in Sockets, Closes(s) PROVE Fine(u)'
  BY <1>0, <1>6, CloseSock DEF Others, Closes
<1>7. ASSUME NEW s \in Sockets, Binds(s) \/ Returns(s) PROVE Fine(u)'
  <2>1. /\ life' = life
        /\ \/ sock' = sock
           \/ sock' = [sock EXCEPT ![s].bound = TRUE]
           \/ sock' = [sock EXCEPT ![s].connected = TRUE]
    BY <1>7 DEF Binds, Returns
  <2>2. sock'[s].listening = sock[s].listening
    BY <1>a, <2>1 DEF Socks
  <2> QED
    BY <1>0, <2>1, <2>2, FlagSock DEF Others
<1>8. ASSUME NEW s \in Sockets, Listens(s) PROVE Fine(u)'
  <2>1. life' = life /\ s \in Acceptors /\ sock' = [sock EXCEPT ![s].listening = TRUE]
    BY <1>8 DEF Listens
  <2> QED
    BY <1>0, <2>1, FlagSock DEF Others
<1>9. ASSUME NEW s \in Sockets, HandsOver(s) PROVE Fine(u)'
  <2> DEFINE p == call[s].peer
  <2>1. /\ p \in Sockets /\ Alive(p) /\ Others(p) /\ call[s].got \in Fds /\ life' = life
        /\ sock'[p].fd = call[s].got /\ sock'[p].opened = TRUE
        /\ sock'[p].listening = sock[p].listening
    BY <1>9, AcceptSock
  <2> HIDE DEF p
  <2> QED
    BY <1>0, <1>a, <2>1 DEF Others
<1>10. ASSUME NEW s \in Sockets, NEW new \in Files, NEW f \in Fds, Opens(s, new, f)
       PROVE  Fine(u)'
  <2>1. life' = life /\ life[s] = "alive"
    BY <1>10 DEF Opens
  <2>2. CASE u = s
    <3>1. sock'[u].fd = f /\ sock'[u].opened = TRUE /\ sock'[u].listening = sock[u].listening
      BY <1>10, <2>2, OpensSock
    <3> QED
      BY <1>0, <1>a, <2>1, <2>2, <3>1
  <2>3. CASE u # s
    <3>1. sock'[u] = sock[u]
      BY <1>10, <2>3, OpensSock DEF Others
    <3> QED
      BY <1>0, <2>1, <3>1
  <2> QED
    BY <2>2, <2>3
<1> HIDE DEF Fine
<1> QED
  BY <1>1, <1>2, <1>3, <1>4, <1>5, <1>6, <1>7, <1>8, <1>9, <1>10 DEF Stepped

\* The record of a call that begins.
LEMMA SuspendFacts ==
  ASSUME TypeOK, NEW s \in Sockets, NEW op, NEW peer, NEW state, Suspend(s, op, peer, state)
  PROVE  /\ \A t \in Sockets \ {s} : call'[t] = call[t]
         /\ call'[s].op = op /\ call'[s].fd = sock[s].fd /\ call'[s].peer = peer
         /\ call'[s].got = NoFd /\ call'[s].state = state
<1> DEFINE new == [op |-> op, fd |-> sock[s].fd, peer |-> peer, got |-> NoFd, state |-> state]
<1>1. call \in [Sockets -> Calls] /\ call' = [call EXCEPT ![s] = new]
  BY TypeParts DEF Suspend
<1>2. /\ new.op = op /\ new.fd = sock[s].fd /\ new.peer = peer /\ new.got = NoFd
      /\ new.state = state
  OBVIOUS
<1> HIDE DEF new
<1> QED
  BY <1>1, <1>2

\* A call keeps its descriptor, its function and its peer, and the peer lives.
LEMMA StepCalls ==
  ASSUME TypeOK, ObjectsSound, CallsSound, Stepped
  PROVE  CallsSound'
<1> DEFINE Fine(t) ==
             /\ Suspended(t) => call[t].fd \in Fds /\ call[t].op # "none"
             /\ call[t].got # NoFd <=> call[t].state = "ok" /\ call[t].op = "accept"
             /\ call[t].op = "accept" => call[t].peer \in Sockets
             /\ call[t].peer \in Sockets => Alive(call[t].peer)
<1> SUFFICES ASSUME NEW u \in Sockets PROVE Fine(u)'
  BY Zenon DEF CallsSound
<1>0. \A t \in Sockets : Fine(t)
  BY Zenon DEF CallsSound
<1>a. /\ life \in [Sockets -> {"unborn", "alive", "dead"}] /\ NoFd \notin Fds
      /\ call \in [Sockets -> Calls] /\ NoSocket \notin Sockets
      /\ "accept" \notin Transfers /\ "connect" \notin Transfers /\ "none" \notin Transfers
  BY TypeParts, SocketAssumption
<1>b. \A t \in Sockets : sock[t].opened => sock[t].fd \in Fds
  BY TypeParts DEF ObjectsSound, Socks
<1> USE DEF Suspended, Alive
<1>1. ASSUME UNCHANGED <<life, call>> PROVE Fine(u)'
  BY <1>0, <1>1
<1>2. ASSUME NEW s \in Sockets,
             Binds(s) \/ Listens(s) \/ \E new \in Files, f \in Fds : Opens(s, new, f)
      PROVE  UNCHANGED <<life, call>>
  BY <1>2 DEF Binds, Listens, Opens
<1>3. ASSUME Idles PROVE UNCHANGED <<life, call>>
  BY <1>3 DEF Idles
<1>4. ASSUME NEW s \in Sockets, NEW t \in Sockets, MoveConstruct(s, t) PROVE Fine(u)'
  <2>1. call' = call /\ life' = [life EXCEPT ![t] = "alive"]
    BY <1>4 DEF MoveConstruct
  <2> QED
    BY <1>0, <1>a, <2>1
<1>5. ASSUME NEW F, call' = CallsWithout(F),
             \A t \in Sockets : life[t] = "alive" /\ life'[t] # "alive" => Idle(t)
      PROVE  Fine(u)'
  <2>1. /\ call'[u].op = call[u].op /\ call'[u].fd = call[u].fd
        /\ call'[u].peer = call[u].peer /\ call'[u].got = call[u].got
        /\ \/ call'[u].state = call[u].state
           \/ call[u].state \in {"waiting", "blocking"} /\ call'[u].state = "lost"
    BY <1>5, CloseFacts
  <2>2. call[u].peer \in Sockets => life'[call[u].peer] = "alive"
    BY <1>0, <1>5 DEF Idle
  <2> QED
    BY <1>0, <2>1, <2>2
<1>6. ASSUME NEW s \in Sockets, Destroy(s) PROVE Fine(u)'
  <2>1. life' = [life EXCEPT ![s] = "dead"] /\ Idle(s) /\ call' = CallsWithout(Held(s))
    BY <1>6 DEF Destroy, CloseFds
  <2> QED
    BY <1>5, <1>a, <2>1
<1>7. ASSUME NEW s \in Sockets, Closes(s) PROVE Fine(u)'
  <2>1. life' = life /\ call' = CallsWithout(Held(s))
    BY <1>7 DEF Closes, CloseFds
  <2> QED
    BY <1>5, <2>1
<1>8. ASSUME NEW s \in Sockets, Connects(s) PROVE Fine(u)'
  <2>1. life' = life /\ sock[s].opened
    BY <1>8 DEF Connects, Begin, Admits
  <2>2. CASE call' = call
    BY <1>1, <2>1, <2>2
  <2>3. CASE \E state \in {"deferred", "blocking"} : Suspend(s, "connect", NoSocket, state)
    BY <1>0, <1>a, <1>b, <2>1, <2>3, SuspendFacts
  <2> QED
    BY <1>8, <2>2, <2>3 DEF Connects
<1>9. ASSUME NEW s \in Sockets, Begins(s) PROVE Fine(u)'
  <2>1. PICK op \in {"accept"} \cup Transfers, peer \in Sockets \cup {NoSocket},
             state \in {"deferred", "blocking"} :
          /\ Begin(s, op) /\ (op = "accept" => peer \in Sockets)
          /\ (peer \in Sockets => Alive(peer)) /\ Suspend(s, op, peer, state)
    BY <1>9 DEF Begins
  <2>2. life' = life /\ sock[s].opened
    BY <1>9, <2>1 DEF Begins, Begin, Admits
  <2>3. /\ \A t \in Sockets \ {s} : call'[t] = call[t]
        /\ call'[s].op = op /\ call'[s].fd = sock[s].fd /\ call'[s].peer = peer
        /\ call'[s].got = NoFd /\ call'[s].state = state
    BY <2>1, SuspendFacts
  <2> QED
    BY <1>0, <1>a, <1>b, <2>1, <2>2, <2>3
<1>10. ASSUME NEW s \in Sockets, NEW state \in {"ok", "failed"}, Finished(s, state, NoFd),
              life' = life, call[s].state \in {"deferred", "waiting", "blocking"},
              call[s].op # "accept" \/ state = "failed"
       PROVE  Fine(u)'
  <2>1. /\ \A t \in Sockets \ {s} : call'[t] = call[t]
        /\ call'[s].state = state /\ call'[s].got = NoFd
        /\ call'[s].op = call[s].op /\ call'[s].fd = call[s].fd
        /\ call'[s].peer = call[s].peer
    BY <1>10, FinishFacts DEF States
  <2> QED
    BY <1>0, <1>10, <2>1
<1>11. ASSUME NEW s \in Sockets, Settles(s) PROVE Fine(u)'
  <2>1. CASE /\ call[s].state = "deferred"
             /\ \E state \in {"waiting", "lost"} : call' = [call EXCEPT ![s].state = state]
    <3>1. PICK state \in {"waiting", "lost"} : call' = [call EXCEPT ![s].state = state]
      BY <2>1
    <3>2. /\ \A t \in Sockets \ {s} : call'[t] = call[t]
          /\ call'[s].state = state /\ call'[s].got = call[s].got
          /\ call'[s].op = call[s].op /\ call'[s].fd = call[s].fd
          /\ call'[s].peer = call[s].peer
      BY <1>a, <3>1 DEF Calls
    <3> QED
      BY <1>0, <1>11, <2>1, <3>2 DEF Settles
  <2> QED
    BY <1>10, <1>11, <1>a, <2>1 DEF Settles
<1>12. ASSUME NEW s \in Sockets, Connected(s) PROVE Fine(u)'
  BY <1>10, <1>12 DEF Connected
<1>13. ASSUME NEW s \in Sockets, Returns(s) PROVE Fine(u)'
  <2>1. life' = life /\ call' = [call EXCEPT ![s] = NoCall]
    BY <1>13 DEF Returns
  <2>2. CASE u = s
    BY <1>a, <2>1, <2>2 DEF NoCall
  <2>3. CASE u # s
    BY <1>0, <1>a, <2>1, <2>3
  <2> QED
    BY <2>2, <2>3
<1>14. ASSUME NEW s \in Sockets, HandsOver(s) PROVE Fine(u)'
  <2>1. life' = life /\ call' = [CallsWithout(Held(call[s].peer)) EXCEPT ![s] = NoCall]
    BY <1>14, AcceptSock
  <2> DEFINE C == CallsWithout(Held(call[s].peer))
  <2>2. /\ C \in [Sockets -> Calls]
        /\ C[u].op = call[u].op /\ C[u].fd = call[u].fd
        /\ C[u].peer = call[u].peer /\ C[u].got = call[u].got
        /\ \/ C[u].state = call[u].state
           \/ call[u].state \in {"waiting", "blocking"} /\ C[u].state = "lost"
    BY CloseFacts
  <2> HIDE DEF C
  <2>3. call' = [C EXCEPT ![s] = NoCall]
    BY <2>1 DEF C
  <2>4. CASE u = s
    BY <1>a, <2>1, <2>2, <2>3, <2>4 DEF NoCall
  <2>5. CASE u # s
    <3>1. call'[u] = C[u]
      BY <2>2, <2>3, <2>5
    <3> QED
      BY <1>0, <2>1, <2>2, <3>1
  <2> QED
    BY <2>4, <2>5
<1>15. ASSUME NEW s \in Sockets, NEW f \in Fds, Brings(s, f) PROVE Fine(u)'
  <2>1. /\ \A t \in Sockets \ {s} : call'[t] = call[t]
        /\ call'[s].state = "ok" /\ call'[s].got = f
        /\ call'[s].op = call[s].op /\ call'[s].fd = call[s].fd
        /\ call'[s].peer = call[s].peer
    BY <1>15, FinishFacts DEF Brings, States
  <2> QED
    BY <1>0, <1>15, <1>a, <2>1 DEF Brings
<1> HIDE DEF Fine
<1> QED
  BY <1>1, <1>2, <1>3, <1>4, <1>6, <1>7, <1>8, <1>9, <1>11, <1>12, <1>13, <1>14, <1>15
     DEF Stepped

\* bind, listen and connect(2) change one field of one file.
LEMMA FileFacts ==
  ASSUME TypeOK, NEW d \in Fds,
         \/ file' = file
         \/ file' = [file EXCEPT ![d].bound = TRUE]
         \/ file' = [file EXCEPT ![d].listening = TRUE]
         \/ \E c \in {"no", "trying", "yes"} : file' = [file EXCEPT ![d].conn = c]
  PROVE  /\ \A f \in Fds \ {d} : file'[f] = file[f]
         /\ file'[d].open = file[d].open
         /\ file'[d].nonblock = file[d].nonblock
<1>1. file \in [Fds -> Files] /\ file[d] \in Files
  BY TypeParts
<1>2. CASE file' = file
  BY <1>2
<1>3. CASE file' = [file EXCEPT ![d].bound = TRUE]
  BY <1>1, <1>3 DEF Files
<1>4. CASE file' = [file EXCEPT ![d].listening = TRUE]
  BY <1>1, <1>4 DEF Files
<1>5. CASE \E c \in {"no", "trying", "yes"} : file' = [file EXCEPT ![d].conn = c]
  BY <1>1, <1>5 DEF Files
<1> QED
  BY <1>2, <1>3, <1>4, <1>5

\* Steps after which everybody has the descriptors he had.
LEMMA OwnedKept ==
  ASSUME Owned,
         \A s \in Sockets : sock'[s].fd = sock[s].fd /\ call'[s].got = call[s].got,
         \A f \in Fds : file'[f].open <=> file[f].open
  PROVE  Owned'
  BY DEF Owned

\* A new descriptor goes to one who had none, a closed one belonged to the one who
\* closed it, and a move or the end of an accept hands one on.
LEMMA StepOwned ==
  ASSUME TypeOK, ObjectsSound, CallsSound, Owned, Stepped
  PROVE  Owned'
<1>a. /\ life \in [Sockets -> {"unborn", "alive", "dead"}] /\ NoFd \notin Fds
      /\ call \in [Sockets -> Calls] /\ sock \in [Sockets -> Socks]
      /\ "accept" \notin Transfers
  BY TypeParts, SocketAssumption
<1>b. \A t \in Sockets : sock[t].opened => sock[t].fd \in Fds
  BY <1>a DEF ObjectsSound, Socks
<1>c. \A t \in Sockets : sock[t].fd \in Fds \cup {NoFd} /\ call[t].got \in Fds \cup {NoFd}
  BY <1>a DEF Socks, Calls
<1>d. \A t \in Sockets : ~(call[t].state = "ok" /\ call[t].op = "accept") => call[t].got = NoFd
  BY DEF CallsSound
<1>1. ASSUME Idles PROVE Owned'
  BY <1>1, OwnedKept DEF Idles
<1>2. ASSUME NEW s \in Sockets, Binds(s) \/ Listens(s) PROVE Owned'
  <2>1. /\ call' = call /\ sock[s].fd \in Fds
        /\ \/ sock' = [sock EXCEPT ![s].bound = TRUE]
           \/ sock' = [sock EXCEPT ![s].listening = TRUE]
        /\ \/ file' = [file EXCEPT ![sock[s].fd].bound = TRUE]
           \/ file' = [file EXCEPT ![sock[s].fd].listening = TRUE]
    BY <1>2, <1>b DEF Binds, Listens
  <2>2. \A t \in Sockets : sock'[t].fd = sock[t].fd
    BY <2>1, FlagSock DEF Others
  <2>3. \A f \in Fds : file'[f].open <=> file[f].open
    BY <2>1, FileFacts
  <2> QED
    BY <2>1, <2>2, <2>3, OwnedKept
<1>3. ASSUME NEW s \in Sockets, Connects(s) PROVE Owned'
  <2>1. /\ sock' = sock /\ sock[s].fd \in Fds /\ call[s].state = "none"
        /\ file' = [file EXCEPT ![sock[s].fd].conn = "trying"]
    BY <1>3, <1>b DEF Connects, Begin, Admits, Suspended
  <2>2. \A f \in Fds : file'[f].open <=> file[f].open
    BY <2>1, FileFacts
  <2>3. \A t \in Sockets : call'[t].got = call[t].got
    <3>1. CASE call' = call
      BY <3>1
    <3>2. CASE \E state \in {"deferred", "blocking"} : Suspend(s, "connect", NoSocket, state)
      BY <1>d, <2>1, <3>2, SuspendFacts
    <3> QED
      BY <1>3, <3>1, <3>2 DEF Connects
  <2> QED
    BY <2>1, <2>2, <2>3, OwnedKept
<1>4. ASSUME NEW s \in Sockets, Begins(s) PROVE Owned'
  <2>1. PICK op, peer, state : Suspend(s, op, peer, state) /\ Begin(s, op)
    BY <1>4 DEF Begins
  <2>2. \A t \in Sockets : call'[t].got = call[t].got
    BY <1>d, <2>1, SuspendFacts DEF Begin, Suspended
  <2> QED
    BY <1>4, <2>2, OwnedKept DEF Begins
<1>5. ASSUME NEW s \in Sockets, NEW state \in {"ok", "failed"}, Finished(s, state, NoFd),
             call[s].state \in {"deferred", "waiting", "blocking"}
      PROVE  \A t \in Sockets : call'[t].got = call[t].got
  BY <1>5, <1>d, FinishFacts DEF States
<1>6. ASSUME NEW s \in Sockets, Settles(s) PROVE Owned'
  <2>1. \A t \in Sockets : call'[t].got = call[t].got
    <3>1. CASE \E state \in {"waiting", "lost"} : call' = [call EXCEPT ![s].state = state]
      BY <1>a, <3>1 DEF Calls
    <3> QED
      BY <1>5, <1>6, <3>1 DEF Settles
  <2> QED
    BY <1>6, <2>1, OwnedKept DEF Settles
<1>7. ASSUME NEW s \in Sockets, Connected(s) PROVE Owned'
  <2>1. \A t \in Sockets : call'[t].got = call[t].got
    BY <1>5, <1>7 DEF Connected
  <2>2. call[s].fd \in Fds
    BY <1>7 DEF Connected, CallsSound, Suspended
  <2>3. \A f \in Fds : file'[f].open <=> file[f].open
    BY <1>7, <2>2, FileFacts DEF Connected
  <2> QED
    BY <1>7, <2>1, <2>3, OwnedKept DEF Connected
<1>8. ASSUME NEW s \in Sockets, Returns(s) PROVE Owned'
  <2>1. call[s].got = NoFd
    BY <1>8, <1>a, <1>d DEF Returns
  <2>2. \A t \in Sockets : call'[t].got = call[t].got
    BY <1>8, <1>a, <2>1 DEF Returns, NoCall
  <2>3. \A t \in Sockets : sock'[t].fd = sock[t].fd
    BY <1>8, FlagSock DEF Returns, Others
  <2> QED
    BY <1>8, <2>2, <2>3, OwnedKept DEF Returns
<1>9. ASSUME NEW s \in Sockets, NEW f \in Fds, Brings(s, f) PROVE Owned'
  <2>1. /\ \A t \in Sockets \ {s} : call'[t] = call[t]
        /\ call'[s].got = f /\ call[s].got = NoFd /\ sock' = sock
    BY <1>9, <1>d, FinishFacts DEF Brings, States
  <2>2. ~file[f].open /\ file'[f].open /\ \A g \in Fds \ {f} : file'[g] = file[g]
    <3>1. file \in [Fds -> Files] /\ Accepted.open
      BY TypeParts DEF Accepted, NoFile
    <3> QED
      BY <1>9, <3>1 DEF Brings
  <2> QED
    BY <1>a, <1>c, <2>1, <2>2 DEF Owned
<1>10. ASSUME NEW s \in Sockets, NEW new \in Files, NEW f \in Fds, Opens(s, new, f)
       PROVE  Owned'
  <2>1. /\ \A t \in Sockets \ {s} : sock'[t] = sock[t]
        /\ sock'[s].fd = f
        /\ file'[f].open /\ \A g \in Fds \ {f} : file'[g] = file[g]
    <3>1. /\ Others(s) /\ sock'[s].fd = f
          /\ file'[f].open /\ \A g \in Fds \ {f} : file'[g] = file[g]
      BY Zenon, <1>10, OpensSock
    <3> QED
      BY <3>1 DEF Others
  <2>2. sock[s].fd = NoFd /\ call' = call /\ ~file[f].open
    BY <1>10, <1>c DEF Opens, ObjectsSound
  <2> QED
    BY <1>a, <1>c, <2>1, <2>2 DEF Owned
<1>11. ASSUME NEW s \in Sockets, Destroy(s) \/ Closes(s) PROVE Owned'
  <2>1. /\ \A t \in Sockets \ {s} : sock'[t] = sock[t]
        /\ sock'[s].fd = NoFd
    BY <1>11, CloseSock, DestroySock DEF Others
  <2>2. file' = FilesWithout(Held(s)) /\ call' = CallsWithout(Held(s))
    BY <1>11 DEF Destroy, Closes, CloseFds
  <2>3. /\ \A t \in Sockets : call'[t].got = call[t].got
        /\ \A f \in Fds : file'[f] = IF f \in Held(s) THEN NoFile ELSE file[f]
    BY <2>2, CloseFacts
  <2>4. \A f \in Fds : file'[f].open <=> file[f].open /\ f # sock[s].fd
    BY <2>3 DEF Held, NoFile
  <2> QED
    BY <1>a, <1>c, <2>1, <2>3, <2>4 DEF Owned
<1>12. ASSUME NEW s \in Sockets, NEW t \in Sockets, MoveConstruct(s, t) PROVE Owned'
  <2>1. file' = file /\ call' = call /\ life[t] = "unborn"
    BY <1>12 DEF MoveConstruct, CanMove
  <2>2. sock[t].fd = NoFd
    BY <2>1 DEF ObjectsSound, Alive
  <2>3. /\ s # t /\ sock'[t].fd = sock[s].fd /\ sock'[s].fd = NoFd
        /\ \A u \in Sockets \ {s, t} : sock'[u] = sock[u]
    BY <1>12, MoveSock
  <2>4. \A f \in Fds : (\E u \in Sockets : sock'[u].fd = f) <=> (\E u \in Sockets : sock[u].fd = f)
    BY <1>a, <2>2, <2>3
  <2> QED
    BY <1>a, <1>c, <2>1, <2>2, <2>3, <2>4 DEF Owned
<1>13. ASSUME NEW s \in Sockets, HandsOver(s) PROVE Owned'
  <2> DEFINE p == call[s].peer
             g == call[s].got
             C == CallsWithout(Held(p))
  <2>1. /\ p \in Sockets /\ g \in Fds
        /\ \A t \in Sockets \ {p} : sock'[t] = sock[t]
        /\ sock'[p].fd = g
        /\ file' = FilesWithout(Held(p))
        /\ call' = [C EXCEPT ![s] = NoCall]
    BY <1>13, AcceptSock DEF Others
  <2>2. C \in [Sockets -> Calls] /\ \A t \in Sockets : C[t].got = call[t].got
    BY CloseFacts
  <2>3. \A f \in Fds : file'[f] = IF f \in Held(p) THEN NoFile ELSE file[f]
    BY <2>1, CloseFacts
  <2> HIDE DEF C
  <2>4. call'[s].got = NoFd /\ \A t \in Sockets \ {s} : call'[t].got = call[t].got
    BY <2>1, <2>2 DEF NoCall
  <2> HIDE DEF p
  <2>5. \A f \in Fds : file'[f].open <=> file[f].open /\ f # sock[p].fd
    BY <2>3 DEF Held, NoFile
  <2> QED
    BY <1>a, <1>c, <2>1, <2>4, <2>5 DEF Owned
<1> QED
  BY <1>1, <1>2, <1>3, <1>4, <1>6, <1>7, <1>8, <1>9, <1>10, <1>11, <1>12, <1>13 DEF Stepped

\* Nobody but its owner, or a call of its owner, changes what is behind a
\* descriptor.
LEMMA StepTruth ==
  ASSUME TypeOK, TypeOK', ObjectsSound, CallsSound, Owned, Truth, Stepped
  PROVE  Truth'
<1> SUFFICES ASSUME ~shared', NEW u \in Sockets PROVE FlagsAt(u)' /\ CallAt(u)'
  BY DEF Truth
<1>a. /\ NoFd \notin Fds /\ "accept" \notin Transfers /\ "connect" \notin Transfers
      /\ call \in [Sockets -> Calls] /\ sock \in [Sockets -> Socks] /\ file \in [Fds -> Files]
  BY TypeParts, SocketAssumption
<1>b. \A t \in Sockets : /\ sock[t].fd \in Fds \cup {NoFd} /\ call[t].got \in Fds \cup {NoFd}
                         /\ sock[t].opened => sock[t].fd \in Fds
                         /\ ~sock[t].opened => sock[t].fd = NoFd
  BY <1>a DEF ObjectsSound, Socks, Calls
<1>c. \A t \in Sockets : /\ ~(call[t].state = "ok" /\ call[t].op = "accept") => call[t].got = NoFd
                         /\ call[t].state # "none" => call[t].fd \in Fds
  BY DEF CallsSound, Suspended
<1>d. \A s, t \in Sockets : /\ s # t /\ sock[s].fd \in Fds => sock[t].fd # sock[s].fd
                            /\ sock[s].fd \in Fds => call[t].got # sock[s].fd
                            /\ s # t /\ call[s].got \in Fds => call[t].got # call[s].got
  BY <1>a DEF Owned
<1>e. \A f \in Fds : ~file[f].open =>
        \A t \in Sockets : sock[t].fd # f /\ call[t].got # f
  BY DEF Owned
<1>f. ~shared => \A t \in Sockets : FlagsAt(t) /\ CallAt(t)
  BY DEF Truth
<1> USE DEF FlagsAt, CallAt, Suspended
<1>1. ASSUME Idles PROVE FlagsAt(u)' /\ CallAt(u)'
  BY <1>1, <1>f DEF Idles
<1>2. ASSUME NEW s \in Sockets, NEW new \in Files, NEW f \in Fds, Opens(s, new, f)
      PROVE  FlagsAt(u)' /\ CallAt(u)'
  <2>1. /\ ~sock[s].opened /\ ~file[f].open /\ call' = call /\ stale' = stale /\ ~shared
    BY <1>2 DEF Opens
  <2>2. /\ Others(s) /\ sock'[s].fd = f
        /\ sock'[s].bound = sock[s].bound /\ sock'[s].connected = sock[s].connected
        /\ sock'[s].listening = sock[s].listening
        /\ \A g \in Fds \ {f} : file'[g] = file[g]
    BY Zenon, <1>2, OpensSock
  <2>3. sock[s].fd = NoFd /\ call[s].state = "none"
    BY <1>a, <1>b, <1>c, <1>f, <2>1
  <2>4. \A t \in Sockets : /\ sock[t].fd # f /\ call[t].got # f
                           /\ call[t].state # "none" => call[t].fd # f
    BY <1>e, <1>f, <2>1
  <2>5. FlagsAt(u)'
    BY <1>a, <1>f, <2>1, <2>2, <2>3, <2>4 DEF Others
  <2>6. CallAt(u)'
    BY <1>a, <1>c, <1>f, <2>1, <2>2, <2>3, <2>4 DEF Others
  <2> QED
    BY <2>5, <2>6
<1>3. ASSUME NEW s \in Sockets, Binds(s) \/ Listens(s) PROVE FlagsAt(u)' /\ CallAt(u)'
  <2> DEFINE d == sock[s].fd
  <2>1. /\ call' = call /\ stale' = stale /\ ~shared /\ d \in Fds
        /\ \/ /\ sock' = [sock EXCEPT ![s].bound = TRUE]
              /\ file' = [file EXCEPT ![d].bound = TRUE]
           \/ /\ sock' = [sock EXCEPT ![s].listening = TRUE]
              /\ file' = [file EXCEPT ![d].listening = TRUE]
    BY <1>3, <1>b DEF Binds, Listens
  <2>2. /\ Others(s) /\ sock'[s].fd = d
        /\ \A f \in Fds \ {d} : file'[f] = file[f]
    BY <2>1, FlagSock, FileFacts
  <2>3. /\ file'[d].conn = file[d].conn /\ sock'[s].connected = sock[s].connected
        /\ sock'[s].bound /\ ~sock[s].bound => file'[d].bound
        /\ file[d].bound => file'[d].bound
        /\ sock'[s].listening /\ ~sock[s].listening => file'[d].listening
        /\ file[d].listening => file'[d].listening
    <3> HIDE DEF d
    <3>1. file[d] \in Files /\ sock[s] \in Socks
      BY <1>a, <2>1
    <3>2. CASE /\ sock' = [sock EXCEPT ![s].bound = TRUE]
               /\ file' = [file EXCEPT ![d].bound = TRUE]
      BY <1>a, <2>1, <3>1, <3>2 DEF Files, Socks
    <3>3. CASE /\ sock' = [sock EXCEPT ![s].listening = TRUE]
               /\ file' = [file EXCEPT ![d].listening = TRUE]
      BY <1>a, <2>1, <3>1, <3>3 DEF Files, Socks
    <3> QED
      BY <2>1, <3>2, <3>3
  <2>4. \A f \in Fds : file'[f].conn = file[f].conn /\ (file[f].bound => file'[f].bound)
    BY <2>2, <2>3
  <2>5. \A t \in Sockets : sock'[t].fd = sock[t].fd
    BY <2>2 DEF Others
  <2>6. CallAt(u)'
    BY <1>a, <1>c, <1>f, <2>1, <2>4, <2>5
  <2>7. FlagsAt(u)'
    <3>1. CASE u = s
      BY <1>f, <2>1, <2>2, <2>3, <3>1
    <3>2. CASE u # s
      <4>1. sock'[u] = sock[u] /\ (sock[u].fd \in Fds => file'[sock[u].fd] = file[sock[u].fd])
        BY <1>d, <2>1, <2>2, <3>2 DEF Others
      <4> QED
        BY <1>f, <2>1, <4>1
    <3> QED
      BY <3>1, <3>2
  <2> QED
    BY <2>6, <2>7
<1>4. ASSUME NEW s \in Sockets, Connects(s) PROVE FlagsAt(u)' /\ CallAt(u)'
  <2> DEFINE d == sock[s].fd
  <2>1. /\ sock' = sock /\ stale' = stale /\ ~shared /\ d \in Fds /\ call[s].state = "none"
        /\ ~sock[s].connected /\ file' = [file EXCEPT ![d].conn = "trying"]
    BY <1>4, <1>b DEF Connects, Begin, Admits
  <2>2. /\ \A f \in Fds \ {d} : file'[f] = file[f]
        /\ file'[d].conn = "trying" /\ file'[d].bound = file[d].bound
        /\ file'[d].listening = file[d].listening
    BY <1>a, <2>1 DEF Files
  <2>3. /\ \A t \in Sockets \ {s} : call'[t] = call[t]
        /\ \/ call'[s] = call[s]
           \/ /\ call'[s].op = "connect" /\ call'[s].fd = d /\ call'[s].got = NoFd
              /\ call'[s].state \in {"deferred", "blocking"}
    <3>1. CASE call' = call
      BY <3>1
    <3>2. CASE \E state \in {"deferred", "blocking"} : Suspend(s, "connect", NoSocket, state)
      BY <3>2, SuspendFacts
    <3> QED
      BY <1>4, <3>1, <3>2 DEF Connects
  <2> HIDE DEF d
  <2>4. CASE u = s
    <3>1. CallAt(s)'
      BY <1>a, <1>c, <1>f, <2>1, <2>2, <2>3 DEF d
    <3>2. FlagsAt(s)'
      BY <1>f, <2>1, <2>2 DEF d
    <3> QED
      BY <2>4, <3>1, <3>2
  <2>5. CASE u # s
    <3>1. call'[u] = call[u] /\ (sock[u].fd \in Fds => file'[sock[u].fd] = file[sock[u].fd])
          /\ (call[u].got \in Fds => file'[call[u].got] = file[call[u].got])
      BY <1>d, <2>1, <2>2, <2>3, <2>5 DEF d
    <3>2. sock' = sock /\ stale' = stale /\ ~shared
      BY <2>1
    <3>3. FlagsAt(u)'
      BY <1>f, <3>1, <3>2
    <3>4. CallAt(u)'
      BY <1>c, <1>f, <3>1, <3>2
    <3> QED
      BY <3>3, <3>4
  <2> QED
    BY <2>4, <2>5
<1>5. ASSUME NEW s \in Sockets, Begins(s) PROVE FlagsAt(u)' /\ CallAt(u)'
  <2>1. PICK op \in {"accept"} \cup Transfers, peer \in Sockets \cup {NoSocket},
             state \in {"deferred", "blocking"} :
          Suspend(s, op, peer, state) /\ Begin(s, op)
    BY <1>5 DEF Begins
  <2>2. UNCHANGED <<sock, stale, file>> /\ ~shared
    BY <1>5 DEF Begins
  <2>3. /\ \A t \in Sockets \ {s} : call'[t] = call[t]
        /\ call'[s].op = op /\ call'[s].fd = sock[s].fd /\ call'[s].got = NoFd
        /\ call'[s].state = state
    BY <2>1, SuspendFacts
  <2>4. op # "connect"
    BY <1>a
  <2>5. CASE u = s
    BY <1>a, <1>f, <2>2, <2>3, <2>4, <2>5
  <2>6. CASE u # s
    BY <1>f, <2>2, <2>3, <2>6
  <2> QED
    BY <2>5, <2>6
<1>6. ASSUME NEW s \in Sockets, Settles(s) PROVE FlagsAt(u)' /\ CallAt(u)'
  <2>1. UNCHANGED <<sock, stale, file>> /\ ~shared
    BY <1>6 DEF Settles
  <2>2. /\ \A t \in Sockets \ {s} : call'[t] = call[t]
        /\ call'[s].op = call[s].op /\ call'[s].fd = call[s].fd /\ call'[s].got = NoFd
        /\ call'[s].op = "connect" => call[s].state = "deferred" /\ call'[s].state = "waiting"
        /\ call[s].state # "none" /\ call'[s].state # "lost"
    <3>1. ASSUME call[s].state = "deferred",
                 NEW state \in {"waiting", "lost"}, call' = [call EXCEPT ![s].state = state],
                 state = "lost" =>
                   \/ ~file[call[s].fd].open
                   \/ \E t \in Sockets : call[t].state = "waiting" /\ call[t].fd = call[s].fd
          PROVE  /\ \A t \in Sockets \ {s} : call'[t] = call[t]
                 /\ call'[s].op = call[s].op /\ call'[s].fd = call[s].fd
                 /\ call'[s].got = NoFd /\ call'[s].state = "waiting"
      <4>1. call[s].fd = sock[s].fd /\ call[s].fd \in Fds /\ call[s].got = NoFd
        BY <1>c, <1>f, <2>1, <3>1
      <4>2. file[call[s].fd].open
        BY <4>1 DEF Owned
      <4>3. \A t \in Sockets : call[t].state = "waiting" => call[t].fd # call[s].fd
        BY <1>d, <1>f, <2>1, <3>1, <4>1
      <4>4. state = "waiting"
        BY <3>1, <4>2, <4>3
      <4> QED
        BY <1>a, <3>1, <4>1, <4>4 DEF Calls
    <3>2. CASE call[s].op \in Transfers /\ \E state \in {"ok", "failed"} : Finished(s, state, NoFd)
      BY <1>6, <1>a, <3>2, FinishFacts DEF States, Settles
    <3>3. CASE call[s].op = "accept" /\ Finished(s, "failed", NoFd)
      BY <1>6, <3>3, FinishFacts DEF States, Settles
    <3>4. CASE call[s].op = "connect" /\ file[call[s].fd].conn # "trying"
      BY <1>6, <1>f, <2>1, <3>4 DEF Settles
    <3> QED
      BY <1>6, <3>1, <3>2, <3>3, <3>4 DEF Settles
  <2> QED
    BY <1>a, <1>f, <2>1, <2>2
<1>7. ASSUME NEW s \in Sockets, Connected(s) PROVE FlagsAt(u)' /\ CallAt(u)'
  <2> DEFINE d == call[s].fd
  <2>1. /\ UNCHANGED <<sock, stale>> /\ ~shared /\ file[d].conn = "trying"
        /\ call[s].op = "connect" /\ call[s].state # "none"
    BY <1>7 DEF Connected
  <2>2. d = sock[s].fd /\ d \in Fds
    BY <1>c, <1>f, <2>1
  <2>3. \E state \in {"ok", "failed"} :
          /\ Finished(s, state, NoFd)
          /\ file' = [file EXCEPT ![d].conn = IF state = "ok" THEN "yes" ELSE "no"]
    BY <1>7 DEF Connected
  <2>4. PICK state \in {"ok", "failed"} :
          /\ Finished(s, state, NoFd)
          /\ file' = [file EXCEPT ![d].conn = IF state = "ok" THEN "yes" ELSE "no"]
    BY <2>3
  <2>5. /\ \A t \in Sockets \ {s} : call'[t] = call[t]
        /\ call'[s].op = call[s].op /\ call'[s].fd = call[s].fd /\ call'[s].got = NoFd
        /\ call'[s].state = state
    BY <2>4, FinishFacts DEF States
  <2> HIDE DEF d
  <2>6. /\ \A f \in Fds \ {d} : file'[f] = file[f]
        /\ file'[d].conn = (IF state = "ok" THEN "yes" ELSE "no")
        /\ file'[d].bound = file[d].bound /\ file'[d].listening = file[d].listening
    BY <1>a, <2>2, <2>4 DEF Files
  <2>7. CASE u = s
    <3>1. CallAt(s)'
      BY <1>a, <2>1, <2>2, <2>5, <2>6 DEF d
    <3>2. FlagsAt(s)'
      BY <1>f, <2>1, <2>2, <2>6
    <3> QED
      BY <2>7, <3>1, <3>2
  <2>8. CASE u # s
    <3>1. call'[u] = call[u] /\ (sock[u].fd \in Fds => file'[sock[u].fd] = file[sock[u].fd])
          /\ (call[u].got \in Fds => file'[call[u].got] = file[call[u].got])
      BY <1>d, <2>2, <2>5, <2>6, <2>8
    <3> QED
      BY <1>c, <1>f, <2>1, <3>1
  <2> QED
    BY <2>7, <2>8
<1>8. ASSUME NEW s \in Sockets, NEW f \in Fds, Brings(s, f) PROVE FlagsAt(u)' /\ CallAt(u)'
  <2>1. /\ UNCHANGED <<sock, stale>> /\ ~shared /\ ~file[f].open /\ file' = [file EXCEPT ![f] = Accepted]
        /\ call[s].op = "accept" /\ call[s].state # "none"
    BY <1>8 DEF Brings
  <2>2. /\ \A t \in Sockets \ {s} : call'[t] = call[t]
        /\ call'[s].op = "accept" /\ call'[s].fd = call[s].fd /\ call'[s].got = f
        /\ call'[s].state = "ok"
    BY <1>8, <2>1, FinishFacts DEF Brings, States
  <2>3. /\ \A g \in Fds \ {f} : file'[g] = file[g]
        /\ file'[f].bound /\ file'[f].conn = "yes"
    <3>1. Accepted.bound /\ Accepted.conn = "yes"
      BY DEF Accepted, NoFile
    <3> QED
      BY <1>a, <2>1, <3>1
  <2>4. \A t \in Sockets : /\ sock[t].fd # f /\ call[t].got # f
                           /\ call[t].state # "none" => call[t].fd # f
    BY <1>e, <1>f, <2>1
  <2>5. FlagsAt(u)'
    BY <1>f, <2>1, <2>3, <2>4
  <2>6. CallAt(u)'
    BY <1>a, <1>c, <1>f, <2>1, <2>2, <2>3, <2>4
  <2> QED
    BY <2>5, <2>6
<1>9. ASSUME NEW s \in Sockets, Returns(s) PROVE FlagsAt(u)' /\ CallAt(u)'
  <2>1. UNCHANGED <<stale, file>> /\ ~shared /\ call' = [call EXCEPT ![s] = NoCall]
    BY <1>9 DEF Returns
  <2>2. call'[s] = NoCall /\ \A t \in Sockets \ {s} : call'[t] = call[t]
    BY <1>a, <2>1
  <2>3. Others(s) /\ sock'[s].fd = sock[s].fd
    BY <1>9, FlagSock DEF Returns
  <2>4. CallAt(u)'
    BY <1>a, <1>f, <2>1, <2>2, <2>3 DEF Others, NoCall
  <2>5. FlagsAt(u)'
    <3>1. CASE sock' = sock
      BY <1>f, <2>1, <3>1
    <3>2. CASE call[s].op = "connect" /\ call[s].state = "ok"
               /\ sock' = [sock EXCEPT ![s].connected = TRUE]
      <4>1. sock[s].fd \in Fds /\ file[sock[s].fd].conn = "yes"
        BY <1>c, <1>f, <2>1, <3>2
      <4>2. sock'[s].bound = sock[s].bound /\ sock'[s].listening = sock[s].listening
        BY <1>a, <3>2 DEF Socks
      <4> QED
        BY <1>f, <2>1, <2>3, <4>1, <4>2 DEF Others
    <3> QED
      BY <1>9, <3>1, <3>2 DEF Returns
  <2> QED
    BY <2>4, <2>5
<1>10. ASSUME NEW s \in Sockets, Destroy(s) \/ Closes(s) PROVE FlagsAt(u)' /\ CallAt(u)'
  <2>1. /\ Others(s) /\ sock'[s].fd = NoFd /\ sock'[s].bound = FALSE
        /\ sock'[s].connected = FALSE
        /\ sock'[s].listening = FALSE \/ sock'[s].listening = sock[s].listening
    BY <1>10, CloseSock, DestroySock
  <2>2. file' = FilesWithout(Held(s)) /\ call' = CallsWithout(Held(s)) /\ ~shared
        /\ \A t \in Sockets : ~(Suspended(t) /\ call[t].fd \in Held(s))
    BY <1>10 DEF Destroy, Closes, CloseFds
  <2>3. /\ \A t \in Sockets : /\ call'[t].op = call[t].op /\ call'[t].fd = call[t].fd
                              /\ call'[t].got = call[t].got
                              /\ \/ call'[t].state = call[t].state
                                 \/ call[t].fd \in Held(s) /\ call[t].state # "none"
        /\ \A f \in Fds : file'[f] = IF f \in Held(s) THEN NoFile ELSE file[f]
    BY <2>2, CloseFacts
  <2>4. \A t \in Sockets : call'[t].state = call[t].state
    BY <2>2, <2>3
  <2>5. \A f \in Fds : f # sock[s].fd => file'[f] = file[f]
    BY <2>3 DEF Held
  <2>6. call[s].state = "none"
    BY <1>10, <1>b, <1>c, <1>f, <2>2 DEF Destroy, Idle, Closes, Held
  <2>7. /\ stale \subseteq stale'
        /\ sock'[s].listening = FALSE \/ (sock[s].listening => s \in stale')
    BY <1>10, DestroySock DEF Destroy, Closes, Listening
  <2>8. CASE u = s
    <3>1. FlagsAt(s)'
      BY <2>1, <2>7
    <3>2. CallAt(s)'
      BY <1>c, <1>a, <2>3, <2>4, <2>6
    <3> QED
      BY <2>8, <3>1, <3>2
  <2>9. CASE u # s
    <3>1. /\ sock'[u] = sock[u] /\ stale \subseteq stale'
          /\ sock[u].fd \in Fds => file'[sock[u].fd] = file[sock[u].fd]
          /\ call[u].got \in Fds => file'[call[u].got] = file[call[u].got]
      BY <1>d, <2>1, <2>5, <2>7, <2>9 DEF Others
    <3> QED
      BY <1>c, <1>f, <2>2, <2>3, <2>4, <3>1
  <2> QED
    BY <2>8, <2>9
<1>11. ASSUME NEW s \in Sockets, NEW t \in Sockets, MoveConstruct(s, t)
       PROVE  FlagsAt(u)' /\ CallAt(u)'
  <2>1. /\ UNCHANGED <<file, call>> /\ ~shared /\ call[s].state = "none" /\ life[t] = "unborn"
        /\ stale' = stale \cup Listening(s) \cup {v \in {t} \cap Acceptors : s \in stale}
    BY <1>11 DEF MoveConstruct, CanMove
  <2>2. sock[t].fd = NoFd
    BY <2>1 DEF ObjectsSound, Alive
  <2>3. call[t].state = "none"
    BY <1>a, <1>c, <1>f, <2>1, <2>2
  <2>4. /\ s # t
        /\ sock'[t].fd = sock[s].fd
        /\ sock'[t].bound = sock[s].bound /\ sock'[t].connected = sock[s].connected
        /\ sock'[t].listening <=> t \in Acceptors /\ sock[s].listening
        /\ sock'[s].fd = NoFd /\ sock'[s].bound = FALSE
        /\ sock'[s].connected = FALSE /\ sock'[s].listening = sock[s].listening
        /\ \A v \in Sockets \ {s, t} : sock'[v] = sock[v]
    BY <1>11, MoveSock
  <2>5. /\ stale \subseteq stale' /\ (sock[s].listening => s \in stale')
        /\ s \in stale /\ t \in Acceptors => t \in stale'
    BY <2>1 DEF Listening
  <2>6. CallAt(u)'
    <3>1. CASE u \in {s, t}
      BY <1>a, <1>c, <1>f, <2>1, <2>3, <3>1
    <3>2. CASE u \notin {s, t}
      BY <1>f, <2>1, <2>4, <3>2
    <3> QED
      BY <3>1, <3>2
  <2>7. FlagsAt(u)'
    <3>1. CASE u = s
      BY <2>4, <2>5, <3>1
    <3>2. CASE u = t
      BY <1>f, <2>1, <2>4, <2>5, <3>2
    <3>3. CASE u \notin {s, t}
      BY <1>f, <2>1, <2>4, <2>5, <3>3
    <3> QED
      BY <3>1, <3>2, <3>3
  <2> QED
    BY <2>6, <2>7
<1>12. ASSUME NEW s \in Sockets, HandsOver(s) PROVE FlagsAt(u)' /\ CallAt(u)'
  <2> DEFINE p == call[s].peer
             g == call[s].got
             C == CallsWithout(Held(p))
  <2>1. /\ p \in Sockets /\ g \in Fds /\ Others(p)
        /\ sock'[p].fd = g
        /\ sock'[p].listening = sock[p].listening
        /\ file' = FilesWithout(Held(p))
        /\ call' = [C EXCEPT ![s] = NoCall]
        /\ stale' = stale \cup Listening(p)
    BY <1>12, AcceptSock
  <2>2. ~shared /\ \A t \in Sockets \ {s} : ~(call[t].state # "none" /\ call[t].fd \in Held(p))
    BY <1>12, AcceptSock
  <2>3. /\ C \in [Sockets -> Calls]
        /\ \A t \in Sockets : /\ C[t].op = call[t].op /\ C[t].fd = call[t].fd
                              /\ C[t].got = call[t].got
                              /\ \/ C[t].state = call[t].state
                                 \/ call[t].fd \in Held(p) /\ call[t].state # "none"
    BY CloseFacts
  <2>4. \A f \in Fds : file'[f] = IF f \in Held(p) THEN NoFile ELSE file[f]
    BY <2>1, CloseFacts
  <2> HIDE DEF C
  <2>5. call'[s] = NoCall /\ \A t \in Sockets \ {s} : call'[t] = C[t]
    BY <2>1, <2>3
  <2> HIDE DEF p
  <2>a. \A t \in Sockets \ {s} : C[t].state = call[t].state
    BY <2>2, <2>3
  <2>b. p # s => call[p].state = "none"
    BY <1>c, <1>f, <2>1, <2>2 DEF Held
  <2>6. \A f \in Fds : f # sock[p].fd => file'[f] = file[f]
    BY <2>4 DEF Held
  <2>7. file'[g] = file[g] /\ file[g].bound /\ file[g].conn = "yes"
    BY <1>d, <1>f, <2>1, <2>2, <2>6
  <2>8. (sock[p].listening => p \in stale') /\ stale \subseteq stale'
    BY <2>1 DEF Listening
  <2>9. FlagsAt(u)'
    <3>1. CASE u = p
      BY <2>1, <2>7, <2>8, <3>1
    <3>2. CASE u # p
      <4>1. sock'[u] = sock[u] /\ (sock[u].fd \in Fds => file'[sock[u].fd] = file[sock[u].fd])
        BY <1>d, <2>1, <2>6, <3>2 DEF Others
      <4> QED
        BY <1>f, <2>2, <2>8, <4>1
    <3> QED
      BY <3>1, <3>2
  <2>10. CallAt(u)'
    <3>1. CASE u = s
      BY <1>a, <2>5, <3>1 DEF NoCall
    <3>2. CASE u # s /\ u = p
      <4>1. call'[u].state = "none" /\ call'[u].got = NoFd
        BY <1>c, <2>3, <2>5, <2>a, <2>b, <3>2
      <4> QED
        BY <1>a, <4>1
    <3>3. CASE u # s /\ u # p
      <4>1. /\ sock'[u] = sock[u] /\ call'[u] = C[u]
            /\ sock[u].fd \in Fds => file'[sock[u].fd] = file[sock[u].fd]
            /\ call[u].got \in Fds => file'[call[u].got] = file[call[u].got]
        BY <1>d, <2>1, <2>5, <2>6, <3>3 DEF Others
      <4> QED
        BY <1>c, <1>f, <2>2, <2>3, <2>a, <3>3, <4>1
    <3> QED
      BY <3>1, <3>2, <3>3
  <2> QED
    BY <2>9, <2>10
<1> HIDE DEF FlagsAt, CallAt
<1> QED
  BY <1>1, <1>2, <1>3, <1>4, <1>5, <1>6, <1>7, <1>8, <1>9, <1>10, <1>11, <1>12 DEF Stepped

-----------------------------------------------------------------------------
(* Endpoints                                                               *)

\* A port in network order is a number.
LEMMA PortType == \A port \in Ports : port \in Nat /\ HToNS(port) \in Nat
<1> SUFFICES ASSUME NEW port \in Ports PROVE port \in Nat /\ HToNS(port) \in Nat
  OBVIOUS
<1>1. port \in Nat
  <2>1. MaxPort \in Nat
    BY SMT DEF MaxPort
  <2> QED
    BY <2>1, EndpointAssumption
<1> DEFINE byte == 256
<1>2. byte \in Nat \ {0}
  BY SMT
<1>3. HToNS(port) = (port % byte) * byte + port \div byte
  BY DEF HToNS
<1> HIDE DEF byte
<1>4. port % byte \in Nat /\ port \div byte \in Nat
  BY <1>1, <1>2
<1> QED
  BY <1>1, <1>2, <1>3, <1>4

\* make_endpoint of a good Ipv4 text.
LEMMA MakeFacts ==
  ASSUME NEW text \in Texts, NEW port \in Ports, NEW e \in MakeEndpoint(text, port)
  PROVE  /\ e \in Endpoints
         /\ ~BadText(text) /\ e.address.type = "Ipv4" =>
              /\ e.sa = PeerSockaddr(text.host, port)
              /\ Shown(e) = [host |-> text.host, port |-> port]
<1> DEFINE a == MakeAddress(text)
           e0 == [NoEndpoint EXCEPT !.address = a, !.port = port]
<1>1. /\ a \in [type : {"None", "Ipv4", "Ipv6"}, addr : Hosts \cup {Garbage}]
      /\ ~BadText(text) => a.addr = text.host
  BY DEF MakeAddress, Texts, BadText
<1>2. port \in Nat /\ HToNS(port) \in Nat
  BY PortType
<1> HIDE DEF a
<1>3. e0 \in Endpoints /\ e0.address = a /\ e0.port = port
  <2>1. NoSockaddr \in [family : {"unset", "None", "Ipv4", "Ipv6"}, port : Nat,
                        addr : Hosts \cup {Garbage}, scope : Nat]
    BY DEF NoSockaddr
  <2> DEFINE mid == [NoEndpoint EXCEPT !.address = a]
  <2>2. mid = [sa |-> NoSockaddr, address |-> a, port |-> MaxPort]
    BY DEF NoEndpoint
  <2>3. e0 = [mid EXCEPT !.port = port]
    OBVIOUS
  <2> HIDE DEF mid, e0
  <2>4. e0 = [sa |-> NoSockaddr, address |-> a, port |-> port]
    BY <2>2, <2>3
  <2> QED
    BY <1>1, <1>2, <2>1, <2>4 DEF Endpoints
<1>4. e \in ConvertToSockaddr(e0)
  BY DEF MakeEndpoint, a
<1> HIDE DEF e0
<1>5. CASE a.type = "None"
  BY <1>3, <1>4, <1>5 DEF ConvertToSockaddr
<1>6. CASE a.type # "None"
  <2>1. PICK c \in CopyAddr(a) :
          e = [e0 EXCEPT !.sa = [family |-> a.type, port |-> HToNS(port),
                                 addr |-> c.addr, scope |-> c.scope],
                         !.address.addr = c.source]
    BY <1>3, <1>4, <1>6 DEF ConvertToSockaddr
  <2>2. /\ c.addr \in Hosts \cup {Garbage} /\ c.source \in Hosts \cup {Garbage} /\ c.scope \in Nat
        /\ a.type = "Ipv4" => c.addr = a.addr /\ c.source = a.addr /\ c.scope = 0
    BY <1>1 DEF CopyAddr
  <2> DEFINE sa == [family |-> a.type, port |-> HToNS(port), addr |-> c.addr, scope |-> c.scope]
             addr == [e0.address EXCEPT !.addr = c.source]
             mid == [e0 EXCEPT !.sa = sa]
  <2>3. /\ sa \in [family : {"unset", "None", "Ipv4", "Ipv6"}, port : Nat,
                   addr : Hosts \cup {Garbage}, scope : Nat]
        /\ a.type = "Ipv4" /\ ~BadText(text) => sa = PeerSockaddr(text.host, port)
    BY <1>1, <1>2, <1>6, <2>2 DEF PeerSockaddr
  <2>4. /\ addr \in [type : {"None", "Ipv4", "Ipv6"}, addr : Hosts \cup {Garbage}]
        /\ addr.type = a.type /\ addr.addr = c.source
    BY <1>1, <1>3, <2>2
  <2>5. e = [mid EXCEPT !.address = [@ EXCEPT !.addr = c.source]]
    BY <2>1
  <2> HIDE DEF sa
  <2>6. mid \in Endpoints /\ mid.address = e0.address /\ mid.sa = sa /\ mid.port = port
    BY <1>3, <2>3 DEF Endpoints
  <2> HIDE DEF mid
  <2>7. e = [mid EXCEPT !.address = addr]
    BY <2>5, <2>6 DEF Endpoints
  <2> HIDE DEF addr
  <2>8. e \in Endpoints /\ e.address = addr /\ e.sa = sa /\ e.port = port
    BY <2>4, <2>6, <2>7 DEF Endpoints
  <2> QED
    BY <1>1, <2>2, <2>3, <2>4, <2>8 DEF Shown
<1> QED
  BY <1>5, <1>6

\* from_sockaddr shows the peer.
LEMMA PeerFacts ==
  ASSUME NEW e \in Endpoints, NEW h \in Hosts, NEW port \in Ports
  PROVE  LET r == FromSockaddr(e, PeerSockaddr(h, port))
         IN  r \in Endpoints /\ Shown(r).host = h
<1> DEFINE r == FromSockaddr(e, PeerSockaddr(h, port))
           a == SetAddress("Ipv4", h)
<1>1. a \in [type : {"None", "Ipv4", "Ipv6"}, addr : Hosts \cup {Garbage}] /\ a.addr = h
  BY DEF SetAddress
<1>2. HToNS(port) \in Nat
  BY PortType
<1>3. r = [e EXCEPT !.address = a, !.port = HToNS(port)]
  BY DEF FromSockaddr, PeerSockaddr
<1> HIDE DEF r, a
<1>4. r \in Endpoints /\ r.address = a
  BY <1>1, <1>2, <1>3 DEF Endpoints
<1> QED
  BY <1>1, <1>4 DEF Shown, r

\* What EndpointFaithful needs to be kept.
Endpointed == ep \in Endpoints /\ EndpointFaithful

\* Only the end of an accept changes the endpoint.
LEMMA StepEndpoint ==
  ASSUME Endpointed, Stepped
  PROVE  Endpointed'
<1>1. ASSUME ep' = ep, named' = named PROVE Endpointed'
  BY <1>1 DEF Endpointed, EndpointFaithful
<1>2. ASSUME NEW s \in Sockets, HandsOver(s) PROVE Endpointed'
  <2>1. PICK h \in Hosts, port \in Ports :
          /\ ep' = FromSockaddr(ep, PeerSockaddr(h, port))
          /\ named' = [from |-> "peer", host |-> h, port |-> port]
    BY <1>2 DEF HandsOver, EndAccept
  <2>2. ep' \in Endpoints /\ Shown(ep').host = h
    BY <2>1, PeerFacts DEF Endpointed
  <2>3. named'.from = "peer" /\ named'.host = h
    BY <2>1
  <2> QED
    BY <2>2, <2>3 DEF Endpointed, EndpointFaithful
<1>3. ASSUME NEW s \in Sockets,
             \/ \E t \in Sockets : MoveConstruct(s, t)
             \/ Destroy(s) \/ Closes(s) \/ Binds(s) \/ Listens(s) \/ Connects(s)
      PROVE  ep' = ep /\ named' = named
  BY <1>3 DEF MoveConstruct, Destroy, Closes, Binds, Listens, Connects, endpoint
<1>4. ASSUME NEW s \in Sockets,
             \/ Begins(s) \/ Settles(s) \/ Connected(s) \/ Returns(s)
             \/ \E f \in Fds : Brings(s, f)
             \/ \E new \in Files, f \in Fds : Opens(s, new, f)
      PROVE  ep' = ep /\ named' = named
  BY <1>4 DEF Begins, Settles, Connected, Returns, Brings, Opens
<1> QED
  BY <1>1, <1>2, <1>3, <1>4 DEF Stepped, Idles

-----------------------------------------------------------------------------
(* The inductive invariant                                                 *)

SocketInv ==
  /\ TypeOK
  /\ ObjectsSound
  /\ CallsSound
  /\ Owned
  /\ Truth
  /\ Endpointed

\* It holds at the beginning: no descriptor is open and no call is made.
LEMMA InitSocket == Init => SocketInv
<1> SUFFICES ASSUME Init PROVE SocketInv
  OBVIOUS
<1>1. /\ sock = [s \in Sockets |-> Closed] /\ file = [f \in Fds |-> NoFile]
      /\ call = [s \in Sockets |-> NoCall]
  BY DEF Init
<1>2. /\ Closed.fd = NoFd /\ Closed.opened = FALSE /\ Closed.bound = FALSE
      /\ Closed.connected = FALSE /\ Closed.listening = FALSE
      /\ NoFile.open = FALSE
      /\ NoCall.op = "none" /\ NoCall.state = "none" /\ NoCall.got = NoFd
      /\ NoCall.peer = NoSocket
  BY DEF Closed, NoFile, NoCall
<1>3. TypeOK
  <2>1. life \in [Sockets -> {"unborn", "alive", "dead"}] /\ stale \subseteq Acceptors
    BY DEF Init
  <2>2. /\ sock \in [Sockets -> Socks] /\ file \in [Fds -> Files]
        /\ call \in [Sockets -> Calls]
    BY <1>1, Blanks
  <2>3. stuck \in BOOLEAN
    BY DEF Init
  <2> QED
    BY <2>1, <2>2, <2>3, TypeParts
<1>4. /\ \A s \in Sockets : sock[s] = Closed /\ call[s] = NoCall
      /\ \A f \in Fds : file[f] = NoFile
  BY <1>1
<1>5. ObjectsSound /\ CallsSound
  BY <1>2, <1>4, SocketAssumption DEF ObjectsSound, CallsSound, Suspended
<1>6. Owned
  BY <1>2, <1>4, SocketAssumption DEF Owned
<1>7. Truth
  BY <1>2, <1>4, SocketAssumption DEF Truth, FlagsAt, CallAt, Suspended
<1>8. Endpointed
  <2>1. CASE ep = NoEndpoint /\ named = [from |-> "nothing", host |-> Garbage, port |-> 0]
    <3>1. MaxPort \in Nat
      BY SMT DEF MaxPort
    <3>2. NoEndpoint \in Endpoints
      BY <3>1 DEF NoEndpoint, NoSockaddr, NoAddress, Endpoints
    <3>3. named.from = "nothing"
      BY <2>1
    <3> QED
      BY <2>1, <3>2, <3>3 DEF Endpointed, EndpointFaithful
  <2>2. ASSUME NEW text \in Inputs, NEW port \in Ports,
               ep \in MakeEndpoint(text, port),
               named = [from |-> IF BadText(text) THEN "nothing" ELSE "text",
                        host |-> text.host, port |-> port]
        PROVE  Endpointed
    <3>1. text \in Texts
      BY SocketAssumption
    <3>2. /\ ep \in Endpoints
          /\ ~BadText(text) /\ ep.address.type = "Ipv4" =>
               /\ ep.sa = PeerSockaddr(text.host, port)
               /\ Shown(ep) = [host |-> text.host, port |-> port]
      BY <2>2, <3>1, MakeFacts
    <3>3. /\ named.from = IF BadText(text) THEN "nothing" ELSE "text"
          /\ named.host = text.host /\ named.port = port
      BY <2>2
    <3> QED
      BY <3>2, <3>3 DEF Endpointed, EndpointFaithful
  <2> QED
    BY <2>1, <2>2 DEF Init
<1> QED
  BY <1>3, <1>5, <1>6, <1>7, <1>8 DEF SocketInv

\* Every step keeps it.
LEMMA NextSocket == SocketInv /\ [Next]_vars => SocketInv'
<1> SUFFICES ASSUME SocketInv, [Next]_vars PROVE SocketInv'
  OBVIOUS
<1> USE DEF SocketInv
<1>1. Stepped
  BY StepCases
<1>2. TypeOK'
  BY <1>1, StepType, StepStuck
<1>3. ObjectsSound' /\ CallsSound'
  BY <1>1, StepObjects, StepCalls
<1>4. Owned'
  BY <1>1, StepOwned
<1>5. Truth'
  BY <1>1, <1>2, StepTruth
<1>6. Endpointed'
  BY <1>1, StepEndpoint
<1> QED
  BY <1>2, <1>3, <1>4, <1>5, <1>6

\* SocketInv is an invariant.
LEMMA SocketInvariance == Spec => []SocketInv
  BY InitSocket, NextSocket, PTL DEF Spec

-----------------------------------------------------------------------------
(* The theorems                                                            *)

\* Objects, descriptors and suspended calls have their types, whatever is
\* opened, moved, accepted or closed.
THEOREM SocketTypeCorrect == Spec => []TypeOK
<1>1. SocketInv => TypeOK
  BY DEF SocketInv
<1> QED
  BY <1>1, SocketInvariance, PTL

\* Owned and ObjectsSound in terms of the sets of owners.
LEMMA OwnedOwners ==
  ASSUME TypeOK, ObjectsSound, Owned
  PROVE  OwnedOnce
<1>1. \A s \in Sockets : sock[s].opened <=> sock[s].fd # NoFd
  BY DEF ObjectsSound
<1>2. ASSUME NEW f \in Fds
      PROVE  IF file[f].open THEN \E o \in Owners(f) : Owners(f) = {o} ELSE Owners(f) = {}
  <2>0. f # NoFd
    BY SocketAssumption
  <2>1. \A t \in Sockets : sock[t].fd = f => Alive(t)
    BY <2>0 DEF ObjectsSound
  <2> DEFINE Has == {t \in Sockets : Alive(t) /\ sock[t].fd = f}
             Gets == {t \in Sockets : call[t].got = f}
  <2>2. /\ \A s, t \in Has : s = t
        /\ \A s, t \in Gets : s = t
        /\ Has = {} \/ Gets = {}
    BY <2>0 DEF Owned
  <2>3. file[f].open <=> Has # {} \/ Gets # {}
    BY <2>1 DEF Owned
  <2>4. Owners(f) = {<<s, "object">> : s \in Has} \cup {<<s, "accept">> : s \in Gets}
    BY DEF Owners
  <2> HIDE DEF Has, Gets
  <2>5. CASE Has # {}
    <3>1. PICK s \in Has : TRUE
      BY <2>5
    <3>2. Has = {s} /\ Gets = {}
      BY <2>2, <3>1
    <3>3. Owners(f) = {<<s, "object">>}
      BY <2>4, <3>2, Zenon
    <3> QED
      BY <2>3, <2>5, <3>3, Zenon
  <2>6. CASE Gets # {}
    <3>1. PICK s \in Gets : TRUE
      BY <2>6
    <3>2. Gets = {s} /\ Has = {}
      BY <2>2, <3>1
    <3>3. Owners(f) = {<<s, "accept">>}
      BY <2>4, <3>2, Zenon
    <3> QED
      BY <2>3, <2>6, <3>3, Zenon
  <2>7. CASE Has = {} /\ Gets = {}
    BY <2>3, <2>4, <2>7, Zenon
  <2> QED
    BY <2>5, <2>6, <2>7
<1> QED
  BY <1>1, <1>2 DEF OwnedOnce

\* Every open descriptor has exactly one object, or one accept, that will close
\* it, and a closed one has none: over any number of objects and descriptors,
\* open, move, accept, close and destroy neither leak one nor close one twice.
THEOREM OwnedTheorem == Spec => []OwnedOnce
<1>1. SocketInv => OwnedOnce
  BY OwnedOwners DEF SocketInv
<1> QED
  BY <1>1, SocketInvariance, PTL

\* As long as no descriptor is closed and no object moved under a suspended call,
\* bound_ and connected_ are true of the descriptor behind the object, and so is
\* listening_ of an Acceptor that has not lost the descriptor it listened on.
THEOREM FlagsTheorem == Spec => []FlagsTrue
<1>1. ASSUME SocketInv PROVE FlagsTrue
  <2> SUFFICES ASSUME ~shared, NEW s \in Sockets, NEW behind,
                      behind = IF sock[s].fd \in Fds THEN file[sock[s].fd] ELSE NoFile
               PROVE  /\ sock[s].bound => behind.bound
                      /\ sock[s].connected => behind.conn = "yes"
                      /\ sock[s].listening /\ s \notin stale => behind.listening
    BY DEF FlagsTrue
  <2>1. FlagsAt(s)
    BY <1>1 DEF SocketInv, Truth
  <2> QED
    BY <2>1 DEF FlagsAt
<1> QED
  BY <1>1, SocketInvariance, PTL

\* As long as no descriptor is closed and no object moved under a suspended call,
\* every suspended call is about the descriptor its object holds, and none is
\* stranded: over any number of objects, the numbers that are given out again
\* after a close never reach a call that waits.
THEOREM CallsTheorem == Spec => []CallsKeepDescriptor
<1>1. ASSUME SocketInv PROVE CallsKeepDescriptor
  BY <1>1 DEF SocketInv, Truth, CallAt, CallsKeepDescriptor
<1> QED
  BY <1>1, SocketInvariance, PTL

\* make_endpoint of an Ipv4 text and from_sockaddr of a peer are faithful to the
\* address, for every host and port.
THEOREM EndpointTheorem == Spec => []EndpointFaithful
<1>1. SocketInv => EndpointFaithful
  BY DEF SocketInv, Endpointed
<1> QED
  BY <1>1, SocketInvariance, PTL

\* No operation that ends otherwise than well changes an object.
THEOREM FailureTheorem == Spec => FailureChangesNothing
<1>1. ASSUME SocketInv, [Next]_vars PROVE [last' # "ok" => sock' = sock]_vars
  <2>1. Stepped
    BY <1>1, StepCases DEF SocketInv
  <2>2. ASSUME NEW s \in Sockets,
               \/ \E t \in Sockets : MoveConstruct(s, t)
               \/ Destroy(s) \/ Closes(s) \/ Binds(s) \/ Listens(s) \/ HandsOver(s)
               \/ \E new \in Files, f \in Fds : Opens(s, new, f)
        PROVE  last' = "ok"
    BY <2>2 DEF MoveConstruct, Destroy, Closes, Binds, Listens, HandsOver, EndAccept, Opens,
       Succeed
  <2>3. ASSUME NEW s \in Sockets,
               \/ Connects(s) \/ Begins(s) \/ Settles(s) \/ Connected(s) \/ Returns(s)
               \/ \E f \in Fds : Brings(s, f)
        PROVE  last' = "ok" \/ sock' = sock
    BY <2>3 DEF Connects, Begins, Settles, Connected, Returns, Brings
  <2> QED
    BY <2>1, <2>2, <2>3 DEF Stepped, Idles
<1> QED
  BY <1>1, SocketInvariance, PTL DEF Spec, FailureChangesNothing

=============================================================================
