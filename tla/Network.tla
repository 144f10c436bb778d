------------------------------ MODULE Network -------------------------------
(***************************************************************************)
(* The network card's interrupt (src/kernel/network.cc), the network       *)
(* process that sends, retries and dispatches packets (NetworkProcess.cc), *)
(* and the socket system calls (syscall.cc 24 and 30 to 32).               *)
(*                                                                         *)
(* The handler runs with interrupts off, and every queue is changed with   *)
(* interrupts off: each is one action.  The network process may be         *)
(* interrupted between any two of them.  A packet is the record of its     *)
(* purpose, its address and an id; what it carries is left out.  The card  *)
(* and the other hosts are external.                                       *)
(***************************************************************************)
EXTENDS Integers, Sequences, Functions

CONSTANTS Proc, Port,     \* the user processes, and the ports of portTable
          Host, Loop,     \* the addresses of other hosts, and 127.0.0.1
          Self,           \* myIP, the address of this host
          RetryAfter,     \* 100 ms
          MsRange,        \* Pit::milliseconds() is below 2^32 / hz
          MaxIds          \* bound on the frames and packets of a behaviour

None == [kind |-> "none", id |-> 0]
Nobody == "nobody"

\* Where the card and the network process keep packets; "hand" is nextPacket.
NetQueues == {"ring", "receiving", "hand", "sending", "tryAgain"}

ASSUME NetworkAssumption == /\ RetryAfter \in Nat \ {0}
                            /\ MsRange \in Nat /\ MsRange > RetryAfter
                            /\ MaxIds \in Nat
                            /\ Loop \notin Host /\ Self \notin Host \cup {Loop}
                            /\ Proc \cap (NetQueues \cup {Nobody}) = {}

VARIABLES ring,       \* the frames in the card's receive buffer, oldest first
          rxOk,       \* the card's interrupt status: a packet was received
          arp,        \* the hosts in the ARP cache
          sending, receiving, tryAgain,   \* the queues of the network process
          np,         \* where run() is
          cur,        \* nextPacket
          ms,         \* Pit::milliseconds()
          portTable,  \* the owner of the socket of each port
          sockets,    \* the ports for which a process has a socket
          inbox,      \* receivedPacketsQueue of each process
          sent,       \* the ids of what was given to the card
          ids         \* how many frames and packets there were

queues == <<sending, receiving, tryAgain>>
users == <<portTable, sockets, inbox>>
vars == <<ring, rxOk, arp, queues, np, cur, ms, users, sent, ids>>

Kinds == {"arpRequest", "arpReply", "echoReply", "ping", "P439"}
Packet(kind, host, port, id) ==
    [kind |-> kind, host |-> host, port |-> port, id |-> id, sendTime |-> 0]
NewId == ids' = ids + 1 /\ ids < MaxIds

Init ==
    /\ ring = <<>> /\ rxOk = FALSE
    /\ arp = {}
    /\ sending = <<>> /\ receiving = <<>> /\ tryAgain = <<>>
    /\ np = "send" /\ cur = None
    /\ ms = 0
    /\ portTable = [q \in Port |-> Nobody]
    /\ sockets = [p \in Proc |-> {}]
    /\ inbox = [p \in Proc |-> <<>>]
    /\ sent = {} /\ ids = 0

-----------------------------------------------------------------------------
(***************************************************************************)
(* The card and its interrupt.                                             *)
(***************************************************************************)

\* A frame arrives: ARP, an echo request or data, or one for somebody else.
Arrive(kind, host, port) ==
    /\ NewId
    /\ ring' = Append(ring, Packet(kind, host, port, ids'))
    /\ rxOk' = TRUE
    /\ UNCHANGED <<arp, queues, np, cur, ms, users, sent>>
Frames == \E host \in Host :
    \/ \E kind \in {"arp", "echoRequest", "other"} : Arrive(kind, host, Nobody)
    \/ \E port \in Port : Arrive("P439", host, port)

\* ARPCache: AddEntry and GetEntry.
AddEntry(host) == arp' = arp \cup {host}
GetEntry(host) == host \in arp

\* The frame has this host's address, or that of all hosts.
isCurrentPacketForUs(f) == f.kind # "other"

\* The frame goes back to where it came from.
resplondToEchoRequest(f) == sending' = Append(sending, [f EXCEPT !.kind = "echoReply"])

\* One frame.  The sender of any ARP frame enters the cache and gets a reply.
handlePacketReceiveInterrupt ==
    LET f == Head(ring)
        Is(kind) == isCurrentPacketForUs(f) /\ f.kind = kind
    IN  /\ ring' = Tail(ring)
        /\ IF Is("arp") THEN AddEntry(f.host) ELSE UNCHANGED arp
        /\ CASE Is("arp") -> sending' = Append(sending, [f EXCEPT !.kind = "arpReply"])
             [] Is("echoRequest") -> resplondToEchoRequest(f)
             [] OTHER -> UNCHANGED sending
        /\ receiving' = IF Is("P439") THEN Append(receiving, f) ELSE receiving

\* The interrupt for a frame that was received is acknowledged.
HandleNetworkInterrupt ==
    /\ rxOk /\ np # "corrupt"
    /\ handlePacketReceiveInterrupt
    /\ rxOk' = FALSE
    /\ UNCHANGED <<tryAgain, np, cur, ms, users, sent, ids>>

-----------------------------------------------------------------------------
(***************************************************************************)
(* NetworkProcess::run.                                                    *)
(***************************************************************************)

\* The next packet to send, or on to the retries.
TakeToSend ==
    /\ np = "send"
    /\ IF sending = <<>>
       THEN np' = "retry" /\ UNCHANGED <<sending, cur>>
       ELSE np' = "sending" /\ cur' = Head(sending) /\ sending' = Tail(sending)
    /\ UNCHANGED <<ring, rxOk, arp, receiving, tryAgain, ms, users, sent, ids>>

NeedsMac(p) == p.kind \in {"ping", "P439"}

\* A frame is given to the card: a reply as it is, what needs a MAC address
\* with its headers, and an ARP request, which is not told from others.
sendPacket(p) == sent' = sent \cup {p.id}
ping(p) == p.kind = "ping" /\ sendPacket(p)
sendP439Packet(p) == p.kind = "P439" /\ sendPacket(p)
sendReply(p) == p.kind \in {"arpReply", "echoReply"} /\ sendPacket(p)
sendARPRequest(p) == p.kind = "arpRequest" /\ UNCHANGED sent
Transmit(p) == sendReply(p) \/ ping(p) \/ sendP439Packet(p) \/ sendARPRequest(p)

\* Mutant: the packet that has to wait is sent again at once, too.
SendPacketTwice ==
    /\ np = "sending" /\ np' = "send" /\ cur' = None
    /\ IF NeedsMac(cur) /\ ~GetEntry(cur.host)
       THEN /\ sending' = sending \o <<Packet("arpRequest", cur.host, Nobody, 0), cur>>
            /\ tryAgain' = Append(tryAgain, [cur EXCEPT !.sendTime = ms + RetryAfter])
            /\ UNCHANGED sent
       ELSE Transmit(cur) /\ UNCHANGED <<sending, tryAgain>>
    /\ UNCHANGED <<ring, rxOk, arp, receiving, ms, users, ids>>

\* SendPacket.  Without a MAC address an ARP request is sent next, and the
\* packet has to wait.
SendPacket ==
    /\ np = "sending" /\ np' = "send" /\ cur' = None
    /\ IF NeedsMac(cur) /\ ~GetEntry(cur.host)
       THEN /\ sending' = Append(sending, Packet("arpRequest", cur.host, Nobody, 0))
            /\ tryAgain' = Append(tryAgain, [cur EXCEPT !.sendTime = ms + RetryAfter])
            /\ UNCHANGED sent
       ELSE Transmit(cur) /\ UNCHANGED <<sending, tryAgain>>
    /\ UNCHANGED <<ring, rxOk, arp, receiving, ms, users, ids>>

\* The first of those that wait has waited long enough.
Due == tryAgain # <<>> /\ Head(tryAgain).sendTime <= ms

\* Mutant: the packet leaves one queue and does not enter the other.
RetryLoses ==
    /\ np = "retry" /\ Due
    /\ tryAgain' = Tail(tryAgain)
    /\ UNCHANGED <<ring, rxOk, arp, sending, receiving, np, cur, ms, users, sent, ids>>

\* The first of those that wait is sent again when its time has come.
Retry ==
    /\ np = "retry" /\ Due
    /\ sending' = Append(sending, Head(tryAgain))
    /\ tryAgain' = Tail(tryAgain)
    /\ UNCHANGED <<ring, rxOk, arp, receiving, np, cur, ms, users, sent, ids>>

\* Mutant: nothing is received as long as a packet waits.
EndRetriesOnly ==
    /\ np = "retry" /\ ~Due
    /\ np' = IF tryAgain = <<>> THEN "receive" ELSE "send"
    /\ UNCHANGED <<ring, rxOk, arp, queues, cur, ms, users, sent, ids>>

\* No packet is due.
EndRetries ==
    /\ np = "retry" /\ ~Due
    /\ np' = "receive"
    /\ UNCHANGED <<ring, rxOk, arp, queues, cur, ms, users, sent, ids>>

\* Mutant: the packet that was received last is dispatched first.
TakeReceivedLast ==
    /\ np = "receive"
    /\ IF receiving = <<>>
       THEN np' = "send" /\ UNCHANGED <<receiving, cur>>
       ELSE /\ np' = "dispatch" /\ cur' = receiving[Len(receiving)]
            /\ receiving' = SubSeq(receiving, 1, Len(receiving) - 1)
    /\ UNCHANGED <<ring, rxOk, arp, sending, tryAgain, ms, users, sent, ids>>

\* The next packet to dispatch; after the last one run() yields.
TakeReceived ==
    /\ np = "receive"
    /\ IF receiving = <<>>
       THEN np' = "send" /\ UNCHANGED <<receiving, cur>>
       ELSE np' = "dispatch" /\ cur' = Head(receiving) /\ receiving' = Tail(receiving)
    /\ UNCHANGED <<ring, rxOk, arp, sending, tryAgain, ms, users, sent, ids>>

\* The owner of the port's socket gets the packet.  Nobody's port is a null
\* pointer, which kills the process; a closed socket is freed memory.
Dispatch ==
    LET owner == portTable[cur.port]
    IN  /\ np = "dispatch"
        /\ CASE owner = Nobody -> np' = "killed" /\ UNCHANGED <<cur, inbox>>
             [] owner # Nobody /\ cur.port \notin sockets[owner] ->
                    np' = "corrupt" /\ UNCHANGED <<cur, inbox>>
             [] OTHER -> /\ np' = "receive"
                         /\ cur' = None
                         /\ inbox' = [inbox EXCEPT ![owner] = Append(@, cur)]
        /\ UNCHANGED <<ring, rxOk, arp, queues, ms, portTable, sockets, sent, ids>>

\* The clock.  When jiffies * 1000 does not fit in 32 bits it starts again.
Tick == /\ ms' = (ms + 1) % MsRange
        /\ UNCHANGED <<ring, rxOk, arp, queues, np, cur, users, sent, ids>>

-----------------------------------------------------------------------------
(***************************************************************************)
(* System calls.                                                           *)
(***************************************************************************)

\* OpenSocket: whoever had the port before is not asked.
OpenSocket(p, port) ==
    /\ np # "corrupt"
    /\ sockets' = [sockets EXCEPT ![p] = @ \cup {port}]
    /\ portTable' = [portTable EXCEPT ![port] = p]
    /\ UNCHANGED <<ring, rxOk, arp, queues, np, cur, ms, inbox, sent, ids>>

\* close of a socket: portTable still has it.
CloseSocket(p, port) ==
    /\ np # "corrupt" /\ port \in sockets[p]
    /\ sockets' = [sockets EXCEPT ![p] = @ \ {port}]
    /\ UNCHANGED <<ring, rxOk, arp, queues, np, cur, ms, portTable, inbox, sent, ids>>

\* Is it the address of this host?
CheckIP(host) == host = Self

\* WriteSocket and WriteToSocket: nothing is sent to this host's own address (-2);
\* a packet for 127.0.0.1 comes back if somebody has the port, else it is nowhere.
WriteSocket(p, host, port) ==
    /\ np # "corrupt" /\ sockets[p] # {} /\ ~CheckIP(host) /\ NewId
    /\ LET packet == Packet("P439", host, port, ids')
       IN  IF host # Loop
           THEN sending' = Append(sending, packet) /\ UNCHANGED receiving
           ELSE /\ portTable[port] # Nobody
                /\ receiving' = Append(receiving, packet)
                /\ UNCHANGED sending
    /\ UNCHANGED <<ring, rxOk, arp, tryAgain, np, cur, ms, users, sent>>

Ping(host) ==
    /\ np # "corrupt" /\ NewId
    /\ sending' = Append(sending, Packet("ping", host, Nobody, ids'))
    /\ UNCHANGED <<ring, rxOk, arp, receiving, tryAgain, np, cur, ms, users, sent>>

\* ReadSocket: the process's first packet is gone even when it is for another
\* of its sockets or too long for the buffer.
ReadSocket(p) ==
    /\ np # "corrupt" /\ sockets[p] # {} /\ inbox[p] # <<>>
    /\ inbox' = [inbox EXCEPT ![p] = Tail(@)]
    /\ UNCHANGED <<ring, rxOk, arp, queues, np, cur, ms, portTable, sockets, sent, ids>>

Run == TakeToSend \/ SendPacket \/ Retry \/ EndRetries \/ TakeReceived \/ Dispatch

Next == \/ Frames \/ HandleNetworkInterrupt
        \/ Run
        \/ Tick
        \/ \E p \in Proc :
             \/ ReadSocket(p)
             \/ \E port \in Port :
                  \/ OpenSocket(p, port) \/ CloseSocket(p, port)
                  \/ \E host \in Host \cup {Loop, Self} : WriteSocket(p, host, port)
        \/ \E host \in Host : Ping(host)

Spec == Init /\ [][Next]_vars

\* The card's interrupt is taken, the clock goes on, and the network process
\* is scheduled like any other: so often that the clock does not come to a
\* time and start again without the process seeing it.
FairSpec == /\ Spec
            /\ WF_vars(HandleNetworkInterrupt)
            /\ WF_vars(Tick)
            /\ WF_vars(Run) /\ SF_vars(Retry)
            /\ []<>Due => []<>(Due /\ np = "retry")

-----------------------------------------------------------------------------

PacketType == [kind : Kinds \cup {"arp", "echoRequest", "other"},
               host : Host \cup {Loop}, port : Port \cup {Nobody},
               id : 0 .. MaxIds, sendTime : 0 .. MsRange + RetryAfter - 1]

TypeOK ==
    /\ {ring, sending, receiving, tryAgain} \subseteq Seq(PacketType)
    /\ rxOk \in BOOLEAN /\ arp \subseteq Host
    /\ np \in {"send", "sending", "retry", "receive", "dispatch", "killed", "corrupt"}
    /\ cur \in PacketType \cup {None}
    /\ ms \in 0 .. MsRange - 1
    /\ portTable \in [Port -> Proc \cup {Nobody}]
    /\ sockets \in [Proc -> SUBSET Port]
    /\ inbox \in [Proc -> Seq(PacketType)]
    /\ ids \in 0 .. MaxIds /\ sent \subseteq 1 .. ids

InHand(states) == IF np \in states THEN <<cur>> ELSE <<>>
Path == InHand({"dispatch"}) \o receiving \o ring

\* Two packets of data from one host for one port came in this order.
After(f, g) ==
    f.kind = "P439" /\ g.kind = "P439" /\ f.host = g.host /\ f.port = g.port => f.id < g.id
Sorted(way) == \A j, k \in DOMAIN way : j < k => After(way[j], way[k])

\* Data that came from one host for one port is in the order in which it came,
\* from the card's buffer over the queues and the network process to the inbox
\* of the port's owner, whatever is interrupted on the way.
InOrder == \A p \in Proc : Sorted(inbox[p] \o Path)

\* All places where packets are.
Queue == [q \in Proc \cup NetQueues |->
            CASE q = "ring" -> ring
              [] q = "receiving" -> receiving
              [] q = "sending" -> sending
              [] q = "tryAgain" -> tryAgain
              [] q = "hand" -> InHand({"dispatch", "sending"})
              [] OTHER -> inbox[q]]

\* A packet is in one place: it is not sent and kept, queued twice or given to
\* two processes, and so it is deleted once.
Apart(queue, out) ==
    \A q, r \in DOMAIN queue : \A j \in DOMAIN queue[q], k \in DOMAIN queue[r] :
        queue[q][j].id # 0 =>
            /\ queue[q][j].id \notin out
            /\ queue[q][j].id = queue[r][k].id => q = r /\ j = k
OnePlace == TypeOK /\ Apart(Queue, sent)

\* The network process waits for nothing: unless it is dead, what is in the
\* queues for a host in the cache is sent, if the retries it waits behind have
\* a time that the clock can reach.
Ids(seq) == {p.id : p \in Range(seq)}
Stuck == np \in {"killed", "corrupt"}
KnownHostsServed ==
    \A id \in 1 .. MaxIds :
        (/\ \E p \in Range(sending \o tryAgain) : p.id = id /\ (NeedsMac(p) => p.host \in arp)
         /\ \A p \in Range(tryAgain) : p.sendTime < MsRange)
        ~> (id \in sent \/ Stuck)

\* Every packet for a host in the cache is sent ("send packets").
KnownHostsAlwaysServed ==
    \A id \in 1 .. MaxIds :
        (\E p \in Range(tryAgain) : p.id = id /\ p.host \in arp)
        ~> (id \in sent \/ Stuck)

\* What was received is dispatched or kills the network process.
ReceivedDispatched ==
    \A id \in 1 .. MaxIds :
        (id \in Ids(receiving)) ~> (id \notin Ids(receiving) \/ Stuck)

\* A frame in the card's buffer is handled: the interrupt is acknowledged when
\* "a packet has been received, and is now in rx_buffer".
EveryFrameHandled ==
    \A id \in 1 .. MaxIds :
        (id \in Ids(ring)) ~> (id \notin Ids(ring) \/ Stuck)

\* The network process goes on dispatching packets, whatever port they name.
DispatchSurvives == np # "killed"
=============================================================================
