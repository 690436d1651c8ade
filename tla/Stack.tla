------------------------------- MODULE Stack -------------------------------
(***************************************************************************)
(* Network buffers and endpoints: the network input process (net.c, ip.c), *)
(* the UDP and ICMP endpoint tables (udp.c, icmp.c), the queue of outgoing *)
(* replies with its process ipout, and processes that register, receive,   *)
(* send and release.  Every packet is in a buffer of one pool.             *)
(*                                                                         *)
(* A call is cut where it blocks: in recvtime, in getbuf when the pool is  *)
(* empty, in arp_resolve, and in wait.  Buffers are counted; of a packet    *)
(* only what decides where it goes is kept.                                *)
(***************************************************************************)
EXTENDS Integers, Sequences, FiniteSets, FiniteSetsExt

CONSTANTS
  User,                              \* processes that use the network
  Remote,                            \* IP addresses, "self" is our own
  UDP_SLOTS, UDP_QSIZ, ICMP_SLOTS, ICMP_QSIZ, IP_OQSIZ

ASSUME StackAssumption ==
  /\ {UDP_SLOTS, UDP_QSIZ, ICMP_SLOTS, ICMP_QSIZ, IP_OQSIZ} \subseteq Nat \ {0}
  /\ ICMP_QSIZ <= ICMP_SLOTS                      \* 8 and 10 in icmp.h
  /\ "any" \notin Remote /\ "self" \in Remote
  /\ IsFiniteSet(User)

VARIABLES
  netbufpool,        \* the number of free buffers
  tab,               \* udptab and icmptab
  netin, ipout,      \* what the two processes of the network do
  ipoqueue,          \* outgoing replies: buffer and destination
  user, box,         \* the processes and their messages
  wild               \* why memory has been misused, or "none"

svars == <<netbufpool, tab, netin, ipout, ipoqueue, user, box, wild>>

NBufs   == UDP_SLOTS * UDP_QSIZ + ICMP_SLOTS * ICMP_QSIZ + 1
Proto   == {"udp", "icmp"}
Slots   == [udp |-> 0..(UDP_SLOTS - 1), icmp |-> 0..(ICMP_SLOTS - 1)]
QSIZ    == [udp |-> UDP_QSIZ, icmp |-> ICMP_QSIZ]

(* Where the head of a queue wraps, which for ICMP is not where the tail   *)
(* does: icmp_recv and icmp_release compare it with ICMP_SLOTS.            *)
HeadWraps == [udp |-> UDP_QSIZ, icmp |-> ICMP_SLOTS]

(* pid is kept while it is read, that is in state RECV.                    *)
FreeEndpoint ==
  [state |-> "FREE", rem |-> "any", head |-> 0, tail |-> 0, count |-> 0, pid |-> "none"]
Resting == [op |-> "idle"]

StackInit ==
  /\ netbufpool = NBufs
  /\ tab = [q \in Proto |-> [s \in Slots[q] |-> FreeEndpoint]]
  /\ netin = [op |-> "getbuf"] /\ ipout = [op |-> "wait"] /\ ipoqueue = <<>>
  /\ user = [p \in User |-> Resting] /\ box = [p \in User |-> "none"]
  /\ wild = "none"

Used(q) == {s \in Slots[q] : tab[q][s].state # "FREE"}
Waiting(p) == user[p].op = "recvtime"
WaitersOf(q, s) == {p \in User : Waiting(p) /\ user[p].q = q /\ user[p].slot = s}

(* The others that wait at a slot when somebody else changes it.           *)
Disturb(us, who) ==
  [p \in User |-> IF p \in who THEN [us[p] EXCEPT !.alone = FALSE] ELSE us[p]]

(* What udp_in and icmp_in do once they have found the slot s; us is what  *)
(* processes do then.                                                      *)
DepositKeepsState(q, s, us) ==
  /\ tab' = [tab EXCEPT ![q][s].count = @ + 1,
                       ![q][s].tail = IF @ + 1 >= QSIZ[q] THEN 0 ELSE @ + 1]
  /\ user' = us
  /\ UNCHANGED <<box, wild>>

Deposit(q, s, us) ==
  LET e    == tab[q][s]
      told == e.state = "RECV" /\ e.pid \in User /\ box[e.pid] = "none"
  IN
  /\ tab' = [tab EXCEPT ![q][s] =
       [e EXCEPT !.count = @ + 1, !.tail = IF @ + 1 >= QSIZ[q] THEN 0 ELSE @ + 1,
                 !.state = "USED", !.pid = "none"]]
  /\ box' = IF told THEN [box EXCEPT ![e.pid] = "OK"] ELSE box
  /\ user' = IF told /\ Waiting(e.pid) /\ e.pid \notin WaitersOf(q, s)
             THEN Disturb(us, {e.pid}) ELSE us
  /\ wild' = IF e.count >= QSIZ[q] THEN "overrun" ELSE wild
-----------------------------------------------------------------------------
(* ip_local and what it calls, for a packet that is no echo request, when  *)
(* `free' buffers are in the pool.   udp_in takes the first endpoint     *)
(* that matches and has room; icmp_in does not look for room.              *)
UdpTaker(pkt) ==
  {s \in Used("udp") : tab["udp"][s].rem \in {"any", pkt.src} /\ tab["udp"][s].count < UDP_QSIZ}

IcmpTaker(pkt) == {s \in Used("icmp") : pkt.ident = s /\ tab["icmp"][s].rem = pkt.src}

Taker(pkt) ==
  CASE pkt.kind = "udp"       -> UdpTaker(pkt)
    [] pkt.kind = "echoreply" -> IcmpTaker(pkt)
    [] OTHER                  -> {}

IpLocal(pkt, free, us) ==
  \/ /\ Taker(pkt) # {}
     /\ Deposit(IF pkt.kind = "udp" THEN "udp" ELSE "icmp", Min(Taker(pkt)), us)
     /\ netbufpool' = free
  \/ /\ Taker(pkt) = {}
     /\ netbufpool' = free + 1 /\ user' = us
     /\ UNCHANGED <<tab, box, wild>>

(* icmp_in for an echo request: icmp_mkpkt has to wait for another buffer, *)
(* ip_enqueue compares the semaphore with the size of the queue, and the   *)
(* buffer of the request is given back.                                    *)
Semcount == Len(ipoqueue) - (IF ipout.op = "released" THEN 1 ELSE 0)

EchoReply(pkt) ==
  /\ netbufpool > 0
  /\ \/ /\ Semcount >= IP_OQSIZ
        /\ netbufpool' = netbufpool + 1
        /\ UNCHANGED <<ipout, ipoqueue, wild>>
     \/ /\ Semcount < IP_OQSIZ
        /\ netbufpool' = netbufpool
        /\ ipoqueue' = Append(ipoqueue, [dst |-> pkt.src, ident |-> pkt.ident])
        /\ ipout' = IF ipout.op = "wait" /\ ipoqueue = <<>> THEN [op |-> "released"] ELSE ipout
        /\ wild' = IF Len(ipoqueue) = IP_OQSIZ THEN "overrun" ELSE wild

(* ip_in: which packets reach ip_local.  The rest is given back.           *)
Accepted(pkt, ipvalid) ==
  /\ pkt.valid                                    \* checksums and version
  /\ \/ pkt.dst = "IP_BCAST"
     \/ ~ipvalid /\ pkt.kind = "udp"
     \/ ipvalid /\ pkt.dst \in {"self", "ipbcast"}
-----------------------------------------------------------------------------
(* The network input process.                                              *)
NetinGetbuf ==
  /\ netin.op = "getbuf" /\ netbufpool > 0
  /\ netin' = [op |-> "read"]
  /\ netbufpool' = netbufpool - 1
  /\ UNCHANGED <<tab, ipout, ipoqueue, user, box, wild>>

NetinPacket(pkt, ipvalid) ==
  /\ netin.op = "read"
  /\ \/ /\ ~Accepted(pkt, ipvalid)                         \* also ARP and IPv6
        /\ netbufpool' = netbufpool + 1
        /\ netin' = [op |-> "getbuf"]
        /\ UNCHANGED <<tab, box, user, wild>>
     \/ /\ Accepted(pkt, ipvalid) /\ pkt.kind # "echorequest"
        /\ IpLocal(pkt, netbufpool, user)
        /\ netin' = [op |-> "getbuf"]
     \/ /\ Accepted(pkt, ipvalid) /\ pkt.kind = "echorequest"
        /\ netin' = [op |-> "icmp_mkpkt", pkt |-> pkt]
        /\ UNCHANGED <<netbufpool, tab, box, user, wild>>
  /\ UNCHANGED <<ipout, ipoqueue>>

NetinReplies ==
  /\ netin.op = "icmp_mkpkt"
  /\ EchoReply(netin.pkt)
  /\ netin' = [op |-> "getbuf"]
  /\ UNCHANGED <<tab, user, box>>

(* The output process, which takes the next reply when the last is gone.   *)
IpoutTakes ==
  LET r == Head(ipoqueue)
      pkt == [kind |-> "echoreply", src |-> "self", ident |-> r.ident]
  IN
  /\ ipout.op \in {"released", "wait"} /\ ipoqueue # <<>>
  /\ ipoqueue' = Tail(ipoqueue)
  /\ \/ /\ r.dst = "self" /\ IpLocal(pkt, netbufpool, user)
        /\ ipout' = [op |-> "wait"]
     \/ /\ r.dst # "self"                         \* arp_resolve
        /\ ipout' = [op |-> "arp_resolve"]
        /\ UNCHANGED <<netbufpool, tab, box, user, wild>>
  /\ UNCHANGED <<netin>>

(* Resolved or not, and for an invalid destination at once, the buffer is  *)
(* given back.                                                             *)
IpoutSends ==
  /\ ipout.op = "arp_resolve"
  /\ netbufpool' = netbufpool + 1
  /\ ipout' = [op |-> "wait"]
  /\ UNCHANGED <<tab, netin, ipoqueue, user, box, wild>>
-----------------------------------------------------------------------------
(* The calls of processes.  udp_register and icmp_register refuse a second *)
(* endpoint with the same addresses, and take the first free one.          *)
Registered(q, rem) == \E s \in Used(q) : tab[q][s].rem = rem

Register(p, q, rem) ==
  LET free == Slots[q] \ Used(q) IN
  /\ user[p].op = "idle" /\ free # {} /\ ~Registered(q, rem)
  /\ tab' = [tab EXCEPT ![q][Min(free)] =
       [@ EXCEPT !.state = "USED", !.rem = rem, !.count = 0, !.head = 0, !.tail = 0,
                 !.pid = "none"]]
  /\ user' = Disturb(user, WaitersOf(q, Min(free)))
  /\ UNCHANGED <<netbufpool, netin, ipout, ipoqueue, box, wild>>

(* The last part of udp_recv, udp_recvaddr and icmp_recv: the packet at    *)
(* the head is taken, whether there is one or not.                         *)
Dequeue(q, s, alone) ==
  LET e == tab[q][s] IN
  IF e.head >= QSIZ[q] \/ e.count <= 0
  THEN /\ wild' = IF e.head >= QSIZ[q] THEN "wrapped" ELSE IF alone THEN "empty" ELSE "shared"
       /\ UNCHANGED <<tab, netbufpool>>
  ELSE /\ tab' = [tab EXCEPT ![q][s] =
            [e EXCEPT !.state = "USED", !.pid = "none", !.count = @ - 1,
                      !.head = IF @ + 1 >= HeadWraps[q] THEN 0 ELSE @ + 1]]
       /\ netbufpool' = netbufpool + 1
       /\ UNCHANGED wild

Recv(p, q, s) ==
  /\ user[p].op = "idle" /\ tab[q][s].state = "USED"
  /\ \/ /\ tab[q][s].count # 0
        /\ Dequeue(q, s, TRUE)
        /\ user' = Disturb(user, WaitersOf(q, s))
        /\ UNCHANGED box
     \/ /\ tab[q][s].count = 0
        /\ tab' = [tab EXCEPT ![q][s].state = "RECV", ![q][s].pid = p]
        /\ user' = [Disturb(user, WaitersOf(q, s)) EXCEPT ![p] =
             [op |-> "recvtime", q |-> q, slot |-> s, woken |-> FALSE, alone |-> TRUE]]
        /\ box' = [box EXCEPT ![p] = "none"]
        /\ UNCHANGED <<netbufpool, wild>>
  /\ UNCHANGED <<netin, ipout, ipoqueue>>

RecvTimer(p) ==
  /\ Waiting(p) /\ ~user[p].woken /\ box[p] = "none"
  /\ user' = [user EXCEPT ![p].woken = TRUE]
  /\ UNCHANGED <<netbufpool, tab, netin, ipout, ipoqueue, box, wild>>

(* recvtime returns: the endpoint is in use again, whatever it is now.     *)
RecvResumes(p) ==
  LET q == user[p].q  s == user[p].slot IN
  /\ Waiting(p) /\ (box[p] # "none" \/ user[p].woken)
  /\ \/ box[p] = "OK" /\ Dequeue(q, s, user[p].alone)
     \/ /\ box[p] # "OK"                          \* TIMEOUT or SYSERR
        /\ tab' = [tab EXCEPT ![q][s].state = "USED", ![q][s].pid = "none"]
        /\ UNCHANGED <<netbufpool, wild>>
  /\ user' = [Disturb(user, WaitersOf(q, s)) EXCEPT ![p] = Resting]
  /\ box' = [box EXCEPT ![p] = "none"]
  /\ UNCHANGED <<netin, ipout, ipoqueue>>

(* udp_release and icmp_release give the queued packets back; only the     *)
(* latter refuses an endpoint that somebody waits at.                      *)
ReleaseForgetsQueue(p, q, s) ==
  /\ user[p].op = "idle" /\ tab[q][s].state = "USED"
  /\ tab' = [tab EXCEPT ![q][s] = [@ EXCEPT !.state = "FREE", !.count = 0]]
  /\ UNCHANGED <<netbufpool, netin, ipout, ipoqueue, user, box, wild>>

Releasable(q, s) == tab[q][s].state \in {"USED"} \cup (IF q = "udp" THEN {"RECV"} ELSE {})

Release(p, q, s) ==
  LET e == tab[q][s] IN
  /\ user[p].op = "idle" /\ Releasable(q, s)
  /\ wild' = IF \E i \in 0..(e.count - 1) : (e.head + i) % HeadWraps[q] >= QSIZ[q]
             THEN "wrapped" ELSE wild
  /\ netbufpool' = netbufpool + e.count
  /\ tab' = [tab EXCEPT ![q][s] =
       [e EXCEPT !.state = "FREE", !.pid = "none", !.count = 0,
                 !.head = (@ + e.count) % HeadWraps[q]]]
  /\ user' = Disturb(user, WaitersOf(q, s))
  /\ UNCHANGED <<netin, ipout, ipoqueue, box>>

(* udp_send, udp_sendto and icmp_send: a buffer, then ip_send, which hands *)
(* it to the local stack, to the wire, or gives it back; a packet for      *)
(* another host first waits for arp_resolve.                               *)
IpSend(p, pkt) ==
  /\ netbufpool > 0
  /\ \/ /\ pkt.dst = "self" /\ pkt.kind # "echorequest"
        /\ IpLocal(pkt, netbufpool - 1, [user EXCEPT ![p] = Resting])
     \/ /\ pkt.dst = "self" /\ pkt.kind = "echorequest"
        /\ user' = [user EXCEPT ![p] = [op |-> "icmp_mkpkt", pkt |-> pkt]]
        /\ netbufpool' = netbufpool - 1
        /\ UNCHANGED <<tab, box, wild>>
     \/ /\ pkt.dst \in {"IP_BCAST", "noroute"}
        /\ user' = [user EXCEPT ![p] = Resting]
        /\ UNCHANGED <<netbufpool, tab, box, wild>>
     \/ /\ pkt.dst = "host"
        /\ user' = [user EXCEPT ![p] = [op |-> "arp_resolve"]]
        /\ netbufpool' = netbufpool - 1
        /\ UNCHANGED <<tab, box, wild>>
  /\ UNCHANGED <<netin, ipout, ipoqueue>>

Send(p, pkt) ==
  /\ user[p].op = "idle"
  /\ \/ IpSend(p, pkt)
     \/ /\ netbufpool = 0
        /\ user' = [user EXCEPT ![p] = [op |-> "getbuf", pkt |-> pkt]]
        /\ UNCHANGED <<netbufpool, tab, netin, ipout, ipoqueue, box, wild>>

SendResumes(p) == user[p].op = "getbuf" /\ IpSend(p, user[p].pkt)

UserSends(p) ==
  /\ user[p].op = "arp_resolve"
  /\ netbufpool' = netbufpool + 1
  /\ user' = [user EXCEPT ![p] = Resting]
  /\ UNCHANGED <<tab, netin, ipout, ipoqueue, box, wild>>

UserReplies(p) ==
  /\ user[p].op = "icmp_mkpkt"
  /\ EchoReply(user[p].pkt)
  /\ user' = [user EXCEPT ![p] = Resting]
  /\ UNCHANGED <<tab, netin, box>>

(* A child that ends sends its parent a message; a receiver may be killed, *)
(* which leaves its endpoint as it is.                                     *)
ChildEnds(p) ==
  /\ Waiting(p) /\ box[p] = "none"
  /\ box' = [box EXCEPT ![p] = "pid"]
  /\ UNCHANGED <<netbufpool, tab, netin, ipout, ipoqueue, user, wild>>

KillReceiver(p) ==
  /\ Waiting(p)
  /\ user' = [user EXCEPT ![p] = Resting] /\ box' = [box EXCEPT ![p] = "none"]
  /\ UNCHANGED <<netbufpool, tab, netin, ipout, ipoqueue, wild>>

(* Once memory has been misused anything may follow: the model stops.      *)
StackNext(Packets, Sends) ==
  \/ /\ wild = "none"
     /\ \/ NetinGetbuf \/ NetinReplies \/ IpoutTakes \/ IpoutSends
        \/ \E pkt \in Packets, ipvalid \in BOOLEAN : NetinPacket(pkt, ipvalid)
        \/ \E p \in User :
             \/ RecvTimer(p) \/ RecvResumes(p) \/ ChildEnds(p) \/ KillReceiver(p)
             \/ SendResumes(p) \/ UserSends(p) \/ UserReplies(p)
             \/ \E pkt \in Sends : Send(p, pkt)
             \/ \E q \in Proto :
                  \/ \E rem \in Remote \cup (IF q = "udp" THEN {"any"} ELSE {}) : Register(p, q, rem)
                  \/ \E s \in Slots[q] : Recv(p, q, s) \/ Release(p, q, s)
  \/ wild # "none" /\ UNCHANGED svars

StackSpec(Packets, Sends) == StackInit /\ [][StackNext(Packets, Sends)]_svars
-----------------------------------------------------------------------------
(* Buffers that processes hold, and packets queued at endpoints.           *)
Held == Cardinality({p \in User : user[p].op \in {"arp_resolve", "icmp_mkpkt"}})
        + (IF netin.op = "getbuf" THEN 0 ELSE 1) + (IF ipout.op = "arp_resolve" THEN 1 ELSE 0)

Endpoints == UNION {{<<q, s>> : s \in Slots[q]} : q \in Proto}
Queued == UNION {{<<x, i>> : i \in 1..tab[x[1]][x[2]].count} : x \in Endpoints}

(* No buffer is lost or given back twice on any path a packet can take,    *)
(* and a queue holds the packets it counts, next to each other.            *)
BuffersConserved ==
  wild = "none" =>
    /\ netbufpool + Held + Len(ipoqueue) + Cardinality(Queued) = NBufs
    /\ \A x \in Endpoints : LET e == tab[x[1]][x[2]] IN
         e.count \in 0..QSIZ[x[1]] /\ e.tail = (e.head + e.count) % QSIZ[x[1]]

(* A process that waits for a packet, and at whose endpoint no other       *)
(* process has been active, will be told of the next one, and has not been *)
(* told of one that is not there: when it is told OK it finds a packet.    *)
WaiterOwnsEndpoint ==
  /\ wild # "empty"
  /\ wild = "none" => \A p \in User : Waiting(p) /\ user[p].alone =>
       LET e == tab[user[p].q][user[p].slot] IN
       \/ e.state = "RECV" /\ e.pid = p /\ e.count = 0 /\ box[p] # "OK"
       \/ e.state = "USED" /\ e.count > 0
=============================================================================
