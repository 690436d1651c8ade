-------------------------------- MODULE Arp --------------------------------
(***************************************************************************)
(* Address resolution (net/arp.c): a cache that the network input process  *)
(* (arp_in) and the processes that send packets (arp_resolve) share.  A    *)
(* resolver blocks in recvtime until arp_in, or anybody, sends it a        *)
(* message; a released resolver runs some time later.                      *)
(*                                                                         *)
(* The Ethernet address of a host is written as its IP address: an answer  *)
(* is right if haddr is the address asked for.                             *)
(***************************************************************************)
EXTENDS Naturals, FiniteSets, FiniteSetsExt

CONSTANTS
  Resolver,              \* processes, by their identifiers
  Host,                  \* IP addresses of other computers
  ARP_SIZ, ARP_RETRY,
  Stray                  \* messages to a resolver that arp_in did not send

ASSUME ArpAssumption ==
  /\ ARP_SIZ \in Nat \ {0} /\ ARP_RETRY \in Nat \ {0}
  /\ Stray \subseteq {"TIMEOUT", "SYSERR", "other"}
  /\ "zero" \notin Host /\ "IP_BCAST" \notin Host

VARIABLES
  arpcache,
  arppc,                 \* what each resolver is doing, or its last result
  mailbox                \* its message, or "none"

arpvars == <<arpcache, arppc, mailbox>>

Slot == 0..(ARP_SIZ - 1)
Zeroed == [arstate |-> "AR_FREE", arpaddr |-> "zero", arpid |-> "zero", arhaddr |-> "zero"]

(* A call that returned an address: the right one, or a wrong one when the *)
(* call had been disturbed, or when not.                                   *)
Returned(dst, haddr, disturbed) ==
  [op |-> "idle",
   answer |-> IF haddr = dst THEN "right" ELSE IF disturbed THEN "excused" ELSE "wrong"]
NoAnswer == [op |-> "idle", answer |-> "none"]   \* SYSERR or TIMEOUT

ArpInit ==
  /\ arpcache = [s \in Slot |-> Zeroed]
  /\ arppc = [p \in Resolver |-> NoAnswer]
  /\ mailbox = [p \in Resolver |-> "none"]

InState(st) == {s \in Slot : arpcache[s].arstate = st}
Holding(a)  == {s \in Slot \ InState("AR_FREE") : arpcache[s].arpaddr = a}
Waits(p)    == arppc[p].op = "recvtime"
-----------------------------------------------------------------------------
(* arp_alloc: the slots it can return, none if every entry is pending.     *)
ArpAlloc ==
  IF InState("AR_FREE") # {} THEN {Min(InState("AR_FREE"))}
  ELSE IF InState("AR_RESOLVED") # {} THEN {Min(InState("AR_RESOLVED"))}
  ELSE {}

(* Those of `who' that still have to read their slot are disturbed: it has *)
(* been taken or freed, or the message they will get is not the reply.     *)
Disturbed(pcs, who) ==
  [p \in Resolver |-> IF p \in who /\ pcs[p].op = "recvtime"
                      THEN [pcs[p] EXCEPT !.disturbed = TRUE] ELSE pcs[p]]
Readers(s) == {p \in Resolver : Waits(p) /\ arppc[p].slot = s}
Losers(s)  == IF arpcache[s].arstate = "AR_PENDING" THEN {} ELSE Readers(s)

(* arp_resolve, up to its first recvtime.                                  *)
ArpResolve(p, a) ==
  /\ ~Waits(p)
  /\ \/ /\ a = "IP_BCAST"
        /\ arppc' = [arppc EXCEPT ![p] = Returned(a, a, FALSE)]
        /\ UNCHANGED <<arpcache, mailbox>>
     \/ /\ a # "IP_BCAST"
        /\ \E s \in Holding(a) :
             arppc' = [arppc EXCEPT ![p] =
               IF arpcache[s].arstate = "AR_RESOLVED"
               THEN Returned(a, arpcache[s].arhaddr, FALSE)
               ELSE NoAnswer]
        /\ UNCHANGED <<arpcache, mailbox>>
     \/ /\ a # "IP_BCAST" /\ Holding(a) = {} /\ ArpAlloc = {}
        /\ arppc' = [arppc EXCEPT ![p] = NoAnswer]
        /\ UNCHANGED <<arpcache, mailbox>>
     \/ /\ a # "IP_BCAST" /\ Holding(a) = {}
        /\ \E s \in ArpAlloc :
             /\ arpcache' = [arpcache EXCEPT ![s] =
                  [Zeroed EXCEPT !.arstate = "AR_PENDING", !.arpaddr = a, !.arpid = p]]
             /\ arppc' = [Disturbed(arppc, Losers(s)) EXCEPT ![p] =
                  [op |-> "recvtime", slot |-> s, dst |-> a, tries |-> 1,
                   woken |-> FALSE, disturbed |-> FALSE]]
        /\ mailbox' = [mailbox EXCEPT ![p] = "none"]

(* The timer of recvtime runs out; the process becomes ready.              *)
ArpTimer(p) ==
  /\ Waits(p) /\ ~arppc[p].woken /\ mailbox[p] = "none"
  /\ arppc' = [arppc EXCEPT ![p].woken = TRUE]
  /\ UNCHANGED <<arpcache, mailbox>>

(* arp_resolve, when recvtime returns: a message of value TIMEOUT counts   *)
(* as a timeout, any other than SYSERR as an answer.                       *)
ArpResumes(p) ==
  LET e == arppc[p]  msg == IF mailbox[p] = "none" THEN "TIMEOUT" ELSE mailbox[p] IN
  /\ Waits(p) /\ (mailbox[p] # "none" \/ e.woken)
  /\ mailbox' = [mailbox EXCEPT ![p] = "none"]
  /\ \/ /\ msg = "TIMEOUT" /\ e.tries < ARP_RETRY
        /\ arppc' = [arppc EXCEPT ![p].tries = @ + 1, ![p].woken = FALSE]
        /\ UNCHANGED arpcache
     \/ /\ msg = "TIMEOUT" /\ e.tries = ARP_RETRY
        /\ arpcache' = [arpcache EXCEPT ![e.slot].arstate = "AR_FREE"]
        /\ arppc' = [Disturbed(arppc, Readers(e.slot) \ {p}) EXCEPT ![p] = NoAnswer]
     \/ /\ msg = "SYSERR"
        /\ arppc' = [arppc EXCEPT ![p] = NoAnswer]
        /\ UNCHANGED arpcache
     \/ /\ msg \in {"OK", "other"}
        /\ arppc' = [arppc EXCEPT ![p] =
             Returned(e.dst, arpcache[e.slot].arhaddr, e.disturbed)]
        /\ UNCHANGED arpcache
-----------------------------------------------------------------------------
(* arp_in for a packet from host h: forus is whether it asks for the       *)
(* address of this machine, which then has one.  The reply is left out.    *)
InformedOfNothing(s, h) == [arpcache EXCEPT ![s].arstate = "AR_RESOLVED"]

Informed(s, h) == [arpcache EXCEPT ![s].arhaddr = h, ![s].arstate = "AR_RESOLVED"]

ArpIn(h, op, forus) ==
  \/ \E s \in Holding(h) :
       LET p == arpcache[s].arpid
           told == arpcache[s].arstate = "AR_PENDING" /\ mailbox[p] = "none"
       IN
       /\ arpcache' = Informed(s, h)
       /\ mailbox' = IF told THEN [mailbox EXCEPT ![p] = "OK"] ELSE mailbox
       /\ arppc' = IF told /\ p \notin Readers(s) THEN Disturbed(arppc, {p}) ELSE arppc
  \/ /\ Holding(h) = {} /\ op = "ARP_OP_REQ" /\ forus
     /\ \E s \in ArpAlloc :
          /\ arpcache' = [arpcache EXCEPT ![s] = [Zeroed EXCEPT
               !.arpaddr = h, !.arhaddr = h, !.arstate = "AR_RESOLVED"]]
          /\ arppc' = Disturbed(arppc, Losers(s))
     /\ UNCHANGED mailbox

(* Any process may send to a resolver; one may be killed, and its          *)
(* identifier given to another process.                                    *)
StrayMessage(p, m) ==
  /\ mailbox[p] = "none" /\ Waits(p)
  /\ mailbox' = [mailbox EXCEPT ![p] = m]
  /\ arppc' = Disturbed(arppc, {p})
  /\ UNCHANGED arpcache

KillResolver(p) ==
  /\ Waits(p)
  /\ arppc' = [arppc EXCEPT ![p] = NoAnswer]
  /\ mailbox' = [mailbox EXCEPT ![p] = "none"]
  /\ UNCHANGED arpcache

ArpNext ==
  \/ \E p \in Resolver :
       \/ \E a \in Host \cup {"IP_BCAST"} : ArpResolve(p, a)
       \/ ArpTimer(p) \/ ArpResumes(p) \/ KillResolver(p)
       \/ \E m \in Stray : StrayMessage(p, m)
  \/ \E h \in Host, op \in {"ARP_OP_REQ", "ARP_OP_RPLY"}, forus \in BOOLEAN : ArpIn(h, op, forus)

ArpSpec == ArpInit /\ [][ArpNext]_arpvars
-----------------------------------------------------------------------------
(* arp_resolve gives the Ethernet address of the host it was asked for,    *)
(* unless another message ended the wait, a reply came for an entry the    *)
(* process had given up, or the entry was taken before the process ran.    *)
(* While it waits undisturbed, a resolver owns the entry it will read: the *)
(* entry is pending for it, or has been resolved and the message is there. *)
(* At most one entry holds an address, so the first one found is the one.  *)
AnswerOrExcuse ==
  /\ \A p \in Resolver :
       IF ~Waits(p) THEN arppc[p].answer # "wrong"
       ELSE arppc[p].disturbed \/
            LET e == arpcache[arppc[p].slot] IN
            /\ e.arpaddr = arppc[p].dst
            /\ \/ e.arstate = "AR_PENDING" /\ e.arpid = p /\ mailbox[p] = "none"
               \/ e.arstate = "AR_RESOLVED" /\ e.arhaddr = e.arpaddr /\ mailbox[p] = "OK"
  /\ \A h \in Host : Cardinality(Holding(h)) <= 1
=============================================================================
