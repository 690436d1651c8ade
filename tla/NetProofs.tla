----------------------------- MODULE NetProofs -----------------------------
(***************************************************************************)
(* Theorems about Arp, Stack, Ethernet, Tftp and Dhcp, for every number of *)
(* processes, hosts, endpoints, descriptors, queue sizes and retries.      *)
(*                                                                         *)
(* Arp: the invariant that carries AnswerOrExcuse says who owns an entry:  *)
(* a resolver that nothing disturbed owns the entry that it will read, and *)
(* a resolved entry holds the address of the host it is for.               *)
(*                                                                         *)
(* Stack: as long as memory has not been misused, every queue of an        *)
(* endpoint is a ring (RingAt), every process that waits alone at one will *)
(* find a packet when it is told of one (Served), and the buffers in the   *)
(* pool, at processes and in queues add up (Sum).  The sums are carried by *)
(* TallyChange of QueueProofs: one endpoint changes in a step.             *)
(*                                                                         *)
(* Ethernet: what each ring holds is an arc of it (RxIs, TxIs), and its    *)
(* length is what the semaphore and the waiting processes account for.     *)
(*                                                                         *)
(* Tftp and Dhcp: of a network that loses, repeats and reorders, the sets  *)
(* of messages only grow, so that what a message says of the other side    *)
(* when it is sent stays true.                                             *)
(***************************************************************************)
EXTENDS Arp, Stack, Ethernet, Tftp, Dhcp, QueueProofs, FiniteSetTheorems, TLAPS

Entry ==
  [arstate : {"AR_FREE", "AR_PENDING", "AR_RESOLVED"}, arpaddr : Host \cup {"zero"},
   arpid : Resolver \cup {"zero"}, arhaddr : Host \cup {"zero"}]

IdleCall == [op : {"idle"}, answer : {"none", "right", "excused"}]

WaitingCall ==
  [op : {"recvtime"}, slot : Slot, dst : Host, tries : 1..ARP_RETRY,
   woken : BOOLEAN, disturbed : BOOLEAN]

ArpTypeOK ==
  /\ arpcache \in [Slot -> Entry]
  /\ arppc \in [Resolver -> IdleCall \cup WaitingCall]
  /\ mailbox \in [Resolver -> {"none", "OK", "TIMEOUT", "SYSERR", "other"}]

EntryOK(s) ==
  /\ arpcache[s].arstate = "AR_PENDING" => arpcache[s].arpid \in Resolver
  /\ arpcache[s].arstate = "AR_RESOLVED" => arpcache[s].arhaddr = arpcache[s].arpaddr

Owned(p, e, msg) ==
  /\ e.arpaddr = arppc[p].dst
  /\ \/ e.arstate = "AR_PENDING" /\ e.arpid = p /\ msg = "none"
     \/ e.arstate = "AR_RESOLVED" /\ e.arhaddr = e.arpaddr /\ msg = "OK"

WaitOK(p) == Waits(p) => arppc[p].disturbed \/ Owned(p, arpcache[arppc[p].slot], mailbox[p])

OneHolds == \A h \in Host : \A s, t \in Holding(h) : s = t

ArpIInv ==
  /\ ArpTypeOK
  /\ \A s \in Slot : EntryOK(s)
  /\ \A p \in Resolver : WaitOK(p)
  /\ OneHolds

(* The first slot that is free, or may be taken, is one.                   *)
LEMMA MinOK == ASSUME NEW S \in SUBSET Nat, S # {} PROVE Min(S) \in S
BY LeastNatural DEF Min

LEMMA AllocOK == ArpAlloc \subseteq Slot /\ \A s \in ArpAlloc : arpcache[s].arstate # "AR_PENDING"
<1>1. \A st : InState(st) \subseteq Slot /\ InState(st) \in SUBSET Nat
  BY ArpAssumption DEF InState, Slot
<1>2. \A st : InState(st) # {} => Min(InState(st)) \in InState(st)
  BY <1>1, MinOK
<1>3. QED
  BY <1>1, <1>2 DEF ArpAlloc, InState

LEMMA CallType ==
  ASSUME ArpTypeOK, NEW p \in Resolver
  PROVE  /\ Waits(p) => arppc[p] \in WaitingCall
         /\ ~Waits(p) => arppc[p] \in IdleCall
BY DEF ArpTypeOK, Waits, IdleCall, WaitingCall

(* Disturbing some of the waiting calls changes nothing else of them.      *)
LEMMA DisturbedOK ==
  ASSUME ArpTypeOK, NEW who
  PROVE  /\ Disturbed(arppc, who) \in [Resolver -> IdleCall \cup WaitingCall]
         /\ \A p \in Resolver :
              /\ ~Waits(p) => Disturbed(arppc, who)[p] = arppc[p]
              /\ p \notin who => Disturbed(arppc, who)[p] = arppc[p]
              /\ Disturbed(arppc, who)[p].op = arppc[p].op
              /\ Waits(p) => /\ Disturbed(arppc, who)[p].slot = arppc[p].slot
                             /\ Disturbed(arppc, who)[p].dst = arppc[p].dst
                             /\ arppc[p].disturbed => Disturbed(arppc, who)[p].disturbed
              /\ Waits(p) /\ p \in who => Disturbed(arppc, who)[p].disturbed
<1>. SUFFICES ASSUME NEW p \in Resolver
              PROVE  /\ Disturbed(arppc, who)[p] \in IdleCall \cup WaitingCall
                     /\ ~Waits(p) => Disturbed(arppc, who)[p] = arppc[p]
                     /\ p \notin who => Disturbed(arppc, who)[p] = arppc[p]
                     /\ Disturbed(arppc, who)[p].op = arppc[p].op
                     /\ Waits(p) => /\ Disturbed(arppc, who)[p].slot = arppc[p].slot
                                    /\ Disturbed(arppc, who)[p].dst = arppc[p].dst
                                    /\ arppc[p].disturbed => Disturbed(arppc, who)[p].disturbed
                     /\ Waits(p) /\ p \in who => Disturbed(arppc, who)[p].disturbed
  BY DEF Disturbed
<1>1. CASE Waits(p) /\ p \in who
  <2>1. Disturbed(arppc, who)[p] = [arppc[p] EXCEPT !.disturbed = TRUE]
    BY <1>1 DEF Disturbed, Waits
  <2>2. arppc[p] \in WaitingCall
    BY <1>1, CallType
  <2>3. QED
    BY <1>1, <2>1, <2>2 DEF WaitingCall
<1>2. CASE ~(Waits(p) /\ p \in who)
  <2>1. Disturbed(arppc, who)[p] = arppc[p]
    BY <1>2 DEF Disturbed, Waits
  <2>2. QED
    BY <1>2, <2>1 DEF ArpTypeOK
<1>3. QED
  BY <1>1, <1>2

LEMMA ArpInitOK == ArpInit => ArpIInv
<1>. SUFFICES ASSUME ArpInit PROVE ArpIInv
  OBVIOUS
<1>1. Zeroed \in Entry /\ Zeroed.arstate = "AR_FREE" /\ NoAnswer \in IdleCall
  BY DEF Zeroed, Entry, NoAnswer, IdleCall
<1>2. ArpTypeOK
  BY <1>1 DEF ArpInit, ArpTypeOK
<1>3. \A s \in Slot : EntryOK(s)
  BY <1>1 DEF ArpInit, EntryOK
<1>4. \A p \in Resolver : ~Waits(p)
  BY DEF ArpInit, Waits, NoAnswer
<1>5. \A h \in Host : Holding(h) = {}
  BY <1>1 DEF ArpInit, Holding, InState
<1>6. QED
  BY <1>2, <1>3, <1>4, <1>5 DEF ArpIInv, WaitOK, OneHolds

(* One entry holds an address, entry by entry.                             *)
LEMMA OneHoldsIs ==
  OneHolds <=>
    \A s, t \in Slot :
      /\ arpcache[s].arstate # "AR_FREE" /\ arpcache[t].arstate # "AR_FREE"
      /\ arpcache[s].arpaddr = arpcache[t].arpaddr /\ arpcache[s].arpaddr \in Host
      => s = t
BY DEF OneHolds, Holding, InState

(* A call goes on waiting for the same entry: disturbed, or undisturbed    *)
(* and then neither its entry nor its message has changed.                 *)
LEMMA StillWaits ==
  ASSUME ArpIInv, NEW q \in Resolver, arppc'[q].op = arppc[q].op,
         Waits(q) =>
           /\ arppc'[q].slot = arppc[q].slot /\ arppc'[q].dst = arppc[q].dst
           /\ arppc[q].disturbed => arppc'[q].disturbed
           /\ \/ arppc'[q].disturbed
              \/ arpcache'[arppc[q].slot] = arpcache[arppc[q].slot] /\ mailbox'[q] = mailbox[q]
  PROVE  WaitOK(q)'
<1>. SUFFICES ASSUME Waits(q), ~arppc'[q].disturbed
              PROVE  Owned(q, arpcache[arppc[q].slot], mailbox[q])'
  BY DEF WaitOK, Waits
<1>1. Owned(q, arpcache[arppc[q].slot], mailbox[q])
  BY DEF ArpIInv, WaitOK
<1>2. arpcache'[arppc'[q].slot] = arpcache[arppc[q].slot] /\ mailbox'[q] = mailbox[q]
      /\ arppc'[q].dst = arppc[q].dst
  OBVIOUS
<1>3. QED
  BY <1>1, <1>2 DEF Owned

(* A step that changes the call of one process at most, and no entry.      *)
LEMMA CallEnds ==
  ASSUME ArpIInv, NEW p \in Resolver, NEW c \in IdleCall, arppc' = [arppc EXCEPT ![p] = c],
         arpcache' = arpcache, NEW msg \in {mailbox[p], "none"},
         mailbox' = [mailbox EXCEPT ![p] = msg]
  PROVE  ArpIInv'
<1>1. ArpTypeOK'
  BY DEF ArpIInv, ArpTypeOK
<1>2. ASSUME NEW q \in Resolver PROVE WaitOK(q)'
  <2>1. CASE q = p
    BY <2>1 DEF ArpIInv, ArpTypeOK, WaitOK, Waits, IdleCall
  <2>2. CASE q # p
    <3>1. arppc'[q] = arppc[q] /\ mailbox'[q] = mailbox[q]
      BY <2>2 DEF ArpIInv, ArpTypeOK
    <3>2. QED
      BY <3>1, StillWaits
  <2>3. QED
    BY <2>1, <2>2
<1>3. \A s \in Slot : EntryOK(s)'
  BY DEF ArpIInv, EntryOK
<1>4. OneHolds'
  BY DEF ArpIInv, OneHolds, Holding, InState
<1>5. QED
  BY <1>1, <1>2, <1>3, <1>4 DEF ArpIInv

(* arp_resolve takes an entry.                                             *)
LEMMA TakesEntry ==
  ASSUME ArpIInv, NEW p \in Resolver, NEW a \in Host, ~Waits(p), Holding(a) = {},
         NEW s \in ArpAlloc,
         arpcache' = [arpcache EXCEPT ![s] =
           [Zeroed EXCEPT !.arstate = "AR_PENDING", !.arpaddr = a, !.arpid = p]],
         arppc' = [Disturbed(arppc, Losers(s)) EXCEPT ![p] =
           [op |-> "recvtime", slot |-> s, dst |-> a, tries |-> 1,
            woken |-> FALSE, disturbed |-> FALSE]],
         mailbox' = [mailbox EXCEPT ![p] = "none"]
  PROVE  ArpIInv'
<1>. DEFINE e == [Zeroed EXCEPT !.arstate = "AR_PENDING", !.arpaddr = a, !.arpid = p]
            c == [op |-> "recvtime", slot |-> s, dst |-> a, tries |-> 1,
                  woken |-> FALSE, disturbed |-> FALSE]
            others == Disturbed(arppc, Losers(s))
<1>1. s \in Slot /\ Losers(s) = Readers(s) /\ ArpTypeOK
  BY AllocOK DEF Losers, ArpIInv
<1>2. /\ e \in Entry /\ e.arstate = "AR_PENDING" /\ e.arpaddr = a /\ e.arpid = p
  BY DEF Zeroed, Entry
<1>3. c \in WaitingCall /\ 1 \in 1..ARP_RETRY
  BY <1>1, ArpAssumption DEF WaitingCall
<1>4. \A t \in Slot : arpcache'[t] = IF t = s THEN e ELSE arpcache[t]
  BY <1>1 DEF ArpTypeOK
<1>5. others \in [Resolver -> IdleCall \cup WaitingCall]
  BY <1>1, DisturbedOK
<1>6. ArpTypeOK'
  BY <1>1, <1>2, <1>3, <1>5 DEF ArpTypeOK
<1>7. ASSUME NEW t \in Slot PROVE EntryOK(t)'
  BY <1>2, <1>4 DEF ArpIInv, EntryOK
<1>8. ASSUME NEW q \in Resolver PROVE WaitOK(q)'
  <2>1. CASE q = p
    <3>1. arppc'[p] = c /\ mailbox'[p] = "none" /\ arpcache'[s] = e
      BY <1>1, <1>4, <1>5 DEF ArpTypeOK
    <3>2. arppc'[p].slot = s /\ arppc'[p].dst = a
      BY <3>1
    <3>3. Owned(p, arpcache[arppc[p].slot], mailbox[p])'
      BY <3>1, <3>2, <1>2 DEF Owned
    <3>4. QED
      BY <3>3, <2>1 DEF WaitOK
  <2>2. CASE q # p
    <3>1. arppc'[q] = others[q] /\ mailbox'[q] = mailbox[q]
      BY <2>2, <1>1, <1>5 DEF ArpTypeOK
    <3>2. Waits(q) /\ arppc[q].slot = s => q \in Losers(s)
      BY <1>1 DEF Readers
    <3>3. Waits(q) /\ arppc[q].slot # s => arpcache'[arppc[q].slot] = arpcache[arppc[q].slot]
      BY <1>1, <1>4, CallType DEF WaitingCall
    <3>4. QED
      BY <3>1, <3>2, <3>3, <1>1, DisturbedOK, StillWaits
  <2>3. QED
    BY <2>1, <2>2
<1>9. OneHolds'
  <2>. SUFFICES ASSUME NEW x \in Slot, NEW y \in Slot,
                       arpcache'[x].arstate # "AR_FREE", arpcache'[y].arstate # "AR_FREE",
                       arpcache'[x].arpaddr = arpcache'[y].arpaddr, arpcache'[x].arpaddr \in Host
                PROVE  x = y
    BY DEF OneHolds, Holding, InState
  <2>1. \A t \in Slot : arpcache[t].arstate # "AR_FREE" => arpcache[t].arpaddr # a
    BY DEF Holding, InState
  <2>2. QED
    BY <1>2, <1>4, <2>1, OneHoldsIs DEF ArpIInv
<1>10. QED
  BY <1>6, <1>7, <1>8, <1>9 DEF ArpIInv

LEMMA ReturnedOK ==
  ASSUME NEW dst, NEW haddr, NEW disturbed \in BOOLEAN, disturbed \/ haddr = dst
  PROVE  Returned(dst, haddr, disturbed) \in IdleCall
BY DEF Returned, IdleCall

LEMMA NoAnswerOK == NoAnswer \in IdleCall
BY DEF NoAnswer, IdleCall

LEMMA ArpResolveOK ==
  ASSUME ArpIInv, NEW p \in Resolver, NEW a \in Host \cup {"IP_BCAST"}, ArpResolve(p, a)
  PROVE  ArpIInv'
<1>. ArpTypeOK
  BY DEF ArpIInv
<1>1. ASSUME NEW c \in IdleCall, arppc' = [arppc EXCEPT ![p] = c], UNCHANGED <<arpcache, mailbox>>
      PROVE  ArpIInv'
  <2>1. mailbox' = [mailbox EXCEPT ![p] = mailbox[p]]
    BY <1>1 DEF ArpTypeOK
  <2>2. QED
    BY <1>1, <2>1, CallEnds
<1>2. CASE arppc' = [arppc EXCEPT ![p] = Returned(a, a, FALSE)] /\ UNCHANGED <<arpcache, mailbox>>
  BY <1>1, <1>2, ReturnedOK
<1>3. ASSUME NEW s \in Holding(a), UNCHANGED <<arpcache, mailbox>>, a # "IP_BCAST",
             arppc' = [arppc EXCEPT ![p] =
               IF arpcache[s].arstate = "AR_RESOLVED"
               THEN Returned(a, arpcache[s].arhaddr, FALSE) ELSE NoAnswer]
      PROVE  ArpIInv'
  <2>1. s \in Slot /\ arpcache[s].arpaddr = a
    BY DEF Holding
  <2>2. CASE arpcache[s].arstate = "AR_RESOLVED"
    <3>1. arpcache[s].arhaddr = a
      BY <2>1, <2>2 DEF ArpIInv, EntryOK
    <3>2. Returned(a, arpcache[s].arhaddr, FALSE) \in IdleCall
      BY <3>1, ReturnedOK
    <3>3. QED
      BY <1>1, <1>3, <2>2, <3>2
  <2>3. CASE arpcache[s].arstate # "AR_RESOLVED"
    BY <1>1, <1>3, <2>3, NoAnswerOK
  <2>4. QED
    BY <2>2, <2>3
<1>4. CASE arppc' = [arppc EXCEPT ![p] = NoAnswer] /\ UNCHANGED <<arpcache, mailbox>>
  BY <1>1, <1>4, NoAnswerOK
<1>5. QED
  BY <1>2, <1>3, <1>4, TakesEntry DEF ArpResolve

(* One call goes on waiting, whether it has been woken or has tried again. *)
LEMMA WaitsAgain ==
  ASSUME ArpIInv, NEW p \in Resolver, Waits(p), NEW c \in WaitingCall,
         c.slot = arppc[p].slot, c.dst = arppc[p].dst, c.disturbed = arppc[p].disturbed,
         arppc' = [arppc EXCEPT ![p] = c], arpcache' = arpcache,
         NEW msg \in {mailbox[p], "none"}, mailbox' = [mailbox EXCEPT ![p] = msg],
         c.disturbed \/ msg = mailbox[p]
  PROVE  ArpIInv'
<1>1. ArpTypeOK'
  BY DEF ArpIInv, ArpTypeOK
<1>2. ASSUME NEW q \in Resolver PROVE WaitOK(q)'
  <2>1. CASE q = p
    <3>1. arppc'[q] = c /\ mailbox'[q] = msg /\ arppc'[q].op = arppc[q].op
      BY <2>1 DEF ArpIInv, ArpTypeOK, Waits, WaitingCall
    <3>2. QED
      BY <2>1, <3>1, StillWaits
  <2>2. CASE q # p
    <3>1. arppc'[q] = arppc[q] /\ mailbox'[q] = mailbox[q]
      BY <2>2 DEF ArpIInv, ArpTypeOK
    <3>2. QED
      BY <3>1, StillWaits
  <2>3. QED
    BY <2>1, <2>2
<1>3. (\A s \in Slot : EntryOK(s)') /\ OneHolds'
  BY DEF ArpIInv, EntryOK, OneHolds, Holding, InState
<1>4. QED
  BY <1>1, <1>2, <1>3 DEF ArpIInv

LEMMA ArpTimerOK ==
  ASSUME ArpIInv, NEW p \in Resolver, ArpTimer(p)
  PROVE  ArpIInv'
<1>1. Waits(p) /\ arppc[p] \in WaitingCall /\ ArpTypeOK
  BY CallType DEF ArpTimer, ArpIInv
<1>. DEFINE c == [arppc[p] EXCEPT !.woken = TRUE]
<1>2. /\ c \in WaitingCall /\ c.slot = arppc[p].slot /\ c.dst = arppc[p].dst
      /\ c.disturbed = arppc[p].disturbed
  BY <1>1 DEF WaitingCall
<1>3. /\ arppc' = [arppc EXCEPT ![p] = c] /\ arpcache' = arpcache
      /\ mailbox' = [mailbox EXCEPT ![p] = mailbox[p]]
  BY <1>1 DEF ArpTimer, ArpTypeOK
<1>4. QED
  BY <1>1, <1>2, <1>3, WaitsAgain

(* An entry is given up: whoever was to read it is disturbed.              *)
LEMMA EntryFreed ==
  ASSUME ArpIInv, NEW p \in Resolver, Waits(p), NEW s \in Slot,
         arpcache' = [arpcache EXCEPT ![s].arstate = "AR_FREE"],
         arppc' = [Disturbed(arppc, Readers(s) \ {p}) EXCEPT ![p] = NoAnswer],
         mailbox' = [mailbox EXCEPT ![p] = "none"]
  PROVE  ArpIInv'
<1>. DEFINE others == Disturbed(arppc, Readers(s) \ {p})
            e == [arpcache[s] EXCEPT !.arstate = "AR_FREE"]
<1>1. others \in [Resolver -> IdleCall \cup WaitingCall] /\ ArpTypeOK
  BY DisturbedOK DEF ArpIInv
<1>2. e \in Entry /\ e.arstate = "AR_FREE"
  BY <1>1 DEF ArpTypeOK, Entry
<1>3. \A t \in Slot : arpcache'[t] = IF t = s THEN e ELSE arpcache[t]
  BY <1>1 DEF ArpTypeOK
<1>4. ArpTypeOK'
  BY <1>1, <1>2, NoAnswerOK DEF ArpTypeOK
<1>5. ASSUME NEW t \in Slot PROVE EntryOK(t)'
  BY <1>2, <1>3 DEF ArpIInv, EntryOK
<1>6. ASSUME NEW q \in Resolver PROVE WaitOK(q)'
  <2>1. CASE q = p
    BY <1>1, <2>1 DEF WaitOK, Waits, NoAnswer
  <2>2. CASE q # p
    <3>1. arppc'[q] = others[q] /\ mailbox'[q] = mailbox[q]
      BY <2>2, <1>1 DEF ArpTypeOK
    <3>2. Waits(q) /\ arppc[q].slot = s => q \in Readers(s) \ {p}
      BY <2>2 DEF Readers
    <3>3. Waits(q) /\ arppc[q].slot # s => arpcache'[arppc[q].slot] = arpcache[arppc[q].slot]
      BY <1>1, <1>3, CallType DEF WaitingCall
    <3>4. QED
      BY <3>1, <3>2, <3>3, <1>1, DisturbedOK, StillWaits
  <2>3. QED
    BY <2>1, <2>2
<1>7. OneHolds'
  <2>. SUFFICES ASSUME NEW x \in Slot, NEW y \in Slot,
                       arpcache'[x].arstate # "AR_FREE", arpcache'[y].arstate # "AR_FREE",
                       arpcache'[x].arpaddr = arpcache'[y].arpaddr, arpcache'[x].arpaddr \in Host
                PROVE  x = y
    BY DEF OneHolds, Holding, InState
  <2>1. QED
    BY <1>2, <1>3, OneHoldsIs DEF ArpIInv
<1>8. QED
  BY <1>4, <1>5, <1>6, <1>7 DEF ArpIInv

(* What is known of a call when recvtime returns.                          *)
LEMMA ArpResumesOK ==
  ASSUME ArpIInv, NEW p \in Resolver, ArpResumes(p)
  PROVE  ArpIInv'
<1>. DEFINE e == arppc[p]
            msg == IF mailbox[p] = "none" THEN "TIMEOUT" ELSE mailbox[p]
<1>1. /\ Waits(p) /\ e \in WaitingCall /\ ArpTypeOK
      /\ mailbox' = [mailbox EXCEPT ![p] = "none"]
  BY CallType DEF ArpResumes, ArpIInv
<1>2. e.disturbed \/ Owned(p, arpcache[e.slot], mailbox[p])
  BY <1>1 DEF ArpIInv, WaitOK
<1>3. CASE /\ msg = "TIMEOUT" /\ e.tries < ARP_RETRY
           /\ arppc' = [arppc EXCEPT ![p].tries = @ + 1, ![p].woken = FALSE]
           /\ UNCHANGED arpcache
  <2>. DEFINE c == [e EXCEPT !.tries = @ + 1, !.woken = FALSE]
  <2>1. e.tries + 1 \in 1..ARP_RETRY
    BY <1>1, <1>3, ArpAssumption DEF WaitingCall
  <2>2. /\ c \in WaitingCall /\ c.slot = e.slot /\ c.dst = e.dst /\ c.disturbed = e.disturbed
    BY <1>1, <2>1 DEF WaitingCall
  <2>3. arppc' = [arppc EXCEPT ![p] = c]
    BY <1>1, <1>3 DEF ArpTypeOK
  <2>4. c.disturbed \/ mailbox[p] = "none"
    BY <1>2, <1>3, <2>2 DEF Owned
  <2>5. QED
    BY <1>1, <1>3, <2>2, <2>3, <2>4, WaitsAgain
<1>4. CASE /\ arpcache' = [arpcache EXCEPT ![e.slot].arstate = "AR_FREE"]
           /\ arppc' = [Disturbed(arppc, Readers(e.slot) \ {p}) EXCEPT ![p] = NoAnswer]
  <2>1. e.slot \in Slot
    BY <1>1 DEF WaitingCall
  <2>2. QED
    BY <1>1, <1>4, <2>1, EntryFreed
<1>5. CASE arppc' = [arppc EXCEPT ![p] = NoAnswer] /\ UNCHANGED arpcache
  BY <1>1, <1>5, CallEnds, NoAnswerOK
<1>6. CASE /\ msg \in {"OK", "other"}
           /\ arppc' = [arppc EXCEPT ![p] = Returned(e.dst, arpcache[e.slot].arhaddr, e.disturbed)]
           /\ UNCHANGED arpcache
  <2>1. e.disturbed \/ arpcache[e.slot].arhaddr = e.dst
    BY <1>2, <1>6 DEF Owned
  <2>2. Returned(e.dst, arpcache[e.slot].arhaddr, e.disturbed) \in IdleCall
    BY <1>1, <2>1, ReturnedOK DEF WaitingCall
  <2>3. QED
    BY <1>1, <1>6, <2>2, CallEnds
<1>7. QED
  BY <1>3, <1>4, <1>5, <1>6 DEF ArpResumes

(* arp_in tells an entry that holds the sender, and the process that waits *)
(* for it if no other message keeps it from that.                          *)
LEMMA InformedOK ==
  ASSUME ArpIInv, NEW h \in Host, NEW s \in Holding(h),
         NEW told \in BOOLEAN,
         told = (arpcache[s].arstate = "AR_PENDING" /\ mailbox[arpcache[s].arpid] = "none"),
         arpcache' = Informed(s, h),
         mailbox' = IF told THEN [mailbox EXCEPT ![arpcache[s].arpid] = "OK"] ELSE mailbox,
         arppc' = IF told /\ arpcache[s].arpid \notin Readers(s)
                  THEN Disturbed(arppc, {arpcache[s].arpid}) ELSE arppc
  PROVE  ArpIInv'
<1>. DEFINE p == arpcache[s].arpid
            e == [arpcache[s] EXCEPT !.arhaddr = h, !.arstate = "AR_RESOLVED"]
<1>1. /\ s \in Slot /\ arpcache[s].arpaddr = h /\ arpcache[s].arstate # "AR_FREE" /\ ArpTypeOK
      /\ told => p \in Resolver
  BY DEF Holding, InState, ArpIInv, EntryOK
<1>2. e \in Entry /\ e.arstate = "AR_RESOLVED" /\ e.arpaddr = h /\ e.arhaddr = h
  BY <1>1 DEF ArpTypeOK, Entry
<1>3. \A t \in Slot : arpcache'[t] = IF t = s THEN e ELSE arpcache[t]
  BY <1>1 DEF ArpTypeOK, Informed
<1>4. arpcache' \in [Slot -> Entry]
  BY <1>1, <1>2 DEF ArpTypeOK, Informed
<1>5. /\ arppc' \in [Resolver -> IdleCall \cup WaitingCall]
      /\ \A q \in Resolver :
           /\ arppc'[q].op = arppc[q].op
           /\ Waits(q) => /\ arppc'[q].slot = arppc[q].slot /\ arppc'[q].dst = arppc[q].dst
                          /\ arppc[q].disturbed => arppc'[q].disturbed
           /\ told /\ q = p /\ Waits(q) => arppc'[q].disturbed \/ q \in Readers(s)
  <2>1. CASE told /\ p \notin Readers(s)
    BY <1>1, <2>1, DisturbedOK
  <2>2. CASE ~(told /\ p \notin Readers(s))
    BY <1>1, <2>2 DEF ArpTypeOK
  <2>3. QED
    BY <2>1, <2>2
<1>6. mailbox' \in [Resolver -> {"none", "OK", "TIMEOUT", "SYSERR", "other"}]
  BY <1>1 DEF ArpTypeOK
<1>7. ASSUME NEW t \in Slot PROVE EntryOK(t)'
  BY <1>2, <1>3 DEF ArpIInv, EntryOK
<1>8. ASSUME NEW q \in Resolver PROVE WaitOK(q)'
  <2>. SUFFICES ASSUME Waits(q), ~arppc'[q].disturbed
                PROVE  Owned(q, arpcache[arppc[q].slot], mailbox[q])'
    BY <1>5 DEF WaitOK, Waits
  <2>1. /\ arppc'[q].slot = arppc[q].slot /\ arppc'[q].dst = arppc[q].dst
        /\ Owned(q, arpcache[arppc[q].slot], mailbox[q]) /\ arppc[q].slot \in Slot
    BY <1>1, <1>5, CallType DEF ArpIInv, WaitOK, WaitingCall
  <2>2. CASE arppc[q].slot = s
    <3>1. mailbox'[q] = "OK"
      <4>1. CASE arpcache[s].arstate = "AR_PENDING"
        BY <1>1, <2>1, <2>2, <4>1 DEF Owned, ArpTypeOK
      <4>2. CASE arpcache[s].arstate # "AR_PENDING"
        BY <2>1, <2>2, <4>2 DEF Owned
      <4>3. QED
        BY <4>1, <4>2
    <3>2. h = arppc[q].dst
      BY <1>1, <2>1, <2>2 DEF Owned
    <3>3. QED
      BY <1>1, <1>2, <1>3, <2>1, <2>2, <3>1, <3>2, ZenonT(90) DEF Owned
  <2>3. CASE arppc[q].slot # s
    <3>1. ~(told /\ q = p)
      BY <1>5, <2>3 DEF Readers
    <3>2. mailbox'[q] = mailbox[q]
      BY <1>1, <3>1 DEF ArpTypeOK
    <3>3. arpcache'[arppc[q].slot] = arpcache[arppc[q].slot]
      BY <1>3, <2>1, <2>3
    <3>4. QED
      BY <2>1, <3>2, <3>3 DEF Owned
  <2>4. QED
    BY <2>2, <2>3
<1>9. OneHolds'
  <2>. SUFFICES ASSUME NEW x \in Slot, NEW y \in Slot,
                       arpcache'[x].arstate # "AR_FREE", arpcache'[y].arstate # "AR_FREE",
                       arpcache'[x].arpaddr = arpcache'[y].arpaddr, arpcache'[x].arpaddr \in Host
                PROVE  x = y
    BY DEF OneHolds, Holding, InState
  <2>1. ASSUME NEW t \in Slot, arpcache'[t].arstate # "AR_FREE"
        PROVE  arpcache[t].arstate # "AR_FREE" /\ arpcache'[t].arpaddr = arpcache[t].arpaddr
    BY <1>1, <1>2, <1>3, <2>1
  <2>2. QED
    BY <2>1, OneHoldsIs DEF ArpIInv
<1>10. QED
  BY <1>4, <1>5, <1>6, <1>7, <1>8, <1>9 DEF ArpIInv, ArpTypeOK

(* arp_in records the address of a computer that asks for ours.            *)
LEMMA RecordsOK ==
  ASSUME ArpIInv, NEW h \in Host, Holding(h) = {}, NEW s \in ArpAlloc,
         arpcache' = [arpcache EXCEPT ![s] = [Zeroed EXCEPT
               !.arpaddr = h, !.arhaddr = h, !.arstate = "AR_RESOLVED"]],
         arppc' = Disturbed(arppc, Losers(s)), mailbox' = mailbox
  PROVE  ArpIInv'
<1>. DEFINE e == [Zeroed EXCEPT !.arpaddr = h, !.arhaddr = h, !.arstate = "AR_RESOLVED"]
<1>1. s \in Slot /\ Losers(s) = Readers(s) /\ ArpTypeOK
  BY AllocOK DEF Losers, ArpIInv
<1>2. /\ e \in Entry /\ e.arstate = "AR_RESOLVED" /\ e.arpaddr = h /\ e.arhaddr = h
  BY DEF Zeroed, Entry
<1>3. \A t \in Slot : arpcache'[t] = IF t = s THEN e ELSE arpcache[t]
  BY <1>1 DEF ArpTypeOK
<1>4. ArpTypeOK'
  BY <1>1, <1>2, DisturbedOK DEF ArpTypeOK
<1>5. ASSUME NEW t \in Slot PROVE EntryOK(t)'
  BY <1>2, <1>3 DEF ArpIInv, EntryOK
<1>6. ASSUME NEW q \in Resolver PROVE WaitOK(q)'
  <2>1. Waits(q) /\ arppc[q].slot = s => q \in Losers(s)
    BY <1>1 DEF Readers
  <2>2. Waits(q) /\ arppc[q].slot # s => arpcache'[arppc[q].slot] = arpcache[arppc[q].slot]
    BY <1>1, <1>3, CallType DEF WaitingCall
  <2>3. QED
    BY <2>1, <2>2, <1>1, DisturbedOK, StillWaits
<1>7. OneHolds'
  <2>. SUFFICES ASSUME NEW x \in Slot, NEW y \in Slot,
                       arpcache'[x].arstate # "AR_FREE", arpcache'[y].arstate # "AR_FREE",
                       arpcache'[x].arpaddr = arpcache'[y].arpaddr, arpcache'[x].arpaddr \in Host
                PROVE  x = y
    BY DEF OneHolds, Holding, InState
  <2>1. \A t \in Slot : arpcache[t].arstate # "AR_FREE" => arpcache[t].arpaddr # h
    BY DEF Holding, InState
  <2>2. QED
    BY <1>2, <1>3, <2>1, OneHoldsIs DEF ArpIInv
<1>8. QED
  BY <1>4, <1>5, <1>6, <1>7 DEF ArpIInv

LEMMA StrayMessageOK ==
  ASSUME ArpIInv, NEW p \in Resolver, NEW m \in Stray, StrayMessage(p, m)
  PROVE  ArpIInv'
<1>1. /\ Waits(p) /\ arppc' = Disturbed(arppc, {p}) /\ arpcache' = arpcache /\ ArpTypeOK
      /\ mailbox' = [mailbox EXCEPT ![p] = m] /\ m \in {"TIMEOUT", "SYSERR", "other"}
  BY ArpAssumption DEF StrayMessage, ArpIInv
<1>2. ArpTypeOK'
  BY <1>1, DisturbedOK DEF ArpTypeOK
<1>3. ASSUME NEW q \in Resolver PROVE WaitOK(q)'
  <2>1. q # p => mailbox'[q] = mailbox[q]
    BY <1>1 DEF ArpTypeOK
  <2>2. QED
    BY <1>1, <2>1, DisturbedOK, StillWaits
<1>4. (\A s \in Slot : EntryOK(s)') /\ OneHolds'
  BY <1>1 DEF ArpIInv, EntryOK, OneHolds, Holding, InState
<1>5. QED
  BY <1>2, <1>3, <1>4 DEF ArpIInv

LEMMA ArpStep == ArpIInv /\ [ArpNext]_arpvars => ArpIInv'
<1>. SUFFICES ASSUME ArpIInv, [ArpNext]_arpvars PROVE ArpIInv'
  OBVIOUS
<1>1. ASSUME NEW h \in Host, NEW op \in {"ARP_OP_REQ", "ARP_OP_RPLY"}, NEW forus \in BOOLEAN,
             ArpIn(h, op, forus)
      PROVE  ArpIInv'
  <2>1. CASE Holding(h) = {}
    BY <1>1, <2>1, RecordsOK DEF ArpIn
  <2>2. CASE \E s \in Holding(h) :
               LET p == arpcache[s].arpid
                   told == arpcache[s].arstate = "AR_PENDING" /\ mailbox[p] = "none"
               IN
               /\ arpcache' = Informed(s, h)
               /\ mailbox' = IF told THEN [mailbox EXCEPT ![p] = "OK"] ELSE mailbox
               /\ arppc' = IF told /\ p \notin Readers(s) THEN Disturbed(arppc, {p}) ELSE arppc
    <3>1. PICK s \in Holding(h) :
            /\ arpcache' = Informed(s, h)
            /\ mailbox' = IF arpcache[s].arstate = "AR_PENDING" /\ mailbox[arpcache[s].arpid] = "none"
                          THEN [mailbox EXCEPT ![arpcache[s].arpid] = "OK"] ELSE mailbox
            /\ arppc' = IF /\ arpcache[s].arstate = "AR_PENDING" /\ mailbox[arpcache[s].arpid] = "none"
                           /\ arpcache[s].arpid \notin Readers(s)
                        THEN Disturbed(arppc, {arpcache[s].arpid}) ELSE arppc
      BY <2>2
    <3>2. CASE arpcache[s].arstate = "AR_PENDING" /\ mailbox[arpcache[s].arpid] = "none"
      <4>1. TRUE = (arpcache[s].arstate = "AR_PENDING" /\ mailbox[arpcache[s].arpid] = "none")
        BY <3>2
      <4>2. /\ mailbox' = IF TRUE THEN [mailbox EXCEPT ![arpcache[s].arpid] = "OK"] ELSE mailbox
            /\ arppc' = IF TRUE /\ arpcache[s].arpid \notin Readers(s)
                        THEN Disturbed(arppc, {arpcache[s].arpid}) ELSE arppc
        BY <3>1, <3>2
      <4>3. QED
        BY <3>1, <4>1, <4>2, InformedOK
    <3>3. CASE ~(arpcache[s].arstate = "AR_PENDING" /\ mailbox[arpcache[s].arpid] = "none")
      <4>1. FALSE = (arpcache[s].arstate = "AR_PENDING" /\ mailbox[arpcache[s].arpid] = "none")
        BY <3>3
      <4>2. /\ mailbox' = IF FALSE THEN [mailbox EXCEPT ![arpcache[s].arpid] = "OK"] ELSE mailbox
            /\ arppc' = IF FALSE /\ arpcache[s].arpid \notin Readers(s)
                        THEN Disturbed(arppc, {arpcache[s].arpid}) ELSE arppc
        BY <3>1, <3>3
      <4>3. QED
        BY <3>1, <4>1, <4>2, InformedOK
    <3>4. QED
      BY <3>2, <3>3
  <2>3. QED
    BY <1>1, <2>1, <2>2 DEF ArpIn
<1>2. ASSUME NEW p \in Resolver, KillResolver(p)
      PROVE  ArpIInv'
  BY <1>2, CallEnds, NoAnswerOK DEF KillResolver
<1>3. CASE UNCHANGED arpvars
  BY <1>3 DEF arpvars, ArpIInv, ArpTypeOK, EntryOK, WaitOK, Waits, Owned, OneHolds, Holding, InState
<1>4. QED
  BY <1>1, <1>2, <1>3, ArpResolveOK, ArpTimerOK, ArpResumesOK, StrayMessageOK DEF ArpNext

(* arp_resolve answers with the Ethernet address it was asked for unless   *)
(* something disturbed the call; a resolver that nothing disturbed owns    *)
(* the entry that it will read; and one entry at most holds an address     *)
(* (net/arp.c).                                                            *)
THEOREM ArpAnswersRight == ArpSpec => []AnswerOrExcuse
<1>1. ArpIInv => AnswerOrExcuse
  <2>. SUFFICES ASSUME ArpIInv PROVE AnswerOrExcuse
    OBVIOUS
  <2>1. ASSUME NEW p \in Resolver, ~Waits(p) PROVE arppc[p].answer # "wrong"
    BY <2>1, CallType DEF ArpIInv, IdleCall
  <2>2. ASSUME NEW h \in Host PROVE Cardinality(Holding(h)) <= 1
    <3>1. CASE Holding(h) = {}
      BY <3>1, FS_EmptySet
    <3>2. CASE Holding(h) # {}
      <4>1. PICK s \in Holding(h) : Holding(h) = {s}
        BY <3>2 DEF ArpIInv, OneHolds
      <4>2. Cardinality({s}) = 1
        BY FS_Singleton
      <4>3. QED
        BY <4>1, <4>2
    <3>3. QED
      BY <3>1, <3>2
  <2>3. QED
    BY <2>1, <2>2 DEF AnswerOrExcuse, ArpIInv, WaitOK, Owned
<1>2. QED
  BY <1>1, ArpInitOK, ArpStep, PTL DEF ArpSpec
-----------------------------------------------------------------------------
(* The network stack: what its variables are.                              *)
Endpoint ==
  [state : {"FREE", "USED", "RECV"}, rem : Remote \cup {"any"}, head : Nat, tail : Nat,
   count : Nat, pid : User \cup {"none"}]

ReceiveCall == [op : {"recvtime"}, q : Proto, slot : Nat, woken : BOOLEAN, alone : BOOLEAN]
OtherCalls(P) ==
  {Resting, [op |-> "arp_resolve"]} \cup [op : {"getbuf", "icmp_mkpkt"}, pkt : P]
Calls(P) == ReceiveCall \cup OtherCalls(P)

TabOK(t) == DOMAIN t = Proto /\ \A q \in Proto : t[q] \in [Slots[q] -> Endpoint]

NetOK(P) ==
  /\ netbufpool \in Nat
  /\ netin \in {[op |-> "getbuf"], [op |-> "read"]} \cup [op : {"icmp_mkpkt"}, pkt : P]
  /\ ipout \in [op : {"wait", "released", "arp_resolve"}]
  /\ ipoqueue \in Seq({[dst |-> pkt.src, ident |-> pkt.ident] : pkt \in P})

UsersOK(P) ==
  /\ user \in [User -> Calls(P)] /\ box \in [User -> {"none", "OK", "pid"}]
  /\ \A p \in User : Waiting(p) => user[p].slot \in Slots[user[p].q]

(* The queue of an endpoint: icmp_recv may move its head to the end of the *)
(* queue, after which nothing can be taken from it.                        *)
RingAt(q, head, count, tail) ==
  /\ count \in 0..QSIZ[q] /\ head \in 0..QSIZ[q] /\ head < HeadWraps[q]
  /\ tail = (head + count) % QSIZ[q]

RingOK(q, e) ==
  /\ RingAt(q, e.head, e.count, e.tail)
  /\ e.state = "FREE" => e.count = 0

Rings == \A q \in Proto : \A s \in Slots[q] : RingOK(q, tab[q][s])

Served(t, b, c, p) ==
  LET e == t[c.q][c.slot] IN
  \/ e.state = "RECV" /\ e.pid = p /\ e.count = 0 /\ b[p] # "OK"
  \/ e.state = "USED" /\ e.count > 0

WaitersServed ==
  \A p \in User : Waiting(p) /\ user[p].alone => Served(tab, box, user[p], p)

Conserved == netbufpool + Held + Len(ipoqueue) + Cardinality(Queued) = NBufs

StackIInv(P) ==
  /\ NetOK(P) /\ TabOK(tab) /\ UsersOK(P)
  /\ wild # "empty"
  /\ wild = "none" => Rings /\ WaitersServed /\ Conserved

LEMMA SizesOK ==
  ASSUME NEW q \in Proto
  PROVE  /\ Slots[q] \in SUBSET Nat /\ IsFiniteSet(Slots[q])
         /\ QSIZ[q] \in Nat \ {0} /\ HeadWraps[q] \in Nat \ {0} /\ QSIZ[q] <= HeadWraps[q]
         /\ q = "udp" => HeadWraps[q] = QSIZ[q]
<1>1. /\ UDP_SLOTS \in Nat \ {0} /\ UDP_QSIZ \in Nat \ {0} /\ ICMP_SLOTS \in Nat \ {0}
      /\ ICMP_QSIZ \in Nat \ {0} /\ ICMP_QSIZ <= ICMP_SLOTS
  BY StackAssumption
<1>2. IsFiniteSet(0..(UDP_SLOTS - 1)) /\ IsFiniteSet(0..(ICMP_SLOTS - 1))
  BY <1>1, FS_Interval
<1>3. CASE q = "udp"
  BY <1>1, <1>2, <1>3 DEF Slots, QSIZ, HeadWraps
<1>4. CASE q = "icmp"
  BY <1>1, <1>2, <1>4 DEF Slots, QSIZ, HeadWraps
<1>5. QED
  BY <1>3, <1>4 DEF Proto

LEMMA EndpointsFinite == IsFiniteSet(Endpoints)
<1>1. Endpoints = ({"udp"} \X Slots["udp"]) \cup ({"icmp"} \X Slots["icmp"])
  BY DEF Endpoints, Proto
<1>2. IsFiniteSet(Slots["udp"]) /\ IsFiniteSet(Slots["icmp"])
  BY SizesOK DEF Proto
<1>3. IsFiniteSet({"udp"}) /\ IsFiniteSet({"icmp"})
  BY FS_Singleton
<1>4. IsFiniteSet({"udp"} \X Slots["udp"]) /\ IsFiniteSet({"icmp"} \X Slots["icmp"])
  BY <1>2, <1>3, FS_Product
<1>5. QED
  BY <1>1, <1>4, FS_Union

(* The packets queued, as a count at each endpoint.                        *)
Counts(t) == [x \in Endpoints |-> t[x[1]][x[2]].count]

QueuedIn(t) == UNION {{<<x, i>> : i \in 1..t[x[1]][x[2]].count} : x \in Endpoints}

LEMMA QueuedIs ==
  ASSUME NEW t
  PROVE  QueuedIn(t) = Tally(Counts(t), Endpoints)
<1>1. \A x \in Endpoints : Counts(t)[x] = t[x[1]][x[2]].count
  BY DEF Counts
<1>2. ASSUME NEW y PROVE y \in QueuedIn(t) <=> y \in Tally(Counts(t), Endpoints)
  <2>1. y \in QueuedIn(t) <=> \E x \in Endpoints : \E i \in 1..t[x[1]][x[2]].count : y = <<x, i>>
    BY DEF QueuedIn
  <2>2. y \in Tally(Counts(t), Endpoints)
          <=> \E x \in Endpoints : \E i \in 1..Counts(t)[x] : y = <<x, i>>
    BY DEF Tally
  <2>3. QED
    BY <1>1, <2>1, <2>2
<1>3. QED
  BY <1>2

LEMMA CountsOK ==
  ASSUME NEW t, TabOK(t)
  PROVE  \A x \in Endpoints : Counts(t)[x] \in Nat
<1>1. ASSUME NEW x \in Endpoints PROVE Counts(t)[x] \in Nat
  <2>1. PICK q \in Proto : \E s \in Slots[q] : x = <<q, s>>
    BY DEF Endpoints
  <2>. PICK s \in Slots[q] : x = <<q, s>>
    BY <2>1
  <2>2. t[q][s] \in Endpoint
    BY DEF TabOK
  <2>3. x[1] = q /\ x[2] = s
    BY <2>1
  <2>4. Counts(t)[x] = t[q][s].count
    BY <2>3 DEF Counts
  <2>5. QED
    BY <2>2, <2>4 DEF Endpoint
<1>2. QED
  BY <1>1

LEMMA QueuedNat == ASSUME TabOK(tab) PROVE Cardinality(Queued) \in Nat
<1>1. Queued = QueuedIn(tab)
  BY DEF Queued, QueuedIn
<1>2. \A x \in Endpoints : Counts(tab)[x] \in Nat
  BY CountsOK
<1>3. Cardinality(Tally(Counts(tab), Endpoints)) \in Nat
  BY <1>2, EndpointsFinite, TallyFinite
<1>4. QED
  BY <1>1, <1>3, QueuedIs

OthersKept(t, u, q, s) ==
  \A r \in Proto : \A z \in Slots[r] : <<r, z>> # <<q, s>> => u[r][z] = t[r][z]

LEMMA QueuedChanges ==
  ASSUME NEW t, NEW u, TabOK(t), TabOK(u), NEW q \in Proto, NEW s \in Slots[q],
         OthersKept(t, u, q, s)
  PROVE  Cardinality(QueuedIn(u)) = Cardinality(QueuedIn(t)) - t[q][s].count + u[q][s].count
<1>. DEFINE f == Counts(t)
            g == Counts(u)
            z == <<q, s>>
<1>1. z \in Endpoints /\ f[z] = t[q][s].count /\ g[z] = u[q][s].count
  BY DEF Counts, Endpoints
<1>2. \A y \in Endpoints : y # z => g[y] = f[y]
  BY DEF Counts, Endpoints, OthersKept
<1>3. \A y \in Endpoints : f[y] \in Nat /\ g[y] \in Nat
  BY CountsOK
<1>. HIDE DEF f, g, z
<1>4. ChangesAt(f, g, Endpoints, z)
  BY <1>1, <1>2, <1>3, EndpointsFinite DEF ChangesAt
<1>5. Cardinality(Tally(g, Endpoints)) = Cardinality(Tally(f, Endpoints)) - f[z] + g[z]
  BY <1>4, TallyChange
<1>6. QED
  BY <1>1, <1>5, QueuedIs DEF f, g

LEMMA QueuedNext ==
  ASSUME TabOK(tab), TabOK(tab'), NEW q \in Proto, NEW s \in Slots[q],
         OthersKept(tab, tab', q, s)
  PROVE  Cardinality(Queued') = Cardinality(Queued) - tab[q][s].count + tab'[q][s].count
<1>1. Queued = QueuedIn(tab) /\ Queued' = QueuedIn(tab')
  BY DEF Queued, QueuedIn
<1>2. Cardinality(QueuedIn(tab')) = Cardinality(QueuedIn(tab)) - tab[q][s].count + tab'[q][s].count
  BY QueuedChanges
<1>3. QED
  BY <1>1, <1>2

(* One endpoint changes.                                                   *)
LEMMA EndpointChanges ==
  ASSUME TabOK(tab), NEW q \in Proto, NEW s \in Slots[q], NEW e \in Endpoint,
         tab' = [tab EXCEPT ![q][s] = e]
  PROVE  /\ TabOK(tab')
         /\ tab'[q][s] = e
         /\ OthersKept(tab, tab', q, s)
         /\ Cardinality(Queued') = Cardinality(Queued) - tab[q][s].count + e.count
         /\ Rings /\ RingOK(q, e) => Rings'
<1>1. TabOK(tab') /\ tab'[q][s] = e
  BY DEF TabOK
<1>2. OthersKept(tab, tab', q, s)
  BY DEF TabOK, OthersKept
<1>3. Rings /\ RingOK(q, e) => Rings'
  BY <1>1, <1>2 DEF Rings, RingOK, OthersKept
<1>4. Cardinality(Queued') = Cardinality(Queued) - tab[q][s].count + e.count
  BY <1>1, <1>2, QueuedNext
<1>5. QED
  BY <1>1, <1>2, <1>3, <1>4

LEMMA TabKept == tab' = tab => Queued' = Queued /\ (Rings => Rings')
BY DEF Queued, Rings, RingOK
-----------------------------------------------------------------------------
(* What the calls that hold a buffer are, and how their number changes.    *)
HeldBy(us) == {p \in User : us[p].op \in {"arp_resolve", "icmp_mkpkt"}}

LEMMA HeldByFinite ==
  ASSUME NEW us PROVE IsFiniteSet(HeldBy(us)) /\ Cardinality(HeldBy(us)) \in Nat
<1>1. IsFiniteSet(User) /\ HeldBy(us) \in SUBSET User
  BY StackAssumption DEF HeldBy
<1>2. IsFiniteSet(HeldBy(us))
  BY <1>1, FS_Subset
<1>3. QED
  BY <1>2, FS_CardinalityType

LEMMA HeldSame ==
  ASSUME NEW us, NEW vs,
         \A p \in User : p \in HeldBy(vs) <=> p \in HeldBy(us)
  PROVE  HeldBy(vs) = HeldBy(us)
BY DEF HeldBy

LEMMA HeldChanges ==
  ASSUME NEW us, NEW vs, NEW p \in User,
         \A r \in User \ {p} : vs[r].op = us[r].op
  PROVE  /\ p \notin HeldBy(us) /\ p \in HeldBy(vs)
              => Cardinality(HeldBy(vs)) = Cardinality(HeldBy(us)) + 1
         /\ p \in HeldBy(us) /\ p \notin HeldBy(vs)
              => Cardinality(HeldBy(vs)) = Cardinality(HeldBy(us)) - 1
         /\ (p \in HeldBy(us) <=> p \in HeldBy(vs)) => HeldBy(vs) = HeldBy(us)
<1>1. CASE p \notin HeldBy(us) /\ p \in HeldBy(vs)
  <2>1. HeldBy(vs) = HeldBy(us) \cup {p}
    BY <1>1 DEF HeldBy
  <2>2. QED
    BY <1>1, <2>1, HeldByFinite, FS_AddElement
<1>2. CASE p \in HeldBy(us) /\ p \notin HeldBy(vs)
  <2>1. HeldBy(vs) = HeldBy(us) \ {p}
    BY <1>2 DEF HeldBy
  <2>2. QED
    BY <1>2, <2>1, HeldByFinite, FS_RemoveElement
<1>3. CASE p \in HeldBy(us) <=> p \in HeldBy(vs)
  BY <1>3 DEF HeldBy
<1>4. QED
  BY <1>1, <1>2, <1>3

(* The processes that Disturb marks wait where they did, not alone.        *)
LEMMA DisturbMarks ==
  ASSUME NEW P, NEW us \in [User -> Calls(P)], NEW W,
         \A p \in W : p \in User /\ us[p].op = "recvtime"
  PROVE  /\ Disturb(us, W) \in [User -> Calls(P)]
         /\ \A p \in User : p \notin W => Disturb(us, W)[p] = us[p]
         /\ \A p \in W : /\ Disturb(us, W)[p].op = "recvtime" /\ ~Disturb(us, W)[p].alone
                         /\ Disturb(us, W)[p].q = us[p].q /\ Disturb(us, W)[p].slot = us[p].slot
<1>1. ASSUME NEW p \in W
      PROVE  /\ us[p] \in ReceiveCall
             /\ [us[p] EXCEPT !.alone = FALSE] \in ReceiveCall
  <2>1. us[p] \in Calls(P) /\ us[p].op = "recvtime"
    OBVIOUS
  <2>2. us[p] \notin OtherCalls(P)
    BY <2>1 DEF OtherCalls, Resting
  <2>3. us[p] \in ReceiveCall
    BY <2>1, <2>2 DEF Calls
  <2>4. QED
    BY <2>3 DEF ReceiveCall
<1>2. \A p \in User : p \notin W => Disturb(us, W)[p] = us[p]
  BY DEF Disturb
<1>3. \A p \in W : Disturb(us, W)[p] = [us[p] EXCEPT !.alone = FALSE]
  BY DEF Disturb
<1>4. Disturb(us, W) \in [User -> Calls(P)]
  BY <1>1 DEF Disturb, Calls
<1>5. QED
  BY <1>1, <1>2, <1>3, <1>4 DEF ReceiveCall
-----------------------------------------------------------------------------
(* The queue of an endpoint when a packet is put, taken, or all are given  *)
(* back.                                                                   *)
Put(q, e) ==
  [e EXCEPT !.count = @ + 1, !.tail = IF @ + 1 >= QSIZ[q] THEN 0 ELSE @ + 1,
            !.state = "USED", !.pid = "none"]

Take(q, e) ==
  [e EXCEPT !.state = "USED", !.pid = "none", !.count = @ - 1,
            !.head = IF @ + 1 >= HeadWraps[q] THEN 0 ELSE @ + 1]

Emptied(q, e) ==
  [e EXCEPT !.state = "FREE", !.pid = "none", !.count = 0,
            !.head = (@ + e.count) % HeadWraps[q]]

LEMMA RingIs ==
  ASSUME NEW q \in Proto, NEW h \in Nat, NEW c \in Nat, NEW t \in Nat
  PROVE  RingAt(q, h, c, t) <=>
           /\ c \in 0..QSIZ[q] /\ h \in 0..QSIZ[q] /\ h < HeadWraps[q]
           /\ t = (IF h + c < QSIZ[q] THEN h + c
                   ELSE IF h + c < 2 * QSIZ[q] THEN h + c - QSIZ[q] ELSE 0)
<1>. DEFINE n == QSIZ[q]
            x == h + c
<1>1. n \in Nat \ {0} /\ x \in Nat
  BY SizesOK
<1>2. /\ x < n => x % n = x
      /\ n <= x /\ x < 2 * n => x % n = x - n
      /\ x = 2 * n => x % n = 0
  <2>. HIDE DEF n, x
  <2>. QED BY <1>1, ModIs
<1>3. c \in 0..n /\ h \in 0..n => x <= 2 * n
  BY <1>1
<1>4. c \in 0..n /\ h \in 0..n
        => x % n = (IF x < n THEN x ELSE IF x < 2 * n THEN x - n ELSE 0)
  <2>. HIDE DEF n, x
  <2>. QED BY <1>1, <1>2, <1>3
<1>. HIDE DEF n, x
<1>5. RingAt(q, h, c, t) <=> c \in 0..n /\ h \in 0..n /\ h < HeadWraps[q] /\ t = x % n
  BY DEF RingAt, n, x
<1>6. RingAt(q, h, c, t) <=>
        /\ c \in 0..n /\ h \in 0..n /\ h < HeadWraps[q]
        /\ t = (IF x < n THEN x ELSE IF x < 2 * n THEN x - n ELSE 0)
  BY <1>4, <1>5
<1>7. QED
  BY <1>1, <1>6 DEF n, x

LEMMA PutRing ==
  ASSUME NEW q \in Proto, NEW h \in Nat, NEW c \in Nat, NEW t \in Nat,
         RingAt(q, h, c, t), c < QSIZ[q]
  PROVE  RingAt(q, h, c + 1, IF t + 1 >= QSIZ[q] THEN 0 ELSE t + 1)
<1>. DEFINE n == QSIZ[q]
            u == IF t + 1 >= n THEN 0 ELSE t + 1
<1>1. n \in Nat \ {0} /\ c + 1 \in Nat /\ u \in Nat
  BY SizesOK
<1>2. /\ c \in 0..n /\ h \in 0..n /\ h < HeadWraps[q]
      /\ t = (IF h + c < n THEN h + c ELSE IF h + c < 2 * n THEN h + c - n ELSE 0)
  BY RingIs
<1>3. /\ c + 1 \in 0..n
      /\ u = (IF h + (c + 1) < n THEN h + (c + 1)
              ELSE IF h + (c + 1) < 2 * n THEN h + (c + 1) - n ELSE 0)
  BY <1>1, <1>2
<1>. HIDE DEF u
<1>4. RingAt(q, h, c + 1, u)
  BY <1>1, <1>2, <1>3, RingIs
<1>5. QED
  BY <1>4 DEF u

LEMMA TakeRing ==
  ASSUME NEW q \in Proto, NEW h \in Nat, NEW c \in Nat, NEW t \in Nat,
         RingAt(q, h, c, t), c > 0, h < QSIZ[q]
  PROVE  RingAt(q, IF h + 1 >= HeadWraps[q] THEN 0 ELSE h + 1, c - 1, t)
<1>. DEFINE n == QSIZ[q]
            m == HeadWraps[q]
            k == IF h + 1 >= m THEN 0 ELSE h + 1
<1>1. n \in Nat \ {0} /\ m \in Nat \ {0} /\ n <= m /\ c - 1 \in Nat /\ k \in Nat
  BY SizesOK
<1>2. /\ c \in 0..n /\ h \in 0..n /\ h < m
      /\ t = (IF h + c < n THEN h + c ELSE IF h + c < 2 * n THEN h + c - n ELSE 0)
  BY RingIs, ZenonT(90)
<1>3. /\ c - 1 \in 0..n /\ k \in 0..n /\ k < m
      /\ t = (IF k + (c - 1) < n THEN k + (c - 1)
              ELSE IF k + (c - 1) < 2 * n THEN k + (c - 1) - n ELSE 0)
  BY <1>1, <1>2
<1>. HIDE DEF k
<1>4. RingAt(q, k, c - 1, t)
  BY <1>1, <1>2, <1>3, RingIs
<1>5. QED
  BY <1>4 DEF k

(* When all packets are given back, and none of them was looked for past   *)
(* the end of the queue.                                                   *)
LEMMA EmptiedRing ==
  ASSUME NEW q \in Proto, NEW h \in Nat, NEW c \in Nat, NEW t \in Nat,
         RingAt(q, h, c, t), \A i \in 0..(c - 1) : (h + i) % HeadWraps[q] < QSIZ[q]
  PROVE  RingAt(q, (h + c) % HeadWraps[q], 0, t)
<1>. DEFINE n == QSIZ[q]
            m == HeadWraps[q]
            x == h + c
            k == x % m
<1>1. n \in Nat \ {0} /\ m \in Nat \ {0} /\ n <= m /\ x \in Nat
  BY SizesOK
<1>2. /\ c \in 0..n /\ h \in 0..n /\ h < m
      /\ t = (IF x < n THEN x ELSE IF x < 2 * n THEN x - n ELSE 0)
  <2>1. c \in 0..QSIZ[q] /\ h \in 0..QSIZ[q] /\ h < HeadWraps[q]
    BY RingIs
  <2>2. t = (IF h + c < QSIZ[q] THEN h + c
             ELSE IF h + c < 2 * QSIZ[q] THEN h + c - QSIZ[q] ELSE 0)
    BY RingIs
  <2>3. c \in 0..n /\ h \in 0..n /\ h < m
    BY <2>1
  <2>4. t = (IF x < n THEN x ELSE IF x < 2 * n THEN x - n ELSE 0)
    BY <1>1, <2>2
  <2>5. QED
    BY <2>3, <2>4
<1>3. /\ k \in 0..(m - 1)
      /\ x < m => k = x
      /\ m <= x /\ x < 2 * m => k = x - m
      /\ x = 2 * m => k = 0
  <2>. HIDE DEF m, x
  <2>. QED BY <1>1, ModIs
<1>4. CASE c > 0 /\ n < m
  <2>1. x <= n
    <3>1. SUFFICES ASSUME x > n PROVE FALSE
      BY <1>1
    <3>2. n - h \in 0..(c - 1) /\ h + (n - h) = n
      BY <1>1, <1>2, <1>4, <3>1
    <3>3. n % m < n
      BY <3>2
    <3>4. n % m = n
      <4>. HIDE DEF n, m
      <4>. QED BY <1>1, <1>4, ModIs
    <3>5. QED
      BY <1>1, <3>3, <3>4
  <2>2. k = x
    <3>. HIDE DEF k, m
    <3>. QED BY <1>1, <1>3, <1>4, <2>1
  <2>. HIDE DEF k
  <2>3. k \in Nat /\ k \in 0..n /\ k < m
        /\ t = (IF k + 0 < n THEN k + 0 ELSE IF k + 0 < 2 * n THEN k + 0 - n ELSE 0)
    BY <1>1, <1>2, <1>3, <1>4, <2>1, <2>2
  <2>4. RingAt(q, k, 0, t)
    BY <1>1, <2>3, RingIs
  <2>5. QED
    BY <2>4 DEF k
<1>5. CASE c = 0 \/ n = m
  <2>. HIDE DEF k
  <2>1. k \in Nat /\ k \in 0..n /\ k < m
        /\ t = (IF k + 0 < n THEN k + 0 ELSE IF k + 0 < 2 * n THEN k + 0 - n ELSE 0)
    <3>1. CASE c = 0
      BY <1>1, <1>2, <1>3, <3>1
    <3>2. CASE n = m
      BY <1>1, <1>2, <1>3, <3>2
    <3>3. QED
      BY <1>5, <3>1, <3>2
  <2>2. RingAt(q, k, 0, t)
    BY <1>1, <2>1, RingIs
  <2>3. QED
    BY <2>2 DEF k
<1>6. QED
  <2>. HIDE DEF n, m, k
  <2>1. c = 0 \/ n = m \/ (c > 0 /\ n < m)
    BY <1>1
  <2>2. RingAt(q, k, 0, t)
    BY <1>4, <1>5, <2>1 DEF k, m
  <2>3. QED
    BY <2>2 DEF k, m

LEMMA PutOK ==
  ASSUME NEW q \in Proto, NEW e \in Endpoint
  PROVE  /\ Put(q, e) \in Endpoint
         /\ Put(q, e).count = e.count + 1 /\ Put(q, e).state = "USED"
         /\ RingOK(q, e) /\ e.count < QSIZ[q] => RingOK(q, Put(q, e))
<1>. DEFINE t == IF e.tail + 1 >= QSIZ[q] THEN 0 ELSE e.tail + 1
            c == e.count + 1
<1>1. e.head \in Nat /\ e.count \in Nat /\ e.tail \in Nat /\ t \in Nat /\ c \in Nat
  BY SizesOK DEF Endpoint
<1>2. RingAt(q, e.head, e.count, e.tail) /\ e.count < QSIZ[q] => RingAt(q, e.head, c, t)
  BY <1>1, PutRing
<1>3. Put(q, e) = [e EXCEPT !.count = c, !.tail = t, !.state = "USED", !.pid = "none"]
  BY DEF Put
<1>. HIDE DEF t
<1>4. Put(q, e) \in Endpoint
  <2>. HIDE DEF c
  <2>. QED BY <1>1, <1>3 DEF Endpoint
<1>5. /\ Put(q, e).count = c /\ Put(q, e).state = "USED"
      /\ Put(q, e).head = e.head /\ Put(q, e).tail = t
  BY <1>3 DEF Endpoint
<1>6. QED
  BY <1>2, <1>4, <1>5 DEF RingOK

LEMMA TakeOK ==
  ASSUME NEW q \in Proto, NEW e \in Endpoint, e.count > 0
  PROVE  /\ Take(q, e) \in Endpoint
         /\ Take(q, e).count = e.count - 1
         /\ RingOK(q, e) /\ e.head < QSIZ[q] => RingOK(q, Take(q, e))
<1>. DEFINE h == IF e.head + 1 >= HeadWraps[q] THEN 0 ELSE e.head + 1
            c == e.count - 1
<1>1. e.head \in Nat /\ e.count \in Nat /\ e.tail \in Nat /\ h \in Nat /\ c \in Nat
  BY SizesOK DEF Endpoint
<1>2. RingAt(q, e.head, e.count, e.tail) /\ e.head < QSIZ[q] => RingAt(q, h, c, e.tail)
  BY <1>1, TakeRing
<1>3. Take(q, e) = [e EXCEPT !.state = "USED", !.pid = "none", !.count = c, !.head = h]
  BY DEF Take
<1>. HIDE DEF h
<1>4. Take(q, e) \in Endpoint
  <2>. HIDE DEF c
  <2>. QED BY <1>1, <1>3 DEF Endpoint
<1>5. /\ Take(q, e).count = c /\ Take(q, e).state = "USED"
      /\ Take(q, e).head = h /\ Take(q, e).tail = e.tail
  BY <1>3 DEF Endpoint
<1>6. QED
  BY <1>2, <1>4, <1>5 DEF RingOK

LEMMA EmptiedOK ==
  ASSUME NEW q \in Proto, NEW e \in Endpoint
  PROVE  /\ Emptied(q, e) \in Endpoint
         /\ Emptied(q, e).count = 0
         /\ RingOK(q, e) /\ (\A i \in 0..(e.count - 1) : (e.head + i) % HeadWraps[q] < QSIZ[q])
              => RingOK(q, Emptied(q, e))
<1>. DEFINE h == (e.head + e.count) % HeadWraps[q]
            f == Emptied(q, e)
<1>1. e.head \in Nat /\ e.count \in Nat /\ e.tail \in Nat /\ e.head + e.count \in Nat
  BY DEF Endpoint
<1>2. h \in Nat
  <2>1. HeadWraps[q] \in Nat \ {0}
    BY SizesOK
  <2>2. h \in 0..(HeadWraps[q] - 1)
    BY <1>1, <2>1, ModIs
  <2>3. QED
    BY <2>1, <2>2
<1>3. RingAt(q, e.head, e.count, e.tail)
        /\ (\A i \in 0..(e.count - 1) : (e.head + i) % HeadWraps[q] < QSIZ[q])
      => RingAt(q, h, 0, e.tail)
  BY <1>1, EmptiedRing
<1>4. f = [e EXCEPT !.state = "FREE", !.pid = "none", !.count = 0, !.head = h]
  BY DEF Emptied
<1>. HIDE DEF h, f
<1>5. f \in Endpoint
  BY <1>2, <1>4 DEF Endpoint
<1>6. f.count = 0 /\ f.head = h /\ f.tail = e.tail
  BY <1>4 DEF Endpoint
<1>7. QED
  BY <1>3, <1>5, <1>6 DEF RingOK, f
-----------------------------------------------------------------------------
(* Who waits for a packet waits at an endpoint.                            *)
LEMMA WaitsAt ==
  ASSUME NEW P, UsersOK(P), NEW p \in User, Waiting(p)
  PROVE  /\ user[p] \in ReceiveCall
         /\ user[p].q \in Proto /\ user[p].slot \in Slots[user[p].q]
<1>1. user[p] \in Calls(P) /\ user[p].op = "recvtime"
  BY DEF UsersOK, Waiting
<1>2. user[p] \notin OtherCalls(P)
  BY <1>1 DEF OtherCalls, Resting
<1>3. user[p] \in ReceiveCall
  BY <1>1, <1>2 DEF Calls
<1>4. QED
  BY <1>3 DEF ReceiveCall, UsersOK

(* What the processes do, except that some of those that wait are not      *)
(* alone any more.                                                         *)
SameCalls(us, vs) ==
  \A p \in User : /\ vs[p].op = us[p].op
                  /\ us[p].op = "recvtime" =>
                       /\ vs[p].q = us[p].q /\ vs[p].slot = us[p].slot
                       /\ vs[p].alone => us[p].alone

LEMMA SameCallsHold ==
  ASSUME NEW us, NEW vs, SameCalls(us, vs) PROVE HeldBy(vs) = HeldBy(us)
BY DEF SameCalls, HeldBy

LEMMA WaitersKept ==
  ASSUME WaitersServed, NEW us, SameCalls(us, user'), NEW q, NEW s,
         OthersKept(tab, tab', q, s), NEW P, UsersOK(P),
         \A p \in User : us[p].op = "recvtime" /\ us[p].alone => us[p] = user[p],
         \A p \in User : us[p].op = "recvtime" /\ user'[p].alone =>
            \/ /\ <<us[p].q, us[p].slot>> # <<q, s>>
               /\ box'[p] = "OK" => box[p] = "OK"
            \/ Served(tab', box', user'[p], p)
  PROVE  WaitersServed'
<1>1. SUFFICES ASSUME NEW p \in User, user'[p].op = "recvtime", user'[p].alone
               PROVE  Served(tab', box', user'[p], p)
  BY DEF WaitersServed, Waiting
<1>2. /\ us[p].op = "recvtime" /\ us[p].alone /\ us[p] = user[p]
      /\ user'[p].q = user[p].q /\ user'[p].slot = user[p].slot
  BY <1>1 DEF SameCalls
<1>3. Waiting(p) /\ user[p].alone
  BY <1>2 DEF Waiting
<1>4. Served(tab, box, user[p], p)
  BY <1>3 DEF WaitersServed
<1>5. CASE <<user[p].q, user[p].slot>> # <<q, s>> /\ (box'[p] = "OK" => box[p] = "OK")
  <2>1. tab'[user[p].q][user[p].slot] = tab[user[p].q][user[p].slot]
    BY <1>3, <1>5, WaitsAt DEF OthersKept
  <2>2. QED
    BY <1>2, <1>4, <1>5, <2>1 DEF Served
<1>6. QED
  BY <1>1, <1>2, <1>5

(* A packet is put into the queue of an endpoint, for a process that waits *)
(* there, by netin, by ipout, or by a process that then is at rest.        *)
DepositsFor(P, us) ==
  /\ us \in [User -> Calls(P)]
  /\ \A p \in User : us[p].op = "recvtime" <=> user[p].op = "recvtime"
  /\ \A p \in User : us[p].op = "recvtime" => us[p] = user[p]

LEMMA DepositOK ==
  ASSUME NEW P, UsersOK(P), TabOK(tab), wild = "none", Rings, WaitersServed,
         NEW q \in Proto, NEW s \in Slots[q], NEW us, DepositsFor(P, us), Deposit(q, s, us)
  PROVE  /\ TabOK(tab') /\ UsersOK(P)' /\ wild' # "empty"
         /\ HeldBy(user') = HeldBy(us)
         /\ Cardinality(Queued') = Cardinality(Queued) + 1
         /\ WaitersServed'
         /\ wild' = "none" => Rings'
<1>. DEFINE e == tab[q][s]
            told == e.state = "RECV" /\ e.pid \in User /\ box[e.pid] = "none"
            W == IF told /\ Waiting(e.pid) /\ e.pid \notin WaitersOf(q, s) THEN {e.pid} ELSE {}
<1>1. e \in Endpoint /\ QSIZ[q] \in Nat \ {0}
  BY SizesOK DEF TabOK
<1>2. tab' = [tab EXCEPT ![q][s] = Put(q, e)]
  BY DEF Deposit, Put
<1>3. Put(q, e) \in Endpoint /\ Put(q, e).count = e.count + 1 /\ Put(q, e).state = "USED"
  BY <1>1, PutOK
<1>4. /\ TabOK(tab') /\ tab'[q][s] = Put(q, e) /\ OthersKept(tab, tab', q, s)
      /\ Cardinality(Queued') = Cardinality(Queued) - e.count + Put(q, e).count
      /\ Rings /\ RingOK(q, Put(q, e)) => Rings'
  BY <1>2, <1>3, EndpointChanges, ZenonT(90)
<1>5. Cardinality(Queued') = Cardinality(Queued) + 1
  <2>1. Cardinality(Queued) \in Nat
    BY QueuedNat
  <2>2. e.count \in Nat
    BY <1>1 DEF Endpoint
  <2>3. QED
    BY <1>3, <1>4, <2>1, <2>2
<1>6. /\ box' = IF told THEN [box EXCEPT ![e.pid] = "OK"] ELSE box
      /\ wild' = IF e.count >= QSIZ[q] THEN "overrun" ELSE wild
  BY DEF Deposit
<1>7. user' = IF told /\ Waiting(e.pid) /\ e.pid \notin WaitersOf(q, s)
              THEN Disturb(us, {e.pid}) ELSE us
  BY DEF Deposit
<1>. HIDE DEF e, told, W
<1>8. wild' = "none" => Rings'
  <2>1. SUFFICES ASSUME wild' = "none" PROVE RingOK(q, Put(q, e))
    BY <1>4
  <2>2. e.count < QSIZ[q] /\ RingOK(q, e)
    BY <1>1, <1>6, <2>1 DEF Rings, e, Endpoint
  <2>3. QED
    BY <1>1, <2>2, PutOK
<1>9. /\ user' \in [User -> Calls(P)] /\ SameCalls(us, user')
      /\ \A p \in W : ~user'[p].alone
  <2>1. CASE told /\ Waiting(e.pid) /\ e.pid \notin WaitersOf(q, s)
    <3>1. user' = Disturb(us, W) /\ W = {e.pid} /\ e.pid \in User /\ us[e.pid].op = "recvtime"
      BY <1>7, <2>1 DEF W, told, DepositsFor, Waiting
    <3>2. \A p \in W : p \in User /\ us[p].op = "recvtime"
      BY <3>1
    <3>3. us \in [User -> Calls(P)]
      BY DEF DepositsFor
    <3>4. QED
      BY <3>1, <3>2, <3>3, DisturbMarks DEF SameCalls
  <2>2. CASE ~(told /\ Waiting(e.pid) /\ e.pid \notin WaitersOf(q, s))
    <3>1. user' = us /\ W = {}
      BY <1>7, <2>2 DEF W
    <3>2. QED
      BY <3>1 DEF SameCalls, DepositsFor
  <2>3. QED
    BY <2>1, <2>2
<1>10. UsersOK(P)'
  <2>1. box' \in [User -> {"none", "OK", "pid"}]
    BY <1>6 DEF UsersOK
  <2>2. ASSUME NEW p \in User, user'[p].op = "recvtime"
        PROVE  user'[p].slot \in Slots[user'[p].q]
    <3>1. us[p].op = "recvtime" /\ us[p] = user[p] /\ Waiting(p)
      BY <1>9, <2>2 DEF SameCalls, DepositsFor, Waiting
    <3>2. QED
      BY <1>9, <3>1, WaitsAt DEF SameCalls
  <2>3. QED
    BY <1>9, <2>1, <2>2 DEF UsersOK, Waiting
<1>11. WaitersServed'
  <2>1. ASSUME NEW p \in User, us[p].op = "recvtime", user'[p].alone
        PROVE  \/ <<us[p].q, us[p].slot>> # <<q, s>> /\ (box'[p] = "OK" => box[p] = "OK")
               \/ Served(tab', box', user'[p], p)
    <3>1. us[p] = user[p] /\ Waiting(p) /\ user'[p].q = user[p].q /\ user'[p].slot = user[p].slot
      BY <1>9, <2>1 DEF SameCalls, DepositsFor, Waiting
    <3>2. CASE <<user[p].q, user[p].slot>> = <<q, s>>
      <4>1. tab'[user'[p].q][user'[p].slot] = Put(q, e)
        BY <1>4, <3>1, <3>2
      <4>2. e.count \in Nat
        BY <1>1 DEF Endpoint
      <4>3. QED
        BY <1>3, <4>1, <4>2 DEF Served
    <3>3. CASE <<user[p].q, user[p].slot>> # <<q, s>>
      <4>1. p \notin W
        BY <1>9, <2>1
      <4>2. p \notin WaitersOf(q, s)
        BY <3>3 DEF WaitersOf
      <4>3. ~(told /\ e.pid = p)
        BY <3>1, <4>1, <4>2 DEF W
      <4>4. box'[p] = box[p]
        BY <1>6, <4>3 DEF UsersOK, told
      <4>5. QED
        BY <3>1, <3>3, <4>4
    <3>4. QED
      BY <3>2, <3>3
  <2>2. \A p \in User : us[p].op = "recvtime" /\ us[p].alone => us[p] = user[p]
    BY DEF DepositsFor
  <2>3. QED
    BY <1>4, <1>9, <2>1, <2>2, WaitersKept
<1>12. HeldBy(user') = HeldBy(us)
  BY <1>9, SameCallsHold
<1>13. QED
  BY <1>4, <1>5, <1>6, <1>8, <1>10, <1>11, <1>12

(* A packet that is here is queued, or its buffer is given back.           *)
Stored(f, q, b2, q2) == f \in Nat /\ b2 \in Nat /\ q2 \in Nat /\ b2 + q2 = f + q + 1

LEMMA IpLocalOK ==
  ASSUME NEW P, UsersOK(P), TabOK(tab), wild = "none", Rings, WaitersServed,
         NEW pkt, NEW free \in Nat, NEW us, DepositsFor(P, us), IpLocal(pkt, free, us)
  PROVE  /\ TabOK(tab') /\ UsersOK(P)' /\ wild' # "empty"
         /\ HeldBy(user') = HeldBy(us)
         /\ Stored(free, Cardinality(Queued), netbufpool', Cardinality(Queued'))
         /\ WaitersServed'
         /\ wild' = "none" => Rings'
<1>. DEFINE q == IF pkt.kind = "udp" THEN "udp" ELSE "icmp"
            s == Min(Taker(pkt))
<1>1. CASE Taker(pkt) # {} /\ Deposit(q, s, us) /\ netbufpool' = free
  <2>1. q \in Proto /\ Taker(pkt) \subseteq Used(q) /\ Used(q) \subseteq Slots[q]
    BY DEF Taker, UdpTaker, IcmpTaker, Used, Proto
  <2>2. s \in Taker(pkt)
    BY <1>1, <2>1, MinOK, SizesOK
  <2>3. s \in Slots[q]
    BY <2>1, <2>2
  <2>. HIDE DEF q, s
  <2>4. /\ TabOK(tab') /\ UsersOK(P)' /\ wild' # "empty"
        /\ HeldBy(user') = HeldBy(us)
        /\ Cardinality(Queued') = Cardinality(Queued) + 1
        /\ WaitersServed'
        /\ wild' = "none" => Rings'
    BY <1>1, <2>1, <2>3, DepositOK
  <2>5. Cardinality(Queued) \in Nat
    BY QueuedNat
  <2>6. Stored(free, Cardinality(Queued), netbufpool', Cardinality(Queued'))
    BY <1>1, <2>4, <2>5 DEF Stored
  <2>7. QED
    BY <1>1, <2>4, <2>6
<1>2. CASE netbufpool' = free + 1 /\ user' = us /\ UNCHANGED <<tab, box, wild>>
  <2>1. TabOK(tab') /\ wild' # "empty" /\ Rings' /\ Queued' = Queued
    BY <1>2, TabKept
  <2>2. UsersOK(P)'
    BY <1>2 DEF UsersOK, DepositsFor, Waiting
  <2>3. WaitersServed'
    BY <1>2 DEF WaitersServed, Served, DepositsFor, Waiting
  <2>4. Cardinality(Queued) \in Nat
    BY QueuedNat
  <2>5. Stored(free, Cardinality(Queued), netbufpool', Cardinality(Queued'))
    BY <1>2, <2>1, <2>4 DEF Stored
  <2>6. QED
    BY <1>2, <2>1, <2>2, <2>3, <2>5
<1>3. QED
  BY <1>1, <1>2 DEF IpLocal

InHeld  == IF netin.op = "getbuf" THEN 0 ELSE 1
OutHeld == IF ipout.op = "arp_resolve" THEN 1 ELSE 0

(* n buffers are in the pool, held by processes, by netin, by ipout, or    *)
(* queued as replies or at endpoints.                                      *)
Sum(n, b, h, i, o, l, q) ==
  /\ {b, h, i, o, l, q} \subseteq Nat
  /\ b + (h + i + o) + l + q = n

Total == Sum(NBufs, netbufpool, Cardinality(HeldBy(user)), InHeld, OutHeld, Len(ipoqueue),
             Cardinality(Queued))

LEMMA TotalIs ==
  ASSUME NEW P, NetOK(P), TabOK(tab), Conserved
  PROVE  Total
<1>1. Held = Cardinality(HeldBy(user)) + InHeld + OutHeld
  BY DEF Held, HeldBy, InHeld, OutHeld
<1>2. netbufpool \in Nat /\ InHeld \in Nat /\ OutHeld \in Nat /\ Len(ipoqueue) \in Nat
  BY DEF NetOK, InHeld, OutHeld
<1>3. Cardinality(HeldBy(user)) \in Nat /\ Cardinality(Queued) \in Nat
  BY HeldByFinite, QueuedNat
<1>4. QED
  BY <1>1, <1>2, <1>3 DEF Conserved, Total, Sum

LEMMA TotalNext == ASSUME Total' PROVE Conserved'
<1>1. Held' = Cardinality(HeldBy(user')) + InHeld' + OutHeld'
  BY DEF Held, HeldBy, InHeld, OutHeld
<1>2. QED
  BY <1>1 DEF Conserved, Total, Sum

LEMMA HeldNats ==
  /\ InHeld \in Nat /\ OutHeld \in Nat /\ InHeld' \in Nat /\ OutHeld' \in Nat
BY DEF InHeld, OutHeld

(* One buffer less in the pool, or one more.                               *)
LEMMA PoolBalance ==
  ASSUME NEW n, NEW b, NEW h, NEW i, NEW o, NEW l, NEW q, NEW b2, NEW h2, NEW i2, NEW o2, NEW q2,
         Sum(n, b, h, i, o, l, q), {b2, h2, i2, o2, q2} \subseteq Nat,
         \/ /\ b = b2 + 1
            /\ \/ h2 = h + 1 /\ i2 = i /\ o2 = o /\ q2 = q
               \/ h2 = h /\ i2 = i + 1 /\ o2 = o /\ q2 = q
         \/ /\ b2 = b + 1
            /\ \/ h = h2 + 1 /\ i2 = i /\ o2 = o /\ q2 = q
               \/ h2 = h /\ i = i2 + 1 /\ o2 = o /\ q2 = q
               \/ h2 = h /\ i2 = i /\ o = o2 + 1 /\ q2 = q
               \/ h2 = h /\ i2 = i /\ o2 = o /\ q = q2 + 1
  PROVE  Sum(n, b2, h2, i2, o2, l, q2)
BY DEF Sum

(* A reply is queued or not, and the buffer of the request is free.        *)
Replied(b, l, b2, l2) == b2 \in Nat /\ l2 \in Nat /\ b2 + l2 = b + l + 1

LEMMA ReplyBalance ==
  ASSUME NEW n, NEW b, NEW h, NEW i, NEW o, NEW l, NEW q, NEW b2, NEW h2, NEW i2, NEW l2,
         Sum(n, b, h, i, o, l, q), Replied(b, l, b2, l2), {h2, i2} \subseteq Nat
  PROVE  /\ h = h2 + 1 => Sum(n, b2, h2, i, o, l2, q)
         /\ i = i2 + 1 => Sum(n, b2, h, i2, o, l2, q)
<1>1. ASSUME h = h2 + 1 PROVE Sum(n, b2, h2, i, o, l2, q)
  <2>1. b2 + (h2 + i + o) + l2 + q = n
    BY <1>1 DEF Sum, Replied
  <2>2. QED
    BY <2>1 DEF Sum, Replied
<1>2. ASSUME i = i2 + 1 PROVE Sum(n, b2, h, i2, o, l2, q)
  <2>1. b2 + (h + i2 + o) + l2 + q = n
    BY <1>2 DEF Sum, Replied
  <2>2. QED
    BY <2>1 DEF Sum, Replied
<1>3. QED
  BY <1>1, <1>2

(* ipout takes a reply out of its queue.                                   *)
LEMMA TakeBalance ==
  ASSUME NEW n, NEW b, NEW h, NEW i, NEW o, NEW l, NEW q, NEW o2, NEW l2,
         Sum(n, b, h, i, o, l, q), {o2, l2} \subseteq Nat, o2 = o + 1, l = l2 + 1
  PROVE  Sum(n, b, h, i, o2, l2, q)
BY DEF Sum

(* A packet gets to an endpoint or not, and its buffer came from the pool, *)
(* from netin, or from the queue of replies.                               *)
LEMMA LocalBalance ==
  ASSUME NEW n, NEW b, NEW h, NEW i, NEW o, NEW l, NEW q, NEW b2, NEW i2, NEW l2, NEW q2, NEW f,
         Sum(n, b, h, i, o, l, q), Stored(f, q, b2, q2), {i2, l2} \subseteq Nat,
         \/ b = f + 1 /\ i2 = i /\ l2 = l
         \/ f = b /\ i = i2 + 1 /\ l2 = l
         \/ f = b /\ i2 = i /\ l = l2 + 1
  PROVE  Sum(n, b2, h, i2, o, l2, q2)
<1>1. b2 + (h + i2 + o) + l2 + q2 = n
  BY DEF Sum, Stored
<1>2. QED
  BY <1>1 DEF Sum, Stored

(* icmp_in answers an echo request: the buffer of the request is given     *)
(* back, and that of the reply if it is not queued.                        *)
LEMMA EchoReplyOK ==
  ASSUME NEW P, NetOK(P), wild = "none", NEW pkt \in P, EchoReply(pkt)
  PROVE  /\ netbufpool' \in Nat
         /\ ipout' \in [op : {"wait", "released", "arp_resolve"}]
         /\ ipoqueue' \in Seq({[dst |-> r.src, ident |-> r.ident] : r \in P})
         /\ wild' # "empty"
         /\ OutHeld' = OutHeld
         /\ Replied(netbufpool, Len(ipoqueue), netbufpool', Len(ipoqueue'))
<1>. DEFINE R == {[dst |-> r.src, ident |-> r.ident] : r \in P}
<1>1. /\ netbufpool \in Nat /\ ipoqueue \in Seq(R) /\ Len(ipoqueue) \in Nat
      /\ ipout \in [op : {"wait", "released", "arp_resolve"}]
  BY DEF NetOK
<1>2. CASE netbufpool' = netbufpool + 1 /\ UNCHANGED <<ipout, ipoqueue, wild>>
  BY <1>1, <1>2 DEF OutHeld, Replied
<1>3. CASE /\ netbufpool' = netbufpool
           /\ ipoqueue' = Append(ipoqueue, [dst |-> pkt.src, ident |-> pkt.ident])
           /\ ipout' = IF ipout.op = "wait" /\ ipoqueue = <<>> THEN [op |-> "released"] ELSE ipout
           /\ wild' = IF Len(ipoqueue) = IP_OQSIZ THEN "overrun" ELSE wild
  <2>1. [dst |-> pkt.src, ident |-> pkt.ident] \in R
    OBVIOUS
  <2>. HIDE DEF R
  <2>2. ipoqueue' \in Seq(R) /\ Len(ipoqueue') = Len(ipoqueue) + 1
    BY <1>1, <1>3, <2>1, AppendProperties
  <2>3. ipout' \in [op : {"wait", "released", "arp_resolve"}] /\ OutHeld' = OutHeld
    BY <1>1, <1>3 DEF OutHeld
  <2>4. QED
    BY <1>1, <1>3, <2>2, <2>3 DEF R, Replied
<1>4. QED
  BY <1>2, <1>3 DEF EchoReply

Here(P) == StackIInv(P) /\ wild = "none"

LEMMA HereIs ==
  ASSUME NEW P, Here(P)
  PROVE  /\ NetOK(P) /\ TabOK(tab) /\ UsersOK(P) /\ wild = "none"
         /\ Rings /\ WaitersServed /\ Total
BY TotalIs DEF Here, StackIInv

(* The processes of the network.                                           *)
LEMMA EndpointsKept ==
  ASSUME NEW P, Here(P), UNCHANGED <<tab, user, box>>
  PROVE  TabOK(tab') /\ UsersOK(P)' /\ Rings' /\ WaitersServed' /\ Queued' = Queued
<1>1. TabOK(tab') /\ UsersOK(P)'
  BY HereIs DEF UsersOK, Waiting
<1>2. WaitersServed'
  BY HereIs DEF WaitersServed, Waiting, Served
<1>3. QED
  BY <1>1, <1>2, HereIs, TabKept

LEMMA NetinGetbufOK == ASSUME NEW P, Here(P), NetinGetbuf PROVE StackIInv(P)'
<1>1. TabOK(tab') /\ UsersOK(P)' /\ Rings' /\ WaitersServed' /\ Queued' = Queued
  BY EndpointsKept DEF NetinGetbuf
<1>2. NetOK(P)'
  BY HereIs DEF NetinGetbuf, NetOK
<1>3. /\ InHeld' = InHeld + 1 /\ OutHeld' = OutHeld /\ netbufpool = netbufpool' + 1
      /\ Cardinality(HeldBy(user')) = Cardinality(HeldBy(user)) /\ ipoqueue' = ipoqueue
      /\ {netbufpool', Cardinality(HeldBy(user)), InHeld', OutHeld, Cardinality(Queued)} \subseteq Nat
  BY <1>2, HereIs, HeldNats DEF NetinGetbuf, InHeld, OutHeld, NetOK, Total, Sum
<1>4. Total'
  BY <1>1, <1>3, HereIs, PoolBalance DEF Total
<1>5. QED
  BY <1>1, <1>2, <1>4, HereIs, TotalNext DEF StackIInv, NetinGetbuf

LEMMA IpoutSendsOK == ASSUME NEW P, Here(P), IpoutSends PROVE StackIInv(P)'
<1>1. TabOK(tab') /\ UsersOK(P)' /\ Rings' /\ WaitersServed' /\ Queued' = Queued
  BY EndpointsKept DEF IpoutSends
<1>2. NetOK(P)'
  <2>1. NetOK(P)
    BY HereIs
  <2>2. ipout' \in [op : {"wait", "released", "arp_resolve"}]
    BY DEF IpoutSends
  <2>3. QED
    BY <2>1, <2>2 DEF IpoutSends, NetOK
<1>3. /\ InHeld' = InHeld /\ OutHeld = OutHeld' + 1 /\ netbufpool' = netbufpool + 1
      /\ Cardinality(HeldBy(user')) = Cardinality(HeldBy(user)) /\ ipoqueue' = ipoqueue
      /\ {netbufpool', Cardinality(HeldBy(user)), InHeld, OutHeld', Cardinality(Queued)} \subseteq Nat
  BY <1>2, HereIs, HeldNats DEF IpoutSends, InHeld, OutHeld, NetOK, Total, Sum
<1>4. Total'
  BY <1>1, <1>3, HereIs, PoolBalance DEF Total
<1>5. QED
  BY <1>1, <1>2, <1>4, HereIs, TotalNext DEF StackIInv, IpoutSends

LEMMA NetinRepliesOK == ASSUME NEW P, Here(P), NetinReplies PROVE StackIInv(P)'
<1>1. TabOK(tab') /\ UsersOK(P)' /\ Rings' /\ WaitersServed' /\ Queued' = Queued
  BY EndpointsKept DEF NetinReplies
<1>2. netin.pkt \in P
  <2>1. NetOK(P) /\ netin.op = "icmp_mkpkt"
    BY HereIs DEF NetinReplies
  <2>2. netin \in [op : {"icmp_mkpkt"}, pkt : P]
    BY <2>1 DEF NetOK
  <2>3. QED
    BY <2>2
<1>3. /\ netbufpool' \in Nat
      /\ ipout' \in [op : {"wait", "released", "arp_resolve"}]
      /\ ipoqueue' \in Seq({[dst |-> r.src, ident |-> r.ident] : r \in P})
      /\ wild' # "empty"
      /\ OutHeld' = OutHeld
      /\ Replied(netbufpool, Len(ipoqueue), netbufpool', Len(ipoqueue'))
  BY <1>2, HereIs, EchoReplyOK DEF NetinReplies
<1>4. NetOK(P)'
  BY <1>3 DEF NetinReplies, NetOK
<1>5. /\ InHeld = InHeld' + 1 /\ Cardinality(HeldBy(user')) = Cardinality(HeldBy(user))
      /\ {Cardinality(HeldBy(user)), InHeld'} \subseteq Nat
  BY HereIs, HeldNats DEF NetinReplies, InHeld, Total, Sum
<1>6. Total'
  BY <1>1, <1>3, <1>5, HereIs, ReplyBalance DEF Total
<1>7. QED
  BY <1>1, <1>3, <1>4, <1>6, TotalNext DEF StackIInv

LEMMA UserDeposits == ASSUME NEW P, UsersOK(P) PROVE DepositsFor(P, user)
BY DEF DepositsFor, UsersOK

LEMMA NetinPacketOK ==
  ASSUME NEW P, Here(P), NEW pkt \in P, NEW ipvalid, NetinPacket(pkt, ipvalid)
  PROVE  StackIInv(P)'
<1>0. /\ NetOK(P) /\ InHeld = 1 /\ OutHeld' = OutHeld /\ netin.op = "read"
      /\ ipoqueue' = ipoqueue /\ ipout' = ipout
      /\ {netbufpool, Cardinality(HeldBy(user)), OutHeld, Cardinality(Queued), Len(ipoqueue)}
           \subseteq Nat
  BY HereIs, HeldNats DEF NetinPacket, InHeld, OutHeld, Total, Sum
<1>1. CASE netbufpool' = netbufpool + 1 /\ netin' = [op |-> "getbuf"]
           /\ UNCHANGED <<tab, box, user, wild>>
  <2>1. TabOK(tab') /\ UsersOK(P)' /\ Rings' /\ WaitersServed' /\ Queued' = Queued
    BY <1>1, EndpointsKept
  <2>2. NetOK(P)'
    BY <1>0, <1>1 DEF NetOK
  <2>3. /\ InHeld = InHeld' + 1 /\ InHeld' \in Nat /\ netbufpool' \in Nat
        /\ Cardinality(HeldBy(user')) = Cardinality(HeldBy(user))
    BY <1>0, <1>1 DEF InHeld
  <2>4. Total'
    <3>1. Sum(NBufs, netbufpool, Cardinality(HeldBy(user)), InHeld, OutHeld, Len(ipoqueue),
              Cardinality(Queued))
      BY HereIs DEF Total
    <3>2. netbufpool' = netbufpool + 1 /\ InHeld = InHeld' + 1
          /\ {netbufpool', Cardinality(HeldBy(user)), InHeld', OutHeld, Cardinality(Queued)}
               \subseteq Nat
      BY <1>0, <1>1, <2>3
    <3>3. Sum(NBufs, netbufpool', Cardinality(HeldBy(user)), InHeld', OutHeld, Len(ipoqueue),
              Cardinality(Queued))
      BY <3>1, <3>2, PoolBalance
    <3>4. QED
      BY <1>0, <2>1, <2>3, <3>3 DEF Total
  <2>5. QED
    BY <1>1, <2>1, <2>2, <2>4, HereIs, TotalNext DEF StackIInv
<1>2. CASE IpLocal(pkt, netbufpool, user) /\ netin' = [op |-> "getbuf"]
  <2>1. /\ TabOK(tab') /\ UsersOK(P)' /\ wild' # "empty"
        /\ HeldBy(user') = HeldBy(user)
        /\ Stored(netbufpool, Cardinality(Queued), netbufpool', Cardinality(Queued'))
        /\ WaitersServed'
        /\ wild' = "none" => Rings'
    BY <1>0, <1>2, HereIs, UserDeposits, IpLocalOK
  <2>2. NetOK(P)'
    BY <1>0, <1>2, <2>1 DEF NetOK, Stored
  <2>3. InHeld = InHeld' + 1 /\ InHeld' \in Nat
    BY <1>0, <1>2 DEF InHeld
  <2>4. Total'
    <3>1. Sum(NBufs, netbufpool, Cardinality(HeldBy(user)), InHeld, OutHeld, Len(ipoqueue),
              Cardinality(Queued))
      BY HereIs DEF Total
    <3>2. {InHeld', Len(ipoqueue)} \subseteq Nat
      BY <1>0, <2>3
    <3>3. Sum(NBufs, netbufpool', Cardinality(HeldBy(user)), InHeld', OutHeld, Len(ipoqueue),
              Cardinality(Queued'))
      BY <2>1, <2>3, <3>1, <3>2, LocalBalance
    <3>4. QED
      BY <1>0, <2>1, <3>3 DEF Total
  <2>5. QED
    BY <2>1, <2>2, <2>4, TotalNext DEF StackIInv
<1>3. CASE netin' = [op |-> "icmp_mkpkt", pkt |-> pkt]
           /\ UNCHANGED <<netbufpool, tab, box, user, wild>>
  <2>1. TabOK(tab') /\ UsersOK(P)' /\ Rings' /\ WaitersServed' /\ Queued' = Queued
    BY <1>3, EndpointsKept
  <2>2. NetOK(P)'
    <3>1. netin' \in [op : {"icmp_mkpkt"}, pkt : P]
      BY <1>3
    <3>2. QED
      BY <1>0, <1>3, <3>1 DEF NetOK
  <2>3. InHeld' = InHeld /\ HeldBy(user') = HeldBy(user)
    BY <1>0, <1>3 DEF InHeld
  <2>4. Total'
    BY <1>0, <1>3, <2>1, <2>3, HereIs DEF Total
  <2>5. QED
    BY <1>3, <2>1, <2>2, <2>4, HereIs, TotalNext DEF StackIInv
<1>4. QED
  BY <1>1, <1>2, <1>3 DEF NetinPacket

LEMMA IpoutTakesOK == ASSUME NEW P, Here(P), IpoutTakes PROVE StackIInv(P)'
<1>. DEFINE R == {[dst |-> r.src, ident |-> r.ident] : r \in P}
            r == Head(ipoqueue)
            pkt == [kind |-> "echoreply", src |-> "self", ident |-> r.ident]
<1>0. /\ NetOK(P) /\ InHeld' = InHeld /\ OutHeld = 0 /\ netin' = netin
      /\ {netbufpool, Cardinality(HeldBy(user)), InHeld, Cardinality(Queued), Len(ipoqueue)}
           \subseteq Nat
  BY HereIs, HeldNats DEF IpoutTakes, InHeld, OutHeld, Total, Sum
<1>1. ipoqueue' \in Seq(R) /\ Len(ipoqueue) = Len(ipoqueue') + 1 /\ Len(ipoqueue') \in Nat
  <2>1. ipoqueue \in Seq(R) /\ ipoqueue # <<>> /\ ipoqueue' = Tail(ipoqueue)
    BY <1>0 DEF NetOK, IpoutTakes
  <2>. HIDE DEF R
  <2>2. Tail(ipoqueue) \in Seq(R) /\ Len(Tail(ipoqueue)) = Len(ipoqueue) - 1
    BY <2>1, HeadTailProperties
  <2>3. QED
    BY <2>1, <2>2
<1>2. CASE IpLocal(pkt, netbufpool, user) /\ ipout' = [op |-> "wait"]
  <2>. HIDE DEF pkt
  <2>1. /\ TabOK(tab') /\ UsersOK(P)' /\ wild' # "empty"
        /\ HeldBy(user') = HeldBy(user)
        /\ Stored(netbufpool, Cardinality(Queued), netbufpool', Cardinality(Queued'))
        /\ WaitersServed'
        /\ wild' = "none" => Rings'
    BY <1>0, <1>2, HereIs, UserDeposits, IpLocalOK
  <2>2. NetOK(P)'
    <3>1. ipout' \in [op : {"wait", "released", "arp_resolve"}]
      BY <1>2
    <3>2. QED
      BY <1>0, <1>1, <2>1, <3>1 DEF NetOK, Stored
  <2>3. OutHeld' = OutHeld
    BY <1>0, <1>2 DEF OutHeld
  <2>4. Total'
    BY <1>0, <1>1, <2>1, <2>3, HereIs, LocalBalance DEF Total
  <2>5. QED
    BY <2>1, <2>2, <2>4, TotalNext DEF StackIInv
<1>3. CASE ipout' = [op |-> "arp_resolve"] /\ UNCHANGED <<netbufpool, tab, box, user, wild>>
  <2>1. TabOK(tab') /\ UsersOK(P)' /\ Rings' /\ WaitersServed' /\ Queued' = Queued
    BY <1>3, EndpointsKept
  <2>2. NetOK(P)'
    <3>1. ipout' \in [op : {"wait", "released", "arp_resolve"}]
      BY <1>3
    <3>2. QED
      BY <1>0, <1>1, <1>3, <3>1 DEF NetOK
  <2>3. OutHeld' = OutHeld + 1 /\ HeldBy(user') = HeldBy(user) /\ OutHeld' \in Nat
    BY <1>0, <1>3 DEF OutHeld
  <2>4. Sum(NBufs, netbufpool', Cardinality(HeldBy(user')), InHeld', OutHeld', Len(ipoqueue'),
            Cardinality(Queued'))
    <3>1. Sum(NBufs, netbufpool, Cardinality(HeldBy(user)), InHeld, OutHeld, Len(ipoqueue),
              Cardinality(Queued))
      BY HereIs DEF Total
    <3>2. Sum(NBufs, netbufpool, Cardinality(HeldBy(user)), InHeld, OutHeld', Len(ipoqueue'),
              Cardinality(Queued))
      BY <1>1, <2>3, <3>1, TakeBalance
    <3>3. QED
      BY <1>0, <1>3, <2>1, <2>3, <3>2
  <2>5. QED
    BY <1>3, <2>1, <2>2, <2>4, HereIs, TotalNext DEF StackIInv, Total
<1>4. QED
  BY <1>2, <1>3 DEF IpoutTakes
-----------------------------------------------------------------------------
(* The calls of processes.  Nobody is alone any more at an endpoint that   *)
(* another process changes; those who wait elsewhere go on as they were.   *)
GoesOn(q, s) ==
  \A p \in User : user'[p].op = "recvtime" /\ user'[p].alone =>
    \/ Served(tab', box', user'[p], p)
    \/ /\ user[p].op = "recvtime" /\ user[p].alone
       /\ user'[p].q = user[p].q /\ user'[p].slot = user[p].slot
       /\ <<user[p].q, user[p].slot>> # <<q, s>>
       /\ box'[p] = "OK" => box[p] = "OK"

LEMMA GoOn ==
  ASSUME NEW P, Here(P), NEW q, NEW s, OthersKept(tab, tab', q, s), GoesOn(q, s)
  PROVE  WaitersServed'
<1>1. UsersOK(P) /\ WaitersServed
  BY HereIs
<1>2. SUFFICES ASSUME NEW p \in User, user'[p].op = "recvtime", user'[p].alone
               PROVE  Served(tab', box', user'[p], p)
  BY DEF WaitersServed, Waiting
<1>3. SUFFICES ASSUME /\ user[p].op = "recvtime" /\ user[p].alone
                      /\ user'[p].q = user[p].q /\ user'[p].slot = user[p].slot
                      /\ <<user[p].q, user[p].slot>> # <<q, s>>
                      /\ box'[p] = "OK" => box[p] = "OK"
               PROVE  Served(tab', box', user'[p], p)
  BY <1>2 DEF GoesOn
<1>4. Waiting(p)
  BY <1>3 DEF Waiting
<1>5. Served(tab, box, user[p], p)
  BY <1>1, <1>3, <1>4 DEF WaitersServed
<1>6. tab'[user[p].q][user[p].slot] = tab[user[p].q][user[p].slot]
  BY <1>1, <1>3, <1>4, WaitsAt DEF OthersKept
<1>7. QED
  BY <1>3, <1>5, <1>6 DEF Served

LEMMA DisturbKeeps ==
  ASSUME NEW P, UsersOK(P), NEW q, NEW s
  PROVE  LET us == Disturb(user, WaitersOf(q, s)) IN
         /\ us \in [User -> Calls(P)]
         /\ SameCalls(user, us)
         /\ \A p \in User : us[p].op = "recvtime" /\ us[p].alone
                              => <<user[p].q, user[p].slot>> # <<q, s>>
         /\ \A p \in User : user[p].op # "recvtime" => us[p] = user[p]
         /\ \A p \in User : us[p].op = "recvtime" => us[p].slot \in Slots[us[p].q]
<1>. DEFINE W == WaitersOf(q, s)
            us == Disturb(user, W)
<1>1. /\ user \in [User -> Calls(P)]
      /\ \A p \in W : p \in User /\ user[p].op = "recvtime"
      /\ \A p \in User : user[p].op = "recvtime" => user[p].slot \in Slots[user[p].q]
      /\ \A p \in User : user[p].op = "recvtime" /\ <<user[p].q, user[p].slot>> = <<q, s>>
                           => p \in W
  BY DEF UsersOK, WaitersOf, Waiting
<1>. HIDE DEF W
<1>2. /\ us \in [User -> Calls(P)]
      /\ \A p \in User : p \notin W => us[p] = user[p]
      /\ \A p \in W : /\ us[p].op = "recvtime" /\ ~us[p].alone
                      /\ us[p].q = user[p].q /\ us[p].slot = user[p].slot
  BY <1>1, DisturbMarks
<1>. HIDE DEF us
<1>3. /\ us \in [User -> Calls(P)] /\ SameCalls(user, us)
      /\ \A p \in User : us[p].op = "recvtime" /\ us[p].alone
                           => <<user[p].q, user[p].slot>> # <<q, s>>
      /\ \A p \in User : user[p].op # "recvtime" => us[p] = user[p]
      /\ \A p \in User : us[p].op = "recvtime" => us[p].slot \in Slots[us[p].q]
  BY <1>1, <1>2 DEF SameCalls
<1>4. QED
  BY <1>3 DEF us, W

(* A step of a process that only changes an endpoint: it gives the buffers *)
(* that it takes out of the queue back to the pool.                        *)
UserStep(P, q, s) ==
  /\ UNCHANGED <<netin, ipout, ipoqueue>>
  /\ TabOK(tab') /\ UsersOK(P)' /\ OthersKept(tab, tab', q, s) /\ GoesOn(q, s)
  /\ netbufpool' \in Nat
  /\ wild' # "empty"
  /\ wild' = "none" => /\ Rings' /\ HeldBy(user') = HeldBy(user)
                       /\ netbufpool' + Cardinality(Queued') = netbufpool + Cardinality(Queued)

LEMMA QueuedNatNext == ASSUME TabOK(tab') PROVE Cardinality(Queued') \in Nat
<1>1. Queued' = QueuedIn(tab')
  BY DEF Queued, QueuedIn
<1>2. \A x \in Endpoints : Counts(tab')[x] \in Nat
  BY CountsOK
<1>3. Cardinality(Tally(Counts(tab'), Endpoints)) \in Nat
  BY <1>2, EndpointsFinite, TallyFinite
<1>4. QED
  BY <1>1, <1>3, QueuedIs

(* The pool and the queues change against each other.                      *)
Against(b, q, b2, q2) == {b, q, b2, q2} \subseteq Nat /\ b2 + q2 = b + q

LEMMA AgainstBalance ==
  ASSUME NEW n, NEW b, NEW h, NEW i, NEW o, NEW l, NEW q, NEW b2, NEW q2,
         Sum(n, b, h, i, o, l, q), Against(b, q, b2, q2)
  PROVE  Sum(n, b2, h, i, o, l, q2)
<1>1. b2 + (h + i + o) + l + q2 = n
  BY DEF Sum, Against
<1>2. QED
  BY <1>1 DEF Sum, Against

LEMMA UserStepOK ==
  ASSUME NEW P, Here(P), NEW q, NEW s, UserStep(P, q, s)
  PROVE  StackIInv(P)'
<1>1. NetOK(P)'
  <2>1. NetOK(P)
    BY HereIs
  <2>2. QED
    BY <2>1 DEF NetOK, UserStep
<1>2. WaitersServed'
  BY GoOn DEF UserStep
<1>3. ASSUME wild' = "none" PROVE Total'
  <2>1. Sum(NBufs, netbufpool, Cardinality(HeldBy(user)), InHeld, OutHeld, Len(ipoqueue),
            Cardinality(Queued))
    BY HereIs DEF Total
  <2>2. Against(netbufpool, Cardinality(Queued), netbufpool', Cardinality(Queued'))
    <3>1. TabOK(tab') /\ TabOK(tab) /\ NetOK(P)
      BY HereIs DEF UserStep
    <3>2. Cardinality(Queued) \in Nat /\ Cardinality(Queued') \in Nat
      BY <3>1, QueuedNat, QueuedNatNext
    <3>3. QED
      BY <1>3, <3>1, <3>2 DEF Against, UserStep, NetOK
  <2>3. Sum(NBufs, netbufpool', Cardinality(HeldBy(user)), InHeld, OutHeld, Len(ipoqueue),
            Cardinality(Queued'))
    BY <2>1, <2>2, AgainstBalance
  <2>4. InHeld' = InHeld /\ OutHeld' = OutHeld /\ ipoqueue' = ipoqueue
        /\ HeldBy(user') = HeldBy(user)
    BY <1>3 DEF UserStep, InHeld, OutHeld
  <2>5. QED
    BY <2>3, <2>4 DEF Total
<1>4. QED
  BY <1>1, <1>2, <1>3, TotalNext DEF StackIInv, UserStep

LEMMA RegisterOK ==
  ASSUME NEW P, Here(P), NEW p \in User, NEW q \in Proto, NEW rem \in Remote \cup {"any"},
         Register(p, q, rem)
  PROVE  StackIInv(P)'
<1>. DEFINE free == Slots[q] \ Used(q)
            s == Min(free)
            e == tab[q][s]
            f == [e EXCEPT !.state = "USED", !.rem = rem, !.count = 0, !.head = 0, !.tail = 0,
                           !.pid = "none"]
            us == Disturb(user, WaitersOf(q, s))
<1>0. NetOK(P) /\ TabOK(tab) /\ UsersOK(P) /\ Rings
  BY HereIs
<1>1. s \in Slots[q] /\ e.state = "FREE"
  <2>1. free \in SUBSET Nat /\ free # {}
    BY SizesOK DEF Register
  <2>2. s \in free
    BY <2>1, MinOK
  <2>3. QED
    BY <2>2 DEF Used
<1>2. /\ tab' = [tab EXCEPT ![q][s] = f] /\ user' = us
      /\ UNCHANGED <<netbufpool, netin, ipout, ipoqueue, box, wild>>
  BY DEF Register
<1>. HIDE DEF s
<1>3. e \in Endpoint
  BY <1>0, <1>1 DEF TabOK
<1>4. f \in Endpoint /\ f.count = 0 /\ f.head = 0 /\ f.tail = 0
  BY <1>3 DEF Endpoint
<1>5. RingOK(q, f) /\ e.count = 0
  <2>1. QSIZ[q] \in Nat \ {0} /\ HeadWraps[q] \in Nat \ {0} /\ QSIZ[q] <= HeadWraps[q]
    BY SizesOK
  <2>2. RingAt(q, 0, 0, 0)
    BY <2>1, RingIs
  <2>3. RingOK(q, e)
    BY <1>0, <1>1 DEF Rings
  <2>4. QED
    BY <1>1, <1>4, <2>2, <2>3 DEF RingOK
<1>. HIDE DEF f, e, us
<1>6. /\ TabOK(tab') /\ OthersKept(tab, tab', q, s) /\ Rings'
      /\ Cardinality(Queued') = Cardinality(Queued) - e.count + f.count
  BY <1>0, <1>1, <1>2, <1>4, <1>5, EndpointChanges DEF e
<1>7. /\ us \in [User -> Calls(P)] /\ SameCalls(user, us)
      /\ \A r \in User : us[r].op = "recvtime" /\ us[r].alone
                           => <<user[r].q, user[r].slot>> # <<q, s>>
      /\ \A r \in User : us[r].op = "recvtime" => us[r].slot \in Slots[us[r].q]
  BY <1>0, DisturbKeeps DEF us
<1>8. UsersOK(P)'
  BY <1>0, <1>2, <1>7 DEF UsersOK, Waiting
<1>9. GoesOn(q, s)
  BY <1>2, <1>7 DEF GoesOn, SameCalls
<1>10. HeldBy(user') = HeldBy(user)
  BY <1>2, <1>7, SameCallsHold
<1>11. netbufpool' + Cardinality(Queued') = netbufpool + Cardinality(Queued)
  <2>1. Cardinality(Queued) \in Nat
    BY <1>0, QueuedNat
  <2>2. QED
    BY <1>2, <1>4, <1>5, <1>6, <2>1
<1>12. UserStep(P, q, s)
  BY <1>0, <1>2, <1>6, <1>8, <1>9, <1>10, <1>11 DEF UserStep, NetOK, Here
<1>13. QED
  BY <1>12, UserStepOK

(* udp_recv and icmp_recv take the packet at the head of a queue.          *)
LEMMA DequeueOK ==
  ASSUME NEW P, Here(P), NEW q \in Proto, NEW s \in Slots[q], NEW alone \in BOOLEAN,
         alone => tab[q][s].count > 0, Dequeue(q, s, alone)
  PROVE  /\ TabOK(tab') /\ OthersKept(tab, tab', q, s)
         /\ netbufpool' \in Nat
         /\ wild' # "empty"
         /\ wild' = "none"
              => /\ Rings'
                 /\ netbufpool' + Cardinality(Queued') = netbufpool + Cardinality(Queued)
<1>. DEFINE e == tab[q][s]
<1>0. NetOK(P) /\ TabOK(tab) /\ Rings /\ wild = "none" /\ e \in Endpoint /\ RingOK(q, e)
      /\ netbufpool \in Nat
  BY HereIs DEF TabOK, Rings, NetOK
<1>1. CASE e.head >= QSIZ[q] \/ e.count <= 0
  <2>1. wild' = (IF e.head >= QSIZ[q] THEN "wrapped" ELSE IF alone THEN "empty" ELSE "shared")
        /\ UNCHANGED <<tab, netbufpool>>
    BY <1>1 DEF Dequeue
  <2>2. wild' # "empty" /\ wild' # "none"
    <3>1. alone => ~(e.count <= 0)
      BY <1>0 DEF Endpoint
    <3>2. QED
      BY <1>1, <2>1, <3>1
  <2>3. QED
    BY <1>0, <2>1, <2>2 DEF OthersKept
<1>2. CASE ~(e.head >= QSIZ[q] \/ e.count <= 0)
  <2>1. tab' = [tab EXCEPT ![q][s] = Take(q, e)] /\ netbufpool' = netbufpool + 1 /\ wild' = wild
    BY <1>2 DEF Dequeue, Take
  <2>2. e.count > 0 /\ e.head < QSIZ[q] /\ e.count \in Nat
    BY <1>0, <1>2, SizesOK DEF Endpoint
  <2>. HIDE DEF e
  <2>3. Take(q, e) \in Endpoint /\ Take(q, e).count = e.count - 1 /\ RingOK(q, Take(q, e))
    BY <1>0, <2>2, TakeOK
  <2>4. /\ TabOK(tab') /\ OthersKept(tab, tab', q, s) /\ Rings'
        /\ Cardinality(Queued') = Cardinality(Queued) - e.count + Take(q, e).count
    BY <1>0, <2>1, <2>3, EndpointChanges DEF e
  <2>5. Cardinality(Queued) \in Nat
    BY <1>0, QueuedNat
  <2>6. netbufpool' + Cardinality(Queued') = netbufpool + Cardinality(Queued)
    BY <1>0, <2>1, <2>2, <2>3, <2>4, <2>5
  <2>7. QED
    BY <1>0, <2>1, <2>4, <2>6
<1>3. QED
  BY <1>1, <1>2

(* A process goes on to another call, and is no longer the only one at the *)
(* endpoint that it has changed.                                           *)
Moved(q, s, p, c) ==
  /\ user'[p] = c
  /\ \A r \in User \ {p} :
       /\ user'[r].op = user[r].op
       /\ user'[r].op = "recvtime" /\ user'[r].alone =>
            /\ user[r].op = "recvtime" /\ user[r].alone
            /\ user'[r].q = user[r].q /\ user'[r].slot = user[r].slot
            /\ <<user[r].q, user[r].slot>> # <<q, s>>

LEMMA MovesOK ==
  ASSUME NEW P, UsersOK(P), NEW q, NEW s, NEW p \in User, NEW c \in Calls(P),
         c.op = "recvtime" => c.slot \in Slots[c.q],
         user' = [Disturb(user, WaitersOf(q, s)) EXCEPT ![p] = c],
         box' \in [User -> {"none", "OK", "pid"}]
  PROVE  UsersOK(P)' /\ Moved(q, s, p, c)
<1>. DEFINE us == Disturb(user, WaitersOf(q, s))
<1>1. /\ us \in [User -> Calls(P)] /\ SameCalls(user, us)
      /\ \A r \in User : us[r].op = "recvtime" /\ us[r].alone
                           => <<user[r].q, user[r].slot>> # <<q, s>>
      /\ \A r \in User : us[r].op = "recvtime" => us[r].slot \in Slots[us[r].q]
  BY DisturbKeeps
<1>2. user' = [us EXCEPT ![p] = c]
  OBVIOUS
<1>. HIDE DEF us
<1>3. user' \in [User -> Calls(P)] /\ user'[p] = c /\ \A r \in User \ {p} : user'[r] = us[r]
  BY <1>1, <1>2
<1>4. UsersOK(P)'
  <2>1. ASSUME NEW r \in User, user'[r].op = "recvtime" PROVE user'[r].slot \in Slots[user'[r].q]
    <3>1. CASE r = p
      BY <1>3, <2>1, <3>1
    <3>2. CASE r # p
      BY <1>1, <1>3, <2>1, <3>2
    <3>3. QED
      BY <3>1, <3>2
  <2>2. QED
    BY <1>3, <2>1 DEF UsersOK, Waiting
<1>5. Moved(q, s, p, c)
  BY <1>1, <1>3 DEF SameCalls, Moved
<1>6. QED
  BY <1>4, <1>5

LEMMA RecvOK ==
  ASSUME NEW P, Here(P), NEW p \in User, NEW q \in Proto, NEW s \in Slots[q], Recv(p, q, s)
  PROVE  StackIInv(P)'
<1>. DEFINE e == tab[q][s]
<1>0. /\ NetOK(P) /\ TabOK(tab) /\ UsersOK(P) /\ Rings /\ wild = "none"
      /\ e \in Endpoint /\ RingOK(q, e) /\ netbufpool \in Nat
      /\ box \in [User -> {"none", "OK", "pid"}]
  BY HereIs DEF TabOK, Rings, NetOK, UsersOK
<1>1. CASE e.count # 0 /\ Dequeue(q, s, TRUE) /\ user' = Disturb(user, WaitersOf(q, s)) /\ box' = box
  <2>. DEFINE us == Disturb(user, WaitersOf(q, s))
  <2>1. e.count > 0
    BY <1>0, <1>1 DEF Endpoint
  <2>2. /\ TabOK(tab') /\ OthersKept(tab, tab', q, s) /\ netbufpool' \in Nat /\ wild' # "empty"
        /\ wild' = "none"
             => Rings' /\ netbufpool' + Cardinality(Queued') = netbufpool + Cardinality(Queued)
    BY <1>1, <2>1, DequeueOK
  <2>3. user' = us
    BY <1>1
  <2>4. /\ us \in [User -> Calls(P)] /\ SameCalls(user, us)
        /\ \A r \in User : us[r].op = "recvtime" /\ us[r].alone
                             => <<user[r].q, user[r].slot>> # <<q, s>>
        /\ \A r \in User : us[r].op = "recvtime" => us[r].slot \in Slots[us[r].q]
    BY <1>0, DisturbKeeps
  <2>. HIDE DEF us
  <2>5. UsersOK(P)'
    BY <1>0, <1>1, <2>3, <2>4 DEF UsersOK, Waiting
  <2>6. GoesOn(q, s)
    BY <1>1, <2>3, <2>4 DEF GoesOn, SameCalls
  <2>7. HeldBy(user') = HeldBy(user)
    BY <2>3, <2>4, SameCallsHold
  <2>8. UserStep(P, q, s)
    BY <2>2, <2>5, <2>6, <2>7 DEF UserStep, Recv
  <2>9. QED
    BY <2>8, UserStepOK
<1>2. CASE /\ e.count = 0
           /\ tab' = [tab EXCEPT ![q][s].state = "RECV", ![q][s].pid = p]
           /\ user' = [Disturb(user, WaitersOf(q, s)) EXCEPT ![p] =
                [op |-> "recvtime", q |-> q, slot |-> s, woken |-> FALSE, alone |-> TRUE]]
           /\ box' = [box EXCEPT ![p] = "none"]
           /\ UNCHANGED <<netbufpool, wild>>
  <2>. DEFINE f == [e EXCEPT !.state = "RECV", !.pid = p]
              c == [op |-> "recvtime", q |-> q, slot |-> s, woken |-> FALSE, alone |-> TRUE]
  <2>1. tab' = [tab EXCEPT ![q][s] = f]
    BY <1>0, <1>2 DEF TabOK
  <2>2. /\ f \in Endpoint /\ f.count = e.count /\ f.head = e.head /\ f.tail = e.tail
        /\ f.state = "RECV" /\ f.pid = p
    BY <1>0 DEF Endpoint
  <2>3. RingOK(q, f)
    BY <1>0, <2>2 DEF RingOK
  <2>4. c \in Calls(P) /\ c.slot \in Slots[c.q] /\ c.op = "recvtime" /\ c.q = q /\ c.slot = s
    BY SizesOK DEF Calls, ReceiveCall
  <2>5. user' = [Disturb(user, WaitersOf(q, s)) EXCEPT ![p] = c]
    BY <1>2
  <2>6. box' \in [User -> {"none", "OK", "pid"}] /\ box'[p] = "none"
        /\ \A r \in User \ {p} : box'[r] = box[r]
    BY <1>0, <1>2
  <2>. HIDE DEF e, f, c
  <2>7. /\ TabOK(tab') /\ tab'[q][s] = f /\ OthersKept(tab, tab', q, s) /\ Rings'
        /\ Cardinality(Queued') = Cardinality(Queued) - e.count + f.count
    <3>1. f \in Endpoint
      BY <2>2
    <3>2. /\ TabOK(tab') /\ tab'[q][s] = f /\ OthersKept(tab, tab', q, s)
          /\ Cardinality(Queued') = Cardinality(Queued) - e.count + f.count
          /\ Rings /\ RingOK(q, f) => Rings'
      BY <1>0, <2>1, <3>1, EndpointChanges DEF e
    <3>3. QED
      BY <1>0, <2>3, <3>2
  <2>8. Cardinality(Queued') = Cardinality(Queued)
    <3>1. Cardinality(Queued) \in Nat
      BY <1>0, QueuedNat
    <3>2. QED
      BY <1>2, <2>2, <2>7, <3>1
  <2>9. UsersOK(P)' /\ Moved(q, s, p, c)
    BY <1>0, <2>4, <2>5, <2>6, MovesOK
  <2>10. GoesOn(q, s)
    <3>1. Served(tab', box', user'[p], p)
      <4>1. user'[p].q = q /\ user'[p].slot = s
        BY <2>4, <2>9 DEF Moved
      <4>2. tab'[user'[p].q][user'[p].slot] = f
        BY <2>7, <4>1
      <4>3. f.state = "RECV" /\ f.pid = p /\ f.count = 0 /\ box'[p] # "OK"
        BY <1>2, <2>2, <2>6
      <4>4. QED
        BY <4>2, <4>3 DEF Served
    <3>2. QED
      BY <2>6, <2>9, <3>1 DEF GoesOn, Moved
  <2>11. HeldBy(user') = HeldBy(user)
    <3>1. user[p].op = "idle"
      BY DEF Recv
    <3>2. \A r \in User : r \in HeldBy(user') <=> r \in HeldBy(user)
      BY <2>4, <2>9, <3>1 DEF HeldBy, Moved
    <3>3. QED
      BY <3>2 DEF HeldBy
  <2>12. UserStep(P, q, s)
    BY <1>0, <1>2, <2>7, <2>8, <2>9, <2>10, <2>11 DEF UserStep, Recv
  <2>13. QED
    BY <2>12, UserStepOK
<1>3. QED
  BY <1>1, <1>2 DEF Recv

LEMMA RecvResumesOK ==
  ASSUME NEW P, Here(P), NEW p \in User, RecvResumes(p)
  PROVE  StackIInv(P)'
<1>. DEFINE q == user[p].q
            s == user[p].slot
            e == tab[q][s]
<1>0. /\ NetOK(P) /\ TabOK(tab) /\ UsersOK(P) /\ Rings /\ WaitersServed /\ wild = "none"
      /\ netbufpool \in Nat /\ box \in [User -> {"none", "OK", "pid"}] /\ Waiting(p)
  BY HereIs DEF NetOK, UsersOK, RecvResumes
<1>1. q \in Proto /\ s \in Slots[q] /\ user[p].alone \in BOOLEAN /\ user[p].op = "recvtime"
  BY <1>0, WaitsAt DEF ReceiveCall
<1>2. /\ UNCHANGED <<netin, ipout, ipoqueue>>
      /\ user' = [Disturb(user, WaitersOf(q, s)) EXCEPT ![p] = Resting]
      /\ box' = [box EXCEPT ![p] = "none"]
  BY DEF RecvResumes
<1>3. \/ box[p] = "OK" /\ Dequeue(q, s, user[p].alone)
      \/ /\ tab' = [tab EXCEPT ![q][s].state = "USED", ![q][s].pid = "none"]
         /\ UNCHANGED <<netbufpool, wild>>
  BY DEF RecvResumes
<1>4. box[p] = "OK" /\ user[p].alone => e.count > 0
  BY <1>0 DEF WaitersServed, Served
<1>. HIDE DEF q, s
<1>5. e \in Endpoint /\ RingOK(q, e)
  BY <1>0, <1>1 DEF TabOK, Rings
<1>6. /\ TabOK(tab') /\ OthersKept(tab, tab', q, s) /\ netbufpool' \in Nat /\ wild' # "empty"
      /\ wild' = "none"
           => Rings' /\ netbufpool' + Cardinality(Queued') = netbufpool + Cardinality(Queued)
  <2>1. CASE box[p] = "OK" /\ Dequeue(q, s, user[p].alone)
    BY <1>1, <1>4, <2>1, DequeueOK
  <2>2. CASE /\ tab' = [tab EXCEPT ![q][s].state = "USED", ![q][s].pid = "none"]
             /\ UNCHANGED <<netbufpool, wild>>
    <3>. DEFINE f == [e EXCEPT !.state = "USED", !.pid = "none"]
    <3>1. tab' = [tab EXCEPT ![q][s] = f]
      BY <1>0, <1>1, <2>2 DEF TabOK
    <3>2. /\ f \in Endpoint /\ f.count = e.count /\ f.head = e.head /\ f.tail = e.tail
          /\ f.state = "USED"
      BY <1>5 DEF Endpoint
    <3>3. RingOK(q, f)
      BY <1>5, <3>2 DEF RingOK
    <3>. HIDE DEF e, f
    <3>4. /\ TabOK(tab') /\ OthersKept(tab, tab', q, s) /\ Rings'
          /\ Cardinality(Queued') = Cardinality(Queued) - e.count + f.count
      BY <1>0, <1>1, <3>1, <3>2, <3>3, EndpointChanges DEF e
    <3>5. Cardinality(Queued) \in Nat /\ e.count \in Nat
      BY <1>0, <1>5, QueuedNat DEF Endpoint
    <3>6. QED
      BY <1>0, <2>2, <3>2, <3>4, <3>5
  <2>3. QED
    BY <1>3, <2>1, <2>2
<1>7. box' \in [User -> {"none", "OK", "pid"}] /\ \A r \in User \ {p} : box'[r] = box[r]
  BY <1>0, <1>2
<1>8. Resting \in Calls(P) /\ Resting.op = "idle"
  BY DEF Calls, OtherCalls, Resting
<1>9. UsersOK(P)' /\ Moved(q, s, p, Resting)
  BY <1>0, <1>2, <1>7, <1>8, MovesOK
<1>10. GoesOn(q, s)
  BY <1>7, <1>8, <1>9 DEF GoesOn, Moved
<1>11. HeldBy(user') = HeldBy(user)
  <2>1. \A r \in User : r \in HeldBy(user') <=> r \in HeldBy(user)
    BY <1>1, <1>8, <1>9 DEF HeldBy, Moved
  <2>2. QED
    BY <2>1 DEF HeldBy
<1>12. UserStep(P, q, s)
  BY <1>2, <1>6, <1>9, <1>10, <1>11 DEF UserStep
<1>13. QED
  BY <1>12, UserStepOK

LEMMA ReleaseOK ==
  ASSUME NEW P, Here(P), NEW p \in User, NEW q \in Proto, NEW s \in Slots[q], Release(p, q, s)
  PROVE  StackIInv(P)'
<1>. DEFINE e == tab[q][s]
            us == Disturb(user, WaitersOf(q, s))
            n == QSIZ[q]
            m == HeadWraps[q]
            over == \E i \in 0..(e.count - 1) : (e.head + i) % m >= n
<1>0. /\ NetOK(P) /\ TabOK(tab) /\ UsersOK(P) /\ Rings /\ wild = "none"
      /\ e \in Endpoint /\ RingOK(q, e) /\ netbufpool \in Nat
      /\ e.count \in Nat /\ e.head \in Nat
  BY HereIs, ZenonT(90) DEF TabOK, Rings, NetOK, Endpoint
<1>1. /\ tab' = [tab EXCEPT ![q][s] = Emptied(q, e)] /\ user' = us
      /\ netbufpool' = netbufpool + e.count
      /\ wild' = (IF over THEN "wrapped" ELSE wild)
      /\ UNCHANGED <<netin, ipout, ipoqueue, box>>
  BY DEF Release, Emptied
<1>2. n \in Nat \ {0} /\ m \in Nat \ {0}
  BY SizesOK
<1>3. ~over => \A i \in 0..(e.count - 1) : (e.head + i) % m < n
  <2>. HIDE DEF n, m, e
  <2>. QED BY <1>0, <1>2
<1>4. Emptied(q, e) \in Endpoint /\ Emptied(q, e).count = 0
      /\ (~over => RingOK(q, Emptied(q, e)))
  BY <1>0, <1>3, EmptiedOK
<1>. HIDE DEF e, us, over
<1>5. /\ TabOK(tab') /\ OthersKept(tab, tab', q, s)
      /\ Cardinality(Queued') = Cardinality(Queued) - e.count + Emptied(q, e).count
      /\ Rings /\ RingOK(q, Emptied(q, e)) => Rings'
  BY <1>0, <1>1, <1>4, EndpointChanges DEF e
<1>6. netbufpool' + Cardinality(Queued') = netbufpool + Cardinality(Queued)
  <2>1. Cardinality(Queued) \in Nat
    BY <1>0, QueuedNat
  <2>2. QED
    BY <1>0, <1>1, <1>4, <1>5, <2>1
<1>7. /\ us \in [User -> Calls(P)] /\ SameCalls(user, us)
      /\ \A r \in User : us[r].op = "recvtime" /\ us[r].alone
                           => <<user[r].q, user[r].slot>> # <<q, s>>
      /\ \A r \in User : us[r].op = "recvtime" => us[r].slot \in Slots[us[r].q]
  BY <1>0, DisturbKeeps DEF us
<1>8. UsersOK(P)'
  BY <1>0, <1>1, <1>7 DEF UsersOK, Waiting
<1>9. GoesOn(q, s)
  BY <1>1, <1>7 DEF GoesOn, SameCalls
<1>10. HeldBy(user') = HeldBy(user)
  BY <1>1, <1>7, SameCallsHold
<1>11. wild' # "empty" /\ (wild' = "none" => Rings') /\ netbufpool' \in Nat
  BY <1>0, <1>1, <1>4, <1>5
<1>12. UserStep(P, q, s)
  BY <1>1, <1>5, <1>6, <1>8, <1>9, <1>10, <1>11 DEF UserStep
<1>13. QED
  BY <1>12, UserStepOK

(* A step of a process that changes no endpoint and no buffer.             *)
LEMMA ElsewhereOK ==
  ASSUME NEW P, Here(P), UNCHANGED <<netbufpool, tab, netin, ipout, ipoqueue, wild>>, UsersOK(P)',
         \A p \in User : p \in HeldBy(user') <=> p \in HeldBy(user),
         \A p \in User : user'[p].op = "recvtime" /\ user'[p].alone =>
           /\ user[p].op = "recvtime" /\ user[p].alone
           /\ user'[p].q = user[p].q /\ user'[p].slot = user[p].slot
           /\ box'[p] = "OK" => box[p] = "OK"
  PROVE  StackIInv(P)'
<1>1. NetOK(P) /\ TabOK(tab) /\ UsersOK(P) /\ Rings /\ WaitersServed /\ wild = "none"
      /\ netbufpool \in Nat
  BY HereIs DEF NetOK
<1>2. TabOK(tab') /\ Queued' = Queued /\ Rings' /\ OthersKept(tab, tab', "udp", 0)
  BY <1>1, TabKept DEF OthersKept
<1>3. HeldBy(user') = HeldBy(user)
  BY HeldSame
<1>4. GoesOn("udp", 0)
  BY <1>1, SMTT(60) DEF GoesOn, WaitersServed, Waiting, Served
<1>5. UserStep(P, "udp", 0)
  BY <1>1, <1>2, <1>3, <1>4 DEF UserStep
<1>6. QED
  BY <1>5, UserStepOK

LEMMA RecvTimerOK ==
  ASSUME NEW P, Here(P), NEW p \in User, RecvTimer(p) PROVE StackIInv(P)'
<1>1. UsersOK(P) /\ Waiting(p)
  BY HereIs DEF RecvTimer
<1>2. user[p] \in ReceiveCall /\ user \in [User -> Calls(P)]
  BY <1>1, WaitsAt DEF UsersOK
<1>3. user' = [user EXCEPT ![p] = [user[p] EXCEPT !.woken = TRUE]] /\ box' = box
      /\ UNCHANGED <<netbufpool, tab, netin, ipout, ipoqueue, wild>>
  BY <1>2 DEF RecvTimer
<1>4. [user[p] EXCEPT !.woken = TRUE] \in ReceiveCall
  BY <1>2 DEF ReceiveCall
<1>5. user' \in [User -> Calls(P)]
  BY <1>2, <1>3, <1>4 DEF Calls
<1>6. \A r \in User : /\ user'[r].op = user[r].op
                      /\ user[r].op = "recvtime"
                           => /\ user'[r].q = user[r].q /\ user'[r].slot = user[r].slot
                              /\ user'[r].alone = user[r].alone
  BY <1>2, <1>3 DEF ReceiveCall
<1>7. UsersOK(P)'
  BY <1>1, <1>3, <1>5, <1>6 DEF UsersOK, Waiting
<1>8. QED
  BY <1>3, <1>6, <1>7, ElsewhereOK DEF HeldBy

LEMMA ChildEndsOK ==
  ASSUME NEW P, Here(P), NEW p \in User, ChildEnds(p) PROVE StackIInv(P)'
<1>1. UsersOK(P)
  BY HereIs
<1>2. box' = [box EXCEPT ![p] = "pid"] /\ user' = user
      /\ UNCHANGED <<netbufpool, tab, netin, ipout, ipoqueue, wild>>
  BY DEF ChildEnds
<1>3. UsersOK(P)' /\ \A r \in User : box'[r] = "OK" => box[r] = "OK"
  BY <1>1, <1>2 DEF UsersOK, Waiting
<1>4. QED
  BY <1>2, <1>3, ElsewhereOK

LEMMA KillReceiverOK ==
  ASSUME NEW P, Here(P), NEW p \in User, KillReceiver(p) PROVE StackIInv(P)'
<1>1. UsersOK(P) /\ user[p].op = "recvtime"
  BY HereIs DEF KillReceiver, Waiting
<1>2. user' = [user EXCEPT ![p] = Resting] /\ box' = [box EXCEPT ![p] = "none"]
      /\ UNCHANGED <<netbufpool, tab, netin, ipout, ipoqueue, wild>>
  BY DEF KillReceiver
<1>3. Resting \in Calls(P) /\ Resting.op = "idle"
  BY DEF Calls, OtherCalls, Resting
<1>4. user'[p].op = "idle" /\ \A r \in User \ {p} : user'[r] = user[r] /\ box'[r] = box[r]
  BY <1>1, <1>2, <1>3 DEF UsersOK
<1>5. UsersOK(P)'
  BY <1>1, <1>2, <1>3, <1>4 DEF UsersOK, Waiting
<1>6. QED
  BY <1>1, <1>2, <1>4, <1>5, ElsewhereOK DEF HeldBy

(* A process that does not wait for a packet goes on to another call.      *)
LEMMA CallOK ==
  ASSUME NEW P, Here(P), NEW p \in User, NEW c \in OtherCalls(P),
         user' = [user EXCEPT ![p] = c], UNCHANGED <<tab, box>>
  PROVE  /\ TabOK(tab') /\ UsersOK(P)' /\ Rings' /\ WaitersServed' /\ Queued' = Queued
         /\ user'[p] = c /\ \A r \in User \ {p} : user'[r] = user[r]
<1>1. TabOK(tab) /\ UsersOK(P) /\ Rings /\ WaitersServed
  BY HereIs
<1>2. c \in Calls(P) /\ c.op # "recvtime"
  BY DEF Calls, OtherCalls, Resting
<1>3. user'[p] = c /\ \A r \in User \ {p} : user'[r] = user[r]
  BY <1>1 DEF UsersOK
<1>4. UsersOK(P)'
  BY <1>1, <1>2, <1>3 DEF UsersOK, Waiting
<1>5. ASSUME NEW w \in User, Waiting(w)' PROVE w # p /\ Waiting(w) /\ user'[w] = user[w]
  BY <1>2, <1>3, <1>5 DEF Waiting
<1>6. WaitersServed'
  BY <1>1, <1>3, <1>5 DEF WaitersServed, Served
<1>7. QED
  BY <1>1, <1>3, <1>4, <1>6, TabKept

LEMMA UserSendsOK ==
  ASSUME NEW P, Here(P), NEW p \in User, UserSends(p) PROVE StackIInv(P)'
<1>1. Resting \in OtherCalls(P) /\ Resting.op = "idle"
  BY DEF OtherCalls, Resting
<1>2. /\ user[p].op = "arp_resolve" /\ user' = [user EXCEPT ![p] = Resting]
      /\ netbufpool' = netbufpool + 1
      /\ UNCHANGED <<tab, netin, ipout, ipoqueue, box, wild>>
  BY DEF UserSends
<1>3. /\ TabOK(tab') /\ UsersOK(P)' /\ Rings' /\ WaitersServed' /\ Queued' = Queued
      /\ user'[p] = Resting /\ \A r \in User \ {p} : user'[r] = user[r]
  BY <1>1, <1>2, CallOK
<1>4. NetOK(P)' /\ netbufpool' \in Nat
  <2>1. NetOK(P)
    BY HereIs
  <2>2. QED
    BY <1>2, <2>1 DEF NetOK
<1>5. p \in HeldBy(user) /\ p \notin HeldBy(user')
  BY <1>1, <1>2, <1>3 DEF HeldBy
<1>6. Cardinality(HeldBy(user')) = Cardinality(HeldBy(user)) - 1
  BY <1>3, <1>5, HeldChanges
<1>7. /\ {netbufpool', Cardinality(HeldBy(user')), InHeld, OutHeld, Cardinality(Queued)} \subseteq Nat
      /\ Cardinality(HeldBy(user)) = Cardinality(HeldBy(user')) + 1
  <2>1. Cardinality(HeldBy(user)) \in Nat /\ Cardinality(HeldBy(user')) \in Nat
    BY HeldByFinite
  <2>2. QED
    BY <1>4, <1>6, <2>1, HereIs DEF Total, Sum
<1>8. Sum(NBufs, netbufpool', Cardinality(HeldBy(user')), InHeld, OutHeld, Len(ipoqueue),
          Cardinality(Queued))
  BY <1>2, <1>7, HereIs, PoolBalance DEF Total
<1>9. Total'
  BY <1>2, <1>3, <1>8 DEF Total, InHeld, OutHeld
<1>10. QED
  BY <1>2, <1>3, <1>4, <1>9, HereIs, TotalNext DEF StackIInv

LEMMA UserRepliesOK ==
  ASSUME NEW P, Here(P), NEW p \in User, UserReplies(p) PROVE StackIInv(P)'
<1>1. Resting \in OtherCalls(P) /\ Resting.op = "idle"
  BY DEF OtherCalls, Resting
<1>2. /\ user[p].op = "icmp_mkpkt" /\ user' = [user EXCEPT ![p] = Resting]
      /\ UNCHANGED <<tab, netin, box>>
  BY DEF UserReplies
<1>3. user[p].pkt \in P
  <2>1. user[p] \in Calls(P)
    BY HereIs DEF UsersOK
  <2>2. user[p] \notin ReceiveCall
    BY <1>2 DEF ReceiveCall
  <2>3. QED
    BY <1>2, <2>1, <2>2 DEF Calls, OtherCalls, Resting
<1>4. /\ TabOK(tab') /\ UsersOK(P)' /\ Rings' /\ WaitersServed' /\ Queued' = Queued
      /\ user'[p] = Resting /\ \A r \in User \ {p} : user'[r] = user[r]
  BY <1>1, <1>2, CallOK
<1>5. /\ netbufpool' \in Nat
      /\ ipout' \in [op : {"wait", "released", "arp_resolve"}]
      /\ ipoqueue' \in Seq({[dst |-> r.src, ident |-> r.ident] : r \in P})
      /\ wild' # "empty"
      /\ OutHeld' = OutHeld
      /\ Replied(netbufpool, Len(ipoqueue), netbufpool', Len(ipoqueue'))
  BY <1>3, HereIs, EchoReplyOK DEF UserReplies
<1>6. NetOK(P)' /\ InHeld' = InHeld
  BY <1>2, <1>5, HereIs DEF NetOK, InHeld
<1>7. p \in HeldBy(user) /\ p \notin HeldBy(user')
  BY <1>1, <1>2, <1>4 DEF HeldBy
<1>8. Cardinality(HeldBy(user')) = Cardinality(HeldBy(user)) - 1
  BY <1>4, <1>7, HeldChanges
<1>9. /\ {Cardinality(HeldBy(user')), InHeld} \subseteq Nat
      /\ Cardinality(HeldBy(user)) = Cardinality(HeldBy(user')) + 1
  <2>1. Cardinality(HeldBy(user)) \in Nat /\ Cardinality(HeldBy(user')) \in Nat
    BY HeldByFinite
  <2>2. QED
    BY <1>8, <2>1, HeldNats
<1>10. Sum(NBufs, netbufpool', Cardinality(HeldBy(user')), InHeld, OutHeld, Len(ipoqueue'),
           Cardinality(Queued))
  <2>1. Sum(NBufs, netbufpool, Cardinality(HeldBy(user)), InHeld, OutHeld, Len(ipoqueue),
            Cardinality(Queued))
    BY HereIs DEF Total
  <2>2. Replied(netbufpool, Len(ipoqueue), netbufpool', Len(ipoqueue'))
    BY <1>5
  <2>. DEFINE h == Cardinality(HeldBy(user))
              h2 == Cardinality(HeldBy(user'))
  <2>3. {h2, InHeld} \subseteq Nat /\ h = h2 + 1
    BY <1>9
  <2>. HIDE DEF h, h2
  <2>4. Sum(NBufs, netbufpool', h2, InHeld, OutHeld, Len(ipoqueue'), Cardinality(Queued))
    BY <2>1, <2>2, <2>3, ReplyBalance DEF h
  <2>5. QED
    BY <2>4 DEF h2
<1>11. Total'
  BY <1>4, <1>5, <1>6, <1>10 DEF Total
<1>12. QED
  BY <1>4, <1>5, <1>6, <1>11, TotalNext DEF StackIInv

LEMMA IpSendOK ==
  ASSUME NEW P, Here(P), NEW p \in User, NEW pkt \in P, user[p].op \in {"idle", "getbuf"},
         IpSend(p, pkt)
  PROVE  StackIInv(P)'
<1>. DEFINE us == [user EXCEPT ![p] = Resting]
<1>0. /\ NetOK(P) /\ TabOK(tab) /\ UsersOK(P) /\ Rings /\ WaitersServed /\ wild = "none"
      /\ netbufpool \in Nat \ {0} /\ netbufpool - 1 \in Nat
      /\ UNCHANGED <<netin, ipout, ipoqueue>> /\ InHeld' = InHeld /\ OutHeld' = OutHeld
  BY HereIs DEF NetOK, IpSend, InHeld, OutHeld
<1>1. Sum(NBufs, netbufpool, Cardinality(HeldBy(user)), InHeld, OutHeld, Len(ipoqueue),
          Cardinality(Queued))
  BY HereIs DEF Total
<1>2. Resting \in OtherCalls(P) /\ Resting.op = "idle" /\ Resting \in Calls(P)
  BY DEF OtherCalls, Calls, Resting
<1>3. CASE IpLocal(pkt, netbufpool - 1, us)
  <2>1. us[p] = Resting /\ \A r \in User \ {p} : us[r] = user[r]
    BY <1>0 DEF UsersOK
  <2>2. DepositsFor(P, us)
    BY <1>0, <1>2, <2>1 DEF DepositsFor, UsersOK
  <2>3. HeldBy(us) = HeldBy(user)
    <3>1. \A r \in User : r \in HeldBy(us) <=> r \in HeldBy(user)
      BY <1>2, <2>1 DEF HeldBy
    <3>2. QED
      BY <3>1, HeldSame
  <2>. HIDE DEF us
  <2>4. /\ TabOK(tab') /\ UsersOK(P)' /\ wild' # "empty"
        /\ HeldBy(user') = HeldBy(us)
        /\ Stored(netbufpool - 1, Cardinality(Queued), netbufpool', Cardinality(Queued'))
        /\ WaitersServed'
        /\ wild' = "none" => Rings'
    BY <1>0, <1>3, <2>2, IpLocalOK
  <2>5. NetOK(P)'
    BY <1>0, <2>4 DEF NetOK, Stored
  <2>6. Total'
    <3>1. netbufpool = (netbufpool - 1) + 1 /\ {InHeld, Len(ipoqueue)} \subseteq Nat
      BY <1>0, <1>1 DEF Sum
    <3>2. Sum(NBufs, netbufpool', Cardinality(HeldBy(user)), InHeld, OutHeld, Len(ipoqueue),
              Cardinality(Queued'))
      BY <1>1, <2>4, <3>1, LocalBalance
    <3>3. QED
      BY <1>0, <2>3, <2>4, <3>2 DEF Total
  <2>7. QED
    BY <2>4, <2>5, <2>6, TotalNext DEF StackIInv
<1>4. ASSUME NEW c \in OtherCalls(P), c.op \in {"icmp_mkpkt", "arp_resolve"},
             user' = [user EXCEPT ![p] = c], netbufpool' = netbufpool - 1,
             UNCHANGED <<tab, box, wild>>
      PROVE  StackIInv(P)'
  <2>1. /\ TabOK(tab') /\ UsersOK(P)' /\ Rings' /\ WaitersServed' /\ Queued' = Queued
        /\ user'[p] = c /\ \A r \in User \ {p} : user'[r] = user[r]
    BY <1>4, CallOK
  <2>2. NetOK(P)' /\ netbufpool' \in Nat /\ netbufpool = netbufpool' + 1
    BY <1>0, <1>4 DEF NetOK
  <2>3. p \notin HeldBy(user) /\ p \in HeldBy(user')
    BY <1>4, <2>1 DEF HeldBy
  <2>4. Cardinality(HeldBy(user')) = Cardinality(HeldBy(user)) + 1
    BY <2>1, <2>3, HeldChanges
  <2>5. {netbufpool', Cardinality(HeldBy(user')), InHeld, OutHeld, Cardinality(Queued)} \subseteq Nat
    BY <1>1, <2>2, HeldByFinite DEF Sum
  <2>6. Sum(NBufs, netbufpool', Cardinality(HeldBy(user')), InHeld, OutHeld, Len(ipoqueue),
            Cardinality(Queued))
    BY <1>1, <2>2, <2>4, <2>5, PoolBalance
  <2>7. Total'
    BY <1>0, <2>1, <2>6 DEF Total
  <2>8. QED
    BY <1>0, <1>4, <2>1, <2>2, <2>7, TotalNext DEF StackIInv
<1>5. CASE user' = [user EXCEPT ![p] = [op |-> "icmp_mkpkt", pkt |-> pkt]]
           /\ netbufpool' = netbufpool - 1 /\ UNCHANGED <<tab, box, wild>>
  <2>1. [op |-> "icmp_mkpkt", pkt |-> pkt] \in OtherCalls(P)
    BY DEF OtherCalls
  <2>2. QED
    BY <1>4, <1>5, <2>1
<1>6. CASE user' = [user EXCEPT ![p] = [op |-> "arp_resolve"]]
           /\ netbufpool' = netbufpool - 1 /\ UNCHANGED <<tab, box, wild>>
  <2>1. [op |-> "arp_resolve"] \in OtherCalls(P)
    BY DEF OtherCalls
  <2>2. QED
    BY <1>4, <1>6, <2>1
<1>7. CASE user' = [user EXCEPT ![p] = Resting] /\ UNCHANGED <<netbufpool, tab, box, wild>>
  <2>1. /\ UsersOK(P)' /\ user'[p] = Resting /\ \A r \in User \ {p} : user'[r] = user[r]
    BY <1>2, <1>7, CallOK
  <2>2. QED
    BY <1>0, <1>2, <1>7, <2>1, ElsewhereOK DEF HeldBy
<1>8. QED
  BY <1>3, <1>5, <1>6, <1>7 DEF IpSend

LEMMA SendOK ==
  ASSUME NEW P, Here(P), NEW p \in User, NEW pkt \in P, Send(p, pkt)
  PROVE  StackIInv(P)'
<1>1. user[p].op = "idle"
  BY DEF Send
<1>2. CASE IpSend(p, pkt)
  BY <1>1, <1>2, IpSendOK
<1>3. CASE /\ user' = [user EXCEPT ![p] = [op |-> "getbuf", pkt |-> pkt]]
           /\ UNCHANGED <<netbufpool, tab, netin, ipout, ipoqueue, box, wild>>
  <2>. DEFINE c == [op |-> "getbuf", pkt |-> pkt]
  <2>1. c \in OtherCalls(P) /\ c.op = "getbuf"
    BY DEF OtherCalls
  <2>. HIDE DEF c
  <2>2. user' = [user EXCEPT ![p] = c] /\ UNCHANGED <<tab, box>>
    BY <1>3 DEF c
  <2>3. UsersOK(P)' /\ user'[p] = c /\ \A r \in User \ {p} : user'[r] = user[r]
    BY <2>1, <2>2, CallOK
  <2>4. /\ \A r \in User : r \in HeldBy(user') <=> r \in HeldBy(user)
        /\ \A r \in User : user'[r].op = "recvtime" => user'[r] = user[r]
    BY <1>1, <2>1, <2>3 DEF HeldBy
  <2>5. QED
    BY <1>3, <2>3, <2>4, ElsewhereOK
<1>4. QED
  BY <1>2, <1>3 DEF Send

LEMMA SendResumesOK ==
  ASSUME NEW P, Here(P), NEW p \in User, SendResumes(p) PROVE StackIInv(P)'
<1>1. user[p].op = "getbuf" /\ IpSend(p, user[p].pkt)
  BY DEF SendResumes
<1>2. user[p].pkt \in P
  <2>1. user[p] \in Calls(P)
    BY HereIs DEF UsersOK
  <2>2. user[p] \notin ReceiveCall
    BY <1>1 DEF ReceiveCall
  <2>3. QED
    BY <1>1, <2>1, <2>2 DEF Calls, OtherCalls, Resting
<1>3. QED
  BY <1>1, <1>2, IpSendOK
-----------------------------------------------------------------------------
LEMMA StackInitOK == ASSUME NEW P, StackInit PROVE StackIInv(P)
<1>1. /\ netbufpool = NBufs
      /\ tab = [q \in Proto |-> [s \in Slots[q] |-> FreeEndpoint]]
      /\ netin = [op |-> "getbuf"] /\ ipout = [op |-> "wait"] /\ ipoqueue = <<>>
      /\ user = [p \in User |-> Resting] /\ box = [p \in User |-> "none"]
      /\ wild = "none"
  BY DEF StackInit
<1>2. NBufs \in Nat
  <2>1. UDP_SLOTS \in Nat /\ UDP_QSIZ \in Nat /\ ICMP_SLOTS \in Nat /\ ICMP_QSIZ \in Nat
    BY StackAssumption
  <2>2. UDP_SLOTS * UDP_QSIZ \in Nat /\ ICMP_SLOTS * ICMP_QSIZ \in Nat
    BY <2>1
  <2>3. QED
    BY <2>2 DEF NBufs
<1>3. FreeEndpoint \in Endpoint
  BY DEF FreeEndpoint, Endpoint
<1>4. TabOK(tab) /\ \A q \in Proto : \A s \in Slots[q] : tab[q][s] = FreeEndpoint
  BY <1>1, <1>3 DEF TabOK
<1>5. NetOK(P)
  BY <1>1, <1>2 DEF NetOK
<1>6. Resting \in Calls(P) /\ \A p \in User : user[p].op = "idle"
  BY <1>1 DEF Resting, Calls, OtherCalls
<1>7. UsersOK(P) /\ WaitersServed
  BY <1>1, <1>6 DEF UsersOK, WaitersServed, Waiting
<1>8. Rings
  <2>1. ASSUME NEW q \in Proto, NEW s \in Slots[q] PROVE RingOK(q, tab[q][s])
    <3>1. RingAt(q, 0, 0, 0)
      BY SizesOK, RingIs
    <3>2. QED
      BY <1>4, <3>1 DEF RingOK, FreeEndpoint
  <2>2. QED
    BY <2>1 DEF Rings
<1>9. Conserved
  <2>1. Queued = {}
    <3>1. ASSUME NEW x \in Endpoints PROVE tab[x[1]][x[2]].count = 0
      BY <1>4 DEF Endpoints, FreeEndpoint
    <3>2. QED
      BY <3>1 DEF Queued
  <2>2. HeldBy(user) = {}
    BY <1>6 DEF HeldBy
  <2>3. Cardinality(Queued) = 0 /\ Cardinality(HeldBy(user)) = 0
    BY <2>1, <2>2, FS_EmptySet
  <2>4. InHeld = 0 /\ OutHeld = 0
    BY <1>1 DEF InHeld, OutHeld
  <2>5. Held = Cardinality(HeldBy(user)) + InHeld + OutHeld
    BY DEF Held, HeldBy, InHeld, OutHeld
  <2>6. Len(ipoqueue) = 0
    BY <1>1
  <2>7. QED
    BY <1>1, <1>2, <2>3, <2>4, <2>5, <2>6 DEF Conserved
<1>10. QED
  BY <1>1, <1>4, <1>5, <1>7, <1>8, <1>9 DEF StackIInv

LEMMA StackStep ==
  ASSUME NEW Packets, NEW Sends, StackIInv(Packets \cup Sends),
         [StackNext(Packets, Sends)]_svars
  PROVE  StackIInv(Packets \cup Sends)'
<1>. DEFINE P == Packets \cup Sends
<1>. HIDE DEF P
<1>1. StackIInv(P) /\ Packets \subseteq P /\ Sends \subseteq P
  BY DEF P
<1>2. CASE UNCHANGED svars
  <2>1. UNCHANGED <<netbufpool, tab, netin, ipout, ipoqueue, user, box, wild>>
    BY <1>2 DEF svars
  <2>2. NetOK(P)' /\ TabOK(tab') /\ UsersOK(P)' /\ wild' # "empty"
    BY <1>1, <2>1 DEF StackIInv, NetOK, UsersOK, Waiting
  <2>3. (wild = "none" => Rings /\ WaitersServed /\ Conserved) /\ wild' = wild
    BY <1>1, <2>1 DEF StackIInv
  <2>4. Rings /\ WaitersServed => Rings' /\ WaitersServed'
    BY <2>1 DEF Rings, RingOK, WaitersServed, Waiting, Served
  <2>5. Conserved => Conserved'
    BY <2>1 DEF Conserved, Held, Queued
  <2>6. StackIInv(P)'
    BY <2>2, <2>3, <2>4, <2>5 DEF StackIInv
  <2>7. QED
    BY <2>6 DEF P
<1>3. CASE StackNext(Packets, Sends) /\ wild = "none"
  <2>. SUFFICES StackIInv(P)'
    BY DEF P
  <2>1. Here(P)
    BY <1>1, <1>3 DEF Here
  <2>2. ASSUME NEW pkt \in Packets, NEW ipvalid \in BOOLEAN, NetinPacket(pkt, ipvalid)
        PROVE  StackIInv(P)'
    BY <1>1, <2>1, <2>2, NetinPacketOK
  <2>3. ASSUME NEW p \in User, NEW pkt \in Sends, Send(p, pkt) PROVE StackIInv(P)'
    BY <1>1, <2>1, <2>3, SendOK
  <2>4. ASSUME NEW p \in User, NEW q \in Proto,
               NEW rem \in Remote \cup (IF q = "udp" THEN {"any"} ELSE {}), Register(p, q, rem)
        PROVE  StackIInv(P)'
    <3>1. rem \in Remote \cup {"any"}
      OBVIOUS
    <3>2. QED
      BY <2>1, <2>4, <3>1, RegisterOK
  <2>5. ASSUME NEW p \in User, NEW q \in Proto, NEW s \in Slots[q],
               Recv(p, q, s) \/ Release(p, q, s)
        PROVE  StackIInv(P)'
    BY <2>1, <2>5, RecvOK, ReleaseOK
  <2>6. ASSUME NEW p \in User,
               \/ RecvTimer(p) \/ RecvResumes(p) \/ ChildEnds(p) \/ KillReceiver(p)
               \/ SendResumes(p) \/ UserSends(p) \/ UserReplies(p)
        PROVE  StackIInv(P)'
    BY <2>1, <2>6, RecvTimerOK, RecvResumesOK, ChildEndsOK, KillReceiverOK, SendResumesOK,
       UserSendsOK, UserRepliesOK
  <2>7. CASE NetinGetbuf \/ NetinReplies \/ IpoutTakes \/ IpoutSends
    BY <2>1, <2>7, NetinGetbufOK, NetinRepliesOK, IpoutTakesOK, IpoutSendsOK
  <2>8. QED
    BY <1>3, <2>2, <2>3, <2>4, <2>5, <2>6, <2>7 DEF StackNext
<1>4. QED
  BY <1>2, <1>3 DEF StackNext

(* The invariant, for the packets that arrive and those that are sent.     *)
LEMMA StackInvariant ==
  ASSUME NEW CONSTANT Packets, NEW CONSTANT Sends
  PROVE  StackSpec(Packets, Sends) => []StackIInv(Packets \cup Sends)
<1>1. StackInit => StackIInv(Packets \cup Sends)
  BY StackInitOK
<1>2. StackIInv(Packets \cup Sends) /\ [StackNext(Packets, Sends)]_svars
        => StackIInv(Packets \cup Sends)'
  BY StackStep
<1>3. QED
  BY <1>1, <1>2, PTL DEF StackSpec

(* Every buffer is in the pool, at netin, at ipout, at a process, queued   *)
(* as a reply or queued at an endpoint, on every path of net.c, ip.c,      *)
(* udp.c and icmp.c and in every order of their processes, and a queue     *)
(* holds the packets it counts next to each other, as long as memory has   *)
(* not been misused; for every set of packets that arrive or are sent.     *)
THEOREM BuffersKept ==
  ASSUME NEW CONSTANT Packets, NEW CONSTANT Sends
  PROVE  StackSpec(Packets, Sends) => []BuffersConserved
<1>1. StackIInv(Packets \cup Sends) => BuffersConserved
  <2>1. SUFFICES ASSUME StackIInv(Packets \cup Sends), wild = "none" PROVE BuffersConserved
    BY DEF BuffersConserved
  <2>2. Rings /\ Conserved
    BY <2>1 DEF StackIInv
  <2>3. ASSUME NEW x \in Endpoints
        PROVE  LET e == tab[x[1]][x[2]] IN
                 e.count \in 0..QSIZ[x[1]] /\ e.tail = (e.head + e.count) % QSIZ[x[1]]
    BY <2>2 DEF Endpoints, Rings, RingOK, RingAt
  <2>4. QED
    BY <2>2, <2>3 DEF BuffersConserved, Conserved
<1>2. QED
  BY <1>1, StackInvariant, PTL

(* udp_recv and icmp_recv of a process that nobody has disturbed at its    *)
(* endpoint never find an empty queue after udp_in or icmp_in has told     *)
(* them of a packet, and while they wait the endpoint is theirs.           *)
THEOREM WaiterServed ==
  ASSUME NEW CONSTANT Packets, NEW CONSTANT Sends
  PROVE  StackSpec(Packets, Sends) => []WaiterOwnsEndpoint
<1>1. StackIInv(Packets \cup Sends) => WaiterOwnsEndpoint
  BY DEF StackIInv, WaitersServed, Served, WaiterOwnsEndpoint
<1>2. QED
  BY <1>1, StackInvariant, PTL
-----------------------------------------------------------------------------
(* Rings of n descriptors: the place x steps from 0 on, how far i lies     *)
(* ahead of f, and the k places from f on.                                 *)
Round(n, x)    == IF x < n THEN x ELSE x - n
Ahead(n, f, i) == IF f <= i THEN i - f ELSE i - f + n
Arc(n, f, k)   == {i \in 0..(n - 1) : Ahead(n, f, i) < k}

LEMMA RoundIs ==
  ASSUME NEW n \in Nat \ {0}, NEW x \in Nat, x < 2 * n
  PROVE  x % n = Round(n, x) /\ Round(n, x) \in 0..(n - 1)
<1>1. PICK y : y = x % n
  OBVIOUS
<1>2. y \in 0..(n - 1) /\ (x < n => y = x) /\ (n <= x /\ x < 2 * n => y = x - n)
  BY <1>1, ModIs, Zenon
<1>3. y = Round(n, x)
  BY <1>2 DEF Round
<1> QED BY <1>1, <1>2, <1>3

LEMMA RoundAhead ==
  ASSUME NEW n \in Nat \ {0}, NEW f \in 0..(n - 1), NEW j \in 0..(n - 1)
  PROVE  Round(n, f + j) \in 0..(n - 1) /\ Ahead(n, f, Round(n, f + j)) = j
BY DEF Round, Ahead

LEMMA AheadRound ==
  ASSUME NEW n \in Nat \ {0}, NEW f \in 0..(n - 1), NEW i \in 0..(n - 1)
  PROVE  Ahead(n, f, i) \in 0..(n - 1) /\ Round(n, f + Ahead(n, f, i)) = i
BY DEF Round, Ahead

LEMMA ArcSize ==
  ASSUME NEW n \in Nat \ {0}, NEW f \in 0..(n - 1), NEW k \in 0..n
  PROVE  IsFiniteSet(Arc(n, f, k)) /\ Cardinality(Arc(n, f, k)) = k
<1> DEFINE S == 0..(k - 1)
           T == Arc(n, f, k)
           at == [j \in S |-> Round(n, f + j)]
<1>1. \A j \in S : at[j] \in 0..(n - 1) /\ Ahead(n, f, at[j]) = j /\ at[j] \in T
  <2> SUFFICES ASSUME NEW j \in S
               PROVE  at[j] \in 0..(n - 1) /\ Ahead(n, f, at[j]) = j /\ at[j] \in T
    OBVIOUS
  <2>1. j \in 0..(n - 1) /\ at[j] = Round(n, f + j) /\ j < k
    OBVIOUS
  <2>2. at[j] \in 0..(n - 1) /\ Ahead(n, f, at[j]) = j
    BY <2>1, RoundAhead
  <2> HIDE DEF at
  <2> QED BY <2>1, <2>2 DEF Arc
<1>2. \A i \in T : Ahead(n, f, i) \in S /\ at[Ahead(n, f, i)] = i
  <2> SUFFICES ASSUME NEW i \in T PROVE Ahead(n, f, i) \in S /\ at[Ahead(n, f, i)] = i
    OBVIOUS
  <2>1. i \in 0..(n - 1) /\ Ahead(n, f, i) < k
    BY DEF Arc
  <2>2. Ahead(n, f, i) \in 0..(n - 1) /\ Round(n, f + Ahead(n, f, i)) = i
    BY <2>1, AheadRound
  <2> QED BY <2>1, <2>2
<1>t. DOMAIN at = S /\ at \in [S -> T]
  BY <1>1
<1> HIDE DEF at, T
<1>3. at \in Bijection(S, T)
  <2>1. \A a, b \in S : at[a] = at[b] => a = b
    BY <1>1
  <2>2. IsInjective(at)
    BY <1>t, <2>1 DEF IsInjective
  <2>3. \A t \in T : \E j \in S : at[j] = t
    BY <1>2
  <2> QED BY <1>t, <2>2, <2>3 DEF Bijection, Injection, Surjection
<1>4. IsFiniteSet(S) /\ Cardinality(S) = k
  BY FS_Interval
<1>5. ExistsBijection(S, T)
  BY <1>3 DEF ExistsBijection
<1> HIDE DEF S
<1> QED BY <1>4, <1>5, FS_Bijection DEF T

(* Behind the k places from h on come the q that begin k further.          *)
LEMMA AheadMoves ==
  ASSUME NEW n \in Nat \ {0}, NEW h \in 0..(n - 1), NEW k \in 0..n, NEW q \in 0..n,
         k + q <= n, NEW i \in 0..(n - 1)
  PROVE  Ahead(n, Round(n, h + k), i) < 0 + q
           <=> ~(Ahead(n, h, i) < k) /\ Ahead(n, h, i) < k + q
<1>1. PICK g \in 0..(n - 1) : g = Round(n, h + k)
  <2>1. h + k \in Nat /\ h + k < 2 * n
    OBVIOUS
  <2> QED BY <2>1, RoundIs
<1>2. CASE h + k < n
  <2>1. g = h + k
    BY <1>1, <1>2 DEF Round
  <2>2. CASE h <= i
    <3>1. Ahead(n, h, i) = i - h /\ Ahead(n, g, i) = IF g <= i THEN i - g ELSE i - g + n
      BY <2>2 DEF Ahead
    <3> QED BY <1>1, <1>2, <2>1, <2>2, <3>1
  <2>3. CASE ~(h <= i)
    <3>1. Ahead(n, h, i) = i - h + n /\ Ahead(n, g, i) = i - g + n
      BY <2>1, <2>3 DEF Ahead
    <3> QED BY <1>1, <1>2, <2>1, <2>3, <3>1
  <2> QED BY <2>2, <2>3
<1>3. CASE ~(h + k < n)
  <2>1. g = h + k - n
    BY <1>1, <1>3 DEF Round
  <2>2. CASE h <= i
    <3>1. Ahead(n, h, i) = i - h /\ Ahead(n, g, i) = i - g
      BY <2>1, <2>2 DEF Ahead
    <3> QED BY <1>1, <1>3, <2>1, <2>2, <3>1
  <2>3. CASE ~(h <= i)
    <3>1. Ahead(n, h, i) = i - h + n /\ Ahead(n, g, i) = IF g <= i THEN i - g ELSE i - g + n
      BY <2>3 DEF Ahead
    <3> QED BY <1>1, <1>3, <2>1, <2>3, <3>1
  <2> QED BY <2>2, <2>3
<1> QED BY <1>2, <1>3

(* The m places in state st begin at f.                                    *)
RunAt(n, ring, st, f, m) ==
  /\ n \in Nat \ {0} /\ DOMAIN ring = 0..(n - 1) /\ f \in 0..(n - 1) /\ m \in 0..n
  /\ \A i \in 0..(n - 1) : ring[i] = st <=> Ahead(n, f, i) < m

(* What a loop that starts c places after f counts.                        *)
LEMMA RunIs ==
  ASSUME NEW n, NEW ring, NEW st, NEW f, NEW m, RunAt(n, ring, st, f, m),
         NEW c \in 0..m, m < n \/ c = 0
  PROVE  RunOf(ring, Round(n, f + c), st) = m - c
<1>r. /\ n \in Nat \ {0} /\ DOMAIN ring = 0..(n - 1) /\ f \in 0..(n - 1) /\ m \in 0..n
      /\ \A i \in 0..(n - 1) : ring[i] = st <=> Ahead(n, f, i) < m
  BY DEF RunAt
<1> DEFINE s == Round(n, f + c)
           Starts(k) == \A j \in 0..(k - 1) : ring[(s + j) % n] = st
<1>1. Cardinality(DOMAIN ring) = n
  BY <1>r, FS_Interval
<1>2. s \in 0..(n - 1)
  BY <1>r DEF Round
<1>3. ASSUME NEW j \in 0..(n - 1), c + j < n
      PROVE  ring[(s + j) % n] = st <=> c + j < m
  <2>1. s + j \in Nat /\ s + j < 2 * n
    BY <1>r, <1>2
  <2>2. (s + j) % n = Round(n, s + j)
    BY <1>r, <2>1, RoundIs
  <2>3. Round(n, s + j) = Round(n, f + (c + j))
    BY <1>r, <1>2, <1>3 DEF Round
  <2>4. c + j \in 0..(n - 1)
    BY <1>r, <1>3
  <2>5. Round(n, f + (c + j)) \in 0..(n - 1) /\ Ahead(n, f, Round(n, f + (c + j))) = c + j
    BY <1>r, <2>4, RoundAhead
  <2> QED BY <1>r, <2>2, <2>3, <2>5
<1> HIDE DEF s
<1>a. /\ n \in Nat /\ m \in Nat /\ c \in Nat /\ c <= m /\ m <= n
  BY <1>r
<1>4. Starts(m - c)
  BY <1>3, <1>a
<1>b. m - c < n => ring[(s + (m - c)) % n] # st
  <2>1. m - c < n => m - c \in 0..(n - 1) /\ c + (m - c) < n /\ ~(c + (m - c) < m)
    BY <1>a
  <2> QED BY <1>3, <2>1
<1>5. \A k \in 0..n : m - c < k => ~Starts(k)
  <2>1. \A k \in 0..n : m - c < k => m - c \in 0..(k - 1) /\ m - c < n
    BY <1>a
  <2> QED BY <1>b, <2>1
<1>6. \A k \in 0..n : k < m - c => Starts(k + 1)
  <2>1. \A k \in 0..n : k < m - c => 0..(k + 1 - 1) \subseteq 0..(m - c - 1)
    BY <1>a
  <2> QED BY <1>4, <2>1
<1> HIDE DEF Starts
<1> DEFINE Best(k) == Starts(k) /\ (k = n \/ ~Starts(k + 1))
<1>7. Best(m - c) /\ m - c \in 0..n
  <2>1. m - c \in 0..n /\ (m - c = n \/ (m - c + 1 \in 0..n /\ m - c < m - c + 1))
    BY <1>a
  <2> QED BY <1>4, <1>5, <2>1
<1>8. \A k \in 0..n : Best(k) => k = m - c
  <2> SUFFICES ASSUME NEW k \in 0..n, Best(k) PROVE k = m - c
    OBVIOUS
  <2>1. ~(m - c < k)
    BY <1>5
  <2>2. ~(k < m - c)
    BY <1>6, <1>a
  <2> QED BY <1>a, <2>1, <2>2
<1>9. RunOf(ring, s, st) = CHOOSE k \in 0..n : Best(k)
  BY <1>1 DEF RunOf, Starts
<1> HIDE DEF Best
<1> QED BY <1>7, <1>8, <1>9 DEF s

(* Where a ring of n is cut in parts of b, the next place is the next of   *)
(* its part, or begins one.                                                *)
NextPart(n, b, h) ==
  /\ h % b \in 0..(b - 1)
  /\ Round(n, h + 1) % b = (IF (h % b) + 1 = b THEN 0 ELSE (h % b) + 1)

LEMMA BoundaryStep ==
  ASSUME NEW n \in Nat \ {0}, NEW b \in Nat \ {0}, n % b = 0, NEW h \in 0..(n - 1)
  PROVE  NextPart(n, b, h)
<1> USE DEF NextPart
<1>1. PICK q \in Nat, m \in 0..(b - 1) : h = b * q + m /\ m = h % b
  <2>1. h = b * (h \div b) + (h % b) /\ h \div b \in Nat /\ h % b \in 0..(b - 1)
    OBVIOUS
  <2> QED BY <2>1
<1>2. \A p \in Nat : \A r \in 0..(b - 1) : (b * p + r) % b = r
  <2> SUFFICES ASSUME NEW p \in Nat, NEW r \in 0..(b - 1) PROVE (b * p + r) % b = r
    OBVIOUS
  <2> DEFINE x == b * p + r
  <2>1. b * p \in Nat
    OBVIOUS
  <2>2. PICK q2 \in Nat, r2 \in 0..(b - 1) : x = b * q2 + r2 /\ r2 = x % b
    <3>1. x \in Nat
      BY <2>1
    <3> HIDE DEF x
    <3>2. x = b * (x \div b) + (x % b) /\ x \div b \in Nat /\ x % b \in 0..(b - 1)
      BY <3>1
    <3> QED BY <3>2
  <2>3. ASSUME NEW u \in Nat, NEW v \in Nat, u < v PROVE b * u + b <= b * v
    <3>1. PICK d \in Nat : v = u + 1 + d
      <4>1. v - u - 1 \in Nat /\ v = u + 1 + (v - u - 1)
        BY <2>3
      <4> QED BY <4>1
    <3>2. b * v = b * u + b + b * d
      BY <3>1
    <3>3. b * d \in Nat /\ b * u \in Nat
      OBVIOUS
    <3> QED BY <3>2, <3>3
  <2>4. b * q2 \in Nat
    OBVIOUS
  <2>5. p = q2
    <3>1. p < q2 => b * p + b <= b * q2
      BY <2>3
    <3>2. q2 < p => b * q2 + b <= b * p
      BY <2>3
    <3>3. ~(p < q2) /\ ~(q2 < p)
      BY <2>1, <2>2, <2>4, <3>1, <3>2
    <3> QED BY <3>3
  <2> QED BY <2>1, <2>2, <2>4, <2>5
<1>3. CASE m + 1 < b
  <2>2. h + 1 = b * q + (m + 1) /\ (h + 1) % b = m + 1
    <3>1. (b * q + (m + 1)) % b = m + 1
      BY <1>2, <1>3
    <3>2. b * q \in Nat /\ h + 1 = b * q + (m + 1)
      BY <1>1
    <3> QED BY <3>1, <3>2
  <2>3. h + 1 # n
    <3>2. n % b = 0
      OBVIOUS
    <3> QED BY <1>1, <1>3, <2>2, <3>2
  <2>4. Round(n, h + 1) = h + 1
    BY <2>3 DEF Round
  <2> QED BY <1>1, <1>3, <2>2, <2>4
<1>4. CASE m + 1 = b
  <2>1. b * q \in Nat /\ b * (q + 1) = b * q + b /\ q + 1 \in Nat
    OBVIOUS
  <2>a. h + 1 = b * (q + 1) + 0
    BY <1>1, <1>4, <2>1
  <2>b. (b * (q + 1) + 0) % b = 0
    BY <1>2, <2>1
  <2>2. (h + 1) % b = 0
    BY <2>a, <2>b
  <2>3. 0 % b = 0
    BY <1>2
  <2> QED BY <1>1, <1>4, <2>2, <2>3 DEF Round
<1> QED BY <1>1, <1>3, <1>4

(* The ring r of received packets: m of them from f on, of which c are     *)
(* counted; the adapter has a descriptors more; d is 1 while the reader    *)
(* has not gone on to the next descriptor.                                 *)
RxRecord ==
  [ring : [0..(rxRingSize - 1) -> {"empty", "filled"}],
   rxHead : 0..(rxRingSize - 1), rxTail : 0..(rxRingSize - 1),
   RDH : 0..(rxRingSize - 1), RDT : 0..(rxRingSize - 1)]

(* What readers have left the adapter: less than all of the ring.          *)
Lent(h) == IF h % E1000_RING_BOUNDARY = 0 THEN rxRingSize - E1000_RING_BOUNDARY
           ELSE rxRingSize - (h % E1000_RING_BOUNDARY)

RxIs(r, f, m, c, a, d) ==
  /\ r \in RxRecord
  /\ f \in 0..(rxRingSize - 1) /\ m \in Nat /\ c \in 0..m /\ a \in Nat /\ d \in {0, 1}
  /\ \A i \in 0..(rxRingSize - 1) : r.ring[i] = "filled" <=> Ahead(rxRingSize, f, i) < m
  /\ f = Round(rxRingSize, r.rxHead + d)
  /\ r.RDH = Round(rxRingSize, f + m)
  /\ r.rxTail = Round(rxRingSize, f + c)
  /\ r.RDT = Round(rxRingSize, r.RDH + a)
  /\ m + a + d = Lent(r.rxHead)

LEMMA RxSizes ==
  /\ rxRingSize \in Nat \ {0} /\ E1000_RING_BOUNDARY \in Nat \ {0}
  /\ E1000_RING_BOUNDARY < rxRingSize /\ rxRingSize % E1000_RING_BOUNDARY = 0
  /\ txRingSize \in Nat \ {0}
BY EthernetAssumption

LEMMA LentIs ==
  ASSUME NEW h \in 0..(rxRingSize - 1)
  PROVE  /\ Lent(h) \in 1..(rxRingSize - 1)
         /\ Lent(Round(rxRingSize, h + 1)) =
              Lent(h) - 1 + (IF h % E1000_RING_BOUNDARY = 0 THEN E1000_RING_BOUNDARY ELSE 0)
<1>1. PICK n \in Nat \ {0} : n = rxRingSize
  BY RxSizes
<1>2. PICK b \in Nat \ {0} : b = E1000_RING_BOUNDARY /\ b < n
  BY <1>1, RxSizes
<1>3. PICK x : x = h % b
  OBVIOUS
<1>4. PICK y : y = Round(n, h + 1) % b
  OBVIOUS
<1>5. x \in 0..(b - 1) /\ y = (IF x + 1 = b THEN 0 ELSE x + 1)
  <2>1. n % b = 0 /\ h \in 0..(n - 1)
    BY <1>1, <1>2, RxSizes
  <2>2. /\ h % b \in 0..(b - 1)
        /\ Round(n, h + 1) % b = (IF (h % b) + 1 = b THEN 0 ELSE (h % b) + 1)
    <3>1. NextPart(n, b, h)
      BY <1>1, <1>2, <2>1, BoundaryStep
    <3> QED BY <3>1 DEF NextPart
  <2> QED BY ONLY <1>3, <1>4, <2>2
<1>6. /\ Lent(h) = (IF x = 0 THEN n - b ELSE n - x)
      /\ Lent(Round(n, h + 1)) = (IF y = 0 THEN n - b ELSE n - y)
      /\ (IF h % E1000_RING_BOUNDARY = 0 THEN E1000_RING_BOUNDARY ELSE 0) = (IF x = 0 THEN b ELSE 0)
  BY <1>1, <1>2, <1>3, <1>4 DEF Lent
<1> QED BY <1>1, <1>2, <1>5, <1>6

LEMMA RxBounds ==
  ASSUME NEW r, NEW f, NEW m, NEW c, NEW a, NEW d, RxIs(r, f, m, c, a, d)
  PROVE  /\ f \in 0..(rxRingSize - 1) /\ m \in 0..(rxRingSize - 1) /\ c \in 0..m
         /\ a \in 0..(rxRingSize - 1) /\ d \in {0, 1}
         /\ m + a + d < rxRingSize /\ m + a + d = Lent(r.rxHead) /\ 0 < m + a + d
         /\ r.rxHead \in 0..(rxRingSize - 1) /\ r.rxTail \in 0..(rxRingSize - 1)
         /\ r.RDH \in 0..(rxRingSize - 1) /\ r.RDT \in 0..(rxRingSize - 1)
         /\ r.ring \in [0..(rxRingSize - 1) -> {"empty", "filled"}]
         /\ r.RDH = Round(rxRingSize, f + m) /\ r.RDT = Round(rxRingSize, r.RDH + a)
         /\ r.rxTail = Round(rxRingSize, f + c) /\ f = Round(rxRingSize, r.rxHead + d)
<1>1. /\ r.rxHead \in 0..(rxRingSize - 1) /\ r.rxTail \in 0..(rxRingSize - 1)
      /\ r.RDH \in 0..(rxRingSize - 1) /\ r.RDT \in 0..(rxRingSize - 1)
      /\ r.ring \in [0..(rxRingSize - 1) -> {"empty", "filled"}]
  BY DEF RxIs, RxRecord
<1>2. /\ f \in 0..(rxRingSize - 1) /\ m \in Nat /\ c \in 0..m /\ a \in Nat /\ d \in {0, 1}
      /\ m + a + d = Lent(r.rxHead)
      /\ r.RDH = Round(rxRingSize, f + m) /\ r.RDT = Round(rxRingSize, r.RDH + a)
      /\ r.rxTail = Round(rxRingSize, f + c) /\ f = Round(rxRingSize, r.rxHead + d)
  BY DEF RxIs
<1>3. Lent(r.rxHead) \in 1..(rxRingSize - 1)
  BY <1>1, LentIs
<1>4. /\ m \in 0..(rxRingSize - 1) /\ a \in 0..(rxRingSize - 1)
      /\ m + a + d < rxRingSize /\ 0 < m + a + d
  <2>1. PICK x \in 1..(rxRingSize - 1) : m + a + d = x
    BY <1>2, <1>3
  <2>2. m \in Nat /\ a \in Nat /\ d \in {0, 1} /\ rxRingSize \in Nat
    BY <1>2, RxSizes
  <2> QED BY ONLY <2>1, <2>2
<1> QED BY <1>1, <1>2, <1>4

LEMMA RxReceived ==
  ASSUME NEW r, NEW f, NEW m, NEW c, NEW a, NEW d, RxIs(r, f, m, c, a, d), r.RDH # r.RDT
  PROVE  RxIs([r EXCEPT !.ring[r.RDH] = "filled", !.RDH = InRx(@ + 1)], f, m + 1, c, a - 1, d)
<1> DEFINE n == rxRingSize
           h == r.RDH
           s == [r EXCEPT !.ring[h] = "filled", !.RDH = InRx(@ + 1)]
<1>1. /\ n \in Nat \ {0} /\ f \in 0..(n - 1) /\ m \in 0..(n - 1) /\ c \in 0..m
      /\ a \in 0..(n - 1) /\ d \in {0, 1} /\ m + a + d < n
      /\ h \in 0..(n - 1) /\ h = Round(n, f + m) /\ r.RDT = Round(n, h + a)
      /\ f = Round(n, r.rxHead + d) /\ r.rxTail = Round(n, f + c) /\ m + a + d = Lent(r.rxHead)
  BY RxBounds, RxSizes
<1>2. a # 0
  BY <1>1 DEF Round
<1>3. InRx(h + 1) = Round(n, h + 1) /\ Round(n, h + 1) \in 0..(n - 1)
  BY <1>1, RoundIs DEF InRx
<1>4. Round(n, h + 1) = Round(n, f + (m + 1)) /\ r.RDT = Round(n, Round(n, h + 1) + (a - 1))
  BY <1>1, <1>2 DEF Round
<1>5. \A i \in 0..(n - 1) : Ahead(n, f, i) < m + 1 <=> i = h \/ Ahead(n, f, i) < m
  BY <1>1 DEF Round, Ahead
<1>6. /\ r \in RxRecord
      /\ \A i \in 0..(n - 1) : r.ring[i] = "filled" <=> Ahead(n, f, i) < m
  BY DEF RxIs
<1>7. /\ s \in RxRecord /\ s.ring = [r.ring EXCEPT ![h] = "filled"]
      /\ s.RDH = Round(n, h + 1) /\ s.RDT = r.RDT /\ s.rxHead = r.rxHead /\ s.rxTail = r.rxTail
  BY <1>1, <1>3, <1>6 DEF RxRecord
<1>8. \A i \in 0..(n - 1) : s.ring[i] = "filled" <=> Ahead(n, f, i) < m + 1
  <2>1. \A i \in 0..(n - 1) : s.ring[i] = IF i = h THEN "filled" ELSE r.ring[i]
    BY <1>1, <1>6, <1>7 DEF RxRecord
  <2> QED BY <1>5, <1>6, <2>1
<1>9. m + 1 \in Nat /\ c \in 0..(m + 1) /\ a - 1 \in Nat /\ m + 1 + (a - 1) + d = m + a + d
  BY <1>1, <1>2
<1> HIDE DEF s
<1>10. RxIs(s, f, m + 1, c, a - 1, d)
  BY <1>1, <1>4, <1>7, <1>8, <1>9 DEF RxIs
<1> QED BY <1>10 DEF s

LEMMA RxCounted ==
  ASSUME NEW r, NEW f, NEW m, NEW c, NEW a, NEW d, RxIs(r, f, m, c, a, d)
  PROVE  /\ RunOf(r.ring, r.rxTail, "filled") = m - c
         /\ RxIs([r EXCEPT !.rxTail = InRx(@ + (m - c))], f, m, m, a, d)
<1> DEFINE n == rxRingSize
           s == [r EXCEPT !.rxTail = InRx(@ + (m - c))]
<1>1. /\ n \in Nat \ {0} /\ f \in 0..(n - 1) /\ m \in 0..(n - 1) /\ c \in 0..m
      /\ r.rxTail \in 0..(n - 1) /\ r.rxTail = Round(n, f + c)
      /\ r.ring \in [0..(n - 1) -> {"empty", "filled"}]
  BY RxBounds, RxSizes
<1>2. /\ r \in RxRecord
      /\ \A i \in 0..(n - 1) : r.ring[i] = "filled" <=> Ahead(n, f, i) < m
  BY DEF RxIs
<1>3. RunOf(r.ring, r.rxTail, "filled") = m - c
  <2>1. m \in 0..n /\ m < n /\ DOMAIN r.ring = 0..(n - 1)
    BY <1>1
  <2>2. RunOf(r.ring, Round(n, f + c), "filled") = m - c
    <3>1. RunAt(n, r.ring, "filled", f, m)
      BY <1>1, <1>2, <2>1 DEF RunAt
    <3> HIDE DEF n
    <3> QED BY <1>1, <2>1, <3>1, RunIs, SMTT(60)
  <2> QED BY <1>1, <2>2
<1>4. InRx(r.rxTail + (m - c)) = Round(n, f + m) /\ Round(n, f + m) \in 0..(n - 1)
  <2>1. r.rxTail + (m - c) \in Nat /\ r.rxTail + (m - c) < 2 * n
    BY <1>1
  <2>2. InRx(r.rxTail + (m - c)) = Round(n, r.rxTail + (m - c))
    BY <1>1, <2>1, RoundIs DEF InRx
  <2>3. Round(n, r.rxTail + (m - c)) = Round(n, f + m) /\ Round(n, f + m) \in 0..(n - 1)
    BY <1>1 DEF Round
  <2> QED BY <2>2, <2>3
<1>5. /\ s \in RxRecord /\ s.ring = r.ring /\ s.rxTail = Round(n, f + m)
      /\ s.RDH = r.RDH /\ s.RDT = r.RDT /\ s.rxHead = r.rxHead
  BY <1>2, <1>4 DEF RxRecord
<1>6. m \in 0..m
  BY <1>1
<1> HIDE DEF s
<1>7. RxIs(s, f, m, m, a, d)
  BY <1>5, <1>6 DEF RxIs
<1> QED BY <1>3, <1>7 DEF s

LEMMA RxTaken ==
  ASSUME NEW r, NEW f, NEW m, NEW c, NEW a, RxIs(r, f, m, c, a, 0), c > 0
  PROVE  /\ r.ring[r.rxHead] = "filled"
         /\ RxIs([r EXCEPT !.ring[r.rxHead] = "empty"],
                 Round(rxRingSize, f + 1), m - 1, c - 1, a, 1)
<1> DEFINE n == rxRingSize
           s == [r EXCEPT !.ring[r.rxHead] = "empty"]
           g == Round(n, f + 1)
<1>1. /\ n \in Nat \ {0} /\ f \in 0..(n - 1) /\ m \in 0..(n - 1) /\ c \in 0..m
      /\ a \in 0..(n - 1) /\ m + a + 0 < n
      /\ r.rxHead \in 0..(n - 1) /\ r.rxTail \in 0..(n - 1) /\ r.rxTail = Round(n, f + c)
      /\ r.RDH = Round(n, f + m)  /\ r.RDT = Round(n, r.RDH + a) /\ f = Round(n, r.rxHead + 0)
      /\ m + a + 0 = Lent(r.rxHead)
  BY RxBounds, RxSizes
<1>2. /\ r \in RxRecord
      /\ \A i \in 0..(n - 1) : r.ring[i] = "filled" <=> Ahead(n, f, i) < m
  BY DEF RxIs
<1>3. f = r.rxHead
  BY <1>1 DEF Round
<1>4. r.ring[r.rxHead] = "filled"
  <2>1. Ahead(n, f, f) < m
    BY <1>1 DEF Ahead
  <2> QED BY <1>1, <1>2, <1>3, <2>1
<1>5. g \in 0..(n - 1) /\ g = Round(n, r.rxHead + 1)
      /\ Round(n, f + m) = Round(n, g + (m - 1)) /\ Round(n, f + c) = Round(n, g + (c - 1))
  BY <1>1, <1>3 DEF Round
<1>6. \A i \in 0..(n - 1) : Ahead(n, g, i) < m - 1 <=> i # f /\ Ahead(n, f, i) < m
  BY <1>1 DEF Round, Ahead
<1>7. /\ s \in RxRecord /\ s.ring = [r.ring EXCEPT ![f] = "empty"]
      /\ s.RDH = r.RDH /\ s.RDT = r.RDT /\ s.rxHead = r.rxHead /\ s.rxTail = r.rxTail
  BY <1>1, <1>2, <1>3 DEF RxRecord
<1>8. \A i \in 0..(n - 1) : s.ring[i] = "filled" <=> Ahead(n, g, i) < m - 1
  <2>1. \A i \in 0..(n - 1) : s.ring[i] = IF i = f THEN "empty" ELSE r.ring[i]
    BY <1>1, <1>2, <1>7 DEF RxRecord
  <2> QED BY <1>2, <1>6, <2>1
<1>9. m - 1 \in Nat /\ c - 1 \in 0..(m - 1) /\ m - 1 + a + 1 = m + a + 0 /\ a \in Nat
  BY <1>1
<1> HIDE DEF s, g
<1>10. RxIs(s, g, m - 1, c - 1, a, 1)
  BY <1>1, <1>5, <1>7, <1>8, <1>9 DEF RxIs
<1> QED BY <1>4, <1>10 DEF s, g

LEMMA RxAdvanced ==
  ASSUME NEW r, NEW f, NEW m, NEW c, NEW a, RxIs(r, f, m, c, a, 1)
  PROVE  \E x \in Nat :
           RxIs([r EXCEPT
                   !.RDT = IF r.rxHead % E1000_RING_BOUNDARY = 0
                           THEN InRx(@ + E1000_RING_BOUNDARY) ELSE @,
                   !.rxHead = InRx(@ + 1)], f, m, c, x, 0)
<1> DEFINE n == rxRingSize
           b == E1000_RING_BOUNDARY
           more == r.rxHead % b = 0
           x == IF more THEN a + b ELSE a
           s == [r EXCEPT !.RDT = IF more THEN InRx(@ + b) ELSE @, !.rxHead = InRx(@ + 1)]
<1>1. /\ n \in Nat \ {0} /\ b \in Nat \ {0} /\ b < n
      /\ f \in 0..(n - 1) /\ m \in 0..(n - 1) /\ c \in 0..m /\ a \in 0..(n - 1)
      /\ r.rxHead \in 0..(n - 1) /\ r.RDH \in 0..(n - 1) /\ r.RDT \in 0..(n - 1)
      /\ r.RDT = Round(n, r.RDH + a) /\ f = Round(n, r.rxHead + 1)
      /\ m + a + 1 = Lent(r.rxHead)
  BY RxBounds, RxSizes
<1>2. r \in RxRecord
  BY DEF RxIs
<1>3. InRx(r.rxHead + 1) = f
  <2>1. r.rxHead + 1 \in Nat /\ r.rxHead + 1 < 2 * n
    BY <1>1
  <2> QED BY <1>1, <2>1, RoundIs DEF InRx
<1>4. InRx(r.RDT + b) = Round(n, r.RDT + b) /\ Round(n, r.RDT + b) \in 0..(n - 1)
  <2>1. r.RDT + b \in Nat /\ r.RDT + b < 2 * n
    BY <1>1
  <2> QED BY <1>1, <2>1, RoundIs DEF InRx
<1>5. /\ Lent(f) = Lent(r.rxHead) - 1 + (IF more THEN b ELSE 0)
      /\ Lent(f) \in 1..(n - 1)
  BY <1>1, LentIs
<1> HIDE DEF more
<1>6. x \in Nat /\ m + x + 0 = Lent(f)
  BY <1>1, <1>5
<1>7. IF more THEN Round(n, r.RDT + b) = Round(n, r.RDH + x) ELSE r.RDT = Round(n, r.RDH + x)
  BY <1>1, <1>5, <1>6 DEF Round
<1>8. /\ s \in RxRecord /\ s.ring = r.ring /\ s.rxTail = r.rxTail /\ s.RDH = r.RDH
      /\ s.rxHead = f /\ s.RDT = IF more THEN Round(n, r.RDT + b) ELSE r.RDT
  BY <1>1, <1>2, <1>3, <1>4 DEF RxRecord
<1>9. f = Round(n, f + 0)
  BY <1>1 DEF Round
<1> HIDE DEF s, x
<1>10. RxIs(s, f, m, c, x, 0)
  BY <1>6, <1>7, <1>8, <1>9 DEF RxIs
<1> QED BY <1>6, <1>10 DEF s, more
-----------------------------------------------------------------------------
(* What the semaphore has counted is for whoever comes, or for the reader  *)
(* that it has let pass.                                                   *)
RxCounts(m, c) ==
  /\ c = Positive(isem) + (IF reader = "reads" THEN 1 ELSE 0)
  /\ c < m => "RXT0" \in icr

Behind == IF reader = "advances" THEN 1 ELSE 0

RxInv ==
  /\ reader \in {"idle", "waits", "reads", "advances"} /\ isem \in Int
  /\ IF reader = "waits" THEN isem = -1 ELSE isem >= 0
  /\ \E f, m, c, a : RxIs(rx, f, m, c, a, Behind) /\ RxCounts(m, c)

LEMMA RxInvInit == EthInit => RxInv
<1> SUFFICES ASSUME EthInit PROVE RxInv
  OBVIOUS
<1> DEFINE n == rxRingSize
<1>1. /\ rx = [ring |-> [i \in 0..(n - 1) |-> "empty"], rxHead |-> 0, rxTail |-> 0,
               RDH |-> 0, RDT |-> n - E1000_RING_BOUNDARY]
      /\ isem = 0 /\ reader = "idle"
  BY DEF EthInit, RxInit
<1>2. /\ n \in Nat \ {0} /\ E1000_RING_BOUNDARY \in Nat \ {0} /\ E1000_RING_BOUNDARY < n
  BY RxSizes
<1>3. 0 % E1000_RING_BOUNDARY = 0
  BY <1>2, ModIs
<1>4. RxIs(rx, 0, 0, 0, n - E1000_RING_BOUNDARY, 0)
  <2>1. rx \in RxRecord
    BY <1>1, <1>2 DEF RxRecord
  <2>2. \A i \in 0..(n - 1) : rx.ring[i] = "filled" <=> Ahead(n, 0, i) < 0
    BY <1>1, <1>2 DEF Ahead
  <2>3. Lent(0) = n - E1000_RING_BOUNDARY
    BY <1>3 DEF Lent
  <2>4. /\ Round(n, 0 + 0) = 0 /\ Round(n, 0 + (n - E1000_RING_BOUNDARY)) = n - E1000_RING_BOUNDARY
        /\ n - E1000_RING_BOUNDARY \in Nat /\ 0 \in 0..(n - 1)
    BY <1>2 DEF Round
  <2>5. rx.rxHead = 0 /\ rx.rxTail = 0 /\ rx.RDH = 0 /\ rx.RDT = n - E1000_RING_BOUNDARY
    BY <1>1
  <2> QED BY <1>2, <2>1, <2>2, <2>3, <2>4, <2>5 DEF RxIs
<1>5. RxCounts(0, 0) /\ Behind = 0
  BY <1>1 DEF RxCounts, Behind, Positive
<1> QED BY <1>1, <1>4, <1>5 DEF RxInv

LEMMA RxInvNext == RxInv /\ RxNext => RxInv'
<1> SUFFICES ASSUME RxInv, RxNext PROVE RxInv'
  OBVIOUS
<1>1. PICK f, m, c, a : RxIs(rx, f, m, c, a, Behind) /\ RxCounts(m, c)
  BY DEF RxInv
<1>2. /\ reader \in {"idle", "waits", "reads", "advances"} /\ isem \in Int
      /\ IF reader = "waits" THEN isem = -1 ELSE isem >= 0
  BY DEF RxInv
<1>3. /\ m \in Nat /\ c \in 0..m /\ a \in Nat
      /\ c = Positive(isem) + (IF reader = "reads" THEN 1 ELSE 0) /\ (c < m => "RXT0" \in icr)
  BY <1>1 DEF RxIs, RxCounts
<1>4. CASE Receives
  <2>1. /\ rx.RDH # rx.RDT
        /\ rx' = [rx EXCEPT !.ring[rx.RDH] = "filled", !.RDH = InRx(@ + 1)]
        /\ "RXT0" \in icr' /\ isem' = isem /\ reader' = reader
    BY <1>4 DEF Receives
  <2>2. Behind' = Behind
    BY <2>1 DEF Behind
  <2>3. RxIs(rx', f, m + 1, c, a - 1, Behind')
    BY <1>1, <2>1, <2>2, RxReceived
  <2>4. RxCounts(m + 1, c)'
    BY <1>3, <2>1 DEF RxCounts, Positive
  <2> QED BY <1>2, <2>1, <2>3, <2>4 DEF RxInv
<1>5. CASE EthreadWaits
  <2>1. /\ reader = "idle" /\ isem' = isem - 1 /\ rx' = rx /\ icr' = icr
        /\ reader' = IF isem > 0 THEN "reads" ELSE "waits"
    BY <1>5 DEF EthreadWaits
  <2>2. RxIs(rx', f, m, c, a, Behind')
    BY <1>1, <2>1 DEF Behind
  <2>3. RxCounts(m, c)'
    BY <1>2, <1>3, <2>1 DEF RxCounts, Positive
  <2>4. /\ reader' \in {"idle", "waits", "reads", "advances"} /\ isem' \in Int
        /\ IF reader' = "waits" THEN isem' = -1 ELSE isem' >= 0
    BY <1>2, <2>1
  <2> QED BY <2>2, <2>3, <2>4 DEF RxInv
<1>6. CASE EthreadTakes
  <2>1. /\ reader = "reads" /\ isem' = isem /\ icr' = icr
        /\ rx' = [rx EXCEPT !.ring[rx.rxHead] = "empty"]
        /\ reader' = IF rx.ring[rx.rxHead] = "filled" THEN "advances" ELSE "SYSERR"
    BY <1>6 DEF EthreadTakes
  <2>2. Behind = 0 /\ c > 0
    BY <1>2, <1>3, <2>1 DEF Behind, Positive
  <2>3. /\ rx.ring[rx.rxHead] = "filled"
        /\ RxIs(rx', Round(rxRingSize, f + 1), m - 1, c - 1, a, 1)
    BY <1>1, <2>1, <2>2, RxTaken
  <2>4. reader' = "advances" /\ Behind' = 1
    BY <2>1, <2>3 DEF Behind
  <2>5. RxCounts(m - 1, c - 1)'
    BY <1>2, <1>3, <2>1, <2>4 DEF RxCounts, Positive
  <2>6. RxIs(rx', Round(rxRingSize, f + 1), m - 1, c - 1, a, Behind')
    BY <2>3, <2>4
  <2> QED BY <1>2, <2>1, <2>4, <2>5, <2>6 DEF RxInv
<1>7. CASE EthreadAdvances
  <2>1. /\ reader = "advances" /\ reader' = "idle" /\ isem' = isem /\ icr' = icr
        /\ rx' = [rx EXCEPT
                    !.RDT = IF rx.rxHead % E1000_RING_BOUNDARY = 0
                            THEN InRx(@ + E1000_RING_BOUNDARY) ELSE @,
                    !.rxHead = InRx(@ + 1)]
    BY <1>7 DEF EthreadAdvances
  <2>2. Behind = 1 /\ Behind' = 0
    BY <2>1 DEF Behind
  <2>3. \E x \in Nat : RxIs(rx', f, m, c, x, 0)
    BY <1>1, <2>1, <2>2, RxAdvanced
  <2>4. RxCounts(m, c)'
    BY <1>2, <1>3, <2>1 DEF RxCounts, Positive
  <2> QED BY <1>2, <2>1, <2>2, <2>3, <2>4 DEF RxInv
<1> QED BY <1>4, <1>5, <1>6, <1>7 DEF RxNext

LEMMA RxInvHandler == RxInv /\ Ethhandler => RxInv'
<1> SUFFICES ASSUME RxInv, Ethhandler PROVE RxInv'
  OBVIOUS
<1>1. PICK f, m, c, a : RxIs(rx, f, m, c, a, Behind) /\ RxCounts(m, c)
  BY DEF RxInv
<1>2. /\ reader \in {"idle", "waits", "reads", "advances"} /\ isem \in Int
      /\ IF reader = "waits" THEN isem = -1 ELSE isem >= 0
  BY DEF RxInv
<1>3. /\ m \in Nat /\ c \in 0..m /\ a \in Nat
      /\ c = Positive(isem) + (IF reader = "reads" THEN 1 ELSE 0) /\ (c < m => "RXT0" \in icr)
  BY <1>1 DEF RxIs, RxCounts
<1>4. CASE "RXT0" \in icr
  <2>1. PICK k : k = RunOf(rx.ring, rx.rxTail, "filled")
    OBVIOUS
  <2>2. /\ rx' = [rx EXCEPT !.rxTail = InRx(@ + k)] /\ isem' = isem + k
        /\ reader' = IF reader = "waits" /\ k > 0 THEN "reads" ELSE reader
    BY <1>4, <2>1 DEF Ethhandler, Eth_rxPackets
  <2>3. k = m - c /\ RxIs([rx EXCEPT !.rxTail = InRx(@ + (m - c))], f, m, m, a, Behind)
    BY <1>1, <2>1, RxCounted
  <2>4. k \in Nat
    BY <1>3, <2>3
  <2>5. Behind' = Behind
    BY <2>2 DEF Behind
  <2>6. RxIs(rx', f, m, m, a, Behind')
    BY <2>2, <2>3, <2>5
  <2>7. RxCounts(m, m)'
    BY <1>2, <1>3, <2>2, <2>3 DEF RxCounts, Positive
  <2>8. /\ reader' \in {"idle", "waits", "reads", "advances"} /\ isem' \in Int
        /\ IF reader' = "waits" THEN isem' = -1 ELSE isem' >= 0
    BY <1>2, <2>2, <2>4
  <2> QED BY <2>6, <2>7, <2>8 DEF RxInv
<1>5. CASE "RXT0" \notin icr
  <2>1. rx' = rx /\ isem' = isem /\ reader' = reader
    BY <1>5 DEF Ethhandler
  <2>2. RxIs(rx', f, m, c, a, Behind')
    BY <1>1, <2>1 DEF Behind
  <2>3. RxCounts(m, c)'
    BY <1>3, <1>5, <2>1 DEF RxCounts
  <2> QED BY <1>2, <2>1, <2>2, <2>3 DEF RxInv
<1> QED BY <1>4, <1>5

LEMMA RxInvIs == RxInv => RxKept
<1> SUFFICES ASSUME RxInv PROVE RxKept
  OBVIOUS
<1> DEFINE n == rxRingSize
<1>1. PICK f, m, c, a : RxIs(rx, f, m, c, a, Behind) /\ RxCounts(m, c)
  BY DEF RxInv
<1>2. /\ n \in Nat \ {0} /\ f \in 0..(n - 1) /\ m \in 0..(n - 1) /\ c \in 0..m
      /\ a \in 0..(n - 1) /\ m + a + Behind < n /\ 0 < m + a + Behind
      /\ rx.rxHead \in 0..(n - 1) /\ Behind \in {0, 1}
      /\ rx.RDH = Round(n, f + m) /\ rx.RDT = Round(n, rx.RDH + a)
      /\ rx.rxTail = Round(n, f + c) /\ f = Round(n, rx.rxHead + Behind)
      /\ rx.ring \in [0..(n - 1) -> {"empty", "filled"}]
  BY <1>1, RxBounds, RxSizes
<1>3. \A i \in 0..(n - 1) : rx.ring[i] = "filled" <=> Ahead(n, f, i) < m
  BY <1>1 DEF RxIs
<1> DEFINE first  == InRx(rx.rxHead + (IF reader = "advances" THEN 1 ELSE 0))
           filled == Cardinality({i \in DOMAIN rx.ring : rx.ring[i] = "filled"})
           counted == Positive(isem) + (IF reader = "reads" THEN 1 ELSE 0)
<1>4. first = f
  <2>1. first = InRx(rx.rxHead + Behind)
    BY DEF Behind
  <2>2. rx.rxHead + Behind \in Nat /\ rx.rxHead + Behind < 2 * n
    BY <1>2, SMTT(60)
  <2>3. InRx(rx.rxHead + Behind) = Round(n, rx.rxHead + Behind)
    BY <1>2, <2>2, RoundIs DEF InRx
  <2> QED BY <1>2, <2>1, <2>3
<1>5. filled = m
  <2>1. {i \in DOMAIN rx.ring : rx.ring[i] = "filled"} = Arc(n, f, m)
    BY <1>2, <1>3 DEF Arc
  <2>2. m \in 0..n
    BY <1>2
  <2>3. Cardinality(Arc(n, f, m)) = m
    BY <1>2, <2>2, ArcSize
  <2> QED BY <2>1, <2>3
<1>6. counted = c
  BY <1>1 DEF RxCounts
<1>7. RunOf(rx.ring, f, "filled") = m
  <2>1. RunAt(n, rx.ring, "filled", f, m)
    BY <1>2, <1>3 DEF RunAt
  <2>2. 0 \in 0..m /\ Round(n, f + 0) = f /\ m - 0 = m
    BY <1>2 DEF Round
  <2>3. RunOf(rx.ring, Round(n, f + 0), "filled") = m - 0
    BY <2>1, <2>2, RunIs
  <2> QED BY <2>2, <2>3
<1>8. InRx(f + m) = rx.RDH /\ InRx(f + c) = rx.rxTail
  <2>1. f + m \in Nat /\ f + m < 2 * n /\ f + c \in Nat /\ f + c < 2 * n
    BY <1>2
  <2> QED BY <1>2, <2>1, RoundIs DEF InRx
<1>9. reader # "SYSERR"
  BY DEF RxInv
<1>10. c < m => "RXT0" \in icr
  BY <1>1 DEF RxCounts
<1>11. rx.RDH = rx.RDT => m > 0 \/ reader = "advances"
  <2>1. rx.RDH = rx.RDT => a = 0
    <3>2. PICK x \in 0..(n - 1) : x = rx.RDH
      BY <1>1, RxBounds
    <3>3. ASSUME x = Round(n, x + a) PROVE a = 0
      BY ONLY <1>2, <3>2, <3>3 DEF Round
    <3> QED BY <1>2, <3>2, <3>3
  <2> QED BY <1>2, <2>1 DEF Behind
<1>12. c <= m
  BY <1>2
<1> HIDE DEF first, filled, counted, n
<1>13. /\ RunOf(rx.ring, first, "filled") = filled /\ rx.RDH = InRx(first + filled)
       /\ counted <= filled /\ rx.rxTail = InRx(first + counted)
       /\ (counted < filled => "RXT0" \in icr)
       /\ (rx.RDH = rx.RDT => filled > 0 \/ reader = "advances")
  BY <1>4, <1>5, <1>6, <1>7, <1>8, <1>10, <1>11, <1>12
<1> QED BY <1>9, <1>13 DEF RxKept, first, filled, counted
-----------------------------------------------------------------------------
(* The ring t of packets to send: from txHead on, k are sent and q queued. *)
TxRecord ==
  [ring : [0..(txRingSize - 1) -> {"free", "queued", "done"}],
   txHead : 0..(txRingSize - 1), txTail : 0..(txRingSize - 1),
   TDH : 0..(txRingSize - 1), TDT : 0..(txRingSize - 1)]

TxIs(t, k, q) ==
  /\ t \in TxRecord /\ k \in Nat /\ q \in Nat /\ k + q <= txRingSize
  /\ \A i \in 0..(txRingSize - 1) :
       /\ t.ring[i] = "done" <=> Ahead(txRingSize, t.txHead, i) < k
       /\ t.ring[i] # "free" <=> Ahead(txRingSize, t.txHead, i) < k + q
  /\ t.TDH = Round(txRingSize, t.txHead + k)
  /\ t.txTail = Round(txRingSize, t.txHead + (k + q))
  /\ t.TDT = t.txTail

LEMMA TxBounds ==
  ASSUME NEW t, NEW k, NEW q, TxIs(t, k, q)
  PROVE  /\ k \in 0..txRingSize /\ q \in 0..txRingSize /\ k + q <= txRingSize
         /\ t.txHead \in 0..(txRingSize - 1) /\ t.txTail \in 0..(txRingSize - 1)
         /\ t.TDH \in 0..(txRingSize - 1) /\ t.TDT \in 0..(txRingSize - 1)
         /\ t.ring \in [0..(txRingSize - 1) -> {"free", "queued", "done"}]
         /\ t.TDH = Round(txRingSize, t.txHead + k) /\ t.TDT = t.txTail
         /\ t.txTail = Round(txRingSize, t.txHead + (k + q))
<1>1. /\ t.txHead \in 0..(txRingSize - 1) /\ t.txTail \in 0..(txRingSize - 1)
      /\ t.TDH \in 0..(txRingSize - 1) /\ t.TDT \in 0..(txRingSize - 1)
      /\ t.ring \in [0..(txRingSize - 1) -> {"free", "queued", "done"}]
  BY DEF TxIs, TxRecord
<1>2. k \in 0..txRingSize /\ q \in 0..txRingSize /\ k + q <= txRingSize
  BY RxSizes DEF TxIs
<1> QED BY <1>1, <1>2 DEF TxIs

LEMMA TxSent ==
  ASSUME NEW t, NEW k, NEW q, TxIs(t, k, q), t.TDH # t.TDT
  PROVE  /\ q > 0
         /\ TxIs([t EXCEPT !.ring[t.TDH] = "done", !.TDH = InTx(@ + 1)], k + 1, q - 1)
<1> DEFINE n == txRingSize
           h == t.txHead
           j == t.TDH
           s == [t EXCEPT !.ring[j] = "done", !.TDH = InTx(@ + 1)]
<1>1. /\ n \in Nat \ {0} /\ k \in 0..n /\ q \in 0..n /\ k + q <= n
      /\ h \in 0..(n - 1) /\ j \in 0..(n - 1) /\ j = Round(n, h + k)
      /\ t.TDT = t.txTail /\ t.txTail = Round(n, h + (k + q))
  BY TxBounds, RxSizes
<1>2. q > 0 /\ k < n
  BY <1>1 DEF Round
<1>3. InTx(j + 1) = Round(n, j + 1) /\ Round(n, j + 1) \in 0..(n - 1)
  <2>1. j + 1 \in Nat /\ j + 1 < 2 * n
    BY <1>1
  <2> QED BY <1>1, <2>1, RoundIs DEF InTx
<1>4. Round(n, j + 1) = Round(n, h + (k + 1))
  BY <1>1, <1>2 DEF Round
<1>5. \A i \in 0..(n - 1) : Ahead(n, h, i) < k + 1 <=> i = j \/ Ahead(n, h, i) < k
  BY <1>1, <1>2 DEF Round, Ahead
<1>6. /\ t \in TxRecord
      /\ \A i \in 0..(n - 1) : /\ t.ring[i] = "done" <=> Ahead(n, h, i) < k
                               /\ t.ring[i] # "free" <=> Ahead(n, h, i) < k + q
  BY DEF TxIs
<1>7. /\ s \in TxRecord /\ s.ring = [t.ring EXCEPT ![j] = "done"]
      /\ s.TDH = Round(n, j + 1) /\ s.TDT = t.TDT /\ s.txHead = h /\ s.txTail = t.txTail
  BY <1>1, <1>3, <1>6 DEF TxRecord
<1>8. \A i \in 0..(n - 1) : s.ring[i] = IF i = j THEN "done" ELSE t.ring[i]
  BY <1>1, <1>6, <1>7 DEF TxRecord
<1>9. Ahead(n, h, j) < k + q /\ k + 1 + (q - 1) = k + q /\ k + 1 \in Nat /\ q - 1 \in Nat
  BY <1>1, <1>2 DEF Round, Ahead
<1>10. \A i \in 0..(n - 1) : /\ s.ring[i] = "done" <=> Ahead(n, h, i) < k + 1
                             /\ s.ring[i] # "free" <=> Ahead(n, h, i) < k + 1 + (q - 1)
  BY <1>5, <1>6, <1>8, <1>9
<1> HIDE DEF s
<1>11. TxIs(s, k + 1, q - 1)
  BY <1>1, <1>4, <1>7, <1>9, <1>10 DEF TxIs
<1> QED BY <1>2, <1>11 DEF s

LEMMA TxPut ==
  ASSUME NEW t, NEW k, NEW q, TxIs(t, k, q), k + q < txRingSize
  PROVE  TxIs([t EXCEPT !.ring[t.txTail] = IF @ = "free" THEN "queued" ELSE "overwritten",
                        !.TDT = InTx(@ + 1), !.txTail = InTx(@ + 1)], k, q + 1)
<1> DEFINE n == txRingSize
           h == t.txHead
           j == t.txTail
           s == [t EXCEPT !.ring[j] = IF @ = "free" THEN "queued" ELSE "overwritten",
                          !.TDT = InTx(@ + 1), !.txTail = InTx(@ + 1)]
<1>1. /\ n \in Nat \ {0} /\ k \in 0..n /\ q \in 0..n /\ k + q < n
      /\ h \in 0..(n - 1) /\ j \in 0..(n - 1) /\ t.TDH = Round(n, h + k)
      /\ t.TDT = t.txTail /\ j = Round(n, h + (k + q))
  BY TxBounds, RxSizes
<1>2. InTx(j + 1) = Round(n, j + 1) /\ Round(n, j + 1) \in 0..(n - 1)
  <2>1. j + 1 \in Nat /\ j + 1 < 2 * n
    BY <1>1
  <2> QED BY <1>1, <2>1, RoundIs DEF InTx
<1>3. Round(n, j + 1) = Round(n, h + (k + (q + 1)))
  BY <1>1 DEF Round
<1>4. \A i \in 0..(n - 1) : Ahead(n, h, i) < k + (q + 1) <=> i = j \/ Ahead(n, h, i) < k + q
  BY <1>1 DEF Round, Ahead
<1>5. /\ t \in TxRecord
      /\ \A i \in 0..(n - 1) : /\ t.ring[i] = "done" <=> Ahead(n, h, i) < k
                               /\ t.ring[i] # "free" <=> Ahead(n, h, i) < k + q
  BY DEF TxIs
<1>6. ~(Ahead(n, h, j) < k + q)
  BY <1>1 DEF Round, Ahead
<1>7. t.ring[j] = "free"
  BY <1>1, <1>5, <1>6
<1>8. /\ s \in TxRecord /\ s.ring = [t.ring EXCEPT ![j] = "queued"]
      /\ s.TDT = Round(n, j + 1) /\ s.TDH = t.TDH /\ s.txHead = h /\ s.txTail = Round(n, j + 1)
  <2>1. s = [t EXCEPT !.ring = [t.ring EXCEPT ![j] = "queued"],
                      !.TDT = Round(n, j + 1), !.txTail = Round(n, j + 1)]
    BY <1>1, <1>2, <1>5, <1>7 DEF TxRecord
  <2>2. [t.ring EXCEPT ![j] = "queued"] \in [0..(n - 1) -> {"free", "queued", "done"}]
    BY <1>5 DEF TxRecord
  <2> HIDE DEF s
  <2> QED BY <1>2, <1>5, <2>1, <2>2 DEF TxRecord
<1>9. \A i \in 0..(n - 1) : s.ring[i] = IF i = j THEN "queued" ELSE t.ring[i]
  BY <1>1, <1>5, <1>8 DEF TxRecord
<1>10. \A i \in 0..(n - 1) : /\ s.ring[i] = "done" <=> Ahead(n, h, i) < k
                             /\ s.ring[i] # "free" <=> Ahead(n, h, i) < k + (q + 1)
  <2>1. Ahead(n, h, j) < k => Ahead(n, h, j) < k + q
    BY <1>1 DEF Ahead
  <2> QED BY <1>4, <1>5, <1>6, <1>9, <2>1
<1>11. k \in Nat /\ q + 1 \in Nat /\ k + (q + 1) <= n
  BY <1>1
<1> HIDE DEF s
<1>12. TxIs(s, k, q + 1)
  BY <1>1, <1>3, <1>8, <1>10, <1>11 DEF TxIs
<1> QED BY <1>12 DEF s

LEMMA TxFreed ==
  ASSUME NEW t, NEW k, NEW q, TxIs(t, k, q)
  PROVE  /\ RunOf(t.ring, t.txHead, "done") = k
         /\ TxIs([t EXCEPT !.txHead = InTx(@ + k),
                           !.ring = [i \in DOMAIN @ |->
                                       IF InTx(i - t.txHead + txRingSize) < k
                                       THEN "free" ELSE @[i]]], 0, q)
<1> DEFINE n == txRingSize
           h == t.txHead
           g == Round(n, h + k)
           cleared == [i \in DOMAIN t.ring |->
                         IF InTx(i - h + n) < k THEN "free" ELSE t.ring[i]]
           s == [t EXCEPT !.txHead = InTx(@ + k),
                          !.ring = [i \in DOMAIN @ |->
                                      IF InTx(i - h + n) < k THEN "free" ELSE @[i]]]
<1>1. /\ n \in Nat \ {0} /\ k \in 0..n /\ q \in 0..n /\ k + q <= n
      /\ h \in 0..(n - 1) /\ t.TDH = Round(n, h + k)
      /\ t.TDT = t.txTail /\ t.txTail = Round(n, h + (k + q))
      /\ t.ring \in [0..(n - 1) -> {"free", "queued", "done"}]
  BY TxBounds, RxSizes
<1>2. /\ t \in TxRecord
      /\ \A i \in 0..(n - 1) : /\ t.ring[i] = "done" <=> Ahead(n, h, i) < k
                               /\ t.ring[i] # "free" <=> Ahead(n, h, i) < k + q
  BY DEF TxIs
<1>3. RunOf(t.ring, h, "done") = k
  <2>1. RunAt(n, t.ring, "done", h, k)
    BY <1>1, <1>2 DEF RunAt
  <2>2. 0 \in 0..k /\ Round(n, h + 0) = h /\ k - 0 = k
    BY <1>1 DEF Round
  <2>3. RunOf(t.ring, Round(n, h + 0), "done") = k - 0
    BY <2>1, <2>2, RunIs
  <2> QED BY <2>2, <2>3
<1>4. InTx(h + k) = g /\ g \in 0..(n - 1)
  <2>1. h + k \in Nat /\ h + k < 2 * n
    BY <1>1
  <2> QED BY <1>1, <2>1, RoundIs DEF InTx
<1>5. \A i \in 0..(n - 1) : InTx(i - h + n) = Ahead(n, h, i)
  <2> SUFFICES ASSUME NEW i \in 0..(n - 1) PROVE InTx(i - h + n) = Ahead(n, h, i)
    OBVIOUS
  <2>1. i - h + n \in Nat /\ i - h + n < 2 * n
    BY <1>1
  <2>2. InTx(i - h + n) = Round(n, i - h + n)
    BY <1>1, <2>1, RoundIs DEF InTx
  <2>3. Round(n, i - h + n) = Ahead(n, h, i)
    BY <1>1 DEF Round, Ahead
  <2> QED BY <2>2, <2>3
<1>6. /\ s \in TxRecord /\ s.ring = cleared
      /\ s.TDT = t.TDT /\ s.TDH = t.TDH /\ s.txHead = g /\ s.txTail = t.txTail
  <2>1. cleared \in [0..(n - 1) -> {"free", "queued", "done"}]
    BY <1>1
  <2>2. s = [t EXCEPT !.txHead = g, !.ring = cleared]
    BY <1>2, <1>4 DEF TxRecord
  <2> HIDE DEF cleared, g, s
  <2> QED BY <1>2, <1>4, <2>1, <2>2 DEF TxRecord
<1>7. \A i \in 0..(n - 1) : s.ring[i] = IF Ahead(n, h, i) < k THEN "free" ELSE t.ring[i]
  <2>1. \A i \in 0..(n - 1) : cleared[i] = IF InTx(i - h + n) < k THEN "free" ELSE t.ring[i]
    BY <1>1
  <2> HIDE DEF cleared, s
  <2> QED BY <1>5, <1>6, <2>1
<1>8. \A i \in 0..(n - 1) : Ahead(n, g, i) < 0 + q <=> ~(Ahead(n, h, i) < k) /\ Ahead(n, h, i) < k + q
  BY <1>1, AheadMoves
<1>9. \A i \in 0..(n - 1) : ~(Ahead(n, g, i) < 0)
  BY <1>1, <1>4 DEF Ahead
<1> HIDE DEF s
<1>10. \A i \in 0..(n - 1) : /\ s.ring[i] = "done" <=> Ahead(n, g, i) < 0
                             /\ s.ring[i] # "free" <=> Ahead(n, g, i) < 0 + q
  BY <1>2, <1>7, <1>8, <1>9
<1>11. g = Round(n, g + 0) /\ Round(n, h + (k + q)) = Round(n, g + (0 + q)) /\ 0 + q <= n
  BY <1>1 DEF Round
<1> HIDE DEF g
<1>12. TxIs(s, 0, q)
  <2>1. t.TDH = g
    BY <1>1 DEF g
  <2>2. q \in Nat /\ 0 \in Nat
    BY <1>1
  <2> QED BY <1>1, <1>6, <1>10, <1>11, <2>1, <2>2 DEF TxIs
<1> QED BY <1>3, <1>12 DEF s

Doing(st) == {p \in Sender : sender[p] = st}

(* Every descriptor is free and counted, promised to a sender that wait    *)
(* has let pass, sent, or queued; and as many wait as the count says.      *)
TxCounts(k, q) ==
  /\ Positive(osem) + Cardinality(Doing("writes")) + k + q = txRingSize
  /\ Cardinality(Doing("waits")) = Positive(-osem)
  /\ k > 0 => "TXDW" \in icr

TxInv ==
  /\ sender \in [Sender -> {"idle", "waits", "writes"}] /\ osem \in Int
  /\ \E k, q : TxIs(tx, k, q) /\ TxCounts(k, q)

LEMMA AtFinite ==
  ASSUME NEW st
  PROVE  /\ IsFiniteSet(Doing(st)) /\ Cardinality(Doing(st)) \in Nat
         /\ IsFiniteSet(Doing(st)') /\ Cardinality(Doing(st)') \in Nat
<1>1. IsFiniteSet(Doing(st)) /\ IsFiniteSet(Doing(st)')
  BY EthernetAssumption, FS_Subset DEF Doing
<1> QED BY <1>1, FS_CardinalityType

LEMMA PositiveIs ==
  ASSUME NEW i \in Int
  PROVE  Positive(i) \in Nat /\ i = Positive(i) - Positive(-i) /\ (Positive(i) = 0 \/ Positive(-i) = 0)
BY DEF Positive

LEMMA TxInvInit == EthInit => TxInv
<1> SUFFICES ASSUME EthInit PROVE TxInv
  OBVIOUS
<1> DEFINE n == txRingSize
<1>1. /\ tx = [ring |-> [i \in 0..(n - 1) |-> "free"], txHead |-> 0, txTail |-> 0,
               TDH |-> 0, TDT |-> 0]
      /\ osem = n /\ sender = [p \in Sender |-> "idle"]
  BY DEF EthInit, TxInit
<1>2. n \in Nat \ {0}
  BY RxSizes
<1>3. TxIs(tx, 0, 0)
  <2>1. tx \in TxRecord
    BY <1>1, <1>2 DEF TxRecord
  <2>2. \A i \in 0..(n - 1) : tx.ring[i] = "free" /\ ~(Ahead(n, 0, i) < 0)
    BY <1>1, <1>2 DEF Ahead
  <2>3. Round(n, 0 + 0) = 0 /\ 0 + 0 = 0
    BY <1>2 DEF Round
  <2>4. tx.txHead = 0 /\ tx.txTail = 0 /\ tx.TDH = 0 /\ tx.TDT = 0
    BY <1>1
  <2> QED BY <1>2, <2>1, <2>2, <2>3, <2>4 DEF TxIs
<1>4. TxCounts(0, 0)
  <2>1. Doing("writes") = {} /\ Doing("waits") = {}
    BY <1>1 DEF Doing
  <2>2. Cardinality(Doing("writes")) = 0 /\ Cardinality(Doing("waits")) = 0
    BY <2>1, FS_EmptySet
  <2>3. Positive(osem) = n /\ Positive(-osem) = 0
    BY <1>1, <1>2 DEF Positive
  <2>4. n + 0 + 0 + 0 = n /\ ~(0 > 0)
    BY <1>2
  <2> QED BY <2>2, <2>3, <2>4 DEF TxCounts
<1> QED BY <1>1, <1>2, <1>3, <1>4 DEF TxInv

LEMMA TxInvNext == TxInv /\ TxNext => TxInv'
<1> SUFFICES ASSUME TxInv, TxNext PROVE TxInv'
  OBVIOUS
<1>1. PICK k, q : TxIs(tx, k, q) /\ TxCounts(k, q)
  BY DEF TxInv
<1>2. sender \in [Sender -> {"idle", "waits", "writes"}] /\ osem \in Int
  BY DEF TxInv
<1> DEFINE w == Cardinality(Doing("writes"))
           b == Cardinality(Doing("waits"))
<1>3. /\ k \in Nat /\ q \in Nat /\ w \in Nat /\ b \in Nat /\ txRingSize \in Nat
      /\ Positive(osem) + w + k + q = txRingSize /\ b = Positive(-osem)
      /\ (k > 0 => "TXDW" \in icr)
  BY <1>1, AtFinite, RxSizes DEF TxIs, TxCounts
<1>4. CASE Transmits
  <2>1. /\ tx.TDH # tx.TDT
        /\ tx' = [tx EXCEPT !.ring[tx.TDH] = "done", !.TDH = InTx(@ + 1)]
        /\ "TXDW" \in icr' /\ osem' = osem /\ sender' = sender
    BY <1>4 DEF Transmits
  <2>2. q > 0 /\ TxIs(tx', k + 1, q - 1)
    BY <1>1, <2>1, TxSent
  <2>3. Doing("writes")' = Doing("writes") /\ Doing("waits")' = Doing("waits")
    BY <2>1 DEF Doing
  <2>4. TxCounts(k + 1, q - 1)'
    <3>1. Positive(osem) \in Nat
      BY <1>2, PositiveIs
    <3>2. Positive(osem) + w + (k + 1) + (q - 1) = txRingSize
      BY <1>3, <3>1
    <3> QED BY <1>3, <2>1, <2>3, <3>2 DEF TxCounts, Positive
  <2> QED BY <1>2, <2>1, <2>2, <2>4 DEF TxInv
<1>5. CASE TxStalled
  <2>1. tx' = tx /\ osem' = osem /\ sender' = sender /\ icr' = icr
    BY <1>5 DEF TxStalled, ethvars
  <2>2. Doing("writes")' = Doing("writes") /\ Doing("waits")' = Doing("waits")
    BY <2>1 DEF Doing
  <2>3. TxCounts(k, q)' /\ TxIs(tx', k, q)
    BY <1>1, <2>1, <2>2 DEF TxCounts, Positive
  <2> QED BY <1>2, <2>1, <2>3 DEF TxInv
<1>6. ASSUME NEW p \in Sender, EthwriteWaits(p) PROVE TxInv'
  <2>1. /\ sender[p] = "idle" /\ osem' = osem - 1 /\ tx' = tx /\ icr' = icr
        /\ sender' = [sender EXCEPT ![p] = IF osem > 0 THEN "writes" ELSE "waits"]
    BY <1>6 DEF EthwriteWaits
  <2>2. CASE osem > 0
    <3>1. Doing("writes")' = Doing("writes") \cup {p} /\ p \notin Doing("writes") /\ Doing("waits")' = Doing("waits")
      BY <1>2, <2>1, <2>2 DEF Doing
    <3>2. Cardinality(Doing("writes")') = w + 1 /\ Cardinality(Doing("waits")') = b
      BY <3>1, AtFinite, FS_AddElement
    <3>3. /\ Positive(osem') = Positive(osem) - 1 /\ Positive(osem) \in Nat
          /\ Positive(-osem') = Positive(-osem)
      BY <1>2, <2>1, <2>2 DEF Positive
    <3> HIDE DEF w, b
    <3>4. Positive(osem') + Cardinality(Doing("writes")') + k + q = txRingSize
      BY <1>3, <3>2, <3>3
    <3>5. Cardinality(Doing("waits")') = Positive(-osem')
      BY <1>3, <3>2, <3>3
    <3>6. TxCounts(k, q)'
      <4>1. k > 0 => "TXDW" \in icr'
        BY <1>3, <2>1
      <4> QED BY <3>4, <3>5, <4>1 DEF TxCounts, Positive
    <3>7. TxIs(tx', k, q)
      BY <1>1, <2>1
    <3> QED BY <1>2, <2>1, <2>2, <3>6, <3>7 DEF TxInv
  <2>3. CASE ~(osem > 0)
    <3>1. Doing("waits")' = Doing("waits") \cup {p} /\ p \notin Doing("waits") /\ Doing("writes")' = Doing("writes")
      BY <1>2, <2>1, <2>3 DEF Doing
    <3>2. Cardinality(Doing("waits")') = b + 1 /\ Cardinality(Doing("writes")') = w
      BY <3>1, AtFinite, FS_AddElement
    <3>3. /\ Positive(osem') = Positive(osem) /\ Positive(osem) \in Nat
          /\ Positive(-osem') = Positive(-osem) + 1
      BY <1>2, <2>1, <2>3 DEF Positive
    <3> HIDE DEF w, b
    <3>4. Positive(osem') + Cardinality(Doing("writes")') + k + q = txRingSize
      BY <1>3, <3>2, <3>3
    <3>5. Cardinality(Doing("waits")') = Positive(-osem')
      BY <1>3, <3>2, <3>3
    <3>6. TxCounts(k, q)'
      <4>1. k > 0 => "TXDW" \in icr'
        BY <1>3, <2>1
      <4> QED BY <3>4, <3>5, <4>1 DEF TxCounts, Positive
    <3>7. TxIs(tx', k, q)
      BY <1>1, <2>1
    <3> QED BY <1>2, <2>1, <2>3, <3>6, <3>7 DEF TxInv
  <2> QED BY <2>2, <2>3
<1>7. ASSUME NEW p \in Sender, EthwritePuts(p) PROVE TxInv'
  <2>1. /\ sender[p] = "writes" /\ osem' = osem /\ icr' = icr
        /\ sender' = [sender EXCEPT ![p] = "idle"]
        /\ tx' = [tx EXCEPT !.ring[tx.txTail] = IF @ = "free" THEN "queued" ELSE "overwritten",
                            !.TDT = InTx(@ + 1), !.txTail = InTx(@ + 1)]
    BY <1>7 DEF EthwritePuts
  <2>2. Doing("writes")' = Doing("writes") \ {p} /\ p \in Doing("writes") /\ Doing("waits")' = Doing("waits")
    BY <1>2, <2>1 DEF Doing
  <2>3. Cardinality(Doing("writes")') = w - 1 /\ Cardinality(Doing("waits")') = b
    BY <2>2, AtFinite, FS_RemoveElement
  <2>4. Cardinality(Doing("writes")') \in Nat /\ Positive(osem) \in Nat
    BY <1>2, AtFinite, PositiveIs
  <2> HIDE DEF w, b
  <2>5. k + q < txRingSize
    BY <1>3, <2>3, <2>4
  <2>6. TxIs(tx', k, q + 1)
    BY <1>1, <2>1, <2>5, TxPut
  <2>7. TxCounts(k, q + 1)'
    <3>1. Positive(osem) + Cardinality(Doing("writes")') + k + (q + 1) = txRingSize
      BY <1>3, <2>3, <2>4
    <3>2. Cardinality(Doing("waits")') = Positive(-osem) /\ (k > 0 => "TXDW" \in icr')
      BY <1>3, <2>1, <2>3
    <3> QED BY <2>1, <3>1, <3>2 DEF TxCounts, Positive
  <2> QED BY <1>2, <2>1, <2>6, <2>7 DEF TxInv
<1> QED BY <1>4, <1>5, <1>6, <1>7 DEF TxNext

LEMMA TxInvHandler == TxInv /\ Ethhandler => TxInv'
<1> SUFFICES ASSUME TxInv, Ethhandler PROVE TxInv'
  OBVIOUS
<1>1. PICK k, q : TxIs(tx, k, q) /\ TxCounts(k, q)
  BY DEF TxInv
<1>2. sender \in [Sender -> {"idle", "waits", "writes"}] /\ osem \in Int
  BY DEF TxInv
<1> DEFINE w == Cardinality(Doing("writes"))
           b == Cardinality(Doing("waits"))
<1>3. /\ k \in Nat /\ q \in Nat /\ w \in Nat /\ b \in Nat /\ txRingSize \in Nat
      /\ Positive(osem) + w + k + q = txRingSize /\ b = Positive(-osem)
      /\ (k > 0 => "TXDW" \in icr)
  BY <1>1, AtFinite, RxSizes DEF TxIs, TxCounts
<1>4. CASE "TXDW" \in icr
  <2>1. PICK j : j = RunOf(tx.ring, tx.txHead, "done")
    OBVIOUS
  <2>2. /\ j = k
        /\ TxIs([tx EXCEPT !.txHead = InTx(@ + k),
                           !.ring = [i \in DOMAIN @ |->
                                       IF InTx(i - tx.txHead + txRingSize) < k
                                       THEN "free" ELSE @[i]]], 0, q)
    BY <1>1, <2>1, TxFreed
  <2>3. /\ tx' = [tx EXCEPT !.txHead = InTx(@ + j),
                      !.ring = [i \in DOMAIN @ |-> IF InTx(i - tx.txHead + txRingSize) < j
                                                   THEN "free" ELSE @[i]]]
        /\ osem' = osem + j
        /\ \E released \in SUBSET Doing("waits") :
             /\ Cardinality(released) = (IF j < b THEN j ELSE b)
             /\ sender' = [p \in Sender |-> IF p \in released THEN "writes" ELSE sender[p]]
    BY <1>4, <2>1 DEF Ethhandler, Eth_txPackets, Doing
  <2>4. PICK released \in SUBSET Doing("waits") :
             /\ Cardinality(released) = (IF j < b THEN j ELSE b)
             /\ sender' = [p \in Sender |-> IF p \in released THEN "writes" ELSE sender[p]]
    BY <2>3
  <2>5. IsFiniteSet(released) /\ IsFiniteSet(Doing("writes")) /\ IsFiniteSet(Doing("waits"))
    BY AtFinite, FS_Subset
  <2>6. /\ Doing("writes")' = Doing("writes") \cup released /\ Doing("writes") \cap released = {}
        /\ Doing("waits")' = Doing("waits") \ released /\ Doing("waits") \cap released = released
    BY <1>2, <2>4 DEF Doing
  <2>7. /\ Cardinality(Doing("writes")') = w + Cardinality(released)
        /\ Cardinality(Doing("waits")') = b - Cardinality(released)
    <3>1. Cardinality(Doing("writes") \cup released) = w + Cardinality(released)
      <4>1. /\ Cardinality(Doing("writes") \cup released)
                 = w + Cardinality(released) - Cardinality(Doing("writes") \cap released)
            /\ Cardinality(released) \in Nat
        BY <2>5, FS_Union, FS_CardinalityType
      <4>2. Cardinality(Doing("writes") \cap released) = 0
        BY <2>6, FS_EmptySet
      <4> HIDE DEF w
      <4> QED BY <1>3, <4>1, <4>2
    <3>2. Cardinality(Doing("waits") \ released) = b - Cardinality(released)
      <4>1. Cardinality(Doing("waits") \ released)
                 = b - Cardinality(Doing("waits") \cap released)
        BY <2>5, FS_Difference
      <4> QED BY <2>6, <4>1
    <3> QED BY <2>6, <3>1, <3>2
  <2>8. PICK r : r = Cardinality(released)
    OBVIOUS
  <2>9. /\ Positive(osem') + (w + r) + 0 + q = txRingSize /\ b - r = Positive(-osem')
    <3>1. r = IF k < b THEN k ELSE b
      BY <2>2, <2>4, <2>8
    <3>2. osem' = osem + k
      BY <2>2, <2>3
    <3> HIDE DEF w, b
    <3> QED BY <1>2, <1>3, <3>1, <3>2 DEF Positive
  <2> HIDE DEF w, b
  <2>10. TxCounts(0, q)'
    <3>1. Positive(osem') + Cardinality(Doing("writes")') + 0 + q = txRingSize
      BY <2>7, <2>8, <2>9
    <3>2. Cardinality(Doing("waits")') = Positive(-osem')
      BY <2>7, <2>8, <2>9
    <3>3. ~(0 > 0)
      OBVIOUS
    <3> QED BY <3>1, <3>2, <3>3 DEF TxCounts, Positive
  <2>11. TxIs(tx', 0, q)
    BY <2>2, <2>3
  <2>12. sender' \in [Sender -> {"idle", "waits", "writes"}] /\ osem' \in Int
    BY <1>2, <1>3, <2>2, <2>3, <2>4
  <2> QED BY <2>10, <2>11, <2>12 DEF TxInv
<1>5. CASE "TXDW" \notin icr
  <2>1. tx' = tx /\ osem' = osem /\ sender' = sender
    BY <1>5 DEF Ethhandler
  <2>2. Doing("writes")' = Doing("writes") /\ Doing("waits")' = Doing("waits")
    BY <2>1 DEF Doing
  <2>3. TxCounts(k, q)'
    <3>1. k = 0 \/ k > 0
      BY <1>3
    <3>2. ~(k > 0)
      BY <1>3, <1>5
    <3> QED BY <1>3, <2>1, <2>2, <3>2 DEF TxCounts, Positive
  <2>4. TxIs(tx', k, q)
    BY <1>1, <2>1
  <2> QED BY <1>2, <2>1, <2>3, <2>4 DEF TxInv
<1> QED BY <1>4, <1>5

LEMMA TxInvIs == TxInv => TxKept
<1> SUFFICES ASSUME TxInv PROVE TxKept
  OBVIOUS
<1> DEFINE n == txRingSize
           h == tx.txHead
           InUse == {i \in DOMAIN tx.ring : tx.ring[i] # "free"}
           queued == {i \in DOMAIN tx.ring : tx.ring[i] = "queued"}
           passed == Cardinality({p \in Sender : sender[p] = "writes"})
<1>1. PICK k, q : TxIs(tx, k, q) /\ TxCounts(k, q)
  BY DEF TxInv
<1>2. /\ n \in Nat \ {0} /\ h \in 0..(n - 1) /\ k \in 0..n /\ q \in 0..n /\ k + q <= n
      /\ tx.TDH = Round(n, h + k) /\ tx.TDT = tx.txTail /\ tx.txTail = Round(n, h + (k + q))
      /\ tx.ring \in [0..(n - 1) -> {"free", "queued", "done"}]
  BY <1>1, TxBounds, RxSizes
<1>3. \A i \in 0..(n - 1) : /\ tx.ring[i] = "done" <=> Ahead(n, h, i) < k
                            /\ tx.ring[i] # "free" <=> Ahead(n, h, i) < k + q
  BY <1>1 DEF TxIs
<1>4. InUse = Arc(n, h, k + q) /\ k + q \in 0..n
  BY <1>2, <1>3 DEF Arc
<1>5. IsFiniteSet(InUse) /\ Cardinality(InUse) = k + q
  <2> HIDE DEF n, h, InUse
  <2>1. IsFiniteSet(Arc(n, h, k + q)) /\ Cardinality(Arc(n, h, k + q)) = k + q
    BY <1>2, <1>4, ArcSize
  <2> QED BY ONLY <1>4, <2>1
<1>6. queued = InUse \ Arc(n, h, k) /\ Arc(n, h, k) \subseteq InUse
  <2>1. ASSUME NEW i \in 0..(n - 1), Ahead(n, h, i) < k PROVE Ahead(n, h, i) < k + q
    <3>1. Ahead(n, h, i) \in 0..(n - 1)
      BY <1>2, AheadRound
    <3>2. \A a \in Int : a < k => a < k + q
      BY <1>2
    <3> QED BY <2>1, <3>1, <3>2
  <2>2. /\ DOMAIN tx.ring = 0..(n - 1)
        /\ \A i \in 0..(n - 1) : tx.ring[i] \in {"free", "queued", "done"}
    BY <1>2
  <2>3. \A i \in 0..(n - 1) : i \in Arc(n, h, k) <=> Ahead(n, h, i) < k
    BY DEF Arc
  <2>4. \A i \in 0..(n - 1) :
          tx.ring[i] = "queued" <=> tx.ring[i] # "free" /\ i \notin Arc(n, h, k)
    BY <1>3, <2>1, <2>2, <2>3
  <2>5. \A i \in 0..(n - 1) : i \in Arc(n, h, k) => tx.ring[i] # "free"
    BY <1>3, <2>1, <2>3
  <2>6. Arc(n, h, k) \subseteq 0..(n - 1)
    BY DEF Arc
  <2> QED BY <2>2, <2>4, <2>5, <2>6
<1>7. Cardinality(queued) = q /\ IsFiniteSet(queued)
  <2>1. Cardinality(Arc(n, h, k)) = k
    BY <1>2, ArcSize
  <2>2. PICK A : A = Arc(n, h, k)
    OBVIOUS
  <2> HIDE DEF InUse, queued
  <2>3. /\ IsFiniteSet(InUse \ A)
        /\ Cardinality(InUse \ A) = Cardinality(InUse) - Cardinality(InUse \cap A)
    BY <1>5, FS_Difference
  <2>4. InUse \cap A = A
    BY <1>6, <2>2
  <2>5. queued = InUse \ A
    BY <1>6, <2>2
  <2>6. Cardinality(queued) = (k + q) - k
    BY <1>5, <2>1, <2>2, <2>3, <2>4, <2>5
  <2>7. (k + q) - k = q
    BY <1>2
  <2> QED BY <2>3, <2>5, <2>6, <2>7
<1>8. queued # {} => q > 0
  <2>1. queued # {} => Cardinality(queued) # 0
    BY <1>7, FS_EmptySet
  <2> QED BY <1>2, <1>7, <2>1
<1>9. queued # {} => tx.TDH # tx.TDT \/ Cardinality(queued) = n
  <2>1. q > 0 => Round(n, h + k) # Round(n, h + (k + q)) \/ q = n
    BY <1>2 DEF Round
  <2> QED BY <1>2, <1>7, <1>8, <2>1
<1>10. Positive(osem) + passed + Cardinality(InUse) = n
  <2>1. Positive(osem) + passed + k + q = n
    BY <1>1 DEF TxCounts, Doing
  <2>2. Positive(osem) \in Nat
    BY PositiveIs DEF TxInv
  <2>3. passed \in Nat
    BY AtFinite DEF Doing
  <2> HIDE DEF passed, InUse
  <2> QED BY <1>2, <1>5, <2>1, <2>2, <2>3
<1>11. tx.txTail = InTx(h + Cardinality(InUse))
  <2>1. h + (k + q) \in Nat /\ h + (k + q) < 2 * n
    BY <1>2
  <2>2. InTx(h + (k + q)) = Round(n, h + (k + q))
    BY <1>2, <2>1, RoundIs DEF InTx
  <2> QED BY <1>2, <1>5, <2>2
<1>12. (\E i \in InUse : tx.ring[i] = "done") => "TXDW" \in icr
  <2> SUFFICES ASSUME NEW i \in InUse, tx.ring[i] = "done" PROVE "TXDW" \in icr
    OBVIOUS
  <2>1. i \in 0..(n - 1) /\ Ahead(n, h, i) < k
    BY <1>2, <1>3
  <2>2. k > 0
    BY <1>2, <2>1 DEF Ahead
  <2> QED BY <1>1, <2>2 DEF TxCounts
<1>13. \A i \in DOMAIN tx.ring : tx.ring[i] # "overwritten"
  BY <1>2
<1> HIDE DEF InUse, queued, passed
<1>14. /\ \A i \in DOMAIN tx.ring : tx.ring[i] # "overwritten"
       /\ Positive(osem) + passed + Cardinality(InUse) = txRingSize
       /\ tx.TDT = tx.txTail /\ tx.txTail = InTx(tx.txHead + Cardinality(InUse))
       /\ (\E i \in InUse : tx.ring[i] = "done") => "TXDW" \in icr
       /\ (queued # {} => tx.TDH # tx.TDT \/ Cardinality(queued) = txRingSize)
  BY <1>2, <1>9, <1>10, <1>11, <1>12, <1>13
<1> QED BY <1>14 DEF TxKept, InUse, queued, passed

(* Netin, the adapter, senders and the interrupt handler lose no packet,   *)
(* count none twice and overwrite none, for any number of senders and      *)
(* descriptors.                                                            *)
THEOREM RingsAreKept == EthSpec => []RingsKept
<1> DEFINE Inv == RxInv /\ TxInv
<1>1. EthInit => Inv
  BY RxInvInit, TxInvInit
<1>2. Inv /\ [EthNext]_ethvars => Inv'
  <2> SUFFICES ASSUME RxInv, TxInv, [EthNext]_ethvars PROVE RxInv' /\ TxInv'
    OBVIOUS
  <2>1. CASE RxNext
    <3>1. RxInv'
      BY <2>1, RxInvNext
    <3>2. /\ tx' = tx /\ osem' = osem /\ sender' = sender
          /\ ("TXDW" \in icr => "TXDW" \in icr')
      BY <2>1 DEF RxNext, Receives, EthreadWaits, EthreadTakes, EthreadAdvances
    <3>3. \A k, q : TxCounts(k, q) => TxCounts(k, q)'
      BY <3>2 DEF TxCounts, Positive, Doing
    <3> QED BY <3>1, <3>2, <3>3 DEF TxInv
  <2>2. CASE TxNext
    <3>1. TxInv'
      BY <2>2, TxInvNext
    <3>2. /\ rx' = rx /\ isem' = isem /\ reader' = reader
          /\ ("RXT0" \in icr => "RXT0" \in icr')
      BY <2>2 DEF TxNext, Transmits, TxStalled, EthwriteWaits, EthwritePuts, ethvars
    <3>3. Behind' = Behind /\ \A m, c : RxCounts(m, c) => RxCounts(m, c)'
      BY <3>2 DEF RxCounts, Positive, Behind
    <3> QED BY <3>1, <3>2, <3>3 DEF RxInv
  <2>3. CASE Ethhandler
    BY <2>3, RxInvHandler, TxInvHandler
  <2>4. CASE UNCHANGED ethvars
    <3>1. /\ rx' = rx /\ tx' = tx /\ isem' = isem /\ osem' = osem /\ reader' = reader
          /\ sender' = sender /\ icr' = icr
      BY <2>4 DEF ethvars
    <3>2. Behind' = Behind /\ \A m, c : RxCounts(m, c) => RxCounts(m, c)'
      BY <3>1 DEF RxCounts, Positive, Behind
    <3>3. \A k, q : TxCounts(k, q) => TxCounts(k, q)'
      BY <3>1 DEF TxCounts, Positive, Doing
    <3>4. RxInv'
      BY <3>1, <3>2 DEF RxInv
    <3> QED BY <3>1, <3>3, <3>4 DEF TxInv
  <2> QED BY <2>1, <2>2, <2>3, <2>4 DEF EthNext
<1>3. Inv => RingsKept
  BY RxInvIs, TxInvIs DEF RingsKept
<1> QED BY <1>1, <1>2, <1>3, PTL DEF EthSpec
-----------------------------------------------------------------------------
(* The file client.                                                        *)
Block    == [op : {"DATA"}, port : Transfer, blk : 1..FileLen]
Datagram == Block \cup [op : {"ERROR"}, port : Transfer, blk : {0}]

Client ==
  [op : {"idle", "recv", "done", "SYSERR"}, expected : Nat \ {0}, tries : Nat,
   remport : Transfer \cup {TFTP_PORT}, got : Seq(Block), room : Capacities, rrqs : Nat]

TftpTypeOK ==
  /\ tftp \in Client
  /\ server \in [Transfer -> 0..FileLen]
  /\ datagrams \subseteq Datagram
  /\ requests \subseteq [op : {"RRQ", "ACK"}, port : Transfer \cup {TFTP_PORT}, blk : Nat]

(* A packet comes from a transfer that was begun, and they begin in order; *)
(* block 0 is never acknowledged; the client has stored the blocks before  *)
(* the one that it expects.                                                *)
TftpIInv ==
  /\ TftpTypeOK
  /\ \A m \in datagrams : server[m.port] # 0
  /\ \A t \in Transfer : server[t] # 0 => \A u \in 1..(t - 1) : server[u] # 0
  /\ \A r \in requests : r.op = "ACK" => r.blk # 0
  /\ tftp.expected = Len(tftp.got) + 1
  /\ \A k \in DOMAIN tftp.got : tftp.got[k].blk = k /\ server[tftp.got[k].port] # 0
  /\ tftp.op = "done" => Len(tftp.got) \in {FileLen, tftp.room}

LEMMA TransferType == Transfer \subseteq Nat \ {0} /\ \A t \in Transfer : 1..(t - 1) \subseteq Transfer
<1>1. Cardinality(Transfer) \in Nat
  BY FS_CardinalityType, TftpAssumption
<1>2. QED
  BY <1>1, TftpAssumption

LEMMA TftpInitOK == TftpInit => TftpIInv
<1>. SUFFICES ASSUME TftpInit PROVE TftpIInv
  OBVIOUS
<1>1. TftpTypeOK
  BY TftpAssumption, TransferType DEF TftpInit, TftpTypeOK, Client, Datagram, Block, TFTP_PORT
<1>2. QED
  BY <1>1 DEF TftpInit, TftpIInv

(* What sending the client's message does.                                 *)
LEMMA TransmitOK ==
  ASSUME TftpIInv, NEW c \in Client, Transmit(c), c.expected = Len(c.got) + 1
  PROVE  /\ tftp' \in Client
         /\ tftp'.op = c.op /\ tftp'.got = c.got /\ tftp'.expected = c.expected
         /\ requests' \subseteq [op : {"RRQ", "ACK"}, port : Transfer \cup {TFTP_PORT}, blk : Nat]
         /\ \A r \in requests' : r.op = "ACK" => r.blk # 0
<1>1. Outmsg(c) \in [op : {"RRQ", "ACK"}, port : Transfer \cup {TFTP_PORT}, blk : Nat]
  BY DEF Outmsg, Rrq, Ack, Client
<1>2. Outmsg(c).op = "ACK" => Outmsg(c).blk # 0
  BY DEF Outmsg, Rrq, Ack, Client
<1>3. PICK n \in Nat : tftp' = [c EXCEPT !.rrqs = n]
  <2>1. tftp' = [c EXCEPT !.rrqs = IF c.expected = 1 THEN c.rrqs + 1 ELSE c.rrqs]
    BY DEF Transmit
  <2>2. (IF c.expected = 1 THEN c.rrqs + 1 ELSE c.rrqs) \in Nat
    BY DEF Client
  <2>3. QED
    BY <2>1, <2>2
<1>4. tftp' \in Client /\ tftp'.op = c.op /\ tftp'.got = c.got /\ tftp'.expected = c.expected
  BY <1>3 DEF Client
<1>5. requests' = requests \cup {Outmsg(c)}
  BY DEF Transmit
<1>6. QED
  BY <1>1, <1>2, <1>4, <1>5 DEF TftpIInv, TftpTypeOK

LEMMA GotType ==
  ASSUME TftpIInv, NEW k \in DOMAIN tftp.got
  PROVE  tftp.got[k] \in Block /\ tftp.got[k].port \in Transfer
<1>1. tftp.got \in Seq(Block)
  BY DEF TftpIInv, TftpTypeOK, Client
<1>2. tftp.got[k] \in Block
  BY <1>1
<1>3. QED
  BY <1>2 DEF Block

LEMMA TftpReceivesOK ==
  ASSUME TftpIInv, NEW m \in datagrams, TftpReceives(m)
  PROVE  TftpIInv'
<1>. DEFINE c == [tftp EXCEPT !.remport = m.port]
            stored == [c EXCEPT !.got = Append(@, m), !.expected = @ + 1, !.tries = 1]
<1>1. /\ tftp \in Client /\ m \in Datagram /\ c \in Client
      /\ server' = server /\ datagrams' = datagrams /\ server[m.port] # 0
      /\ c.op = "recv" /\ c.got = tftp.got /\ c.expected = Len(c.got) + 1
  BY DEF TftpIInv, TftpTypeOK, Client, Datagram, Block, TftpReceives
<1>2. ASSUME m.op = "DATA", m.blk = c.expected, Len(c.got) < c.room,
             IF m.blk < FileLen
             THEN Transmit(stored)
             ELSE tftp' = [stored EXCEPT !.op = "done"] /\ requests' = requests \cup {Outmsg(stored)}
      PROVE  TftpIInv'
  <2>1. m \in Block
    BY <1>1, <1>2 DEF Datagram
  <2>2. /\ stored \in Client
        /\ stored.got \in Seq(Block) /\ stored.expected = Len(stored.got) + 1
        /\ Len(stored.got) = m.blk
        /\ \A k \in DOMAIN stored.got : stored.got[k].blk = k /\ server[stored.got[k].port] # 0
    <3>1. /\ tftp.got \in Seq(Block) /\ m.blk = Len(tftp.got) + 1 /\ tftp.expected = m.blk
          /\ stored = [tftp EXCEPT !.remport = m.port, !.got = Append(tftp.got, m),
                                   !.expected = m.blk + 1, !.tries = 1]
      BY <1>1, <1>2 DEF Client
    <3>2. /\ Append(tftp.got, m) \in Seq(Block) /\ Len(Append(tftp.got, m)) = m.blk
          /\ m.port \in Transfer /\ m.blk + 1 \in Nat \ {0}
      BY <2>1, <3>1 DEF Block
    <3>3. /\ stored \in Client /\ stored.got = Append(tftp.got, m)
          /\ stored.expected = m.blk + 1
      BY <1>1, <3>1, <3>2 DEF Client
    <3>4. ASSUME NEW k \in DOMAIN stored.got
          PROVE  stored.got[k].blk = k /\ server[stored.got[k].port] # 0
      <4>1. CASE k = m.blk
        <5>1. stored.got[k] = m
          BY <3>1, <3>2, <3>3, <4>1, <2>1
        <5>2. QED
          BY <5>1, <4>1, <1>1
      <4>2. CASE k # m.blk
        <5>1. k \in DOMAIN tftp.got /\ stored.got[k] = tftp.got[k]
          BY <3>1, <3>2, <3>3, <3>4, <4>2, <2>1
        <5>2. QED
          BY <5>1 DEF TftpIInv
      <4>3. QED
        BY <4>1, <4>2
    <3>5. QED
      BY <3>2, <3>3, <3>4
  <2>3. CASE m.blk < FileLen
    <3>1. Transmit(stored)
      BY <1>2, <2>3
    <3>2. /\ tftp' \in Client /\ tftp'.got = stored.got /\ tftp'.expected = stored.expected
          /\ tftp'.op = "recv"
      BY <3>1, <2>2, <1>1, TransmitOK DEF Client
    <3>3. QED
      BY <1>1, <2>2, <3>1, <3>2, TransmitOK, ZenonT(90) DEF TftpIInv, TftpTypeOK
  <2>4. CASE ~(m.blk < FileLen)
    <3>1. m.blk = FileLen
      BY <2>4, <2>1, TftpAssumption DEF Block
    <3>2. /\ Outmsg(stored) \in [op : {"RRQ", "ACK"}, port : Transfer \cup {TFTP_PORT}, blk : Nat]
          /\ Outmsg(stored).op = "ACK" => Outmsg(stored).blk # 0
      <4>1. stored.expected = m.blk + 1 /\ m.blk \in Nat \ {0}
            /\ stored.remport \in Transfer \cup {TFTP_PORT}
        BY <2>1, <2>2 DEF Client, Block
      <4>2. Outmsg(stored) = Ack(stored.remport, m.blk)
        BY <4>1 DEF Outmsg
      <4>3. QED
        BY <4>1, <4>2 DEF Ack
    <3>3. /\ tftp' = [stored EXCEPT !.op = "done"] /\ requests' = requests \cup {Outmsg(stored)}
      BY <2>4, <1>2
    <3>4. tftp' \in Client /\ tftp'.got = stored.got /\ tftp'.expected = stored.expected
      BY <3>3, <2>2 DEF Client
    <3>5. QED
      BY <1>1, <2>2, <3>1, <3>2, <3>3, <3>4 DEF TftpIInv, TftpTypeOK
  <2>5. QED
    BY <2>3, <2>4
<1>3. ASSUME Len(c.got) = c.room \/ tftp'.op # "done", requests' = requests,
             \E op \in {"recv", "done", "SYSERR"} : tftp' = [c EXCEPT !.op = op]
      PROVE  TftpIInv'
  BY <1>1, <1>3, ZenonT(90) DEF TftpIInv, TftpTypeOK, Client
<1>4. QED
  BY <1>1, <1>2, <1>3, ZenonT(90) DEF TftpReceives, Client

LEMMA TftpClientOK == TftpIInv /\ (TftpGet \/ TftpTimeout) => TftpIInv'
<1>. SUFFICES ASSUME TftpIInv, TftpGet \/ TftpTimeout PROVE TftpIInv'
  OBVIOUS
<1>1. /\ tftp \in Client /\ tftp.expected = Len(tftp.got) + 1
      /\ server' = server /\ datagrams' = datagrams
  BY DEF TftpIInv, TftpTypeOK, TftpGet, TftpTimeout
<1>2. ASSUME NEW c, NEW n \in Nat, Transmit(c),
             c \in {[tftp EXCEPT !.op = "recv", !.tries = n], [tftp EXCEPT !.tries = n]},
             c.op = "recv"
      PROVE  TftpIInv'
  <2>1. /\ c \in Client /\ c.got = tftp.got /\ c.expected = tftp.expected /\ c.op = "recv"
    BY <1>1, <1>2 DEF Client
  <2>2. /\ tftp' \in Client /\ tftp'.got = c.got /\ tftp'.expected = c.expected /\ tftp'.op = "recv"
    BY <1>1, <1>2, <2>1, TransmitOK DEF Client
  <2>3. QED
    BY <1>1, <1>2, <2>1, <2>2, TransmitOK DEF TftpIInv, TftpTypeOK
<1>3. CASE TftpGet
  <2>1. [tftp EXCEPT !.op = "recv", !.tries = 1].op = "recv"
    BY <1>1 DEF Client
  <2>2. QED
    BY <1>2, <1>3, <2>1 DEF TftpGet
<1>4. CASE TftpTimeout
  <2>1. CASE Transmit([tftp EXCEPT !.tries = @ + 1])
    <3>1. tftp.op = "recv" /\ tftp.tries + 1 \in Nat
      BY <1>1, <1>4 DEF TftpTimeout, Client
    <3>2. [tftp EXCEPT !.tries = @ + 1].op = "recv"
      BY <1>1, <3>1 DEF Client
    <3>3. QED
      BY <1>2, <2>1, <3>1, <3>2
  <2>2. CASE tftp' = [tftp EXCEPT !.op = "SYSERR"] /\ UNCHANGED requests
    BY <1>1, <2>2 DEF TftpIInv, TftpTypeOK, Client
  <2>3. QED
    BY <1>4, <2>1, <2>2 DEF TftpTimeout
<1>5. QED
  BY <1>3, <1>4

LEMMA TftpServerOK ==
  ASSUME TftpIInv, NEW t \in Transfer, ServerStarts(t) \/ ServerContinues(t) \/ ServerGivesUp(t)
  PROVE  TftpIInv'
<1>1. tftp' = tftp /\ requests' = requests
  BY DEF ServerStarts, ServerContinues, ServerGivesUp
<1>2. \E b \in 1..FileLen :
        /\ server' = [server EXCEPT ![t] = b]
        /\ datagrams' \in {datagrams \cup {Data(t, b)}, datagrams \cup {TftpError(t)}}
        /\ server[t] # 0 \/ \A u \in 1..(t - 1) : server[u] # 0
  <2>1. server[t] \in 0..FileLen /\ FileLen \in Nat \ {0}
    BY TftpAssumption DEF TftpIInv, TftpTypeOK
  <2>2. CASE ServerStarts(t)
    <3>1. 1 \in 1..FileLen
      BY <2>1
    <3>2. QED
      BY <2>2, <3>1 DEF ServerStarts
  <2>3. CASE ServerContinues(t)
    <3>1. server[t] # 0
      BY <2>3 DEF ServerContinues, TftpIInv, Ack
    <3>2. server[t] + 1 \in 1..FileLen
      BY <2>1, <2>3 DEF ServerContinues
    <3>3. QED
      BY <2>3, <3>1, <3>2 DEF ServerContinues
  <2>4. CASE ServerGivesUp(t)
    <3>1. server' = [server EXCEPT ![t] = server[t]] /\ server[t] \in 1..FileLen
      BY <2>1, <2>4 DEF ServerGivesUp, TftpIInv, TftpTypeOK
    <3>2. QED
      BY <2>4, <3>1 DEF ServerGivesUp
  <2>5. QED
    BY <2>2, <2>3, <2>4
<1>3. PICK b \in 1..FileLen :
        /\ server' = [server EXCEPT ![t] = b]
        /\ datagrams' \in {datagrams \cup {Data(t, b)}, datagrams \cup {TftpError(t)}}
        /\ server[t] # 0 \/ \A u \in 1..(t - 1) : server[u] # 0
  BY <1>2
<1>4. /\ server \in [Transfer -> 0..FileLen] /\ b # 0
      /\ server' \in [Transfer -> 0..FileLen]
      /\ \A u \in Transfer : server'[u] = IF u = t THEN b ELSE server[u]
  BY <1>3, TftpAssumption DEF TftpIInv, TftpTypeOK
<1>5. datagrams' \subseteq Datagram /\ \A m \in datagrams' : m \in datagrams \/ m.port = t
  BY <1>3, TftpAssumption DEF TftpIInv, TftpTypeOK, Data, TftpError, Datagram, Block
<1>6. \A m \in datagrams' : server'[m.port] # 0
  BY <1>4, <1>5 DEF TftpIInv, Datagram, Block
<1>7. ASSUME NEW x \in Transfer, server'[x] # 0, NEW u \in 1..(x - 1)
      PROVE  server'[u] # 0
  BY <1>3, <1>4, <1>7, TransferType DEF TftpIInv
<1>8. ASSUME NEW k \in DOMAIN tftp.got
      PROVE  tftp.got[k].blk = k /\ server'[tftp.got[k].port] # 0
  <2>1. tftp.got[k].port \in Transfer
    BY <1>8, GotType
  <2>2. QED
    BY <1>4, <2>1 DEF TftpIInv
<1>9. QED
  BY <1>1, <1>4, <1>5, <1>6, <1>7, <1>8 DEF TftpIInv, TftpTypeOK

(* What tftpget has stored is the beginning of one file, each block once   *)
(* and in order, whatever the network repeats, delays or loses, and the    *)
(* whole file when it returns OK; blocks come from two transfers only if   *)
(* the server began two (net/tftp.c).                                      *)
THEOREM TftpStoresOneFile == TftpSpec => []TftpOneFile
<1>1. TftpIInv /\ [TftpNext]_tftpvars => TftpIInv'
  <2>1. TftpIInv /\ UNCHANGED tftpvars => TftpIInv'
    BY DEF TftpIInv, TftpTypeOK, tftpvars
  <2>2. QED
    BY <2>1, TftpReceivesOK, TftpClientOK, TftpServerOK DEF TftpNext
<1>2. TftpIInv => TftpOneFile
  <2>. SUFFICES ASSUME TftpIInv, NEW k \in DOMAIN tftp.got, NEW l \in DOMAIN tftp.got,
                       tftp.got[k].port # tftp.got[l].port
                PROVE  server[2] # 0
    BY DEF TftpIInv, TftpOneFile
  <2>1. \A i \in {k, l} : tftp.got[i].port \in Transfer /\ server[tftp.got[i].port] # 0
    BY GotType DEF TftpIInv
  <2>2. PICK t \in Transfer : t > 1 /\ server[t] # 0
    <3>1. \A t, u \in Transfer : t # u => t > 1 \/ u > 1
      BY TransferType
    <3>2. PICK i \in {k, l} : tftp.got[i].port > 1
      BY <2>1, <3>1
    <3>3. QED
      BY <2>1, <3>2
  <2>3. t = 2 \/ 2 \in 1..(t - 1)
    BY <2>2, TransferType
  <2>4. QED
    BY <2>2, <2>3 DEF TftpIInv
<1>3. QED
  BY <1>1, <1>2, TftpInitOK, PTL DEF TftpSpec
-----------------------------------------------------------------------------
Outcome == [op : {"idle"}, name : Name \cup {"none"}, value : Address \cup Name \cup {"SYSERR"}]

DhcpWait ==
  [op : {"recv"}, at : {"dhcp"}, i : 1..DHCP_RETRY, j : 1..3,
   snd : {Discover} \cup {Request(a) : a \in Address}, name : Name \cup {"none"}]

DnsWait == [op : {"recv"}, at : Ports \ {"dhcp"}, i : 1..DNSRETRY, name : Name]

CallsOK ==
  /\ call \in [Caller -> Outcome \cup DhcpWait \cup DnsWait]
  /\ endpoint \in [Ports -> Caller \cup {"free", "abandoned"}]
  /\ \A p \in Caller :
       call[p].op = "idle" /\ call[p].name # "none" =>
         /\ call[p].value \in Longer[call[p].name]
         /\ \E ns \in Ports : Query(ns, call[p].value) \in sent

NetDataOK ==
  /\ NetData \in [ipucast : Address \cup {"zero"}, dnsserver : (Ports \ {"dhcp"}) \cup {"zero"}]
  /\ NetData.ipucast # "zero" =>
       Granted(NetData.ipucast) \in wire /\ Request(NetData.ipucast) \in sent

(* Servers answer what was sent to them.                                   *)
WireOK ==
  \A m \in wire :
    \/ m \in Offers \cup {Refused}
    \/ \E a \in Address : m = Granted(a) /\ Request(a) \in sent
    \/ \E ns \in Ports \ {"dhcp"}, n \in Name : m = Answer(ns, n) /\ Query(ns, n) \in sent

DhcpIInv == CallsOK /\ NetDataOK /\ WireOK /\ EndpointKept

LEMMA PortsOK == /\ {"discover", "request", "offer", "ack", "nak", "zero"} \cap Ports = {}
                 /\ \A a \in Address : NameServer[a] \in (Ports \ {"dhcp"}) \cup {"zero"}
BY DhcpAssumption DEF Ports

(* What the kinds of message that arrive say.                              *)
LEMMA WireKinds ==
  ASSUME WireOK, NEW m \in wire
  PROVE  /\ m.op = "offer" => m.of \in Address
         /\ m.op = "ack" => m.of \in Address /\ m = Granted(m.of) /\ Request(m.of) \in sent
         /\ m.op # "dhcp"
         /\ m.op \in Ports => m.of \in Name /\ Query(m.op, m.of) \in sent
<1>1. CASE m \in Offers
  BY <1>1, PortsOK, DhcpAssumption
<1>2. CASE m = Refused
  BY <1>2, PortsOK DEF Refused
<1>3. CASE \E a \in Address : m = Granted(a) /\ Request(a) \in sent
  BY <1>3, PortsOK DEF Granted
<1>4. CASE \E ns \in Ports \ {"dhcp"}, n \in Name : m = Answer(ns, n) /\ Query(ns, n) \in sent
  BY <1>4, PortsOK DEF Answer
<1>5. QED
  BY <1>1, <1>2, <1>3, <1>4 DEF WireOK

LEMMA CallKinds ==
  ASSUME CallsOK, NEW p \in Caller
  PROVE  /\ call[p].op = "idle" => call[p] \in Outcome
         /\ call[p].op = "recv" /\ call[p].at = "dhcp" => call[p] \in DhcpWait
         /\ call[p].op = "recv" /\ call[p].at # "dhcp" => call[p] \in DnsWait
         /\ call[p].op = "recv" => call[p].at \in Ports
         /\ call[p].op \in {"idle", "recv"}
BY DEF CallsOK, Outcome, DhcpWait, DnsWait, Ports

(* A step that only sends leaves what the messages say true.               *)
LEMMA StillServed ==
  ASSUME NetDataOK, WireOK, UNCHANGED <<NetData, wire>>, sent \subseteq sent'
  PROVE  NetDataOK' /\ WireOK'
BY DEF NetDataOK, WireOK

(* A call goes on waiting where it waits.                                  *)
LEMMA WaitsOn ==
  ASSUME DhcpIInv, NEW p \in Caller, NEW c \in DhcpWait \cup DnsWait,
         call[p].op = "recv", call[p].at = c.at, call' = [call EXCEPT ![p] = c],
         UNCHANGED <<NetData, endpoint, wire>>, sent \subseteq sent'
  PROVE  DhcpIInv'
<1>1. c.op = "recv" /\ call \in [Caller -> Outcome \cup DhcpWait \cup DnsWait]
  BY DEF DhcpWait, DnsWait, DhcpIInv, CallsOK
<1>2. CallsOK'
  BY <1>1 DEF DhcpIInv, CallsOK
<1>3. \A q \in Caller, e \in Ports : At(q, e)' <=> At(q, e)
  BY <1>1 DEF At
<1>4. EndpointKept'
  BY <1>3 DEF DhcpIInv, EndpointKept
<1>5. QED
  BY <1>2, <1>4, StillServed DEF DhcpIInv

(* A call ends, and its endpoint is given up in one way or the other.      *)
LEMMA Ends ==
  ASSUME DhcpIInv, NEW p \in Caller, NEW e \in Ports, At(p, e), NEW r \in Outcome,
         NEW x \in {"free", "abandoned"},
         endpoint' = [endpoint EXCEPT ![e] = x], call' = [call EXCEPT ![p] = r],
         \/ r.name = "none"
         \/ r.value \in Longer[r.name] /\ \E ns \in Ports : Query(ns, r.value) \in sent,
         NetDataOK', WireOK', sent \subseteq sent'
  PROVE  DhcpIInv'
<1>1. /\ r.op = "idle" /\ call \in [Caller -> Outcome \cup DhcpWait \cup DnsWait]
      /\ endpoint \in [Ports -> Caller \cup {"free", "abandoned"}] /\ x \notin Caller
  BY DhcpAssumption DEF Outcome, DhcpIInv, CallsOK
<1>2. CallsOK'
  BY <1>1 DEF DhcpIInv, CallsOK
<1>3. \A q \in Caller, f \in Ports : At(q, f)' <=> q # p /\ At(q, f)
  BY <1>1 DEF At
<1>4. \A f \in Ports : At(p, f) => f = e
  BY DEF At
<1>5. EndpointKept'
  <2>. SUFFICES ASSUME NEW f \in Ports, NEW q \in Caller
                PROVE  At(q, f)' <=> endpoint'[f] = q
    BY DEF EndpointKept, At
  <2>1. At(q, f) <=> endpoint[f] = q
    BY DEF DhcpIInv, EndpointKept
  <2>2. endpoint'[f] = IF f = e THEN x ELSE endpoint[f]
    BY <1>1
  <2>3. QED
    BY <1>1, <1>3, <1>4, <2>1, <2>2 DEF DhcpIInv, EndpointKept
<1>6. QED
  BY <1>2, <1>5 DEF DhcpIInv

LEMMA DhcpInitOK == DhcpInit => DhcpIInv
<1>. SUFFICES ASSUME DhcpInit PROVE DhcpIInv
  OBVIOUS
<1>1. \A p \in Caller : call[p] \in Outcome /\ call[p].op = "idle" /\ call[p].name = "none"
  BY DEF DhcpInit, Failed, Result, Outcome
<1>2. CallsOK
  BY <1>1 DEF DhcpInit, CallsOK
<1>3. EndpointKept
  BY <1>1, DhcpAssumption DEF DhcpInit, EndpointKept, At
<1>4. QED
  BY <1>2, <1>3 DEF DhcpInit, DhcpIInv, NetDataOK, WireOK

LEMMA GetlocalipOK ==
  ASSUME DhcpIInv, NEW p \in Caller, NEW name \in Name \cup {"none"}, Getlocalip(p, name)
  PROVE  DhcpIInv'
<1>1. /\ call[p].op = "idle" /\ UNCHANGED <<NetData, wire>>
      /\ call \in [Caller -> Outcome \cup DhcpWait \cup DnsWait] /\ "dhcp" \in Ports
  BY DEF Getlocalip, DhcpIInv, CallsOK, Ports
<1>2. CASE call' = [call EXCEPT ![p] = Failed] /\ UNCHANGED <<endpoint, sent>>
  <2>1. Failed \in Outcome /\ Failed.op = "idle" /\ Failed.name = "none"
    BY DEF Failed, Result, Outcome
  <2>2. CallsOK'
    BY <1>1, <1>2, <2>1 DEF DhcpIInv, CallsOK
  <2>3. \A q \in Caller, e \in Ports : At(q, e)' <=> At(q, e)
    BY <1>1, <1>2, <2>1 DEF At
  <2>4. EndpointKept'
    BY <1>2, <2>3 DEF DhcpIInv, EndpointKept
  <2>5. QED
    BY <1>1, <1>2, <2>2, <2>4, StillServed DEF DhcpIInv
<1>3. CASE /\ endpoint["dhcp"] = "free" /\ endpoint' = [endpoint EXCEPT !["dhcp"] = p]
           /\ call' = [call EXCEPT ![p] = [op |-> "recv", at |-> "dhcp", i |-> 1, j |-> 1,
                                            snd |-> Discover, name |-> name]]
           /\ sent' = sent \cup {Discover}
  <2>. DEFINE c == [op |-> "recv", at |-> "dhcp", i |-> 1, j |-> 1, snd |-> Discover, name |-> name]
  <2>1. c \in DhcpWait /\ c.op = "recv" /\ c.at = "dhcp"
    BY DhcpAssumption DEF DhcpWait
  <2>2. CallsOK'
    BY <1>1, <1>3, <2>1 DEF DhcpIInv, CallsOK
  <2>3. \A q \in Caller, e \in Ports : At(q, e)' <=> At(q, e) \/ (q = p /\ e = "dhcp")
    BY <1>1, <1>3, <2>1 DEF At
  <2>4. /\ \A e \in Ports : endpoint'[e] = IF e = "dhcp" THEN p ELSE endpoint[e]
        /\ \A q \in Caller : ~At(q, "dhcp")
    BY <1>1, <1>3, DhcpAssumption DEF DhcpIInv, CallsOK, EndpointKept
  <2>5. EndpointKept'
    BY <2>3, <2>4 DEF DhcpIInv, EndpointKept
  <2>6. QED
    BY <1>1, <1>3, <2>2, <2>5, StillServed DEF DhcpIInv
<1>4. QED
  BY <1>2, <1>3 DEF Getlocalip

LEMMA WaitAgain ==
  ASSUME NEW c \in DhcpWait, c.i < DHCP_RETRY
  PROVE  /\ [c EXCEPT !.j = 1, !.i = @ + 1] \in DhcpWait
         /\ [c EXCEPT !.j = 1, !.i = @ + 1].at = "dhcp"
<1>1. DHCP_RETRY \in Nat /\ c.i \in 1..DHCP_RETRY
  BY DhcpAssumption DEF DhcpWait
<1>2. c.i + 1 \in 1..DHCP_RETRY /\ 1 \in 1..3
  BY <1>1
<1>3. QED
  BY <1>2 DEF DhcpWait

LEMMA FailedOK == Failed \in Outcome /\ Failed.name = "none"
BY DEF Failed, Result, Outcome

(* udp_recv at the DHCP endpoint returned nothing of use.                  *)
LEMMA NextTryOK ==
  ASSUME DhcpIInv, NEW p \in Caller, At(p, "dhcp"), NextTry(p, call[p]), UNCHANGED <<NetData, wire>>
  PROVE  DhcpIInv'
<1>1. call[p] \in DhcpWait /\ call[p].op = "recv" /\ call[p].at = "dhcp" /\ "dhcp" \in Ports
  BY CallKinds DEF DhcpIInv, At, Ports
<1>2. CASE /\ call[p].j < 3 /\ call' = [call EXCEPT ![p] = [call[p] EXCEPT !.j = @ + 1]]
           /\ UNCHANGED <<endpoint, sent>>
  <2>1. [call[p] EXCEPT !.j = @ + 1] \in DhcpWait /\ [call[p] EXCEPT !.j = @ + 1].at = "dhcp"
    BY <1>1, <1>2 DEF DhcpWait
  <2>2. QED
    BY <1>1, <1>2, <2>1, WaitsOn
<1>3. CASE /\ call[p].j = 3 /\ call[p].i < DHCP_RETRY
           /\ call' = [call EXCEPT ![p] = [call[p] EXCEPT !.j = 1, !.i = @ + 1]]
           /\ sent' = sent \cup {call[p].snd} /\ UNCHANGED endpoint
  <2>1. /\ [call[p] EXCEPT !.j = 1, !.i = @ + 1] \in DhcpWait
        /\ [call[p] EXCEPT !.j = 1, !.i = @ + 1].at = "dhcp"
    BY <1>1, <1>3, WaitAgain, DhcpAssumption DEF DhcpWait
  <2>2. QED
    BY <1>1, <1>3, <2>1, WaitsOn
<1>4. CASE Finish(p, "dhcp", Failed) /\ UNCHANGED sent
  <2>1. NetDataOK' /\ WireOK'
    BY <1>4, StillServed DEF DhcpIInv
  <2>2. /\ endpoint' = [endpoint EXCEPT !["dhcp"] = "free"] /\ call' = [call EXCEPT ![p] = Failed]
        /\ sent \subseteq sent' /\ "free" \in {"free", "abandoned"}
    BY <1>4 DEF Finish
  <2>3. QED
    BY <1>1, <2>1, <2>2, Ends, FailedOK
<1>5. QED
  BY <1>2, <1>3, <1>4 DEF NextTry

LEMMA OffersOK ==
  ASSUME DhcpIInv, NEW p \in Caller, At(p, "dhcp"), NEW m \in wire, DhcpOffered(p, m),
         UNCHANGED wire
  PROVE  DhcpIInv'
<1>. DEFINE c == [call[p] EXCEPT !.snd = Request(m.of)]
<1>1. /\ call[p] \in DhcpWait /\ call[p].op = "recv" /\ call[p].at = "dhcp" /\ "dhcp" \in Ports
      /\ m.of \in Address /\ UNCHANGED <<NetData, wire>>
  BY CallKinds, WireKinds DEF DhcpIInv, At, Ports, DhcpOffered
<1>2. Request(m.of) \in {Discover} \cup {Request(a) : a \in Address}
  BY <1>1
<1>3. c \in DhcpWait /\ c.at = "dhcp" /\ c.i = call[p].i /\ c.j = call[p].j
  BY <1>1, <1>2 DEF DhcpWait
<1>4. CASE Abandon(p, "dhcp") /\ UNCHANGED sent
  <2>1. NetDataOK' /\ WireOK'
    BY <1>1, <1>4, StillServed DEF DhcpIInv
  <2>2. QED
    BY <1>1, <1>4, <2>1, Ends, FailedOK DEF Abandon
<1>5. CASE /\ c.j < 3 \/ c.i < DHCP_RETRY
           /\ sent' = sent \cup {Request(m.of)}
           /\ call' = [call EXCEPT ![p] =
                IF c.j < 3 THEN [c EXCEPT !.j = @ + 1] ELSE [c EXCEPT !.j = 1, !.i = @ + 1]]
           /\ UNCHANGED endpoint
  <2>1. CASE c.j < 3
    <3>1. c.j + 1 \in 1..3
      BY <1>3, <2>1 DEF DhcpWait
    <3>2. [c EXCEPT !.j = @ + 1] \in DhcpWait /\ [c EXCEPT !.j = @ + 1].at = "dhcp"
      BY <1>3, <3>1 DEF DhcpWait
    <3>3. call' = [call EXCEPT ![p] = [c EXCEPT !.j = @ + 1]]
      BY <1>5, <2>1
    <3>4. QED
      BY <1>1, <1>5, <3>2, <3>3, WaitsOn
  <2>2. CASE ~(c.j < 3)
    <3>1. /\ [c EXCEPT !.j = 1, !.i = @ + 1] \in DhcpWait
          /\ [c EXCEPT !.j = 1, !.i = @ + 1].at = "dhcp"
      BY <1>3, <1>5, <2>2, WaitAgain
    <3>2. call' = [call EXCEPT ![p] = [c EXCEPT !.j = 1, !.i = @ + 1]]
      BY <1>5, <2>2
    <3>3. QED
      BY <1>1, <1>5, <3>1, <3>2, WaitsOn
  <2>3. QED
    BY <2>1, <2>2
<1>6. CASE sent' = sent \cup {Request(m.of)} /\ Finish(p, "dhcp", Failed)
  <2>1. NetDataOK' /\ WireOK'
    BY <1>1, <1>6, StillServed DEF DhcpIInv
  <2>2. sent \subseteq sent'
    BY <1>6
  <2>3. QED
    BY <1>1, <1>6, <2>1, <2>2, Ends, FailedOK DEF Finish
<1>7. QED
  BY <1>4, <1>5, <1>6 DEF DhcpOffered

(* getlocalip has an address; dnslookup goes on to its query.              *)
LEMMA LookupOK ==
  ASSUME DhcpIInv, NEW p \in Caller, At(p, "dhcp"), NEW ns \in (Ports \ {"dhcp"}) \cup {"zero"},
         Lookup(p, call[p].name, ns), call[p].name # "none", NetDataOK', WireOK'
  PROVE  DhcpIInv'
<1>1. /\ call[p] \in DhcpWait /\ call[p].op = "recv" /\ call[p].at = "dhcp" /\ "dhcp" \in Ports
      /\ call \in [Caller -> Outcome \cup DhcpWait \cup DnsWait]
      /\ endpoint \in [Ports -> Caller \cup {"free", "abandoned"}]
  BY CallKinds DEF DhcpIInv, CallsOK, At, Ports
<1>2. CASE Finish(p, "dhcp", Failed) /\ UNCHANGED sent
  BY <1>1, <1>2, Ends, FailedOK DEF Finish
<1>3. CASE /\ ns # "zero" /\ endpoint[ns] = "free"
           /\ endpoint' = [endpoint EXCEPT !["dhcp"] = "free", ![ns] = p]
           /\ sent' = sent \cup {Query(ns, call[p].name)}
           /\ call' = [call EXCEPT ![p] = [op |-> "recv", at |-> ns, i |-> 1, name |-> call[p].name]]
  <2>. DEFINE c == [op |-> "recv", at |-> ns, i |-> 1, name |-> call[p].name]
  <2>1. ns \in Ports \ {"dhcp"} /\ call[p].name \in Name
    BY <1>1, <1>3 DEF DhcpWait
  <2>2. c \in DnsWait /\ c.op = "recv" /\ c.at = ns
    BY <2>1, DhcpAssumption DEF DnsWait
  <2>3. /\ \A e \in Ports : endpoint'[e] = IF e = ns THEN p ELSE IF e = "dhcp" THEN "free" ELSE endpoint[e]
        /\ endpoint' \in [Ports -> Caller \cup {"free", "abandoned"}]
    BY <1>1, <1>3, <2>1
  <2>4. CallsOK'
    BY <1>1, <1>3, <2>2, <2>3 DEF DhcpIInv, CallsOK
  <2>5. EndpointKept'
    <3>. SUFFICES ASSUME NEW e \in Ports, NEW q \in Caller
                  PROVE  At(q, e)' <=> endpoint'[e] = q
      BY DEF EndpointKept, At
    <3>1. /\ At(q, e) <=> endpoint[e] = q
          /\ q \notin {"free", "abandoned"} /\ p \notin {"free", "abandoned"}
      BY DhcpAssumption DEF DhcpIInv, EndpointKept
    <3>2. At(q, e)' <=> IF q = p THEN e = ns ELSE At(q, e)
      BY <1>1, <1>3, <2>2 DEF At
    <3>3. q # p /\ endpoint[e] = q => e # ns /\ e # "dhcp"
      BY <1>1, <1>3, <3>1 DEF DhcpIInv, EndpointKept
    <3>4. At(p, e) => e = "dhcp"
      BY <1>1 DEF At
    <3>5. QED
      BY <1>1, <2>1, <2>3, <3>1, <3>2, <3>3, <3>4 DEF DhcpIInv, EndpointKept
  <2>6. QED
    BY <2>4, <2>5 DEF DhcpIInv
<1>4. QED
  BY <1>2, <1>3 DEF Lookup

LEMMA GrantsOK ==
  ASSUME DhcpIInv, NEW p \in Caller, At(p, "dhcp"), NEW m \in wire, DhcpGranted(p, m),
         UNCHANGED wire
  PROVE  DhcpIInv'
<1>. DEFINE ns == IF NameServer[m.of] = "zero" THEN NetData.dnsserver ELSE NameServer[m.of]
<1>1. /\ m.of \in Address /\ m = Granted(m.of) /\ Request(m.of) \in sent
      /\ NetData' = [ipucast |-> m.of, dnsserver |-> ns]
      /\ "dhcp" \in Ports
  BY WireKinds DEF DhcpGranted, DhcpIInv, Ports
<1>2. ns \in (Ports \ {"dhcp"}) \cup {"zero"}
  BY <1>1, PortsOK DEF DhcpIInv, NetDataOK
<1>3. sent \subseteq sent'
  BY DEF DhcpGranted, Lookup
<1>4. NetDataOK'
  BY <1>1, <1>2, <1>3 DEF NetDataOK
<1>5. WireOK'
  BY <1>3 DEF DhcpIInv, WireOK
<1>6. CASE call[p].name = "none" /\ Finish(p, "dhcp", Result("none", m.of)) /\ UNCHANGED sent
  <2>1. Result("none", m.of) \in Outcome /\ Result("none", m.of).name = "none"
    BY <1>1 DEF Result, Outcome
  <2>2. QED
    BY <1>1, <1>3, <1>4, <1>5, <1>6, <2>1, Ends DEF Finish
<1>7. CASE call[p].name # "none" /\ Lookup(p, call[p].name, ns)
  BY <1>2, <1>4, <1>5, <1>7, LookupOK
<1>8. QED
  BY <1>6, <1>7 DEF DhcpGranted

(* dnslookup received nothing of use, and asks again or gives up.          *)
LEMMA DnsAgainOK ==
  ASSUME DhcpIInv, NEW p \in Caller, call[p].op = "recv", call[p].at # "dhcp", DnsAgain(p),
         UNCHANGED <<NetData, wire>>
  PROVE  DhcpIInv'
<1>1. /\ call[p] \in DnsWait /\ call[p].at \in Ports /\ At(p, call[p].at)
  BY CallKinds DEF DhcpIInv, At
<1>2. CASE /\ call[p].i < DNSRETRY /\ call' = [call EXCEPT ![p].i = @ + 1]
           /\ sent' = sent \cup {Query(call[p].at, call[p].name)} /\ UNCHANGED endpoint
  <2>1. call[p].i + 1 \in 1..DNSRETRY
    BY <1>1, <1>2, DhcpAssumption DEF DnsWait
  <2>2. /\ [call[p] EXCEPT !.i = @ + 1] \in DnsWait
        /\ [call[p] EXCEPT !.i = @ + 1].at = call[p].at
    BY <1>1, <2>1 DEF DnsWait
  <2>3. call' = [call EXCEPT ![p] = [call[p] EXCEPT !.i = @ + 1]]
    BY <1>2
  <2>4. QED
    BY <1>1, <1>2, <2>2, <2>3, WaitsOn
<1>3. CASE Finish(p, call[p].at, Failed) /\ UNCHANGED sent
  <2>1. NetDataOK' /\ WireOK'
    BY <1>3, StillServed DEF DhcpIInv
  <2>2. QED
    BY <1>1, <1>3, <2>1, Ends, FailedOK DEF Finish
<1>4. QED
  BY <1>2, <1>3 DEF DnsAgain

LEMMA DnsReceivesOK ==
  ASSUME DhcpIInv, NEW p \in Caller, NEW m \in wire, call[p].op = "recv", DnsReceives(p, m)
  PROVE  DhcpIInv'
<1>1. /\ m.op = call[p].at /\ call[p].at \in Ports /\ call[p].at # "dhcp" /\ At(p, call[p].at)
      /\ m.of \in Name /\ Query(m.op, m.of) \in sent /\ UNCHANGED <<NetData, wire>>
  BY CallKinds, WireKinds DEF DnsReceives, DhcpIInv, At
<1>2. CASE /\ m.of \in Longer[call[p].name] /\ UNCHANGED sent
           /\ Finish(p, call[p].at, Result(call[p].name, m.of))
  <2>1. call[p].name \in Name
    BY <1>1, CallKinds DEF At, DnsWait, DhcpIInv
  <2>2. /\ Result(call[p].name, m.of) \in Outcome
        /\ Result(call[p].name, m.of).name = call[p].name
        /\ Result(call[p].name, m.of).value = m.of
    BY <1>1, <2>1 DEF Result, Outcome
  <2>3. NetDataOK' /\ WireOK'
    BY <1>1, <1>2, StillServed DEF DhcpIInv
  <2>4. QED
    BY <1>1, <1>2, <2>2, <2>3, Ends DEF Finish
<1>3. QED
  BY <1>1, <1>2, DnsAgainOK DEF DnsReceives, DnsGeta

LEMMA InterruptedOK ==
  ASSUME DhcpIInv, NEW p \in Caller, Interrupted(p)
  PROVE  DhcpIInv'
<1>1. call[p].at \in Ports /\ At(p, call[p].at) /\ UNCHANGED <<NetData, wire, sent>>
  BY CallKinds DEF Interrupted, DhcpIInv, At
<1>2. NetDataOK' /\ WireOK'
  BY <1>1, StillServed DEF DhcpIInv
<1>3. QED
  BY <1>1, <1>2, Ends, FailedOK DEF Interrupted, Abandon

LEMMA ServersOK == DhcpIInv /\ (DhcpServer \/ DnsServer) => DhcpIInv'
<1>. SUFFICES ASSUME DhcpIInv, DhcpServer \/ DnsServer PROVE DhcpIInv'
  OBVIOUS
<1>1. PICK m : /\ Serves(m)
               /\ \/ m \in Offers \cup {Refused}
                  \/ \E a \in Address : m = Granted(a) /\ Request(a) \in sent
                  \/ \E ns \in Ports \ {"dhcp"}, n \in Name : m = Answer(ns, n) /\ Query(ns, n) \in sent
  BY DEF DhcpServer, DnsServer
<1>2. wire' = wire \cup {m} /\ UNCHANGED <<NetData, endpoint, call, sent>>
  BY <1>1 DEF Serves
<1>3. WireOK'
  BY <1>1, <1>2 DEF DhcpIInv, WireOK
<1>4. CallsOK' /\ NetDataOK' /\ EndpointKept'
  BY <1>2 DEF DhcpIInv, CallsOK, NetDataOK, EndpointKept, At
<1>5. QED
  BY <1>3, <1>4 DEF DhcpIInv

LEMMA DhcpStep == DhcpIInv /\ [DhcpNext]_dvars => DhcpIInv'
<1>. SUFFICES ASSUME DhcpIInv, [DhcpNext]_dvars PROVE DhcpIInv'
  OBVIOUS
<1>1. ASSUME NEW p \in Caller, At(p, "dhcp"), NEW m \in wire, DhcpReceives(p, m)
      PROVE  DhcpIInv'
  BY <1>1, OffersOK, GrantsOK, NextTryOK DEF DhcpReceives
<1>2. ASSUME NEW p \in Caller, DhcpTimeout(p) \/ DnsTimeout(p)
      PROVE  DhcpIInv'
  BY <1>2, NextTryOK, DnsAgainOK DEF DhcpTimeout, DnsTimeout
<1>3. CASE UNCHANGED dvars
  BY <1>3 DEF dvars, DhcpIInv, CallsOK, NetDataOK, WireOK, EndpointKept, At
<1>4. QED
  BY <1>1, <1>2, <1>3, GetlocalipOK, DnsReceivesOK, InterruptedOK, ServersOK DEF DhcpNext

(* Whatever is lost, repeated, late or refused, an endpoint belongs to the *)
(* one call that waits there or was abandoned, the address in use was      *)
(* granted to a request of this machine, and dnslookup returns the address *)
(* of a name that was asked (net/dhcp.c, net/dns.c).                       *)
THEOREM DhcpServesClients == DhcpSpec => []ClientsServed
<1>1. DhcpIInv => ClientsServed
  BY DEF DhcpIInv, CallsOK, NetDataOK, ClientsServed, AnswersAsked
<1>2. QED
  BY <1>1, DhcpInitOK, DhcpStep, PTL DEF DhcpSpec
=============================================================================
