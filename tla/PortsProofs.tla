----------------------------- MODULE PortsProofs -----------------------------
(***************************************************************************)
(* Proofs about message ports: the inductive invariant, the three safety   *)
(* properties of module Ports, and that a table of ports is a table of     *)
(* channels.                                                               *)
(***************************************************************************)
EXTENDS Ports, SemTableProofs

Ops == {"ptsend", "ptrecv"}

SemOf(c, o) == IF o = "ptsend" THEN porttab[c].ssem ELSE porttab[c].rsem

PortEntry ==
  [state : {"PT_FREE", "PT_ALLOC", "PT_LIMBO"}, ssem : Sems \cup {SYSERR},
   rsem : Sems \cup {SYSERR}, maxcnt : Nat, seq : Nat, msgs : Seq(Message)]

Call ==
  [op : {"idle"} \cup Ops \cup Clearing, port : PortIds, seq : Nat,
   msg : Message \cup {NoMessage}, new : {"PT_ALLOC", "PT_FREE"}, live : BOOLEAN]

PortsTypeOK ==
  /\ porttab \in [PortIds -> PortEntry]
  /\ ptfree \in Nat /\ ptnextid \in PortIds /\ panicked \in BOOLEAN
  /\ pc \in [Proc -> Call]
  /\ \A p \in Proc : pc[p].op = "ptsend" => pc[p].msg \in Message
  /\ SemOK(semtab, Proc)

(* A port whose clearing is not over has one process that clears it.       *)
ClearOK ==
  /\ \A p \in Proc : pc[p].op \in Clearing => porttab[pc[p].port].state = "PT_LIMBO"
  /\ \A p, q \in Proc : pc[p].op \in Clearing /\ pc[q].op \in Clearing /\ p # q
                          => pc[p].port # pc[q].port
  /\ \A p \in Proc : pc[p].op \notin Clearing => pc[p].live

(* A call knows the life of its port; a port that is not allocated has     *)
(* begun its next one.                                                     *)
SeqOK ==
  \A p \in Proc : pc[p].op \in Ops =>
    /\ pc[p].seq <= porttab[pc[p].port].seq
    /\ ~Allocated(pc[p].port) => pc[p].seq < porttab[pc[p].port].seq
    /\ SamePort(p) => SemOf(pc[p].port, pc[p].op) # SYSERR

(* The clearing of c has the semaphore of o still, or again.               *)
KeepsSem(p, c, o) ==
  /\ pc[p].op \in Clearing /\ pc[p].port = c
  /\ \/ pc[p].op = "dispose"
     \/ pc[p].new = "PT_ALLOC"
     \/ pc[p].op = "receivers" /\ o = "ptrecv"

Holds(c, o) == Allocated(c) \/ \E p \in Proc : KeepsSem(p, c, o)

(* No two ports have the same semaphore, nor has a port one that is free.  *)
OwnOK ==
  /\ \A c \in PortIds, o \in Ops :
       Holds(c, o) /\ SemOf(c, o) # SYSERR => semtab[SemOf(c, o)].state = "S_USED"
  /\ \A c, d \in PortIds, o, x \in Ops :
       Holds(c, o) /\ Holds(d, x) /\ SemOf(c, o) = SemOf(d, x) /\ SemOf(c, o) # SYSERR
         => c = d /\ o = x

WaitsFor(p, s) ==
  /\ pc[p].op \in Ops /\ s = SemOf(pc[p].port, pc[p].op) /\ Holds(pc[p].port, pc[p].op)
  /\ SamePort(p) \/ porttab[pc[p].port].state = "PT_LIMBO"

WaitOK == \A p \in Proc, s \in Sems : p \in ToSet(semtab[s].queue) => WaitsFor(p, s)

(* What a reset has done so far.                                           *)
ResetOK(p) ==
  LET t == porttab[pc[p].port] IN
  /\ t.msgs = <<>>
  /\ t.ssem # SYSERR => semtab[t.ssem].count = t.maxcnt
  /\ pc[p].op = "finish" /\ t.rsem # SYSERR => semtab[t.rsem].count = 0

EmptyOK ==
  \A p \in Proc : pc[p].op \in {"receivers", "finish"} /\ pc[p].new = "PT_ALLOC" => ResetOK(p)

PortsInv == PortsTypeOK /\ ClearOK /\ SeqOK /\ OwnOK /\ WaitOK /\ EmptyOK
-----------------------------------------------------------------------------
LEMMA PortsInitOK == PortsInit /\ SemInit => PortsInv
<1>. SUFFICES ASSUME PortsInit, SemInit PROVE PortsInv
  OBVIOUS
<1>. USE PortAssumption
<1>1. SemOK(semtab, Proc)
  BY SemInitOK
<1>2. \A s \in Sems : ToSet(semtab[s].queue) = {}
  BY NoneWaits DEF SemInit, FreeEntry
<1>3. 0 \in PortIds
  BY DEF PortIds
<1>4. Idle \in Call
  BY <1>3 DEF Idle, Call
<1>5. pc \in [Proc -> Call] /\ \A p \in Proc : pc[p].op = "idle" /\ pc[p].live
  BY <1>4 DEF PortsInit, Idle
<1>6. porttab \in [PortIds -> PortEntry] /\ \A c \in PortIds : ~Allocated(c)
  BY DEF PortsInit, PortEntry, Allocated
<1>7. PortsTypeOK
  BY <1>1, <1>3, <1>5, <1>6 DEF PortsTypeOK, PortsInit
<1>8. \A p \in Proc : pc[p].op \notin Clearing /\ pc[p].op \notin Ops
  BY <1>5 DEF Clearing, Ops
<1>9. ClearOK /\ SeqOK
  BY <1>5, <1>8 DEF ClearOK, SeqOK
<1>10. OwnOK /\ WaitOK
  BY <1>2, <1>6, <1>8 DEF OwnOK, WaitOK, Holds, KeepsSem
<1>11. EmptyOK
  BY <1>5 DEF EmptyOK
<1>12. QED
  BY <1>7, <1>9, <1>10, <1>11 DEF PortsInv
-----------------------------------------------------------------------------
(* What a send, a receive or a kill leaves as it is.                       *)
PortsKept ==
  \A c \in PortIds :
    /\ porttab'[c].state = porttab[c].state /\ porttab'[c].seq = porttab[c].seq
    /\ porttab'[c].ssem = porttab[c].ssem /\ porttab'[c].rsem = porttab[c].rsem
    /\ porttab'[c].maxcnt = porttab[c].maxcnt
    /\ ~Allocated(c) => porttab'[c].msgs = porttab[c].msgs

(* Process q has begun to wait.                                            *)
Enters(q) ==
  LET k == pc'[q] IN
  /\ k.op \in Ops /\ Allocated(k.port) /\ k.seq = porttab[k.port].seq
  /\ SemOf(k.port, k.op) # SYSERR

CallsKept ==
  \A q \in Proc :
    /\ pc'[q].op \in Clearing <=> pc[q].op \in Clearing
    /\ pc[q].op \in Clearing =>
         pc'[q].op = pc[q].op /\ pc'[q].port = pc[q].port /\ pc'[q].new = pc[q].new
    /\ pc'[q].op \notin Clearing => pc'[q].live
    /\ pc'[q].op \in Ops => pc'[q] = pc[q] \/ Enters(q)

SemKept(s) ==
  /\ semtab'[s].state = semtab[s].state
  /\ \A q \in ToSet(semtab'[s].queue) :
       \/ q \in ToSet(semtab[s].queue) /\ pc'[q] = pc[q]
       \/ Enters(q) /\ s = SemOf(pc'[q].port, pc'[q].op)
  /\ semtab'[s].count # semtab[s].count =>
       \/ semtab[s].count < 0
       \/ \E c \in PortIds, o \in Ops : Allocated(c) /\ s = SemOf(c, o)

LEMMA CallStep ==
  ASSUME PortsInv, PortsTypeOK', PortsKept, CallsKept, \A s \in Sems : SemKept(s)
  PROVE  PortsInv'
<1>. USE DEF PortsInv
<1>1. /\ porttab \in [PortIds -> PortEntry] /\ porttab' \in [PortIds -> PortEntry]
      /\ pc \in [Proc -> Call] /\ pc' \in [Proc -> Call]
  BY DEF PortsTypeOK
<1>2. /\ \A p \in Proc : pc[p].port \in PortIds /\ pc[p].seq \in Nat
      /\ \A p \in Proc : pc'[p].port \in PortIds /\ pc'[p].seq \in Nat
      /\ \A c \in PortIds : porttab[c].seq \in Nat /\ porttab[c].maxcnt \in Nat
  BY <1>1 DEF Call, PortEntry
<1>3. \A c \in PortIds : /\ Allocated(c)' <=> Allocated(c)
                         /\ \A o \in Ops : SemOf(c, o)' = SemOf(c, o)
  BY DEF PortsKept, Allocated, SemOf
<1>4. \A c \in PortIds, o \in Ops, p \in Proc : KeepsSem(p, c, o)' <=> KeepsSem(p, c, o)
  BY DEF CallsKept, KeepsSem
<1>5. \A c \in PortIds, o \in Ops : Holds(c, o)' <=> Holds(c, o)
  BY <1>3, <1>4 DEF Holds
<1>6. ClearOK'
  BY <1>2 DEF ClearOK, CallsKept, PortsKept
<1>7. SeqOK'
  <2>. SUFFICES ASSUME NEW p \in Proc, pc'[p].op \in Ops
       PROVE  /\ pc'[p].seq <= porttab'[pc'[p].port].seq
              /\ ~Allocated(pc[p].port)' => pc'[p].seq < porttab'[pc'[p].port].seq
              /\ SamePort(p)' => SemOf(pc[p].port, pc[p].op)' # SYSERR
    BY DEF SeqOK
  <2>1. CASE pc'[p] = pc[p]
    BY <1>2, <1>3, <2>1 DEF SeqOK, SamePort, PortsKept
  <2>2. CASE Enters(p)
    BY <1>2, <1>3, <2>2 DEF Enters, PortsKept
  <2>3. QED
    BY <2>1, <2>2 DEF CallsKept
<1>8. OwnOK'
  <2>1. \A c \in PortIds, o \in Ops : SemOf(c, o) # SYSERR => SemOf(c, o) \in Sems
    BY <1>1 DEF SemOf, PortEntry
  <2>2. \A s \in Sems : semtab'[s].state = semtab[s].state
    BY DEF SemKept
  <2>3. QED
    BY <1>3, <1>5, <2>1, <2>2 DEF OwnOK
<1>9. WaitOK'
  <2>. SUFFICES ASSUME NEW p \in Proc, NEW s \in Sems, p \in ToSet(semtab'[s].queue)
       PROVE  WaitsFor(p, s)'
    BY DEF WaitOK
  <2>1. CASE p \in ToSet(semtab[s].queue) /\ pc'[p] = pc[p]
    <3>1. WaitsFor(p, s)
      BY <2>1 DEF WaitOK
    <3>2. SamePort(p) <=> SamePort(p)'
      BY <1>2, <1>3, <2>1 DEF SamePort, PortsKept
    <3>3. QED
      BY <1>2, <1>3, <1>5, <2>1, <3>1, <3>2 DEF WaitsFor, PortsKept
  <2>2. CASE Enters(p) /\ s = SemOf(pc'[p].port, pc'[p].op)
    <3>1. SamePort(p)'
      BY <1>2, <1>3, <2>2 DEF Enters, SamePort, PortsKept
    <3>2. Holds(pc[p].port, pc[p].op)'
      BY <1>2, <1>3, <2>2 DEF Enters, Holds
    <3>3. QED
      BY <1>2, <1>3, <2>2, <3>1, <3>2 DEF WaitsFor, Enters
  <2>3. QED
    BY <2>1, <2>2 DEF SemKept
<1>10. EmptyOK'
  <2>. SUFFICES ASSUME NEW p \in Proc, pc'[p].op \in {"receivers", "finish"},
                       pc'[p].new = "PT_ALLOC"
       PROVE  ResetOK(p)'
    BY DEF EmptyOK
  <2>. DEFINE c == pc[p].port
              t == porttab[c]
  <2>1. /\ pc'[p].op = pc[p].op /\ pc'[p].port = c /\ pc'[p].new = pc[p].new
        /\ pc[p].op \in Clearing
    BY DEF CallsKept, Clearing
  <2>2. c \in PortIds /\ ResetOK(p) /\ t.state = "PT_LIMBO" /\ ~Allocated(c)
    BY <1>2, <2>1 DEF EmptyOK, ClearOK, Allocated
  <2>3. KeepsSem(p, c, "ptsend") /\ KeepsSem(p, c, "ptrecv")
    BY <2>1 DEF KeepsSem
  <2>4. \A o \in Ops : Holds(c, o)
    BY <2>3 DEF Holds, Ops
  <2>5. ASSUME NEW o \in Ops, SemOf(c, o) # SYSERR, semtab[SemOf(c, o)].count >= 0
        PROVE  semtab'[SemOf(c, o)].count = semtab[SemOf(c, o)].count
    <3>1. SemOf(c, o) \in Sems
      BY <1>1, <2>2, <2>5 DEF SemOf, PortEntry
    <3>2. ~ \E d \in PortIds, x \in Ops : Allocated(d) /\ SemOf(c, o) = SemOf(d, x)
      BY <2>2, <2>4, <2>5 DEF OwnOK, Holds
    <3>3. semtab[SemOf(c, o)].count \in Int
      BY <3>1 DEF PortsTypeOK, SemOK, SemEntry
    <3>4. QED
      BY <2>5, <3>1, <3>2, <3>3 DEF SemKept
  <2>6. /\ porttab'[c].msgs = t.msgs /\ porttab'[c].ssem = t.ssem /\ porttab'[c].rsem = t.rsem
        /\ porttab'[c].maxcnt = t.maxcnt
    BY <2>2 DEF PortsKept
  <2>7. t.ssem # SYSERR => semtab'[t.ssem].count = t.maxcnt
    BY <1>2, <2>2, <2>5, SMTT(60) DEF ResetOK, SemOf, Ops
  <2>8. pc[p].op = "finish" /\ t.rsem # SYSERR => semtab'[t.rsem].count = 0
    BY <2>2, <2>5, SMTT(60) DEF ResetOK, SemOf, Ops
  <2>9. QED
    BY <2>1, <2>2, <2>6, <2>7, <2>8 DEF ResetOK
<1>11. QED
  BY <1>6, <1>7, <1>8, <1>9, <1>10
-----------------------------------------------------------------------------
(* What wait leaves to a call of o that it lets pass.                      *)
TabFrom(tab, c, o) ==
  \/ tab = semtab
  \/ /\ SemOf(c, o) # SYSERR /\ semtab[SemOf(c, o)].count > 0
     /\ tab = Waited(semtab, SemOf(c, o))

(* A call of o on port c goes on to its end, which signals x.              *)
Moves(c, o, x) ==
  \/ semtab' = semtab
  \/ Allocated(c) /\ \E tab : TabFrom(tab, c, o) /\ semtab' \in {tab, Signalled(tab, SemOf(c, x))}

CallDone(p) ==
  pc' = pc \/ (pc[p].op \in Ops /\ ~Waiting(p) /\ pc' = [pc EXCEPT ![p] = Idle])

SameQueues(tab, new) ==
  \A s \in Sems : new[s].state = tab[s].state /\ new[s].queue = tab[s].queue

FewerWait(tab, new) ==
  \A s \in Sems : new[s].state = tab[s].state /\ ToSet(new[s].queue) \subseteq ToSet(tab[s].queue)

LEMMA SemOfType ==
  ASSUME PortsInv, NEW c \in PortIds, NEW o \in Ops, SemOf(c, o) # SYSERR
  PROVE  SemOf(c, o) \in Sems
BY DEF PortsInv, PortsTypeOK, SemOf, PortEntry

LEMMA TabFromOK ==
  ASSUME PortsInv, NEW c \in PortIds, NEW o \in Ops, NEW tab, TabFrom(tab, c, o)
  PROVE  /\ SemOK(tab, Proc) /\ SameQueues(semtab, tab)
         /\ \A s \in Sems : s # SemOf(c, o) => tab[s] = semtab[s]
         /\ tab # semtab => SemOf(c, o) \in Sems /\ semtab[SemOf(c, o)].count > 0
                            /\ tab[SemOf(c, o)].count = semtab[SemOf(c, o)].count - 1
<1>1. SemOK(semtab, Proc)
  BY DEF PortsInv, PortsTypeOK
<1>2. CASE tab = semtab
  BY <1>1, <1>2 DEF SameQueues
<1>3. CASE tab # semtab
  <2>. DEFINE s == SemOf(c, o)
  <2>1. s \in Sems /\ semtab[s].count > 0 /\ tab = Waited(semtab, s)
    BY <1>3, SemOfType DEF TabFrom
  <2>. HIDE DEF s
  <2>2. /\ SemOK(tab, Proc) /\ OtherSems(semtab, tab, s) /\ tab[s].count = semtab[s].count - 1
        /\ tab[s].state = semtab[s].state /\ tab[s].queue = semtab[s].queue
    BY <1>1, <2>1, WaitedOK
  <2>3. SameQueues(semtab, tab)
    BY <2>2 DEF SameQueues, OtherSems
  <2>4. QED
    BY <2>1, <2>2, <2>3 DEF OtherSems, s
<1>4. QED
  BY <1>2, <1>3

LEMMA SignalOK ==
  ASSUME PortsInv, NEW c \in PortIds, Allocated(c), NEW x \in Ops, NEW tab, SemOK(tab, Proc),
         SameQueues(semtab, tab), NEW new, new = Signalled(tab, SemOf(c, x))
  PROVE  /\ SemOK(new, Proc) /\ FewerWait(semtab, new)
         /\ \A s \in Sems : s # SemOf(c, x) => new[s] = tab[s]
<1>. DEFINE s == SemOf(c, x)
<1>1. CASE s = SYSERR
  <2>1. new = tab
    BY <1>1 DEF Signalled
  <2>2. QED
    BY <2>1 DEF SameQueues, FewerWait
<1>2. CASE s # SYSERR
  <2>1. s \in Sems /\ Holds(c, x)
    BY <1>2, SemOfType DEF Holds
  <2>2. tab[s].state = "S_USED"
    BY <1>2, <2>1 DEF PortsInv, OwnOK, SameQueues
  <2>. HIDE DEF s
  <2>3. /\ SemOK(new, Proc) /\ OtherSems(tab, new, s) /\ new[s].state = tab[s].state
        /\ tab[s].count >= 0 => new[s].queue = tab[s].queue
        /\ tab[s].count < 0 => \E p \in ToSet(tab[s].queue) :
                                 ToSet(new[s].queue) = ToSet(tab[s].queue) \ {p}
    BY <1>2, <2>1, <2>2, SignalledOK DEF s
  <2>4. tab[s].count \in Int
    BY <2>1 DEF SemOK, SemEntry
  <2>5. ToSet(new[s].queue) \subseteq ToSet(tab[s].queue)
    BY <2>3, <2>4
  <2>6. FewerWait(semtab, new)
    BY <2>3, <2>5 DEF FewerWait, SameQueues, OtherSems
  <2>7. QED
    BY <2>3, <2>6 DEF OtherSems, s
<1>3. QED
  BY <1>1, <1>2

LEMMA MovesOK ==
  ASSUME PortsInv, NEW c \in PortIds, NEW o \in Ops, NEW x \in Ops, Moves(c, o, x)
  PROVE  /\ SemOK(semtab', Proc) /\ FewerWait(semtab, semtab')
         /\ \A s \in Sems : semtab'[s] # semtab[s] =>
              Allocated(c) /\ (s = SemOf(c, o) \/ s = SemOf(c, x))
<1>1. CASE semtab' = semtab
  BY <1>1 DEF PortsInv, PortsTypeOK, FewerWait
<1>2. CASE semtab' # semtab
  <2>1. Allocated(c)
    BY <1>2 DEF Moves
  <2>2. PICK tab : TabFrom(tab, c, o) /\ semtab' \in {tab, Signalled(tab, SemOf(c, x))}
    BY <1>2 DEF Moves
  <2>3. /\ SemOK(tab, Proc) /\ SameQueues(semtab, tab)
        /\ \A s \in Sems : s # SemOf(c, o) => tab[s] = semtab[s]
    BY <2>2, TabFromOK
  <2>4. FewerWait(semtab, tab)
    BY <2>3 DEF SameQueues, FewerWait
  <2>5. CASE semtab' = tab
    BY <2>1, <2>3, <2>4, <2>5
  <2>6. CASE semtab' = Signalled(tab, SemOf(c, x))
    <3>1. /\ SemOK(semtab', Proc) /\ FewerWait(semtab, semtab')
          /\ \A s \in Sems : s # SemOf(c, x) => semtab'[s] = tab[s]
      BY <2>1, <2>3, <2>6, SignalOK
    <3>2. QED
      BY <2>1, <2>3, <3>1
  <2>7. QED
    BY <2>2, <2>5, <2>6
<1>3. QED
  BY <1>1, <1>2

LEMMA IdleIs == Idle \in Call /\ Idle.op = "idle" /\ Idle.live
<1>1. 0 \in PortIds
  BY PortAssumption DEF PortIds
<1>2. QED
  BY <1>1 DEF Idle, Call

LEMMA MoveStep ==
  ASSUME PortsInv, NEW p \in Proc, NEW c \in PortIds, NEW o \in Ops, NEW x \in Ops,
         Moves(c, o, x), CallDone(p), PortsKept, porttab' \in [PortIds -> PortEntry],
         ptfree' \in Nat, ptnextid' = ptnextid, panicked' \in BOOLEAN
  PROVE  PortsInv'
<1>1. /\ SemOK(semtab', Proc) /\ FewerWait(semtab, semtab')
      /\ \A s \in Sems : semtab'[s] # semtab[s] =>
           Allocated(c) /\ (s = SemOf(c, o) \/ s = SemOf(c, x))
  BY MovesOK
<1>2. /\ pc \in [Proc -> Call] /\ ptnextid \in PortIds
      /\ \A q \in Proc : pc[q].op = "ptsend" => pc[q].msg \in Message
      /\ \A q \in Proc : pc[q].op \notin Clearing => pc[q].live
  BY DEF PortsInv, PortsTypeOK, ClearOK
<1>3. /\ pc' \in [Proc -> Call]
      /\ \A q \in Proc : pc'[q] = pc[q] \/ (q = p /\ pc[p].op \in Ops /\ ~Waiting(p) /\ pc'[q] = Idle)
  BY <1>2, IdleIs DEF CallDone
<1>4. \A q \in Proc : pc'[q] = pc[q] \/ pc'[q] = Idle
  BY <1>3
<1>5. \A q \in Proc : pc'[q].op = "ptsend" => pc'[q].msg \in Message
  BY <1>2, <1>4, IdleIs
<1>6. PortsTypeOK'
  BY <1>1, <1>2, <1>3, <1>5 DEF PortsTypeOK
<1>7. CallsKept
  <2>1. Clearing \cap Ops = {} /\ "idle" \notin Clearing /\ "idle" \notin Ops
    BY DEF Clearing, Ops
  <2>2. \A q \in Proc : pc'[q] = pc[q] \/ (pc[q].op \in Ops /\ pc'[q] = Idle)
    BY <1>3
  <2>3. ASSUME NEW q \in Proc
        PROVE  /\ pc'[q].op \in Clearing <=> pc[q].op \in Clearing
               /\ pc[q].op \in Clearing =>
                    pc'[q].op = pc[q].op /\ pc'[q].port = pc[q].port /\ pc'[q].new = pc[q].new
               /\ pc'[q].op \notin Clearing => pc'[q].live
               /\ pc'[q].op \in Ops => pc'[q] = pc[q] \/ Enters(q)
    <3>1. CASE pc'[q] = pc[q]
      BY <1>2, <3>1
    <3>2. CASE pc[q].op \in Ops /\ pc'[q] = Idle
      BY <2>1, <3>2, IdleIs
    <3>3. QED
      BY <2>2, <3>1, <3>2
  <2>4. QED
    BY <2>3 DEF CallsKept
<1>8. ASSUME NEW s \in Sems PROVE SemKept(s)
  <2>1. ASSUME NEW q \in ToSet(semtab'[s].queue) PROVE q \in ToSet(semtab[s].queue) /\ pc'[q] = pc[q]
    <3>1. q \in ToSet(semtab[s].queue)
      BY <1>1, <2>1 DEF FewerWait
    <3>2. Waiting(q)
      BY <3>1 DEF Waiting, WaitsIn
    <3>3. q \in Proc
      BY <3>1 DEF PortsInv, PortsTypeOK, SemOK, SemEntry, ToSet
    <3>4. QED
      BY <1>3, <3>1, <3>2, <3>3
  <2>2. semtab'[s].state = semtab[s].state
    BY <1>1 DEF FewerWait
  <2>3. semtab'[s].count # semtab[s].count =>
          \E d \in PortIds, y \in Ops : Allocated(d) /\ s = SemOf(d, y)
    BY <1>1
  <2>4. QED
    BY <2>1, <2>2, <2>3 DEF SemKept
<1>9. QED
  BY <1>6, <1>7, <1>8, CallStep
LEMMA MsgsKept ==
  ASSUME PortsInv, NEW c \in PortIds, Allocated(c), NEW m \in Seq(Message),
         porttab' = [porttab EXCEPT ![c].msgs = m]
  PROVE  PortsKept /\ porttab' \in [PortIds -> PortEntry]
<1>1. porttab \in [PortIds -> PortEntry]
  BY DEF PortsInv, PortsTypeOK
<1>2. porttab' \in [PortIds -> PortEntry]
  BY <1>1 DEF PortEntry
<1>3. PortsKept
  BY <1>1 DEF PortsKept, PortEntry
<1>4. QED
  BY <1>2, <1>3

LEMMA SamePortsKept ==
  ASSUME PortsInv, porttab' = porttab
  PROVE  PortsKept /\ porttab' \in [PortIds -> PortEntry]
BY DEF PortsKept, PortsInv, PortsTypeOK

LEMMA MsgsType ==
  ASSUME PortsInv, NEW c \in PortIds
  PROVE  porttab[c].msgs \in Seq(Message) /\ Len(porttab[c].msgs) \in Nat /\ ptfree \in Nat
<1>1. porttab[c].msgs \in Seq(Message) /\ ptfree \in Nat
  BY DEF PortsInv, PortsTypeOK, PortEntry
<1>2. QED
  BY <1>1

LEMMA EnqueueInv ==
  ASSUME PortsInv, NEW p \in Proc, NEW c \in PortIds, Allocated(c), NEW msg \in Message,
         NEW tab, TabFrom(tab, c, "ptsend"), Enqueue(c, msg, tab), CallDone(p),
         ptnextid' = ptnextid
  PROVE  PortsInv'
<1>1. porttab[c].msgs \in Seq(Message) /\ ptfree \in Nat /\ panicked \in BOOLEAN
  BY MsgsType DEF PortsInv, PortsTypeOK
<1>2. "ptsend" \in Ops /\ "ptrecv" \in Ops
  BY DEF Ops
<1>3. SemOf(c, "ptrecv") = porttab[c].rsem
  BY DEF SemOf
<1>4. Moves(c, "ptsend", "ptrecv")
  BY <1>3 DEF Moves, Enqueue
<1>5. CASE ptfree = 0
  <2>1. porttab' = porttab /\ ptfree' = ptfree /\ panicked' = TRUE
    BY <1>5 DEF Enqueue
  <2>2. QED
    BY <1>1, <1>2, <1>4, <2>1, SamePortsKept, MoveStep
<1>6. CASE ptfree # 0
  <2>1. Append(porttab[c].msgs, msg) \in Seq(Message)
    BY <1>1
  <2>2. /\ porttab' = [porttab EXCEPT ![c].msgs = Append(porttab[c].msgs, msg)]
        /\ ptfree' \in Nat /\ panicked' = panicked
    BY <1>1, <1>6 DEF Enqueue
  <2>3. PortsKept /\ porttab' \in [PortIds -> PortEntry]
    BY <2>1, <2>2, MsgsKept
  <2>4. QED
    BY <1>1, <1>2, <1>4, <2>2, <2>3, MoveStep
<1>7. QED
  BY <1>5, <1>6

LEMMA DequeueInv ==
  ASSUME PortsInv, NEW p \in Proc, NEW c \in PortIds, Allocated(c), porttab[c].msgs # <<>>,
         NEW tab, TabFrom(tab, c, "ptrecv"), Dequeue(c, tab), CallDone(p), ptnextid' = ptnextid
  PROVE  PortsInv'
<1>1. porttab[c].msgs \in Seq(Message) /\ ptfree \in Nat /\ panicked \in BOOLEAN
  BY MsgsType DEF PortsInv, PortsTypeOK
<1>2. "ptsend" \in Ops /\ "ptrecv" \in Ops
  BY DEF Ops
<1>3. SemOf(c, "ptsend") = porttab[c].ssem
  BY DEF SemOf
<1>4. Moves(c, "ptrecv", "ptsend")
  BY <1>3 DEF Moves, Dequeue
<1>5. Tail(porttab[c].msgs) \in Seq(Message)
  BY <1>1
<1>6. /\ porttab' = [porttab EXCEPT ![c].msgs = Tail(porttab[c].msgs)]
      /\ ptfree' \in Nat /\ panicked' = panicked
  BY <1>1 DEF Dequeue
<1>7. PortsKept /\ porttab' \in [PortIds -> PortEntry]
  BY <1>5, <1>6, MsgsKept
<1>8. QED
  BY <1>1, <1>2, <1>4, <1>6, <1>7, MoveStep

LEMMA StaleInv ==
  ASSUME PortsInv, NEW p \in Proc, pc[p].op \in Ops, ~Waiting(p), Return(p),
         UNCHANGED <<porttab, ptfree, ptnextid, semtab, panicked>>
  PROVE  PortsInv'
<1>1. ptfree' \in Nat /\ panicked' \in BOOLEAN /\ 0 \in PortIds
  BY PortAssumption DEF PortsInv, PortsTypeOK, PortIds
<1>2. CallDone(p) /\ Moves(0, "ptsend", "ptrecv")
  BY DEF CallDone, Moves, Return
<1>3. "ptsend" \in Ops /\ "ptrecv" \in Ops
  BY DEF Ops
<1>4. QED
  BY <1>1, <1>2, <1>3, SamePortsKept, MoveStep

(* A call that has to wait.                                                *)
LEMMA BlockInv ==
  ASSUME PortsInv, NEW p \in Proc, NEW c \in PortIds, NEW o \in Ops,
         NEW msg \in Message \cup {NoMessage}, o = "ptsend" => msg \in Message,
         Runs(p, "idle"), Allocated(c), SemOf(c, o) # SYSERR,
         BlockOn(p, SemOf(c, o), o, c, msg), ptnextid' = ptnextid
  PROVE  PortsInv'
<1>. DEFINE s == SemOf(c, o)
            k == [Idle EXCEPT !.op = o, !.port = c, !.msg = msg, !.seq = porttab[c].seq]
<1>1. s \in Sems /\ Holds(c, o) /\ ~WaitsIn(semtab, p) /\ SemOK(semtab, Proc)
  BY SemOfType DEF Holds, Runs, Waiting, PortsInv, PortsTypeOK
<1>2. semtab[s].state = "S_USED"
  BY DEF PortsInv, OwnOK, Holds
<1>3. semtab[s].count <= 0 /\ semtab' = Enqueued(semtab, s, p)
  BY DEF BlockOn
<1>. HIDE DEF s
<1>4. /\ SemOK(semtab', Proc) /\ OtherSems(semtab, semtab', s)
      /\ semtab'[s].state = semtab[s].state
      /\ ToSet(semtab'[s].queue) = ToSet(semtab[s].queue) \cup {p}
  BY <1>1, <1>2, <1>3, EnqueuedOK
<1>5. /\ pc \in [Proc -> Call] /\ ptnextid \in PortIds
      /\ \A q \in Proc : pc[q].op = "ptsend" => pc[q].msg \in Message
      /\ \A q \in Proc : pc[q].op \notin Clearing => pc[q].live
      /\ porttab[c].seq \in Nat /\ ptfree' \in Nat /\ panicked' \in BOOLEAN
  BY DEF PortsInv, PortsTypeOK, ClearOK, PortEntry, BlockOn
<1>6. k \in Call
  BY <1>5, IdleIs DEF Call
<1>7. k.op = o /\ k.port = c /\ k.msg = msg /\ k.seq = porttab[c].seq /\ k.live
  BY IdleIs DEF Call
<1>8. pc' = [pc EXCEPT ![p] = k] /\ pc[p].op = "idle"
  BY DEF BlockOn, Runs
<1>. HIDE DEF k
<1>9. pc'[p] = k /\ \A q \in Proc : q # p => pc'[q] = pc[q]
  BY <1>5, <1>8
<1>10. PortsKept /\ porttab' \in [PortIds -> PortEntry]
  BY SamePortsKept DEF BlockOn
<1>11. PortsTypeOK'
  <2>1. pc' \in [Proc -> Call]
    BY <1>5, <1>6, <1>8
  <2>2. \A q \in Proc : pc'[q].op = "ptsend" => pc'[q].msg \in Message
    BY <1>5, <1>7, <1>9
  <2>3. QED
    BY <1>4, <1>5, <1>10, <2>1, <2>2 DEF PortsTypeOK
<1>12. Enters(p) /\ s = SemOf(pc'[p].port, pc'[p].op)
  BY <1>7, <1>9 DEF Enters, s
<1>13. CallsKept
  <2>1. ASSUME NEW q \in Proc
        PROVE  /\ pc'[q].op \in Clearing <=> pc[q].op \in Clearing
               /\ pc[q].op \in Clearing =>
                    pc'[q].op = pc[q].op /\ pc'[q].port = pc[q].port /\ pc'[q].new = pc[q].new
               /\ pc'[q].op \notin Clearing => pc'[q].live
               /\ pc'[q].op \in Ops => pc'[q] = pc[q] \/ Enters(q)
    <3>1. CASE q # p
      BY <1>5, <1>9, <3>1
    <3>2. CASE q = p
      <4>1. pc'[q].op \in Ops /\ pc'[q].op \notin Clearing /\ pc[q].op \notin Clearing /\ pc'[q].live
        BY <1>7, <1>8, <1>9, <3>2 DEF Ops, Clearing
      <4>2. QED
        BY <1>12, <3>2, <4>1
    <3>3. QED
      BY <3>1, <3>2
  <2>2. QED
    BY <2>1 DEF CallsKept
<1>14. ASSUME NEW r \in Sems PROVE SemKept(r)
  <2>0. \A q \in ToSet(semtab[r].queue) : q \in Proc /\ q # p
    BY <1>1 DEF WaitsIn, SemOK, SemEntry, ToSet
  <2>1. CASE r # s
    <3>1. semtab'[r] = semtab[r]
      BY <1>4, <2>1 DEF OtherSems
    <3>2. QED
      BY <1>9, <2>0, <3>1 DEF SemKept
  <2>2. CASE r = s
    <3>1. \A q \in ToSet(semtab'[r].queue) : q = p \/ (q \in ToSet(semtab[r].queue) /\ pc'[q] = pc[q])
      BY <1>4, <1>9, <2>0, <2>2
    <3>2. \E d \in PortIds, y \in Ops : Allocated(d) /\ r = SemOf(d, y)
      BY <2>2 DEF s
    <3>3. QED
      BY <1>4, <1>12, <2>2, <3>1, <3>2 DEF SemKept
  <2>3. QED
    BY <2>1, <2>2
<1>15. QED
  BY <1>10, <1>11, <1>13, <1>14, CallStep
-----------------------------------------------------------------------------
LEMMA KillInv ==
  ASSUME PortsInv, NEW p \in Proc, KillCaller(p)
  PROVE  PortsInv'
<1>. DEFINE dead == [pc[p] EXCEPT !.live = FALSE]
<1>1. /\ SemOK(semtab', Proc)
      /\ \A s \in Sems :
           /\ semtab'[s].state = semtab[s].state
           /\ ToSet(semtab'[s].queue) = ToSet(semtab[s].queue) \ {p}
           /\ p \notin ToSet(semtab[s].queue) => semtab'[s] = semtab[s]
           /\ p \in ToSet(semtab[s].queue) => semtab[s].count < 0
  <2>1. SemOK(semtab, Proc) /\ semtab' = Killed(semtab, p)
    BY DEF KillCaller, PortsInv, PortsTypeOK
  <2>2. QED
    BY <2>1, KilledOK
<1>2. /\ pc \in [Proc -> Call] /\ ptnextid \in PortIds
      /\ \A q \in Proc : pc[q].op = "ptsend" => pc[q].msg \in Message
      /\ \A q \in Proc : pc[q].op \notin Clearing => pc[q].live
      /\ ptfree' \in Nat /\ panicked' \in BOOLEAN /\ ptnextid' = ptnextid
  BY DEF PortsInv, PortsTypeOK, ClearOK, KillCaller
<1>3. pc' = [pc EXCEPT ![p] = IF pc[p].op \in Clearing THEN dead ELSE Idle]
  BY <1>2 DEF KillCaller
<1>4. /\ dead \in Call /\ dead.op = pc[p].op /\ dead.port = pc[p].port /\ dead.new = pc[p].new
      /\ dead.msg = pc[p].msg
  BY <1>2 DEF Call
<1>. HIDE DEF dead
<1>5. /\ pc' \in [Proc -> Call]
      /\ \A q \in Proc : q # p => pc'[q] = pc[q]
      /\ pc[p].op \in Clearing => pc'[p] = dead
      /\ pc[p].op \notin Clearing => pc'[p] = Idle
  BY <1>2, <1>3, <1>4, IdleIs
<1>6. PortsKept /\ porttab' \in [PortIds -> PortEntry]
  BY SamePortsKept DEF KillCaller
<1>7. PortsTypeOK'
  <2>1. \A q \in Proc : pc'[q].op = "ptsend" => pc'[q].msg \in Message
    BY <1>2, <1>4, <1>5, IdleIs DEF Clearing
  <2>2. QED
    BY <1>1, <1>2, <1>5, <1>6, <2>1 DEF PortsTypeOK
<1>8. CallsKept
  <2>1. ASSUME NEW q \in Proc
        PROVE  /\ pc'[q].op \in Clearing <=> pc[q].op \in Clearing
               /\ pc[q].op \in Clearing =>
                    pc'[q].op = pc[q].op /\ pc'[q].port = pc[q].port /\ pc'[q].new = pc[q].new
               /\ pc'[q].op \notin Clearing => pc'[q].live
               /\ pc'[q].op \in Ops => pc'[q] = pc[q] \/ Enters(q)
    <3>1. CASE q # p
      BY <1>2, <1>5, <3>1
    <3>2. CASE q = p
      BY <1>4, <1>5, <3>2, IdleIs DEF Clearing, Ops
    <3>3. QED
      BY <3>1, <3>2
  <2>2. QED
    BY <2>1 DEF CallsKept
<1>9. ASSUME NEW s \in Sems PROVE SemKept(s)
  <2>1. \A q \in ToSet(semtab[s].queue) : q \in Proc
    BY DEF PortsInv, PortsTypeOK, SemOK, SemEntry, ToSet
  <2>2. \A q \in ToSet(semtab'[s].queue) : q \in ToSet(semtab[s].queue) /\ pc'[q] = pc[q]
    BY <1>1, <1>5, <2>1
  <2>3. semtab'[s].count # semtab[s].count => semtab[s].count < 0
    BY <1>1
  <2>4. QED
    BY <1>1, <2>2, <2>3 DEF SemKept
<1>10. QED
  BY <1>6, <1>7, <1>8, <1>9, CallStep

(* A clearing begins.                                                      *)
LEMMA ClearInv ==
  ASSUME PortsInv, NEW p \in Proc, NEW c \in PortIds, NEW new \in {"PT_ALLOC", "PT_FREE"},
         Ptclear(p, c, new)
  PROVE  PortsInv'
<1>. DEFINE k == [Idle EXCEPT !.op = "dispose", !.port = c, !.new = new]
<1>1. /\ pc \in [Proc -> Call] /\ porttab \in [PortIds -> PortEntry]
      /\ \A q \in Proc : pc[q].op = "ptsend" => pc[q].msg \in Message
      /\ \A q \in Proc : pc[q].port \in PortIds /\ pc[q].seq \in Nat
      /\ \A d \in PortIds : porttab[d].seq \in Nat
  BY DEF PortsInv, PortsTypeOK, Call, PortEntry
<1>2. k \in Call /\ k.op = "dispose" /\ k.port = c /\ k.new = new
  BY IdleIs DEF Call, Clearing
<1>3. /\ pc' = [pc EXCEPT ![p] = k] /\ pc[p].op = "idle" /\ ~Waiting(p) /\ Allocated(c)
      /\ semtab' = semtab /\ ptfree' = ptfree /\ ptnextid' = ptnextid /\ panicked' = panicked
  BY DEF Ptclear, Runs
<1>. HIDE DEF k
<1>4. /\ pc' \in [Proc -> Call] /\ pc'[p] = k
      /\ \A q \in Proc : q # p => pc'[q] = pc[q]
  BY <1>1, <1>2, <1>3
<1>5. /\ porttab' \in [PortIds -> PortEntry]
      /\ \A d \in PortIds : d # c => porttab'[d] = porttab[d]
      /\ porttab'[c].state = "PT_LIMBO" /\ porttab'[c].seq = porttab[c].seq + 1
      /\ \A d \in PortIds : porttab'[d].ssem = porttab[d].ssem /\ porttab'[d].rsem = porttab[d].rsem
  BY <1>1 DEF Ptclear, PortEntry
<1>6. PortsTypeOK'
  <2>1. \A q \in Proc : pc'[q].op = "ptsend" => pc'[q].msg \in Message
    BY <1>1, <1>2, <1>4
  <2>2. QED
    BY <1>3, <1>4, <1>5, <2>1 DEF PortsTypeOK, PortsInv
<1>7. \A q \in Proc : pc[q].op \in Clearing => pc[q].port # c /\ q # p
  BY <1>3 DEF PortsInv, ClearOK, Allocated, Clearing
<1>8. ClearOK'
  <2>1. \A q \in Proc : pc'[q].op \in Clearing => porttab'[pc'[q].port].state = "PT_LIMBO"
    BY <1>1, <1>2, <1>4, <1>5, <1>7 DEF PortsInv, ClearOK
  <2>2. \A q, r \in Proc : pc'[q].op \in Clearing /\ pc'[r].op \in Clearing /\ q # r
                             => pc'[q].port # pc'[r].port
    BY <1>2, <1>4, <1>7 DEF PortsInv, ClearOK
  <2>3. \A q \in Proc : pc'[q].op \notin Clearing => pc'[q].live
    BY <1>2, <1>4 DEF PortsInv, ClearOK, Clearing
  <2>4. QED
    BY <2>1, <2>2, <2>3 DEF ClearOK
<1>9. \A d \in PortIds, o \in Ops : SemOf(d, o)' = SemOf(d, o)
  BY <1>5 DEF SemOf
<1>10. \A d \in PortIds : Allocated(d)' <=> Allocated(d) /\ d # c
  BY <1>5 DEF Allocated
<1>11. SeqOK'
  <2>. SUFFICES ASSUME NEW q \in Proc, pc'[q].op \in Ops
       PROVE  /\ pc'[q].seq <= porttab'[pc'[q].port].seq
              /\ ~Allocated(pc[q].port)' => pc'[q].seq < porttab'[pc'[q].port].seq
              /\ SamePort(q)' => SemOf(pc[q].port, pc[q].op)' # SYSERR
    BY DEF SeqOK
  <2>1. pc'[q] = pc[q]
    BY <1>2, <1>4 DEF Ops
  <2>2. /\ pc[q].seq <= porttab[pc[q].port].seq
        /\ ~Allocated(pc[q].port) => pc[q].seq < porttab[pc[q].port].seq
        /\ SamePort(q) => SemOf(pc[q].port, pc[q].op) # SYSERR
    BY <2>1 DEF PortsInv, SeqOK
  <2>3. CASE pc[q].port = c
    BY <1>1, <1>3, <1>5, <1>10, <2>1, <2>2, <2>3 DEF SamePort
  <2>4. CASE pc[q].port # c
    BY <1>1, <1>5, <1>9, <1>10, <2>1, <2>2, <2>4 DEF SamePort
  <2>5. QED
    BY <2>3, <2>4
<1>12. \A d \in PortIds, o \in Ops : Holds(d, o)' <=> Holds(d, o)
  <2>. TAKE d \in PortIds, o \in Ops
  <2>1. CASE d = c
    <3>1. KeepsSem(p, c, o)'
      BY <1>2, <1>4 DEF KeepsSem, Clearing
    <3>2. QED
      BY <1>3, <2>1, <3>1 DEF Holds
  <2>2. CASE d # c
    <3>1. \A q \in Proc : KeepsSem(q, d, o)' <=> KeepsSem(q, d, o)
      BY <1>2, <1>3, <1>4, <2>2 DEF KeepsSem, Clearing
    <3>2. QED
      BY <1>10, <2>2, <3>1 DEF Holds
  <2>3. QED
    BY <2>1, <2>2
<1>13. OwnOK'
  BY <1>3, <1>9, <1>12 DEF PortsInv, OwnOK
<1>14. WaitOK'
  <2>. SUFFICES ASSUME NEW q \in Proc, NEW s \in Sems, q \in ToSet(semtab'[s].queue)
       PROVE  WaitsFor(q, s)'
    BY DEF WaitOK
  <2>1. WaitsFor(q, s) /\ q # p
    BY <1>3 DEF PortsInv, WaitOK, Waiting, WaitsIn
  <2>2. pc'[q] = pc[q]
    BY <1>4, <2>1
  <2>3. SamePort(q)' \/ porttab'[pc'[q].port].state = "PT_LIMBO"
    BY <1>1, <1>5, <1>10, <2>1, <2>2 DEF WaitsFor, SamePort
  <2>4. QED
    BY <1>1, <1>9, <1>12, <2>1, <2>2, <2>3 DEF WaitsFor
<1>15. EmptyOK'
  <2>. SUFFICES ASSUME NEW q \in Proc, pc'[q].op \in {"receivers", "finish"},
                       pc'[q].new = "PT_ALLOC"
       PROVE  ResetOK(q)'
    BY DEF EmptyOK
  <2>1. pc'[q] = pc[q] /\ pc[q].op \in Clearing
    BY <1>2, <1>4 DEF Clearing
  <2>2. ResetOK(q) /\ porttab'[pc[q].port] = porttab[pc[q].port]
    BY <1>1, <1>5, <1>7, <2>1 DEF PortsInv, EmptyOK
  <2>3. QED
    BY <1>3, <2>1, <2>2 DEF ResetOK
<1>16. QED
  BY <1>6, <1>8, <1>11, <1>13, <1>14, <1>15 DEF PortsInv

(* A clearing ends.                                                        *)
LEMMA EndInv ==
  ASSUME PortsInv, NEW p \in Proc, PtclearEnd(p)
  PROVE  PortsInv'
<1>. DEFINE c == pc[p].port
            new == pc[p].new
<1>1. /\ pc \in [Proc -> Call] /\ porttab \in [PortIds -> PortEntry]
      /\ \A q \in Proc : pc[q].op = "ptsend" => pc[q].msg \in Message
      /\ \A q \in Proc : pc[q].port \in PortIds /\ pc[q].seq \in Nat
      /\ \A d \in PortIds : porttab[d].seq \in Nat /\ porttab[d].maxcnt \in Nat
      /\ new \in {"PT_ALLOC", "PT_FREE"} /\ ptnextid \in PortIds
  BY DEF PortsInv, PortsTypeOK, Call, PortEntry
<1>2. /\ pc' = [pc EXCEPT ![p] = Idle] /\ pc[p].op = "finish" /\ ~Waiting(p)
      /\ semtab' = semtab /\ ptfree' = ptfree /\ panicked' = panicked
      /\ c \in PortIds /\ porttab[c].state = "PT_LIMBO" /\ ~Allocated(c)
  BY <1>1 DEF PtclearEnd, Runs, Return, PortsInv, ClearOK, Clearing, Allocated
<1>3. /\ pc' \in [Proc -> Call] /\ pc'[p] = Idle
      /\ \A q \in Proc : q # p => pc'[q] = pc[q]
  BY <1>1, <1>2, IdleIs
<1>4. /\ porttab' \in [PortIds -> PortEntry]
      /\ \A d \in PortIds : d # c => porttab'[d] = porttab[d]
      /\ porttab'[c].state = new /\ porttab'[c].seq = porttab[c].seq
      /\ \A d \in PortIds : porttab'[d].ssem = porttab[d].ssem /\ porttab'[d].rsem = porttab[d].rsem
  <2>1. porttab' = [porttab EXCEPT ![c].state = new]
    BY DEF PtclearEnd
  <2>. HIDE DEF c, new
  <2>2. QED
    BY <1>1, <1>2, <2>1, ZenonT(90) DEF PortEntry
<1>5. PortsTypeOK'
  <2>1. \A q \in Proc : pc'[q].op = "ptsend" => pc'[q].msg \in Message
    BY <1>1, <1>3, IdleIs
  <2>2. ptnextid' \in PortIds
    BY <1>1, <1>2 DEF PtclearEnd
  <2>3. QED
    BY <1>2, <1>3, <1>4, <2>1, <2>2 DEF PortsTypeOK, PortsInv
<1>6. \A q \in Proc : pc[q].op \in Clearing /\ q # p => pc[q].port # c
  BY <1>2 DEF PortsInv, ClearOK, Clearing
<1>. HIDE DEF c, new
<1>7. ClearOK'
  <2>1. \A q \in Proc : pc'[q].op \in Clearing => q # p /\ pc'[q] = pc[q]
    BY <1>3, IdleIs DEF Clearing
  <2>2. \A q \in Proc : pc'[q].op \in Clearing => porttab'[pc'[q].port].state = "PT_LIMBO"
    BY <1>1, <1>4, <1>6, <2>1 DEF PortsInv, ClearOK
  <2>3. \A q, r \in Proc : pc'[q].op \in Clearing /\ pc'[r].op \in Clearing /\ q # r
                             => pc'[q].port # pc'[r].port
    BY <2>1 DEF PortsInv, ClearOK
  <2>4. \A q \in Proc : pc'[q].op \notin Clearing => pc'[q].live
    BY <1>3, IdleIs DEF PortsInv, ClearOK
  <2>5. QED
    BY <2>2, <2>3, <2>4 DEF ClearOK
<1>8. \A d \in PortIds, o \in Ops : SemOf(d, o)' = SemOf(d, o)
  BY <1>4 DEF SemOf
<1>9. \A d \in PortIds : d # c => (Allocated(d)' <=> Allocated(d))
  BY <1>4 DEF Allocated
<1>10. SeqOK'
  <2>. SUFFICES ASSUME NEW q \in Proc, pc'[q].op \in Ops
       PROVE  /\ pc'[q].seq <= porttab'[pc'[q].port].seq
              /\ ~Allocated(pc[q].port)' => pc'[q].seq < porttab'[pc'[q].port].seq
              /\ SamePort(q)' => SemOf(pc[q].port, pc[q].op)' # SYSERR
    BY DEF SeqOK
  <2>1. pc'[q] = pc[q]
    BY <1>3, IdleIs DEF Ops
  <2>2. /\ pc[q].seq <= porttab[pc[q].port].seq
        /\ ~Allocated(pc[q].port) => pc[q].seq < porttab[pc[q].port].seq
        /\ SamePort(q) => SemOf(pc[q].port, pc[q].op) # SYSERR
    BY <2>1 DEF PortsInv, SeqOK
  <2>3. CASE pc[q].port = c
    <3>1. porttab'[c].seq = porttab[c].seq /\ pc[q].seq < porttab[c].seq
      BY <1>2, <1>4, <2>2, <2>3
    <3>2. ~SamePort(q)'
      BY <1>1, <2>1, <2>3, <3>1 DEF SamePort
    <3>3. QED
      BY <1>1, <2>1, <2>3, <3>1, <3>2
  <2>4. CASE pc[q].port # c
    BY <1>1, <1>4, <1>8, <1>9, <2>1, <2>2, <2>4 DEF SamePort
  <2>5. QED
    BY <2>3, <2>4
<1>11. \A d \in PortIds, o \in Ops : Holds(d, o)' <=> Holds(d, o)
  <2>. TAKE d \in PortIds, o \in Ops
  <2>1. CASE d = c
    <3>1. \A q \in Proc : ~KeepsSem(q, d, o)'
      BY <1>3, <1>6, <2>1, IdleIs DEF KeepsSem, Clearing
    <3>2. \A q \in Proc : KeepsSem(q, d, o) <=> q = p /\ new = "PT_ALLOC"
      BY <1>2, <1>6, <2>1 DEF KeepsSem, Clearing, c, new
    <3>3. Allocated(d)' <=> new = "PT_ALLOC"
      BY <1>4, <2>1 DEF Allocated
    <3>4. QED
      BY <1>2, <2>1, <3>1, <3>2, <3>3 DEF Holds
  <2>2. CASE d # c
    <3>1. \A q \in Proc : KeepsSem(q, d, o)' <=> KeepsSem(q, d, o)
      BY <1>3, <2>2, IdleIs DEF KeepsSem, Clearing, c
    <3>2. QED
      BY <1>9, <2>2, <3>1 DEF Holds
  <2>3. QED
    BY <2>1, <2>2
<1>12. OwnOK'
  BY <1>2, <1>8, <1>11 DEF PortsInv, OwnOK
<1>13. \A q \in Proc, s \in Sems : q \in ToSet(semtab[s].queue) => pc[q].port # c
  <2>. SUFFICES ASSUME NEW q \in Proc, NEW s \in Sems, q \in ToSet(semtab[s].queue), pc[q].port = c
       PROVE  FALSE
    OBVIOUS
  <2>1. pc[q].op \in Ops /\ s = SemOf(c, pc[q].op) /\ Holds(c, pc[q].op)
    BY DEF PortsInv, WaitOK, WaitsFor
  <2>2. KeepsSem(p, c, pc[q].op)
    <3>1. PICK r \in Proc : KeepsSem(r, c, pc[q].op)
      BY <1>2, <2>1 DEF Holds
    <3>2. QED
      BY <1>6, <3>1 DEF KeepsSem
  <2>3. new = "PT_ALLOC"
    BY <1>2, <2>2 DEF KeepsSem, new
  <2>4. ResetOK(p)
    BY <1>2, <2>3 DEF PortsInv, EmptyOK, new
  <2>5. semtab[s].count >= 0
    BY <1>1, <1>2, <2>1, <2>4, SemTableAssumption, SMTT(60) DEF ResetOK, SemOf, c
  <2>6. semtab[s].queue = <<>>
    BY <2>5 DEF PortsInv, PortsTypeOK, SemOK, EntryOK
  <2>7. QED
    BY <2>6, NoneWaits
<1>14. WaitOK'
  <2>. SUFFICES ASSUME NEW q \in Proc, NEW s \in Sems, q \in ToSet(semtab'[s].queue)
       PROVE  WaitsFor(q, s)'
    BY DEF WaitOK
  <2>1. WaitsFor(q, s) /\ q # p /\ pc[q].port # c
    BY <1>2, <1>13 DEF PortsInv, WaitOK, Waiting, WaitsIn
  <2>2. pc'[q] = pc[q]
    BY <1>3, <2>1
  <2>3. SamePort(q)' \/ porttab'[pc'[q].port].state = "PT_LIMBO"
    BY <1>1, <1>4, <1>9, <2>1, <2>2 DEF WaitsFor, SamePort
  <2>4. QED
    BY <1>1, <1>8, <1>11, <2>1, <2>2, <2>3 DEF WaitsFor
<1>15. EmptyOK'
  <2>. SUFFICES ASSUME NEW q \in Proc, pc'[q].op \in {"receivers", "finish"},
                       pc'[q].new = "PT_ALLOC"
       PROVE  ResetOK(q)'
    BY DEF EmptyOK
  <2>1. pc'[q] = pc[q] /\ pc[q].op \in Clearing /\ q # p
    BY <1>3, IdleIs DEF Clearing
  <2>2. ResetOK(q) /\ porttab'[pc[q].port] = porttab[pc[q].port]
    BY <1>1, <1>4, <1>6, <2>1 DEF PortsInv, EmptyOK
  <2>3. QED
    BY <1>2, <2>1, <2>2 DEF ResetOK
<1>16. QED
  BY <1>5, <1>7, <1>10, <1>12, <1>14, <1>15 DEF PortsInv
-----------------------------------------------------------------------------
(* The step of a clearing that lets those who wait for o go.               *)
Releases(p, o, n) ==
  LET c == pc[p].port
      s == SemOf(c, o)
  IN
  /\ semtab' = IF pc[p].new = "PT_ALLOC" THEN ResetTo(semtab, s, n) ELSE Deleted(semtab, s)
  /\ UNCHANGED <<ptnextid, panicked>>
  /\ \/ /\ o = "ptsend" /\ pc[p].op = "dispose" /\ n = porttab[c].maxcnt
        /\ Goto(p, "receivers") /\ ptfree' = ptfree + Len(porttab[c].msgs)
        /\ porttab' = [porttab EXCEPT ![c].msgs =
                         IF pc[p].new = "PT_ALLOC" THEN <<>> ELSE porttab[c].msgs]
     \/ /\ o = "ptrecv" /\ pc[p].op = "receivers" /\ n = 0
        /\ Goto(p, "finish") /\ UNCHANGED <<ptfree, porttab>>

ReleasedAt(new, s, n, k) ==
  /\ SemOK(new, Proc)
  /\ \A r \in Sems : r # s => new[r] = semtab[r]
  /\ s # SYSERR => new[s].queue = <<>>
  /\ s # SYSERR /\ k = "PT_ALLOC" => new[s].state = "S_USED" /\ new[s].count = n

LEMMA ReleasedTable ==
  ASSUME PortsInv, NEW s \in Sems \cup {SYSERR}, NEW n \in Nat, NEW new, NEW k,
         s # SYSERR => semtab[s].state = "S_USED",
         new = IF k = "PT_ALLOC" THEN ResetTo(semtab, s, n) ELSE Deleted(semtab, s)
  PROVE  ReleasedAt(new, s, n, k)
<1>. USE DEF ReleasedAt
<1>1. SemOK(semtab, Proc) /\ <<>> \in Seq(Proc)
  BY EmptySeq DEF PortsInv, PortsTypeOK
<1>2. CASE s = SYSERR
  BY <1>1, <1>2 DEF ResetTo, Deleted
<1>3. CASE s # SYSERR /\ k = "PT_ALLOC"
  <2>0. PICK none \in Seq(Proc) : none = <<>>
    BY <1>1
  <2>. DEFINE e == Entry(semtab[s], n, none)
  <2>1. /\ semtab[s] \in SemEntry(Proc) /\ semtab \in [Sems -> SemEntry(Proc)]
        /\ s \in Sems /\ n \in Int /\ semtab[s].state = "S_USED"
    BY <1>1, <1>3 DEF SemOK
  <2>2. e \in SemEntry(Proc) /\ e.count = n /\ e.queue = none /\ e.state = "S_USED"
    BY <2>1, EntryChange
  <2>3. new = [semtab EXCEPT ![s] = e]
    BY <1>3, <2>0, <2>1 DEF ResetTo, Entry
  <2>. HIDE DEF e
  <2>4. EntryOK(e)
    BY <2>0, <2>2, NoneWaits DEF EntryOK
  <2>5. \A r \in Sems \ {s} : ToSet(e.queue) \cap ToSet(semtab[r].queue) = {}
    BY <2>0, <2>2, NoneWaits
  <2>6. LET tab == [semtab EXCEPT ![s] = e] IN
        SemOK(tab, Proc) /\ tab[s] = e /\ OtherSems(semtab, tab, s)
    BY <1>1, <1>3, <2>2, <2>4, <2>5, SemChange
  <2>7. QED
    BY <1>3, <2>0, <2>2, <2>3, <2>6 DEF OtherSems
<1>4. CASE s # SYSERR /\ k # "PT_ALLOC"
  <2>. DEFINE e == [state |-> "S_FREE", count |-> 0, queue |-> <<>>]
  <2>1. new = [semtab EXCEPT ![s] = e]
    BY <1>4 DEF Deleted, FreeEntry
  <2>2. LET tab == [semtab EXCEPT ![s] = e] IN
        SemOK(tab, Proc) /\ tab[s] = e /\ OtherSems(semtab, tab, s)
    BY <1>1, <1>4, SemSet
  <2>3. e.queue = <<>>
    OBVIOUS
  <2>. HIDE DEF e
  <2>4. QED
    BY <1>4, <2>1, <2>2, <2>3 DEF OtherSems
<1>5. QED
  BY <1>2, <1>3, <1>4

LEMMA ReleaseInv ==
  ASSUME PortsInv, NEW p \in Proc, NEW o \in Ops, NEW n, Releases(p, o, n)
  PROVE  PortsInv'
<1>a. PICK c : c = pc[p].port
  OBVIOUS
<1>b. PICK new : new = pc[p].new
  OBVIOUS
<1>c. PICK s : s = SemOf(c, o)
  OBVIOUS
<1>. USE <1>a, <1>b, <1>c
<1>1. /\ pc \in [Proc -> Call] /\ porttab \in [PortIds -> PortEntry]
      /\ \A q \in Proc : pc[q].op = "ptsend" => pc[q].msg \in Message
      /\ \A q \in Proc : pc[q].port \in PortIds /\ pc[q].seq \in Nat
      /\ \A d \in PortIds : porttab[d].seq \in Nat /\ porttab[d].maxcnt \in Nat
      /\ new \in {"PT_ALLOC", "PT_FREE"} /\ ptnextid \in PortIds /\ ptfree \in Nat
      /\ \A d \in PortIds : porttab[d].msgs \in Seq(Message)
  BY DEF PortsInv, PortsTypeOK, Call, PortEntry
<1>2. /\ pc[p].op \in Clearing /\ n \in Nat /\ c \in PortIds
      /\ (pc[p].op = "dispose" /\ o = "ptsend" /\ n = porttab[c].maxcnt)
         \/ (pc[p].op = "receivers" /\ o = "ptrecv" /\ n = 0)
  BY <1>1 DEF Releases, Clearing
<1>3. porttab[c].state = "PT_LIMBO" /\ ~Allocated(c)
  BY <1>2 DEF PortsInv, ClearOK, Allocated
<1>4. \A q \in Proc : pc[q].op \in Clearing /\ q # p => pc[q].port # c
  BY <1>2 DEF PortsInv, ClearOK
<1>5. Holds(c, o) /\ s \in Sems \cup {SYSERR} /\ (s # SYSERR => semtab[s].state = "S_USED")
  <2>1. KeepsSem(p, c, o)
    BY <1>2 DEF KeepsSem
  <2>2. s \in Sems \cup {SYSERR}
    BY <1>1, <1>2 DEF SemOf, PortEntry
  <2>3. QED
    BY <1>2, <2>1, <2>2 DEF Holds, PortsInv, OwnOK
<1>6. semtab' = IF new = "PT_ALLOC" THEN ResetTo(semtab, s, n) ELSE Deleted(semtab, s)
  BY DEF Releases
<1>7. /\ SemOK(semtab', Proc)
      /\ \A r \in Sems : r # s => semtab'[r] = semtab[r]
      /\ s # SYSERR => semtab'[s].queue = <<>>
      /\ s # SYSERR /\ new = "PT_ALLOC" => semtab'[s].state = "S_USED" /\ semtab'[s].count = n
  <2>1. ReleasedAt(semtab', s, n, new)
    BY <1>2, <1>5, <1>6, ReleasedTable
  <2>2. QED
    BY <2>1 DEF ReleasedAt
<1>8. PICK next \in {"receivers", "finish"} :
        /\ pc' = [pc EXCEPT ![p].op = next]
        /\ next = "receivers" <=> o = "ptsend"
        /\ next = "finish" <=> o = "ptrecv"
  BY <1>2 DEF Releases, Goto, Ops
<1>9. /\ pc' \in [Proc -> Call]
      /\ \A q \in Proc : q # p => pc'[q] = pc[q]
      /\ pc'[p].op = next /\ pc'[p].port = c /\ pc'[p].new = new /\ next \in Clearing
  <2>1. next \in Clearing
    BY DEF Clearing
  <2>2. QED
    BY <1>1, <1>8, <2>1 DEF Call
<1>10. ptfree' \in Nat /\ ptnextid' = ptnextid /\ panicked' = panicked
  BY <1>1, <1>2 DEF Releases
<1>11. PICK m \in Seq(Message) :
         /\ porttab' = [porttab EXCEPT ![c].msgs = m]
         /\ new = "PT_ALLOC" /\ o = "ptsend" => m = <<>>
         /\ o = "ptrecv" => m = porttab[c].msgs
  <2>1. <<>> \in Seq(Message)
    BY EmptySeq
  <2>2. CASE o = "ptsend"
    BY <1>1, <1>2, <2>1, <2>2 DEF Releases
  <2>3. CASE o = "ptrecv"
    <3>1. porttab' = [porttab EXCEPT ![c].msgs = porttab[c].msgs]
      BY <1>1, <1>2, <2>3 DEF Releases, PortEntry
    <3>2. QED
      BY <1>1, <1>2, <2>3, <3>1
  <2>4. QED
    BY <2>2, <2>3 DEF Ops
<1>12. /\ porttab' \in [PortIds -> PortEntry]
       /\ \A d \in PortIds : d # c => porttab'[d] = porttab[d]
       /\ \A d \in PortIds : /\ porttab'[d].ssem = porttab[d].ssem /\ porttab'[d].rsem = porttab[d].rsem
                             /\ porttab'[d].state = porttab[d].state
                             /\ porttab'[d].seq = porttab[d].seq
                             /\ porttab'[d].maxcnt = porttab[d].maxcnt
       /\ porttab'[c].msgs = m
  <2>1. c \in PortIds /\ porttab[c] \in PortEntry /\ DOMAIN porttab = PortIds
    BY <1>1, <1>2
  <2>2. PICK e : e = [porttab[c] EXCEPT !.msgs = m]
    OBVIOUS
  <2>3. /\ e \in PortEntry /\ e.msgs = m /\ e.ssem = porttab[c].ssem /\ e.rsem = porttab[c].rsem
        /\ e.state = porttab[c].state /\ e.seq = porttab[c].seq /\ e.maxcnt = porttab[c].maxcnt
    BY <2>1, <2>2 DEF PortEntry
  <2>4. porttab' = [porttab EXCEPT ![c] = e]
    BY <1>11, <2>2
  <2>5. QED
    BY <1>1, <2>1, <2>3, <2>4
<1>13. PortsTypeOK'
  <2>1. \A q \in Proc : pc'[q].op = "ptsend" => pc'[q].msg \in Message
    BY <1>1, <1>9 DEF Clearing
  <2>2. QED
    BY <1>7, <1>9, <1>10, <1>12, <2>1 DEF PortsTypeOK, PortsInv
<1>14. \A q \in Proc : /\ pc'[q].op \in Clearing <=> pc[q].op \in Clearing
                       /\ pc'[q].port = pc[q].port
                       /\ pc'[q].op \notin Clearing => pc'[q] = pc[q] /\ q # p
  BY <1>2, <1>9
<1>15. ClearOK'
  <2>1. \A q \in Proc : pc'[q].op \in Clearing => porttab'[pc'[q].port].state = "PT_LIMBO"
    BY <1>1, <1>12, <1>14 DEF PortsInv, ClearOK
  <2>2. \A q, r \in Proc : pc'[q].op \in Clearing /\ pc'[r].op \in Clearing /\ q # r
                             => pc'[q].port # pc'[r].port
    BY <1>14 DEF PortsInv, ClearOK
  <2>3. \A q \in Proc : pc'[q].op \notin Clearing => pc'[q].live
    BY <1>14 DEF PortsInv, ClearOK
  <2>4. QED
    BY <2>1, <2>2, <2>3 DEF ClearOK
<1>16. \A d \in PortIds : /\ Allocated(d)' <=> Allocated(d)
                          /\ \A x \in Ops : SemOf(d, x)' = SemOf(d, x)
  BY <1>12 DEF Allocated, SemOf
<1>17. SeqOK'
  <2>. SUFFICES ASSUME NEW q \in Proc, pc'[q].op \in Ops
       PROVE  /\ pc'[q].seq <= porttab'[pc'[q].port].seq
              /\ ~Allocated(pc[q].port)' => pc'[q].seq < porttab'[pc'[q].port].seq
              /\ SamePort(q)' => SemOf(pc[q].port, pc[q].op)' # SYSERR
    BY DEF SeqOK
  <2>1. pc'[q] = pc[q]
    BY <1>14 DEF Ops, Clearing
  <2>2. QED
    BY <1>1, <1>12, <1>16, <2>1 DEF SamePort, PortsInv, SeqOK
<1>18. \A d \in PortIds, x \in Ops :
         /\ ~(d = c /\ x = o) => (Holds(d, x)' <=> Holds(d, x))
         /\ Holds(d, x)' => Holds(d, x)
         /\ Holds(c, o)' => new = "PT_ALLOC"
  <2>1. ASSUME NEW d \in PortIds, NEW x \in Ops, d # c
        PROVE  Holds(d, x)' <=> Holds(d, x)
    <3>1. \A q \in Proc : KeepsSem(q, d, x)' <=> KeepsSem(q, d, x)
      BY <1>9, <2>1 DEF KeepsSem
    <3>2. QED
      BY <1>16, <3>1 DEF Holds
  <2>2. ASSUME NEW x \in Ops, x # o
        PROVE  Holds(c, x)' <=> Holds(c, x)
    <3>1. KeepsSem(p, c, x)' <=> KeepsSem(p, c, x)
      BY <1>2, <1>8, <1>9, <2>2 DEF KeepsSem, Ops
    <3>2. \A q \in Proc : q # p => ~KeepsSem(q, c, x) /\ ~KeepsSem(q, c, x)'
      BY <1>4, <1>9 DEF KeepsSem
    <3>3. QED
      BY <1>2, <1>16, <3>1, <3>2 DEF Holds
  <2>3. Holds(c, o)' => new = "PT_ALLOC"
    <3>1. KeepsSem(p, c, o)' => new = "PT_ALLOC"
      BY <1>8, <1>9 DEF KeepsSem
    <3>2. \A q \in Proc : q # p => ~KeepsSem(q, c, o)'
      BY <1>4, <1>9 DEF KeepsSem
    <3>3. QED
      BY <1>2, <1>3, <1>16, <3>1, <3>2 DEF Holds
  <2>4. Holds(c, o)
    BY <1>5
  <2>5. QED
    BY <2>1, <2>2, <2>3, <2>4
<1>19. OwnOK'
  <2>1. ASSUME NEW d \in PortIds, NEW x \in Ops, Holds(d, x)', SemOf(d, x) # SYSERR
        PROVE  semtab'[SemOf(d, x)].state = "S_USED"
    <3>1. Holds(d, x) /\ semtab[SemOf(d, x)].state = "S_USED" /\ SemOf(d, x) \in Sems
      BY <1>18, <2>1, SemOfType DEF PortsInv, OwnOK
    <3>2. CASE SemOf(d, x) # s
      BY <1>7, <3>1, <3>2
    <3>3. CASE SemOf(d, x) = s
      <4>1. d = c /\ x = o
        BY <1>2, <1>5, <2>1, <3>1, <3>3 DEF PortsInv, OwnOK
      <4>2. QED
        BY <1>7, <1>18, <2>1, <3>3, <4>1
    <3>4. QED
      BY <3>2, <3>3
  <2>2. \A d, e \in PortIds, x, y \in Ops :
          Holds(d, x)' /\ Holds(e, y)' /\ SemOf(d, x) = SemOf(e, y) /\ SemOf(d, x) # SYSERR
            => d = e /\ x = y
    BY <1>18 DEF PortsInv, OwnOK
  <2>3. QED
    BY <1>16, <2>1, <2>2 DEF OwnOK
<1>20. WaitOK'
  <2>. SUFFICES ASSUME NEW q \in Proc, NEW r \in Sems, q \in ToSet(semtab'[r].queue)
       PROVE  WaitsFor(q, r)'
    BY DEF WaitOK
  <2>1. r # s
    <3>1. CASE r = s
      <4>1. semtab'[r].queue = <<>>
        BY <1>7, <3>1, SemTableAssumption
      <4>2. QED
        BY <4>1, NoneWaits
    <3>2. QED
      BY <3>1
  <2>2. WaitsFor(q, r)
    BY <1>7, <2>1 DEF PortsInv, WaitOK
  <2>3. pc[q].op \notin Clearing /\ pc[q].op \in Ops
    BY <2>2 DEF WaitsFor, Ops, Clearing
  <2>4. pc'[q] = pc[q]
    BY <1>14, <2>3
  <2>5. SamePort(q)' <=> SamePort(q)
    BY <1>1, <1>12, <1>16, <2>4 DEF SamePort
  <2>6. Holds(pc[q].port, pc[q].op)'
    <3>1. ~(pc[q].port = c /\ pc[q].op = o)
      BY <2>1, <2>2 DEF WaitsFor
    <3>2. QED
      BY <1>1, <1>18, <2>2, <2>3, <2>4, <3>1 DEF WaitsFor
  <2>7. QED
    BY <1>1, <1>12, <1>16, <2>2, <2>3, <2>4, <2>5, <2>6 DEF WaitsFor
<1>21. EmptyOK'
  <2>. SUFFICES ASSUME NEW q \in Proc, pc'[q].op \in {"receivers", "finish"},
                       pc'[q].new = "PT_ALLOC"
       PROVE  ResetOK(q)'
    BY DEF EmptyOK
  <2>0. \A x \in Ops : SemOf(pc[q].port, x) # SYSERR => SemOf(pc[q].port, x) \in Sems
    BY <1>1, SemOfType
  <2>1. CASE q # p
    <3>1. pc'[q] = pc[q] /\ pc[q].op \in Clearing /\ pc[q].port # c
      BY <1>4, <1>9, <1>14, <2>1 DEF Clearing
    <3>2. ResetOK(q) /\ porttab'[pc[q].port] = porttab[pc[q].port]
      BY <1>1, <1>12, <3>1 DEF PortsInv, EmptyOK
    <3>3. \A x \in Ops : Holds(pc[q].port, x)
      BY <3>1 DEF Holds, KeepsSem
    <3>4. \A x \in Ops : SemOf(pc[q].port, x) # SYSERR =>
            semtab'[SemOf(pc[q].port, x)] = semtab[SemOf(pc[q].port, x)]
      BY <1>1, <1>2, <1>5, <1>7, <2>0, <3>1, <3>3 DEF PortsInv, OwnOK
    <3>5. QED
      BY <3>1, <3>2, <3>4 DEF ResetOK, SemOf, Ops
  <2>2. CASE q = p
    <3>1. new = "PT_ALLOC" /\ pc[q].port = c
      BY <1>9, <2>2
    <3>2. CASE o = "ptsend"
      <4>1. porttab'[c].msgs = <<>> /\ n = porttab[c].maxcnt /\ pc'[q].op = "receivers"
        BY <1>2, <1>8, <1>9, <1>11, <1>12, <2>2, <3>1, <3>2
      <4>2. porttab[c].ssem # SYSERR => semtab'[porttab[c].ssem].count = porttab[c].maxcnt
        BY <1>7, <3>1, <3>2, <4>1 DEF SemOf
      <4>3. QED
        BY <1>2, <1>9, <1>12, <2>2, <4>1, <4>2 DEF ResetOK
    <3>3. CASE o = "ptrecv"
      <4>1. pc[p].op = "receivers" /\ n = 0 /\ m = porttab[c].msgs
        BY <1>2, <1>11, <3>3
      <4>2. ResetOK(p)
        BY <3>1, <4>1 DEF PortsInv, EmptyOK
      <4>3. porttab[c].rsem # SYSERR => semtab'[porttab[c].rsem].count = 0
        BY <1>7, <3>1, <3>3, <4>1 DEF SemOf
      <4>4. porttab[c].ssem # SYSERR => semtab'[porttab[c].ssem].count = porttab[c].maxcnt
        <5>. SUFFICES ASSUME porttab[c].ssem # SYSERR
             PROVE  semtab'[porttab[c].ssem].count = porttab[c].maxcnt
          OBVIOUS
        <5>1. KeepsSem(p, c, "ptsend")
          BY <1>2, <3>1 DEF KeepsSem
        <5>2. Holds(c, "ptsend") /\ "ptsend" \in Ops /\ SemOf(c, "ptsend") = porttab[c].ssem
          BY <5>1 DEF Holds, Ops, SemOf
        <5>3. porttab[c].ssem # s
          BY <1>2, <1>5, <3>3, <5>2 DEF PortsInv, OwnOK
        <5>4. porttab[c].ssem \in Sems
          BY <1>2, <5>2, SemOfType
        <5>5. QED
          BY <1>7, <4>2, <5>3, <5>4 DEF ResetOK
      <4>5. QED
        BY <1>2, <1>9, <1>12, <2>2, <4>1, <4>2, <4>3, <4>4 DEF ResetOK
    <3>4. QED
      BY <3>2, <3>3 DEF Ops
  <2>3. QED
    BY <2>1, <2>2
<1>22. QED
  BY <1>13, <1>15, <1>17, <1>19, <1>20, <1>21 DEF PortsInv
-----------------------------------------------------------------------------
LEMMA NewPortIs ==
  ASSUME PortsInv, FreePorts # {}
  PROVE  NewPort \in PortIds /\ porttab[NewPort].state = "PT_FREE"
<1>. DEFINE T == {Ahead(d) : d \in FreePorts}
<1>1. ptnextid \in PortIds /\ NPORTS \in Nat \ {0}
  BY PortAssumption DEF PortsInv, PortsTypeOK
<1>2. \A d \in PortIds : Ahead(d) \in Nat
  BY <1>1 DEF Ahead, PortIds
<1>3. T \in SUBSET Nat /\ T # {}
  BY <1>2 DEF FreePorts
<1>4. PICK x \in T : \A y \in T : x <= y
  BY <1>3, LeastNatural
<1>5. PICK c \in FreePorts : x = Ahead(c)
  BY <1>4
<1>6. \A d \in FreePorts : Ahead(c) <= Ahead(d)
  BY <1>4, <1>5
<1>7. NewPort \in FreePorts
  BY <1>5, <1>6 DEF NewPort
<1>8. QED
  BY <1>7 DEF FreePorts

(* What is so of the semaphore s that a call of semcreate with n returned. *)
FreshSem(old, new, s, n) ==
  s # SYSERR => /\ s \in Sems /\ old[s].state = "S_FREE" /\ old[s].queue = <<>>
                /\ new[s] = [state |-> "S_USED", count |-> n, queue |-> <<>>]

LEMMA TwoNewSems ==
  ASSUME PortsInv, NEW n \in Nat, NEW ss \in NewSems(semtab),
         NEW rs \in NewSems(Semcreate(semtab, n, ss)), NEW new,
         new = Semcreate(Semcreate(semtab, n, ss), 0, rs)
  PROVE  /\ SemOK(new, Proc)
         /\ FreshSem(semtab, new, ss, n) /\ FreshSem(semtab, new, rs, 0)
         /\ ss = rs => ss = SYSERR
         /\ \A r \in Sems : r # ss /\ r # rs => new[r] = semtab[r]
<1>. DEFINE tab == Semcreate(semtab, n, ss)
<1>1. SemOK(semtab, Proc)
  BY DEF PortsInv, PortsTypeOK
<1>2. /\ SemOK(tab, Proc)
      /\ ss = SYSERR => tab = semtab
      /\ ss # SYSERR => /\ ss \in Sems /\ semtab[ss].state = "S_FREE" /\ semtab[ss].queue = <<>>
                        /\ tab[ss] = [state |-> "S_USED", count |-> n, queue |-> <<>>]
                        /\ OtherSems(semtab, tab, ss)
  BY <1>1, NewSemsOK
<1>. HIDE DEF tab
<1>3. 0 \in Nat /\ rs \in NewSems(tab) /\ new = Semcreate(tab, 0, rs)
  BY DEF tab
<1>4. /\ SemOK(new, Proc)
      /\ rs = SYSERR => new = tab
      /\ rs # SYSERR => /\ rs \in Sems /\ tab[rs].state = "S_FREE" /\ tab[rs].queue = <<>>
                        /\ new[rs] = [state |-> "S_USED", count |-> 0, queue |-> <<>>]
                        /\ OtherSems(tab, new, rs)
  BY <1>2, <1>3, NewSemsOK
<1>5. ss # SYSERR => tab[ss].state = "S_USED"
  BY <1>2
<1>6. ss = rs => ss = SYSERR
  BY <1>4, <1>5
<1>7. \A r \in Sems : r # ss => tab[r] = semtab[r]
  BY <1>2 DEF OtherSems
<1>8. \A r \in Sems : r # rs => new[r] = tab[r]
  BY <1>4 DEF OtherSems
<1>9. FreshSem(semtab, new, ss, n)
  BY <1>2, <1>6, <1>8 DEF FreshSem
<1>10. FreshSem(semtab, new, rs, 0)
  BY <1>4, <1>6, <1>7 DEF FreshSem
<1>11. QED
  BY <1>4, <1>6, <1>7, <1>8, <1>9, <1>10

LEMMA CreateInv ==
  ASSUME PortsInv, NEW p \in Proc, NEW n \in Nat, Ptcreate(p, n)
  PROVE  PortsInv'
<1>1. PICK c : c = NewPort
  OBVIOUS
<1>2. c \in PortIds /\ porttab[c].state = "PT_FREE" /\ ~Allocated(c)
  BY <1>1, NewPortIs DEF Ptcreate, Allocated
<1>3. PICK ss \in NewSems(semtab) : \E rs \in NewSems(Semcreate(semtab, n, ss)) :
         /\ semtab' = Semcreate(Semcreate(semtab, n, ss), 0, rs)
         /\ porttab' = [porttab EXCEPT ![c] =
              [state |-> "PT_ALLOC", ssem |-> ss, rsem |-> rs,
               maxcnt |-> Uint16(n), seq |-> porttab[c].seq + 1, msgs |-> <<>>]]
  BY <1>1 DEF Ptcreate
<1>4. PICK rs \in NewSems(Semcreate(semtab, n, ss)) :
         /\ semtab' = Semcreate(Semcreate(semtab, n, ss), 0, rs)
         /\ porttab' = [porttab EXCEPT ![c] =
              [state |-> "PT_ALLOC", ssem |-> ss, rsem |-> rs,
               maxcnt |-> Uint16(n), seq |-> porttab[c].seq + 1, msgs |-> <<>>]]
  BY <1>3
<1>5. /\ SemOK(semtab', Proc)
      /\ FreshSem(semtab, semtab', ss, n) /\ FreshSem(semtab, semtab', rs, 0)
      /\ ss = rs => ss = SYSERR
      /\ \A r \in Sems : r # ss /\ r # rs => semtab'[r] = semtab[r]
  BY <1>4, TwoNewSems
<1>6. ss \in Sems \cup {SYSERR} /\ rs \in Sems \cup {SYSERR}
  BY <1>5 DEF FreshSem
<1>7. /\ pc \in [Proc -> Call] /\ porttab \in [PortIds -> PortEntry]
      /\ \A q \in Proc : pc[q].port \in PortIds /\ pc[q].seq \in Nat
      /\ \A d \in PortIds : porttab[d].seq \in Nat
      /\ pc' = pc /\ ptfree' = ptfree /\ panicked' = panicked
  BY DEF PortsInv, PortsTypeOK, Call, PortEntry, Ptcreate
<1>8. Uint16(n) \in Nat
  BY DEF Uint16
<1>9. PICK e \in PortEntry :
        /\ porttab' = [porttab EXCEPT ![c] = e]
        /\ e.state = "PT_ALLOC" /\ e.ssem = ss /\ e.rsem = rs /\ e.maxcnt = Uint16(n)
        /\ e.seq = porttab[c].seq + 1 /\ e.msgs = <<>>
  <2>. DEFINE e == [state |-> "PT_ALLOC", ssem |-> ss, rsem |-> rs,
                    maxcnt |-> Uint16(n), seq |-> porttab[c].seq + 1, msgs |-> <<>>]
  <2>1. <<>> \in Seq(Message)
    BY EmptySeq
  <2>2. e \in PortEntry
    BY <1>2, <1>6, <1>7, <1>8, <2>1 DEF PortEntry
  <2>3. QED
    BY <1>4, <2>2
<1>10. /\ porttab' \in [PortIds -> PortEntry] /\ porttab'[c] = e
       /\ \A d \in PortIds : d # c => porttab'[d] = porttab[d]
  BY <1>2, <1>7, <1>9
<1>11. ptnextid' \in PortIds
  <2>1. ptnextid' = (c + 1) % NPORTS /\ c \in Nat /\ NPORTS \in Nat \ {0}
    BY <1>1, <1>2, PortAssumption DEF Ptcreate, PortIds
  <2>2. QED
    BY <2>1, ModIs DEF PortIds
<1>12. PortsTypeOK'
  BY <1>5, <1>7, <1>10, <1>11 DEF PortsTypeOK, PortsInv
<1>13. \A q \in Proc : pc[q].op \in Clearing => pc[q].port # c
  BY <1>2 DEF PortsInv, ClearOK
<1>14. ClearOK'
  BY <1>7, <1>10, <1>13 DEF PortsInv, ClearOK
<1>15. \A d \in PortIds : d # c => /\ Allocated(d)' <=> Allocated(d)
                                   /\ \A x \in Ops : SemOf(d, x)' = SemOf(d, x)
  BY <1>10 DEF Allocated, SemOf
<1>16. /\ Allocated(c)' /\ SemOf(c, "ptsend")' = ss /\ SemOf(c, "ptrecv")' = rs
       /\ porttab'[c].seq = porttab[c].seq + 1
  BY <1>9, <1>10 DEF Allocated, SemOf
<1>17. \A q \in Proc : pc[q].op \in Ops /\ pc[q].port = c => pc[q].seq < porttab[c].seq
  BY <1>2 DEF PortsInv, SeqOK
<1>18. SeqOK'
  <2>. SUFFICES ASSUME NEW q \in Proc, pc'[q].op \in Ops
       PROVE  /\ pc'[q].seq <= porttab'[pc'[q].port].seq
              /\ ~Allocated(pc[q].port)' => pc'[q].seq < porttab'[pc'[q].port].seq
              /\ SamePort(q)' => SemOf(pc[q].port, pc[q].op)' # SYSERR
    BY DEF SeqOK
  <2>1. CASE pc[q].port = c
    <3>1. pc[q].seq < porttab[c].seq
      BY <1>7, <1>17, <2>1
    <3>2. pc[q].seq < porttab'[c].seq /\ porttab'[c].seq \in Nat /\ pc[q].seq \in Nat
      BY <1>2, <1>7, <1>16, <3>1
    <3>3. ~SamePort(q)'
      BY <1>7, <2>1, <3>2 DEF SamePort
    <3>4. QED
      BY <1>7, <2>1, <3>2, <3>3
  <2>2. CASE pc[q].port # c
    BY <1>7, <1>10, <1>15, <2>2 DEF SamePort, PortsInv, SeqOK
  <2>3. QED
    BY <2>1, <2>2
<1>19. \A d \in PortIds, x \in Ops : d # c => (Holds(d, x)' <=> Holds(d, x))
  <2>1. \A q \in Proc, d \in PortIds, x \in Ops : KeepsSem(q, d, x)' <=> KeepsSem(q, d, x)
    BY <1>7 DEF KeepsSem
  <2>2. QED
    BY <1>15, <2>1 DEF Holds
<1>20. \A d \in PortIds, x \in Ops : Holds(d, x) /\ SemOf(d, x) # SYSERR =>
         SemOf(d, x) # ss /\ SemOf(d, x) # rs /\ semtab'[SemOf(d, x)] = semtab[SemOf(d, x)]
  <2>. TAKE d \in PortIds, x \in Ops
  <2>. HAVE Holds(d, x) /\ SemOf(d, x) # SYSERR
  <2>1. SemOf(d, x) \in Sems /\ semtab[SemOf(d, x)].state = "S_USED"
    BY SemOfType DEF PortsInv, OwnOK
  <2>2. SemOf(d, x) # ss /\ SemOf(d, x) # rs
    BY <1>5, <2>1 DEF FreshSem
  <2>3. QED
    BY <1>5, <2>1, <2>2
<1>21. OwnOK'
  <2>1. ASSUME NEW d \in PortIds, NEW x \in Ops, Holds(d, x)', SemOf(d, x)' # SYSERR
        PROVE  semtab'[SemOf(d, x)'].state = "S_USED"
    <3>1. CASE d = c
      <4>1. SemOf(d, x)' = ss \/ SemOf(d, x)' = rs
        BY <1>16, <3>1 DEF Ops
      <4>2. QED
        BY <1>5, <2>1, <4>1 DEF FreshSem
    <3>2. CASE d # c
      BY <1>15, <1>19, <1>20, <2>1, <3>2 DEF PortsInv, OwnOK
    <3>3. QED
      BY <3>1, <3>2
  <2>2. ASSUME NEW d \in PortIds, NEW f \in PortIds, NEW x \in Ops, NEW y \in Ops,
               Holds(d, x)', Holds(f, y)', SemOf(d, x)' = SemOf(f, y)', SemOf(d, x)' # SYSERR
        PROVE  d = f /\ x = y
    <3>1. CASE d # c /\ f # c
      BY <1>15, <1>19, <2>2, <3>1 DEF PortsInv, OwnOK
    <3>2. CASE d = c /\ f = c
      BY <1>5, <1>16, <2>2, <3>2 DEF Ops
    <3>3. ASSUME NEW g \in PortIds, NEW z \in Ops, g # c, Holds(g, z)', SemOf(g, z)' # SYSERR
          PROVE  SemOf(g, z)' # ss /\ SemOf(g, z)' # rs
      BY <1>15, <1>19, <1>20, <3>3
    <3>4. \A z \in Ops : SemOf(c, z)' \in {ss, rs}
      BY <1>16 DEF Ops
    <3>5. CASE d = c /\ f # c
      BY <2>2, <3>3, <3>4, <3>5
    <3>6. CASE d # c /\ f = c
      BY <2>2, <3>3, <3>4, <3>6
    <3>7. QED
      BY <3>1, <3>2, <3>5, <3>6
  <2>3. QED
    BY <2>1, <2>2 DEF OwnOK
<1>22. WaitOK'
  <2>. SUFFICES ASSUME NEW q \in Proc, NEW s \in Sems, q \in ToSet(semtab'[s].queue)
       PROVE  WaitsFor(q, s)'
    BY DEF WaitOK
  <2>1. s # ss /\ s # rs
    <3>1. s # SYSERR
      BY SemTableAssumption
    <3>2. ASSUME s = ss \/ s = rs PROVE FALSE
      <4>1. semtab'[s].queue = <<>>
        BY <1>5, <3>1, <3>2 DEF FreshSem
      <4>2. QED
        BY <4>1, NoneWaits
    <3>3. QED
      BY <3>2
  <2>2. WaitsFor(q, s)
    BY <1>5, <2>1 DEF PortsInv, WaitOK
  <2>3. pc[q].port # c
    BY <1>2, <1>13, <2>2 DEF WaitsFor, Holds, KeepsSem
  <2>4. SamePort(q)' <=> SamePort(q)
    BY <1>7, <1>10, <1>15, <2>3 DEF SamePort
  <2>5. QED
    BY <1>7, <1>10, <1>15, <1>19, <2>2, <2>3, <2>4 DEF WaitsFor
<1>23. EmptyOK'
  <2>. SUFFICES ASSUME NEW q \in Proc, pc[q].op \in {"receivers", "finish"},
                       pc[q].new = "PT_ALLOC"
       PROVE  ResetOK(q)'
    BY <1>7 DEF EmptyOK
  <2>1. pc[q].port # c /\ ResetOK(q) /\ pc[q].op \in Clearing
    BY <1>13 DEF Clearing, PortsInv, EmptyOK
  <2>2. \A x \in Ops : Holds(pc[q].port, x)
    BY <2>1 DEF Holds, KeepsSem
  <2>3. \A x \in Ops : SemOf(pc[q].port, x) # SYSERR =>
          semtab'[SemOf(pc[q].port, x)] = semtab[SemOf(pc[q].port, x)]
    BY <1>7, <1>20, <2>2
  <2>4. porttab'[pc[q].port] = porttab[pc[q].port]
    BY <1>7, <1>10, <2>1
  <2>5. QED
    BY <1>7, <2>1, <2>3, <2>4 DEF ResetOK, SemOf, Ops
<1>24. QED
  BY <1>12, <1>14, <1>18, <1>21, <1>22, <1>23 DEF PortsInv
-----------------------------------------------------------------------------
(* What the messages and places of a port are needed for.                  *)
Claimants(c, o) == {p \in Proc : pc[p].op = o /\ pc[p].port = c /\ SamePort(p) /\ ~Waiting(p)}

Prom(c, o) == Claims(c, o) + Left(semtab, SemOf(c, o))

LEMMA ClaimsAre ==
  ASSUME NEW c, NEW o
  PROVE  /\ Claims(c, o) = Cardinality(Claimants(c, o)) /\ Claims(c, o) \in Nat
         /\ IsFiniteSet(Claimants(c, o))
<1>1. Claimants(c, o) \in SUBSET Proc /\ IsFiniteSet(Proc)
  BY PortAssumption DEF Claimants
<1>2. Claims(c, o) = Cardinality(Claimants(c, o))
  BY DEF Claims, Claimants
<1>3. IsFiniteSet(Claimants(c, o))
  BY <1>1, FS_Subset
<1>4. QED
  BY <1>2, <1>3, FS_CardinalityType

LEMMA ClaimsNextAre ==
  ASSUME NEW c, NEW o
  PROVE  /\ Claims(c, o)' = Cardinality(Claimants(c, o)') /\ Claims(c, o)' \in Nat
         /\ IsFiniteSet(Claimants(c, o)')
<1>1. Claimants(c, o)' \in SUBSET Proc /\ IsFiniteSet(Proc)
  BY PortAssumption DEF Claimants
<1>2. Claims(c, o)' = Cardinality(Claimants(c, o)')
  BY DEF Claims, Claimants
<1>3. IsFiniteSet(Claimants(c, o)')
  BY <1>1, FS_Subset
<1>4. QED
  BY <1>2, <1>3, FS_CardinalityType

LEMMA LeftType ==
  ASSUME NEW U, NEW tab, SemOK(tab, U), NEW s \in Sems
  PROVE  Left(tab, s) \in Nat /\ tab[s].count \in Int
BY DEF SemOK, SemEntry, Left

(* No more is promised than before.                                        *)
LEMMA PromFewer ==
  ASSUME PortsInv, PortsInv', NEW c \in PortIds, NEW o \in Ops, SemOf(c, o) # SYSERR,
         SemOf(c, o)' = SemOf(c, o), Claimants(c, o)' \subseteq Claimants(c, o),
         semtab'[SemOf(c, o)].count <= semtab[SemOf(c, o)].count
           \/ semtab'[SemOf(c, o)].count <= 0
  PROVE  Prom(c, o)' <= Prom(c, o) /\ Prom(c, o) \in Nat /\ Prom(c, o)' \in Nat
<1>1. PICK s \in Sems : s = SemOf(c, o)
  BY SemOfType
<1>2. SemOK(semtab, Proc) /\ SemOK(semtab', Proc)
  BY DEF PortsInv, PortsTypeOK
<1>3. /\ Left(semtab, s) \in Nat /\ Left(semtab', s) \in Nat
      /\ semtab[s].count \in Int /\ semtab'[s].count \in Int
  BY <1>1, <1>2, LeftType
<1>4. Left(semtab', s) <= Left(semtab, s)
  BY <1>1, <1>3 DEF Left
<1>5. Claims(c, o)' <= Claims(c, o) /\ Claims(c, o) \in Nat /\ Claims(c, o)' \in Nat
  BY ClaimsAre, ClaimsNextAre, FS_Subset
<1>6. Prom(c, o)' = Claims(c, o)' + Left(semtab', s) /\ Prom(c, o) = Claims(c, o) + Left(semtab, s)
  BY <1>1 DEF Prom
<1>7. QED
  BY <1>3, <1>4, <1>5, <1>6

(* A unit is taken: by wait, or by a call that goes on.                    *)
LEMMA PromLess ==
  ASSUME PortsInv, PortsInv', NEW c \in PortIds, NEW o \in Ops, SemOf(c, o) # SYSERR,
         SemOf(c, o)' = SemOf(c, o),
         \/ /\ Claimants(c, o)' \subseteq Claimants(c, o)
            /\ semtab[SemOf(c, o)].count > 0
            /\ semtab'[SemOf(c, o)].count = semtab[SemOf(c, o)].count - 1
         \/ /\ \E p \in Claimants(c, o) : Claimants(c, o)' \subseteq Claimants(c, o) \ {p}
            /\ semtab'[SemOf(c, o)].count = semtab[SemOf(c, o)].count
  PROVE  Prom(c, o)' + 1 <= Prom(c, o) /\ Prom(c, o) \in Nat /\ Prom(c, o)' \in Nat
<1>1. PICK s \in Sems : s = SemOf(c, o)
  BY SemOfType
<1>2. SemOK(semtab, Proc) /\ SemOK(semtab', Proc)
  BY DEF PortsInv, PortsTypeOK
<1>3. /\ Left(semtab, s) \in Nat /\ Left(semtab', s) \in Nat
      /\ semtab[s].count \in Int /\ semtab'[s].count \in Int
  BY <1>1, <1>2, LeftType
<1>4. Claims(c, o) \in Nat /\ Claims(c, o)' \in Nat
  BY ClaimsAre, ClaimsNextAre
<1>5. Prom(c, o)' = Claims(c, o)' + Left(semtab', s) /\ Prom(c, o) = Claims(c, o) + Left(semtab, s)
  BY <1>1 DEF Prom
<1>6. CASE /\ Claimants(c, o)' \subseteq Claimants(c, o) /\ semtab[s].count > 0
           /\ semtab'[s].count = semtab[s].count - 1
  <2>1. Left(semtab', s) + 1 = Left(semtab, s)
    BY <1>3, <1>6 DEF Left
  <2>2. Claims(c, o)' <= Claims(c, o)
    BY <1>6, ClaimsAre, ClaimsNextAre, FS_Subset
  <2>3. QED
    BY <1>3, <1>4, <1>5, <2>1, <2>2
<1>7. CASE /\ \E p \in Claimants(c, o) : Claimants(c, o)' \subseteq Claimants(c, o) \ {p}
           /\ semtab'[s].count = semtab[s].count
  <2>1. PICK p \in Claimants(c, o) : Claimants(c, o)' \subseteq Claimants(c, o) \ {p}
    BY <1>7
  <2>2. Left(semtab', s) = Left(semtab, s)
    BY <1>7 DEF Left
  <2>3. /\ IsFiniteSet(Claimants(c, o) \ {p})
        /\ Cardinality(Claimants(c, o) \ {p}) = Cardinality(Claimants(c, o)) - 1
    BY <2>1, ClaimsAre, FS_RemoveElement
  <2>4. Cardinality(Claimants(c, o)') <= Cardinality(Claimants(c, o) \ {p})
    BY <2>1, <2>3, FS_Subset
  <2>5. Claims(c, o)' + 1 <= Claims(c, o)
    BY <1>4, <2>3, <2>4, ClaimsAre, ClaimsNextAre
  <2>6. QED
    BY <1>3, <1>4, <1>5, <2>2, <2>5
<1>8. QED
  BY <1>1, <1>6, <1>7

(* A unit is given: to the first who waits, or to a later call.            *)
LEMMA PromMore ==
  ASSUME PortsInv, PortsInv', NEW c \in PortIds, NEW o \in Ops, SemOf(c, o) # SYSERR,
         SemOf(c, o)' = SemOf(c, o),
         semtab'[SemOf(c, o)].count = semtab[SemOf(c, o)].count + 1,
         \/ /\ Claimants(c, o)' \subseteq Claimants(c, o)
            /\ semtab[SemOf(c, o)].count >= 0
         \/ /\ \E r \in Proc : Claimants(c, o)' \subseteq Claimants(c, o) \cup {r}
            /\ semtab[SemOf(c, o)].count < 0
  PROVE  Prom(c, o)' <= Prom(c, o) + 1 /\ Prom(c, o) \in Nat /\ Prom(c, o)' \in Nat
<1>1. PICK s \in Sems : s = SemOf(c, o)
  BY SemOfType
<1>2. SemOK(semtab, Proc) /\ SemOK(semtab', Proc)
  BY DEF PortsInv, PortsTypeOK
<1>3. /\ Left(semtab, s) \in Nat /\ Left(semtab', s) \in Nat
      /\ semtab[s].count \in Int /\ semtab'[s].count \in Int
  BY <1>1, <1>2, LeftType
<1>4. Claims(c, o) \in Nat /\ Claims(c, o)' \in Nat
  BY ClaimsAre, ClaimsNextAre
<1>5. Prom(c, o)' = Claims(c, o)' + Left(semtab', s) /\ Prom(c, o) = Claims(c, o) + Left(semtab, s)
  BY <1>1 DEF Prom
<1>6. CASE Claimants(c, o)' \subseteq Claimants(c, o) /\ semtab[s].count >= 0
  <2>1. Left(semtab', s) = Left(semtab, s) + 1
    BY <1>1, <1>3, <1>6 DEF Left
  <2>2. Claims(c, o)' <= Claims(c, o)
    BY <1>6, ClaimsAre, ClaimsNextAre, FS_Subset
  <2>3. QED
    BY <1>3, <1>4, <1>5, <2>1, <2>2
<1>7. CASE /\ \E r \in Proc : Claimants(c, o)' \subseteq Claimants(c, o) \cup {r}
           /\ semtab[s].count < 0
  <2>1. PICK r \in Proc : Claimants(c, o)' \subseteq Claimants(c, o) \cup {r}
    BY <1>7
  <2>2. Left(semtab', s) = 0 /\ Left(semtab, s) = 0
    BY <1>1, <1>3, <1>7 DEF Left
  <2>3. /\ IsFiniteSet(Claimants(c, o) \cup {r})
        /\ Cardinality(Claimants(c, o) \cup {r}) <= Cardinality(Claimants(c, o)) + 1
    <3>1. IsFiniteSet(Claimants(c, o)) /\ Cardinality(Claimants(c, o)) \in Nat
      BY ClaimsAre, FS_CardinalityType
    <3>2. PICK S : S = Claimants(c, o)
      OBVIOUS
    <3>3. /\ IsFiniteSet(S \cup {r})
          /\ Cardinality(S \cup {r}) = IF r \in S THEN Cardinality(S) ELSE Cardinality(S) + 1
      BY <3>1, <3>2, FS_AddElement
    <3>4. QED
      BY <3>1, <3>2, <3>3
  <2>4. Cardinality(Claimants(c, o)') <= Cardinality(Claimants(c, o) \cup {r})
    BY <2>1, <2>3, FS_Subset
  <2>5. Cardinality(Claimants(c, o) \cup {r}) \in Nat
    BY <2>3, FS_CardinalityType
  <2>6. Claims(c, o)' <= Claims(c, o) + 1
    BY <1>4, <2>3, <2>4, <2>5, ClaimsAre, ClaimsNextAre
  <2>7. QED
    BY <1>3, <1>4, <1>5, <2>2, <2>6
<1>8. QED
  BY <1>1, <1>6, <1>7
LEMMA ClaimantsKept ==
  ASSUME NEW d \in PortIds, NEW o \in Ops,
         Allocated(d)' => Allocated(d) /\ porttab'[d].seq = porttab[d].seq,
         \A q \in Proc : pc'[q].op = o /\ pc'[q].port = d =>
           (pc'[q] = pc[q] /\ (Waiting(q) => Waiting(q)')) \/ Waiting(q)'
  PROVE  Claimants(d, o)' \subseteq Claimants(d, o)
BY DEF Claimants, SamePort

(* Who is let go by a signal of the semaphore of o at port c.              *)
LEMMA SignalLetsGo ==
  ASSUME PortsInv, NEW c \in PortIds, NEW x \in Ops, Allocated(c), NEW tab, SemOK(tab, Proc),
         SameQueues(semtab, tab), semtab' = Signalled(tab, SemOf(c, x)),
         NEW q \in Proc, Waiting(q), ~Waiting(q)'
  PROVE  /\ SemOf(c, x) # SYSERR /\ SemOf(c, x) \in Sems
         /\ q \in ToSet(tab[SemOf(c, x)].queue) /\ q \notin ToSet(semtab'[SemOf(c, x)].queue)
         /\ pc[q].op = x /\ pc[q].port = c
<1>1. \A s \in Sems : s # SemOf(c, x) => semtab'[s] = tab[s]
  BY SignalOK
<1>2. PICK s \in Sems : q \in ToSet(semtab[s].queue)
  BY DEF Waiting, WaitsIn
<1>3. q \notin ToSet(semtab'[s].queue) /\ q \in ToSet(tab[s].queue)
  BY <1>2 DEF Waiting, WaitsIn, SameQueues
<1>4. s = SemOf(c, x)
  BY <1>1, <1>3
<1>5. pc[q].op \in Ops /\ s = SemOf(pc[q].port, pc[q].op) /\ Holds(pc[q].port, pc[q].op)
  BY <1>2 DEF PortsInv, WaitOK, WaitsFor
<1>6. Holds(c, x) /\ s # SYSERR /\ pc[q].port \in PortIds
  BY SemTableAssumption DEF Holds, PortsInv, PortsTypeOK, Call
<1>7. pc[q].op = x /\ pc[q].port = c
  BY <1>4, <1>5, <1>6 DEF PortsInv, OwnOK
<1>8. QED
  BY <1>3, <1>4, <1>6, <1>7

(* What a call of o on c does to the promises when it ends: one of its     *)
(* own kind is kept, and there is one more of the other kind.              *)
Passes(p, c, o, tab) ==
  /\ Allocated(c) /\ SemOf(c, o) # SYSERR
  /\ \/ tab = semtab /\ p \in Claimants(c, o) /\ pc' = [pc EXCEPT ![p] = Idle]
     \/ /\ semtab[SemOf(c, o)].count > 0 /\ tab = Waited(semtab, SemOf(c, o))
        /\ pc' = pc

LEMMA PassesCount ==
  ASSUME PortsInv, PortsInv', PortsKept, NEW p \in Proc, NEW c \in PortIds,
         NEW o \in Ops, NEW x \in Ops, o # x, NEW tab, Passes(p, c, o, tab),
         semtab' = Signalled(tab, SemOf(c, x))
  PROVE  /\ Prom(c, o)' + 1 <= Prom(c, o) /\ Prom(c, o) \in Nat /\ Prom(c, o)' \in Nat
         /\ SemOf(c, x) # SYSERR =>
              Prom(c, x)' <= Prom(c, x) + 1 /\ Prom(c, x) \in Nat /\ Prom(c, x)' \in Nat
         /\ \A d \in PortIds, y \in Ops : d # c /\ Allocated(d) /\ SemOf(d, y) # SYSERR =>
              Prom(d, y)' <= Prom(d, y) /\ Prom(d, y) \in Nat /\ Prom(d, y)' \in Nat
<1>1. TabFrom(tab, c, o) /\ Allocated(c) /\ SemOf(c, o) # SYSERR
  BY DEF Passes, TabFrom
<1>2. /\ SemOK(tab, Proc) /\ SameQueues(semtab, tab)
      /\ \A s \in Sems : s # SemOf(c, o) => tab[s] = semtab[s]
  BY <1>1, TabFromOK
<1>3. FewerWait(semtab, semtab') /\ \A s \in Sems : s # SemOf(c, x) => semtab'[s] = tab[s]
  BY <1>1, <1>2, SignalOK
<1>4. \A q \in Proc : Waiting(q)' => Waiting(q)
  BY <1>3 DEF FewerWait, Waiting, WaitsIn
<1>5. \A q \in Proc : Waiting(q) /\ ~Waiting(q)' => pc[q].op = x /\ pc[q].port = c
  BY <1>1, <1>2, SignalLetsGo
<1>6. pc \in [Proc -> Call] /\ "idle" \notin Ops
  BY DEF PortsInv, PortsTypeOK, Ops
<1>7. \A q \in Proc : pc'[q] = pc[q] \/ (q = p /\ pc'[q].op = "idle")
  BY <1>6, IdleIs DEF Passes
<1>8. \A d \in PortIds : /\ Allocated(d)' <=> Allocated(d)
                         /\ porttab'[d].seq = porttab[d].seq
                         /\ \A y \in Ops : SemOf(d, y)' = SemOf(d, y)
  BY DEF PortsKept, Allocated, SemOf
<1>9. \A d \in PortIds, y \in Ops : ~(d = c /\ y = x) =>
        Claimants(d, y)' \subseteq Claimants(d, y)
  <2>. TAKE d \in PortIds, y \in Ops
  <2>. HAVE ~(d = c /\ y = x)
  <2>1. ASSUME NEW q \in Proc, pc'[q].op = y, pc'[q].port = d
        PROVE  pc'[q] = pc[q] /\ (Waiting(q) => Waiting(q)')
    BY <1>5, <1>6, <1>7, <2>1
  <2>2. QED
    BY <1>8, <2>1, ClaimantsKept
<1>10. \A s \in Sems : s # SemOf(c, o) /\ s # SemOf(c, x) => semtab'[s] = semtab[s]
  BY <1>2, <1>3
<1>11. \A d \in PortIds, y \in Ops : Allocated(d) => Holds(d, y)
  BY DEF Holds
<1>12. SemOf(c, o) \in Sems /\ SemOf(c, o) # SemOf(c, x)
  BY <1>1, <1>11, SemOfType DEF PortsInv, OwnOK
<1>13. ASSUME NEW d \in PortIds, NEW y \in Ops, d # c, Allocated(d), SemOf(d, y) # SYSERR
       PROVE  Prom(d, y)' <= Prom(d, y) /\ Prom(d, y) \in Nat /\ Prom(d, y)' \in Nat
  <2>1. SemOf(d, y) # SemOf(c, o) /\ SemOf(d, y) # SemOf(c, x) /\ SemOf(d, y) \in Sems
    BY <1>1, <1>11, <1>13, SemOfType DEF PortsInv, OwnOK
  <2>2. semtab'[SemOf(d, y)].count = semtab[SemOf(d, y)].count
    BY <1>10, <2>1
  <2>3. semtab[SemOf(d, y)].count \in Int
    BY <2>1, LeftType DEF PortsInv, PortsTypeOK
  <2>4. QED
    BY <1>8, <1>9, <1>13, <2>2, <2>3, PromFewer
<1>14. Prom(c, o)' + 1 <= Prom(c, o) /\ Prom(c, o) \in Nat /\ Prom(c, o)' \in Nat
  <2>1. semtab'[SemOf(c, o)] = tab[SemOf(c, o)]
    BY <1>3, <1>12
  <2>2. Claimants(c, o)' \subseteq Claimants(c, o)
    BY <1>9
  <2>3. CASE tab = semtab /\ p \in Claimants(c, o) /\ pc' = [pc EXCEPT ![p] = Idle]
    <3>1. pc'[p].op = "idle"
      BY <1>6, <2>3, IdleIs
    <3>2. p \notin Claimants(c, o)'
      BY <1>6, <3>1 DEF Claimants
    <3>3. \E q \in Claimants(c, o) : Claimants(c, o)' \subseteq Claimants(c, o) \ {q}
      BY <2>2, <2>3, <3>2
    <3>4. QED
      BY <1>1, <1>8, <2>1, <2>3, <3>3, PromLess
  <2>4. CASE semtab[SemOf(c, o)].count > 0 /\ tab = Waited(semtab, SemOf(c, o)) /\ pc' = pc
    <3>1. semtab'[SemOf(c, o)].count = semtab[SemOf(c, o)].count - 1
      <4>1. semtab \in [Sems -> SemEntry(Proc)]
        BY DEF PortsInv, PortsTypeOK, SemOK
      <4>2. QED
        BY <1>12, <2>1, <2>4, <4>1 DEF Waited, SemEntry
    <3>2. QED
      BY <1>1, <1>8, <2>2, <2>4, <3>1, PromLess
  <2>5. QED
    BY <2>3, <2>4 DEF Passes
<1>15. ASSUME SemOf(c, x) # SYSERR
       PROVE  Prom(c, x)' <= Prom(c, x) + 1 /\ Prom(c, x) \in Nat /\ Prom(c, x)' \in Nat
  <2>1. PICK s \in Sems : s = SemOf(c, x)
    BY <1>15, SemOfType
  <2>2. tab[s] = semtab[s] /\ tab[s].state = "S_USED" /\ s # SYSERR
    BY <1>1, <1>2, <1>11, <1>12, <1>15, <2>1 DEF PortsInv, OwnOK
  <2>3. /\ semtab'[s].count = tab[s].count + 1
        /\ tab[s].count >= 0 => semtab'[s].queue = tab[s].queue
        /\ tab[s].count < 0 => \E r \in ToSet(tab[s].queue) :
                                 ToSet(semtab'[s].queue) = ToSet(tab[s].queue) \ {r}
    <3>1. semtab' = Signalled(tab, s)
      BY <2>1
    <3>2. /\ Signalled(tab, s)[s].count = tab[s].count + 1
          /\ tab[s].count >= 0 => Signalled(tab, s)[s].queue = tab[s].queue
          /\ tab[s].count < 0 => \E r \in ToSet(tab[s].queue) :
                                   ToSet(Signalled(tab, s)[s].queue) = ToSet(tab[s].queue) \ {r}
      BY <1>2, <2>2, SignalledOK
    <3>3. QED
      BY ONLY <3>1, <3>2
  <2>4. semtab[s].count \in Int
    BY <2>1, LeftType DEF PortsInv, PortsTypeOK
  <2>5. CASE semtab[s].count >= 0
    <3>1. \A q \in Proc : Waiting(q) => Waiting(q)'
      BY <1>1, <1>2, <2>1, <2>2, <2>3, <2>5, SignalLetsGo
    <3>2. Claimants(c, x)' \subseteq Claimants(c, x)
      <4>1. ASSUME NEW q \in Proc, pc'[q].op = x, pc'[q].port = c
            PROVE  pc'[q] = pc[q] /\ (Waiting(q) => Waiting(q)')
        BY <1>6, <1>7, <3>1, <4>1
      <4>2. QED
        BY <1>8, <4>1, ClaimantsKept
    <3>3. QED
      BY <1>8, <1>15, <2>1, <2>2, <2>3, <2>5, <3>2, PromMore
  <2>6. CASE semtab[s].count < 0
    <3>1. PICK r \in ToSet(tab[s].queue) : ToSet(semtab'[s].queue) = ToSet(tab[s].queue) \ {r}
      BY <2>2, <2>3, <2>6
    <3>2. r \in Proc
      BY <2>1, <1>2 DEF SemOK, SemEntry, ToSet
    <3>3. \A q \in Proc : q # r /\ Waiting(q) => Waiting(q)'
      BY <1>1, <1>2, <2>1, <3>1, SignalLetsGo
    <3>4. Claimants(c, x)' \subseteq Claimants(c, x) \cup {r}
      BY <1>6, <1>7, <1>8, <3>3 DEF Claimants, SamePort
    <3>5. QED
      BY <1>8, <1>15, <2>1, <2>2, <2>3, <2>6, <3>2, <3>4, PromMore
  <2>7. QED
    BY <2>4, <2>5, <2>6
<1>16. QED
  BY <1>13, <1>14, <1>15
-----------------------------------------------------------------------------
(* The counts passed to ptcreate fit ptmaxcnt, which has 16 bits: a larger *)
(* one is kept modulo 65536, while the semaphore gets all of it.           *)
CountsFit == \A n \in Sizes : n < 65536

RoomFor(c) ==
  Allocated(c) =>
    /\ SemOf(c, "ptrecv") # SYSERR => Prom(c, "ptrecv") <= Len(porttab[c].msgs)
    /\ CountsFit /\ SemOf(c, "ptsend") # SYSERR =>
         Len(porttab[c].msgs) + Prom(c, "ptsend") <= porttab[c].maxcnt

LEMMA RoomIs ==
  ASSUME PortsInv, CountsFit
  PROVE  RoomAndMessageForEach <=> \A c \in PortIds : RoomFor(c)
<1>1. SemOK(semtab, Proc) /\ "ptsend" \in Ops /\ "ptrecv" \in Ops
  BY DEF PortsInv, PortsTypeOK, Ops
<1>2. ASSUME NEW c \in PortIds
      PROVE  /\ SemOf(c, "ptrecv") = porttab[c].rsem /\ SemOf(c, "ptsend") = porttab[c].ssem
             /\ Prom(c, "ptrecv") = Claims(c, "ptrecv") + Left(semtab, porttab[c].rsem)
             /\ porttab[c].ssem # SYSERR =>
                  Len(porttab[c].msgs) + Prom(c, "ptsend")
                    = Len(porttab[c].msgs) + Claims(c, "ptsend") + Left(semtab, porttab[c].ssem)
  <2>1. SemOf(c, "ptrecv") = porttab[c].rsem /\ SemOf(c, "ptsend") = porttab[c].ssem
    BY DEF SemOf
  <2>2. Claims(c, "ptsend") \in Nat /\ Len(porttab[c].msgs) \in Nat
    BY ClaimsAre, MsgsType
  <2>3. porttab[c].ssem # SYSERR => Left(semtab, porttab[c].ssem) \in Nat
    BY <1>1, <2>1, LeftType, SemOfType
  <2>4. QED
    BY <2>1, <2>2, <2>3 DEF Prom
<1>3. ASSUME NEW c \in PortIds
      PROVE  RoomFor(c) <=>
               (Allocated(c) =>
                 /\ porttab[c].rsem # SYSERR =>
                      Claims(c, "ptrecv") + Left(semtab, porttab[c].rsem) <= Len(porttab[c].msgs)
                 /\ porttab[c].ssem # SYSERR =>
                      Len(porttab[c].msgs) + Claims(c, "ptsend") + Left(semtab, porttab[c].ssem)
                        <= porttab[c].maxcnt)
  BY <1>2 DEF RoomFor
<1>4. QED
  BY <1>3 DEF RoomAndMessageForEach

RoomOK == \A c \in PortIds : RoomFor(c)

(* No port has more messages than it was created for.                      *)
LenOK == CountsFit => \A c \in PortIds : Len(porttab[c].msgs) <= porttab[c].maxcnt

(* A step that takes nothing from port c and promises nothing of it.       *)
RoomSame(c) ==
  /\ Allocated(c)
  /\ porttab'[c].ssem = porttab[c].ssem /\ porttab'[c].rsem = porttab[c].rsem
  /\ porttab'[c].maxcnt = porttab[c].maxcnt /\ porttab'[c].msgs = porttab[c].msgs
  /\ porttab'[c].seq = porttab[c].seq
  /\ \A q \in Proc : pc'[q].op \in Ops /\ pc'[q].port = c =>
       (pc'[q] = pc[q] /\ (Waiting(q) => Waiting(q)')) \/ Waiting(q)'
  /\ \A o \in Ops : SemOf(c, o) # SYSERR =>
       semtab'[SemOf(c, o)].count <= semtab[SemOf(c, o)].count \/ semtab'[SemOf(c, o)].count <= 0

LEMMA RoomKept ==
  ASSUME PortsInv, PortsInv', NEW c \in PortIds, RoomSame(c), RoomFor(c)
  PROVE  RoomFor(c)'
<1>. USE DEF RoomSame
<1>1. \A o \in Ops : SemOf(c, o)' = SemOf(c, o)
  BY DEF SemOf
<1>2. \A o \in Ops : Claimants(c, o)' \subseteq Claimants(c, o)
  BY ClaimantsKept
<1>3. \A o \in Ops : SemOf(c, o) # SYSERR =>
        Prom(c, o)' <= Prom(c, o) /\ Prom(c, o) \in Nat /\ Prom(c, o)' \in Nat
  BY <1>1, <1>2, PromFewer
<1>4. "ptsend" \in Ops /\ "ptrecv" \in Ops /\ Len(porttab[c].msgs) \in Nat
      /\ porttab[c].maxcnt \in Nat
  BY MsgsType DEF Ops, PortsInv, PortsTypeOK, PortEntry
<1>5. SemOf(c, "ptrecv") # SYSERR => Prom(c, "ptrecv")' <= Len(porttab[c].msgs)
  BY <1>3, <1>4 DEF RoomFor
<1>6. CountsFit /\ SemOf(c, "ptsend") # SYSERR =>
        Len(porttab[c].msgs) + Prom(c, "ptsend")' <= porttab[c].maxcnt
  <2>. SUFFICES ASSUME CountsFit, SemOf(c, "ptsend") # SYSERR
       PROVE  Len(porttab[c].msgs) + Prom(c, "ptsend")' <= porttab[c].maxcnt
    OBVIOUS
  <2>1. Len(porttab[c].msgs) + Prom(c, "ptsend") <= porttab[c].maxcnt
    BY DEF RoomFor
  <2>2. Prom(c, "ptsend")' <= Prom(c, "ptsend") /\ Prom(c, "ptsend") \in Nat /\ Prom(c, "ptsend")' \in Nat
    BY <1>3, <1>4
  <2>3. QED
    BY <1>4, <2>1, <2>2
<1>7. QED
  BY <1>1, <1>4, <1>5, <1>6 DEF RoomFor

(* A port that has just been allocated, or reset.                          *)
LEMMA RoomFresh ==
  ASSUME PortsInv', NEW c \in PortIds, porttab'[c].msgs = <<>>,
         \A q \in Proc : pc'[q].op \in Ops /\ pc'[q].port = c => ~SamePort(q)',
         CountsFit /\ SemOf(c, "ptsend")' # SYSERR =>
           semtab'[SemOf(c, "ptsend")'].count <= porttab'[c].maxcnt,
         SemOf(c, "ptrecv")' # SYSERR => semtab'[SemOf(c, "ptrecv")'].count = 0
  PROVE  RoomFor(c)'
<1>1. \A o \in Ops : Claimants(c, o)' = {}
  BY DEF Claimants
<1>2. "ptsend" \in Ops /\ "ptrecv" \in Ops
  BY DEF Ops
<1>3. Claims(c, "ptsend")' = 0 /\ Claims(c, "ptrecv")' = 0
  BY <1>1, <1>2, ClaimsNextAre, FS_EmptySet
<1>4. Len(porttab'[c].msgs) = 0 /\ porttab'[c].maxcnt \in Nat
  BY EmptySeq DEF PortsInv, PortsTypeOK, PortEntry
<1>5. \A o \in Ops : SemOf(c, o)' # SYSERR => semtab'[SemOf(c, o)'].count \in Int
  BY DEF PortsInv, PortsTypeOK, PortEntry, SemOf, SemOK, SemEntry
<1>6. SemOf(c, "ptrecv")' # SYSERR => Prom(c, "ptrecv")' = 0
  BY <1>3 DEF Prom, Left
<1>7. CountsFit /\ SemOf(c, "ptsend")' # SYSERR =>
        Prom(c, "ptsend")' \in Nat /\ Prom(c, "ptsend")' <= porttab'[c].maxcnt
  <2>. SUFFICES ASSUME CountsFit, SemOf(c, "ptsend")' # SYSERR
       PROVE  Prom(c, "ptsend")' \in Nat /\ Prom(c, "ptsend")' <= porttab'[c].maxcnt
    OBVIOUS
  <2>1. PICK n \in Int : n = semtab'[SemOf(c, "ptsend")'].count
    BY <1>2, <1>5
  <2>2. Prom(c, "ptsend")' = 0 + (IF n > 0 THEN n ELSE 0)
    BY <1>3, <2>1 DEF Prom, Left
  <2>3. QED
    BY <1>4, <2>1, <2>2
<1>8. QED
  BY <1>4, <1>6, <1>7 DEF RoomFor
LEMMA EnqueueRoom ==
  ASSUME PortsInv, PortsInv', RoomOK, LenOK, NEW p \in Proc, NEW c \in PortIds,
         NEW msg \in Message, NEW tab, Passes(p, c, "ptsend", tab), Enqueue(c, msg, tab),
         ptfree # 0
  PROVE  /\ RoomOK' /\ LenOK' /\ (CountsFit => Len(porttab[c].msgs) < porttab[c].maxcnt)
         /\ Len(porttab'[c].msgs) = Len(porttab[c].msgs) + 1
         /\ \A d \in PortIds : d # c => porttab'[d] = porttab[d]
<1>1. /\ porttab[c].msgs \in Seq(Message) /\ Len(porttab[c].msgs) \in Nat
      /\ porttab[c].maxcnt \in Nat /\ Allocated(c) /\ SemOf(c, "ptsend") # SYSERR
      /\ SemOf(c, "ptrecv") = porttab[c].rsem /\ porttab \in [PortIds -> PortEntry]
  BY MsgsType DEF Passes, SemOf, PortsInv, PortsTypeOK, PortEntry
<1>2. PICK m \in Seq(Message) : m = Append(porttab[c].msgs, msg)
  <2>1. Append(porttab[c].msgs, msg) \in Seq(Message)
    BY <1>1
  <2>2. QED
    BY <2>1
<1>3. porttab' = [porttab EXCEPT ![c].msgs = m] /\ semtab' = Signalled(tab, SemOf(c, "ptrecv"))
  BY <1>1, <1>2 DEF Enqueue
<1>4. PortsKept
  BY <1>1, <1>3, MsgsKept
<1>5. /\ porttab'[c].msgs = m /\ Len(m) = Len(porttab[c].msgs) + 1
      /\ \A d \in PortIds : d # c => porttab'[d] = porttab[d]
  BY <1>1, <1>2, <1>3 DEF PortEntry
<1>6. "ptsend" \in Ops /\ "ptrecv" \in Ops
  BY DEF Ops
<1>7. /\ Prom(c, "ptsend")' + 1 <= Prom(c, "ptsend") /\ Prom(c, "ptsend") \in Nat
      /\ Prom(c, "ptsend")' \in Nat
      /\ SemOf(c, "ptrecv") # SYSERR =>
           Prom(c, "ptrecv")' <= Prom(c, "ptrecv") + 1 /\ Prom(c, "ptrecv") \in Nat
             /\ Prom(c, "ptrecv")' \in Nat
      /\ \A d \in PortIds, y \in Ops : d # c /\ Allocated(d) /\ SemOf(d, y) # SYSERR =>
           Prom(d, y)' <= Prom(d, y) /\ Prom(d, y) \in Nat /\ Prom(d, y)' \in Nat
  BY <1>3, <1>4, <1>6, PassesCount
<1>8. CountsFit => Len(porttab[c].msgs) + Prom(c, "ptsend") <= porttab[c].maxcnt
  BY <1>1 DEF RoomOK, RoomFor
<1>9. CountsFit => Len(porttab[c].msgs) < porttab[c].maxcnt
  BY <1>1, <1>7, <1>8
<1>10. LenOK'
  BY <1>1, <1>4, <1>5, <1>9 DEF LenOK, PortsKept
<1>11. ASSUME NEW d \in PortIds PROVE RoomFor(d)'
  <2>1. /\ Allocated(d)' <=> Allocated(d)
        /\ \A y \in Ops : SemOf(d, y)' = SemOf(d, y)
        /\ porttab'[d].maxcnt = porttab[d].maxcnt /\ porttab[d].maxcnt \in Nat
        /\ Len(porttab[d].msgs) \in Nat
    BY <1>1, <1>4, MsgsType DEF PortsKept, Allocated, SemOf, PortEntry
  <2>2. CASE d = c
    <3>1. SemOf(c, "ptrecv") # SYSERR => Prom(c, "ptrecv")' <= Len(m)
      <4>1. SemOf(c, "ptrecv") # SYSERR => Prom(c, "ptrecv") <= Len(porttab[c].msgs)
        BY <1>1 DEF RoomOK, RoomFor
      <4>2. QED
        BY <1>1, <1>5, <1>7, <4>1
    <3>2. CountsFit => Len(m) + Prom(c, "ptsend")' <= porttab[c].maxcnt
      BY <1>1, <1>5, <1>7, <1>8
    <3>3. QED
      BY <1>5, <1>6, <2>1, <2>2, <3>1, <3>2 DEF RoomFor
  <2>3. CASE d # c
    <3>. SUFFICES ASSUME Allocated(d) PROVE RoomFor(d)'
      BY <2>1 DEF RoomFor
    <3>1. /\ SemOf(d, "ptrecv") # SYSERR => Prom(d, "ptrecv") <= Len(porttab[d].msgs)
          /\ CountsFit /\ SemOf(d, "ptsend") # SYSERR =>
               Len(porttab[d].msgs) + Prom(d, "ptsend") <= porttab[d].maxcnt
      BY DEF RoomOK, RoomFor
    <3>2. porttab'[d].msgs = porttab[d].msgs
      BY <1>5, <2>3
    <3>3. SemOf(d, "ptrecv") # SYSERR => Prom(d, "ptrecv")' <= Len(porttab[d].msgs)
      BY <1>6, <1>7, <2>1, <2>3, <3>1
    <3>4. CountsFit /\ SemOf(d, "ptsend") # SYSERR =>
            Len(porttab[d].msgs) + Prom(d, "ptsend")' <= porttab[d].maxcnt
      BY <1>6, <1>7, <2>1, <2>3, <3>1
    <3>5. QED
      BY <1>6, <2>1, <3>2, <3>3, <3>4 DEF RoomFor
  <2>4. QED
    BY <2>2, <2>3
<1>12. QED
  BY <1>5, <1>9, <1>10, <1>11 DEF RoomOK

LEMMA DequeueRoom ==
  ASSUME PortsInv, PortsInv', RoomOK, LenOK, NEW p \in Proc, NEW c \in PortIds,
         NEW tab, Passes(p, c, "ptrecv", tab), Dequeue(c, tab), porttab[c].msgs # <<>>
  PROVE  /\ RoomOK' /\ LenOK'
         /\ Len(porttab'[c].msgs) + 1 = Len(porttab[c].msgs)
         /\ \A d \in PortIds : d # c => porttab'[d] = porttab[d]
<1>1. /\ porttab[c].msgs \in Seq(Message) /\ Len(porttab[c].msgs) \in Nat
      /\ porttab[c].maxcnt \in Nat /\ Allocated(c) /\ SemOf(c, "ptrecv") # SYSERR
      /\ SemOf(c, "ptsend") = porttab[c].ssem /\ porttab \in [PortIds -> PortEntry]
  BY MsgsType DEF Passes, SemOf, PortsInv, PortsTypeOK, PortEntry
<1>2. PICK m \in Seq(Message) : m = Tail(porttab[c].msgs) /\ Len(m) + 1 = Len(porttab[c].msgs)
  <2>1. /\ Tail(porttab[c].msgs) \in Seq(Message)
        /\ Len(Tail(porttab[c].msgs)) + 1 = Len(porttab[c].msgs)
    BY <1>1
  <2>2. QED
    BY <2>1
<1>3. porttab' = [porttab EXCEPT ![c].msgs = m] /\ semtab' = Signalled(tab, SemOf(c, "ptsend"))
  BY <1>1, <1>2 DEF Dequeue
<1>4. PortsKept
  BY <1>1, <1>3, MsgsKept
<1>5. /\ porttab'[c].msgs = m /\ Len(m) + 1 = Len(porttab[c].msgs) /\ Len(m) \in Nat
      /\ \A d \in PortIds : d # c => porttab'[d] = porttab[d]
  BY <1>1, <1>2, <1>3 DEF PortEntry
<1>6. "ptsend" \in Ops /\ "ptrecv" \in Ops
  BY DEF Ops
<1>7. /\ Prom(c, "ptrecv")' + 1 <= Prom(c, "ptrecv") /\ Prom(c, "ptrecv") \in Nat
      /\ Prom(c, "ptrecv")' \in Nat
      /\ SemOf(c, "ptsend") # SYSERR =>
           Prom(c, "ptsend")' <= Prom(c, "ptsend") + 1 /\ Prom(c, "ptsend") \in Nat
             /\ Prom(c, "ptsend")' \in Nat
      /\ \A d \in PortIds, y \in Ops : d # c /\ Allocated(d) /\ SemOf(d, y) # SYSERR =>
           Prom(d, y)' <= Prom(d, y) /\ Prom(d, y) \in Nat /\ Prom(d, y)' \in Nat
  BY <1>3, <1>4, <1>6, PassesCount
<1>8. Prom(c, "ptrecv") <= Len(porttab[c].msgs)
  BY <1>1 DEF RoomOK, RoomFor
<1>10. LenOK'
  BY <1>1, <1>4, <1>5 DEF LenOK, PortsKept
<1>11. ASSUME NEW d \in PortIds PROVE RoomFor(d)'
  <2>1. /\ Allocated(d)' <=> Allocated(d)
        /\ \A y \in Ops : SemOf(d, y)' = SemOf(d, y)
        /\ porttab'[d].maxcnt = porttab[d].maxcnt /\ porttab[d].maxcnt \in Nat
        /\ Len(porttab[d].msgs) \in Nat
    BY <1>1, <1>4, MsgsType DEF PortsKept, Allocated, SemOf, PortEntry
  <2>2. CASE d = c
    <3>1. Prom(c, "ptrecv")' <= Len(m)
      BY <1>1, <1>5, <1>7, <1>8
    <3>2. CountsFit /\ SemOf(c, "ptsend") # SYSERR => Len(m) + Prom(c, "ptsend")' <= porttab[c].maxcnt
      <4>1. CountsFit /\ SemOf(c, "ptsend") # SYSERR =>
              Len(porttab[c].msgs) + Prom(c, "ptsend") <= porttab[c].maxcnt
        BY <1>1 DEF RoomOK, RoomFor
      <4>2. QED
        BY <1>1, <1>5, <1>7, <4>1
    <3>3. QED
      BY <1>5, <1>6, <2>1, <2>2, <3>1, <3>2 DEF RoomFor
  <2>3. CASE d # c
    <3>. SUFFICES ASSUME Allocated(d) PROVE RoomFor(d)'
      BY <2>1 DEF RoomFor
    <3>1. /\ SemOf(d, "ptrecv") # SYSERR => Prom(d, "ptrecv") <= Len(porttab[d].msgs)
          /\ CountsFit /\ SemOf(d, "ptsend") # SYSERR =>
               Len(porttab[d].msgs) + Prom(d, "ptsend") <= porttab[d].maxcnt
      BY DEF RoomOK, RoomFor
    <3>2. porttab'[d].msgs = porttab[d].msgs
      BY <1>5, <2>3
    <3>3. SemOf(d, "ptrecv") # SYSERR => Prom(d, "ptrecv")' <= Len(porttab[d].msgs)
      BY <1>6, <1>7, <2>1, <2>3, <3>1
    <3>4. CountsFit /\ SemOf(d, "ptsend") # SYSERR =>
            Len(porttab[d].msgs) + Prom(d, "ptsend")' <= porttab[d].maxcnt
      BY <1>6, <1>7, <2>1, <2>3, <3>1
    <3>5. QED
      BY <1>6, <2>1, <3>2, <3>3, <3>4 DEF RoomFor
  <2>4. QED
    BY <2>2, <2>3
<1>12. QED
  BY <1>5, <1>10, <1>11 DEF RoomOK
-----------------------------------------------------------------------------
(* How many nodes each port owns.                                          *)
Owned == [c \in PortIds |-> IF OwnsNodes(c) THEN Len(porttab[c].msgs) ELSE 0]

NodesOK == ptfree + Cardinality(Tally(Owned, PortIds)) = PT_MSGS

PanicOK ==
  CountsFit /\ panicked =>
    Cardinality(NodesOf([c \in PortIds |-> porttab[c].maxcnt])) > PT_MSGS

LEMMA PortIdsFinite == IsFiniteSet(PortIds)
<1>1. 0 \in Int /\ NPORTS - 1 \in Int
  BY PortAssumption
<1>2. QED
  BY <1>1, FS_Interval DEF PortIds

LEMMA NodesAre ==
  ASSUME NEW f, \A c \in PortIds : f[c] \in Nat, NEW g,
         \A c \in PortIds : g[c] = IF OwnsNodes(c) THEN f[c] ELSE 0
  PROVE  NodesOf(f) = Tally(g, PortIds)
<1>1. NodesOf(f) \subseteq Tally(g, PortIds)
  BY DEF NodesOf, Tally, Owners
<1>2. \A c \in PortIds : ~OwnsNodes(c) => 1..g[c] = {}
  OBVIOUS
<1>3. Tally(g, PortIds) \subseteq NodesOf(f)
  BY <1>2 DEF NodesOf, Tally, Owners
<1>4. QED
  BY <1>1, <1>3

LEMMA OwnedType ==
  ASSUME PortsInv
  PROVE  \A c \in PortIds : /\ Owned[c] \in Nat
                            /\ Owned[c] = IF OwnsNodes(c) THEN Len(porttab[c].msgs) ELSE 0
BY MsgsType DEF Owned

LEMMA OwnedNextType ==
  ASSUME PortsInv'
  PROVE  \A c \in PortIds : /\ Owned'[c] \in Nat
                            /\ Owned'[c] = IF OwnsNodes(c)' THEN Len(porttab'[c].msgs) ELSE 0
<1>1. \A c \in PortIds : porttab'[c].msgs \in Seq(Message)
  BY DEF PortsInv, PortsTypeOK, PortEntry
<1>2. \A c \in PortIds : Len(porttab'[c].msgs) \in Nat
  BY <1>1
<1>3. QED
  BY <1>2 DEF Owned

(* A step after which only port c can own more or fewer nodes.             *)
OnlyOwner(c) == \A d \in PortIds \ {c} : Owned'[d] = Owned[d]

LEMMA NodesMove ==
  ASSUME PortsInv, PortsInv', NodesOK, NEW c \in PortIds, OnlyOwner(c),
         ptfree' + Owned'[c] = ptfree + Owned[c]
  PROVE  NodesOK'
<1>1. ChangesAt(Owned, Owned', PortIds, c)
  BY PortIdsFinite, OwnedType, OwnedNextType DEF ChangesAt, OnlyOwner
<1>2. Cardinality(Tally(Owned', PortIds))
        = Cardinality(Tally(Owned, PortIds)) - Owned[c] + Owned'[c]
  BY <1>1, TallyChange
<1>3. Cardinality(Tally(Owned, PortIds)) \in Nat
  BY PortIdsFinite, OwnedType, TallyFinite
<1>4. Owned[c] \in Nat /\ Owned'[c] \in Nat /\ ptfree \in Nat /\ ptfree' \in Nat /\ PT_MSGS \in Nat
  BY OwnedType, OwnedNextType, PortAssumption DEF PortsInv, PortsTypeOK
<1>5. QED
  BY <1>2, <1>3, <1>4 DEF NodesOK

LEMMA NodesSame ==
  ASSUME PortsInv, PortsInv', NodesOK, ptfree' = ptfree, \A d \in PortIds : Owned'[d] = Owned[d]
  PROVE  NodesOK'
<1>1. 0 \in PortIds
  BY PortAssumption DEF PortIds
<1>2. ptfree' + Owned'[0] = ptfree + Owned[0] /\ OnlyOwner(0)
  BY <1>1 DEF OnlyOwner
<1>3. QED
  BY <1>1, <1>2, NodesMove

(* ptsend finds no node: the ports must have been created for more         *)
(* messages than there are nodes.                                          *)
LEMMA NoNodeLeft ==
  ASSUME PortsInv, NodesOK, LenOK, CountsFit, ptfree = 0, NEW c \in PortIds, OwnsNodes(c),
         Len(porttab[c].msgs) < porttab[c].maxcnt
  PROVE  Cardinality(NodesOf([d \in PortIds |-> porttab[d].maxcnt])) > PT_MSGS
<1>. DEFINE f == [d \in PortIds |-> porttab[d].maxcnt]
            g == [d \in PortIds |-> IF OwnsNodes(d) THEN porttab[d].maxcnt ELSE 0]
<1>1. \A d \in PortIds : porttab[d].maxcnt \in Nat /\ Len(porttab[d].msgs) \in Nat
  BY MsgsType DEF PortsInv, PortsTypeOK, PortEntry
<1>2. /\ \A d \in PortIds : f[d] \in Nat /\ g[d] \in Nat
      /\ \A d \in PortIds : g[d] = IF OwnsNodes(d) THEN f[d] ELSE 0
      /\ \A d \in PortIds : Owned[d] <= g[d] /\ Owned[d] \in Nat
      /\ Owned[c] < g[c]
  BY <1>1, OwnedType DEF LenOK
<1>. HIDE DEF f, g
<1>3. NodesOf(f) = Tally(g, PortIds)
  BY <1>2, NodesAre
<1>4. IsFiniteSet(Tally(g, PortIds)) /\ Cardinality(Tally(g, PortIds)) \in Nat
  BY <1>2, PortIdsFinite, TallyFinite
<1>5. Tally(Owned, PortIds) \subseteq Tally(g, PortIds)
  <2>1. \A d \in PortIds : 1..Owned[d] \subseteq 1..g[d]
    BY <1>2
  <2>2. QED
    BY <2>1 DEF Tally
<1>6. <<c, g[c]>> \in Tally(g, PortIds)
  <2>1. g[c] \in 1..g[c]
    BY <1>2
  <2>2. QED
    BY <2>1 DEF Tally
<1>7. <<c, g[c]>> \notin Tally(Owned, PortIds)
  <2>1. g[c] \notin 1..Owned[c]
    BY <1>2
  <2>2. QED
    BY <2>1 DEF Tally
<1>8. /\ Cardinality(Tally(Owned, PortIds)) <= Cardinality(Tally(g, PortIds))
      /\ Cardinality(Tally(g, PortIds)) # Cardinality(Tally(Owned, PortIds))
  BY <1>4, <1>5, <1>6, <1>7, FS_Subset
<1>9. Cardinality(Tally(Owned, PortIds)) = PT_MSGS /\ PT_MSGS \in Nat
  <2>1. Cardinality(Tally(Owned, PortIds)) \in Nat
    BY PortIdsFinite, OwnedType, TallyFinite
  <2>2. QED
    BY <2>1, PortAssumption DEF NodesOK
<1>10. QED
  BY <1>3, <1>4, <1>8, <1>9 DEF f
-----------------------------------------------------------------------------
PInv == PortsInv /\ RoomOK /\ LenOK /\ NodesOK /\ PanicOK

LEMMA OwnsKept ==
  ASSUME PortsInv, PortsKept,
         \A q \in Proc : /\ pc'[q].op = "dispose" <=> pc[q].op = "dispose"
                         /\ pc[q].op = "dispose" => pc'[q].port = pc[q].port
  PROVE  \A d \in PortIds : OwnsNodes(d)' <=> OwnsNodes(d)
BY DEF OwnsNodes, PortsKept, Allocated

LEMMA CallDoneOwns ==
  ASSUME PortsInv, PortsKept, NEW p \in Proc, CallDone(p)
  PROVE  \A d \in PortIds : OwnsNodes(d)' <=> OwnsNodes(d)
<1>1. pc \in [Proc -> Call]
  BY DEF PortsInv, PortsTypeOK
<1>2. ASSUME NEW q \in Proc
      PROVE  /\ pc'[q].op = "dispose" <=> pc[q].op = "dispose"
             /\ pc[q].op = "dispose" => pc'[q].port = pc[q].port
  BY <1>1, IdleIs DEF CallDone, Ops
<1>3. QED
  BY <1>2, OwnsKept

LEMMA PassesDone ==
  ASSUME PortsInv, NEW p \in Proc, NEW c \in PortIds, NEW o \in Ops, NEW tab, Passes(p, c, o, tab)
  PROVE  CallDone(p) /\ TabFrom(tab, c, o) /\ Allocated(c) /\ Prom(c, o) >= 1
<1>1. CallDone(p) /\ TabFrom(tab, c, o) /\ Allocated(c) /\ SemOf(c, o) # SYSERR
  BY DEF Passes, CallDone, TabFrom, Claimants
<1>2. PICK s \in Sems : s = SemOf(c, o)
  BY <1>1, SemOfType
<1>3. Left(semtab, s) \in Nat /\ semtab[s].count \in Int
  BY <1>2, LeftType DEF PortsInv, PortsTypeOK
<1>4. Claims(c, o) \in Nat /\ Claims(c, o) = Cardinality(Claimants(c, o)) /\ IsFiniteSet(Claimants(c, o))
  BY ClaimsAre
<1>5. CASE p \in Claimants(c, o)
  <2>1. Claims(c, o) # 0
    BY <1>4, <1>5, FS_EmptySet
  <2>2. QED
    BY <1>1, <1>2, <1>3, <1>4, <2>1 DEF Prom
<1>6. CASE semtab[s].count > 0
  <2>1. Left(semtab, s) >= 1
    BY <1>3, <1>6 DEF Left
  <2>2. QED
    BY <1>1, <1>2, <1>3, <1>4, <2>1 DEF Prom
<1>7. QED
  BY <1>2, <1>5, <1>6 DEF Passes

LEMMA PanicKept ==
  ASSUME panicked' = FALSE
  PROVE  PanicOK'
BY DEF PanicOK

LEMMA EnqueueAll ==
  ASSUME PInv, NEW p \in Proc, NEW c \in PortIds, NEW msg \in Message, NEW tab,
         Passes(p, c, "ptsend", tab), Enqueue(c, msg, tab), ptnextid' = ptnextid, ~panicked
  PROVE  PInv'
<1>. USE DEF PInv
<1>1. "ptsend" \in Ops /\ "ptrecv" \in Ops
  BY DEF Ops
<1>2. CallDone(p) /\ TabFrom(tab, c, "ptsend") /\ Allocated(c) /\ Prom(c, "ptsend") >= 1
  BY <1>1, PassesDone
<1>3. PortsInv'
  BY <1>2, EnqueueInv
<1>4. ptfree \in Nat /\ pc \in [Proc -> Call] /\ panicked \in BOOLEAN /\ Len(porttab[c].msgs) \in Nat
  BY MsgsType DEF PortsInv, PortsTypeOK
<1>5. CASE ptfree = 0
  <2>1. porttab' = porttab /\ ptfree' = ptfree /\ panicked' = TRUE /\ semtab' = tab
    BY <1>5 DEF Enqueue
  <2>2. PortsKept
    BY <2>1, SamePortsKept
  <2>3. \A d \in PortIds : OwnsNodes(d)' <=> OwnsNodes(d)
    BY <1>2, <2>2, CallDoneOwns
  <2>4. NodesOK'
    <3>1. \A d \in PortIds : Owned'[d] = Owned[d]
      BY <1>3, <2>1, <2>3, OwnedType, OwnedNextType
    <3>2. QED
      BY <1>3, <2>1, <3>1, NodesSame
  <2>5. LenOK'
    BY <2>1 DEF LenOK
  <2>6. /\ SameQueues(semtab, tab)
        /\ \A s \in Sems : s # SemOf(c, "ptsend") => tab[s] = semtab[s]
        /\ tab # semtab => tab[SemOf(c, "ptsend")].count = semtab[SemOf(c, "ptsend")].count - 1
    BY <1>1, <1>2, TabFromOK
  <2>7. \A s \in Sems : tab[s].count <= semtab[s].count
    <3>1. \A s \in Sems : semtab[s].count \in Int
      BY LeftType DEF PortsInv, PortsTypeOK
    <3>2. QED
      BY <2>6, <3>1
  <2>8. \A q \in Proc : Waiting(q)' <=> Waiting(q)
    BY <2>1, <2>6 DEF Waiting, WaitsIn, SameQueues
  <2>9. ASSUME NEW d \in PortIds, Allocated(d) PROVE RoomSame(d)
    <3>1. \A q \in Proc : pc'[q].op \in Ops => pc'[q] = pc[q]
      BY <1>2, <1>4, IdleIs DEF CallDone, Ops
    <3>2. \A y \in Ops : SemOf(d, y) # SYSERR =>
            semtab'[SemOf(d, y)].count <= semtab[SemOf(d, y)].count
      BY <2>1, <2>7, SemOfType
    <3>3. QED
      BY <2>1, <2>8, <2>9, <3>1, <3>2 DEF RoomSame
  <2>10. RoomOK'
    <3>1. ASSUME NEW d \in PortIds PROVE RoomFor(d)'
      <4>1. CASE Allocated(d)
        BY <1>3, <2>9, <4>1, RoomKept DEF RoomOK
      <4>2. CASE ~Allocated(d)
        BY <2>1, <4>2 DEF RoomFor, Allocated
      <4>3. QED
        BY <4>1, <4>2
    <3>2. QED
      BY <3>1 DEF RoomOK
  <2>11. PanicOK'
    <3>. SUFFICES ASSUME CountsFit PROVE PanicOK'
      BY DEF PanicOK
    <3>1. SemOf(c, "ptsend") # SYSERR /\ Prom(c, "ptsend") \in Nat
      BY <1>1, SemOfType, LeftType, ClaimsAre DEF Passes, Prom, PortsInv, PortsTypeOK
    <3>2. Len(porttab[c].msgs) < porttab[c].maxcnt
      <4>1. Len(porttab[c].msgs) + Prom(c, "ptsend") <= porttab[c].maxcnt
        BY <1>2, <3>1 DEF RoomOK, RoomFor
      <4>2. porttab[c].maxcnt \in Nat
        BY DEF PortsInv, PortsTypeOK, PortEntry
      <4>3. QED
        BY <1>2, <1>4, <3>1, <4>1, <4>2
    <3>3. OwnsNodes(c)
      BY <1>2 DEF OwnsNodes
    <3>4. Cardinality(NodesOf([d \in PortIds |-> porttab[d].maxcnt])) > PT_MSGS
      BY <1>5, <3>2, <3>3, NoNodeLeft
    <3>5. NodesOf([d \in PortIds |-> porttab[d].maxcnt])' = NodesOf([d \in PortIds |-> porttab[d].maxcnt])
      BY <2>1, <2>3 DEF NodesOf, Owners
    <3>6. QED
      BY <3>4, <3>5 DEF PanicOK
  <2>12. QED
    BY <1>3, <2>4, <2>5, <2>10, <2>11
<1>6. CASE ptfree # 0
  <2>1. /\ RoomOK' /\ LenOK' /\ Len(porttab'[c].msgs) = Len(porttab[c].msgs) + 1
        /\ \A d \in PortIds : d # c => porttab'[d] = porttab[d]
    BY <1>3, <1>6, EnqueueRoom
  <2>2. ptfree' = ptfree - 1 /\ panicked' = FALSE
    BY <1>4, <1>6 DEF Enqueue
  <2>3. PortsKept
    <3>1. PICK m \in Seq(Message) : m = Append(porttab[c].msgs, msg)
      <4>1. Append(porttab[c].msgs, msg) \in Seq(Message)
        BY MsgsType
      <4>2. QED
        BY <4>1
    <3>2. porttab' = [porttab EXCEPT ![c].msgs = m]
      BY <1>6, <3>1 DEF Enqueue
    <3>3. QED
      BY <1>2, <3>2, MsgsKept
  <2>4. \A d \in PortIds : OwnsNodes(d)' <=> OwnsNodes(d)
    BY <1>2, <2>3, CallDoneOwns
  <2>5. OnlyOwner(c)
    BY <1>3, <2>1, <2>4, OwnedType, OwnedNextType DEF OnlyOwner
  <2>6. ptfree' + Owned'[c] = ptfree + Owned[c]
    <3>1. Owned'[c] = Len(porttab'[c].msgs) /\ Owned[c] = Len(porttab[c].msgs)
      BY <1>2, <1>3, <2>4, OwnedType, OwnedNextType DEF OwnsNodes
    <3>2. QED
      BY <1>4, <2>1, <2>2, <3>1
  <2>7. NodesOK'
    BY <1>3, <2>5, <2>6, NodesMove
  <2>8. QED
    BY <1>3, <2>1, <2>2, <2>7, PanicKept
<1>7. QED
  BY <1>5, <1>6

LEMMA DequeueAll ==
  ASSUME PInv, NEW p \in Proc, NEW c \in PortIds, NEW tab,
         Passes(p, c, "ptrecv", tab), Dequeue(c, tab), ptnextid' = ptnextid, ~panicked
  PROVE  PInv' /\ porttab[c].msgs # <<>>
<1>. USE DEF PInv
<1>1. "ptsend" \in Ops /\ "ptrecv" \in Ops
  BY DEF Ops
<1>2. CallDone(p) /\ TabFrom(tab, c, "ptrecv") /\ Allocated(c) /\ Prom(c, "ptrecv") >= 1
  BY <1>1, PassesDone
<1>3. ptfree \in Nat /\ Len(porttab[c].msgs) \in Nat /\ porttab[c].msgs \in Seq(Message)
  BY MsgsType DEF PortsInv, PortsTypeOK
<1>4. porttab[c].msgs # <<>>
  <2>1. SemOf(c, "ptrecv") # SYSERR /\ Prom(c, "ptrecv") \in Nat
    BY <1>1, SemOfType, LeftType, ClaimsAre DEF Passes, Prom, PortsInv, PortsTypeOK
  <2>2. Prom(c, "ptrecv") <= Len(porttab[c].msgs)
    BY <1>2, <2>1 DEF RoomOK, RoomFor
  <2>3. Len(porttab[c].msgs) # 0
    BY <1>2, <1>3, <2>1, <2>2
  <2>4. QED
    BY <2>3, EmptySeq
<1>5. PortsInv'
  BY <1>2, <1>4, DequeueInv
<1>6. /\ RoomOK' /\ LenOK' /\ Len(porttab'[c].msgs) + 1 = Len(porttab[c].msgs)
      /\ \A d \in PortIds : d # c => porttab'[d] = porttab[d]
  BY <1>4, <1>5, DequeueRoom
<1>7. ptfree' = ptfree + 1 /\ panicked' = FALSE
  BY DEF Dequeue, PortsInv, PortsTypeOK
<1>8. PortsKept
  <2>1. PICK m \in Seq(Message) : m = Tail(porttab[c].msgs)
    <3>1. Tail(porttab[c].msgs) \in Seq(Message)
      BY <1>3, <1>4
    <3>2. QED
      BY <3>1
  <2>2. porttab' = [porttab EXCEPT ![c].msgs = m]
    BY <2>1 DEF Dequeue
  <2>3. QED
    BY <1>2, <2>2, MsgsKept
<1>9. \A d \in PortIds : OwnsNodes(d)' <=> OwnsNodes(d)
  BY <1>2, <1>8, CallDoneOwns
<1>10. OnlyOwner(c)
  BY <1>5, <1>6, <1>9, OwnedType, OwnedNextType DEF OnlyOwner
<1>11. ptfree' + Owned'[c] = ptfree + Owned[c]
  <2>1. Owned'[c] = Len(porttab'[c].msgs) /\ Owned[c] = Len(porttab[c].msgs)
    BY <1>2, <1>5, <1>9, OwnedType, OwnedNextType DEF OwnsNodes
  <2>2. PICK m \in Nat : m = Len(porttab'[c].msgs)
    BY <1>5, <2>1, OwnedNextType
  <2>3. PICK n \in Nat : n = Len(porttab[c].msgs)
    BY <1>3
  <2>4. m + 1 = n
    BY <1>6, <2>2, <2>3
  <2>5. (ptfree + 1) + m = ptfree + n
    BY <1>3, <2>4
  <2>6. QED
    BY <1>7, <2>1, <2>2, <2>3, <2>5
<1>12. NodesOK'
  BY <1>5, <1>10, <1>11, NodesMove
<1>13. QED
  BY <1>4, <1>5, <1>6, <1>7, <1>12, PanicKept
-----------------------------------------------------------------------------
(* A step of one call that moves no message.                               *)
LEMMA QuietAll ==
  ASSUME PInv, PortsInv', porttab' = porttab, ptfree' = ptfree, panicked' = FALSE,
         \A q \in Proc : /\ pc'[q].op = "dispose" <=> pc[q].op = "dispose"
                         /\ pc[q].op = "dispose" => pc'[q].port = pc[q].port,
         \A q \in Proc : pc'[q].op \in Ops =>
           (pc'[q] = pc[q] /\ (Waiting(q) => Waiting(q)')) \/ Waiting(q)',
         \A s \in Sems : semtab'[s].count <= semtab[s].count \/ semtab'[s].count <= 0
  PROVE  PInv'
<1>. USE DEF PInv
<1>1. ASSUME NEW c \in PortIds PROVE RoomFor(c)'
  <2>1. CASE ~Allocated(c)
    BY <2>1 DEF RoomFor, Allocated
  <2>2. CASE Allocated(c)
    <3>1. RoomSame(c)
      BY <2>2, SemOfType DEF RoomSame
    <3>2. RoomFor(c)
      BY DEF RoomOK
    <3>3. QED
      BY <3>1, <3>2, RoomKept
  <2>3. QED
    BY <2>1, <2>2
<1>2. RoomOK' /\ LenOK'
  BY <1>1 DEF RoomOK, LenOK
<1>3. \A d \in PortIds : OwnsNodes(d)' <=> OwnsNodes(d)
  BY SamePortsKept, OwnsKept
<1>4. \A d \in PortIds : Owned'[d] = Owned[d]
  BY <1>3, OwnedType, OwnedNextType
<1>5. NodesOK'
  BY <1>4, NodesSame
<1>6. QED
  BY <1>2, <1>5, PanicKept

LEMMA BlockAll ==
  ASSUME PInv, NEW p \in Proc, NEW c \in PortIds, NEW o \in Ops,
         NEW msg \in Message \cup {NoMessage}, o = "ptsend" => msg \in Message,
         Runs(p, "idle"), Allocated(c), SemOf(c, o) # SYSERR,
         BlockOn(p, SemOf(c, o), o, c, msg), ptnextid' = ptnextid
  PROVE  PInv'
<1>. USE DEF PInv
<1>1. PortsInv'
  BY BlockInv
<1>2. PICK s \in Sems : s = SemOf(c, o)
  BY SemOfType
<1>3. SemOK(semtab, Proc) /\ ~WaitsIn(semtab, p) /\ semtab[s].state = "S_USED"
  BY <1>2 DEF PortsInv, PortsTypeOK, Runs, Waiting, OwnOK, Holds
<1>4. semtab[s].count <= 0 /\ semtab' = Enqueued(semtab, s, p)
  BY <1>2 DEF BlockOn
<1>5. /\ semtab'[s].count = semtab[s].count - 1 /\ OtherSems(semtab, semtab', s)
      /\ ToSet(semtab'[s].queue) = ToSet(semtab[s].queue) \cup {p}
  BY <1>3, <1>4, EnqueuedOK
<1>6. Waiting(p)' /\ \A q \in Proc : Waiting(q) => Waiting(q)'
  BY <1>5 DEF Waiting, WaitsIn, OtherSems
<1>7. \A r \in Sems : semtab'[r].count <= semtab[r].count
  <2>1. \A r \in Sems : semtab[r].count \in Int
    BY <1>3, LeftType
  <2>2. QED
    BY <1>5, <2>1 DEF OtherSems
<1>8. /\ pc \in [Proc -> Call] /\ porttab' = porttab /\ ptfree' = ptfree /\ panicked' = FALSE
      /\ pc[p].op = "idle"
  BY DEF PortsInv, PortsTypeOK, BlockOn, Runs
<1>9. PICK k : k = [Idle EXCEPT !.op = o, !.port = c, !.msg = msg, !.seq = porttab[c].seq]
  OBVIOUS
<1>10. pc' = [pc EXCEPT ![p] = k] /\ k.op = o
  BY <1>9 DEF BlockOn, Idle
<1>11. /\ pc'[p].op # "dispose"
       /\ \A q \in Proc : q # p => pc'[q] = pc[q]
  BY <1>8, <1>10 DEF Ops
<1>12. QED
  BY <1>1, <1>6, <1>7, <1>8, <1>11, QuietAll

LEMMA StaleAll ==
  ASSUME PInv, NEW p \in Proc, pc[p].op \in Ops, ~Waiting(p), Return(p), ~panicked,
         UNCHANGED <<porttab, ptfree, ptnextid, semtab, panicked>>
  PROVE  PInv'
<1>. USE DEF PInv
<1>1. PortsInv'
  BY StaleInv
<1>2. \A q \in Proc : Waiting(q)' <=> Waiting(q)
  BY DEF Waiting, WaitsIn
<1>3. /\ pc \in [Proc -> Call] /\ pc' = [pc EXCEPT ![p] = Idle] /\ panicked' = FALSE
      /\ \A s \in Sems : semtab[s].count \in Int
  BY LeftType DEF PortsInv, PortsTypeOK, Return
<1>4. /\ pc'[p].op = "idle" /\ pc[p].op # "dispose"
      /\ \A q \in Proc : q # p => pc'[q] = pc[q]
  BY <1>3, IdleIs DEF Ops
<1>5. \A s \in Sems : semtab'[s].count <= semtab[s].count
  BY <1>3
<1>6. \A q \in Proc : pc'[q].op \in Ops => pc'[q] = pc[q]
  BY <1>4 DEF Ops
<1>7. QED
  BY <1>1, <1>2, <1>3, <1>4, <1>5, <1>6, QuietAll

LEMMA KillAll ==
  ASSUME PInv, NEW p \in Proc, KillCaller(p)
  PROVE  PInv'
<1>. USE DEF PInv
<1>1. PortsInv' /\ SemOK(semtab, Proc) /\ semtab' = Killed(semtab, p)
  BY KillInv DEF PortsInv, PortsTypeOK, KillCaller
<1>2. \A s \in Sems :
        /\ ToSet(semtab'[s].queue) = ToSet(semtab[s].queue) \ {p}
        /\ p \notin ToSet(semtab[s].queue) => semtab'[s] = semtab[s]
        /\ p \in ToSet(semtab[s].queue) =>
             semtab[s].count < 0 /\ semtab'[s].count = semtab[s].count + 1
  BY <1>1, KilledOK
<1>3. \A s \in Sems : semtab'[s].count <= semtab[s].count \/ semtab'[s].count <= 0
  BY <1>1, <1>2, LeftType
<1>4. \A q \in Proc : q # p /\ Waiting(q) => Waiting(q)'
  BY <1>2 DEF Waiting, WaitsIn
<1>5. /\ pc \in [Proc -> Call] /\ porttab' = porttab /\ ptfree' = ptfree /\ panicked' = FALSE
      /\ pc' = [pc EXCEPT ![p] = IF pc[p].op \in Clearing THEN [pc[p] EXCEPT !.live = FALSE]
                                                          ELSE Idle]
  BY DEF PortsInv, PortsTypeOK, KillCaller
<1>6. PICK k : k = [pc[p] EXCEPT !.live = FALSE]
  OBVIOUS
<1>7. k.op = pc[p].op /\ k.port = pc[p].port
  BY <1>5, <1>6 DEF Call
<1>8. /\ \A q \in Proc : q # p => pc'[q] = pc[q]
      /\ pc[p].op \in Clearing => pc'[p] = k
      /\ pc[p].op \notin Clearing => pc'[p] = Idle
  BY <1>5, <1>6
<1>9. /\ pc'[p].op \notin Ops
      /\ pc'[p].op = "dispose" <=> pc[p].op = "dispose"
      /\ pc[p].op = "dispose" => pc'[p].port = pc[p].port
  BY <1>7, <1>8, IdleIs DEF Clearing, Ops
<1>10. QED
  BY <1>1, <1>3, <1>4, <1>5, <1>8, <1>9, QuietAll
-----------------------------------------------------------------------------
(* A step that gives port c another life and leaves the others alone.      *)
LEMMA ChangeAll ==
  ASSUME PInv, PortsInv', panicked' = FALSE, NEW c \in PortIds, RoomFor(c)',
         CountsFit => Len(porttab'[c].msgs) <= porttab'[c].maxcnt,
         \A d \in PortIds : d # c => porttab'[d] = porttab[d],
         \A q \in Proc : pc'[q].op \in Ops /\ pc'[q].port # c =>
           pc'[q] = pc[q] /\ (Waiting(q) => Waiting(q)'),
         \A d \in PortIds, o \in Ops : d # c /\ Allocated(d) /\ SemOf(d, o) # SYSERR =>
           semtab'[SemOf(d, o)] = semtab[SemOf(d, o)],
         \A d \in PortIds : d # c => (OwnsNodes(d)' <=> OwnsNodes(d)),
         ptfree' + Owned'[c] = ptfree + Owned[c]
  PROVE  PInv'
<1>. USE DEF PInv
<1>1. ASSUME NEW d \in PortIds, d # c PROVE RoomFor(d)'
  <2>0. porttab'[d] = porttab[d]
    BY <1>1
  <2>1. CASE ~Allocated(d)
    BY <2>0, <2>1 DEF RoomFor, Allocated
  <2>2. CASE Allocated(d)
    <3>1. \A o \in Ops : SemOf(d, o) # SYSERR =>
            /\ semtab'[SemOf(d, o)].count = semtab[SemOf(d, o)].count
            /\ semtab[SemOf(d, o)].count \in Int
      BY <1>1, <2>2, SemOfType, LeftType DEF PortsInv, PortsTypeOK
    <3>2. \A o \in Ops : SemOf(d, o) # SYSERR =>
            semtab'[SemOf(d, o)].count <= semtab[SemOf(d, o)].count
      BY <3>1
    <3>3. RoomSame(d)
      BY <1>1, <2>0, <2>2, <3>2 DEF RoomSame
    <3>4. RoomFor(d)
      BY DEF RoomOK
    <3>5. QED
      BY <3>3, <3>4, RoomKept
  <2>3. QED
    BY <2>1, <2>2
<1>2. RoomOK'
  BY <1>1 DEF RoomOK
<1>3. LenOK'
  <2>1. ASSUME CountsFit, NEW d \in PortIds PROVE Len(porttab'[d].msgs) <= porttab'[d].maxcnt
    BY <2>1 DEF LenOK
  <2>2. CountsFit' <=> CountsFit
    BY DEF CountsFit
  <2>3. QED
    BY <2>1, <2>2 DEF LenOK
<1>4. OnlyOwner(c)
  BY OwnedType, OwnedNextType DEF OnlyOwner
<1>5. NodesOK'
  BY <1>4, NodesMove
<1>6. QED
  BY <1>2, <1>3, <1>5, PanicKept

LEMMA ClearAll ==
  ASSUME PInv, NEW p \in Proc, NEW c \in PortIds, NEW new \in {"PT_ALLOC", "PT_FREE"},
         Ptclear(p, c, new)
  PROVE  PInv'
<1>. USE DEF PInv
<1>1. PortsInv'
  BY ClearInv
<1>2. /\ pc \in [Proc -> Call] /\ porttab \in [PortIds -> PortEntry]
      /\ pc[p].op = "idle" /\ Allocated(c) /\ semtab' = semtab /\ ptfree' = ptfree
      /\ panicked' = FALSE
  BY DEF PortsInv, PortsTypeOK, Ptclear, Runs
<1>3. PICK k : k = [Idle EXCEPT !.op = "dispose", !.port = c, !.new = new]
  OBVIOUS
<1>4. k.op = "dispose" /\ k.port = c /\ pc' = [pc EXCEPT ![p] = k]
  BY <1>3 DEF Idle, Ptclear
<1>5. pc'[p] = k /\ \A q \in Proc : q # p => pc'[q] = pc[q]
  BY <1>2, <1>4
<1>6. /\ \A d \in PortIds : d # c => porttab'[d] = porttab[d]
      /\ porttab'[c].msgs = porttab[c].msgs /\ porttab'[c].maxcnt = porttab[c].maxcnt
      /\ porttab'[c].state = "PT_LIMBO"
  BY <1>2 DEF Ptclear, PortEntry
<1>7. RoomFor(c)'
  BY <1>6 DEF RoomFor, Allocated
<1>8. \A q \in Proc : Waiting(q)' <=> Waiting(q)
  BY <1>2 DEF Waiting, WaitsIn
<1>9. \A q \in Proc : pc'[q].op \in Ops => pc'[q] = pc[q]
  BY <1>4, <1>5 DEF Ops
<1>10. \A d \in PortIds : d # c => (OwnsNodes(d)' <=> OwnsNodes(d))
  BY <1>2, <1>4, <1>5, <1>6 DEF OwnsNodes, Allocated
<1>11. OwnsNodes(c)' /\ OwnsNodes(c)
  BY <1>2, <1>4, <1>5 DEF OwnsNodes
<1>12. Owned'[c] = Owned[c]
  BY <1>1, <1>6, <1>11, OwnedType, OwnedNextType
<1>13. CountsFit => Len(porttab'[c].msgs) <= porttab'[c].maxcnt
  BY <1>6 DEF LenOK
<1>14. QED
  BY <1>1, <1>2, <1>6, <1>7, <1>8, <1>9, <1>10, <1>12, <1>13, ChangeAll

LEMMA EndAll ==
  ASSUME PInv, NEW p \in Proc, PtclearEnd(p)
  PROVE  PInv'
<1>. USE DEF PInv
<1>a. PICK c : c = pc[p].port
  OBVIOUS
<1>b. PICK new : new = pc[p].new
  OBVIOUS
<1>. USE <1>a, <1>b
<1>1. PortsInv'
  BY EndInv
<1>2. /\ pc \in [Proc -> Call] /\ porttab \in [PortIds -> PortEntry]
      /\ pc[p].op = "finish" /\ semtab' = semtab /\ ptfree' = ptfree /\ panicked' = FALSE
      /\ c \in PortIds /\ new \in {"PT_ALLOC", "PT_FREE"}
      /\ pc' = [pc EXCEPT ![p] = Idle]
      /\ porttab' = [porttab EXCEPT ![c].state = new]
  BY DEF PortsInv, PortsTypeOK, PtclearEnd, Runs, Return, Call
<1>3. porttab[c].state = "PT_LIMBO" /\ ~Allocated(c)
  BY <1>2 DEF PortsInv, ClearOK, Clearing, Allocated
<1>4. pc'[p] = Idle /\ \A q \in Proc : q # p => pc'[q] = pc[q]
  BY <1>2
<1>5. /\ \A d \in PortIds : d # c => porttab'[d] = porttab[d]
      /\ porttab'[c].msgs = porttab[c].msgs /\ porttab'[c].maxcnt = porttab[c].maxcnt
      /\ porttab'[c].ssem = porttab[c].ssem /\ porttab'[c].rsem = porttab[c].rsem
      /\ porttab'[c].seq = porttab[c].seq /\ porttab'[c].state = new
  BY <1>2 DEF PortEntry
<1>6. \A q \in Proc : pc'[q].op \in Ops => pc'[q] = pc[q]
  BY <1>4, IdleIs DEF Ops
<1>7. RoomFor(c)'
  <2>1. CASE new = "PT_FREE"
    BY <1>5, <2>1 DEF RoomFor, Allocated
  <2>2. CASE new = "PT_ALLOC"
    <3>1. ResetOK(p)
      BY <1>2, <2>2 DEF PortsInv, EmptyOK
    <3>2. ASSUME NEW q \in Proc, pc'[q].op \in Ops, pc'[q].port = c PROVE ~SamePort(q)'
      <4>1. pc[q].op \in Ops /\ pc[q].port = c /\ pc'[q] = pc[q]
        BY <1>6, <3>2
      <4>2. pc[q].seq < porttab[c].seq /\ pc[q].seq \in Nat /\ porttab[c].seq \in Nat
        BY <1>2, <1>3, <4>1 DEF PortsInv, SeqOK, PortsTypeOK, Call, PortEntry
      <4>3. QED
        BY <1>5, <4>1, <4>2 DEF SamePort
    <3>3. /\ SemOf(c, "ptsend")' = porttab[c].ssem /\ SemOf(c, "ptrecv")' = porttab[c].rsem
          /\ porttab[c].maxcnt \in Nat
      BY <1>2, <1>5 DEF SemOf, PortEntry
    <3>4. /\ porttab'[c].msgs = <<>>
          /\ SemOf(c, "ptsend")' # SYSERR =>
               semtab'[SemOf(c, "ptsend")'].count = porttab'[c].maxcnt
          /\ SemOf(c, "ptrecv")' # SYSERR => semtab'[SemOf(c, "ptrecv")'].count = 0
      BY <1>2, <1>5, <3>1, <3>3 DEF ResetOK
    <3>5. SemOf(c, "ptsend")' # SYSERR =>
            semtab'[SemOf(c, "ptsend")'].count <= porttab'[c].maxcnt
      BY <1>5, <3>3, <3>4
    <3>6. QED
      BY <1>1, <1>2, <3>2, <3>4, <3>5, RoomFresh
  <2>3. QED
    BY <1>2, <2>1, <2>2
<1>8. \A q \in Proc : Waiting(q)' <=> Waiting(q)
  BY <1>2 DEF Waiting, WaitsIn
<1>9. \A q \in Proc : pc'[q].op = "dispose" => q # p /\ pc[q].op = "dispose" /\ pc'[q].port = pc[q].port
  BY <1>4, IdleIs
<1>10. \A q \in Proc : pc[q].op = "dispose" =>
         q # p /\ pc[q].port # c /\ pc'[q] = pc[q]
  BY <1>2, <1>4 DEF PortsInv, ClearOK, Clearing
<1>11. \A d \in PortIds : d # c => (OwnsNodes(d)' <=> OwnsNodes(d))
  BY <1>5, <1>9, <1>10 DEF OwnsNodes, Allocated
<1>12. Owned'[c] = Owned[c]
  <2>1. ~OwnsNodes(c)
    BY <1>3, <1>10 DEF OwnsNodes
  <2>2. Owned[c] = 0
    BY <1>2, <2>1, OwnedType
  <2>3. CASE new = "PT_ALLOC"
    <3>1. porttab'[c].msgs = <<>>
      BY <1>2, <1>5, <2>3 DEF PortsInv, EmptyOK, ResetOK
    <3>2. Owned'[c] = 0
      BY <1>1, <1>2, <3>1, OwnedNextType, EmptySeq
    <3>3. QED
      BY <2>2, <3>2
  <2>4. CASE new = "PT_FREE"
    <3>1. ~OwnsNodes(c)'
      BY <1>5, <1>9, <1>10, <2>4 DEF OwnsNodes, Allocated
    <3>2. QED
      BY <1>1, <1>2, <2>2, <3>1, OwnedNextType
  <2>5. QED
    BY <1>2, <2>3, <2>4
<1>13. CountsFit => Len(porttab'[c].msgs) <= porttab'[c].maxcnt
  BY <1>2, <1>5 DEF LenOK
<1>14. QED
  BY <1>1, <1>2, <1>5, <1>6, <1>7, <1>8, <1>11, <1>12, <1>13, ChangeAll
-----------------------------------------------------------------------------
LEMMA ReleaseAll ==
  ASSUME PInv, NEW p \in Proc, NEW o \in Ops, NEW n, Releases(p, o, n), ~panicked
  PROVE  PInv'
<1>. USE DEF PInv
<1>a. PICK c : c = pc[p].port
  OBVIOUS
<1>b. PICK new : new = pc[p].new
  OBVIOUS
<1>c. PICK s : s = SemOf(c, o)
  OBVIOUS
<1>. USE <1>a, <1>b, <1>c
<1>1. PortsInv'
  BY ReleaseInv
<1>2. /\ pc \in [Proc -> Call] /\ porttab \in [PortIds -> PortEntry] /\ ptfree \in Nat
      /\ c \in PortIds /\ panicked' = FALSE
      /\ \A d \in PortIds : porttab[d].maxcnt \in Nat
  BY DEF PortsInv, PortsTypeOK, Releases, Call, PortEntry
<1>3. /\ pc[p].op \in Clearing /\ n \in Nat
      /\ (pc[p].op = "dispose" /\ o = "ptsend" /\ n = porttab[c].maxcnt)
         \/ (pc[p].op = "receivers" /\ o = "ptrecv" /\ n = 0)
  BY <1>2 DEF Releases, Clearing
<1>4. porttab[c].state = "PT_LIMBO" /\ ~Allocated(c)
  BY <1>3 DEF PortsInv, ClearOK, Allocated
<1>5. Holds(c, o) /\ s \in Sems \cup {SYSERR} /\ (s # SYSERR => semtab[s].state = "S_USED")
  <2>1. KeepsSem(p, c, o)
    BY <1>3 DEF KeepsSem
  <2>2. s \in Sems \cup {SYSERR}
    BY <1>2, <1>3 DEF SemOf, PortEntry
  <2>3. QED
    BY <1>2, <2>1, <2>2 DEF Holds, PortsInv, OwnOK
<1>6. \A r \in Sems : r # s => semtab'[r] = semtab[r]
  <2>1. semtab' = IF new = "PT_ALLOC" THEN ResetTo(semtab, s, n) ELSE Deleted(semtab, s)
    BY DEF Releases
  <2>2. ReleasedAt(semtab', s, n, new)
    BY <1>3, <1>5, <2>1, ReleasedTable
  <2>3. QED
    BY <2>2 DEF ReleasedAt
<1>7. PICK next \in {"receivers", "finish"} : pc' = [pc EXCEPT ![p].op = next]
  BY DEF Releases, Goto
<1>8. /\ \A q \in Proc : q # p => pc'[q] = pc[q]
      /\ pc'[p].op = next
  BY <1>2, <1>7 DEF Call
<1>9. \A q \in Proc : pc'[q].op \in Ops => pc'[q] = pc[q]
  BY <1>8 DEF Ops
<1>10. /\ \A d \in PortIds : d # c => porttab'[d] = porttab[d]
       /\ porttab'[c].maxcnt = porttab[c].maxcnt /\ porttab'[c].state = porttab[c].state
       /\ porttab'[c].msgs \in {<<>>, porttab[c].msgs}
       /\ o = "ptrecv" => porttab'[c].msgs = porttab[c].msgs
  BY <1>2, <1>3, SMTT(60) DEF Releases, PortEntry
<1>11. \A d \in PortIds, y \in Ops : d # c /\ Holds(d, y) /\ SemOf(d, y) # SYSERR => SemOf(d, y) # s
  BY <1>2, <1>5 DEF PortsInv, OwnOK
<1>12. \A d \in PortIds, y \in Ops : d # c /\ Allocated(d) /\ SemOf(d, y) # SYSERR =>
         semtab'[SemOf(d, y)] = semtab[SemOf(d, y)]
  BY <1>6, <1>11, SemOfType DEF Holds
<1>13. ASSUME NEW q \in Proc, pc'[q].op \in Ops, pc'[q].port # c, Waiting(q)
       PROVE  Waiting(q)'
  <2>1. pc[q].op \in Ops /\ pc[q].port # c /\ pc[q].port \in PortIds
    BY <1>2, <1>9, <1>13 DEF Call
  <2>2. PICK r \in Sems : q \in ToSet(semtab[r].queue)
    BY <1>13 DEF Waiting, WaitsIn
  <2>3. r = SemOf(pc[q].port, pc[q].op) /\ Holds(pc[q].port, pc[q].op) /\ r # SYSERR
    BY <2>2, SemTableAssumption DEF PortsInv, WaitOK, WaitsFor
  <2>4. semtab'[r] = semtab[r]
    BY <1>6, <1>11, <2>1, <2>2, <2>3
  <2>5. QED
    BY <2>2, <2>4 DEF Waiting, WaitsIn
<1>14. \A d \in PortIds : d # c => (OwnsNodes(d)' <=> OwnsNodes(d))
  BY <1>8, <1>10 DEF OwnsNodes, Allocated
<1>15. ptfree' + Owned'[c] = ptfree + Owned[c]
  <2>1. \A q \in Proc : q # p /\ pc[q].op \in Clearing => pc[q].port # c
    BY <1>3 DEF PortsInv, ClearOK
  <2>2. ~OwnsNodes(c)'
    BY <1>4, <1>8, <1>10, <2>1 DEF OwnsNodes, Clearing, Allocated
  <2>3. Owned'[c] = 0
    BY <1>1, <1>2, <2>2, OwnedNextType
  <2>4. CASE o = "ptsend"
    <3>1. OwnsNodes(c)
      BY <1>3, <2>4 DEF OwnsNodes
    <3>2. Owned[c] = Len(porttab[c].msgs) /\ Owned[c] \in Nat
      BY <1>2, <3>1, OwnedType
    <3>3. ptfree' = ptfree + Len(porttab[c].msgs)
      BY <2>4 DEF Releases
    <3>4. QED
      BY <1>2, <2>3, <3>2, <3>3
  <2>5. CASE o = "ptrecv"
    <3>1. ~OwnsNodes(c)
      BY <1>3, <1>4, <2>1, <2>5 DEF OwnsNodes, Clearing
    <3>2. Owned[c] = 0
      BY <1>2, <3>1, OwnedType
    <3>3. ptfree' = ptfree
      BY <2>5 DEF Releases
    <3>4. QED
      BY <1>2, <2>3, <3>2, <3>3
  <2>6. QED
    BY <2>4, <2>5 DEF Ops
<1>16. CountsFit => Len(porttab'[c].msgs) <= porttab'[c].maxcnt
  BY <1>2, <1>10, EmptySeq DEF LenOK
<1>17. RoomFor(c)'
  BY <1>4, <1>10 DEF RoomFor, Allocated
<1>18. QED
  BY <1>1, <1>2, <1>9, <1>10, <1>12, <1>13, <1>14, <1>15, <1>16, <1>17, ChangeAll

LEMMA Uint16Is ==
  ASSUME NEW n \in Sizes
  PROVE  Uint16(n) \in Nat /\ (CountsFit => Uint16(n) = n)
<1>1. n \in Nat
  BY PortAssumption
<1>2. CountsFit => n < 65536
  BY DEF CountsFit
<1>3. QED
  BY <1>1, <1>2 DEF Uint16

LEMMA CreateAll ==
  ASSUME PInv, NEW p \in Proc, NEW n \in Sizes, Ptcreate(p, n)
  PROVE  PInv'
<1>. USE DEF PInv
<1>0. n \in Nat
  BY PortAssumption
<1>1. PortsInv'
  BY <1>0, CreateInv
<1>2. PICK c : c = NewPort
  OBVIOUS
<1>3. c \in PortIds /\ porttab[c].state = "PT_FREE" /\ ~Allocated(c)
  BY <1>2, NewPortIs DEF Ptcreate, Allocated
<1>4. PICK ss \in NewSems(semtab) : \E rs \in NewSems(Semcreate(semtab, n, ss)) :
         /\ semtab' = Semcreate(Semcreate(semtab, n, ss), 0, rs)
         /\ porttab' = [porttab EXCEPT ![c] =
              [state |-> "PT_ALLOC", ssem |-> ss, rsem |-> rs,
               maxcnt |-> Uint16(n), seq |-> porttab[c].seq + 1, msgs |-> <<>>]]
  BY <1>2 DEF Ptcreate
<1>5. PICK rs \in NewSems(Semcreate(semtab, n, ss)) :
         /\ semtab' = Semcreate(Semcreate(semtab, n, ss), 0, rs)
         /\ porttab' = [porttab EXCEPT ![c] =
              [state |-> "PT_ALLOC", ssem |-> ss, rsem |-> rs,
               maxcnt |-> Uint16(n), seq |-> porttab[c].seq + 1, msgs |-> <<>>]]
  BY <1>4
<1>6. /\ FreshSem(semtab, semtab', ss, n) /\ FreshSem(semtab, semtab', rs, 0)
      /\ \A r \in Sems : r # ss /\ r # rs => semtab'[r] = semtab[r]
  BY <1>0, <1>5, TwoNewSems
<1>7. /\ pc \in [Proc -> Call] /\ porttab \in [PortIds -> PortEntry]
      /\ pc' = pc /\ ptfree' = ptfree /\ panicked' = FALSE
  BY DEF PortsInv, PortsTypeOK, Ptcreate, Runs
<1>8. /\ \A d \in PortIds : d # c => porttab'[d] = porttab[d]
      /\ porttab'[c].state = "PT_ALLOC" /\ porttab'[c].msgs = <<>>
      /\ porttab'[c].ssem = ss /\ porttab'[c].rsem = rs /\ porttab'[c].maxcnt = Uint16(n)
      /\ porttab'[c].seq = porttab[c].seq + 1
  BY <1>3, <1>5, <1>7
<1>9. \A d \in PortIds, y \in Ops : Allocated(d) /\ SemOf(d, y) # SYSERR =>
        semtab'[SemOf(d, y)] = semtab[SemOf(d, y)]
  <2>1. \A d \in PortIds, y \in Ops : Allocated(d) /\ SemOf(d, y) # SYSERR =>
          semtab[SemOf(d, y)].state = "S_USED" /\ SemOf(d, y) \in Sems
    BY SemOfType DEF PortsInv, OwnOK, Holds
  <2>2. QED
    BY <1>6, <2>1 DEF FreshSem
<1>10. ASSUME NEW q \in Proc, Waiting(q) PROVE Waiting(q)'
  <2>1. PICK r \in Sems : q \in ToSet(semtab[r].queue)
    BY <1>10 DEF Waiting, WaitsIn
  <2>2. semtab[r].queue # <<>>
    BY <2>1, NoneWaits
  <2>3. semtab'[r] = semtab[r]
    BY <1>6, <2>2, SemTableAssumption DEF FreshSem
  <2>4. QED
    BY <2>1, <2>3 DEF Waiting, WaitsIn
<1>11. \A d \in PortIds : d # c => (OwnsNodes(d)' <=> OwnsNodes(d))
  BY <1>7, <1>8 DEF OwnsNodes, Allocated
<1>12. Owned'[c] = Owned[c]
  <2>1. Owned'[c] = 0
    BY <1>1, <1>3, <1>8, OwnedNextType, EmptySeq
  <2>2. ~OwnsNodes(c)
    BY <1>3 DEF OwnsNodes, PortsInv, ClearOK, Clearing
  <2>3. QED
    BY <1>3, <2>1, <2>2, OwnedType
<1>13. Uint16(n) \in Nat /\ (CountsFit => Uint16(n) = n)
  BY Uint16Is
<1>14. CountsFit => Len(porttab'[c].msgs) <= porttab'[c].maxcnt
  BY <1>8, <1>13, EmptySeq
<1>15. RoomFor(c)'
  <2>1. ASSUME NEW q \in Proc, pc'[q].op \in Ops, pc'[q].port = c PROVE ~SamePort(q)'
    <3>1. pc[q].op \in Ops /\ pc[q].port = c /\ pc'[q] = pc[q]
      BY <1>7, <2>1
    <3>2. pc[q].seq <= porttab[c].seq /\ pc[q].seq \in Nat /\ porttab[c].seq \in Nat
      BY <1>3, <1>7, <3>1 DEF PortsInv, SeqOK, Call, PortEntry
    <3>3. QED
      BY <1>8, <3>1, <3>2 DEF SamePort
  <2>2. SemOf(c, "ptsend")' = ss /\ SemOf(c, "ptrecv")' = rs
    BY <1>8 DEF SemOf
  <2>3. ss # SYSERR => semtab'[ss].count = n
    BY <1>6 DEF FreshSem
  <2>4. rs # SYSERR => semtab'[rs].count = 0
    BY <1>6 DEF FreshSem
  <2>5. CountsFit /\ SemOf(c, "ptsend")' # SYSERR =>
          semtab'[SemOf(c, "ptsend")'].count <= porttab'[c].maxcnt
    BY <1>0, <1>8, <1>13, <2>2, <2>3
  <2>6. QED
    BY <1>1, <1>3, <1>8, <2>1, <2>2, <2>4, <2>5, RoomFresh
<1>16. QED
  BY <1>1, <1>3, <1>7, <1>8, <1>9, <1>10, <1>11, <1>12, <1>14, <1>15, ChangeAll
-----------------------------------------------------------------------------
LEMMA PInvInit == PortsInit /\ SemInit => PInv
<1>. SUFFICES ASSUME PortsInit, SemInit PROVE PInv
  OBVIOUS
<1>1. PortsInv
  BY PortsInitOK
<1>2. \A c \in PortIds : ~Allocated(c) /\ porttab[c].msgs = <<>> /\ porttab[c].maxcnt = 0
  BY DEF PortsInit, Allocated
<1>3. RoomOK
  BY <1>2 DEF RoomOK, RoomFor
<1>4. LenOK
  <2>1. \A c \in PortIds : Len(porttab[c].msgs) = 0
    BY <1>2, EmptySeq
  <2>2. QED
    BY <1>2, <2>1 DEF LenOK
<1>5. NodesOK
  <2>1. \A c \in PortIds : Owned[c] = 0
    BY <1>1, <1>2, OwnedType, EmptySeq
  <2>2. Tally(Owned, PortIds) = {}
    BY <2>1 DEF Tally
  <2>3. QED
    BY <2>2, FS_EmptySet, PortAssumption DEF NodesOK, PortsInit
<1>6. PanicOK
  BY DEF PanicOK, PortsInit
<1>7. QED
  BY <1>1, <1>3, <1>4, <1>5, <1>6 DEF PInv

LEMMA SendAll ==
  ASSUME PInv, NEW p \in Proc, NEW c \in PortIds, NEW msg \in Message, Ptsend(p, c, msg)
  PROVE  PInv'
<1>1. "ptsend" \in Ops /\ SemOf(c, "ptsend") = porttab[c].ssem
  BY DEF Ops, SemOf
<1>2. /\ Runs(p, "idle") /\ Allocated(c) /\ SemOf(c, "ptsend") # SYSERR /\ ptnextid' = ptnextid
      /\ ~panicked
  BY <1>1 DEF Ptsend, Runs
<1>3. CASE BlockOn(p, SemOf(c, "ptsend"), "ptsend", c, msg)
  BY <1>1, <1>2, <1>3, BlockAll
<1>4. CASE /\ semtab[SemOf(c, "ptsend")].count > 0 /\ pc' = pc
           /\ Enqueue(c, msg, Waited(semtab, SemOf(c, "ptsend")))
  <2>1. PICK tab : tab = Waited(semtab, SemOf(c, "ptsend"))
    OBVIOUS
  <2>2. Passes(p, c, "ptsend", tab) /\ Enqueue(c, msg, tab)
    BY <1>2, <1>4, <2>1 DEF Passes
  <2>3. QED
    BY <1>2, <2>2, EnqueueAll
<1>5. QED
  BY <1>1, <1>3, <1>4 DEF Ptsend

LEMMA ReceiveAll ==
  ASSUME PInv, NEW p \in Proc, NEW c \in PortIds, Ptrecv(p, c)
  PROVE  PInv'
<1>1. "ptrecv" \in Ops /\ SemOf(c, "ptrecv") = porttab[c].rsem /\ "ptrecv" # "ptsend"
  BY DEF Ops, SemOf
<1>2. /\ Runs(p, "idle") /\ Allocated(c) /\ SemOf(c, "ptrecv") # SYSERR /\ ptnextid' = ptnextid
      /\ ~panicked
  BY <1>1 DEF Ptrecv, Runs
<1>3. CASE BlockOn(p, SemOf(c, "ptrecv"), "ptrecv", c, NoMessage)
  BY <1>1, <1>2, <1>3, BlockAll
<1>4. CASE /\ semtab[SemOf(c, "ptrecv")].count > 0 /\ pc' = pc
           /\ Dequeue(c, Waited(semtab, SemOf(c, "ptrecv")))
  <2>1. PICK tab : tab = Waited(semtab, SemOf(c, "ptrecv"))
    OBVIOUS
  <2>2. Passes(p, c, "ptrecv", tab) /\ Dequeue(c, tab)
    BY <1>2, <1>4, <2>1 DEF Passes
  <2>3. QED
    BY <1>2, <2>2, DequeueAll
<1>5. QED
  BY <1>1, <1>3, <1>4 DEF Ptrecv

(* A call that has been let go keeps its promise or finds another life of  *)
(* its port.                                                               *)
LEMMA ResumePasses ==
  ASSUME PortsInv, NEW p \in Proc, NEW o \in Ops, Runs(p, o), Return(p), SamePort(p)
  PROVE  pc[p].port \in PortIds /\ Passes(p, pc[p].port, o, semtab)
<1>1. PICK c \in PortIds : c = pc[p].port
  BY DEF PortsInv, PortsTypeOK, Call
<1>2. pc[p].op = o /\ ~Waiting(p) /\ Allocated(c)
  BY <1>1 DEF Runs, SamePort
<1>3. SemOf(c, o) # SYSERR
  BY <1>1, <1>2 DEF PortsInv, SeqOK
<1>4. p \in Claimants(c, o)
  BY <1>1, <1>2 DEF Claimants
<1>5. QED
  BY <1>1, <1>2, <1>3, <1>4 DEF Passes, Return

LEMMA SendResumesAll ==
  ASSUME PInv, NEW p \in Proc, PtsendResumes(p)
  PROVE  PInv'
<1>1. "ptsend" \in Ops /\ PortsInv
  BY DEF Ops, PInv
<1>2. /\ Runs(p, "ptsend") /\ Return(p) /\ ptnextid' = ptnextid /\ ~panicked
      /\ pc[p].op = "ptsend" /\ ~Waiting(p) /\ pc[p].msg \in Message
  BY <1>1 DEF PtsendResumes, Runs, PortsInv, PortsTypeOK
<1>3. CASE SamePort(p)
  <2>1. pc[p].port \in PortIds /\ Passes(p, pc[p].port, "ptsend", semtab)
    BY <1>1, <1>2, <1>3, ResumePasses
  <2>2. Enqueue(pc[p].port, pc[p].msg, semtab)
    BY <1>3 DEF PtsendResumes
  <2>3. QED
    BY <1>2, <2>1, <2>2, EnqueueAll
<1>4. CASE ~SamePort(p)
  BY <1>1, <1>2, <1>4, StaleAll DEF PtsendResumes
<1>5. QED
  BY <1>3, <1>4

LEMMA ReceiveResumesAll ==
  ASSUME PInv, NEW p \in Proc, PtrecvResumes(p)
  PROVE  PInv'
<1>1. "ptrecv" \in Ops /\ PortsInv
  BY DEF Ops, PInv
<1>2. /\ Runs(p, "ptrecv") /\ Return(p) /\ ptnextid' = ptnextid /\ ~panicked
      /\ pc[p].op = "ptrecv" /\ ~Waiting(p)
  BY <1>1 DEF PtrecvResumes, Runs
<1>3. CASE SamePort(p)
  <2>1. pc[p].port \in PortIds /\ Passes(p, pc[p].port, "ptrecv", semtab)
    BY <1>1, <1>2, <1>3, ResumePasses
  <2>2. Dequeue(pc[p].port, semtab)
    BY <1>3 DEF PtrecvResumes
  <2>3. QED
    BY <1>2, <2>1, <2>2, DequeueAll
<1>4. CASE ~SamePort(p)
  BY <1>1, <1>2, <1>4, StaleAll DEF PtrecvResumes
<1>5. QED
  BY <1>3, <1>4

LEMMA SendersAll ==
  ASSUME PInv, NEW p \in Proc, PtclearSenders(p)
  PROVE  PInv'
<1>1. "ptsend" \in Ops /\ SemOf(pc[p].port, "ptsend") = porttab[pc[p].port].ssem
  BY DEF Ops, SemOf
<1>2. Releases(p, "ptsend", porttab[pc[p].port].maxcnt)
  <2>1. porttab' = [porttab EXCEPT ![pc[p].port].msgs =
                      IF pc[p].new = "PT_ALLOC" THEN <<>> ELSE porttab[pc[p].port].msgs]
    BY DEF PtclearSenders
  <2>2. semtab' = IF pc[p].new = "PT_ALLOC"
                  THEN ResetTo(semtab, SemOf(pc[p].port, "ptsend"), porttab[pc[p].port].maxcnt)
                  ELSE Deleted(semtab, SemOf(pc[p].port, "ptsend"))
    BY <1>1 DEF PtclearSenders
  <2>3. /\ UNCHANGED <<ptnextid, panicked>> /\ Goto(p, "receivers") /\ pc[p].op = "dispose"
        /\ ptfree' = ptfree + Len(porttab[pc[p].port].msgs)
    BY DEF PtclearSenders, Runs
  <2>4. QED
    BY <2>1, <2>2, <2>3 DEF Releases
<1>3. ~panicked
  BY DEF PtclearSenders, Runs
<1>4. QED
  BY <1>1, <1>2, <1>3, ReleaseAll

LEMMA ReceiversAll ==
  ASSUME PInv, NEW p \in Proc, PtclearReceivers(p)
  PROVE  PInv'
<1>1. "ptrecv" \in Ops /\ SemOf(pc[p].port, "ptrecv") = porttab[pc[p].port].rsem
  BY DEF Ops, SemOf
<1>2. Releases(p, "ptrecv", 0)
  BY <1>1 DEF PtclearReceivers, Runs, Releases
<1>3. ~panicked
  BY DEF PtclearReceivers, Runs
<1>4. QED
  BY <1>1, <1>2, <1>3, ReleaseAll

LEMMA PInvNext == PInv /\ [PortsNext]_portvars => PInv'
<1>. SUFFICES ASSUME PInv, [PortsNext]_portvars PROVE PInv'
  OBVIOUS
<1>1. CASE UNCHANGED portvars
  <2>. USE <1>1 DEF portvars
  <2>1. PortsTypeOK' /\ ClearOK' /\ LenOK'
    BY DEF PInv, PortsInv, PortsTypeOK, ClearOK, LenOK
  <2>2. SeqOK' /\ OwnOK'
    BY DEF PInv, PortsInv, SeqOK, OwnOK, Holds, KeepsSem, SemOf, SamePort, Allocated
  <2>3. WaitOK'
    BY DEF PInv, PortsInv, WaitOK, WaitsFor, Holds, KeepsSem, SemOf, SamePort, Allocated
  <2>4. EmptyOK'
    BY DEF PInv, PortsInv, EmptyOK, ResetOK
  <2>5. RoomOK'
    BY DEF PInv, RoomOK, RoomFor, Prom, Claims, SemOf, SamePort, Waiting, Allocated
  <2>6. NodesOK' /\ PanicOK'
    BY DEF PInv, NodesOK, PanicOK, NodesOf, Owners, Owned, OwnsNodes, Allocated
  <2>7. QED
    BY <2>1, <2>2, <2>3, <2>4, <2>5, <2>6 DEF PInv, PortsInv
<1>2. ASSUME NEW p \in Proc, NEW n \in Sizes, Ptcreate(p, n) PROVE PInv'
  BY <1>2, CreateAll
<1>3. ASSUME NEW p \in Proc, NEW c \in PortIds, NEW msg \in Message, Ptsend(p, c, msg) PROVE PInv'
  BY <1>3, SendAll
<1>4. ASSUME NEW p \in Proc, NEW c \in PortIds, Ptrecv(p, c) PROVE PInv'
  BY <1>4, ReceiveAll
<1>5. ASSUME NEW p \in Proc, NEW c \in PortIds, NEW new \in {"PT_ALLOC", "PT_FREE"},
             Ptclear(p, c, new)
      PROVE  PInv'
  BY <1>5, ClearAll
<1>6. ASSUME NEW p \in Proc, PtsendResumes(p) PROVE PInv'
  BY <1>6, SendResumesAll
<1>7. ASSUME NEW p \in Proc, PtrecvResumes(p) PROVE PInv'
  BY <1>7, ReceiveResumesAll
<1>8. ASSUME NEW p \in Proc, PtclearSenders(p) PROVE PInv'
  BY <1>8, SendersAll
<1>9. ASSUME NEW p \in Proc, PtclearReceivers(p) PROVE PInv'
  BY <1>9, ReceiversAll
<1>10. ASSUME NEW p \in Proc, PtclearEnd(p) PROVE PInv'
  BY <1>10, EndAll
<1>11. ASSUME NEW p \in Proc, KillCaller(p) PROVE PInv'
  BY <1>11, KillAll
<1>12. QED
  BY <1>1, <1>2, <1>3, <1>4, <1>5, <1>6, <1>7, <1>8, <1>9, <1>10, <1>11 DEF PortsNext
-----------------------------------------------------------------------------
(* The inductive invariant.                                                *)
LEMMA PortsInvariant == PortsSpec => []PInv
BY PInvInit, PInvNext, PTL DEF PortsSpec

(* What the three properties say of a state that has the invariant.        *)
LEMMA StrandedIs == PInv => NobodyStranded
<1>. SUFFICES ASSUME PInv, NEW p \in Proc, Waiting(p)
     PROVE  /\ p \in ToSet(semtab[SemOf(pc[p].port, pc[p].op)].queue)
            /\ SamePort(p) \/ porttab[pc[p].port].state = "PT_LIMBO"
  BY DEF NobodyStranded, SemOf
<1>1. PICK s \in Sems : p \in ToSet(semtab[s].queue)
  BY DEF Waiting, WaitsIn
<1>2. WaitsFor(p, s)
  BY <1>1 DEF PInv, PortsInv, WaitOK
<1>3. QED
  BY <1>1, <1>2 DEF WaitsFor

LEMMA NodesConservedIs == PInv /\ CountsFit => NodesConserved
<1>. SUFFICES ASSUME PInv, CountsFit PROVE NodesConserved
  OBVIOUS
<1>. DEFINE f == [c \in PortIds |-> Len(porttab[c].msgs)]
<1>1. PortsInv /\ NodesOK /\ PanicOK
  BY DEF PInv
<1>2. \A c \in PortIds : f[c] \in Nat
  BY <1>1, MsgsType
<1>3. \A c \in PortIds : Owned[c] = IF OwnsNodes(c) THEN f[c] ELSE 0
  BY <1>1, OwnedType
<1>. HIDE DEF f
<1>4. PICK g : g = Owned
  OBVIOUS
<1>5. NodesOf(f) = Tally(g, PortIds)
  BY <1>2, <1>3, <1>4, NodesAre
<1>6. QED
  BY <1>1, <1>4, <1>5 DEF NodesOK, PanicOK, NodesConserved, f

(* A process that waits in ptsend or ptrecv waits on the semaphore its     *)
(* port has now and in the life of the port it called, or _ptclear is at   *)
(* work on the port: whoever deletes, resets and creates ports, and        *)
(* whoever is killed, ptclear.c lets everybody go it must let go.          *)
THEOREM NobodyIsStranded == PortsSpec => []NobodyStranded
BY PortsInvariant, StrandedIs, PTL

(* ptrecv never takes the head of an empty list (ptrecv.c:37), and ptsend  *)
(* never exceeds the count of ptcreate, however signals, resets, kills and *)
(* calls that were let go before are interleaved.  The second half needs   *)
(* counts that fit ptmaxcnt.                                               *)
THEOREM RoomAndMessages ==
  ASSUME CountsFit
  PROVE  PortsSpec => []RoomAndMessageForEach
<1>1. PInv => RoomAndMessageForEach
  BY RoomIs DEF PInv, RoomOK
<1>2. QED
  BY <1>1, PortsInvariant, PTL

(* The free list and the lists of the ports have the nodes of ptinit       *)
(* together at all times, and ptsend.c:36 finds none only if the ports     *)
(* were created for more messages than that.                               *)
THEOREM NodesAreConserved ==
  ASSUME CountsFit
  PROVE  PortsSpec => []NodesConserved
<1>1. PInv => NodesConserved
  BY NodesConservedIs
<1>2. QED
  BY <1>1, PortsInvariant, PTL
-----------------------------------------------------------------------------
(* A table of ports as a table of channels.                                *)
Opens == [c \in PortIds |-> Allocated(c)]
SizesOf == [c \in PortIds |-> IF Allocated(c) THEN porttab[c].maxcnt ELSE 0]
Contents == [c \in PortIds |-> IF Allocated(c) THEN porttab[c].msgs ELSE <<>>]

ChStep == [Ch!ChannelNext]_(Ch!chanvars)

(* A port in use has a count that ptcreate was given.                      *)
GivenOK ==
  \A c \in PortIds : porttab[c].state # "PT_FREE" => porttab[c].maxcnt \in {Uint16(n) : n \in Sizes}

LEMMA ChannelsAre ==
  /\ Opens = [c \in PortIds |-> Opens[c]] /\ Opens' = [c \in PortIds |-> Opens'[c]]
  /\ SizesOf = [c \in PortIds |-> SizesOf[c]] /\ SizesOf' = [c \in PortIds |-> SizesOf'[c]]
  /\ Contents = [c \in PortIds |-> Contents[c]] /\ Contents' = [c \in PortIds |-> Contents'[c]]
  /\ \A c \in PortIds :
       /\ Opens[c] = Allocated(c) /\ Opens'[c] = Allocated(c)'
       /\ SizesOf[c] = IF Allocated(c) THEN porttab[c].maxcnt ELSE 0
       /\ SizesOf'[c] = IF Allocated(c)' THEN porttab'[c].maxcnt ELSE 0
       /\ Contents[c] = IF Allocated(c) THEN porttab[c].msgs ELSE <<>>
       /\ Contents'[c] = IF Allocated(c)' THEN porttab'[c].msgs ELSE <<>>
BY DEF Opens, SizesOf, Contents

(* What a step means for the channels.                                     *)
LEMMA ChannelStays ==
  ASSUME \A d \in PortIds : Allocated(d)' <=> Allocated(d),
         \A d \in PortIds : Allocated(d) =>
           porttab'[d].maxcnt = porttab[d].maxcnt /\ porttab'[d].msgs = porttab[d].msgs
  PROVE  ChStep
<1>1. \A d \in PortIds : /\ Opens'[d] = Opens[d] /\ SizesOf'[d] = SizesOf[d]
                         /\ Contents'[d] = Contents[d]
  BY ChannelsAre DEF Allocated
<1>2. Opens' = Opens /\ SizesOf' = SizesOf /\ Contents' = Contents
  BY <1>1, ChannelsAre
<1>3. QED
  BY <1>2 DEF ChStep, Ch!chanvars, Opens, SizesOf, Contents

(* Only channel c changes.                                                 *)
LEMMA ChannelAt ==
  ASSUME NEW c \in PortIds, \A d \in PortIds : d # c => porttab'[d] = porttab[d]
  PROVE  /\ Opens' = [Opens EXCEPT ![c] = Opens'[c]]
         /\ SizesOf' = [SizesOf EXCEPT ![c] = SizesOf'[c]]
         /\ Contents' = [Contents EXCEPT ![c] = Contents'[c]]
<1>1. \A d \in PortIds : d # c => /\ Opens'[d] = Opens[d] /\ SizesOf'[d] = SizesOf[d]
                                  /\ Contents'[d] = Contents[d]
  BY ChannelsAre DEF Allocated
<1>2. QED
  BY <1>1, ChannelsAre

LEMMA ChannelOpens ==
  ASSUME NEW c \in PortIds, \A d \in PortIds : d # c => porttab'[d] = porttab[d],
         ~Allocated(c), Allocated(c)', porttab'[c].msgs = <<>>,
         porttab'[c].maxcnt \in {Uint16(n) : n \in Sizes}
  PROVE  ChStep
<1>1. PICK n \in {Uint16(m) : m \in Sizes} : n = porttab'[c].maxcnt
  OBVIOUS
<1>2. /\ Opens[c] = FALSE /\ Opens'[c] = TRUE /\ SizesOf'[c] = n /\ Contents[c] = <<>>
      /\ Contents'[c] = <<>>
  BY <1>1, ChannelsAre DEF Allocated
<1>3. /\ Opens' = [Opens EXCEPT ![c] = TRUE] /\ SizesOf' = [SizesOf EXCEPT ![c] = n]
      /\ Contents' = Contents
  BY <1>2, ChannelAt, ChannelsAre
<1>4. Ch!Open(c, n)
  BY <1>2, <1>3 DEF Ch!Open, Opens, SizesOf, Contents
<1>5. QED
  BY <1>1, <1>4 DEF ChStep, Ch!ChannelNext

LEMMA ChannelCloses ==
  ASSUME NEW c \in PortIds, \A d \in PortIds : d # c => porttab'[d] = porttab[d],
         Allocated(c), ~Allocated(c)'
  PROVE  ChStep
<1>1. Opens[c] = TRUE /\ Opens'[c] = FALSE /\ SizesOf'[c] = 0 /\ Contents'[c] = <<>>
  BY ChannelsAre DEF Allocated
<1>2. /\ Opens' = [Opens EXCEPT ![c] = FALSE] /\ SizesOf' = [SizesOf EXCEPT ![c] = 0]
      /\ Contents' = [Contents EXCEPT ![c] = <<>>]
  BY <1>1, ChannelAt
<1>3. Ch!Close(c)
  BY <1>1, <1>2 DEF Ch!Close, Opens, SizesOf, Contents
<1>4. QED
  BY <1>3 DEF ChStep, Ch!ChannelNext

LEMMA ChannelPuts ==
  ASSUME NEW c \in PortIds, NEW msg \in Message, Allocated(c),
         porttab \in [PortIds -> PortEntry],
         porttab' = [porttab EXCEPT ![c].msgs = Append(@, msg)],
         Len(porttab[c].msgs) < porttab[c].maxcnt
  PROVE  ChStep
<1>0. PICK q : q = Append(porttab[c].msgs, msg)
  OBVIOUS
<1>1. /\ \A d \in PortIds : d # c => porttab'[d] = porttab[d]
      /\ Allocated(c)' /\ porttab'[c].msgs = q /\ porttab'[c].maxcnt = porttab[c].maxcnt
  BY <1>0 DEF PortEntry, Allocated
<1>2. /\ Opens[c] = TRUE /\ Opens'[c] = TRUE /\ SizesOf'[c] = SizesOf[c]
      /\ Contents[c] = porttab[c].msgs /\ Contents'[c] = q /\ SizesOf[c] = porttab[c].maxcnt
  BY <1>1, ChannelsAre DEF Allocated
<1>3. Opens' = Opens /\ SizesOf' = SizesOf /\ Contents' = [Contents EXCEPT ![c] = q]
  <2>1. \A d \in PortIds : Opens'[d] = Opens[d] /\ SizesOf'[d] = SizesOf[d]
    BY <1>1, <1>2, ChannelsAre DEF Allocated
  <2>2. Opens' = Opens /\ SizesOf' = SizesOf
    BY <2>1, ChannelsAre
  <2>3. Contents' = [Contents EXCEPT ![c] = q]
    BY <1>1, <1>2, ChannelAt
  <2>4. QED
    BY <2>2, <2>3
<1>4. /\ Opens[c] /\ Len(Contents[c]) < SizesOf[c]
      /\ Contents' = [Contents EXCEPT ![c] = Append(Contents[c], msg)]
  BY <1>0, <1>2, <1>3
<1>5. Ch!Put(c, msg)
  BY <1>3, <1>4 DEF Ch!Put, Opens, SizesOf, Contents
<1>6. QED
  BY <1>5 DEF ChStep, Ch!ChannelNext

LEMMA ChannelGets ==
  ASSUME NEW c \in PortIds, Allocated(c), porttab \in [PortIds -> PortEntry],
         porttab' = [porttab EXCEPT ![c].msgs = Tail(@)], porttab[c].msgs # <<>>
  PROVE  ChStep
<1>0. PICK q : q = Tail(porttab[c].msgs)
  OBVIOUS
<1>1. /\ \A d \in PortIds : d # c => porttab'[d] = porttab[d]
      /\ Allocated(c)' /\ porttab'[c].msgs = q /\ porttab'[c].maxcnt = porttab[c].maxcnt
  BY <1>0 DEF PortEntry, Allocated
<1>2. /\ Opens[c] = TRUE /\ Opens'[c] = TRUE /\ SizesOf'[c] = SizesOf[c]
      /\ Contents[c] = porttab[c].msgs /\ Contents'[c] = q
  BY <1>1, ChannelsAre DEF Allocated
<1>3. Opens' = Opens /\ SizesOf' = SizesOf /\ Contents' = [Contents EXCEPT ![c] = q]
  <2>1. \A d \in PortIds : Opens'[d] = Opens[d] /\ SizesOf'[d] = SizesOf[d]
    BY <1>1, <1>2, ChannelsAre DEF Allocated
  <2>2. Opens' = Opens /\ SizesOf' = SizesOf
    BY <2>1, ChannelsAre
  <2>3. Contents' = [Contents EXCEPT ![c] = q]
    BY <1>1, <1>2, ChannelAt
  <2>4. QED
    BY <2>2, <2>3
<1>4. /\ Opens[c] /\ Contents[c] # <<>>
      /\ Contents' = [Contents EXCEPT ![c] = Tail(Contents[c])]
  BY <1>0, <1>2, <1>3
<1>5. Ch!Get(c)
  BY <1>3, <1>4 DEF Ch!Get, Opens, SizesOf, Contents
<1>6. QED
  BY <1>5 DEF ChStep, Ch!ChannelNext
-----------------------------------------------------------------------------
LEMMA EnqueuePuts ==
  ASSUME PInv, CountsFit, NEW p \in Proc, NEW c \in PortIds, NEW msg \in Message, NEW tab,
         Passes(p, c, "ptsend", tab), Enqueue(c, msg, tab)
  PROVE  ChStep
<1>1. "ptsend" \in Ops /\ PortsInv /\ porttab \in [PortIds -> PortEntry]
  BY DEF Ops, PInv, PortsInv, PortsTypeOK
<1>2. Allocated(c) /\ Prom(c, "ptsend") >= 1 /\ SemOf(c, "ptsend") # SYSERR
  BY <1>1, PassesDone DEF Passes
<1>3. CASE ptfree = 0
  BY <1>3, ChannelStays DEF Enqueue, Allocated
<1>4. CASE ptfree # 0
  <2>1. Len(porttab[c].msgs) + Prom(c, "ptsend") <= porttab[c].maxcnt
    BY <1>2 DEF PInv, RoomOK, RoomFor
  <2>2. Len(porttab[c].msgs) \in Nat /\ porttab[c].maxcnt \in Nat
    BY <1>1, MsgsType DEF PortEntry
  <2>3. Prom(c, "ptsend") \in Nat
    BY <1>1, <1>2, SemOfType, LeftType, ClaimsAre DEF Prom, PortsInv, PortsTypeOK
  <2>4. Len(porttab[c].msgs) < porttab[c].maxcnt
    BY <1>2, <2>1, <2>2, <2>3
  <2>5. porttab' = [porttab EXCEPT ![c].msgs = Append(@, msg)]
    BY <1>4 DEF Enqueue
  <2>6. QED
    BY <1>1, <1>2, <2>4, <2>5, ChannelPuts
<1>5. QED
  BY <1>3, <1>4

LEMMA DequeueGets ==
  ASSUME PInv, NEW p \in Proc, NEW c \in PortIds, NEW tab, Passes(p, c, "ptrecv", tab),
         Dequeue(c, tab), ptnextid' = ptnextid, ~panicked
  PROVE  ChStep
<1>1. porttab[c].msgs # <<>>
  BY DequeueAll
<1>2. porttab \in [PortIds -> PortEntry] /\ Allocated(c)
  BY DEF PInv, PortsInv, PortsTypeOK, Passes
<1>3. porttab' = [porttab EXCEPT ![c].msgs = Tail(@)]
  BY DEF Dequeue
<1>4. QED
  BY <1>1, <1>2, <1>3, ChannelGets

LEMMA PortsUntouched ==
  ASSUME porttab' = porttab
  PROVE  ChStep
BY ChannelStays DEF Allocated

LEMMA SendPuts ==
  ASSUME PInv, CountsFit, NEW p \in Proc, NEW c \in PortIds, NEW msg \in Message, Ptsend(p, c, msg)
  PROVE  ChStep
<1>1. SemOf(c, "ptsend") = porttab[c].ssem
  BY DEF SemOf
<1>2. CASE porttab' = porttab
  BY <1>2, PortsUntouched
<1>3. CASE /\ semtab[SemOf(c, "ptsend")].count > 0 /\ pc' = pc
           /\ Enqueue(c, msg, Waited(semtab, SemOf(c, "ptsend")))
  <2>1. PICK tab : tab = Waited(semtab, SemOf(c, "ptsend"))
    OBVIOUS
  <2>2. Passes(p, c, "ptsend", tab) /\ Enqueue(c, msg, tab)
    BY <1>1, <1>3, <2>1 DEF Passes, Ptsend
  <2>3. QED
    BY <2>2, EnqueuePuts
<1>4. QED
  BY <1>1, <1>2, <1>3 DEF Ptsend, BlockOn

LEMMA ReceiveGets ==
  ASSUME PInv, NEW p \in Proc, NEW c \in PortIds, Ptrecv(p, c)
  PROVE  ChStep
<1>1. SemOf(c, "ptrecv") = porttab[c].rsem
  BY DEF SemOf
<1>2. CASE porttab' = porttab
  BY <1>2, PortsUntouched
<1>3. CASE /\ semtab[SemOf(c, "ptrecv")].count > 0 /\ pc' = pc
           /\ Dequeue(c, Waited(semtab, SemOf(c, "ptrecv")))
  <2>1. PICK tab : tab = Waited(semtab, SemOf(c, "ptrecv"))
    OBVIOUS
  <2>2. Passes(p, c, "ptrecv", tab) /\ Dequeue(c, tab)
    BY <1>1, <1>3, <2>1 DEF Passes, Ptrecv
  <2>3. ptnextid' = ptnextid /\ ~panicked
    BY DEF Ptrecv, Runs
  <2>4. QED
    BY <2>2, <2>3, DequeueGets
<1>4. QED
  BY <1>1, <1>2, <1>3 DEF Ptrecv, BlockOn

LEMMA SendResumesPuts ==
  ASSUME PInv, CountsFit, NEW p \in Proc, PtsendResumes(p)
  PROVE  ChStep
<1>1. "ptsend" \in Ops /\ PortsInv /\ Runs(p, "ptsend") /\ Return(p) /\ pc[p].msg \in Message
  BY DEF Ops, PInv, PtsendResumes, Runs, PortsInv, PortsTypeOK
<1>2. CASE SamePort(p)
  <2>1. pc[p].port \in PortIds /\ Passes(p, pc[p].port, "ptsend", semtab)
    BY <1>1, <1>2, ResumePasses
  <2>2. Enqueue(pc[p].port, pc[p].msg, semtab)
    BY <1>2 DEF PtsendResumes
  <2>3. QED
    BY <1>1, <2>1, <2>2, EnqueuePuts
<1>3. CASE ~SamePort(p)
  BY <1>3, PortsUntouched DEF PtsendResumes
<1>4. QED
  BY <1>2, <1>3

LEMMA ReceiveResumesGets ==
  ASSUME PInv, NEW p \in Proc, PtrecvResumes(p)
  PROVE  ChStep
<1>1. "ptrecv" \in Ops /\ PortsInv /\ Runs(p, "ptrecv") /\ Return(p) /\ ptnextid' = ptnextid
      /\ ~panicked
  BY DEF Ops, PInv, PtrecvResumes, Runs
<1>2. CASE SamePort(p)
  <2>1. pc[p].port \in PortIds /\ Passes(p, pc[p].port, "ptrecv", semtab)
    BY <1>1, <1>2, ResumePasses
  <2>2. Dequeue(pc[p].port, semtab)
    BY <1>2 DEF PtrecvResumes
  <2>3. QED
    BY <1>1, <2>1, <2>2, DequeueGets
<1>3. CASE ~SamePort(p)
  BY <1>3, PortsUntouched DEF PtrecvResumes
<1>4. QED
  BY <1>2, <1>3

LEMMA CreateOpens ==
  ASSUME PInv, NEW p \in Proc, NEW n \in Sizes, Ptcreate(p, n)
  PROVE  ChStep /\ (GivenOK => GivenOK')
<1>1. PICK c : c = NewPort
  OBVIOUS
<1>2. c \in PortIds /\ ~Allocated(c) /\ porttab \in [PortIds -> PortEntry]
  BY <1>1, NewPortIs DEF Ptcreate, Allocated, PInv, PortsInv, PortsTypeOK
<1>3. PICK ss, rs : porttab' = [porttab EXCEPT ![c] =
              [state |-> "PT_ALLOC", ssem |-> ss, rsem |-> rs,
               maxcnt |-> Uint16(n), seq |-> porttab[c].seq + 1, msgs |-> <<>>]]
  BY <1>1 DEF Ptcreate
<1>4. /\ \A d \in PortIds : d # c => porttab'[d] = porttab[d]
      /\ Allocated(c)' /\ porttab'[c].msgs = <<>> /\ porttab'[c].maxcnt = Uint16(n)
  BY <1>2, <1>3 DEF Allocated
<1>5. ChStep
  BY <1>2, <1>4, ChannelOpens
<1>6. GivenOK => GivenOK'
  BY <1>4 DEF GivenOK
<1>7. QED
  BY <1>5, <1>6

LEMMA ClearCloses ==
  ASSUME PInv, NEW p \in Proc, NEW c \in PortIds, NEW new, Ptclear(p, c, new)
  PROVE  ChStep /\ (GivenOK => GivenOK')
<1>1. porttab \in [PortIds -> PortEntry] /\ Allocated(c)
  BY DEF PInv, PortsInv, PortsTypeOK, Ptclear
<1>2. /\ \A d \in PortIds : d # c => porttab'[d] = porttab[d]
      /\ ~Allocated(c)' /\ porttab'[c].maxcnt = porttab[c].maxcnt
  BY <1>1 DEF Ptclear, PortEntry, Allocated
<1>3. ChStep
  BY <1>1, <1>2, ChannelCloses
<1>4. GivenOK => GivenOK'
  BY <1>1, <1>2 DEF GivenOK, Allocated
<1>5. QED
  BY <1>3, <1>4

LEMMA ReleaseStays ==
  ASSUME PInv, NEW p \in Proc, PtclearSenders(p) \/ PtclearReceivers(p)
  PROVE  ChStep /\ (GivenOK => GivenOK')
<1>1. /\ porttab \in [PortIds -> PortEntry] /\ pc[p].port \in PortIds
      /\ ~Allocated(pc[p].port)
  BY DEF PInv, PortsInv, PortsTypeOK, Call, ClearOK, Clearing, Allocated, Runs,
         PtclearSenders, PtclearReceivers
<1>2. \A d \in PortIds :
        /\ porttab'[d].state = porttab[d].state /\ porttab'[d].maxcnt = porttab[d].maxcnt
        /\ d # pc[p].port => porttab'[d] = porttab[d]
  BY <1>1, SMTT(60) DEF PtclearSenders, PtclearReceivers, PortEntry
<1>3. ChStep
  BY <1>1, <1>2, ChannelStays DEF Allocated
<1>4. GivenOK => GivenOK'
  BY <1>2 DEF GivenOK
<1>5. QED
  BY <1>3, <1>4

LEMMA EndOpens ==
  ASSUME PInv, GivenOK, NEW p \in Proc, PtclearEnd(p)
  PROVE  ChStep /\ GivenOK'
<1>1. PICK c \in PortIds : c = pc[p].port
  BY DEF PInv, PortsInv, PortsTypeOK, Call
<1>2. PICK new \in {"PT_ALLOC", "PT_FREE"} : new = pc[p].new
  BY DEF PInv, PortsInv, PortsTypeOK, Call
<1>3. /\ porttab \in [PortIds -> PortEntry] /\ pc[p].op = "finish"
      /\ porttab[c].state = "PT_LIMBO" /\ ~Allocated(c)
      /\ porttab' = [porttab EXCEPT ![c].state = new]
  BY <1>1, <1>2 DEF PInv, PortsInv, PortsTypeOK, ClearOK, Clearing, Allocated, Runs, PtclearEnd
<1>4. /\ \A d \in PortIds : d # c => porttab'[d] = porttab[d]
      /\ porttab'[c].msgs = porttab[c].msgs /\ porttab'[c].maxcnt = porttab[c].maxcnt
      /\ porttab'[c].state = new
  BY <1>3 DEF PortEntry
<1>5. porttab[c].maxcnt \in {Uint16(n) : n \in Sizes}
  BY <1>3 DEF GivenOK
<1>6. GivenOK'
  BY <1>4, <1>5 DEF GivenOK
<1>7. CASE new = "PT_FREE"
  BY <1>3, <1>4, <1>6, <1>7, ChannelStays DEF Allocated
<1>8. CASE new = "PT_ALLOC"
  <2>1. porttab[c].msgs = <<>>
    BY <1>1, <1>2, <1>3, <1>8 DEF PInv, PortsInv, EmptyOK, ResetOK
  <2>2. Allocated(c)'
    BY <1>4, <1>8 DEF Allocated
  <2>3. QED
    BY <1>3, <1>4, <1>5, <1>6, <2>1, <2>2, ChannelOpens
<1>9. QED
  BY <1>7, <1>8

(* A send or a receive that goes on changes messages only.                 *)
LEMMA GivenKept ==
  ASSUME GivenOK, \A d \in PortIds : porttab'[d].state = porttab[d].state
                                     /\ porttab'[d].maxcnt = porttab[d].maxcnt
  PROVE  GivenOK'
BY DEF GivenOK

LEMMA MessagesOnly ==
  ASSUME PInv, GivenOK, NEW e,
         porttab' = porttab \/ \E m : porttab' = [porttab EXCEPT ![e].msgs = m]
  PROVE  GivenOK'
<1>1. CASE porttab' = porttab
  BY <1>1, GivenKept
<1>2. CASE \E m : porttab' = [porttab EXCEPT ![e].msgs = m]
  <2>1. PICK m : porttab' = [porttab EXCEPT ![e].msgs = m]
    BY <1>2
  <2>2. ASSUME NEW d \in PortIds
        PROVE  porttab'[d].state = porttab[d].state /\ porttab'[d].maxcnt = porttab[d].maxcnt
    <3>1. porttab \in [PortIds -> PortEntry] /\ porttab[d] \in PortEntry
      BY DEF PInv, PortsInv, PortsTypeOK
    <3>2. CASE d = e
      BY <2>1, <3>1, <3>2 DEF PortEntry
    <3>3. CASE d # e
      BY <2>1, <3>1, <3>3
    <3>4. QED
      BY <3>2, <3>3
  <2>3. QED
    BY <2>2, GivenKept
<1>3. QED
  BY <1>1, <1>2

LEMMA ChannelStep ==
  ASSUME CountsFit, PInv, GivenOK, [PortsNext]_portvars
  PROVE  ChStep /\ GivenOK'
<1>0. ASSUME porttab' = porttab PROVE ChStep /\ GivenOK'
  BY <1>0, PortsUntouched, GivenKept
<1>1. CASE UNCHANGED portvars
  BY <1>0, <1>1 DEF portvars
<1>2. ASSUME NEW p \in Proc, NEW n \in Sizes, Ptcreate(p, n) PROVE ChStep /\ GivenOK'
  BY <1>2, CreateOpens
<1>3. ASSUME NEW p \in Proc, NEW c \in PortIds, NEW msg \in Message, Ptsend(p, c, msg)
      PROVE  ChStep /\ GivenOK'
  BY <1>3, SendPuts, MessagesOnly DEF Ptsend, Enqueue, BlockOn
<1>4. ASSUME NEW p \in Proc, NEW c \in PortIds, Ptrecv(p, c) PROVE ChStep /\ GivenOK'
  BY <1>4, ReceiveGets, MessagesOnly DEF Ptrecv, Dequeue, BlockOn
<1>5. ASSUME NEW p \in Proc, NEW c \in PortIds, NEW new \in {"PT_ALLOC", "PT_FREE"},
             Ptclear(p, c, new)
      PROVE  ChStep /\ GivenOK'
  BY <1>5, ClearCloses
<1>6. ASSUME NEW p \in Proc, PtsendResumes(p) PROVE ChStep /\ GivenOK'
  BY <1>6, SendResumesPuts, MessagesOnly DEF PtsendResumes, Enqueue
<1>7. ASSUME NEW p \in Proc, PtrecvResumes(p) PROVE ChStep /\ GivenOK'
  BY <1>7, ReceiveResumesGets, MessagesOnly DEF PtrecvResumes, Dequeue
<1>8. ASSUME NEW p \in Proc, PtclearSenders(p) \/ PtclearReceivers(p) PROVE ChStep /\ GivenOK'
  BY <1>8, ReleaseStays
<1>9. ASSUME NEW p \in Proc, PtclearEnd(p) PROVE ChStep /\ GivenOK'
  BY <1>9, EndOpens
<1>10. ASSUME NEW p \in Proc, KillCaller(p) PROVE ChStep /\ GivenOK'
  BY <1>0, <1>10 DEF KillCaller
<1>11. QED
  BY <1>1, <1>2, <1>3, <1>4, <1>5, <1>6, <1>7, <1>8, <1>9, <1>10 DEF PortsNext

LEMMA ChannelStart == PortsInit => GivenOK /\ Ch!ChannelInit
<1>. SUFFICES ASSUME PortsInit PROVE GivenOK /\ Ch!ChannelInit
  OBVIOUS
<1>1. \A c \in PortIds : porttab[c].state = "PT_FREE"
  BY DEF PortsInit
<1>2. \A c \in PortIds : Opens[c] = FALSE /\ SizesOf[c] = 0 /\ Contents[c] = <<>>
  BY <1>1 DEF Opens, SizesOf, Contents, Allocated
<1>3. /\ Opens = [c \in PortIds |-> FALSE]
      /\ SizesOf = [c \in PortIds |-> 0] /\ Contents = [c \in PortIds |-> <<>>]
  BY <1>2, ChannelsAre
<1>4. Ch!ChannelInit
  BY <1>3 DEF Ch!ChannelInit, Opens, SizesOf, Contents
<1>5. QED
  BY <1>1, <1>4 DEF GivenOK

(* ptcreate, ptsend, ptrecv, ptreset and ptdelete implement a table of     *)
(* bounded first-in first-out channels, step for step: a message sent is   *)
(* received once and in order in the life of the port it was sent to, or   *)
(* discarded when the port is cleared.                                     *)
THEOREM PortsAreChannels ==
  ASSUME CountsFit
  PROVE  PortsSpec => PortIsChannel
<1>1. PInv /\ GivenOK /\ [PortsNext]_portvars => GivenOK' /\ [Ch!ChannelNext]_(Ch!chanvars)
  BY ChannelStep DEF ChStep
<1>2. QED
  BY <1>1, ChannelStart, PortsInvariant, PTL DEF PortsSpec, PortIsChannel, Ch!ChannelSpec
=============================================================================
