------------------------------- MODULE Ports -------------------------------
(***************************************************************************)
(* Message ports (system/ptinit.c, ptcreate.c, ptsend.c, ptrecv.c,         *)
(* ptclear.c, ptdelete.c, ptreset.c, ptcount.c).  A port is a queue of     *)
(* messages with a semaphore counting its free places and one counting its *)
(* messages; the message nodes of all ports come from one free list.       *)
(*                                                                         *)
(* A call runs until it blocks in wait or can give the processor away in   *)
(* the caller's dispose function, semreset or semdelete; what it then      *)
(* still has to do is in pc.  Any live process that is not waiting may run *)
(* next, whatever its priority: module Kernel has the scheduling.          *)
(***************************************************************************)
EXTENDS SemTable, FiniteSets

CONSTANTS
  Proc,        \* processes that use the ports
  Message,     \* one-word messages
  NoMessage,   \* stands for the message of a call that has none
  NPORTS,      \* size of porttab
  PT_MSGS,     \* message nodes, the argument of ptinit
  Sizes,       \* counts passed to ptcreate
  MaxSeq       \* bound of the model: no call raises a ptseq above it

ASSUME PortAssumption ==
  /\ NPORTS \in Nat \ {0}
  /\ PT_MSGS \in Nat \ {0} /\ MaxSeq \in Nat
  /\ Sizes \subseteq Nat
  /\ NoMessage \notin Message
  /\ IsFiniteSet(Proc)

PortIds == 0..(NPORTS - 1)

VARIABLES
  porttab,     \* the port table; msgs is the list pthead leads to
  ptfree,      \* how many nodes the free list has
  ptnextid,    \* next port table entry to try
  pc,          \* what each process still has to do
  panicked     \* panic has stopped the machine

portvars == <<porttab, ptfree, ptnextid, semtab, pc, panicked>>

Clearing  == {"dispose", "receivers", "finish"}
Idle      == [op |-> "idle", port |-> 0, seq |-> 0, msg |-> NoMessage,
              new |-> "PT_FREE", live |-> TRUE]

PortsInit ==
  /\ porttab  = [c \in PortIds |-> [state |-> "PT_FREE", ssem |-> SYSERR, rsem |-> SYSERR,
                                    maxcnt |-> 0, seq |-> 0, msgs |-> <<>>]]
  /\ ptfree   = PT_MSGS
  /\ ptnextid = 0
  /\ pc       = [p \in Proc |-> Idle]
  /\ panicked = FALSE

Waiting(p)     == WaitsIn(semtab, p)
Runs(p, o)     == ~panicked /\ pc[p].live /\ pc[p].op = o /\ ~Waiting(p)
Goto(p, op)    == pc' = [pc EXCEPT ![p].op = op]
Return(p)      == pc' = [pc EXCEPT ![p] = Idle]
Allocated(c)   == porttab[c].state = "PT_ALLOC"
-----------------------------------------------------------------------------
Uint16(n) == n % 65536

(* The first free port at or after ptnextid, cyclically. *)
FreePorts == {c \in PortIds : porttab[c].state = "PT_FREE"}
Ahead(c)  == IF c >= ptnextid THEN c - ptnextid ELSE c + NPORTS - ptnextid
NewPort   == CHOOSE c \in FreePorts : \A d \in FreePorts : Ahead(c) <= Ahead(d)

(* ptcreate does not look whether its two calls of semcreate succeed. *)
Ptcreate(p, count) ==
  /\ Runs(p, "idle")
  /\ FreePorts # {}
  /\ porttab[NewPort].seq < MaxSeq
  /\ \E ss \in NewSems(semtab) :
       LET tab == Semcreate(semtab, count, ss) IN
       \E rs \in NewSems(tab) :
         /\ semtab' = Semcreate(tab, 0, rs)
         /\ porttab' = [porttab EXCEPT ![NewPort] =
              [state |-> "PT_ALLOC", ssem |-> ss, rsem |-> rs,
               maxcnt |-> Uint16(count), seq |-> @.seq + 1, msgs |-> <<>>]]
  /\ ptnextid' = (NewPort + 1) % NPORTS
  /\ UNCHANGED <<ptfree, pc, panicked>>

EnqueueAtHead(c, msg, tab) ==
  /\ ptfree > 0
  /\ ptfree' = ptfree - 1
  /\ porttab' = [porttab EXCEPT ![c].msgs = <<msg>> \o @]
  /\ semtab' = Signalled(tab, porttab[c].rsem)
  /\ UNCHANGED panicked

(* The rest of ptsend once wait has returned, with the semaphores as wait  *)
(* left them.  When there is no node left the machine stops.               *)
Enqueue(c, msg, tab) ==
  IF ptfree = 0
  THEN /\ panicked' = TRUE
       /\ semtab' = tab
       /\ UNCHANGED <<porttab, ptfree>>
  ELSE /\ ptfree' = ptfree - 1
       /\ porttab' = [porttab EXCEPT ![c].msgs = Append(@, msg)]
       /\ semtab' = Signalled(tab, porttab[c].rsem)
       /\ UNCHANGED panicked

(* The rest of ptrecv once wait has returned. *)
Dequeue(c, tab) ==
  /\ porttab' = [porttab EXCEPT ![c].msgs = Tail(@)]
  /\ ptfree' = ptfree + 1
  /\ semtab' = Signalled(tab, porttab[c].ssem)
  /\ UNCHANGED panicked

(* What a call verifies when wait returns. *)
AnyLife(p) == Allocated(pc[p].port)
SamePort(p) == Allocated(pc[p].port) /\ porttab[pc[p].port].seq = pc[p].seq

(* wait(s) when it blocks: the rest of the call o is left for later. *)
BlockOn(p, s, o, c, msg) ==
  /\ semtab[s].count <= 0
  /\ semtab' = Enqueued(semtab, s, p)
  /\ pc' = [pc EXCEPT ![p] = [Idle EXCEPT !.op = o, !.port = c, !.msg = msg,
                                          !.seq = porttab[c].seq]]
  /\ UNCHANGED <<porttab, ptfree, panicked>>

Ptsend(p, c, msg) ==
  LET s == porttab[c].ssem IN
  /\ Runs(p, "idle") /\ Allocated(c) /\ s # SYSERR
  /\ \/ BlockOn(p, s, "ptsend", c, msg)
     \/ semtab[s].count > 0 /\ Enqueue(c, msg, Waited(semtab, s)) /\ UNCHANGED pc
  /\ UNCHANGED ptnextid

PtsendResumes(p) ==
  /\ Runs(p, "ptsend")
  /\ IF SamePort(p) THEN Enqueue(pc[p].port, pc[p].msg, semtab)
                    ELSE UNCHANGED <<porttab, ptfree, semtab, panicked>>
  /\ Return(p)
  /\ UNCHANGED ptnextid

Ptrecv(p, c) ==
  LET s == porttab[c].rsem IN
  /\ Runs(p, "idle") /\ Allocated(c) /\ s # SYSERR
  /\ \/ BlockOn(p, s, "ptrecv", c, NoMessage)
     \/ semtab[s].count > 0 /\ Dequeue(c, Waited(semtab, s)) /\ UNCHANGED pc
  /\ UNCHANGED ptnextid

PtrecvResumes(p) ==
  /\ Runs(p, "ptrecv")
  /\ IF SamePort(p) THEN Dequeue(pc[p].port, semtab)
                    ELSE UNCHANGED <<porttab, ptfree, semtab, panicked>>
  /\ Return(p)
  /\ UNCHANGED ptnextid
-----------------------------------------------------------------------------
(* _ptclear, called by ptreset (new = PT_ALLOC) and ptdelete (PT_FREE).    *)

(* The port goes to limbo; then dispose is called on each message. *)
Ptclear(p, c, new) ==
  /\ Runs(p, "idle") /\ Allocated(c) /\ porttab[c].seq < MaxSeq
  /\ porttab' = [porttab EXCEPT ![c].state = "PT_LIMBO", ![c].seq = @ + 1]
  /\ pc' = [pc EXCEPT ![p] = [Idle EXCEPT !.op = "dispose", !.port = c, !.new = new]]
  /\ UNCHANGED <<ptfree, ptnextid, semtab, panicked>>

PtclearForgetsNodes(p) ==
  LET c == pc[p].port
      t == porttab[c]
  IN
  /\ Runs(p, "dispose")
  /\ porttab' = [porttab EXCEPT ![c].msgs = IF pc[p].new = "PT_ALLOC" THEN <<>> ELSE @]
  /\ semtab' = IF pc[p].new = "PT_ALLOC" THEN ResetTo(semtab, t.ssem, t.maxcnt)
                                         ELSE Deleted(semtab, t.ssem)
  /\ Goto(p, "receivers")
  /\ UNCHANGED <<ptfree, ptnextid, panicked>>

(* The nodes go back, and the senders are released. A deletion leaves      *)
(* pthead at the nodes it returned.                                        *)
PtclearSenders(p) ==
  LET c == pc[p].port
      t == porttab[c]
  IN
  /\ Runs(p, "dispose")
  /\ ptfree' = ptfree + Len(t.msgs)
  /\ porttab' = [porttab EXCEPT ![c].msgs = IF pc[p].new = "PT_ALLOC" THEN <<>> ELSE @]
  /\ semtab' = IF pc[p].new = "PT_ALLOC" THEN ResetTo(semtab, t.ssem, t.maxcnt)
                                         ELSE Deleted(semtab, t.ssem)
  /\ Goto(p, "receivers")
  /\ UNCHANGED <<ptnextid, panicked>>

PtclearSkipsReceivers(p) ==
  /\ Runs(p, "receivers")
  /\ Goto(p, "finish")
  /\ UNCHANGED <<porttab, ptfree, ptnextid, semtab, panicked>>

(* The receivers are released. *)
PtclearReceivers(p) ==
  LET t == porttab[pc[p].port] IN
  /\ Runs(p, "receivers")
  /\ semtab' = IF pc[p].new = "PT_ALLOC" THEN ResetTo(semtab, t.rsem, 0)
                                         ELSE Deleted(semtab, t.rsem)
  /\ Goto(p, "finish")
  /\ UNCHANGED <<porttab, ptfree, ptnextid, panicked>>

PtclearEnd(p) ==
  /\ Runs(p, "finish")
  /\ porttab' = [porttab EXCEPT ![pc[p].port].state = pc[p].new]
  /\ ptnextid' = IF pc[p].new = "PT_FREE" THEN pc[p].port ELSE ptnextid
  /\ Return(p)
  /\ UNCHANGED <<ptfree, semtab, panicked>>

(* kill of a process in one of these calls: it leaves the semaphore it     *)
(* waits for, whose count it gives back.  A process killed inside _ptclear *)
(* leaves the port as it is; any other is replaced by a new one.           *)
KillCaller(p) ==
  /\ ~panicked /\ pc[p].live /\ pc[p].op # "idle"
  /\ semtab' = Killed(semtab, p)
  /\ pc' = [pc EXCEPT ![p] = IF @.op \in Clearing THEN [@ EXCEPT !.live = FALSE] ELSE Idle]
  /\ UNCHANGED <<porttab, ptfree, ptnextid, panicked>>
-----------------------------------------------------------------------------
PortsNext ==
  \E p \in Proc :
    \/ \E n \in Sizes : Ptcreate(p, n)
    \/ \E c \in PortIds :
         \/ \E msg \in Message : Ptsend(p, c, msg)
         \/ Ptrecv(p, c)
         \/ \E new \in {"PT_ALLOC", "PT_FREE"} : Ptclear(p, c, new)
    \/ PtsendResumes(p)
    \/ PtrecvResumes(p)
    \/ PtclearSenders(p)
    \/ PtclearReceivers(p)
    \/ PtclearEnd(p)
    \/ KillCaller(p)

PortsSpec == PortsInit /\ SemInit /\ [][PortsNext]_portvars
-----------------------------------------------------------------------------
(* A port owns the nodes of its list until _ptclear has returned them. *)
OwnsNodes(c) ==
  Allocated(c) \/ \E p \in Proc : pc[p].op = "dispose" /\ pc[p].port = c

(* Calls released from wait(o's semaphore) that have not gone on: each has *)
(* been given a message (ptrecv) or a place (ptsend) of the port's life.   *)
Claims(c, o) ==
  Cardinality({p \in Proc : pc[p].op = o /\ pc[p].port = c /\ SamePort(p) /\ ~Waiting(p)})

Owners == {c \in PortIds : OwnsNodes(c)}
NodesOf(n) == UNION {{<<c, i>> : i \in 1..n[c]} : c \in Owners}

(* No message node is lost or in two lists, whatever calls are cut short:  *)
(* the free list and the lists of the ports have PT_MSGS nodes together    *)
(* (ptsend.c, ptrecv.c and ptclear.c each move nodes between them).  So    *)
(* ptsend.c:36 stops the machine only if the ports there are were created  *)
(* for more messages than ptinit made nodes for.                           *)
NodesConserved ==
  /\ ptfree + Cardinality(NodesOf([c \in PortIds |-> Len(porttab[c].msgs)])) = PT_MSGS
  /\ panicked => Cardinality(NodesOf([c \in PortIds |-> porttab[c].maxcnt])) > PT_MSGS

(* ptrecv.c:37 reads the head of the list without looking whether there is *)
(* one: the messages an allocated port holds suffice for those its         *)
(* semaphore still counts and those released receivers have been promised. *)
(* Nor does it ever hold more than it was created for, also when every     *)
(* place its semaphore counts or has promised to a released sender is      *)
(* taken.                                                                  *)
RoomAndMessageForEach ==
  \A c \in PortIds : Allocated(c) =>
    /\ porttab[c].rsem # SYSERR =>
         Claims(c, "ptrecv") + Left(semtab, porttab[c].rsem) <= Len(porttab[c].msgs)
    /\ porttab[c].ssem # SYSERR =>
         Len(porttab[c].msgs) + Claims(c, "ptsend") + Left(semtab, porttab[c].ssem)
           <= porttab[c].maxcnt

(* A blocked caller waits on the semaphore its port has now, in the life   *)
(* of the port it called, or the port is being cleared and will release    *)
(* it: deletion and reuse of ports and semaphores strand nobody.           *)
NobodyStranded ==
  \A p \in Proc : Waiting(p) =>
    LET t == porttab[pc[p].port] IN
    /\ p \in ToSet(semtab[IF pc[p].op = "ptsend" THEN t.ssem ELSE t.rsem].queue)
    /\ SamePort(p) \/ t.state = "PT_LIMBO"
-----------------------------------------------------------------------------
(* An allocated port is a channel; ptreset closes it and opens it anew. *)
Ch == INSTANCE Channel
        WITH Port <- PortIds, Size <- {Uint16(n) : n \in Sizes},
             open <- [c \in PortIds |-> Allocated(c)],
             size <- [c \in PortIds |-> IF Allocated(c) THEN porttab[c].maxcnt ELSE 0],
             contents <- [c \in PortIds |-> IF Allocated(c) THEN porttab[c].msgs ELSE <<>>]

(* ptsend, ptrecv, ptreset and ptdelete keep the promise of a bounded      *)
(* first-in first-out queue: a message sent is received once, in order and *)
(* in the life of the port it was sent to, or discarded by a clearing; no  *)
(* late sender puts a message into a port that was cleared since.          *)
PortIsChannel == Ch!ChannelSpec
=============================================================================
