----------------------------- MODULE RemoteDisk -----------------------------
(***************************************************************************)
(* The remote disk (device/rds).  Callers put requests on a queue; the     *)
(* process rdsprocess takes them from its head, exchanges messages with    *)
(* the server for each read and write, and keeps the blocks in a cache.    *)
(* A buffer is on the free list, on the queue or in the cache.             *)
(*                                                                         *)
(* The driver has no mutex.  A step here is a call up to the place where   *)
(* it blocks, for a buffer or for its answer; a caller is not preempted    *)
(* while it searches the lists.  The server is external: it acts on a      *)
(* request when it is sent, or the request is lost; its replies may be     *)
(* lost, late and out of order.  The exchanges of rdsopen and of a         *)
(* deletion are single steps.                                              *)
(***************************************************************************)
EXTENDS Integers, SequencesExt

CONSTANTS
  RdCaller, RdBlock, RdData,
  RD_BUFFS, RD_RETRIES,
  RdNone

ASSUME RdAssumption ==
  /\ {RD_BUFFS, RD_RETRIES} \subseteq Nat \ {0} /\ IsFiniteSet(RdCaller)
  /\ 0 \in RdBlock /\ RdBlock \subseteq Nat /\ RdNone \notin RdData

VARIABLES
  rd_state,           \* free, open or pend
  rd_free, rd_queue, rd_cache,      \* the lists of buffers, from the head
  rd_buff,            \* contents of the buffers
  rd_availsem, rd_waiting,          \* count of the semaphore, processes queued at it
  rd_reqsem,
  rdcall,             \* what each caller is doing
  rdcom,              \* what rdsprocess is doing
  rd_blk,             \* block number in its message
  rd_seq, rdreplies,  \* last sequence number; replies on their way or queued
  rdserver,           \* the blocks at the server
  rdlast,             \* what was written last to each block (ghost)
  rddoubt,            \* blocks with a stale search or a wrong reply behind them (ghost)
  rdstolen,           \* a copy was taken that the semaphore had promised (ghost)
  rdpanic             \* why the system stopped

rdlists == <<rd_free, rd_queue, rd_cache, rd_buff, rd_availsem, rd_waiting, rd_reqsem>>
rdnet   == <<rdcom, rd_blk, rd_seq, rdreplies, rdserver>>
rdghost == <<rdlast, rddoubt, rdstolen>>
rdsvars == <<rd_state, rdlists, rdcall, rdnet, rdghost, rdpanic>>

RdBuffers == 1..RD_BUFFS
RdIdle    == [ph |-> "idle"]
ComWaits  == [ph |-> "wait"]

(* The device as rdsinit leaves it.  The block number in the message of    *)
(* rdsprocess is not initialized.                                          *)
RdsInit ==
  /\ rd_state = "free"
  /\ rd_free = [i \in 1..RD_BUFFS |-> i] /\ rd_queue = <<>> /\ rd_cache = <<>>
  /\ rd_buff = [b \in RdBuffers |-> [op |-> RdNone, refcnt |-> 0, blknum |-> 0,
                                     valid |-> FALSE, pid |-> RdNone, data |-> RdNone,
                                     of |-> 0]]
  /\ rd_availsem = RD_BUFFS /\ rd_waiting = <<>> /\ rd_reqsem = 0
  /\ rdcall = [p \in RdCaller |-> RdIdle] /\ rdcom = ComWaits
  /\ rd_blk \in RdBlock /\ rd_seq = 0 /\ rdreplies = {}
  /\ rdserver = [b \in RdBlock |-> RdNone] /\ rdlast = rdserver
  /\ rddoubt = {} /\ rdstolen = FALSE /\ rdpanic = "no"

(* Places of block blk, and of writes to it, in a list of buffers.         *)
At(list, blk)     == {i \in DOMAIN list : rd_buff[list[i]].blknum = blk}
Writes(list, blk) == {i \in At(list, blk) : rd_buff[list[i]].op = "write"}

(* What a read of blk finds without the server: the first copy in the      *)
(* cache if it is valid, else the last request if it is a write.           *)
CachedAny(blk) == {rd_cache[i] : i \in At(rd_cache, blk)}
Cached(blk) == LET C == At(rd_cache, blk)
               IN  IF C = {} THEN {} ELSE {b \in {rd_cache[Min(C)]} : rd_buff[b].valid}
Queued(blk) == LET Q == At(rd_queue, blk)
               IN  IF Q = {} THEN {} ELSE {b \in {rd_queue[Max(Q)]} : rd_buff[b].op = "write"}

Starts(p) == rd_state = "open" /\ rdcall[p] = RdIdle /\ rdpanic = "no"

Request(op, blk, data) == [ph |-> "run", op |-> op, blk |-> blk, data |-> data, buf |-> 0]

(* Request r of p in buffer b goes to the tail of the queue; the caller of *)
(* a read or a synchronization waits for a message.                        *)
Enqueue(p, r, b) ==
  /\ rd_buff' = [rd_buff EXCEPT ![b] =
       [op |-> r.op, refcnt |-> IF r.op = "write" THEN 0 ELSE 1, blknum |-> r.blk,
        valid |-> r.op = "write", pid |-> p, data |-> r.data, of |-> r.blk]]
  /\ rd_queue' = Append(rd_queue, b) /\ rd_reqsem' = rd_reqsem + 1
  /\ rdcall' = [rdcall EXCEPT ![p] = IF r.op = "write" THEN RdIdle
                                     ELSE [r EXCEPT !.ph = "recv"]]
  /\ rdlast' = IF r.op = "write" THEN [rdlast EXCEPT ![r.blk] = r.data] ELSE rdlast

(* The rest of rdsbufalloc after its wait: the first free buffer, or the   *)
(* oldest in the cache that nobody reads.  The block may have been written *)
(* since the caller searched for it, or the search of a read may have      *)
(* ended at a synchronization that names block 0, before a write of it.    *)
Reusable == {i \in DOMAIN rd_cache : rd_buff[rd_cache[i]].refcnt <= 0}
TakeBuffer(p, r) ==
  LET b == IF rd_free # <<>> THEN Head(rd_free) ELSE rd_cache[Max(Reusable)]
  IN  IF rd_free = <<>> /\ Reusable = {}
      THEN rdpanic' = "nobuffer"
           /\ UNCHANGED <<rd_free, rd_cache, rd_queue, rd_buff, rd_reqsem, rdcall, rdlast,
                          rddoubt>>
      ELSE /\ Enqueue(p, r, b)
           /\ rd_free' = RemoveFirst(rd_free, b) /\ rd_cache' = RemoveFirst(rd_cache, b)
           /\ rddoubt' = IF r.op # "sync" /\ (Cached(r.blk) # {} \/ Writes(rd_queue, r.blk) # {})
                         THEN rddoubt \cup {r.blk} ELSE rddoubt
           /\ UNCHANGED rdpanic

rdsbufalloc(p, r) ==
  /\ rd_availsem' = rd_availsem - 1
  /\ IF rd_availsem > 0 THEN TakeBuffer(p, r) /\ UNCHANGED rd_waiting
     ELSE /\ rd_waiting' = Append(rd_waiting, p)
          /\ rdcall' = [rdcall EXCEPT ![p] = [r EXCEPT !.ph = "avail"]]
          /\ UNCHANGED <<rd_free, rd_cache, rd_queue, rd_buff, rd_reqsem, rdlast, rddoubt,
                         rdpanic>>

(* A process released from the wait for a buffer goes on.                  *)
RdsGoesOn(p) ==
  /\ rdcall[p].ph = "go" /\ rdpanic = "no"
  /\ TakeBuffer(p, rdcall[p])
  /\ UNCHANGED <<rd_state, rd_availsem, rd_waiting, rdnet, rdstolen>>

(* rdsopen: a name that is empty or too long leaves the device pending.    *)
Rdsopen ==
  /\ rd_state = "free" /\ rdpanic = "no" /\ rd_state' \in {"pend", "open"}
  /\ UNCHANGED <<rdlists, rdcall, rdnet, rdghost, rdpanic>>

(* rdsread up to its wait.  A read that finds a copy changes nothing.      *)
Rdsread(p, blk) ==
  /\ Starts(p) /\ Cached(blk) = {} /\ Queued(blk) = {}
  /\ rdsbufalloc(p, Request("read", blk, RdNone))
  /\ UNCHANGED <<rd_state, rdnet, rdstolen>>

(* The rest of rdsread: a buffer no longer read leaves the cache if there  *)
(* is a newer copy before it.                                              *)
RdsreadEnds(p) ==
  LET b     == rdcall[p].buf
      older == rd_buff[b].refcnt <= 1
               /\ \E i, j \in DOMAIN rd_cache :
                    i < j /\ rd_cache[j] = b /\ rd_buff[rd_cache[i]].blknum = rdcall[p].blk
  IN  /\ rdcall[p].ph = "got" /\ rdpanic = "no"
      /\ rd_buff' = [rd_buff EXCEPT ![b].refcnt = @ - 1]
      /\ rd_cache' = IF older THEN RemoveFirst(rd_cache, b) ELSE rd_cache
      /\ rd_free' = IF older THEN <<b>> \o rd_free ELSE rd_free
      /\ rdcall' = [rdcall EXCEPT ![p] = RdIdle]
      /\ UNCHANGED <<rd_state, rd_queue, rd_availsem, rd_waiting, rd_reqsem, rdnet, rdghost,
                     rdpanic>>

(* rdswrite: over a write that is queued, or into the copy in the cache if *)
(* nobody reads it, or into a new buffer.  The semaphore is reset for a    *)
(* copy taken from the cache, which fails when its count is not positive:  *)
(* the buffer was promised to a process released already.                  *)
Rdswrite(p, blk, data) ==
  LET C     == At(rd_cache, blk)
      Copy  == IF C = {} THEN {} ELSE {b \in {rd_cache[Min(C)]} : rd_buff[b].refcnt <= 0}
      W     == Writes(rd_queue, blk)
      r     == Request("write", blk, data)
  IN  /\ Starts(p)
      /\ \/ /\ W # {}
            /\ rd_buff' = [rd_buff EXCEPT ![rd_queue[Min(W)]].data = data]
            /\ rdlast' = [rdlast EXCEPT ![blk] = data]
            /\ UNCHANGED <<rd_free, rd_queue, rd_cache, rd_availsem, rd_waiting, rd_reqsem,
                           rdcall, rddoubt, rdstolen, rdpanic>>
         \/ /\ W = {}
            /\ \E b \in Copy :
                 /\ Enqueue(p, r, b) /\ rd_cache' = RemoveFirst(rd_cache, b)
                 /\ rd_availsem' = IF rd_availsem > 0 THEN rd_availsem - 1 ELSE rd_availsem
                 /\ rdstolen' = (rdstolen \/ rd_availsem <= 0)
            /\ UNCHANGED <<rd_free, rd_waiting, rddoubt, rdpanic>>
         \/ W = {} /\ Copy = {} /\ rdsbufalloc(p, r) /\ UNCHANGED rdstolen
      /\ UNCHANGED <<rd_state, rdnet>>

(* rdscontrol, RDS_CTL_SYNC up to its wait: the request names block 0.     *)
RdsSync(p) ==
  /\ Starts(p) /\ rdsbufalloc(p, Request("sync", 0, RdNone))
  /\ UNCHANGED <<rd_state, rdnet, rdstolen>>

(* rdsclose: only with an empty queue; the cache goes to the free list.  A *)
(* reader that has its message but has not yet run would then look for its *)
(* buffer in a cache it is not in.                                         *)
RdscloseForgetsFree ==
  IF rd_queue # <<>> THEN UNCHANGED <<rd_state, rd_free, rd_cache, rd_buff, rdpanic>>
  ELSE /\ rd_state' = "free" /\ rd_cache' = <<>> /\ rd_free' = Reverse(rd_cache)
       /\ UNCHANGED <<rd_buff, rdpanic>>
rdsclose ==
  IF rd_queue # <<>> THEN UNCHANGED <<rd_state, rd_free, rd_cache, rd_buff, rdpanic>>
  ELSE /\ rd_state' = "free" /\ rd_cache' = <<>> /\ rd_free' = Reverse(rd_cache) \o rd_free
       /\ rd_buff' = [b \in RdBuffers |-> IF b \in Range(rd_cache)
                        THEN [rd_buff[b] EXCEPT !.valid = FALSE] ELSE rd_buff[b]]
       /\ rdpanic' = IF \E p \in RdCaller : rdcall[p].ph = "got" THEN "closed" ELSE rdpanic

Rdsclose ==
  /\ rd_state = "open" /\ rdpanic = "no" /\ rdsclose
  /\ UNCHANGED <<rd_queue, rd_availsem, rd_waiting, rd_reqsem, rdcall, rdnet, rdghost>>

(* rdscontrol, RDS_CTL_DEL, when the exchange succeeds.                    *)
RdsDelete ==
  /\ rd_state = "open" /\ rdpanic = "no" /\ rdsclose
  /\ rdserver' = [b \in RdBlock |-> RdNone] /\ rddoubt' = RdBlock
  /\ UNCHANGED <<rd_queue, rd_availsem, rd_waiting, rd_reqsem, rdcall, rdcom, rd_blk,
                 rd_seq, rdreplies, rdlast, rdstolen>>

(* signal of rd_availsem.                                                  *)
Available(calls) ==
  /\ rd_availsem' = rd_availsem + 1
  /\ rd_waiting' = IF rd_waiting = <<>> THEN <<>> ELSE Tail(rd_waiting)
  /\ rdcall' = IF rd_waiting = <<>> THEN calls
               ELSE [calls EXCEPT ![Head(rd_waiting)].ph = "go"]

(* rdsprocess takes the request at the head of the queue.  A read stays    *)
(* there while it is exchanged and its block number is not put into the    *)
(* message; a write goes to the cache first.                               *)
RdsTakes ==
  LET b == Head(rd_queue)
      r == rd_buff[b]
      exchange == [ph |-> "send", op |-> r.op, buf |-> b, blk |-> r.blknum,
                   data |-> r.data, tries |-> 0]
  IN  /\ rdcom = ComWaits /\ rd_reqsem > 0 /\ rdpanic = "no"
      /\ rd_reqsem' = rd_reqsem - 1
      /\ \/ /\ r.op = "read" /\ rdcom' = exchange /\ rd_seq' = rd_seq + 1
            /\ UNCHANGED <<rd_free, rd_queue, rd_cache, rd_availsem, rd_waiting, rdcall,
                           rd_blk>>
         \/ /\ r.op = "write" /\ rdcom' = exchange /\ rd_seq' = rd_seq + 1
            /\ rd_blk' = r.blknum
            /\ rd_queue' = Tail(rd_queue) /\ rd_cache' = <<b>> \o rd_cache
            /\ Available(rdcall)
            /\ UNCHANGED rd_free
         \/ /\ r.op = "sync"
            /\ rd_queue' = Tail(rd_queue) /\ rd_free' = <<b>> \o rd_free
            /\ Available([rdcall EXCEPT ![r.pid] = RdIdle])
            /\ UNCHANGED <<rd_cache, rdcom, rd_blk, rd_seq>>
      /\ UNCHANGED <<rd_state, rd_buff, rdreplies, rdserver, rdghost, rdpanic>>

(* One round of rdscomm is over: the next, or none is left.                *)
NextTry(ph) ==
  /\ rdcom' = [rdcom EXCEPT !.ph = ph, !.tries = @ + 1]
  /\ rdpanic' = IF rdcom.tries + 1 >= RD_RETRIES THEN "comm" ELSE rdpanic

(* rdscomm sends the message; the server acts on it, or it is lost.        *)
RdsSends ==
  /\ rdcom.ph = "send" /\ rdpanic = "no"
  /\ rdcom' = [rdcom EXCEPT !.ph = "recv"]
  /\ \/ UNCHANGED <<rdserver, rdreplies>>
     \/ /\ rdserver' = IF rdcom.op = "write" THEN [rdserver EXCEPT ![rd_blk] = rdcom.data]
                       ELSE rdserver
        /\ \E lost \in BOOLEAN :
             rdreplies' = IF lost THEN rdreplies
                          ELSE rdreplies \cup
                                 {[seq |-> rd_seq, op |-> rdcom.op, blk |-> rd_blk,
                                   data |-> IF rdcom.op = "read" THEN rdserver[rd_blk]
                                            ELSE RdNone]}
  /\ UNCHANGED <<rd_state, rdlists, rdcall, rd_blk, rd_seq, rdghost, rdpanic>>

RdsTimesOut ==
  /\ rdcom.ph = "recv" /\ rdpanic = "no" /\ NextTry("send")
  /\ UNCHANGED <<rd_state, rdlists, rdcall, rd_blk, rd_seq, rdreplies, rdserver, rdghost>>

(* The tests of rdscomm on a reply.  One with an earlier number only       *)
(* decides that the request is not sent again: it is then tested further,  *)
(* and counts as the answer if its type fits.                              *)
Answers(m) == m.seq <= rd_seq /\ m.op = rdcom.op

(* The server's answer to a read ends in the cache and with the process    *)
(* that asked.  Another request for the same block is then answered with   *)
(* it, whatever it is, and unlinked with the links of the wrong buffer:    *)
(* nothing is known of the lists after that.                               *)
Answered(m) ==
  LET b == rdcom.buf
  IN  /\ rdcom' = ComWaits
      /\ rddoubt' = IF m.seq < rd_seq THEN rddoubt \cup {rdcom.blk} ELSE rddoubt
      /\ \/ /\ rdcom.op = "write"
            /\ UNCHANGED <<rd_queue, rd_cache, rd_buff, rd_availsem, rd_waiting, rdcall,
                           rdpanic>>
         \/ /\ rdcom.op = "read"
            /\ rd_buff' = [rd_buff EXCEPT ![b].data = m.data, ![b].of = m.blk,
                                          ![b].refcnt = 1]
            /\ rd_queue' = Tail(rd_queue) /\ rd_cache' = <<b>> \o rd_cache
            /\ Available([rdcall EXCEPT ![rd_buff[b].pid].ph = "got",
                                        ![rd_buff[b].pid].buf = b])
            /\ rdpanic' = IF At(Tail(rd_queue), rdcom.blk) # {} THEN "tangled" ELSE rdpanic

RdsReceives(m) ==
  /\ rdcom.ph = "recv" /\ rdpanic = "no" /\ m \in rdreplies
  /\ rdreplies' = rdreplies \ {m}
  /\ \/ Answers(m) /\ Answered(m)
     \/ /\ ~Answers(m) /\ NextTry("recv")
        /\ UNCHANGED <<rd_queue, rd_cache, rd_buff, rd_availsem, rd_waiting, rdcall, rddoubt>>
  /\ UNCHANGED <<rd_state, rd_free, rd_reqsem, rd_blk, rd_seq, rdserver, rdlast, rdstolen>>

DiskNext ==
  \/ Rdsopen \/ Rdsclose \/ RdsDelete
  \/ \E p \in RdCaller :
       \/ RdsGoesOn(p) \/ RdsreadEnds(p) \/ RdsSync(p)
       \/ \E b \in RdBlock : Rdsread(p, b) \/ \E d \in RdData : Rdswrite(p, b, d)
  \/ RdsTakes \/ RdsSends \/ RdsTimesOut \/ \E m \in rdreplies : RdsReceives(m)

DiskSpec == RdsInit /\ [][DiskNext]_rdsvars
-----------------------------------------------------------------------------
(* Every buffer is on one list, and the semaphore counts those that are    *)
(* free or in the cache and not promised to a released process; a copy     *)
(* taken although it was promised is the one exception.  The allocation    *)
(* fails only when each copy in the cache is still being read, or for such *)
(* a theft: a buffer is counted as available before its reader has it.     *)
RdsBuffersKept ==
  LET lists    == rd_free \o rd_queue \o rd_cache
      promised == {p \in RdCaller : rdcall[p].ph = "go"}
  IN  /\ IsInjective(lists) /\ Range(lists) = RdBuffers
      /\ rdpanic = "no" /\ ~rdstolen =>
           IF rd_waiting = <<>>
           THEN rd_availsem = Len(rd_free) + Len(rd_cache) - Cardinality(promised)
           ELSE /\ rd_availsem = -Len(rd_waiting)
                /\ Cardinality(promised) = Len(rd_free) + Len(rd_cache)
      /\ rdpanic = "nobuffer" => rdstolen \/ rd_cache # <<>>

(* What was written last to a block is what the server has or what is      *)
(* still on its way there, in the queue or in an exchange, and what a read *)
(* that finds a copy returns.  Excused are blocks whose request was queued *)
(* although a write was queued or cached, on the strength of a search made *)
(* before the wait for a buffer, or one that ended at a synchronization;   *)
(* blocks whose exchange ended with a reply to another request; and the    *)
(* deletion.                                                               *)
RdsWritesLand ==
  \A blk \in RdBlock \ rddoubt :
    LET W == Writes(rd_queue, blk)
    IN  /\ rdlast[blk] = IF W # {} THEN rd_buff[rd_queue[Max(W)]].data
                         ELSE IF rdcom # ComWaits /\ rdcom.op = "write" /\ rdcom.blk = blk
                         THEN rdcom.data ELSE rdserver[blk]
        /\ \A b \in Cached(blk) \cup Queued(blk) : rd_buff[b].data = rdlast[blk]

(* A copy in the cache was read from the block it is a copy of.            *)
RdsCacheHoldsBlock == \A b \in Range(rd_cache) : rd_buff[b].of = rd_buff[b].blknum
=============================================================================
