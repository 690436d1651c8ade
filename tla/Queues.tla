------------------------------- MODULE Queues -------------------------------
(***************************************************************************)
(* The process queues of the kernel (system/queue.c, insert.c, insertd.c,  *)
(* getitem.c, unsleep.c) as operators on sequences of process ids.  The    *)
(* code links the queues through one table, queuetab, with one entry per   *)
(* process; here a queue is the sequence met from head to tail and qkey    *)
(* is the key field of the entries.                                        *)
(***************************************************************************)
EXTENDS Integers, SequencesExt

(* Below every key a process can have (a pri16), as MINKEY is. *)
MINKEY == -32769

FirstKey(q, qkey) == IF q = <<>> THEN MINKEY ELSE qkey[Head(q)]

InsertPosFront(q, qkey, key) ==
  CHOOSE i \in 1..(Len(q) + 1) :
    /\ \A j \in 1..(i - 1) : qkey[q[j]] > key
    /\ i <= Len(q) => qkey[q[i]] <= key

(* insert: descending keys, a new process after those of an equal key. *)
InsertPos(q, qkey, key) ==
  CHOOSE i \in 1..(Len(q) + 1) :
    /\ \A j \in 1..(i - 1) : qkey[q[j]] >= key
    /\ i <= Len(q) => qkey[q[i]] < key

InsertTail(q, pid, qkey, key) == Append(q, pid)
Insert(q, pid, qkey, key) == InsertAt(q, InsertPos(q, qkey, key), pid)

(* insertd: what is left of the delay after the first i - 1 deltas. *)
DelayLeft(q, qkey, key) ==
  LET left[i \in 1..(Len(q) + 1)] ==
        IF i = 1 THEN key ELSE left[i - 1] - qkey[q[i - 1]]
  IN  left

(* insertd: the loop stops at the first entry whose delta exceeds the rest. *)
InsertdPos(q, qkey, key) ==
  LET left == DelayLeft(q, qkey, key)
  IN  CHOOSE i \in 1..(Len(q) + 1) :
        /\ \A j \in 1..(i - 1) : qkey[q[j]] <= left[j]
        /\ i <= Len(q) => qkey[q[i]] > left[i]

Insertd(q, pid, qkey, key) == InsertAt(q, InsertdPos(q, qkey, key), pid)

InsertdKeysOwnOnly(q, pid, qkey, key) ==
  [qkey EXCEPT ![pid] = DelayLeft(q, qkey, key)[InsertdPos(q, qkey, key)]]

InsertdKeys(q, pid, qkey, key) ==
  LET i    == InsertdPos(q, qkey, key)
      rest == DelayLeft(q, qkey, key)[i]
  IN  [x \in DOMAIN qkey |->
         IF x = pid THEN rest
         ELSE IF i <= Len(q) /\ x = q[i] THEN qkey[x] - rest
         ELSE qkey[x]]

(* getitem: unlink a process from wherever it stands in its queue. *)
Getitem(q, pid) == RemoveFirst(q, pid)

UnsleepKeysLost(q, pid, qkey) == qkey

(* unsleep: the process behind takes over the delay of the one removed. *)
UnsleepKeys(q, pid, qkey) ==
  [x \in DOMAIN qkey |->
     IF \E i \in 1..(Len(q) - 1) : q[i] = pid /\ q[i + 1] = x
     THEN qkey[x] + qkey[pid]
     ELSE qkey[x]]
=============================================================================
