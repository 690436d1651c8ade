---------------------------- MODULE KernelProofs ----------------------------
(***************************************************************************)
(* Type correctness and the safety properties of Kernel, for every number  *)
(* of processes and semaphores, every quantum and all arguments.           *)
(*                                                                         *)
(* None of the invariants is inductive alone.  A signal dequeues without   *)
(* looking, so queue placement needs the agreement of counts and waiters;  *)
(* that agreement is suspended while semreset runs, so it needs to know    *)
(* that the processor does not change hands in a deferring loop, and it    *)
(* holds for a new semaphore only if the deleted one left nobody behind;   *)
(* resched dequeues without looking as well, so typing needs the null      *)
(* process to be eligible.  IInv is their conjunction, cut along what a    *)
(* step changes: the scheduler (SchedOK), the other queues (QueuesOK), the *)
(* continuations (ContOK), the semaphores (SemCount and FreeSemEmpty) and  *)
(* plain typing (RestOK).                                                  *)
(*                                                                         *)
(* Then the two abstractions of KernelRefines: the semaphore table keeps   *)
(* the promise of a semaphore, and the sleep queue that of an alarm clock. *)
(* The first needs the agreement of counts and waiters of IInv; the second *)
(* that no delta is negative and that a sleeper is due only during the     *)
(* clock interrupt that made it due.  Induction over the delta list is     *)
(* done with least counterexamples: the running sums of the deltas are     *)
(* unique (SumsUnique), so it is enough to exhibit those of the list after *)
(* insertd, unsleep, dequeue and a tick.                                   *)
(***************************************************************************)
EXTENDS KernelRefines, QueueProofs, FiniteSetTheorems

(* States st, ready list rl, keys qk, current process c, slice sl. *)
SchedOK(st, rl, qk, c, sl) ==
  /\ st \in [Pid -> PState]
  /\ rl \in Seq(Pid)
  /\ qk \in [Pid -> Int]
  /\ c \in Pid
  /\ sl \in 1..QUANTUM
  /\ IsInjective(rl)
  /\ \A p \in Pid : st[p] = "ready" <=> p \in ToSet(rl)
  /\ \A p \in Pid : st[p] = "curr" => p = c
  /\ st[NULLPROC] \in {"curr", "ready"}

(* Sleep queue sl, semaphore queues sq, and sem, whom each waits for. *)
QueuesOK(st, sem, sl, sq) ==
  /\ sem \in [Pid -> Sems \cup {NoSem}]
  /\ sl \in Seq(Pid)
  /\ sq \in [Sems -> Seq(Pid)]
  /\ IsInjective(sl)
  /\ \A s \in Sems : IsInjective(sq[s])
  /\ \A p \in Pid : st[p] \in {"sleep", "rectim"} <=> p \in ToSet(sl)
  /\ \A p \in Pid : \A s \in Sems :
       st[p] = "wait" /\ sem[p] = s <=> p \in ToSet(sq[s])
  /\ \A p \in Pid : st[p] = "wait" => sem[p] \in Sems

(* What a continuation may hold, and who may be inside a deferring loop. *)
ContOK ==
  /\ pc \in [Pid -> Cont]
  /\ \A p \in Pid : pc[p].op = "kill" => pc[p].arg \in Pid \ {NULLPROC}
  /\ \A p \in Pid : pc[p].op \in {"signaln", "semdelete", "semreset"}
                      => pc[p].arg \in Sems
  /\ DeferBracket

RestOK ==
  /\ prprio \in [Pid -> Prio]
  /\ prparent \in [Pid -> Pid]
  /\ prhasmsg \in [Pid -> BOOLEAN]
  /\ prcount \in Int
  /\ nextpid \in Pid
  /\ sstate \in [Sems -> {"S_FREE", "S_USED"}]
  /\ scount \in [Sems -> Int]
  /\ nextsem \in Sems \cup {0}
  /\ attempt \in BOOLEAN
  /\ halted \in BOOLEAN

IInv ==
  /\ SchedOK(prstate, readylist, qkey, currpid, preempt)
  /\ prstate[currpid] = "curr"
  /\ QueuesOK(prstate, prsem, sleepq, squeue)
  /\ ContOK
  /\ SemCount
  /\ FreeSemEmpty
  /\ RestOK

(* Nobody changes state except between holding and awaiting the processor. *)
SameButSched(st, new) ==
  \A p \in Pid : \/ new[p] = st[p]
                 \/ st[p] \in {"curr", "ready"} /\ new[p] \in {"curr", "ready"}

-----------------------------------------------------------------------------
(* The scheduler *)

LEMMA PrioRange == Prio \subseteq Int /\ \A k \in Prio : k > MINKEY
BY ArgumentAssumption DEF Prio, MINKEY

(* insert keeps a queue a queue, and adds the process and nobody else. *)
LEMMA InsertSet ==
  ASSUME NEW q \in Seq(Pid), NEW qk \in [Pid -> Int], NEW k \in Int,
         NEW p \in Pid
  PROVE  /\ Insert(q, p, qk, k) \in Seq(Pid)
         /\ Insert(q, p, qk, k) # <<>>
         /\ ToSet(Insert(q, p, qk, k)) = ToSet(q) \cup {p}
         /\ IsInjective(q) /\ p \notin ToSet(q)
              => IsInjective(Insert(q, p, qk, k))
<1> DEFINE i == InsertPos(q, qk, k)
<1>1. \A x \in ToSet(q) : qk[x] \in Int
  BY DEF ToSet
<1>2. i \in 1..(Len(q) + 1)
  BY <1>1, InsertPosStops
<1>3. Insert(q, p, qk, k) = InsertAt(q, i, p)
  BY DEF Insert
<1> HIDE DEF i
<1>4. /\ InsertAt(q, i, p) \in Seq(Pid)
      /\ Len(InsertAt(q, i, p)) = Len(q) + 1
  BY <1>2, InsertAtElements
<1>5. InsertAt(q, i, p) # <<>>
  BY <1>4
<1> QED BY <1>2, <1>3, <1>4, <1>5, InsertAtSet

(* ready and block change what they are told and leave the rest in order. *)
LEMMA ReadiedOK ==
  ASSUME NEW st, NEW rl, NEW qk, NEW c, NEW sl, SchedOK(st, rl, qk, c, sl),
         NEW p \in Pid, st[p] \notin {"curr", "ready"}, NEW k \in Int
  PROVE  SchedOK([st EXCEPT ![p] = "ready"], Insert(rl, p, qk, k),
                 [qk EXCEPT ![p] = k], c, sl)
<1>1. p \notin ToSet(rl)
  BY DEF SchedOK
<1>2. /\ Insert(rl, p, qk, k) \in Seq(Pid)
      /\ ToSet(Insert(rl, p, qk, k)) = ToSet(rl) \cup {p}
      /\ IsInjective(Insert(rl, p, qk, k))
  BY <1>1, InsertSet DEF SchedOK
<1> DEFINE new == [st EXCEPT ![p] = "ready"]
           nrl == Insert(rl, p, qk, k)
           nqk == [qk EXCEPT ![p] = k]
<1>3. nqk \in [Pid -> Int] /\ new \in [Pid -> PState]
  BY DEF SchedOK, PState
<1>4. \A x \in Pid : new[x] = IF x = p THEN "ready" ELSE st[x]
  BY DEF SchedOK
<1>5. new[NULLPROC] \in {"curr", "ready"}
  BY <1>4, TableAssumption DEF SchedOK, Pid, NULLPROC
<1> HIDE DEF new, nrl, nqk
<1>6. \A x \in Pid : new[x] = "ready" <=> x \in ToSet(nrl)
  BY <1>2, <1>4 DEF SchedOK, nrl
<1>7. \A x \in Pid : new[x] = "curr" => x = c
  BY <1>4 DEF SchedOK
<1> QED BY <1>2, <1>3, <1>5, <1>6, <1>7 DEF SchedOK, new, nrl, nqk

LEMMA BlockedOK ==
  ASSUME NEW st, NEW rl, NEW qk, NEW c, NEW sl, SchedOK(st, rl, qk, c, sl),
         NEW p \in Pid, p # NULLPROC, st[p] # "ready",
         NEW s \in PState \ {"curr", "ready"}
  PROVE  SchedOK([st EXCEPT ![p] = s], rl, qk, c, sl)
<1> DEFINE new == [st EXCEPT ![p] = s]
<1>1. new \in [Pid -> PState] /\ \A x \in Pid : new[x] = IF x = p THEN s ELSE st[x]
  BY DEF SchedOK
<1>2. NULLPROC \in Pid
  BY TableAssumption DEF Pid, NULLPROC
<1> HIDE DEF new
<1> QED BY <1>1, <1>2 DEF SchedOK, new

(* kill and suspend take a process off the ready list. *)
LEMMA UnreadyOK ==
  ASSUME SchedOK(prstate, readylist, qkey, currpid, preempt),
         NEW p \in Pid, p # NULLPROC, prstate[p] = "ready", Unready(p),
         NEW s \in PState \ {"curr", "ready"},
         prstate' = [prstate EXCEPT ![p] = s], UNCHANGED <<qkey, currpid, preempt>>
  PROVE  SchedOK(prstate', readylist', qkey', currpid', preempt')
<1>1. p \in ToSet(readylist) /\ readylist \in Seq(Pid) /\ IsInjective(readylist)
  BY DEF SchedOK
<1>2. /\ readylist' \in Seq(Pid) /\ IsInjective(readylist')
      /\ ToSet(readylist') = ToSet(readylist) \ {p}
  BY <1>1, GetitemSet DEF Unready
<1>3. /\ prstate' \in [Pid -> PState]
      /\ \A x \in Pid : prstate'[x] = IF x = p THEN s ELSE prstate[x]
  BY DEF SchedOK
<1>4. NULLPROC \in Pid
  BY TableAssumption DEF Pid, NULLPROC
<1> QED BY <1>2, <1>3, <1>4 DEF SchedOK

(* The head of the ready list gets the processor. *)
LEMMA SwitchToOK ==
  ASSUME NEW st, NEW rl, NEW qk, NEW c, NEW sl, SchedOK(st, rl, qk, c, sl),
         st[c] # "curr", rl # <<>>, SwitchTo(st, rl), qkey' = qk
  PROVE  /\ SchedOK(prstate', readylist', qkey', currpid', preempt')
         /\ prstate'[currpid'] = "curr"
         /\ SameButSched(st, prstate')
<1>1. /\ Tail(rl) \in Seq(Pid) /\ IsInjective(Tail(rl))
      /\ Head(rl) \in ToSet(rl)
      /\ ToSet(Tail(rl)) = ToSet(rl) \ {Head(rl)}
  BY TailSet DEF SchedOK
<1>2. Head(rl) \in Pid /\ st[Head(rl)] = "ready"
  <2>1. Head(rl) \in Pid
    BY <1>1 DEF SchedOK, ToSet
  <2> QED BY <2>1, <1>1 DEF SchedOK
<1>3. \A x \in Pid : st[x] # "curr"
  BY DEF SchedOK
<1>4. /\ prstate' \in [Pid -> PState]
      /\ \A x \in Pid : prstate'[x] = IF x = Head(rl) THEN "curr" ELSE st[x]
  BY <1>2 DEF SwitchTo, SchedOK, PState
<1>5. /\ currpid' = Head(rl) /\ readylist' = Tail(rl) /\ preempt' = QUANTUM
      /\ QUANTUM \in 1..QUANTUM
  BY TableAssumption DEF SwitchTo
<1>6. NULLPROC \in Pid
  BY TableAssumption DEF Pid, NULLPROC
<1>7. \A x \in Pid : prstate'[x] = "ready" <=> x \in ToSet(readylist')
  BY <1>1, <1>4, <1>5 DEF SchedOK
<1>8. prstate'[NULLPROC] \in {"curr", "ready"}
  BY <1>4, <1>6 DEF SchedOK
<1>9. SameButSched(st, prstate')
  BY <1>2, <1>4 DEF SameButSched
<1> QED BY <1>1, <1>2, <1>3, <1>4, <1>5, <1>7, <1>8, <1>9 DEF SchedOK

(* resched outside a deferral.  If the caller is eligible it goes back on  *)
(* the ready list; if it is not, the null process is there.                *)
LEMMA DispatchOK ==
  ASSUME NEW st, NEW rl, NEW qk, NEW sl,
         SchedOK(st, rl, qk, currpid, preempt), sl \in 1..QUANTUM,
         prprio \in [Pid -> Prio], Dispatch(st, rl, qk, sl)
  PROVE  /\ SchedOK(prstate', readylist', qkey', currpid', preempt')
         /\ prstate'[currpid'] = "curr"
         /\ SameButSched(st, prstate')
<1> DEFINE k == prprio[currpid]
<1>1. k \in Int /\ k > MINKEY
  BY PrioRange DEF SchedOK
<1> HIDE DEF k
<1>2. CASE /\ st[currpid] = "curr"
           /\ k > FirstKey(rl, qk)
           /\ prstate' = st
           /\ readylist' = rl
           /\ qkey' = qk
           /\ preempt' = sl
           /\ UNCHANGED currpid
  BY <1>2 DEF SchedOK, SameButSched
<1>3. CASE /\ st[currpid] = "curr"
           /\ k <= FirstKey(rl, qk)
           /\ qkey' = [qk EXCEPT ![currpid] = k]
           /\ SwitchTo([st EXCEPT ![currpid] = "ready"], Insert(rl, currpid, qk, k))
  <2> DEFINE mst == [st EXCEPT ![currpid] = "ready"]
             mrl == Insert(rl, currpid, qk, k)
             mqk == [qk EXCEPT ![currpid] = k]
  <2>1. /\ mrl \in Seq(Pid) /\ mrl # <<>>
        /\ ToSet(mrl) = ToSet(rl) \cup {currpid}
        /\ IsInjective(mrl)
    <3>1. currpid \notin ToSet(rl)
      BY <1>3 DEF SchedOK
    <3>2. rl \in Seq(Pid) /\ IsInjective(rl) /\ qk \in [Pid -> Int] /\ currpid \in Pid
      BY DEF SchedOK
    <3>3. PICK new : new = Insert(rl, currpid, qk, k)
      OBVIOUS
    <3>4. /\ new \in Seq(Pid) /\ new # <<>>
          /\ ToSet(new) = ToSet(rl) \cup {currpid} /\ IsInjective(new)
      BY <1>1, <3>1, <3>2, <3>3, InsertSet
    <3> QED BY <3>2, <3>3, <3>4
  <2>2. /\ mst \in [Pid -> PState] /\ mqk \in [Pid -> Int]
        /\ \A x \in Pid : mst[x] = IF x = currpid THEN "ready" ELSE st[x]
    BY <1>1 DEF SchedOK, PState
  <2>3. NULLPROC \in Pid
    BY TableAssumption DEF Pid, NULLPROC
  <2>4. SwitchTo(mst, mrl) /\ qkey' = mqk
    BY <1>3
  <2> HIDE DEF mst, mrl, mqk
  <2>5. SchedOK(mst, mrl, mqk, currpid, preempt) /\ mst[currpid] # "curr"
    BY <2>1, <2>2, <2>3 DEF SchedOK
  <2>6. /\ SchedOK(prstate', readylist', qkey', currpid', preempt')
        /\ prstate'[currpid'] = "curr"
        /\ SameButSched(mst, prstate')
    BY <2>1, <2>4, <2>5, SwitchToOK
  <2>7. SameButSched(st, prstate')
    BY <1>3, <2>2, <2>6 DEF SameButSched
  <2> QED BY <2>6, <2>7
<1>4. CASE /\ st[currpid] # "curr"
           /\ qkey' = qk
           /\ SwitchTo(st, rl)
  <2>1. NULLPROC \in Pid
    BY TableAssumption DEF Pid, NULLPROC
  <2>2. NULLPROC \in ToSet(rl)
    BY <1>4, <2>1 DEF SchedOK
  <2>3. rl # <<>>
    BY <2>2 DEF ToSet
  <2> QED BY <1>4, <2>3, SwitchToOK
<1> QED BY <1>2, <1>3, <1>4 DEF Dispatch, k

LEMMA ReschedOK ==
  ASSUME NEW st, NEW rl, NEW qk,
         SchedOK(st, rl, qk, currpid, preempt), attempt \in BOOLEAN,
         ndefers > 0 => st[currpid] = "curr",
         prprio \in [Pid -> Prio], Resched(st, rl, qk)
  PROVE  /\ SchedOK(prstate', readylist', qkey', currpid', preempt')
         /\ prstate'[currpid'] = "curr"
         /\ SameButSched(st, prstate')
         /\ attempt' \in BOOLEAN
         /\ ndefers > 0 => UNCHANGED currpid
<1>1. CASE /\ ndefers > 0
           /\ attempt' = TRUE
           /\ prstate' = st
           /\ readylist' = rl
           /\ qkey' = qk
           /\ UNCHANGED <<currpid, preempt>>
  BY <1>1 DEF SameButSched
<1>2. CASE /\ ndefers = 0
           /\ Dispatch(st, rl, qk, preempt)
           /\ UNCHANGED attempt
  <2>1. preempt \in 1..QUANTUM
    BY DEF SchedOK
  <2> QED BY <1>2, <2>1, DispatchOK
<1> QED BY <1>1, <1>2 DEF Resched

(* ready and a call that blocks, as the callers in Kernel use them. *)
LEMMA ReadyOK ==
  ASSUME NEW qk, SchedOK(prstate, readylist, qk, currpid, preempt),
         prstate[currpid] = "curr", RestOK,
         NEW p \in Pid, prstate[p] \notin {"curr", "ready"}, Ready(p, qk)
  PROVE  /\ SchedOK(prstate', readylist', qkey', currpid', preempt')
         /\ prstate'[currpid'] = "curr"
         /\ SameButSched([prstate EXCEPT ![p] = "ready"], prstate')
         /\ attempt' \in BOOLEAN
         /\ ndefers > 0 => UNCHANGED currpid
<1> DEFINE k == prprio[p]
           st == [prstate EXCEPT ![p] = "ready"]
           rl == Insert(readylist, p, qk, k)
           nqk == [qk EXCEPT ![p] = k]
<1>1. k \in Int /\ prprio \in [Pid -> Prio] /\ attempt \in BOOLEAN
  BY PrioRange DEF RestOK
<1>2. Resched(st, rl, nqk)
  BY DEF Ready
<1>3. st[currpid] = "curr"
  BY DEF SchedOK
<1> HIDE DEF k
<1>4. SchedOK(st, rl, nqk, currpid, preempt)
  BY <1>1, ReadiedOK
<1> HIDE DEF st, rl, nqk
<1>5. /\ SchedOK(prstate', readylist', qkey', currpid', preempt')
      /\ prstate'[currpid'] = "curr"
      /\ SameButSched(st, prstate')
      /\ attempt' \in BOOLEAN
      /\ ndefers > 0 => UNCHANGED currpid
  BY <1>1, <1>2, <1>3, <1>4, ReschedOK
<1> QED BY <1>5 DEF st

LEMMA BlockOK ==
  ASSUME NEW qk, SchedOK(prstate, readylist, qk, currpid, preempt),
         prstate[currpid] = "curr", RestOK, ndefers = 0,
         currpid # NULLPROC, NEW s \in PState \ {"curr", "ready"}, Block(s, qk)
  PROVE  /\ SchedOK(prstate', readylist', qkey', currpid', preempt')
         /\ prstate'[currpid'] = "curr"
         /\ SameButSched([prstate EXCEPT ![currpid] = s], prstate')
         /\ attempt' \in BOOLEAN
<1> DEFINE st == [prstate EXCEPT ![currpid] = s]
<1>1. prprio \in [Pid -> Prio] /\ attempt \in BOOLEAN
  BY DEF RestOK
<1>2. Resched(st, readylist, qk)
  BY DEF Block
<1>3. currpid \in Pid
  BY DEF SchedOK
<1>4. SchedOK(st, readylist, qk, currpid, preempt)
  BY <1>3, BlockedOK
<1> HIDE DEF st
<1>5. /\ SchedOK(prstate', readylist', qkey', currpid', preempt')
      /\ prstate'[currpid'] = "curr"
      /\ SameButSched(st, prstate')
      /\ attempt' \in BOOLEAN
  BY <1>1, <1>2, <1>4, ReschedOK
<1> QED BY <1>5 DEF st

-----------------------------------------------------------------------------
(* The sleep queue and the semaphore queues *)

LEMMA SchedLeavesQueues ==
  ASSUME NEW st, NEW new, NEW sem, NEW sl, NEW sq, QueuesOK(st, sem, sl, sq),
         SameButSched(st, new)
  PROVE  QueuesOK(new, sem, sl, sq)
BY DEF QueuesOK, SameButSched

(* A process that is on none of these queues moves to a state without one. *)
LEMMA UnqueuedMoves ==
  ASSUME NEW st \in [Pid -> PState], NEW sem, NEW sl, NEW sq,
         QueuesOK(st, sem, sl, sq), NEW p \in Pid,
         st[p] \notin {"sleep", "rectim", "wait"},
         NEW x, x \notin {"sleep", "rectim", "wait"}
  PROVE  QueuesOK([st EXCEPT ![p] = x], sem, sl, sq)
BY DEF QueuesOK

LEMMA SleeperLeaves ==
  ASSUME NEW st \in [Pid -> PState], NEW sem, NEW sl, NEW sq,
         QueuesOK(st, sem, sl, sq), NEW p \in ToSet(sl),
         NEW x, x \notin {"sleep", "rectim", "wait"},
         NEW left \in Seq(Pid), IsInjective(left), ToSet(left) = ToSet(sl) \ {p}
  PROVE  QueuesOK([st EXCEPT ![p] = x], sem, left, sq)
<1>1. p \in Pid
  BY DEF QueuesOK, ToSet
<1>2. st[p] \in {"sleep", "rectim"}
  BY <1>1 DEF QueuesOK
<1> QED BY <1>1, <1>2 DEF QueuesOK

LEMMA SleeperJoins ==
  ASSUME NEW st \in [Pid -> PState], NEW sem, NEW sl, NEW sq,
         QueuesOK(st, sem, sl, sq), NEW p \in Pid,
         st[p] \notin {"sleep", "rectim", "wait"}, NEW x \in {"sleep", "rectim"},
         NEW more \in Seq(Pid), IsInjective(more), ToSet(more) = ToSet(sl) \cup {p}
  PROVE  QueuesOK([st EXCEPT ![p] = x], sem, more, sq)
BY DEF QueuesOK

LEMMA WaiterLeaves ==
  ASSUME NEW st \in [Pid -> PState], NEW sem, NEW sl, NEW sq,
         QueuesOK(st, sem, sl, sq), NEW s \in Sems, NEW p \in ToSet(sq[s]),
         NEW x, x \notin {"sleep", "rectim", "wait"},
         NEW left \in Seq(Pid), IsInjective(left),
         ToSet(left) = ToSet(sq[s]) \ {p}
  PROVE  QueuesOK([st EXCEPT ![p] = x], sem, sl, [sq EXCEPT ![s] = left])
<1>1. p \in Pid
  BY DEF QueuesOK, ToSet
<1>2. st[p] = "wait" /\ sem[p] = s
  BY <1>1 DEF QueuesOK
<1> QED BY <1>1, <1>2 DEF QueuesOK

LEMMA WaiterJoins ==
  ASSUME NEW st \in [Pid -> PState], NEW sem, NEW sl, NEW sq,
         QueuesOK(st, sem, sl, sq), NEW s \in Sems, NEW p \in Pid,
         st[p] \notin {"sleep", "rectim", "wait"}
  PROVE  QueuesOK([st EXCEPT ![p] = "wait"], [sem EXCEPT ![p] = s], sl,
                  [sq EXCEPT ![s] = Append(@, p)])
<1>1. sq[s] \in Seq(Pid) /\ IsInjective(sq[s]) /\ p \notin ToSet(sq[s])
  BY DEF QueuesOK
<1>2. /\ Append(sq[s], p) \in Seq(Pid)
      /\ ToSet(Append(sq[s], p)) = ToSet(sq[s]) \cup {p}
      /\ IsInjective(Append(sq[s], p))
  BY <1>1, AppendSet
<1> QED BY <1>2 DEF QueuesOK

LEMMA UnsleepKeysType ==
  ASSUME NEW qk \in [Pid -> Int], NEW q, NEW p \in Pid
  PROVE  UnsleepKeys(q, p, qk) \in [Pid -> Int]
BY DEF UnsleepKeys

(* insertd: a queue with the process in it, and integer deltas. *)
LEMMA InsertdOK ==
  ASSUME NEW qk \in [Pid -> Int], NEW q \in Seq(Pid), NEW p \in Pid,
         NEW k \in Int, IsInjective(q), p \notin ToSet(q)
  PROVE  /\ Insertd(q, p, qk, k) \in Seq(Pid)
         /\ IsInjective(Insertd(q, p, qk, k))
         /\ ToSet(Insertd(q, p, qk, k)) = ToSet(q) \cup {p}
         /\ InsertdKeys(q, p, qk, k) \in [Pid -> Int]
<1> DEFINE i == InsertdPos(q, qk, k)
<1>1. \A x \in ToSet(q) : qk[x] \in Int
  BY DEF ToSet
<1>2. i \in 1..(Len(q) + 1)
  BY <1>1, InsertdPosStops
<1>3. DelayLeft(q, qk, k)[i] \in Int
  BY <1>1, <1>2, DelayLeftType
<1>4. InsertdKeys(q, p, qk, k) \in [Pid -> Int]
  BY <1>3 DEF InsertdKeys
<1>5. Insertd(q, p, qk, k) = InsertAt(q, i, p)
  BY DEF Insertd
<1> HIDE DEF i
<1>6. InsertAt(q, i, p) \in Seq(Pid)
  BY <1>2, InsertAtElements
<1> QED BY <1>2, <1>4, <1>5, <1>6, InsertAtSet

-----------------------------------------------------------------------------
(* Continuations and counts *)

Plain(c) ==
  /\ c \in Cont
  /\ c.op \notin Deferring
  /\ c.op = "kill" => c.arg \in Pid \ {NULLPROC}

LEMMA Undeferred ==
  ASSUME ContOK, pc[currpid].op \notin Deferring, currpid \in Pid
  PROVE  ndefers = 0 /\ \A p \in Pid : pc[p].op \notin Deferring
BY DEF ContOK, DeferBracket

(* Outside the deferring loops whoever runs next is outside them, too. *)
LEMMA ContStays ==
  ASSUME ContOK, currpid \in Pid, pc[currpid].op \notin Deferring,
         UNCHANGED ndefers, currpid' \in Pid, pc' \in [Pid -> Cont],
         \A p \in Pid : pc'[p] = pc[p] \/ Plain(pc'[p])
  PROVE  ContOK'
<1>1. ndefers = 0 /\ \A p \in Pid : pc[p].op \notin Deferring
  BY Undeferred
<1>2. \A p \in Pid : pc'[p].op \notin Deferring
  BY <1>1 DEF Plain
<1>3. DeferBracket'
  BY <1>1, <1>2 DEF DeferBracket
<1>4. \A p \in Pid : pc'[p].op = "kill" => pc'[p].arg \in Pid \ {NULLPROC}
  BY DEF Plain, ContOK
<1>5. \A p \in Pid : pc'[p].op \in {"signaln", "semdelete", "semreset"}
                       => pc'[p].arg \in Sems
  BY DEF Plain, ContOK, Deferring
<1> QED BY <1>3, <1>4, <1>5 DEF ContOK

LEMMA CountStays ==
  ASSUME ContOK, currpid \in Pid, pc[currpid].op \notin Deferring,
         SemCount, UNCHANGED <<scount, squeue>>
  PROVE  SemCount'
BY DEF SemCount, Resetting, Deferring

LEMMA EmptyStays ==
  ASSUME FreeSemEmpty, pc[currpid].op # "semdelete", UNCHANGED sstate,
         \A s \in Sems : squeue[s] = <<>> => squeue'[s] = <<>>
  PROVE  FreeSemEmpty'
BY DEF FreeSemEmpty

LEMMA PlainStep ==
  ASSUME IInv, pc[currpid].op \notin Deferring,
         UNCHANGED <<ndefers, scount, squeue, sstate>>,
         SchedOK(prstate', readylist', qkey', currpid', preempt'),
         prstate'[currpid'] = "curr",
         QueuesOK(prstate', prsem', sleepq', squeue'),
         pc' \in [Pid -> Cont], \A p \in Pid : pc'[p] = pc[p] \/ Plain(pc'[p]),
         RestOK'
  PROVE  IInv'
<1>1. currpid \in Pid /\ currpid' \in Pid
  BY DEF IInv, SchedOK
<1>2. ContOK'
  BY <1>1, ContStays DEF IInv
<1>3. SemCount'
  BY <1>1, CountStays DEF IInv
<1>4. FreeSemEmpty'
  BY EmptyStays DEF IInv, Deferring
<1> QED BY <1>2, <1>3, <1>4 DEF IInv

LEMMA UserPlain == Plain(User) /\ User \in Cont
BY DEF Plain, User, Cont, Ops, Deferring

(* What running a system call says about the current process. *)
LEMMA CallingOK ==
  ASSUME IInv, Calling
  PROVE  /\ currpid \in Pid /\ currpid # NULLPROC
         /\ prstate \in [Pid -> PState] /\ prstate[currpid] = "curr"
         /\ pc[currpid].op \notin Deferring
         /\ ndefers = 0
         /\ \A p \in Pid : prstate[p] = "curr" => p = currpid
<1>1. currpid \in Pid /\ prstate[currpid] = "curr"
  BY DEF IInv, SchedOK
<1>2. pc[currpid].op \notin Deferring
  BY DEF Calling, Running, At, Deferring
<1>3. ndefers = 0
  BY <1>1, <1>2, Undeferred DEF IInv
<1> QED BY <1>1, <1>2, <1>3 DEF IInv, SchedOK, Calling

-----------------------------------------------------------------------------
(* One lemma per action *)

LEMMA NextFreeOK ==
  ASSUME NEW n \in Nat, NEW start \in 0..n, NEW free, free \subseteq 0..(n - 1),
         free # {}
  PROVE  NextFree(start, n, free) \in free
<1> DEFINE D == {Ahead(start, x, n) : x \in free}
<1>1. D \in SUBSET Nat /\ D # {}
  <2>1. ASSUME NEW x \in 0..(n - 1) PROVE Ahead(start, x, n) \in Nat
    BY DEF Ahead
  <2> QED BY <2>1
<1>2. PICK d \in D : \A e \in D : d <= e
  BY <1>1, LeastNatural
<1>3. PICK x \in free : d = Ahead(start, x, n)
  BY <1>2
<1>4. \A y \in free : Ahead(start, x, n) <= Ahead(start, y, n)
  BY <1>2, <1>3
<1> QED BY <1>3, <1>4 DEF NextFree

LEMMA CreateStep ==
  ASSUME IInv, NEW prio \in Prios, Create(prio) PROVE IInv'
<1> DEFINE pid == NewPid
<1>1. pid \in Pid /\ prstate[pid] = "free"
  <2> DEFINE free == {p \in Pid : prstate[p] = "free"}
  <2>1. free # {} /\ free \subseteq 0..(NPROC - 1)
    BY DEF Create, Pid
  <2>2. nextpid \in 0..NPROC /\ NPROC \in Nat
    BY TableAssumption DEF IInv, RestOK, Pid
  <2>3. NextFree(nextpid, NPROC, free) \in free
    BY <2>1, <2>2, NextFreeOK
  <2> QED BY <2>3 DEF NewPid
<1> HIDE DEF pid
<1>2. /\ prstate' = [prstate EXCEPT ![pid] = "susp"]
      /\ prprio' = [prprio EXCEPT ![pid] = prio]
      /\ prsem' = [prsem EXCEPT ![pid] = NoSem]
      /\ prparent' = [prparent EXCEPT ![pid] = currpid]
      /\ prhasmsg' = [prhasmsg EXCEPT ![pid] = FALSE]
      /\ pc' = [pc EXCEPT ![pid] = User]
      /\ nextpid' = (pid + 1) % NPROC
      /\ prcount' = prcount + 1
      /\ UNCHANGED <<currpid, preempt, qkey, readylist, sleepq, semVars,
                     ndefers, attempt, halted>>
  BY DEF Create, pid
<1>3. /\ currpid \in Pid /\ prstate \in [Pid -> PState]
      /\ prstate[currpid] = "curr" /\ pc[currpid].op \notin Deferring
  BY CallingOK DEF Create
<1>4. SchedOK(prstate', readylist', qkey', currpid', preempt')
  <2>1. prstate' \in [Pid -> PState] /\ pid # currpid
    BY <1>1, <1>2, <1>3 DEF PState
  <2> QED BY <1>1, <1>2, <1>3, <2>1 DEF IInv, SchedOK
<1>5. prstate'[currpid'] = "curr"
  BY <1>1, <1>2, <1>3
<1>6. QueuesOK(prstate', prsem', sleepq', squeue')
  BY <1>1, <1>2, <1>3 DEF IInv, QueuesOK, semVars
<1>7. pc' \in [Pid -> Cont] /\ \A p \in Pid : pc'[p] = pc[p] \/ Plain(pc'[p])
  BY <1>1, <1>2, UserPlain DEF IInv, ContOK
<1>8. RestOK'
  <2>1. nextpid' \in Pid
    BY <1>1, <1>2, TableAssumption DEF Pid
  <2>2. prprio' \in [Pid -> Prio] /\ prparent' \in [Pid -> Pid]
        /\ prhasmsg' \in [Pid -> BOOLEAN] /\ prcount' \in Int
    BY <1>1, <1>2, <1>3 DEF IInv, RestOK, Prio
  <2> QED BY <1>2, <2>1, <2>2 DEF IInv, RestOK, semVars
<1> QED BY <1>2, <1>3, <1>4, <1>5, <1>6, <1>7, <1>8, PlainStep DEF semVars

(* send, also as kill uses it. *)
LEMMA DeliverOK ==
  ASSUME IInv, Calling, NEW pid \in Pid, Deliver(pid), UNCHANGED <<prsem, squeue>>
  PROVE  /\ SchedOK(prstate', readylist', qkey', currpid', preempt')
         /\ prstate'[currpid'] = "curr"
         /\ QueuesOK(prstate', prsem', sleepq', squeue')
         /\ prhasmsg' \in [Pid -> BOOLEAN]
         /\ attempt' \in BOOLEAN
<1> USE DEF IInv
<1>1. CASE prhasmsg' = prhasmsg /\ UNCHANGED <<sleepq, qkey, schedVars>>
  BY <1>1 DEF schedVars, RestOK
<1>2. CASE ~(prstate[pid] = "free" \/ prhasmsg[pid])
  <2>1. prhasmsg' = [prhasmsg EXCEPT ![pid] = TRUE]
    BY <1>2 DEF Deliver
  <2>2. prhasmsg' \in [Pid -> BOOLEAN]
    BY <2>1 DEF RestOK
  <2>3. prstate \in [Pid -> PState]
    BY DEF SchedOK
  <2>4. CASE prstate[pid] = "recv" /\ Ready(pid, qkey) /\ UNCHANGED sleepq
    <3>1. /\ SchedOK(prstate', readylist', qkey', currpid', preempt')
          /\ prstate'[currpid'] = "curr" /\ attempt' \in BOOLEAN
          /\ SameButSched([prstate EXCEPT ![pid] = "ready"], prstate')
      BY <2>4, ReadyOK
    <3>2. QueuesOK([prstate EXCEPT ![pid] = "ready"], prsem, sleepq, squeue)
      BY <2>3, <2>4, UnqueuedMoves
    <3>3. QueuesOK(prstate', prsem', sleepq', squeue')
      BY <2>4, <3>1, <3>2, SchedLeavesQueues
    <3> QED BY <2>2, <3>1, <3>3
  <2>5. CASE /\ prstate[pid] = "rectim"
             /\ sleepq' = Getitem(sleepq, pid)
             /\ Ready(pid, UnsleepKeys(sleepq, pid, qkey))
    <3> DEFINE qk == UnsleepKeys(sleepq, pid, qkey)
    <3>1. qk \in [Pid -> Int]
      BY UnsleepKeysType DEF SchedOK
    <3>2. Ready(pid, qk)
      BY <2>5
    <3> HIDE DEF qk
    <3>3. SchedOK(prstate, readylist, qk, currpid, preempt)
      BY <3>1 DEF SchedOK
    <3>4. /\ SchedOK(prstate', readylist', qkey', currpid', preempt')
          /\ prstate'[currpid'] = "curr" /\ attempt' \in BOOLEAN
          /\ SameButSched([prstate EXCEPT ![pid] = "ready"], prstate')
      BY <2>5, <3>2, <3>3, ReadyOK
    <3>5. /\ pid \in ToSet(sleepq) /\ sleepq \in Seq(Pid)
          /\ IsInjective(sleepq)
      BY <2>5 DEF QueuesOK
    <3>6. /\ sleepq' \in Seq(Pid) /\ IsInjective(sleepq')
          /\ ToSet(sleepq') = ToSet(sleepq) \ {pid}
      BY <2>5, <3>5, GetitemSet
    <3>7. QueuesOK([prstate EXCEPT ![pid] = "ready"], prsem, sleepq', squeue)
      BY <2>3, <3>5, <3>6, SleeperLeaves
    <3>8. QueuesOK(prstate', prsem', sleepq', squeue')
      BY <3>4, <3>7, SchedLeavesQueues
    <3> QED BY <2>2, <3>4, <3>8
  <2>6. CASE UNCHANGED <<sleepq, qkey, schedVars>>
    BY <2>2, <2>6 DEF schedVars, RestOK
  <2> QED BY <1>2, <2>4, <2>5, <2>6 DEF Deliver
<1> QED BY <1>1, <1>2 DEF Deliver

LEMMA KillStep ==
  ASSUME IInv, NEW pid \in Pid, Kill(pid) PROVE IInv'
<1>1. /\ currpid \in Pid /\ pc[currpid].op \notin Deferring
      /\ Calling /\ pid # NULLPROC
  BY CallingOK DEF Kill, Removable
<1>2. /\ UNCHANGED <<procVars, prsem, semVars, ndefers>>
      /\ prcount' = prcount - 1
  BY DEF Kill
<1>3. CASE halted' = TRUE /\ UNCHANGED <<prhasmsg, sleepq, qkey, schedVars, pc>>
  <2>1. /\ SchedOK(prstate', readylist', qkey', currpid', preempt')
        /\ prstate'[currpid'] = "curr"
        /\ QueuesOK(prstate', prsem', sleepq', squeue')
    BY <1>2, <1>3 DEF IInv, schedVars, semVars
  <2>2. pc' \in [Pid -> Cont] /\ \A p \in Pid : pc'[p] = pc[p]
    BY <1>3 DEF IInv, ContOK
  <2>3. RestOK'
    BY <1>2, <1>3 DEF IInv, RestOK, procVars, schedVars, semVars
  <2> QED BY <1>1, <1>2, <2>1, <2>2, <2>3, PlainStep DEF semVars
<1>4. CASE /\ Deliver(prparent[pid])
           /\ Continue([op |-> "kill", arg |-> pid, n |-> 0])
           /\ UNCHANGED halted
  <2> DEFINE c == [op |-> "kill", arg |-> pid, n |-> 0]
  <2>1. /\ SchedOK(prstate', readylist', qkey', currpid', preempt')
        /\ prstate'[currpid'] = "curr"
        /\ QueuesOK(prstate', prsem', sleepq', squeue')
        /\ prhasmsg' \in [Pid -> BOOLEAN] /\ attempt' \in BOOLEAN
    <3>1. prparent[pid] \in Pid
      BY DEF IInv, RestOK
    <3> QED BY <1>1, <1>2, <1>4, <3>1, DeliverOK DEF semVars
  <2>2. Plain(c)
    BY <1>1, TableAssumption DEF Plain, Cont, Ops, Deferring, Pid
  <2>3. pc' = [pc EXCEPT ![currpid] = c]
    BY <1>4 DEF Continue
  <2> HIDE DEF c
  <2>4. pc' \in [Pid -> Cont] /\ \A p \in Pid : pc'[p] = pc[p] \/ Plain(pc'[p])
    BY <2>2, <2>3 DEF IInv, ContOK, Plain
  <2>5. RestOK'
    BY <1>2, <1>4, <2>1 DEF IInv, RestOK, procVars, semVars
  <2> QED BY <1>1, <1>2, <2>1, <2>4, <2>5, PlainStep DEF semVars
<1> QED BY <1>3, <1>4 DEF Kill

(* Outside the reset and delete loops every count agrees with its queue. *)
Counted(c, q) == Len(q) = IF c < 0 THEN -c ELSE 0

LEMMA AllCounted ==
  ASSUME IInv, pc[currpid].op # "semreset"
  PROVE  \A s \in Sems : Counted(scount[s], squeue[s])
BY DEF IInv, SemCount, Resetting, Counted

LEMMA CountedAll ==
  ASSUME (\A s \in Sems : Counted(scount[s], squeue[s]))' PROVE SemCount'
BY DEF SemCount, Counted

LEMMA KillEndStep ==
  ASSUME IInv, KillEnd PROVE IInv'
<1> DEFINE pid  == pc[currpid].arg
           gone == [prstate EXCEPT ![pid] = "free"]
<1>1. /\ currpid \in Pid /\ prstate \in [Pid -> PState]
      /\ prstate[currpid] = "curr"
      /\ \A p \in Pid : prstate[p] = "curr" => p = currpid
      /\ pc[currpid].op = "kill"
  BY DEF KillEnd, At, IInv, SchedOK
<1>2. pid \in Pid /\ pid # NULLPROC
  BY <1>1 DEF IInv, ContOK
<1>3. pc[currpid].op \notin Deferring /\ ndefers = 0
  BY <1>1, Undeferred DEF Deferring, IInv
<1>4. /\ pc' = [pc EXCEPT ![currpid] = User, ![pid] = User]
      /\ UNCHANGED <<procVars, prsem, prhasmsg, prcount, sstate, nextsem,
                     ndefers, halted>>
  BY DEF KillEnd
<1> HIDE DEF pid
<1>5. pc' \in [Pid -> Cont] /\ \A p \in Pid : pc'[p] = pc[p] \/ Plain(pc'[p])
  BY <1>1, <1>2, <1>4, UserPlain DEF IInv, ContOK
<1>6. RestOK
  BY DEF IInv
<1>7. CASE /\ prstate[pid] = "curr"
           /\ Resched(gone, readylist, qkey)
           /\ UNCHANGED <<sleepq, scount, squeue>>
  <2>1. SchedOK(gone, readylist, qkey, currpid, preempt)
    BY <1>2, <1>7, BlockedOK DEF IInv, PState
  <2>2. QueuesOK(gone, prsem, sleepq, squeue)
    BY <1>1, <1>2, <1>7, UnqueuedMoves DEF IInv
  <2> HIDE DEF gone
  <2>3. /\ SchedOK(prstate', readylist', qkey', currpid', preempt')
        /\ prstate'[currpid'] = "curr"
        /\ SameButSched(gone, prstate') /\ attempt' \in BOOLEAN
    BY <1>3, <1>6, <1>7, <2>1, ReschedOK DEF RestOK
  <2>4. QueuesOK(prstate', prsem', sleepq', squeue')
    BY <1>4, <1>7, <2>2, <2>3, SchedLeavesQueues
  <2>5. RestOK'
    BY <1>4, <1>6, <1>7, <2>3 DEF RestOK, procVars
  <2> QED BY <1>3, <1>4, <1>5, <1>7, <2>3, <2>4, <2>5, PlainStep
<1>8. CASE /\ prstate[pid] \in {"sleep", "rectim"}
           /\ qkey' = UnsleepKeys(sleepq, pid, qkey)
           /\ sleepq' = Getitem(sleepq, pid)
           /\ prstate' = gone
           /\ UNCHANGED <<readylist, currpid, preempt, attempt, scount, squeue>>
  <2>1. SchedOK(gone, readylist, qkey, currpid, preempt)
    BY <1>2, <1>8, BlockedOK DEF IInv, PState
  <2>2. qkey' \in [Pid -> Int]
    BY <1>2, <1>8, UnsleepKeysType DEF IInv, SchedOK
  <2>3. SchedOK(prstate', readylist', qkey', currpid', preempt')
    BY <1>8, <2>1, <2>2 DEF SchedOK
  <2>4. prstate'[currpid'] = "curr"
    BY <1>1, <1>2, <1>8
  <2>5. /\ pid \in ToSet(sleepq) /\ sleepq \in Seq(Pid) /\ IsInjective(sleepq)
    BY <1>2, <1>8 DEF IInv, QueuesOK
  <2>6. /\ sleepq' \in Seq(Pid) /\ IsInjective(sleepq')
        /\ ToSet(sleepq') = ToSet(sleepq) \ {pid}
    BY <1>8, <2>5, GetitemSet
  <2>7. QueuesOK(gone, prsem, sleepq', squeue)
    BY <1>1, <2>5, <2>6, SleeperLeaves DEF IInv
  <2>8. QueuesOK(prstate', prsem', sleepq', squeue')
    BY <1>4, <1>8, <2>7
  <2>9. RestOK'
    BY <1>4, <1>6, <1>8 DEF RestOK, procVars
  <2> QED BY <1>3, <1>4, <1>5, <1>8, <2>3, <2>4, <2>8, <2>9, PlainStep
<1>9. CASE /\ prstate[pid] = "wait"
           /\ LeaveSem(pid)
           /\ prstate' = gone
           /\ UNCHANGED <<readylist, currpid, preempt, attempt, sleepq, qkey>>
  <2> DEFINE s == prsem[pid]
             left == Getitem(squeue[s], pid)
  <2>1. /\ s \in Sems /\ pid \in ToSet(squeue[s])
        /\ squeue \in [Sems -> Seq(Pid)] /\ scount \in [Sems -> Int]
        /\ squeue[s] \in Seq(Pid) /\ IsInjective(squeue[s])
    BY <1>2, <1>6, <1>9 DEF IInv, QueuesOK, RestOK
  <2>2. /\ left \in Seq(Pid) /\ IsInjective(left)
        /\ ToSet(left) = ToSet(squeue[s]) \ {pid}
        /\ Len(left) = Len(squeue[s]) - 1
    BY <2>1, GetitemSet
  <2>3. /\ squeue' = [squeue EXCEPT ![s] = left]
        /\ scount' = [scount EXCEPT ![s] = @ + 1]
    BY <1>9 DEF LeaveSem
  <2> HIDE DEF s, left
  <2>4. SchedOK(prstate', readylist', qkey', currpid', preempt')
    BY <1>2, <1>9, BlockedOK DEF IInv, PState
  <2>5. prstate'[currpid'] = "curr"
    BY <1>1, <1>2, <1>9
  <2>6. QueuesOK(prstate', prsem', sleepq', squeue')
    <3>1. QueuesOK(gone, prsem, sleepq, [squeue EXCEPT ![s] = left])
      BY <1>1, <2>1, <2>2, WaiterLeaves DEF IInv
    <3> QED BY <1>4, <1>9, <2>3, <3>1
  <2>7. SemCount'
    <3>1. \A x \in Sems : Counted(scount[x], squeue[x])
      BY <1>1, AllCounted
    <3>2. Len(squeue[s]) \in Nat \ {0}
      BY <2>1 DEF ToSet
    <3>3. Counted(scount'[s], squeue'[s])
      BY <2>1, <2>2, <2>3, <3>1, <3>2 DEF Counted
    <3>4. \A x \in Sems : x # s => scount'[x] = scount[x] /\ squeue'[x] = squeue[x]
      BY <2>1, <2>3
    <3>5. \A x \in Sems : Counted(scount'[x], squeue'[x])
      BY <3>1, <3>3, <3>4
    <3> QED BY <3>5, CountedAll
  <2>8. ContOK'
    BY <1>1, <1>3, <1>4, <1>5, <1>9, ContStays DEF IInv
  <2>9. RestOK'
    <3>1. scount' \in [Sems -> Int]
      BY <2>1, <2>3
    <3> QED BY <1>4, <1>6, <1>9, <3>1 DEF RestOK, procVars
  <2>10. FreeSemEmpty'
    <3>1. squeue[s] # <<>>
      BY <2>1 DEF ToSet
    <3>2. \A x \in Sems : squeue[x] = <<>> => squeue'[x] = <<>>
      BY <2>1, <2>3, <3>1
    <3> QED BY <1>1, <1>4, <3>2, EmptyStays DEF IInv
  <2> QED BY <2>4, <2>5, <2>6, <2>7, <2>8, <2>9, <2>10 DEF IInv
<1>10. CASE /\ prstate[pid] = "ready"
            /\ Unready(pid)
            /\ prstate' = gone
            /\ UNCHANGED <<currpid, preempt, attempt, sleepq, qkey, scount, squeue>>
  <2>1. SchedOK(prstate', readylist', qkey', currpid', preempt')
    BY <1>2, <1>10, UnreadyOK DEF IInv, PState
  <2>2. prstate'[currpid'] = "curr"
    BY <1>1, <1>2, <1>10
  <2>3. QueuesOK(gone, prsem, sleepq, squeue)
    BY <1>1, <1>2, <1>10, UnqueuedMoves DEF IInv
  <2>4. QueuesOK(prstate', prsem', sleepq', squeue')
    BY <1>4, <1>10, <2>3
  <2>5. RestOK'
    BY <1>4, <1>6, <1>10 DEF RestOK, procVars
  <2> QED BY <1>3, <1>4, <1>5, <1>10, <2>1, <2>2, <2>4, <2>5, PlainStep
<1>11. CASE /\ prstate[pid] \in {"susp", "recv", "free"}
            /\ prstate' = gone
            /\ UNCHANGED <<readylist, currpid, preempt, attempt, sleepq, qkey,
                           scount, squeue>>
  <2>1. SchedOK(prstate', readylist', qkey', currpid', preempt')
    BY <1>2, <1>11, BlockedOK DEF IInv, PState
  <2>2. prstate'[currpid'] = "curr"
    BY <1>1, <1>2, <1>11
  <2>3. QueuesOK(gone, prsem, sleepq, squeue)
    BY <1>1, <1>2, <1>11, UnqueuedMoves DEF IInv
  <2>4. QueuesOK(prstate', prsem', sleepq', squeue')
    BY <1>4, <1>11, <2>3
  <2>5. RestOK'
    BY <1>4, <1>6, <1>11 DEF RestOK, procVars
  <2> QED BY <1>3, <1>4, <1>5, <1>11, <2>1, <2>2, <2>4, <2>5, PlainStep
<1> QED BY <1>7, <1>8, <1>9, <1>10, <1>11 DEF KillEnd, pid

LEMMA SamePc ==
  ASSUME IInv, UNCHANGED pc
  PROVE  pc' \in [Pid -> Cont] /\ \A p \in Pid : pc'[p] = pc[p] \/ Plain(pc'[p])
BY DEF IInv, ContOK

(* A continuation outside the deferring loops for the current process. *)
LEMMA NextPc ==
  ASSUME IInv, NEW c, Plain(c), Continue(c)
  PROVE  pc' \in [Pid -> Cont] /\ \A p \in Pid : pc'[p] = pc[p] \/ Plain(pc'[p])
BY DEF IInv, ContOK, Continue, Plain

LEMMA PlainConts ==
  /\ Plain([op |-> "receive", arg |-> 0, n |-> 0])
  /\ Plain([op |-> "recvtime", arg |-> 0, n |-> 0])
  /\ Plain([op |-> "clock", arg |-> 0, n |-> 0])
BY DEF Plain, Cont, Ops, Deferring

LEMMA SuspendStep ==
  ASSUME IInv, NEW pid \in Pid, Suspend(pid) PROVE IInv'
<1>1. /\ currpid \in Pid /\ prstate \in [Pid -> PState]
      /\ pc[currpid].op \notin Deferring /\ ndefers = 0 /\ pid # NULLPROC
      /\ prstate[currpid] = "curr"
      /\ \A p \in Pid : prstate[p] = "curr" => p = currpid
  BY CallingOK DEF Suspend, Removable
<1>2. UNCHANGED <<procVars, prsem, prhasmsg, prcount, sleepq, semVars, ndefers,
                  pc, halted>>
  BY DEF Suspend
<1>3. RestOK
  BY DEF IInv
<1>4. CASE /\ prstate[pid] = "ready"
           /\ Unready(pid)
           /\ prstate' = [prstate EXCEPT ![pid] = "susp"]
           /\ UNCHANGED <<currpid, preempt, attempt, qkey>>
  <2>1. SchedOK(prstate', readylist', qkey', currpid', preempt')
    BY <1>1, <1>4, UnreadyOK DEF IInv, PState
  <2>2. prstate'[currpid'] = "curr"
    BY <1>1, <1>4
  <2>3. QueuesOK([prstate EXCEPT ![pid] = "susp"], prsem, sleepq, squeue)
    BY <1>1, <1>4, UnqueuedMoves DEF IInv
  <2>4. QueuesOK(prstate', prsem', sleepq', squeue')
    BY <1>2, <1>4, <2>3 DEF semVars
  <2>5. RestOK'
    BY <1>2, <1>3, <1>4 DEF RestOK, procVars, semVars
  <2> QED BY <1>1, <1>2, <2>1, <2>2, <2>4, <2>5, SamePc, PlainStep DEF semVars
<1>5. CASE prstate[pid] = "curr" /\ Block("susp", qkey)
  <2>1. /\ SchedOK(prstate', readylist', qkey', currpid', preempt')
        /\ prstate'[currpid'] = "curr" /\ attempt' \in BOOLEAN
        /\ SameButSched([prstate EXCEPT ![currpid] = "susp"], prstate')
    BY <1>1, <1>5, BlockOK DEF IInv, PState
  <2>2. QueuesOK([prstate EXCEPT ![currpid] = "susp"], prsem, sleepq, squeue)
    BY <1>1, UnqueuedMoves DEF IInv
  <2>3. QueuesOK(prstate', prsem', sleepq', squeue')
    BY <1>2, <2>1, <2>2, SchedLeavesQueues DEF semVars
  <2>4. RestOK'
    BY <1>2, <1>3, <2>1 DEF RestOK, procVars, semVars
  <2> QED BY <1>1, <1>2, <2>1, <2>3, <2>4, SamePc, PlainStep DEF semVars
<1> QED BY <1>4, <1>5 DEF Suspend

LEMMA ResumeStep ==
  ASSUME IInv, NEW pid \in Pid, Resume(pid) PROVE IInv'
<1>1. /\ prstate \in [Pid -> PState] /\ prstate[currpid] = "curr"
      /\ pc[currpid].op \notin Deferring /\ prstate[pid] = "susp"
  BY CallingOK DEF Resume
<1>2. UNCHANGED <<procVars, prsem, prhasmsg, prcount, sleepq, semVars, ndefers,
                  pc, halted>>
  BY DEF Resume
<1>3. /\ SchedOK(prstate', readylist', qkey', currpid', preempt')
      /\ prstate'[currpid'] = "curr" /\ attempt' \in BOOLEAN
      /\ SameButSched([prstate EXCEPT ![pid] = "ready"], prstate')
  BY <1>1, ReadyOK DEF IInv, Resume
<1>4. QueuesOK([prstate EXCEPT ![pid] = "ready"], prsem, sleepq, squeue)
  BY <1>1, UnqueuedMoves DEF IInv
<1>5. QueuesOK(prstate', prsem', sleepq', squeue')
  BY <1>2, <1>3, <1>4, SchedLeavesQueues DEF semVars
<1>6. RestOK'
  BY <1>2, <1>3 DEF IInv, RestOK, procVars, semVars
<1> QED BY <1>1, <1>2, <1>3, <1>5, <1>6, SamePc, PlainStep DEF semVars

LEMMA YieldStep ==
  ASSUME IInv, Yield PROVE IInv'
<1>1. /\ prstate[currpid] = "curr" /\ pc[currpid].op \notin Deferring
  BY CallingOK DEF Yield
<1>2. /\ Resched(prstate, readylist, qkey)
      /\ UNCHANGED <<procVars, prsem, prhasmsg, prcount, sleepq, semVars,
                     ndefers, pc, halted>>
  BY DEF Yield
<1>3. /\ SchedOK(prstate', readylist', qkey', currpid', preempt')
      /\ prstate'[currpid'] = "curr" /\ attempt' \in BOOLEAN
      /\ SameButSched(prstate, prstate')
  BY <1>1, <1>2, ReschedOK DEF IInv, RestOK
<1>4. QueuesOK(prstate', prsem', sleepq', squeue')
  BY <1>2, <1>3, SchedLeavesQueues DEF IInv, semVars
<1>5. RestOK'
  BY <1>2, <1>3 DEF IInv, RestOK, procVars, semVars
<1> QED BY <1>1, <1>2, <1>3, <1>4, <1>5, SamePc, PlainStep DEF semVars

LEMMA ChprioStep ==
  ASSUME IInv, NEW pid \in Pid, NEW newprio \in NewPrios, Chprio(pid, newprio)
  PROVE  IInv'
<1>1. pc[currpid].op \notin Deferring
  BY CallingOK DEF Chprio
<1>2. /\ prprio' = [prprio EXCEPT ![pid] = newprio]
      /\ UNCHANGED <<schedVars, prsem, prparent, nextpid, prhasmsg, prcount,
                     qkey, sleepq, semVars, ndefers, pc, halted>>
  BY DEF Chprio
<1>3. /\ SchedOK(prstate', readylist', qkey', currpid', preempt')
      /\ prstate'[currpid'] = "curr"
      /\ QueuesOK(prstate', prsem', sleepq', squeue')
  BY <1>2 DEF IInv, schedVars, semVars
<1>4. RestOK'
  <2>1. prprio' \in [Pid -> Prio]
    BY <1>2 DEF IInv, RestOK, Prio
  <2> QED BY <1>2, <2>1 DEF IInv, RestOK, schedVars, semVars
<1> QED BY <1>1, <1>2, <1>3, <1>4, SamePc, PlainStep DEF semVars

LEMMA SendStep ==
  ASSUME IInv, NEW pid \in Pid, Send(pid) PROVE IInv'
<1>1. pc[currpid].op \notin Deferring /\ Calling
  BY CallingOK DEF Send
<1>2. /\ Deliver(pid)
      /\ UNCHANGED <<procVars, prsem, prcount, semVars, ndefers, pc, halted>>
  BY DEF Send
<1>3. /\ SchedOK(prstate', readylist', qkey', currpid', preempt')
      /\ prstate'[currpid'] = "curr"
      /\ QueuesOK(prstate', prsem', sleepq', squeue')
      /\ prhasmsg' \in [Pid -> BOOLEAN] /\ attempt' \in BOOLEAN
  BY <1>1, <1>2, DeliverOK DEF semVars
<1>4. RestOK'
  BY <1>2, <1>3 DEF IInv, RestOK, procVars, semVars
<1> QED BY <1>1, <1>2, <1>3, <1>4, SamePc, PlainStep DEF semVars

(* A step of the current process that leaves all queues alone. *)
LEMMA QuietStep ==
  ASSUME IInv, pc[currpid].op \notin Deferring,
         UNCHANGED <<procVars, schedVars, prsem, prcount, qkey, sleepq, semVars,
                     ndefers, halted>>,
         prhasmsg' \in [Pid -> BOOLEAN],
         UNCHANGED pc \/ \E c : Plain(c) /\ Continue(c)
  PROVE  IInv'
<1>1. /\ SchedOK(prstate', readylist', qkey', currpid', preempt')
      /\ prstate'[currpid'] = "curr"
      /\ QueuesOK(prstate', prsem', sleepq', squeue')
  BY DEF IInv, schedVars, semVars
<1>2. RestOK'
  BY DEF IInv, RestOK, procVars, schedVars, semVars
<1> QED BY <1>1, <1>2, SamePc, NextPc, PlainStep DEF semVars

LEMMA ReceiveStep ==
  ASSUME IInv, Receive PROVE IInv'
<1> DEFINE c == [op |-> "receive", arg |-> 0, n |-> 0]
<1>1. /\ currpid \in Pid /\ prstate \in [Pid -> PState]
      /\ pc[currpid].op \notin Deferring /\ ndefers = 0 /\ currpid # NULLPROC
      /\ prstate[currpid] = "curr"
  BY CallingOK DEF Receive
<1>2. UNCHANGED <<procVars, prsem, prcount, sleepq, semVars, ndefers, halted>>
  BY DEF Receive
<1>3. CASE /\ prhasmsg' = [prhasmsg EXCEPT ![currpid] = FALSE]
           /\ UNCHANGED <<schedVars, qkey, pc>>
  <2>1. prhasmsg' \in [Pid -> BOOLEAN]
    BY <1>3 DEF IInv, RestOK
  <2> QED BY <1>1, <1>2, <1>3, <2>1, QuietStep
<1>4. CASE Block("recv", qkey) /\ Continue(c) /\ UNCHANGED prhasmsg
  <2>1. /\ SchedOK(prstate', readylist', qkey', currpid', preempt')
        /\ prstate'[currpid'] = "curr" /\ attempt' \in BOOLEAN
        /\ SameButSched([prstate EXCEPT ![currpid] = "recv"], prstate')
    BY <1>1, <1>4, BlockOK DEF IInv, PState
  <2>2. QueuesOK([prstate EXCEPT ![currpid] = "recv"], prsem, sleepq, squeue)
    BY <1>1, UnqueuedMoves DEF IInv
  <2>3. QueuesOK(prstate', prsem', sleepq', squeue')
    BY <1>2, <2>1, <2>2, SchedLeavesQueues DEF semVars
  <2>4. RestOK'
    BY <1>2, <1>4, <2>1 DEF IInv, RestOK, procVars, semVars
  <2>5. pc' \in [Pid -> Cont] /\ \A p \in Pid : pc'[p] = pc[p] \/ Plain(pc'[p])
    BY <1>4, PlainConts, NextPc
  <2> QED BY <1>1, <1>2, <2>1, <2>3, <2>4, <2>5, PlainStep DEF semVars
<1> QED BY <1>3, <1>4 DEF Receive

LEMMA ReceiveEndStep ==
  ASSUME IInv, ReceiveEnd PROVE IInv'
<1>1. pc[currpid].op \notin Deferring
  BY DEF ReceiveEnd, At, Deferring
<1>2. prhasmsg' \in [Pid -> BOOLEAN]
  BY DEF ReceiveEnd, IInv, RestOK
<1> QED BY <1>1, <1>2, UserPlain, QuietStep DEF ReceiveEnd

LEMMA RecvclrStep ==
  ASSUME IInv, Recvclr PROVE IInv'
<1>1. pc[currpid].op \notin Deferring
  BY CallingOK DEF Recvclr
<1>2. prhasmsg' \in [Pid -> BOOLEAN]
  BY DEF Recvclr, IInv, RestOK
<1> QED BY <1>1, <1>2, QuietStep DEF Recvclr

(* The current process joins the sleep queue and gives up the processor. *)
LEMMA FallAsleep ==
  ASSUME IInv, Calling, NEW d \in Delays, NEW s \in {"sleep", "rectim"},
         sleepq' = Insertd(sleepq, currpid, qkey, d),
         Block(s, InsertdKeys(sleepq, currpid, qkey, d)),
         UNCHANGED <<prsem, squeue>>
  PROVE  /\ SchedOK(prstate', readylist', qkey', currpid', preempt')
         /\ prstate'[currpid'] = "curr" /\ attempt' \in BOOLEAN
         /\ QueuesOK(prstate', prsem', sleepq', squeue')
<1> DEFINE qk == InsertdKeys(sleepq, currpid, qkey, d)
<1>1. /\ currpid \in Pid /\ prstate \in [Pid -> PState]
      /\ ndefers = 0 /\ currpid # NULLPROC /\ prstate[currpid] = "curr"
  BY CallingOK
<1>2. /\ sleepq \in Seq(Pid) /\ IsInjective(sleepq) /\ currpid \notin ToSet(sleepq)
      /\ qkey \in [Pid -> Int] /\ d \in Int
  <2>1. QueuesOK(prstate, prsem, sleepq, squeue)
    BY DEF IInv
  <2>2. sleepq \in Seq(Pid) /\ IsInjective(sleepq)
    BY <2>1 DEF QueuesOK
  <2>3. currpid \notin ToSet(sleepq)
    BY <1>1, <2>1 DEF QueuesOK
  <2>4. qkey \in [Pid -> Int]
    BY DEF IInv, SchedOK
  <2>5. d \in Int
    BY ArgumentAssumption
  <2> QED BY <2>2, <2>3, <2>4, <2>5
<1>3. /\ sleepq' \in Seq(Pid) /\ IsInjective(sleepq')
      /\ ToSet(sleepq') = ToSet(sleepq) \cup {currpid}
      /\ qk \in [Pid -> Int]
  <2>1. /\ Insertd(sleepq, currpid, qkey, d) \in Seq(Pid)
        /\ IsInjective(Insertd(sleepq, currpid, qkey, d))
        /\ ToSet(Insertd(sleepq, currpid, qkey, d)) = ToSet(sleepq) \cup {currpid}
        /\ InsertdKeys(sleepq, currpid, qkey, d) \in [Pid -> Int]
    <3> HIDE DEF qk
    <3>1. currpid \in Pid
      BY <1>1
    <3> QED BY <3>1, <1>2, InsertdOK
  <2> QED BY <2>1
<1>4. Block(s, qk)
  OBVIOUS
<1> HIDE DEF qk
<1>5. SchedOK(prstate, readylist, qk, currpid, preempt) /\ RestOK
  BY <1>3 DEF IInv, SchedOK
<1>6. /\ SchedOK(prstate', readylist', qkey', currpid', preempt')
      /\ prstate'[currpid'] = "curr" /\ attempt' \in BOOLEAN
      /\ SameButSched([prstate EXCEPT ![currpid] = s], prstate')
  BY <1>1, <1>4, <1>5, BlockOK DEF PState
<1>7. QueuesOK([prstate EXCEPT ![currpid] = s], prsem, sleepq', squeue)
  BY <1>1, <1>3, SleeperJoins DEF IInv
<1>8. QueuesOK(prstate', prsem', sleepq', squeue')
  BY <1>6, <1>7, SchedLeavesQueues
<1> QED BY <1>6, <1>8

LEMMA RecvtimeStep ==
  ASSUME IInv, NEW d \in Delays, Recvtime(d) PROVE IInv'
<1> DEFINE c == [op |-> "recvtime", arg |-> 0, n |-> 0]
<1>1. pc[currpid].op \notin Deferring /\ Calling /\ currpid \in Pid
  BY CallingOK DEF Recvtime
<1>2. UNCHANGED <<procVars, prsem, prcount, semVars, ndefers, halted>>
  BY DEF Recvtime
<1>3. CASE /\ prhasmsg' = [prhasmsg EXCEPT ![currpid] = FALSE]
           /\ UNCHANGED <<schedVars, qkey, sleepq, pc>>
  <2>1. prhasmsg' \in [Pid -> BOOLEAN]
    BY <1>3 DEF IInv, RestOK
  <2> QED BY <1>1, <1>2, <1>3, <2>1, QuietStep
<1>4. CASE /\ sleepq' = Insertd(sleepq, currpid, qkey, d)
           /\ Block("rectim", InsertdKeys(sleepq, currpid, qkey, d))
           /\ Continue(c)
           /\ UNCHANGED prhasmsg
  <2>1. /\ SchedOK(prstate', readylist', qkey', currpid', preempt')
        /\ prstate'[currpid'] = "curr" /\ attempt' \in BOOLEAN
        /\ QueuesOK(prstate', prsem', sleepq', squeue')
    BY <1>1, <1>2, <1>4, FallAsleep DEF semVars
  <2>2. RestOK'
    BY <1>2, <1>4, <2>1 DEF IInv, RestOK, procVars, semVars
  <2>3. pc' \in [Pid -> Cont] /\ \A p \in Pid : pc'[p] = pc[p] \/ Plain(pc'[p])
    BY <1>4, PlainConts, NextPc
  <2> QED BY <1>1, <1>2, <2>1, <2>2, <2>3, PlainStep DEF semVars
<1> QED BY <1>3, <1>4 DEF Recvtime

LEMMA SleepmsStep ==
  ASSUME IInv, NEW d \in Delays, Sleepms(d) PROVE IInv'
<1>1. pc[currpid].op \notin Deferring /\ Calling
  BY CallingOK DEF Sleepms
<1>2. UNCHANGED <<procVars, prsem, prhasmsg, prcount, semVars, ndefers, pc, halted>>
  BY DEF Sleepms
<1>3. /\ SchedOK(prstate', readylist', qkey', currpid', preempt')
      /\ prstate'[currpid'] = "curr" /\ attempt' \in BOOLEAN
      /\ QueuesOK(prstate', prsem', sleepq', squeue')
  BY <1>1, <1>2, FallAsleep DEF Sleepms, semVars
<1>4. RestOK'
  BY <1>2, <1>3 DEF IInv, RestOK, procVars, semVars
<1> QED BY <1>1, <1>2, <1>3, <1>4, SamePc, PlainStep DEF semVars

-----------------------------------------------------------------------------
(* Deferring loops *)

LEMMA Deferred ==
  ASSUME IInv, pc[currpid].op \in Deferring
  PROVE  /\ ndefers = 1 /\ currpid \in Pid /\ prstate[currpid] = "curr"
         /\ \A p \in Pid \ {currpid} : pc[p].op \notin Deferring
BY DEF IInv, ContOK, DeferBracket, SchedOK

LEMMA LoopStart ==
  ASSUME IInv, pc[currpid].op \notin Deferring, DeferStart, UNCHANGED currpid,
         NEW c \in Cont, c.op \in Deferring, c.op # "wakeup" => c.arg \in Sems,
         Continue(c)
  PROVE  ContOK' /\ pc' = [pc EXCEPT ![currpid] = c]
<1>1. currpid \in Pid /\ pc \in [Pid -> Cont]
  BY DEF IInv, SchedOK, ContOK
<1>2. ndefers = 0 /\ \A p \in Pid : pc[p].op \notin Deferring
  BY <1>1, Undeferred DEF IInv
<1>3. /\ pc' = [pc EXCEPT ![currpid] = c] /\ pc' \in [Pid -> Cont]
      /\ \A p \in Pid : pc'[p] = IF p = currpid THEN c ELSE pc[p]
  BY <1>1 DEF Continue
<1>4. ndefers' = 1
  BY <1>2 DEF DeferStart
<1>5. DeferBracket'
  BY <1>1, <1>2, <1>3, <1>4 DEF DeferBracket
<1>6. \A p \in Pid : pc'[p].op = "kill" => pc'[p].arg \in Pid \ {NULLPROC}
  BY <1>3 DEF IInv, ContOK, Deferring
<1>7. \A p \in Pid : pc'[p].op \in {"signaln", "semdelete", "semreset"}
                       => pc'[p].arg \in Sems
  BY <1>3 DEF IInv, ContOK
<1> QED BY <1>3, <1>5, <1>6, <1>7 DEF ContOK

(* An iteration: the processor stays, and so does the operation. *)
LEMMA LoopOn ==
  ASSUME IInv, UNCHANGED <<currpid, ndefers>>, pc' \in [Pid -> Cont],
         \A p \in Pid : pc'[p].op = pc[p].op /\ pc'[p].arg = pc[p].arg
  PROVE  ContOK'
BY DEF IInv, ContOK, DeferBracket, SchedOK

LEMMA LoopEnd ==
  ASSUME IInv, pc[currpid].op \in Deferring, DeferStop, NEW c, Plain(c),
         Continue(c)
  PROVE  /\ SchedOK(prstate', readylist', qkey', currpid', preempt')
         /\ prstate'[currpid'] = "curr" /\ attempt' \in BOOLEAN
         /\ SameButSched(prstate, prstate')
         /\ ContOK' /\ \A p \in Pid : pc'[p].op \notin Deferring
<1>1. /\ ndefers = 1 /\ currpid \in Pid /\ prstate[currpid] = "curr"
      /\ \A p \in Pid \ {currpid} : pc[p].op \notin Deferring
      /\ pc \in [Pid -> Cont]
  BY Deferred DEF IInv, ContOK
<1>2. ndefers' = 0 /\ attempt' \in BOOLEAN
  BY <1>1 DEF DeferStop, IInv, RestOK
<1>3. /\ SchedOK(prstate', readylist', qkey', currpid', preempt')
      /\ prstate'[currpid'] = "curr"
      /\ SameButSched(prstate, prstate')
  <2>1. CASE Dispatch(prstate, readylist, qkey, preempt)
    <3>1. preempt \in 1..QUANTUM
      BY DEF IInv, SchedOK
    <3> QED BY <2>1, <3>1, DispatchOK DEF IInv, RestOK
  <2>2. CASE UNCHANGED <<prstate, readylist, qkey, currpid, preempt>>
    BY <2>2 DEF IInv, SameButSched
  <2> QED BY <2>1, <2>2 DEF DeferStop
<1>4. /\ pc' \in [Pid -> Cont] /\ \A p \in Pid : pc'[p].op \notin Deferring
      /\ \A p \in Pid : pc'[p] = pc[p] \/ Plain(pc'[p])
  BY <1>1 DEF Continue, Plain
<1>5. currpid' \in Pid
  BY <1>3 DEF SchedOK
<1>6. DeferBracket'
  BY <1>2, <1>4, <1>5 DEF DeferBracket
<1>7. \A p \in Pid : pc'[p].op = "kill" => pc'[p].arg \in Pid \ {NULLPROC}
  BY <1>4 DEF IInv, ContOK, Plain
<1>8. \A p \in Pid : pc'[p].op \in {"signaln", "semdelete", "semreset"}
                       => pc'[p].arg \in Sems
  BY <1>4 DEF Deferring
<1> QED BY <1>2, <1>3, <1>4, <1>6, <1>7, <1>8 DEF ContOK

-----------------------------------------------------------------------------
(* The clock *)

LEMMA ClockStep ==
  ASSUME IInv, Clock PROVE IInv'
<1>1. /\ currpid \in Pid /\ pc[currpid].op \notin Deferring
      /\ pc[currpid].op # "semreset"
  BY DEF Clock, Running, At, Deferring, IInv, SchedOK
<1>2. UNCHANGED <<procVars, prstate, readylist, currpid, preempt, prsem,
                  prhasmsg, prcount, sleepq, semVars, halted>>
  BY DEF Clock
<1>3. qkey' \in [Pid -> Int]
  <2>1. qkey \in [Pid -> Int]
    BY DEF IInv, SchedOK
  <2>2. CASE qkey' = qkey
    BY <2>1, <2>2
  <2>3. CASE sleepq # <<>> /\ qkey' = [qkey EXCEPT ![Head(sleepq)] = @ - 1]
    <3>1. Head(sleepq) \in Pid
      BY <2>3 DEF IInv, QueuesOK
    <3> QED BY <2>1, <2>3, <3>1
  <2> QED BY <2>2, <2>3 DEF Clock
<1>4. /\ SchedOK(prstate', readylist', qkey', currpid', preempt')
      /\ prstate'[currpid'] = "curr"
      /\ QueuesOK(prstate', prsem', sleepq', squeue')
  BY <1>2, <1>3 DEF IInv, SchedOK, semVars
<1>5. CASE Continue([op |-> "clock", arg |-> 0, n |-> 0])
           /\ UNCHANGED <<ndefers, attempt>>
  <2>1. pc' \in [Pid -> Cont] /\ \A p \in Pid : pc'[p] = pc[p] \/ Plain(pc'[p])
    BY <1>5, PlainConts, NextPc
  <2>2. RestOK'
    BY <1>2, <1>5 DEF IInv, RestOK, procVars, semVars
  <2> QED BY <1>1, <1>2, <1>4, <1>5, <2>1, <2>2, PlainStep DEF semVars
<1>6. CASE DeferStart /\ Continue([op |-> "wakeup", arg |-> 0, n |-> 0])
  <2> DEFINE c == [op |-> "wakeup", arg |-> 0, n |-> 0]
  <2>1. c \in Cont /\ c.op \in Deferring /\ c.op = "wakeup"
    BY DEF Cont, Ops, Deferring
  <2>2. ContOK' /\ pc' = [pc EXCEPT ![currpid] = c]
    BY <1>1, <1>2, <1>6, <2>1, LoopStart
  <2>3. RestOK'
    BY <1>2, <1>6 DEF IInv, RestOK, procVars, semVars, DeferStart
  <2>4. SemCount'
    BY <1>1, <1>2, AllCounted, CountedAll DEF semVars
  <2>5. FreeSemEmpty'
    BY <1>1, <1>2, EmptyStays DEF IInv, semVars, Deferring
  <2> QED BY <1>4, <2>2, <2>3, <2>4, <2>5 DEF IInv
<1> QED BY <1>5, <1>6 DEF Clock

(* wakeup's loop: dequeue the first sleeper and make it ready. *)
LEMMA WakeupStep ==
  ASSUME IInv, Wakeup PROVE IInv'
<1> DEFINE p == Head(sleepq)
<1>1. /\ pc[currpid].op \in Deferring /\ pc[currpid].op = "wakeup"
      /\ sleepq # <<>> /\ sleepq' = Tail(sleepq) /\ Ready(p, qkey)
      /\ UNCHANGED <<procVars, prsem, prhasmsg, prcount, semVars, ndefers, pc,
                     halted>>
  BY DEF Wakeup, At, Expired, Deferring
<1>2. ndefers = 1 /\ prstate[currpid] = "curr"
  BY <1>1, Deferred
<1>3. /\ Tail(sleepq) \in Seq(Pid) /\ IsInjective(Tail(sleepq))
      /\ p \in ToSet(sleepq) /\ ToSet(Tail(sleepq)) = ToSet(sleepq) \ {p}
  BY <1>1, TailSet DEF IInv, QueuesOK
<1> HIDE DEF p
<1>4. p \in Pid /\ prstate[p] \in {"sleep", "rectim"}
  <2>1. p \in Pid
    BY <1>3 DEF IInv, QueuesOK, ToSet
  <2> QED BY <2>1, <1>3 DEF IInv, QueuesOK
<1>5. /\ SchedOK(prstate', readylist', qkey', currpid', preempt')
      /\ prstate'[currpid'] = "curr" /\ attempt' \in BOOLEAN
      /\ SameButSched([prstate EXCEPT ![p] = "ready"], prstate')
      /\ UNCHANGED currpid
  <2>1. SchedOK(prstate, readylist, qkey, currpid, preempt) /\ RestOK
    BY DEF IInv
  <2>2. prstate[p] \notin {"curr", "ready"} /\ ndefers > 0
    BY <1>2, <1>4
  <2> QED BY <1>1, <1>2, <1>4, <2>1, <2>2, ReadyOK
<1>6. QueuesOK([prstate EXCEPT ![p] = "ready"], prsem, sleepq', squeue)
  BY <1>1, <1>3, SleeperLeaves DEF IInv, SchedOK
<1>7. QueuesOK(prstate', prsem', sleepq', squeue')
  BY <1>1, <1>5, <1>6, SchedLeavesQueues DEF semVars
<1>8. ContOK'
  BY <1>1, <1>5 DEF IInv, ContOK, DeferBracket
<1>9. SemCount'
  BY <1>1, AllCounted, CountedAll DEF semVars
<1>10. RestOK'
  BY <1>1, <1>5 DEF IInv, RestOK, procVars, semVars
<1>11. FreeSemEmpty'
  BY <1>1, EmptyStays DEF IInv, semVars
<1> QED BY <1>5, <1>7, <1>8, <1>9, <1>10, <1>11 DEF IInv

LEMMA WakeupEndStep ==
  ASSUME IInv, WakeupEnd PROVE IInv'
<1> DEFINE c == [op |-> "clock", arg |-> 0, n |-> 0]
<1>1. /\ pc[currpid].op \in Deferring /\ pc[currpid].op = "wakeup"
      /\ DeferStop /\ Continue(c)
      /\ UNCHANGED <<procVars, prsem, prhasmsg, prcount, sleepq, semVars, halted>>
  BY DEF WakeupEnd, At, Deferring
<1>2. /\ SchedOK(prstate', readylist', qkey', currpid', preempt')
      /\ prstate'[currpid'] = "curr" /\ attempt' \in BOOLEAN
      /\ SameButSched(prstate, prstate') /\ ContOK'
  BY <1>1, PlainConts, LoopEnd
<1>3. QueuesOK(prstate', prsem', sleepq', squeue')
  BY <1>1, <1>2, SchedLeavesQueues DEF IInv, semVars
<1>4. SemCount'
  BY <1>1, AllCounted, CountedAll DEF semVars
<1>5. RestOK'
  BY <1>1, <1>2 DEF IInv, RestOK, procVars, semVars
<1>6. FreeSemEmpty'
  BY <1>1, EmptyStays DEF IInv, semVars
<1> QED BY <1>2, <1>3, <1>4, <1>5, <1>6 DEF IInv

LEMMA ClockEndStep ==
  ASSUME IInv, ClockEnd PROVE IInv'
<1>1. /\ pc[currpid].op \notin Deferring /\ currpid \in Pid
      /\ preempt \in 1..QUANTUM /\ QUANTUM \in 1..QUANTUM
  BY TableAssumption DEF ClockEnd, At, Deferring, IInv, SchedOK
<1>2. /\ Continue(User)
      /\ UNCHANGED <<procVars, attempt, prsem, prhasmsg, prcount, sleepq,
                     semVars, ndefers, halted>>
  BY DEF ClockEnd
<1>3. /\ SchedOK(prstate', readylist', qkey', currpid', preempt')
      /\ prstate'[currpid'] = "curr"
      /\ SameButSched(prstate, prstate')
  <2>1. CASE Dispatch(prstate, readylist, qkey, QUANTUM)
    BY <1>1, <2>1, DispatchOK DEF IInv, RestOK
  <2>2. CASE /\ ~SliceOver
             /\ preempt' = preempt - 1
             /\ UNCHANGED <<prstate, readylist, currpid, qkey>>
    <3>1. preempt' \in 1..QUANTUM
      BY <1>1, <2>2 DEF SliceOver
    <3> QED BY <2>2, <3>1 DEF IInv, SchedOK, SameButSched
  <2> QED BY <2>1, <2>2 DEF ClockEnd
<1>4. QueuesOK(prstate', prsem', sleepq', squeue')
  BY <1>2, <1>3, SchedLeavesQueues DEF IInv, semVars
<1>5. RestOK'
  BY <1>2, <1>3 DEF IInv, RestOK, procVars, semVars
<1>6. pc' \in [Pid -> Cont] /\ \A p \in Pid : pc'[p] = pc[p] \/ Plain(pc'[p])
  BY <1>2, UserPlain, NextPc
<1> QED BY <1>1, <1>2, <1>3, <1>4, <1>5, <1>6, PlainStep DEF semVars

-----------------------------------------------------------------------------
(* Semaphores *)

LEMMA SemcreateStep ==
  ASSUME IInv, NEW count \in Counts, Semcreate(count) PROVE IInv'
<1> DEFINE sem == NewSem
<1>1. sem \in Sems /\ sstate[sem] = "S_FREE"
  <2> DEFINE free == {s \in Sems : sstate[s] = "S_FREE"}
  <2>1. free # {} /\ free \subseteq 0..(NSEM - 1)
    BY DEF Semcreate, Sems
  <2>2. nextsem \in 0..NSEM /\ NSEM \in Nat
    BY TableAssumption DEF IInv, RestOK, Sems
  <2>3. NextFree(nextsem, NSEM, free) \in free
    BY <2>1, <2>2, NextFreeOK
  <2> QED BY <2>3 DEF NewSem
<1> HIDE DEF sem
<1>2. /\ sstate' = [sstate EXCEPT ![sem] = "S_USED"]
      /\ scount' = [scount EXCEPT ![sem] = count]
      /\ nextsem' = (sem + 1) % NSEM
      /\ UNCHANGED <<procVars, schedVars, prsem, prhasmsg, prcount, qkey,
                     sleepq, squeue, ndefers, pc, halted>>
  BY DEF Semcreate, sem
<1>3. /\ currpid \in Pid /\ pc[currpid].op \notin Deferring
      /\ pc[currpid].op # "semreset" /\ count \in Nat
  BY CallingOK, ArgumentAssumption DEF Semcreate, Deferring
<1>4. /\ SchedOK(prstate', readylist', qkey', currpid', preempt')
      /\ prstate'[currpid'] = "curr"
      /\ QueuesOK(prstate', prsem', sleepq', squeue')
  BY <1>2 DEF IInv, schedVars
<1>5. ContOK'
  BY <1>2 DEF IInv, ContOK, DeferBracket, schedVars
<1>6. SemCount'
  <2>1. \A s \in Sems : Counted(scount[s], squeue[s])
    BY <1>3, AllCounted
  <2>2. squeue[sem] = <<>>
    BY <1>1, <1>3 DEF IInv, FreeSemEmpty, Deferring
  <2>3. /\ squeue' = squeue
        /\ \A s \in Sems : scount'[s] = IF s = sem THEN count ELSE scount[s]
    BY <1>1, <1>2 DEF IInv, RestOK
  <2>4. \A s \in Sems : Counted(scount'[s], squeue'[s])
    BY <1>3, <2>1, <2>2, <2>3 DEF Counted
  <2> QED BY <2>4, CountedAll
<1>7. FreeSemEmpty'
  BY <1>1, <1>2, <1>3 DEF IInv, FreeSemEmpty, Deferring, RestOK
<1>8. RestOK'
  <2>1. nextsem' \in Sems
    BY <1>1, <1>2, TableAssumption DEF Sems
  <2>2. sstate' \in [Sems -> {"S_FREE", "S_USED"}] /\ scount' \in [Sems -> Int]
    BY <1>1, <1>2, <1>3 DEF IInv, RestOK
  <2> QED BY <1>2, <2>1, <2>2 DEF IInv, RestOK, procVars, schedVars
<1> QED BY <1>4, <1>5, <1>6, <1>7, <1>8 DEF IInv

LEMMA WaitStep ==
  ASSUME IInv, NEW sem \in Sems, Wait(sem) PROVE IInv'
<1>1. /\ currpid \in Pid /\ pc[currpid].op \notin Deferring
      /\ prstate \in [Pid -> PState] /\ prstate[currpid] = "curr"
      /\ ndefers = 0 /\ currpid # NULLPROC
  BY CallingOK DEF Wait
<1>2. /\ sstate[sem] = "S_USED"
      /\ scount' = [scount EXCEPT ![sem] = @ - 1]
      /\ UNCHANGED <<procVars, prhasmsg, prcount, sleepq, sstate, nextsem,
                     ndefers, pc, halted>>
  BY DEF Wait
<1>3. /\ RestOK /\ scount \in [Sems -> Int] /\ squeue \in [Sems -> Seq(Pid)]
      /\ \A s \in Sems : Counted(scount[s], squeue[s])
      /\ Len(squeue[sem]) \in Nat
  <2>1. RestOK /\ scount \in [Sems -> Int] /\ squeue \in [Sems -> Seq(Pid)]
    BY DEF IInv, QueuesOK, RestOK
  <2>2. \A s \in Sems : Counted(scount[s], squeue[s])
    BY <1>1, AllCounted DEF Deferring
  <2> QED BY <2>1, <2>2
<1>4. scount' \in [Sems -> Int]
  BY <1>2, <1>3
<1>5. CASE /\ scount[sem] - 1 < 0
           /\ prsem' = [prsem EXCEPT ![currpid] = sem]
           /\ squeue' = [squeue EXCEPT ![sem] = Append(@, currpid)]
           /\ Block("wait", qkey)
  <2>1. /\ SchedOK(prstate', readylist', qkey', currpid', preempt')
        /\ prstate'[currpid'] = "curr" /\ attempt' \in BOOLEAN
        /\ SameButSched([prstate EXCEPT ![currpid] = "wait"], prstate')
    BY <1>1, <1>3, <1>5, BlockOK DEF IInv, PState
  <2>2. QueuesOK([prstate EXCEPT ![currpid] = "wait"], prsem', sleepq, squeue')
    BY <1>1, <1>5, WaiterJoins DEF IInv
  <2>3. QueuesOK(prstate', prsem', sleepq', squeue')
    BY <1>2, <2>1, <2>2, SchedLeavesQueues
  <2>4. SemCount'
    <3>1. Len(squeue'[sem]) = Len(squeue[sem]) + 1
      BY <1>1, <1>3, <1>5
    <3>2. Counted(scount'[sem], squeue'[sem])
      BY <1>2, <1>3, <1>5, <3>1 DEF Counted
    <3>3. \A s \in Sems : Counted(scount'[s], squeue'[s])
      BY <1>2, <1>3, <1>5, <3>2
    <3> QED BY <3>3, CountedAll
  <2>5. FreeSemEmpty'
    BY <1>1, <1>2, <1>3, <1>5 DEF IInv, FreeSemEmpty, Deferring
  <2>6. ContOK'
    BY <1>1, <1>2, <2>1, SamePc, ContStays DEF IInv, SchedOK
  <2>7. RestOK'
    BY <1>2, <1>3, <1>4, <2>1 DEF RestOK, procVars
  <2> QED BY <2>1, <2>3, <2>4, <2>5, <2>6, <2>7 DEF IInv
<1>6. CASE scount[sem] - 1 >= 0 /\ UNCHANGED <<schedVars, prsem, squeue, qkey>>
  <2>1. /\ SchedOK(prstate', readylist', qkey', currpid', preempt')
        /\ prstate'[currpid'] = "curr"
        /\ QueuesOK(prstate', prsem', sleepq', squeue')
    BY <1>2, <1>6 DEF IInv, schedVars
  <2>2. SemCount'
    <3>1. Counted(scount'[sem], squeue'[sem])
      BY <1>2, <1>3, <1>6 DEF Counted
    <3>2. \A s \in Sems : Counted(scount'[s], squeue'[s])
      BY <1>2, <1>3, <1>6, <3>1
    <3> QED BY <3>2, CountedAll
  <2>3. FreeSemEmpty'
    BY <1>1, <1>2, <1>6, EmptyStays DEF IInv, Deferring
  <2>4. ContOK'
    BY <1>2, <1>6 DEF IInv, ContOK, DeferBracket, schedVars
  <2>5. RestOK'
    BY <1>2, <1>3, <1>4, <1>6 DEF RestOK, procVars, schedVars
  <2> QED BY <2>1, <2>2, <2>3, <2>4, <2>5 DEF IInv
<1> QED BY <1>5, <1>6 DEF Wait

(* Making the first waiter ready, inside a deferral or outside. *)
LEMMA ReleaseOK ==
  ASSUME IInv, NEW sem \in Sems, squeue[sem] # <<>>, Release(sem),
         UNCHANGED <<prsem, sleepq>>
  PROVE  /\ SchedOK(prstate', readylist', qkey', currpid', preempt')
         /\ prstate'[currpid'] = "curr" /\ attempt' \in BOOLEAN
         /\ QueuesOK(prstate', prsem', sleepq', squeue')
         /\ squeue' = [squeue EXCEPT ![sem] = Tail(squeue[sem])]
         /\ Len(Tail(squeue[sem])) = Len(squeue[sem]) - 1
         /\ ndefers > 0 => UNCHANGED currpid
<1> DEFINE p == Head(squeue[sem])
           left == Tail(squeue[sem])
<1>1. squeue' = [squeue EXCEPT ![sem] = left] /\ Ready(p, qkey)
  BY DEF Release
<1>2. /\ left \in Seq(Pid) /\ IsInjective(left) /\ Len(left) = Len(squeue[sem]) - 1
      /\ p \in ToSet(squeue[sem]) /\ ToSet(left) = ToSet(squeue[sem]) \ {p}
  <2>1. squeue[sem] \in Seq(Pid) /\ IsInjective(squeue[sem])
    BY DEF IInv, QueuesOK
  <2> QED BY <2>1, TailSet
<1> HIDE DEF p, left
<1>3. p \in Pid /\ prstate[p] = "wait"
  <2>1. p \in Pid
    BY <1>2 DEF IInv, QueuesOK, ToSet
  <2> QED BY <2>1, <1>2 DEF IInv, QueuesOK
<1>4. /\ SchedOK(prstate', readylist', qkey', currpid', preempt')
      /\ prstate'[currpid'] = "curr" /\ attempt' \in BOOLEAN
      /\ SameButSched([prstate EXCEPT ![p] = "ready"], prstate')
      /\ ndefers > 0 => UNCHANGED currpid
  <2>1. /\ SchedOK(prstate, readylist, qkey, currpid, preempt) /\ RestOK
        /\ prstate[currpid] = "curr" /\ prstate[p] \notin {"curr", "ready"}
    BY <1>3 DEF IInv
  <2> QED BY <1>1, <1>3, <2>1, ReadyOK
<1>5. QueuesOK([prstate EXCEPT ![p] = "ready"], prsem, sleepq, squeue')
  BY <1>1, <1>2, WaiterLeaves DEF IInv, SchedOK
<1>6. QueuesOK(prstate', prsem', sleepq', squeue')
  BY <1>4, <1>5, SchedLeavesQueues
<1> QED BY <1>1, <1>2, <1>4, <1>6 DEF left

LEMMA SignalOneOK ==
  ASSUME IInv, pc[currpid].op # "semreset", NEW sem \in Sems, SignalOne(sem),
         UNCHANGED <<prsem, sleepq>>
  PROVE  /\ SchedOK(prstate', readylist', qkey', currpid', preempt')
         /\ prstate'[currpid'] = "curr" /\ attempt' \in BOOLEAN
         /\ QueuesOK(prstate', prsem', sleepq', squeue')
         /\ scount' \in [Sems -> Int]
         /\ SemCount'
         /\ \A s \in Sems : squeue[s] = <<>> => squeue'[s] = <<>>
         /\ ndefers > 0 => UNCHANGED currpid
<1>1. /\ scount' = [scount EXCEPT ![sem] = @ + 1]
      /\ scount \in [Sems -> Int] /\ squeue \in [Sems -> Seq(Pid)]
  BY DEF SignalOne, IInv, RestOK, QueuesOK
<1>2. scount' \in [Sems -> Int]
  BY <1>1
<1>3. (\A s \in Sems : Counted(scount[s], squeue[s])) /\ Len(squeue[sem]) \in Nat
  <2>1. \A s \in Sems : Counted(scount[s], squeue[s])
    BY AllCounted
  <2> QED BY <1>1, <2>1
<1>4. CASE scount[sem] < 0 /\ Release(sem)
  <2>1. Len(squeue[sem]) = -scount[sem] /\ scount[sem] \in Int
    BY <1>1, <1>3, <1>4 DEF Counted
  <2>2. squeue[sem] # <<>>
    BY <1>4, <2>1
  <2>3. /\ SchedOK(prstate', readylist', qkey', currpid', preempt')
        /\ prstate'[currpid'] = "curr" /\ attempt' \in BOOLEAN
        /\ QueuesOK(prstate', prsem', sleepq', squeue')
        /\ squeue' = [squeue EXCEPT ![sem] = Tail(squeue[sem])]
        /\ Len(Tail(squeue[sem])) = Len(squeue[sem]) - 1
        /\ ndefers > 0 => UNCHANGED currpid
    BY <1>4, <2>2, ReleaseOK
  <2>4. Len(squeue'[sem]) = Len(squeue[sem]) - 1
    BY <1>1, <2>3
  <2>5. Counted(scount'[sem], squeue'[sem])
    BY <1>1, <1>4, <2>1, <2>4 DEF Counted
  <2>6. \A s \in Sems : s # sem => scount'[s] = scount[s] /\ squeue'[s] = squeue[s]
    BY <1>1, <2>3
  <2>7. \A s \in Sems : Counted(scount'[s], squeue'[s])
    BY <1>3, <2>5, <2>6
  <2> QED BY <1>2, <2>2, <2>3, <2>6, <2>7, CountedAll
<1>5. CASE scount[sem] >= 0 /\ UNCHANGED <<schedVars, squeue, qkey>>
  <2>1. /\ SchedOK(prstate', readylist', qkey', currpid', preempt')
        /\ prstate'[currpid'] = "curr" /\ attempt' \in BOOLEAN
        /\ QueuesOK(prstate', prsem', sleepq', squeue')
    BY <1>5 DEF IInv, schedVars, RestOK
  <2>2. Counted(scount'[sem], squeue'[sem])
    BY <1>1, <1>3, <1>5 DEF Counted
  <2>3. \A s \in Sems : Counted(scount'[s], squeue'[s])
    BY <1>1, <1>3, <1>5, <2>2
  <2> QED BY <1>2, <1>5, <2>1, <2>3, CountedAll DEF schedVars
<1> QED BY <1>4, <1>5 DEF SignalOne

LEMMA SignalStep ==
  ASSUME IInv, NEW sem \in Sems, Signal(sem) PROVE IInv'
<1>1. /\ pc[currpid].op \notin Deferring /\ currpid \in Pid
      /\ pc[currpid].op \notin {"semreset", "semdelete"}
  BY DEF Signal, Running, At, Deferring, IInv, SchedOK
<1>2. /\ SignalOne(sem)
      /\ UNCHANGED <<procVars, prsem, prhasmsg, prcount, sleepq, sstate,
                     nextsem, ndefers, pc, halted>>
  BY DEF Signal
<1>3. /\ SchedOK(prstate', readylist', qkey', currpid', preempt')
      /\ prstate'[currpid'] = "curr" /\ attempt' \in BOOLEAN
      /\ QueuesOK(prstate', prsem', sleepq', squeue')
      /\ scount' \in [Sems -> Int] /\ SemCount'
      /\ \A s \in Sems : squeue[s] = <<>> => squeue'[s] = <<>>
  BY <1>1, <1>2, SignalOneOK
<1>4. ContOK'
  BY <1>1, <1>2, <1>3, SamePc, ContStays DEF IInv, SchedOK
<1>5. FreeSemEmpty'
  BY <1>1, <1>2, <1>3, EmptyStays DEF IInv
<1>6. RestOK'
  BY <1>2, <1>3 DEF IInv, RestOK, procVars
<1> QED BY <1>3, <1>4, <1>5, <1>6 DEF IInv

-----------------------------------------------------------------------------
(* signaln, semdelete and semreset *)

LEMMA SignalnStart ==
  ASSUME IInv, NEW sem \in Sems, NEW n \in Counts, Signaln(sem, n) PROVE IInv'
<1> DEFINE c == [op |-> "signaln", arg |-> sem, n |-> n]
<1>1. /\ pc[currpid].op \notin Deferring /\ currpid \in Pid
      /\ pc[currpid].op \notin {"semreset", "semdelete"}
  BY DEF Signaln, Running, At, Deferring, IInv, SchedOK
<1>2. /\ DeferStart /\ Continue(c)
      /\ UNCHANGED <<procVars, prstate, readylist, currpid, preempt, prsem,
                     prhasmsg, prcount, qkey, sleepq, scount, squeue, nextsem,
                     halted, sstate>>
  BY DEF Signaln, StartLoop
<1>3. c \in Cont /\ c.op \in Deferring /\ c.arg \in Sems
  BY ArgumentAssumption DEF Cont, Ops, Deferring, Sems
<1>4. ContOK'
  BY <1>1, <1>2, <1>3, LoopStart
<1>5. /\ SchedOK(prstate', readylist', qkey', currpid', preempt')
      /\ prstate'[currpid'] = "curr"
      /\ QueuesOK(prstate', prsem', sleepq', squeue')
  BY <1>2 DEF IInv
<1>6. SemCount'
  BY <1>1, <1>2, AllCounted, CountedAll
<1>7. FreeSemEmpty'
  BY <1>1, <1>2, EmptyStays DEF IInv
<1>8. RestOK'
  BY <1>2 DEF IInv, RestOK, procVars, DeferStart
<1> QED BY <1>4, <1>5, <1>6, <1>7, <1>8 DEF IInv

LEMMA SignalnStepStep ==
  ASSUME IInv, SignalnStep PROVE IInv'
<1> DEFINE sem == pc[currpid].arg
<1>1. /\ pc[currpid].op = "signaln" /\ pc[currpid].op \in Deferring
      /\ pc[currpid].n > 0 /\ SignalOne(sem)
      /\ pc' = [pc EXCEPT ![currpid] = [pc[currpid] EXCEPT !.n = @ - 1]]
      /\ UNCHANGED <<procVars, prsem, prhasmsg, prcount, sleepq, sstate,
                     nextsem, ndefers, halted>>
  BY DEF SignalnStep, At, Continue, Deferring
<1>2. currpid \in Pid /\ pc \in [Pid -> Cont] /\ sem \in Sems /\ ndefers = 1
  BY <1>1, Deferred DEF IInv, ContOK
<1> HIDE DEF sem
<1>3. /\ SchedOK(prstate', readylist', qkey', currpid', preempt')
      /\ prstate'[currpid'] = "curr" /\ attempt' \in BOOLEAN
      /\ QueuesOK(prstate', prsem', sleepq', squeue')
      /\ scount' \in [Sems -> Int] /\ SemCount'
      /\ \A s \in Sems : squeue[s] = <<>> => squeue'[s] = <<>>
      /\ UNCHANGED currpid
  BY <1>1, <1>2, SignalOneOK
<1>4. /\ pc' \in [Pid -> Cont]
      /\ \A p \in Pid : pc'[p].op = pc[p].op /\ pc'[p].arg = pc[p].arg
  BY <1>1, <1>2 DEF Cont
<1>5. ContOK'
  BY <1>1, <1>3, <1>4, LoopOn
<1>6. FreeSemEmpty'
  BY <1>1, <1>3, EmptyStays DEF IInv
<1>7. RestOK'
  BY <1>1, <1>3 DEF IInv, RestOK, procVars
<1> QED BY <1>3, <1>5, <1>6, <1>7 DEF IInv

LEMMA SignalnEndStep ==
  ASSUME IInv, SignalnEnd PROVE IInv'
<1>1. /\ pc[currpid].op = "signaln" /\ pc[currpid].op \in Deferring
      /\ DeferStop /\ Continue(User)
      /\ UNCHANGED <<procVars, prsem, prhasmsg, prcount, sleepq, sstate,
                     squeue, nextsem, halted, scount>>
  BY DEF SignalnEnd, EndLoop, At, Deferring
<1>2. /\ SchedOK(prstate', readylist', qkey', currpid', preempt')
      /\ prstate'[currpid'] = "curr" /\ attempt' \in BOOLEAN
      /\ SameButSched(prstate, prstate') /\ ContOK'
  BY <1>1, UserPlain, LoopEnd
<1>3. QueuesOK(prstate', prsem', sleepq', squeue')
  BY <1>1, <1>2, SchedLeavesQueues DEF IInv
<1>4. SemCount'
  BY <1>1, AllCounted, CountedAll
<1>5. FreeSemEmpty'
  BY <1>1, EmptyStays DEF IInv
<1>6. RestOK'
  BY <1>1, <1>2 DEF IInv, RestOK, procVars
<1> QED BY <1>2, <1>3, <1>4, <1>5, <1>6 DEF IInv

LEMMA SemdeleteStart ==
  ASSUME IInv, NEW sem \in Sems, Semdelete(sem) PROVE IInv'
<1> DEFINE c == [op |-> "semdelete", arg |-> sem, n |-> 0]
<1>1. /\ pc[currpid].op \notin Deferring /\ currpid \in Pid
      /\ pc[currpid].op \notin {"semreset", "semdelete"}
  BY CallingOK DEF Semdelete, Deferring
<1>2. /\ DeferStart /\ Continue(c)
      /\ sstate' = [sstate EXCEPT ![sem] = "S_FREE"]
      /\ UNCHANGED <<procVars, prstate, readylist, currpid, preempt, prsem,
                     prhasmsg, prcount, qkey, sleepq, scount, squeue, nextsem,
                     halted>>
  BY DEF Semdelete, StartLoop
<1>3. c \in Cont /\ c.op \in Deferring /\ c.arg \in Sems
  BY DEF Cont, Ops, Deferring, Sems
<1>4. ContOK' /\ pc' = [pc EXCEPT ![currpid] = c]
  BY <1>1, <1>2, <1>3, LoopStart
<1>5. /\ SchedOK(prstate', readylist', qkey', currpid', preempt')
      /\ prstate'[currpid'] = "curr"
      /\ QueuesOK(prstate', prsem', sleepq', squeue')
  BY <1>2 DEF IInv
<1>6. SemCount'
  BY <1>1, <1>2, AllCounted, CountedAll
<1>7. FreeSemEmpty'
  <2>1. pc'[currpid'].op = "semdelete" /\ pc'[currpid'].arg = sem
    BY <1>1, <1>2, <1>4 DEF IInv, ContOK
  <2>2. \A s \in Sems : s # sem => sstate'[s] = sstate[s] /\ squeue'[s] = squeue[s]
    BY <1>2 DEF IInv, RestOK
  <2> QED BY <1>1, <2>1, <2>2 DEF IInv, FreeSemEmpty
<1>8. RestOK'
  BY <1>2 DEF IInv, RestOK, procVars, DeferStart
<1> QED BY <1>4, <1>5, <1>6, <1>7, <1>8 DEF IInv

(* A negative count says that somebody waits: the dequeue finds a process. *)
LEMMA SemdeleteStepStep ==
  ASSUME IInv, SemdeleteStep PROVE IInv'
<1> DEFINE sem == pc[currpid].arg
<1>1. /\ pc[currpid].op = "semdelete" /\ pc[currpid].op \in Deferring
      /\ ~AllReleased(sem) /\ Release(sem)
      /\ scount' = [scount EXCEPT ![sem] = @ + 1]
      /\ UNCHANGED <<procVars, prsem, prhasmsg, prcount, sleepq, sstate,
                     nextsem, ndefers, pc, halted>>
  BY DEF SemdeleteStep, At, Deferring
<1>2. /\ currpid \in Pid /\ sem \in Sems /\ ndefers = 1
      /\ scount \in [Sems -> Int] /\ squeue \in [Sems -> Seq(Pid)]
  BY <1>1, Deferred DEF IInv, ContOK, RestOK, QueuesOK
<1>3. \A s \in Sems : Counted(scount[s], squeue[s])
  BY <1>1, AllCounted
<1>4. pc'[currpid] = pc[currpid]
  BY <1>1
<1> HIDE DEF sem
<1>5. Len(squeue[sem]) = -scount[sem] /\ scount[sem] < 0
  BY <1>1, <1>2, <1>3 DEF Counted, AllReleased
<1>6. squeue[sem] # <<>>
  BY <1>2, <1>5
<1>7. /\ SchedOK(prstate', readylist', qkey', currpid', preempt')
      /\ prstate'[currpid'] = "curr" /\ attempt' \in BOOLEAN
      /\ QueuesOK(prstate', prsem', sleepq', squeue')
      /\ squeue' = [squeue EXCEPT ![sem] = Tail(squeue[sem])]
      /\ Len(Tail(squeue[sem])) = Len(squeue[sem]) - 1
      /\ UNCHANGED currpid
  BY <1>1, <1>2, <1>6, ReleaseOK
<1>8. \A s \in Sems : s # sem => scount'[s] = scount[s] /\ squeue'[s] = squeue[s]
  BY <1>1, <1>2, <1>7
<1>9. SemCount'
  <2>1. Len(squeue'[sem]) = Len(squeue[sem]) - 1
    BY <1>2, <1>7
  <2>2. Counted(scount'[sem], squeue'[sem])
    BY <1>1, <1>2, <1>5, <2>1 DEF Counted
  <2>3. \A s \in Sems : Counted(scount'[s], squeue'[s])
    BY <1>3, <1>8, <2>2
  <2> QED BY <2>3, CountedAll
<1>10. FreeSemEmpty'
  BY <1>1, <1>4, <1>7, <1>8 DEF IInv, FreeSemEmpty, sem
<1>11. ContOK'
  BY <1>1, <1>7, LoopOn DEF IInv, ContOK
<1>12. RestOK'
  <2>1. scount' \in [Sems -> Int]
    BY <1>1, <1>2
  <2> QED BY <1>1, <1>7, <2>1 DEF IInv, RestOK, procVars
<1> QED BY <1>7, <1>9, <1>10, <1>11, <1>12 DEF IInv

LEMMA SemdeleteEndStep ==
  ASSUME IInv, SemdeleteEnd PROVE IInv'
<1> DEFINE sem == pc[currpid].arg
<1>1. /\ pc[currpid].op = "semdelete" /\ pc[currpid].op \in Deferring
      /\ AllReleased(sem) /\ DeferStop /\ Continue(User)
      /\ scount' = [scount EXCEPT ![sem] = @ + 1]
      /\ UNCHANGED <<procVars, prsem, prhasmsg, prcount, sleepq, sstate,
                     squeue, nextsem, halted>>
  BY DEF SemdeleteEnd, EndLoop, At, Deferring
<1>2. /\ currpid \in Pid /\ sem \in Sems
      /\ scount \in [Sems -> Int] /\ squeue \in [Sems -> Seq(Pid)]
  BY <1>1, Deferred DEF IInv, ContOK, RestOK, QueuesOK
<1>3. \A s \in Sems : Counted(scount[s], squeue[s])
  BY <1>1, AllCounted
<1>4. /\ SchedOK(prstate', readylist', qkey', currpid', preempt')
      /\ prstate'[currpid'] = "curr" /\ attempt' \in BOOLEAN
      /\ SameButSched(prstate, prstate') /\ ContOK'
  BY <1>1, UserPlain, LoopEnd
<1>5. \A s \in Sems : s # sem /\ sstate[s] = "S_FREE" => squeue[s] = <<>>
  BY DEF IInv, FreeSemEmpty
<1> HIDE DEF sem
<1>6. scount[sem] >= 0 /\ Len(squeue[sem]) = 0
  BY <1>1, <1>2, <1>3 DEF Counted, AllReleased
<1>7. squeue[sem] = <<>>
  BY <1>2, <1>6
<1>8. QueuesOK(prstate', prsem', sleepq', squeue')
  BY <1>1, <1>4, SchedLeavesQueues DEF IInv
<1>9. SemCount'
  <2>1. Counted(scount'[sem], squeue'[sem])
    BY <1>1, <1>2, <1>6 DEF Counted
  <2>2. \A s \in Sems : Counted(scount'[s], squeue'[s])
    BY <1>1, <1>2, <1>3, <2>1
  <2> QED BY <2>2, CountedAll
<1>10. FreeSemEmpty'
  BY <1>1, <1>5, <1>7 DEF FreeSemEmpty
<1>11. RestOK'
  <2>1. scount' \in [Sems -> Int]
    BY <1>1, <1>2
  <2> QED BY <1>1, <1>4, <2>1 DEF IInv, RestOK, procVars
<1> QED BY <1>4, <1>8, <1>9, <1>10, <1>11 DEF IInv

LEMMA SemresetStart ==
  ASSUME IInv, NEW sem \in Sems, NEW n \in Counts, Semreset(sem, n) PROVE IInv'
<1> DEFINE c == [op |-> "semreset", arg |-> sem, n |-> n]
<1>1. /\ pc[currpid].op \notin Deferring /\ currpid \in Pid
      /\ pc[currpid].op \notin {"semreset", "semdelete"}
  BY CallingOK DEF Semreset, Deferring
<1>2. /\ DeferStart /\ Continue(c)
      /\ UNCHANGED <<procVars, prstate, readylist, currpid, preempt, prsem,
                     prhasmsg, prcount, qkey, sleepq, scount, squeue, nextsem,
                     halted, sstate>>
  BY DEF Semreset, StartLoop
<1>3. c \in Cont /\ c.op \in Deferring /\ c.arg \in Sems
  BY ArgumentAssumption DEF Cont, Ops, Deferring, Sems
<1>4. ContOK'
  BY <1>1, <1>2, <1>3, LoopStart
<1>5. /\ SchedOK(prstate', readylist', qkey', currpid', preempt')
      /\ prstate'[currpid'] = "curr"
      /\ QueuesOK(prstate', prsem', sleepq', squeue')
  BY <1>2 DEF IInv
<1>6. SemCount'
  BY <1>1, <1>2, AllCounted, CountedAll
<1>7. FreeSemEmpty'
  BY <1>1, <1>2, EmptyStays DEF IInv
<1>8. RestOK'
  BY <1>2 DEF IInv, RestOK, procVars, DeferStart
<1> QED BY <1>4, <1>5, <1>6, <1>7, <1>8 DEF IInv

(* semreset empties the queue before it touches the count. *)
LEMMA SemresetStepStep ==
  ASSUME IInv, SemresetStep PROVE IInv'
<1> DEFINE sem == pc[currpid].arg
<1>1. /\ pc[currpid].op = "semreset" /\ pc[currpid].op \in Deferring
      /\ squeue[sem] # <<>> /\ Release(sem)
      /\ UNCHANGED <<procVars, prsem, prhasmsg, prcount, sleepq, sstate,
                     scount, nextsem, ndefers, pc, halted>>
  BY DEF SemresetStep, At, Deferring
<1>2. /\ currpid \in Pid /\ sem \in Sems /\ ndefers = 1
      /\ squeue \in [Sems -> Seq(Pid)]
  BY <1>1, Deferred DEF IInv, ContOK, QueuesOK
<1>3. \A s \in Sems : s # sem => Counted(scount[s], squeue[s])
  BY DEF IInv, SemCount, Resetting, Counted
<1>4. pc'[currpid] = pc[currpid]
  BY <1>1
<1> HIDE DEF sem
<1>5. /\ SchedOK(prstate', readylist', qkey', currpid', preempt')
      /\ prstate'[currpid'] = "curr" /\ attempt' \in BOOLEAN
      /\ QueuesOK(prstate', prsem', sleepq', squeue')
      /\ squeue' = [squeue EXCEPT ![sem] = Tail(squeue[sem])]
      /\ UNCHANGED currpid
  BY <1>1, <1>2, ReleaseOK
<1>6. \A s \in Sems : s # sem => squeue'[s] = squeue[s]
  BY <1>2, <1>5
<1>7. SemCount'
  BY <1>1, <1>3, <1>4, <1>5, <1>6 DEF SemCount, Resetting, Counted, sem
<1>8. FreeSemEmpty'
  <2>1. \A s \in Sems : squeue[s] = <<>> => squeue'[s] = <<>>
    BY <1>1, <1>6
  <2> QED BY <1>1, <2>1, EmptyStays DEF IInv
<1>9. ContOK'
  BY <1>1, <1>5, LoopOn DEF IInv, ContOK
<1>10. RestOK'
  BY <1>1, <1>5 DEF IInv, RestOK, procVars
<1> QED BY <1>5, <1>7, <1>8, <1>9, <1>10 DEF IInv

LEMMA SemresetEndStep ==
  ASSUME IInv, SemresetEnd PROVE IInv'
<1> DEFINE sem == pc[currpid].arg
           n   == pc[currpid].n
<1>1. /\ pc[currpid].op = "semreset" /\ pc[currpid].op \in Deferring
      /\ squeue[sem] = <<>> /\ DeferStop /\ Continue(User)
      /\ scount' = [scount EXCEPT ![sem] = n]
      /\ UNCHANGED <<procVars, prsem, prhasmsg, prcount, sleepq, sstate,
                     squeue, nextsem, halted>>
  BY DEF SemresetEnd, EndLoop, At, Deferring
<1>2. /\ currpid \in Pid /\ sem \in Sems /\ n \in Nat
      /\ scount \in [Sems -> Int]
  BY <1>1, Deferred DEF IInv, ContOK, RestOK, Cont
<1>3. \A s \in Sems : s # sem => Counted(scount[s], squeue[s])
  BY DEF IInv, SemCount, Resetting, Counted
<1>4. /\ SchedOK(prstate', readylist', qkey', currpid', preempt')
      /\ prstate'[currpid'] = "curr" /\ attempt' \in BOOLEAN
      /\ SameButSched(prstate, prstate') /\ ContOK'
  BY <1>1, UserPlain, LoopEnd
<1> HIDE DEF sem, n
<1>5. QueuesOK(prstate', prsem', sleepq', squeue')
  BY <1>1, <1>4, SchedLeavesQueues DEF IInv
<1>6. SemCount'
  <2>1. Len(squeue'[sem]) = 0
    BY <1>1
  <2>2. Counted(scount'[sem], squeue'[sem])
    BY <1>1, <1>2, <2>1 DEF Counted
  <2>3. \A s \in Sems : Counted(scount'[s], squeue'[s])
    BY <1>1, <1>2, <1>3, <2>2
  <2> QED BY <2>3, CountedAll
<1>7. FreeSemEmpty'
  BY <1>1, EmptyStays DEF IInv
<1>8. RestOK'
  <2>1. scount' \in [Sems -> Int]
    BY <1>1, <1>2
  <2> QED BY <1>1, <1>4, <2>1 DEF IInv, RestOK, procVars
<1> QED BY <1>4, <1>5, <1>6, <1>7, <1>8 DEF IInv

-----------------------------------------------------------------------------
(* The inductive invariant *)

LEMMA InitInv == Init => IInv
<1> SUFFICES ASSUME Init PROVE IInv
  OBVIOUS
<1>1. 1 \in Pid /\ NULLPROC \in Pid /\ 2 \in Nat /\ NULLPROC # 1
  BY TableAssumption DEF Pid, NULLPROC
<1>2. SchedOK(prstate, readylist, qkey, currpid, preempt)
  <2>1. prstate \in [Pid -> PState] /\ qkey \in [Pid -> Int]
    BY DEF Init, PState
  <2>2. readylist \in Seq(Pid) /\ IsInjective(readylist)
    BY <1>1 DEF Init, IsInjective
  <2>3. ToSet(readylist) = {NULLPROC}
    BY <1>1 DEF Init, ToSet
  <2>4. preempt \in 1..QUANTUM
    BY TableAssumption DEF Init
  <2> QED BY <1>1, <2>1, <2>2, <2>3, <2>4 DEF Init, SchedOK
<1>3. prstate[currpid] = "curr"
  BY <1>1 DEF Init
<1>4. QueuesOK(prstate, prsem, sleepq, squeue)
  <2>1. ToSet(<<>>) = {} /\ IsInjective(<<>>)
    BY DEF ToSet, IsInjective
  <2> QED BY <2>1 DEF Init, QueuesOK
<1>5. ContOK
  BY <1>1, UserPlain DEF Init, ContOK, DeferBracket, User, Deferring
<1>6. SemCount /\ FreeSemEmpty
  BY DEF Init, SemCount, FreeSemEmpty
<1>7. RestOK
  <2>1. nextpid \in Pid
    BY TableAssumption DEF Init, Pid
  <2>2. prprio \in [Pid -> Prio]
    <3>1. INITPRIO \in Prio /\ 0 \in Prio
      BY DEF Prio
    <3> QED BY <3>1 DEF Init
  <2>3. prparent \in [Pid -> Pid] /\ prcount \in Int
    BY <1>1 DEF Init
  <2>4. /\ sstate \in [Sems -> {"S_FREE", "S_USED"}]
        /\ scount \in [Sems -> Int] /\ nextsem \in Sems \cup {0}
    BY DEF Init
  <2>5. prhasmsg \in [Pid -> BOOLEAN]
    BY DEF Init
  <2>6. attempt \in BOOLEAN /\ halted \in BOOLEAN
    BY DEF Init
  <2> QED BY <2>1, <2>2, <2>3, <2>4, <2>5, <2>6 DEF RestOK
<1> QED BY <1>2, <1>3, <1>4, <1>5, <1>6, <1>7 DEF IInv

LEMMA StepInv == IInv /\ [Next]_vars => IInv'
<1> SUFFICES ASSUME IInv, [Next]_vars PROVE IInv'
  OBVIOUS
<1>1. CASE UNCHANGED vars
  <2>1. UNCHANGED <<prstate, prprio, prsem, prparent, prhasmsg, currpid, prcount,
                    nextpid, preempt, qkey, readylist, sleepq, sstate, scount,
                    squeue, nextsem, ndefers, attempt, pc, halted>>
    BY <1>1 DEF vars
  <2> QED BY <2>1 DEF IInv, ContOK, DeferBracket, SemCount, Resetting,
                      FreeSemEmpty, RestOK
<1>2. CASE ProcessCall
  BY <1>2, CreateStep, KillStep, SuspendStep, ResumeStep, SendStep, ChprioStep,
     YieldStep, ReceiveStep, RecvclrStep, RecvtimeStep, SleepmsStep
     DEF ProcessCall
<1>3. CASE SemaphoreCall
  BY <1>3, SemcreateStep, WaitStep, SignalStep, SignalnStart, SemdeleteStart,
     SemresetStart DEF SemaphoreCall
<1>4. CASE KernelStep
  BY <1>4, KillEndStep, ReceiveEndStep, WakeupStep, WakeupEndStep, ClockEndStep,
     SignalnStepStep, SignalnEndStep, SemdeleteStepStep, SemdeleteEndStep,
     SemresetStepStep, SemresetEndStep DEF KernelStep
<1>5. CASE Clock
  BY <1>5, ClockStep
<1>6. CASE Halted
  BY <1>1, <1>6 DEF Halted
<1> QED BY <1>1, <1>2, <1>3, <1>4, <1>5, <1>6 DEF Next

THEOREM Inductive == Spec => []IInv
<1>1. Init => IInv
  BY InitInv
<1>2. IInv /\ [Next]_vars => IInv'
  BY StepInv
<1> QED BY <1>1, <1>2, PTL DEF Spec

-----------------------------------------------------------------------------
(* The theorems *)

(* Type correctness: each variable of the process manager keeps the type   *)
(* of the C field or global it stands for; in particular resched, signal   *)
(* and wakeup never dequeue from an empty queue.                           *)
THEOREM TypeCorrect == Spec => []TypeOK
<1>1. IInv => TypeOK
  BY DEF IInv, SchedOK, QueuesOK, ContOK, DeferBracket, RestOK, TypeOK
<1> QED BY <1>1, Inductive, PTL

(* queuetab is never corrupted: every process stands in exactly the queue  *)
(* that its prstate (and prsem) names.                                     *)
THEOREM QueuePlacement == Spec => []PlacedOnce
<1>1. IInv => PlacedOnce
  BY DEF IInv, SchedOK, QueuesOK, PlacedOnce
<1> QED BY <1>1, Inductive, PTL

(* There is always a process to dispatch: the null process never leaves    *)
(* the current or ready state.                                             *)
THEOREM NullAlwaysEligible == Spec => []NullEligible
<1>1. IInv => NullEligible
  BY DEF IInv, SchedOK, NullEligible
<1> QED BY <1>1, Inductive, PTL

(* Semaphore counts and semaphore queues agree, whatever processes wait,   *)
(* signal, reset, delete, are killed or preempted.                         *)
THEOREM SemaphoreCounts == Spec => []SemCount
<1>1. IInv => SemCount
  BY DEF IInv
<1> QED BY <1>1, Inductive, PTL

(* semdelete strands no waiter. *)
THEOREM DeletedSemaphoresEmpty == Spec => []FreeSemEmpty
<1>1. IInv => FreeSemEmpty
  BY DEF IInv
<1> QED BY <1>1, Inductive, PTL

(* Deferral of rescheduling is bracketed: the processor does not change    *)
(* hands while a loop over a queue runs.                                   *)
THEOREM DeferralBracketed == Spec => []DeferBracket
<1>1. IInv => DeferBracket
  BY DEF IInv, ContOK
<1> QED BY <1>1, Inductive, PTL
-----------------------------------------------------------------------------
(* The invariants about messages (MessageWaiting) and about the count of   *)
(* processes (ShutdownNotMissed), and what a context switch promises       *)
(* (DispatchFirst), on top of IInv.                                        *)
(*                                                                         *)
(* Most steps are quiet: they wake, block and switch processes without     *)
(* creating or removing one and without touching a message.  A call of     *)
(* kill counts its victim off before it sends to the parent, which may     *)
(* cost it the processor, and removes it after: the count is behind the    *)
(* table by the kills under way, of which several can have one victim.     *)
(*                                                                         *)
(* DispatchFirst rests on the ready list staying in the order of the keys, *)
(* which insert finds and every removal keeps, and on nobody changing the  *)
(* key of a process while it stands there.                                 *)

Killers == {p \in Pid : pc[p].op = "kill"}

CountOK ==
  /\ prcount + Cardinality(Killers) <= Cardinality(Live)
  /\ halted <=> prcount <= 1

LifeInv == MessageWaiting /\ CountOK

(* No process comes, goes, or begins or ends to wait for a message.        *)
Stays(st, new) ==
  \A p \in Pid :
    /\ new[p] = "free" <=> st[p] = "free"
    /\ new[p] \in {"recv", "rectim"} => new[p] = st[p]
    /\ st[p] = "recv" => new[p] = "recv"

(* Continuations change, but none to receive or kill or from them.         *)
Silent ==
  \A p \in Pid : pc'[p] = pc[p] \/ ({pc[p].op, pc'[p].op} \cap {"receive", "kill"} = {})

Quiet == Stays(prstate, prstate') /\ Silent /\ UNCHANGED <<prhasmsg, prcount, halted>>

-----------------------------------------------------------------------------
(* Counting *)

LEMMA PidsFinite ==
  ASSUME NEW S \in SUBSET Pid
  PROVE  IsFiniteSet(S) /\ Cardinality(S) \in Nat
<1>1. IsFiniteSet(Pid)
  BY TableAssumption, FS_Interval DEF Pid
<1>2. QED
  BY <1>1, FS_Subset, FS_CardinalityType

(* What a step does to the sets of live processes and of killers.          *)
LEMMA CountMoves ==
  ASSUME CountOK, prcount \in Int, prcount' \in Int,
         \/ Live' = Live /\ Killers' \subseteq Killers /\ prcount' <= prcount
         \/ \E p \in Killers : /\ Killers' \subseteq Killers \ {p} /\ prcount' <= prcount
                               /\ \E v \in Pid : Live' = Live \ {v}
         \/ \E p \in Pid : /\ Live' = Live /\ Killers' = Killers \cup {p}
                           /\ prcount' <= prcount - 1
         \/ \E p \in Pid \ Live : /\ Live' = Live \cup {p} /\ Killers' \subseteq Killers
                                  /\ prcount' <= prcount + 1
  PROVE  prcount' + Cardinality(Killers') <= Cardinality(Live')
<1>1. /\ Killers \in SUBSET Pid /\ Live \in SUBSET Pid
      /\ Killers' \in SUBSET Pid /\ Live' \in SUBSET Pid
  BY DEF Killers, Live
<1>2. /\ IsFiniteSet(Killers) /\ IsFiniteSet(Live)
      /\ Cardinality(Killers) \in Nat /\ Cardinality(Live) \in Nat
      /\ Cardinality(Killers') \in Nat /\ Cardinality(Live') \in Nat
  BY <1>1, PidsFinite
<1>3. prcount + Cardinality(Killers) <= Cardinality(Live)
  BY DEF CountOK
<1>4. CASE Live' = Live /\ Killers' \subseteq Killers /\ prcount' <= prcount
  <2>1. Cardinality(Killers') <= Cardinality(Killers)
    BY <1>2, <1>4, FS_Subset
  <2>2. QED
    BY <1>2, <1>3, <1>4, <2>1
<1>5. ASSUME NEW p \in Killers, NEW v \in Pid, Killers' \subseteq Killers \ {p},
             prcount' <= prcount, Live' = Live \ {v}
      PROVE  prcount' + Cardinality(Killers') <= Cardinality(Live')
  <2>1. IsFiniteSet(Killers \ {p}) /\ Cardinality(Killers \ {p}) = Cardinality(Killers) - 1
    BY <1>2, FS_RemoveElement
  <2>2. Cardinality(Killers') <= Cardinality(Killers \ {p})
    BY <1>5, <2>1, FS_Subset
  <2>3. Cardinality(Live \ {v}) = IF v \in Live THEN Cardinality(Live) - 1 ELSE Cardinality(Live)
    BY <1>2, FS_RemoveElement
  <2>4. Cardinality(Live') >= Cardinality(Live) - 1
    BY <1>2, <1>5, <2>3
  <2>5. QED
    BY <1>2, <1>3, <1>5, <2>1, <2>2, <2>4
<1>6. ASSUME NEW p \in Pid, Live' = Live, Killers' = Killers \cup {p}, prcount' <= prcount - 1
      PROVE  prcount' + Cardinality(Killers') <= Cardinality(Live')
  <2>1. Cardinality(Killers \cup {p}) =
          IF p \in Killers THEN Cardinality(Killers) ELSE Cardinality(Killers) + 1
    BY <1>2, FS_AddElement
  <2>2. Cardinality(Killers') <= Cardinality(Killers) + 1
    BY <1>2, <1>6, <2>1
  <2>3. QED
    BY <1>2, <1>3, <1>6, <2>2
<1>7. ASSUME NEW p \in Pid \ Live, Live' = Live \cup {p}, Killers' \subseteq Killers,
             prcount' <= prcount + 1
      PROVE  prcount' + Cardinality(Killers') <= Cardinality(Live')
  <2>1. Cardinality(Live') = Cardinality(Live) + 1
    BY <1>2, <1>7, FS_AddElement
  <2>2. Cardinality(Killers') <= Cardinality(Killers)
    BY <1>2, <1>7, FS_Subset
  <2>3. QED
    BY <1>2, <1>3, <1>7, <2>1, <2>2
<1>8. QED
  BY <1>4, <1>5, <1>6, <1>7

-----------------------------------------------------------------------------
(* Quiet steps *)

LEMMA QuietOK ==
  ASSUME IInv, LifeInv, Quiet
  PROVE  LifeInv'
<1>1. Live' = Live /\ Killers' = Killers
  BY DEF Quiet, Stays, Silent, Live, Killers
<1>2. prcount \in Int /\ prcount' = prcount /\ halted' = halted
  BY DEF IInv, RestOK, Quiet
<1>3. CountOK'
  <2>1. prcount' + Cardinality(Killers') <= Cardinality(Live')
    BY <1>1, <1>2 DEF LifeInv, CountOK
  <2>2. QED
    BY <1>2, <2>1 DEF LifeInv, CountOK
<1>4. MessageWaiting'
  BY DEF LifeInv, MessageWaiting, Quiet, Stays, Silent
<1>5. QED
  BY <1>3, <1>4 DEF LifeInv

LEMMA StaysOK ==
  ASSUME NEW st \in [Pid -> PState], NEW new, SameButSched(st, new)
  PROVE  Stays(st, new)
BY DEF SameButSched, Stays

(* Some process moves, to no state and from none that Stays is about.      *)
LEMMA MoveStays ==
  ASSUME NEW st \in [Pid -> PState], NEW p \in Pid, NEW x, NEW new,
         st[p] \notin {"free", "recv"}, x \notin {"free", "recv", "rectim"},
         SameButSched([st EXCEPT ![p] = x], new)
  PROVE  Stays(st, new)
BY DEF SameButSched, Stays

(* The current process blocks: the head of the ready list takes over.      *)
LEMMA BlockMoves ==
  ASSUME IInv, ndefers = 0, currpid # NULLPROC, NEW s \in PState \ {"curr", "ready"},
         NEW qk, Resched([prstate EXCEPT ![currpid] = s], readylist, qk)
  PROVE  SameButSched([prstate EXCEPT ![currpid] = s], prstate')
<1>1. SchedOK(prstate, readylist, qkey, currpid, preempt) /\ prstate[currpid] = "curr"
  BY DEF IInv
<1>2. /\ readylist \in Seq(Pid) /\ currpid \in Pid /\ prstate \in [Pid -> PState]
      /\ \A p \in Pid : prstate[p] = "ready" <=> p \in ToSet(readylist)
      /\ prstate[NULLPROC] \in {"curr", "ready"}
      /\ \A p \in Pid : prstate[p] = "curr" => p = currpid
  BY <1>1 DEF SchedOK
<1>3. NULLPROC \in Pid
  BY TableAssumption DEF Pid, NULLPROC
<1>4. readylist # <<>>
  BY <1>2, <1>3 DEF ToSet
<1>5. PICK h : h = Head(readylist)
  OBVIOUS
<1>6. h \in Pid /\ prstate[h] = "ready"
  <2>1. h \in ToSet(readylist) /\ h \in Pid
    BY <1>2, <1>4, <1>5 DEF ToSet
  <2>2. QED
    BY <1>2, <2>1
<1>7. PICK st : st = [prstate EXCEPT ![currpid] = s]
  OBVIOUS
<1>8. st \in [Pid -> PState] /\ st[currpid] # "curr" /\ st[h] = "ready"
  BY <1>1, <1>2, <1>6, <1>7
<1>9. prstate' = [st EXCEPT ![h] = "curr"]
  BY <1>5, <1>7, <1>8 DEF Resched, Dispatch, SwitchTo
<1>10. SameButSched(st, prstate')
  BY <1>6, <1>8, <1>9 DEF SameButSched
<1>11. QED
  BY <1>7, <1>10

(* A blocking call of the current process that awaits no message.          *)
LEMMA BlockStays ==
  ASSUME IInv, Calling, NEW s \in {"susp", "sleep", "wait"}, NEW qk, Block(s, qk)
  PROVE  Stays(prstate, prstate')
<1>1. /\ currpid \in Pid /\ currpid # NULLPROC /\ prstate \in [Pid -> PState]
      /\ prstate[currpid] = "curr" /\ ndefers = 0
  BY CallingOK
<1>2. SameButSched([prstate EXCEPT ![currpid] = s], prstate')
  BY <1>1, BlockMoves DEF Block, PState
<1>3. QED
  BY <1>1, <1>2, MoveStays

LEMMA ReadyStays ==
  ASSUME IInv, NEW p \in Pid, prstate[p] \notin {"curr", "ready", "free", "recv"}, Ready(p, qkey)
  PROVE  Stays(prstate, prstate')
<1>1. /\ SchedOK(prstate, readylist, qkey, currpid, preempt) /\ prstate[currpid] = "curr"
      /\ RestOK /\ prstate \in [Pid -> PState]
  BY DEF IInv, SchedOK
<1>2. SameButSched([prstate EXCEPT ![p] = "ready"], prstate')
  BY <1>1, ReadyOK
<1>3. QED
  BY <1>1, <1>2, MoveStays

LEMMA ReleaseStays ==
  ASSUME IInv, NEW sem \in Sems, squeue[sem] # <<>>, Release(sem)
  PROVE  Stays(prstate, prstate')
<1>1. PICK p : p = Head(squeue[sem])
  OBVIOUS
<1>2. p \in ToSet(squeue[sem]) /\ squeue[sem] \in Seq(Pid)
  <2>1. squeue[sem] \in Seq(Pid) /\ IsInjective(squeue[sem])
    BY DEF IInv, QueuesOK
  <2>2. QED
    BY <1>1, <2>1, TailSet
<1>3. p \in Pid /\ prstate[p] = "wait"
  <2>1. p \in Pid
    BY <1>2 DEF ToSet
  <2>2. QED
    BY <1>2, <2>1 DEF IInv, QueuesOK
<1>4. Ready(p, qkey)
  BY <1>1 DEF Release
<1>5. QED
  BY <1>3, <1>4, ReadyStays

LEMMA UnchangedStays ==
  ASSUME UNCHANGED prstate
  PROVE  Stays(prstate, prstate')
BY DEF Stays

LEMMA SignalStays ==
  ASSUME IInv, NEW sem \in Sems, ~Resetting(sem), SignalOne(sem)
  PROVE  Stays(prstate, prstate')
<1>1. CASE scount[sem] < 0 /\ Release(sem)
  <2>1. Len(squeue[sem]) = -scount[sem] /\ scount[sem] \in Int
    BY <1>1 DEF IInv, SemCount, RestOK
  <2>2. squeue[sem] # <<>>
    BY <1>1, <2>1
  <2>3. QED
    BY <1>1, <2>2, ReleaseStays
<1>2. CASE UNCHANGED schedVars
  BY <1>2, UnchangedStays DEF schedVars
<1>3. QED
  BY <1>1, <1>2 DEF SignalOne

LEMMA DispatchStays ==
  ASSUME IInv, NEW sl \in 1..QUANTUM, Dispatch(prstate, readylist, qkey, sl)
  PROVE  Stays(prstate, prstate')
<1>1. /\ SchedOK(prstate, readylist, qkey, currpid, preempt) /\ prprio \in [Pid -> Prio]
      /\ prstate \in [Pid -> PState]
  BY DEF IInv, RestOK, SchedOK
<1>2. SameButSched(prstate, prstate')
  BY <1>1, DispatchOK
<1>3. QED
  BY <1>1, <1>2, StaysOK

LEMMA DeferStopStays ==
  ASSUME IInv, DeferStop
  PROVE  Stays(prstate, prstate')
<1>1. preempt \in 1..QUANTUM
  BY DEF IInv, SchedOK
<1>2. QED
  BY <1>1, DispatchStays, UnchangedStays DEF DeferStop

(* The current process goes on elsewhere in the kernel, or leaves it.      *)
LEMMA SilentOK ==
  ASSUME IInv, pc[currpid].op \notin {"receive", "kill"},
         UNCHANGED pc \/ \E c : c.op \notin {"receive", "kill"} /\ Continue(c)
  PROVE  Silent
BY DEF Silent, Continue, IInv, ContOK

-----------------------------------------------------------------------------
(* The quiet actions *)

LEMMA UserSilent ==
  /\ User.op \notin {"receive", "kill"}
  /\ \A o, a, n : o \notin {"receive", "kill"} => [op |-> o, arg |-> a, n |-> n].op \notin {"receive", "kill"}
BY DEF User

LEMMA SchedulingQuiet ==
  ASSUME IInv,
         \/ \E pid \in Pid : Suspend(pid) \/ Resume(pid)
         \/ \E pid \in Pid, newprio \in NewPrios : Chprio(pid, newprio)
         \/ Yield \/ \E d \in Delays : Sleepms(d)
  PROVE  Quiet
<1>1. Calling /\ UNCHANGED <<prhasmsg, prcount, halted, pc>>
  BY DEF Suspend, Resume, Chprio, Yield, Sleepms
<1>2. Silent
  BY <1>1 DEF Silent
<1>3. /\ prstate \in [Pid -> PState] /\ currpid \in Pid /\ prstate[currpid] = "curr"
      /\ ndefers = 0 /\ \A p \in Pid : prstate[p] = "curr" => p = currpid
  BY <1>1, CallingOK
<1>4. ASSUME NEW pid \in Pid, Suspend(pid) PROVE Stays(prstate, prstate')
  <2>1. CASE prstate[pid] = "ready" /\ prstate' = [prstate EXCEPT ![pid] = "susp"]
    BY <1>3, <2>1 DEF Stays
  <2>2. CASE Block("susp", qkey)
    BY <1>1, <2>2, BlockStays
  <2>3. QED
    BY <1>4, <2>1, <2>2 DEF Suspend
<1>5. ASSUME NEW pid \in Pid, Resume(pid) PROVE Stays(prstate, prstate')
  BY <1>5, ReadyStays DEF Resume
<1>6. ASSUME NEW pid \in Pid, NEW newprio \in NewPrios, Chprio(pid, newprio)
      PROVE  Stays(prstate, prstate')
  BY <1>6, UnchangedStays DEF Chprio, schedVars
<1>7. ASSUME Yield PROVE Stays(prstate, prstate')
  <2>1. preempt \in 1..QUANTUM
    BY DEF IInv, SchedOK
  <2>2. QED
    BY <1>3, <1>7, <2>1, DispatchStays, UnchangedStays DEF Yield, Resched
<1>8. ASSUME NEW d \in Delays, Sleepms(d) PROVE Stays(prstate, prstate')
  BY <1>1, <1>8, BlockStays DEF Sleepms
<1>9. QED
  BY <1>1, <1>2, <1>4, <1>5, <1>6, <1>7, <1>8 DEF Quiet

LEMMA ClockQuiet ==
  ASSUME IInv, Clock \/ Wakeup \/ WakeupEnd \/ ClockEnd
  PROVE  Quiet
<1>1. /\ UNCHANGED <<prhasmsg, prcount, halted>>
      /\ pc[currpid].op \in {"user", "wakeup", "clock"}
      /\ UNCHANGED pc \/ \E c : c.op \notin {"receive", "kill"} /\ Continue(c)
  <2>1. CASE Clock
    BY <2>1, UserSilent DEF Clock, Running, At
  <2>2. CASE Wakeup
    BY <2>2 DEF Wakeup, At
  <2>3. CASE WakeupEnd
    BY <2>3, UserSilent DEF WakeupEnd, At
  <2>4. CASE ClockEnd
    BY <2>4, UserSilent DEF ClockEnd, At
  <2>5. QED
    BY <2>1, <2>2, <2>3, <2>4
<1>2. Silent
  BY <1>1, SilentOK
<1>3. ASSUME Clock PROVE Stays(prstate, prstate')
  BY <1>3, UnchangedStays DEF Clock
<1>4. ASSUME Wakeup PROVE Stays(prstate, prstate')
  <2>1. PICK p : p = Head(sleepq)
    OBVIOUS
  <2>2. p \in ToSet(sleepq) /\ sleepq \in Seq(Pid)
    <3>1. sleepq # <<>> /\ sleepq \in Seq(Pid) /\ IsInjective(sleepq)
      BY <1>4 DEF Wakeup, Expired, IInv, QueuesOK
    <3>2. QED
      BY <2>1, <3>1, TailSet
  <2>3. p \in Pid /\ prstate[p] \in {"sleep", "rectim"}
    <3>1. p \in Pid
      BY <2>2 DEF ToSet
    <3>2. QED
      BY <2>2, <3>1 DEF IInv, QueuesOK
  <2>4. QED
    BY <1>4, <2>1, <2>3, ReadyStays DEF Wakeup
<1>5. ASSUME WakeupEnd PROVE Stays(prstate, prstate')
  BY <1>5, DeferStopStays DEF WakeupEnd
<1>6. ASSUME ClockEnd PROVE Stays(prstate, prstate')
  <2>1. QUANTUM \in 1..QUANTUM
    BY TableAssumption
  <2>2. QED
    BY <1>6, <2>1, DispatchStays, UnchangedStays DEF ClockEnd
<1>7. QED
  BY <1>1, <1>2, <1>3, <1>4, <1>5, <1>6 DEF Quiet

LEMMA SemaphoreQuiet ==
  ASSUME IInv, SemaphoreCall
  PROVE  Quiet
<1>. DEFINE Going == /\ UNCHANGED <<prhasmsg, prcount, halted>>
                     /\ pc[currpid].op = "user"
                     /\ UNCHANGED pc \/ \E c : c.op \notin {"receive", "kill"} /\ Continue(c)
<1>1. Going
  <2>1. ASSUME NEW n \in Counts, Semcreate(n) PROVE Going
    BY <2>1 DEF Semcreate, Calling, Running, At
  <2>2. ASSUME NEW s \in Sems, Wait(s) \/ Signal(s) PROVE Going
    BY <2>2 DEF Wait, Signal, Calling, Running, At
  <2>3. ASSUME NEW s \in Sems, Semdelete(s) PROVE Going
    BY <2>3, UserSilent DEF Semdelete, StartLoop, Calling, Running, At
  <2>4. ASSUME NEW s \in Sems, NEW n \in Counts, Signaln(s, n) PROVE Going
    BY <2>4, UserSilent DEF Signaln, StartLoop, Calling, Running, At
  <2>5. ASSUME NEW s \in Sems, NEW n \in Counts, Semreset(s, n) PROVE Going
    BY <2>5, UserSilent DEF Semreset, StartLoop, Calling, Running, At
  <2>6. QED
    BY <2>1, <2>2, <2>3, <2>4, <2>5 DEF SemaphoreCall
<1>2. Silent
  BY <1>1, SilentOK
<1>3. ASSUME NEW n \in Counts, Semcreate(n) PROVE Stays(prstate, prstate')
  BY <1>3, UnchangedStays DEF Semcreate, schedVars
<1>4. ASSUME NEW s \in Sems, Wait(s) PROVE Stays(prstate, prstate')
  BY <1>4, BlockStays, UnchangedStays DEF Wait, schedVars
<1>5. ASSUME NEW s \in Sems, Signal(s) PROVE Stays(prstate, prstate')
  BY <1>1, <1>5, SignalStays DEF Signal, Resetting
<1>6. ASSUME NEW s \in Sems, NEW n \in Counts, Signaln(s, n) \/ Semreset(s, n) \/ Semdelete(s)
      PROVE  Stays(prstate, prstate')
  BY <1>6, UnchangedStays DEF Signaln, Semreset, Semdelete, StartLoop
<1>7. ASSUME NEW s \in Sems, Semdelete(s) PROVE Stays(prstate, prstate')
  BY <1>7, UnchangedStays DEF Semdelete, StartLoop
<1>8. Stays(prstate, prstate')
  BY <1>3, <1>4, <1>5, <1>6, <1>7 DEF SemaphoreCall
<1>9. QED
  BY <1>1, <1>2, <1>8 DEF Quiet

LEMMA LoopQuiet ==
  ASSUME IInv, \/ SignalnStep \/ SignalnEnd \/ SemdeleteStep \/ SemdeleteEnd
               \/ SemresetStep \/ SemresetEnd
  PROVE  Quiet
<1>1. PICK s : s = pc[currpid].arg
  OBVIOUS
<1>2. pc[currpid].op \in {"signaln", "semdelete", "semreset"} /\ currpid \in Pid /\ s \in Sems
  BY <1>1 DEF SignalnStep, SignalnEnd, SemdeleteStep, SemdeleteEnd, SemresetStep, SemresetEnd,
              At, IInv, SchedOK, ContOK
<1>3. CASE SignalnEnd \/ SemdeleteEnd \/ SemresetEnd
  <2>1. EndLoop
    BY <1>3 DEF SignalnEnd, SemdeleteEnd, SemresetEnd
  <2>2. Silent
    BY <1>2, <2>1, UserSilent, SilentOK DEF EndLoop
  <2>3. QED
    BY <2>1, <2>2, DeferStopStays DEF EndLoop, Quiet
<1>4. CASE SignalnStep
  <2>1. /\ SignalOne(s) /\ pc[currpid].op = "signaln"
        /\ Continue([pc[currpid] EXCEPT !.n = @ - 1]) /\ UNCHANGED <<prhasmsg, prcount, halted>>
    BY <1>1, <1>4 DEF SignalnStep, At
  <2>2. [pc[currpid] EXCEPT !.n = @ - 1].op = "signaln"
    BY <1>2, <2>1 DEF IInv, ContOK, Cont
  <2>3. Silent
    BY <1>2, <2>1, <2>2, SilentOK
  <2>4. Stays(prstate, prstate')
    BY <1>2, <2>1, SignalStays DEF Resetting
  <2>5. QED
    BY <2>1, <2>3, <2>4 DEF Quiet
<1>5. CASE SemdeleteStep \/ SemresetStep
  <2>1. Release(s) /\ UNCHANGED <<pc, prhasmsg, prcount, halted>>
    BY <1>1, <1>5 DEF SemdeleteStep, SemresetStep
  <2>2. squeue[s] # <<>>
    <3>1. CASE SemresetStep
      BY <1>1, <3>1 DEF SemresetStep
    <3>2. CASE SemdeleteStep
      <4>1. scount[s] < 0 /\ ~Resetting(s)
        BY <1>1, <1>2, <3>2 DEF SemdeleteStep, AllReleased, At, Resetting, IInv, RestOK
      <4>2. Len(squeue[s]) = -scount[s] /\ scount[s] \in Int
        BY <1>2, <4>1 DEF IInv, SemCount, RestOK
      <4>3. QED
        BY <4>1, <4>2
    <3>3. QED
      BY <1>5, <3>1, <3>2
  <2>3. Silent
    BY <2>1 DEF Silent
  <2>4. QED
    BY <1>2, <2>1, <2>2, <2>3, ReleaseStays DEF Quiet
<1>6. QED
  BY <1>3, <1>4, <1>5

-----------------------------------------------------------------------------
(* The steps that create or remove a process or touch a message *)

(* send, as it is and as kill uses it: a message is left to a process that *)
(* is, or whose wait for a message this ends.                              *)
LEMMA DeliverMoves ==
  ASSUME IInv, Calling, NEW pid \in Pid, Deliver(pid)
  PROVE  \A p \in Pid :
           /\ prstate'[p] = "free" <=> prstate[p] = "free"
           /\ prstate'[p] \in {"recv", "rectim"} =>
                prstate'[p] = prstate[p] /\ (prhasmsg'[p] <=> prhasmsg[p])
           /\ prstate[p] = "recv" /\ prstate'[p] # "recv" => prhasmsg'[p]
           /\ prhasmsg[p] => prhasmsg'[p]
<1>1. /\ SchedOK(prstate, readylist, qkey, currpid, preempt) /\ prstate[currpid] = "curr"
      /\ RestOK /\ prstate \in [Pid -> PState] /\ qkey \in [Pid -> Int]
      /\ prhasmsg \in [Pid -> BOOLEAN]
  BY DEF IInv, SchedOK, RestOK
<1>2. CASE UNCHANGED <<prhasmsg, schedVars>>
  BY <1>2 DEF schedVars
<1>3. CASE prhasmsg' = [prhasmsg EXCEPT ![pid] = TRUE]
  <2>1. \A p \in Pid : prhasmsg'[p] = IF p = pid THEN TRUE ELSE prhasmsg[p]
    BY <1>1, <1>3
  <2>2. ASSUME prstate[pid] \in {"recv", "rectim"},
               SameButSched([prstate EXCEPT ![pid] = "ready"], prstate')
        PROVE  \A p \in Pid :
                 /\ prstate'[p] = "free" <=> prstate[p] = "free"
                 /\ prstate'[pid] \in {"curr", "ready"}
                 /\ p # pid => (prstate'[p] = prstate[p] \/ {prstate[p], prstate'[p]} \subseteq {"curr", "ready"})
    BY <1>1, <2>2 DEF SameButSched, Stays
  <2>3. CASE prstate[pid] = "recv" /\ Ready(pid, qkey)
    <3>1. SameButSched([prstate EXCEPT ![pid] = "ready"], prstate')
      BY <1>1, <2>3, ReadyOK
    <3>2. QED
      BY <2>1, <2>2, <2>3, <3>1
  <2>4. CASE prstate[pid] = "rectim" /\ Ready(pid, UnsleepKeys(sleepq, pid, qkey))
    <3>1. PICK qk : qk = UnsleepKeys(sleepq, pid, qkey)
      OBVIOUS
    <3>2. SchedOK(prstate, readylist, qk, currpid, preempt)
      BY <1>1, <3>1, UnsleepKeysType DEF SchedOK
    <3>3. SameButSched([prstate EXCEPT ![pid] = "ready"], prstate')
      BY <1>1, <2>4, <3>1, <3>2, ReadyOK
    <3>4. QED
      BY <2>1, <2>2, <2>4, <3>3
  <2>5. CASE prstate[pid] \notin {"recv", "rectim"} /\ UNCHANGED schedVars
    BY <2>1, <2>5 DEF schedVars
  <2>6. QED
    BY <1>3, <1>2, <2>3, <2>4, <2>5 DEF Deliver
<1>4. QED
  BY <1>2, <1>3 DEF Deliver

LEMMA CreateLife ==
  ASSUME IInv, LifeInv, NEW prio \in Prios, Create(prio)
  PROVE  LifeInv'
<1>1. PICK pid : pid = NewPid
  OBVIOUS
<1>2. pid \in Pid /\ prstate[pid] = "free"
  <2>. DEFINE free == {p \in Pid : prstate[p] = "free"}
  <2>1. free # {} /\ free \subseteq 0..(NPROC - 1)
    BY DEF Create, Pid
  <2>2. nextpid \in 0..NPROC /\ NPROC \in Nat
    BY TableAssumption DEF IInv, RestOK, Pid
  <2>3. NextFree(nextpid, NPROC, free) \in free
    BY <2>1, <2>2, NextFreeOK
  <2>4. QED
    BY <1>1, <2>3 DEF NewPid
<1>3. /\ prstate' = [prstate EXCEPT ![pid] = "susp"] /\ prhasmsg' = [prhasmsg EXCEPT ![pid] = FALSE]
      /\ pc' = [pc EXCEPT ![pid] = User] /\ prcount' = prcount + 1 /\ UNCHANGED halted
      /\ prstate \in [Pid -> PState] /\ prhasmsg \in [Pid -> BOOLEAN] /\ pc \in [Pid -> Cont]
      /\ prcount \in Int /\ ~halted /\ User.op = "user"
  BY <1>1 DEF Create, Calling, Running, At, IInv, SchedOK, RestOK, ContOK, User
<1>4. \A p \in Pid : /\ prstate'[p] = IF p = pid THEN "susp" ELSE prstate[p]
                     /\ prhasmsg'[p] = IF p = pid THEN FALSE ELSE prhasmsg[p]
                     /\ pc'[p] = IF p = pid THEN User ELSE pc[p]
  BY <1>2, <1>3
<1>5. MessageWaiting'
  BY <1>3, <1>4 DEF LifeInv, MessageWaiting
<1>6. /\ pid \in Pid \ Live /\ Live' = Live \cup {pid} /\ Killers' \subseteq Killers
  BY <1>2, <1>3, <1>4 DEF Live, Killers
<1>7. prcount' + Cardinality(Killers') <= Cardinality(Live')
  BY <1>2, <1>3, <1>6, CountMoves DEF LifeInv
<1>8. halted' <=> prcount' <= 1
  BY <1>3 DEF LifeInv, CountOK
<1>9. QED
  BY <1>5, <1>7, <1>8 DEF LifeInv, CountOK

LEMMA KillLife ==
  ASSUME IInv, LifeInv, NEW pid \in Pid, Kill(pid)
  PROVE  LifeInv'
<1>1. /\ currpid \in Pid /\ prcount' = prcount - 1 /\ prcount \in Int /\ ~halted /\ Calling
      /\ pc[currpid].op = "user" /\ pc \in [Pid -> Cont]
      /\ prparent[pid] \in Pid
  BY DEF Kill, Calling, Running, At, IInv, SchedOK, RestOK, ContOK
<1>2. CASE /\ LastLeft(prcount - 1) /\ halted' = TRUE
           /\ UNCHANGED <<prhasmsg, schedVars, pc>>
  <2>1. Live' = Live /\ Killers' = Killers /\ MessageWaiting'
    BY <1>2 DEF Live, Killers, LifeInv, MessageWaiting, schedVars
  <2>2. prcount' + Cardinality(Killers') <= Cardinality(Live')
    BY <1>1, <2>1, CountMoves DEF LifeInv
  <2>3. QED
    BY <1>1, <1>2, <2>1, <2>2 DEF LifeInv, CountOK, LastLeft
<1>3. CASE /\ ~LastLeft(prcount - 1) /\ Deliver(prparent[pid])
           /\ Continue([op |-> "kill", arg |-> pid, n |-> 0])
           /\ UNCHANGED halted
  <2>1. \A p \in Pid :
          /\ prstate'[p] = "free" <=> prstate[p] = "free"
          /\ prstate'[p] \in {"recv", "rectim"} =>
               prstate'[p] = prstate[p] /\ (prhasmsg'[p] <=> prhasmsg[p])
          /\ prstate[p] = "recv" /\ prstate'[p] # "recv" => prhasmsg'[p]
          /\ prhasmsg[p] => prhasmsg'[p]
    BY <1>1, <1>3, DeliverMoves
  <2>2. PICK c : c = [op |-> "kill", arg |-> pid, n |-> 0]
    OBVIOUS
  <2>3. c.op = "kill" /\ \A p \in Pid : pc'[p] = IF p = currpid THEN c ELSE pc[p]
    BY <1>1, <1>3, <2>2 DEF Continue
  <2>4. MessageWaiting'
    BY <2>1, <2>3 DEF LifeInv, MessageWaiting
  <2>5. Live' = Live /\ Killers' = Killers \cup {currpid}
    BY <1>1, <2>1, <2>3 DEF Live, Killers
  <2>6. prcount' + Cardinality(Killers') <= Cardinality(Live')
    BY <1>1, <2>5, CountMoves DEF LifeInv
  <2>7. QED
    BY <1>1, <1>3, <2>4, <2>6 DEF LifeInv, CountOK, LastLeft
<1>4. QED
  BY <1>2, <1>3 DEF Kill

LEMMA KillEndLife ==
  ASSUME IInv, LifeInv, KillEnd
  PROVE  LifeInv'
<1>1. PICK pid : pid = pc[currpid].arg
  OBVIOUS
<1>2. /\ currpid \in Pid /\ prstate \in [Pid -> PState] /\ prstate[currpid] = "curr"
      /\ \A p \in Pid : prstate[p] = "curr" => p = currpid
      /\ pc[currpid].op = "kill" /\ pc \in [Pid -> Cont] /\ prcount \in Int
  BY DEF KillEnd, At, IInv, SchedOK, ContOK, RestOK
<1>3. pid \in Pid /\ pid # NULLPROC /\ ndefers = 0
  <2>1. pc[currpid].op \notin Deferring
    BY <1>2 DEF Deferring
  <2>2. QED
    BY <1>1, <1>2, <2>1, Undeferred DEF IInv, ContOK
<1>4. /\ pc' = [pc EXCEPT ![currpid] = User, ![pid] = User] /\ User.op = "user"
      /\ UNCHANGED <<prhasmsg, prcount, halted>>
  BY <1>1 DEF KillEnd, User
<1>5. SameButSched([prstate EXCEPT ![pid] = "free"], prstate')
  <2>1. CASE prstate[pid] = "curr" /\ Resched([prstate EXCEPT ![pid] = "free"], readylist, qkey)
    <3>1. pid = currpid
      BY <1>2, <1>3, <2>1
    <3>2. QED
      BY <1>3, <2>1, <3>1, BlockMoves DEF PState
  <2>2. CASE prstate' = [prstate EXCEPT ![pid] = "free"]
    BY <2>2 DEF SameButSched
  <2>3. QED
    BY <1>1, <2>1, <2>2 DEF KillEnd
<1>6. \A p \in Pid :
        IF p = pid THEN prstate'[p] = "free"
        ELSE prstate'[p] = prstate[p] \/ {prstate[p], prstate'[p]} \subseteq {"curr", "ready"}
  BY <1>2, <1>3, <1>5 DEF SameButSched
<1>7. \A p \in Pid : pc'[p] = IF p \in {currpid, pid} THEN User ELSE pc[p]
  BY <1>2, <1>3, <1>4
<1>8. MessageWaiting'
  <2>1. ASSUME NEW p \in Pid
        PROVE  /\ prstate'[p] \in {"recv", "rectim"} => ~prhasmsg[p]
               /\ pc'[p].op = "receive" /\ prstate'[p] # "recv" => prhasmsg[p]
    <3>1. /\ prstate[p] \in {"recv", "rectim"} => ~prhasmsg[p]
          /\ pc[p].op = "receive" /\ prstate[p] # "recv" => prhasmsg[p]
      BY DEF LifeInv, MessageWaiting
    <3>2. pc'[p].op = "user" \/ (pc'[p] = pc[p] /\ p # pid)
      BY <1>4, <1>7
    <3>3. p # pid => prstate'[p] = prstate[p] \/ {prstate[p], prstate'[p]} \subseteq {"curr", "ready"}
      BY <1>6
    <3>4. prstate'[pid] = "free"
      BY <1>3, <1>6
    <3>5. QED
      BY <3>1, <3>2, <3>3, <3>4
  <2>2. QED
    BY <1>4, <2>1 DEF MessageWaiting
<1>9. /\ currpid \in Killers /\ Killers' \subseteq Killers \ {currpid}
      /\ Live' = Live \ {pid}
  BY <1>2, <1>4, <1>6, <1>7 DEF Live, Killers
<1>10. prcount' + Cardinality(Killers') <= Cardinality(Live')
  BY <1>2, <1>3, <1>4, <1>9, CountMoves DEF LifeInv
<1>11. QED
  BY <1>4, <1>8, <1>10 DEF LifeInv, CountOK

(* send and the receiving calls keep the table and the kills under way.    *)
LEMMA SameCount ==
  ASSUME LifeInv, UNCHANGED <<prcount, halted>>,
         \A p \in Pid : prstate'[p] = "free" <=> prstate[p] = "free",
         \A p \in Pid : pc'[p].op = "kill" <=> pc[p].op = "kill"
  PROVE  CountOK'
<1>1. Live' = Live /\ Killers' = Killers
  BY DEF Live, Killers
<1>2. QED
  BY <1>1 DEF LifeInv, CountOK

LEMMA SendLife ==
  ASSUME IInv, LifeInv, NEW pid \in Pid, Send(pid)
  PROVE  LifeInv'
<1>1. Calling /\ Deliver(pid) /\ UNCHANGED <<prcount, halted, pc>>
  BY DEF Send
<1>2. \A p \in Pid :
        /\ prstate'[p] = "free" <=> prstate[p] = "free"
        /\ prstate'[p] \in {"recv", "rectim"} =>
             prstate'[p] = prstate[p] /\ (prhasmsg'[p] <=> prhasmsg[p])
        /\ prstate[p] = "recv" /\ prstate'[p] # "recv" => prhasmsg'[p]
        /\ prhasmsg[p] => prhasmsg'[p]
  BY <1>1, DeliverMoves
<1>3. MessageWaiting'
  BY <1>1, <1>2 DEF LifeInv, MessageWaiting
<1>4. CountOK'
  BY <1>1, <1>2, SameCount
<1>5. QED
  BY <1>3, <1>4 DEF LifeInv

(* A message is taken by a process that is outside its wait for one.       *)
LEMMA TakeLife ==
  ASSUME IInv, LifeInv, UNCHANGED <<prcount, halted, schedVars>>,
         prhasmsg' = [prhasmsg EXCEPT ![currpid] = FALSE],
         \/ UNCHANGED pc /\ pc[currpid].op = "user"
         \/ Continue(User) /\ pc[currpid].op \in {"receive", "recvtime"}
  PROVE  LifeInv'
<1>1. /\ currpid \in Pid /\ prstate[currpid] = "curr" /\ prhasmsg \in [Pid -> BOOLEAN]
      /\ pc \in [Pid -> Cont] /\ User.op = "user" /\ prstate' = prstate
  BY DEF IInv, SchedOK, RestOK, ContOK, User, schedVars
<1>2. \A p \in Pid : /\ prhasmsg'[p] = IF p = currpid THEN FALSE ELSE prhasmsg[p]
                     /\ p # currpid => pc'[p] = pc[p]
  BY <1>1 DEF Continue
<1>3. pc'[currpid].op = "user" /\ pc[currpid].op # "kill"
  BY <1>1 DEF Continue
<1>4. MessageWaiting'
  BY <1>1, <1>2, <1>3 DEF LifeInv, MessageWaiting
<1>5. CountOK'
  BY <1>1, <1>2, <1>3, SameCount
<1>6. QED
  BY <1>4, <1>5 DEF LifeInv

(* The current process, whose buffer is empty, starts to wait.             *)
LEMMA AwaitLife ==
  ASSUME IInv, LifeInv, Calling, ~prhasmsg[currpid], UNCHANGED <<prcount, halted, prhasmsg>>,
         NEW s \in {"recv", "rectim"}, NEW qk, Block(s, qk),
         NEW c, c.op \in {"receive", "recvtime"}, c.op = "receive" => s = "recv", Continue(c)
  PROVE  LifeInv'
<1>1. /\ currpid \in Pid /\ currpid # NULLPROC /\ prstate \in [Pid -> PState]
      /\ prstate[currpid] = "curr" /\ ndefers = 0
  BY CallingOK
<1>2. pc[currpid].op = "user" /\ pc \in [Pid -> Cont]
  BY DEF Calling, Running, At, IInv, ContOK
<1>3. SameButSched([prstate EXCEPT ![currpid] = s], prstate')
  BY <1>1, BlockMoves DEF Block, PState
<1>4. \A p \in Pid :
        IF p = currpid THEN prstate'[p] = s
        ELSE prstate'[p] = prstate[p] \/ {prstate[p], prstate'[p]} \subseteq {"curr", "ready"}
  BY <1>1, <1>3 DEF SameButSched
<1>5. \A p \in Pid : pc'[p] = IF p = currpid THEN c ELSE pc[p]
  BY <1>2 DEF Continue
<1>6. MessageWaiting'
  BY <1>4, <1>5 DEF LifeInv, MessageWaiting
<1>7. CountOK'
  BY <1>1, <1>2, <1>4, <1>5, SameCount
<1>8. QED
  BY <1>6, <1>7 DEF LifeInv

LEMMA ReceivingLife ==
  ASSUME IInv, LifeInv, Receive \/ ReceiveEnd \/ Recvclr \/ \E d \in Delays : Recvtime(d)
  PROVE  LifeInv'
<1>1. CASE Receive
  <2>1. /\ Calling /\ UNCHANGED <<prcount, halted>> /\ pc[currpid].op = "user"
    BY <1>1 DEF Receive, Calling, Running, At
  <2>2. PICK c : c = [op |-> "receive", arg |-> 0, n |-> 0]
    OBVIOUS
  <2>3. c.op = "receive"
    BY <2>2
  <2>4. CASE prhasmsg' = [prhasmsg EXCEPT ![currpid] = FALSE] /\ UNCHANGED <<schedVars, pc>>
    BY <2>1, <2>4, TakeLife
  <2>5. CASE ~prhasmsg[currpid] /\ Block("recv", qkey) /\ Continue(c) /\ UNCHANGED prhasmsg
    BY <2>1, <2>3, <2>5, AwaitLife
  <2>6. QED
    BY <1>1, <2>2, <2>4, <2>5 DEF Receive
<1>2. CASE ReceiveEnd
  BY <1>2, TakeLife DEF ReceiveEnd, At
<1>3. CASE Recvclr
  BY <1>3, TakeLife DEF Recvclr, Calling, Running, At
<1>4. ASSUME NEW d \in Delays, Recvtime(d) PROVE LifeInv'
  <2>1. /\ Calling /\ UNCHANGED <<prcount, halted>> /\ pc[currpid].op = "user"
    BY <1>4 DEF Recvtime, Calling, Running, At
  <2>2. PICK c : c = [op |-> "recvtime", arg |-> 0, n |-> 0]
    OBVIOUS
  <2>3. c.op = "recvtime"
    BY <2>2
  <2>4. PICK qk : qk = InsertdKeys(sleepq, currpid, qkey, d)
    OBVIOUS
  <2>5. CASE prhasmsg' = [prhasmsg EXCEPT ![currpid] = FALSE] /\ UNCHANGED <<schedVars, pc>>
    BY <2>1, <2>5, TakeLife
  <2>6. CASE ~prhasmsg[currpid] /\ Block("rectim", qk) /\ Continue(c) /\ UNCHANGED prhasmsg
    BY <2>1, <2>3, <2>6, AwaitLife
  <2>7. QED
    BY <1>4, <2>2, <2>4, <2>5, <2>6 DEF Recvtime
<1>5. QED
  BY <1>1, <1>2, <1>3, <1>4

-----------------------------------------------------------------------------
(* The invariant and the theorems *)

LEMMA LifeInit == Init => LifeInv
<1>. SUFFICES ASSUME Init PROVE LifeInv
  OBVIOUS
<1>1. MessageWaiting /\ Killers = {}
  BY DEF Init, MessageWaiting, Killers, User
<1>2. {0, 1} \subseteq Live /\ Live \in SUBSET Pid
  BY TableAssumption DEF Init, Live, Pid, NULLPROC
<1>3. Cardinality({0, 1}) = 2
  <2>1. IsFiniteSet({0}) /\ Cardinality({0}) = 1
    BY FS_Singleton
  <2>2. {0, 1} = {0} \cup {1} /\ 1 \notin {0}
    OBVIOUS
  <2>3. QED
    BY <2>1, <2>2, FS_AddElement
<1>4. Cardinality(Live) >= 2 /\ Cardinality(Live) \in Nat
  BY <1>2, <1>3, PidsFinite, FS_Subset
<1>5. Cardinality(Killers) = 0
  BY <1>1, FS_EmptySet
<1>6. QED
  BY <1>1, <1>4, <1>5 DEF Init, LifeInv, CountOK

LEMMA LifeStep == IInv /\ LifeInv /\ [Next]_vars => LifeInv'
<1>. SUFFICES ASSUME IInv, LifeInv, [Next]_vars PROVE LifeInv'
  OBVIOUS
<1>1. CASE UNCHANGED vars
  BY <1>1, QuietOK DEF vars, Quiet, Stays, Silent
<1>2. CASE ProcessCall
  BY <1>2, QuietOK, SchedulingQuiet, CreateLife, KillLife, SendLife, ReceivingLife DEF ProcessCall
<1>3. CASE SemaphoreCall
  BY <1>3, QuietOK, SemaphoreQuiet
<1>4. CASE KernelStep
  BY <1>4, QuietOK, KillEndLife, ReceivingLife, ClockQuiet, LoopQuiet DEF KernelStep
<1>5. CASE Clock
  BY <1>5, QuietOK, ClockQuiet
<1>6. CASE Halted
  BY <1>1, <1>6 DEF Halted
<1>7. QED
  BY <1>1, <1>2, <1>3, <1>4, <1>5, <1>6 DEF Next

LEMMA LifeInductive == Spec => []LifeInv
<1>1. Init => LifeInv
  BY LifeInit
<1>2. IInv /\ LifeInv /\ [Next]_vars => LifeInv'
  BY LifeStep
<1>3. QED
  BY <1>1, <1>2, Inductive, PTL DEF Spec

(* Messages: nobody blocks in receive or recvtime with a message in its    *)
(* buffer, and whoever receive lets go finds one there, although others    *)
(* run, kill, suspend and send between the wake-up and the return.         *)
THEOREM NoGarbageReceived == Spec => []MessageWaiting
<1>1. LifeInv => MessageWaiting
  BY DEF LifeInv
<1>2. QED
  BY <1>1, LifeInductive, PTL

(* The count by which kill decides to halt the machine never exceeds the   *)
(* processes there are, even while several kills, of one victim or of      *)
(* each other, are under way: the shutdown is not missed.                  *)
THEOREM ShutdownHappens == Spec => []ShutdownNotMissed
<1>1. IInv /\ LifeInv => ShutdownNotMissed
  <2>. SUFFICES ASSUME IInv, LifeInv PROVE ShutdownNotMissed
    OBVIOUS
  <2>1. Killers \in SUBSET Pid /\ Live \in SUBSET Pid
    BY DEF Killers, Live
  <2>2. Cardinality(Killers) \in Nat /\ Cardinality(Live) \in Nat /\ prcount \in Int
    BY <2>1, PidsFinite DEF IInv, RestOK
  <2>3. QED
    BY <2>2 DEF LifeInv, CountOK, ShutdownNotMissed
<1>2. QED
  BY <1>1, Inductive, LifeInductive, PTL

-----------------------------------------------------------------------------
(* The order of the ready list *)

(* Descending keys: what insert keeps up and resched relies on.            *)
InOrder(rl, qk) == \A i, j \in 1..Len(rl) : i < j => qk[rl[i]] >= qk[rl[j]]

(* What DispatchFirst says of a step, and what the next step needs.        *)
HeadRuns ==
  currpid' # currpid => \A p \in ToSet(readylist') : qkey'[p] <= qkey'[currpid']
Orderly == InOrder(readylist', qkey') /\ HeadRuns

(* Keys of processes that are not in the queue do not matter to it.        *)
LEMMA OtherKeys ==
  ASSUME NEW rl, NEW qk, NEW new, InOrder(rl, qk), \A x \in ToSet(rl) : new[x] = qk[x]
  PROVE  InOrder(rl, new)
BY DEF InOrder, ToSet

LEMMA InsertInOrder ==
  ASSUME NEW rl \in Seq(Pid), NEW qk \in [Pid -> Int], NEW k \in Int,
         NEW p \in Pid, p \notin ToSet(rl), InOrder(rl, qk)
  PROVE  InOrder(Insert(rl, p, qk, k), [qk EXCEPT ![p] = k])
<1>1. PICK i : i = InsertPos(rl, qk, k)
  OBVIOUS
<1>2. PICK q : q = Insert(rl, p, qk, k)
  OBVIOUS
<1>3. PICK nqk : nqk = [qk EXCEPT ![p] = k]
  OBVIOUS
<1>4. \A x \in ToSet(rl) : qk[x] \in Int
  BY DEF ToSet
<1>5. /\ i \in 1..(Len(rl) + 1)
      /\ \A j \in 1..(i - 1) : qk[rl[j]] >= k
      /\ i <= Len(rl) => qk[rl[i]] < k
  <2>1. /\ InsertPos(rl, qk, k) \in 1..(Len(rl) + 1)
        /\ \A j \in 1..(InsertPos(rl, qk, k) - 1) : qk[rl[j]] >= k
        /\ InsertPos(rl, qk, k) <= Len(rl) => qk[rl[InsertPos(rl, qk, k)]] < k
    BY <1>4, InsertPosStops
  <2>2. QED
    BY <1>1, <2>1
<1>6. /\ q \in Seq(Pid) /\ Len(q) = Len(rl) + 1
      /\ \A j \in 1..(Len(rl) + 1) :
           q[j] = IF j < i THEN rl[j] ELSE IF j = i THEN p ELSE rl[j - 1]
  <2>1. /\ InsertAt(rl, i, p) \in Seq(Pid) /\ Len(InsertAt(rl, i, p)) = Len(rl) + 1
        /\ \A j \in 1..(Len(rl) + 1) :
             InsertAt(rl, i, p)[j] = IF j < i THEN rl[j] ELSE IF j = i THEN p ELSE rl[j - 1]
    BY <1>5, InsertAtElements
  <2>2. q = InsertAt(rl, i, p)
    BY <1>1, <1>2 DEF Insert
  <2>3. QED
    BY <2>1, <2>2
<1>7. nqk[p] = k /\ \A j \in 1..Len(rl) : nqk[rl[j]] = qk[rl[j]] /\ qk[rl[j]] \in Int
  BY <1>3, <1>4 DEF ToSet
<1>8. \A j \in 1..Len(rl) : i <= j => qk[rl[j]] < k
  <2>. SUFFICES ASSUME NEW j \in 1..Len(rl), i <= j PROVE qk[rl[j]] < k
    OBVIOUS
  <2>1. i \in 1..Len(rl) /\ qk[rl[i]] < k
    BY <1>5
  <2>2. i = j \/ qk[rl[i]] >= qk[rl[j]]
    BY <2>1 DEF InOrder
  <2>3. QED
    BY <1>7, <2>1, <2>2
<1>9. ASSUME NEW a \in 1..Len(q), NEW b \in 1..Len(q), a < b
      PROVE  nqk[q[a]] >= nqk[q[b]]
  <2>1. CASE b < i
    <3>1. a \in 1..Len(rl) /\ b \in 1..Len(rl) /\ q[a] = rl[a] /\ q[b] = rl[b]
      BY <1>5, <1>6, <1>9, <2>1
    <3>2. QED
      BY <1>7, <1>9, <3>1 DEF InOrder
  <2>2. CASE b = i
    <3>1. a \in 1..Len(rl) /\ a \in 1..(i - 1) /\ q[a] = rl[a] /\ q[b] = p
      BY <1>5, <1>6, <1>9, <2>2
    <3>2. QED
      BY <1>5, <1>7, <3>1
  <2>3. CASE b > i /\ a = i
    <3>1. b - 1 \in 1..Len(rl) /\ i <= b - 1 /\ q[a] = p /\ q[b] = rl[b - 1]
      BY <1>5, <1>6, <1>9, <2>3
    <3>2. QED
      BY <1>7, <1>8, <3>1
  <2>4. CASE b > i /\ a < i
    <3>1. a \in 1..Len(rl) /\ b - 1 \in 1..Len(rl) /\ a < b - 1 /\ q[a] = rl[a] /\ q[b] = rl[b - 1]
      BY <1>5, <1>6, <1>9, <2>4
    <3>2. QED
      BY <1>7, <3>1 DEF InOrder
  <2>5. CASE b > i /\ a > i
    <3>1. a - 1 \in 1..Len(rl) /\ b - 1 \in 1..Len(rl) /\ a - 1 < b - 1
      <4>1. Len(q) = Len(rl) + 1 /\ Len(rl) \in Nat
        BY <1>6
      <4>2. QED
        BY <1>5, <1>9, <2>5, <4>1
    <3>2. q[a] = rl[a - 1] /\ q[b] = rl[b - 1]
      BY <1>5, <1>6, <2>5
    <3>3. QED
      BY <1>7, <3>1, <3>2 DEF InOrder
  <2>6. QED
    BY <1>5, <2>1, <2>2, <2>3, <2>4, <2>5
<1>10. InOrder(q, nqk)
  BY <1>9 DEF InOrder
<1>11. QED
  BY <1>2, <1>3, <1>10

(* dequeue takes the greatest key.                                         *)
LEMMA TailInOrder ==
  ASSUME NEW rl \in Seq(Pid), rl # <<>>, NEW qk, InOrder(rl, qk)
  PROVE  /\ InOrder(Tail(rl), qk)
         /\ \A x \in ToSet(Tail(rl)) : qk[x] <= qk[Head(rl)]
<1>1. /\ Head(rl) = rl[1] /\ Len(Tail(rl)) = Len(rl) - 1 /\ Tail(rl) \in Seq(Pid)
      /\ \A j \in 1..(Len(rl) - 1) : Tail(rl)[j] = rl[j + 1]
  BY HeadTailProperties
<1>2. ASSUME NEW j \in 1..Len(Tail(rl)) PROVE qk[Tail(rl)[j]] <= qk[Head(rl)]
  <2>1. 1 \in 1..Len(rl) /\ j + 1 \in 1..Len(rl) /\ 1 < j + 1 /\ Tail(rl)[j] = rl[j + 1]
    BY <1>1
  <2>2. qk[rl[1]] >= qk[rl[j + 1]]
    BY <2>1 DEF InOrder
  <2>3. QED
    BY <1>1, <2>1, <2>2
<1>3. InOrder(Tail(rl), qk)
  BY <1>1 DEF InOrder
<1>4. QED
  BY <1>1, <1>2, <1>3 DEF ToSet

LEMMA GetitemInOrder ==
  ASSUME NEW rl \in Seq(Pid), IsInjective(rl), NEW p \in ToSet(rl), NEW qk, InOrder(rl, qk)
  PROVE  InOrder(Getitem(rl, p), qk)
<1>1. PICK i \in 1..Len(rl) : rl[i] = p
  BY DEF ToSet
<1>4. Getitem(rl, p) = RemoveAt(rl, i)
  BY <1>1, GetitemIs
<1>5. /\ Len(RemoveAt(rl, i)) = Len(rl) - 1
      /\ \A j \in 1..(Len(rl) - 1) : RemoveAt(rl, i)[j] = IF j < i THEN rl[j] ELSE rl[j + 1]
  BY RemoveAtElements
<1>6. PICK q : q = RemoveAt(rl, i)
  OBVIOUS
<1>7. ASSUME NEW a \in 1..Len(q), NEW b \in 1..Len(q), a < b
      PROVE  qk[q[a]] >= qk[q[b]]
  <2>1. PICK x \in 1..Len(rl), y \in 1..Len(rl) : x < y /\ q[a] = rl[x] /\ q[b] = rl[y]
    <3>1. a \in 1..(Len(rl) - 1) /\ b \in 1..(Len(rl) - 1)
      BY <1>5, <1>6
    <3>2. /\ q[a] = IF a < i THEN rl[a] ELSE rl[a + 1]
          /\ q[b] = IF b < i THEN rl[b] ELSE rl[b + 1]
      BY <1>5, <1>6, <3>1
    <3>3. CASE b < i
      BY <1>7, <3>1, <3>2, <3>3
    <3>4. CASE a < i /\ b >= i
      <4>1. a < b + 1 /\ b + 1 \in 1..Len(rl) /\ a \in 1..Len(rl)
        BY <1>7, <3>1, <3>4
      <4>2. QED
        BY <3>2, <3>4, <4>1
    <3>5. CASE a >= i /\ b >= i
      <4>1. a + 1 < b + 1 /\ a + 1 \in 1..Len(rl) /\ b + 1 \in 1..Len(rl)
        BY <1>7, <3>1
      <4>2. QED
        BY <3>2, <3>5, <4>1
    <3>6. QED
      BY <1>7, <3>1, <3>3, <3>4, <3>5
  <2>2. QED
    BY <2>1 DEF InOrder
<1>8. QED
  BY <1>4, <1>6, <1>7 DEF InOrder

-----------------------------------------------------------------------------
(* The scheduler keeps the order *)

LEMMA SwitchToOrderly ==
  ASSUME NEW st, NEW rl \in Seq(Pid), rl # <<>>, NEW qk, InOrder(rl, qk),
         SwitchTo(st, rl), qkey' = qk
  PROVE  Orderly
BY TailInOrder DEF SwitchTo, Orderly, HeadRuns

LEMMA DispatchOrderly ==
  ASSUME NEW st, NEW rl, NEW qk, NEW sl, SchedOK(st, rl, qk, currpid, preempt),
         prprio \in [Pid -> Prio], InOrder(rl, qk), Dispatch(st, rl, qk, sl)
  PROVE  Orderly
<1>1. PICK k : k = prprio[currpid]
  OBVIOUS
<1>2. /\ k \in Int /\ rl \in Seq(Pid) /\ qk \in [Pid -> Int] /\ currpid \in Pid
      /\ \A p \in Pid : st[p] = "ready" <=> p \in ToSet(rl)
      /\ \A p \in Pid : st[p] = "curr" => p = currpid
      /\ st[NULLPROC] \in {"curr", "ready"}
  BY <1>1, PrioRange DEF SchedOK
<1>3. CASE UNCHANGED currpid /\ readylist' = rl /\ qkey' = qk
  BY <1>3 DEF Orderly, HeadRuns
<1>4. CASE /\ st[currpid] = "curr"
           /\ qkey' = [qk EXCEPT ![currpid] = k]
           /\ SwitchTo([st EXCEPT ![currpid] = "ready"], Insert(rl, currpid, qk, k))
  <2>1. currpid \notin ToSet(rl)
    BY <1>2, <1>4
  <2>2. /\ Insert(rl, currpid, qk, k) \in Seq(Pid) /\ Insert(rl, currpid, qk, k) # <<>>
        /\ InOrder(Insert(rl, currpid, qk, k), [qk EXCEPT ![currpid] = k])
    BY <1>2, <2>1, InsertSet, InsertInOrder
  <2>3. QED
    BY <1>4, <2>2, SwitchToOrderly
<1>5. CASE st[currpid] # "curr" /\ qkey' = qk /\ SwitchTo(st, rl)
  <2>1. NULLPROC \in Pid
    BY TableAssumption DEF Pid, NULLPROC
  <2>2. NULLPROC \in ToSet(rl)
    BY <1>2, <1>5, <2>1
  <2>3. rl # <<>>
    BY <2>2 DEF ToSet
  <2>4. QED
    BY <1>2, <1>5, <2>3, SwitchToOrderly
<1>6. QED
  BY <1>1, <1>3, <1>4, <1>5 DEF Dispatch

LEMMA ReschedOrderly ==
  ASSUME NEW st, NEW rl, NEW qk, SchedOK(st, rl, qk, currpid, preempt),
         prprio \in [Pid -> Prio], InOrder(rl, qk), Resched(st, rl, qk)
  PROVE  Orderly
<1>1. CASE UNCHANGED currpid /\ readylist' = rl /\ qkey' = qk
  BY <1>1 DEF Orderly, HeadRuns
<1>2. CASE Dispatch(st, rl, qk, preempt)
  BY <1>2, DispatchOrderly
<1>3. QED
  BY <1>1, <1>2 DEF Resched

LEMMA ReadyOrderly ==
  ASSUME IInv, NEW qk \in [Pid -> Int], InOrder(readylist, qk),
         NEW p \in Pid, prstate[p] \notin {"curr", "ready"}, Ready(p, qk)
  PROVE  Orderly
<1>1. PICK k : k = prprio[p]
  OBVIOUS
<1>2. k \in Int /\ prprio \in [Pid -> Prio]
  BY <1>1, PrioRange DEF IInv, RestOK
<1>3. SchedOK(prstate, readylist, qk, currpid, preempt)
  BY DEF IInv, SchedOK
<1>4. readylist \in Seq(Pid) /\ p \notin ToSet(readylist)
  BY <1>3 DEF SchedOK
<1>5. SchedOK([prstate EXCEPT ![p] = "ready"], Insert(readylist, p, qk, k),
              [qk EXCEPT ![p] = k], currpid, preempt)
  BY <1>2, <1>3, ReadiedOK
<1>6. InOrder(Insert(readylist, p, qk, k), [qk EXCEPT ![p] = k])
  BY <1>2, <1>4, InsertInOrder
<1>7. Resched([prstate EXCEPT ![p] = "ready"], Insert(readylist, p, qk, k), [qk EXCEPT ![p] = k])
  BY <1>1 DEF Ready
<1>8. PICK nst, nrl, nqk : /\ nst = [prstate EXCEPT ![p] = "ready"]
                           /\ nrl = Insert(readylist, p, qk, k)
                           /\ nqk = [qk EXCEPT ![p] = k]
  OBVIOUS
<1>9. QED
  BY <1>2, <1>5, <1>6, <1>7, <1>8, ReschedOrderly

LEMMA BlockOrderly ==
  ASSUME IInv, Calling, NEW qk \in [Pid -> Int], InOrder(readylist, qk),
         NEW s \in PState \ {"curr", "ready"}, Block(s, qk)
  PROVE  Orderly
<1>1. currpid \in Pid /\ currpid # NULLPROC /\ prstate[currpid] = "curr"
  BY CallingOK
<1>2. SchedOK(prstate, readylist, qk, currpid, preempt) /\ prprio \in [Pid -> Prio]
  BY DEF IInv, SchedOK, RestOK
<1>3. SchedOK([prstate EXCEPT ![currpid] = s], readylist, qk, currpid, preempt)
  BY <1>1, <1>2, BlockedOK
<1>4. PICK st : st = [prstate EXCEPT ![currpid] = s]
  OBVIOUS
<1>5. QED
  BY <1>2, <1>3, <1>4, ReschedOrderly DEF Block

LEMMA StillOrderly ==
  ASSUME InOrder(readylist, qkey), UNCHANGED <<readylist, qkey, currpid>>
  PROVE  Orderly
BY DEF Orderly, HeadRuns

(* Sleepers are not ready: their keys are deltas, and insertd, unsleep and *)
(* the clock change no other.                                              *)
LEMMA SleepersApart ==
  ASSUME IInv
  PROVE  /\ ToSet(sleepq) \cap ToSet(readylist) = {}
         /\ currpid \notin ToSet(readylist)
         /\ sleepq \in Seq(Pid) /\ readylist \in Seq(Pid) /\ qkey \in [Pid -> Int]
         /\ ToSet(readylist) \subseteq Pid /\ ToSet(sleepq) \subseteq Pid
<1>1. SchedOK(prstate, readylist, qkey, currpid, preempt) /\ prstate[currpid] = "curr"
      /\ QueuesOK(prstate, prsem, sleepq, squeue)
  BY DEF IInv
<1>2. /\ sleepq \in Seq(Pid) /\ readylist \in Seq(Pid) /\ qkey \in [Pid -> Int] /\ currpid \in Pid
      /\ \A p \in Pid : prstate[p] = "ready" <=> p \in ToSet(readylist)
      /\ \A p \in Pid : prstate[p] \in {"sleep", "rectim"} <=> p \in ToSet(sleepq)
  BY <1>1 DEF SchedOK, QueuesOK
<1>3. ToSet(readylist) \subseteq Pid /\ ToSet(sleepq) \subseteq Pid
  BY <1>2 DEF ToSet
<1>4. QED
  BY <1>1, <1>2, <1>3

LEMMA SleepKeys ==
  ASSUME IInv, NEW d \in Int
  PROVE  /\ InsertdKeys(sleepq, currpid, qkey, d) \in [Pid -> Int]
         /\ \A x \in ToSet(readylist) : InsertdKeys(sleepq, currpid, qkey, d)[x] = qkey[x]
<1>1. PICK i : i = InsertdPos(sleepq, qkey, d)
  OBVIOUS
<1>2. PICK rest : rest = DelayLeft(sleepq, qkey, d)[i]
  OBVIOUS
<1>3. /\ sleepq \in Seq(Pid) /\ qkey \in [Pid -> Int]
      /\ \A x \in ToSet(sleepq) : qkey[x] \in Int
  BY SleepersApart
<1>4. i \in 1..(Len(sleepq) + 1)
  BY <1>1, <1>3, InsertdPosStops
<1>5. DelayLeft(sleepq, qkey, d) \in [1..(Len(sleepq) + 1) -> Int]
  BY <1>3, DelayLeftType
<1>6. rest \in Int
  BY <1>2, <1>4, <1>5
<1>7. InsertdKeys(sleepq, currpid, qkey, d) =
        [x \in Pid |-> IF x = currpid THEN rest
                       ELSE IF i <= Len(sleepq) /\ x = sleepq[i] THEN qkey[x] - rest
                       ELSE qkey[x]]
  BY <1>1, <1>2, <1>3 DEF InsertdKeys
<1>8. InsertdKeys(sleepq, currpid, qkey, d) \in [Pid -> Int]
  BY <1>3, <1>6, <1>7
<1>9. ASSUME NEW x \in ToSet(readylist)
      PROVE  InsertdKeys(sleepq, currpid, qkey, d)[x] = qkey[x]
  <2>1. x \in Pid /\ x # currpid /\ x \notin ToSet(sleepq)
    BY SleepersApart
  <2>2. i <= Len(sleepq) => x # sleepq[i]
    BY <1>4, <2>1 DEF ToSet
  <2>3. QED
    BY <1>7, <2>1, <2>2
<1>10. QED
  BY <1>8, <1>9

LEMMA WakeKeys ==
  ASSUME IInv, NEW p \in Pid
  PROVE  /\ UnsleepKeys(sleepq, p, qkey) \in [Pid -> Int]
         /\ \A x \in ToSet(readylist) : UnsleepKeys(sleepq, p, qkey)[x] = qkey[x]
<1>1. UnsleepKeys(sleepq, p, qkey) \in [Pid -> Int]
  BY SleepersApart, UnsleepKeysType
<1>2. ASSUME NEW x \in ToSet(readylist)
      PROVE  UnsleepKeys(sleepq, p, qkey)[x] = qkey[x]
  <2>1. x \in Pid /\ x \notin ToSet(sleepq) /\ qkey \in [Pid -> Int] /\ sleepq \in Seq(Pid)
    BY SleepersApart
  <2>2. ~ \E i \in 1..(Len(sleepq) - 1) : sleepq[i] = p /\ sleepq[i + 1] = x
    BY <2>1 DEF ToSet
  <2>3. QED
    BY <2>1, <2>2 DEF UnsleepKeys
<1>3. QED
  BY <1>1, <1>2

-----------------------------------------------------------------------------
(* One lemma per group of actions *)

LEMMA SchedulingOrderly ==
  ASSUME IInv, InOrder(readylist, qkey),
         \/ \E pid \in Pid : Suspend(pid) \/ Resume(pid)
         \/ \E pid \in Pid, newprio \in NewPrios : Chprio(pid, newprio)
         \/ Yield
  PROVE  Orderly
<1>1. /\ SchedOK(prstate, readylist, qkey, currpid, preempt) /\ prprio \in [Pid -> Prio]
      /\ qkey \in [Pid -> Int] /\ readylist \in Seq(Pid) /\ IsInjective(readylist)
      /\ \A p \in Pid : prstate[p] = "ready" <=> p \in ToSet(readylist)
  BY DEF IInv, RestOK, SchedOK
<1>2. ASSUME NEW pid \in Pid, Suspend(pid) PROVE Orderly
  <2>1. CASE prstate[pid] = "ready" /\ Unready(pid) /\ UNCHANGED <<currpid, qkey>>
    <3>1. InOrder(readylist', qkey)
      BY <1>1, <2>1, GetitemInOrder DEF Unready
    <3>2. QED
      BY <2>1, <3>1 DEF Orderly, HeadRuns
  <2>2. CASE Block("susp", qkey)
    BY <1>1, <1>2, <2>2, BlockOrderly DEF Suspend, PState
  <2>3. QED
    BY <1>2, <2>1, <2>2 DEF Suspend
<1>3. ASSUME NEW pid \in Pid, Resume(pid) PROVE Orderly
  BY <1>1, <1>3, ReadyOrderly DEF Resume
<1>4. ASSUME NEW pid \in Pid, NEW newprio \in NewPrios, Chprio(pid, newprio) PROVE Orderly
  BY <1>4, StillOrderly DEF Chprio, schedVars
<1>5. ASSUME Yield PROVE Orderly
  BY <1>1, <1>5, ReschedOrderly DEF Yield
<1>6. QED
  BY <1>2, <1>3, <1>4, <1>5

LEMMA DeliverOrderly ==
  ASSUME IInv, InOrder(readylist, qkey), NEW pid \in Pid, Deliver(pid)
  PROVE  Orderly
<1>1. CASE UNCHANGED <<qkey, schedVars>>
  BY <1>1, StillOrderly DEF schedVars
<1>2. CASE prstate[pid] = "recv" /\ Ready(pid, qkey)
  BY <1>2, SleepersApart, ReadyOrderly
<1>3. CASE prstate[pid] = "rectim" /\ Ready(pid, UnsleepKeys(sleepq, pid, qkey))
  <2>1. PICK qk : qk = UnsleepKeys(sleepq, pid, qkey)
    OBVIOUS
  <2>2. qk \in [Pid -> Int] /\ \A x \in ToSet(readylist) : qk[x] = qkey[x]
    BY <2>1, WakeKeys
  <2>3. InOrder(readylist, qk)
    BY <2>2, OtherKeys
  <2>4. QED
    BY <1>3, <2>1, <2>2, <2>3, ReadyOrderly
<1>4. QED
  BY <1>1, <1>2, <1>3 DEF Deliver

LEMMA ProcessOrderly ==
  ASSUME IInv, InOrder(readylist, qkey),
         \/ \E prio \in Prios : Create(prio)
         \/ \E pid \in Pid : Kill(pid) \/ Send(pid)
         \/ Receive \/ Recvclr \/ ReceiveEnd
         \/ \E d \in Delays : Recvtime(d) \/ Sleepms(d)
  PROVE  Orderly
<1>1. ASSUME NEW prio \in Prios, Create(prio) PROVE Orderly
  BY <1>1, StillOrderly DEF Create
<1>2. ASSUME NEW pid \in Pid, Kill(pid) PROVE Orderly
  <2>1. prparent[pid] \in Pid
    BY DEF IInv, RestOK
  <2>2. QED
    BY <1>2, <2>1, DeliverOrderly, StillOrderly DEF Kill, schedVars
<1>3. ASSUME NEW pid \in Pid, Send(pid) PROVE Orderly
  BY <1>3, DeliverOrderly DEF Send
<1>4. ASSUME Receive PROVE Orderly
  <2>1. qkey \in [Pid -> Int]
    BY SleepersApart
  <2>2. QED
    BY <1>4, <2>1, BlockOrderly, StillOrderly DEF Receive, PState, schedVars
<1>5. ASSUME Recvclr \/ ReceiveEnd PROVE Orderly
  BY <1>5, StillOrderly DEF Recvclr, ReceiveEnd, schedVars
<1>6. ASSUME NEW d \in Delays, NEW s \in {"sleep", "rectim"}, Calling,
             Block(s, InsertdKeys(sleepq, currpid, qkey, d))
      PROVE  Orderly
  <2>1. PICK qk : qk = InsertdKeys(sleepq, currpid, qkey, d)
    OBVIOUS
  <2>2. d \in Int
    BY ArgumentAssumption
  <2>3. qk \in [Pid -> Int] /\ \A x \in ToSet(readylist) : qk[x] = qkey[x]
    BY <2>1, <2>2, SleepKeys
  <2>4. InOrder(readylist, qk)
    BY <2>3, OtherKeys
  <2>5. QED
    BY <1>6, <2>1, <2>3, <2>4, BlockOrderly DEF PState
<1>7. ASSUME NEW d \in Delays, Recvtime(d) PROVE Orderly
  BY <1>6, <1>7, StillOrderly DEF Recvtime, schedVars
<1>8. ASSUME NEW d \in Delays, Sleepms(d) PROVE Orderly
  BY <1>6, <1>8 DEF Sleepms
<1>9. QED
  BY <1>1, <1>2, <1>3, <1>4, <1>5, <1>7, <1>8

LEMMA KillEndOrderly ==
  ASSUME IInv, InOrder(readylist, qkey), KillEnd
  PROVE  Orderly
<1>1. PICK pid : pid = pc[currpid].arg
  OBVIOUS
<1>2. /\ SchedOK(prstate, readylist, qkey, currpid, preempt) /\ prprio \in [Pid -> Prio]
      /\ qkey \in [Pid -> Int] /\ readylist \in Seq(Pid) /\ IsInjective(readylist)
      /\ \A p \in Pid : prstate[p] = "ready" <=> p \in ToSet(readylist)
      /\ currpid \in Pid
  BY DEF IInv, RestOK, SchedOK
<1>3. pid \in Pid /\ pid # NULLPROC
  BY <1>1, <1>2 DEF KillEnd, At, IInv, ContOK
<1>4. CASE prstate[pid] = "curr" /\ Resched([prstate EXCEPT ![pid] = "free"], readylist, qkey)
  <2>1. PICK st : st = [prstate EXCEPT ![pid] = "free"]
    OBVIOUS
  <2>2. SchedOK([prstate EXCEPT ![pid] = "free"], readylist, qkey, currpid, preempt)
    BY <1>2, <1>3, <1>4, BlockedOK DEF PState
  <2>3. QED
    BY <1>2, <1>4, <2>1, <2>2, ReschedOrderly
<1>5. CASE qkey' = UnsleepKeys(sleepq, pid, qkey) /\ UNCHANGED <<readylist, currpid>>
  <2>1. \A x \in ToSet(readylist) : qkey'[x] = qkey[x]
    BY <1>3, <1>5, WakeKeys
  <2>2. InOrder(readylist, qkey')
    BY <2>1, OtherKeys
  <2>3. QED
    BY <1>5, <2>2 DEF Orderly, HeadRuns
<1>6. CASE prstate[pid] = "ready" /\ Unready(pid) /\ UNCHANGED <<currpid, qkey>>
  <2>1. InOrder(readylist', qkey)
    BY <1>2, <1>3, <1>6, GetitemInOrder DEF Unready
  <2>2. QED
    BY <1>6, <2>1 DEF Orderly, HeadRuns
<1>7. CASE UNCHANGED <<readylist, currpid, qkey>>
  BY <1>7, StillOrderly
<1>8. QED
  BY <1>1, <1>4, <1>5, <1>6, <1>7 DEF KillEnd

LEMMA ReleaseOrderly ==
  ASSUME IInv, InOrder(readylist, qkey), NEW sem \in Sems, squeue[sem] # <<>>, Release(sem)
  PROVE  Orderly
<1>1. PICK p : p = Head(squeue[sem])
  OBVIOUS
<1>2. p \in ToSet(squeue[sem]) /\ squeue[sem] \in Seq(Pid)
  <2>1. squeue[sem] \in Seq(Pid) /\ IsInjective(squeue[sem])
    BY DEF IInv, QueuesOK
  <2>2. QED
    BY <1>1, <2>1, TailSet
<1>3. p \in Pid /\ prstate[p] = "wait"
  <2>1. p \in Pid
    BY <1>2 DEF ToSet
  <2>2. QED
    BY <1>2, <2>1 DEF IInv, QueuesOK
<1>4. Ready(p, qkey)
  BY <1>1 DEF Release
<1>5. QED
  BY <1>3, <1>4, SleepersApart, ReadyOrderly

LEMMA SignalOneOrderly ==
  ASSUME IInv, InOrder(readylist, qkey), NEW sem \in Sems, ~Resetting(sem), SignalOne(sem)
  PROVE  Orderly
<1>1. CASE scount[sem] < 0 /\ Release(sem)
  <2>1. Len(squeue[sem]) = -scount[sem] /\ scount[sem] \in Int
    BY <1>1 DEF IInv, SemCount, RestOK
  <2>2. squeue[sem] # <<>>
    BY <1>1, <2>1
  <2>3. QED
    BY <1>1, <2>2, ReleaseOrderly
<1>2. CASE UNCHANGED <<schedVars, qkey>>
  BY <1>2, StillOrderly DEF schedVars
<1>3. QED
  BY <1>1, <1>2 DEF SignalOne

LEMMA SemaphoreOrderly ==
  ASSUME IInv, InOrder(readylist, qkey), SemaphoreCall
  PROVE  Orderly
<1>1. ASSUME NEW n \in Counts, Semcreate(n) PROVE Orderly
  BY <1>1, StillOrderly DEF Semcreate, schedVars
<1>2. ASSUME NEW s \in Sems, Wait(s) PROVE Orderly
  <2>1. qkey \in [Pid -> Int]
    BY SleepersApart
  <2>2. QED
    BY <1>2, <2>1, BlockOrderly, StillOrderly DEF Wait, PState, schedVars
<1>3. ASSUME NEW s \in Sems, Signal(s) PROVE Orderly
  BY <1>3, SignalOneOrderly DEF Signal, Running, At, Resetting
<1>4. ASSUME NEW s \in Sems, NEW n \in Counts, Signaln(s, n) \/ Semreset(s, n) PROVE Orderly
  BY <1>4, StillOrderly DEF Signaln, Semreset, StartLoop
<1>5. ASSUME NEW s \in Sems, Semdelete(s) PROVE Orderly
  BY <1>5, StillOrderly DEF Semdelete, StartLoop
<1>6. QED
  BY <1>1, <1>2, <1>3, <1>4, <1>5 DEF SemaphoreCall

LEMMA DeferStopOrderly ==
  ASSUME IInv, InOrder(readylist, qkey), DeferStop
  PROVE  Orderly
<1>1. SchedOK(prstate, readylist, qkey, currpid, preempt) /\ prprio \in [Pid -> Prio]
  BY DEF IInv, RestOK
<1>2. QED
  BY <1>1, DispatchOrderly, StillOrderly DEF DeferStop

LEMMA LoopOrderly ==
  ASSUME IInv, InOrder(readylist, qkey),
         \/ SignalnStep \/ SignalnEnd \/ SemdeleteStep \/ SemdeleteEnd
         \/ SemresetStep \/ SemresetEnd
  PROVE  Orderly
<1>1. PICK s : s = pc[currpid].arg
  OBVIOUS
<1>2. pc[currpid].op \in {"signaln", "semdelete", "semreset"} /\ currpid \in Pid /\ s \in Sems
  BY <1>1 DEF SignalnStep, SignalnEnd, SemdeleteStep, SemdeleteEnd, SemresetStep, SemresetEnd,
              At, IInv, SchedOK, ContOK
<1>3. CASE SignalnEnd \/ SemdeleteEnd \/ SemresetEnd
  BY <1>3, DeferStopOrderly DEF SignalnEnd, SemdeleteEnd, SemresetEnd, EndLoop
<1>4. CASE SignalnStep
  <2>1. SignalOne(s) /\ pc[currpid].op = "signaln"
    BY <1>1, <1>4 DEF SignalnStep, At
  <2>2. QED
    BY <1>2, <2>1, SignalOneOrderly DEF Resetting
<1>5. CASE SemdeleteStep
  <2>1. Release(s) /\ scount[s] < 0 /\ ~Resetting(s)
    BY <1>1, <1>2, <1>5 DEF SemdeleteStep, AllReleased, At, Resetting, IInv, RestOK
  <2>2. Len(squeue[s]) = -scount[s] /\ scount[s] \in Int
    BY <1>2, <2>1 DEF IInv, SemCount, RestOK
  <2>3. squeue[s] # <<>>
    BY <2>1, <2>2
  <2>4. QED
    BY <1>2, <2>1, <2>3, ReleaseOrderly
<1>6. CASE SemresetStep
  BY <1>1, <1>2, <1>6, ReleaseOrderly DEF SemresetStep
<1>7. QED
  BY <1>3, <1>4, <1>5, <1>6

LEMMA ClockOrderly ==
  ASSUME IInv, InOrder(readylist, qkey), Clock \/ Wakeup \/ WakeupEnd \/ ClockEnd
  PROVE  Orderly
<1>1. CASE Clock
  <2>1. CASE UNCHANGED qkey
    BY <1>1, <2>1, StillOrderly DEF Clock
  <2>2. CASE sleepq # <<>> /\ qkey' = [qkey EXCEPT ![Head(sleepq)] = @ - 1]
    <3>1. Head(sleepq) \in ToSet(sleepq)
      BY <2>2, SleepersApart DEF ToSet
    <3>2. \A x \in ToSet(readylist) : qkey'[x] = qkey[x]
      BY <2>2, <3>1, SleepersApart
    <3>3. InOrder(readylist, qkey')
      BY <3>2, OtherKeys
    <3>4. QED
      BY <1>1, <3>3 DEF Clock, Orderly, HeadRuns
  <2>3. QED
    BY <1>1, <2>1, <2>2 DEF Clock
<1>2. CASE Wakeup
  <2>1. PICK p : p = Head(sleepq)
    OBVIOUS
  <2>2. p \in ToSet(sleepq)
    BY <1>2, <2>1, SleepersApart DEF Wakeup, Expired, ToSet
  <2>3. p \in Pid /\ prstate[p] \in {"sleep", "rectim"}
    BY <2>2, SleepersApart DEF IInv, QueuesOK
  <2>4. QED
    BY <1>2, <2>1, <2>3, SleepersApart, ReadyOrderly DEF Wakeup
<1>3. CASE WakeupEnd
  BY <1>3, DeferStopOrderly DEF WakeupEnd
<1>4. CASE ClockEnd
  <2>1. SchedOK(prstate, readylist, qkey, currpid, preempt) /\ prprio \in [Pid -> Prio]
    BY DEF IInv, RestOK
  <2>2. QED
    BY <1>4, <2>1, DispatchOrderly, StillOrderly DEF ClockEnd
<1>5. QED
  BY <1>1, <1>2, <1>3, <1>4

LEMMA OrderStep == IInv /\ InOrder(readylist, qkey) /\ [Next]_vars => Orderly
<1>. SUFFICES ASSUME IInv, InOrder(readylist, qkey), [Next]_vars PROVE Orderly
  OBVIOUS
<1>1. CASE UNCHANGED vars
  BY <1>1, StillOrderly DEF vars
<1>2. CASE ProcessCall
  BY <1>2, SchedulingOrderly, ProcessOrderly DEF ProcessCall
<1>3. CASE SemaphoreCall
  BY <1>3, SemaphoreOrderly
<1>4. CASE KernelStep
  BY <1>4, KillEndOrderly, ProcessOrderly, ClockOrderly, LoopOrderly DEF KernelStep
<1>5. CASE Clock
  BY <1>5, ClockOrderly
<1>6. CASE Halted
  BY <1>1, <1>6 DEF Halted
<1>7. QED
  BY <1>1, <1>2, <1>3, <1>4, <1>5, <1>6 DEF Next

(* A context switch gives the processor to the head of a list that was in  *)
(* order: nobody left on the ready list has a greater key, whichever call, *)
(* timer or loop the switch comes from.                                    *)
THEOREM HighestKeyRuns == Spec => DispatchFirst
<1>1. Init => InOrder(readylist, qkey)
  BY DEF Init, InOrder
<1>2. IInv /\ InOrder(readylist, qkey) /\ [Next]_vars => InOrder(readylist, qkey)' /\ HeadRuns
  BY OrderStep DEF Orderly
<1>3. QED
  BY <1>1, <1>2, Inductive, PTL DEF Spec, DispatchFirst, HeadRuns

-----------------------------------------------------------------------------
(* The semaphore table *)

(* semreset sets the count it was called with when the queue is empty.     *)
ResetCounts == \A p \in Pid : pc[p].op = "semreset" => pc[p].n \in Counts

(* One lemma per step of SemaphoreSpec: what the table has to do for it.   *)
LEMMA IsExcuse ==
  ASSUME UNCHANGED <<scount, squeue>>
  PROVE  Semaphore!SemNext
<1>1. Units' = Units /\ squeue' = squeue
  BY DEF Units
<1>2. Semaphore!Excuse
  BY <1>1 DEF Semaphore!Excuse
<1>3. QED
  BY <1>2 DEF Semaphore!SemNext

(* Units available in the others are untouched. *)
LEMMA UnitsMove ==
  ASSUME scount \in [Sems -> Int], NEW s \in Sems, NEW n \in Int, scount' = [scount EXCEPT ![s] = n]
  PROVE  Units' = [Units EXCEPT ![s] = IF n > 0 THEN n ELSE 0]
BY DEF Units

LEMMA UnitsStay ==
  ASSUME scount \in [Sems -> Int], NEW s \in Sems, NEW n \in Int, scount' = [scount EXCEPT ![s] = n],
         n <= 0, scount[s] <= 0
  PROVE  Units' = Units /\ Units[s] = 0
<1>1. Units' = [Units EXCEPT ![s] = 0]
  <2>1. (IF n > 0 THEN n ELSE 0) = 0
    OBVIOUS
  <2>2. QED
    BY <2>1, UnitsMove
<1>2. Units[s] = 0 /\ Units = [x \in Sems |-> Units[x]]
  BY DEF Units
<1>3. PICK u : u = Units
  OBVIOUS
<1>4. [u EXCEPT ![s] = 0] = u
  BY <1>2, <1>3
<1>5. QED
  BY <1>1, <1>2, <1>3, <1>4

LEMMA IsPass ==
  ASSUME scount \in [Sems -> Int], NEW s \in Sems, scount[s] > 0,
         scount' = [scount EXCEPT ![s] = @ - 1], UNCHANGED squeue
  PROVE  Semaphore!SemNext
<1>1. PICK n \in Int : n = scount[s]
  OBVIOUS
<1>2. Units[s] = n /\ n - 1 \in Int /\ n - 1 >= 0
  BY <1>1 DEF Units
<1>3. scount' = [scount EXCEPT ![s] = n - 1]
  BY <1>1
<1>4. Units' = [Units EXCEPT ![s] = n - 1]
  <2>1. (IF n - 1 > 0 THEN n - 1 ELSE 0) = n - 1
    BY <1>2
  <2>2. QED
    BY <1>2, <1>3, <2>1, UnitsMove
<1>5. Units' = [Units EXCEPT ![s] = @ - 1]
  BY <1>2, <1>4
<1>6. Semaphore!Pass(s)
  BY <1>1, <1>2, <1>5 DEF Semaphore!Pass
<1>7. QED
  BY <1>6 DEF Semaphore!SemNext

LEMMA IsJoin ==
  ASSUME scount \in [Sems -> Int], NEW s \in Sems, NEW p \in Pid, scount[s] <= 0,
         scount' = [scount EXCEPT ![s] = @ - 1], squeue' = [squeue EXCEPT ![s] = Append(@, p)]
  PROVE  Semaphore!SemNext
<1>1. scount[s] - 1 \in Int /\ scount[s] - 1 <= 0
  OBVIOUS
<1>2. Units' = Units /\ Units[s] = 0
  BY <1>1, UnitsStay
<1>3. Semaphore!Join(p, s)
  BY <1>2 DEF Semaphore!Join
<1>4. QED
  BY <1>3 DEF Semaphore!SemNext

LEMMA IsFree ==
  ASSUME scount \in [Sems -> Int], NEW s \in Sems, scount[s] >= 0, squeue[s] = <<>>,
         scount' = [scount EXCEPT ![s] = @ + 1], UNCHANGED squeue
  PROVE  Semaphore!SemNext
<1>1. PICK n \in Int : n = scount[s]
  OBVIOUS
<1>2. Units[s] = n /\ n + 1 \in Int /\ n + 1 > 0
  BY <1>1 DEF Units
<1>3. scount' = [scount EXCEPT ![s] = n + 1]
  BY <1>1
<1>4. Units' = [Units EXCEPT ![s] = n + 1]
  BY <1>2, <1>3, UnitsMove
<1>5. Semaphore!Free(s)
  BY <1>2, <1>4 DEF Semaphore!Free
<1>6. QED
  BY <1>5 DEF Semaphore!SemNext

LEMMA IsGrant ==
  ASSUME scount \in [Sems -> Int], NEW s \in Sems, squeue[s] # <<>>,
         squeue' = [squeue EXCEPT ![s] = Tail(@)],
         \/ UNCHANGED scount
         \/ scount[s] < 0 /\ scount' = [scount EXCEPT ![s] = @ + 1]
  PROVE  Semaphore!SemNext
<1>1. Units' = Units
  <2>1. CASE UNCHANGED scount
    BY <2>1 DEF Units
  <2>2. CASE scount[s] < 0 /\ scount' = [scount EXCEPT ![s] = @ + 1]
    <3>1. scount[s] + 1 \in Int /\ scount[s] + 1 <= 0 /\ scount[s] <= 0
      BY <2>2
    <3>2. QED
      BY <2>2, <3>1, UnitsStay
  <2>3. QED
    BY <2>1, <2>2
<1>2. Semaphore!Grant(s)
  BY <1>1 DEF Semaphore!Grant
<1>3. QED
  BY <1>2 DEF Semaphore!SemNext

LEMMA IsRestart ==
  ASSUME scount \in [Sems -> Int], NEW s \in Sems, NEW n \in Counts, squeue[s] = <<>>,
         scount' = [scount EXCEPT ![s] = n], UNCHANGED squeue
  PROVE  Semaphore!SemNext
<1>1. n \in Int /\ (IF n > 0 THEN n ELSE 0) = n
  BY ArgumentAssumption
<1>2. Units' = [Units EXCEPT ![s] = n]
  BY <1>1, UnitsMove
<1>3. Semaphore!Restart(s, n)
  BY <1>2 DEF Semaphore!Restart
<1>4. QED
  BY <1>3 DEF Semaphore!SemNext

LEMMA IsWithdraw ==
  ASSUME scount \in [Sems -> Int], NEW s \in Sems, scount[s] < 0,
         scount' = [scount EXCEPT ![s] = @ + 1],
         squeue \in [Sems -> Seq(Pid)], IsInjective(squeue[s]), NEW p \in ToSet(squeue[s]),
         squeue' = [squeue EXCEPT ![s] = Getitem(@, p)], prstate'[p] = "free"
  PROVE  Semaphore!SemNext
<1>1. PICK q \in Seq(Pid) : q = squeue[s]
  OBVIOUS
<1>2. PICK i \in 1..Len(q) : q[i] = p
  BY <1>1 DEF ToSet
<1>3. Getitem(q, p) = [j \in 1..(Len(q) - 1) |-> IF j < i THEN q[j] ELSE q[j + 1]]
  <2>3. Getitem(q, p) = RemoveAt(q, i)
    BY <1>1, <1>2, GetitemIs
  <2>4. /\ RemoveAt(q, i) \in Seq(Pid) /\ Len(RemoveAt(q, i)) = Len(q) - 1
        /\ \A j \in 1..(Len(q) - 1) :
             RemoveAt(q, i)[j] = IF j < i THEN q[j] ELSE q[j + 1]
    BY RemoveAtElements
  <2>5. QED
    BY <2>3, <2>4
<1>4. squeue' = [squeue EXCEPT ![s] =
                   [j \in 1..(Len(@) - 1) |-> IF j < i THEN @[j] ELSE @[j + 1]]]
  BY <1>1, <1>3
<1>5. Units' = Units
  <2>1. scount[s] + 1 \in Int /\ scount[s] + 1 <= 0 /\ scount[s] <= 0
    OBVIOUS
  <2>2. QED
    BY <2>1, UnitsStay
<1>6. p \in Pid
  BY <1>1 DEF ToSet
<1>7. Semaphore!Withdraw(s)
  BY <1>1, <1>2, <1>4, <1>5, <1>6 DEF Semaphore!Withdraw
<1>8. QED
  BY <1>7 DEF Semaphore!SemNext

LEMMA ResetCountsKept ==
  ASSUME IInv, ResetCounts, [Next]_vars
  PROVE  ResetCounts'
<1>. DEFINE Kept == \A p \in Pid : \/ pc'[p] = pc[p] \/ pc'[p].op # "semreset"
                                   \/ pc'[p].n \in Counts
<1>1. /\ pc \in [Pid -> Cont] /\ currpid \in Pid /\ User.op # "semreset"
      /\ \A o, a, n : [op |-> o, arg |-> a, n |-> n].op = o /\ [op |-> o, arg |-> a, n |-> n].n = n
  BY DEF IInv, ContOK, SchedOK, User
<1>2. ASSUME UNCHANGED pc \/ \E c : (c.op # "semreset" \/ c.n \in Counts) /\ Continue(c) PROVE Kept
  BY <1>1, <1>2 DEF Continue
<1>3. CASE UNCHANGED vars
  BY <1>2, <1>3 DEF vars, ResetCounts
<1>4. ASSUME ProcessCall PROVE Kept
  <2>1. ASSUME NEW prio \in Prios, Create(prio) PROVE Kept
    BY <1>1, <2>1 DEF Create
  <2>2. ASSUME NEW pid \in Pid, Kill(pid) PROVE Kept
    BY <1>1, <1>2, <2>2 DEF Kill
  <2>3. ASSUME NEW pid \in Pid, Suspend(pid) \/ Resume(pid) \/ Send(pid) PROVE Kept
    BY <1>2, <2>3 DEF Suspend, Resume, Send
  <2>4. ASSUME NEW pid \in Pid, NEW newprio \in NewPrios, Chprio(pid, newprio) PROVE Kept
    BY <1>2, <2>4 DEF Chprio
  <2>5. ASSUME Yield \/ Receive \/ Recvclr PROVE Kept
    BY <1>1, <1>2, <2>5 DEF Yield, Receive, Recvclr
  <2>6. ASSUME NEW d \in Delays, Recvtime(d) \/ Sleepms(d) PROVE Kept
    BY <1>1, <1>2, <2>6 DEF Recvtime, Sleepms
  <2>7. QED
    BY <1>4, <2>1, <2>2, <2>3, <2>4, <2>5, <2>6 DEF ProcessCall
<1>5. ASSUME SemaphoreCall PROVE Kept
  <2>1. ASSUME NEW n \in Counts, Semcreate(n) PROVE Kept
    BY <1>2, <2>1 DEF Semcreate
  <2>2. ASSUME NEW s \in Sems, Wait(s) \/ Signal(s) PROVE Kept
    BY <1>2, <2>2 DEF Wait, Signal
  <2>3. ASSUME NEW s \in Sems, Semdelete(s) PROVE Kept
    BY <1>1, <1>2, <2>3 DEF Semdelete, StartLoop
  <2>4. ASSUME NEW s \in Sems, NEW n \in Counts, Signaln(s, n) PROVE Kept
    BY <1>1, <1>2, <2>4 DEF Signaln, StartLoop
  <2>5. ASSUME NEW s \in Sems, NEW n \in Counts, Semreset(s, n) PROVE Kept
    BY <1>1, <1>2, <2>5 DEF Semreset, StartLoop
  <2>6. QED
    BY <1>5, <2>1, <2>2, <2>3, <2>4, <2>5 DEF SemaphoreCall
<1>6. ASSUME KernelStep PROVE Kept
  <2>1. ASSUME KillEnd PROVE Kept
    BY <1>1, <2>1 DEF KillEnd
  <2>2. ASSUME ReceiveEnd \/ Wakeup \/ WakeupEnd \/ ClockEnd PROVE Kept
    BY <1>1, <1>2, <2>2 DEF ReceiveEnd, Wakeup, WakeupEnd, ClockEnd
  <2>3. ASSUME SignalnStep PROVE Kept
    <3>1. [pc[currpid] EXCEPT !.n = @ - 1].op # "semreset"
      BY <1>1, <2>3 DEF SignalnStep, At, Cont
    <3>2. QED
      BY <1>2, <2>3, <3>1 DEF SignalnStep
  <2>4. ASSUME SemdeleteStep \/ SemresetStep PROVE Kept
    BY <1>2, <2>4 DEF SemdeleteStep, SemresetStep
  <2>5. ASSUME SignalnEnd \/ SemdeleteEnd \/ SemresetEnd PROVE Kept
    BY <1>1, <1>2, <2>5 DEF SignalnEnd, SemdeleteEnd, SemresetEnd, EndLoop
  <2>6. QED
    BY <1>6, <2>1, <2>2, <2>3, <2>4, <2>5 DEF KernelStep
<1>7. ASSUME Clock PROVE Kept
  BY <1>1, <1>2, <1>7 DEF Clock
<1>8. CASE Halted
  BY <1>3, <1>8 DEF Halted
<1>9. CASE Kept
  BY <1>9 DEF ResetCounts
<1>10. QED
  BY <1>3, <1>4, <1>5, <1>6, <1>7, <1>8, <1>9 DEF Next

-----------------------------------------------------------------------------
(* The steps of the kernel *)

LEMMA SemTypes ==
  ASSUME IInv
  PROVE  /\ scount \in [Sems -> Int] /\ squeue \in [Sems -> Seq(Pid)] /\ currpid \in Pid
         /\ \A s \in Sems : ~Resetting(s) =>
              /\ scount[s] >= 0 => squeue[s] = <<>>
              /\ scount[s] < 0 => squeue[s] # <<>>
<1>1. scount \in [Sems -> Int] /\ squeue \in [Sems -> Seq(Pid)] /\ currpid \in Pid
  BY DEF IInv, RestOK, QueuesOK, SchedOK
<1>2. ASSUME NEW s \in Sems, ~Resetting(s)
      PROVE  (scount[s] >= 0 => squeue[s] = <<>>) /\ (scount[s] < 0 => squeue[s] # <<>>)
  <2>1. Len(squeue[s]) = IF scount[s] < 0 THEN -scount[s] ELSE 0
    BY <1>2 DEF IInv, SemCount
  <2>2. scount[s] \in Int /\ squeue[s] \in Seq(Pid)
    BY <1>1
  <2>3. QED
    BY <2>1, <2>2
<1>3. QED
  BY <1>1, <1>2

LEMMA ProcessSem ==
  ASSUME ProcessCall \/ Clock \/ ReceiveEnd \/ Wakeup \/ WakeupEnd \/ ClockEnd
  PROVE  Semaphore!SemNext
<1>1. CASE ProcessCall
  BY <1>1, IsExcuse DEF ProcessCall, semVars, Create, Kill, Suspend, Resume, Send, Chprio, Yield,
                        Receive, Recvclr, Recvtime, Sleepms
<1>2. CASE Clock \/ ReceiveEnd
  BY <1>2, IsExcuse DEF Clock, ReceiveEnd, semVars
<1>3. CASE Wakeup \/ WakeupEnd \/ ClockEnd
  BY <1>3, IsExcuse DEF Wakeup, WakeupEnd, ClockEnd, semVars
<1>4. QED
  BY <1>1, <1>2, <1>3

LEMMA SignalSem ==
  ASSUME IInv, NEW s \in Sems, ~Resetting(s), SignalOne(s)
  PROVE  Semaphore!SemNext
<1>1. CASE scount[s] < 0 /\ Release(s)
  BY <1>1, SemTypes, IsGrant DEF SignalOne, Release
<1>2. CASE scount[s] >= 0 /\ UNCHANGED squeue
  BY <1>2, SemTypes, IsFree DEF SignalOne
<1>3. QED
  BY <1>1, <1>2 DEF SignalOne

LEMMA CallSem ==
  ASSUME IInv, SemaphoreCall
  PROVE  Semaphore!SemNext
<1>1. /\ scount \in [Sems -> Int] /\ squeue \in [Sems -> Seq(Pid)] /\ currpid \in Pid
  BY SemTypes
<1>2. ASSUME NEW n \in Counts, Semcreate(n) PROVE Semaphore!SemNext
  <2>1. PICK s : s = NewSem
    OBVIOUS
  <2>2. s \in Sems /\ sstate[s] = "S_FREE"
    <3>1. PICK free : free = {x \in Sems : sstate[x] = "S_FREE"}
      OBVIOUS
    <3>2. free \subseteq 0..(NSEM - 1) /\ free # {}
      BY <1>2, <3>1 DEF Semcreate, Sems
    <3>3. nextsem \in 0..NSEM /\ NSEM \in Nat
      BY TableAssumption DEF IInv, RestOK, Sems
    <3>4. NextFree(nextsem, NSEM, free) \in free
      BY <3>2, <3>3, NextFreeOK
    <3>5. QED
      BY <2>1, <3>1, <3>4 DEF NewSem
  <2>3. squeue[s] = <<>>
    BY <1>2, <2>2 DEF IInv, FreeSemEmpty, Semcreate, Calling, Running, At
  <2>4. scount' = [scount EXCEPT ![s] = n] /\ UNCHANGED squeue
    BY <1>2, <2>1 DEF Semcreate
  <2>5. QED
    BY <1>1, <2>2, <2>3, <2>4, IsRestart
<1>3. ASSUME NEW s \in Sems, Wait(s) PROVE Semaphore!SemNext
  <2>1. CASE scount[s] - 1 < 0 /\ squeue' = [squeue EXCEPT ![s] = Append(@, currpid)]
    <3>1. scount[s] <= 0
      BY <1>1, <2>1
    <3>2. QED
      BY <1>1, <1>3, <2>1, <3>1, IsJoin DEF Wait
  <2>2. CASE scount[s] - 1 >= 0 /\ UNCHANGED squeue
    <3>1. scount[s] > 0
      BY <1>1, <2>2
    <3>2. QED
      BY <1>1, <1>3, <2>2, <3>1, IsPass DEF Wait
  <2>3. QED
    BY <1>3, <2>1, <2>2 DEF Wait
<1>4. ASSUME NEW s \in Sems, Signal(s) PROVE Semaphore!SemNext
  BY <1>4, SignalSem DEF Signal, Running, At, Resetting
<1>5. ASSUME NEW s \in Sems, NEW n \in Counts, Signaln(s, n) \/ Semreset(s, n) \/ Semdelete(s)
      PROVE  Semaphore!SemNext
  BY <1>5, IsExcuse DEF Signaln, Semreset, Semdelete, StartLoop
<1>6. ASSUME NEW s \in Sems, Semdelete(s) PROVE Semaphore!SemNext
  BY <1>6, IsExcuse DEF Semdelete, StartLoop
<1>7. QED
  BY <1>2, <1>3, <1>4, <1>5, <1>6 DEF SemaphoreCall

LEMMA KillEndSem ==
  ASSUME IInv, KillEnd
  PROVE  Semaphore!SemNext
<1>1. PICK pid : pid = pc[currpid].arg
  OBVIOUS
<1>2. /\ scount \in [Sems -> Int] /\ squeue \in [Sems -> Seq(Pid)] /\ currpid \in Pid
      /\ prstate \in [Pid -> PState]
  BY SemTypes DEF IInv, SchedOK
<1>3. pid \in Pid
  BY <1>1, <1>2 DEF KillEnd, At, IInv, ContOK
<1>4. CASE prstate[pid] = "wait" /\ LeaveSem(pid) /\ prstate' = [prstate EXCEPT ![pid] = "free"]
  <2>1. PICK s : s = prsem[pid]
    OBVIOUS
  <2>2. s \in Sems /\ pid \in ToSet(squeue[s]) /\ IsInjective(squeue[s])
    BY <1>3, <1>4, <2>1 DEF IInv, QueuesOK
  <2>3. squeue[s] # <<>> /\ ~Resetting(s)
    BY <2>2 DEF ToSet, KillEnd, At, Resetting
  <2>4. scount[s] < 0
    BY <1>2, <2>2, <2>3, SemTypes
  <2>5. /\ scount' = [scount EXCEPT ![s] = @ + 1]
        /\ squeue' = [squeue EXCEPT ![s] = Getitem(@, pid)]
    BY <1>4, <2>1 DEF LeaveSem
  <2>6. prstate'[pid] = "free"
    BY <1>2, <1>3, <1>4
  <2>7. QED
    BY <1>2, <2>2, <2>4, <2>5, <2>6, IsWithdraw
<1>5. CASE UNCHANGED <<scount, squeue>>
  BY <1>5, IsExcuse
<1>6. QED
  BY <1>1, <1>4, <1>5 DEF KillEnd

LEMMA LoopSem ==
  ASSUME IInv, ResetCounts, \/ SignalnStep \/ SignalnEnd \/ SemdeleteStep \/ SemdeleteEnd
                            \/ SemresetStep \/ SemresetEnd
  PROVE  Semaphore!SemNext
<1>1. PICK s : s = pc[currpid].arg
  OBVIOUS
<1>2. /\ pc[currpid].op \in {"signaln", "semdelete", "semreset"} /\ s \in Sems
      /\ scount \in [Sems -> Int] /\ squeue \in [Sems -> Seq(Pid)] /\ currpid \in Pid
  BY <1>1, SemTypes DEF SignalnStep, SignalnEnd, SemdeleteStep, SemdeleteEnd, SemresetStep, SemresetEnd,
              At, IInv, ContOK
<1>3. CASE SignalnStep
  <2>1. SignalOne(s) /\ ~Resetting(s)
    BY <1>1, <1>3 DEF SignalnStep, At, Resetting
  <2>2. QED
    BY <1>2, <2>1, SignalSem
<1>4. CASE SignalnEnd
  BY <1>4, IsExcuse DEF SignalnEnd, EndLoop
<1>5. CASE SemdeleteStep
  <2>1. /\ scount[s] < 0 /\ ~Resetting(s) /\ scount' = [scount EXCEPT ![s] = @ + 1]
        /\ squeue' = [squeue EXCEPT ![s] = Tail(@)]
    BY <1>1, <1>2, <1>5 DEF SemdeleteStep, AllReleased, At, Resetting, Release
  <2>2. QED
    BY <1>2, <2>1, SemTypes, IsGrant
<1>6. CASE SemdeleteEnd
  <2>1. /\ scount[s] >= 0 /\ ~Resetting(s) /\ scount' = [scount EXCEPT ![s] = @ + 1]
        /\ UNCHANGED squeue
    BY <1>1, <1>6 DEF SemdeleteEnd, AllReleased, At, Resetting, EndLoop
  <2>2. squeue[s] = <<>>
    BY <1>2, <2>1, SemTypes
  <2>3. QED
    BY <1>2, <2>1, <2>2, IsFree
<1>7. CASE SemresetStep
  <2>1. squeue[s] # <<>> /\ squeue' = [squeue EXCEPT ![s] = Tail(@)] /\ UNCHANGED scount
    BY <1>1, <1>7 DEF SemresetStep, Release
  <2>2. QED
    BY <1>2, <2>1, IsGrant
<1>8. CASE SemresetEnd
  <2>1. PICK n : n = pc[currpid].n
    OBVIOUS
  <2>2. n \in Counts
    BY <1>2, <1>8, <2>1 DEF SemresetEnd, At, ResetCounts
  <2>3. squeue[s] = <<>> /\ scount' = [scount EXCEPT ![s] = n] /\ UNCHANGED squeue
    BY <1>1, <1>8, <2>1 DEF SemresetEnd, EndLoop
  <2>4. QED
    BY <1>2, <2>2, <2>3, IsRestart
<1>9. QED
  BY <1>3, <1>4, <1>5, <1>6, <1>7, <1>8

LEMMA SemStep ==
  ASSUME IInv, ResetCounts, [Next]_vars
  PROVE  [Semaphore!SemNext]_(Semaphore!semSpecVars)
<1>1. CASE UNCHANGED vars
  BY <1>1, IsExcuse DEF vars
<1>2. CASE ProcessCall \/ Clock
  BY <1>2, ProcessSem
<1>3. CASE SemaphoreCall
  BY <1>3, CallSem
<1>4. CASE KernelStep
  BY <1>4, ProcessSem, KillEndSem, LoopSem DEF KernelStep
<1>5. CASE Halted
  BY <1>1, <1>5 DEF Halted
<1>6. QED
  BY <1>1, <1>2, <1>3, <1>4, <1>5 DEF Next

(* wait, signal, signaln, semreset, semdelete and kill implement the       *)
(* promise of a semaphore, step for step: units are never available while  *)
(* processes wait, waiters leave in the order they came, and only the dead *)
(* leave from the middle.                                                  *)
THEOREM SemaphoresKeepPromise == Spec => SemtabIsSemaphore
<1>1. Init => ResetCounts
  BY DEF Init, ResetCounts, User
<1>2. Init => Semaphore!SemInit
  BY DEF Init, Semaphore!SemInit, Units
<1>3. IInv /\ ResetCounts /\ [Next]_vars => ResetCounts'
  BY ResetCountsKept
<1>4. IInv /\ ResetCounts /\ [Next]_vars => [Semaphore!SemNext]_(Semaphore!semSpecVars)
  BY SemStep
<1>5. QED
  BY <1>1, <1>2, <1>3, <1>4, Inductive, PTL DEF Spec, SemtabIsSemaphore, Semaphore!SemSpec

-----------------------------------------------------------------------------
(* Delta lists *)

IsSums(q, qk, S) ==
  /\ S \in [0..Len(q) -> Int]
  /\ S[0] = 0
  /\ \A i \in 1..Len(q) : S[i] = S[i - 1] + qk[q[i]]

LEMMA SumsUnique ==
  ASSUME NEW q \in Seq(Pid), NEW qk \in [Pid -> Int], NEW f, NEW g,
         DOMAIN f = 0..Len(q), f = [i \in 0..Len(q) |-> f[i]], f[0] = 0,
         \A i \in 1..Len(q) : f[i] = f[i - 1] + qk[q[i]],
         IsSums(q, qk, g)
  PROVE  f = g
<1>1. PICK n \in Nat : n = Len(q)
  OBVIOUS
<1>2. PICK T : T = {i \in 0..n : f[i] # g[i]}
  OBVIOUS
<1>3. CASE T = {}
  BY <1>1, <1>2, <1>3 DEF IsSums
<1>4. CASE T # {}
  <2>1. T \in SUBSET Nat
    BY <1>2
  <2>2. PICK x \in T : \A y \in T : x <= y
    BY <1>4, <2>1, LeastNatural
  <2>3. x # 0 /\ x \in 1..n /\ x - 1 \in 0..n /\ x - 1 \notin T
    BY <1>1, <1>2, <2>2 DEF IsSums
  <2>4. f[x - 1] = g[x - 1]
    BY <1>2, <2>3
  <2>5. f[x] = g[x]
    BY <1>1, <2>3, <2>4 DEF IsSums
  <2>6. QED
    BY <1>2, <2>2, <2>5
<1>5. QED
  BY <1>3, <1>4

LEMMA DelaySteps ==
  ASSUME NEW q \in Seq(Pid), NEW qk \in [Pid -> Int], NEW d \in Int
  PROVE  /\ DelayLeft(q, qk, d) \in [1..(Len(q) + 1) -> Int]
         /\ DelayLeft(q, qk, d)[1] = d
         /\ \A i \in 1..Len(q) :
              DelayLeft(q, qk, d)[i + 1] = DelayLeft(q, qk, d)[i] - qk[q[i]]
<1>1. \A p \in ToSet(q) : qk[p] \in Int
  BY DEF ToSet
<1>2. QED
  BY <1>1, DelayLeftType

LEMMA SumsAre ==
  ASSUME NEW q \in Seq(Pid), NEW qk \in [Pid -> Int]
  PROVE  IsSums(q, qk, DeltaSums(q, qk))
<1>1. PICK n \in Nat : n = Len(q)
  OBVIOUS
<1>2. \A p \in ToSet(q) : qk[p] \in Int
  BY DEF ToSet
<1>3. PICK left : left = DelayLeft(q, qk, 0)
  OBVIOUS
<1>4. /\ left \in [1..(n + 1) -> Int] /\ left[1] = 0
      /\ \A i \in 1..n : left[i + 1] = left[i] - qk[q[i]]
  BY <1>1, <1>3, DelaySteps
<1>5. PICK g : g = [i \in 0..n |-> -left[i + 1]]
  OBVIOUS
<1>6. IsSums(q, qk, g)
  <2>1. g \in [0..n -> Int] /\ g[0] = 0
    BY <1>4, <1>5
  <2>2. ASSUME NEW i \in 1..n PROVE g[i] = g[i - 1] + qk[q[i]]
    <3>1. i - 1 \in 0..n /\ i \in 0..n /\ (i - 1) + 1 = i
      OBVIOUS
    <3>2. g[i] = -left[i + 1] /\ g[i - 1] = -left[i]
      BY <1>5, <3>1
    <3>3. left[i] \in Int /\ left[i + 1] \in Int /\ qk[q[i]] \in Int
      BY <1>1, <1>4, SMTT(60)
    <3>4. QED
      BY <1>4, <3>2, <3>3
  <2>3. QED
    BY <1>1, <2>1, <2>2 DEF IsSums
<1>. DEFINE Body(h) == [i \in 0..Len(q) |-> IF i = 0 THEN 0 ELSE h[i - 1] + qk[q[i]]]
<1>7. g = Body(g)
  BY <1>1, <1>6 DEF IsSums
<1>8. DeltaSums(q, qk) = CHOOSE h : h = Body(h)
  BY DEF DeltaSums
<1>9. PICK f : f = DeltaSums(q, qk)
  OBVIOUS
<1>10. f = Body(f)
  <2>. HIDE DEF Body
  <2>1. QED
    BY <1>7, <1>8, <1>9
<1>11. f = g
  <2>1. \A i \in 0..Len(q) : f[i] = IF i = 0 THEN 0 ELSE f[i - 1] + qk[q[i]]
    BY <1>10
  <2>2. DOMAIN f = 0..Len(q) /\ f = [i \in 0..Len(q) |-> f[i]]
    BY <1>10
  <2>. HIDE DEF Body
  <2>3. f[0] = 0 /\ \A i \in 1..Len(q) : f[i] = f[i - 1] + qk[q[i]]
    BY <1>1, <2>1
  <2>4. QED
    BY <1>6, <2>2, <2>3, SumsUnique
<1>12. QED
  BY <1>6, <1>9, <1>11

LEMMA SumsAlone ==
  ASSUME NEW q \in Seq(Pid), NEW qk \in [Pid -> Int], NEW S, IsSums(q, qk, S)
  PROVE  DeltaSums(q, qk) = S
<1>1. PICK f : f = DeltaSums(q, qk)
  OBVIOUS
<1>2. IsSums(q, qk, f)
  BY <1>1, SumsAre
<1>3. /\ DOMAIN f = 0..Len(q) /\ f = [i \in 0..Len(q) |-> f[i]] /\ f[0] = 0
      /\ \A i \in 1..Len(q) : f[i] = f[i - 1] + qk[q[i]]
  BY <1>2 DEF IsSums
<1>4. f = S
  BY <1>3, SumsUnique
<1>5. QED
  BY <1>1, <1>4

(* What insertd has left of a delay at an entry.                           *)
LEMMA LeftIsSums ==
  ASSUME NEW q \in Seq(Pid), NEW qk \in [Pid -> Int], NEW d \in Int,
         NEW i \in 1..(Len(q) + 1)
  PROVE  DelayLeft(q, qk, d)[i] = d - DeltaSums(q, qk)[i - 1]
<1>1. PICK n \in Nat : n = Len(q)
  OBVIOUS
<1>2. \A p \in ToSet(q) : qk[p] \in Int
  BY DEF ToSet
<1>3. PICK left : left = DelayLeft(q, qk, d)
  OBVIOUS
<1>4. /\ left \in [1..(n + 1) -> Int] /\ left[1] = d
      /\ \A j \in 1..n : left[j + 1] = left[j] - qk[q[j]]
  <2>1. /\ DelayLeft(q, qk, d) \in [1..(Len(q) + 1) -> Int]
        /\ DelayLeft(q, qk, d)[1] = d
        /\ \A j \in 1..Len(q) :
             DelayLeft(q, qk, d)[j + 1] = DelayLeft(q, qk, d)[j] - qk[q[j]]
    BY DelaySteps, Zenon
  <2>2. QED
    BY <1>1, <1>3, <2>1
<1>5. PICK g : g = [j \in 0..n |-> d - left[j + 1]]
  OBVIOUS
<1>6. IsSums(q, qk, g)
  <2>1. g \in [0..n -> Int] /\ g[0] = 0
    BY <1>4, <1>5
  <2>2. ASSUME NEW j \in 1..n PROVE g[j] = g[j - 1] + qk[q[j]]
    <3>1. j - 1 \in 0..n /\ j \in 0..n /\ (j - 1) + 1 = j
      OBVIOUS
    <3>2. g[j] = d - left[j + 1] /\ g[j - 1] = d - left[j]
      BY <1>5, <3>1
    <3>3. left[j] \in Int /\ left[j + 1] \in Int
      <4>1. j \in 1..(n + 1) /\ j + 1 \in 1..(n + 1)
        OBVIOUS
      <4>2. QED
        BY <1>4, <4>1
    <3>4. qk[q[j]] \in Int
      BY <1>1
    <3>5. left[j + 1] = left[j] - qk[q[j]]
      BY <1>4
    <3>6. \A a, b, c, e \in Int : b = a - c => e - b = (e - a) + c
      OBVIOUS
    <3>7. d - left[j + 1] = (d - left[j]) + qk[q[j]]
      BY ONLY <3>3, <3>4, <3>5, <3>6, d \in Int
    <3>8. QED
      BY ONLY <3>2, <3>7
  <2>3. QED
    BY <1>1, <2>1, <2>2 DEF IsSums
<1>7. DeltaSums(q, qk) = g
  BY <1>6, SumsAlone
<1>8. i - 1 \in 0..n /\ (i - 1) + 1 = i /\ left[i] \in Int
  BY <1>1, <1>4
<1>9. QED
  BY <1>3, <1>5, <1>7, <1>8

(* TicksLeft from its values.                                              *)
LEMMA TicksAt ==
  ASSUME NEW q \in Seq(Pid), NEW qk \in [Pid -> Int], IsInjective(q)
  PROVE  /\ \A i \in 1..Len(q) : Ticks(q, qk)[q[i]] = DeltaSums(q, qk)[i]
         /\ \A p \in Pid \ ToSet(q) : Ticks(q, qk)[p] = -1
         /\ Ticks(q, qk) \in [Pid -> Int]
<1>1. ASSUME NEW i \in 1..Len(q)
      PROVE  Ticks(q, qk)[q[i]] = DeltaSums(q, qk)[i]
  <2>1. (CHOOSE j \in 1..Len(q) : q[j] = q[i]) = i
    BY DEF IsInjective
  <2>2. q[i] \in Pid /\ q[i] \in ToSet(q)
    BY DEF ToSet
  <2>3. QED
    BY <2>1, <2>2 DEF Ticks
<1>2. \A p \in Pid \ ToSet(q) : Ticks(q, qk)[p] = -1
  BY DEF Ticks
<1>3. ASSUME NEW p \in ToSet(q) PROVE Ticks(q, qk)[p] \in Int
  <2>1. PICK i \in 1..Len(q) : p = q[i]
    BY DEF ToSet
  <2>2. DeltaSums(q, qk)[i] \in Int
    BY SumsAre DEF IsSums
  <2>3. QED
    BY <1>1, <2>1, <2>2
<1>4. Ticks(q, qk) \in [Pid -> Int]
  <2>1. \A p \in Pid : Ticks(q, qk)[p] \in Int
    BY <1>2, <1>3
  <2>2. Ticks(q, qk) = [p \in Pid |-> Ticks(q, qk)[p]]
    BY DEF Ticks
  <2>3. QED
    BY <2>1, <2>2
<1>5. QED
  BY <1>1, <1>2, <1>4

(* L gives every process on the queue its sum in S, and nobody else one.   *)
AreTicks(q, qk, S, L) ==
  /\ q \in Seq(Pid) /\ IsInjective(q)
  /\ qk \in [Pid -> Int]
  /\ IsSums(q, qk, S)
  /\ L \in [Pid -> Int]
  /\ \A i \in 1..Len(q) : L[q[i]] = S[i]
  /\ \A p \in Pid \ ToSet(q) : L[p] = -1

LEMMA TicksEqual ==
  ASSUME NEW q, NEW qk, NEW S, NEW L, AreTicks(q, qk, S, L)
  PROVE  Ticks(q, qk) = L
<1>0. q \in Seq(Pid) /\ IsInjective(q) /\ qk \in [Pid -> Int]
  BY DEF AreTicks
<1>1. DeltaSums(q, qk) = S
  BY <1>0, SumsAlone DEF AreTicks
<1>2. ASSUME NEW p \in Pid PROVE Ticks(q, qk)[p] = L[p]
  <2>1. CASE p \in ToSet(q)
    <3>1. PICK i \in 1..Len(q) : p = q[i]
      BY <2>1 DEF ToSet
    <3>2. Ticks(q, qk)[q[i]] = S[i]
      BY <1>0, <1>1, TicksAt
    <3>3. QED
      BY <3>1, <3>2 DEF AreTicks
  <2>2. CASE p \notin ToSet(q)
    <3>1. Ticks(q, qk)[p] = -1
      BY <1>0, <2>2, TicksAt
    <3>2. QED
      BY <2>2, <3>1 DEF AreTicks
  <2>3. QED
    BY <2>1, <2>2
<1>3. Ticks(q, qk) \in [Pid -> Int]
  BY <1>0, TicksAt
<1>4. QED
  BY <1>2, <1>3 DEF AreTicks

LEMMA TicksAre ==
  ASSUME NEW q \in Seq(Pid), NEW qk \in [Pid -> Int], IsInjective(q)
  PROVE  AreTicks(q, qk, DeltaSums(q, qk), Ticks(q, qk))
BY SumsAre, TicksAt DEF AreTicks

LEMMA OtherTicks ==
  ASSUME NEW q \in Seq(Pid), NEW qk \in [Pid -> Int], IsInjective(q),
         NEW new \in [Pid -> Int], \A p \in ToSet(q) : new[p] = qk[p]
  PROVE  Ticks(q, new) = Ticks(q, qk)
<1>1. PICK S : S = DeltaSums(q, qk)
  OBVIOUS
<1>2. IsSums(q, qk, S)
  BY <1>1, SumsAre
<1>3. \A i \in 1..Len(q) : new[q[i]] = qk[q[i]]
  BY DEF ToSet
<1>4. IsSums(q, new, S)
  BY <1>2, <1>3 DEF IsSums
<1>5. DeltaSums(q, new) = S
  BY <1>4, SumsAlone
<1>6. QED
  BY <1>1, <1>5 DEF Ticks

(* No delta is negative. *)
Counting(q, qk) == \A i \in 1..Len(q) : qk[q[i]] >= 0

LEMMA SumsGrow ==
  ASSUME NEW q \in Seq(Pid), NEW qk \in [Pid -> Int], Counting(q, qk), NEW i \in 1..Len(q)
  PROVE  DeltaSums(q, qk)[i] >= qk[q[1]]
<1>1. PICK S : S = DeltaSums(q, qk)
  OBVIOUS
<1>2. IsSums(q, qk, S)
  BY <1>1, SumsAre
<1>3. /\ Len(q) \in Nat
      /\ \A j \in 0..Len(q) : S[j] \in Int
      /\ \A j \in 1..Len(q) : S[j] = S[j - 1] + qk[q[j]] /\ qk[q[j]] \in Int /\ qk[q[j]] >= 0
      /\ S[0] = 0
  <2>1. \A j \in 1..Len(q) : qk[q[j]] \in Int /\ qk[q[j]] >= 0
    BY DEF Counting
  <2>2. S \in [0..Len(q) -> Int] /\ S[0] = 0
        /\ \A j \in 1..Len(q) : S[j] = S[j - 1] + qk[q[j]]
    BY <1>2 DEF IsSums
  <2>3. QED
    BY <2>1, <2>2
<1>4. PICK T : T = {j \in 1..Len(q) : ~(S[j] >= qk[q[1]])}
  OBVIOUS
<1>5. CASE T = {}
  <2>1. \A j \in 1..Len(q) : S[j] >= qk[q[1]]
    BY <1>4, <1>5
  <2>2. S[i] >= qk[q[1]]
    BY <2>1
  <2>3. QED
    BY <1>1, <2>2
<1>6. CASE T # {}
  <2>0. T \in SUBSET Nat
    BY <1>4
  <2>1. PICK x \in T : \A y \in T : x <= y
    BY <1>6, <2>0, LeastNatural
  <2>2. x \in 1..Len(q) /\ S[x] = S[x - 1] + qk[q[x]] /\ qk[q[x]] \in Int /\ qk[q[x]] >= 0
        /\ S[x] \in Int /\ S[x - 1] \in Int
    BY <1>3, <1>4
  <2>3. CASE x = 1
    BY <1>3, <1>4, <2>1, <2>2, <2>3
  <2>4. CASE x # 1
    <3>1. x - 1 \in 1..Len(q) /\ x - 1 \notin T
      BY <1>3, <2>1, <2>2, <2>4
    <3>2. S[x - 1] >= qk[q[1]] /\ qk[q[1]] \in Int
      BY <1>3, <1>4, <3>1
    <3>3. S[x] >= qk[q[1]]
      BY <2>2, <3>2
    <3>4. QED
      BY <1>4, <2>1, <3>3
  <2>5. QED
    BY <2>3, <2>4
<1>7. QED
  BY <1>5, <1>6

(* The arithmetic of a delay that is split in two.                         *)
LEMMA RestOfDelay ==
  ASSUME NEW a \in Int, NEW b \in Int, NEW k \in Int, NEW d \in Int, NEW r \in Int,
         a = b + k, r = d - b
  PROVE  a = d + (k - r)
OBVIOUS

(* insertd: the others are woken when they would have been, the new sleeper *)
(* after the delay it asked for.                                           *)
LEMMA InsertTicks ==
  ASSUME NEW q \in Seq(Pid), NEW qk \in [Pid -> Int], IsInjective(q), Counting(q, qk),
         NEW p \in Pid, p \notin ToSet(q), NEW d \in Nat \ {0}
  PROVE  /\ Ticks(Insertd(q, p, qk, d), InsertdKeys(q, p, qk, d)) =
              [Ticks(q, qk) EXCEPT ![p] = d]
         /\ Counting(Insertd(q, p, qk, d), InsertdKeys(q, p, qk, d))
         /\ q = <<>> \/ qk[q[1]] > 0 =>
              InsertdKeys(q, p, qk, d)[Insertd(q, p, qk, d)[1]] > 0
<1>1. PICK n \in Nat : n = Len(q)
  OBVIOUS
<1>2. PICK i : i = InsertdPos(q, qk, d)
  OBVIOUS
<1>3. PICK S : S = DeltaSums(q, qk)
  OBVIOUS
<1>4. PICK rest : rest = DelayLeft(q, qk, d)[i]
  OBVIOUS
<1>5. /\ S \in [0..n -> Int] /\ S[0] = 0
      /\ \A j \in 1..n : S[j] = S[j - 1] + qk[q[j]] /\ qk[q[j]] \in Int /\ qk[q[j]] >= 0
  BY <1>1, <1>3, SumsAre DEF IsSums, Counting
<1>6. /\ i \in 1..(n + 1)
      /\ \A j \in 1..(i - 1) : qk[q[j]] <= d - S[j - 1]
      /\ i <= n => qk[q[i]] > rest
  <2>1. \A x \in ToSet(q) : qk[x] \in Int
    BY DEF ToSet
  <2>2. /\ InsertdPos(q, qk, d) \in 1..(Len(q) + 1)
        /\ \A j \in 1..(InsertdPos(q, qk, d) - 1) : qk[q[j]] <= DelayLeft(q, qk, d)[j]
        /\ InsertdPos(q, qk, d) <= Len(q) =>
             qk[q[InsertdPos(q, qk, d)]] > DelayLeft(q, qk, d)[InsertdPos(q, qk, d)]
    BY <2>1, InsertdPosStops
  <2>3. i \in 1..(n + 1) /\ (i <= n => qk[q[i]] > rest)
    BY <1>1, <1>2, <1>4, <2>2
  <2>4. ASSUME NEW j \in 1..(i - 1) PROVE qk[q[j]] <= d - S[j - 1]
    <3>1. j \in 1..(Len(q) + 1) /\ d \in Int
      BY <1>1, <2>3
    <3>2. DelayLeft(q, qk, d)[j] = d - S[j - 1]
      BY <1>3, <3>1, LeftIsSums
    <3>3. QED
      BY <1>2, <2>2, <3>2
  <2>5. QED
    BY <2>3, <2>4
<1>7. rest = d - S[i - 1] /\ rest \in Int
  <2>1. d \in Int /\ i \in 1..(Len(q) + 1) /\ i - 1 \in 0..n
    BY <1>1, <1>6
  <2>2. DelayLeft(q, qk, d)[i] = d - S[i - 1]
    BY <1>3, <2>1, LeftIsSums
  <2>3. QED
    BY <1>4, <1>5, <2>1, <2>2
<1>8. rest >= 0 /\ (i = 1 => rest > 0)
  <2>1. CASE i = 1
    BY <1>5, <1>7, <2>1
  <2>2. CASE i # 1
    <3>1. i - 1 \in 1..(i - 1) /\ i - 1 \in 1..n /\ (i - 1) - 1 \in 0..n /\ i - 1 \in 0..n
      BY <1>6, <2>2
    <3>2. qk[q[i - 1]] <= d - S[(i - 1) - 1] /\ S[i - 1] = S[(i - 1) - 1] + qk[q[i - 1]]
          /\ qk[q[i - 1]] \in Int /\ S[(i - 1) - 1] \in Int /\ S[i - 1] \in Int
      BY <1>5, <1>6, <3>1
    <3>3. QED
      BY <1>7, <2>2, <3>2
  <2>3. QED
    BY <2>1, <2>2
<1>9. PICK q2 : q2 = Insertd(q, p, qk, d)
  OBVIOUS
<1>10. PICK qk2 : qk2 = InsertdKeys(q, p, qk, d)
  OBVIOUS
<1>11. /\ q2 \in Seq(Pid) /\ Len(q2) = n + 1 /\ IsInjective(q2) /\ ToSet(q2) = ToSet(q) \cup {p}
       /\ \A j \in 1..(n + 1) : q2[j] = IF j < i THEN q[j] ELSE IF j = i THEN p ELSE q[j - 1]
  <2>1. q2 = InsertAt(q, i, p)
    BY <1>2, <1>9 DEF Insertd
  <2>2. i \in 1..(Len(q) + 1)
    BY <1>1, <1>6
  <2>3. /\ InsertAt(q, i, p) \in Seq(Pid) /\ Len(InsertAt(q, i, p)) = Len(q) + 1
        /\ \A j \in 1..(Len(q) + 1) :
             InsertAt(q, i, p)[j] = IF j < i THEN q[j] ELSE IF j = i THEN p ELSE q[j - 1]
    <3>1. q \in Seq(Pid) /\ p \in Pid
      OBVIOUS
    <3>2. QED
      BY <2>2, <3>1, InsertAtElements
  <2>4. ToSet(InsertAt(q, i, p)) = ToSet(q) \cup {p} /\ IsInjective(InsertAt(q, i, p))
    BY <2>2, InsertAtSet
  <2>5. QED
    BY <1>1, <2>1, <2>3, <2>4
<1>12. /\ qk2 \in [Pid -> Int] /\ qk2[p] = rest
       /\ \A j \in 1..n : qk2[q[j]] = IF j = i THEN qk[q[j]] - rest ELSE qk[q[j]]
  <2>1. qk2 = [x \in Pid |-> IF x = p THEN rest
                             ELSE IF i <= n /\ x = q[i] THEN qk[x] - rest
                             ELSE qk[x]]
    BY <1>1, <1>2, <1>4, <1>10 DEF InsertdKeys
  <2>2. qk2 \in [Pid -> Int] /\ qk2[p] = rest
    BY <1>7, <2>1
  <2>3. ASSUME NEW j \in 1..n
        PROVE  qk2[q[j]] = IF j = i THEN qk[q[j]] - rest ELSE qk[q[j]]
    <3>1. q[j] \in Pid /\ q[j] # p
      BY <1>1 DEF ToSet
    <3>2. i <= n => (q[j] = q[i] <=> j = i)
      BY <1>1, <1>6, SMTT(60) DEF IsInjective
    <3>3. QED
      BY <2>1, <3>1, <3>2
  <2>4. QED
    BY <2>2, <2>3
<1>13. PICK S2 : S2 = [j \in 0..(n + 1) |-> IF j < i THEN S[j] ELSE IF j = i THEN d ELSE S[j - 1]]
  OBVIOUS
<1>14. /\ \A j \in 1..(n + 1) : S2[j] = S2[j - 1] + qk2[q2[j]] /\ qk2[q2[j]] >= 0
       /\ S2 \in [0..(n + 1) -> Int] /\ S2[0] = 0
  <2>1. S2 \in [0..(n + 1) -> Int] /\ S2[0] = 0
    BY <1>5, <1>6, <1>13
  <2>2. ASSUME NEW j \in 1..(n + 1)
        PROVE  S2[j] = S2[j - 1] + qk2[q2[j]] /\ qk2[q2[j]] >= 0
    <3>1. CASE j < i
      <4>1. j \in 1..n /\ j - 1 \in 0..(n + 1) /\ q2[j] = q[j] /\ S2[j] = S[j] /\ S2[j - 1] = S[j - 1]
            /\ j # i
        BY <1>6, <1>11, <1>13, <3>1
      <4>2. qk2[q2[j]] = qk[q[j]]
        BY <1>12, <4>1
      <4>3. QED
        BY <1>5, <4>1, <4>2
    <3>2. CASE j = i
      <4>1. j - 1 \in 0..n /\ j - 1 < i /\ q2[j] = p /\ S2[j] = d /\ S2[j - 1] = S[j - 1]
            /\ S[j - 1] \in Int
        BY <1>5, <1>6, <1>11, <1>13, <3>2
      <4>2. QED
        BY <1>7, <1>8, <1>12, <3>2, <4>1
    <3>3. CASE j = i + 1
      <4>1. i \in 1..n /\ i \in 0..n /\ i - 1 \in 0..n /\ i \in 0..(n + 1) /\ j - 1 = i
            /\ ~(j < i) /\ j # i /\ j \in 0..(n + 1)
        BY <1>6, <3>3
      <4>5. q2[j] = q[i] /\ S2[j] = S[i] /\ S2[j - 1] = d
        BY <1>11, <1>13, <4>1
      <4>6. S[i] \in Int /\ S[i - 1] \in Int
        BY <1>5, <4>1
      <4>2. qk2[q2[j]] = qk[q[i]] - rest /\ qk[q[i]] > rest
        BY <1>6, <1>12, <4>1, <4>5
      <4>3. S[i] = S[i - 1] + qk[q[i]] /\ qk[q[i]] \in Int
        BY <1>5, <4>1
      <4>7. d \in Int /\ rest = d - S[i - 1] /\ rest \in Int
        BY <1>7
      <4>8. S[i] = d + (qk[q[i]] - rest)
        BY <4>3, <4>6, <4>7, RestOfDelay, SMTT(60)
      <4>9. qk[q[i]] - rest >= 0
        BY <4>2, <4>3, <4>7
      <4>10. QED
        BY <4>2, <4>5, <4>8, <4>9
    <3>4. CASE j > i + 1
      <4>5. /\ j - 1 \in 1..n /\ j - 1 \in 0..(n + 1) /\ j \in 0..(n + 1)
            /\ ~(j < i) /\ j # i /\ ~(j - 1 < i) /\ j - 1 # i
        BY <1>6, <3>4
      <4>1. j - 1 \in 1..n /\ j - 1 # i /\ q2[j] = q[j - 1] /\ S2[j] = S[j - 1]
        BY <1>11, <1>13, <4>5
      <4>2. S2[j - 1] = S[(j - 1) - 1]
        BY <1>13, <4>5
      <4>3. qk2[q2[j]] = qk[q[j - 1]]
        BY <1>12, <4>1
      <4>4. QED
        BY <1>5, <4>1, <4>2, <4>3
    <3>5. QED
      BY <1>6, <3>1, <3>2, <3>3, <3>4
  <2>3. QED
    BY <2>1, <2>2
<1>15. IsSums(q2, qk2, S2)
  BY <1>11, <1>14 DEF IsSums
<1>16. PICK L : L = Ticks(q, qk)
  OBVIOUS
<1>17. /\ L \in [Pid -> Int] /\ \A x \in Pid \ ToSet(q) : L[x] = -1
       /\ \A j \in 1..n : L[q[j]] = S[j]
  BY <1>1, <1>3, <1>16, TicksAt, SMTT(150)
<1>18. PICK L2 : L2 = [L EXCEPT ![p] = d]
  OBVIOUS
<1>19. /\ L2 \in [Pid -> Int] /\ \A x \in Pid \ ToSet(q2) : L2[x] = -1
       /\ \A j \in 1..Len(q2) : L2[q2[j]] = S2[j]
  <2>1. L2 \in [Pid -> Int] /\ \A x \in Pid : L2[x] = IF x = p THEN d ELSE L[x]
    BY <1>17, <1>18
  <2>2. \A x \in Pid \ ToSet(q2) : L2[x] = -1
    BY <1>11, <1>17, <2>1
  <2>3. ASSUME NEW j \in 1..Len(q2) PROVE L2[q2[j]] = S2[j]
    <3>1. \A k \in 1..n : q[k] \in Pid /\ q[k] # p
      BY <1>1 DEF ToSet
    <3>2. j \in 1..(n + 1)
      BY <1>11
    <3>3. CASE j < i
      <4>1. j \in 1..n /\ q2[j] = q[j] /\ S2[j] = S[j]
        BY <1>6, <1>11, <1>13, <3>2, <3>3
      <4>2. QED
        BY <1>17, <2>1, <3>1, <4>1
    <3>4. CASE j = i
      <4>1. q2[j] = p /\ S2[j] = d
        BY <1>6, <1>11, <1>13, <3>2, <3>4
      <4>2. QED
        BY <2>1, <4>1
    <3>5. CASE j > i
      <4>1. j - 1 \in 1..n /\ q2[j] = q[j - 1] /\ S2[j] = S[j - 1]
        BY <1>6, <1>11, <1>13, <3>2, <3>5, SMTT(60)
      <4>2. QED
        BY <1>17, <2>1, <3>1, <4>1
    <3>6. QED
      BY <1>6, <3>2, <3>3, <3>4, <3>5
  <2>4. QED
    BY <2>1, <2>2, <2>3
<1>20. Ticks(q2, qk2) = L2
  <2>1. AreTicks(q2, qk2, S2, L2)
    BY <1>11, <1>12, <1>15, <1>19 DEF AreTicks
  <2>2. QED
    BY <2>1, TicksEqual
<1>21. Counting(q2, qk2)
  BY <1>11, <1>14 DEF Counting
<1>22. q = <<>> \/ qk[q[1]] > 0 => qk2[q2[1]] > 0
  <2>1. CASE i = 1
    BY <1>8, <1>11, <1>12, <2>1
  <2>2. CASE i # 1
    <3>1. n # 0 /\ 1 \in 1..n /\ 1 < i /\ q # <<>>
      BY <1>1, <1>6, <2>2
    <3>2. q2[1] = q[1] /\ qk2[q[1]] = qk[q[1]]
      BY <1>11, <1>12, <2>2, <3>1
    <3>3. QED
      BY <3>1, <3>2
  <2>3. QED
    BY <2>1, <2>2
<1>23. QED
  BY <1>9, <1>10, <1>16, <1>18, <1>20, <1>21, <1>22

(* unsleep: whoever is taken off the queue, the others are not moved.      *)
LEMMA RemoveTicks ==
  ASSUME NEW q \in Seq(Pid), NEW qk \in [Pid -> Int], IsInjective(q), Counting(q, qk),
         NEW p \in ToSet(q)
  PROVE  /\ Ticks(Getitem(q, p), UnsleepKeys(q, p, qk)) = [Ticks(q, qk) EXCEPT ![p] = -1]
         /\ Counting(Getitem(q, p), UnsleepKeys(q, p, qk))
         /\ qk[q[1]] > 0 /\ Getitem(q, p) # <<>> =>
              UnsleepKeys(q, p, qk)[Getitem(q, p)[1]] > 0
<1>1. PICK n \in Nat : n = Len(q)
  OBVIOUS
<1>2. PICK i \in 1..n : q[i] = p
  BY <1>1 DEF ToSet
<1>3. PICK S : S = DeltaSums(q, qk)
  OBVIOUS
<1>4. PICK L : L = Ticks(q, qk)
  OBVIOUS
<1>5. AreTicks(q, qk, S, L)
  BY <1>3, <1>4, TicksAre
<1>6. /\ S \in [0..n -> Int] /\ S[0] = 0
      /\ \A j \in 1..n : S[j] = S[j - 1] + qk[q[j]] /\ qk[q[j]] \in Int /\ qk[q[j]] >= 0
  BY <1>1, <1>5 DEF AreTicks, IsSums, Counting
<1>7. PICK q2 : q2 = Getitem(q, p)
  OBVIOUS
<1>8. PICK qk2 : qk2 = UnsleepKeys(q, p, qk)
  OBVIOUS
<1>9. /\ q2 \in Seq(Pid) /\ Len(q2) = n - 1 /\ IsInjective(q2) /\ ToSet(q2) = ToSet(q) \ {p}
      /\ \A j \in 1..(n - 1) : q2[j] = IF j < i THEN q[j] ELSE q[j + 1]
  <2>1. i \in 1..Len(q) /\ Getitem(q, q[i]) = RemoveAt(q, i)
    BY <1>1, GetitemIs
  <2>2. q2 = RemoveAt(q, i)
    BY <1>2, <1>7, <2>1
  <2>3. \A j \in 1..(Len(q) - 1) : RemoveAt(q, i)[j] = IF j < i THEN q[j] ELSE q[j + 1]
    BY <2>1, RemoveAtElements
  <2>4. /\ Getitem(q, p) \in Seq(Pid) /\ Len(Getitem(q, p)) = Len(q) - 1
        /\ ToSet(Getitem(q, p)) = ToSet(q) \ {p} /\ IsInjective(Getitem(q, p))
    BY GetitemSet
  <2>5. QED
    BY <1>1, <1>7, <2>2, <2>3, <2>4
<1>10. /\ qk2 \in [Pid -> Int]
       /\ \A j \in 1..n : qk2[q[j]] = IF j = i + 1 THEN qk[q[j]] + qk[p] ELSE qk[q[j]]
  <2>1. p \in Pid /\ qk[p] \in Int
    BY <1>1, <1>2
  <2>2. qk2 = [x \in Pid |-> IF \E j \in 1..(n - 1) : q[j] = p /\ q[j + 1] = x
                             THEN qk[x] + qk[p] ELSE qk[x]]
    BY <1>1, <1>8 DEF UnsleepKeys
  <2>3. qk2 \in [Pid -> Int]
    BY <2>1, <2>2
  <2>4. ASSUME NEW j \in 1..n
        PROVE  qk2[q[j]] = IF j = i + 1 THEN qk[q[j]] + qk[p] ELSE qk[q[j]]
    <3>1. q[j] \in Pid
      BY <1>1
    <3>2. \A k, m \in 1..n : q[k] = q[m] => k = m
      BY <1>1 DEF IsInjective
    <3>3. (\E k \in 1..(n - 1) : q[k] = p /\ q[k + 1] = q[j]) <=> j = i + 1
      <4>1. ASSUME NEW k \in 1..(n - 1), q[k] = p, q[k + 1] = q[j] PROVE j = i + 1
        <5>1. k \in 1..n /\ k + 1 \in 1..n
          OBVIOUS
        <5>2. k = i /\ k + 1 = j
          BY <1>2, <3>2, <4>1, <5>1
        <5>3. QED
          BY <5>2
      <4>2. ASSUME j = i + 1 PROVE i \in 1..(n - 1) /\ q[i] = p /\ q[i + 1] = q[j]
        BY <1>2, <4>2
      <4>3. QED
        BY <4>1, <4>2
    <3>4. QED
      BY <2>2, <3>1, <3>3
  <2>5. QED
    BY <2>3, <2>4
<1>11. PICK S2 : S2 = [j \in 0..(n - 1) |-> IF j < i THEN S[j] ELSE S[j + 1]]
  OBVIOUS
<1>12. /\ S2 \in [0..(n - 1) -> Int] /\ S2[0] = 0
       /\ \A j \in 1..(n - 1) : S2[j] = S2[j - 1] + qk2[q2[j]] /\ qk2[q2[j]] >= 0
  <2>1. S2 \in [0..(n - 1) -> Int] /\ S2[0] = 0
    BY <1>6, <1>11
  <2>2. ASSUME NEW j \in 1..(n - 1)
        PROVE  S2[j] = S2[j - 1] + qk2[q2[j]] /\ qk2[q2[j]] >= 0
    <3>1. CASE j < i
      <4>1. j \in 1..n /\ j # i + 1 /\ j \in 0..(n - 1) /\ j - 1 \in 0..(n - 1) /\ j - 1 < i
        BY <3>1
      <4>2. q2[j] = q[j] /\ S2[j] = S[j] /\ S2[j - 1] = S[j - 1]
        BY <1>9, <1>11, <3>1, <4>1
      <4>3. qk2[q2[j]] = qk[q[j]]
        BY <1>10, <4>1, <4>2
      <4>4. QED
        BY <1>6, <4>1, <4>2, <4>3
    <3>2. CASE j = i
      <4>1. /\ j + 1 \in 1..n /\ j + 1 = i + 1 /\ j \in 0..(n - 1) /\ j - 1 \in 0..(n - 1)
            /\ j - 1 < i /\ ~(j < i) /\ j \in 1..n /\ (j + 1) - 1 = j
        BY <3>2
      <4>2. q2[j] = q[j + 1] /\ S2[j] = S[j + 1] /\ S2[j - 1] = S[j - 1]
        BY <1>9, <1>11, <4>1
      <4>3. qk2[q2[j]] = qk[q[j + 1]] + qk[q[j]]
        BY <1>2, <1>10, <3>2, <4>1, <4>2
      <4>4. S[j + 1] = S[j] + qk[q[j + 1]] /\ S[j] = S[j - 1] + qk[q[j]]
            /\ qk[q[j + 1]] >= 0 /\ qk[q[j]] >= 0
        BY <1>6, <4>1
      <4>5. qk[q[j + 1]] \in Int /\ qk[q[j]] \in Int /\ S[j - 1] \in Int /\ S[j] \in Int
        <5>1. j - 1 \in 0..n /\ j \in 0..n
          OBVIOUS
        <5>2. QED
          BY <1>6, <4>1, <5>1
      <4>6. \A a, b, c \in Int : (a + b) + c = a + (c + b) /\ (b >= 0 /\ c >= 0 => c + b >= 0)
        OBVIOUS
      <4>7. /\ (S[j - 1] + qk[q[j]]) + qk[q[j + 1]] = S[j - 1] + (qk[q[j + 1]] + qk[q[j]])
            /\ qk[q[j + 1]] + qk[q[j]] >= 0
        BY ONLY <4>4, <4>5, <4>6
      <4>8. S2[j] = (S[j - 1] + qk[q[j]]) + qk[q[j + 1]]
        BY ONLY <4>2, <4>4
      <4>9. S2[j - 1] + qk2[q2[j]] = S[j - 1] + (qk[q[j + 1]] + qk[q[j]])
        BY ONLY <4>2, <4>3
      <4>10. QED
        BY ONLY <4>3, <4>7, <4>8, <4>9
    <3>3. CASE j > i
      <4>1. /\ j + 1 \in 1..n /\ j + 1 # i + 1 /\ j \in 0..(n - 1) /\ j - 1 \in 0..(n - 1)
            /\ ~(j - 1 < i) /\ ~(j < i) /\ (j + 1) - 1 = j /\ (j - 1) + 1 = j
        BY <3>3
      <4>2. q2[j] = q[j + 1] /\ S2[j] = S[j + 1] /\ S2[j - 1] = S[j]
        BY <1>9, <1>11, <4>1
      <4>3. qk2[q2[j]] = qk[q[j + 1]]
        BY <1>10, <4>1, <4>2
      <4>4. QED
        BY <1>6, <4>1, <4>2, <4>3
    <3>4. QED
      BY <3>1, <3>2, <3>3
  <2>3. QED
    BY <2>1, <2>2
<1>13. PICK L2 : L2 = [L EXCEPT ![p] = -1]
  OBVIOUS
<1>14. /\ L2 \in [Pid -> Int] /\ \A x \in Pid \ ToSet(q2) : L2[x] = -1
       /\ \A j \in 1..Len(q2) : L2[q2[j]] = S2[j]
  <2>1. /\ L \in [Pid -> Int] /\ \A x \in Pid \ ToSet(q) : L[x] = -1
        /\ \A j \in 1..n : L[q[j]] = S[j]
    BY <1>1, <1>5 DEF AreTicks
  <2>2. L2 \in [Pid -> Int] /\ \A x \in Pid : L2[x] = IF x = p THEN -1 ELSE L[x]
    <3>1. -1 \in Int
      OBVIOUS
    <3>2. PICK m \in Int : m = -1
      BY <3>1
    <3>3. L2 = [L EXCEPT ![p] = m]
      BY <1>13, <3>2
    <3>4. L2 \in [Pid -> Int] /\ \A x \in Pid : L2[x] = IF x = p THEN m ELSE L[x]
      BY <2>1, <3>3
    <3>5. QED
      BY <3>2, <3>4
  <2>3. \A x \in Pid \ ToSet(q2) : L2[x] = -1
    BY <1>9, <2>1, <2>2
  <2>4. ASSUME NEW j \in 1..Len(q2) PROVE L2[q2[j]] = S2[j]
    <3>1. j \in 1..(n - 1) /\ j \in 0..(n - 1)
      BY <1>9
    <3>2. \A k \in 1..n : k # i => q[k] \in Pid /\ q[k] # p
      BY <1>1, <1>2 DEF IsInjective
    <3>3. CASE j < i
      <4>1. j \in 1..n /\ j # i /\ q2[j] = q[j] /\ S2[j] = S[j]
        BY <1>9, <1>11, <3>1, <3>3
      <4>2. QED
        BY <2>1, <2>2, <3>2, <4>1
    <3>4. CASE ~(j < i)
      <4>1. j + 1 \in 1..n /\ j + 1 # i /\ q2[j] = q[j + 1] /\ S2[j] = S[j + 1]
        BY <1>9, <1>11, <3>1, <3>4
      <4>2. QED
        BY <2>1, <2>2, <3>2, <4>1
    <3>5. QED
      BY <3>3, <3>4
  <2>5. QED
    BY <2>2, <2>3, <2>4
<1>15. Ticks(q2, qk2) = L2
  <2>1. IsSums(q2, qk2, S2)
    BY <1>9, <1>12 DEF IsSums
  <2>2. AreTicks(q2, qk2, S2, L2)
    BY <1>9, <1>10, <1>14, <2>1 DEF AreTicks
  <2>3. QED
    BY <2>2, TicksEqual
<1>16. Counting(q2, qk2)
  BY <1>9, <1>12 DEF Counting
<1>17. ASSUME qk[q[1]] > 0, q2 # <<>> PROVE qk2[q2[1]] > 0
  <2>1. n - 1 # 0 /\ 1 \in 1..(n - 1) /\ 1 \in 1..n /\ 2 \in 1..n
    BY <1>9, <1>17
  <2>2. CASE i = 1
    <3>1. q2[1] = q[2] /\ qk2[q[2]] = qk[q[2]] + qk[q[1]]
      BY <1>2, <1>9, <1>10, <2>1, <2>2
    <3>2. qk[q[2]] >= 0 /\ qk[q[2]] \in Int /\ qk[q[1]] \in Int
      BY <1>6, <2>1
    <3>3. QED
      BY <1>17, <3>1, <3>2
  <2>3. CASE i # 1
    <3>1. 1 < i /\ 1 # i + 1
      BY <2>3
    <3>2. q2[1] = q[1] /\ qk2[q[1]] = qk[q[1]]
      BY <1>9, <1>10, <2>1, <3>1
    <3>3. QED
      BY <1>17, <3>2
  <2>4. QED
    BY <2>2, <2>3
<1>18. QED
  BY <1>4, <1>7, <1>8, <1>13, <1>15, <1>16, <1>17

(* dequeue: the sleeper let go was due, and nobody else is moved.          *)
LEMMA TailTicks ==
  ASSUME NEW q \in Seq(Pid), NEW qk \in [Pid -> Int], IsInjective(q), Counting(q, qk),
         q # <<>>, qk[q[1]] <= 0
  PROVE  /\ Ticks(Tail(q), qk) = [Ticks(q, qk) EXCEPT ![q[1]] = -1]
         /\ Ticks(q, qk)[q[1]] = 0
         /\ Counting(Tail(q), qk)
<1>1. PICK n \in Nat \ {0} : n = Len(q)
  OBVIOUS
<1>2. q[1] \in Pid /\ 1 \in 1..n /\ Head(q) = q[1]
  BY <1>1
<1>3. PICK S : S = DeltaSums(q, qk)
  OBVIOUS
<1>4. PICK L : L = Ticks(q, qk)
  OBVIOUS
<1>5. AreTicks(q, qk, S, L)
  BY <1>3, <1>4, TicksAre
<1>6. /\ S \in [0..n -> Int] /\ S[0] = 0
      /\ \A j \in 1..n : S[j] = S[j - 1] + qk[q[j]] /\ qk[q[j]] \in Int /\ qk[q[j]] >= 0
  BY <1>1, <1>5 DEF AreTicks, IsSums, Counting
<1>7. S[1] = 0
  BY <1>2, <1>6
<1>8. PICK q2 : q2 = Tail(q)
  OBVIOUS
<1>9. /\ q2 \in Seq(Pid) /\ Len(q2) = n - 1 /\ IsInjective(q2) /\ ToSet(q2) = ToSet(q) \ {q[1]}
      /\ \A j \in 1..(n - 1) : q2[j] = q[j + 1]
  <2>1. /\ Tail(q) \in Seq(Pid) /\ Len(Tail(q)) = Len(q) - 1
        /\ ToSet(Tail(q)) = ToSet(q) \ {Head(q)} /\ IsInjective(Tail(q))
    BY TailSet
  <2>2. \A j \in 1..(Len(q) - 1) : Tail(q)[j] = q[j + 1]
    BY HeadTailProperties
  <2>3. QED
    BY <1>1, <1>2, <1>8, <2>1, <2>2
<1>10. PICK S2 : S2 = [j \in 0..(n - 1) |-> S[j + 1]]
  OBVIOUS
<1>11. /\ S2 \in [0..(n - 1) -> Int] /\ S2[0] = 0
       /\ \A j \in 1..(n - 1) : S2[j] = S2[j - 1] + qk[q2[j]] /\ qk[q2[j]] >= 0
  <2>1. S2 \in [0..(n - 1) -> Int] /\ S2[0] = 0
    BY <1>6, <1>7, <1>10
  <2>2. ASSUME NEW j \in 1..(n - 1) PROVE S2[j] = S2[j - 1] + qk[q2[j]] /\ qk[q2[j]] >= 0
    <3>1. j + 1 \in 1..n /\ j \in 0..(n - 1) /\ j - 1 \in 0..(n - 1) /\ (j + 1) - 1 = j /\ (j - 1) + 1 = j
      OBVIOUS
    <3>2. q2[j] = q[j + 1] /\ S2[j] = S[j + 1] /\ S2[j - 1] = S[j]
      BY <1>9, <1>10, <3>1
    <3>3. QED
      BY <1>6, <3>1, <3>2
  <2>3. QED
    BY <2>1, <2>2
<1>12. PICK m \in Int : m = -1
  <2>1. -1 \in Int
    OBVIOUS
  <2>2. QED
    BY <2>1
<1>13. PICK L2 : L2 = [L EXCEPT ![q[1]] = m]
  OBVIOUS
<1>14. /\ L \in [Pid -> Int] /\ \A x \in Pid \ ToSet(q) : L[x] = -1
       /\ \A j \in 1..n : L[q[j]] = S[j]
  BY <1>1, <1>5 DEF AreTicks
<1>15. /\ L2 \in [Pid -> Int] /\ \A x \in Pid \ ToSet(q2) : L2[x] = -1
       /\ \A j \in 1..Len(q2) : L2[q2[j]] = S2[j]
  <2>2. L2 \in [Pid -> Int] /\ \A x \in Pid : L2[x] = IF x = q[1] THEN m ELSE L[x]
    BY <1>13, <1>14
  <2>3. \A x \in Pid \ ToSet(q2) : L2[x] = -1
    BY <1>9, <1>12, <1>14, <2>2
  <2>4. ASSUME NEW j \in 1..Len(q2) PROVE L2[q2[j]] = S2[j]
    <3>1. j \in 1..(n - 1) /\ j \in 0..(n - 1) /\ j + 1 \in 1..n /\ j + 1 # 1
      BY <1>9
    <3>2. q[j + 1] \in Pid /\ q[j + 1] # q[1]
      BY <1>1, <1>2, <3>1 DEF IsInjective
    <3>3. q2[j] = q[j + 1] /\ S2[j] = S[j + 1]
      BY <1>9, <1>10, <3>1
    <3>4. QED
      BY <1>14, <2>2, <3>1, <3>2, <3>3
  <2>5. QED
    BY <2>2, <2>3, <2>4
<1>16. Ticks(q2, qk) = L2
  <2>1. IsSums(q2, qk, S2)
    BY <1>9, <1>11 DEF IsSums
  <2>2. AreTicks(q2, qk, S2, L2)
    BY <1>9, <1>15, <2>1 DEF AreTicks
  <2>3. QED
    BY <2>2, TicksEqual
<1>17. Counting(q2, qk)
  BY <1>9, <1>11 DEF Counting
<1>18. L[q[1]] = 0
  BY <1>2, <1>7, <1>14
<1>19. QED
  BY <1>4, <1>8, <1>12, <1>13, <1>16, <1>17, <1>18

(* clkhandler: one tick less for everybody, taken off the first delta.     *)
LEMMA TickTicks ==
  ASSUME NEW q \in Seq(Pid), NEW qk \in [Pid -> Int], IsInjective(q), Counting(q, qk),
         q # <<>>, qk[q[1]] > 0
  PROVE  /\ Ticks(q, [qk EXCEPT ![q[1]] = @ - 1]) =
              [p \in Pid |-> IF Ticks(q, qk)[p] # -1 THEN Ticks(q, qk)[p] - 1 ELSE -1]
         /\ \A p \in Pid : Ticks(q, qk)[p] # -1 => Ticks(q, qk)[p] > 0
         /\ \E p \in Pid : Ticks(q, qk)[p] # -1
         /\ Counting(q, [qk EXCEPT ![q[1]] = @ - 1])
<1>1. PICK n \in Nat \ {0} : n = Len(q)
  OBVIOUS
<1>2. q[1] \in Pid /\ 1 \in 1..n
  BY <1>1
<1>3. PICK S : S = DeltaSums(q, qk)
  OBVIOUS
<1>4. PICK L : L = Ticks(q, qk)
  OBVIOUS
<1>5. AreTicks(q, qk, S, L)
  BY <1>3, <1>4, TicksAre
<1>6. /\ S \in [0..n -> Int] /\ S[0] = 0
      /\ \A j \in 1..n : S[j] = S[j - 1] + qk[q[j]] /\ qk[q[j]] \in Int /\ qk[q[j]] >= 0
  BY <1>1, <1>5 DEF AreTicks, IsSums, Counting
<1>7. /\ L \in [Pid -> Int] /\ \A x \in Pid \ ToSet(q) : L[x] = -1
      /\ \A j \in 1..n : L[q[j]] = S[j]
  BY <1>1, <1>5 DEF AreTicks
<1>8. \A j \in 1..n : S[j] > 0
  <2>1. ASSUME NEW j \in 1..n PROVE S[j] > 0
    <3>1. S[j] >= qk[q[1]]
      BY <1>1, <1>3, SumsGrow
    <3>2. S[j] \in Int /\ qk[q[1]] \in Int
      BY <1>2, <1>6
    <3>3. QED
      BY <3>1, <3>2
  <2>2. QED
    BY <2>1
<1>9. \A x \in ToSet(q) : x \in Pid /\ \E j \in 1..n : q[j] = x
  BY <1>1 DEF ToSet
<1>10. \A x \in Pid : IF x \in ToSet(q) THEN L[x] > 0 /\ L[x] # -1 ELSE L[x] = -1
  <2>1. ASSUME NEW x \in ToSet(q) PROVE L[x] > 0 /\ L[x] # -1
    <3>1. PICK j \in 1..n : q[j] = x
      BY <1>9
    <3>2. L[x] = S[j] /\ S[j] > 0 /\ S[j] \in Int
      BY <1>6, <1>7, <1>8, <3>1, SMTT(60)
    <3>3. QED
      BY <3>2
  <2>2. QED
    BY <1>7, <2>1
<1>11. PICK qk2 : qk2 = [qk EXCEPT ![q[1]] = @ - 1]
  OBVIOUS
<1>12. /\ qk2 \in [Pid -> Int]
       /\ \A j \in 1..n : qk2[q[j]] = IF j = 1 THEN qk[q[j]] - 1 ELSE qk[q[j]]
  <2>1. qk2 \in [Pid -> Int] /\ \A x \in Pid : qk2[x] = IF x = q[1] THEN qk[x] - 1 ELSE qk[x]
    BY <1>2, <1>11
  <2>2. \A j \in 1..n : q[j] \in Pid /\ (q[j] = q[1] <=> j = 1)
    BY <1>1, <1>2 DEF IsInjective
  <2>3. QED
    BY <2>1, <2>2
<1>13. PICK S2 : S2 = [j \in 0..n |-> IF j = 0 THEN 0 ELSE S[j] - 1]
  OBVIOUS
<1>14. /\ S2 \in [0..n -> Int] /\ S2[0] = 0
       /\ \A j \in 1..n : S2[j] = S2[j - 1] + qk2[q[j]] /\ qk2[q[j]] >= 0
  <2>1. S2 \in [0..n -> Int] /\ S2[0] = 0
    BY <1>6, <1>13
  <2>2. ASSUME NEW j \in 1..n PROVE S2[j] = S2[j - 1] + qk2[q[j]] /\ qk2[q[j]] >= 0
    <3>1. CASE j = 1
      <4>1. S2[j] = S[j] - 1 /\ S2[j - 1] = 0 /\ S[j] = 0 + qk[q[j]]
        BY <1>6, <1>13, <3>1
      <4>2. qk2[q[j]] = qk[q[j]] - 1 /\ qk[q[j]] \in Int /\ qk[q[j]] > 0
        BY <1>2, <1>6, <1>12, <3>1
      <4>3. QED
        BY <4>1, <4>2
    <3>2. CASE j # 1
      <4>1. j - 1 \in 0..n /\ j \in 0..n /\ j - 1 # 0 /\ j # 0
        BY <3>2
      <4>2. S2[j] = S[j] - 1 /\ S2[j - 1] = S[j - 1] - 1 /\ S[j] = S[j - 1] + qk[q[j]]
        BY <1>6, <1>13, <4>1
      <4>3. qk2[q[j]] = qk[q[j]] /\ qk[q[j]] \in Int /\ qk[q[j]] >= 0 /\ S[j - 1] \in Int
        BY <1>6, <1>12, <3>2, <4>1
      <4>4. QED
        BY <4>2, <4>3
    <3>3. QED
      BY <3>1, <3>2
  <2>3. QED
    BY <2>1, <2>2
<1>15. PICK L2 : L2 = [p \in Pid |-> IF L[p] # -1 THEN L[p] - 1 ELSE -1]
  OBVIOUS
<1>16. /\ L2 \in [Pid -> Int] /\ \A x \in Pid \ ToSet(q) : L2[x] = -1
       /\ \A j \in 1..Len(q) : L2[q[j]] = S2[j]
  <2>1. \A x \in Pid : L2[x] = IF x \in ToSet(q) THEN L[x] - 1 ELSE -1
    BY <1>10, <1>15
  <2>2. \A x \in Pid : L2[x] \in Int
    <3>1. -1 \in Int
      OBVIOUS
    <3>2. \A x \in Pid : L[x] \in Int
      BY <1>7
    <3>3. ASSUME NEW x \in Pid PROVE L2[x] \in Int
      <4>1. L[x] - 1 \in Int
        BY <3>2
      <4>2. CASE x \in ToSet(q)
        BY <2>1, <4>1, <4>2
      <4>3. CASE x \notin ToSet(q)
        BY <2>1, <3>1, <4>3
      <4>4. QED
        BY <4>2, <4>3
    <3>4. QED
      BY <3>3
  <2>3. L2 \in [Pid -> Int]
    BY <1>15, <2>2
  <2>4. ASSUME NEW j \in 1..n PROVE L2[q[j]] = S2[j]
    <3>1. q[j] \in ToSet(q) /\ j \in 0..n /\ j # 0
      BY <1>1 DEF ToSet
    <3>2. L2[q[j]] = L[q[j]] - 1
      BY <1>9, <2>1, <3>1
    <3>3. QED
      BY <1>7, <1>13, <3>1, <3>2
  <2>5. QED
    BY <1>1, <2>1, <2>3, <2>4
<1>17. Ticks(q, qk2) = L2
  <2>1. IsSums(q, qk2, S2)
    BY <1>1, <1>14 DEF IsSums
  <2>2. AreTicks(q, qk2, S2, L2)
    BY <1>12, <1>16, <2>1 DEF AreTicks
  <2>3. QED
    BY <2>2, TicksEqual
<1>18. Counting(q, qk2)
  BY <1>1, <1>14 DEF Counting
<1>19. L[q[1]] # -1
  BY <1>1, <1>2, <1>10 DEF ToSet
<1>20. QED
  BY <1>2, <1>4, <1>10, <1>11, <1>15, <1>17, <1>18, <1>19

LEMMA TicksCount ==
  ASSUME NEW q \in Seq(Pid), NEW qk \in [Pid -> Int], IsInjective(q), Counting(q, qk),
         NEW p \in ToSet(q)
  PROVE  Ticks(q, qk)[p] >= 0 /\ Ticks(q, qk)[p] # -1
<1>1. PICK i \in 1..Len(q) : q[i] = p
  BY DEF ToSet
<1>2. PICK t : t = Ticks(q, qk)[p]
  OBVIOUS
<1>3. t = DeltaSums(q, qk)[i]
  BY <1>1, <1>2, TicksAt
<1>4. t >= qk[q[1]]
  BY <1>3, SumsGrow
<1>5. 1 \in 1..Len(q) /\ t \in Int
  <2>1. DeltaSums(q, qk)[i] \in Int
    BY SumsAre DEF IsSums
  <2>2. QED
    BY <1>3, <2>1
<1>6. qk[q[1]] >= 0 /\ qk[q[1]] \in Int
  BY <1>5 DEF Counting
<1>7. t >= 0 /\ t # -1
  BY <1>4, <1>5, <1>6
<1>8. QED
  BY <1>2, <1>7

LEMMA OtherCounting ==
  ASSUME NEW q \in Seq(Pid), NEW qk, NEW new, \A p \in ToSet(q) : new[p] = qk[p]
  PROVE  Counting(q, qk) => Counting(q, new)
BY DEF Counting, ToSet

-----------------------------------------------------------------------------
(* The sleep queue *)

(* Deltas never go below zero, and a sleeper is due only while the clock   *)
(* interrupt that made it so is still waking up who is.                    *)
DeltasOK == Counting(sleepq, qkey) /\ (Expired => pc[currpid].op = "wakeup")

(* Keys that resched, and with it ready, leave alone. *)
LEMMA DispatchKeys ==
  ASSUME NEW st, NEW rl, NEW qk \in [Pid -> Int], NEW sl, currpid \in Pid, Dispatch(st, rl, qk, sl),
         NEW x \in Pid, x = currpid => st[currpid] # "curr"
  PROVE  qkey'[x] = qk[x]
BY DEF Dispatch

LEMMA ReschedKeys ==
  ASSUME NEW st, NEW rl, NEW qk \in [Pid -> Int], currpid \in Pid, Resched(st, rl, qk),
         NEW x \in Pid, x = currpid => st[currpid] # "curr"
  PROVE  qkey'[x] = qk[x]
BY DispatchKeys DEF Resched

LEMMA ReadyKeys ==
  ASSUME NEW qk \in [Pid -> Int], IInv, NEW p \in Pid, Ready(p, qk),
         NEW x \in Pid, x # p, x # currpid
  PROVE  qkey'[x] = qk[x]
<1>1. prprio[p] \in Int /\ currpid \in Pid
  BY PrioRange DEF IInv, RestOK, SchedOK
<1>2. PICK k : k = [qk EXCEPT ![p] = prprio[p]]
  OBVIOUS
<1>3. k \in [Pid -> Int] /\ k[x] = qk[x]
  BY <1>1, <1>2
<1>4. Resched([prstate EXCEPT ![p] = "ready"], Insert(readylist, p, qk, prprio[p]), k)
  BY <1>2 DEF Ready
<1>5. QED
  BY <1>1, <1>3, <1>4, ReschedKeys

LEMMA SleepTypes ==
  ASSUME IInv
  PROVE  /\ sleepq \in Seq(Pid) /\ IsInjective(sleepq) /\ qkey \in [Pid -> Int]
         /\ currpid \in Pid /\ currpid \notin ToSet(sleepq) /\ prstate \in [Pid -> PState]
         /\ \A p \in ToSet(sleepq) : p \in Pid /\ prstate[p] \in {"sleep", "rectim"}
         /\ Excused \in [Pid -> BOOLEAN]
<1>1. /\ sleepq \in Seq(Pid) /\ IsInjective(sleepq) /\ qkey \in [Pid -> Int]
      /\ currpid \in Pid /\ prstate \in [Pid -> PState] /\ prstate[currpid] = "curr"
  BY DEF IInv, QueuesOK, SchedOK
<1>2. \A p \in ToSet(sleepq) : p \in Pid
  BY <1>1 DEF ToSet
<1>3. \A p \in ToSet(sleepq) : prstate[p] \in {"sleep", "rectim"}
  BY <1>2 DEF IInv, QueuesOK
<1>4. Excused \in [Pid -> BOOLEAN]
  BY DEF Excused, IInv, RestOK
<1>5. QED
  BY <1>1, <1>2, <1>3, <1>4

LEMMA SleepTypesNext ==
  ASSUME IInv'
  PROVE  /\ sleepq' \in Seq(Pid) /\ IsInjective(sleepq') /\ qkey' \in [Pid -> Int]
         /\ Excused' \in [Pid -> BOOLEAN]
<1>1. sleepq' \in Seq(Pid) /\ IsInjective(sleepq') /\ qkey' \in [Pid -> Int]
  BY DEF IInv, QueuesOK, SchedOK
<1>2. Excused' \in [Pid -> BOOLEAN]
  BY DEF Excused, IInv, RestOK
<1>3. QED
  BY <1>1, <1>2

(* Nobody on the sleep queue is touched. *)
LEMMA Undisturbed ==
  ASSUME IInv, IInv', DeltasOK, sleepq' = sleepq, pc[currpid].op # "wakeup" \/ ~Expired,
         \A x \in ToSet(sleepq) : qkey'[x] = qkey[x]
  PROVE  DeltasOK' /\ Alarm!AlarmNext
<1>1. /\ sleepq \in Seq(Pid) /\ IsInjective(sleepq) /\ qkey \in [Pid -> Int]
      /\ qkey' \in [Pid -> Int] /\ Excused' \in [Pid -> BOOLEAN]
  BY SleepTypes, SleepTypesNext
<1>2. TicksLeft' = TicksLeft
  BY <1>1, OtherTicks DEF TicksLeft
<1>3. Counting(sleepq', qkey')
  BY <1>1, OtherCounting DEF DeltasOK
<1>4. ~Expired'
  <2>1. ~Expired
    BY DEF DeltasOK
  <2>2. sleepq # <<>> => Head(sleepq) \in ToSet(sleepq)
    BY <1>1, TailSet
  <2>3. QED
    BY <2>1, <2>2 DEF Expired, FirstKey
<1>5. Alarm!AlarmNext
  BY <1>1, <1>2 DEF Alarm!AlarmNext, Alarm!Excuse
<1>6. QED
  BY <1>3, <1>4, <1>5 DEF DeltasOK

LEMMA Awake ==
  ASSUME IInv, DeltasOK, pc[currpid].op # "wakeup"
  PROVE  sleepq = <<>> \/ qkey[sleepq[1]] > 0
<1>1. sleepq \in Seq(Pid) /\ qkey \in [Pid -> Int]
  BY SleepTypes
<1>2. CASE sleepq # <<>>
  <2>1. Head(sleepq) = sleepq[1] /\ sleepq[1] \in Pid
    BY <1>1, <1>2
  <2>2. qkey[sleepq[1]] \in Int
    BY <1>1, <2>1
  <2>3. ~(qkey[sleepq[1]] <= 0)
    BY <1>2, <2>1 DEF DeltasOK, Expired, FirstKey
  <2>4. QED
    BY <2>2, <2>3
<1>3. QED
  BY <1>2

(* send or kill takes a sleeper off the queue. *)
LEMMA SleeperCancelled ==
  ASSUME IInv, IInv', DeltasOK, pc[currpid].op # "wakeup", NEW p \in ToSet(sleepq),
         sleepq' = Getitem(sleepq, p), Excused'[p],
         \A x \in ToSet(sleepq) \ {p} : qkey'[x] = UnsleepKeys(sleepq, p, qkey)[x]
  PROVE  DeltasOK' /\ Alarm!AlarmNext
<1>1. /\ sleepq \in Seq(Pid) /\ IsInjective(sleepq) /\ qkey \in [Pid -> Int]
      /\ Excused' \in [Pid -> BOOLEAN] /\ p \in Pid /\ Counting(sleepq, qkey)
  BY SleepTypes, SleepTypesNext DEF DeltasOK
<1>2. /\ sleepq' \in Seq(Pid) /\ IsInjective(sleepq') /\ qkey' \in [Pid -> Int]
  BY SleepTypesNext
<1>3. ToSet(sleepq') = ToSet(sleepq) \ {p}
  BY <1>1, GetitemSet
<1>4. PICK qk : qk = UnsleepKeys(sleepq, p, qkey)
  OBVIOUS
<1>5. qk \in [Pid -> Int]
  BY <1>1, <1>4, UnsleepKeysType
<1>6. /\ Ticks(sleepq', qk) = [Ticks(sleepq, qkey) EXCEPT ![p] = -1]
      /\ Counting(sleepq', qk)
      /\ qkey[sleepq[1]] > 0 /\ sleepq' # <<>> => qk[sleepq'[1]] > 0
  BY <1>1, <1>4, RemoveTicks
<1>7. \A x \in ToSet(sleepq') : qkey'[x] = qk[x]
  BY <1>3, <1>4
<1>8. TicksLeft' = [TicksLeft EXCEPT ![p] = -1]
  BY <1>2, <1>5, <1>6, <1>7, OtherTicks DEF TicksLeft
<1>9. Counting(sleepq', qkey')
  BY <1>2, <1>6, <1>7, OtherCounting
<1>10. ~Expired'
  <2>1. qkey[sleepq[1]] > 0
    <3>1. sleepq # <<>>
      BY DEF ToSet
    <3>2. QED
      BY <3>1, Awake
  <2>2. CASE sleepq' # <<>>
    <3>1. Head(sleepq') = sleepq'[1] /\ Head(sleepq') \in ToSet(sleepq')
      BY <1>2, <2>2, TailSet
    <3>2. qkey'[Head(sleepq')] = qk[sleepq'[1]] /\ qk[sleepq'[1]] > 0
      BY <1>6, <1>7, <2>1, <2>2, <3>1
    <3>3. Head(sleepq') \in Pid
      BY <1>2, <3>1 DEF ToSet
    <3>4. qkey'[Head(sleepq')] \in Int
      BY <1>2, <3>3
    <3>5. ~(qkey'[Head(sleepq')] <= 0)
      BY <3>2, <3>4
    <3>6. QED
      BY <3>5 DEF Expired, FirstKey
  <2>3. QED
    BY <2>2 DEF Expired
<1>11. TicksLeft[p] # -1
  BY <1>1, TicksCount DEF TicksLeft
<1>12. Alarm!Cancel(p)
  BY <1>1, <1>8, <1>11 DEF Alarm!Cancel, Alarm!Waiting, Alarm!NotSet
<1>13. Alarm!AlarmNext
  BY <1>1, <1>12 DEF Alarm!AlarmNext
<1>14. QED
  BY <1>9, <1>10, <1>13 DEF DeltasOK

(* sleepms and recvtime. *)
LEMMA SleeperSet ==
  ASSUME IInv, IInv', DeltasOK, 0 \notin Delays, Calling, NEW d \in Delays, NEW s \in {"sleep", "rectim"},
         sleepq' = Insertd(sleepq, currpid, qkey, d),
         Block(s, InsertdKeys(sleepq, currpid, qkey, d))
  PROVE  DeltasOK' /\ Alarm!AlarmNext
<1>1. /\ sleepq \in Seq(Pid) /\ IsInjective(sleepq) /\ qkey \in [Pid -> Int]
      /\ Excused' \in [Pid -> BOOLEAN] /\ currpid \in Pid /\ currpid \notin ToSet(sleepq)
      /\ Counting(sleepq, qkey) /\ prstate \in [Pid -> PState]
  BY SleepTypes, SleepTypesNext DEF DeltasOK
<1>2. d \in Nat \ {0} /\ d \in Int
  BY ArgumentAssumption
<1>3. PICK qk : qk = InsertdKeys(sleepq, currpid, qkey, d)
  OBVIOUS
<1>4. qk \in [Pid -> Int]
  BY <1>1, <1>2, <1>3, InsertdOK
<1>5. pc[currpid].op # "wakeup"
  BY DEF Calling, Running, At
<1>6. /\ Ticks(sleepq', qk) = [Ticks(sleepq, qkey) EXCEPT ![currpid] = d]
      /\ Counting(sleepq', qk)
      /\ qk[sleepq'[1]] > 0
  <2>1. sleepq = <<>> \/ qkey[sleepq[1]] > 0
    BY <1>5, Awake
  <2>2. /\ Ticks(sleepq', qk) = [Ticks(sleepq, qkey) EXCEPT ![currpid] = d]
        /\ Counting(sleepq', qk)
        /\ sleepq = <<>> \/ qkey[sleepq[1]] > 0 => qk[sleepq'[1]] > 0
    BY <1>1, <1>2, <1>3, InsertTicks
  <2>3. QED
    BY <2>1, <2>2
<1>7. qkey' = qk
  <2>1. PICK st : st = [prstate EXCEPT ![currpid] = s]
    OBVIOUS
  <2>2. st[currpid] # "curr" /\ Resched(st, readylist, qk)
    BY <1>1, <1>3, <2>1 DEF Block
  <2>3. ASSUME NEW x \in Pid PROVE qkey'[x] = qk[x]
    <3>1. x = currpid => st[currpid] # "curr"
      BY <2>2
    <3>2. QED
      BY <1>1, <1>4, <2>2, <3>1, ReschedKeys
  <2>4. qkey' \in [Pid -> Int]
    BY SleepTypesNext
  <2>5. QED
    BY <1>4, <2>3, <2>4
<1>8. TicksLeft' = [TicksLeft EXCEPT ![currpid] = d]
  BY <1>6, <1>7 DEF TicksLeft
<1>9. ~Expired'
  <2>1. sleepq' \in Seq(Pid) /\ ToSet(sleepq') = ToSet(sleepq) \cup {currpid}
    <3>1. currpid \in Pid /\ sleepq \in Seq(Pid) /\ qkey \in [Pid -> Int] /\ d \in Int
          /\ IsInjective(sleepq) /\ currpid \notin ToSet(sleepq)
      BY <1>1, <1>2
    <3>2. /\ Insertd(sleepq, currpid, qkey, d) \in Seq(Pid)
          /\ IsInjective(Insertd(sleepq, currpid, qkey, d))
          /\ ToSet(Insertd(sleepq, currpid, qkey, d)) = ToSet(sleepq) \cup {currpid}
          /\ InsertdKeys(sleepq, currpid, qkey, d) \in [Pid -> Int]
      BY <3>1, InsertdOK
    <3>3. QED
      BY <3>2
  <2>2. sleepq' # <<>>
    BY <2>1 DEF ToSet
  <2>3. Head(sleepq') = sleepq'[1] /\ sleepq'[1] \in Pid
    BY <2>1, <2>2
  <2>4. qk[sleepq'[1]] \in Int
    BY <1>4, <2>3
  <2>5. ~(qk[sleepq'[1]] <= 0)
    BY <1>6, <2>4
  <2>6. QED
    BY <1>7, <2>2, <2>3, <2>5 DEF Expired, FirstKey
<1>10. TicksLeft[currpid] = -1
  BY <1>1, TicksAt DEF TicksLeft
<1>11. Alarm!Set(currpid, d)
  BY <1>8, <1>10 DEF Alarm!Set, Alarm!NotSet
<1>12. Alarm!AlarmNext
  BY <1>1, <1>11 DEF Alarm!AlarmNext
<1>13. QED
  BY <1>6, <1>7, <1>9, <1>12 DEF DeltasOK

LEMMA WakeupAlarm ==
  ASSUME IInv, IInv', DeltasOK, Wakeup
  PROVE  DeltasOK' /\ Alarm!AlarmNext
<1>1. /\ sleepq \in Seq(Pid) /\ IsInjective(sleepq) /\ qkey \in [Pid -> Int]
      /\ Excused' \in [Pid -> BOOLEAN] /\ currpid \in Pid /\ currpid \notin ToSet(sleepq)
      /\ Counting(sleepq, qkey) /\ sleepq # <<>>
  BY SleepTypes, SleepTypesNext DEF DeltasOK, Wakeup, Expired
<1>2. qkey' \in [Pid -> Int]
  BY SleepTypesNext
<1>3. PICK p : p = sleepq[1]
  OBVIOUS
<1>4. p = Head(sleepq) /\ p \in Pid /\ qkey[p] <= 0 /\ Ready(p, qkey) /\ sleepq' = Tail(sleepq)
  BY <1>1, <1>3 DEF Wakeup, Expired, FirstKey
<1>5. /\ Ticks(sleepq', qkey) = [Ticks(sleepq, qkey) EXCEPT ![p] = -1]
      /\ Ticks(sleepq, qkey)[p] = 0
      /\ Counting(sleepq', qkey)
  BY <1>1, <1>3, <1>4, TailTicks
<1>6. /\ sleepq' \in Seq(Pid) /\ IsInjective(sleepq') /\ ToSet(sleepq') = ToSet(sleepq) \ {p}
  BY <1>1, <1>4, TailSet
<1>7. \A x \in ToSet(sleepq') : qkey'[x] = qkey[x]
  <2>1. ASSUME NEW x \in ToSet(sleepq') PROVE qkey'[x] = qkey[x]
    <3>1. x \in Pid /\ x # p /\ x # currpid
      BY <1>1, <1>6, SleepTypes
    <3>2. QED
      BY <1>1, <1>4, <3>1, ReadyKeys
  <2>2. QED
    BY <2>1
<1>8. TicksLeft' = [TicksLeft EXCEPT ![p] = -1]
  BY <1>1, <1>2, <1>5, <1>6, <1>7, OtherTicks DEF TicksLeft
<1>9. Counting(sleepq', qkey')
  BY <1>5, <1>6, <1>7, OtherCounting
<1>10. pc'[currpid'].op = "wakeup"
  <2>1. pc[currpid].op = "wakeup" /\ UNCHANGED pc
    BY DEF Wakeup, At
  <2>2. ndefers = 1
    BY <2>1 DEF IInv, ContOK, DeferBracket, Deferring
  <2>3. UNCHANGED currpid
    BY <1>4, <2>2 DEF Ready, Resched
  <2>4. QED
    BY <2>1, <2>3
<1>11. Alarm!Ring(p)
  BY <1>5, <1>8 DEF TicksLeft, Alarm!Ring, Alarm!NotSet
<1>12. Alarm!AlarmNext
  BY <1>1, <1>4, <1>11 DEF Alarm!AlarmNext
<1>13. QED
  BY <1>9, <1>10, <1>12 DEF DeltasOK

LEMMA ClockAlarm ==
  ASSUME IInv, IInv', DeltasOK, Clock
  PROVE  DeltasOK' /\ Alarm!AlarmNext
<1>1. /\ sleepq \in Seq(Pid) /\ IsInjective(sleepq) /\ qkey \in [Pid -> Int]
      /\ Excused' \in [Pid -> BOOLEAN] /\ currpid \in Pid /\ Counting(sleepq, qkey)
      /\ pc \in [Pid -> Cont]
  BY SleepTypes, SleepTypesNext DEF DeltasOK, IInv, ContOK
<1>2. pc[currpid].op # "wakeup" /\ sleepq' = sleepq /\ currpid' = currpid
  BY DEF Clock, Running, At
<1>3. CASE sleepq = <<>> /\ qkey' = qkey
  BY <1>2, <1>3, Undisturbed
<1>4. CASE sleepq # <<>> /\ qkey' = [qkey EXCEPT ![Head(sleepq)] = @ - 1]
  <2>1. Head(sleepq) = sleepq[1] /\ qkey[sleepq[1]] > 0
    BY <1>1, <1>2, <1>4, Awake
  <2>2. PICK qk : qk = [qkey EXCEPT ![sleepq[1]] = @ - 1]
    OBVIOUS
  <2>3. qkey' = qk
    BY <1>4, <2>1, <2>2
  <2>4. /\ Ticks(sleepq, qk) =
              [p \in Pid |-> IF Ticks(sleepq, qkey)[p] # -1 THEN Ticks(sleepq, qkey)[p] - 1 ELSE -1]
        /\ \A p \in Pid : Ticks(sleepq, qkey)[p] # -1 => Ticks(sleepq, qkey)[p] > 0
        /\ \E p \in Pid : Ticks(sleepq, qkey)[p] # -1
        /\ Counting(sleepq, qk)
    BY <1>1, <1>4, <2>1, <2>2, TickTicks
  <2>5. TicksLeft' = [p \in Pid |-> IF TicksLeft[p] # -1 THEN TicksLeft[p] - 1 ELSE -1]
    BY <1>2, <2>3, <2>4 DEF TicksLeft
  <2>6. Alarm!Tick
    BY <2>4, <2>5 DEF TicksLeft, Alarm!Tick, Alarm!Waiting, Alarm!NotSet
  <2>7. Alarm!AlarmNext
    BY <1>1, <2>6 DEF Alarm!AlarmNext
  <2>8. Expired' => pc'[currpid'].op = "wakeup"
    <3>1. CASE Continue([op |-> "wakeup", arg |-> 0, n |-> 0])
      BY <1>1, <1>2, <3>1 DEF Continue
    <3>2. CASE qkey'[Head(sleepq)] > 0
      <4>1. qkey' \in [Pid -> Int] /\ Head(sleepq) \in Pid
        BY <1>1, <1>4, SleepTypesNext
      <4>2. ~(qkey'[Head(sleepq)] <= 0)
        BY <3>2, <4>1
      <4>3. QED
        BY <1>2, <1>4, <4>2 DEF Expired, FirstKey
    <3>3. QED
      BY <1>4, <3>1, <3>2 DEF Clock
  <2>9. QED
    BY <1>2, <2>3, <2>4, <2>7, <2>8 DEF DeltasOK
<1>5. QED
  BY <1>3, <1>4 DEF Clock

(* send: a process waiting in recvtime is taken off the sleep queue. *)
LEMMA DeliverAlarm ==
  ASSUME IInv, IInv', DeltasOK, Calling, NEW p \in Pid, Deliver(p)
  PROVE  DeltasOK' /\ Alarm!AlarmNext
<1>1. /\ prstate \in [Pid -> PState] /\ prstate[currpid] = "curr" /\ pc[currpid].op # "wakeup"
      /\ prhasmsg \in [Pid -> BOOLEAN] /\ qkey \in [Pid -> Int] /\ currpid \in Pid
      /\ sleepq \in Seq(Pid)
      /\ \A x \in ToSet(sleepq) : x \in Pid /\ x # currpid /\ prstate[x] \in {"sleep", "rectim"}
  BY SleepTypes DEF IInv, RestOK, Calling, Running, At
<1>2. CASE UNCHANGED <<sleepq, qkey>>
  BY <1>1, <1>2, Undisturbed
<1>3. CASE prstate[p] = "recv" /\ Ready(p, qkey) /\ UNCHANGED sleepq
  <2>1. ASSUME NEW x \in ToSet(sleepq) PROVE qkey'[x] = qkey[x]
    <3>1. x \in Pid /\ x # p /\ x # currpid
      BY <1>1, <1>3
    <3>2. QED
      BY <1>1, <1>3, <3>1, ReadyKeys
  <2>2. QED
    BY <1>1, <1>3, <2>1, Undisturbed
<1>4. CASE /\ prstate[p] = "rectim" /\ prhasmsg' = [prhasmsg EXCEPT ![p] = TRUE]
           /\ sleepq' = Getitem(sleepq, p)
           /\ Ready(p, UnsleepKeys(sleepq, p, qkey))
  <2>1. p \in ToSet(sleepq)
    BY <1>4 DEF IInv, QueuesOK
  <2>2. Excused'[p]
    BY <1>1, <1>4 DEF Excused
  <2>3. UnsleepKeys(sleepq, p, qkey) \in [Pid -> Int]
    BY <1>1, UnsleepKeysType
  <2>4. ASSUME NEW x \in ToSet(sleepq) \ {p} PROVE qkey'[x] = UnsleepKeys(sleepq, p, qkey)[x]
    <3>1. x \in Pid /\ x # p /\ x # currpid
      BY <1>1
    <3>2. QED
      BY <1>4, <2>3, <3>1, ReadyKeys
  <2>5. QED
    BY <1>1, <1>4, <2>1, <2>2, <2>4, SleeperCancelled
<1>5. QED
  BY <1>2, <1>3, <1>4 DEF Deliver, schedVars

LEMMA KillEndAlarm ==
  ASSUME IInv, IInv', DeltasOK, KillEnd
  PROVE  DeltasOK' /\ Alarm!AlarmNext
<1>1. PICK p : p = pc[currpid].arg
  OBVIOUS
<1>2. /\ pc[currpid].op = "kill" /\ p \in Pid
      /\ prstate \in [Pid -> PState] /\ prstate[currpid] = "curr"
      /\ qkey \in [Pid -> Int] /\ currpid \in Pid /\ sleepq \in Seq(Pid)
      /\ \A x \in ToSet(sleepq) : x \in Pid /\ x # currpid /\ prstate[x] \in {"sleep", "rectim"}
  BY <1>1, SleepTypes DEF KillEnd, At, IInv, ContOK
<1>3. CASE UNCHANGED <<sleepq, qkey>>
  BY <1>2, <1>3, Undisturbed
<1>4. CASE Resched([prstate EXCEPT ![p] = "free"], readylist, qkey) /\ UNCHANGED sleepq
  <2>1. ASSUME NEW x \in ToSet(sleepq) PROVE qkey'[x] = qkey[x]
    BY <1>2, <1>4, ReschedKeys
  <2>2. QED
    BY <1>2, <1>4, <2>1, Undisturbed
<1>5. CASE /\ prstate[p] \in {"sleep", "rectim"} /\ prstate' = [prstate EXCEPT ![p] = "free"]
           /\ qkey' = UnsleepKeys(sleepq, p, qkey) /\ sleepq' = Getitem(sleepq, p)
  <2>1. p \in ToSet(sleepq)
    BY <1>2, <1>5 DEF IInv, QueuesOK
  <2>2. Excused'[p]
    BY <1>2, <1>5 DEF Excused
  <2>3. QED
    BY <1>2, <1>5, <2>1, <2>2, SleeperCancelled
<1>6. QED
  BY <1>1, <1>3, <1>4, <1>5 DEF KillEnd

(* resched and ready of a process that is not asleep. *)
LEMMA ReschedAlarm ==
  ASSUME IInv, IInv', DeltasOK, UNCHANGED sleepq, pc[currpid].op # "wakeup" \/ ~Expired,
         \/ UNCHANGED qkey
         \/ \E st, rl : Resched(st, rl, qkey)
         \/ \E st, rl, sl : Dispatch(st, rl, qkey, sl)
         \/ \E p \in Pid : prstate[p] \notin {"sleep", "rectim"} /\ Ready(p, qkey)
  PROVE  DeltasOK' /\ Alarm!AlarmNext
<1>1. /\ qkey \in [Pid -> Int] /\ currpid \in Pid
      /\ \A x \in ToSet(sleepq) : x \in Pid /\ x # currpid /\ prstate[x] \in {"sleep", "rectim"}
  BY SleepTypes
<1>2. ASSUME NEW x \in ToSet(sleepq) PROVE qkey'[x] = qkey[x]
  <2>1. x \in Pid /\ x # currpid /\ prstate[x] \in {"sleep", "rectim"}
    BY <1>1
  <2>2. ASSUME NEW st, NEW rl, Resched(st, rl, qkey) PROVE qkey'[x] = qkey[x]
    BY <1>1, <2>1, <2>2, ReschedKeys
  <2>3. ASSUME NEW st, NEW rl, NEW sl, Dispatch(st, rl, qkey, sl) PROVE qkey'[x] = qkey[x]
    BY <1>1, <2>1, <2>3, DispatchKeys
  <2>4. ASSUME NEW p \in Pid, prstate[p] \notin {"sleep", "rectim"}, Ready(p, qkey)
        PROVE  qkey'[x] = qkey[x]
    <3>1. x # p
      BY <2>1, <2>4
    <3>2. QED
      BY <1>1, <2>1, <2>4, <3>1, ReadyKeys
  <2>5. QED
    BY <2>2, <2>3, <2>4
<1>3. QED
  BY <1>2, Undisturbed

LEMMA ProcessAlarm ==
  ASSUME IInv, IInv', DeltasOK, 0 \notin Delays, ProcessCall
  PROVE  DeltasOK' /\ Alarm!AlarmNext
<1>. DEFINE Kept == DeltasOK' /\ Alarm!AlarmNext
<1>1. Calling => pc[currpid].op # "wakeup"
  BY DEF Calling, Running, At
<1>2. ASSUME NEW prio \in Prios, Create(prio) PROVE Kept
  BY <1>1, <1>2, ReschedAlarm DEF Create
<1>3. ASSUME NEW p \in Pid, Kill(p) PROVE Kept
  <2>1. prparent[p] \in Pid
    BY DEF IInv, RestOK
  <2>2. CASE Deliver(prparent[p])
    BY <1>3, <2>1, <2>2, DeliverAlarm DEF Kill
  <2>3. CASE UNCHANGED <<sleepq, qkey>>
    BY <1>1, <1>3, <2>3, ReschedAlarm DEF Kill
  <2>4. QED
    BY <1>3, <2>2, <2>3 DEF Kill
<1>4. ASSUME NEW p \in Pid, Suspend(p) PROVE Kept
  <2>1. sleepq' = sleepq /\ (UNCHANGED qkey \/ \E st, rl : Resched(st, rl, qkey))
    BY <1>4 DEF Suspend, Block
  <2>2. QED
    BY <1>1, <1>4, <2>1, ReschedAlarm DEF Suspend
<1>5. ASSUME NEW p \in Pid, Resume(p) PROVE Kept
  BY <1>1, <1>5, ReschedAlarm DEF Resume
<1>6. ASSUME NEW p \in Pid, Send(p) PROVE Kept
  BY <1>6, DeliverAlarm DEF Send
<1>7. ASSUME NEW p \in Pid, NEW newprio \in NewPrios, Chprio(p, newprio) PROVE Kept
  BY <1>1, <1>7, ReschedAlarm DEF Chprio
<1>8. ASSUME Yield PROVE Kept
  BY <1>1, <1>8, ReschedAlarm DEF Yield
<1>9. ASSUME Receive PROVE Kept
  <2>1. sleepq' = sleepq /\ (UNCHANGED qkey \/ \E st, rl : Resched(st, rl, qkey))
    BY <1>9 DEF Receive, Block
  <2>2. QED
    BY <1>1, <1>9, <2>1, ReschedAlarm DEF Receive
<1>10. ASSUME Recvclr PROVE Kept
  BY <1>1, <1>10, ReschedAlarm DEF Recvclr
<1>11. ASSUME NEW d \in Delays, Recvtime(d) PROVE Kept
  <2>1. CASE UNCHANGED <<sleepq, qkey>>
    BY <1>1, <1>11, <2>1, ReschedAlarm DEF Recvtime
  <2>2. CASE /\ sleepq' = Insertd(sleepq, currpid, qkey, d)
             /\ Block("rectim", InsertdKeys(sleepq, currpid, qkey, d))
    BY <1>11, <2>2, SleeperSet DEF Recvtime
  <2>3. QED
    BY <1>11, <2>1, <2>2 DEF Recvtime
<1>12. ASSUME NEW d \in Delays, Sleepms(d) PROVE Kept
  BY <1>12, SleeperSet DEF Sleepms
<1>13. QED
  BY <1>2, <1>3, <1>4, <1>5, <1>6, <1>7, <1>8, <1>9, <1>10, <1>11, <1>12 DEF ProcessCall

LEMMA ReleaseAlarm ==
  ASSUME IInv, IInv', DeltasOK, UNCHANGED sleepq, pc[currpid].op # "wakeup",
         NEW s \in Sems, squeue[s] # <<>>, Ready(Head(squeue[s]), qkey)
  PROVE  DeltasOK' /\ Alarm!AlarmNext
<1>1. squeue[s] \in Seq(Pid) /\ IsInjective(squeue[s])
  BY DEF IInv, QueuesOK
<1>2. PICK p : p = Head(squeue[s])
  OBVIOUS
<1>3. p \in ToSet(squeue[s])
  BY <1>1, <1>2, TailSet
<1>4. p \in Pid
  BY <1>1, <1>3 DEF ToSet
<1>5. prstate[p] = "wait"
  BY <1>3, <1>4 DEF IInv, QueuesOK
<1>6. p \in Pid /\ prstate[p] \notin {"sleep", "rectim"} /\ Ready(p, qkey)
  BY <1>2, <1>4, <1>5
<1>7. QED
  BY <1>6, ReschedAlarm

LEMMA SignalAlarm ==
  ASSUME IInv, IInv', DeltasOK, UNCHANGED sleepq, pc[currpid].op # "wakeup",
         NEW s \in Sems, ~Resetting(s), SignalOne(s)
  PROVE  DeltasOK' /\ Alarm!AlarmNext
<1>1. CASE scount[s] < 0 /\ Ready(Head(squeue[s]), qkey)
  BY <1>1, SemTypes, ReleaseAlarm
<1>2. CASE UNCHANGED qkey
  BY <1>2, ReschedAlarm
<1>3. QED
  BY <1>1, <1>2 DEF SignalOne, Release

LEMMA CallAlarm ==
  ASSUME IInv, IInv', DeltasOK, SemaphoreCall
  PROVE  DeltasOK' /\ Alarm!AlarmNext
<1>. DEFINE Kept == DeltasOK' /\ Alarm!AlarmNext
<1>1. Calling \/ Running => pc[currpid].op # "wakeup" /\ \A s \in Sems : ~Resetting(s)
  BY DEF Calling, Running, At, Resetting
<1>2. ASSUME NEW n \in Counts, Semcreate(n) PROVE Kept
  BY <1>1, <1>2, ReschedAlarm DEF Semcreate
<1>3. ASSUME NEW s \in Sems, Wait(s) PROVE Kept
  <2>1. sleepq' = sleepq /\ (UNCHANGED qkey \/ \E st, rl : Resched(st, rl, qkey))
    BY <1>3 DEF Wait, Block
  <2>2. QED
    BY <1>1, <1>3, <2>1, ReschedAlarm DEF Wait
<1>4. ASSUME NEW s \in Sems, Signal(s) PROVE Kept
  BY <1>1, <1>4, SignalAlarm DEF Signal
<1>5. ASSUME NEW s \in Sems, Semdelete(s) PROVE Kept
  BY <1>1, <1>5, ReschedAlarm DEF Semdelete, StartLoop
<1>6. ASSUME NEW s \in Sems, NEW n \in Counts, Signaln(s, n) \/ Semreset(s, n) PROVE Kept
  BY <1>1, <1>6, ReschedAlarm DEF Signaln, Semreset, StartLoop
<1>7. QED
  BY <1>2, <1>3, <1>4, <1>5, <1>6 DEF SemaphoreCall

LEMMA LoopAlarm ==
  ASSUME IInv, IInv', DeltasOK,
         SignalnStep \/ SignalnEnd \/ SemdeleteStep \/ SemdeleteEnd \/ SemresetStep \/ SemresetEnd
  PROVE  DeltasOK' /\ Alarm!AlarmNext
<1>. DEFINE Kept == DeltasOK' /\ Alarm!AlarmNext
<1>1. PICK s : s = pc[currpid].arg
  OBVIOUS
<1>2. pc[currpid].op \in {"signaln", "semdelete", "semreset"}
  BY DEF SignalnStep, SignalnEnd, SemdeleteStep, SemdeleteEnd, SemresetStep, SemresetEnd, At
<1>3. s \in Sems /\ sleepq' = sleepq /\ pc[currpid].op # "wakeup"
  <2>1. currpid \in Pid
    BY SleepTypes
  <2>2. s \in Sems
    BY <1>1, <1>2, <2>1 DEF IInv, ContOK
  <2>3. sleepq' = sleepq
    BY DEF SignalnStep, SignalnEnd, SemdeleteStep, SemdeleteEnd, SemresetStep, SemresetEnd, EndLoop
  <2>4. QED
    BY <1>2, <2>2, <2>3
<1>4. ASSUME EndLoop PROVE Kept
  <2>1. UNCHANGED qkey \/ \E st, rl, sl : Dispatch(st, rl, qkey, sl)
    BY <1>4 DEF EndLoop, DeferStop
  <2>2. QED
    BY <1>3, <2>1, ReschedAlarm
<1>5. ASSUME SignalnStep PROVE Kept
  BY <1>1, <1>3, <1>5, SignalAlarm DEF SignalnStep, At, Resetting
<1>6. ASSUME SemdeleteStep PROVE Kept
  <2>1. ~Resetting(s) /\ ~(scount[s] >= 0) /\ Ready(Head(squeue[s]), qkey)
    BY <1>1, <1>6 DEF SemdeleteStep, At, Resetting, AllReleased, Release
  <2>2. scount[s] \in Int
    BY <1>3, SemTypes
  <2>3. squeue[s] # <<>>
    BY <1>3, <2>1, <2>2, SemTypes
  <2>4. QED
    BY <1>3, <2>1, <2>3, ReleaseAlarm
<1>7. ASSUME SemresetStep PROVE Kept
  BY <1>1, <1>3, <1>7, ReleaseAlarm DEF SemresetStep, Release
<1>8. QED
  BY <1>4, <1>5, <1>6, <1>7 DEF SignalnEnd, SemdeleteEnd, SemresetEnd

LEMMA AlarmStep ==
  ASSUME IInv, DeltasOK, 0 \notin Delays, [Next]_vars
  PROVE  DeltasOK' /\ [Alarm!AlarmNext]_(Alarm!alarmVars)
<1>1. IInv'
  BY StepInv
<1>2. CASE UNCHANGED vars
  <2>1. UNCHANGED <<sleepq, qkey, pc, currpid, prstate, prhasmsg>>
    BY <1>2 DEF vars
  <2>2. UNCHANGED <<TicksLeft, Excused>>
    BY <2>1 DEF TicksLeft, Excused
  <2>3. DeltasOK'
    BY <2>1 DEF DeltasOK, Expired, FirstKey, Counting
  <2>4. QED
    BY <2>2, <2>3 DEF Alarm!alarmVars
<1>3. CASE ProcessCall
  BY <1>1, <1>3, ProcessAlarm
<1>4. CASE SemaphoreCall
  BY <1>1, <1>4, CallAlarm
<1>5. CASE KernelStep
  <2>1. CASE KillEnd
    BY <1>1, <2>1, KillEndAlarm
  <2>2. CASE ReceiveEnd
    BY <1>1, <2>2, ReschedAlarm DEF ReceiveEnd, At
  <2>3. CASE Wakeup
    BY <1>1, <2>3, WakeupAlarm
  <2>4. CASE WakeupEnd
    <3>1. UNCHANGED qkey \/ \E st, rl, sl : Dispatch(st, rl, qkey, sl)
      BY <2>4 DEF WakeupEnd, DeferStop
    <3>2. QED
      BY <1>1, <2>4, <3>1, ReschedAlarm DEF WakeupEnd
  <2>5. CASE ClockEnd
    <3>1. UNCHANGED qkey \/ \E st, rl, sl : Dispatch(st, rl, qkey, sl)
      BY <2>5 DEF ClockEnd
    <3>2. QED
      BY <1>1, <2>5, <3>1, ReschedAlarm DEF ClockEnd, At
  <2>6. QED
    BY <1>1, <1>5, <2>1, <2>2, <2>3, <2>4, <2>5, LoopAlarm DEF KernelStep
<1>6. CASE Clock
  BY <1>1, <1>6, ClockAlarm
<1>7. CASE Halted
  BY <1>2, <1>7 DEF Halted
<1>8. QED
  BY <1>2, <1>3, <1>4, <1>5, <1>6, <1>7 DEF Next

(* sleepms, recvtime, send, kill and the clock implement an alarm clock,   *)
(* step for step: a process put to sleep for d ticks is let go by the d-th *)
(* tick, whoever joins or leaves the delta list meanwhile.  recvtime(0)    *)
(* breaks that promise for everybody behind it (kernel_starve), so the     *)
(* theorem is about delays of at least one tick.                           *)
THEOREM SleepQueueKeepsTime ==
  ASSUME 0 \notin Delays
  PROVE  Spec => SleepIsAlarm
<1>1. Init => DeltasOK
  BY DEF Init, DeltasOK, Counting, Expired
<1>2. Init => Alarm!AlarmInit
  <2>1. ASSUME Init PROVE TicksLeft = [p \in Pid |-> -1]
    <3>1. sleepq = <<>> /\ ToSet(<<>>) = {}
      BY <2>1 DEF Init, ToSet
    <3>2. QED
      BY <3>1 DEF TicksLeft, Ticks
  <2>2. ASSUME Init PROVE Excused \in [Pid -> BOOLEAN]
    BY <2>2 DEF Init, Excused
  <2>3. QED
    BY <2>1, <2>2 DEF Alarm!AlarmInit, Alarm!NotSet
<1>3. IInv /\ DeltasOK /\ [Next]_vars => DeltasOK' /\ [Alarm!AlarmNext]_(Alarm!alarmVars)
  BY AlarmStep
<1>4. QED
  BY <1>1, <1>2, <1>3, Inductive, PTL DEF Spec, SleepIsAlarm, Alarm!AlarmSpec
=============================================================================
