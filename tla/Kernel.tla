------------------------------- MODULE Kernel -------------------------------
(***************************************************************************)
(* The process manager of the kernel: process table, ready list, counting  *)
(* semaphores, one-word messages, the sleep queue and the clock interrupt. *)
(*                                                                         *)
(* One processor.  A system call runs with interrupts disabled, so nothing *)
(* else happens until it either returns or gives the processor away inside *)
(* resched.  What a process still has to do inside the kernel when it gets *)
(* the processor back is its continuation pc[p]; "user" means it is        *)
(* outside the kernel, with interrupts enabled.  Calls that fail (return   *)
(* SYSERR) change nothing and are not steps.  Loops over a queue, which    *)
(* run with rescheduling deferred, take one step per iteration.            *)
(***************************************************************************)
EXTENDS Queues

CONSTANTS
  NPROC,       \* size of proctab
  NSEM,        \* size of semtab
  QUANTUM,     \* time slice, in clock ticks
  INITPRIO,    \* priority of the startup process
  Prios,       \* priorities passed to create
  NewPrios,    \* priorities passed to chprio
  Counts,      \* counts passed to semcreate, semreset and signaln
  Delays,      \* delays passed to sleepms and recvtime
  MaxCount     \* bound of the model: no call raises a count above it

NULLPROC == 0
NoSem    == -1
Pid      == 0..(NPROC - 1)
Sems     == 0..(NSEM - 1)
Prio     == {INITPRIO, 0} \cup Prios \cup NewPrios

ASSUME TableAssumption ==
  /\ NPROC \in Nat /\ NPROC >= 2
  /\ NSEM \in Nat
  /\ QUANTUM \in Nat \ {0}
ASSUME ArgumentAssumption ==
  /\ INITPRIO > MINKEY /\ INITPRIO \in Int
  /\ Prios \subseteq Nat \ {0}
  /\ NewPrios \subseteq Int /\ \A k \in NewPrios : k > MINKEY
  /\ Counts \subseteq Nat
  /\ Delays \subseteq Nat
  /\ MaxCount \in Nat

PState == {"free", "curr", "ready", "recv", "sleep", "susp", "wait", "rectim"}

(* Continuations.  arg is a process or a semaphore, n a count. *)
Ops   == {"user", "receive", "recvtime", "kill", "clock",
          "signaln", "semdelete", "semreset", "wakeup"}
Cont  == [op : Ops, arg : Nat, n : Nat]
User  == [op |-> "user", arg |-> 0, n |-> 0]
Deferring == {"signaln", "semdelete", "semreset", "wakeup"}

VARIABLES
  prstate, prprio, prsem, prparent, prhasmsg,   \* struct procent proctab[]
  currpid, prcount, nextpid, preempt,
  qkey, readylist, sleepq,                      \* queuetab: keys and queues
  sstate, scount, squeue, nextsem,              \* struct sentry semtab[]
  ndefers, attempt,                             \* struct defer Defer
  pc,                                           \* where each process resumes
  halted                                        \* the processor has stopped

procVars  == <<prprio, prparent, nextpid>>
schedVars == <<prstate, readylist, currpid, preempt, attempt>>
semVars   == <<sstate, scount, squeue, nextsem>>
sleepVars == <<sleepq>>
vars == <<prstate, prprio, prsem, prparent, prhasmsg, currpid, prcount,
          nextpid, preempt, qkey, readylist, sleepq, sstate, scount, squeue,
          nextsem, ndefers, attempt, pc, halted>>

-----------------------------------------------------------------------------
(* The state in which sysinit and nulluser leave the system once they have *)
(* resumed the startup process.                                            *)
Init ==
  /\ prstate  = [p \in Pid |-> IF p = NULLPROC THEN "ready"
                               ELSE IF p = 1 THEN "curr" ELSE "free"]
  /\ prprio   = [p \in Pid |-> IF p = 1 THEN INITPRIO ELSE 0]
  /\ prsem    = [p \in Pid |-> NoSem]
  /\ prparent = [p \in Pid |-> NULLPROC]
  /\ prhasmsg = [p \in Pid |-> FALSE]
  /\ currpid  = 1
  /\ prcount  = 2
  /\ nextpid  = 2 % NPROC
  /\ preempt  = QUANTUM
  /\ qkey     = [p \in Pid |-> 0]
  /\ readylist = <<NULLPROC>>
  /\ sleepq   = <<>>
  /\ sstate   = [s \in Sems |-> "S_FREE"]
  /\ scount   = [s \in Sems |-> 0]
  /\ squeue   = [s \in Sems |-> <<>>]
  /\ nextsem  = 0
  /\ ndefers  = 0
  /\ attempt  = FALSE
  /\ pc       = [p \in Pid |-> User]
  /\ halted   = FALSE

-----------------------------------------------------------------------------
(* Rescheduling.  Callers pass the process states, the ready list and the  *)
(* keys as they stand at the call.                                         *)
SwitchTo(st, rl) ==
  /\ currpid'   = Head(rl)
  /\ readylist' = Tail(rl)
  /\ prstate'   = [st EXCEPT ![Head(rl)] = "curr"]
  /\ preempt'   = QUANTUM

(* resched with no deferral in force; slice is preempt if it returns. *)
Dispatch(st, rl, qk, slice) ==
  \/ /\ st[currpid] = "curr"
     /\ prprio[currpid] > FirstKey(rl, qk)
     /\ prstate' = st
     /\ readylist' = rl
     /\ qkey' = qk
     /\ preempt' = slice
     /\ UNCHANGED currpid
  \/ /\ st[currpid] = "curr"
     /\ prprio[currpid] <= FirstKey(rl, qk)
     /\ qkey' = [qk EXCEPT ![currpid] = prprio[currpid]]
     /\ SwitchTo([st EXCEPT ![currpid] = "ready"],
                 Insert(rl, currpid, qk, prprio[currpid]))
  \/ /\ st[currpid] # "curr"
     /\ qkey' = qk
     /\ SwitchTo(st, rl)

Resched(st, rl, qk) ==
  \/ /\ ndefers > 0
     /\ attempt' = TRUE
     /\ prstate' = st
     /\ readylist' = rl
     /\ qkey' = qk
     /\ UNCHANGED <<currpid, preempt>>
  \/ /\ ndefers = 0
     /\ Dispatch(st, rl, qk, preempt)
     /\ UNCHANGED attempt

(* ready: eligible again, on the ready list, and resched. *)
Ready(pid, qk) ==
  Resched([prstate EXCEPT ![pid] = "ready"],
          Insert(readylist, pid, qk, prprio[pid]),
          [qk EXCEPT ![pid] = prprio[pid]])

(* The current process leaves the processor in state s. *)
Block(s, qk) == Resched([prstate EXCEPT ![currpid] = s], readylist, qk)

DeferStart == ndefers' = ndefers + 1 /\ attempt' = FALSE

DeferStopLeak == UNCHANGED <<ndefers, schedVars, qkey>>

DeferStop ==
  /\ ndefers' = ndefers - 1
  /\ IF ndefers - 1 = 0 /\ attempt
     THEN Dispatch(prstate, readylist, qkey, preempt)
     ELSE UNCHANGED <<prstate, readylist, qkey, currpid, preempt>>
  /\ UNCHANGED attempt

Continue(c) == pc' = [pc EXCEPT ![currpid] = c]
At(o) == ~halted /\ pc[currpid].op = o

(* Outside the kernel.  The null process makes no call of its own; what is *)
(* guarded by Running only may also be called by a device's interrupt      *)
(* handler, on behalf of whatever process it interrupts.                   *)
Running == At("user")
Calling == Running /\ currpid # NULLPROC
-----------------------------------------------------------------------------
(* Process creation and removal *)

(* newpid and newsem take the first free entry at or after start, modulo n. *)
Ahead(start, x, n) == IF x >= start THEN x - start ELSE x - start + n

NextFree(start, n, free) ==
  CHOOSE x \in free : \A y \in free : Ahead(start, x, n) <= Ahead(start, y, n)

NewPid == NextFree(nextpid, NPROC, {p \in Pid : prstate[p] = "free"})
NewSem == NextFree(nextsem, NSEM, {s \in Sems : sstate[s] = "S_FREE"})

Create(prio) ==
  /\ Calling
  /\ \E p \in Pid : prstate[p] = "free"
  /\ LET pid == NewPid IN
       /\ prstate'  = [prstate EXCEPT ![pid] = "susp"]
       /\ prprio'   = [prprio EXCEPT ![pid] = prio]
       /\ prsem'    = [prsem EXCEPT ![pid] = NoSem]
       /\ prparent' = [prparent EXCEPT ![pid] = currpid]
       /\ prhasmsg' = [prhasmsg EXCEPT ![pid] = FALSE]
       /\ pc'       = [pc EXCEPT ![pid] = User]
       /\ nextpid'  = (pid + 1) % NPROC
  /\ prcount' = prcount + 1
  /\ UNCHANGED <<currpid, preempt, qkey, readylist, sleepq, semVars, ndefers,
                 attempt, halted>>

DeliverNoWakeup(pid) ==
  /\ prhasmsg' = [prhasmsg EXCEPT ![pid] = TRUE]
  /\ UNCHANGED <<sleepq, qkey, schedVars>>

(* send: only to a process whose one-message buffer is empty. *)
Deliver(pid) ==
  IF prstate[pid] = "free" \/ prhasmsg[pid]
  THEN UNCHANGED <<prhasmsg, sleepq, qkey, schedVars>>
  ELSE /\ prhasmsg' = [prhasmsg EXCEPT ![pid] = TRUE]
       /\ \/ /\ prstate[pid] = "recv"
             /\ Ready(pid, qkey)
             /\ UNCHANGED sleepq
          \/ /\ prstate[pid] = "rectim"
             /\ sleepq' = Getitem(sleepq, pid)
             /\ Ready(pid, UnsleepKeys(sleepq, pid, qkey))
          \/ /\ prstate[pid] \notin {"recv", "rectim"}
             /\ UNCHANGED <<sleepq, qkey, schedVars>>

RemovableAny(pid) == prstate[pid] # "free"
Removable(pid) == pid # NULLPROC /\ prstate[pid] # "free"

LastLeftLate(n) == n < 1
LastLeft(n) == n <= 1

(* kill, up to the message to the parent, which may cost the processor. *)
Kill(pid) ==
  /\ Calling
  /\ Removable(pid)
  /\ prcount' = prcount - 1
  /\ \/ /\ LastLeft(prcount - 1)               \* xdone: halt
        /\ halted' = TRUE
        /\ UNCHANGED <<prhasmsg, sleepq, qkey, schedVars, pc>>
     \/ /\ ~LastLeft(prcount - 1)
        /\ Deliver(prparent[pid])
        /\ Continue([op |-> "kill", arg |-> pid, n |-> 0])
        /\ UNCHANGED halted
  /\ UNCHANGED <<procVars, prsem, semVars, ndefers>>

UnreadyHead(pid) == readylist' = Tail(readylist)
Unready(pid) == readylist' = Getitem(readylist, pid)

LeaveSemUncounted(pid) ==
  /\ squeue' = [squeue EXCEPT ![prsem[pid]] = Getitem(@, pid)]
  /\ UNCHANGED scount

LeaveSem(pid) ==
  /\ scount' = [scount EXCEPT ![prsem[pid]] = @ + 1]
  /\ squeue' = [squeue EXCEPT ![prsem[pid]] = Getitem(@, pid)]

(* The rest of kill: what it does depends on the victim's state by then. *)
KillEnd ==
  /\ At("kill")
  /\ LET pid  == pc[currpid].arg
         gone == [prstate EXCEPT ![pid] = "free"]
     IN
     /\ pc' = [pc EXCEPT ![currpid] = User, ![pid] = User]
     /\ \/ /\ prstate[pid] = "curr"            \* suicide
           /\ Resched(gone, readylist, qkey)
           /\ UNCHANGED <<sleepq, scount, squeue>>
        \/ /\ prstate[pid] \in {"sleep", "rectim"}
           /\ qkey' = UnsleepKeys(sleepq, pid, qkey)
           /\ sleepq' = Getitem(sleepq, pid)
           /\ prstate' = gone
           /\ UNCHANGED <<readylist, currpid, preempt, attempt, scount, squeue>>
        \/ /\ prstate[pid] = "wait"
           /\ LeaveSem(pid)
           /\ prstate' = gone
           /\ UNCHANGED <<readylist, currpid, preempt, attempt, sleepq, qkey>>
        \/ /\ prstate[pid] = "ready"
           /\ Unready(pid)
           /\ prstate' = gone
           /\ UNCHANGED <<currpid, preempt, attempt, sleepq, qkey, scount,
                          squeue>>
        \/ /\ prstate[pid] \in {"susp", "recv", "free"}
           /\ prstate' = gone
           /\ UNCHANGED <<readylist, currpid, preempt, attempt, sleepq, qkey,
                          scount, squeue>>
  /\ UNCHANGED <<procVars, prsem, prhasmsg, prcount, sstate, nextsem, ndefers,
                 halted>>

(* halt spins for ever. *)
Halted == halted /\ UNCHANGED vars

-----------------------------------------------------------------------------
(* Suspension, priorities, yielding *)

Suspend(pid) ==
  /\ Calling
  /\ Removable(pid)
  /\ \/ /\ prstate[pid] = "ready"
        /\ Unready(pid)
        /\ prstate' = [prstate EXCEPT ![pid] = "susp"]
        /\ UNCHANGED <<currpid, preempt, attempt, qkey>>
     \/ /\ prstate[pid] = "curr"
        /\ Block("susp", qkey)
  /\ UNCHANGED <<procVars, prsem, prhasmsg, prcount, sleepq, semVars, ndefers,
                 pc, halted>>

Resume(pid) ==
  /\ Calling
  /\ prstate[pid] = "susp"
  /\ Ready(pid, qkey)
  /\ UNCHANGED <<procVars, prsem, prhasmsg, prcount, sleepq, semVars, ndefers,
                 pc, halted>>

Yield ==
  /\ Calling
  /\ Resched(prstate, readylist, qkey)
  /\ UNCHANGED <<procVars, prsem, prhasmsg, prcount, sleepq, semVars, ndefers,
                 pc, halted>>

(* chprio only writes the table: it moves nobody and does not reschedule. *)
Chprio(pid, newprio) ==
  /\ Calling
  /\ prstate[pid] # "free"
  /\ prprio' = [prprio EXCEPT ![pid] = newprio]
  /\ UNCHANGED <<schedVars, prsem, prparent, nextpid, prhasmsg, prcount, qkey,
                 sleepq, semVars, ndefers, pc, halted>>

-----------------------------------------------------------------------------
(* Messages *)

Send(pid) ==
  /\ Calling
  /\ prstate[pid] # "free"
  /\ ~prhasmsg[pid]
  /\ Deliver(pid)
  /\ UNCHANGED <<procVars, prsem, prcount, semVars, ndefers, pc, halted>>

Receive ==
  /\ Calling
  /\ \/ /\ prhasmsg[currpid]
        /\ prhasmsg' = [prhasmsg EXCEPT ![currpid] = FALSE]
        /\ UNCHANGED <<schedVars, qkey, pc>>
     \/ /\ ~prhasmsg[currpid]
        /\ Block("recv", qkey)
        /\ Continue([op |-> "receive", arg |-> 0, n |-> 0])
        /\ UNCHANGED prhasmsg
  /\ UNCHANGED <<procVars, prsem, prcount, sleepq, semVars, ndefers, halted>>

(* The end of receive and of recvtime: take the message, if there is one. *)
ReceiveEnd ==
  /\ At("receive") \/ At("recvtime")
  /\ prhasmsg' = [prhasmsg EXCEPT ![currpid] = FALSE]
  /\ Continue(User)
  /\ UNCHANGED <<procVars, schedVars, prsem, prcount, qkey, sleepq, semVars,
                 ndefers, halted>>

Recvclr ==
  /\ Calling
  /\ prhasmsg[currpid]
  /\ prhasmsg' = [prhasmsg EXCEPT ![currpid] = FALSE]
  /\ UNCHANGED <<procVars, schedVars, prsem, prcount, qkey, sleepq, semVars,
                 ndefers, pc, halted>>

Recvtime(maxwait) ==
  /\ Calling
  /\ \/ /\ prhasmsg[currpid]
        /\ prhasmsg' = [prhasmsg EXCEPT ![currpid] = FALSE]
        /\ UNCHANGED <<schedVars, qkey, sleepq, pc>>
     \/ /\ ~prhasmsg[currpid]
        /\ sleepq' = Insertd(sleepq, currpid, qkey, maxwait)
        /\ Block("rectim", InsertdKeys(sleepq, currpid, qkey, maxwait))
        /\ Continue([op |-> "recvtime", arg |-> 0, n |-> 0])
        /\ UNCHANGED prhasmsg
  /\ UNCHANGED <<procVars, prsem, prcount, semVars, ndefers, halted>>

-----------------------------------------------------------------------------
(* Sleeping and the clock *)

(* sleepms; a delay of 0 is Yield. *)
Sleepms(delay) ==
  /\ Calling
  /\ delay > 0
  /\ sleepq' = Insertd(sleepq, currpid, qkey, delay)
  /\ Block("sleep", InsertdKeys(sleepq, currpid, qkey, delay))
  /\ UNCHANGED <<procVars, prsem, prhasmsg, prcount, semVars, ndefers, pc,
                 halted>>

(* clkhandler: count the first sleeper down; at zero, call wakeup. *)
Clock ==
  /\ Running
  /\ \/ /\ sleepq = <<>>
        /\ Continue([op |-> "clock", arg |-> 0, n |-> 0])
        /\ UNCHANGED <<qkey, ndefers, attempt>>
     \/ /\ sleepq # <<>>
        /\ qkey' = [qkey EXCEPT ![Head(sleepq)] = @ - 1]
        /\ \/ /\ qkey'[Head(sleepq)] <= 0
              /\ DeferStart
              /\ Continue([op |-> "wakeup", arg |-> 0, n |-> 0])
           \/ /\ qkey'[Head(sleepq)] > 0
              /\ Continue([op |-> "clock", arg |-> 0, n |-> 0])
              /\ UNCHANGED <<ndefers, attempt>>
  /\ UNCHANGED <<procVars, prstate, readylist, currpid, preempt, prsem,
                 prhasmsg, prcount, sleepq, semVars, halted>>

Expired == sleepq # <<>> /\ FirstKey(sleepq, qkey) <= 0

Wakeup ==
  /\ At("wakeup")
  /\ Expired
  /\ sleepq' = Tail(sleepq)
  /\ Ready(Head(sleepq), qkey)
  /\ UNCHANGED <<procVars, prsem, prhasmsg, prcount, semVars, ndefers, pc,
                 halted>>

WakeupEnd ==
  /\ At("wakeup")
  /\ ~Expired
  /\ DeferStop
  /\ Continue([op |-> "clock", arg |-> 0, n |-> 0])
  /\ UNCHANGED <<procVars, prsem, prhasmsg, prcount, sleepq, semVars, halted>>

SliceOver == preempt - 1 <= 0

(* The rest of clkhandler: the time slice. *)
ClockEnd ==
  /\ At("clock")
  /\ \/ /\ SliceOver
        /\ Dispatch(prstate, readylist, qkey, QUANTUM)
     \/ /\ ~SliceOver
        /\ preempt' = preempt - 1
        /\ UNCHANGED <<prstate, readylist, currpid, qkey>>
  /\ Continue(User)
  /\ UNCHANGED <<procVars, attempt, prsem, prhasmsg, prcount, sleepq, semVars,
                 ndefers, halted>>
-----------------------------------------------------------------------------
(* Semaphores *)

Semcreate(count) ==
  /\ Calling
  /\ \E s \in Sems : sstate[s] = "S_FREE"
  /\ LET sem == NewSem
     IN  /\ sstate' = [sstate EXCEPT ![sem] = "S_USED"]
         /\ scount' = [scount EXCEPT ![sem] = count]
         /\ nextsem' = (sem + 1) % NSEM
  /\ UNCHANGED <<procVars, schedVars, prsem, prhasmsg, prcount, qkey, sleepq,
                 squeue, ndefers, pc, halted>>

Wait(sem) ==
  /\ Calling
  /\ sstate[sem] = "S_USED"
  /\ scount' = [scount EXCEPT ![sem] = @ - 1]
  /\ \/ /\ scount[sem] - 1 < 0
        /\ prsem' = [prsem EXCEPT ![currpid] = sem]
        /\ squeue' = [squeue EXCEPT ![sem] = Append(@, currpid)]
        /\ Block("wait", qkey)
     \/ /\ scount[sem] - 1 >= 0
        /\ UNCHANGED <<schedVars, prsem, squeue, qkey>>
  /\ UNCHANGED <<procVars, prhasmsg, prcount, sleepq, sstate, nextsem, ndefers,
                 pc, halted>>

ReleaseLast(sem) ==
  /\ squeue' = [squeue EXCEPT ![sem] = Front(@)]
  /\ Ready(Last(squeue[sem]), qkey)

(* ready(dequeue(squeue)) *)
Release(sem) ==
  /\ squeue' = [squeue EXCEPT ![sem] = Tail(@)]
  /\ Ready(Head(squeue[sem]), qkey)

(* One signal: count up, and release the first waiter if there is one. *)
SignalOne(sem) ==
  /\ scount' = [scount EXCEPT ![sem] = @ + 1]
  /\ \/ /\ scount[sem] < 0
        /\ Release(sem)
     \/ /\ scount[sem] >= 0
        /\ UNCHANGED <<schedVars, squeue, qkey>>

Signal(sem) ==
  /\ Running
  /\ sstate[sem] = "S_USED"
  /\ scount[sem] < MaxCount
  /\ SignalOne(sem)
  /\ UNCHANGED <<procVars, prsem, prhasmsg, prcount, sleepq, sstate, nextsem,
                 ndefers, pc, halted>>

(* The calls that release several processes first defer rescheduling. *)
StartLoop(c) ==
  /\ DeferStart
  /\ Continue(c)
  /\ UNCHANGED <<procVars, prstate, readylist, currpid, preempt, prsem,
                 prhasmsg, prcount, qkey, sleepq, scount, squeue, nextsem,
                 halted>>

EndLoop ==
  /\ DeferStop
  /\ Continue(User)
  /\ UNCHANGED <<procVars, prsem, prhasmsg, prcount, sleepq, sstate, squeue,
                 nextsem, halted>>

Signaln(sem, count) ==
  /\ Running
  /\ sstate[sem] = "S_USED"
  /\ scount[sem] + count <= MaxCount
  /\ StartLoop([op |-> "signaln", arg |-> sem, n |-> count])
  /\ UNCHANGED sstate

SignalnStep ==
  /\ At("signaln")
  /\ pc[currpid].n > 0
  /\ SignalOne(pc[currpid].arg)
  /\ Continue([pc[currpid] EXCEPT !.n = @ - 1])
  /\ UNCHANGED <<procVars, prsem, prhasmsg, prcount, sleepq, sstate, nextsem,
                 ndefers, halted>>

SignalnEnd ==
  /\ At("signaln")
  /\ pc[currpid].n = 0
  /\ EndLoop
  /\ UNCHANGED scount

Semdelete(sem) ==
  /\ Calling
  /\ sstate[sem] = "S_USED"
  /\ sstate' = [sstate EXCEPT ![sem] = "S_FREE"]
  /\ StartLoop([op |-> "semdelete", arg |-> sem, n |-> 0])

AllReleased(sem) == scount[sem] >= 0

SemdeleteStep ==
  /\ At("semdelete")
  /\ LET sem == pc[currpid].arg IN
       /\ ~AllReleased(sem)
       /\ scount' = [scount EXCEPT ![sem] = @ + 1]
       /\ Release(sem)
  /\ UNCHANGED <<procVars, prsem, prhasmsg, prcount, sleepq, sstate, nextsem,
                 ndefers, pc, halted>>

(* The last test of the loop counts the semaphore up once more. *)
SemdeleteEnd ==
  /\ At("semdelete")
  /\ LET sem == pc[currpid].arg IN
       /\ AllReleased(sem)
       /\ scount' = [scount EXCEPT ![sem] = @ + 1]
  /\ EndLoop

Semreset(sem, count) ==
  /\ Calling
  /\ sstate[sem] = "S_USED"
  /\ StartLoop([op |-> "semreset", arg |-> sem, n |-> count])
  /\ UNCHANGED sstate

SemresetStep ==
  /\ At("semreset")
  /\ squeue[pc[currpid].arg] # <<>>
  /\ Release(pc[currpid].arg)
  /\ UNCHANGED <<procVars, prsem, prhasmsg, prcount, sleepq, sstate, scount,
                 nextsem, ndefers, pc, halted>>

SemresetEnd ==
  /\ At("semreset")
  /\ squeue[pc[currpid].arg] = <<>>
  /\ scount' = [scount EXCEPT ![pc[currpid].arg] = pc[currpid].n]
  /\ EndLoop

-----------------------------------------------------------------------------
(* What a process outside the kernel may call. *)
ProcessCall ==
  \/ \E prio \in Prios : Create(prio)
  \/ \E pid \in Pid : Kill(pid) \/ Suspend(pid) \/ Resume(pid) \/ Send(pid)
  \/ \E pid \in Pid, newprio \in NewPrios : Chprio(pid, newprio)
  \/ Yield \/ Receive \/ Recvclr
  \/ \E d \in Delays : Recvtime(d) \/ Sleepms(d)

SemaphoreCall ==
  \/ \E n \in Counts : Semcreate(n)
  \/ \E s \in Sems : Wait(s) \/ Signal(s) \/ Semdelete(s)
  \/ \E s \in Sems, n \in Counts : Signaln(s, n) \/ Semreset(s, n)

(* What the kernel still has to do before interrupts are enabled again. *)
KernelStep ==
  \/ KillEnd \/ ReceiveEnd \/ Wakeup \/ WakeupEnd \/ ClockEnd
  \/ SignalnStep \/ SignalnEnd \/ SemdeleteStep \/ SemdeleteEnd
  \/ SemresetStep \/ SemresetEnd

Next == ProcessCall \/ SemaphoreCall \/ KernelStep \/ Clock \/ Halted

Spec == Init /\ [][Next]_vars

(* A call in the kernel runs on.  The clock keeps interrupting, and an       *)
(* interrupt raised while interrupts are disabled stays pending until they *)
(* are enabled: strong fairness.                                           *)
Fairness == WF_vars(KernelStep) /\ SF_vars(Clock)

FairSpec == Spec /\ Fairness

-----------------------------------------------------------------------------
(* Properties *)

(* Every variable keeps the type of the field or global it stands for. *)
TypeOK ==
  /\ prstate \in [Pid -> PState]
  /\ prprio \in [Pid -> Prio]
  /\ prsem \in [Pid -> Sems \cup {NoSem}]
  /\ prparent \in [Pid -> Pid]
  /\ prhasmsg \in [Pid -> BOOLEAN]
  /\ currpid \in Pid
  /\ prcount \in Int
  /\ nextpid \in Pid
  /\ preempt \in 1..QUANTUM
  /\ qkey \in [Pid -> Int]
  /\ readylist \in Seq(Pid) /\ sleepq \in Seq(Pid)
  /\ sstate \in [Sems -> {"S_FREE", "S_USED"}]
  /\ scount \in [Sems -> Int]
  /\ squeue \in [Sems -> Seq(Pid)]
  /\ nextsem \in Sems \cup {0}
  /\ ndefers \in {0, 1} /\ attempt \in BOOLEAN
  /\ pc \in [Pid -> Cont]
  /\ halted \in BOOLEAN

(* queuetab has one entry per process, so a process linked into a second   *)
(* queue corrupts the first: a process stands in exactly the queue its     *)
(* state names, once, and in no queue when its state names none.           *)
PlacedOnce ==
  /\ IsInjective(readylist) /\ IsInjective(sleepq)
  /\ \A s \in Sems : IsInjective(squeue[s])
  /\ \A p \in Pid :
       /\ prstate[p] = "curr" <=> p = currpid
       /\ prstate[p] = "ready" <=> p \in ToSet(readylist)
       /\ prstate[p] \in {"sleep", "rectim"} <=> p \in ToSet(sleepq)
       /\ \A s \in Sems :
            prstate[p] = "wait" /\ prsem[p] = s <=> p \in ToSet(squeue[s])

(* resched dequeues without looking: as long as the processor runs there   *)
(* is always the null process to give it to.                               *)
NullEligible == prstate[NULLPROC] \in {"curr", "ready"}

(* A negative count is the number of waiters, and a count that is not      *)
(* negative leaves nobody waiting - through kill, reset and delete too.    *)
(* While semreset empties the queue the count lags behind.                 *)
Resetting(s) == pc[currpid].op = "semreset" /\ pc[currpid].arg = s
SemCount ==
  \A s \in Sems :
    ~Resetting(s) =>
      Len(squeue[s]) = IF scount[s] < 0 THEN -scount[s] ELSE 0

(* A deleted semaphore has released everybody by the time the call ends.   *)
FreeSemEmpty ==
  \A s \in Sems : sstate[s] = "S_FREE" =>
    squeue[s] = <<>> \/ (pc[currpid].op = "semdelete" /\ pc[currpid].arg = s)

(* Nobody blocks in receive or recvtime with a message in its buffer, and  *)
(* a process that receive let go has one: receive never returns garbage.   *)
MessageWaiting ==
  \A p \in Pid :
    /\ prstate[p] \in {"recv", "rectim"} => ~prhasmsg[p]
    /\ pc[p].op = "receive" /\ prstate[p] # "recv" => prhasmsg[p]

(* Deferral brackets: a context switch never happens inside one, so only   *)
(* the current process can be inside a deferring loop.                     *)
DeferBracket ==
  /\ ndefers = IF pc[currpid].op \in Deferring THEN 1 ELSE 0
  /\ \A p \in Pid \ {currpid} : pc[p].op \notin Deferring

(* The count of processes never exceeds the processes there are, so the    *)
(* machine cannot outlive its last process: it halts when they are gone.   *)
Live == {p \in Pid : prstate[p] # "free"}
ShutdownNotMissed ==
  /\ prcount <= Cardinality(Live)
  /\ halted <=> prcount <= 1

(* resched: nobody left on the ready list has a greater key than the       *)
(* process that is given the processor.                                    *)
DispatchFirst ==
  [][currpid' # currpid =>
       \A p \in ToSet(readylist') : qkey'[p] <= qkey'[currpid']]_vars

(* kill.c: prcount reaches 1 when the "last user process completes", and   *)
(* xdone halts "as last process exits": whoever halts the machine ends the *)
(* only process left besides the null process.                             *)
HaltOnlyAtLast == halted => Cardinality(Live) = 2

(* A ready process eventually runs (or is suspended or killed): round      *)
(* robin among equals.                                                     *)
ReadyRuns ==
  \A p \in Pid \ {NULLPROC} :
    prstate[p] = "ready" ~> (prstate[p] # "ready" \/ halted)

(* A process on the sleep queue eventually leaves it. *)
SleepersWake ==
  \A p \in Pid : p \in ToSet(sleepq) ~> (p \notin ToSet(sleepq) \/ halted)
=============================================================================
