------------------------------ MODULE MCKernel ------------------------------
(***************************************************************************)
(* Finite instances of Kernel; the configurations give the constants.      *)
(*                                                                         *)
(* View identifies states that differ only in fields nothing reads before  *)
(* they are written again: those of a free process entry, prsem of a       *)
(* process that waits on no semaphore, the key of a process in no ordered  *)
(* queue and the count of a free semaphore without waiters.                *)
(***************************************************************************)
EXTENDS KernelRefines

ProcessView(p) ==
  IF prstate[p] = "free" THEN <<"free">>
  ELSE <<prstate[p], prprio[p], prparent[p], prhasmsg[p], pc[p],
         IF prstate[p] = "wait" THEN prsem[p] ELSE NoSem,
         IF prstate[p] \in {"ready", "sleep", "rectim"} THEN qkey[p] ELSE 0>>

SemView(s) ==
  IF sstate[s] = "S_FREE" /\ squeue[s] = <<>>
  THEN <<"S_FREE">> ELSE <<sstate[s], scount[s], squeue[s]>>

View ==
  <<[p \in Pid |-> ProcessView(p)], [s \in Sems |-> SemView(s)],
    currpid, prcount, nextpid, preempt, readylist, sleepq, nextsem, ndefers,
    IF ndefers > 0 THEN attempt ELSE FALSE, halted,
    qkey \in [Pid -> Int]>>       \* makes TLC evaluate qkey before storing it

(* The instance for the sleep queue: of the calls of the process manager   *)
(* its processes make only those that put somebody on the queue, take      *)
(* somebody off it, or start a process to do so.                           *)
SleepNext ==
  \/ \E prio \in Prios : Create(prio)
  \/ \E pid \in Pid : Resume(pid) \/ Send(pid) \/ Kill(pid)
  \/ \E d \in Delays : Recvtime(d) \/ Sleepms(d)
  \/ KillEnd \/ ReceiveEnd \/ Wakeup \/ WakeupEnd \/ ClockEnd
  \/ Clock \/ Halted

SleepSpec == Init /\ [][SleepNext]_vars
=============================================================================
