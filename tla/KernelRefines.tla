--------------------------- MODULE KernelRefines ---------------------------
(* The kernel's sleep queue is an AlarmClock, its semtab a SemaphoreSpec. *)
EXTENDS Kernel

(* The ticks a sleeper still has to wait: its delta and those before it. *)
DeltaSums(q, qk) ==
  LET sum[i \in 0..Len(q)] == IF i = 0 THEN 0 ELSE sum[i - 1] + qk[q[i]]
  IN  sum

Ticks(q, qk) ==
  [p \in Pid |-> IF p \in ToSet(q)
                 THEN DeltaSums(q, qk)[CHOOSE i \in 1..Len(q) : q[i] = p]
                 ELSE -1]

TicksLeft == Ticks(sleepq, qkey)

Excused == [p \in Pid |-> prstate[p] = "free" \/ prhasmsg[p]]

Alarm == INSTANCE AlarmClock
           WITH Client <- Pid, Delay <- Delays,
                left <- TicksLeft, excused <- Excused

Units == [s \in Sems |-> IF scount[s] > 0 THEN scount[s] ELSE 0]

Semaphore == INSTANCE SemaphoreSpec
               WITH Proc <- Pid, Sem <- Sems, Count <- Counts,
                    units <- Units, waiters <- squeue,
                    excused <- [p \in Pid |-> prstate[p] = "free"]

(* sleepms and recvtime: a process put to sleep for d ticks is made ready  *)
(* by the d-th clock tick, whatever other sleepers come, go or are killed; *)
(* only a message or a kill takes it off the queue before.                 *)
SleepIsAlarm == Alarm!AlarmSpec

(* wait, signal, signaln, semreset, semdelete and kill together keep the   *)
(* promise of a semaphore: units are never available while processes wait, *)
(* and waiters leave in the order they came unless they are killed.        *)
SemtabIsSemaphore == Semaphore!SemSpec
=============================================================================
