--------------------------- MODULE SemaphoreSpec ---------------------------
(***************************************************************************)
(* What a counting semaphore promises: units that are either available or  *)
(* owed to the processes that wait, never both; waiters are served first   *)
(* come, first served.  Only an excused process - one that was killed -    *)
(* leaves the line.                                                        *)
(***************************************************************************)
EXTENDS Integers, Sequences

CONSTANTS Proc, Sem, Count

VARIABLES units, waiters, excused

semSpecVars == <<units, waiters, excused>>

SemInit ==
  /\ units = [s \in Sem |-> 0]
  /\ waiters = [s \in Sem |-> <<>>]
  /\ excused \in [Proc -> BOOLEAN]

Pass(s) ==
  /\ units[s] > 0
  /\ units' = [units EXCEPT ![s] = @ - 1]
  /\ UNCHANGED waiters

Join(p, s) ==
  /\ units[s] = 0
  /\ waiters' = [waiters EXCEPT ![s] = Append(@, p)]
  /\ UNCHANGED units

Free(s) ==
  /\ waiters[s] = <<>>
  /\ units' = [units EXCEPT ![s] = @ + 1]
  /\ UNCHANGED waiters

Grant(s) ==
  /\ waiters[s] # <<>>
  /\ waiters' = [waiters EXCEPT ![s] = Tail(@)]
  /\ UNCHANGED units

(* An excused waiter leaves from where it stands. *)
Withdraw(s) ==
  /\ \E i \in 1..Len(waiters[s]) :
       /\ excused'[waiters[s][i]]
       /\ waiters' = [waiters EXCEPT ![s] =
                        [j \in 1..(Len(@) - 1) |-> IF j < i THEN @[j] ELSE @[j + 1]]]
  /\ UNCHANGED units

(* Creation, the end of a reset and the end of a deletion. *)
Restart(s, n) ==
  /\ waiters[s] = <<>>
  /\ units' = [units EXCEPT ![s] = n]
  /\ UNCHANGED waiters

Excuse == UNCHANGED <<units, waiters>>

SemNext ==
  /\ excused' \in [Proc -> BOOLEAN]
  /\ \/ Excuse
     \/ \E s \in Sem :
          \/ Pass(s) \/ Free(s) \/ Grant(s) \/ Withdraw(s)
          \/ \E p \in Proc : Join(p, s)
          \/ \E n \in Count : Restart(s, n)

SemSpec == SemInit /\ [][SemNext]_semSpecVars
=============================================================================
