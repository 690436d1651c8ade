------------------------------ MODULE SemTable ------------------------------
(***************************************************************************)
(* What the semaphore calls make of the semaphore table (system/           *)
(* semcreate.c, wait.c, signal.c, semreset.c, semdelete.c, kill.c), for    *)
(* modules about users of semaphores.  Who runs next is left to module     *)
(* Kernel.  Calls are refused for SYSERR, which a failed semcreate leaves  *)
(* in its caller's tables.                                                 *)
(***************************************************************************)
EXTENDS Integers, SequencesExt

CONSTANTS
  Sems,        \* semaphores the rest of the system leaves to these users
  SYSERR       \* what semcreate returns when it fails

ASSUME SemTableAssumption == SYSERR \notin Sems

VARIABLE semtab      \* the semaphores

FreeEntry == [state |-> "S_FREE", count |-> 0, queue |-> <<>>]

(* The table is free, but for what others have taken before.               *)
SemInit == semtab \in [Sems -> {FreeEntry, [FreeEntry EXCEPT !.state = "S_USED"]}]

FreeSems(tab) == {s \in Sems : tab[s].state = "S_FREE"}

(* The ids semcreate may return: SYSERR only when the table is full. *)
NewSems(tab) == IF FreeSems(tab) = {} THEN {SYSERR} ELSE FreeSems(tab)

Semcreate(tab, n, s) ==
  IF s = SYSERR THEN tab
  ELSE [tab EXCEPT ![s] = [state |-> "S_USED", count |-> n, queue |-> <<>>]]

Waited(tab, s) == [tab EXCEPT ![s].count = @ - 1]

(* wait by p when it blocks. *)
Enqueued(tab, s, p) == [Waited(tab, s) EXCEPT ![s].queue = Append(@, p)]

Signalled(tab, s) ==
  IF s = SYSERR THEN tab
  ELSE [tab EXCEPT ![s].count = @ + 1,
                   ![s].queue = IF tab[s].count < 0 THEN Tail(@) ELSE @]

ResetTo(tab, s, n) ==
  IF s = SYSERR THEN tab ELSE [tab EXCEPT ![s].count = n, ![s].queue = <<>>]

Deleted(tab, s) == IF s = SYSERR THEN tab ELSE [tab EXCEPT ![s] = FreeEntry]

WaitsIn(tab, p) == \E s \in Sems : p \in ToSet(tab[s].queue)

(* kill: the victim leaves the semaphore it waits for and gives back its   *)
(* count.                                                                  *)
Killed(tab, p) ==
  [s \in Sems |->
     IF p \in ToSet(tab[s].queue)
     THEN [tab[s] EXCEPT !.count = @ + 1, !.queue = RemoveFirst(@, p)]
     ELSE tab[s]]

Left(tab, s) == IF tab[s].count > 0 THEN tab[s].count ELSE 0
=============================================================================
