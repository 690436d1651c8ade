----------------------------- MODULE MCTables -----------------------------
(***************************************************************************)
(* A finite instance of the users of semaphores: buffer pools with the     *)
(* storage they are cut from, and message ports, also as a table of        *)
(* channels.  They share no state but the semaphore table, whose entries   *)
(* belong to one user each, so that each behaviour is about one of them.   *)
(***************************************************************************)
EXTENDS Buffers, Ports, TLC

VARIABLE scenario

mcvars == <<poolvars, portvars, scenario>>

(* A pool of two buffers of 12 bytes, and one of a single rounded one. *)
MCShapes == {<<8, 2>>, <<9, 1>>}

MCInit ==
  /\ scenario \in {"pools", "ports"}
  /\ MemInit /\ BufInit /\ PortsInit /\ SemInit
  /\ Cardinality(FreeSems(semtab)) \in IF scenario = "pools" THEN {1, 2} ELSE {3}

MCNext ==
  /\ UNCHANGED scenario
  /\ \/ scenario = "pools" /\ PoolsNext /\ UNCHANGED <<porttab, ptfree, ptnextid, pc, panicked>>
     \/ scenario = "ports" /\ PortsNext /\ UNCHANGED <<memvars, buftab, taken, awaits>>

MCSpec == MCInit /\ [][MCNext]_mcvars
-----------------------------------------------------------------------------
(* The three lists share nothing (the sum of lengths is never read), so    *)
(* the instance explores page memory only beside a fresh heap.             *)
OneAtATime == spent = 0 \/ \A l \in Paged : pages[l] = {}

(* Identifies states that differ only in which semaphore or which waiting  *)
(* process is which, and in fields nothing reads before they are written   *)
(* again: those of a free port, semaphores already deleted, and a list     *)
(* already given back.                                                     *)
PoolView(k) ==
  LET sem == semtab[buftab[k].sem]
  IN  <<buftab[k].size, buftab[k].next, sem.count, Len(sem.queue), Promised(k)>>

Deletes(c, stages) ==
  \E p \in Proc : pc[p].port = c /\ pc[p].op \in stages /\ pc[p].new = "PT_FREE"

PortView(c) ==
  LET t == porttab[c]
      Sem(s, gone) == IF s = SYSERR THEN "none" ELSE IF gone THEN "deleted" ELSE semtab[s]
  IN  IF t.state = "PT_FREE" THEN <<t.seq>>
      ELSE <<t.seq, t.state, t.maxcnt, Sem(t.ssem, Deletes(c, {"receivers", "finish"})),
             Sem(t.rsem, Deletes(c, {"finish"})), IF OwnsNodes(c) THEN t.msgs ELSE <<>> >>

View == <<scenario, memvars, [k \in Pools |-> PoolView(k)], taken, Cardinality(FreeSems(semtab)),
          [c \in PortIds |-> PortView(c)], ptfree, ptnextid, pc, panicked>>

Symmetry == Permutations(Proc) \cup Permutations(Message)
=============================================================================
