------------------------------ MODULE Buffers ------------------------------
(***************************************************************************)
(* Buffer pools (system/bufinit.c, mkbufpool.c, getbuf.c, freebuf.c) in    *)
(* the storage of module Memory.  A pool is a list of buffers of one size, *)
(* cut from one block of the heap, and a semaphore that counts them.       *)
(* Addresses and sizes of buffers are in bytes: they are multiples of 4.   *)
(***************************************************************************)
EXTENDS Memory, SemTable

CONSTANTS
  Holder,      \* processes that use the pools
  BP_MINB,     \* least size of a buffer
  BP_MAXB,     \* greatest size of a buffer
  BP_MAXN,     \* most buffers in a pool
  NBPOOLS,     \* most pools
  Shapes       \* pairs of size and number passed to mkbufpool

ASSUME BufferAssumption ==
  /\ {BP_MINB, BP_MAXB, BP_MAXN, NBPOOLS} \subseteq Nat
  /\ Shapes \subseteq Int \X Int
  /\ IsFiniteSet(Holder)

VARIABLES
  buftab,      \* the pools made so far; next is the list of free buffers
  taken,       \* buffers that getbuf has handed out, [addr, pool]
  awaits       \* the pool whose buffer each process waits for, 0 for none

bufvars == <<buftab, semtab, taken, awaits>>
poolvars == <<memvars, bufvars>>

Pools == DOMAIN buftab

BufInit ==
  /\ buftab = <<>>
  /\ taken  = {}
  /\ awaits = [p \in Holder |-> 0]

InQueue(p) == WaitsIn(semtab, p)
-----------------------------------------------------------------------------
(* Room for the pool's number in front of each buffer. *)
IdSize == 4
Rounded(bufsiz) == 4 * ((bufsiz + 3) \div 4)

ChainShort(buf, bufsiz, numbufs) ==
  [i \in 1..(numbufs - 1) |-> buf + (i - 1) * (bufsiz + IdSize)]

ChainTight(buf, bufsiz, numbufs) ==
  [i \in 1..numbufs |-> buf + (i - 1) * bufsiz]

Chain(buf, bufsiz, numbufs) ==
  [i \in 1..numbufs |-> buf + (i - 1) * (bufsiz + IdSize)]

(* mkbufpool.  If there is no semaphore left it gives the block back to    *)
(* freemem.                                                                *)
Mkbufpool(bufsiz, numbufs) ==
  LET size == Rounded(bufsiz)
      n    == Units(numbufs * (size + IdSize))
      fits == Fits(list["mem"], n)
      rest == TakeLow(list["mem"], Min(fits), n)
      buf  == Given(list["mem"][Min(fits)].addr, n, "getmem")
  IN
  /\ bufsiz \in BP_MINB..BP_MAXB /\ numbufs \in 1..BP_MAXN
  /\ Len(buftab) < NBPOOLS /\ fits # {} /\ spent + n <= MaxSpent
  /\ spent' = spent + n
  /\ \E s \in NewSems(semtab) :
       IF s = SYSERR
       THEN /\ list' = [list EXCEPT !["mem"] = Freemem(rest, buf)]
            /\ heap' = IF Refused(rest, buf) THEN heap \cup {buf} ELSE heap
            /\ UNCHANGED <<semtab, buftab>>
       ELSE /\ list' = [list EXCEPT !["mem"] = rest]
            /\ heap' = heap \cup {buf}
            /\ semtab' = Semcreate(semtab, numbufs, s)
            /\ buftab' = Append(buftab, [sem |-> s, size |-> size,
                                        next |-> Chain(8 * buf.addr, size, numbufs)])
  /\ UNCHANGED <<pages, stacks, taken, awaits>>

(* The buffer at the head of the list is unlinked, and marked with the     *)
(* number of its pool.                                                     *)
Unlink(pool) ==
  /\ buftab' = [buftab EXCEPT ![pool].next = Tail(@)]
  /\ taken' = taken \cup {[addr |-> Head(buftab[pool].next), pool |-> pool]}

Getbuf(p, pool) ==
  LET s == buftab[pool].sem IN
  /\ awaits[p] = 0
  /\ IF semtab[s].count > 0
     THEN /\ semtab' = Waited(semtab, s)
          /\ Unlink(pool)
          /\ UNCHANGED awaits
     ELSE /\ semtab' = Enqueued(semtab, s, p)
          /\ awaits' = [awaits EXCEPT ![p] = pool]
          /\ UNCHANGED <<buftab, taken>>
  /\ UNCHANGED memvars

GetbufResumes(p) ==
  /\ awaits[p] # 0 /\ ~InQueue(p)
  /\ Unlink(awaits[p])
  /\ awaits' = [awaits EXCEPT ![p] = 0]
  /\ UNCHANGED <<memvars, semtab>>

(* freebuf, by whoever has the buffer now; the mark says where it belongs. *)
Freebuf(b) ==
  /\ b \in taken
  /\ buftab' = [buftab EXCEPT ![b.pool].next = <<b.addr>> \o @]
  /\ taken' = taken \ {b}
  /\ semtab' = Signalled(semtab, buftab[b.pool].sem)
  /\ UNCHANGED <<memvars, awaits>>

(* kill of a process in getbuf: another takes its place.  The buffers it   *)
(* had taken before are not given back.                                    *)
KillWaiter(p) ==
  /\ awaits[p] # 0
  /\ semtab' = Killed(semtab, p)
  /\ awaits' = [awaits EXCEPT ![p] = 0]
  /\ UNCHANGED <<memvars, buftab, taken>>

PoolsNext ==
  \/ MemNext /\ UNCHANGED bufvars
  \/ \E shape \in Shapes : Mkbufpool(shape[1], shape[2])
  \/ \E p \in Holder :
       \/ \E pool \in Pools : Getbuf(p, pool)
       \/ GetbufResumes(p)
       \/ KillWaiter(p)
  \/ \E b \in taken : Freebuf(b)

PoolsSpec == MemInit /\ BufInit /\ SemInit /\ [][PoolsNext]_poolvars
-----------------------------------------------------------------------------
Promised(pool) == Cardinality({p \in Holder : awaits[p] = pool /\ ~InQueue(p)})

(* getbuf.c:33 follows the head of the list without looking whether there  *)
(* is one, when wait has returned: the list has a buffer for every one the *)
(* semaphore counts and for every process released and not yet running,    *)
(* whoever is killed while waiting.                                        *)
BufferForEach ==
  \A pool \in Pools :
    Left(semtab, buftab[pool].sem) + Promised(pool) <= Len(buftab[pool].next)

(* What the buffer at a takes up, its mark included. *)
Bytes(a, pool) == a..(a + buftab[pool].size + IdSize - 1)

Known == taken \cup UNION {{[addr |-> buftab[k].next[i], pool |-> k] :
                               i \in DOMAIN buftab[k].next} : k \in Pools}

(* No buffer is in a list twice, or in a list and in use; and no two       *)
(* buffers share a byte, nor does one share a byte with a stack, while the *)
(* heap is what it should be (mkbufpool.c:46 cuts the block).              *)
BuffersApart ==
  /\ \A pool \in Pools :
       /\ IsInjective(buftab[pool].next)
       /\ \A b \in taken : b.pool = pool => b.addr \notin ToSet(buftab[pool].next)
  /\ AllocationsApart =>
       \A b \in Known :
         /\ \A c \in Known \ {b} : Bytes(b.addr, b.pool) \cap Bytes(c.addr, c.pool) = {}
         /\ \A s \in stacks :
              Bytes(b.addr, b.pool) \cap (8 * s.addr)..(8 * (s.addr + s.len) - 1) = {}
=============================================================================
