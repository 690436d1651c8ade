------------------------------- MODULE Memory -------------------------------
(***************************************************************************)
(* Storage (system/meminit.c, getmem.c, getstk.c, freemem.c): three lists  *)
(* of free blocks, for the heap and the stacks (memlist), for page tables  *)
(* (pdtlist) and for frames (ffslist).  A block carries its length and the *)
(* link in its own first words; here a list is the sequence of its blocks. *)
(*                                                                         *)
(* All blocks begin and end at multiples of 8 bytes, so addresses and      *)
(* lengths are counted in units of 8 bytes; they are 32 bits wide in the   *)
(* code, WORD units here, and additions wrap.  Sizes that programs ask for *)
(* are in bytes.                                                           *)
(***************************************************************************)
EXTENDS Integers, SequencesExt, FiniteSetsExt

CONSTANTS
  WORD,        \* 2^32 bytes
  HOLESTART,   \* 640K, where the hole in the PC's memory begins
  HOLEEND,     \* 1M, where it ends
  end,         \* end of the program, as the linker sets it
  NULLSTK,     \* size of the start-up process's stack
  PT_START,    \* end of the memory Xinu uses, start of the page tables
  FFS_START,   \* start of the frames
  SWP_START,   \* end of the frames
  Requests,    \* sizes asked of getmem and getstk, in bytes
  PageSizes,   \* sizes asked of getptmem and getffsmem, in bytes
  MaxSpent     \* bound of the model: units taken from memlist

ASSUME MemoryAssumption ==
  /\ {WORD, HOLESTART, HOLEEND, end, NULLSTK, PT_START, FFS_START, SWP_START}
        \subseteq Nat \ {0}
  /\ HOLESTART < HOLEEND /\ HOLEEND < end
  /\ end + NULLSTK + 1 < PT_START
  /\ PT_START < FFS_START /\ FFS_START < SWP_START /\ SWP_START < WORD
  /\ Requests \cup PageSizes \subseteq 0..(8 * (WORD - 1))
  /\ MaxSpent \in Nat

VARIABLES
  list,        \* the blocks of memlist, pdtlist and ffslist
  pages,       \* units of page-table memory and frames in use
  heap,        \* what memlist handed out and never took back, and by which call
  stacks,      \* those of them that are prstkbase and prstklen of a process
  spent        \* units taken from memlist since the start

memvars == <<list, pages, heap, stacks, spent>>

Paged == {"pdt", "ffs"}
Lists == Paged \cup {"mem"}

Wrap(x) == IF x < 0 THEN x + WORD ELSE IF x >= WORD THEN x - WORD ELSE x

(* roundmb, in units. *)
Units(nbytes) == (nbytes + 7) \div 8

Block(a, n) == [addr |-> a, len |-> n]
Given(a, n, call) == [addr |-> a, len |-> n, by |-> call]
Span(b)     == b.addr .. (b.addr + b.len - 1)
Top(b)      == Wrap(b.addr + b.len)

Start(l) == IF l = "pdt" THEN PT_START ELSE FFS_START
Limit(l) == IF l = "pdt" THEN FFS_START ELSE SWP_START

(* The bounds freemem looks at are the last ones set: ptmeminit's.         *)
minheap == PT_START
maxheap == FFS_START

(* meminit makes two blocks, before and after the hole; truncmb rounds     *)
(* down, which the 4 bytes and maxheap's last 1 turn into a unit less. The *)
(* first length is negative if the program ends above the hole, and wraps. *)
(* The branch for a machine with less memory than the hole is never taken. *)
MemInit ==
  /\ list = [l \in Lists |->
       IF l = "mem"
       THEN << Block(end, Wrap(HOLESTART - end - 1)),
               Block(HOLEEND, PT_START - HOLEEND - NULLSTK - 1) >>
       ELSE << Block(Start(l), Limit(l) - Start(l)) >>]
  /\ pages  = [l \in Paged |-> {}]
  /\ heap   = {}
  /\ stacks = {}
  /\ spent  = 0
-----------------------------------------------------------------------------
(* The operations on one list. *)

Fits(blocks, n) == {i \in DOMAIN blocks : blocks[i].len >= n}

(* getmem and its copies take the low end of the first block that fits,    *)
(* getstk the high end of the last one.                                    *)
TakeLow(blocks, i, n) ==
  IF blocks[i].len = n THEN RemoveAt(blocks, i)
  ELSE [blocks EXCEPT ![i] = Block(Wrap(@.addr + n), @.len - n)]

TakeHigh(blocks, i, n) ==
  IF blocks[i].len = n THEN RemoveAt(blocks, i)
  ELSE [blocks EXCEPT ![i] = Block(@.addr, @.len - n)]

(* Blocks passed before the first one that is not below a. *)
Before(blocks, a) ==
  Min({i \in DOMAIN blocks : blocks[i].addr >= a} \cup {Len(blocks) + 1}) - 1

OverlapsBehind(blocks, a, n) ==
  LET k == Before(blocks, a) IN k > 0 /\ a < Top(blocks[k])

Overlaps(blocks, a, n) ==
  LET k == Before(blocks, a) IN
  \/ k > 0 /\ a < Top(blocks[k])
  \/ k < Len(blocks) /\ Wrap(a + n) > blocks[k + 1].addr

Longer(b, n) == Block(b.addr, Wrap(b.len + n))

MergedNever(blocks, i) == blocks

(* Block i absorbs the one behind it when they touch. *)
Merged(blocks, i) ==
  IF i < Len(blocks) /\ Top(blocks[i]) = blocks[i + 1].addr
  THEN RemoveAt([blocks EXCEPT ![i] = Longer(@, blocks[i + 1].len)], i + 1)
  ELSE blocks

Released(blocks, a, n) ==
  LET k == Before(blocks, a) IN
  IF k > 0 /\ Top(blocks[k]) = a
  THEN Merged([blocks EXCEPT ![k] = Longer(@, n)], k)
  ELSE Merged(InsertAt(blocks, k + 1, Block(a, n)), k + 1)
-----------------------------------------------------------------------------
Getmem(nbytes) ==
  LET n    == Units(nbytes)
      fits == Fits(list["mem"], n)
  IN
  /\ n > 0 /\ fits # {} /\ spent + n <= MaxSpent
  /\ list' = [list EXCEPT !["mem"] = TakeLow(@, Min(fits), n)]
  /\ heap' = heap \cup {Given(list["mem"][Min(fits)].addr, n, "getmem")}
  /\ spent' = spent + n
  /\ UNCHANGED <<pages, stacks>>

(* getstk, for create and vcreate, which keep what it returns. *)
Getstk(nbytes) ==
  LET n    == Units(nbytes)
      fits == Fits(list["mem"], n)
      b    == list["mem"][Max(fits)]
      stk  == Given(Wrap(b.addr + b.len - n), n, "getstk")
  IN
  /\ n > 0 /\ fits # {} /\ spent + n <= MaxSpent
  /\ list' = [list EXCEPT !["mem"] = TakeHigh(@, Max(fits), n)]
  /\ heap' = heap \cup {stk}
  /\ stacks' = stacks \cup {stk}
  /\ spent' = spent + n
  /\ UNCHANGED pages

(* freemem; its callers do not look at what it returns. *)
Refused(blocks, b) ==
  \/ ~(minheap <= b.addr /\ b.addr <= maxheap)
  \/ Overlaps(blocks, b.addr, b.len)

Freemem(blocks, b) ==
  IF Refused(blocks, b) THEN blocks ELSE Released(blocks, b.addr, b.len)

(* freestk in kill. *)
Freestk(stk) ==
  /\ stk \in stacks
  /\ list' = [list EXCEPT !["mem"] = Freemem(@, stk)]
  /\ heap' = IF Refused(list["mem"], stk) THEN heap ELSE heap \ {stk}
  /\ stacks' = stacks \ {stk}
  /\ UNCHANGED <<pages, spent>>

(* getptmem and getffsmem. *)
Getpages(l, nbytes) ==
  LET n    == Units(nbytes)
      fits == Fits(list[l], n)
  IN
  /\ n > 0 /\ fits # {}
  /\ list' = [list EXCEPT ![l] = TakeLow(@, Min(fits), n)]
  /\ pages' = [pages EXCEPT ![l] = @ \cup Span(Block(list[l][Min(fits)].addr, n))]
  /\ UNCHANGED <<heap, stacks, spent>>

(* freeptmem and freeffsmem of any part of the memory they are for: they   *)
(* test themselves whether some of it is free already.                     *)
Freepages(l, a, nbytes) ==
  LET n == Units(nbytes) IN
  /\ n > 0 /\ a \in Start(l)..Limit(l) /\ a + n <= Limit(l)
  /\ ~Overlaps(list[l], a, n)
  /\ list' = [list EXCEPT ![l] = Released(@, a, n)]
  /\ pages' = [pages EXCEPT ![l] = @ \ Span(Block(a, n))]
  /\ UNCHANGED <<heap, stacks, spent>>

MemNext ==
  \/ \E nbytes \in Requests : Getmem(nbytes) \/ Getstk(nbytes)
  \/ \E stk \in stacks : Freestk(stk)
  \/ \E l \in Paged, nbytes \in PageSizes :
       \/ Getpages(l, nbytes)
       \/ \E a \in Start(l)..Limit(l) : Freepages(l, a, nbytes)

MemSpec == MemInit /\ [][MemNext]_memvars
-----------------------------------------------------------------------------
MemTypeOK ==
  /\ DOMAIN list = Lists /\ DOMAIN pages = Paged
  /\ list["mem"] \in Seq([addr : 0..(WORD - 1), len : 0..(WORD - 1)])
  /\ \A l \in Paged :
       /\ list[l] \in Seq([addr : Start(l)..(Limit(l) - 1), len : 1..(Limit(l) - Start(l))])
       /\ pages[l] \subseteq Start(l)..(Limit(l) - 1)
  /\ heap \subseteq [addr : 0..(WORD - 1), len : 1..(WORD - 1), by : {"getmem", "getstk"}]
  /\ stacks \subseteq heap
  /\ spent \in 0..MaxSpent

FreeUnits(l) == UNION {Span(list[l][i]) : i \in DOMAIN list[l]}

(* Splitting and joining blocks loses no page memory and duplicates none:  *)
(* a unit is in one free block or in use, and freeing what is free already *)
(* is refused, whatever is freed in whatever order and portions            *)
(* (getptmem, getffsmem, freeptmem, freeffsmem).                           *)
PagesPartitioned ==
  \A l \in Paged :
    /\ FreeUnits(l) \cup pages[l] = Start(l)..(Limit(l) - 1)
    /\ FreeUnits(l) \cap pages[l] = {}

(* The free blocks are in order of address and never touch: the walk of    *)
(* freeptmem finds a block's neighbours, its overlap test is complete, and *)
(* memory is fragmented only where something in use lies between.          *)
BlocksApart ==
  \A l \in Paged : \A i, j \in DOMAIN list[l] :
    i < j => list[l][i].addr + list[l][i].len < list[l][j].addr

(* The heap as it should be: what getmem and getstk handed out does not    *)
(* overlap and lies between the program and the page tables, and no free   *)
(* block's own length and link lie in it.  Once this is broken, programs   *)
(* overwrite the lists, which the model leaves as they are.                *)
AllocationsApart ==
  /\ \A b, c \in heap : b # c => Span(b) \cap Span(c) = {}
  /\ \A b \in heap :
       /\ Span(b) \subseteq end..(PT_START - 1)
       /\ \A l \in Lists : \A i \in DOMAIN list[l] : list[l][i].addr \notin Span(b)

(* It is so as long as less is asked for, counted from the start, than     *)
(* there is: although meminit's two blocks overlap each other, and the     *)
(* second one the program.  What is given back does not count, because     *)
(* freemem refuses the whole heap (getmem.c, getstk.c, freemem.c:19).      *)
ApartUntilSpent == spent < PT_START - NULLSTK - 1 - end => AllocationsApart
=============================================================================
