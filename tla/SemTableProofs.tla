---------------------------- MODULE SemTableProofs ----------------------------
(***************************************************************************)
(* What the calls of SemTable do to a table of semaphores whose counts     *)
(* agree with their queues, whoever uses it: lemmas for the users'         *)
(* invariants.                                                             *)
(***************************************************************************)
EXTENDS SemTable, QueueProofs, FiniteSetTheorems, TLAPS

(* The semaphore table: a count below zero is the number of processes in   *)
(* the queue, which holds nobody twice, nor anybody who is in another.     *)
SemEntry(U) == [state : {"S_FREE", "S_USED"}, count : Int, queue : Seq(U)]

EntryOK(e) ==
  /\ IsInjective(e.queue)
  /\ e.count >= 0 => e.queue = <<>>
  /\ e.count < 0 => Len(e.queue) = -e.count
  /\ e.state = "S_FREE" => e.count = 0

SemOK(tab, U) ==
  /\ tab \in [Sems -> SemEntry(U)]
  /\ \A s \in Sems : EntryOK(tab[s])
  /\ \A s, r \in Sems : s # r => ToSet(tab[s].queue) \cap ToSet(tab[r].queue) = {}

OtherSems(tab, new, s) == \A r \in Sems \ {s} : new[r] = tab[r]

LEMMA SemChange ==
  ASSUME NEW U, NEW tab, SemOK(tab, U), NEW s \in Sems, NEW e \in SemEntry(U), EntryOK(e),
         \A r \in Sems \ {s} : ToSet(e.queue) \cap ToSet(tab[r].queue) = {}
  PROVE  LET new == [tab EXCEPT ![s] = e] IN
         SemOK(new, U) /\ new[s] = e /\ OtherSems(tab, new, s)
BY DEF SemOK, OtherSems

Entry(e, n, q) == [e EXCEPT !.count = n, !.queue = q]

LEMMA EntryChange ==
  ASSUME NEW U, NEW e \in SemEntry(U), NEW n \in Int, NEW q \in Seq(U)
  PROVE  /\ Entry(e, n, q) \in SemEntry(U) /\ Entry(e, n, q).count = n
         /\ Entry(e, n, q).queue = q /\ Entry(e, n, q).state = e.state
BY DEF SemEntry, Entry

LEMMA NoLength ==
  ASSUME NEW U, NEW q \in Seq(U), Len(q) = 0
  PROVE  q = <<>>
BY EmptySeq

LEMMA NoneWaits == ToSet(<<>>) = {} /\ IsInjective(<<>>)
BY DEF ToSet, IsInjective

LEMMA SemInitOK ==
  ASSUME NEW U, SemInit
  PROVE  SemOK(semtab, U)
<1>. DEFINE used == [FreeEntry EXCEPT !.state = "S_USED"]
<1>a. <<>> \in Seq(U)
  BY EmptySeq
<1>b. FreeEntry \in SemEntry(U) /\ FreeEntry.queue = <<>> /\ FreeEntry.count = 0
  BY <1>a DEF FreeEntry, SemEntry
<1>c. used = [state |-> "S_USED", count |-> 0, queue |-> <<>>]
  BY DEF FreeEntry
<1>d. used \in SemEntry(U) /\ used.queue = <<>> /\ used.count = 0
  <2>. HIDE DEF used
  <2>1. QED
    BY <1>a, <1>c DEF SemEntry
<1>1. \A e \in {FreeEntry, used} : e \in SemEntry(U) /\ e.queue = <<>> /\ e.count = 0
  BY <1>b, <1>d
<1>2. \A s \in Sems : semtab[s] \in {FreeEntry, [FreeEntry EXCEPT !.state = "S_USED"]}
  BY DEF SemInit
<1>. HIDE DEF FreeEntry
<1>3. semtab \in [Sems -> SemEntry(U)]
  BY <1>1 DEF SemInit
<1>4. \A s \in Sems : semtab[s].queue = <<>> /\ semtab[s].count = 0
  BY <1>1, <1>2
<1>5. \A s \in Sems : EntryOK(semtab[s])
  BY <1>4, NoneWaits DEF EntryOK
<1>6. QED
  BY <1>3, <1>4, <1>5, NoneWaits DEF SemOK

(* A new semaphore, one that is deleted, or one that is reset.             *)
LEMMA SemSet ==
  ASSUME NEW U, NEW tab, SemOK(tab, U), NEW s \in Sems, NEW st \in {"S_FREE", "S_USED"},
         NEW n \in Nat, st = "S_FREE" => n = 0
  PROVE  LET e == [state |-> st, count |-> n, queue |-> <<>>]
             new == [tab EXCEPT ![s] = e]
         IN  SemOK(new, U) /\ new[s] = e /\ OtherSems(tab, new, s)
<1>. DEFINE e == [state |-> st, count |-> n, queue |-> <<>>]
<1>1. e \in SemEntry(U)
  BY DEF SemEntry
<1>2. EntryOK(e)
  BY NoneWaits DEF EntryOK
<1>3. \A r \in Sems \ {s} : ToSet(e.queue) \cap ToSet(tab[r].queue) = {}
  BY NoneWaits
<1>. HIDE DEF e
<1>4. LET new == [tab EXCEPT ![s] = e] IN SemOK(new, U) /\ new[s] = e /\ OtherSems(tab, new, s)
  BY <1>1, <1>2, <1>3, SemChange
<1>5. QED
  BY <1>4 DEF e

LEMMA WaitedOK ==
  ASSUME NEW U, NEW tab, SemOK(tab, U), NEW s \in Sems, tab[s].count > 0
  PROVE  LET new == Waited(tab, s) IN
         /\ SemOK(new, U) /\ OtherSems(tab, new, s)
         /\ new[s].count = tab[s].count - 1 /\ new[s].state = tab[s].state
         /\ new[s].queue = tab[s].queue
<1>. DEFINE e == [tab[s] EXCEPT !.count = @ - 1]
<1>1. tab[s] \in SemEntry(U) /\ EntryOK(tab[s]) /\ tab \in [Sems -> SemEntry(U)]
  BY DEF SemOK
<1>2. /\ e \in SemEntry(U) /\ e.count = tab[s].count - 1 /\ e.state = tab[s].state
      /\ e.queue = tab[s].queue
  BY <1>1 DEF SemEntry
<1>3. EntryOK(e)
  BY <1>1, <1>2 DEF EntryOK, SemEntry
<1>4. \A r \in Sems \ {s} : ToSet(e.queue) \cap ToSet(tab[r].queue) = {}
  BY <1>2 DEF SemOK
<1>5. Waited(tab, s) = [tab EXCEPT ![s] = e]
  BY <1>1 DEF Waited
<1>. HIDE DEF e
<1>6. LET new == [tab EXCEPT ![s] = e] IN SemOK(new, U) /\ new[s] = e /\ OtherSems(tab, new, s)
  BY <1>2, <1>3, <1>4, SemChange
<1>7. QED
  BY <1>2, <1>5, <1>6

LEMMA EnqueuedOK ==
  ASSUME NEW U, NEW tab, SemOK(tab, U), NEW s \in Sems, tab[s].count <= 0,
         tab[s].state = "S_USED", NEW p \in U, ~WaitsIn(tab, p)
  PROVE  LET new == Enqueued(tab, s, p) IN
         /\ SemOK(new, U) /\ OtherSems(tab, new, s)
         /\ new[s].count = tab[s].count - 1 /\ new[s].state = tab[s].state
         /\ ToSet(new[s].queue) = ToSet(tab[s].queue) \cup {p}
<1>. DEFINE q == tab[s].queue
            a == Append(q, p)
            e == Entry(tab[s], tab[s].count - 1, a)
<1>1. tab[s] \in SemEntry(U) /\ EntryOK(tab[s]) /\ tab \in [Sems -> SemEntry(U)]
  BY DEF SemOK
<1>2. q \in Seq(U) /\ IsInjective(q) /\ p \notin ToSet(q)
  BY <1>1 DEF SemEntry, EntryOK, WaitsIn
<1>3. /\ a \in Seq(U) /\ Len(a) = Len(q) + 1
      /\ ToSet(a) = ToSet(q) \cup {p} /\ IsInjective(a)
  BY <1>2, AppendSet
<1>4. /\ e \in SemEntry(U) /\ e.count = tab[s].count - 1 /\ e.state = tab[s].state
      /\ e.queue = a
  <2>1. tab[s].count - 1 \in Int
    BY <1>1 DEF SemEntry
  <2>. HIDE DEF a
  <2>2. QED
    BY <1>1, <1>3, <2>1, EntryChange
<1>5. EntryOK(e)
  <2>1. tab[s].count = 0 => Len(q) = 0
    BY <1>1 DEF EntryOK
  <2>2. tab[s].count < 0 => Len(q) = -tab[s].count
    BY <1>1 DEF EntryOK
  <2>3. tab[s].count \in Int /\ Len(q) \in Nat
    BY <1>1, <1>2 DEF SemEntry
  <2>. HIDE DEF e, q, a
  <2>4. e.count < 0 /\ Len(e.queue) = -e.count /\ IsInjective(e.queue) /\ e.state = "S_USED"
    BY <1>3, <1>4, <2>1, <2>2, <2>3
  <2>5. QED
    BY <1>4, <2>3, <2>4 DEF EntryOK
<1>6. \A r \in Sems \ {s} : ToSet(e.queue) \cap ToSet(tab[r].queue) = {}
  <2>1. \A r \in Sems \ {s} : ToSet(q) \cap ToSet(tab[r].queue) = {} /\ p \notin ToSet(tab[r].queue)
    BY DEF SemOK, WaitsIn
  <2>. HIDE DEF e, q, a
  <2>2. QED
    BY <1>3, <1>4, <2>1
<1>7. Enqueued(tab, s, p) = [tab EXCEPT ![s] = e]
  BY <1>1 DEF Enqueued, Waited, SemEntry, Entry
<1>. HIDE DEF e
<1>8. LET new == [tab EXCEPT ![s] = e] IN SemOK(new, U) /\ new[s] = e /\ OtherSems(tab, new, s)
  BY <1>4, <1>5, <1>6, SemChange
<1>9. QED
  BY <1>3, <1>4, <1>7, <1>8

(* signal: the first of those who wait leaves, or there is one more unit.  *)
LEMMA SignalledOK ==
  ASSUME NEW U, NEW tab, SemOK(tab, U), NEW s \in Sems, s # SYSERR, tab[s].state = "S_USED"
  PROVE  LET new == Signalled(tab, s) IN
         /\ SemOK(new, U) /\ OtherSems(tab, new, s)
         /\ new[s].count = tab[s].count + 1 /\ new[s].state = tab[s].state
         /\ tab[s].count >= 0 => new[s].queue = tab[s].queue
         /\ tab[s].count < 0 => \E p \in ToSet(tab[s].queue) :
                                 ToSet(new[s].queue) = ToSet(tab[s].queue) \ {p}
<1>. DEFINE q == tab[s].queue
            r == IF tab[s].count < 0 THEN Tail(q) ELSE q
            e == Entry(tab[s], tab[s].count + 1, r)
<1>1. /\ tab[s] \in SemEntry(U) /\ EntryOK(tab[s]) /\ tab \in [Sems -> SemEntry(U)]
      /\ tab[s].count \in Int
  BY DEF SemOK, SemEntry
<1>2. q \in Seq(U) /\ IsInjective(q) /\ Len(q) \in Nat
  BY <1>1 DEF SemEntry, EntryOK
<1>3. tab[s].count < 0 => q # <<>> /\ Len(q) = -tab[s].count
  <2>1. tab[s].count < 0 => Len(q) = -tab[s].count
    BY <1>1 DEF EntryOK
  <2>2. QED
    BY <1>1, <1>2, <2>1
<1>4. q # <<>> => /\ Tail(q) \in Seq(U) /\ Len(Tail(q)) = Len(q) - 1 /\ Head(q) \in ToSet(q)
                   /\ ToSet(Tail(q)) = ToSet(q) \ {Head(q)} /\ IsInjective(Tail(q))
  BY <1>2, TailSet
<1>5. r \in Seq(U) /\ IsInjective(r)
  BY <1>2, <1>3, <1>4
<1>6. /\ e \in SemEntry(U) /\ e.count = tab[s].count + 1 /\ e.state = tab[s].state
      /\ e.queue = r
  <2>1. tab[s].count + 1 \in Int
    BY <1>1
  <2>. HIDE DEF r
  <2>2. QED
    BY <1>1, <1>5, <2>1, EntryChange
<1>7. EntryOK(e)
  <2>1. tab[s].count >= 0 => q = <<>>
    BY <1>1 DEF EntryOK
  <2>. HIDE DEF e, q
  <2>2. CASE tab[s].count >= 0
    BY <1>1, <1>2, <1>5, <1>6, <2>1, <2>2 DEF EntryOK
  <2>3. CASE tab[s].count < 0
    <3>1. Len(r) = Len(q) - 1 /\ r \in Seq(U)
      BY <1>1, <1>2, <1>3, <1>4, <1>5, <2>3
    <3>2. ASSUME tab[s].count + 1 = 0 PROVE r = <<>>
      <4>1. Len(r) = 0
        BY <1>1, <1>2, <1>3, <2>3, <3>1, <3>2
      <4>2. QED
        BY <3>1, <4>1, NoLength
    <3>. HIDE DEF r
    <3>3. QED
      BY <1>1, <1>2, <1>3, <1>5, <1>6, <2>3, <3>1, <3>2 DEF EntryOK
  <2>4. QED
    BY <1>1, <2>2, <2>3
<1>8. \A x \in Sems \ {s} : ToSet(e.queue) \cap ToSet(tab[x].queue) = {}
  <2>1. \A x \in Sems \ {s} : ToSet(q) \cap ToSet(tab[x].queue) = {}
    BY DEF SemOK
  <2>2. ToSet(r) \subseteq ToSet(q)
    BY <1>3, <1>4
  <2>3. QED
    BY <1>6, <2>1, <2>2
<1>9. Signalled(tab, s) = [tab EXCEPT ![s] = e]
  BY <1>1 DEF Signalled, SemEntry, Entry
<1>. HIDE DEF e
<1>10. LET new == [tab EXCEPT ![s] = e] IN SemOK(new, U) /\ new[s] = e /\ OtherSems(tab, new, s)
  BY <1>6, <1>7, <1>8, SemChange
<1>11. QED
  BY <1>1, <1>3, <1>4, <1>6, <1>9, <1>10

(* kill: the victim leaves its queue, and its count is given back.         *)
LEMMA KilledOK ==
  ASSUME NEW U, NEW tab, SemOK(tab, U), NEW p \in U
  PROVE  LET new == Killed(tab, p) IN
         /\ SemOK(new, U)
         /\ \A s \in Sems :
              /\ new[s].state = tab[s].state
              /\ ToSet(new[s].queue) = ToSet(tab[s].queue) \ {p}
              /\ p \notin ToSet(tab[s].queue) => new[s] = tab[s]
              /\ p \in ToSet(tab[s].queue) => tab[s].count < 0 /\ new[s].count = tab[s].count + 1
<1>. DEFINE new == Killed(tab, p)
            Out(s) == Entry(tab[s], tab[s].count + 1, Getitem(tab[s].queue, p))
<1>1. \A s \in Sems : new[s] = IF p \in ToSet(tab[s].queue) THEN Out(s) ELSE tab[s]
  BY DEF Killed, Getitem, Entry
<1>2. DOMAIN new = Sems
  BY DEF Killed
<1>3. ASSUME NEW s \in Sems
      PROVE  /\ new[s] \in SemEntry(U) /\ EntryOK(new[s])
             /\ new[s].state = tab[s].state
             /\ ToSet(new[s].queue) = ToSet(tab[s].queue) \ {p}
             /\ p \notin ToSet(tab[s].queue) => new[s] = tab[s]
             /\ p \in ToSet(tab[s].queue) => tab[s].count < 0 /\ new[s].count = tab[s].count + 1
  <2>. DEFINE q == tab[s].queue
              g == Getitem(q, p)
  <2>1. tab[s] \in SemEntry(U) /\ EntryOK(tab[s]) /\ tab[s].count \in Int
    BY DEF SemOK, SemEntry
  <2>2. q \in Seq(U) /\ IsInjective(q) /\ Len(q) \in Nat
    BY <2>1 DEF SemEntry, EntryOK
  <2>3. CASE p \notin ToSet(q)
    BY <1>1, <2>1, <2>3
  <2>4. CASE p \in ToSet(q)
    <3>1. g \in Seq(U) /\ Len(g) = Len(q) - 1 /\ ToSet(g) = ToSet(q) \ {p} /\ IsInjective(g)
      BY <2>2, <2>4, GetitemSet
    <3>2. tab[s].count < 0
      <4>1. q # <<>>
        BY <2>4, NoneWaits
      <4>2. QED
        BY <2>1, <4>1 DEF EntryOK
    <3>3. Len(q) = -tab[s].count
      BY <2>1, <3>2 DEF EntryOK
    <3>. HIDE DEF new
    <3>4. /\ new[s] \in SemEntry(U) /\ new[s].count = tab[s].count + 1 /\ new[s].queue = g
          /\ new[s].state = tab[s].state
      <4>1. new[s] = Entry(tab[s], tab[s].count + 1, g)
        BY <1>1, <2>4
      <4>. HIDE DEF g
      <4>2. QED
        BY <2>1, <2>4, <3>1, <4>1, EntryChange
    <3>. HIDE DEF g, q
    <3>5. EntryOK(new[s])
      <4>1. ASSUME tab[s].count + 1 = 0 PROVE g = <<>>
        <5>1. Len(g) = 0
          BY <2>1, <2>2, <3>1, <3>3, <4>1
        <5>2. QED
          BY <3>1, <5>1, NoLength
      <4>2. tab[s].state = "S_FREE" => FALSE
        BY <2>1, <3>2 DEF EntryOK
      <4>3. QED
        BY <2>1, <2>2, <3>1, <3>2, <3>3, <3>4, <4>1, <4>2 DEF EntryOK
    <3>6. QED
      BY <2>4, <3>1, <3>2, <3>4, <3>5 DEF q
  <2>5. QED
    BY <2>3, <2>4
<1>. HIDE DEF new
<1>4. \A s, r \in Sems : s # r => ToSet(new[s].queue) \cap ToSet(new[r].queue) = {}
  BY <1>3 DEF SemOK
<1>5. new \in [Sems -> SemEntry(U)]
  <2>1. tab \in [Sems -> SemEntry(U)] /\ new = [s \in Sems |-> new[s]]
    BY DEF new, Killed, SemOK
  <2>2. QED
    BY <1>3, <2>1
<1>6. SemOK(new, U)
  BY <1>3, <1>4, <1>5 DEF SemOK
<1>7. QED
  BY <1>3, <1>6 DEF new

LEMMA NewSemsOK ==
  ASSUME NEW U, NEW tab, SemOK(tab, U), NEW s \in NewSems(tab), NEW n \in Nat
  PROVE  LET new == Semcreate(tab, n, s) IN
         /\ SemOK(new, U)
         /\ s = SYSERR => new = tab /\ FreeSems(tab) = {}
         /\ s # SYSERR => /\ s \in Sems /\ tab[s].state = "S_FREE" /\ tab[s].queue = <<>>
                          /\ new[s] = [state |-> "S_USED", count |-> n, queue |-> <<>>]
                          /\ OtherSems(tab, new, s)
<1>1. CASE s = SYSERR
  <2>1. FreeSems(tab) = {}
    BY <1>1, SemTableAssumption DEF NewSems, FreeSems
  <2>2. QED
    BY <1>1, <2>1 DEF Semcreate
<1>2. CASE s # SYSERR
  <2>1. s \in FreeSems(tab)
    BY <1>2 DEF NewSems
  <2>2. s \in Sems /\ tab[s].state = "S_FREE"
    BY <2>1 DEF FreeSems
  <2>3. tab[s].queue = <<>>
    BY <2>2 DEF SemOK, EntryOK
  <2>. DEFINE e == [state |-> "S_USED", count |-> n, queue |-> <<>>]
  <2>4. Semcreate(tab, n, s) = [tab EXCEPT ![s] = e]
    BY <1>2 DEF Semcreate
  <2>5. LET new == [tab EXCEPT ![s] = e] IN SemOK(new, U) /\ new[s] = e /\ OtherSems(tab, new, s)
    BY <2>2, SemSet
  <2>6. QED
    BY <1>2, <2>2, <2>3, <2>4, <2>5
<1>3. QED
  BY <1>1, <1>2
===============================================================================
