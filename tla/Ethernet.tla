------------------------------ MODULE Ethernet ------------------------------
(***************************************************************************)
(* The Ethernet driver (device/eth): two rings of descriptors that it      *)
(* shares with the network adapter, netin reading from one and senders     *)
(* writing to the other, and the interrupt handler between them.           *)
(*                                                                         *)
(* The adapter, which is external, owns the descriptors from its head up   *)
(* to, not including, its tail: a ring whose head is its tail is empty.    *)
(* ethread runs with interrupts enabled, ethwrite with them disabled.      *)
(***************************************************************************)
EXTENDS Integers, FiniteSets

CONSTANTS Sender, rxRingSize, txRingSize, E1000_RING_BOUNDARY

ASSUME EthernetAssumption ==
  /\ IsFiniteSet(Sender)
  /\ {rxRingSize, txRingSize, E1000_RING_BOUNDARY} \subseteq Nat \ {0}
  /\ rxRingSize % E1000_RING_BOUNDARY = 0 /\ rxRingSize > E1000_RING_BOUNDARY

VARIABLES
  rx,        \* ring of received packets, its indices and the adapter's
  tx,        \* ring of packets to send
  isem, osem,
  reader,    \* where netin is in ethread
  sender,    \* where senders are in ethwrite
  icr        \* causes of a pending interrupt

ethvars == <<rx, tx, isem, osem, reader, sender, icr>>

(* _82545EM_configure_rx and _tx, and what ethinit sets up around them.    *)
RxInit ==
  rx = [ring |-> [i \in 0..(rxRingSize - 1) |-> "empty"], rxHead |-> 0, rxTail |-> 0,
        RDH |-> 0, RDT |-> rxRingSize - E1000_RING_BOUNDARY]

TxInit ==
  tx = [ring |-> [i \in 0..(txRingSize - 1) |-> "free"], txHead |-> 0, txTail |-> 0,
        TDH |-> 0, TDT |-> 0]

EthInit ==
  /\ RxInit /\ TxInit
  /\ isem = 0 /\ osem = txRingSize
  /\ reader = "idle" /\ sender = [p \in Sender |-> "idle"] /\ icr = {}

InRx(i) == i % rxRingSize
InTx(i) == i % txRingSize
Positive(n) == IF n > 0 THEN n ELSE 0

(* How many descriptors, from i on, are in state st: what a loop over the  *)
(* ring that stops at the first other one counts.                          *)
RunOf(ring, i, st) ==
  LET n == Cardinality(DOMAIN ring)
      Starts(k) == \A j \in 0..(k - 1) : ring[(i + j) % n] = st
  IN CHOOSE k \in 0..n : Starts(k) /\ (k = n \/ ~Starts(k + 1))
-----------------------------------------------------------------------------
(* The adapter stores a packet, or sends one; either asks for an interrupt. *)
Receives ==
  /\ rx.RDH # rx.RDT
  /\ rx' = [rx EXCEPT !.ring[rx.RDH] = "filled", !.RDH = InRx(@ + 1)]
  /\ icr' = icr \cup {"RXT0"}
  /\ UNCHANGED <<tx, isem, osem, reader, sender>>

Transmits ==
  /\ tx.TDH # tx.TDT
  /\ tx' = [tx EXCEPT !.ring[tx.TDH] = "done", !.TDH = InTx(@ + 1)]
  /\ icr' = icr \cup {"TXDW"}
  /\ UNCHANGED <<rx, isem, osem, reader, sender>>

(* ethhandler.  Reading the causes clears them; processes released by      *)
(* signaln run later.                                                      *)
RxHandlerCountsAgain ==
  LET n == RunOf(rx.ring, rx.rxTail, "filled") IN
  /\ rx' = rx
  /\ isem' = isem + n
  /\ reader' = IF reader = "waits" /\ n > 0 THEN "reads" ELSE reader

Eth_rxPackets ==
  LET n == RunOf(rx.ring, rx.rxTail, "filled") IN
  /\ rx' = [rx EXCEPT !.rxTail = InRx(@ + n)]
  /\ isem' = isem + n
  /\ reader' = IF reader = "waits" /\ n > 0 THEN "reads" ELSE reader

Eth_txPackets ==
  LET n       == RunOf(tx.ring, tx.txHead, "done")
      blocked == {p \in Sender : sender[p] = "waits"}
  IN
  /\ tx' = [tx EXCEPT !.txHead = InTx(@ + n),
                      !.ring = [i \in DOMAIN @ |-> IF InTx(i - tx.txHead + txRingSize) < n
                                                   THEN "free" ELSE @[i]]]
  /\ osem' = osem + n
  /\ \E released \in SUBSET blocked :
       /\ Cardinality(released) = (IF n < Cardinality(blocked) THEN n ELSE Cardinality(blocked))
       /\ sender' = [p \in Sender |-> IF p \in released THEN "writes" ELSE sender[p]]

Ethhandler ==
  /\ icr # {} /\ icr' = {}
  /\ IF "RXT0" \in icr THEN Eth_rxPackets ELSE UNCHANGED <<rx, isem, reader>>
  /\ IF "TXDW" \in icr THEN Eth_txPackets ELSE UNCHANGED <<tx, osem, sender>>
-----------------------------------------------------------------------------
(* ethread: wait; take the packet and clear the descriptor; give the       *)
(* adapter half a ring more now and then, and go on to the next one.       *)
EthreadWaits ==
  /\ reader = "idle"
  /\ isem' = isem - 1
  /\ reader' = IF isem > 0 THEN "reads" ELSE "waits"
  /\ UNCHANGED <<rx, tx, osem, sender, icr>>

EthreadTakes ==
  /\ reader = "reads"
  /\ reader' = IF rx.ring[rx.rxHead] = "filled" THEN "advances" ELSE "SYSERR"
  /\ rx' = [rx EXCEPT !.ring[rx.rxHead] = "empty"]
  /\ UNCHANGED <<tx, isem, osem, sender, icr>>

EthreadAdvances ==
  /\ reader = "advances"
  /\ rx' = [rx EXCEPT
       !.RDT = IF rx.rxHead % E1000_RING_BOUNDARY = 0 THEN InRx(@ + E1000_RING_BOUNDARY) ELSE @,
       !.rxHead = InRx(@ + 1)]
  /\ reader' = "idle"
  /\ UNCHANGED <<tx, isem, osem, sender, icr>>

(* ethwrite, cut at the wait for a free descriptor.                        *)
EthwriteWaits(p) ==
  /\ sender[p] = "idle"
  /\ osem' = osem - 1
  /\ sender' = [sender EXCEPT ![p] = IF osem > 0 THEN "writes" ELSE "waits"]
  /\ UNCHANGED <<rx, tx, isem, reader, icr>>

EthwritePuts(p) ==
  /\ sender[p] = "writes"
  /\ tx' = [tx EXCEPT !.ring[tx.txTail] = IF @ = "free" THEN "queued" ELSE "overwritten",
                      !.TDT = InTx(@ + 1), !.txTail = InTx(@ + 1)]
  /\ sender' = [sender EXCEPT ![p] = "idle"]
  /\ UNCHANGED <<rx, isem, osem, reader, icr>>

(* A ring full of packets: its head is its tail, the adapter takes it for  *)
(* empty, and as soon as every sender waits for a descriptor nothing moves. *)
TxStalled ==
  /\ \A i \in DOMAIN tx.ring : tx.ring[i] = "queued"
  /\ UNCHANGED ethvars

RxNext == Receives \/ EthreadWaits \/ EthreadTakes \/ EthreadAdvances
TxNext == Transmits \/ TxStalled \/ \E p \in Sender : EthwriteWaits(p) \/ EthwritePuts(p)
EthNext == RxNext \/ TxNext \/ Ethhandler

EthSpec == EthInit /\ [][EthNext]_ethvars
-----------------------------------------------------------------------------
(* Each packet received is counted once, in the order of the ring, so a    *)
(* reader that the semaphore lets pass finds one (netin panics if not);    *)
(* the adapter is without descriptors only while packets wait to be read.  *)
RxKept ==
  LET first   == InRx(rx.rxHead + (IF reader = "advances" THEN 1 ELSE 0))
      filled  == Cardinality({i \in DOMAIN rx.ring : rx.ring[i] = "filled"})
      counted == Positive(isem) + (IF reader = "reads" THEN 1 ELSE 0)
  IN
  /\ reader # "SYSERR"
  /\ RunOf(rx.ring, first, "filled") = filled /\ rx.RDH = InRx(first + filled)
  /\ counted <= filled /\ rx.rxTail = InRx(first + counted)
  /\ (counted < filled => "RXT0" \in icr)
  /\ (rx.RDH = rx.RDT => filled > 0 \/ reader = "advances")

(* The semaphore counts free descriptors, no packet is overwritten before  *)
(* it is sent, and the adapter does not stop while there are packets to    *)
(* send, unless the ring is full of them: then its head is its tail, and   *)
(* it takes the ring for empty.                                            *)
TxKept ==
  LET InUse == {i \in DOMAIN tx.ring : tx.ring[i] # "free"}
      queued == {i \in DOMAIN tx.ring : tx.ring[i] = "queued"}
      passed == Cardinality({p \in Sender : sender[p] = "writes"})
  IN
  /\ \A i \in DOMAIN tx.ring : tx.ring[i] # "overwritten"
  /\ Positive(osem) + passed + Cardinality(InUse) = txRingSize
  /\ tx.TDT = tx.txTail /\ tx.txTail = InTx(tx.txHead + Cardinality(InUse))
  /\ (\E i \in InUse : tx.ring[i] = "done") => "TXDW" \in icr
  /\ (queued # {} => tx.TDH # tx.TDT \/ Cardinality(queued) = txRingSize)

(* Neither ring loses a packet or counts one twice, whatever the adapter,  *)
(* the interrupt handler, netin and several senders do in between.         *)
RingsKept == RxKept /\ TxKept
=============================================================================
