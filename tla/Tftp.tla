-------------------------------- MODULE Tftp --------------------------------
(***************************************************************************)
(* Downloading a file with TFTP (net/tftp.c) over a network that loses,    *)
(* repeats and reorders packets: what was sent once may arrive any number  *)
(* of times.  The server is external: it starts a transfer, with a port of *)
(* its own, for each request that reaches it, and sends the next block of  *)
(* a transfer when the last one is acknowledged.                           *)
(***************************************************************************)
EXTENDS Naturals, Sequences, FiniteSets

CONSTANTS
  FileLen,            \* blocks of the file, the last one shorter than 512
  Transfer,           \* ports of the server's transfers, 1..n
  TFTP_MAXRETRIES,
  Capacities          \* blocks that fit in the buffers of a caller

ASSUME TftpAssumption ==
  /\ FileLen \in Nat \ {0} /\ TFTP_MAXRETRIES \in Nat \ {0}
  /\ IsFiniteSet(Transfer) /\ Transfer = 1..Cardinality(Transfer)
  /\ Capacities \subseteq Nat \ {0}

TFTP_PORT == 0

VARIABLES
  tftp,               \* the client
  server,             \* for each transfer the block being sent, 0 if not begun
  datagrams,               \* packets sent to the client
  requests            \* packets sent to the server

tftpvars == <<tftp, server, datagrams, requests>>

TftpInit ==
  /\ \E c \in Capacities :
       tftp = [op |-> "idle", expected |-> 1, tries |-> 0, remport |-> TFTP_PORT,
               got |-> <<>>, room |-> c, rrqs |-> 0]
  /\ server = [t \in Transfer |-> 0]
  /\ datagrams = {} /\ requests = {}

Data(t, b)   == [op |-> "DATA", port |-> t, blk |-> b]
Ack(t, b)    == [op |-> "ACK", port |-> t, blk |-> b]
Rrq(t)       == [op |-> "RRQ", port |-> t, blk |-> 0]
TftpError(t) == [op |-> "ERROR", port |-> t, blk |-> 0]

(* The message of the client: the request until the first block arrives,   *)
(* then the acknowledgement of the last one, to the port heard of last.    *)
Outmsg(c) == IF c.expected = 1 THEN Rrq(c.remport) ELSE Ack(c.remport, c.expected - 1)

Transmit(c) ==
  /\ tftp' = [c EXCEPT !.rrqs = IF c.expected = 1 THEN @ + 1 ELSE @]
  /\ requests' = requests \cup {Outmsg(c)}

TftpGet ==
  /\ tftp.op = "idle"
  /\ Transmit([tftp EXCEPT !.op = "recv", !.tries = 1])
  /\ UNCHANGED <<server, datagrams>>

(* tftp_send1 accepts the block it expects, and goes on waiting for it     *)
(* when another one comes; tftpget_mb stores it and asks for the next.     *)
TftpTakesAny(m) ==
  /\ tftp.op = "recv" /\ m.op = "DATA" /\ Len(tftp.got) < tftp.room
  /\ Transmit([tftp EXCEPT !.remport = m.port, !.got = Append(@, m), !.expected = @ + 1])
  /\ UNCHANGED <<server, datagrams>>

TftpReceives(m) ==
  LET c == [tftp EXCEPT !.remport = m.port]
      stored == [c EXCEPT !.got = Append(@, m), !.expected = @ + 1, !.tries = 1]
  IN
  /\ tftp.op = "recv" /\ UNCHANGED <<server, datagrams>>
  /\ \/ /\ m.op = "DATA" /\ m.blk = c.expected /\ Len(c.got) < c.room
        /\ IF m.blk < FileLen
           THEN Transmit(stored)
           ELSE /\ tftp' = [stored EXCEPT !.op = "done"]
                /\ requests' = requests \cup {Outmsg(stored)}
     \/ /\ m.op = "DATA" /\ m.blk = c.expected /\ Len(c.got) = c.room
        /\ tftp' = [c EXCEPT !.op = "done"] /\ UNCHANGED requests
     \/ /\ m.op = "DATA" /\ m.blk # c.expected
        /\ tftp' = c /\ UNCHANGED requests
     \/ /\ m.op = "ERROR"
        /\ tftp' = [c EXCEPT !.op = "SYSERR"] /\ UNCHANGED requests

TftpTimeout ==
  /\ tftp.op = "recv" /\ UNCHANGED <<server, datagrams>>
  /\ \/ tftp.tries < TFTP_MAXRETRIES /\ Transmit([tftp EXCEPT !.tries = @ + 1])
     \/ /\ tftp.tries = TFTP_MAXRETRIES
        /\ tftp' = [tftp EXCEPT !.op = "SYSERR"] /\ UNCHANGED requests
-----------------------------------------------------------------------------
ServerStarts(t) ==
  /\ Rrq(TFTP_PORT) \in requests
  /\ server[t] = 0 /\ \A u \in 1..(t - 1) : server[u] # 0
  /\ server' = [server EXCEPT ![t] = 1]
  /\ datagrams' = datagrams \cup {Data(t, 1)}
  /\ UNCHANGED <<tftp, requests>>

ServerContinues(t) ==
  /\ Ack(t, server[t]) \in requests /\ server[t] < FileLen
  /\ server' = [server EXCEPT ![t] = @ + 1]
  /\ datagrams' = datagrams \cup {Data(t, server[t] + 1)}
  /\ UNCHANGED <<tftp, requests>>

ServerGivesUp(t) ==
  /\ server[t] # 0
  /\ datagrams' = datagrams \cup {TftpError(t)}
  /\ UNCHANGED <<tftp, server, requests>>

TftpNext ==
  \/ TftpGet \/ TftpTimeout
  \/ \E m \in datagrams : TftpReceives(m)
  \/ \E t \in Transfer : ServerStarts(t) \/ ServerContinues(t) \/ ServerGivesUp(t)
  \/ tftp.op \in {"done", "SYSERR"} /\ UNCHANGED tftpvars

TftpSpec == TftpInit /\ [][TftpNext]_tftpvars
-----------------------------------------------------------------------------
(* What is stored is the beginning of the file, each block once and in     *)
(* order, whatever the network repeats, and the whole file when the call   *)
(* succeeds and there is room for it.  Blocks come from one transfer       *)
(* unless two were started: a second one may be serving another version.   *)
TftpOneFile ==
  /\ \A k \in DOMAIN tftp.got : tftp.got[k].blk = k
  /\ tftp.op = "done" => Len(tftp.got) = FileLen \/ Len(tftp.got) = tftp.room
  /\ \A k, l \in DOMAIN tftp.got :
       tftp.got[k].port # tftp.got[l].port => server[2] # 0
=============================================================================
