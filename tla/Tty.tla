-------------------------------- MODULE Tty --------------------------------
(***************************************************************************)
(* The serial terminal driver (device/tty): processes that read and write  *)
(* (the upper half), and the interrupt handler that takes what is typed    *)
(* and feeds the UART (the lower half).  They share three ring buffers     *)
(* and two semaphores, tyisem counting characters to read and tyosem       *)
(* counting free places for output.                                        *)
(*                                                                         *)
(* A call is cut where it blocks in wait.  A process that signal released  *)
(* runs some time later, after any number of interrupts: it may have a     *)
(* lower priority than the current process.                                *)
(***************************************************************************)
EXTENDS SemTable, FiniteSets

CONSTANTS
  Reader, Writer,                       \* processes
  TY_IBUFLEN, TY_OBUFLEN, TY_EBUFLEN,   \* sizes of the three rings
  UART_FIFO_SIZE,                       \* what the UART takes at once
  Typable,                              \* characters somebody types
  Texts,                                \* what processes write
  Counts,                               \* counts passed to ttyread
  Modes,                                \* input modes ttycontrol sets
  Echoes                                \* values ttycontrol gives tyiecho

(* Characters are classes: "x" and "y" are printable, "tab" stands for the *)
(* other control characters.                                               *)
Characters == {"x", "y", "tab", "newline", "return", "eof", "kill", "erase", "stop", "start"}

ASSUME TtyAssumption ==
  /\ {TY_IBUFLEN, TY_OBUFLEN, TY_EBUFLEN, UART_FIFO_SIZE} \subseteq Nat \ {0}
  /\ Sems = {"tyisem", "tyosem"}
  /\ Counts \subseteq Nat
  /\ Modes \subseteq {"raw", "cooked", "cbreak"} /\ Echoes \subseteq BOOLEAN
  /\ Typable \subseteq Characters /\ Texts \subseteq Seq(Characters)
  /\ Reader \cap Writer = {} /\ IsFiniteSet(Reader) /\ IsFiniteSet(Writer)

VARIABLES
  tyibuff, tyihead, tyitail,   \* input ring
  tyicursor,                   \* characters of the line being typed
  tyobuff, tyohead, tyotail,   \* output ring
  tyehead, tyetail,            \* echo ring, whose contents are left out
  tyimode, tyiecho, tyoheld,
  uart,                        \* its output side: busy, ETBEI, interrupt pending
  pc,                          \* what each process still has to do
  overrun,                     \* a store has hit an unread character or tyisem
  owed, debt,                  \* characters stored and not sent; sent and not stored
  quiet                        \* held output was let go on, but not started

ivars == <<tyibuff, tyihead, tyitail, tyicursor, overrun>>
ovars == <<tyobuff, tyohead, tyotail, owed, debt>>
evars == <<tyehead, tyetail>>
modes == <<tyimode, tyiecho, tyoheld>>
vars  == <<ivars, ovars, evars, modes, uart, semtab, pc, quiet>>

Idle == [op |-> "idle", part |-> "chars", left |-> 0, todo |-> <<>>]

Init ==
  /\ tyibuff = [i \in 0..(TY_IBUFLEN - 1) |-> "none"] /\ tyihead = 0 /\ tyitail = 0
  /\ tyobuff = [i \in 0..(TY_OBUFLEN - 1) |-> "none"] /\ tyohead = 0 /\ tyotail = 0
  /\ tyehead = 0 /\ tyetail = 0 /\ tyicursor = 0
  /\ tyimode = "cooked" /\ tyiecho = TRUE /\ tyoheld = FALSE
  /\ uart = [busy |-> FALSE, etbei |-> TRUE, thre |-> TRUE]
  /\ semtab = Semcreate(Semcreate([s \in Sems |-> FreeEntry], 0, "tyisem"),
                        TY_OBUFLEN, "tyosem")
  /\ pc = [p \in Reader \cup Writer |-> Idle]
  /\ overrun = FALSE /\ owed = <<>> /\ debt = 0 /\ quiet = FALSE

Count(s)   == semtab[s].count
Waiting(p) == WaitsIn(semtab, p)

(* Processes released from wait(s) that have not run since. *)
Granted(P) == {p \in P : pc[p].op \in {"getc", "putc", "nextc"} /\ ~Waiting(p)}

Lesser(a, b) == IF a < b THEN a ELSE b

(* signaln: a unit for each of those who wait, as far as the units go. *)
Signalln(tab, s, n) ==
  LET released == IF tab[s].count < 0 THEN Lesser(n, -tab[s].count) ELSE 0 IN
  [tab EXCEPT ![s].count = @ + n, ![s].queue = SubSeq(@, released + 1, Len(@))]
-----------------------------------------------------------------------------
(* The UART: filled by the handler it interrupts when it is empty again.   *)

(* ttykickout: the UART interrupts for output at once, or when it is empty. *)
Kicked(u) == [u EXCEPT !.etbei = TRUE, !.thre = @ \/ ~u.busy]

Drain ==
  /\ uart.busy
  /\ uart' = [uart EXCEPT !.busy = FALSE, !.thre = uart.etbei]
  /\ UNCHANGED <<ivars, ovars, evars, modes, semtab, pc, quiet>>

Wrapped(i, n) == IF i >= n THEN i - n ELSE i

SendSignalsTooMany(k) ==
  LET fresh == IF k <= Len(owed) THEN k ELSE Len(owed) IN
  /\ tyohead' = (tyohead + k) % TY_OBUFLEN
  /\ owed' = SubSeq(owed, fresh + 1, Len(owed))
  /\ debt' = debt + (k - fresh)
  /\ semtab' = Signalln(semtab, "tyosem", k + 1)
  /\ UNCHANGED <<tyobuff, tyotail>>

(* The part of ttyhandle_out that sends k characters from the output ring  *)
(* and gives back their places.                                            *)
Send(k) ==
  LET fresh == IF k <= Len(owed) THEN k ELSE Len(owed) IN
  /\ tyohead' = (tyohead + k) % TY_OBUFLEN
  /\ owed' = SubSeq(owed, fresh + 1, Len(owed))
  /\ debt' = debt + (k - fresh)
  /\ semtab' = Signalln(semtab, "tyosem", k)
  /\ UNCHANGED <<tyobuff, tyotail>>

Echoed == (tyetail - tyehead + TY_EBUFLEN) % TY_EBUFLEN

(* ttyhandler for a transmitter interrupt: reading its cause clears it.    *)
Ttyhandle_out ==
  LET etosend == Lesser(UART_FIFO_SIZE, Echoed)
      avail   == TY_OBUFLEN - Count("tyosem")
      ochars  == IF avail > 0 THEN Lesser(UART_FIFO_SIZE - etosend, avail) ELSE 0
  IN
  /\ uart.thre /\ uart.etbei
  /\ \/ /\ tyoheld
        /\ uart' = [uart EXCEPT !.thre = FALSE]
        /\ UNCHANGED <<ovars, evars, semtab>>
     \/ /\ ~tyoheld /\ Echoed = 0 /\ avail <= 0
        /\ uart' = [uart EXCEPT !.thre = FALSE, !.etbei = FALSE]
        /\ UNCHANGED <<ovars, evars, semtab>>
     \/ /\ ~tyoheld /\ (Echoed > 0 \/ avail > 0)
        /\ tyehead' = (tyehead + etosend) % TY_EBUFLEN
        /\ Send(ochars)
        /\ uart' = [uart EXCEPT !.thre = FALSE, !.busy = TRUE]
        /\ UNCHANGED tyetail
  /\ UNCHANGED <<ivars, modes, pc, quiet>>
-----------------------------------------------------------------------------
(* Input. *)

Printable(ch) == ch \in {"x", "y"}

(* echoch: how many characters it puts on the echo ring. *)
EchoWidth(ch) == IF Printable(ch) THEN 1 ELSE 2

EraseWidth(ch) == IF Printable(ch) THEN 3 ELSE 6

(* eputc n times.  There is no test for space. *)
Eputc(n) ==
  /\ tyetail' = (tyetail + n) % TY_EBUFLEN
  /\ uart' = Kicked(uart)
  /\ UNCHANGED tyehead

Echo(n) == IF tyiecho THEN Eputc(n) ELSE UNCHANGED <<evars, uart>>

Avail == Left(semtab, "tyisem")

(* Unread characters, those promised to released readers included. *)
Unread == Avail + Cardinality(Granted(Reader))

(* One character goes into the ring at the tail.  Behind the last place    *)
(* of the ring is tyisem itself.                                           *)
Stores(ch) ==
  /\ IF tyitail < TY_IBUFLEN
     THEN tyibuff' = [tyibuff EXCEPT ![tyitail] = ch]
     ELSE UNCHANGED tyibuff
  /\ overrun' = (tyitail >= TY_IBUFLEN \/ Unread + tyicursor >= TY_IBUFLEN)
  /\ UNCHANGED tyihead

StoreAndWrap(ch) == Stores(ch) /\ tyitail' = Wrapped(tyitail + 1, TY_IBUFLEN)

Signal(n) == semtab' = Signalln(semtab, "tyisem", n)
Quiet == UNCHANGED <<ivars, semtab>>
Cbreak(ch) ==
  /\ tyimode = "cbreak"
  /\ \/ Avail >= TY_IBUFLEN /\ Eputc(1) /\ Quiet
     \/ /\ Avail < TY_IBUFLEN
        /\ StoreAndWrap(ch)
        /\ Echo(EchoWidth(ch))
        /\ Signal(1)
        /\ UNCHANGED tyicursor

Raw(ch) ==
  /\ tyimode = "raw"
  /\ \/ Avail >= TY_IBUFLEN /\ Quiet
     \/ Avail < TY_IBUFLEN /\ StoreAndWrap(ch) /\ Signal(1) /\ UNCHANGED tyicursor
  /\ UNCHANGED <<evars, uart, tyoheld>>

KillForgetsCursor(ch) ==
  /\ ch = "kill"
  /\ tyitail' = (tyitail - tyicursor + TY_IBUFLEN) % TY_IBUFLEN
  /\ Eputc(2)
  /\ UNCHANGED <<tyibuff, tyihead, tyicursor, overrun, semtab>>

KillLine(ch) ==
  /\ ch = "kill"
  /\ tyitail' = IF tyitail - tyicursor < 0 THEN tyitail - tyicursor + TY_IBUFLEN
                                           ELSE tyitail - tyicursor
  /\ tyicursor' = 0
  /\ Eputc(2)
  /\ UNCHANGED <<tyibuff, tyihead, overrun, semtab>>

EraseChar(ch) ==
  /\ ch = "erase"
  /\ \/ tyicursor = 0 /\ Quiet /\ UNCHANGED <<evars, uart>>
     \/ LET i == IF tyitail = 0 THEN TY_IBUFLEN - 1 ELSE tyitail - 1 IN
        /\ tyicursor > 0
        /\ tyicursor' = tyicursor - 1
        /\ tyitail' = i
        /\ Echo(EraseWidth(tyibuff[i]))
        /\ UNCHANGED <<tyibuff, tyihead, overrun, semtab>>

(* The line becomes readable; there is no test for space. *)
EndOfLine(ch) ==
  /\ ch = "newline"
  /\ Echo(EchoWidth(ch))
  /\ StoreAndWrap(ch)
  /\ Signal(tyicursor + 1)
  /\ tyicursor' = 0

Full == Avail + tyicursor >= TY_IBUFLEN - 1

Bell(ch) == ch \notin {"kill", "erase", "newline"} /\ Full /\ Eputc(1) /\ Quiet

(* The tail is not wrapped. *)
Eof(ch) ==
  /\ ch = "eof" /\ ~Full
  /\ Echo(EchoWidth(ch))
  /\ \/ tyicursor # 0 /\ Quiet
     \/ /\ tyicursor = 0
        /\ Stores(ch)
        /\ tyitail' = tyitail + 1
        /\ Signal(1)
        /\ UNCHANGED tyicursor

Ordinary(ch) ==
  /\ ch \notin {"kill", "erase", "newline", "eof"} /\ ~Full
  /\ Echo(EchoWidth(ch))
  /\ StoreAndWrap(ch)
  /\ tyicursor' = tyicursor + 1
  /\ UNCHANGED semtab

Cooked(ch) ==
  /\ tyimode = "cooked"
  /\ \/ KillLine(ch) \/ EraseChar(ch) \/ EndOfLine(ch)
     \/ Bell(ch) \/ Eof(ch) \/ Ordinary(ch)

(* ^S and ^Q.  ^Q asks for an interrupt, as the last one was ignored. *)
FlowControl(ch) ==
  /\ tyimode # "raw"
  /\ \/ ch = "start" /\ tyoheld' = FALSE /\ uart' = Kicked(uart)
     \/ ch = "stop"  /\ tyoheld' = TRUE  /\ UNCHANGED uart
  /\ UNCHANGED <<ivars, evars, semtab>>

Mapped(ch) == IF ch = "return" THEN "newline" ELSE ch

(* ttyhandle_in: a character arrives.  A driver whose semaphore or unread  *)
(* input was overwritten is not followed any further.                      *)
Ttyhandle_in(ch) ==
  /\ ~overrun
  /\ \/ Raw(ch)
     \/ FlowControl(ch)
     \/ /\ tyimode # "raw" /\ ch \notin {"start", "stop"}
        /\ tyoheld' = FALSE
        /\ Cbreak(Mapped(ch)) \/ Cooked(Mapped(ch))
  /\ quiet' = ((quiet \/ (tyoheld /\ ~tyoheld')) /\ ~uart'.thre /\ ~uart'.busy)
  /\ UNCHANGED <<ovars, tyimode, tyiecho, pc>>
-----------------------------------------------------------------------------
(* The upper half. *)

(* wait(s) by p when it blocks, to go on with op. *)
Block(p, s, op) ==
  /\ Count(s) <= 0
  /\ semtab' = Enqueued(semtab, s, p)
  /\ pc' = [pc EXCEPT ![p].op = op]

(* ttygetc from behind its wait, and the loop of ttyread around it: a call *)
(* made in cooked mode ends with the line, or when an end of file comes    *)
(* first; every call ends with its count.                                  *)
Extract(p, tab) ==
  LET ch   == tyibuff[tyihead]
      eof  == ch = "eof" /\ tyimode = "cooked"
      left == pc[p].left - 1
      done == \/ left = 0
              \/ pc[p].part # "chars" /\ ch \in {"newline", "return"}
              \/ pc[p].part = "first" /\ eof
      part == IF pc[p].part = "first" THEN "rest" ELSE pc[p].part
  IN
  /\ tyihead' = Wrapped(tyihead + 1, TY_IBUFLEN)
  /\ semtab' = tab
  /\ pc' = [pc EXCEPT ![p] = IF done THEN Idle
                             ELSE [Idle EXCEPT !.op = "want", !.part = part, !.left = left]]
  /\ UNCHANGED <<tyibuff, tyitail, tyicursor, overrun>>

(* In raw and cbreak mode a count of zero asks for all there is; in cooked *)
(* mode one character is read whatever the count.                          *)
Ttyread(p, count) ==
  LET cooked == tyimode = "cooked"
      n == IF count > 0 THEN count ELSE IF cooked THEN 1 ELSE Avail
  IN
  /\ pc[p].op = "idle" /\ n > 0
  /\ pc' = [pc EXCEPT ![p] = [Idle EXCEPT !.op = "want", !.left = n,
                                          !.part = IF cooked THEN "first" ELSE "chars"]]
  /\ UNCHANGED <<ivars, ovars, evars, modes, uart, semtab, quiet>>

Ttygetc(p) ==
  /\ pc[p].op = "want" /\ ~overrun
  /\ \/ Block(p, "tyisem", "getc") /\ UNCHANGED ivars
     \/ Count("tyisem") > 0 /\ Extract(p, Waited(semtab, "tyisem"))
  /\ UNCHANGED <<ovars, evars, modes, uart, quiet>>

TtygetcResumes(p) ==
  /\ pc[p].op = "getc" /\ ~Waiting(p) /\ ~overrun
  /\ Extract(p, semtab)
  /\ UNCHANGED <<ovars, evars, modes, uart, quiet>>

(* TC_NEXTC looks at a character, and gives back the unit it waited for.   *)
(* Without waiting it changes nothing.                                     *)
TcNextc(p) ==
  /\ pc[p].op = "idle"
  /\ Block(p, "tyisem", "nextc")
  /\ UNCHANGED <<ivars, ovars, evars, modes, uart, quiet>>

TcNextcResumes(p) ==
  /\ pc[p].op = "nextc" /\ ~Waiting(p)
  /\ Signal(1)
  /\ pc' = [pc EXCEPT ![p] = Idle]
  /\ UNCHANGED <<ivars, ovars, evars, modes, uart, quiet>>

Ttywrite(p, text) ==
  /\ pc[p].op = "idle" /\ text # <<>>
  /\ pc' = [pc EXCEPT ![p] = [Idle EXCEPT !.op = "have", !.todo = text]]
  /\ UNCHANGED <<ivars, ovars, evars, modes, uart, semtab, quiet>>

(* ttyputc of a newline puts a return first. *)
ReturnFirst(c) == Head(c.todo) = "newline" /\ c.part = "chars"

CharOf(c) == IF ReturnFirst(c) THEN "return" ELSE Head(c.todo)

RestOf(c) ==
  IF ReturnFirst(c)       THEN [c EXCEPT !.op = "have", !.part = "newline"]
  ELSE IF Len(c.todo) = 1 THEN Idle
  ELSE [Idle EXCEPT !.op = "have", !.todo = Tail(c.todo)]

PutCharWithoutKick(p, tab) ==
  /\ tyobuff' = [tyobuff EXCEPT ![tyotail] = CharOf(pc[p])]
  /\ tyotail' = Wrapped(tyotail + 1, TY_OBUFLEN)
  /\ owed' = IF debt > 0 THEN owed ELSE Append(owed, CharOf(pc[p]))
  /\ debt' = IF debt > 0 THEN debt - 1 ELSE 0
  /\ semtab' = tab
  /\ pc' = [pc EXCEPT ![p] = RestOf(@)]
  /\ UNCHANGED <<tyohead, uart, quiet>>

(* ttyputc from behind its wait.  If the handler has already sent what was *)
(* in this place before, the character is not sent in its turn.            *)
PutChar(p, tab) ==
  /\ tyobuff' = [tyobuff EXCEPT ![tyotail] = CharOf(pc[p])]
  /\ tyotail' = Wrapped(tyotail + 1, TY_OBUFLEN)
  /\ owed' = IF debt > 0 THEN owed ELSE Append(owed, CharOf(pc[p]))
  /\ debt' = IF debt > 0 THEN debt - 1 ELSE 0
  /\ semtab' = tab
  /\ uart' = Kicked(uart)
  /\ quiet' = FALSE
  /\ pc' = [pc EXCEPT ![p] = RestOf(@)]
  /\ UNCHANGED tyohead

Ttyputc(p) ==
  /\ pc[p].op = "have"
  /\ \/ Block(p, "tyosem", "putc") /\ UNCHANGED <<ovars, uart, quiet>>
     \/ Count("tyosem") > 0 /\ PutChar(p, Waited(semtab, "tyosem"))
  /\ UNCHANGED <<ivars, evars, modes>>

TtyputcResumes(p) ==
  /\ pc[p].op = "putc" /\ ~Waiting(p)
  /\ PutChar(p, semtab)
  /\ UNCHANGED <<ivars, evars, modes>>

Ttycontrol ==
  /\ \/ \E m \in Modes : tyimode' = m /\ UNCHANGED tyiecho
     \/ \E e \in Echoes : tyiecho' = e /\ UNCHANGED tyimode
  /\ UNCHANGED <<ivars, ovars, evars, tyoheld, uart, semtab, pc, quiet>>
-----------------------------------------------------------------------------
Next ==
  \/ Drain \/ Ttyhandle_out \/ Ttycontrol
  \/ \E ch \in Typable : Ttyhandle_in(ch)
  \/ \E p \in Reader :
       \/ \E n \in Counts : Ttyread(p, n)
       \/ Ttygetc(p) \/ TtygetcResumes(p) \/ TcNextc(p) \/ TcNextcResumes(p)
  \/ \E p \in Writer :
       \/ \E t \in Texts : Ttywrite(p, t)
       \/ Ttyputc(p) \/ TtyputcResumes(p)

Spec == Init /\ [][Next]_vars

(* The UART empties, and its interrupt is taken. *)
FairSpec == Spec /\ WF_vars(Drain) /\ WF_vars(Ttyhandle_out)
-----------------------------------------------------------------------------
(* What ttyhandle_out sends is what ttyputc stored, in order, although     *)
(* the characters to send are counted by a semaphore that writers acquire  *)
(* before they store.  Only a writer that was released and has not run     *)
(* since can be overtaken: as many characters at most are sent twice, and  *)
(* as many not in their turn, as there are such writers.                   *)
OutputInOrder ==
  /\ \A i \in 1..Len(owed) : tyobuff[(tyohead + i - 1) % TY_OBUFLEN] = owed[i]
  /\ tyotail = (tyohead + Len(owed) - debt) % TY_OBUFLEN
  /\ debt <= Cardinality(Granted(Writer))

InRing(i, n) == [k \in 1..n |-> tyibuff[(i + k - 1) % TY_IBUFLEN]]

Readable == IF overrun THEN <<>> ELSE InRing(tyihead, Unread)

Edited == IF overrun THEN <<>> ELSE InRing(tyihead + Unread, tyicursor)

Line == INSTANCE LineSpec
          WITH Char <- Characters, Capacity <- TY_IBUFLEN, line <- Readable, edit <- Edited,
               lost <- overrun, ended <- tyitail = TY_IBUFLEN

(* ttyhandle_in and ttyread keep the promise of a terminal line, in every  *)
(* mode and across changes of mode: what is typed, and not erased or       *)
(* killed, is read once and in order.                                      *)
TtyIsLine == Line!LineIsKept

ToSend == Echoed > 0 \/ owed # <<>>

(* The UART is not left idle with something to send, unless ^S holds the   *)
(* output: the interrupts ttyhandle_out ignored or switched off are asked  *)
(* for again by ttyputc, by echoing and by ^Q.  The other characters that  *)
(* end a held period (ttyhandle_in.c:71) do so only if they are echoed.    *)
OutputNeverStalls ==
  ToSend /\ ~tyoheld /\ ~quiet ~> ~ToSend \/ uart.busy \/ tyoheld
=============================================================================
