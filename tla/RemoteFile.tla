----------------------------- MODULE RemoteFile -----------------------------
(***************************************************************************)
(* The remote file system (device/rfs): every call holds rf_mutex while it *)
(* exchanges one request and one reply with the server, which it repeats   *)
(* when no reply comes in time.  The network loses requests and replies,   *)
(* and a reply can come at any later time; the copies of a request are     *)
(* executed before its exchange ends.  The server is external: it holds    *)
(* the files, and answers each copy of a request that reaches it.          *)
(***************************************************************************)
EXTENDS Integers, Sequences, FiniteSets

CONSTANTS
  RfName, Nrfl,       \* names of files, pseudo-devices for open files
  RF_RETRIES, RF_DATALEN,
  RfModes,            \* mode strings
  RfByte,             \* what a file holds; "0" fills a gap
  RfAbsent, RfDir, Doubt, RfNone

ASSUME RfAssumption ==
  /\ {Nrfl, RF_RETRIES, RF_DATALEN} \subseteq Nat \ {0}
  /\ "0" \in RfByte /\ RfAbsent # RfDir
  /\ {RfAbsent, RfDir} \cap Seq(RfByte) = {}

VARIABLES
  rfltab,             \* control blocks of open files
  rf_seq,             \* next sequence number
  rfcall,             \* the call that holds rf_mutex, and its exchange
  rfreplies,          \* replies on their way or queued at the endpoint
  rfserver,           \* the server's files
  rftold,             \* what its answers said of them, or Doubt (ghost)
  rfread              \* what the last read returned (ghost)

rfvars == <<rfltab, rf_seq, rfcall, rfreplies, rfserver, rftold, rfread>>

Rfl   == 0..(Nrfl - 1)
NoCall == [op |-> "idle"]

RfInit ==
  /\ rfltab = [s \in Rfl |-> [state |-> "free", name |-> RfNone, pos |-> 0, mode |-> {}]]
  /\ rf_seq = 1 /\ rfcall = NoCall /\ rfreplies = {}
  /\ rfserver \in [RfName -> {RfAbsent, <<>>}] /\ rftold = rfserver /\ rfread = RfNone

(* Letters of a mode string as a set of bits; none if it is in error.      *)
rfsgetmode(mode) ==
  LET bits == {mode[i] : i \in DOMAIN mode}
  IN  IF /\ bits \subseteq {"r", "w", "o", "n"} /\ ~({"o", "n"} \subseteq bits)
         /\ Cardinality(bits) = Len(mode)
      THEN IF bits \cap {"r", "w"} = {} THEN bits \cup {"r", "w"} ELSE bits
      ELSE {}

(* A call takes the mutex and numbers its request, which has the type      *)
(* type, concerns file name and has the arguments of a.                    *)
Asks(s, type, name, a) ==
  /\ rfcall = NoCall
  /\ rfcall' = [op |-> "send", slot |-> s, type |-> type, name |-> name, arg |-> a,
                seq |-> rf_seq, tries |-> 0]
  /\ rf_seq' = rf_seq + 1 /\ rfread' = RfNone
  /\ UNCHANGED <<rfltab, rfreplies, rfserver, rftold>>

Rfsopen(name, mode) ==
  LET free == {s \in Rfl : rfltab[s].state = "free"}
  IN  /\ free # {} /\ rfsgetmode(mode) # {}
      /\ Asks(CHOOSE s \in free : \A t \in free : s <= t, "open", name, rfsgetmode(mode))

Rflread(s, count) ==
  /\ count \in 1..RF_DATALEN /\ rfltab[s].state = "used" /\ "r" \in rfltab[s].mode
  /\ Asks(s, "read", rfltab[s].name, [pos |-> rfltab[s].pos, len |-> count])

Rflwrite(s, data) ==
  /\ Len(data) \in 1..RF_DATALEN /\ rfltab[s].state = "used" /\ "w" \in rfltab[s].mode
  /\ Asks(s, "write", rfltab[s].name, [pos |-> rfltab[s].pos, data |-> data])

Rflgetc(s)     == Rflread(s, 1)
Rflputc(s, ch) == Rflwrite(s, <<ch>>)

(* Delete, truncate, make or remove a directory; or ask for the size.      *)
RfsControls == {"delete", "truncate", "mkdir", "rmdir", "size"}
Rfscontrol(func, name) == Asks(0, func, name, RfNone)

Rflseek(s, pos) ==
  /\ rfcall = NoCall /\ rfltab[s].state = "used"
  /\ rfltab' = [rfltab EXCEPT ![s].pos = pos]
  /\ UNCHANGED <<rf_seq, rfcall, rfreplies, rfserver, rftold, rfread>>

Rflclose(s) ==
  /\ rfcall = NoCall /\ rfltab[s].state = "used"
  /\ rfltab' = [rfltab EXCEPT ![s].state = "free"]
  /\ UNCHANGED <<rf_seq, rfcall, rfreplies, rfserver, rftold, rfread>>

(* What the server makes of a request about a file f: the file afterwards, *)
(* whether the status is 0, and the bytes of a read.                       *)
Least(m, n) == IF m < n THEN m ELSE n

Over(f, pos, data) ==
  [i \in 1..(IF Len(f) > pos + Len(data) THEN Len(f) ELSE pos + Len(data)) |->
     IF i \in (pos + 1)..(pos + Len(data)) THEN data[i - pos]
     ELSE IF i <= Len(f) THEN f[i] ELSE "0"]

Serve(f, type, a) ==
  LET Done(g, b) == [file |-> g, ok |-> TRUE, data |-> b]
      Refused    == [file |-> f, ok |-> FALSE, data |-> <<>>]
  IN  CASE f = RfAbsent -> IF type = "open" /\ "o" \notin a THEN Done(<<>>, <<>>)
                           ELSE IF type = "mkdir" THEN Done(RfDir, <<>>) ELSE Refused
        [] f = RfDir    -> IF type = "rmdir" THEN Done(RfAbsent, <<>>) ELSE Refused
        [] OTHER ->
             CASE type = "open"     -> IF "n" \in a THEN Refused ELSE Done(f, <<>>)
               [] type = "read"     ->
                    Done(f, SubSeq(f, a.pos + 1, Least(a.pos + a.len, Len(f))))
               [] type = "write"    -> Done(Over(f, a.pos, a.data), a.data)
               [] type = "delete"   -> Done(RfAbsent, <<>>)
               [] type = "truncate" -> Done(<<>>, <<>>)
               [] type = "size"     -> Done(f, <<>>)
               [] OTHER             -> Refused

(* rfscomm sends a copy: it is lost, or executed, and then the reply too   *)
(* may be lost.                                                            *)
RfSend ==
  LET r == Serve(rfserver[rfcall.name], rfcall.type, rfcall.arg)
  IN  /\ rfcall.op = "send"
      /\ rfcall' = [rfcall EXCEPT !.op = "recv", !.tries = @ + 1]
      /\ \/ UNCHANGED <<rfserver, rfreplies>>
         \/ /\ rfserver' = [rfserver EXCEPT ![rfcall.name] = r.file]
            /\ \/ UNCHANGED rfreplies
               \/ rfreplies' = rfreplies \cup {[seq |-> rfcall.seq, type |-> rfcall.type,
                                                ok |-> r.ok, data |-> r.data]}
      /\ UNCHANGED <<rfltab, rf_seq, rftold, rfread>>

(* The call returns SYSERR; unless its only copy was refused, nobody knows *)
(* whether it was done.                                                    *)
Fails(refused) ==
  /\ rfcall' = NoCall
  /\ rftold' = IF rfcall.tries = 0 \/ (refused /\ rfcall.tries = 1)
                  \/ rfcall.type \in {"read", "size"}
               THEN rftold ELSE [rftold EXCEPT ![rfcall.name] = Doubt]
  /\ UNCHANGED <<rfltab, rf_seq, rfserver, rfread>>

(* udp_register, udp_send or udp_recv fails.                               *)
RfError == rfcall.op \in {"send", "recv"} /\ Fails(FALSE) /\ UNCHANGED rfreplies

(* Nothing came, or something else: another copy, or the end of retries.   *)
Again ==
  \/ /\ rfcall.tries < RF_RETRIES /\ rfcall' = [rfcall EXCEPT !.op = "send"]
     /\ UNCHANGED <<rfltab, rf_seq, rfserver, rftold, rfread>>
  \/ rfcall.tries >= RF_RETRIES /\ Fails(FALSE)

RfTimeout == rfcall.op = "recv" /\ Again /\ UNCHANGED rfreplies

(* Answers are told from other replies by their number and type.           *)
IsAnswerOfType(m) == m.type = rfcall.type
IsAnswer(m) == m.seq = rfcall.seq /\ m.type = rfcall.type

(* The answer is taken: an open file is entered, a position advanced by    *)
(* the bytes the server read or wrote.  A size is taken without a look at  *)
(* the status.                                                             *)
Accept(m) ==
  LET c == rfcall
  IN  /\ rfcall' = NoCall
      /\ rfltab' = CASE c.type = "open" ->
                          [rfltab EXCEPT ![c.slot] = [state |-> "used", name |-> c.name,
                                                      pos |-> 0, mode |-> c.arg]]
                     [] c.type \in {"read", "write"} ->
                          [rfltab EXCEPT ![c.slot].pos = @ + Len(m.data)]
                     [] OTHER -> rfltab
      /\ rfread' = IF c.type = "read"
                   THEN [name |-> c.name, pos |-> c.arg.pos, len |-> c.arg.len, data |-> m.data]
                   ELSE RfNone
      /\ rftold' = IF rftold[c.name] = Doubt \/ c.type \in {"read", "size"} THEN rftold
                   ELSE [rftold EXCEPT ![c.name] = Serve(@, c.type, c.arg).file]
      /\ UNCHANGED <<rf_seq, rfserver>>

RfReceive(m) ==
  /\ rfcall.op = "recv" /\ m \in rfreplies
  /\ rfreplies' = rfreplies \ {m}
  /\ \/ ~IsAnswer(m) /\ Again
     \/ IsAnswer(m) /\ ~m.ok /\ rfcall.type # "size" /\ Fails(TRUE)
     \/ IsAnswer(m) /\ (m.ok \/ rfcall.type = "size") /\ Accept(m)

(* Any calls, with any bytes, counts and positions.                        *)
RemoteNext ==
  \/ RfSend \/ RfError \/ RfTimeout \/ \E m \in rfreplies : RfReceive(m)
  \/ \E s \in Rfl : Rflclose(s) \/ \E k \in Nat : Rflseek(s, k) \/ Rflread(s, k)
  \/ \E s \in Rfl, data \in Seq(RfByte) : Rflwrite(s, data)
  \/ \E n \in RfName : (\E m \in RfModes : Rfsopen(n, m)) \/ \E f \in RfsControls : Rfscontrol(f, n)

RemoteSpec == RfInit /\ [][RemoteNext]_rfvars
-----------------------------------------------------------------------------
(* What the calls have been told is so: a file about which no failed call  *)
(* leaves a doubt is as the successful ones made it, and the last read     *)
(* returned its bytes from the position on, all that there are.  Answers   *)
(* to earlier requests, or to an earlier copy, do no harm.                 *)
ToldIsTrue ==
  /\ \A n \in RfName :
       rftold[n] # Doubt /\ (rfcall = NoCall \/ rfcall.name # n) => rfserver[n] = rftold[n]
  /\ rfread # RfNone /\ rftold[rfread.name] \notin {Doubt, RfAbsent, RfDir} =>
       rfread.data = SubSeq(rftold[rfread.name], rfread.pos + 1,
                            Least(rfread.pos + rfread.len, Len(rftold[rfread.name])))
=============================================================================
