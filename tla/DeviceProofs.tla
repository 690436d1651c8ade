---------------------------- MODULE DeviceProofs ----------------------------
(***************************************************************************)
(* What devices promise, proved for every number of processes, names,      *)
(* blocks, buffers, bytes and retries: ToldIsTrue of RemoteFile,           *)
(* RdsBuffersKept and RdsWritesLand of RemoteDisk, OutputInOrder of Tty,   *)
(* and that Tty implements LineSpec.                                       *)
(*                                                                         *)
(* Remote files: to execute a request twice is to execute it once, so that *)
(* the file is as it was or as the request makes it whatever copies        *)
(* arrive, and the latter once a reply with the number of the request      *)
(* exists.                                                                 *)
(*                                                                         *)
(* Remote disk: the three lists hold every buffer once (ListsOK), and what *)
(* the semaphore counts is the room in two of them less what is promised   *)
(* (AvailOK).  For a block that is not in doubt (Orderly), one buffer at   *)
(* most holds a write of it, no read of it was queued after that write or  *)
(* cached before it, and once the write has left the queue the server has  *)
(* it or is being told of it.                                              *)
(*                                                                         *)
(* Terminal: the free places that the semaphore counts, the writers it let *)
(* pass or has waiting, and the characters owed add up to the output ring  *)
(* (PlacesOK), and what is owed lies between head and tail (InPlace).      *)
(***************************************************************************)
EXTENDS RemoteFile, RemoteDisk, Tty, SemTableProofs, QueueProofs, FiniteSetTheorems, TLAPS

(* Remote files.                                                           *)
File     == {RfAbsent, RfDir} \cup Seq(RfByte)
Letter   == {"r", "w", "o", "n"}
RfType   == RfsControls \cup {"open", "read", "write"}
ReadArg  == [pos : Nat, len : Nat]
WriteArg == [pos : Nat, data : Seq(RfByte)]
ArgSet   == (SUBSET Letter) \cup ReadArg \cup WriteArg \cup {RfNone}

ArgOK(type, a) ==
  /\ type = "open" => a \subseteq Letter
  /\ type = "read" => a \in ReadArg
  /\ type = "write" => a \in WriteArg

Call ==
  [op : {"send", "recv"}, slot : Rfl, type : RfType, name : RfName,
   arg : ArgSet, seq : Nat, tries : Nat]

Reply == [seq : Nat, type : RfType, ok : BOOLEAN, data : Seq(RfByte)]

TableOK ==
  /\ rfltab \in [Rfl -> [state : {"free", "used"}, name : RfName \cup {RfNone}, pos : Nat,
                         mode : SUBSET Letter]]
  /\ \A s \in Rfl : rfltab[s].state = "used" => rfltab[s].name \in RfName

RfTypeOK ==
  /\ TableOK /\ rf_seq \in Nat
  /\ rfserver \in [RfName -> File] /\ rftold \in [RfName -> File \cup {Doubt}]
  /\ rfreplies \subseteq Reply
  /\ rfcall # NoCall => rfcall \in Call /\ ArgOK(rfcall.type, rfcall.arg)

(* What the request of call c makes of a file f, and the bytes it reads.   *)
Makes(c, f) == Serve(f, c.type, c.arg).file
Reads(c, f) == Serve(f, c.type, c.arg).data

(* The exchange of call c about a file that was f and is g.                *)
ExchangeOK(c, f, g) ==
  /\ g \in {f, Makes(c, f)} /\ (c.tries = 0 => g = f)
  /\ \A m \in rfreplies : m.seq = c.seq =>
       /\ g = Makes(c, f)
       /\ c.tries = 1 /\ ~m.ok => Makes(c, f) = f
       /\ c.type = "read" => m.data = Reads(c, f)

SettledOK == \A n \in RfName :
  rftold[n] # Doubt /\ (rfcall = NoCall \/ rfcall.name # n) => rfserver[n] = rftold[n]

CallOK == rfcall # NoCall =>
  /\ rfcall.seq < rf_seq
  /\ rfcall.tries = 0 => \A m \in rfreplies : m.seq # rfcall.seq
  /\ rftold[rfcall.name] # Doubt =>
       ExchangeOK(rfcall, rftold[rfcall.name], rfserver[rfcall.name])

ReadOK == rfread # RfNone =>
  /\ rfcall = NoCall
  /\ rfread.name \in RfName
  /\ rftold[rfread.name] \in Seq(RfByte) /\ rftold[rfread.name] # Doubt =>
       rfread.data = SubSeq(rftold[rfread.name], rfread.pos + 1,
                       Least(rfread.pos + rfread.len, Len(rftold[rfread.name])))

NumbersOK == \A m \in rfreplies : m.seq < rf_seq

RfIInv == RfTypeOK /\ NumbersOK /\ SettledOK /\ CallOK /\ ReadOK

LEMMA OverOK ==
  ASSUME NEW f \in Seq(RfByte), NEW p \in Nat, NEW d \in Seq(RfByte)
  PROVE  /\ Over(f, p, d) \in Seq(RfByte)
         /\ Over(Over(f, p, d), p, d) = Over(f, p, d)
<1>. DEFINE N == IF Len(f) > p + Len(d) THEN Len(f) ELSE p + Len(d)
            ByteAt(i) == IF i \in (p + 1)..(p + Len(d)) THEN d[i - p]
                     ELSE IF i <= Len(f) THEN f[i] ELSE "0"
            g == Over(f, p, d)
<1>1. Len(f) \in Nat /\ Len(d) \in Nat /\ N \in Nat
  BY LenProperties
<1>2. ASSUME NEW i \in 1..N PROVE ByteAt(i) \in RfByte
  <2>1. CASE i \in (p + 1)..(p + Len(d))
    <3>1. i - p \in 1..Len(d)
      BY <1>1, <2>1
    <3>2. QED
      BY <2>1, <3>1, ElementOfSeq
  <2>2. CASE i \notin (p + 1)..(p + Len(d)) /\ i <= Len(f)
    <3>1. i \in 1..Len(f)
      BY <1>1, <2>2
    <3>2. QED
      BY <2>2, <3>1, ElementOfSeq
  <2>3. QED
    BY <2>1, <2>2, RfAssumption
<1>3. g = [i \in 1..N |-> ByteAt(i)]
  BY DEF Over
<1>4. g \in [1..N -> RfByte]
  BY <1>2, <1>3
<1>5. g \in Seq(RfByte)
  BY <1>1, <1>4, SeqDef
<1>6. Len(g) = N
  BY <1>1, <1>4, <1>5, LenProperties
<1>7. (IF Len(g) > p + Len(d) THEN Len(g) ELSE p + Len(d)) = N
  BY <1>1, <1>6
<1>8. ASSUME NEW i \in 1..N
      PROVE  (IF i \in (p + 1)..(p + Len(d)) THEN d[i - p] ELSE IF i <= Len(g) THEN g[i] ELSE "0") = ByteAt(i)
  BY <1>1, <1>3, <1>6
<1>9. Over(g, p, d) =
        [i \in 1..N |-> IF i \in (p + 1)..(p + Len(d)) THEN d[i - p] ELSE IF i <= Len(g) THEN g[i] ELSE "0"]
  BY <1>7 DEF Over
<1>10. Over(g, p, d) = [i \in 1..N |-> ByteAt(i)]
  BY <1>8, <1>9
<1>11. QED
  BY <1>3, <1>5, <1>10

LEMMA ReadBytes ==
  ASSUME NEW f \in Seq(RfByte), NEW p \in Nat, NEW n \in Nat
  PROVE  SubSeq(f, p + 1, Least(p + n, Len(f))) \in Seq(RfByte)
<1>1. Len(f) \in Nat /\ Least(p + n, Len(f)) \in Nat /\ Least(p + n, Len(f)) <= Len(f)
  BY LenProperties DEF Least
<1>2. \A i \in (p + 1)..Least(p + n, Len(f)) : f[i] \in RfByte
  BY <1>1, ElementOfSeq
<1>3. QED
  BY <1>1, <1>2, SubSeqProperties

(* The server's answers: their types; a request executed once more changes *)
(* nothing; a refused one changes nothing; nor does one that only reads.   *)
LEMMA ServeOK ==
  ASSUME NEW f \in File, NEW type \in RfType, NEW a, ArgOK(type, a)
  PROVE  LET r == Serve(f, type, a) IN
         /\ r.file \in File /\ r.ok \in BOOLEAN /\ r.data \in Seq(RfByte)
         /\ Serve(r.file, type, a).file = r.file
         /\ ~r.ok => r.file = f
         /\ type \in {"read", "size"} => r.file = f
         /\ type = "read" /\ f \in Seq(RfByte) =>
              r.data = SubSeq(f, a.pos + 1, Least(a.pos + a.len, Len(f)))
<1>. DEFINE r == Serve(f, type, a)
<1>1. RfAbsent # RfDir /\ RfAbsent \notin Seq(RfByte) /\ RfDir \notin Seq(RfByte)
      /\ <<>> \in Seq(RfByte) /\ <<>> # RfAbsent /\ <<>> # RfDir
  BY RfAssumption, EmptySeq
<1>2. CASE f = RfAbsent
  BY <1>1, <1>2 DEF Serve, File
<1>3. CASE f = RfDir
  BY <1>1, <1>3 DEF Serve, File
<1>4. CASE f \in Seq(RfByte)
  <2>0. f # RfAbsent /\ f # RfDir
    BY <1>1, <1>4
  <2>1. CASE type = "open"
    BY <1>1, <1>4, <2>0, <2>1 DEF Serve, File
  <2>2. CASE type = "read"
    <3>1. SubSeq(f, a.pos + 1, Least(a.pos + a.len, Len(f))) \in Seq(RfByte)
      BY <1>4, <2>2, ReadBytes DEF ArgOK, ReadArg
    <3>2. PICK b : /\ b = SubSeq(f, a.pos + 1, Least(a.pos + a.len, Len(f)))
                   /\ r = [file |-> f, ok |-> TRUE, data |-> b]
      BY <2>0, <2>2 DEF Serve
    <3>3. r.file = f /\ r.ok /\ r.data = b
      <4>1. r = [file |-> f, ok |-> TRUE, data |-> b]
        BY <3>2
      <4>2. QED
        BY <4>1
    <3>4. Serve(r.file, type, a).file = r.file
      BY <3>3
    <3>5. r.file \in File /\ r.ok \in BOOLEAN /\ r.data \in Seq(RfByte)
      BY <1>4, <3>1, <3>2 DEF File
    <3>6. QED
      BY <3>2, <3>3, <3>4, <3>5
  <2>3. CASE type = "write"
    <3>1. a.pos \in Nat /\ a.data \in Seq(RfByte)
      BY <2>3 DEF ArgOK, WriteArg
    <3>2. /\ Over(f, a.pos, a.data) \in Seq(RfByte)
          /\ Over(Over(f, a.pos, a.data), a.pos, a.data) = Over(f, a.pos, a.data)
      BY <1>4, <3>1, OverOK
    <3>3. \A g \in Seq(RfByte) :
            Serve(g, type, a) = [file |-> Over(g, a.pos, a.data), ok |-> TRUE, data |-> a.data]
      BY <1>1, <2>3 DEF Serve
    <3>4. /\ r.file = Over(f, a.pos, a.data) /\ r.ok = TRUE /\ r.data = a.data
          /\ Serve(r.file, type, a).file = Over(r.file, a.pos, a.data)
      BY <1>4, <3>2, <3>3
    <3>5. r.file \in File /\ r.ok \in BOOLEAN /\ r.data \in Seq(RfByte)
      BY <3>1, <3>2, <3>4 DEF File
    <3>6. QED
      BY <2>3, <3>2, <3>4, <3>5
  <2>4. CASE type = "delete"
    BY <1>1, <1>4, <2>0, <2>4 DEF Serve, File
  <2>5. CASE type \in {"truncate", "size"}
    BY <1>1, <1>4, <2>0, <2>5 DEF Serve, File
  <2>6. CASE type \in {"mkdir", "rmdir"}
    BY <1>1, <1>4, <2>0, <2>6 DEF Serve, File
  <2>7. QED
    BY <2>1, <2>2, <2>3, <2>4, <2>5, <2>6 DEF RfType, RfsControls
<1>5. QED
  BY <1>2, <1>3, <1>4 DEF File

LEMMA RfInitOK == RfInit => RfIInv
<1>. SUFFICES ASSUME RfInit PROVE RfIInv
  OBVIOUS
<1>1. <<>> \in Seq(RfByte)
  BY EmptySeq
<1>2. RfTypeOK
  BY <1>1 DEF RfInit, RfTypeOK, TableOK, File
<1>3. QED
  BY <1>2 DEF RfInit, RfIInv, NumbersOK, SettledOK, CallOK, ReadOK

(* A call begins.                                                          *)
LEMMA AsksOK ==
  ASSUME RfIInv, NEW s \in Rfl, NEW type \in RfType, NEW name \in RfName,
         NEW a \in ArgSet, ArgOK(type, a),
         Asks(s, type, name, a)
  PROVE  RfIInv'
<1>0. PICK c : c = [op |-> "send", slot |-> s, type |-> type, name |-> name, arg |-> a,
                    seq |-> rf_seq, tries |-> 0]
  OBVIOUS
<1>1. /\ rfcall = NoCall /\ rfcall' = c /\ rf_seq' = rf_seq + 1 /\ rfread' = RfNone
      /\ UNCHANGED <<rfltab, rfreplies, rfserver, rftold>> /\ rf_seq \in Nat
  BY <1>0 DEF Asks, RfIInv, RfTypeOK
<1>2. /\ c \in Call /\ c.type = type /\ c.arg = a /\ c.tries = 0 /\ c.name = name /\ c.seq = rf_seq
      /\ c # NoCall
  BY <1>0, <1>1 DEF Call, NoCall
<1>3. RfTypeOK'
  <2>1. TableOK' /\ rf_seq' \in Nat /\ rfserver' \in [RfName -> File]
        /\ rftold' \in [RfName -> File \cup {Doubt}] /\ rfreplies' \subseteq Reply
    BY <1>1 DEF RfIInv, RfTypeOK, TableOK
  <2>2. rfcall' \in Call /\ ArgOK(rfcall'.type, rfcall'.arg)
    BY <1>1, <1>2
  <2>3. QED
    BY <2>1, <2>2 DEF RfTypeOK
<1>4. \A m \in rfreplies : m.seq < rf_seq /\ m.seq \in Nat
  BY DEF RfIInv, NumbersOK, RfTypeOK, Reply
<1>5. ExchangeOK(c, rftold[name], rfserver[name])' \/ rftold[name] = Doubt
  BY <1>1, <1>2, <1>4 DEF ExchangeOK, RfIInv, SettledOK
<1>6. /\ (\A n \in RfName : rftold[n] # Doubt => rfserver[n] = rftold[n])
      /\ \A m \in rfreplies : m.seq < rf_seq + 1 /\ m.seq # rf_seq
  BY <1>1, <1>4 DEF RfIInv, SettledOK
<1>7. (rftold[c.name] # Doubt => ExchangeOK(c, rftold[c.name], rfserver[c.name]))'
  BY <1>1, <1>2, <1>5
<1>8. rfcall'.seq < rf_seq' /\ (rfcall'.tries = 0 => \A m \in rfreplies' : m.seq # rfcall'.seq)
  BY <1>1, <1>2, <1>6
<1>9. SettledOK' /\ NumbersOK'
  BY <1>1, <1>6 DEF SettledOK, NumbersOK
<1>10. (rftold[rfcall.name] # Doubt => ExchangeOK(rfcall, rftold[rfcall.name], rfserver[rfcall.name]))'
  BY <1>1, <1>7
<1>11. CallOK'
  BY <1>8, <1>10 DEF CallOK
<1>12. ReadOK'
  BY <1>1 DEF ReadOK
<1>13. QED
  BY <1>3, <1>9, <1>11, <1>12 DEF RfIInv

LEMMA RfsopenOK ==
  ASSUME RfIInv, NEW n \in RfName, NEW m \in RfModes, Rfsopen(n, m)
  PROVE  RfIInv'
<1>. DEFINE free == {s \in Rfl : rfltab[s].state = "free"}
            s0   == CHOOSE s \in free : \A t \in free : s <= t
<1>1. s0 \in Rfl
  <2>1. free \in SUBSET Nat /\ free # {}
    BY RfAssumption DEF Rfsopen, Rfl
  <2>2. s0 \in free
    BY <2>1, LeastNatural
  <2>3. QED
    BY <2>2
<1>2. rfsgetmode(m) \in SUBSET Letter
  BY DEF rfsgetmode, Letter
<1>3. Asks(s0, "open", n, rfsgetmode(m))
  BY DEF Rfsopen
<1>4. QED
  BY <1>1, <1>2, <1>3, AsksOK DEF RfType, ArgOK, ArgSet

LEMMA RflOK ==
  ASSUME RfIInv, NEW s \in Rfl,
         \/ \E k \in Nat : Rflread(s, k) \/ Rflseek(s, k)
         \/ \E d \in Seq(RfByte) : Rflwrite(s, d)
         \/ Rflclose(s)
  PROVE  RfIInv'
<1>1. /\ rfltab \in [Rfl -> [state : {"free", "used"}, name : RfName \cup {RfNone}, pos : Nat,
                             mode : SUBSET Letter]]
      /\ rfltab[s].state = "used" => rfltab[s].name \in RfName
      /\ rfltab[s].pos \in Nat
  BY DEF RfIInv, RfTypeOK, TableOK
<1>2. ASSUME NEW k \in Nat, Rflread(s, k)
      PROVE  RfIInv'
  <2>. DEFINE a == [pos |-> rfltab[s].pos, len |-> k]
  <2>1. a \in ReadArg /\ rfltab[s].name \in RfName /\ Asks(s, "read", rfltab[s].name, a)
    BY <1>1, <1>2 DEF ReadArg, Rflread
  <2>2. a \in ArgSet
    BY <2>1 DEF ArgSet
  <2>3. "read" \in RfType /\ ArgOK("read", a)
    BY <2>1 DEF RfType, ArgOK
  <2>4. QED
    BY <2>1, <2>2, <2>3, AsksOK
<1>3. ASSUME NEW d \in Seq(RfByte), Rflwrite(s, d)
      PROVE  RfIInv'
  <2>. DEFINE a == [pos |-> rfltab[s].pos, data |-> d]
  <2>1. a \in WriteArg /\ rfltab[s].name \in RfName /\ Asks(s, "write", rfltab[s].name, a)
    BY <1>1, <1>3 DEF WriteArg, Rflwrite
  <2>2. a \in ArgSet
    BY <2>1 DEF ArgSet
  <2>3. "write" \in RfType /\ ArgOK("write", a)
    BY <2>1 DEF RfType, ArgOK
  <2>4. QED
    BY <2>1, <2>2, <2>3, AsksOK
<1>4. ASSUME NEW k \in Nat, Rflseek(s, k)
      PROVE  RfIInv'
  <2>1. TableOK'
    BY <1>1, <1>4 DEF Rflseek, TableOK, RfIInv, RfTypeOK
  <2>2. QED
    BY <1>4, <2>1 DEF Rflseek, RfIInv, RfTypeOK, ExchangeOK, NumbersOK, SettledOK, CallOK, ReadOK
<1>5. CASE Rflclose(s)
  <2>1. TableOK'
    BY <1>1, <1>5 DEF Rflclose, TableOK, RfIInv, RfTypeOK
  <2>2. QED
    BY <1>5, <2>1 DEF Rflclose, RfIInv, RfTypeOK, ExchangeOK, NumbersOK, SettledOK, CallOK, ReadOK
<1>6. QED
  BY <1>2, <1>3, <1>4, <1>5

LEMMA RfscontrolOK ==
  ASSUME RfIInv, NEW n \in RfName, NEW f \in RfsControls, Rfscontrol(f, n)
  PROVE  RfIInv'
<1>1. 0 \in Rfl /\ f \in RfType /\ ArgOK(f, RfNone)
  BY RfAssumption DEF Rfl, RfType, ArgOK, RfsControls
<1>2. RfNone \in ArgSet
  BY DEF ArgSet
<1>3. Asks(0, f, n, RfNone)
  BY DEF Rfscontrol
<1>4. QED
  BY <1>1, <1>2, <1>3, AsksOK

(* What is known while a call goes on: its file is typed, and the server's *)
(* answer about it as it was, or about it as it is, is as ServeOK says.    *)
LEMMA CallFacts ==
  ASSUME RfIInv, rfcall.op \in {"send", "recv"}
  PROVE  /\ rfcall # NoCall /\ rfcall \in Call /\ ArgOK(rfcall.type, rfcall.arg)
         /\ rfread = RfNone
         /\ rfcall.name \in RfName /\ rfcall.type \in RfType /\ rfcall.slot \in Rfl
         /\ rfcall.seq \in Nat /\ rfcall.tries \in Nat
         /\ rfserver[rfcall.name] \in File
         /\ rftold[rfcall.name] \in File \cup {Doubt}
<1>1. rfcall # NoCall
  BY DEF NoCall
<1>2. rfcall \in Call /\ ArgOK(rfcall.type, rfcall.arg) /\ rfread = RfNone
  BY <1>1 DEF RfIInv, RfTypeOK, ReadOK
<1>3. /\ rfcall.name \in RfName /\ rfcall.type \in RfType /\ rfcall.slot \in Rfl
      /\ rfcall.seq \in Nat /\ rfcall.tries \in Nat
  BY <1>2 DEF Call
<1>4. QED
  BY <1>1, <1>2, <1>3 DEF RfIInv, RfTypeOK

(* Another step of the exchange: the call asks for the same.               *)
Moved(c, o, k) == [c EXCEPT !.op = o, !.tries = k]

LEMMA CallMoves ==
  ASSUME NEW c \in Call, NEW o \in {"send", "recv"}, NEW k \in Nat
  PROVE  LET d == Moved(c, o, k) IN
         /\ d \in Call /\ d.type = c.type /\ d.arg = c.arg /\ d.name = c.name /\ d.seq = c.seq
         /\ d.tries = k /\ d # NoCall
<1>. PICK d : d = Moved(c, o, k)
  OBVIOUS
<1>1. /\ d.op = o /\ d.type = c.type /\ d.arg = c.arg /\ d.name = c.name /\ d.seq = c.seq
      /\ d.tries = k
  BY DEF Call, Moved
<1>2. d \in Call
  BY DEF Call, Moved
<1>3. d # NoCall
  BY <1>1 DEF NoCall
<1>4. QED
  BY <1>1, <1>2, <1>3

(* A copy is sent, and lost or executed.                                   *)
LEMMA RfSendOK ==
  ASSUME RfIInv, RfSend
  PROVE  RfIInv'
<1>1. PICK c : c = rfcall
  OBVIOUS
<1>2. PICK n : n = c.name
  OBVIOUS
<1>3. PICK g : g = rfserver[n]
  OBVIOUS
<1>4. PICK r : r = Serve(g, c.type, c.arg)
  OBVIOUS
<1>5. PICK d : d = [c EXCEPT !.op = "recv", !.tries = @ + 1]
  OBVIOUS
<1>6. PICK a : a = [seq |-> c.seq, type |-> c.type, ok |-> r.ok, data |-> r.data]
  OBVIOUS
<1>7. /\ c.op = "send" /\ rfcall' = d
      /\ \/ UNCHANGED <<rfserver, rfreplies>>
         \/ /\ rfserver' = [rfserver EXCEPT ![n] = r.file]
            /\ UNCHANGED rfreplies \/ rfreplies' = rfreplies \cup {a}
      /\ UNCHANGED <<rfltab, rf_seq, rftold, rfread>>
  BY <1>1, <1>2, <1>3, <1>4, <1>5, <1>6 DEF RfSend
<1>8. /\ c # NoCall /\ c \in Call /\ ArgOK(c.type, c.arg) /\ rfread = RfNone
      /\ n \in RfName /\ c.type \in RfType /\ c.seq \in Nat /\ c.tries \in Nat
      /\ g \in File /\ rftold[n] \in File \cup {Doubt}
  BY <1>1, <1>2, <1>3, <1>7, CallFacts
<1>9. /\ d \in Call /\ d.type = c.type /\ d.arg = c.arg /\ d.name = n /\ d.seq = c.seq
      /\ d.tries = c.tries + 1 /\ d # NoCall
  <2>1. PICK k \in Nat : k = c.tries + 1
    BY <1>8
  <2>2. d = Moved(c, "recv", k)
    BY <1>5, <2>1 DEF Moved
  <2>3. c \in Call /\ "recv" \in {"send", "recv"}
    BY <1>8
  <2>4. /\ d \in Call /\ d.type = c.type /\ d.arg = c.arg /\ d.name = c.name /\ d.seq = c.seq
        /\ d.tries = k /\ d # NoCall
    BY <2>2, <2>3, CallMoves
  <2>5. QED
    BY <1>2, <2>1, <2>4
<1>10. r.file \in File /\ r.ok \in BOOLEAN /\ r.data \in Seq(RfByte)
  BY <1>4, <1>8, ServeOK
<1>11. a \in Reply /\ a.seq = c.seq /\ a.ok = r.ok /\ a.data = r.data
  BY <1>6, <1>8, <1>10 DEF Reply
<1>12. RfTypeOK'
  <2>1. /\ TableOK' /\ rf_seq' \in Nat /\ rfserver' \in [RfName -> File]
        /\ rftold' \in [RfName -> File \cup {Doubt}]
    BY <1>7, <1>8, <1>10 DEF RfIInv, RfTypeOK, TableOK
  <2>2. rfreplies' \subseteq Reply
    BY <1>7, <1>11 DEF RfIInv, RfTypeOK
  <2>3. rfcall' \in Call /\ ArgOK(rfcall'.type, rfcall'.arg)
    BY <1>7, <1>8, <1>9
  <2>4. QED
    BY <2>1, <2>2, <2>3 DEF RfTypeOK
<1>13. c.seq < rf_seq /\ (c.tries = 0 => \A m \in rfreplies : m.seq # c.seq)
  BY <1>1, <1>8 DEF RfIInv, CallOK
<1>14. NumbersOK' /\ SettledOK'
  <2>1. NumbersOK'
    BY <1>7, <1>11, <1>13 DEF RfIInv, NumbersOK
  <2>2. \A k \in RfName : k # n => rfserver'[k] = rfserver[k]
    BY <1>7 DEF RfIInv, RfTypeOK
  <2>3. SettledOK'
    BY <1>1, <1>2, <1>7, <1>9, <2>2 DEF RfIInv, SettledOK
  <2>4. QED
    BY <2>1, <2>3
<1>15. ASSUME rftold[n] # Doubt
       PROVE  ExchangeOK(rfcall, rftold[n], rfserver[n])'
  <2>1. PICK t : t = rftold[n]
    OBVIOUS
  <2>2. PICK M : M = Makes(c, t)
    OBVIOUS
  <2>3. t \in File
    BY <1>8, <1>15, <2>1
  <2>4. /\ g \in {t, M} /\ (c.tries = 0 => g = t)
        /\ \A m \in rfreplies : m.seq = c.seq =>
             /\ g = M
             /\ c.tries = 1 /\ ~m.ok => M = t
             /\ c.type = "read" => m.data = Reads(c, t)
    BY <1>1, <1>2, <1>3, <1>8, <1>15, <2>1, <2>2 DEF RfIInv, CallOK, ExchangeOK
  <2>5. r.file = M
    <3>1. Serve(M, c.type, c.arg).file = M
      BY <1>8, <2>2, <2>3, ServeOK DEF Makes
    <3>2. Serve(t, c.type, c.arg).file = M
      BY <2>2 DEF Makes
    <3>3. QED
      BY <1>4, <2>4, <3>1, <3>2
  <2>6. c.tries = 0 /\ ~r.ok => M = t
    BY <1>4, <1>8, <2>3, <2>4, <2>5, ServeOK
  <2>7. c.type = "read" => r.data = Reads(c, t)
    <3>1. c.type = "read" => M = t
      BY <1>8, <2>2, <2>3, ServeOK DEF Makes
    <3>2. QED
      BY <1>4, <2>4, <3>1 DEF Reads
  <2>8. Makes(d, t) = M /\ Reads(d, t) = Reads(c, t)
    BY <1>9, <2>2 DEF Makes, Reads
  <2>9. PICK h : h = rfserver'[n]
    OBVIOUS
  <2>10. h \in {g, M}
    BY <1>3, <1>7, <1>8, <2>5, <2>9 DEF RfIInv, RfTypeOK
  <2>11. d.tries # 0 /\ (d.tries = 1 => c.tries = 0)
    BY <1>8, <1>9
  <2>12. ASSUME NEW m \in rfreplies', m.seq = d.seq
         PROVE  /\ h = M
                /\ d.tries = 1 /\ ~m.ok => M = t
                /\ d.type = "read" => m.data = Reads(c, t)
    <3>1. CASE m \in rfreplies
      BY <1>9, <1>13, <2>4, <2>10, <2>11, <2>12, <3>1
    <3>2. CASE m = a /\ rfserver' = [rfserver EXCEPT ![n] = r.file]
      <4>1. h = M
        BY <1>8, <2>5, <2>9, <3>2 DEF RfIInv, RfTypeOK
      <4>2. QED
        BY <1>9, <1>11, <2>6, <2>7, <2>11, <3>2, <4>1
    <3>3. QED
      BY <1>7, <3>1, <3>2
  <2>13. ExchangeOK(d, t, h)'
    BY <2>4, <2>8, <2>10, <2>11, <2>12 DEF ExchangeOK
  <2>14. QED
    BY <1>7, <2>1, <2>9, <2>13
<1>16. CallOK'
  <2>1. rfcall'.seq < rf_seq' /\ rfcall'.tries # 0 /\ rfcall'.name = n /\ rftold' = rftold
    BY <1>7, <1>8, <1>9, <1>13
  <2>2. (rftold[rfcall.name] # Doubt =>
           ExchangeOK(rfcall, rftold[rfcall.name], rfserver[rfcall.name]))'
    BY <1>15, <2>1
  <2>3. QED
    BY <2>1, <2>2 DEF CallOK
<1>17. ReadOK'
  BY <1>7, <1>8 DEF ReadOK
<1>18. QED
  BY <1>12, <1>14, <1>16, <1>17 DEF RfIInv

(* The call gives up; unless its only copy was refused, or it is told      *)
(* nothing new, its file is in doubt.                                      *)
LEMMA FailsOK ==
  ASSUME RfIInv, rfcall.op \in {"send", "recv"}, NEW refused \in BOOLEAN, Fails(refused),
         rfreplies' \subseteq rfreplies,
         refused => \E m \in rfreplies : m.seq = rfcall.seq /\ ~m.ok
  PROVE  RfIInv'
<1>1. PICK c : c = rfcall
  OBVIOUS
<1>2. PICK n : n = c.name
  OBVIOUS
<1>3. /\ c \in Call /\ ArgOK(c.type, c.arg) /\ rfread = RfNone
      /\ n \in RfName /\ c.type \in RfType /\ c.tries \in Nat
      /\ rftold[n] \in File \cup {Doubt} /\ c # NoCall
  BY <1>1, <1>2, CallFacts
<1>4. rfcall' = NoCall /\ UNCHANGED <<rfltab, rf_seq, rfserver, rfread>>
  BY DEF Fails
<1>5. \/ /\ rftold' = rftold
         /\ c.tries = 0 \/ (refused /\ c.tries = 1) \/ c.type \in {"read", "size"}
      \/ rftold' = [rftold EXCEPT ![n] = Doubt]
  BY <1>1, <1>2 DEF Fails
<1>6. RfTypeOK'
  BY <1>4, <1>5 DEF RfIInv, RfTypeOK, TableOK
<1>7. NumbersOK' /\ CallOK' /\ ReadOK'
  BY <1>3, <1>4 DEF RfIInv, NumbersOK, CallOK, ReadOK
<1>8. ASSUME NEW k \in RfName, rftold'[k] # Doubt PROVE rfserver'[k] = rftold'[k]
  <2>1. CASE k # n
    BY <1>1, <1>2, <1>4, <1>5, <1>8, <2>1 DEF RfIInv, SettledOK, RfTypeOK
  <2>2. CASE k = n
    <3>1. /\ rftold' = rftold /\ rftold[n] # Doubt
          /\ c.tries = 0 \/ (refused /\ c.tries = 1) \/ c.type \in {"read", "size"}
      BY <1>3, <1>5, <1>8, <2>2 DEF RfIInv, RfTypeOK
    <3>2. ExchangeOK(c, rftold[n], rfserver[n])
      BY <1>1, <1>2, <1>3, <3>1 DEF RfIInv, CallOK
    <3>3. c.type \in {"read", "size"} => Makes(c, rftold[n]) = rftold[n]
      BY <1>3, <3>1, ServeOK DEF Makes
    <3>4. rfserver[n] = rftold[n]
      <4>1. CASE c.tries = 0 \/ c.type \in {"read", "size"}
        BY <3>2, <3>3, <4>1 DEF ExchangeOK
      <4>2. CASE refused /\ c.tries = 1
        BY <1>1, <3>2, <4>2 DEF ExchangeOK
      <4>3. QED
        BY <3>1, <4>1, <4>2
    <3>5. QED
      BY <1>4, <2>2, <3>1, <3>4
  <2>3. QED
    BY <2>1, <2>2
<1>9. QED
  BY <1>6, <1>7, <1>8 DEF RfIInv, SettledOK

(* Another copy is sent, or the call gives up.                             *)
LEMMA AgainOK ==
  ASSUME RfIInv, rfcall.op = "recv", Again, rfreplies' \subseteq rfreplies
  PROVE  RfIInv'
<1>1. CASE Fails(FALSE)
  BY <1>1, FailsOK
<1>2. CASE /\ rfcall' = [rfcall EXCEPT !.op = "send"]
           /\ UNCHANGED <<rfltab, rf_seq, rfserver, rftold, rfread>>
  <2>1. PICK c : c = rfcall
    OBVIOUS
  <2>2. PICK d : d = Moved(c, "send", c.tries)
    OBVIOUS
  <2>3. /\ c # NoCall /\ c \in Call /\ ArgOK(c.type, c.arg) /\ rfread = RfNone
        /\ c.tries \in Nat /\ "send" \in {"send", "recv"}
    BY <2>1, CallFacts
  <2>4. d = [c EXCEPT !.op = "send"]
    BY <2>2, <2>3 DEF Call, Moved
  <2>5. rfcall' = d
    BY <1>2, <2>1, <2>4
  <2>6. /\ d \in Call /\ d.type = c.type /\ d.arg = c.arg /\ d.name = c.name /\ d.seq = c.seq
        /\ d.tries = c.tries /\ d # NoCall
    BY <2>2, <2>3, CallMoves
  <2>7. RfTypeOK'
    BY <1>2, <2>3, <2>5, <2>6 DEF RfIInv, RfTypeOK, TableOK
  <2>8. NumbersOK' /\ SettledOK' /\ ReadOK'
    BY <1>2, <2>1, <2>3, <2>5, <2>6 DEF RfIInv, NumbersOK, SettledOK, ReadOK
  <2>9. CallOK'
    <3>1. /\ c.seq < rf_seq /\ (c.tries = 0 => \A m \in rfreplies : m.seq # c.seq)
          /\ rftold[c.name] # Doubt => ExchangeOK(c, rftold[c.name], rfserver[c.name])
      BY <2>1, <2>3 DEF RfIInv, CallOK
    <3>2. ASSUME rftold[c.name] # Doubt
          PROVE  ExchangeOK(d, rftold[c.name], rfserver[c.name])'
      BY <1>2, <2>6, <3>1, <3>2 DEF ExchangeOK, Makes, Reads
    <3>3. QED
      BY <1>2, <2>5, <2>6, <3>1, <3>2 DEF CallOK
  <2>10. QED
    BY <2>7, <2>8, <2>9 DEF RfIInv
<1>3. QED
  BY <1>1, <1>2 DEF Again

(* The answer is taken.                                                    *)
LEMMA AcceptOK ==
  ASSUME RfIInv, rfcall.op = "recv", NEW m \in rfreplies, IsAnswer(m), Accept(m),
         rfreplies' \subseteq rfreplies
  PROVE  RfIInv'
<1>1. PICK c : c = rfcall
  OBVIOUS
<1>2. PICK n : n = c.name
  OBVIOUS
<1>3. /\ c # NoCall /\ c \in Call /\ ArgOK(c.type, c.arg) /\ c.slot \in Rfl
      /\ n \in RfName /\ c.type \in RfType /\ rftold[n] \in File \cup {Doubt}
  BY <1>1, <1>2, CallFacts
<1>4. /\ m.seq = c.seq /\ m.data \in Seq(RfByte) /\ Len(m.data) \in Nat
  BY <1>1 DEF IsAnswer, RfIInv, RfTypeOK, Reply
<1>5. /\ rfcall' = NoCall /\ UNCHANGED <<rf_seq, rfserver>>
      /\ \/ c.type = "open" /\ rfltab' = [rfltab EXCEPT ![c.slot] =
                  [state |-> "used", name |-> n, pos |-> 0, mode |-> c.arg]]
         \/ rfltab' = [rfltab EXCEPT ![c.slot].pos = @ + Len(m.data)]
         \/ rfltab' = rfltab
  BY <1>1, <1>2 DEF Accept
<1>6. /\ c.type = "read" => rfread' = [name |-> n, pos |-> c.arg.pos, len |-> c.arg.len,
                                       data |-> m.data]
      /\ c.type # "read" => rfread' = RfNone
      /\ rftold' = IF rftold[n] = Doubt \/ c.type \in {"read", "size"} THEN rftold
                   ELSE [rftold EXCEPT ![n] = Makes(c, @)]
  BY <1>1, <1>2 DEF Accept, Makes
<1>7. ASSUME rftold[n] # Doubt
      PROVE  /\ rfserver[n] = Makes(c, rftold[n])
             /\ Makes(c, rftold[n]) \in File
             /\ c.type = "read" => m.data = Reads(c, rftold[n])
             /\ c.type \in {"read", "size"} => Makes(c, rftold[n]) = rftold[n]
             /\ c.type = "read" /\ rftold[n] \in Seq(RfByte) =>
                  Reads(c, rftold[n]) = SubSeq(rftold[n], c.arg.pos + 1,
                                               Least(c.arg.pos + c.arg.len, Len(rftold[n])))
  <2>1. ExchangeOK(c, rftold[n], rfserver[n])
    BY <1>1, <1>2, <1>3, <1>7 DEF RfIInv, CallOK
  <2>2. /\ rfserver[n] = Makes(c, rftold[n])
        /\ c.type = "read" => m.data = Reads(c, rftold[n])
    BY <1>4, <2>1 DEF ExchangeOK
  <2>3. QED
    BY <1>3, <1>7, <2>2, ServeOK DEF Makes, Reads
<1>8. TableOK'
  <2>1. c.type = "open" => c.arg \in SUBSET Letter
    BY <1>3 DEF ArgOK
  <2>2. TableOK
    BY DEF RfIInv, RfTypeOK
  <2>3. CASE c.type = "open" /\ rfltab' = [rfltab EXCEPT ![c.slot] =
                [state |-> "used", name |-> n, pos |-> 0, mode |-> c.arg]]
    BY <1>3, <2>1, <2>2, <2>3 DEF TableOK
  <2>4. CASE rfltab' = [rfltab EXCEPT ![c.slot].pos = @ + Len(m.data)]
    <3>1. PICK p \in Nat : p = rfltab[c.slot].pos + Len(m.data)
      BY <1>3, <1>4, <2>2 DEF TableOK
    <3>2. rfltab' = [rfltab EXCEPT ![c.slot].pos = p]
      BY <2>4, <3>1
    <3>3. QED
      BY <1>3, <2>2, <3>2 DEF TableOK
  <2>5. QED
    BY <1>5, <2>2, <2>3, <2>4 DEF TableOK
<1>9. rftold' \in [RfName -> File \cup {Doubt}]
  BY <1>3, <1>6, <1>7 DEF RfIInv, RfTypeOK
<1>10. RfTypeOK'
  BY <1>5, <1>8, <1>9 DEF RfIInv, RfTypeOK
<1>11. NumbersOK' /\ CallOK'
  BY <1>5 DEF RfIInv, NumbersOK, CallOK
<1>12. SettledOK'
  <2>1. ASSUME NEW k \in RfName, rftold'[k] # Doubt PROVE rfserver'[k] = rftold'[k]
    <3>1. CASE k # n
      BY <1>1, <1>2, <1>5, <1>6, <2>1, <3>1 DEF RfIInv, SettledOK, RfTypeOK
    <3>2. CASE k = n
      BY <1>3, <1>5, <1>6, <1>7, <2>1, <3>2 DEF RfIInv, RfTypeOK
    <3>3. QED
      BY <3>1, <3>2
  <2>2. QED
    BY <2>1 DEF SettledOK
<1>13. ReadOK'
  <2>1. CASE c.type # "read"
    BY <1>6, <2>1 DEF ReadOK
  <2>2. CASE c.type = "read"
    <3>1. rftold' = rftold
      BY <1>6, <2>2
    <3>2. /\ rfread'.name = n /\ rfread'.pos = c.arg.pos /\ rfread'.len = c.arg.len
          /\ rfread'.data = m.data
      BY <1>6, <2>2
    <3>3. rftold[n] \in Seq(RfByte) /\ rftold[n] # Doubt =>
            m.data = SubSeq(rftold[n], c.arg.pos + 1,
                            Least(c.arg.pos + c.arg.len, Len(rftold[n])))
      BY <1>7, <2>2
    <3>4. QED
      BY <1>3, <1>5, <3>1, <3>2, <3>3 DEF ReadOK
  <2>3. QED
    BY <2>1, <2>2
<1>14. QED
  BY <1>10, <1>11, <1>12, <1>13 DEF RfIInv

LEMMA RfReceiveOK ==
  ASSUME RfIInv, NEW m \in rfreplies, RfReceive(m)
  PROVE  RfIInv'
<1>1. rfcall.op = "recv" /\ rfreplies' \subseteq rfreplies
  BY DEF RfReceive
<1>2. CASE Again
  BY <1>1, <1>2, AgainOK
<1>3. CASE IsAnswer(m) /\ ~m.ok /\ Fails(TRUE)
  BY <1>1, <1>3, FailsOK DEF IsAnswer
<1>4. CASE IsAnswer(m) /\ Accept(m)
  BY <1>1, <1>4, AcceptOK
<1>5. QED
  BY <1>2, <1>3, <1>4 DEF RfReceive

LEMMA RfStep == RfIInv /\ [RemoteNext]_rfvars => RfIInv'
<1>. SUFFICES ASSUME RfIInv, [RemoteNext]_rfvars PROVE RfIInv'
  OBVIOUS
<1>1. CASE RfSend
  BY <1>1, RfSendOK
<1>2. CASE RfError
  BY <1>2, FailsOK DEF RfError
<1>3. CASE RfTimeout
  BY <1>3, AgainOK DEF RfTimeout
<1>4. CASE \E m \in rfreplies : RfReceive(m)
  BY <1>4, RfReceiveOK
<1>5. ASSUME NEW s \in Rfl,
             \/ \E k \in Nat : Rflread(s, k) \/ Rflseek(s, k)
             \/ \E d \in Seq(RfByte) : Rflwrite(s, d)
             \/ Rflclose(s)
      PROVE  RfIInv'
  BY <1>5, RflOK
<1>6. ASSUME NEW n \in RfName, NEW m \in RfModes, Rfsopen(n, m) PROVE RfIInv'
  BY <1>6, RfsopenOK
<1>7. ASSUME NEW n \in RfName, NEW f \in RfsControls, Rfscontrol(f, n) PROVE RfIInv'
  BY <1>7, RfscontrolOK
<1>8. CASE UNCHANGED rfvars
  BY <1>8 DEF rfvars, RfIInv, RfTypeOK, TableOK, NumbersOK, SettledOK, CallOK, ExchangeOK, ReadOK
<1>9. QED
  BY <1>1, <1>2, <1>3, <1>4, <1>5, <1>6, <1>7, <1>8 DEF RemoteNext

(* What the callers of the remote file system have been told of a file is  *)
(* so: whichever copies of their requests and replies are lost, repeated   *)
(* or late, the server's file is as the successful calls made it, unless   *)
(* a failed call leaves it in doubt, and a read returned its bytes.        *)
THEOREM RemoteFilesAreAsTold == RemoteSpec => []ToldIsTrue
<1>1. RfIInv => ToldIsTrue
  <2>. SUFFICES ASSUME RfIInv PROVE ToldIsTrue
    OBVIOUS
  <2>1. rfread # RfNone /\ rftold[rfread.name] \notin {Doubt, RfAbsent, RfDir} =>
          rftold[rfread.name] \in Seq(RfByte)
    BY DEF RfIInv, RfTypeOK, ReadOK, File
  <2>2. QED
    BY <2>1 DEF ToldIsTrue, RfIInv, SettledOK, ReadOK
<1>2. QED
  BY <1>1, RfInitOK, RfStep, PTL DEF RemoteSpec
-----------------------------------------------------------------------------
(* The remote disk.                                                        *)
(* b comes before c in a list. *)
Before(list, b, c) == \E i, j \in DOMAIN list : i < j /\ list[i] = b /\ list[j] = c

(* A list that holds the elements of S, each once. *)
Lists(list, S) == list \in Seq(RdBuffers) /\ IsInjective(list) /\ ToSet(list) = S

(* What is before what in list k was so in list l. *)
Keeps(l, k) == \A x, y : Before(k, x, y) => Before(l, x, y)

LEMMA BeforeIs ==
  ASSUME NEW S, NEW l, Lists(l, S), NEW x, NEW y, Before(l, x, y)
  PROVE  x \in S /\ y \in S /\ x # y /\ ~Before(l, y, x)
<1>1. DOMAIN l = 1..Len(l) /\ Len(l) \in Nat /\ \A m, n \in 1..Len(l) : l[m] = l[n] => m = n
  BY DEF Lists, IsInjective
<1>2. PICK i, j \in 1..Len(l) : i < j /\ l[i] = x /\ l[j] = y
  BY <1>1 DEF Before
<1>3. l[i] \in ToSet(l) /\ l[j] \in ToSet(l)
  BY <1>1, <1>2 DEF ToSet
<1>4. ~Before(l, y, x)
  <2> SUFFICES ASSUME NEW m \in 1..Len(l), NEW n \in 1..Len(l), m < n, l[m] = y, l[n] = x
               PROVE  FALSE
    BY <1>1 DEF Before
  <2> QED BY <1>1, <1>2
<1> QED BY <1>1, <1>2, <1>3, <1>4 DEF Lists

LEMMA HeadIs ==
  ASSUME NEW S, NEW l, Lists(l, S), l # <<>>
  PROVE  /\ Head(l) \in S /\ Lists(Tail(l), S \ {Head(l)}) /\ Len(Tail(l)) = Len(l) - 1
         /\ Keeps(l, Tail(l))
         /\ \A y \in S \ {Head(l)} : Before(l, Head(l), y)
<1>1. /\ Len(l) \in Nat \ {0} /\ Head(l) = l[1] /\ Tail(l) \in Seq(RdBuffers)
      /\ Len(Tail(l)) = Len(l) - 1
      /\ \A j \in 1..(Len(l) - 1) : Tail(l)[j] = l[j + 1]
  BY HeadTailProperties DEF Lists
<1>2. /\ Head(l) \in S /\ Lists(Tail(l), S \ {Head(l)})
  BY TailSet DEF Lists
<1>3. Keeps(l, Tail(l))
  <2> SUFFICES ASSUME NEW i \in 1..(Len(l) - 1), NEW j \in 1..(Len(l) - 1), i < j
               PROVE  Before(l, Tail(l)[i], Tail(l)[j])
    BY <1>1 DEF Keeps, Before
  <2>1. i + 1 \in DOMAIN l /\ j + 1 \in DOMAIN l /\ i + 1 < j + 1
    BY <1>1 DEF Lists
  <2> QED BY <1>1, <2>1 DEF Before
<1>4. ASSUME NEW y \in S \ {Head(l)} PROVE Before(l, Head(l), y)
  <2>1. PICK j \in DOMAIN l : l[j] = y
    BY DEF Lists, ToSet
  <2>2. j > 1 /\ 1 \in DOMAIN l
    BY <1>1, <2>1 DEF Lists
  <2> QED BY <1>1, <2>1, <2>2 DEF Before
<1> QED BY <1>1, <1>2, <1>3, <1>4

LEMMA LastIs ==
  ASSUME NEW S, NEW l, Lists(l, S), NEW b \in RdBuffers \ S
  PROVE  /\ Lists(Append(l, b), S \cup {b}) /\ Len(Append(l, b)) = Len(l) + 1
         /\ \A x, y : Before(Append(l, b), x, y) => Before(l, x, y) \/ y = b
<1>1. /\ Len(l) \in Nat /\ DOMAIN l = 1..Len(l) /\ Len(Append(l, b)) = Len(l) + 1
      /\ DOMAIN Append(l, b) = 1..(Len(l) + 1)
      /\ \A j \in 1..Len(l) : Append(l, b)[j] = l[j]
      /\ Append(l, b)[Len(l) + 1] = b
  BY AppendProperties DEF Lists
<1>2. Lists(Append(l, b), S \cup {b})
  BY AppendSet DEF Lists
<1>3. ASSUME NEW x, NEW y, Before(Append(l, b), x, y), y # b PROVE Before(l, x, y)
  <2>1. PICK i, j \in 1..(Len(l) + 1) : i < j /\ Append(l, b)[i] = x /\ Append(l, b)[j] = y
    BY <1>1, <1>3 DEF Before
  <2>2. i \in 1..Len(l) /\ j \in 1..Len(l)
    BY <1>1, <1>3, <2>1
  <2> QED BY <1>1, <2>1, <2>2 DEF Before
<1> QED BY <1>1, <1>2, <1>3

LEMMA FirstIs ==
  ASSUME NEW S, NEW l, Lists(l, S), NEW b \in RdBuffers \ S
  PROVE  /\ Lists(<<b>> \o l, S \cup {b}) /\ Len(<<b>> \o l) = Len(l) + 1
         /\ \A x, y : Before(<<b>> \o l, x, y) => Before(l, x, y) \/ x = b
<1> DEFINE k == <<b>> \o l
<1>0. <<b>> \in Seq(RdBuffers) /\ Len(<<b>>) = 1 /\ <<b>>[1] = b /\ l \in Seq(RdBuffers)
  BY DEF Lists
<1>1. /\ Len(l) \in Nat /\ DOMAIN l = 1..Len(l) /\ Len(k) = Len(l) + 1
      /\ k \in Seq(RdBuffers) /\ DOMAIN k = 1..(Len(l) + 1)
      /\ \A j \in 1..(Len(l) + 1) : k[j] = IF j <= 1 THEN b ELSE l[j - 1]
  BY <1>0, ConcatProperties
<1> HIDE DEF k
<1>2. \A m, n \in 1..Len(l) : l[m] = l[n] => m = n
  BY <1>1 DEF Lists, IsInjective
<1>3. \A m \in 1..Len(l) : l[m] \in S /\ l[m] # b
  BY <1>1 DEF Lists, ToSet
<1>4. IsInjective(k)
  <2> SUFFICES ASSUME NEW m \in 1..(Len(l) + 1), NEW n \in 1..(Len(l) + 1), k[m] = k[n]
               PROVE  m = n
    BY <1>1 DEF IsInjective
  <2>1. CASE m = 1 \/ n = 1
    BY <1>1, <1>3, <2>1
  <2>2. CASE m # 1 /\ n # 1
    <3>1. m - 1 \in 1..Len(l) /\ n - 1 \in 1..Len(l) /\ l[m - 1] = l[n - 1]
      BY <1>1, <2>2
    <3> QED BY <1>2, <3>1
  <2> QED BY <2>1, <2>2
<1>5. ToSet(k) \subseteq S \cup {b}
  <2> SUFFICES ASSUME NEW m \in 1..(Len(l) + 1) PROVE k[m] \in S \cup {b}
    BY <1>1 DEF ToSet
  <2> QED BY <1>1, <1>3
<1>6. S \cup {b} \subseteq ToSet(k)
  <2>1. ASSUME NEW m \in 1..Len(l) PROVE l[m] \in ToSet(k)
    <3>1. m + 1 \in DOMAIN k /\ k[m + 1] = l[m]
      BY <1>1
    <3> QED BY <3>1, Zenon DEF ToSet
  <2>2. 1 \in DOMAIN k /\ k[1] = b
    BY <1>1
  <2>3. b \in ToSet(k)
    BY <2>2, Zenon DEF ToSet
  <2> QED BY <1>1, <2>1, <2>3 DEF Lists, ToSet
<1>7. ASSUME NEW x, NEW y, Before(k, x, y), x # b PROVE Before(l, x, y)
  <2>1. PICK i, j \in 1..(Len(l) + 1) : i < j /\ k[i] = x /\ k[j] = y
    BY <1>1, <1>7 DEF Before
  <2>2. i - 1 \in 1..Len(l) /\ j - 1 \in 1..Len(l) /\ i - 1 < j - 1 /\ l[i - 1] = x /\ l[j - 1] = y
    BY <1>1, <1>7, <2>1
  <2> QED BY <1>1, <2>2 DEF Before
<1> QED BY <1>1, <1>4, <1>5, <1>6, <1>7 DEF Lists, k

LEMMA WithoutIs ==
  ASSUME NEW S, NEW l, Lists(l, S), NEW b
  PROVE  /\ Lists(RemoveFirst(l, b), S \ {b})
         /\ Len(RemoveFirst(l, b)) = Len(l) - (IF b \in S THEN 1 ELSE 0)
         /\ Keeps(l, RemoveFirst(l, b))
         /\ b \notin S => RemoveFirst(l, b) = l
<1>0. l \in Seq(RdBuffers) /\ IsInjective(l) /\ Len(l) \in Nat /\ DOMAIN l = 1..Len(l)
  BY DEF Lists
<1>1. CASE b \in S
  <2>1. PICK i \in 1..Len(l) : l[i] = b
    BY <1>0, <1>1 DEF Lists, ToSet
  <2>2. Getitem(l, b) = RemoveAt(l, i)
    BY <1>0, <2>1, GetitemIs
  <2>3. RemoveFirst(l, b) = RemoveAt(l, i)
    BY <2>2 DEF Getitem
  <2>4. /\ Getitem(l, b) \in Seq(RdBuffers) /\ Len(Getitem(l, b)) = Len(l) - 1
        /\ ToSet(Getitem(l, b)) = ToSet(l) \ {b} /\ IsInjective(Getitem(l, b))
    BY <1>0, <1>1, GetitemSet DEF Lists
  <2>5. Lists(RemoveFirst(l, b), S \ {b}) /\ Len(RemoveFirst(l, b)) = Len(l) - 1
    BY <2>4 DEF Lists, Getitem
  <2> DEFINE k == RemoveAt(l, i)
  <2>6. /\ Len(k) = Len(l) - 1 /\ DOMAIN k = 1..(Len(l) - 1)
        /\ \A j \in 1..(Len(l) - 1) : k[j] = IF j < i THEN l[j] ELSE l[j + 1]
    <3>1. /\ k \in Seq(RdBuffers) /\ Len(k) = Len(l) - 1
          /\ \A j \in 1..(Len(l) - 1) : k[j] = IF j < i THEN l[j] ELSE l[j + 1]
      BY <1>0, RemoveAtElements
    <3> HIDE DEF k
    <3> QED BY <3>1, <1>0
  <2> HIDE DEF k
  <2>7. Keeps(l, k)
    <3> SUFFICES ASSUME NEW m \in 1..(Len(l) - 1), NEW n \in 1..(Len(l) - 1), m < n
                 PROVE  Before(l, k[m], k[n])
      BY <2>6 DEF Keeps, Before
    <3> DEFINE old(j) == IF j < i THEN j ELSE j + 1
    <3>1. /\ old(m) \in DOMAIN l /\ old(n) \in DOMAIN l /\ old(m) < old(n)
          /\ l[old(m)] = k[m] /\ l[old(n)] = k[n]
      BY <1>0, <2>6
    <3> HIDE DEF old
    <3> QED BY <3>1 DEF Before
  <2> QED BY <1>1, <2>3, <2>5, <2>7 DEF k
<1>2. CASE b \notin S
  <2>1. RemoveFirst(l, b) = l
    <3>1. ~\E i \in 1..Len(l) : l[i] = b
      BY <1>0, <1>2 DEF Lists, ToSet
    <3> QED BY <3>1, <1>0 DEF RemoveFirst, ToSet
  <2> QED BY <1>0, <1>2, <2>1 DEF Keeps, Lists
<1> QED BY <1>1, <1>2

(* Two lists, one after the other. *)
LEMMA JoinedIs ==
  ASSUME NEW S, NEW l, Lists(l, S), NEW R, NEW k, Lists(k, R), S \cap R = {}
  PROVE  Lists(k \o l, S \cup R) /\ Len(k \o l) = Len(l) + Len(k)
<1> DEFINE n == Len(k)
           c == k \o l
<1>0. /\ l \in Seq(RdBuffers) /\ Len(l) \in Nat /\ DOMAIN l = 1..Len(l)
      /\ k \in Seq(RdBuffers) /\ n \in Nat /\ DOMAIN k = 1..n
      /\ \A i, j \in 1..Len(l) : l[i] = l[j] => i = j
      /\ \A i, j \in 1..n : k[i] = k[j] => i = j
      /\ \A i \in 1..Len(l) : l[i] \in S
      /\ \A i \in 1..n : k[i] \in R
  BY DEF Lists, IsInjective, ToSet
<1>1. /\ c \in Seq(RdBuffers) /\ Len(c) = n + Len(l)
      /\ \A j \in 1..(n + Len(l)) : c[j] = IF j <= n THEN k[j] ELSE l[j - n]
  <2>1. l \in Seq(RdBuffers) /\ k \in Seq(RdBuffers)
    BY <1>0
  <2> QED BY ONLY <2>1, ConcatProperties
<1> HIDE DEF c, n
<1>2. DOMAIN c = 1..(n + Len(l))
  BY <1>0, <1>1
<1>3. ASSUME NEW j \in 1..(n + Len(l))
      PROVE  /\ j <= n => j \in 1..n /\ c[j] = k[j] /\ c[j] \in R
             /\ ~(j <= n) => j - n \in 1..Len(l) /\ c[j] = l[j - n] /\ c[j] \in S
  <2>1. CASE j <= n
    <3>1. j \in 1..n
      BY <1>0, <2>1
    <3> QED BY <1>0, <1>1, <2>1, <3>1
  <2>2. CASE ~(j <= n)
    <3>1. j - n \in 1..Len(l)
      BY <1>0, <2>2
    <3> QED BY <1>0, <1>1, <2>2, <3>1
  <2> QED BY <2>1, <2>2
<1>4. IsInjective(c)
  <2> SUFFICES ASSUME NEW i \in 1..(n + Len(l)), NEW j \in 1..(n + Len(l)), c[i] = c[j]
               PROVE  i = j
    BY <1>2 DEF IsInjective
  <2>1. CASE i <= n /\ j <= n
    BY <1>0, <1>3, <2>1
  <2>2. CASE ~(i <= n) /\ ~(j <= n)
    <3>1. i - n \in 1..Len(l) /\ j - n \in 1..Len(l) /\ l[i - n] = l[j - n]
      BY <1>3, <2>2
    <3>2. i - n = j - n
      BY <1>0, <3>1
    <3> QED BY <1>0, <3>2
  <2> QED BY <1>3, <2>1, <2>2
<1>5. ToSet(c) \subseteq S \cup R
  BY <1>2, <1>3 DEF ToSet
<1>6. S \cup R \subseteq ToSet(c)
  <2>1. ASSUME NEW i \in 1..n PROVE k[i] \in ToSet(c)
    <3>1. i \in 1..(n + Len(l)) /\ i <= n
      BY <1>0
    <3>2. c[i] = k[i] /\ i \in DOMAIN c
      BY <1>2, <1>3, <3>1
    <3> QED BY <3>2, Zenon DEF ToSet
  <2>2. ASSUME NEW i \in 1..Len(l) PROVE l[i] \in ToSet(c)
    <3>1. n + i \in 1..(n + Len(l)) /\ ~(n + i <= n) /\ (n + i) - n = i
      BY <1>0
    <3>2. c[n + i] = l[i] /\ n + i \in DOMAIN c
      BY <1>2, <1>3, <3>1
    <3> QED BY <3>2, Zenon DEF ToSet
  <2>3. S = {l[i] : i \in 1..Len(l)} /\ R = {k[i] : i \in 1..n}
    BY <1>0 DEF Lists, ToSet
  <2> QED BY <2>1, <2>2, <2>3
<1> QED BY <1>0, <1>1, <1>4, <1>5, <1>6 DEF Lists, c, n

(* A list, turned around. *)
LEMMA TurnedIs ==
  ASSUME NEW R, NEW k, Lists(k, R)
  PROVE  Lists(Reverse(k), R) /\ Len(Reverse(k)) = Len(k)
<1> DEFINE n == Len(k)
           r == Reverse(k)
<1>0. /\ k \in Seq(RdBuffers) /\ n \in Nat /\ DOMAIN k = 1..n
      /\ \A i, j \in 1..n : k[i] = k[j] => i = j
      /\ \A i \in 1..n : k[i] \in RdBuffers
      /\ R = {k[i] : i \in 1..n}
  BY DEF Lists, IsInjective, ToSet
<1>1. r = [i \in 1..n |-> k[(n - i) + 1]]
  BY DEF Reverse
<1> HIDE DEF n, r
<1>2. \A i \in 1..n : (n - i) + 1 \in 1..n /\ (n - ((n - i) + 1)) + 1 = i
  BY <1>0
<1>3. r \in Seq(RdBuffers) /\ Len(r) = n /\ DOMAIN r = 1..n
  <2>1. \A i \in 1..n : k[(n - i) + 1] \in RdBuffers
    BY <1>0, <1>2
  <2> QED BY <1>0, <1>1, <2>1
<1>4. IsInjective(r)
  <2> SUFFICES ASSUME NEW i \in 1..n, NEW j \in 1..n, r[i] = r[j] PROVE i = j
    BY <1>3 DEF IsInjective
  <2>1. (n - i) + 1 = (n - j) + 1
    BY <1>0, <1>1, <1>2
  <2> QED BY <1>0, <2>1
<1>5. ToSet(r) = R
  <2>1. ToSet(r) \subseteq R
    BY <1>0, <1>1, <1>2, <1>3 DEF ToSet
  <2>2. ASSUME NEW i \in 1..n PROVE k[i] \in ToSet(r)
    <3>1. (n - i) + 1 \in DOMAIN r /\ r[(n - i) + 1] = k[i]
      BY <1>1, <1>2, <1>3
    <3> QED BY <3>1, Zenon DEF ToSet
  <2>3. R \subseteq ToSet(r)
    BY ONLY <1>0, <2>2
  <2> QED BY ONLY <2>1, <2>3
<1> QED BY <1>3, <1>4, <1>5 DEF Lists, n, r

(* What rdsclose makes of the free list: the cache, turned around, and it. *)
LEMMA ReturnedIs ==
  ASSUME NEW S, NEW l, Lists(l, S), NEW R, NEW k, Lists(k, R), S \cap R = {}
  PROVE  Lists(Reverse(k) \o l, S \cup R) /\ Len(Reverse(k) \o l) = Len(l) + Len(k)
<1>1. Lists(Reverse(k), R) /\ Len(Reverse(k)) = Len(k)
  BY TurnedIs
<1> QED BY <1>1, JoinedIs

RdValue == RdData \cup {RdNone}
RdOps   == {"read", "write", "sync"}

RdBuffer ==
  [op : RdOps \cup {RdNone}, refcnt : Int, blknum : RdBlock, valid : BOOLEAN,
   pid : RdCaller \cup {RdNone}, data : RdValue, of : RdBlock]
RdRequest ==
  [ph : {"run", "avail", "go", "recv", "got"}, op : RdOps, blk : RdBlock, data : RdValue,
   buf : 0..RD_BUFFS]
RdExchange ==
  [ph : {"send", "recv"}, op : {"read", "write"}, buf : RdBuffers, blk : RdBlock,
   data : RdValue, tries : Nat]
RdReply == [seq : Nat, op : {"read", "write"}, blk : RdBlock, data : RdValue]

RdNetTypeOK ==
  /\ rdcom \in {ComWaits} \cup RdExchange
  /\ rd_blk \in RdBlock /\ rd_seq \in Nat /\ rdreplies \subseteq RdReply
  /\ rdserver \in [RdBlock -> RdValue]

RdTypeOK ==
  /\ rd_buff \in [RdBuffers -> RdBuffer]
  /\ rdcall \in [RdCaller -> {RdIdle} \cup RdRequest]
  /\ rd_availsem \in Int /\ rd_reqsem \in Nat /\ rd_waiting \in Seq(RdCaller)
  /\ rdlast \in [RdBlock -> RdValue] /\ rddoubt \subseteq RdBlock
  /\ RdNetTypeOK

(* The buffers of each list: every buffer is on one of them. *)
Unused   == ToSet(rd_free)
Requests == ToSet(rd_queue)
Copies   == ToSet(rd_cache)

ListsOK ==
  /\ Lists(rd_free, Unused) /\ Lists(rd_queue, Requests) /\ Lists(rd_cache, Copies)
  /\ Unused \cap Requests = {} /\ Unused \cap Copies = {} /\ Requests \cap Copies = {}
  /\ Unused \cup Requests \cup Copies = RdBuffers

(* What is queued and cached: only writes are valid, nobody reads them,    *)
(* and whoever asked for something else is waiting for it, and only that.  *)
BuffersOK ==
  /\ \A b \in Requests \cup Copies :
       /\ rd_buff[b].op \in RdOps
       /\ rd_buff[b].valid <=> rd_buff[b].op = "write"
       /\ rd_buff[b].op = "write" => rd_buff[b].refcnt <= 0
  /\ \A b \in Copies : rd_buff[b].op # "sync"
  /\ \A b \in Requests : rd_buff[b].op # "write" =>
       /\ rd_buff[b].pid \in RdCaller /\ rdcall[rd_buff[b].pid].ph = "recv"
       /\ \A c \in Requests : rd_buff[c].op # "write" /\ rd_buff[c].pid = rd_buff[b].pid => c = b

WaitersOK ==
  /\ IsInjective(rd_waiting)
  /\ \A p \in RdCaller : rdcall[p].ph = "avail" <=> p \in ToSet(rd_waiting)

(* What rdsprocess does: a read stays at the head of the queue.            *)
Sends(op) == rdcom # ComWaits /\ rdcom.op = op

ProcessOK ==
  /\ Len(rd_queue) = rd_reqsem + (IF Sends("read") THEN 1 ELSE 0)
  /\ Sends("read") =>
       /\ rdcom.buf = Head(rd_queue) /\ rd_buff[rdcom.buf].op = "read"
       /\ rdcom.blk = rd_buff[rdcom.buf].blknum

(* The semaphore: what RdsBuffersKept says, and how it fails.              *)
Promised == {p \in RdCaller : rdcall[p].ph = "go"}
Room == (Len(rd_free) + Len(rd_cache)) - Cardinality(Promised)
AvailOK ==
  ~rdstolen => /\ rd_waiting = <<>> => rd_availsem >= 0 /\ rd_availsem = Room
               /\ rd_waiting # <<>> => rd_availsem = -Len(rd_waiting) /\ Room = 0

(* A write of blk is a request or a copy, once: nothing that was read      *)
(* later is behind it in the queue or before it in the cache, and when it  *)
(* has left the queue the server has it or is being told of it.            *)
IsWrite(b, blk) == rd_buff[b].op = "write" /\ rd_buff[b].blknum = blk
IsRead(b, blk)  == rd_buff[b].op = "read" /\ rd_buff[b].blknum = blk

OneWrite(blk) ==
  \A b \in Requests \cup Copies : IsWrite(b, blk) =>
    /\ rd_buff[b].data = rdlast[blk]
    /\ \A c \in Requests \cup Copies : IsWrite(c, blk) => c = b
NothingAfter(blk) ==
  \A b \in Requests, c \in Requests :
    IsWrite(b, blk) /\ Before(rd_queue, b, c) => ~IsRead(c, blk)
FirstCopy(blk) ==
  \A b \in Copies : IsWrite(b, blk) =>
    /\ \A c \in Copies : Before(rd_cache, c, b) => rd_buff[c].blknum # blk
    /\ \A c \in Requests : ~IsRead(c, blk)
Landed(blk) ==
  (\A b \in Requests : ~IsWrite(b, blk)) =>
    rdlast[blk] = IF Sends("write") /\ rdcom.blk = blk THEN rdcom.data ELSE rdserver[blk]
Orderly(blk) == OneWrite(blk) /\ NothingAfter(blk) /\ FirstCopy(blk) /\ Landed(blk)

(* An answer with the last number is one to the exchange under way.        *)
RepliesOK ==
  /\ \A m \in rdreplies : m.seq <= rd_seq
  /\ Sends("write") =>
       /\ rd_blk = rdcom.blk
       /\ rd_blk \notin rddoubt =>
            \A m \in rdreplies : m.seq = rd_seq => rdserver[rd_blk] = rdcom.data

(* While the system runs. *)
RdBase == RdTypeOK /\ ListsOK /\ BuffersOK /\ ProcessOK /\ RepliesOK
RdRuns == RdBase /\ WaitersOK /\ AvailOK /\ \A blk \in RdBlock \ rddoubt : Orderly(blk)

RdIInv ==
  /\ RdBase /\ \A blk \in RdBlock \ rddoubt : Orderly(blk)
  /\ rdpanic = "no" => WaitersOK /\ AvailOK
  /\ rdpanic = "nobuffer" => rdstolen \/ rd_cache # <<>>

LEMMA RdSizes == RD_BUFFS \in Nat \ {0} /\ RdBuffers = 1..RD_BUFFS /\ 0 \in RdBlock
BY RdAssumption DEF RdBuffers

LEMMA RdInitOK == RdsInit => RdIInv
<1> SUFFICES ASSUME RdsInit PROVE RdIInv
  OBVIOUS
<1> USE DEF RdsInit
<1>1. RdNetTypeOK
  BY RdSizes DEF RdNetTypeOK, RdValue
<1>2. RdTypeOK
  <2>1. rd_buff \in [RdBuffers -> RdBuffer]
    <3> DEFINE r == [op |-> RdNone, refcnt |-> 0, blknum |-> 0, valid |-> FALSE,
                     pid |-> RdNone, data |-> RdNone, of |-> 0]
    <3>1. r \in RdBuffer
      BY RdSizes DEF RdBuffer, RdValue
    <3>2. rd_buff = [b \in RdBuffers |-> r]
      OBVIOUS
    <3> HIDE DEF r
    <3> QED BY <3>1, <3>2
  <2>2. rdcall \in [RdCaller -> {RdIdle} \cup RdRequest]
    OBVIOUS
  <2>3. rd_availsem \in Int /\ rd_reqsem \in Nat /\ rd_waiting \in Seq(RdCaller)
    BY RdSizes
  <2>4. rdlast \in [RdBlock -> RdValue] /\ rddoubt \subseteq RdBlock
    BY DEF RdValue
  <2> QED BY <1>1, <2>1, <2>2, <2>3, <2>4 DEF RdTypeOK
<1>3. rd_free \in Seq(RdBuffers) /\ Len(rd_free) = RD_BUFFS /\ DOMAIN rd_free = 1..RD_BUFFS
  BY RdSizes
<1>4. IsInjective(rd_free) /\ ToSet(rd_free) = RdBuffers
  BY <1>3, RdSizes DEF IsInjective, ToSet
<1>5. <<>> \in Seq(RdBuffers) /\ IsInjective(<<>>) /\ ToSet(<<>>) = {}
  BY DEF IsInjective, ToSet
<1>6. ListsOK /\ Requests = {} /\ Copies = {}
  BY <1>3, <1>4, <1>5 DEF ListsOK, Lists, Unused, Requests, Copies
<1>7. BuffersOK /\ ~Sends("read") /\ ~Sends("write")
  BY <1>6 DEF BuffersOK, Sends
<1>8. ProcessOK /\ RepliesOK
  BY <1>7 DEF ProcessOK, RepliesOK
<1>9. WaitersOK
  BY DEF WaitersOK, IsInjective, ToSet, RdIdle
<1>10. AvailOK
  <2>1. Promised = {}
    BY DEF Promised, RdIdle
  <2>2. Cardinality(Promised) = 0
    BY <2>1, FS_EmptySet
  <2> QED BY <1>3, <2>2, RdSizes DEF AvailOK, Room
<1>11. \A blk \in RdBlock : Orderly(blk)
  BY <1>6, <1>7 DEF Orderly, OneWrite, NothingAfter, FirstCopy, Landed
<1> QED BY <1>2, <1>6, <1>7, <1>8, <1>9, <1>10, <1>11 DEF RdIInv, RdBase

LEMMA RangesAre ==
  ASSUME NEW l, NEW S, Lists(l, S)
  PROVE  Len(l) \in Nat /\ DOMAIN l = 1..Len(l) /\ S \subseteq RdBuffers /\ Range(l) = S
BY DEF Lists, ToSet, Range

(* No write of the block of r is queued or cached, other than in b.        *)
Fits(r, b) ==
  r.op # "sync" /\ r.blk \notin rddoubt' =>
    \A c \in Requests \cup Copies : IsWrite(c, r.blk) => c = b

Taken(b) == rd_free' = RemoveFirst(rd_free, b) /\ rd_cache' = RemoveFirst(rd_cache, b)

LEMMA EnqueueLists ==
  ASSUME RdBase, NEW p, NEW r, NEW b \in Unused \cup Copies, Enqueue(p, r, b), Taken(b)
  PROVE  /\ ListsOK'
         /\ Unused' = Unused \ {b} /\ Copies' = Copies \ {b} /\ Requests' = Requests \cup {b}
         /\ Len(rd_queue') = Len(rd_queue) + 1 /\ b \notin Requests
         /\ Len(rd_free') + Len(rd_cache') = Len(rd_free) + Len(rd_cache) - 1
         /\ Keeps(rd_cache, rd_cache')
         /\ \A x, y : Before(rd_queue', x, y) => Before(rd_queue, x, y) \/ y = b
         /\ rd_queue # <<>> => Head(rd_queue') = Head(rd_queue)
<1>1. ListsOK /\ b \in RdBuffers \ Requests
  BY DEF RdBase, ListsOK
<1>2. rd_queue' = Append(rd_queue, b)
  BY DEF Enqueue
<1>3. /\ Lists(rd_free', Unused \ {b}) /\ Lists(rd_cache', Copies \ {b})
      /\ Len(rd_free') = Len(rd_free) - (IF b \in Unused THEN 1 ELSE 0)
      /\ Len(rd_cache') = Len(rd_cache) - (IF b \in Copies THEN 1 ELSE 0)
      /\ Keeps(rd_cache, rd_cache')
  BY <1>1, WithoutIs DEF ListsOK, Taken
<1>4. /\ Lists(rd_queue', Requests \cup {b}) /\ Len(rd_queue') = Len(rd_queue) + 1
      /\ \A x, y : Before(rd_queue', x, y) => Before(rd_queue, x, y) \/ y = b
  BY <1>1, <1>2, LastIs DEF ListsOK
<1>5. Unused' = Unused \ {b} /\ Copies' = Copies \ {b} /\ Requests' = Requests \cup {b}
  BY <1>3, <1>4 DEF Lists, Unused, Copies, Requests
<1>6. ListsOK'
  BY <1>1, <1>3, <1>4, <1>5 DEF ListsOK
<1>7. rd_queue # <<>> => Head(rd_queue') = Head(rd_queue)
  <2>1. rd_queue \in Seq(RdBuffers)
    BY <1>1 DEF ListsOK, Lists
  <2> QED BY <1>1, <1>2, <2>1, AppendProperties, HeadTailProperties
<1>8. Len(rd_free') + Len(rd_cache') = Len(rd_free) + Len(rd_cache) - 1
  <2>1. Len(rd_free) \in Nat /\ Len(rd_cache) \in Nat /\ Unused \cap Copies = {}
    BY <1>1 DEF ListsOK, Lists
  <2> QED BY <1>3, <2>1
<1> QED BY <1>1, <1>3, <1>4, <1>5, <1>6, <1>7, <1>8

LEMMA EnqueueBase ==
  ASSUME RdBase, NEW p \in RdCaller, NEW r \in RdRequest, NEW b \in Unused \cup Copies,
         Enqueue(p, r, b), Taken(b), rdcall[p].ph # "recv",
         rddoubt' \subseteq RdBlock, rddoubt \subseteq rddoubt', UNCHANGED rdnet,
         rd_availsem' \in Int, rd_waiting' \in Seq(RdCaller)
  PROVE  /\ RdBase'
         /\ rd_buff'[b].op = r.op /\ rd_buff'[b].blknum = r.blk /\ rd_buff'[b].data = r.data
         /\ \A c \in RdBuffers \ {b} : rd_buff'[c] = rd_buff[c]
         /\ rdcall'[p].ph \in {"idle", "recv"}
         /\ \A q \in RdCaller \ {p} : rdcall'[q] = rdcall[q]
         /\ \A blk \in RdBlock :
              rdlast'[blk] = IF r.op = "write" /\ blk = r.blk THEN r.data ELSE rdlast[blk]
         /\ UNCHANGED rdcom
<1> DEFINE n == [op |-> r.op, refcnt |-> IF r.op = "write" THEN 0 ELSE 1, blknum |-> r.blk,
                 valid |-> r.op = "write", pid |-> p, data |-> r.data, of |-> r.blk]
<1>0. RdTypeOK /\ ListsOK /\ BuffersOK /\ ProcessOK /\ RepliesOK
  BY DEF RdBase
<1>1. r.op \in RdOps /\ r.blk \in RdBlock /\ r.data \in RdValue
  BY DEF RdRequest
<1>2. n \in RdBuffer
  BY <1>1 DEF RdBuffer
<1>3. /\ n.op = r.op /\ n.blknum = r.blk /\ n.data = r.data /\ n.pid = p
      /\ n.valid <=> n.op = "write"
      /\ n.op = "write" => n.refcnt <= 0
  <2>1. n.op = r.op /\ n.blknum = r.blk /\ n.data = r.data /\ n.pid = p
    OBVIOUS
  <2>2. CASE r.op = "write"
    <3>1. (r.op = "write") = TRUE
      BY <2>2
    <3>2. n = [op |-> r.op, refcnt |-> 0, blknum |-> r.blk, valid |-> TRUE, pid |-> p,
               data |-> r.data, of |-> r.blk]
      BY <2>2, <3>1
    <3> HIDE DEF n
    <3> QED BY <2>1, <2>2, <3>2
  <2>3. CASE r.op # "write"
    <3>1. (r.op = "write") = FALSE
      BY <2>3
    <3>2. n = [op |-> r.op, refcnt |-> 1, blknum |-> r.blk, valid |-> FALSE, pid |-> p,
               data |-> r.data, of |-> r.blk]
      BY <2>3, <3>1
    <3> HIDE DEF n
    <3> QED BY <2>1, <2>3, <3>2
  <2> QED BY <2>2, <2>3
<1>4. rd_buff' = [rd_buff EXCEPT ![b] = n]
  BY DEF Enqueue
<1> HIDE DEF n
<1>5. b \in RdBuffers /\ rd_buff \in [RdBuffers -> RdBuffer]
  BY <1>0 DEF RdTypeOK, ListsOK
<1>6. /\ rd_buff' \in [RdBuffers -> RdBuffer] /\ rd_buff'[b] = n
      /\ \A c \in RdBuffers \ {b} : rd_buff'[c] = rd_buff[c]
  BY <1>2, <1>4, <1>5
<1>7. rdcall \in [RdCaller -> {RdIdle} \cup RdRequest]
  BY <1>0 DEF RdTypeOK
<1>8. [r EXCEPT !.ph = "recv"] \in RdRequest /\ [r EXCEPT !.ph = "recv"].ph = "recv"
  BY DEF RdRequest
<1>9. /\ rdcall' \in [RdCaller -> {RdIdle} \cup RdRequest]
      /\ rdcall'[p] = (IF r.op = "write" THEN RdIdle ELSE [r EXCEPT !.ph = "recv"])
      /\ \A q \in RdCaller \ {p} : rdcall'[q] = rdcall[q]
  BY <1>7, <1>8 DEF Enqueue
<1>10. rdcall'[p].ph = (IF r.op = "write" THEN "idle" ELSE "recv")
  BY <1>8, <1>9 DEF RdIdle
<1>11. rdlast \in [RdBlock -> RdValue]
  BY <1>0 DEF RdTypeOK
<1>12. /\ rdlast' \in [RdBlock -> RdValue]
       /\ \A blk \in RdBlock :
            rdlast'[blk] = IF r.op = "write" /\ blk = r.blk THEN r.data ELSE rdlast[blk]
  BY <1>1, <1>11 DEF Enqueue
<1>13. RdTypeOK'
  <2>1. rd_reqsem' \in Nat
    BY <1>0 DEF Enqueue, RdTypeOK
  <2>2. RdNetTypeOK'
    BY <1>0 DEF RdTypeOK, RdNetTypeOK, rdnet
  <2> QED BY <1>6, <1>9, <1>12, <2>1, <2>2 DEF RdTypeOK
<1>14. /\ ListsOK'
       /\ Copies' = Copies \ {b} /\ Requests' = Requests \cup {b} /\ b \notin Requests
       /\ Len(rd_queue') = Len(rd_queue) + 1
       /\ rd_queue # <<>> => Head(rd_queue') = Head(rd_queue)
  BY EnqueueLists
<1>15. Requests \subseteq RdBuffers /\ Copies \subseteq RdBuffers
  BY <1>0 DEF ListsOK
<1>16. BuffersOK'
  <2>1. ASSUME NEW c \in (Requests \cup Copies)'
        PROVE  /\ rd_buff'[c].op \in RdOps
               /\ rd_buff'[c].valid <=> rd_buff'[c].op = "write"
               /\ rd_buff'[c].op = "write" => rd_buff'[c].refcnt <= 0
    <3>1. CASE c = b
      BY <1>1, <1>3, <1>6, <3>1
    <3>2. CASE c # b
      <4>1. c \in Requests \cup Copies /\ c \in RdBuffers \ {b}
        BY <1>14, <1>15, <2>1, <3>2
      <4> QED BY <1>0, <1>6, <4>1 DEF BuffersOK
    <3> QED BY <3>1, <3>2
  <2>2. ASSUME NEW c \in Copies' PROVE rd_buff'[c].op # "sync"
    BY <1>0, <1>6, <1>14, <1>15 DEF BuffersOK
  <2>3. ASSUME NEW c \in Requests \ {b}, rd_buff'[c].op # "write"
        PROVE  /\ rd_buff'[c].pid \in RdCaller \ {p} /\ rdcall'[rd_buff'[c].pid].ph = "recv"
               /\ rd_buff[c].op # "write" /\ rd_buff'[c] = rd_buff[c]
    <3>1. rd_buff'[c] = rd_buff[c]
      BY <1>6, <1>15
    <3>2. rd_buff[c].pid \in RdCaller /\ rdcall[rd_buff[c].pid].ph = "recv"
      BY <1>0, <2>3, <3>1 DEF BuffersOK
    <3> QED BY <1>9, <2>3, <3>1, <3>2
  <2>4. ASSUME NEW c \in Requests', rd_buff'[c].op # "write"
        PROVE  /\ rd_buff'[c].pid \in RdCaller /\ rdcall'[rd_buff'[c].pid].ph = "recv"
               /\ \A d \in Requests' :
                    rd_buff'[d].op # "write" /\ rd_buff'[d].pid = rd_buff'[c].pid => d = c
    <3>1. CASE c = b
      <4>1. rd_buff'[c].pid = p /\ r.op # "write"
        BY <1>3, <1>6, <2>4, <3>1
      <4>2. ASSUME NEW d \in Requests', rd_buff'[d].op # "write", rd_buff'[d].pid = p PROVE d = b
        BY <1>14, <2>3, <4>2
      <4> QED BY <1>10, <3>1, <4>1, <4>2
    <3>2. CASE c # b
      <4>1. c \in Requests \ {b}
        BY <1>14, <2>4, <3>2
      <4>2. ASSUME NEW d \in Requests', rd_buff'[d].op # "write",
                   rd_buff'[d].pid = rd_buff'[c].pid
            PROVE  d = c
        <5>1. d # b
          BY <1>3, <1>6, <2>3, <2>4, <4>1, <4>2
        <5>2. d \in Requests \ {b}
          BY <1>14, <4>2, <5>1
        <5>3. rd_buff'[d] = rd_buff[d] /\ rd_buff'[c] = rd_buff[c]
              /\ rd_buff[d].op # "write" /\ rd_buff[c].op # "write"
          BY <2>3, <2>4, <4>1, <4>2, <5>2
        <5> QED BY <1>0, <4>1, <4>2, <5>2, <5>3 DEF BuffersOK
      <4> QED BY <2>3, <2>4, <4>1, <4>2
    <3> QED BY <3>1, <3>2
  <2> QED BY <2>1, <2>2, <2>4 DEF BuffersOK
<1>17. rdcom' = rdcom /\ UNCHANGED <<rd_blk, rd_seq, rdreplies, rdserver>>
  BY DEF rdnet
<1>18. ProcessOK'
  <2>1. rd_reqsem' = rd_reqsem + 1 /\ rd_reqsem \in Nat /\ Len(rd_queue) \in Nat
    BY <1>0 DEF Enqueue, RdTypeOK, ListsOK, Lists
  <2>2. Sends("read")' <=> Sends("read")
    BY <1>17 DEF Sends
  <2>3. ASSUME Sends("read")
        PROVE  /\ rdcom.buf = Head(rd_queue') /\ rd_buff'[rdcom.buf] = rd_buff[rdcom.buf]
    <3>1. rd_queue # <<>> /\ rdcom.buf = Head(rd_queue)
      BY <1>0, <2>1, <2>3 DEF ProcessOK
    <3>2. Head(rd_queue) \in Requests
      BY <1>0, <3>1, HeadIs DEF ListsOK
    <3> QED BY <1>6, <1>14, <1>15, <3>1, <3>2
  <2> QED BY <1>0, <1>14, <1>17, <2>1, <2>2, <2>3 DEF ProcessOK
<1>19. RepliesOK'
  BY <1>0, <1>17 DEF RepliesOK, Sends
<1> QED BY <1>3, <1>6, <1>9, <1>10, <1>12, <1>13, <1>14, <1>16, <1>17, <1>18, <1>19 DEF RdBase

LEMMA EnqueueOrderly ==
  ASSUME RdBase, NEW p \in RdCaller, NEW r \in RdRequest, NEW b \in Unused \cup Copies,
         Enqueue(p, r, b), Taken(b), rdcall[p].ph # "recv",
         rddoubt' \subseteq RdBlock, rddoubt \subseteq rddoubt', UNCHANGED rdnet,
         rd_availsem' \in Int, rd_waiting' \in Seq(RdCaller), Fits(r, b),
         NEW blk \in RdBlock \ rddoubt', Orderly(blk)
  PROVE  Orderly(blk)'
<1>1. /\ rd_buff'[b].op = r.op /\ rd_buff'[b].blknum = r.blk /\ rd_buff'[b].data = r.data
      /\ \A c \in RdBuffers \ {b} : rd_buff'[c] = rd_buff[c]
      /\ rdlast'[blk] = IF r.op = "write" /\ blk = r.blk THEN r.data ELSE rdlast[blk]
      /\ UNCHANGED <<rdcom, rdserver>>
  BY EnqueueBase DEF rdnet
<1>2. /\ Copies' = Copies \ {b} /\ Requests' = Requests \cup {b} /\ b \notin Requests
      /\ Keeps(rd_cache, rd_cache')
      /\ \A x, y : Before(rd_queue', x, y) => Before(rd_queue, x, y) \/ y = b
  BY EnqueueLists
<1>3. Requests \subseteq RdBuffers /\ Copies \subseteq RdBuffers /\ r.op \in RdOps
  BY DEF RdBase, ListsOK, RdRequest
<1>4. ASSUME NEW c \in (Requests \cup Copies)', c # b
      PROVE  /\ c \in Requests \cup Copies /\ rd_buff'[c] = rd_buff[c]
             /\ IsWrite(c, blk)' <=> IsWrite(c, blk)
             /\ IsRead(c, blk)' <=> IsRead(c, blk)
             /\ c \in Requests' <=> c \in Requests
             /\ c \in Copies' <=> c \in Copies
  <2>1. c \in Requests \cup Copies /\ c \in RdBuffers \ {b}
    BY <1>2, <1>3, <1>4
  <2>2. rd_buff'[c] = rd_buff[c]
    BY <1>1, <2>1
  <2>3. /\ IsWrite(c, blk)' <=> rd_buff'[c].op = "write" /\ rd_buff'[c].blknum = blk
        /\ IsRead(c, blk)' <=> rd_buff'[c].op = "read" /\ rd_buff'[c].blknum = blk
    BY DEF IsWrite, IsRead
  <2> QED BY <1>2, <1>4, <2>1, <2>2, <2>3 DEF IsWrite, IsRead
<1>5. /\ IsWrite(b, blk)' <=> r.op = "write" /\ r.blk = blk
      /\ IsRead(b, blk)' <=> r.op = "read" /\ r.blk = blk
  BY <1>1 DEF IsWrite, IsRead
<1>6. r.op # "sync" /\ r.blk = blk => \A c \in Requests \cup Copies : IsWrite(c, blk) => c = b
  BY DEF Fits
<1>7. OneWrite(blk)'
  <2> SUFFICES ASSUME NEW c \in (Requests \cup Copies)', IsWrite(c, blk)'
               PROVE  /\ rd_buff'[c].data = rdlast'[blk]
                      /\ \A d \in (Requests \cup Copies)' : IsWrite(d, blk)' => d = c
    BY DEF OneWrite
  <2>1. CASE c = b
    BY <1>1, <1>4, <1>5, <1>6, <2>1
  <2>2. CASE c # b
    <3>1. c \in Requests \cup Copies /\ rd_buff'[c] = rd_buff[c] /\ IsWrite(c, blk)
      BY <1>4, <2>2
    <3>2. ~(r.op # "sync" /\ r.blk = blk)
      BY <1>6, <2>2, <3>1
    <3>3. /\ rd_buff[c].data = rdlast[blk]
          /\ \A d \in Requests \cup Copies : IsWrite(d, blk) => d = c
      BY <3>1 DEF Orderly, OneWrite
    <3> QED BY <1>1, <1>3, <1>4, <1>5, <3>1, <3>2, <3>3
  <2> QED BY <2>1, <2>2
<1>8. NothingAfter(blk)'
  <2> SUFFICES ASSUME NEW c \in Requests', NEW d \in Requests', IsWrite(c, blk)',
                      Before(rd_queue', c, d), IsRead(d, blk)'
               PROVE  FALSE
    BY DEF NothingAfter
  <2>1. CASE d = b
    <3>1. r.op = "read" /\ r.blk = blk /\ c # b
      BY <1>5, <2>1
    <3>2. c \in Requests \cup Copies /\ IsWrite(c, blk)
      BY <1>4, <3>1
    <3> QED BY <1>6, <3>1, <3>2
  <2>2. CASE d # b
    <3>1. Before(rd_queue, c, d)
      BY <1>2, <2>2
    <3>2. Lists(rd_queue, Requests)
      BY DEF RdBase, ListsOK
    <3>3. c \in Requests /\ d \in Requests
      BY ONLY <3>1, <3>2, BeforeIs
    <3>4. c # b
      BY <1>2, <3>3
    <3>5. IsWrite(c, blk) /\ IsRead(d, blk)
      BY <1>4, <2>2, <3>3, <3>4
    <3> QED BY <3>1, <3>3, <3>5 DEF Orderly, NothingAfter
  <2> QED BY <2>1, <2>2
<1>9. FirstCopy(blk)'
  <2> SUFFICES ASSUME NEW c \in Copies', IsWrite(c, blk)'
               PROVE  /\ \A d \in Copies' : Before(rd_cache', d, c) => rd_buff'[d].blknum # blk
                      /\ \A d \in Requests' : ~IsRead(d, blk)'
    BY DEF FirstCopy
  <2>1. c # b /\ c \in Copies /\ IsWrite(c, blk)
    BY <1>2, <1>4
  <2>2. /\ \A d \in Copies : Before(rd_cache, d, c) => rd_buff[d].blknum # blk
        /\ \A d \in Requests : ~IsRead(d, blk)
    BY <2>1 DEF Orderly, FirstCopy
  <2>3. ~IsRead(b, blk)'
    BY <1>5, <1>6, <2>1
  <2>4. ASSUME NEW d \in Copies', Before(rd_cache', d, c) PROVE rd_buff'[d].blknum # blk
    <3>1. d \in Copies /\ rd_buff'[d] = rd_buff[d]
      BY <1>2, <1>4
    <3>2. Before(rd_cache, d, c)
      BY <1>2, <2>4 DEF Keeps
    <3> QED BY <2>2, <3>1, <3>2
  <2>5. ASSUME NEW d \in Requests' PROVE ~IsRead(d, blk)'
    <3>1. CASE d = b
      BY <2>3, <3>1
    <3>2. CASE d # b
      <4>1. d \in Requests /\ (IsRead(d, blk)' <=> IsRead(d, blk))
        BY <1>2, <1>4, <3>2
      <4> QED BY <2>2, <4>1
    <3> QED BY <3>1, <3>2
  <2> QED BY <2>4, <2>5
<1>10. Landed(blk)'
  <2> SUFFICES ASSUME \A c \in Requests' : ~IsWrite(c, blk)'
               PROVE  rdlast'[blk] = IF Sends("write") /\ rdcom.blk = blk THEN rdcom.data
                                     ELSE rdserver[blk]
    BY <1>1 DEF Landed, Sends
  <2>1. ~(r.op = "write" /\ r.blk = blk)
    BY <1>2, <1>5
  <2>2. ASSUME NEW c \in Requests PROVE ~IsWrite(c, blk)
    <3>1. c \in Requests' /\ c # b
      BY <1>2
    <3> QED BY <1>4, <3>1
  <2> QED BY <1>1, <2>1, <2>2 DEF Orderly, Landed
<1> QED BY <1>7, <1>8, <1>9, <1>10 DEF Orderly

LEMMA BestIs ==
  ASSUME NEW n \in Nat, NEW S \in SUBSET (1..n), S # {}
  PROVE  /\ Min(S) \in S /\ \A y \in S : Min(S) <= y
         /\ Max(S) \in S /\ \A y \in S : y <= Max(S)
<1>1. PICK m \in S : \A y \in S : m <= y
  BY LeastNatural
<1>2. Min(S) \in S /\ \A y \in S : Min(S) <= y
  BY <1>1 DEF Min
<1> DEFINE T == {n - x : x \in S}
<1>3. T \in SUBSET Nat /\ T # {}
  OBVIOUS
<1>4. PICK t \in T : \A u \in T : t <= u
  BY <1>3, LeastNatural
<1>5. PICK x \in S : t = n - x
  BY <1>4
<1>6. \A y \in S : y <= x
  <2> TAKE y \in S
  <2>1. n - y \in T
    OBVIOUS
  <2>2. n - x <= n - y
    BY <1>4, <1>5, <2>1
  <2> QED BY <2>2
<1>7. Max(S) \in S /\ \A y \in S : y <= Max(S)
  BY <1>6 DEF Max
<1> QED BY <1>2, <1>7

LEMMA WritesAre ==
  ASSUME ListsOK, NEW blk
  PROVE  /\ Writes(rd_queue, blk) \subseteq 1..Len(rd_queue)
         /\ \A i \in Writes(rd_queue, blk) : rd_queue[i] \in Requests /\ IsWrite(rd_queue[i], blk)
         /\ \A b \in Requests : IsWrite(b, blk) => \E i \in Writes(rd_queue, blk) : rd_queue[i] = b
<1>1. DOMAIN rd_queue = 1..Len(rd_queue)
  BY DEF ListsOK, Lists
<1> QED BY <1>1 DEF Writes, At, IsWrite, Requests, ToSet

(* The first copy of a block that is in order is the write of it, if a     *)
(* write is cached at all.                                                 *)
LEMMA CachedIs ==
  ASSUME RdBase, NEW blk \in RdBlock, Orderly(blk), NEW b \in Copies, IsWrite(b, blk)
  PROVE  Cached(blk) = {b} /\ At(rd_cache, blk) # {} /\ rd_cache[Min(At(rd_cache, blk))] = b
<1> DEFINE C == At(rd_cache, blk)
<1>1. /\ DOMAIN rd_cache = 1..Len(rd_cache) /\ Len(rd_cache) \in Nat
      /\ \A i \in 1..Len(rd_cache) : rd_cache[i] \in Copies
  BY DEF RdBase, ListsOK, Lists, Copies, ToSet
<1>2. PICK i \in 1..Len(rd_cache) : rd_cache[i] = b
  BY <1>1 DEF Copies, ToSet
<1>3. i \in C /\ C \in SUBSET (1..Len(rd_cache))
  BY <1>1, <1>2 DEF At, IsWrite
<1>4. Min(C) \in C /\ Min(C) <= i
  BY <1>1, <1>3, BestIs
<1>5. Min(C) = i
  <2> SUFFICES ASSUME Min(C) < i PROVE FALSE
    BY <1>1, <1>3, <1>4
  <2>1. Before(rd_cache, rd_cache[Min(C)], b)
    BY <1>1, <1>2, <1>3, <1>4 DEF Before
  <2>2. rd_cache[Min(C)] \in Copies /\ rd_buff[rd_cache[Min(C)]].blknum = blk
    BY <1>1, <1>3, <1>4 DEF At
  <2> QED BY <2>1, <2>2 DEF Orderly, FirstCopy
<1>6. rd_buff[b].valid
  BY DEF RdBase, BuffersOK, IsWrite
<1> QED BY <1>2, <1>3, <1>5, <1>6 DEF Cached

LEMMA CallsChange ==
  ASSUME RdBase, UNCHANGED <<rd_free, rd_queue, rd_cache, rd_buff, rd_reqsem, rdnet, rdlast>>,
         rddoubt' \subseteq RdBlock, rddoubt \subseteq rddoubt',
         rd_availsem' \in Int, rd_waiting' \in Seq(RdCaller),
         rdcall' \in [RdCaller -> {RdIdle} \cup RdRequest],
         \A q \in RdCaller : rdcall[q].ph = "recv" => rdcall'[q].ph = "recv"
  PROVE  RdBase' /\ \A blk \in RdBlock \ rddoubt' : Orderly(blk) => Orderly(blk)'
<1> USE DEF RdBase
<1>1. RdTypeOK'
  BY DEF RdTypeOK, RdNetTypeOK, rdnet
<1>2. ListsOK' /\ Requests' = Requests /\ Copies' = Copies
  BY DEF ListsOK, Unused, Requests, Copies
<1>3. BuffersOK'
  BY <1>2 DEF BuffersOK
<1>4. ProcessOK' /\ RepliesOK'
  BY DEF ProcessOK, RepliesOK, Sends, rdnet
<1>5. ASSUME NEW blk \in RdBlock \ rddoubt', Orderly(blk) PROVE Orderly(blk)'
  BY <1>2, <1>5 DEF Orderly, OneWrite, NothingAfter, FirstCopy, Landed, IsWrite, IsRead, Sends, rdnet
<1> QED BY <1>1, <1>2, <1>3, <1>4, <1>5

LEMMA PromisedIs ==
  /\ IsFiniteSet(Promised) /\ Cardinality(Promised) \in Nat
  /\ IsFiniteSet(Promised') /\ Cardinality(Promised') \in Nat
<1>1. IsFiniteSet(Promised) /\ IsFiniteSet(Promised')
  BY RdAssumption, FS_Subset DEF Promised
<1> QED BY <1>1, FS_CardinalityType

LEMMA SumsAre ==
  ASSUME RdBase
  PROVE  /\ Len(rd_free) \in Nat /\ Len(rd_cache) \in Nat /\ Len(rd_waiting) \in Nat
         /\ rd_availsem \in Int
         /\ rd_waiting # <<>> => Len(rd_waiting) > 0
BY DEF RdBase, ListsOK, Lists, RdTypeOK

LEMMA WaitsOK ==
  ASSUME RdRuns, rdpanic = "no", NEW p \in RdCaller, NEW r \in RdRequest, rdcall[p] = RdIdle,
         rd_availsem <= 0, rd_availsem' = rd_availsem - 1, rd_waiting' = Append(rd_waiting, p),
         rdcall' = [rdcall EXCEPT ![p] = [r EXCEPT !.ph = "avail"]],
         UNCHANGED <<rd_free, rd_cache, rd_queue, rd_buff, rd_reqsem, rdlast, rddoubt, rdpanic,
                     rdnet, rdstolen>>
  PROVE  RdIInv'
<1> USE DEF RdRuns
<1>1. /\ rdcall \in [RdCaller -> {RdIdle} \cup RdRequest] /\ rd_waiting \in Seq(RdCaller)
      /\ rddoubt \subseteq RdBlock
  BY DEF RdBase, RdTypeOK
<1>2. [r EXCEPT !.ph = "avail"] \in RdRequest /\ [r EXCEPT !.ph = "avail"].ph = "avail"
  BY DEF RdRequest
<1>3. /\ rdcall' \in [RdCaller -> {RdIdle} \cup RdRequest] /\ rdcall'[p].ph = "avail"
      /\ \A q \in RdCaller \ {p} : rdcall'[q] = rdcall[q]
      /\ rdcall[p].ph = "idle"
  BY <1>1, <1>2 DEF RdIdle
<1>4. rd_availsem' \in Int
  BY SumsAre
<1>5. rd_waiting' \in Seq(RdCaller)
  BY <1>1
<1>6. RdBase' /\ \A blk \in RdBlock \ rddoubt' : Orderly(blk)'
  BY <1>1, <1>3, <1>4, <1>5, CallsChange
<1>7. p \notin ToSet(rd_waiting) /\ IsInjective(rd_waiting)
  BY <1>3 DEF WaitersOK
<1>8. /\ ToSet(rd_waiting') = ToSet(rd_waiting) \cup {p} /\ IsInjective(rd_waiting')
      /\ Len(rd_waiting') = Len(rd_waiting) + 1
  BY <1>1, <1>7, AppendSet
<1>9. WaitersOK'
  BY <1>3, <1>8 DEF WaitersOK
<1>10. AvailOK'
  <2>1. Promised' = Promised
    BY <1>3 DEF Promised
  <2>2. rd_waiting' # <<>>
    BY <1>1, AppendProperties
  <2>3. Len(<<>>) = 0
    OBVIOUS
  <2> QED BY <1>8, <2>1, <2>2, <2>3, SumsAre, PromisedIs DEF AvailOK, Room
<1> QED BY <1>6, <1>9, <1>10 DEF RdIInv

LEMMA TakeBufferOK ==
  ASSUME RdRuns, rdpanic = "no", NEW p \in RdCaller, NEW r \in RdRequest, TakeBuffer(p, r),
         \/ rdcall[p] = RdIdle /\ rd_availsem > 0 /\ rd_availsem' = rd_availsem - 1
         \/ rdcall[p].ph = "go" /\ rd_availsem' = rd_availsem,
         UNCHANGED <<rdnet, rdstolen, rd_waiting>>
  PROVE  RdIInv'
<1> USE DEF RdRuns
<1>1. /\ rdcall \in [RdCaller -> {RdIdle} \cup RdRequest] /\ rd_waiting \in Seq(RdCaller)
      /\ rddoubt \subseteq RdBlock /\ r.blk \in RdBlock
  BY DEF RdBase, RdTypeOK, RdRequest
<1>2. rdcall[p].ph \in {"idle", "go"} /\ (rdcall[p].ph = "idle" <=> rdcall[p] = RdIdle)
  BY DEF RdIdle
<1>3. rd_availsem' \in Int /\ rd_waiting' \in Seq(RdCaller)
  BY <1>1, SumsAre
<1>4. rdcall[p].ph = "go" <=> p \in Promised
  BY DEF Promised
<1>5. ~rdstolen => /\ Len(rd_free) + Len(rd_cache) > 0
                   /\ rd_availsem > 0 => rd_waiting = <<>>
  <2>1. p \in Promised => Cardinality(Promised) > 0
    BY PromisedIs, FS_EmptySet
  <2> QED BY <1>2, <1>4, <2>1, SumsAre, PromisedIs DEF AvailOK, Room
<1>6. CASE rd_free = <<>> /\ Reusable = {}
  <2>1. /\ rdpanic' = "nobuffer"
        /\ UNCHANGED <<rd_free, rd_cache, rd_queue, rd_buff, rd_reqsem, rdcall, rdlast, rddoubt>>
    BY <1>6 DEF TakeBuffer
  <2>2. RdBase' /\ \A blk \in RdBlock \ rddoubt' : Orderly(blk)'
    BY <1>1, <1>3, <2>1, CallsChange
  <2>3. ~rdstolen => rd_cache # <<>>
    BY <1>5, <1>6
  <2> QED BY <2>1, <2>2, <2>3 DEF RdIInv
<1>7. CASE ~(rd_free = <<>> /\ Reusable = {})
  <2> DEFINE b == IF rd_free # <<>> THEN Head(rd_free) ELSE rd_cache[Max(Reusable)]
  <2>1. /\ Enqueue(p, r, b) /\ Taken(b) /\ rdpanic' = rdpanic
        /\ rddoubt' = IF r.op # "sync" /\ (Cached(r.blk) # {} \/ Writes(rd_queue, r.blk) # {})
                      THEN rddoubt \cup {r.blk} ELSE rddoubt
    BY <1>7 DEF TakeBuffer, Taken
  <2>2. b \in Unused \cup Copies
    <3>1. CASE rd_free # <<>>
      BY <3>1, HeadIs DEF RdBase, ListsOK
    <3>2. CASE rd_free = <<>>
      <4>1. /\ Reusable \subseteq 1..Len(rd_cache) /\ Reusable # {} /\ Len(rd_cache) \in Nat
            /\ DOMAIN rd_cache = 1..Len(rd_cache)
        BY <1>7, <3>2 DEF Reusable, RdBase, ListsOK, Lists
      <4>2. Max(Reusable) \in 1..Len(rd_cache)
        BY <4>1, BestIs
      <4> QED BY <3>2, <4>1, <4>2 DEF Copies, ToSet
    <3> QED BY <3>1, <3>2
  <2> HIDE DEF b
  <2>3. rddoubt' \subseteq RdBlock /\ rddoubt \subseteq rddoubt'
    BY <1>1, <2>1
  <2>4. Fits(r, b)
    <3> SUFFICES ASSUME r.op # "sync", r.blk \notin rddoubt',
                        NEW c \in Requests \cup Copies, IsWrite(c, r.blk)
                 PROVE  FALSE
      BY DEF Fits
    <3>1. Cached(r.blk) = {} /\ Writes(rd_queue, r.blk) = {} /\ Orderly(r.blk)
      BY <1>1, <2>1
    <3>2. c \notin Copies
      BY <1>1, <3>1, CachedIs, ZenonT(90)
    <3>3. c \notin Requests
      BY <3>1, WritesAre DEF RdBase
    <3> QED BY <3>2, <3>3
  <2>5. rdcall[p].ph # "recv"
    BY <1>2
  <2>6. /\ RdBase' /\ rdcall'[p].ph \in {"idle", "recv"}
        /\ \A q \in RdCaller \ {p} : rdcall'[q] = rdcall[q]
    BY <1>3, <2>1, <2>2, <2>3, <2>5, EnqueueBase
  <2>7. ASSUME NEW blk \in RdBlock \ rddoubt' PROVE Orderly(blk)'
    BY <1>3, <2>1, <2>2, <2>3, <2>4, <2>5, EnqueueOrderly
  <2>8. WaitersOK'
    BY <1>2, <2>6 DEF WaitersOK
  <2>9. Len(rd_free') + Len(rd_cache') = Len(rd_free) + Len(rd_cache) - 1
    BY <2>1, <2>2, EnqueueLists
  <2>10. Cardinality(Promised') = Cardinality(Promised) - (IF p \in Promised THEN 1 ELSE 0)
    <3>1. Promised' = Promised \ {p}
      BY <2>6 DEF Promised
    <3> QED BY <3>1, PromisedIs, FS_RemoveElement
  <2>11. AvailOK'
    <3>0. RdBase
      OBVIOUS
    <3>1. PICK x, y, z : x = Len(rd_free) + Len(rd_cache) /\ y = Cardinality(Promised) /\ z = Len(rd_waiting)
      OBVIOUS
    <3>2. x \in Nat /\ y \in Nat /\ z \in Nat
      BY <3>1, SumsAre, PromisedIs
    <3>3. CASE rdcall[p].ph = "go"
      <4>1. rd_availsem' = rd_availsem /\ Cardinality(Promised') = y - 1
        BY <1>4, <2>10, <3>1, <3>3 DEF RdIdle
      <4> QED BY <2>9, <3>1, <3>2, <4>1, SumsAre, SMTT(60) DEF AvailOK, Room
    <3>4. CASE rdcall[p].ph # "go"
      <4>1. rd_availsem' = rd_availsem - 1 /\ rd_availsem > 0 /\ Cardinality(Promised') = y
        BY <1>4, <2>10, <3>1, <3>2, <3>4
      <4> QED BY <1>5, <2>9, <3>1, <3>2, <4>1, SumsAre, SMTT(60) DEF AvailOK, Room
    <3> QED BY <3>3, <3>4
  <2> QED BY <2>1, <2>6, <2>7, <2>8, <2>11 DEF RdIInv
<1> QED BY <1>6, <1>7

LEMMA Running == RdIInv /\ rdpanic = "no" => RdRuns
BY DEF RdIInv, RdRuns

LEMMA BufallocOK ==
  ASSUME RdRuns, rdpanic = "no", NEW p \in RdCaller, NEW r \in RdRequest, rdcall[p] = RdIdle,
         rdsbufalloc(p, r), UNCHANGED <<rdnet, rdstolen>>
  PROVE  RdIInv'
<1>1. CASE rd_availsem > 0
  BY <1>1, TakeBufferOK DEF rdsbufalloc
<1>2. CASE ~(rd_availsem > 0)
  <2>1. rd_availsem <= 0
    BY <1>2, SumsAre DEF RdRuns
  <2> QED BY <1>2, <2>1, WaitsOK DEF rdsbufalloc
<1> QED BY <1>1, <1>2

LEMMA RequestIs ==
  ASSUME NEW op \in RdOps, NEW blk \in RdBlock, NEW data \in RdValue
  PROVE  Request(op, blk, data) \in RdRequest
BY RdSizes DEF Request, RdRequest

LEMMA RdsreadOK ==
  ASSUME RdIInv, NEW p \in RdCaller, NEW blk \in RdBlock, Rdsread(p, blk)
  PROVE  RdIInv'
<1>1. Request("read", blk, RdNone) \in RdRequest
  BY RequestIs DEF RdOps, RdValue
<1> QED BY <1>1, Running, BufallocOK DEF Rdsread, Starts

LEMMA RdsSyncOK ==
  ASSUME RdIInv, NEW p \in RdCaller, RdsSync(p)
  PROVE  RdIInv'
<1>1. Request("sync", 0, RdNone) \in RdRequest
  BY RequestIs, RdSizes DEF RdOps, RdValue
<1> QED BY <1>1, Running, BufallocOK DEF RdsSync, Starts

LEMMA RdsGoesOnOK ==
  ASSUME RdIInv, NEW p \in RdCaller, RdsGoesOn(p)
  PROVE  RdIInv'
<1>1. RdRuns /\ rdcall[p].ph = "go" /\ rdpanic = "no"
  BY Running DEF RdsGoesOn
<1>2. rdcall[p] \in RdRequest
  <2>1. rdcall \in [RdCaller -> {RdIdle} \cup RdRequest]
    BY <1>1 DEF RdRuns, RdBase, RdTypeOK
  <2> QED BY <1>1, <2>1 DEF RdIdle
<1> QED BY <1>1, <1>2, TakeBufferOK DEF RdsGoesOn

(* The count is for the buffers that are free or cached, wherever.         *)
LEMMA AvailKept ==
  ASSUME RdBase, AvailOK, Len(rd_free') + Len(rd_cache') = Len(rd_free) + Len(rd_cache),
         Promised' = Promised, UNCHANGED <<rd_availsem, rd_waiting, rdstolen>>
  PROVE  AvailOK'
<1>1. Room' = Room
  BY DEF Room
<1> QED BY <1>1 DEF AvailOK

LEMMA RdsopenOK ==
  ASSUME RdIInv, Rdsopen
  PROVE  RdIInv'
<1>1. RdRuns /\ rdpanic' = rdpanic /\ rdpanic = "no"
  BY Running DEF Rdsopen
<1>2. /\ UNCHANGED <<rd_free, rd_queue, rd_cache, rd_buff, rd_availsem, rd_waiting, rd_reqsem,
                     rdcall, rdnet, rdlast, rddoubt, rdstolen>>
  BY DEF Rdsopen, rdlists, rdghost
<1>3. /\ rddoubt \subseteq RdBlock /\ rd_availsem \in Int /\ rd_waiting \in Seq(RdCaller)
      /\ rdcall \in [RdCaller -> {RdIdle} \cup RdRequest]
  BY <1>1 DEF RdRuns, RdBase, RdTypeOK
<1>4. RdBase' /\ \A blk \in RdBlock \ rddoubt' : Orderly(blk)'
  BY <1>1, <1>2, <1>3, CallsChange DEF RdRuns
<1>5. WaitersOK'
  BY <1>1, <1>2 DEF RdRuns, WaitersOK
<1>6. Promised' = Promised
  BY <1>2 DEF Promised
<1>7. AvailOK'
  <2>1. RdBase /\ AvailOK
    BY <1>1 DEF RdRuns
  <2>2. /\ Len(rd_free') + Len(rd_cache') = Len(rd_free) + Len(rd_cache)
        /\ UNCHANGED <<rd_availsem, rd_waiting, rdstolen>>
    BY <1>2
  <2> QED BY ONLY <1>6, <2>1, <2>2, AvailKept
<1> QED BY <1>1, <1>4, <1>5, <1>7 DEF RdIInv

(* Copies leave the cache; buffers stay what they were requested for.      *)
LEMMA CopiesGo ==
  ASSUME RdBase, ListsOK', rd_queue' = rd_queue, Copies' \subseteq Copies,
         Keeps(rd_cache, rd_cache'), rd_buff' \in [RdBuffers -> RdBuffer],
         \A c \in RdBuffers : /\ rd_buff'[c].op = rd_buff[c].op /\ rd_buff'[c].pid = rd_buff[c].pid
                              /\ rd_buff'[c].blknum = rd_buff[c].blknum
                              /\ rd_buff'[c].data = rd_buff[c].data,
         \A c \in Requests \cup Copies' :
           rd_buff'[c].valid = rd_buff[c].valid /\ rd_buff'[c].refcnt <= rd_buff[c].refcnt,
         rdcall' \in [RdCaller -> {RdIdle} \cup RdRequest],
         \A q \in RdCaller : rdcall[q].ph = "recv" => rdcall'[q].ph = "recv",
         UNCHANGED <<rd_availsem, rd_waiting, rd_reqsem, rdlast, rdcom, rd_blk, rd_seq, rdreplies>>,
         rddoubt' \subseteq RdBlock, rddoubt \subseteq rddoubt',
         rdserver' \in [RdBlock -> RdValue],
         \A blk \in RdBlock \ rddoubt' : rdserver'[blk] = rdserver[blk]
  PROVE  RdBase' /\ \A blk \in RdBlock \ rddoubt' : Orderly(blk) => Orderly(blk)'
<1> USE DEF RdBase
<1>1. RdTypeOK'
  BY DEF RdTypeOK, RdNetTypeOK
<1>2. Requests' = Requests /\ Requests \subseteq RdBuffers /\ Copies \subseteq RdBuffers
  BY DEF Requests, ListsOK
<1>3. BuffersOK'
  <2>1. ASSUME NEW c \in (Requests \cup Copies)'
        PROVE  /\ rd_buff'[c].op \in RdOps
               /\ rd_buff'[c].valid <=> rd_buff'[c].op = "write"
               /\ rd_buff'[c].op = "write" => rd_buff'[c].refcnt <= 0
    <3>1. c \in Requests \cup Copies /\ c \in RdBuffers /\ c \in Requests \cup Copies'
      BY <1>2
    <3>2. /\ rd_buff[c].op \in RdOps
          /\ rd_buff[c].valid <=> rd_buff[c].op = "write"
          /\ rd_buff[c].op = "write" => rd_buff[c].refcnt <= 0
      BY <3>1 DEF BuffersOK
    <3>3. rd_buff[c].refcnt \in Int /\ rd_buff'[c].refcnt \in Int
      <4>1. rd_buff[c] \in RdBuffer /\ rd_buff'[c] \in RdBuffer
        BY <3>1 DEF RdTypeOK
      <4> QED BY <4>1 DEF RdBuffer
    <3> QED BY <3>1, <3>2, <3>3
  <2>2. ASSUME NEW c \in Copies' PROVE rd_buff'[c].op # "sync"
    BY <1>2 DEF BuffersOK
  <2>3. ASSUME NEW c \in Requests, rd_buff'[c].op # "write"
        PROVE  /\ rd_buff'[c].pid \in RdCaller /\ rdcall'[rd_buff'[c].pid].ph = "recv"
               /\ \A d \in Requests :
                    rd_buff'[d].op # "write" /\ rd_buff'[d].pid = rd_buff'[c].pid => d = c
    BY <1>2, <2>3 DEF BuffersOK
  <2> QED BY <1>2, <2>1, <2>2, <2>3 DEF BuffersOK
<1>4. ProcessOK'
  <2>1. Sends("read") => rdcom.buf \in RdBuffers
    BY DEF Sends, RdTypeOK, RdNetTypeOK, RdExchange
  <2> QED BY <2>1 DEF ProcessOK, Sends
<1>5. RepliesOK'
  BY DEF RepliesOK, Sends, RdTypeOK, RdNetTypeOK
<1>6. ASSUME NEW blk \in RdBlock \ rddoubt', Orderly(blk) PROVE Orderly(blk)'
  <2>1. \A c \in RdBuffers : (IsWrite(c, blk)' <=> IsWrite(c, blk))
                             /\ (IsRead(c, blk)' <=> IsRead(c, blk))
    BY DEF IsWrite, IsRead
  <2>2. OneWrite(blk)' /\ NothingAfter(blk)'
    BY <1>2, <1>6, <2>1 DEF Orderly, OneWrite, NothingAfter
  <2>3. FirstCopy(blk)'
    BY <1>2, <1>6, <2>1 DEF Orderly, FirstCopy, Keeps
  <2>4. Landed(blk)'
    BY <1>2, <1>6, <2>1 DEF Orderly, Landed, Sends
  <2> QED BY <2>2, <2>3, <2>4 DEF Orderly
<1> QED BY <1>1, <1>3, <1>4, <1>5, <1>6

LEMMA RdsreadEndsOK ==
  ASSUME RdIInv, NEW p \in RdCaller, RdsreadEnds(p)
  PROVE  RdIInv'
<1> DEFINE b == rdcall[p].buf
<1>1. RdRuns /\ RdBase /\ rdcall[p].ph = "got" /\ rdpanic = "no"
  BY Running DEF RdsreadEnds, RdRuns
<1>2. /\ rd_buff' = [rd_buff EXCEPT ![b].refcnt = @ - 1]
      /\ rdcall' = [rdcall EXCEPT ![p] = RdIdle]
      /\ \/ b \in Copies /\ rd_cache' = RemoveFirst(rd_cache, b) /\ rd_free' = <<b>> \o rd_free
         \/ UNCHANGED <<rd_cache, rd_free>>
      /\ UNCHANGED <<rd_queue, rd_availsem, rd_waiting, rd_reqsem, rdcom, rd_blk, rd_seq,
                     rdreplies, rdserver, rdlast, rddoubt, rdstolen, rdpanic>>
  BY DEF RdsreadEnds, rdnet, rdghost, Copies, ToSet
<1> HIDE DEF b
<1>3. /\ rdcall \in [RdCaller -> {RdIdle} \cup RdRequest] /\ rddoubt \subseteq RdBlock
      /\ rd_buff \in [RdBuffers -> RdBuffer] /\ rdserver \in [RdBlock -> RdValue]
  BY <1>1 DEF RdBase, RdTypeOK, RdNetTypeOK
<1>4. /\ rdcall' \in [RdCaller -> {RdIdle} \cup RdRequest] /\ rdcall'[p].ph = "idle"
      /\ \A q \in RdCaller \ {p} : rdcall'[q] = rdcall[q]
  BY <1>2, <1>3 DEF RdIdle
<1>5. /\ rd_buff' \in [RdBuffers -> RdBuffer]
      /\ \A c \in RdBuffers :
           /\ rd_buff'[c].op = rd_buff[c].op /\ rd_buff'[c].pid = rd_buff[c].pid
           /\ rd_buff'[c].blknum = rd_buff[c].blknum /\ rd_buff'[c].data = rd_buff[c].data
           /\ rd_buff'[c].valid = rd_buff[c].valid /\ rd_buff'[c].refcnt <= rd_buff[c].refcnt
  <2>1. CASE b \in RdBuffers
    <3>1. rd_buff[b] \in RdBuffer
      BY <1>3, <2>1
    <3>2. PICK n : n = [rd_buff[b] EXCEPT !.refcnt = @ - 1]
      OBVIOUS
    <3>3. /\ n \in RdBuffer /\ n.op = rd_buff[b].op /\ n.pid = rd_buff[b].pid
          /\ n.blknum = rd_buff[b].blknum /\ n.data = rd_buff[b].data
          /\ n.valid = rd_buff[b].valid /\ n.refcnt <= rd_buff[b].refcnt
      BY <3>1, <3>2 DEF RdBuffer
    <3>4. rd_buff' = [rd_buff EXCEPT ![b] = n]
      BY <1>2, <3>2
    <3>5. /\ rd_buff' \in [RdBuffers -> RdBuffer]
          /\ \A c \in RdBuffers : rd_buff'[c] = (IF c = b THEN n ELSE rd_buff[c])
      BY <1>3, <3>3, <3>4
    <3>6. \A c \in RdBuffers : rd_buff[c].refcnt \in Int
      BY <1>3 DEF RdBuffer
    <3> QED BY <3>3, <3>5, <3>6
  <2>2. CASE b \notin RdBuffers
    <3>1. rd_buff' = rd_buff
      BY <1>2, <1>3, <2>2
    <3>2. \A c \in RdBuffers : rd_buff[c].refcnt \in Int
      BY <1>3 DEF RdBuffer
    <3> QED BY <1>3, <3>1, <3>2
  <2> QED BY <2>1, <2>2
<1>6. /\ ListsOK' /\ Copies' \subseteq Copies /\ Keeps(rd_cache, rd_cache')
      /\ Len(rd_free') + Len(rd_cache') = Len(rd_free) + Len(rd_cache)
  <2>1. ListsOK
    BY <1>1 DEF RdBase
  <2>2. CASE UNCHANGED <<rd_cache, rd_free>>
    BY <1>2, <2>1, <2>2 DEF ListsOK, Unused, Requests, Copies, Keeps
  <2>3. CASE b \in Copies /\ rd_cache' = RemoveFirst(rd_cache, b) /\ rd_free' = <<b>> \o rd_free
    <3>1. b \in RdBuffers \ Unused
      BY <2>1, <2>3 DEF ListsOK
    <3>2. Lists(rd_free', Unused \cup {b}) /\ Len(rd_free') = Len(rd_free) + 1
      BY <2>1, <2>3, <3>1, FirstIs DEF ListsOK
    <3>3. /\ Lists(rd_cache', Copies \ {b}) /\ Len(rd_cache') = Len(rd_cache) - 1
          /\ Keeps(rd_cache, rd_cache')
      BY <2>1, <2>3, WithoutIs DEF ListsOK
    <3>4. Unused' = Unused \cup {b} /\ Copies' = Copies \ {b} /\ Requests' = Requests
      BY <1>2, <3>2, <3>3 DEF Lists, Unused, Copies, Requests
    <3>5. Len(rd_free) \in Nat /\ Len(rd_cache) \in Nat
      BY <2>1 DEF ListsOK, Lists
    <3> QED BY <1>2, <2>1, <2>3, <3>2, <3>3, <3>4, <3>5 DEF ListsOK
  <2> QED BY <1>2, <2>2, <2>3
<1>7. Requests \subseteq RdBuffers /\ Copies' \subseteq RdBuffers
  BY <1>1, <1>6 DEF RdBase, ListsOK
<1>8. \A q \in RdCaller : rdcall[q].ph = "recv" => rdcall'[q].ph = "recv"
  BY <1>1, <1>4
<1>9. RdBase' /\ \A blk \in RdBlock \ rddoubt' : Orderly(blk)'
  <2>1. \A blk \in RdBlock \ rddoubt : Orderly(blk)
    BY <1>1 DEF RdRuns
  <2>2. RdBase' /\ \A blk \in RdBlock \ rddoubt' : Orderly(blk) => Orderly(blk)'
    BY <1>1, <1>2, <1>3, <1>4, <1>5, <1>6, <1>7, <1>8, CopiesGo
  <2> QED BY <1>2, <2>1, <2>2
<1>10. WaitersOK'
  BY <1>1, <1>2, <1>4 DEF RdRuns, WaitersOK
<1>11. AvailOK'
  <2>1. Promised' = Promised
    BY <1>1, <1>4 DEF Promised
  <2>2. AvailOK
    BY <1>1 DEF RdRuns
  <2> QED BY <1>1, <1>2, <1>6, <2>1, <2>2, AvailKept
<1> QED BY <1>1, <1>2, <1>9, <1>10, <1>11 DEF RdIInv

LEMMA CloseOK ==
  ASSUME RdRuns, rdpanic = "no", rdsclose, rdcom' = rdcom, rddoubt' \in {rddoubt, RdBlock},
         UNCHANGED <<rd_queue, rd_availsem, rd_waiting, rd_reqsem, rdcall, rd_blk, rd_seq,
                     rdreplies, rdlast, rdstolen>>,
         rdserver' \in [RdBlock -> RdValue], rddoubt' = RdBlock \/ rdserver' = rdserver
  PROVE  RdIInv'
<1>1. /\ RdBase /\ ListsOK /\ rdcall \in [RdCaller -> {RdIdle} \cup RdRequest]
      /\ rddoubt \subseteq RdBlock /\ rd_buff \in [RdBuffers -> RdBuffer]
  BY DEF RdRuns, RdBase, RdTypeOK
<1>2. /\ rdpanic' \in {"no", "closed"} /\ ListsOK' /\ Copies' \subseteq Copies
      /\ Keeps(rd_cache, rd_cache') /\ Len(rd_free') + Len(rd_cache') = Len(rd_free) + Len(rd_cache)
      /\ rd_buff' \in [RdBuffers -> RdBuffer]
      /\ \A c \in RdBuffers :
           /\ rd_buff'[c].op = rd_buff[c].op /\ rd_buff'[c].pid = rd_buff[c].pid
           /\ rd_buff'[c].blknum = rd_buff[c].blknum /\ rd_buff'[c].data = rd_buff[c].data
           /\ rd_buff'[c].refcnt <= rd_buff[c].refcnt
           /\ c \in Requests \cup Copies' => rd_buff'[c].valid = rd_buff[c].valid
  <2>0. \A c \in RdBuffers : rd_buff[c].refcnt \in Int
    BY <1>1 DEF RdBuffer
  <2>1. CASE rd_queue # <<>>
    BY <1>1, <2>0, <2>1 DEF rdsclose, ListsOK, Unused, Requests, Copies, Keeps
  <2>2. CASE rd_queue = <<>>
    <3>1. /\ rd_cache' = <<>> /\ rd_free' = Reverse(rd_cache) \o rd_free
          /\ rd_buff' = [b \in RdBuffers |-> IF b \in Range(rd_cache)
                           THEN [rd_buff[b] EXCEPT !.valid = FALSE] ELSE rd_buff[b]]
          /\ rdpanic' \in {"no", "closed"}
      BY <2>2 DEF rdsclose
    <3>2. Requests = {}
      BY <2>2 DEF Requests, ToSet
    <3>3. /\ Lists(rd_free', Unused \cup Copies)
          /\ Len(rd_free') = Len(rd_free) + Len(rd_cache)
      <4>1. Lists(rd_free, Unused) /\ Lists(rd_cache, Copies) /\ Unused \cap Copies = {}
        BY <1>1 DEF ListsOK
      <4>2. /\ Lists(Reverse(rd_cache) \o rd_free, Unused \cup Copies)
            /\ Len(Reverse(rd_cache) \o rd_free) = Len(rd_free) + Len(rd_cache)
        BY ONLY <4>1, ReturnedIs
      <4> QED BY ONLY <3>1, <4>2
    <3>4. Lists(rd_cache', {}) /\ Len(rd_cache') = 0
      BY <3>1 DEF Lists, IsInjective, ToSet
    <3>5. Unused' = Unused \cup Copies /\ Copies' = {} /\ Requests' = Requests
      BY <3>3, <3>4 DEF Lists, Unused, Copies, Requests
    <3>6. ListsOK' /\ Keeps(rd_cache, rd_cache')
      BY <1>1, <3>3, <3>4, <3>5 DEF ListsOK, Keeps, Before, Lists
    <3>7. ASSUME NEW c \in RdBuffers
          PROVE  /\ rd_buff'[c] \in RdBuffer
                 /\ rd_buff'[c].op = rd_buff[c].op /\ rd_buff'[c].pid = rd_buff[c].pid
                 /\ rd_buff'[c].blknum = rd_buff[c].blknum /\ rd_buff'[c].data = rd_buff[c].data
                 /\ rd_buff'[c].refcnt <= rd_buff[c].refcnt
      <4>1. rd_buff[c] \in RdBuffer
        BY <1>1
      <4>2. rd_buff'[c] \in {rd_buff[c], [rd_buff[c] EXCEPT !.valid = FALSE]}
        BY <3>1
      <4>3. CASE rd_buff'[c] = rd_buff[c]
        BY <2>0, <4>1, <4>3
      <4>4. CASE rd_buff'[c] = [rd_buff[c] EXCEPT !.valid = FALSE]
        <5>1. PICK old, new : old = rd_buff[c] /\ new = rd_buff'[c]
          OBVIOUS
        <5>2. old \in RdBuffer /\ new = [old EXCEPT !.valid = FALSE]
          BY ONLY <4>1, <4>4, <5>1
        <5>3. /\ new.op = old.op /\ new.pid = old.pid /\ new.blknum = old.blknum
              /\ new.data = old.data /\ new.refcnt = old.refcnt
          BY ONLY <5>2, SMT DEF RdBuffer
        <5>4. new \in RdBuffer /\ old.refcnt \in Int
          <6>1. ASSUME NEW v \in BOOLEAN, new = [old EXCEPT !.valid = v] PROVE new \in RdBuffer
            BY ONLY <5>2, <6>1 DEF RdBuffer
          <6>2. old.refcnt \in Int
            BY ONLY <5>2 DEF RdBuffer
          <6> QED BY <5>2, <6>1, <6>2
        <5>5. new.refcnt <= old.refcnt
          BY ONLY <5>3, <5>4
        <5> QED BY ONLY <5>1, <5>3, <5>4, <5>5
      <4> QED BY <4>2, <4>3, <4>4
    <3>8. rd_buff' \in [RdBuffers -> RdBuffer]
      BY <3>1, <3>7
    <3>9. Len(rd_free) \in Nat /\ Len(rd_cache) \in Nat
      BY <1>1 DEF ListsOK, Lists
    <3>10. Len(rd_free') + Len(rd_cache') = Len(rd_free) + Len(rd_cache)
      BY <3>3, <3>4, <3>9
    <3> QED BY <3>1, <3>2, <3>5, <3>6, <3>7, <3>8, <3>10
  <2> QED BY <2>1, <2>2
<1>3. Requests \subseteq RdBuffers /\ Copies' \subseteq RdBuffers
  BY <1>1, <1>2 DEF ListsOK
<1>4. rddoubt' \subseteq RdBlock /\ rddoubt \subseteq rddoubt'
  BY <1>1
<1>5. \A blk \in RdBlock \ rddoubt' : rdserver'[blk] = rdserver[blk]
  OBVIOUS
<1>6. RdBase' /\ \A blk \in RdBlock \ rddoubt' : Orderly(blk)'
  <2>1. \A blk \in RdBlock \ rddoubt : Orderly(blk)
    BY DEF RdRuns
  <2>2. RdBase' /\ \A blk \in RdBlock \ rddoubt' : Orderly(blk) => Orderly(blk)'
    BY <1>1, <1>2, <1>3, <1>4, <1>5, CopiesGo
  <2> QED BY <1>4, <2>1, <2>2
<1>7. Promised' = Promised
  BY DEF Promised
<1>8. WaitersOK'
  BY DEF RdRuns, WaitersOK
<1>9. AvailOK'
  <2>1. AvailOK
    BY DEF RdRuns
  <2> QED BY <1>1, <1>2, <1>7, <2>1, AvailKept
<1> QED BY <1>2, <1>6, <1>8, <1>9 DEF RdIInv

LEMMA RdscloseOK ==
  ASSUME RdIInv, Rdsclose \/ RdsDelete
  PROVE  RdIInv'
<1>1. RdRuns /\ rdpanic = "no" /\ rdserver \in [RdBlock -> RdValue]
  BY Running DEF Rdsclose, RdsDelete, RdIInv, RdBase, RdTypeOK, RdNetTypeOK
<1>2. CASE Rdsclose
  BY <1>1, <1>2, CloseOK DEF Rdsclose, rdnet, rdghost
<1>3. CASE RdsDelete
  <2>1. rdserver' \in [RdBlock -> RdValue]
    BY <1>3 DEF RdsDelete, RdValue
  <2> QED BY <1>1, <1>3, <2>1, CloseOK DEF RdsDelete
<1> QED BY <1>2, <1>3

(* rdswrite over a write that is queued: it is the only one of its block.  *)
LEMMA OverwriteOK ==
  ASSUME RdRuns, rdpanic = "no", NEW blk \in RdBlock, NEW data \in RdData, NEW b \in Requests,
         IsWrite(b, blk), rd_buff' = [rd_buff EXCEPT ![b].data = data],
         rdlast' = [rdlast EXCEPT ![blk] = data],
         UNCHANGED <<rd_free, rd_queue, rd_cache, rd_availsem, rd_waiting, rd_reqsem, rdcall,
                     rddoubt, rdstolen, rdpanic>>,
         UNCHANGED rdnet
  PROVE  RdIInv'
<1>1. /\ RdBase /\ AvailOK /\ WaitersOK
      /\ \A k \in RdBlock \ rddoubt : Orderly(k)
  BY DEF RdRuns
<1>2. /\ RdTypeOK /\ ListsOK /\ BuffersOK /\ ProcessOK /\ RepliesOK
      /\ rd_buff \in [RdBuffers -> RdBuffer] /\ rdlast \in [RdBlock -> RdValue]
      /\ b \in RdBuffers /\ Requests \subseteq RdBuffers /\ Copies \subseteq RdBuffers
  BY <1>1 DEF RdBase, RdTypeOK, ListsOK
<1>3. PICK n : n = [rd_buff[b] EXCEPT !.data = data]
  OBVIOUS
<1>4. /\ n \in RdBuffer /\ n.op = rd_buff[b].op /\ n.pid = rd_buff[b].pid
      /\ n.blknum = rd_buff[b].blknum /\ n.valid = rd_buff[b].valid
      /\ n.refcnt = rd_buff[b].refcnt /\ n.data = data
  <2>1. rd_buff[b] \in RdBuffer /\ data \in RdValue
    BY <1>2 DEF RdValue
  <2> QED BY <1>3, <2>1 DEF RdBuffer
<1>5. rd_buff' = [rd_buff EXCEPT ![b] = n]
  BY <1>3
<1>6. /\ rd_buff' \in [RdBuffers -> RdBuffer]
      /\ \A c \in RdBuffers : rd_buff'[c] = (IF c = b THEN n ELSE rd_buff[c])
  BY <1>2, <1>4, <1>5
<1>7. \A c \in RdBuffers :
        /\ rd_buff'[c].op = rd_buff[c].op /\ rd_buff'[c].pid = rd_buff[c].pid
        /\ rd_buff'[c].blknum = rd_buff[c].blknum /\ rd_buff'[c].valid = rd_buff[c].valid
        /\ rd_buff'[c].refcnt = rd_buff[c].refcnt
        /\ c # b => rd_buff'[c].data = rd_buff[c].data
  BY <1>4, <1>6
<1>8. /\ rdlast' \in [RdBlock -> RdValue] /\ rdlast'[blk] = data
      /\ \A k \in RdBlock : k # blk => rdlast'[k] = rdlast[k]
  BY <1>2 DEF RdValue
<1>9. RdTypeOK'
  BY <1>2, <1>6, <1>8 DEF RdTypeOK, RdNetTypeOK, rdnet
<1>10. ListsOK' /\ Requests' = Requests /\ Copies' = Copies
  BY <1>2 DEF ListsOK, Unused, Requests, Copies
<1>11. BuffersOK'
  BY <1>2, <1>7, <1>10 DEF BuffersOK
<1>12. rdcom' = rdcom /\ rd_blk' = rd_blk /\ rd_seq' = rd_seq /\ rdreplies' = rdreplies
       /\ rdserver' = rdserver
  BY DEF rdnet
<1>13. ProcessOK' /\ RepliesOK'
  <2>1. Sends("read") => rdcom.buf \in RdBuffers
    BY <1>2 DEF Sends, RdTypeOK, RdNetTypeOK, RdExchange
  <2>2. ProcessOK'
    BY <1>2, <1>7, <1>12, <2>1 DEF ProcessOK, Sends
  <2> QED BY <1>2, <1>12, <2>2 DEF RepliesOK, Sends
<1>14. ASSUME NEW k \in RdBlock \ rddoubt PROVE Orderly(k)'
  <2>0. OneWrite(k) /\ NothingAfter(k) /\ FirstCopy(k) /\ Landed(k)
    BY <1>1 DEF Orderly
  <2>1. \A c \in RdBuffers : (IsWrite(c, k)' <=> IsWrite(c, k))
                             /\ (IsRead(c, k)' <=> IsRead(c, k))
    BY <1>7 DEF IsWrite, IsRead
  <2>2. OneWrite(k)'
    <3> SUFFICES ASSUME NEW c \in Requests \cup Copies, IsWrite(c, k)
                 PROVE  /\ rd_buff'[c].data = rdlast'[k]
                        /\ \A d \in Requests \cup Copies : IsWrite(d, k) => d = c
      BY <1>2, <1>10, <2>1 DEF OneWrite
    <3>1. /\ rd_buff[c].data = rdlast[k]
          /\ \A d \in Requests \cup Copies : IsWrite(d, k) => d = c
      BY <2>0 DEF OneWrite
    <3>2. CASE k = blk
      BY <1>2, <1>4, <1>6, <1>8, <3>1, <3>2
    <3>3. CASE k # blk
      <4>1. c # b
        BY <3>3 DEF IsWrite
      <4> QED BY <1>2, <1>7, <1>8, <3>1, <3>3, <4>1
    <3> QED BY <3>2, <3>3
  <2>3. NothingAfter(k)'
    BY <1>2, <1>10, <2>0, <2>1 DEF NothingAfter
  <2>4. FirstCopy(k)'
    BY <1>2, <1>7, <1>10, <2>0, <2>1 DEF FirstCopy
  <2>5. Landed(k)'
    <3>1. CASE k = blk
      BY <1>2, <1>10, <2>1, <3>1 DEF Landed
    <3>2. CASE k # blk
      BY <1>2, <1>8, <1>10, <1>12, <2>0, <2>1, <3>2 DEF Landed, Sends
    <3> QED BY <3>1, <3>2
  <2> QED BY <2>2, <2>3, <2>4, <2>5 DEF Orderly
<1>15. RdBase'
  BY <1>9, <1>10, <1>11, <1>13 DEF RdBase
<1>16. WaitersOK'
  BY <1>1 DEF WaitersOK
<1>17. AvailOK'
  <2>1. Promised' = Promised
    BY DEF Promised
  <2> QED BY <1>1, <2>1, AvailKept
<1> QED BY <1>14, <1>15, <1>16, <1>17 DEF RdIInv

(* rdswrite into the copy in the cache.                                    *)
LEMMA RecopyOK ==
  ASSUME RdRuns, rdpanic = "no", NEW p \in RdCaller, NEW r \in RdRequest, r.op = "write",
         rdcall[p] = RdIdle, Writes(rd_queue, r.blk) = {}, At(rd_cache, r.blk) # {},
         NEW b, b = rd_cache[Min(At(rd_cache, r.blk))], Enqueue(p, r, b),
         rd_cache' = RemoveFirst(rd_cache, b),
         rd_availsem' = IF rd_availsem > 0 THEN rd_availsem - 1 ELSE rd_availsem,
         rdstolen' = (rdstolen \/ rd_availsem <= 0),
         UNCHANGED <<rd_free, rd_waiting, rddoubt, rdpanic>>, UNCHANGED rdnet
  PROVE  RdIInv'
<1>1. /\ RdBase /\ ListsOK /\ AvailOK /\ WaitersOK
      /\ \A k \in RdBlock \ rddoubt : Orderly(k)
      /\ r.blk \in RdBlock /\ rddoubt \subseteq RdBlock /\ rd_waiting \in Seq(RdCaller)
      /\ rd_availsem \in Int
  BY DEF RdRuns, RdBase, RdTypeOK, RdRequest
<1>2. b \in Copies
  <2>1. /\ DOMAIN rd_cache = 1..Len(rd_cache) /\ Len(rd_cache) \in Nat
        /\ At(rd_cache, r.blk) \in SUBSET (1..Len(rd_cache))
    BY <1>1 DEF ListsOK, Lists, At
  <2>2. Min(At(rd_cache, r.blk)) \in DOMAIN rd_cache
    BY <2>1, BestIs
  <2> QED BY <2>2 DEF Copies, ToSet
<1>3. b \in Unused \cup Copies /\ b \notin Unused
  BY <1>1, <1>2 DEF ListsOK
<1>4. Taken(b)
  BY <1>1, <1>3, WithoutIs DEF Taken, ListsOK
<1>5. Fits(r, b)
  <2> SUFFICES ASSUME r.blk \notin rddoubt', NEW c \in Requests \cup Copies, IsWrite(c, r.blk)
               PROVE  c = b
    BY DEF Fits
  <2>1. Orderly(r.blk)
    BY <1>1
  <2>2. CASE c \in Copies
    BY <1>1, <2>1, <2>2, CachedIs
  <2>3. CASE c \in Requests
    BY <1>1, <2>3, WritesAre
  <2> QED BY <2>2, <2>3
<1>6. /\ rdcall[p].ph # "recv" /\ rddoubt' \subseteq RdBlock /\ rddoubt \subseteq rddoubt'
      /\ rd_availsem' \in Int /\ rd_waiting' \in Seq(RdCaller) /\ rdcall[p].ph = "idle"
  BY <1>1 DEF RdIdle
<1>7. /\ RdBase' /\ rdcall'[p].ph \in {"idle", "recv"}
      /\ \A q \in RdCaller \ {p} : rdcall'[q] = rdcall[q]
  BY <1>1, <1>3, <1>4, <1>6, EnqueueBase
<1>8. ASSUME NEW k \in RdBlock \ rddoubt' PROVE Orderly(k)'
  BY <1>1, <1>3, <1>4, <1>5, <1>6, EnqueueOrderly
<1>9. WaitersOK'
  BY <1>1, <1>6, <1>7 DEF WaitersOK
<1>10. Room' = Room - 1
  <2>1. Promised' = Promised
    BY <1>6, <1>7 DEF Promised
  <2>2. Len(rd_free') + Len(rd_cache') = Len(rd_free) + Len(rd_cache) - 1
    BY <1>1, <1>3, <1>4, EnqueueLists
  <2> QED BY <1>1, <2>1, <2>2, SumsAre, PromisedIs DEF Room
<1>11. AvailOK'
  <2> SUFFICES ASSUME ~rdstolen'
               PROVE  /\ rd_waiting' = <<>> => rd_availsem' >= 0 /\ rd_availsem' = Room'
                      /\ rd_waiting' # <<>> => rd_availsem' = -Len(rd_waiting') /\ Room' = 0
    BY DEF AvailOK
  <2>1. ~rdstolen /\ rd_availsem > 0
    <3>1. ~(rdstolen \/ rd_availsem <= 0)
      BY Zenon
    <3>2. ~rdstolen /\ ~(rd_availsem <= 0)
      BY ONLY <3>1, Zenon
    <3> QED BY <1>1, <3>2
  <2>2. rd_waiting = <<>>
    BY <1>1, <2>1, SumsAre DEF AvailOK
  <2>3. rd_availsem' = rd_availsem - 1 /\ rd_availsem = Room
    BY <1>1, <2>1, <2>2 DEF AvailOK
  <2> QED BY <1>1, <1>10, <2>1, <2>2, <2>3
<1> QED BY <1>7, <1>8, <1>9, <1>11 DEF RdIInv

LEMMA RdswriteOK ==
  ASSUME RdIInv, NEW p \in RdCaller, NEW blk \in RdBlock, NEW data \in RdData,
         Rdswrite(p, blk, data)
  PROVE  RdIInv'
<1> DEFINE W == Writes(rd_queue, blk)
           r == Request("write", blk, data)
           C == At(rd_cache, blk)
           Copy == IF C = {} THEN {} ELSE {b \in {rd_cache[Min(C)]} : rd_buff[b].refcnt <= 0}
<1>1. RdRuns /\ rdpanic = "no" /\ rdcall[p] = RdIdle /\ UNCHANGED rdnet /\ RdBase /\ ListsOK
  BY Running DEF Rdswrite, Starts, RdRuns, RdBase
<1>2. r \in RdRequest /\ r.op = "write" /\ r.blk = blk
  <2>1. r \in RdRequest
    BY RequestIs DEF RdOps, RdValue
  <2> QED BY <2>1 DEF Request
<1>3. CASE /\ W # {}
           /\ rd_buff' = [rd_buff EXCEPT ![rd_queue[Min(W)]].data = data]
           /\ rdlast' = [rdlast EXCEPT ![blk] = data]
           /\ UNCHANGED <<rd_free, rd_queue, rd_cache, rd_availsem, rd_waiting, rd_reqsem,
                          rdcall, rddoubt, rdstolen, rdpanic>>
  <2>1. W \subseteq 1..Len(rd_queue) /\ Len(rd_queue) \in Nat
    BY <1>1, WritesAre DEF ListsOK, Lists
  <2>2. Min(W) \in W
    BY <1>3, <2>1, BestIs
  <2>3. rd_queue[Min(W)] \in Requests /\ IsWrite(rd_queue[Min(W)], blk)
    BY <1>1, <2>2, WritesAre
  <2> QED BY <1>1, <1>3, <2>3, OverwriteOK
<1>4. ASSUME W = {}, NEW b \in Copy, Enqueue(p, r, b), rd_cache' = RemoveFirst(rd_cache, b),
             rd_availsem' = IF rd_availsem > 0 THEN rd_availsem - 1 ELSE rd_availsem,
             rdstolen' = (rdstolen \/ rd_availsem <= 0),
             UNCHANGED <<rd_free, rd_waiting, rddoubt, rdpanic>>
      PROVE  RdIInv'
  <2>1. C # {} /\ b = rd_cache[Min(C)]
    OBVIOUS
  <2> QED BY <1>1, <1>2, <1>4, <2>1, RecopyOK
<1>5. CASE rdsbufalloc(p, r) /\ UNCHANGED rdstolen
  BY <1>1, <1>2, <1>5, BufallocOK
<1> QED BY <1>3, <1>4, <1>5 DEF Rdswrite

(* signal of rd_availsem, for a buffer that has come to the free list or   *)
(* the cache: it is promised to the first process waiting for one.         *)
LEMMA AvailableOK ==
  ASSUME RdBase, WaitersOK, AvailOK, NEW calls \in [RdCaller -> {RdIdle} \cup RdRequest],
         \A q \in RdCaller : \/ calls[q].ph = rdcall[q].ph
                             \/ rdcall[q].ph = "recv" /\ calls[q].ph \in {"idle", "got"},
         Available(calls), rdstolen' = rdstolen,
         Len(rd_free') + Len(rd_cache') = Len(rd_free) + Len(rd_cache) + 1
  PROVE  /\ WaitersOK' /\ AvailOK'
         /\ rdcall' \in [RdCaller -> {RdIdle} \cup RdRequest]
         /\ rd_waiting' \in Seq(RdCaller) /\ rd_availsem' \in Int
         /\ \A q \in RdCaller : calls[q].ph = "recv" => rdcall'[q].ph = "recv"
<1>1. rd_waiting \in Seq(RdCaller) /\ IsInjective(rd_waiting) /\ rd_availsem \in Int
      /\ rd_availsem' = rd_availsem + 1
  BY DEF RdBase, RdTypeOK, WaitersOK, Available
<1>2. /\ \A q \in RdCaller : calls[q].ph = "avail" <=> q \in ToSet(rd_waiting)
      /\ Promised = {q \in RdCaller : calls[q].ph = "go"}
  BY DEF WaitersOK, Promised
<1>3. CASE rd_waiting = <<>>
  <2>1. rdcall' = calls /\ rd_waiting' = rd_waiting
    BY <1>3 DEF Available
  <2>2. WaitersOK'
    BY <1>1, <1>2, <2>1 DEF WaitersOK
  <2>3. Promised' = Promised
    BY <1>2, <2>1 DEF Promised
  <2>4. Room' = Room + 1
    BY <2>3, SumsAre, PromisedIs DEF Room
  <2>5. AvailOK'
    BY <1>1, <1>3, <2>1, <2>4, SumsAre, PromisedIs DEF AvailOK
  <2> QED BY <1>1, <2>1, <2>2, <2>5
<1>4. CASE rd_waiting # <<>>
  <2>1. PICK h : h = Head(rd_waiting)
    OBVIOUS
  <2>2. /\ h \in ToSet(rd_waiting) /\ h \in RdCaller /\ Tail(rd_waiting) \in Seq(RdCaller)
        /\ Len(Tail(rd_waiting)) = Len(rd_waiting) - 1
        /\ ToSet(Tail(rd_waiting)) = ToSet(rd_waiting) \ {h} /\ IsInjective(Tail(rd_waiting))
    BY <1>1, <1>4, <2>1, TailSet
  <2>3. rdcall' = [calls EXCEPT ![h].ph = "go"] /\ rd_waiting' = Tail(rd_waiting)
    BY <1>4, <2>1 DEF Available
  <2>4. calls[h].ph = "avail" /\ calls[h] \in RdRequest
    <3>1. calls[h].ph = "avail"
      BY <1>2, <2>2
    <3> QED BY <2>2, <3>1 DEF RdIdle
  <2>5. PICK n : n = [calls[h] EXCEPT !.ph = "go"]
    OBVIOUS
  <2>6. n \in RdRequest /\ n.ph = "go"
    BY <2>4, <2>5 DEF RdRequest
  <2>7. rdcall' = [calls EXCEPT ![h] = n]
    BY <2>3, <2>5
  <2>8. /\ rdcall' \in [RdCaller -> {RdIdle} \cup RdRequest] /\ rdcall'[h].ph = "go"
        /\ \A q \in RdCaller \ {h} : rdcall'[q] = calls[q]
    BY <2>2, <2>6, <2>7
  <2>9. WaitersOK'
    BY <1>2, <2>2, <2>3, <2>8 DEF WaitersOK
  <2>10. Promised' = Promised \cup {h} /\ h \notin Promised
    BY <1>2, <2>2, <2>4, <2>8 DEF Promised
  <2>11. Cardinality(Promised') = Cardinality(Promised) + 1
    BY <2>10, PromisedIs, FS_AddElement
  <2>12. Room' = Room /\ Room \in Int
    BY <2>11, SumsAre, PromisedIs DEF Room
  <2>13. AvailOK'
    <3>1. Len(rd_waiting) \in Nat /\ (rd_waiting' # <<>> <=> Len(rd_waiting') > 0)
      <4>1. \A s \in Seq(RdCaller) : s # <<>> <=> Len(s) > 0
        OBVIOUS
      <4>2. rd_waiting' \in Seq(RdCaller)
        BY <2>2, <2>3
      <4> QED BY <4>1, <4>2, SumsAre
    <3> QED BY <1>1, <1>4, <2>2, <2>3, <2>12, <3>1 DEF AvailOK
  <2> QED BY <2>2, <2>3, <2>4, <2>8, <2>9, <2>13, <1>1
<1> QED BY <1>3, <1>4

(* The request at the head leaves the queue, for the cache or the free     *)
(* list.                                                                   *)
Cachable(b) == rd_cache' = <<b>> \o rd_cache /\ rd_free' = rd_free /\ rd_buff[b].op # "sync"
Freed(b)    == rd_free' = <<b>> \o rd_free /\ rd_cache' = rd_cache /\ rd_buff[b].op = "sync"
Leaves(b) ==
  /\ rd_queue # <<>> /\ b = Head(rd_queue) /\ rd_queue' = Tail(rd_queue)
  /\ Cachable(b) \/ Freed(b)

LEMMA LeavesLists ==
  ASSUME RdBase, NEW b, Leaves(b)
  PROVE  /\ ListsOK' /\ b \in Requests /\ b \in RdBuffers /\ b \notin Copies
         /\ Requests' = Requests \ {b} /\ Len(rd_queue') = Len(rd_queue) - 1
         /\ Copies' = Copies \/ (Cachable(b) /\ Copies' = Copies \cup {b})
         /\ Len(rd_free') + Len(rd_cache') = Len(rd_free) + Len(rd_cache) + 1
         /\ Keeps(rd_queue, rd_queue')
         /\ \A y \in Requests' : Before(rd_queue, b, y)
         /\ \A x, y : Before(rd_cache', x, y) => x # y /\ (Before(rd_cache, x, y) \/ x = b)
<1>1. ListsOK /\ rd_queue # <<>> /\ b = Head(rd_queue) /\ rd_queue' = Tail(rd_queue)
  BY DEF RdBase, Leaves
<1>2. /\ b \in Requests /\ Lists(rd_queue', Requests \ {b}) /\ Len(rd_queue') = Len(rd_queue) - 1
      /\ Keeps(rd_queue, rd_queue') /\ \A y \in Requests \ {b} : Before(rd_queue, b, y)
  BY <1>1, HeadIs DEF ListsOK
<1>3. b \in RdBuffers \ Unused /\ b \in RdBuffers \ Copies
  BY <1>1, <1>2 DEF ListsOK
<1>4. Requests' = Requests \ {b}
  BY <1>2 DEF Lists, Requests
<1>5. Len(rd_free) \in Nat /\ Len(rd_cache) \in Nat
  BY <1>1 DEF ListsOK, Lists
<1>6. Lists(rd_free, Unused) /\ Lists(rd_cache, Copies)
  BY <1>1 DEF ListsOK
<1>7. CASE Cachable(b)
  <2>1. /\ Lists(<<b>> \o rd_cache, Copies \cup {b}) /\ Len(<<b>> \o rd_cache) = Len(rd_cache) + 1
        /\ \A x, y : Before(<<b>> \o rd_cache, x, y) => Before(rd_cache, x, y) \/ x = b
    BY ONLY <1>3, <1>6, FirstIs
  <2>2. rd_cache' = <<b>> \o rd_cache /\ rd_free' = rd_free
    BY <1>7 DEF Cachable
  <2>3. /\ Lists(rd_cache', Copies \cup {b}) /\ Len(rd_cache') = Len(rd_cache) + 1
        /\ \A x, y : Before(rd_cache', x, y) => Before(rd_cache, x, y) \/ x = b
    BY ONLY <2>1, <2>2
  <2>4. Copies' = Copies \cup {b} /\ Unused' = Unused
    BY <2>2, <2>3 DEF Lists, Copies, Unused
  <2>5. ListsOK'
    BY <1>1, <1>2, <1>3, <1>4, <1>6, <2>2, <2>3, <2>4 DEF ListsOK
  <2>6. \A x, y : Before(rd_cache', x, y) => x # y
    BY <2>3, BeforeIs
  <2> QED BY <1>2, <1>3, <1>4, <1>5, <1>7, <2>2, <2>3, <2>4, <2>5, <2>6
<1>8. CASE Freed(b)
  <2>1. /\ Lists(<<b>> \o rd_free, Unused \cup {b}) /\ Len(<<b>> \o rd_free) = Len(rd_free) + 1
    BY ONLY <1>3, <1>6, FirstIs
  <2>2. rd_free' = <<b>> \o rd_free /\ rd_cache' = rd_cache
    BY <1>8 DEF Freed
  <2>3. Lists(rd_free', Unused \cup {b}) /\ Len(rd_free') = Len(rd_free) + 1
    BY ONLY <2>1, <2>2
  <2>4. Copies' = Copies /\ Unused' = Unused \cup {b} /\ Lists(rd_cache', Copies)
    BY <1>6, <2>2, <2>3 DEF Lists, Copies, Unused
  <2>5. ListsOK'
    BY <1>1, <1>2, <1>3, <1>4, <2>3, <2>4 DEF ListsOK
  <2>6. \A x, y : Before(rd_cache, x, y) => x # y
    BY <1>6, BeforeIs
  <2> QED BY <1>2, <1>3, <1>4, <1>5, <2>2, <2>3, <2>4, <2>5, <2>6
<1> QED BY <1>7, <1>8 DEF Leaves

(* The buffers are still for what they were requested for.                 *)
SameRequests ==
  \A c \in RdBuffers :
    /\ rd_buff'[c].op = rd_buff[c].op /\ rd_buff'[c].pid = rd_buff[c].pid
    /\ rd_buff'[c].blknum = rd_buff[c].blknum /\ rd_buff'[c].valid = rd_buff[c].valid
    /\ rd_buff[c].op = "write" => /\ rd_buff'[c].data = rd_buff[c].data
                                  /\ rd_buff'[c].refcnt = rd_buff[c].refcnt

LEMMA LeavesBuffers ==
  ASSUME RdBase, NEW b, Leaves(b), SameRequests,
         \A q \in RdCaller : rdcall[q].ph = "recv" =>
           \/ rdcall'[q].ph = "recv"
           \/ (rd_buff[b].op # "write" /\ q = rd_buff[b].pid)
  PROVE  BuffersOK'
<1>1. /\ b \in Requests /\ Requests' = Requests \ {b}
      /\ Copies' = Copies \/ (rd_buff[b].op # "sync" /\ Copies' = Copies \cup {b})
  BY LeavesLists DEF Cachable
<1>2. BuffersOK /\ Requests \subseteq RdBuffers /\ Copies \subseteq RdBuffers
  BY DEF RdBase, ListsOK
<1>3. ASSUME NEW c \in (Requests \cup Copies)'
      PROVE  /\ rd_buff'[c].op \in RdOps
             /\ rd_buff'[c].valid <=> rd_buff'[c].op = "write"
             /\ rd_buff'[c].op = "write" => rd_buff'[c].refcnt <= 0
  <2>1. c \in Requests \cup Copies /\ c \in RdBuffers
    BY <1>1, <1>2
  <2> QED BY <1>2, <2>1 DEF BuffersOK, SameRequests
<1>4. ASSUME NEW c \in Copies' PROVE rd_buff'[c].op # "sync"
  <2>1. c \in RdBuffers /\ (c \in Copies \/ (c = b /\ rd_buff[b].op # "sync"))
    BY <1>1, <1>2
  <2> QED BY <1>2, <2>1 DEF BuffersOK, SameRequests
<1>5. ASSUME NEW c \in Requests', rd_buff'[c].op # "write"
      PROVE  /\ rd_buff'[c].pid \in RdCaller /\ rdcall'[rd_buff'[c].pid].ph = "recv"
             /\ \A d \in Requests' :
                  rd_buff'[d].op # "write" /\ rd_buff'[d].pid = rd_buff'[c].pid => d = c
  <2>1. c \in Requests /\ c # b /\ c \in RdBuffers /\ b \in RdBuffers
    BY <1>1, <1>2
  <2>2. rd_buff[c].op # "write" /\ rd_buff'[c].pid = rd_buff[c].pid
    BY <1>5, <2>1 DEF SameRequests
  <2>3. /\ rd_buff[c].pid \in RdCaller /\ rdcall[rd_buff[c].pid].ph = "recv"
        /\ \A d \in Requests :
             rd_buff[d].op # "write" /\ rd_buff[d].pid = rd_buff[c].pid => d = c
    BY <1>2, <2>1, <2>2 DEF BuffersOK
  <2>4. rdcall'[rd_buff[c].pid].ph = "recv"
    BY <1>1, <2>1, <2>3
  <2>5. ASSUME NEW d \in Requests', rd_buff'[d].op # "write", rd_buff'[d].pid = rd_buff'[c].pid
        PROVE  d = c
    <3>1. d \in Requests /\ d \in RdBuffers
      BY <1>1, <1>2
    <3>2. rd_buff[d].op # "write" /\ rd_buff[d].pid = rd_buff[c].pid
      BY <2>2, <2>5, <3>1 DEF SameRequests
    <3> QED BY <2>3, <3>1, <3>2
  <2> QED BY <2>2, <2>3, <2>4, <2>5
<1> QED BY <1>3, <1>4, <1>5 DEF BuffersOK

LEMMA LeavesOrderly ==
  ASSUME RdBase, NEW b, Leaves(b), SameRequests, rdlast' = rdlast,
         NEW k \in RdBlock, Orderly(k)
  PROVE  OneWrite(k)' /\ NothingAfter(k)' /\ FirstCopy(k)'
<1>1. /\ b \in Requests /\ b \in RdBuffers /\ b \notin Copies /\ Requests' = Requests \ {b}
      /\ Copies' = Copies \/ (rd_buff[b].op # "sync" /\ Copies' = Copies \cup {b})
      /\ Keeps(rd_queue, rd_queue') /\ \A y \in Requests' : Before(rd_queue, b, y)
      /\ \A x, y : Before(rd_cache', x, y) => x # y /\ (Before(rd_cache, x, y) \/ x = b)
  BY LeavesLists DEF Cachable
<1>2. /\ Requests \subseteq RdBuffers /\ Copies \subseteq RdBuffers /\ rd_buff[b].op \in RdOps
      /\ Lists(rd_cache, Copies)
  BY <1>1 DEF RdBase, ListsOK, BuffersOK
<1>3. OneWrite(k) /\ NothingAfter(k) /\ FirstCopy(k)
  BY DEF Orderly
<1>4. \A c \in RdBuffers : /\ IsWrite(c, k)' <=> IsWrite(c, k)
                           /\ IsRead(c, k)' <=> IsRead(c, k)
                           /\ rd_buff'[c].blknum = rd_buff[c].blknum
                           /\ IsWrite(c, k) => rd_buff'[c].data = rd_buff[c].data
  BY DEF IsWrite, IsRead, SameRequests
<1>5. (Requests \cup Copies)' \subseteq Requests \cup Copies
  BY <1>1
<1>6. OneWrite(k)'
  <2> SUFFICES ASSUME NEW c \in (Requests \cup Copies)', IsWrite(c, k)'
               PROVE  /\ rd_buff'[c].data = rdlast'[k]
                      /\ \A d \in (Requests \cup Copies)' : IsWrite(d, k)' => d = c
    BY DEF OneWrite
  <2>1. c \in Requests \cup Copies /\ c \in RdBuffers /\ IsWrite(c, k)
    BY <1>2, <1>4, <1>5
  <2>2. /\ rd_buff[c].data = rdlast[k]
        /\ \A d \in Requests \cup Copies : IsWrite(d, k) => d = c
    BY <1>3, <2>1 DEF OneWrite
  <2> QED BY <1>2, <1>4, <1>5, <2>1, <2>2
<1>7. NothingAfter(k)'
  <2> SUFFICES ASSUME NEW c \in Requests', NEW d \in Requests', IsWrite(c, k)',
                      Before(rd_queue', c, d), IsRead(d, k)'
               PROVE  FALSE
    BY DEF NothingAfter
  <2>1. c \in Requests /\ d \in Requests /\ IsWrite(c, k) /\ IsRead(d, k)
    BY <1>1, <1>2, <1>4
  <2>2. Before(rd_queue, c, d)
    BY <1>1 DEF Keeps
  <2> QED BY <1>3, <2>1, <2>2 DEF NothingAfter
<1>8. FirstCopy(k)'
  <2> SUFFICES ASSUME NEW c \in Copies', IsWrite(c, k)'
               PROVE  /\ \A d \in Copies' : Before(rd_cache', d, c) => rd_buff'[d].blknum # k
                      /\ \A d \in Requests' : ~IsRead(d, k)'
    BY DEF FirstCopy
  <2>1. c \in RdBuffers /\ IsWrite(c, k) /\ (c \in Copies \/ c = b)
    BY <1>1, <1>2, <1>4
  <2>2. CASE c = b
    <3>1. ASSUME NEW d \in Copies', Before(rd_cache', d, c) PROVE FALSE
      <4>1. Before(rd_cache, d, b)
        BY <1>1, <2>2, <3>1
      <4>2. b \in Copies
        BY ONLY <1>2, <4>1, BeforeIs
      <4> QED BY <1>1, <4>2
    <3>2. ASSUME NEW d \in Requests' PROVE ~IsRead(d, k)'
      <4>1. Before(rd_queue, b, d) /\ d \in Requests
        BY <1>1
      <4> QED BY <1>1, <1>2, <1>3, <1>4, <2>1, <2>2, <4>1 DEF NothingAfter
    <3> QED BY <3>1, <3>2
  <2>3. CASE c # b
    <3>1. /\ c \in Copies
          /\ \A d \in Copies : Before(rd_cache, d, c) => rd_buff[d].blknum # k
          /\ \A d \in Requests : ~IsRead(d, k)
      BY <1>3, <2>1, <2>3 DEF FirstCopy
    <3>2. \A d \in Requests' : ~IsRead(d, k)'
      BY <1>1, <1>2, <1>4, <3>1
    <3>3. ASSUME NEW d \in Copies', Before(rd_cache', d, c) PROVE rd_buff'[d].blknum # k
      <4>1. CASE d = b
        <5>1. ~IsRead(b, k)
          BY <1>1, <3>1
        <5>2. ~IsWrite(b, k)
          BY <1>1, <1>3, <2>1, <2>3, <3>1 DEF OneWrite
        <5>3. rd_buff[b].op # "sync"
          BY <1>1, <4>1
        <5> QED BY <1>1, <1>2, <1>4, <4>1, <5>1, <5>2, <5>3 DEF IsRead, IsWrite, RdOps
      <4>2. CASE d # b
        <5>1. d \in Copies /\ d \in RdBuffers /\ Before(rd_cache, d, c)
          BY <1>1, <1>2, <3>3, <4>2
        <5> QED BY <1>4, <3>1, <5>1
      <4> QED BY <4>1, <4>2
    <3> QED BY <3>2, <3>3
  <2> QED BY <2>2, <2>3
<1> QED BY <1>6, <1>7, <1>8

(* What rdsprocess is about to exchange for the request in buffer b.       *)
ExchangeFor(b) ==
  [ph |-> "send", op |-> rd_buff[b].op, buf |-> b, blk |-> rd_buff[b].blknum,
   data |-> rd_buff[b].data, tries |-> 0]

LEMMA HeadRequest ==
  ASSUME RdBase, rd_queue # <<>>, NEW b, b = Head(rd_queue)
  PROVE  /\ b \in Requests /\ b \in RdBuffers /\ rd_buff[b] \in RdBuffer
         /\ rd_buff[b].op \in {"read", "write"} =>
              /\ ExchangeFor(b) \in RdExchange /\ ExchangeFor(b).op = rd_buff[b].op
              /\ ExchangeFor(b).buf = b /\ ExchangeFor(b).blk = rd_buff[b].blknum
              /\ ExchangeFor(b).data = rd_buff[b].data /\ ExchangeFor(b) # ComWaits
<1>1. b \in Requests /\ b \in RdBuffers
  BY HeadIs DEF RdBase, ListsOK
<1>2. rd_buff[b] \in RdBuffer
  BY <1>1 DEF RdBase, RdTypeOK
<1>3. rd_buff[b].blknum \in RdBlock /\ rd_buff[b].data \in RdValue
  BY <1>2 DEF RdBuffer
<1>4. ASSUME rd_buff[b].op \in {"read", "write"}
      PROVE  /\ ExchangeFor(b) \in RdExchange /\ ExchangeFor(b).op = rd_buff[b].op
             /\ ExchangeFor(b).buf = b /\ ExchangeFor(b).blk = rd_buff[b].blknum
             /\ ExchangeFor(b).data = rd_buff[b].data /\ ExchangeFor(b).ph = "send"
  BY <1>1, <1>3, <1>4 DEF ExchangeFor, RdExchange
<1>5. ASSUME ExchangeFor(b).ph = "send" PROVE ExchangeFor(b) # ComWaits
  BY <1>5 DEF ComWaits
<1> QED BY <1>1, <1>2, <1>4, <1>5

(* A read stays in the queue while it is exchanged.                        *)
LEMMA TakesReadOK ==
  ASSUME RdRuns, rdcom = ComWaits, rd_reqsem > 0, rd_reqsem' = rd_reqsem - 1,
         NEW b, b = Head(rd_queue), rd_buff[b].op = "read", rdcom' = ExchangeFor(b),
         rd_seq' = rd_seq + 1,
         UNCHANGED <<rd_free, rd_queue, rd_cache, rd_availsem, rd_waiting, rdcall, rd_blk,
                     rd_buff, rdreplies, rdserver, rdlast, rddoubt, rdstolen, rdpanic>>,
         rdpanic = "no"
  PROVE  RdIInv'
<1>1. /\ RdBase /\ RdTypeOK /\ ListsOK /\ BuffersOK /\ ProcessOK /\ RepliesOK /\ WaitersOK /\ AvailOK
      /\ \A k \in RdBlock \ rddoubt : Orderly(k)
  BY DEF RdRuns, RdBase
<1>2. ~Sends("read") /\ ~Sends("write") /\ rd_reqsem \in Nat /\ rd_seq \in Nat
      /\ rdreplies \subseteq RdReply
  BY <1>1 DEF Sends, RdTypeOK, RdNetTypeOK
<1>3. Len(rd_queue) = rd_reqsem /\ rd_queue # <<>>
  BY <1>1, <1>2 DEF ProcessOK
<1>4. /\ rdcom' \in RdExchange /\ rdcom'.op = "read" /\ rdcom'.buf = b
      /\ rdcom'.blk = rd_buff[b].blknum /\ rdcom' # ComWaits
  BY <1>1, <1>3, HeadRequest
<1>5. Sends("read")' /\ ~Sends("write")'
  BY <1>4 DEF Sends
<1>6. RdTypeOK'
  BY <1>1, <1>2, <1>4 DEF RdTypeOK, RdNetTypeOK
<1>7. ListsOK' /\ Requests' = Requests /\ Copies' = Copies
  BY <1>1 DEF ListsOK, Unused, Requests, Copies
<1>8. BuffersOK'
  BY <1>1, <1>7 DEF BuffersOK
<1>9. ProcessOK'
  BY <1>2, <1>3, <1>4, <1>5 DEF ProcessOK
<1>10. RepliesOK'
  <2>1. \A m \in rdreplies : m.seq <= rd_seq'
    <3>1. \A m \in rdreplies : m.seq \in Nat /\ m.seq <= rd_seq
      BY <1>1, <1>2 DEF RepliesOK, RdReply
    <3> QED BY <1>2, <3>1
  <2> QED BY <1>5, <2>1 DEF RepliesOK
<1>11. ASSUME NEW k \in RdBlock \ rddoubt PROVE Orderly(k)'
  <2>1. OneWrite(k) /\ NothingAfter(k) /\ FirstCopy(k) /\ Landed(k)
    BY <1>1 DEF Orderly
  <2>2. OneWrite(k)' /\ NothingAfter(k)' /\ FirstCopy(k)'
    BY <1>7, <2>1 DEF OneWrite, NothingAfter, FirstCopy, IsWrite, IsRead
  <2>3. Landed(k)'
    BY <1>2, <1>5, <1>7, <2>1 DEF Landed, IsWrite
  <2> QED BY <2>2, <2>3 DEF Orderly
<1>12. Promised' = Promised
  BY DEF Promised
<1>13. WaitersOK' /\ AvailOK'
  <2>1. WaitersOK'
    BY <1>1 DEF WaitersOK
  <2> QED BY <1>1, <1>12, <2>1, AvailKept
<1> QED BY <1>6, <1>7, <1>8, <1>9, <1>10, <1>11, <1>13 DEF RdIInv, RdBase

(* A write goes to the cache, and then to the server.                      *)
LEMMA TakesWriteOK ==
  ASSUME RdRuns, rdcom = ComWaits, rd_reqsem > 0, rd_reqsem' = rd_reqsem - 1,
         NEW b, b = Head(rd_queue), rd_buff[b].op = "write", rdcom' = ExchangeFor(b),
         rd_seq' = rd_seq + 1, rd_blk' = rd_buff[b].blknum,
         rd_queue' = Tail(rd_queue), rd_cache' = <<b>> \o rd_cache, Available(rdcall),
         UNCHANGED <<rd_free, rd_buff, rdreplies, rdserver, rdlast, rddoubt, rdstolen, rdpanic>>,
         rdpanic = "no"
  PROVE  RdIInv'
<1>1. /\ RdBase /\ RdTypeOK /\ ListsOK /\ BuffersOK /\ ProcessOK /\ RepliesOK /\ WaitersOK /\ AvailOK
      /\ \A k \in RdBlock \ rddoubt : Orderly(k)
  BY DEF RdRuns, RdBase
<1>2. /\ ~Sends("read") /\ ~Sends("write") /\ rd_reqsem \in Nat /\ rd_seq \in Nat
      /\ rdreplies \subseteq RdReply /\ rdcall \in [RdCaller -> {RdIdle} \cup RdRequest]
  BY <1>1 DEF Sends, RdTypeOK, RdNetTypeOK
<1>3. Len(rd_queue) = rd_reqsem /\ rd_queue # <<>>
  BY <1>1, <1>2 DEF ProcessOK
<1>4. /\ rdcom' \in RdExchange /\ rdcom'.op = "write"
      /\ rdcom'.blk = rd_buff[b].blknum /\ rdcom'.data = rd_buff[b].data /\ rdcom' # ComWaits
      /\ rd_buff[b] \in RdBuffer
  BY <1>1, <1>3, HeadRequest
<1>5. Sends("write")' /\ ~Sends("read")'
  BY <1>4 DEF Sends
<1>6. Leaves(b) /\ SameRequests
  BY <1>3 DEF Leaves, Cachable, SameRequests
<1>7. /\ ListsOK' /\ Requests' = Requests \ {b} /\ Len(rd_queue') = Len(rd_queue) - 1
      /\ b \in Requests /\ Len(rd_free') + Len(rd_cache') = Len(rd_free) + Len(rd_cache) + 1
  BY <1>1, <1>6, LeavesLists
<1>8. /\ WaitersOK' /\ AvailOK' /\ rdcall' \in [RdCaller -> {RdIdle} \cup RdRequest]
      /\ rd_waiting' \in Seq(RdCaller) /\ rd_availsem' \in Int
      /\ \A q \in RdCaller : rdcall[q].ph = "recv" => rdcall'[q].ph = "recv"
  BY <1>1, <1>2, <1>7, AvailableOK
<1>9. RdTypeOK'
  <2>1. rd_blk' \in RdBlock
    BY <1>4 DEF RdBuffer
  <2> QED BY <1>1, <1>2, <1>4, <1>8, <2>1 DEF RdTypeOK, RdNetTypeOK
<1>10. BuffersOK'
  BY <1>1, <1>6, <1>8, LeavesBuffers
<1>11. ProcessOK'
  BY <1>2, <1>3, <1>5, <1>7 DEF ProcessOK
<1>12. RepliesOK'
  <2>1. \A m \in rdreplies : m.seq <= rd_seq' /\ m.seq # rd_seq'
    <3>1. \A m \in rdreplies : m.seq \in Nat /\ m.seq <= rd_seq
      BY <1>1, <1>2 DEF RepliesOK, RdReply
    <3> QED BY <1>2, <3>1
  <2> QED BY <1>4, <1>5, <2>1 DEF RepliesOK
<1>13. ASSUME NEW k \in RdBlock \ rddoubt PROVE Orderly(k)'
  <2>1. Orderly(k) /\ OneWrite(k) /\ Landed(k)
    BY <1>1 DEF Orderly
  <2>2. OneWrite(k)' /\ NothingAfter(k)' /\ FirstCopy(k)'
    BY <1>1, <1>6, <2>1, LeavesOrderly
  <2>3. Landed(k)'
    <3> SUFFICES ASSUME \A c \in Requests' : ~IsWrite(c, k)'
                 PROVE  rdlast[k] = IF rdcom'.blk = k THEN rdcom'.data ELSE rdserver[k]
      BY <1>5 DEF Landed
    <3>1. \A c \in Requests : c # b => ~IsWrite(c, k)
      BY <1>7 DEF IsWrite
    <3>2. IsWrite(b, k) <=> rdcom'.blk = k
      BY <1>4 DEF IsWrite
    <3>3. CASE rdcom'.blk = k
      BY <1>4, <1>7, <2>1, <3>2, <3>3 DEF OneWrite
    <3>4. CASE rdcom'.blk # k
      BY <1>2, <2>1, <3>1, <3>2, <3>4 DEF Landed
    <3> QED BY <3>3, <3>4
  <2> QED BY <2>2, <2>3 DEF Orderly
<1> QED BY <1>7, <1>8, <1>9, <1>10, <1>11, <1>12, <1>13 DEF RdIInv, RdBase

(* A synchronization is answered by taking it.                             *)
LEMMA TakesSyncOK ==
  ASSUME RdRuns, rdcom = ComWaits, rd_reqsem > 0, rd_reqsem' = rd_reqsem - 1,
         NEW b, b = Head(rd_queue), rd_buff[b].op = "sync",
         rd_queue' = Tail(rd_queue), rd_free' = <<b>> \o rd_free,
         Available([rdcall EXCEPT ![rd_buff[b].pid] = RdIdle]),
         UNCHANGED <<rd_cache, rdcom, rd_blk, rd_seq, rd_buff, rdreplies, rdserver, rdlast,
                     rddoubt, rdstolen, rdpanic>>,
         rdpanic = "no"
  PROVE  RdIInv'
<1>1. /\ RdBase /\ RdTypeOK /\ ListsOK /\ BuffersOK /\ ProcessOK /\ RepliesOK /\ WaitersOK /\ AvailOK
      /\ \A k \in RdBlock \ rddoubt : Orderly(k)
  BY DEF RdRuns, RdBase
<1>2. /\ ~Sends("read") /\ ~Sends("write") /\ rd_reqsem \in Nat
      /\ rdcall \in [RdCaller -> {RdIdle} \cup RdRequest]
  BY <1>1 DEF Sends, RdTypeOK
<1>3. Len(rd_queue) = rd_reqsem /\ rd_queue # <<>>
  BY <1>1, <1>2 DEF ProcessOK
<1>4. Leaves(b) /\ SameRequests
  BY <1>3 DEF Leaves, Freed, SameRequests
<1>5. /\ ListsOK' /\ Requests' = Requests \ {b} /\ Len(rd_queue') = Len(rd_queue) - 1
      /\ b \in Requests /\ Len(rd_free') + Len(rd_cache') = Len(rd_free) + Len(rd_cache) + 1
  BY <1>1, <1>4, LeavesLists
<1>6. PICK p : p = rd_buff[b].pid
  OBVIOUS
<1>7. p \in RdCaller /\ rdcall[p].ph = "recv"
  BY <1>1, <1>5, <1>6 DEF BuffersOK
<1>8. PICK calls : calls = [rdcall EXCEPT ![p] = RdIdle]
  OBVIOUS
<1>9. /\ calls \in [RdCaller -> {RdIdle} \cup RdRequest] /\ calls[p].ph = "idle"
      /\ \A q \in RdCaller \ {p} : calls[q] = rdcall[q]
  BY <1>2, <1>7, <1>8 DEF RdIdle
<1>10. Available(calls)
  BY <1>6, <1>8
<1>11. \A q \in RdCaller : \/ calls[q].ph = rdcall[q].ph
                           \/ rdcall[q].ph = "recv" /\ calls[q].ph \in {"idle", "got"}
  BY <1>7, <1>9
<1>12. /\ WaitersOK' /\ AvailOK' /\ rdcall' \in [RdCaller -> {RdIdle} \cup RdRequest]
       /\ rd_waiting' \in Seq(RdCaller) /\ rd_availsem' \in Int
       /\ \A q \in RdCaller : calls[q].ph = "recv" => rdcall'[q].ph = "recv"
  BY <1>1, <1>5, <1>9, <1>10, <1>11, AvailableOK
<1>13. RdTypeOK'
  BY <1>1, <1>2, <1>12 DEF RdTypeOK, RdNetTypeOK
<1>14. BuffersOK'
  <2>1. \A q \in RdCaller : rdcall[q].ph = "recv" =>
           \/ rdcall'[q].ph = "recv"
           \/ (rd_buff[b].op # "write" /\ q = rd_buff[b].pid)
    BY <1>6, <1>9, <1>12
  <2> QED BY <1>1, <1>4, <2>1, LeavesBuffers
<1>15. ProcessOK'
  BY <1>2, <1>3, <1>5 DEF ProcessOK, Sends
<1>16. RepliesOK'
  BY <1>1 DEF RepliesOK, Sends
<1>17. ASSUME NEW k \in RdBlock \ rddoubt PROVE Orderly(k)'
  <2>1. Orderly(k) /\ Landed(k)
    BY <1>1 DEF Orderly
  <2>2. OneWrite(k)' /\ NothingAfter(k)' /\ FirstCopy(k)'
    BY <1>1, <1>4, <2>1, LeavesOrderly
  <2>3. Landed(k)'
    <3> SUFFICES ASSUME \A c \in Requests' : ~IsWrite(c, k)'
                 PROVE  rdlast[k] = rdserver[k]
      BY <1>2 DEF Landed, Sends
    <3>1. \A c \in Requests : ~IsWrite(c, k)
      BY <1>5 DEF IsWrite
    <3> QED BY <1>2, <2>1, <3>1 DEF Landed
  <2> QED BY <2>2, <2>3 DEF Orderly
<1> QED BY <1>5, <1>12, <1>13, <1>14, <1>15, <1>16, <1>17 DEF RdIInv, RdBase

LEMMA RdsTakesOK ==
  ASSUME RdIInv, RdsTakes
  PROVE  RdIInv'
<1>1. RdRuns /\ rdcom = ComWaits /\ rd_reqsem > 0 /\ rd_reqsem' = rd_reqsem - 1 /\ rdpanic = "no"
      /\ UNCHANGED <<rd_buff, rdreplies, rdserver, rdlast, rddoubt, rdstolen, rdpanic>>
  BY Running DEF RdsTakes, rdghost
<1>2. PICK b : b = Head(rd_queue)
  OBVIOUS
<1>3. CASE /\ rd_buff[b].op = "read" /\ rdcom' = ExchangeFor(b) /\ rd_seq' = rd_seq + 1
           /\ UNCHANGED <<rd_free, rd_queue, rd_cache, rd_availsem, rd_waiting, rdcall, rd_blk>>
  BY <1>1, <1>2, <1>3, TakesReadOK
<1>4. CASE /\ rd_buff[b].op = "write" /\ rdcom' = ExchangeFor(b) /\ rd_seq' = rd_seq + 1
           /\ rd_blk' = rd_buff[b].blknum
           /\ rd_queue' = Tail(rd_queue) /\ rd_cache' = <<b>> \o rd_cache
           /\ Available(rdcall) /\ UNCHANGED rd_free
  BY <1>1, <1>2, <1>4, TakesWriteOK
<1>5. CASE /\ rd_buff[b].op = "sync"
           /\ rd_queue' = Tail(rd_queue) /\ rd_free' = <<b>> \o rd_free
           /\ Available([rdcall EXCEPT ![rd_buff[b].pid] = RdIdle])
           /\ UNCHANGED <<rd_cache, rdcom, rd_blk, rd_seq>>
  BY <1>1, <1>2, <1>5, TakesSyncOK
<1> QED BY <1>2, <1>3, <1>4, <1>5 DEF RdsTakes, ExchangeFor

(* A round of an exchange: the server may have done what it is told.       *)
LEMMA ComMoves ==
  ASSUME RdRuns, rdcom \in RdExchange, NEW n \in RdExchange,
         n.op = rdcom.op, n.buf = rdcom.buf, n.blk = rdcom.blk, n.data = rdcom.data, rdcom' = n,
         UNCHANGED <<rd_free, rd_queue, rd_cache, rd_buff, rd_availsem, rd_waiting, rd_reqsem,
                     rdcall, rd_blk, rd_seq, rdlast, rddoubt, rdstolen>>,
         rdpanic' \in {"no", "comm"}, rdreplies' \subseteq RdReply,
         rdserver' \in [RdBlock -> RdValue],
         \A m \in rdreplies' :
           m \in rdreplies \/ (m.seq = rd_seq /\ (rdcom.op = "write" =>
                                                    rdserver'[rd_blk] = rdcom.data)),
         \A k \in RdBlock :
           rdserver'[k] = rdserver[k] \/ (rdcom.op = "write" /\ k = rd_blk
                                          /\ rdserver'[k] = rdcom.data)
  PROVE  RdIInv'
<1>1. /\ RdBase /\ RdTypeOK /\ ListsOK /\ BuffersOK /\ ProcessOK /\ RepliesOK /\ WaitersOK /\ AvailOK
      /\ \A k \in RdBlock \ rddoubt : Orderly(k)
  BY DEF RdRuns, RdBase
<1>2. rdcom # ComWaits /\ rdcom' # ComWaits /\ rd_seq \in Nat /\ rd_blk \in RdBlock
      /\ rdreplies \subseteq RdReply
  <2>1. rdcom.ph \in {"send", "recv"} /\ n.ph \in {"send", "recv"}
    BY DEF RdExchange
  <2>2. ASSUME NEW c, c.ph \in {"send", "recv"} PROVE c # ComWaits
    BY <2>2 DEF ComWaits
  <2> QED BY <1>1, <2>1, <2>2 DEF RdTypeOK, RdNetTypeOK
<1>3. /\ Sends("read")' <=> Sends("read")
      /\ Sends("write")' <=> Sends("write")
      /\ Sends("write") <=> rdcom.op = "write"
  BY <1>2 DEF Sends
<1>4. RdTypeOK'
  BY <1>1 DEF RdTypeOK, RdNetTypeOK
<1>5. ListsOK' /\ Requests' = Requests /\ Copies' = Copies
  BY <1>1 DEF ListsOK, Unused, Requests, Copies
<1>6. BuffersOK'
  BY <1>1, <1>5 DEF BuffersOK
<1>7. ProcessOK'
  BY <1>1, <1>3 DEF ProcessOK
<1>8. RepliesOK'
  <2>1. \A m \in rdreplies' : m.seq <= rd_seq
    BY <1>1, <1>2 DEF RepliesOK
  <2>2. ASSUME Sends("write"), rd_blk \notin rddoubt, NEW m \in rdreplies', m.seq = rd_seq
        PROVE  rdserver'[rd_blk] = rdcom.data
    BY <1>1, <1>2, <1>3, <2>2 DEF RepliesOK
  <2>3. Sends("write") => rd_blk = rdcom.blk
    BY <1>1 DEF RepliesOK
  <2> QED BY <1>3, <2>1, <2>2, <2>3 DEF RepliesOK
<1>9. ASSUME NEW k \in RdBlock \ rddoubt PROVE Orderly(k)'
  <2>1. OneWrite(k) /\ NothingAfter(k) /\ FirstCopy(k) /\ Landed(k)
    BY <1>1 DEF Orderly
  <2>2. OneWrite(k)' /\ NothingAfter(k)' /\ FirstCopy(k)'
    BY <1>5, <2>1 DEF OneWrite, NothingAfter, FirstCopy, IsWrite, IsRead
  <2>3. Landed(k)'
    <3> SUFFICES ASSUME \A c \in Requests : ~IsWrite(c, k)
                 PROVE  rdlast[k] = IF Sends("write") /\ rdcom.blk = k THEN rdcom.data
                                    ELSE rdserver'[k]
      BY <1>3, <1>5 DEF Landed, IsWrite
    <3>1. rdlast[k] = IF Sends("write") /\ rdcom.blk = k THEN rdcom.data ELSE rdserver[k]
      BY <2>1 DEF Landed
    <3>2. Sends("write") => rd_blk = rdcom.blk
      BY <1>1 DEF RepliesOK
    <3> QED BY <1>3, <3>1, <3>2
  <2> QED BY <2>2, <2>3 DEF Orderly
<1>10. WaitersOK' /\ AvailOK'
  <2>1. WaitersOK'
    BY <1>1 DEF WaitersOK
  <2>2. Promised' = Promised
    BY DEF Promised
  <2> QED BY <1>1, <2>1, <2>2, AvailKept
<1> QED BY <1>4, <1>5, <1>6, <1>7, <1>8, <1>9, <1>10 DEF RdIInv, RdBase

LEMMA Exchanging ==
  ASSUME RdIInv, rdcom.ph \in {"send", "recv"}, rdpanic = "no"
  PROVE  /\ RdRuns /\ rdcom \in RdExchange /\ rdcom # ComWaits /\ rdreplies \subseteq RdReply
         /\ rdserver \in [RdBlock -> RdValue] /\ rd_seq \in Nat /\ rd_blk \in RdBlock
<1>1. RdRuns /\ RdNetTypeOK
  BY Running DEF RdRuns, RdBase, RdTypeOK
<1> QED BY <1>1 DEF RdNetTypeOK, ComWaits

LEMMA RdsSendsOK ==
  ASSUME RdIInv, RdsSends
  PROVE  RdIInv'
<1>1. /\ RdRuns /\ rdcom \in RdExchange /\ rdreplies \subseteq RdReply
      /\ rdserver \in [RdBlock -> RdValue] /\ rd_seq \in Nat /\ rd_blk \in RdBlock
  BY Exchanging DEF RdsSends
<1>2. /\ UNCHANGED <<rd_free, rd_queue, rd_cache, rd_buff, rd_availsem, rd_waiting, rd_reqsem,
                     rdcall, rd_blk, rd_seq, rdlast, rddoubt, rdstolen>>
      /\ rdpanic' \in {"no", "comm"}
  BY DEF RdsSends, rdlists, rdghost
<1>3. PICK n : n = [rdcom EXCEPT !.ph = "recv"]
  OBVIOUS
<1>4. /\ n \in RdExchange /\ rdcom' = n
      /\ n.op = rdcom.op /\ n.buf = rdcom.buf /\ n.blk = rdcom.blk /\ n.data = rdcom.data
  BY <1>1, <1>3 DEF RdExchange, RdsSends
<1>5. rdcom.op \in {"read", "write"} /\ rdcom.data \in RdValue
  BY <1>1 DEF RdExchange
<1>6. CASE UNCHANGED <<rdserver, rdreplies>>
  BY <1>1, <1>2, <1>4, <1>6, ComMoves
<1>7. CASE /\ rdserver' = IF rdcom.op = "write" THEN [rdserver EXCEPT ![rd_blk] = rdcom.data]
                          ELSE rdserver
           /\ \E lost \in BOOLEAN :
                rdreplies' = IF lost THEN rdreplies
                             ELSE rdreplies \cup
                                    {[seq |-> rd_seq, op |-> rdcom.op, blk |-> rd_blk,
                                      data |-> IF rdcom.op = "read" THEN rdserver[rd_blk]
                                               ELSE RdNone]}
  <2>1. PICK m : m = [seq |-> rd_seq, op |-> rdcom.op, blk |-> rd_blk,
                      data |-> IF rdcom.op = "read" THEN rdserver[rd_blk] ELSE RdNone]
    OBVIOUS
  <2>2. m \in RdReply /\ m.seq = rd_seq
    <3>1. (IF rdcom.op = "read" THEN rdserver[rd_blk] ELSE RdNone) \in RdValue
      BY <1>1 DEF RdValue
    <3> QED BY <1>1, <1>5, <2>1, <3>1 DEF RdReply
  <2>3. rdreplies' \subseteq rdreplies \cup {m}
    BY <1>7, <2>1
  <2>4. /\ rdserver' \in [RdBlock -> RdValue]
        /\ rdcom.op = "write" => rdserver'[rd_blk] = rdcom.data
        /\ \A k \in RdBlock :
             rdserver'[k] = rdserver[k] \/ (rdcom.op = "write" /\ k = rd_blk
                                            /\ rdserver'[k] = rdcom.data)
    <3>1. CASE rdcom.op = "write"
      BY <1>1, <1>5, <1>7, <3>1
    <3>2. CASE rdcom.op # "write"
      BY <1>1, <1>7, <3>2
    <3> QED BY <3>1, <3>2
  <2>5. rdreplies' \subseteq RdReply
    BY <1>1, <2>2, <2>3
  <2>6. \A x \in rdreplies' :
          x \in rdreplies \/ (x.seq = rd_seq /\ (rdcom.op = "write" =>
                                                   rdserver'[rd_blk] = rdcom.data))
    BY <2>2, <2>3, <2>4
  <2> QED BY <1>1, <1>2, <1>4, <2>4, <2>5, <2>6, ComMoves
<1> QED BY <1>6, <1>7 DEF RdsSends

LEMMA NextTryOK ==
  ASSUME RdRuns, rdcom \in RdExchange, rdpanic = "no", NEW ph \in {"send", "recv"}, NextTry(ph),
         UNCHANGED <<rd_free, rd_queue, rd_cache, rd_buff, rd_availsem, rd_waiting, rd_reqsem,
                     rdcall, rd_blk, rd_seq, rdlast, rddoubt, rdstolen, rdserver>>,
         rdreplies' \subseteq rdreplies
  PROVE  RdIInv'
<1>1. PICK n : n = [rdcom EXCEPT !.ph = ph, !.tries = @ + 1]
  OBVIOUS
<1>2. /\ n \in RdExchange /\ rdcom' = n /\ rdpanic' \in {"no", "comm"}
      /\ n.op = rdcom.op /\ n.buf = rdcom.buf /\ n.blk = rdcom.blk /\ n.data = rdcom.data
  <2>1. rdcom' = n
    BY <1>1 DEF NextTry
  <2>2. rdpanic' \in {"no", "comm"}
    BY DEF NextTry
  <2>3. rdcom.tries + 1 \in Nat
    BY DEF RdExchange
  <2>4. PICK k : k = rdcom.tries + 1
    OBVIOUS
  <2>5. n = [rdcom EXCEPT !.ph = ph, !.tries = k]
    BY <1>1, <2>4
  <2>6. /\ n \in RdExchange
        /\ n.op = rdcom.op /\ n.buf = rdcom.buf /\ n.blk = rdcom.blk /\ n.data = rdcom.data
    BY <2>3, <2>4, <2>5 DEF RdExchange
  <2> QED BY <2>1, <2>2, <2>6
<1>3. rdreplies \subseteq RdReply /\ rdserver \in [RdBlock -> RdValue]
  BY DEF RdRuns, RdBase, RdTypeOK, RdNetTypeOK
<1>4. rdreplies' \subseteq RdReply /\ rdserver' \in [RdBlock -> RdValue]
  BY <1>3
<1> QED BY <1>2, <1>4, ComMoves

LEMMA RdsTimesOutOK ==
  ASSUME RdIInv, RdsTimesOut
  PROVE  RdIInv'
<1>1. RdRuns /\ rdcom \in RdExchange /\ rdpanic = "no" /\ NextTry("send")
  BY Exchanging DEF RdsTimesOut
<1>2. /\ UNCHANGED <<rd_free, rd_queue, rd_cache, rd_buff, rd_availsem, rd_waiting, rd_reqsem,
                     rdcall, rd_blk, rd_seq, rdlast, rddoubt, rdstolen, rdserver>>
      /\ rdreplies' \subseteq rdreplies
  BY DEF RdsTimesOut, rdlists, rdghost
<1> QED BY <1>1, <1>2, NextTryOK

(* A write is answered.  If the answer was to an earlier request, the      *)
(* server may have none of it: the block is in doubt.                      *)
LEMMA WriteAnsweredOK ==
  ASSUME RdRuns, rdcom \in RdExchange, rdcom.op = "write", rdcom # ComWaits,
         NEW m \in rdreplies, rdreplies' = rdreplies \ {m}, rdcom' = ComWaits,
         rddoubt' = IF m.seq < rd_seq THEN rddoubt \cup {rdcom.blk} ELSE rddoubt,
         UNCHANGED <<rd_free, rd_queue, rd_cache, rd_buff, rd_availsem, rd_waiting, rd_reqsem,
                     rdcall, rd_blk, rd_seq, rdserver, rdlast, rdstolen, rdpanic>>,
         rdpanic = "no"
  PROVE  RdIInv'
<1>1. /\ RdBase /\ RdTypeOK /\ ListsOK /\ BuffersOK /\ ProcessOK /\ RepliesOK /\ WaitersOK /\ AvailOK
      /\ \A k \in RdBlock \ rddoubt : Orderly(k)
  BY DEF RdRuns, RdBase
<1>2. ~Sends("read") /\ Sends("write") /\ ~Sends("read")' /\ ~Sends("write")'
  BY DEF Sends
<1>3. rdcom.blk \in RdBlock /\ rd_seq \in Nat /\ rdreplies \subseteq RdReply
  BY <1>1 DEF RdExchange, RdTypeOK, RdNetTypeOK
<1>4. RdTypeOK'
  <2>1. rddoubt' \subseteq RdBlock
    BY <1>1, <1>3 DEF RdTypeOK
  <2> QED BY <1>1, <2>1 DEF RdTypeOK, RdNetTypeOK
<1>5. ListsOK' /\ Requests' = Requests /\ Copies' = Copies
  BY <1>1 DEF ListsOK, Unused, Requests, Copies
<1>6. BuffersOK'
  BY <1>1, <1>5 DEF BuffersOK
<1>7. ProcessOK' /\ RepliesOK'
  BY <1>1, <1>2 DEF ProcessOK, RepliesOK
<1>8. ASSUME NEW k \in RdBlock \ rddoubt' PROVE Orderly(k)'
  <2>1. OneWrite(k) /\ NothingAfter(k) /\ FirstCopy(k) /\ Landed(k) /\ k \notin rddoubt
    BY <1>1 DEF Orderly
  <2>2. OneWrite(k)' /\ NothingAfter(k)' /\ FirstCopy(k)'
    BY <1>5, <2>1 DEF OneWrite, NothingAfter, FirstCopy, IsWrite, IsRead
  <2>3. Landed(k)'
    <3> SUFFICES ASSUME \A c \in Requests : ~IsWrite(c, k)
                 PROVE  rdlast[k] = rdserver[k]
      BY <1>2, <1>5 DEF Landed, IsWrite
    <3>1. rdlast[k] = IF rdcom.blk = k THEN rdcom.data ELSE rdserver[k]
      BY <1>2, <2>1 DEF Landed
    <3>2. CASE rdcom.blk = k
      <4>1. ~(m.seq < rd_seq) /\ m.seq <= rd_seq /\ m.seq \in Nat
        BY <1>1, <1>3, <3>2 DEF RepliesOK, RdReply
      <4>2. m.seq = rd_seq
        BY <1>3, <4>1
      <4>3. rd_blk = k /\ rdserver[rd_blk] = rdcom.data
        BY <1>1, <1>2, <2>1, <3>2, <4>2 DEF RepliesOK
      <4> QED BY <3>1, <3>2, <4>3
    <3> QED BY <3>1, <3>2
  <2> QED BY <2>2, <2>3 DEF Orderly
<1>9. Promised' = Promised /\ WaitersOK'
  BY <1>1 DEF Promised, WaitersOK
<1>10. AvailOK'
  BY <1>1, <1>9, AvailKept
<1> QED BY <1>4, <1>5, <1>6, <1>7, <1>8, <1>9, <1>10 DEF RdIInv, RdBase

ReadGiven(m, b, p) ==
  /\ rd_buff' = [rd_buff EXCEPT ![b].data = m.data, ![b].of = m.blk, ![b].refcnt = 1]
  /\ rd_queue' = Tail(rd_queue) /\ rd_cache' = <<b>> \o rd_cache
  /\ Available([rdcall EXCEPT ![p].ph = "got", ![p].buf = b])

(* A read is answered: its buffer becomes the first copy, and the process  *)
(* that asked has it.                                                      *)
LEMMA ReadAnsweredOK ==
  ASSUME RdRuns, rdcom \in RdExchange, rdcom.op = "read", rdcom # ComWaits,
         NEW m \in rdreplies, rdreplies' = rdreplies \ {m}, rdcom' = ComWaits,
         rddoubt' = IF m.seq < rd_seq THEN rddoubt \cup {rdcom.blk} ELSE rddoubt,
         NEW b, b = rdcom.buf, NEW p, p = rd_buff[b].pid, ReadGiven(m, b, p),
         UNCHANGED <<rd_free, rd_reqsem, rd_blk, rd_seq, rdserver, rdlast, rdstolen>>,
         rdpanic' \in {"no", "tangled"}
  PROVE  RdIInv'
<1>1. /\ RdBase /\ RdTypeOK /\ ListsOK /\ BuffersOK /\ ProcessOK /\ RepliesOK /\ WaitersOK /\ AvailOK
      /\ \A k \in RdBlock \ rddoubt : Orderly(k)
  BY DEF RdRuns, RdBase
<1>2. Sends("read") /\ ~Sends("write") /\ ~Sends("read")' /\ ~Sends("write")'
  BY DEF Sends
<1>3. /\ rdcom.blk \in RdBlock /\ rdcom.buf \in RdBuffers /\ rd_reqsem \in Nat
      /\ m \in RdReply /\ m.data \in RdValue /\ m.blk \in RdBlock
      /\ rdcall \in [RdCaller -> {RdIdle} \cup RdRequest]
      /\ rd_buff \in [RdBuffers -> RdBuffer]
  BY <1>1 DEF RdExchange, RdTypeOK, RdNetTypeOK, RdReply
<1>4. /\ Len(rd_queue) = rd_reqsem + 1 /\ b = Head(rd_queue) /\ rd_buff[b].op = "read"
      /\ rd_queue # <<>>
  <2>1. Len(rd_queue) = rd_reqsem + 1 /\ b = Head(rd_queue) /\ rd_buff[b].op = "read"
    BY <1>1, <1>2 DEF ProcessOK
  <2>2. rd_reqsem \in Nat
    BY <1>3
  <2> QED BY ONLY <2>1, <2>2
<1>5. PICK n : n = [rd_buff[b] EXCEPT !.data = m.data, !.of = m.blk, !.refcnt = 1]
  OBVIOUS
<1>6. b \in RdBuffers /\ rd_buff[b] \in RdBuffer /\ n \in RdBuffer
      /\ n.op = rd_buff[b].op /\ n.pid = rd_buff[b].pid /\ n.blknum = rd_buff[b].blknum
      /\ n.valid = rd_buff[b].valid
  <2>1. b \in RdBuffers /\ rd_buff[b] \in RdBuffer
    BY <1>3
  <2>2. PICK o, d, k : o = rd_buff[b] /\ d = m.data /\ k = m.blk
    OBVIOUS
  <2>3. o \in RdBuffer /\ d \in RdValue /\ k \in RdBlock
    BY <1>3, <2>1, <2>2
  <2>4. n = [o EXCEPT !.data = d, !.of = k, !.refcnt = 1]
    BY <1>5, <2>2
  <2>5. /\ n \in RdBuffer /\ n.op = o.op /\ n.pid = o.pid /\ n.blknum = o.blknum
        /\ n.valid = o.valid
    <3>1. /\ n.op = o.op /\ n.pid = o.pid /\ n.blknum = o.blknum /\ n.valid = o.valid
          /\ n.data = d /\ n.of = k /\ n.refcnt = 1
      BY ONLY <2>3, <2>4 DEF RdBuffer
    <3>2. n = [op |-> n.op, refcnt |-> n.refcnt, blknum |-> n.blknum, valid |-> n.valid,
               pid |-> n.pid, data |-> n.data, of |-> n.of]
      BY ONLY <2>3, <2>4 DEF RdBuffer
    <3>3. /\ o.op \in RdOps \cup {RdNone} /\ o.blknum \in RdBlock /\ o.valid \in BOOLEAN
          /\ o.pid \in RdCaller \cup {RdNone}
      BY ONLY <2>3 DEF RdBuffer
    <3> QED BY ONLY <2>3, <3>1, <3>2, <3>3 DEF RdBuffer
  <2> QED BY ONLY <2>1, <2>2, <2>5
<1>7. rd_buff' = [rd_buff EXCEPT ![b] = n]
  <2>1. rd_buff' = [rd_buff EXCEPT ![b].data = m.data, ![b].of = m.blk, ![b].refcnt = 1]
    BY DEF ReadGiven
  <2> QED BY ONLY <1>3, <1>5, <1>6, <2>1
<1>8. rd_buff' \in [RdBuffers -> RdBuffer] /\ rd_buff'[b] = n
      /\ \A c \in RdBuffers \ {b} : rd_buff'[c] = rd_buff[c]
  BY ONLY <1>3, <1>6, <1>7
<1>9. SameRequests
  <2> SUFFICES ASSUME NEW c \in RdBuffers
               PROVE  /\ rd_buff'[c].op = rd_buff[c].op /\ rd_buff'[c].pid = rd_buff[c].pid
                      /\ rd_buff'[c].blknum = rd_buff[c].blknum
                      /\ rd_buff'[c].valid = rd_buff[c].valid
                      /\ rd_buff[c].op = "write" => /\ rd_buff'[c].data = rd_buff[c].data
                                                    /\ rd_buff'[c].refcnt = rd_buff[c].refcnt
    BY DEF SameRequests
  <2>1. CASE c = b
    BY <1>4, <1>6, <1>8, <2>1
  <2>2. CASE c # b
    BY <1>8, <2>2
  <2> QED BY <2>1, <2>2
<1>10. Leaves(b)
  <2>1. rd_queue' = Tail(rd_queue) /\ rd_cache' = <<b>> \o rd_cache /\ rd_free' = rd_free
    BY DEF ReadGiven
  <2> QED BY <1>4, <2>1 DEF Leaves, Cachable
<1>11. /\ ListsOK' /\ Requests' = Requests \ {b} /\ Len(rd_queue') = Len(rd_queue) - 1
       /\ b \in Requests /\ Len(rd_free') + Len(rd_cache') = Len(rd_free) + Len(rd_cache) + 1
  BY <1>1, <1>10, LeavesLists
<1>12. p \in RdCaller /\ rdcall[p].ph = "recv"
  <2>1. rd_buff[b].op # "write"
    BY <1>4
  <2> QED BY <1>1, <1>11, <2>1 DEF BuffersOK
<1>13. PICK r : r = [rdcall[p] EXCEPT !.ph = "got", !.buf = b]
  OBVIOUS
<1>14. r \in RdRequest /\ r.ph = "got"
  <2>1. rdcall[p] \in RdRequest
    <3>1. rdcall \in [RdCaller -> {RdIdle} \cup RdRequest]
      BY <1>3
    <3> QED BY ONLY <3>1, <1>12 DEF RdIdle
  <2>2. b \in 0..RD_BUFFS
    <3>1. b \in RdBuffers
      BY <1>6
    <3> QED BY ONLY <3>1, RdSizes
  <2> QED BY <1>13, <2>1, <2>2 DEF RdRequest
<1>15. PICK calls : calls = [rdcall EXCEPT ![p] = r]
  OBVIOUS
<1>16. /\ calls \in [RdCaller -> {RdIdle} \cup RdRequest] /\ calls[p].ph = "got"
       /\ \A q \in RdCaller \ {p} : calls[q] = rdcall[q]
  BY <1>3, <1>12, <1>14, <1>15
<1>17. Available(calls)
  <2>1. calls = [rdcall EXCEPT ![p].ph = "got", ![p].buf = b]
    BY <1>3, <1>12, <1>13, <1>15
  <2> QED BY <2>1 DEF ReadGiven
<1>18. \A q \in RdCaller : \/ calls[q].ph = rdcall[q].ph
                           \/ rdcall[q].ph = "recv" /\ calls[q].ph \in {"idle", "got"}
  BY <1>12, <1>16
<1>19. /\ WaitersOK' /\ AvailOK' /\ rdcall' \in [RdCaller -> {RdIdle} \cup RdRequest]
       /\ rd_waiting' \in Seq(RdCaller) /\ rd_availsem' \in Int
       /\ \A q \in RdCaller : calls[q].ph = "recv" => rdcall'[q].ph = "recv"
  BY <1>1, <1>11, <1>16, <1>17, <1>18, AvailableOK
<1>20. RdTypeOK'
  <2>1. rddoubt' \subseteq RdBlock
    BY <1>1, <1>3 DEF RdTypeOK
  <2> QED BY <1>1, <1>8, <1>19, <2>1 DEF RdTypeOK, RdNetTypeOK
<1>21. BuffersOK'
  <2>1. \A q \in RdCaller : rdcall[q].ph = "recv" =>
           \/ rdcall'[q].ph = "recv"
           \/ (rd_buff[b].op # "write" /\ q = rd_buff[b].pid)
    BY <1>4, <1>16, <1>19
  <2> QED BY <1>1, <1>9, <1>10, <2>1, LeavesBuffers
<1>22. ProcessOK' /\ RepliesOK'
  <2>1. ProcessOK'
    <3>1. ~Sends("read")' /\ rd_reqsem' = rd_reqsem
      BY <1>2
    <3>2. rd_reqsem \in Nat /\ Len(rd_queue) = rd_reqsem + 1 /\ Len(rd_queue') = Len(rd_queue) - 1
      BY <1>3, <1>4, <1>11
    <3>3. Len(rd_queue') = rd_reqsem'
      BY ONLY <3>1, <3>2
    <3> QED BY ONLY <3>1, <3>2, <3>3 DEF ProcessOK
  <2> QED BY <1>1, <1>2, <2>1 DEF RepliesOK
<1>23. ASSUME NEW k \in RdBlock \ rddoubt' PROVE Orderly(k)'
  <2>1. Orderly(k) /\ Landed(k)
    BY <1>1 DEF Orderly
  <2>2. OneWrite(k)' /\ NothingAfter(k)' /\ FirstCopy(k)'
    BY <1>1, <1>9, <1>10, <2>1, LeavesOrderly
  <2>3. Landed(k)'
    <3> SUFFICES ASSUME \A c \in Requests' : ~IsWrite(c, k)'
                 PROVE  rdlast[k] = rdserver[k]
      BY <1>2 DEF Landed
    <3>1. ASSUME NEW c \in Requests PROVE ~IsWrite(c, k)
      <4>1. CASE c = b
        BY <1>4, <4>1 DEF IsWrite
      <4>2. CASE c # b
        <5>1. c \in Requests' /\ c \in RdBuffers
          BY <1>1, <1>11, <4>2 DEF ListsOK
        <5>2. ~(rd_buff'[c].op = "write" /\ rd_buff'[c].blknum = k)
          BY <5>1 DEF IsWrite
        <5> QED BY <1>8, <4>2, <5>1, <5>2 DEF IsWrite
      <4> QED BY <4>1, <4>2
    <3> QED BY <1>2, <2>1, <3>1 DEF Landed
  <2> QED BY <2>2, <2>3 DEF Orderly
<1> QED BY <1>11, <1>19, <1>20, <1>21, <1>22, <1>23 DEF RdIInv, RdBase

LEMMA RdsReceivesOK ==
  ASSUME RdIInv, NEW m \in rdreplies, RdsReceives(m)
  PROVE  RdIInv'
<1>1. RdRuns /\ rdcom \in RdExchange /\ rdcom # ComWaits /\ rdpanic = "no"
      /\ rdreplies' = rdreplies \ {m}
      /\ UNCHANGED <<rd_state, rd_free, rd_reqsem, rd_blk, rd_seq, rdserver, rdlast, rdstolen>>
  BY Exchanging DEF RdsReceives
<1>2. CASE /\ ~Answers(m) /\ NextTry("recv")
           /\ UNCHANGED <<rd_queue, rd_cache, rd_buff, rd_availsem, rd_waiting, rdcall, rddoubt>>
  BY <1>1, <1>2, NextTryOK
<1>3. CASE Answered(m)
  <2>1. /\ rdcom' = ComWaits
        /\ rddoubt' = IF m.seq < rd_seq THEN rddoubt \cup {rdcom.blk} ELSE rddoubt
    BY <1>3 DEF Answered
  <2>2. CASE /\ rdcom.op = "write"
             /\ UNCHANGED <<rd_queue, rd_cache, rd_buff, rd_availsem, rd_waiting, rdcall,
                            rdpanic>>
    BY <1>1, <2>1, <2>2, WriteAnsweredOK
  <2>3. PICK b, p : b = rdcom.buf /\ p = rd_buff[b].pid
    OBVIOUS
  <2>4. CASE /\ rdcom.op = "read"
             /\ rd_buff' = [rd_buff EXCEPT ![b].data = m.data, ![b].of = m.blk,
                                           ![b].refcnt = 1]
             /\ rd_queue' = Tail(rd_queue) /\ rd_cache' = <<b>> \o rd_cache
             /\ Available([rdcall EXCEPT ![p].ph = "got", ![p].buf = b])
             /\ rdpanic' = IF At(Tail(rd_queue), rdcom.blk) # {} THEN "tangled" ELSE rdpanic
    <3>1. rdpanic' \in {"no", "tangled"}
      BY <1>1, <2>4
    <3>2. ReadGiven(m, b, p)
      BY <2>4 DEF ReadGiven
    <3> QED BY <1>1, <2>1, <2>3, <2>4, <3>1, <3>2, ReadAnsweredOK
  <2> QED BY <1>3, <2>2, <2>3, <2>4 DEF Answered
<1> QED BY <1>2, <1>3 DEF RdsReceives

LEMMA RdStep ==
  ASSUME RdIInv, [DiskNext]_rdsvars
  PROVE  RdIInv'
<1>1. CASE Rdsopen
  BY <1>1, RdsopenOK
<1>2. CASE Rdsclose \/ RdsDelete
  BY <1>2, RdscloseOK
<1>3. ASSUME NEW p \in RdCaller, RdsGoesOn(p) PROVE RdIInv'
  BY <1>3, RdsGoesOnOK
<1>4. ASSUME NEW p \in RdCaller, RdsreadEnds(p) PROVE RdIInv'
  BY <1>4, RdsreadEndsOK
<1>5. ASSUME NEW p \in RdCaller, RdsSync(p) PROVE RdIInv'
  BY <1>5, RdsSyncOK
<1>6. ASSUME NEW p \in RdCaller, NEW b \in RdBlock, Rdsread(p, b) PROVE RdIInv'
  BY <1>6, RdsreadOK
<1>7. ASSUME NEW p \in RdCaller, NEW b \in RdBlock, NEW d \in RdData, Rdswrite(p, b, d)
      PROVE  RdIInv'
  BY <1>7, RdswriteOK
<1>8. CASE RdsTakes
  BY <1>8, RdsTakesOK
<1>9. CASE RdsSends
  BY <1>9, RdsSendsOK
<1>10. CASE RdsTimesOut
  BY <1>10, RdsTimesOutOK
<1>11. ASSUME NEW m \in rdreplies, RdsReceives(m) PROVE RdIInv'
  BY <1>11, RdsReceivesOK
<1>12. CASE UNCHANGED rdsvars
  <2>1. UNCHANGED <<rd_free, rd_queue, rd_cache, rd_buff, rd_availsem, rd_waiting, rd_reqsem,
                    rdcall, rdcom, rd_blk, rd_seq, rdreplies, rdserver, rdlast, rddoubt,
                    rdstolen, rdpanic>>
    BY <1>12 DEF rdsvars, rdlists, rdnet, rdghost
  <2>2. RdBase'
    BY <2>1 DEF RdIInv, RdBase, RdTypeOK, RdNetTypeOK, ListsOK, Unused, Requests, Copies,
                BuffersOK, ProcessOK, RepliesOK, Sends
  <2>3. /\ WaitersOK => WaitersOK'
        /\ AvailOK => AvailOK'
    <3>1. Promised' = Promised
      BY <2>1 DEF Promised
    <3> QED BY <2>1, <3>1 DEF WaitersOK, AvailOK, Room
  <2>4. \A k \in RdBlock : Orderly(k) => Orderly(k)'
    BY <2>1 DEF Orderly, OneWrite, NothingAfter, FirstCopy, Landed, IsWrite, IsRead, Sends,
                Requests, Copies
  <2> QED BY <2>1, <2>2, <2>3, <2>4 DEF RdIInv
<1> QED BY <1>1, <1>2, <1>3, <1>4, <1>5, <1>6, <1>7, <1>8, <1>9, <1>10, <1>11, <1>12 DEF DiskNext

LEMMA RdInvariant == DiskSpec => []RdIInv
<1>1. RdIInv /\ [DiskNext]_rdsvars => RdIInv'
  BY RdStep
<1> QED BY RdInitOK, <1>1, PTL DEF DiskSpec

LEMMA KeptIs ==
  ASSUME RdIInv
  PROVE  RdsBuffersKept
<1>1. ListsOK /\ RdBase
  BY DEF RdIInv, RdBase
<1>2. /\ IsInjective(rd_free \o rd_queue \o rd_cache)
      /\ Range(rd_free \o rd_queue \o rd_cache) = RdBuffers
  <2>1. Lists(rd_free \o rd_queue, Requests \cup Unused)
    BY <1>1, JoinedIs DEF ListsOK
  <2>2. (Requests \cup Unused) \cap Copies = {}
    BY <1>1 DEF ListsOK
  <2>3. Lists((rd_free \o rd_queue) \o rd_cache, Copies \cup (Requests \cup Unused))
    BY <1>1, <2>1, <2>2, JoinedIs DEF ListsOK
  <2>4. Copies \cup (Requests \cup Unused) = RdBuffers
    BY <1>1 DEF ListsOK
  <2> QED BY <2>3, <2>4, RangesAre DEF Lists
<1>3. /\ Len(rd_free) \in Nat /\ Len(rd_cache) \in Nat /\ Len(rd_waiting) \in Nat
      /\ rd_availsem \in Int /\ Cardinality(Promised) \in Nat
  BY <1>1, SumsAre, PromisedIs
<1>4. ASSUME rdpanic = "no", ~rdstolen
      PROVE  IF rd_waiting = <<>>
             THEN rd_availsem = Len(rd_free) + Len(rd_cache) - Cardinality(Promised)
             ELSE /\ rd_availsem = -Len(rd_waiting)
                  /\ Cardinality(Promised) = Len(rd_free) + Len(rd_cache)
  <2>1. AvailOK
    BY <1>4 DEF RdIInv
  <2>2. CASE rd_waiting = <<>>
    BY <1>3, <1>4, <2>1, <2>2 DEF AvailOK, Room
  <2>3. CASE rd_waiting # <<>>
    BY <1>3, <1>4, <2>1, <2>3 DEF AvailOK, Room
  <2> QED BY <2>2, <2>3
<1>5. rdpanic = "nobuffer" => rdstolen \/ rd_cache # <<>>
  BY DEF RdIInv
<1> QED BY <1>2, <1>4, <1>5 DEF RdsBuffersKept, Promised

(* Every buffer is on one list, and the semaphore counts what is left.     *)
THEOREM RdsBuffersAreKept == DiskSpec => []RdsBuffersKept
BY RdInvariant, KeptIs, PTL

(* What a read finds without the server: the write it would find is the    *)
(* only one, and holds what was written last.                              *)
LEMMA FoundIs ==
  ASSUME RdBase, NEW blk \in RdBlock, Orderly(blk), NEW b \in Cached(blk) \cup Queued(blk)
  PROVE  rd_buff[b].data = rdlast[blk]
<1>1. /\ DOMAIN rd_cache = 1..Len(rd_cache) /\ Len(rd_cache) \in Nat
      /\ DOMAIN rd_queue = 1..Len(rd_queue) /\ Len(rd_queue) \in Nat
      /\ \A i \in 1..Len(rd_cache) : rd_cache[i] \in Copies
      /\ \A i \in 1..Len(rd_queue) : rd_queue[i] \in Requests
  BY DEF RdBase, ListsOK, Lists, Copies, Requests, ToSet
<1>2. CASE b \in Cached(blk)
  <2> DEFINE C == At(rd_cache, blk)
  <2>1. C # {} /\ b = rd_cache[Min(C)] /\ rd_buff[b].valid
    BY <1>2 DEF Cached
  <2>2. C \in SUBSET (1..Len(rd_cache))
    BY <1>1 DEF At
  <2>3. Min(C) \in C
    BY ONLY <1>1, <2>1, <2>2, BestIs
  <2>4. b \in Copies /\ rd_buff[b].blknum = blk
    BY <1>1, <2>1, <2>2, <2>3 DEF At
  <2>5. rd_buff[b].op = "write"
    BY <2>1, <2>4 DEF RdBase, BuffersOK
  <2> QED BY <2>4, <2>5 DEF Orderly, OneWrite, IsWrite
<1>3. CASE b \in Queued(blk)
  <2> DEFINE Q == At(rd_queue, blk)
  <2>1. Q # {} /\ b = rd_queue[Max(Q)] /\ rd_buff[b].op = "write"
    BY <1>3 DEF Queued
  <2>2. Q \in SUBSET (1..Len(rd_queue))
    BY <1>1 DEF At
  <2>3. Max(Q) \in Q
    BY ONLY <1>1, <2>1, <2>2, BestIs
  <2>4. b \in Requests /\ rd_buff[b].blknum = blk
    BY <1>1, <2>1, <2>2, <2>3 DEF At
  <2> QED BY <2>1, <2>4 DEF Orderly, OneWrite, IsWrite
<1> QED BY <1>2, <1>3

LEMMA LandsIs ==
  ASSUME RdIInv
  PROVE  RdsWritesLand
<1> SUFFICES ASSUME NEW blk \in RdBlock \ rddoubt
             PROVE  /\ rdlast[blk] =
                         IF Writes(rd_queue, blk) # {}
                         THEN rd_buff[rd_queue[Max(Writes(rd_queue, blk))]].data
                         ELSE IF rdcom # ComWaits /\ rdcom.op = "write" /\ rdcom.blk = blk
                         THEN rdcom.data ELSE rdserver[blk]
                    /\ \A b \in Cached(blk) \cup Queued(blk) : rd_buff[b].data = rdlast[blk]
  BY DEF RdsWritesLand
<1>1. RdBase /\ ListsOK /\ Orderly(blk) /\ blk \in RdBlock
  BY DEF RdIInv, RdBase
<1>2. \A b \in Cached(blk) \cup Queued(blk) : rd_buff[b].data = rdlast[blk]
  BY <1>1, FoundIs
<1> DEFINE W == Writes(rd_queue, blk)
<1>3. /\ W \subseteq 1..Len(rd_queue)
      /\ \A i \in W : rd_queue[i] \in Requests /\ IsWrite(rd_queue[i], blk)
      /\ \A b \in Requests : IsWrite(b, blk) => \E i \in W : rd_queue[i] = b
  BY <1>1, WritesAre
<1> HIDE DEF W
<1>4. CASE W # {}
  <2>1. Len(rd_queue) \in Nat /\ W \in SUBSET (1..Len(rd_queue))
    BY <1>1, <1>3 DEF ListsOK, Lists
  <2>2. Max(W) \in W
    BY ONLY <1>4, <2>1, BestIs
  <2>3. rd_buff[rd_queue[Max(W)]].data = rdlast[blk]
    BY <1>1, <1>3, <2>2 DEF Orderly, OneWrite
  <2> QED BY <1>2, <1>4, <2>3 DEF W
<1>5. CASE W = {}
  <2>1. \A b \in Requests : ~IsWrite(b, blk)
    BY <1>3, <1>5
  <2>2. rdlast[blk] = IF rdcom # ComWaits /\ rdcom.op = "write" /\ rdcom.blk = blk
                      THEN rdcom.data ELSE rdserver[blk]
    BY <1>1, <2>1 DEF Orderly, Landed, Sends
  <2> QED BY <1>2, <1>5, <2>2 DEF W
<1> QED BY <1>4, <1>5

(* What was written last is on its way to the server or there, and is what *)
(* a copy holds.                                                           *)
THEOREM RdsWritesAreLanded == DiskSpec => []RdsWritesLand
BY RdInvariant, LandsIs, PTL
-----------------------------------------------------------------------------
(* The terminal.  Places of a ring are indices modulo its size.            *)
LEMMA ModUnique ==
  ASSUME NEW n \in Nat \ {0}, NEW u \in Int, NEW w \in Int, NEW v \in 0..(n - 1), u = n * w + v
  PROVE  u % n = v
<1>1. PICK q \in Int, r \in 0..(n - 1) : u = n * q + r /\ r = u % n
  <2>1. u = n * (u \div n) + (u % n) /\ u \div n \in Int /\ u % n \in 0..(n - 1)
    OBVIOUS
  <2> QED BY <2>1
<1>2. ASSUME NEW a \in Int, NEW b \in Int, a < b PROVE n * a + n <= n * b
  <2>1. PICK d \in Nat : b = a + 1 + d
    <3>1. b - a - 1 \in Nat /\ b = a + 1 + (b - a - 1)
      BY <1>2
    <3> QED BY <3>1
  <2>2. n * b = n * a + n + n * d
    BY <2>1
  <2>3. n * d \in Nat /\ n * a \in Int
    OBVIOUS
  <2> QED BY <2>2, <2>3
<1>3. n * q \in Int /\ n * w \in Int
  OBVIOUS
<1>4. q = w
  <2>1. q < w => n * q + n <= n * w
    BY <1>2
  <2>2. w < q => n * w + n <= n * q
    BY <1>2
  <2>3. ~(q < w) /\ ~(w < q)
    BY <1>1, <1>3, <2>1, <2>2
  <2> QED BY <2>3
<1>5. n * q = n * w
  BY <1>4
<1> QED BY <1>1, <1>3, <1>5

LEMMA ModShift ==
  ASSUME NEW n \in Nat \ {0}, NEW a \in Int, NEW b \in Int
  PROVE  ((a % n) + b) % n = (a + b) % n
<1>1. PICK q \in Int, r \in 0..(n - 1) : a = n * q + r /\ r = a % n
  <2>1. a = n * (a \div n) + (a % n) /\ a \div n \in Int /\ a % n \in 0..(n - 1)
    OBVIOUS
  <2> QED BY <2>1
<1>2. PICK t \in Int, v \in 0..(n - 1) : r + b = n * t + v /\ v = (r + b) % n
  <2> DEFINE x == r + b
  <2>1. x \in Int
    OBVIOUS
  <2> HIDE DEF x
  <2>2. x = n * (x \div n) + (x % n) /\ x \div n \in Int /\ x % n \in 0..(n - 1)
    BY <2>1
  <2> QED BY <2>2 DEF x
<1>3. n * (q + t) = n * q + n * t /\ n * q \in Int /\ n * t \in Int
  OBVIOUS
<1>4. a + b = n * (q + t) + v
  BY <1>1, <1>2, <1>3
<1>5. (a + b) % n = v
  <2>1. q + t \in Int /\ a + b \in Int
    OBVIOUS
  <2> QED BY <1>4, <2>1, ModUnique
<1> QED BY <1>1, <1>2, <1>5

LEMMA ModApart ==
  ASSUME NEW n \in Nat \ {0}, NEW a \in Int, NEW b \in Int, a < b, b < a + n
  PROVE  a % n # b % n
<1> SUFFICES ASSUME a % n = b % n PROVE FALSE
  OBVIOUS
<1>1. PICK q \in Int, r \in 0..(n - 1) : a = n * q + r /\ r = a % n
  <2>1. a = n * (a \div n) + (a % n) /\ a \div n \in Int /\ a % n \in 0..(n - 1)
    OBVIOUS
  <2> QED BY <2>1
<1>2. b = (n * q + (b - a)) + r
  BY <1>1
<1>3. PICK t \in Int : b = n * t + r
  <2>1. b = n * (b \div n) + (b % n) /\ b \div n \in Int
    OBVIOUS
  <2> QED BY <1>1, <2>1
<1>4. PICK d \in Int : t = q + d
  <2>1. t - q \in Int /\ t = q + (t - q)
    OBVIOUS
  <2> QED BY <2>1
<1>5. n * t = n * q + n * d /\ n * q \in Int /\ n * d \in Int
  BY <1>4
<1>6. n * d = b - a
  BY <1>1, <1>3, <1>5
<1>7. d <= 0 => n * d <= 0
  OBVIOUS
<1>8. d >= 1 => n * d >= n
  <2> SUFFICES ASSUME d >= 1 PROVE n * d >= n
    OBVIOUS
  <2>1. n * d = n + n * (d - 1) /\ d - 1 \in Nat
    OBVIOUS
  <2>2. n * (d - 1) \in Nat
    BY <2>1
  <2> QED BY <2>1, <2>2
<1> QED BY <1>6, <1>7, <1>8

LEMMA WrappedIs ==
  ASSUME NEW n \in Nat \ {0}, NEW i \in 0..(n - 1)
  PROVE  Wrapped(i + 1, n) = (i + 1) % n /\ Wrapped(i + 1, n) \in 0..(n - 1)
<1>1. CASE i + 1 < n
  <2>1. i + 1 \in 0..(n - 1) /\ ~(i + 1 >= n)
    BY <1>1
  <2>2. (i + 1) % n = i + 1
    <3>1. PICK x \in Nat : x = i + 1 /\ x < n
      BY <1>1
    <3>2. x % n = x
      BY <3>1, ModIs
    <3> QED BY <3>1, <3>2
  <2> QED BY <2>1, <2>2 DEF Wrapped
<1>2. CASE i + 1 = n
  <2>1. n % n = 0
    <3>1. n \in Nat /\ n <= n /\ n < 2 * n
      OBVIOUS
    <3>2. n % n = n - n
      BY <3>1, ModIs
    <3> QED BY <3>2
  <2> QED BY <1>2, <2>1 DEF Wrapped
<1> QED BY <1>1, <1>2

(* signaln: those in front leave the queue, as far as the units go.        *)
LEMMA SignallnOK ==
  ASSUME NEW U, NEW tab, SemOK(tab, U), NEW s \in Sems, tab[s].state = "S_USED", NEW n \in Nat
  PROVE  LET new == Signalln(tab, s, n) IN
         /\ SemOK(new, U) /\ OtherSems(tab, new, s)
         /\ new[s].count = tab[s].count + n /\ new[s].state = tab[s].state
         /\ ToSet(new[s].queue) \subseteq ToSet(tab[s].queue)
<1>1. PICK q, c, k, t :
        /\ q = tab[s].queue /\ c = tab[s].count
        /\ k = IF c < 0 THEN Lesser(n, -c) ELSE 0
        /\ t = SubSeq(q, k + 1, Len(q))
  OBVIOUS
<1> DEFINE e == Entry(tab[s], c + n, t)
<1>2. tab[s] \in SemEntry(U) /\ EntryOK(tab[s]) /\ tab \in [Sems -> SemEntry(U)]
  BY DEF SemOK
<1>3. q \in Seq(U) /\ c \in Int /\ IsInjective(q) /\ Len(q) \in Nat
  BY <1>1, <1>2 DEF SemEntry, EntryOK
<1>4. (c < 0 => Len(q) = -c) /\ (c >= 0 => Len(q) = 0)
  <2>1. (c < 0 => Len(q) = -c) /\ (c >= 0 => q = <<>>)
    BY <1>1, <1>2 DEF EntryOK
  <2> QED BY <2>1
<1>5. k \in 0..Len(q) /\ (c + n >= 0 => k = Len(q)) /\ (c + n < 0 => Len(q) - k = -(c + n))
  <2>1. k = IF c < 0 THEN (IF n < -c THEN n ELSE -c) ELSE 0
    BY <1>1 DEF Lesser
  <2>2. PICK l \in Nat : l = Len(q)
    BY <1>3
  <2>3. (c < 0 => l = -c) /\ (c >= 0 => l = 0) /\ c \in Int
    BY <1>3, <1>4, <2>2
  <2>4. k \in 0..l /\ (c + n >= 0 => k = l) /\ (c + n < 0 => l - k = -(c + n))
    BY ONLY <2>1, <2>2, <2>3, n \in Nat
  <2> QED BY <2>2, <2>4
<1>6. /\ t \in Seq(U) /\ Len(t) = Len(q) - k
      /\ \A i \in 1..Len(t) : t[i] = q[k + i]
  <2>1. PICK a \in Int, b \in Int : a = k + 1 /\ b = Len(q)
    BY <1>3, <1>5
  <2>2. t = SubSeq(q, a, b) /\ \A i \in a..b : q[i] \in U
    <3>1. \A i \in a..b : i \in 1..Len(q)
      BY <1>5, <2>1
    <3> QED BY <1>1, <1>3, <2>1, <3>1
  <2>3. /\ t \in Seq(U)
        /\ Len(t) = IF k + 1 <= Len(q) THEN Len(q) - (k + 1) + 1 ELSE 0
        /\ \A i \in 1..Len(q) - (k + 1) + 1 : t[i] = q[(k + 1) + i - 1]
    <3>1. /\ t \in Seq(U) /\ Len(t) = IF a <= b THEN b - a + 1 ELSE 0
          /\ \A i \in 1..b - a + 1 : t[i] = q[a + i - 1]
      BY ONLY <2>2, a \in Int, b \in Int, SubSeqProperties
    <3> QED BY <2>1, <3>1
  <2>4. Len(t) = Len(q) - k
    BY <1>3, <1>5, <2>3
  <2>5. Len(q) - (k + 1) + 1 = Len(t)
    BY <1>3, <1>5, <2>4
  <2>6. \A i \in 1..Len(t) : t[i] = q[(k + 1) + i - 1]
    BY <2>3, <2>5
  <2>7. \A i \in 1..Len(t) : (k + 1) + i - 1 = k + i
    BY <1>5
  <2> QED BY <2>3, <2>4, <2>6, <2>7
<1>7. IsInjective(t) /\ ToSet(t) \subseteq ToSet(q)
  <2>1. \A i \in 1..Len(t) : k + i \in 1..Len(q)
    BY <1>3, <1>5, <1>6
  <2>2. \A i, j \in 1..Len(q) : q[i] = q[j] => i = j
    BY <1>3 DEF IsInjective
  <2>3. \A i, j \in 1..Len(t) : t[i] = t[j] => i = j
    <3> SUFFICES ASSUME NEW i \in 1..Len(t), NEW j \in 1..Len(t), t[i] = t[j] PROVE i = j
      OBVIOUS
    <3>1. q[k + i] = q[k + j]
      BY <1>6
    <3>2. k + i = k + j
      BY <2>1, <2>2, <3>1
    <3> QED BY <1>5, <3>2
  <2>4. \A i \in 1..Len(t) : t[i] \in ToSet(q)
    <3> SUFFICES ASSUME NEW i \in 1..Len(t) PROVE t[i] \in ToSet(q)
      OBVIOUS
    <3>1. k + i \in DOMAIN q
      BY <1>3, <2>1
    <3>2. q[k + i] \in ToSet(q)
      BY <3>1, Zenon DEF ToSet
    <3> QED BY <1>6, <3>2
  <2>5. DOMAIN t = 1..Len(t)
    BY <1>6
  <2>6. IsInjective(t)
    BY <2>3, <2>5 DEF IsInjective
  <2>7. ToSet(t) \subseteq ToSet(q)
    BY <2>4, <2>5 DEF ToSet
  <2> QED BY <2>6, <2>7
<1>8. e \in SemEntry(U) /\ e.count = c + n /\ e.state = tab[s].state /\ e.queue = t
  <2>1. c + n \in Int
    BY <1>3
  <2> QED BY <1>2, <1>6, <2>1, EntryChange
<1>9. EntryOK(e)
  <2>1. c + n >= 0 => t = <<>>
    <3> SUFFICES ASSUME c + n >= 0 PROVE t = <<>>
      OBVIOUS
    <3>1. Len(t) = 0
      BY <1>3, <1>5, <1>6
    <3> QED BY <1>6, <3>1, NoLength
  <2>2. c + n < 0 => Len(t) = -(c + n)
    BY <1>5, <1>6
  <2> HIDE DEF e
  <2> QED BY <1>7, <1>8, <2>1, <2>2 DEF EntryOK
<1>10. \A x \in Sems \ {s} : ToSet(e.queue) \cap ToSet(tab[x].queue) = {}
  <2>1. \A x \in Sems \ {s} : ToSet(q) \cap ToSet(tab[x].queue) = {}
    BY <1>1 DEF SemOK
  <2> HIDE DEF e
  <2> QED BY <1>7, <1>8, <2>1
<1>11. Signalln(tab, s, n) = [tab EXCEPT ![s] = e]
  <2>1. Signalln(tab, s, n) = [tab EXCEPT ![s] = [tab[s] EXCEPT !.count = @ + n, !.queue = t]]
    BY <1>1, <1>2 DEF Signalln
  <2>2. e = [tab[s] EXCEPT !.count = @ + n, !.queue = t]
    BY <1>1, <1>2 DEF Entry, SemEntry
  <2> QED BY <2>1, <2>2
<1> HIDE DEF e
<1>12. LET new == [tab EXCEPT ![s] = e] IN SemOK(new, U) /\ new[s] = e /\ OtherSems(tab, new, s)
  BY <1>8, <1>9, <1>10, SemChange
<1> QED BY <1>1, <1>7, <1>8, <1>11, <1>12

(* What a call of each kind of process has left to do.                     *)
TtyCall ==
  [op : {"idle", "want", "getc", "nextc", "have", "putc"},
   part : {"chars", "first", "rest", "newline"}, left : Int, todo : Seq(Characters)]

TtyTypeOK ==
  /\ tyobuff \in [0..(TY_OBUFLEN - 1) -> Characters \cup {"none"}]
  /\ tyohead \in 0..(TY_OBUFLEN - 1) /\ tyotail \in 0..(TY_OBUFLEN - 1)
  /\ tyehead \in 0..(TY_EBUFLEN - 1) /\ tyetail \in 0..(TY_EBUFLEN - 1)
  /\ tyicursor \in Nat /\ owed \in Seq(Characters) /\ debt \in Nat
  /\ pc \in [Reader \cup Writer -> TtyCall]

CallsOK ==
  /\ \A p \in Reader : pc[p].op \in {"idle", "want", "getc", "nextc"}
  /\ \A p \in Writer : /\ pc[p].op \in {"idle", "have", "putc"}
                       /\ pc[p].op # "idle" => pc[p].todo # <<>>

(* Who waits for a place is writing a character, and for a character,      *)
(* reading one.                                                            *)
TtySemsOK ==
  /\ SemOK(semtab, Reader \cup Writer) /\ \A s \in Sems : semtab[s].state = "S_USED"
  /\ \A p \in ToSet(semtab["tyosem"].queue) : p \in Writer /\ pc[p].op = "putc"
  /\ \A p \in ToSet(semtab["tyisem"].queue) : p \in Reader /\ pc[p].op \in {"getc", "nextc"}

(* Every place of the ring is free, acquired by a writer that has not      *)
(* stored its character yet, or holds a character to be sent; but for      *)
(* those sent before they were stored.                                     *)
Putting == {p \in Writer : pc[p].op = "putc"}
PlacesOK ==
  /\ (Count("tyosem") + Cardinality(Putting)) + (Len(owed) - debt) = TY_OBUFLEN
  /\ Count("tyosem") <= TY_OBUFLEN
  /\ debt > 0 => owed = <<>>

InPlace ==
  /\ \A i \in 1..Len(owed) : tyobuff[(tyohead + i - 1) % TY_OBUFLEN] = owed[i]
  /\ tyotail = (tyohead + Len(owed) - debt) % TY_OBUFLEN

TtyInv == TtyTypeOK /\ CallsOK /\ TtySemsOK /\ PlacesOK /\ InPlace

LEMMA TtySizes ==
  /\ {TY_OBUFLEN, TY_EBUFLEN, UART_FIFO_SIZE} \subseteq Nat \ {0}
  /\ Sems = {"tyisem", "tyosem"} /\ Reader \cap Writer = {}
  /\ Texts \subseteq Seq(Characters)
BY TtyAssumption

LEMMA PuttingFinite == IsFiniteSet(Putting) /\ Cardinality(Putting) \in Nat
<1>1. IsFiniteSet(Writer) /\ Putting \in SUBSET Writer
  BY TtyAssumption DEF Putting
<1>2. IsFiniteSet(Putting)
  BY <1>1, FS_Subset
<1> QED BY <1>2, FS_CardinalityType

(* A queue has as many members as it is long.                              *)
LEMMA QueueSize ==
  ASSUME NEW U, NEW q \in Seq(U), IsInjective(q)
  PROVE  IsFiniteSet(ToSet(q)) /\ Cardinality(ToSet(q)) = Len(q)
<1>1. PICK n \in Nat : n = Len(q) /\ DOMAIN q = 1..n
  OBVIOUS
<1>2. IsFiniteSet(1..n) /\ Cardinality(1..n) = n
  BY FS_Interval
<1>3. ToSet(q) = {q[i] : i \in 1..n}
  BY <1>1 DEF ToSet
<1>4. q \in [1..n -> ToSet(q)]
  BY <1>1, <1>3
<1>5. \A i, j \in 1..n : q[i] = q[j] => i = j
  BY <1>1 DEF IsInjective
<1>6. q \in Bijection(1..n, ToSet(q))
  <2>1. q \in Injection(1..n, ToSet(q))
    BY <1>4, <1>5 DEF Injection, IsInjective
  <2>2. q \in Surjection(1..n, ToSet(q))
    BY <1>3, <1>4 DEF Surjection
  <2> QED BY <2>1, <2>2 DEF Bijection
<1>7. ExistsBijection(1..n, ToSet(q))
  BY <1>6 DEF ExistsBijection
<1> QED BY <1>1, <1>2, <1>7, FS_Bijection

(* A released writer is one that is writing and does not wait.             *)
LEMMA ReleasedWriters ==
  ASSUME TtyInv
  PROVE  /\ Granted(Writer) = Putting \ ToSet(semtab["tyosem"].queue)
         /\ ToSet(semtab["tyosem"].queue) \subseteq Putting
<1>1. \A p \in Writer : pc[p].op \in {"getc", "putc", "nextc"} <=> pc[p].op = "putc"
  BY DEF TtyInv, CallsOK
<1>2. /\ \A p \in ToSet(semtab["tyosem"].queue) : p \in Writer /\ pc[p].op = "putc"
      /\ \A p \in ToSet(semtab["tyisem"].queue) : p \in Reader
  BY DEF TtyInv, TtySemsOK
<1>3. \A p \in Writer : Waiting(p) <=> p \in ToSet(semtab["tyosem"].queue)
  BY <1>2, TtySizes DEF Waiting, WaitsIn
<1> QED BY <1>1, <1>2, <1>3 DEF Granted, Putting

(* What is left of a set when those who wait for a semaphore leave it: as  *)
(* many fewer as the count is below zero.                                  *)
LEMMA WithoutWaiters ==
  ASSUME NEW U, NEW e \in SemEntry(U), EntryOK(e), NEW P, IsFiniteSet(P), ToSet(e.queue) \subseteq P
  PROVE  /\ e.count \in Int /\ Cardinality(P) \in Nat /\ Cardinality(P \ ToSet(e.queue)) \in Nat
         /\ e.count >= 0 => Cardinality(P \ ToSet(e.queue)) = Cardinality(P)
         /\ e.count < 0 => Cardinality(P \ ToSet(e.queue)) = Cardinality(P) + e.count
<1>1. PICK q, c : q = e.queue /\ c = e.count
  OBVIOUS
<1>2. q \in Seq(U) /\ c \in Int /\ IsInjective(q)
  BY <1>1 DEF SemEntry, EntryOK
<1>3. (c < 0 => Len(q) = -c) /\ (c >= 0 => Len(q) = 0)
  <2>1. (c < 0 => Len(q) = -c) /\ (c >= 0 => q = <<>>)
    BY <1>1 DEF EntryOK
  <2> QED BY <2>1
<1>4. Cardinality(ToSet(q)) = Len(q)
  BY <1>2, QueueSize
<1>5. /\ IsFiniteSet(P \ ToSet(q))
      /\ Cardinality(P \ ToSet(q)) = Cardinality(P) - Cardinality(P \cap ToSet(q))
  BY FS_Difference
<1>6. P \cap ToSet(q) = ToSet(q)
  BY <1>1
<1>7. Cardinality(P) \in Nat /\ Cardinality(P \ ToSet(q)) \in Nat
  BY <1>5, FS_CardinalityType
<1>8. Cardinality(P \ ToSet(q)) = Cardinality(P) - Len(q)
  BY <1>4, <1>5, <1>6
<1> QED BY <1>1, <1>2, <1>3, <1>7, <1>8

LEMMA GrantedSize ==
  ASSUME TtyInv
  PROVE  /\ Count("tyosem") \in Int /\ Cardinality(Granted(Writer)) \in Nat
         /\ Count("tyosem") >= 0 => Cardinality(Granted(Writer)) = Cardinality(Putting)
         /\ Count("tyosem") < 0 =>
              Cardinality(Granted(Writer)) = Cardinality(Putting) + Count("tyosem")
<1>1. PICK e : e = semtab["tyosem"]
  OBVIOUS
<1>2. e \in SemEntry(Reader \cup Writer) /\ EntryOK(e)
  BY <1>1, TtySizes DEF TtyInv, TtySemsOK, SemOK
<1>3. Granted(Writer) = Putting \ ToSet(e.queue) /\ ToSet(e.queue) \subseteq Putting
  BY <1>1, ReleasedWriters
<1>4. IsFiniteSet(Putting)
  BY PuttingFinite
<1>5. Count("tyosem") = e.count
  BY <1>1 DEF Count
<1> QED BY <1>2, <1>3, <1>4, <1>5, WithoutWaiters

LEMMA InOrder ==
  ASSUME TtyInv
  PROVE  OutputInOrder
<1>1. InPlace
  BY DEF TtyInv
<1>2. debt <= Cardinality(Granted(Writer))
  <2>1. PICK c \in Int, u \in Nat, l \in Nat, d \in Nat :
          c = Count("tyosem") /\ u = Cardinality(Putting) /\ l = Len(owed) /\ d = debt
    BY GrantedSize, PuttingFinite DEF TtyInv, TtyTypeOK
  <2>2. (c + u) + (l - d) = TY_OBUFLEN /\ c <= TY_OBUFLEN
    BY <2>1 DEF TtyInv, PlacesOK
  <2>3. d > 0 => l = 0
    <3>1. d > 0 => owed = <<>>
      BY <2>1 DEF TtyInv, PlacesOK
    <3> QED BY <2>1, <3>1
  <2>4. PICK g \in Nat : g = Cardinality(Granted(Writer))
    BY GrantedSize
  <2>5. (c >= 0 => g = u) /\ (c < 0 => g = u + c)
    BY <2>1, <2>4, GrantedSize
  <2>6. TY_OBUFLEN \in Nat
    BY TtySizes
  <2>7. d <= g
    BY ONLY <2>2, <2>3, <2>5, <2>6, g \in Nat, c \in Int, u \in Nat, l \in Nat, d \in Nat
  <2> QED BY <2>1, <2>4, <2>7
<1> QED BY <1>1, <1>2 DEF OutputInOrder, InPlace

(* Steps that neither store nor send output.                               *)
LEMMA OutputKept ==
  ASSUME TtyInv, TtyTypeOK', CallsOK', TtySemsOK', UNCHANGED ovars,
         semtab'["tyosem"] = semtab["tyosem"],
         \A p \in Writer : pc'[p].op = pc[p].op
  PROVE  TtyInv'
<1>1. Putting' = Putting
  BY DEF Putting
<1>2. PlacesOK'
  BY <1>1 DEF TtyInv, PlacesOK, Count, ovars
<1>3. InPlace'
  BY DEF TtyInv, InPlace, ovars
<1> QED BY <1>2, <1>3 DEF TtyInv

LEMMA TtySignalled ==
  ASSUME TtyInv, NEW s \in Sems, NEW n \in Nat
  PROVE  LET new == Signalln(semtab, s, n) IN
         /\ SemOK(new, Reader \cup Writer) /\ OtherSems(semtab, new, s)
         /\ new[s].count = semtab[s].count + n /\ new[s].state = "S_USED"
         /\ ToSet(new[s].queue) \subseteq ToSet(semtab[s].queue)
<1>1. PICK U : U = Reader \cup Writer
  OBVIOUS
<1>2. SemOK(semtab, U) /\ semtab[s].state = "S_USED"
  BY <1>1 DEF TtyInv, TtySemsOK
<1>3. LET new == Signalln(semtab, s, n) IN
      /\ SemOK(new, U) /\ OtherSems(semtab, new, s)
      /\ new[s].count = semtab[s].count + n /\ new[s].state = semtab[s].state
      /\ ToSet(new[s].queue) \subseteq ToSet(semtab[s].queue)
  BY <1>2, SignallnOK
<1> QED BY <1>1, <1>2, <1>3

(* What the interrupt handler does with a character typed.                 *)
InputSignalled == semtab' = semtab \/ \E n \in Nat : semtab' = Signalln(semtab, "tyisem", n)

LEMMA InputStep ==
  ASSUME TtyInv, tyicursor' \in Nat, tyehead' \in 0..(TY_EBUFLEN - 1),
         tyetail' \in 0..(TY_EBUFLEN - 1), UNCHANGED <<ovars, pc>>, InputSignalled
  PROVE  TtyInv'
<1>1. TtyTypeOK' /\ CallsOK'
  BY DEF TtyInv, TtyTypeOK, CallsOK, ovars
<1>2. /\ SemOK(semtab', Reader \cup Writer) /\ \A s \in Sems : semtab'[s].state = "S_USED"
      /\ semtab'["tyosem"] = semtab["tyosem"]
      /\ ToSet(semtab'["tyisem"].queue) \subseteq ToSet(semtab["tyisem"].queue)
  <2>1. /\ SemOK(semtab, Reader \cup Writer) /\ \A s \in Sems : semtab[s].state = "S_USED"
        /\ Sems = {"tyisem", "tyosem"}
    BY TtySizes DEF TtyInv, TtySemsOK
  <2>2. CASE semtab' = semtab
    BY <2>1, <2>2
  <2>3. CASE \E n \in Nat : semtab' = Signalln(semtab, "tyisem", n)
    <3>1. PICK n \in Nat : semtab' = Signalln(semtab, "tyisem", n)
      BY <2>3
    <3>2. PICK new : new = Signalln(semtab, "tyisem", n)
      OBVIOUS
    <3>3. /\ SemOK(new, Reader \cup Writer) /\ OtherSems(semtab, new, "tyisem")
          /\ new["tyisem"].state = "S_USED"
          /\ ToSet(new["tyisem"].queue) \subseteq ToSet(semtab["tyisem"].queue)
      <4>1. "tyisem" \in Sems
        BY <2>1
      <4> QED BY <3>2, <4>1, TtySignalled
    <3>4. semtab' = new
      BY <3>1, <3>2
    <3> QED BY <2>1, <3>3, <3>4 DEF OtherSems
  <2> QED BY <2>2, <2>3 DEF InputSignalled
<1>3. TtySemsOK'
  BY <1>2 DEF TtyInv, TtySemsOK
<1> QED BY <1>1, <1>2, <1>3, OutputKept

(* What a reader does next is c, and only the semaphore it reads by        *)
(* changes.                                                                *)
LEMMA ReaderStep ==
  ASSUME TtyInv, NEW p \in Reader, NEW c \in TtyCall, c.op \in {"idle", "want", "getc", "nextc"},
         pc' = [pc EXCEPT ![p] = c], UNCHANGED <<ovars, evars, tyicursor>>,
         SemOK(semtab', Reader \cup Writer), OtherSems(semtab, semtab', "tyisem"),
         semtab'["tyisem"].state = "S_USED",
         \A r \in ToSet(semtab'["tyisem"].queue) :
            IF r = p THEN c.op \in {"getc", "nextc"} ELSE r \in ToSet(semtab["tyisem"].queue)
  PROVE  TtyInv'
<1>1. pc \in [Reader \cup Writer -> TtyCall] /\ p \notin Writer
  BY TtySizes DEF TtyInv, TtyTypeOK
<1>2. /\ pc' \in [Reader \cup Writer -> TtyCall] /\ pc'[p] = c
      /\ \A r \in (Reader \cup Writer) \ {p} : pc'[r] = pc[r]
  BY <1>1
<1>3. TtyTypeOK'
  BY <1>2 DEF TtyInv, TtyTypeOK, ovars, evars
<1>4. CallsOK'
  BY <1>1, <1>2 DEF TtyInv, CallsOK
<1>5. semtab'["tyosem"] = semtab["tyosem"] /\ Sems = {"tyisem", "tyosem"}
  BY TtySizes DEF OtherSems
<1>6. TtySemsOK'
  <2>1. \A r \in ToSet(semtab'["tyosem"].queue) : r \in Writer /\ pc'[r].op = "putc"
    BY <1>1, <1>2, <1>5 DEF TtyInv, TtySemsOK
  <2>2. \A r \in ToSet(semtab'["tyisem"].queue) : r \in Reader /\ pc'[r].op \in {"getc", "nextc"}
    BY <1>1, <1>2 DEF TtyInv, TtySemsOK
  <2>3. \A s \in Sems : semtab'[s].state = "S_USED"
    BY <1>5 DEF TtyInv, TtySemsOK
  <2> QED BY <2>1, <2>2, <2>3 DEF TtySemsOK
<1>7. \A r \in Writer : pc'[r].op = pc[r].op
  BY <1>1, <1>2
<1> QED BY <1>3, <1>4, <1>5, <1>6, <1>7, OutputKept

(* The output side: k characters are sent, and their places given back.    *)
LEMMA SendStep ==
  ASSUME TtyInv, NEW k \in Nat, k = 0 \/ Count("tyosem") + k <= TY_OBUFLEN, Send(k),
         tyehead' \in 0..(TY_EBUFLEN - 1), UNCHANGED <<tyetail, tyicursor, pc>>
  PROVE  TtyInv'
<1>1. PICK n, l, f :
        /\ n = TY_OBUFLEN /\ l = Len(owed) /\ f = IF k <= l THEN k ELSE l
        /\ owed' = SubSeq(owed, f + 1, Len(owed)) /\ debt' = debt + (k - f)
  BY DEF Send
<1>2. n \in Nat \ {0} /\ owed \in Seq(Characters) /\ debt \in Nat /\ tyohead \in Int
  BY <1>1, TtySizes DEF TtyInv, TtyTypeOK
<1>3. l \in Nat /\ f \in 0..l /\ k - f \in Nat /\ (l < k => f = l) /\ (k <= l => f = k)
  BY <1>1, <1>2
<1>4. /\ owed' \in Seq(Characters) /\ Len(owed') = l - f
      /\ \A i \in 1..(l - f) : owed'[i] = owed[f + i]
  <2>1. \A i \in (f + 1)..l : owed[i] \in Characters
    BY <1>1, <1>2, <1>3
  <2>2. f + 1 \in Int /\ l \in Int /\ owed' = SubSeq(owed, f + 1, l)
    BY <1>1, <1>3
  <2>3. /\ owed' \in Seq(Characters)
        /\ Len(owed') = IF f + 1 <= l THEN l - (f + 1) + 1 ELSE 0
        /\ \A i \in 1..l - (f + 1) + 1 : owed'[i] = owed[(f + 1) + i - 1]
    BY <2>1, <2>2, SubSeqProperties
  <2>4. Len(owed') = l - f /\ l - (f + 1) + 1 = l - f
    BY <1>3, <2>3
  <2>5. \A i \in 1..(l - f) : owed'[i] = owed[(f + 1) + i - 1]
    BY <2>3, <2>4
  <2>6. \A i \in 1..(l - f) : (f + 1) + i - 1 = f + i
    BY <1>3
  <2> QED BY <2>3, <2>4, <2>5, <2>6
<1>5. /\ SemOK(semtab', Reader \cup Writer) /\ \A s \in Sems : semtab'[s].state = "S_USED"
      /\ semtab'["tyisem"] = semtab["tyisem"]
      /\ semtab'["tyosem"].count = semtab["tyosem"].count + k
      /\ ToSet(semtab'["tyosem"].queue) \subseteq ToSet(semtab["tyosem"].queue)
  <2>1. /\ SemOK(semtab, Reader \cup Writer) /\ \A s \in Sems : semtab[s].state = "S_USED"
        /\ Sems = {"tyisem", "tyosem"}
    BY TtySizes DEF TtyInv, TtySemsOK
  <2>2. PICK new : new = Signalln(semtab, "tyosem", k)
    OBVIOUS
  <2>3. /\ SemOK(new, Reader \cup Writer) /\ OtherSems(semtab, new, "tyosem")
        /\ new["tyosem"].state = "S_USED"
        /\ new["tyosem"].count = semtab["tyosem"].count + k
        /\ ToSet(new["tyosem"].queue) \subseteq ToSet(semtab["tyosem"].queue)
    <3>1. "tyosem" \in Sems
      BY <2>1
    <3> QED BY <2>2, <3>1, TtySignalled
  <2>4. semtab' = new
    BY <2>2 DEF Send
  <2> QED BY <2>1, <2>3, <2>4 DEF OtherSems
<1>6. tyohead' = (tyohead + k) % n /\ tyohead' \in 0..(n - 1)
  <2>1. tyohead' = (tyohead + k) % n
    BY <1>1 DEF Send
  <2>2. PICK x \in Int : x = tyohead + k
    BY <1>2
  <2>3. x % n \in 0..(n - 1)
    BY <1>2
  <2> QED BY <2>1, <2>2, <2>3
<1>7. TtyTypeOK'
  <2>1. tyobuff' = tyobuff /\ tyotail' = tyotail
    BY DEF Send
  <2>2. debt' \in Nat
    BY <1>1, <1>2, <1>3
  <2> QED BY <1>1, <1>4, <1>6, <2>1, <2>2 DEF TtyInv, TtyTypeOK
<1>8. CallsOK' /\ TtySemsOK'
  BY <1>5 DEF TtyInv, CallsOK, TtySemsOK
<1>9. PlacesOK'
  <2>1. PICK c \in Int, u \in Nat, d \in Nat :
          c = Count("tyosem") /\ u = Cardinality(Putting) /\ d = debt
    BY <1>2, GrantedSize, PuttingFinite
  <2>2. (c + u) + (l - d) = n /\ c <= n
    BY <1>1, <2>1 DEF TtyInv, PlacesOK
  <2>3. Count("tyosem")' = c + k /\ Putting' = Putting
    BY <1>5, <2>1 DEF Count, Putting
  <2>4. Len(owed') = l - f /\ debt' = d + (k - f)
    BY <1>1, <1>4, <2>1
  <2>5. ((c + k) + u) + ((l - f) - (d + (k - f))) = n
    BY ONLY <2>2, c \in Int, u \in Nat, d \in Nat, <1>2, <1>3, k \in Nat
  <2>6. c + k <= n
    BY <1>1, <1>2, <2>1, <2>2
  <2>7. d + (k - f) > 0 => l - f = 0
    <3>1. d > 0 => l = 0
      <4>1. debt > 0 => owed = <<>>
        BY DEF TtyInv, PlacesOK
      <4> QED BY <1>1, <2>1, <4>1
    <3> QED BY <1>3, <2>1, <3>1
  <2>8. debt' > 0 => owed' = <<>>
    <3> SUFFICES ASSUME debt' > 0 PROVE owed' = <<>>
      OBVIOUS
    <3>1. Len(owed') = 0
      BY <2>4, <2>7
    <3> QED BY <1>4, <3>1, NoLength
  <2>9. (c + k) + u = Count("tyosem")' + Cardinality(Putting')
    BY <2>1, <2>3
  <2> QED BY <1>1, <2>3, <2>4, <2>5, <2>6, <2>8, <2>9 DEF PlacesOK
<1>10. InPlace'
  <2>1. PICK h \in Int, d \in Nat : h = tyohead /\ d = debt
    BY <1>2
  <2>2. /\ \A i \in 1..l : tyobuff[(h + i - 1) % n] = owed[i]
        /\ tyotail = (h + l - d) % n
    BY <1>1, <2>1 DEF TtyInv, InPlace
  <2>3. /\ tyobuff' = tyobuff /\ tyotail' = tyotail /\ tyohead' = (h + k) % n
        /\ debt' = d + (k - f)
    BY <1>1, <1>6, <2>1 DEF Send
  <2>4. \A i \in 1..(l - f) : tyobuff[(((h + k) % n) + i - 1) % n] = owed'[i]
    <3> SUFFICES ASSUME NEW i \in 1..(l - f)
                 PROVE  tyobuff[(((h + k) % n) + i - 1) % n] = owed'[i]
      OBVIOUS
    <3>1. f = k /\ f + i \in 1..l
      BY <1>3
    <3>2. PICK a \in Int, b \in Int : a = h + k /\ b = i - 1
      OBVIOUS
    <3>3. ((a % n) + b) % n = (a + b) % n
      BY <1>2, ModShift
    <3>4. a + b = h + (f + i) - 1 /\ ((h + k) % n) + i - 1 = (a % n) + b
      <4>1. a % n \in Int
        BY <1>2
      <4>2. PICK m \in Int : m = a % n /\ m = (h + k) % n
        BY <3>2, <4>1
      <4> QED BY <3>1, <3>2, <4>2
    <3>5. tyobuff[(h + (f + i) - 1) % n] = owed[f + i]
      BY <2>2, <3>1
    <3>6. owed'[i] = owed[f + i]
      BY <1>4
    <3> QED BY <3>3, <3>4, <3>5, <3>6
  <2>5. tyotail = (((h + k) % n) + (l - f) - (d + (k - f))) % n
    <3>1. PICK a \in Int, b \in Int : a = h + k /\ b = l - (d + k)
      BY <1>3
    <3>2. ((a % n) + b) % n = (a + b) % n
      BY <1>2, ModShift
    <3>3. a + b = h + l - d
      BY <1>3, <3>1
    <3>4. ((h + k) % n) + (l - f) - (d + (k - f)) = (a % n) + b
      <4>1. PICK m \in Int : m = a % n /\ m = (h + k) % n
        BY <1>2, <3>1
      <4> QED BY <1>3, <3>1, <4>1
    <3> QED BY <2>2, <3>2, <3>3, <3>4
  <2> QED BY <1>1, <1>4, <2>3, <2>4, <2>5 DEF InPlace
<1> QED BY <1>7, <1>8, <1>9, <1>10 DEF TtyInv

(* One character is stored by a writer that has acquired a place, with the *)
(* table tab of semaphores.                                                *)
LEMMA RestIs ==
  ASSUME NEW c \in TtyCall, c.todo # <<>>
  PROVE  /\ CharOf(c) \in Characters /\ RestOf(c) \in TtyCall
         /\ RestOf(c).op \in {"idle", "have"}
         /\ RestOf(c).op # "idle" => RestOf(c).todo # <<>>
<1>1. c.todo \in Seq(Characters) /\ Len(c.todo) \in Nat \ {0} /\ c.left \in Int
  BY DEF TtyCall
<1>2. Head(c.todo) \in Characters /\ Tail(c.todo) \in Seq(Characters)
      /\ Len(Tail(c.todo)) = Len(c.todo) - 1
  BY <1>1, HeadTailProperties
<1>3. CharOf(c) \in Characters
  BY <1>2 DEF CharOf, Characters
<1>4. Idle \in TtyCall /\ Idle.op = "idle"
  BY EmptySeq DEF Idle, TtyCall
<1>5. CASE ReturnFirst(c)
  <2>1. PICK r : r = [c EXCEPT !.op = "have", !.part = "newline"]
    OBVIOUS
  <2>2. r \in TtyCall /\ r.op = "have" /\ r.todo = c.todo
    BY <2>1 DEF TtyCall
  <2>3. RestOf(c) = r
    BY <1>5, <2>1 DEF RestOf
  <2> QED BY <1>3, <2>2, <2>3
<1>6. CASE ~ReturnFirst(c) /\ Len(c.todo) = 1
  <2>1. RestOf(c) = Idle
    BY <1>6 DEF RestOf
  <2> QED BY <1>3, <1>4, <2>1
<1>7. CASE ~ReturnFirst(c) /\ Len(c.todo) # 1
  <2>1. PICK t, r : t = Tail(c.todo) /\ r = [Idle EXCEPT !.op = "have", !.todo = t]
    OBVIOUS
  <2>2. r = [op |-> "have", part |-> "chars", left |-> 0, todo |-> t]
    BY <2>1 DEF Idle
  <2>3. r \in TtyCall /\ r.op = "have" /\ r.todo = t
    <3>1. t \in Seq(Characters)
      BY <1>2, <2>1
    <3>2. [op |-> "have", part |-> "chars", left |-> 0, todo |-> t] \in TtyCall
      BY <3>1 DEF TtyCall
    <3> QED BY <2>2, <3>2
  <2>4. RestOf(c) = r
    BY <1>7, <2>1 DEF RestOf
  <2>5. t # <<>>
    <3>1. Len(t) # 0
      BY <1>1, <1>2, <1>7, <2>1
    <3> QED BY <3>1
  <2> QED BY <1>3, <2>3, <2>4, <2>5
<1> QED BY <1>5, <1>6, <1>7

(* A table in which some units were acquired by those who did not wait.    *)
SameWaiting(tab) ==
  /\ SemOK(tab, Reader \cup Writer)
  /\ \A s \in Sems : tab[s].state = "S_USED" /\ tab[s].queue = semtab[s].queue

LEMMA PutStep ==
  ASSUME TtyInv, NEW p \in Writer, pc[p].op \in {"have", "putc"}, NEW tab, PutChar(p, tab),
         p \notin ToSet(semtab["tyosem"].queue), SameWaiting(tab),
         Count("tyosem") + Cardinality(Putting) > 0,
         tab["tyosem"].count <= Count("tyosem"),
         tab["tyosem"].count + Cardinality(Putting \ {p}) =
           Count("tyosem") + Cardinality(Putting) - 1,
         UNCHANGED <<ivars, evars>>
  PROVE  TtyInv'
<1>1. PICK n, l, ch, r :
        /\ n = TY_OBUFLEN /\ l = Len(owed) /\ ch = CharOf(pc[p]) /\ r = RestOf(pc[p])
  OBVIOUS
<1>2. /\ n \in Nat \ {0} /\ owed \in Seq(Characters) /\ debt \in Nat /\ l \in Nat
      /\ tyohead \in 0..(n - 1) /\ tyotail \in 0..(n - 1) /\ pc[p] \in TtyCall /\ p \notin Reader
      /\ pc \in [Reader \cup Writer -> TtyCall]
      /\ tyobuff \in [0..(n - 1) -> Characters \cup {"none"}]
  BY <1>1, TtySizes DEF TtyInv, TtyTypeOK
<1>3. /\ ch \in Characters /\ r \in TtyCall /\ r.op \in {"idle", "have"}
      /\ r.op # "idle" => r.todo # <<>>
  BY <1>1, <1>2, RestIs DEF TtyInv, CallsOK
<1>4. /\ tyobuff' = [tyobuff EXCEPT ![tyotail] = ch]
      /\ tyotail' = Wrapped(tyotail + 1, n) /\ tyohead' = tyohead
      /\ owed' = (IF debt > 0 THEN owed ELSE Append(owed, ch))
      /\ debt' = (IF debt > 0 THEN debt - 1 ELSE 0)
      /\ semtab' = tab /\ pc' = [pc EXCEPT ![p] = r]
  BY <1>1, <1>2 DEF PutChar
<1>5. /\ pc' \in [Reader \cup Writer -> TtyCall] /\ pc'[p] = r
      /\ \A x \in (Reader \cup Writer) \ {p} : pc'[x] = pc[x]
  BY <1>2, <1>3, <1>4
<1>6. tyotail' = (tyotail + 1) % n /\ tyotail' \in 0..(n - 1)
  BY <1>2, <1>4, WrappedIs
<1>7. /\ tyobuff' \in [0..(n - 1) -> Characters \cup {"none"}] /\ tyobuff'[tyotail] = ch
      /\ \A i \in 0..(n - 1) : i # tyotail => tyobuff'[i] = tyobuff[i]
  BY <1>2, <1>3, <1>4
<1>8. /\ debt = 0 => /\ owed' \in Seq(Characters) /\ Len(owed') = l + 1 /\ owed'[l + 1] = ch
                     /\ \A i \in 1..l : owed'[i] = owed[i]
                     /\ debt' = 0
      /\ debt > 0 => owed' = owed /\ owed = <<>> /\ debt' = debt - 1 /\ l = 0
  <2>1. CASE debt = 0
    <3>1. owed' = Append(owed, ch)
      BY <1>4, <2>1
    <3> QED BY <1>1, <1>2, <1>3, <1>4, <2>1, <3>1, AppendProperties
  <2>2. CASE debt > 0
    <3>1. owed = <<>>
      BY <2>2 DEF TtyInv, PlacesOK
    <3> QED BY <1>1, <1>4, <2>2, <3>1
  <2> QED BY <1>2, <2>1, <2>2
<1>9. TtyTypeOK'
  <2>1. owed' \in Seq(Characters) /\ debt' \in Nat
    BY <1>2, <1>8
  <2> QED BY <1>1, <1>2, <1>4, <1>5, <1>6, <1>7, <2>1 DEF TtyInv, TtyTypeOK, ivars, evars
<1>10. CallsOK'
  BY <1>2, <1>3, <1>5 DEF TtyInv, CallsOK
<1>11. TtySemsOK'
  <2>1. Sems = {"tyisem", "tyosem"}
    BY TtySizes
  <2>2. /\ tab["tyosem"].queue = semtab["tyosem"].queue
        /\ tab["tyisem"].queue = semtab["tyisem"].queue
    BY <2>1 DEF SameWaiting
  <2>3. \A x \in ToSet(semtab["tyosem"].queue) : x \in Writer /\ pc'[x].op = "putc"
    BY <1>5 DEF TtyInv, TtySemsOK
  <2>4. \A x \in ToSet(semtab["tyisem"].queue) : x \in Reader /\ pc'[x].op \in {"getc", "nextc"}
    BY <1>2, <1>5 DEF TtyInv, TtySemsOK
  <2> QED BY <1>4, <2>2, <2>3, <2>4 DEF TtySemsOK, SameWaiting
<1>12. PICK c \in Int, u \in Nat, d \in Nat :
         c = Count("tyosem") /\ u = Cardinality(Putting) /\ d = debt
  BY <1>2, GrantedSize, PuttingFinite
<1>13. (c + u) + (l - d) = n /\ c <= n /\ c + u > 0
  BY <1>1, <1>12 DEF TtyInv, PlacesOK
<1>14. PlacesOK'
  <2>1. Putting' = Putting \ {p}
    BY <1>3, <1>5 DEF Putting
  <2>2. Count("tyosem")' = tab["tyosem"].count
    BY <1>4 DEF Count
  <2>3. Count("tyosem")' + Cardinality(Putting') = (c + u) - 1
    BY <1>12, <2>1, <2>2
  <2>4. Len(owed') - debt' = (l - d) + 1
    BY <1>2, <1>8, <1>12
  <2>5. Count("tyosem")' <= n
    <3>1. tab["tyosem"].count \in Int
      BY TtySizes DEF SameWaiting, SemOK, SemEntry
    <3> QED BY <1>2, <1>12, <1>13, <2>2, <3>1
  <2>6. debt' > 0 => owed' = <<>>
    BY <1>2, <1>8
  <2>7. (Count("tyosem")' + Cardinality(Putting')) + (Len(owed') - debt') = n
    BY <1>2, <1>12, <1>13, <2>3, <2>4
  <2> QED BY <1>1, <2>5, <2>6, <2>7 DEF PlacesOK
<1>15. InPlace'
  <2>1. PICK h \in 0..(n - 1), t \in 0..(n - 1) : h = tyohead /\ t = tyotail
    BY <1>2
  <2>2. /\ \A i \in 1..l : tyobuff[(h + i - 1) % n] = owed[i]
        /\ t = (h + l - d) % n
    BY <1>1, <1>12, <2>1 DEF TtyInv, InPlace
  <2>3. l - d < n
    BY <1>2, <1>12, <1>13
  <2>4. CASE d > 0
    <3>1. Len(owed') = 0 /\ debt' = d - 1 /\ l = 0
      BY <1>1, <1>8, <1>12, <2>4
    <3>2. (t + 1) % n = (h + 0 - (d - 1)) % n
      <4>1. PICK a \in Int, b \in Int : a = h - d /\ b = 1
        BY <2>1
      <4>2. ((a % n) + b) % n = (a + b) % n
        BY <1>2, ModShift
      <4>3. t = a % n /\ a + b = h + 0 - (d - 1) /\ (a % n) + b = t + 1
        <5>1. h + l - d = a /\ a + b = h + 0 - (d - 1)
          BY <2>1, <3>1, <4>1
        <5> QED BY <2>1, <2>2, <4>1, <5>1
      <4> QED BY <4>2, <4>3
    <3> QED BY <1>1, <1>4, <1>6, <2>1, <3>1, <3>2 DEF InPlace
  <2>5. CASE d = 0
    <3>1. /\ Len(owed') = l + 1 /\ owed'[l + 1] = ch /\ \A i \in 1..l : owed'[i] = owed[i]
          /\ debt' = 0 /\ l < n
      <4>1. debt = 0
        BY <1>12, <2>5
      <4>2. l < n
        BY <1>2, <2>3, <2>5
      <4> QED BY <1>8, <4>1, <4>2
    <3>2. t = (h + l) % n
      <4>1. h + l - d = h + l
        BY <1>2, <2>1, <2>5
      <4> QED BY <2>2, <4>1
    <3>3. (t + 1) % n = (h + (l + 1) - 0) % n
      <4>1. PICK a \in Int, b \in Int : a = h + l /\ b = 1
        BY <1>2, <2>1
      <4>2. ((a % n) + b) % n = (a + b) % n
        BY <1>2, ModShift
      <4>3. a + b = h + (l + 1) - 0
        BY <1>2, <2>1, <4>1
      <4>4. t = a % n /\ (a % n) + b = t + 1
        BY <2>1, <3>2, <4>1
      <4> QED BY <4>2, <4>3, <4>4
    <3>4. \A i \in 1..(l + 1) : tyobuff'[(h + i - 1) % n] = owed'[i]
      <4> SUFFICES ASSUME NEW i \in 1..(l + 1)
                   PROVE  tyobuff'[(h + i - 1) % n] = owed'[i]
        OBVIOUS
      <4>1. CASE i = l + 1
        <5>1. h + i - 1 = h + l
          BY <1>2, <2>1, <4>1
        <5> QED BY <1>7, <2>1, <3>1, <3>2, <4>1, <5>1
      <4>2. CASE i \in 1..l
        <5>1. PICK a \in Int, b \in Int : a = h + i - 1 /\ b = h + l
          BY <1>2, <2>1
        <5>2. a < b /\ b < a + n
          BY <1>2, <2>1, <3>1, <4>2, <5>1
        <5>3. a % n # b % n
          BY <1>2, <5>2, ModApart
        <5>4. a % n \in 0..(n - 1)
          BY <1>2
        <5>5. tyobuff'[a % n] = tyobuff[a % n]
          BY <1>7, <2>1, <3>2, <5>1, <5>3, <5>4
        <5> QED BY <2>2, <3>1, <4>2, <5>1, <5>5
      <4> QED BY <1>2, <4>1, <4>2
    <3> QED BY <1>1, <1>4, <1>6, <2>1, <3>1, <3>3, <3>4 DEF InPlace
  <2> QED BY <2>4, <2>5
<1> QED BY <1>9, <1>10, <1>11, <1>14, <1>15 DEF TtyInv

(* The calls and the interrupts, one lemma each.                           *)
LEMMA TtyInitOK ==
  ASSUME Init
  PROVE  TtyInv
<1>1. PICK N : N = TY_OBUFLEN
  OBVIOUS
<1>2. /\ N \in Nat \ {0} /\ TY_EBUFLEN \in Nat \ {0} /\ Sems = {"tyisem", "tyosem"}
      /\ SYSERR \notin Sems /\ "tyisem" # SYSERR /\ "tyosem" # SYSERR
  BY <1>1, TtySizes, SemTableAssumption
<1>3. PICK a, b : /\ a = [state |-> "S_USED", count |-> 0, queue |-> <<>>]
                  /\ b = [state |-> "S_USED", count |-> N, queue |-> <<>>]
  OBVIOUS
<1>4. semtab = [[[s \in Sems |-> FreeEntry] EXCEPT !["tyisem"] = a] EXCEPT !["tyosem"] = b]
  BY <1>1, <1>2, <1>3 DEF Init, Semcreate
<1>5. semtab["tyisem"] = a /\ semtab["tyosem"] = b /\ semtab = [s \in Sems |-> semtab[s]]
  BY <1>2, <1>4
<1>6. \A e \in {a, b} : /\ e \in SemEntry(Reader \cup Writer) /\ EntryOK(e)
                        /\ e.state = "S_USED" /\ ToSet(e.queue) = {}
  <2>1. a \in SemEntry(Reader \cup Writer) /\ b \in SemEntry(Reader \cup Writer)
    BY <1>2, <1>3, EmptySeq DEF SemEntry
  <2>2. /\ a.queue = <<>> /\ a.count = 0 /\ a.state = "S_USED"
        /\ b.queue = <<>> /\ b.count = N /\ b.state = "S_USED"
    BY <1>3
  <2> QED BY <1>2, <2>1, <2>2, NoneWaits DEF EntryOK
<1>7. \A s \in Sems : semtab[s] \in {a, b}
  BY <1>2, <1>5
<1>8. SemOK(semtab, Reader \cup Writer)
  BY <1>5, <1>6, <1>7 DEF SemOK
<1>9. pc = [p \in Reader \cup Writer |-> Idle]
  BY DEF Init
<1>10. Idle \in TtyCall /\ Idle.op = "idle"
  BY EmptySeq DEF Idle, TtyCall
<1>11. \A p \in Reader \cup Writer : pc[p].op = "idle"
  BY <1>9, <1>10
<1>12. TtyTypeOK
  <2>1. owed = <<>> /\ owed \in Seq(Characters)
    BY EmptySeq DEF Init
  <2>2. pc \in [Reader \cup Writer -> TtyCall]
    BY <1>9, <1>10
  <2> QED BY <1>1, <1>2, <2>1, <2>2 DEF Init, TtyTypeOK
<1>13. CallsOK
  BY <1>11 DEF CallsOK
<1>14. TtySemsOK
  BY <1>5, <1>6, <1>7, <1>8 DEF TtySemsOK
<1>15. PlacesOK
  <2>1. Putting = {}
    BY <1>11 DEF Putting
  <2>2. Cardinality(Putting) = 0
    BY <2>1, FS_EmptySet
  <2>3. Count("tyosem") = N
    BY <1>3, <1>5 DEF Count
  <2>4. owed = <<>> /\ debt = 0
    BY DEF Init
  <2> QED BY <1>1, <1>2, <2>2, <2>3, <2>4 DEF PlacesOK
<1>16. InPlace
  <2>1. tyohead = 0 /\ tyotail = 0 /\ owed = <<>> /\ debt = 0
    BY DEF Init
  <2>2. 0 % N = 0
    BY <1>2, ModIs
  <2> QED BY <1>1, <2>1, <2>2 DEF InPlace
<1> QED BY <1>12, <1>13, <1>14, <1>15, <1>16 DEF TtyInv

LEMMA PlainStep ==
  ASSUME TtyInv, UNCHANGED <<ovars, evars, tyicursor, semtab, pc>>
  PROVE  TtyInv'
<1>1. TtyTypeOK' /\ CallsOK' /\ TtySemsOK'
  BY DEF TtyInv, TtyTypeOK, CallsOK, TtySemsOK, ovars, evars
<1> QED BY <1>1, OutputKept

LEMMA OutputInterrupt ==
  ASSUME TtyInv, Ttyhandle_out
  PROVE  TtyInv'
<1>1. UNCHANGED <<tyicursor, pc>>
  BY DEF Ttyhandle_out, ivars
<1>2. CASE UNCHANGED <<ovars, evars, semtab>>
  BY <1>1, <1>2, PlainStep
<1>3. CASE ~UNCHANGED <<ovars, evars, semtab>>
  <2>1. PICK e, c, k :
          /\ e = Lesser(UART_FIFO_SIZE, Echoed) /\ c = Count("tyosem")
          /\ k = IF TY_OBUFLEN - c > 0 THEN Lesser(UART_FIFO_SIZE - e, TY_OBUFLEN - c) ELSE 0
          /\ tyehead' = (tyehead + e) % TY_EBUFLEN /\ Send(k) /\ UNCHANGED tyetail
    BY <1>3 DEF Ttyhandle_out
  <2>2. PICK n \in Nat, m \in Nat \ {0}, f \in Nat :
          n = TY_OBUFLEN /\ m = TY_EBUFLEN /\ f = UART_FIFO_SIZE
    BY TtySizes
  <2>3. c \in Int
    BY <2>1, GrantedSize
  <2>4. Echoed \in Nat
    <3>1. tyehead \in 0..(m - 1) /\ tyetail \in 0..(m - 1)
      BY <2>2 DEF TtyInv, TtyTypeOK
    <3>2. PICK x \in Int : x = tyetail - tyehead + m
      BY <3>1
    <3>3. x % m \in 0..(m - 1)
      OBVIOUS
    <3> QED BY <2>2, <3>2, <3>3 DEF Echoed
  <2>5. e \in 0..f
    BY <2>1, <2>2, <2>4 DEF Lesser
  <2>6. k \in Nat /\ (k = 0 \/ c + k <= n)
    <3>1. k = IF n - c > 0 THEN (IF f - e < n - c THEN f - e ELSE n - c) ELSE 0
      BY <2>1, <2>2 DEF Lesser
    <3> QED BY ONLY <2>3, <2>5, <3>1, n \in Nat, f \in Nat
  <2>7. tyehead' \in 0..(TY_EBUFLEN - 1)
    <3>1. PICK x \in Int : x = tyehead + e
      BY <2>5 DEF TtyInv, TtyTypeOK
    <3>2. x % m \in 0..(m - 1)
      OBVIOUS
    <3> QED BY <2>1, <2>2, <3>1, <3>2
  <2>8. k = 0 \/ Count("tyosem") + k <= TY_OBUFLEN
    BY <2>1, <2>2, <2>6
  <2> QED BY <1>1, <2>1, <2>6, <2>7, <2>8, SendStep
<1> QED BY <1>2, <1>3

(* Whatever is typed, the cursor stays a count, and the echo ring and the  *)
(* semaphore of input change as their operations say.                      *)
InputEffect ==
  /\ tyicursor' \in Nat /\ InputSignalled
  /\ UNCHANGED evars \/ \E n \in Nat : Eputc(n)

LEMMA InputEffects ==
  ASSUME TtyInv, NEW ch, Ttyhandle_in(ch)
  PROVE  InputEffect
<1>1. tyicursor \in Nat
  BY DEF TtyInv, TtyTypeOK
<1>2. ASSUME NEW m, Echo(m), m \in Nat PROVE UNCHANGED evars \/ \E n \in Nat : Eputc(n)
  BY <1>2 DEF Echo
<1>3. \A x : EchoWidth(x) \in Nat /\ EraseWidth(x) \in Nat
  BY DEF EchoWidth, EraseWidth
<1>4. Quiet => tyicursor' \in Nat /\ InputSignalled
  BY <1>1 DEF Quiet, InputSignalled, ivars
<1>5. \A n \in Nat : Signal(n) => InputSignalled
  BY DEF Signal, InputSignalled
<1>6. 1 \in Nat /\ 2 \in Nat
  OBVIOUS
<1>7. CASE Raw(ch)
  <2>1. UNCHANGED evars
    BY <1>7 DEF Raw
  <2>2. Quiet \/ (Signal(1) /\ UNCHANGED tyicursor)
    BY <1>7 DEF Raw
  <2> QED BY <1>1, <1>4, <1>5, <1>6, <2>1, <2>2 DEF InputEffect
<1>8. CASE FlowControl(ch)
  <2>1. UNCHANGED <<ivars, evars, semtab>>
    BY <1>8 DEF FlowControl
  <2> QED BY <1>1, <2>1 DEF InputEffect, InputSignalled, ivars
<1>9. ASSUME NEW x, Cbreak(x) PROVE InputEffect
  <2>1. CASE Eputc(1) /\ Quiet
    BY <1>4, <1>6, <2>1 DEF InputEffect
  <2>2. CASE Echo(EchoWidth(x)) /\ Signal(1) /\ UNCHANGED tyicursor
    <3>1. UNCHANGED evars \/ \E n \in Nat : Eputc(n)
      BY <1>2, <1>3, <2>2
    <3>2. InputSignalled
      BY <1>5, <1>6, <2>2
    <3> QED BY <1>1, <2>2, <3>1, <3>2 DEF InputEffect
  <2> QED BY <1>9, <2>1, <2>2 DEF Cbreak
<1>10. ASSUME NEW x, Cooked(x) PROVE InputEffect
  <2>1. CASE KillLine(x)
    <3>1. tyicursor' = 0 /\ Eputc(2) /\ semtab' = semtab
      BY <2>1 DEF KillLine
    <3> QED BY <1>6, <3>1 DEF InputEffect, InputSignalled
  <2>2. CASE EraseChar(x)
    <3>1. CASE Quiet /\ UNCHANGED evars
      BY <1>4, <3>1 DEF InputEffect
    <3>2. CASE ~(Quiet /\ UNCHANGED evars)
      <4>1. PICK w \in Nat : tyicursor > 0 /\ tyicursor' = tyicursor - 1 /\ Echo(w) /\ semtab' = semtab
        BY <1>3, <2>2, <3>2 DEF EraseChar
      <4>2. UNCHANGED evars \/ \E n \in Nat : Eputc(n)
        BY <1>2, <4>1
      <4>3. tyicursor' \in Nat
        BY <1>1, <4>1
      <4> QED BY <4>1, <4>2, <4>3 DEF InputEffect, InputSignalled
    <3> QED BY <3>1, <3>2
  <2>3. CASE EndOfLine(x)
    <3>1. Echo(EchoWidth(x)) /\ Signal(tyicursor + 1) /\ tyicursor' = 0
      BY <2>3 DEF EndOfLine
    <3>2. UNCHANGED evars \/ \E n \in Nat : Eputc(n)
      BY <1>2, <1>3, <3>1
    <3>3. tyicursor + 1 \in Nat
      BY <1>1
    <3>4. InputSignalled
      BY <1>5, <3>1, <3>3
    <3> QED BY <3>1, <3>2, <3>4 DEF InputEffect
  <2>4. CASE Bell(x)
    BY <1>4, <1>6, <2>4 DEF InputEffect, Bell
  <2>5. CASE Eof(x)
    <3>1. Echo(EchoWidth(x)) /\ (Quiet \/ (Signal(1) /\ UNCHANGED tyicursor))
      BY <2>5 DEF Eof
    <3>2. UNCHANGED evars \/ \E n \in Nat : Eputc(n)
      BY <1>2, <1>3, <3>1
    <3> QED BY <1>1, <1>4, <1>5, <1>6, <3>1, <3>2 DEF InputEffect
  <2>6. CASE Ordinary(x)
    <3>1. Echo(EchoWidth(x)) /\ tyicursor' = tyicursor + 1 /\ semtab' = semtab
      BY <2>6 DEF Ordinary
    <3>2. UNCHANGED evars \/ \E n \in Nat : Eputc(n)
      BY <1>2, <1>3, <3>1
    <3>3. tyicursor' \in Nat
      BY <1>1, <3>1
    <3> QED BY <3>1, <3>2, <3>3 DEF InputEffect, InputSignalled
  <2> QED BY <1>10, <2>1, <2>2, <2>3, <2>4, <2>5, <2>6 DEF Cooked
<1>11. Raw(ch) \/ FlowControl(ch) \/ Cbreak(Mapped(ch)) \/ Cooked(Mapped(ch))
  BY DEF Ttyhandle_in
<1> QED BY <1>7, <1>8, <1>9, <1>10, <1>11

LEMMA InputInterrupt ==
  ASSUME TtyInv, NEW ch, Ttyhandle_in(ch)
  PROVE  TtyInv'
<1>1. InputEffect
  BY InputEffects
<1>2. UNCHANGED <<ovars, pc>>
  BY DEF Ttyhandle_in
<1>3. PICK m \in Nat \ {0} : m = TY_EBUFLEN
  BY TtySizes
<1>4. tyehead \in 0..(m - 1) /\ tyetail \in 0..(m - 1)
  BY <1>3 DEF TtyInv, TtyTypeOK
<1>5. tyehead' \in 0..(m - 1) /\ tyetail' \in 0..(m - 1)
  <2>1. CASE UNCHANGED evars
    BY <1>4, <2>1 DEF evars
  <2>2. CASE \E n \in Nat : Eputc(n)
    <3>1. PICK n \in Nat : tyetail' = (tyetail + n) % m /\ tyehead' = tyehead
      BY <1>3, <2>2 DEF Eputc
    <3>2. PICK x \in Int : x = tyetail + n
      BY <1>4
    <3>3. x % m \in 0..(m - 1)
      OBVIOUS
    <3> QED BY <1>4, <3>1, <3>2, <3>3
  <2> QED BY <1>1, <2>1, <2>2 DEF InputEffect
<1> QED BY <1>1, <1>2, <1>3, <1>5, InputStep DEF InputEffect

(* A reader that wants left more characters.                               *)
LEMMA ReaderCall ==
  ASSUME NEW part \in {"chars", "first", "rest", "newline"}, NEW left \in Int, NEW c,
         c = [Idle EXCEPT !.op = "want", !.part = part, !.left = left]
  PROVE  c \in TtyCall /\ c.op = "want"
<1>1. c = [op |-> "want", part |-> part, left |-> left, todo |-> <<>>]
  BY DEF Idle
<1>2. [op |-> "want", part |-> part, left |-> left, todo |-> <<>>] \in TtyCall
  BY EmptySeq DEF TtyCall
<1> QED BY <1>1, <1>2

LEMMA IdleIs == Idle \in TtyCall /\ Idle.op = "idle"
BY EmptySeq DEF Idle, TtyCall

(* A reader that blocks, or goes on with a table of the same waiters.      *)
LEMMA ReaderBlocks ==
  ASSUME TtyInv, NEW p \in Reader, NEW op \in {"getc", "nextc"}, pc[p].op \in {"idle", "want"},
         Block(p, "tyisem", op), UNCHANGED <<ovars, evars, tyicursor>>
  PROVE  TtyInv'
<1>1. PICK U, s : U = Reader \cup Writer /\ s = "tyisem"
  OBVIOUS
<1>2. /\ SemOK(semtab, U) /\ s \in Sems /\ semtab[s].state = "S_USED" /\ p \in U
      /\ semtab[s].count <= 0 /\ semtab' = Enqueued(semtab, s, p)
  BY <1>1, TtySizes DEF TtyInv, TtySemsOK, Block, Count
<1>3. ~WaitsIn(semtab, p)
  <2>1. p \notin Writer /\ Sems = {"tyisem", "tyosem"}
    BY TtySizes
  <2> QED BY <2>1 DEF TtyInv, TtySemsOK, WaitsIn
<1>4. LET new == Enqueued(semtab, s, p) IN
      /\ SemOK(new, U) /\ OtherSems(semtab, new, s)
      /\ new[s].count = semtab[s].count - 1 /\ new[s].state = semtab[s].state
      /\ ToSet(new[s].queue) = ToSet(semtab[s].queue) \cup {p}
  BY ONLY <1>2, <1>3, EnqueuedOK
<1>5. PICK c : c = [pc[p] EXCEPT !.op = op]
  OBVIOUS
<1>6. pc[p] \in TtyCall /\ pc \in [Reader \cup Writer -> TtyCall]
  BY DEF TtyInv, TtyTypeOK
<1>7. c \in TtyCall /\ c.op = op
  BY <1>5, <1>6 DEF TtyCall
<1>8. pc' = [pc EXCEPT ![p] = c]
  BY <1>5, <1>6 DEF Block
<1>9. /\ SemOK(semtab', Reader \cup Writer) /\ OtherSems(semtab, semtab', "tyisem")
      /\ semtab'["tyisem"].state = "S_USED"
      /\ ToSet(semtab'["tyisem"].queue) = ToSet(semtab["tyisem"].queue) \cup {p}
  BY <1>1, <1>2, <1>4
<1> QED BY <1>7, <1>8, <1>9, ReaderStep

LEMMA ReaderGoesOn ==
  ASSUME TtyInv, NEW p \in Reader, NEW c \in TtyCall, c.op \in {"idle", "want"},
         p \notin ToSet(semtab["tyisem"].queue), pc' = [pc EXCEPT ![p] = c],
         SemOK(semtab', Reader \cup Writer), OtherSems(semtab, semtab', "tyisem"),
         semtab'["tyisem"].state = "S_USED",
         ToSet(semtab'["tyisem"].queue) \subseteq ToSet(semtab["tyisem"].queue),
         UNCHANGED <<ovars, evars, tyicursor>>
  PROVE  TtyInv'
BY ReaderStep

LEMMA ExtractStep ==
  ASSUME TtyInv, NEW p \in Reader, NEW tab, Extract(p, tab),
         p \notin ToSet(semtab["tyisem"].queue),
         SemOK(tab, Reader \cup Writer), OtherSems(semtab, tab, "tyisem"),
         tab["tyisem"].state = "S_USED", tab["tyisem"].queue = semtab["tyisem"].queue,
         UNCHANGED <<ovars, evars>>
  PROVE  TtyInv'
<1>1. pc[p] \in TtyCall /\ pc \in [Reader \cup Writer -> TtyCall]
  BY DEF TtyInv, TtyTypeOK
<1>2. PICK part, left, c :
        /\ part = IF pc[p].part = "first" THEN "rest" ELSE pc[p].part
        /\ left = pc[p].left - 1
        /\ c \in {Idle, [Idle EXCEPT !.op = "want", !.part = part, !.left = left]}
        /\ pc' = [pc EXCEPT ![p] = c] /\ semtab' = tab /\ tyicursor' = tyicursor
  BY DEF Extract
<1>3. part \in {"chars", "first", "rest", "newline"} /\ left \in Int
  BY <1>1, <1>2 DEF TtyCall
<1>4. c \in TtyCall /\ c.op \in {"idle", "want"}
  <2>1. CASE c = Idle
    BY <2>1, IdleIs
  <2>2. CASE c = [Idle EXCEPT !.op = "want", !.part = part, !.left = left]
    BY <1>3, <2>2, ReaderCall
  <2> QED BY <1>2, <2>1, <2>2
<1> QED BY <1>2, <1>4, ReaderGoesOn

LEMMA ReadCall ==
  ASSUME TtyInv, NEW p \in Reader, NEW count \in Counts, Ttyread(p, count)
  PROVE  TtyInv'
<1>a. PICK n, part :
        /\ n = (IF count > 0 THEN count ELSE IF tyimode = "cooked" THEN 1 ELSE Avail)
        /\ part = (IF tyimode = "cooked" THEN "first" ELSE "chars")
  OBVIOUS
<1>b. PICK c : c = [Idle EXCEPT !.op = "want", !.part = part, !.left = n]
  OBVIOUS
<1>c. [Idle EXCEPT !.op = "want", !.left = n, !.part = part] = c
  BY <1>b DEF Idle
<1>d. pc' = [pc EXCEPT ![p] = c]
  BY <1>a, <1>c DEF Ttyread
<1>1. pc[p].op = "idle" /\ UNCHANGED <<ovars, evars, tyicursor, semtab>>
  BY DEF Ttyread, ivars
<1>2. /\ SemOK(semtab, Reader \cup Writer) /\ semtab["tyisem"] \in SemEntry(Reader \cup Writer)
      /\ semtab["tyisem"].state = "S_USED" /\ p \notin ToSet(semtab["tyisem"].queue)
  BY <1>1, TtySizes DEF TtyInv, TtySemsOK, SemOK
<1>3. n \in Int
  <2>1. Avail \in Int
    BY <1>2 DEF Avail, Left, SemEntry
  <2>2. count \in Nat
    BY TtyAssumption
  <2> QED BY <1>a, <2>1, <2>2
<1>4. part \in {"chars", "first", "rest", "newline"}
  BY <1>a
<1>5. c \in TtyCall /\ c.op = "want"
  <2>1. c = [Idle EXCEPT !.op = "want", !.part = part, !.left = n]
    BY <1>b
  <2> QED BY <1>3, <1>4, <2>1, ReaderCall
<1>6. OtherSems(semtab, semtab', "tyisem") /\ semtab' = semtab
  BY <1>1 DEF OtherSems
<1> QED BY <1>1, <1>2, <1>5, <1>6, <1>d, ReaderGoesOn

LEMMA GetcCall ==
  ASSUME TtyInv, NEW p \in Reader, Ttygetc(p)
  PROVE  TtyInv'
<1>1. pc[p].op = "want" /\ UNCHANGED <<ovars, evars>>
  BY DEF Ttygetc
<1>2. CASE Block(p, "tyisem", "getc") /\ UNCHANGED ivars
  BY <1>1, <1>2, ReaderBlocks DEF ivars
<1>3. CASE Count("tyisem") > 0 /\ Extract(p, Waited(semtab, "tyisem"))
  <2>1. PICK U, s, new : U = Reader \cup Writer /\ s = "tyisem" /\ new = Waited(semtab, s)
    OBVIOUS
  <2>2. SemOK(semtab, U) /\ s \in Sems /\ semtab[s].count > 0 /\ semtab[s].state = "S_USED"
    BY <1>3, <2>1, TtySizes DEF TtyInv, TtySemsOK, Count
  <2>3. /\ SemOK(new, U) /\ OtherSems(semtab, new, s) /\ new[s].state = semtab[s].state
        /\ new[s].queue = semtab[s].queue
    BY ONLY <2>1, <2>2, WaitedOK
  <2>4. p \notin ToSet(semtab["tyisem"].queue)
    BY <1>1 DEF TtyInv, TtySemsOK
  <2>5. Extract(p, new)
    BY <1>3, <2>1
  <2> QED BY <1>1, <2>1, <2>2, <2>3, <2>4, <2>5, ExtractStep
<1> QED BY <1>2, <1>3 DEF Ttygetc

LEMMA GetcResumes ==
  ASSUME TtyInv, NEW p \in Reader, TtygetcResumes(p)
  PROVE  TtyInv'
<1>1. /\ UNCHANGED <<ovars, evars>> /\ Extract(p, semtab) /\ ~WaitsIn(semtab, p)
  BY DEF TtygetcResumes, Waiting
<1>2. "tyisem" \in Sems
  BY TtySizes
<1>3. /\ p \notin ToSet(semtab["tyisem"].queue) /\ SemOK(semtab, Reader \cup Writer)
      /\ semtab["tyisem"].state = "S_USED" /\ OtherSems(semtab, semtab, "tyisem")
  BY <1>1, <1>2 DEF WaitsIn, TtyInv, TtySemsOK, OtherSems
<1> QED BY <1>1, <1>3, ExtractStep

LEMMA NextcCall ==
  ASSUME TtyInv, NEW p \in Reader, TcNextc(p)
  PROVE  TtyInv'
<1>1. /\ pc[p].op = "idle" /\ Block(p, "tyisem", "nextc")
      /\ UNCHANGED <<ovars, evars, tyicursor>>
  BY DEF TcNextc, ivars
<1> QED BY <1>1, ReaderBlocks

LEMMA NextcResumes ==
  ASSUME TtyInv, NEW p \in Reader, TcNextcResumes(p)
  PROVE  TtyInv'
<1>1. /\ UNCHANGED <<ovars, evars, tyicursor>> /\ pc' = [pc EXCEPT ![p] = Idle]
      /\ ~WaitsIn(semtab, p) /\ semtab' = Signalln(semtab, "tyisem", 1)
  BY DEF TcNextcResumes, Waiting, Signal, ivars
<1>2. "tyisem" \in Sems
  BY TtySizes
<1>0. PICK n \in Nat : n = 1
  OBVIOUS
<1>3. PICK new : new = Signalln(semtab, "tyisem", n)
  OBVIOUS
<1>4. /\ SemOK(new, Reader \cup Writer) /\ OtherSems(semtab, new, "tyisem")
      /\ new["tyisem"].state = "S_USED"
      /\ ToSet(new["tyisem"].queue) \subseteq ToSet(semtab["tyisem"].queue)
  BY <1>2, <1>3, TtySignalled
<1>5. semtab' = new
  BY <1>0, <1>1, <1>3
<1>6. p \notin ToSet(semtab["tyisem"].queue)
  BY <1>1, <1>2 DEF WaitsIn
<1> QED BY <1>1, <1>4, <1>5, <1>6, IdleIs, ReaderGoesOn

LEMMA WriteCall ==
  ASSUME TtyInv, NEW p \in Writer, NEW text \in Texts, Ttywrite(p, text)
  PROVE  TtyInv'
<1>1. PICK c : /\ c = [Idle EXCEPT !.op = "have", !.todo = text]
               /\ pc' = [pc EXCEPT ![p] = c] /\ pc[p].op = "idle" /\ text # <<>>
               /\ UNCHANGED <<ovars, evars, tyicursor, semtab>>
  BY DEF Ttywrite, ivars
<1>2. c \in TtyCall /\ c.op = "have" /\ c.todo = text
  <2>1. c = [op |-> "have", part |-> "chars", left |-> 0, todo |-> text]
    BY <1>1 DEF Idle
  <2>2. text \in Seq(Characters)
    BY TtySizes
  <2>3. [op |-> "have", part |-> "chars", left |-> 0, todo |-> text] \in TtyCall
    BY <2>2 DEF TtyCall
  <2> QED BY <2>1, <2>3
<1>3. /\ pc \in [Reader \cup Writer -> TtyCall] /\ p \notin Reader
      /\ pc' \in [Reader \cup Writer -> TtyCall] /\ pc'[p] = c
      /\ \A r \in (Reader \cup Writer) \ {p} : pc'[r] = pc[r]
  BY <1>1, <1>2, TtySizes DEF TtyInv, TtyTypeOK
<1>4. TtyTypeOK'
  BY <1>1, <1>3 DEF TtyInv, TtyTypeOK, ovars, evars
<1>5. CallsOK'
  BY <1>1, <1>2, <1>3 DEF TtyInv, CallsOK
<1>6. TtySemsOK'
  <2>1. semtab' = semtab
    BY <1>1
  <2>2. \A r \in ToSet(semtab["tyosem"].queue) : r \in Writer /\ pc'[r].op = "putc"
    BY <1>1, <1>3 DEF TtyInv, TtySemsOK
  <2>3. \A r \in ToSet(semtab["tyisem"].queue) : r \in Reader /\ pc'[r].op \in {"getc", "nextc"}
    BY <1>3 DEF TtyInv, TtySemsOK
  <2> QED BY <2>1, <2>2, <2>3 DEF TtyInv, TtySemsOK
<1>7. Putting' = Putting
  BY <1>1, <1>2, <1>3 DEF Putting
<1>8. PlacesOK'
  BY <1>1, <1>7 DEF TtyInv, PlacesOK, Count, ovars
<1>9. InPlace'
  BY <1>1 DEF TtyInv, InPlace, ovars
<1> QED BY <1>4, <1>5, <1>6, <1>8, <1>9 DEF TtyInv

(* A writer that finds no free place has acquired one in advance.          *)
LEMMA WriterBlocks ==
  ASSUME TtyInv, NEW p \in Writer, pc[p].op = "have", Block(p, "tyosem", "putc"),
         UNCHANGED <<ovars, evars, tyicursor>>
  PROVE  TtyInv'
<1>1. PICK U, s : U = Reader \cup Writer /\ s = "tyosem"
  OBVIOUS
<1>2. /\ SemOK(semtab, U) /\ s \in Sems /\ semtab[s].state = "S_USED" /\ p \in U
      /\ semtab[s].count <= 0 /\ semtab' = Enqueued(semtab, s, p)
  BY <1>1, TtySizes DEF TtyInv, TtySemsOK, Block, Count
<1>3. ~WaitsIn(semtab, p)
  <2>1. p \notin Reader /\ Sems = {"tyisem", "tyosem"}
    BY TtySizes
  <2> QED BY <2>1 DEF TtyInv, TtySemsOK, WaitsIn
<1>4. LET new == Enqueued(semtab, s, p) IN
      /\ SemOK(new, U) /\ OtherSems(semtab, new, s) /\ new[s].state = semtab[s].state
      /\ new[s].count = semtab[s].count - 1
      /\ ToSet(new[s].queue) = ToSet(semtab[s].queue) \cup {p}
  BY ONLY <1>2, <1>3, EnqueuedOK
<1>5. /\ SemOK(semtab', Reader \cup Writer) /\ semtab'["tyisem"] = semtab["tyisem"]
      /\ semtab'["tyosem"].state = "S_USED"
      /\ semtab'["tyosem"].count = semtab["tyosem"].count - 1
      /\ ToSet(semtab'["tyosem"].queue) = ToSet(semtab["tyosem"].queue) \cup {p}
  BY <1>1, <1>2, <1>4, TtySizes DEF OtherSems
<1>6. PICK c : c = [pc[p] EXCEPT !.op = "putc"]
  OBVIOUS
<1>7. pc[p] \in TtyCall /\ pc \in [Reader \cup Writer -> TtyCall] /\ p \notin Reader
  BY TtySizes DEF TtyInv, TtyTypeOK
<1>8. c \in TtyCall /\ c.op = "putc" /\ c.todo = pc[p].todo
  BY <1>6, <1>7 DEF TtyCall
<1>9. /\ pc' \in [Reader \cup Writer -> TtyCall] /\ pc'[p] = c
      /\ \A r \in (Reader \cup Writer) \ {p} : pc'[r] = pc[r]
  <2>1. pc' = [pc EXCEPT ![p] = c]
    BY <1>6, <1>7 DEF Block
  <2> QED BY <1>7, <1>8, <2>1
<1>10. TtyTypeOK'
  BY <1>9 DEF TtyInv, TtyTypeOK, ovars, evars
<1>11. CallsOK'
  BY <1>7, <1>8, <1>9 DEF TtyInv, CallsOK
<1>12. TtySemsOK'
  <2>1. \A r \in ToSet(semtab'["tyosem"].queue) : r \in Writer /\ pc'[r].op = "putc"
    BY <1>5, <1>8, <1>9 DEF TtyInv, TtySemsOK
  <2>2. \A r \in ToSet(semtab'["tyisem"].queue) : r \in Reader /\ pc'[r].op \in {"getc", "nextc"}
    BY <1>5, <1>7, <1>9 DEF TtyInv, TtySemsOK
  <2>3. \A x \in Sems : semtab'[x].state = "S_USED"
    BY <1>5, TtySizes DEF TtyInv, TtySemsOK
  <2> QED BY <1>5, <2>1, <2>2, <2>3 DEF TtySemsOK
<1>13. Putting' = Putting \cup {p} /\ p \notin Putting
  BY <1>8, <1>9 DEF Putting
<1>14. Cardinality(Putting') = Cardinality(Putting) + 1
  BY <1>13, PuttingFinite, FS_AddElement
<1>15. PlacesOK'
  <2>1. PICK c1 \in Int, u \in Nat, l \in Nat, d \in Nat :
          c1 = Count("tyosem") /\ u = Cardinality(Putting) /\ l = Len(owed) /\ d = debt
    BY GrantedSize, PuttingFinite DEF TtyInv, TtyTypeOK
  <2>2. (c1 + u) + (l - d) = TY_OBUFLEN /\ c1 <= TY_OBUFLEN /\ TY_OBUFLEN \in Nat
    BY <2>1, TtySizes DEF TtyInv, PlacesOK
  <2>3. Count("tyosem")' = c1 - 1 /\ Cardinality(Putting') = u + 1
    BY <1>5, <1>14, <2>1 DEF Count
  <2>4. owed' = owed /\ debt' = debt /\ (debt > 0 => owed = <<>>)
    BY DEF TtyInv, PlacesOK, ovars
  <2>5. ((c1 - 1) + (u + 1)) + (l - d) = TY_OBUFLEN /\ c1 - 1 <= TY_OBUFLEN
    BY <2>2
  <2> QED BY <2>1, <2>3, <2>4, <2>5 DEF PlacesOK
<1>16. InPlace'
  BY DEF TtyInv, InPlace, ovars
<1> QED BY <1>10, <1>11, <1>12, <1>15, <1>16 DEF TtyInv

LEMMA PutcCall ==
  ASSUME TtyInv, NEW p \in Writer, Ttyputc(p)
  PROVE  TtyInv'
<1>1. pc[p].op = "have" /\ UNCHANGED <<ivars, evars>>
  BY DEF Ttyputc
<1>2. CASE Block(p, "tyosem", "putc") /\ UNCHANGED ovars
  BY <1>1, <1>2, WriterBlocks DEF ivars
<1>3. CASE Count("tyosem") > 0 /\ PutChar(p, Waited(semtab, "tyosem"))
  <2>1. PICK U, s, new : U = Reader \cup Writer /\ s = "tyosem" /\ new = Waited(semtab, s)
    OBVIOUS
  <2>2. SemOK(semtab, U) /\ s \in Sems /\ semtab[s].count > 0 /\ semtab[s].state = "S_USED"
    BY <1>3, <2>1, TtySizes DEF TtyInv, TtySemsOK, Count
  <2>3. /\ SemOK(new, U) /\ OtherSems(semtab, new, s) /\ new[s].state = semtab[s].state
        /\ new[s].queue = semtab[s].queue /\ new[s].count = semtab[s].count - 1
    BY ONLY <2>1, <2>2, WaitedOK
  <2>4. p \notin ToSet(semtab["tyosem"].queue)
    BY <1>1 DEF TtyInv, TtySemsOK
  <2>5. SameWaiting(new)
    BY <2>1, <2>2, <2>3, TtySizes DEF SameWaiting, OtherSems, TtyInv, TtySemsOK
  <2>6. PICK c \in Int, u \in Nat : c = Count("tyosem") /\ u = Cardinality(Putting)
    BY GrantedSize, PuttingFinite
  <2>7. Putting \ {p} = Putting
    BY <1>1 DEF Putting
  <2>8. new["tyosem"].count = c - 1 /\ c > 0
    BY <1>3, <2>1, <2>3, <2>6 DEF Count
  <2>9. /\ Count("tyosem") + Cardinality(Putting) > 0
        /\ new["tyosem"].count <= Count("tyosem")
        /\ new["tyosem"].count + Cardinality(Putting \ {p}) =
             Count("tyosem") + Cardinality(Putting) - 1
    <3>1. c + u > 0 /\ c - 1 <= c /\ (c - 1) + u = c + u - 1
      BY <2>8
    <3> QED BY <2>6, <2>7, <2>8, <3>1
  <2>10. PutChar(p, new)
    BY <1>3, <2>1
  <2> QED BY <1>1, <2>4, <2>5, <2>9, <2>10, PutStep
<1> QED BY <1>2, <1>3 DEF Ttyputc

LEMMA PutcResumes ==
  ASSUME TtyInv, NEW p \in Writer, TtyputcResumes(p)
  PROVE  TtyInv'
<1>1. /\ pc[p].op = "putc" /\ UNCHANGED <<ivars, evars>> /\ ~WaitsIn(semtab, p)
      /\ PutChar(p, semtab)
  BY DEF TtyputcResumes, Waiting
<1>2. p \notin ToSet(semtab["tyosem"].queue) /\ p \in Putting
  BY <1>1, TtySizes DEF WaitsIn, Putting
<1>3. SameWaiting(semtab)
  BY DEF SameWaiting, TtyInv, TtySemsOK
<1>4. PICK c \in Int, u \in Nat : c = Count("tyosem") /\ u = Cardinality(Putting)
  BY GrantedSize, PuttingFinite
<1>5. Cardinality(Putting \ {p}) = u - 1
  BY <1>2, <1>4, PuttingFinite, FS_RemoveElement
<1>6. c + u > 0
  <2>1. p \in Granted(Writer) /\ Granted(Writer) \subseteq Putting
    BY <1>2, ReleasedWriters
  <2>2. IsFiniteSet(Granted(Writer))
    BY <2>1, PuttingFinite, FS_Subset
  <2>3. Cardinality(Granted(Writer)) # 0
    BY <2>1, <2>2, FS_EmptySet
  <2>4. PICK g \in Nat : g = Cardinality(Granted(Writer))
    BY GrantedSize
  <2>5. (c >= 0 => g = u) /\ (c < 0 => g = u + c) /\ g # 0
    BY <1>4, <2>3, <2>4, GrantedSize
  <2> QED BY <2>5
<1>7. semtab["tyosem"].count = c
  BY <1>4 DEF Count
<1>8. /\ Count("tyosem") + Cardinality(Putting) > 0
      /\ semtab["tyosem"].count <= Count("tyosem")
      /\ semtab["tyosem"].count + Cardinality(Putting \ {p}) =
           Count("tyosem") + Cardinality(Putting) - 1
  <2>1. c <= c /\ c + (u - 1) = c + u - 1
    OBVIOUS
  <2> QED BY <1>4, <1>5, <1>6, <1>7, <2>1
<1> QED BY <1>1, <1>2, <1>3, <1>8, PutStep

LEMMA TtyStep ==
  ASSUME TtyInv, [Next]_vars
  PROVE  TtyInv'
<1>1. CASE Drain
  BY <1>1, PlainStep DEF Drain, ivars
<1>2. CASE Ttyhandle_out
  BY <1>2, OutputInterrupt
<1>3. CASE Ttycontrol
  BY <1>3, PlainStep DEF Ttycontrol, ivars
<1>4. ASSUME NEW ch \in Typable, Ttyhandle_in(ch) PROVE TtyInv'
  BY <1>4, InputInterrupt
<1>5. ASSUME NEW p \in Reader, \E n \in Counts : Ttyread(p, n) PROVE TtyInv'
  BY <1>5, ReadCall
<1>6. ASSUME NEW p \in Reader, Ttygetc(p) PROVE TtyInv'
  BY <1>6, GetcCall
<1>7. ASSUME NEW p \in Reader, TtygetcResumes(p) PROVE TtyInv'
  BY <1>7, GetcResumes
<1>8. ASSUME NEW p \in Reader, TcNextc(p) PROVE TtyInv'
  BY <1>8, NextcCall
<1>9. ASSUME NEW p \in Reader, TcNextcResumes(p) PROVE TtyInv'
  BY <1>9, NextcResumes
<1>10. ASSUME NEW p \in Writer, \E t \in Texts : Ttywrite(p, t) PROVE TtyInv'
  BY <1>10, WriteCall
<1>11. ASSUME NEW p \in Writer, Ttyputc(p) PROVE TtyInv'
  BY <1>11, PutcCall
<1>12. ASSUME NEW p \in Writer, TtyputcResumes(p) PROVE TtyInv'
  BY <1>12, PutcResumes
<1>13. CASE UNCHANGED vars
  BY <1>13, PlainStep DEF vars, ivars
<1> QED
  BY <1>1, <1>2, <1>3, <1>4, <1>5, <1>6, <1>7, <1>8, <1>9, <1>10, <1>11, <1>12, <1>13 DEF Next

(* What ttyhandle_out sends is what ttyputc stored, in order, but for as   *)
(* many characters as there are writers that were released and have not    *)
(* run since: for every number of writers, sizes of rings and of the UART. *)
THEOREM OutputIsInOrder == Spec => []OutputInOrder
<1>1. Init => TtyInv
  BY TtyInitOK
<1>2. TtyInv /\ [Next]_vars => TtyInv'
  BY TtyStep
<1>3. TtyInv => OutputInOrder
  BY InOrder
<1> QED BY <1>1, <1>2, <1>3, PTL DEF Spec

(* What n places of a ring of size N hold, from place h on.                *)
Ring(b, N, h, n) == [k \in 1..n |-> b[(h + k - 1) % N]]

(* What is read there; that it can be read in two parts; that it stays     *)
(* when something is stored d places behind h, or is one character longer. *)
RingReads(b, N, S) ==
  \A i \in Int, n \in Nat :
    /\ Ring(b, N, i, n) \in Seq(S) /\ Len(Ring(b, N, i, n)) = n
    /\ \A k \in 1..n : Ring(b, N, i, n)[k] = b[(i + k - 1) % N]

Joined(s, t) == s \o t

RingSplits(b, N) ==
  \A i, v \in Int : \A u, c, d \in Nat :
    d = u + c /\ v = i + u => Joined(Ring(b, N, i, u), Ring(b, N, v, c)) = Ring(b, N, i, d)

RingStays(b, b2, N, h, d) ==
  \A i \in Int, n \in Nat : h <= i /\ i + n <= h + d => Ring(b2, N, i, n) = Ring(b, N, i, n)

RingGrows(b, b2, N, h, d, ch) ==
  \A i \in Int, n, m \in Nat :
    h <= i /\ i + n = h + d /\ m = n + 1 => Ring(b2, N, i, m) = Append(Ring(b, N, i, n), ch)

(* What is left without the first or the last character; that the place it *)
(* begins at counts modulo the size.                                       *)
WithoutOne(s, first, last) ==
  s # <<>> /\ Tail(s) = first /\ SubSeq(s, 1, Len(s) - 1) = last

RingShrinks(b, N) ==
  \A i, j \in Int, n, m \in Nat :
    n = m + 1 /\ j = i + 1 =>
      WithoutOne(Ring(b, N, i, n), Ring(b, N, j, m), Ring(b, N, i, m))

RingTurns(b, N) ==
  \A a, m, r, i, j \in Int : \A n \in Nat :
    r = a % N /\ i = r + m /\ j = a + m => Ring(b, N, i, n) = Ring(b, N, j, n)

(* A line of u characters, and c of the next one behind it, when one more  *)
(* is stored: the character may become part of either.                     *)
OneMore(b2, N, S, h, u, c, line, edit, ch) ==
  /\ b2 \in [0..(N - 1) -> S] /\ Len(line) = u
  /\ Ring(b2, N, h, u) = line
  /\ Ring(b2, N, h + u, c + 1) = Append(edit, ch)
  /\ Ring(b2, N, h, u + c + 1) = Joined(Joined(line, edit), <<ch>>)
  /\ Joined(Ring(b2, N, h, u + 1), Ring(b2, N, h + (u + 1), c)) = Joined(Joined(line, edit), <<ch>>)
  /\ Len(Ring(b2, N, h, u + 1)) = u + 1

LEMMA RingSeq ==
  ASSUME NEW N \in Nat \ {0}, NEW S, NEW b \in [0..(N - 1) -> S]
  PROVE  RingReads(b, N, S)
<1> SUFFICES ASSUME NEW i \in Int, NEW n \in Nat
             PROVE  /\ Ring(b, N, i, n) \in Seq(S) /\ Len(Ring(b, N, i, n)) = n
                    /\ \A k \in 1..n : Ring(b, N, i, n)[k] = b[(i + k - 1) % N]
  BY DEF RingReads
<1>1. ASSUME NEW k \in 1..n PROVE b[(i + k - 1) % N] \in S
  <2>1. PICK x \in Int : x = i + k - 1
    OBVIOUS
  <2>2. x % N \in 0..(N - 1)
    OBVIOUS
  <2> QED BY <2>1, <2>2
<1>2. PICK r : r = Ring(b, N, i, n)
  OBVIOUS
<1>3. r = [k \in 1..n |-> b[(i + k - 1) % N]]
  BY <1>2 DEF Ring
<1>4. r \in [1..n -> S]
  BY <1>1, <1>3
<1>5. r \in Seq(S) /\ Len(r) = n
  BY <1>4
<1> QED BY <1>2, <1>3, <1>5

LEMMA RingParts ==
  ASSUME NEW N \in Nat \ {0}, NEW S, NEW b \in [0..(N - 1) -> S]
  PROVE  RingSplits(b, N)
<1>0. RingReads(b, N, S)
  BY RingSeq
<1> SUFFICES ASSUME NEW i \in Int, NEW v \in Int, NEW u \in Nat, NEW c \in Nat, NEW d \in Nat,
                    d = u + c, v = i + u
             PROVE  Joined(Ring(b, N, i, u), Ring(b, N, v, c)) = Ring(b, N, i, d)
  BY DEF RingSplits
<1>1. PICK r, s, t : r = Ring(b, N, i, d) /\ s = Ring(b, N, i, u) /\ t = Ring(b, N, v, c)
  OBVIOUS
<1>2. /\ r \in Seq(S) /\ Len(r) = d /\ \A k \in 1..d : r[k] = b[(i + k - 1) % N]
      /\ s \in Seq(S) /\ Len(s) = u /\ \A k \in 1..u : s[k] = b[(i + k - 1) % N]
      /\ t \in Seq(S) /\ Len(t) = c /\ \A k \in 1..c : t[k] = b[(v + k - 1) % N]
  BY ONLY <1>0, <1>1, i \in Int, v \in Int, d \in Nat, u \in Nat, c \in Nat DEF RingReads
<1>3. PICK w : w = s \o t
  OBVIOUS
<1>4. /\ w \in Seq(S) /\ Len(w) = d
      /\ \A k \in 1..d : w[k] = IF k <= u THEN s[k] ELSE t[k - u]
  <2>1. /\ w \in Seq(S) /\ Len(w) = Len(s) + Len(t)
        /\ \A k \in 1..(Len(s) + Len(t)) : w[k] = IF k <= Len(s) THEN s[k] ELSE t[k - Len(s)]
    BY <1>2, <1>3, ConcatProperties
  <2> QED BY <1>2, <2>1
<1>5. ASSUME NEW k \in 1..d PROVE r[k] = w[k]
  <2>1. CASE k <= u
    <3>1. k \in 1..u
      BY <2>1
    <3> QED BY <1>2, <1>4, <2>1, <3>1
  <2>2. CASE k > u
    <3>1. PICK j \in 1..c : j = k - u /\ v + j - 1 = i + k - 1 /\ ~(k <= u)
      <4>1. k - u \in 1..c /\ v + (k - u) - 1 = i + k - 1 /\ ~(k <= u)
        BY <2>2
      <4> QED BY <4>1
    <3>2. t[j] = b[(i + k - 1) % N]
      BY <1>2, <3>1
    <3> QED BY <1>2, <1>4, <3>1, <3>2
  <2> QED BY <2>1, <2>2
<1>6. r = w
  BY <1>2, <1>4, <1>5, SeqEqual
<1> QED BY <1>1, <1>3, <1>6 DEF Joined

(* A store behind the places named leaves them.                            *)
LEMMA RingKept ==
  ASSUME NEW N \in Nat \ {0}, NEW b, NEW h \in Int, NEW d \in Nat, d < N, NEW ch,
         NEW x, x = (h + d) % N, NEW b2, b2 = [b EXCEPT ![x] = ch]
  PROVE  RingStays(b, b2, N, h, d)
<1> SUFFICES ASSUME NEW i \in Int, NEW n \in Nat, h <= i, i + n <= h + d, NEW k \in 1..n
             PROVE  b2[(i + k - 1) % N] = b[(i + k - 1) % N]
  BY DEF RingStays, Ring
<1>1. PICK z \in Int, y \in Int : z = i + k - 1 /\ y = h + d
  OBVIOUS
<1>2. z < y /\ y < z + N
  BY <1>1
<1>3. z % N # y % N
  BY <1>2, ModApart
<1>4. x = y % N
  BY <1>1
<1>5. b2[z % N] = b[z % N]
  BY <1>3, <1>4
<1> QED BY <1>1, <1>5

LEMMA RingStored ==
  ASSUME NEW N \in Nat \ {0}, NEW S, NEW b \in [0..(N - 1) -> S], NEW h \in Int,
         NEW d \in Nat, d < N, NEW ch \in S, NEW x \in 0..(N - 1), x = (h + d) % N,
         NEW b2, b2 = [b EXCEPT ![x] = ch]
  PROVE  RingGrows(b, b2, N, h, d, ch)
<1>0. /\ b2 \in [0..(N - 1) -> S] /\ b2[x] = ch
      /\ RingStays(b, b2, N, h, d) /\ RingReads(b2, N, S)
  <2>1. b2 \in [0..(N - 1) -> S] /\ b2[x] = ch
    OBVIOUS
  <2>2. RingReads(b2, N, S)
    BY <2>1, RingSeq
  <2> QED BY <2>1, <2>2, RingKept
<1> SUFFICES ASSUME NEW i \in Int, NEW n \in Nat, NEW m \in Nat, h <= i, i + n = h + d, m = n + 1
             PROVE  Ring(b2, N, i, m) = Append(Ring(b, N, i, n), ch)
  BY DEF RingGrows
<1>1. PICK r, s : r = Ring(b2, N, i, m) /\ s = Ring(b2, N, i, n)
  OBVIOUS
<1>2. /\ r \in Seq(S) /\ Len(r) = m /\ \A k \in 1..m : r[k] = b2[(i + k - 1) % N]
      /\ s \in Seq(S) /\ Len(s) = n /\ \A k \in 1..n : s[k] = b2[(i + k - 1) % N]
  BY ONLY <1>0, <1>1, i \in Int, n \in Nat, m \in Nat DEF RingReads
<1>3. s = Ring(b, N, i, n)
  <2>1. i + n <= h + d
    OBVIOUS
  <2> QED BY <1>0, <1>1, <2>1 DEF RingStays
<1>4. PICK v : v = Append(s, ch)
  OBVIOUS
<1>5. v \in Seq(S) /\ Len(v) = m /\ v[m] = ch /\ \A k \in 1..n : v[k] = s[k]
  <2>1. /\ v \in Seq(S) /\ Len(v) = Len(s) + 1 /\ v[Len(s) + 1] = ch
        /\ \A k \in 1..Len(s) : v[k] = s[k]
    BY ONLY <1>2, <1>4, ch \in S, AppendProperties
  <2> QED BY <1>2, <2>1
<1>6. r[m] = ch
  <2>1. i + m - 1 = h + d /\ m \in 1..m
    OBVIOUS
  <2> QED BY <1>0, <1>2, <2>1
<1>7. ASSUME NEW k \in 1..m PROVE r[k] = v[k]
  <2>1. CASE k <= n
    <3>1. k \in 1..n
      BY <2>1
    <3> QED BY <1>2, <1>5, <3>1
  <2>2. CASE k = m
    BY <1>5, <1>6, <2>2
  <2> QED BY <2>1, <2>2
<1>8. r = v
  BY <1>2, <1>5, <1>7, SeqEqual
<1> QED BY <1>1, <1>3, <1>4, <1>8

LEMMA RingWithOneMore ==
  ASSUME NEW N \in Nat \ {0}, NEW S, NEW b \in [0..(N - 1) -> S], NEW h \in Int,
         NEW u \in Nat, NEW c \in Nat, u + c < N, NEW ch \in S,
         NEW x \in 0..(N - 1), x = (h + (u + c)) % N, NEW b2, b2 = [b EXCEPT ![x] = ch],
         NEW line, line = Ring(b, N, h, u), NEW edit, edit = Ring(b, N, h + u, c)
  PROVE  OneMore(b2, N, S, h, u, c, line, edit, ch)
<1>1. PICK d \in Nat, v \in Int, c1 \in Nat, d1 \in Nat, u1 \in Nat, v1 \in Int :
        /\ d = u + c /\ v = h + u /\ c1 = c + 1 /\ d1 = d + 1 /\ u1 = u + 1 /\ v1 = h + u1
  OBVIOUS
<1>2. edit = Ring(b, N, v, c) /\ x = (h + d) % N /\ d < N
  BY <1>1
<1>3. b2 \in [0..(N - 1) -> S]
  OBVIOUS
<1>4. RingReads(b, N, S) /\ RingSplits(b, N) /\ RingReads(b2, N, S) /\ RingSplits(b2, N)
  BY <1>3, RingSeq, RingParts
<1>5. RingStays(b, b2, N, h, d)
  BY <1>2, RingKept
<1>6. RingGrows(b, b2, N, h, d, ch)
  BY <1>2, RingStored
<1>7. Ring(b2, N, h, u) = line
  <2>1. h <= h /\ h + u <= h + d
    BY <1>1
  <2>2. Ring(b2, N, h, u) = Ring(b, N, h, u)
    BY ONLY <1>5, <2>1, h \in Int, u \in Nat DEF RingStays
  <2> QED BY <2>2
<1>8. Ring(b2, N, v, c1) = Append(edit, ch)
  <2>1. h <= v /\ v + c = h + d /\ c1 = c + 1
    BY <1>1
  <2>2. Ring(b2, N, v, c1) = Append(Ring(b, N, v, c), ch)
    BY ONLY <1>6, <2>1, v \in Int, c \in Nat, c1 \in Nat DEF RingGrows
  <2> QED BY <1>2, <2>2
<1>9. PICK r : r = Ring(b, N, h, d)
  OBVIOUS
<1>10. Ring(b2, N, h, d1) = Append(r, ch)
  <2>1. h <= h /\ h + d = h + d /\ d1 = d + 1
    BY <1>1
  <2>2. Ring(b2, N, h, d1) = Append(Ring(b, N, h, d), ch)
    BY ONLY <1>6, <2>1, h \in Int, d \in Nat, d1 \in Nat DEF RingGrows
  <2> QED BY <1>9, <2>2
<1>11. r = Joined(line, edit)
  <2>1. d = u + c /\ v = h + u
    BY <1>1
  <2>2. Joined(Ring(b, N, h, u), Ring(b, N, v, c)) = Ring(b, N, h, d)
    BY ONLY <1>4, <2>1, h \in Int, u \in Nat, c \in Nat, d \in Nat, v \in Int DEF RingSplits
  <2> QED BY <1>2, <1>9, <2>2
<1>12. r \in Seq(S) /\ Len(r) = d
  BY ONLY <1>4, <1>9, h \in Int, d \in Nat DEF RingReads
<1>13. Append(r, ch) = r \o <<ch>>
  BY <1>12, AppendIsConcat
<1>14. Joined(Ring(b2, N, h, u1), Ring(b2, N, v1, c)) = Ring(b2, N, h, d1)
  <2>1. d1 = u1 + c /\ v1 = h + u1
    BY <1>1
  <2>2. Joined(Ring(b2, N, h, u1), Ring(b2, N, v1, c)) = Ring(b2, N, h, d1)
    BY ONLY <1>4, <2>1, h \in Int, u1 \in Nat, c \in Nat, d1 \in Nat, v1 \in Int DEF RingSplits
  <2> QED BY <2>2
<1>15. Len(Ring(b2, N, h, u1)) = u1 /\ Len(Ring(b, N, h, u)) = u
  BY ONLY <1>4, h \in Int, u1 \in Nat, u \in Nat DEF RingReads
<1>16. u + c + 1 = d1
  BY <1>1
<1>17. Ring(b2, N, h, d1) = Joined(Joined(line, edit), <<ch>>)
  BY <1>10, <1>11, <1>13 DEF Joined
<1>18. Len(line) = u
  BY <1>15
<1>19. /\ Ring(b2, N, h + u, c + 1) = Append(edit, ch)
       /\ Ring(b2, N, h, u + c + 1) = Joined(Joined(line, edit), <<ch>>)
       /\ Len(Ring(b2, N, h, u + 1)) = u + 1
  BY <1>1, <1>8, <1>15, <1>16, <1>17
<1>20. Joined(Ring(b2, N, h, u + 1), Ring(b2, N, h + (u + 1), c)) = Joined(Joined(line, edit), <<ch>>)
  BY <1>1, <1>14, <1>17
<1> QED BY <1>3, <1>7, <1>18, <1>19, <1>20 DEF OneMore

LEMMA RingEmpty ==
  ASSUME NEW b, NEW N, NEW h
  PROVE  Ring(b, N, h, 0) = <<>>
<1>1. Ring(b, N, h, 0) = [k \in 1..0 |-> b[(h + k - 1) % N]]
  BY DEF Ring
<1>2. 1..0 = {}
  OBVIOUS
<1> QED BY <1>1, <1>2

LEMMA RingMod ==
  ASSUME NEW N \in Nat \ {0}, NEW b
  PROVE  RingTurns(b, N)
<1> SUFFICES ASSUME NEW a \in Int, NEW m \in Int, NEW r \in Int, NEW i \in Int, NEW j \in Int,
                    NEW n \in Nat, r = a % N, i = r + m, j = a + m
             PROVE  Ring(b, N, i, n) = Ring(b, N, j, n)
  BY DEF RingTurns
<1>1. ASSUME NEW k \in 1..n PROVE (i + k - 1) % N = (j + k - 1) % N
  <2>1. PICK l \in Int : l = m + k - 1
    OBVIOUS
  <2>2. ((a % N) + l) % N = (a + l) % N
    BY ModShift
  <2>3. i + k - 1 = r + l /\ j + k - 1 = a + l
    BY <2>1
  <2> QED BY <2>2, <2>3
<1> QED BY <1>1 DEF Ring

LEMMA RingRead ==
  ASSUME NEW N \in Nat \ {0}, NEW S, NEW b \in [0..(N - 1) -> S]
  PROVE  RingShrinks(b, N)
<1>0. RingReads(b, N, S)
  BY RingSeq
<1> SUFFICES ASSUME NEW h \in Int, NEW i \in Int, NEW u \in Nat, NEW m \in Nat,
                    u = m + 1, i = h + 1
             PROVE  WithoutOne(Ring(b, N, h, u), Ring(b, N, i, m), Ring(b, N, h, m))
  BY DEF RingShrinks
<1>7. PICK r, s, t : r = Ring(b, N, h, u) /\ s = Ring(b, N, i, m) /\ t = Ring(b, N, h, m)
  OBVIOUS
<1>1. /\ i = h + 1 /\ u = m + 1 /\ m = u - 1
      /\ r = Ring(b, N, h, u) /\ s = Ring(b, N, i, m) /\ t = Ring(b, N, h, m)
  BY <1>7
<1>2. /\ r \in Seq(S) /\ Len(r) = u /\ \A k \in 1..u : r[k] = b[(h + k - 1) % N]
      /\ s \in Seq(S) /\ Len(s) = m /\ \A k \in 1..m : s[k] = b[(i + k - 1) % N]
      /\ t \in Seq(S) /\ Len(t) = m /\ \A k \in 1..m : t[k] = b[(h + k - 1) % N]
  BY ONLY <1>0, <1>1, h \in Int, i \in Int, u \in Nat, m \in Nat DEF RingReads
<1>3. r # <<>>
  BY <1>2
<1>4. Tail(r) = s
  <2>1. PICK v : v = Tail(r)
    OBVIOUS
  <2>2. v \in Seq(S) /\ Len(v) = m /\ \A k \in 1..m : v[k] = r[k + 1]
    BY <1>1, <1>2, <1>3, <2>1
  <2>3. ASSUME NEW k \in 1..m PROVE v[k] = s[k]
    <3>1. PICK j \in 1..u : j = k + 1
      BY <1>1
    <3>2. h + j - 1 = i + k - 1 /\ r[j] = b[(h + j - 1) % N]
      BY <1>1, <1>2, <3>1
    <3> QED BY <1>2, <2>2, <3>1, <3>2
  <2>4. v = s
    BY <1>2, <2>2, <2>3, SeqEqual
  <2> QED BY <2>1, <2>4
<1>5. SubSeq(r, 1, m) = t
  <2>1. PICK v : v = SubSeq(r, 1, m)
    OBVIOUS
  <2>2. \A k \in 1..m : k \in 1..u
    BY <1>1
  <2>3. v \in Seq(S) /\ Len(v) = m /\ \A k \in 1..m : v[k] = r[k]
    <3>1. ASSUME NEW k \in 1..m PROVE r[k] \in S
      <4>1. k \in 1..Len(r) /\ r \in Seq(S)
        BY <1>2, <2>2
      <4> QED BY <4>1
    <3>2. 1 \in Int /\ m \in Int
      OBVIOUS
    <3>3. /\ v \in Seq(S) /\ Len(v) = IF 1 <= m THEN m - 1 + 1 ELSE 0
          /\ \A k \in 1..(m - 1 + 1) : v[k] = r[1 + k - 1]
      BY ONLY <2>1, <3>1, <3>2, SubSeqProperties
    <3>4. m - 1 + 1 = m /\ \A k \in 1..m : 1 + k - 1 = k
      OBVIOUS
    <3> QED BY <3>3, <3>4
  <2>4. ASSUME NEW k \in 1..m PROVE v[k] = t[k]
    BY <1>2, <2>2, <2>3
  <2>5. v = t
    BY <1>2, <2>3, <2>4, SeqEqual
  <2> QED BY <2>1, <2>5
<1>6. Len(r) - 1 = m
  BY <1>1, <1>2
<1> QED BY <1>1, <1>3, <1>4, <1>5, <1>6 DEF WithoutOne

(* The tail taken back by m places.                                        *)
LEMMA TakenBack ==
  ASSUME NEW N \in Nat \ {0}, NEW x \in Int, NEW m \in 0..N, NEW t \in 0..(N - 1), t = x % N,
         NEW t2, t2 = IF t - m < 0 THEN t - m + N ELSE t - m
  PROVE  t2 \in 0..(N - 1) /\ t2 = (x - m) % N
<1>1. t2 = IF t - m < 0 THEN t - m + N ELSE t - m
  OBVIOUS
<1>2. t2 \in 0..(N - 1)
  OBVIOUS
<1>3. PICK q \in Int : x = N * q + t
  <2>1. x = N * (x \div N) + (x % N) /\ x \div N \in Int
    OBVIOUS
  <2> QED BY <2>1
<1>4. x - m \in Int
  OBVIOUS
<1>5. (x - m) % N = t2
  <2>1. CASE t - m >= 0
    <3>1. x - m = N * q + t2
      <4>1. N * q \in Int
        OBVIOUS
      <4> QED BY <1>1, <1>3, <2>1, <4>1
    <3> QED BY <1>2, <1>4, <3>1, ModUnique
  <2>2. CASE t - m < 0
    <3>1. N * (q - 1) = N * q - N /\ N * q \in Int /\ q - 1 \in Int
      OBVIOUS
    <3>2. x - m = N * (q - 1) + t2
      BY <1>1, <1>3, <2>2, <3>1
    <3> QED BY <1>2, <1>4, <3>1, <3>2, ModUnique
  <2> QED BY <2>1, <2>2
<1> QED BY <1>2, <1>5

(* The units of tyisem that are left, and who was let go or waits for one, *)
(* add up to what is unread: a reader that waits makes up for the unit     *)
(* the count is below zero.                                                *)
Getting == {p \in Reader : pc[p].op \in {"getc", "nextc"}}

UnreadIsCounted ==
  /\ Count("tyisem") \in Int /\ IsFiniteSet(Getting) /\ Cardinality(Getting) \in Nat
  /\ Unread \in Nat /\ Unread = Count("tyisem") + Cardinality(Getting)
  /\ Count("tyisem") > 0 => Unread > 0
  /\ \A p \in Getting : ~Waiting(p) => Unread > 0

LEMMA UnreadIs == TtyInv => UnreadIsCounted
<1> SUFFICES ASSUME TtyInv PROVE UnreadIsCounted
  OBVIOUS
<1>1. PICK e, q, c, P : e = semtab["tyisem"] /\ q = e.queue /\ c = e.count /\ P = Getting
  OBVIOUS
<1>2. e \in SemEntry(Reader \cup Writer) /\ EntryOK(e)
  BY <1>1, TtySizes DEF TtyInv, TtySemsOK, SemOK
<1>3. IsFiniteSet(P) /\ ToSet(q) \subseteq P
  <2>1. Getting \in SUBSET Reader /\ IsFiniteSet(Reader)
    BY TtyAssumption DEF Getting
  <2>2. IsFiniteSet(Getting)
    BY <2>1, FS_Subset
  <2>3. \A p \in ToSet(q) : p \in Getting
    BY <1>1 DEF Getting, TtyInv, TtySemsOK
  <2> QED BY <1>1, <2>2, <2>3
<1>4. /\ c \in Int /\ Cardinality(P) \in Nat /\ Cardinality(P \ ToSet(q)) \in Nat
      /\ c >= 0 => Cardinality(P \ ToSet(q)) = Cardinality(P)
      /\ c < 0 => Cardinality(P \ ToSet(q)) = Cardinality(P) + c
  BY <1>1, <1>2, <1>3, WithoutWaiters
<1>5. Granted(Reader) = P \ ToSet(q)
  <2>1. \A p \in Reader : pc[p].op \in {"getc", "putc", "nextc"} <=> p \in Getting
    BY DEF TtyInv, CallsOK, Getting
  <2>2. \A p \in Reader : Waiting(p) <=> p \in ToSet(q)
    <3>1. \A p \in ToSet(semtab["tyosem"].queue) : p \in Writer
      BY DEF TtyInv, TtySemsOK
    <3> QED BY <1>1, <3>1, TtySizes DEF Waiting, WaitsIn
  <2> QED BY <1>1, <2>1, <2>2 DEF Granted, Getting
<1>6. PICK g \in Nat, k \in Nat : g = Cardinality(P \ ToSet(q)) /\ k = Cardinality(P)
  BY <1>4
<1>7. Unread = (IF c > 0 THEN c ELSE 0) + g
  BY <1>1, <1>5, <1>6 DEF Unread, Avail, Left
<1>8. c \in Int /\ (c >= 0 => g = k) /\ (c < 0 => g = k + c)
  BY <1>4, <1>6
<1>9. Unread \in Nat /\ Unread = c + k /\ (c > 0 => Unread > 0) /\ (g > 0 => Unread > 0)
  BY ONLY <1>7, <1>8, g \in Nat, k \in Nat
<1>10. ASSUME NEW p \in Getting, ~Waiting(p) PROVE g > 0
  <2>1. p \in P \ ToSet(q)
    <3>1. "tyisem" \in Sems
      BY TtySizes
    <3> QED BY <1>1, <1>10, <3>1 DEF Waiting, WaitsIn
  <2>2. IsFiniteSet(P \ ToSet(q))
    BY <1>3, FS_Difference
  <2>3. Cardinality(P \ ToSet(q)) # 0
    BY <2>1, <2>2, FS_EmptySet
  <2> QED BY <1>6, <2>3
<1>11. Count("tyisem") = c
  BY <1>1 DEF Count
<1> QED BY <1>1, <1>3, <1>6, <1>8, <1>9, <1>10, <1>11 DEF UnreadIsCounted

LEMMA UnreadNext == TtyInv' => UnreadIsCounted'
BY UnreadIs, PTL

(* The input ring, while nothing in it has been overwritten: what is       *)
(* unread and what is edited lie between head and tail.  The tail is       *)
(* behind the ring only after an end of file, when nothing is edited.      *)
InputOK ==
  /\ tyibuff \in [0..(TY_IBUFLEN - 1) -> Characters \cup {"none"}]
  /\ tyihead \in 0..(TY_IBUFLEN - 1) /\ tyitail \in 0..TY_IBUFLEN
  /\ tyitail % TY_IBUFLEN = (tyihead + (Unread + tyicursor)) % TY_IBUFLEN
  /\ Unread + tyicursor <= TY_IBUFLEN
  /\ tyitail = TY_IBUFLEN => tyicursor = 0

LineOK == overrun \in BOOLEAN /\ (~overrun => InputOK)

LineMoves == [Line!LineNext]_(Line!lvars)

LEMMA LineIs ==
  /\ overrun => Readable = <<>> /\ Edited = <<>>
  /\ ~overrun => /\ Readable = Ring(tyibuff, TY_IBUFLEN, tyihead, Unread)
                 /\ Edited = Ring(tyibuff, TY_IBUFLEN, tyihead + Unread, tyicursor)
  /\ overrun' => Readable' = <<>> /\ Edited' = <<>>
  /\ ~overrun' => /\ Readable' = Ring(tyibuff', TY_IBUFLEN, tyihead', Unread')
                  /\ Edited' = Ring(tyibuff', TY_IBUFLEN, tyihead' + Unread', tyicursor')
BY DEF Readable, Edited, InRing, Ring

(* Steps that leave the ring alone, and as much in it to be read.          *)
LEMMA LineStays ==
  ASSUME LineOK, UNCHANGED ivars, Unread' = Unread
  PROVE  LineOK' /\ LineMoves
<1>1. LineOK'
  BY DEF LineOK, InputOK, ivars
<1>2. Readable' = Readable /\ Edited' = Edited /\ overrun' = overrun
  BY LineIs DEF ivars, LineOK
<1> QED BY <1>1, <1>2 DEF LineMoves, Line!lvars

(* A character goes to the tail of the ring.  Either it hits something, or *)
(* the ring is as before with the character behind it.                     *)
LEMMA StoreLine ==
  ASSUME LineOK, ~overrun, Unread \in Nat, tyicursor \in Nat,
         NEW ch \in Characters, Stores(ch),
         \/ tyitail' = Wrapped(tyitail + 1, TY_IBUFLEN)
         \/ tyitail' = tyitail + 1 /\ tyicursor' = 0,
         Unread' \in Nat, tyicursor' \in Nat,
         Unread' + tyicursor' = Unread + tyicursor + 1
  PROVE  /\ LineOK' /\ (overrun' => Line!Lost)
         /\ ~overrun' =>
              /\ tyihead' = tyihead
              /\ tyitail' = Wrapped(tyitail + 1, TY_IBUFLEN) => tyitail' # TY_IBUFLEN
              /\ OneMore(tyibuff', TY_IBUFLEN, Characters \cup {"none"}, tyihead, Unread,
                         tyicursor, Readable, Edited, ch)
<1>1. PICK N, S, b, h, u, c, t, b2, h2, t2, u2, c2 :
        /\ N = TY_IBUFLEN /\ S = Characters \cup {"none"} /\ b = tyibuff /\ h = tyihead
        /\ u = Unread /\ c = tyicursor /\ t = tyitail /\ b2 = tyibuff' /\ h2 = tyihead'
        /\ t2 = tyitail' /\ u2 = Unread' /\ c2 = tyicursor'
  OBVIOUS
<1>2. /\ N \in Nat \ {0} /\ b \in [0..(N - 1) -> S] /\ h \in Int /\ u \in Nat /\ c \in Nat
      /\ ch \in S /\ h \in 0..(N - 1) /\ t \in 0..N /\ u + c <= N
      /\ t % N = (h + (u + c)) % N /\ u2 \in Nat /\ c2 \in Nat /\ u2 + c2 = u + c + 1
  <2>1. N \in Nat \ {0}
    BY <1>1, TtyAssumption
  <2>2. /\ b \in [0..(N - 1) -> S] /\ h \in 0..(N - 1) /\ t \in 0..N /\ u + c <= N
        /\ t % N = (h + (u + c)) % N
    BY <1>1 DEF LineOK, InputOK
  <2>3. u \in Nat /\ c \in Nat /\ u2 \in Nat /\ c2 \in Nat /\ u2 + c2 = u + c + 1 /\ ch \in S
    BY <1>1
  <2> QED BY <2>1, <2>2, <2>3
<1>3. /\ h2 = h /\ overrun' \in BOOLEAN /\ (overrun' <=> t >= N \/ u + c >= N)
      /\ t < N => b2 = [b EXCEPT ![t] = ch]
  <2>1. overrun' = (t >= N \/ u + c >= N)
    BY <1>1 DEF Stores
  <2>2. overrun' \in BOOLEAN /\ (overrun' <=> t >= N \/ u + c >= N)
    BY <2>1, Zenon
  <2>3. h2 = h /\ (t < N => b2 = [b EXCEPT ![t] = ch])
    BY <1>1 DEF Stores
  <2> QED BY <2>2, <2>3
<1>4. PICK line, edit : /\ line = Ring(b, N, h, u) /\ edit = Ring(b, N, h + u, c)
                        /\ line = Readable /\ edit = Edited
  BY <1>1, LineIs
<1>5. Len(line \o edit) = u + c
  <2>1. PICK v \in Int, d \in Nat : v = h + u /\ d = u + c
    BY <1>2
  <2>2. RingReads(b, N, S) /\ RingSplits(b, N)
    BY <1>2, RingSeq, RingParts
  <2>3. Joined(Ring(b, N, h, u), Ring(b, N, v, c)) = Ring(b, N, h, d)
    BY ONLY <2>2, <1>2, <2>1, v \in Int, d \in Nat DEF RingSplits
  <2>4. Len(Ring(b, N, h, d)) = d
    BY ONLY <1>2, <2>2, d \in Nat DEF RingReads
  <2> QED BY <1>4, <2>1, <2>3, <2>4 DEF Joined
<1>6. CASE overrun'
  <2>1. LineOK'
    BY <1>3, <1>6 DEF LineOK
  <2>2. Len(Readable \o Edited) >= TY_IBUFLEN \/ tyitail = TY_IBUFLEN
    <3>1. t = N \/ u + c >= N
      BY <1>2, <1>3, <1>6
    <3> QED BY <1>1, <1>4, <1>5, <3>1
  <2>3. overrun' = TRUE /\ Readable' = <<>> /\ Edited' = <<>>
    BY <1>3, <1>6, LineIs
  <2>4. Line!Lost
    BY <2>2, <2>3 DEF Line!Lost
  <2> QED BY <1>6, <2>1, <2>4
<1>7. CASE ~overrun'
  <2>1. /\ t \in 0..(N - 1) /\ t = (h + (u + c)) % N /\ u + c < N /\ b2 = [b EXCEPT ![t] = ch]
    <3>1. t < N /\ u + c < N /\ t \in 0..(N - 1) /\ t \in Nat
      BY <1>2, <1>3, <1>7
    <3>2. t % N = t
      BY <1>2, <3>1, ModIs
    <3> QED BY <1>2, <1>3, <3>1, <3>2
  <2>2. OneMore(b2, N, S, h, u, c, line, edit, ch) /\ b2 \in [0..(N - 1) -> S]
    <3>1. OneMore(b2, N, S, h, u, c, line, edit, ch)
      BY ONLY <1>2, <1>4, <2>1, RingWithOneMore
    <3> QED BY <3>1 DEF OneMore
  <2>3. /\ t2 = Wrapped(t + 1, N) \/ (t2 = t + 1 /\ c2 = 0)
        /\ t2 = Wrapped(t + 1, N) => t2 \in 0..(N - 1)
        /\ t2 \in 0..N /\ t2 % N = (t + 1) % N
    <3>1. Wrapped(t + 1, N) = (t + 1) % N /\ Wrapped(t + 1, N) \in 0..(N - 1)
      BY <1>2, <2>1, WrappedIs
    <3>2. PICK w \in 0..(N - 1) : w = Wrapped(t + 1, N)
      BY <3>1
    <3>3. w % N = w
      <4>1. w \in Nat /\ w < N
        BY <1>2
      <4> QED BY <1>2, <4>1, ModIs
    <3>4. t2 = w \/ (t2 = t + 1 /\ c2 = 0)
      BY <1>1, <3>2
    <3>5. t2 \in 0..N
      BY <1>2, <2>1, <3>4
    <3> QED BY <3>1, <3>2, <3>3, <3>4, <3>5
  <2>4. t2 % N = (h + (u2 + c2)) % N
    <3>1. PICK x \in Int, y \in Int : x = h + (u + c) /\ y = 1
      BY <1>2
    <3>2. ((x % N) + y) % N = (x + y) % N
      BY ONLY <1>2, x \in Int, y \in Int, ModShift
    <3>3. x + y = h + (u2 + c2)
      BY <1>2, <3>1
    <3> QED BY <2>1, <2>3, <3>1, <3>2, <3>3
  <2>5. u2 + c2 <= N
    BY <1>2, <2>1
  <2>6. t2 = N => c2 = 0
    BY <1>2, <2>3
  <2>7. InputOK'
    BY <1>1, <1>2, <1>3, <2>2, <2>3, <2>4, <2>5, <2>6 DEF InputOK
  <2>8. LineOK'
    <3>1. overrun' \in BOOLEAN
      BY <1>3
    <3> QED BY <2>7, <3>1 DEF LineOK
  <2>9. tyitail' = Wrapped(tyitail + 1, TY_IBUFLEN) => tyitail' # TY_IBUFLEN
    BY <1>1, <1>2, <2>3
  <2> QED BY <1>1, <1>3, <1>4, <1>7, <2>2, <2>8, <2>9
<1> QED BY <1>6, <1>7

(* A store that ends in a line, in what is edited, or that is the end of   *)
(* the line.                                                               *)
LEMMA PassedLine ==
  ASSUME LineOK, ~overrun, Unread \in Nat, tyicursor \in Nat,
         NEW ch \in Characters, Stores(ch),
         \/ tyitail' = Wrapped(tyitail + 1, TY_IBUFLEN)
         \/ tyitail' = tyitail + 1 /\ tyicursor' = 0 /\ ch = "eof",
         Unread' = Unread + 1, tyicursor' = tyicursor
  PROVE  LineOK' /\ LineMoves
<1>1. Unread' \in Nat /\ tyicursor' \in Nat /\ Unread' + tyicursor' = Unread + tyicursor + 1
  OBVIOUS
<1>2. /\ LineOK' /\ (overrun' => Line!Lost)
      /\ ~overrun' =>
           /\ tyihead' = tyihead
           /\ tyitail' = Wrapped(tyitail + 1, TY_IBUFLEN) => tyitail' # TY_IBUFLEN
           /\ OneMore(tyibuff', TY_IBUFLEN, Characters \cup {"none"}, tyihead, Unread,
                      tyicursor, Readable, Edited, ch)
  BY <1>1, StoreLine
<1>3. CASE overrun'
  BY <1>2, <1>3 DEF LineMoves, Line!LineNext
<1>4. CASE ~overrun'
  <2>1. /\ Readable' = Ring(tyibuff', TY_IBUFLEN, tyihead, Unread + 1)
        /\ Edited' = Ring(tyibuff', TY_IBUFLEN, tyihead + (Unread + 1), tyicursor)
    BY <1>2, <1>4, LineIs
  <2>2. /\ Joined(Readable', Edited') = Joined(Joined(Readable, Edited), <<ch>>)
        /\ Len(Readable') = Len(Readable) + 1
    BY <1>2, <1>4, <2>1 DEF OneMore
  <2>3. overrun' = overrun
    BY <1>2, <1>4 DEF LineOK
  <2>4. Line!Passed(ch)
    BY <2>2, <2>3 DEF Line!Passed, Joined
  <2>5. Line!LineNext
    <3>1. CASE ch = "eof"
      BY <2>4, <3>1 DEF Line!LineNext
    <3>2. CASE ch # "eof"
      <4>1. tyitail' # TY_IBUFLEN
        BY <1>2, <1>4, <3>2
      <4> QED BY <2>4, <4>1 DEF Line!LineNext
    <3> QED BY <3>1, <3>2
  <2> QED BY <1>2, <2>5 DEF LineMoves
<1> QED BY <1>3, <1>4

LEMMA TypedLine ==
  ASSUME LineOK, ~overrun, Unread \in Nat, tyicursor \in Nat,
         NEW ch \in Characters, StoreAndWrap(ch), Unread' = Unread, tyicursor' = tyicursor + 1
  PROVE  LineOK' /\ LineMoves
<1>1. /\ Unread' \in Nat /\ tyicursor' \in Nat /\ Unread' + tyicursor' = Unread + tyicursor + 1
      /\ Stores(ch) /\ tyitail' = Wrapped(tyitail + 1, TY_IBUFLEN)
  BY DEF StoreAndWrap
<1>2. /\ LineOK' /\ (overrun' => Line!Lost)
      /\ ~overrun' =>
           /\ tyihead' = tyihead
           /\ tyitail' = Wrapped(tyitail + 1, TY_IBUFLEN) => tyitail' # TY_IBUFLEN
           /\ OneMore(tyibuff', TY_IBUFLEN, Characters \cup {"none"}, tyihead, Unread,
                      tyicursor, Readable, Edited, ch)
  BY <1>1, StoreLine
<1>3. CASE overrun'
  BY <1>2, <1>3 DEF LineMoves, Line!LineNext
<1>4. CASE ~overrun'
  <2>1. /\ Readable' = Ring(tyibuff', TY_IBUFLEN, tyihead, Unread)
        /\ Edited' = Ring(tyibuff', TY_IBUFLEN, tyihead + Unread, tyicursor + 1)
    BY <1>2, <1>4, LineIs
  <2>2. Readable' = Readable /\ Edited' = Append(Edited, ch)
    BY <1>2, <1>4, <2>1 DEF OneMore
  <2>3. overrun' = overrun /\ tyitail' # TY_IBUFLEN
    BY <1>1, <1>2, <1>4 DEF LineOK
  <2>4. Line!Typed(ch)
    BY <2>2, <2>3 DEF Line!Typed
  <2>5. Line!LineNext
    BY <2>3, <2>4 DEF Line!LineNext
  <2> QED BY <1>2, <2>5 DEF LineMoves
<1> QED BY <1>3, <1>4

LEMMA EnteredLine ==
  ASSUME LineOK, ~overrun, Unread \in Nat, tyicursor \in Nat,
         StoreAndWrap("newline"), Unread' = Unread + (tyicursor + 1), tyicursor' = 0
  PROVE  LineOK' /\ LineMoves
<1>1. /\ Unread' \in Nat /\ tyicursor' \in Nat /\ Unread' + tyicursor' = Unread + tyicursor + 1
      /\ Stores("newline") /\ tyitail' = Wrapped(tyitail + 1, TY_IBUFLEN)
      /\ "newline" \in Characters
  BY DEF StoreAndWrap, Characters
<1>2. /\ LineOK' /\ (overrun' => Line!Lost)
      /\ ~overrun' =>
           /\ tyihead' = tyihead
           /\ tyitail' = Wrapped(tyitail + 1, TY_IBUFLEN) => tyitail' # TY_IBUFLEN
           /\ OneMore(tyibuff', TY_IBUFLEN, Characters \cup {"none"}, tyihead, Unread,
                      tyicursor, Readable, Edited, "newline")
  BY <1>1, StoreLine
<1>3. CASE overrun'
  BY <1>2, <1>3 DEF LineMoves, Line!LineNext
<1>4. CASE ~overrun'
  <2>1. /\ Readable' = Ring(tyibuff', TY_IBUFLEN, tyihead, Unread + tyicursor + 1)
        /\ Edited' = Ring(tyibuff', TY_IBUFLEN, tyihead + Unread', 0)
    <3>1. Unread' = Unread + tyicursor + 1
      OBVIOUS
    <3> QED BY <1>2, <1>4, <3>1, LineIs
  <2>2. Readable' = Joined(Joined(Readable, Edited), <<"newline">>) /\ Edited' = <<>>
    BY <1>2, <1>4, <2>1, RingEmpty DEF OneMore
  <2>3. overrun' = overrun /\ tyitail' # TY_IBUFLEN
    BY <1>1, <1>2, <1>4 DEF LineOK
  <2>4. Line!Entered
    BY <2>2, <2>3 DEF Line!Entered, Joined
  <2>5. Line!LineNext
    BY <2>3, <2>4 DEF Line!LineNext
  <2> QED BY <1>2, <2>5 DEF LineMoves
<1> QED BY <1>3, <1>4

(* The tail goes back, by a character or by the line that is typed.        *)
LEMMA TakenLine ==
  ASSUME LineOK, ~overrun, Unread \in Nat, tyicursor \in Nat, NEW m \in 0..tyicursor,
         m = tyicursor \/ m = 1, Unread' = Unread, tyicursor' = tyicursor - m,
         tyitail' = IF tyitail - m < 0 THEN tyitail - m + TY_IBUFLEN ELSE tyitail - m,
         UNCHANGED <<tyibuff, tyihead, overrun>>
  PROVE  LineOK' /\ LineMoves
<1>1. PICK N, S, b, h, u, c, t, t2 :
        /\ N = TY_IBUFLEN /\ S = Characters \cup {"none"} /\ b = tyibuff /\ h = tyihead
        /\ u = Unread /\ c = tyicursor /\ t = tyitail /\ t2 = tyitail'
  OBVIOUS
<1>2. /\ N \in Nat \ {0} /\ b \in [0..(N - 1) -> S] /\ h \in 0..(N - 1) /\ t \in 0..N
      /\ u + c <= N /\ t % N = (h + (u + c)) % N /\ u \in Nat /\ c \in Nat /\ m \in 0..c
      /\ t = N => c = 0
  <2>1. N \in Nat \ {0}
    BY <1>1, TtyAssumption
  <2>2. /\ b \in [0..(N - 1) -> S] /\ h \in 0..(N - 1) /\ t \in 0..N /\ u + c <= N
        /\ t % N = (h + (u + c)) % N /\ (t = N => c = 0)
    BY <1>1 DEF LineOK, InputOK
  <2> QED BY <1>1, <2>1, <2>2
<1>3. PICK v \in Int, c2 \in Nat : v = h + u /\ c2 = c - m
  <2>1. h + u \in Int /\ c - m \in Nat
    BY <1>2
  <2> QED BY <2>1
<1>4. t2 \in 0..N /\ t2 % N = (h + (u + c2)) % N /\ (t2 = N => c2 = 0) /\ (t2 = N => t = N)
  <2>1. CASE t = N
    <3>1. m = 0 /\ c2 = c /\ t2 = t
      BY <1>1, <1>2, <1>3, <2>1
    <3> QED BY <1>2, <3>1
  <2>2. CASE t # N
    <3>1. t \in 0..(N - 1) /\ t \in Nat /\ t < N
      BY <1>2, <2>2
    <3>2. t % N = t
      BY <1>2, <3>1, ModIs
    <3>3. PICK x \in Int : x = h + (u + c)
      BY <1>2
    <3>4. m \in 0..N /\ t = x % N
      BY <1>2, <3>2, <3>3
    <3>5. t2 = IF t - m < 0 THEN t - m + N ELSE t - m
      BY <1>1
    <3>6. t2 \in 0..(N - 1) /\ t2 = (x - m) % N
      BY ONLY <1>2, <3>1, <3>4, <3>5, x \in Int, TakenBack
    <3>7. x - m = h + (u + c2)
      BY <1>2, <1>3, <3>3
    <3>8. t2 \in Nat /\ t2 < N
      BY <1>2, <3>6
    <3>9. t2 % N = t2
      BY <1>2, <3>8, ModIs
    <3>10. t2 % N = (h + (u + c2)) % N
      BY <3>6, <3>7, <3>9
    <3>11. t2 \in 0..N /\ t2 # N
      BY <1>2, <3>8
    <3> QED BY <3>10, <3>11
  <2> QED BY <2>1, <2>2
<1>5. LineOK'
  <2>1. u + c2 <= N
    BY <1>2, <1>3
  <2>2. tyicursor' = c2 /\ Unread' = u /\ overrun' = overrun
    BY <1>1, <1>3
  <2>3. InputOK'
    BY <1>1, <1>2, <1>4, <2>1, <2>2 DEF InputOK
  <2> QED BY <2>2, <2>3 DEF LineOK
<1>6. /\ Readable = Ring(b, N, h, u) /\ Edited = Ring(b, N, v, c)
      /\ Readable' = Readable /\ Edited' = Ring(b, N, v, c2)
  BY <1>1, <1>3, LineIs
<1>7. CASE m = c
  <2>1. c2 = 0
    BY <1>2, <1>3, <1>7
  <2>2. Edited' = <<>>
    BY <1>6, <2>1, RingEmpty
  <2>3. Line!Discarded
    BY <1>6, <2>2 DEF Line!Discarded
  <2> QED BY <1>1, <1>4, <1>5, <2>3 DEF LineMoves, Line!LineNext
<1>8. CASE m # c
  <2>1. m = 1 /\ c \in Nat \ {0} /\ c2 = c - 1
    BY <1>1, <1>2, <1>3, <1>8
  <2>2. PICK w \in Int : WithoutOne(Edited, Ring(b, N, w, c2), Edited')
    <3>1. RingShrinks(b, N)
      BY <1>2, RingRead
    <3>2. PICK w \in Int : w = v + 1
      OBVIOUS
    <3>3. c = c2 + 1
      BY <1>2, <2>1
    <3>4. WithoutOne(Ring(b, N, v, c), Ring(b, N, w, c2), Ring(b, N, v, c2))
      BY ONLY <1>2, <3>1, <3>2, <3>3, v \in Int, w \in Int, c2 \in Nat DEF RingShrinks
    <3> QED BY <1>6, <3>2, <3>4
  <2>3. Line!Erased
    BY <1>6, <2>2 DEF Line!Erased, WithoutOne
  <2> QED BY <1>1, <1>4, <1>5, <2>3 DEF LineMoves, Line!LineNext
<1> QED BY <1>7, <1>8

(* ttygetc takes the character at the head.                                *)
LEMMA ReadLine ==
  ASSUME LineOK, ~overrun, Unread \in Nat \ {0}, tyicursor \in Nat,
         Unread' = Unread - 1, tyihead' = Wrapped(tyihead + 1, TY_IBUFLEN),
         UNCHANGED <<tyibuff, tyitail, tyicursor, overrun>>
  PROVE  LineOK' /\ LineMoves
<1>1. PICK N, S, b, h, u, c, t, h2 :
        /\ N = TY_IBUFLEN /\ S = Characters \cup {"none"} /\ b = tyibuff /\ h = tyihead
        /\ u = Unread /\ c = tyicursor /\ t = tyitail /\ h2 = tyihead'
  OBVIOUS
<1>2. /\ N \in Nat \ {0} /\ b \in [0..(N - 1) -> S] /\ h \in 0..(N - 1) /\ t \in 0..N
      /\ u + c <= N /\ t % N = (h + (u + c)) % N /\ u \in Nat \ {0} /\ c \in Nat
      /\ t = N => c = 0
  <2>1. N \in Nat \ {0}
    BY <1>1, TtyAssumption
  <2>2. /\ b \in [0..(N - 1) -> S] /\ h \in 0..(N - 1) /\ t \in 0..N /\ u + c <= N
        /\ t % N = (h + (u + c)) % N /\ (t = N => c = 0)
    BY <1>1 DEF LineOK, InputOK
  <2> QED BY <1>1, <2>1, <2>2
<1>3. h2 = (h + 1) % N /\ h2 \in 0..(N - 1)
  <2>1. Wrapped(h + 1, N) = (h + 1) % N /\ Wrapped(h + 1, N) \in 0..(N - 1)
    BY <1>2, WrappedIs
  <2> QED BY <1>1, <2>1
<1>4. PICK a \in Int, m \in Nat, i \in Int : a = h + 1 /\ m = u - 1 /\ i = u - 1 + c
  <2>1. h + 1 \in Int /\ u - 1 \in Nat /\ u - 1 + c \in Int
    BY <1>2
  <2> QED BY <2>1
<1>5. (h2 + (m + c)) % N = t % N
  <2>1. ((a % N) + i) % N = (a + i) % N
    BY ONLY <1>2, a \in Int, i \in Int, ModShift
  <2>2. m + c = i /\ a + i = h + (u + c) /\ h2 = a % N
    BY <1>2, <1>3, <1>4
  <2> QED BY <1>2, <2>1, <2>2
<1>6. LineOK'
  <2>1. m + c <= N
    BY <1>2, <1>4
  <2>2. tyicursor' = c /\ Unread' = m /\ overrun' = overrun
    BY <1>1, <1>4
  <2>3. InputOK'
    BY <1>1, <1>2, <1>3, <1>5, <2>1, <2>2 DEF InputOK
  <2> QED BY <2>2, <2>3 DEF LineOK
<1>7. /\ Readable = Ring(b, N, h, u) /\ Edited = Ring(b, N, h + u, c)
      /\ Readable' = Ring(b, N, h2, m) /\ Edited' = Ring(b, N, h2 + m, c)
  BY <1>1, <1>4, LineIs
<1>8. Readable # <<>> /\ Tail(Readable) = Ring(b, N, a, m)
  <2>1. RingShrinks(b, N)
    BY <1>2, RingRead
  <2>2. h \in Int /\ u \in Nat /\ u = m + 1 /\ a = h + 1
    BY <1>2, <1>4
  <2>3. WithoutOne(Ring(b, N, h, u), Ring(b, N, a, m), Ring(b, N, h, m))
    BY ONLY <2>1, <2>2, a \in Int, m \in Nat DEF RingShrinks
  <2> QED BY <1>7, <2>3 DEF WithoutOne
<1>9. RingTurns(b, N) /\ h2 \in Int /\ h2 = a % N
  <2>1. RingTurns(b, N)
    BY <1>2, RingMod
  <2>2. h2 \in Int /\ h2 = a % N
    BY <1>2, <1>3, <1>4
  <2> QED BY <2>1, <2>2
<1>10. Readable' = Tail(Readable)
  <2>1. PICK x \in Int, y \in Int, z \in Int : x = h2 + z /\ y = a + z /\ x = h2 /\ y = a
    <3>1. h2 + 0 = h2 /\ a + 0 = a /\ 0 \in Int
      BY <1>9
    <3> QED BY <1>9, <3>1
  <2>2. x = h2 + z /\ y = a + z
    BY <2>1
  <2>3. Ring(b, N, x, m) = Ring(b, N, y, m)
    BY ONLY <1>9, <2>2, a \in Int, m \in Nat, x \in Int, y \in Int, z \in Int DEF RingTurns
  <2> QED BY <1>7, <1>8, <2>1, <2>3
<1>11. Edited' = Edited
  <2>1. PICK x \in Int, y \in Int : x = h2 + m /\ y = a + m
    BY <1>9
  <2>2. m \in Int /\ c \in Nat
    BY <1>2
  <2>3. Ring(b, N, x, c) = Ring(b, N, y, c)
    BY ONLY <1>9, <2>1, <2>2, a \in Int, x \in Int, y \in Int DEF RingTurns
  <2>4. y = h + u
    BY <1>2, <1>4, <2>1
  <2> QED BY <1>7, <2>1, <2>3, <2>4
<1>12. Line!Read
  BY <1>8, <1>10, <1>11 DEF Line!Read
<1> QED BY <1>6, <1>12 DEF LineMoves, Line!LineNext

(* How the count of tyisem and the readers let go or waiting move what is  *)
(* unread.                                                                 *)
LEMMA UnreadMoves ==
  ASSUME TtyInv, TtyInv', NEW n \in Int, NEW k \in Int,
         Count("tyisem")' = Count("tyisem") + n,
         Cardinality(Getting') = Cardinality(Getting) + k
  PROVE  Unread \in Nat /\ Unread' \in Nat /\ Unread' = Unread + (n + k)
<1>1. UnreadIsCounted /\ UnreadIsCounted'
  BY UnreadIs, UnreadNext
<1>2. PICK c \in Int, g \in Nat, u \in Nat, v \in Nat :
        c = Count("tyisem") /\ g = Cardinality(Getting) /\ u = Unread /\ v = Unread'
  BY <1>1 DEF UnreadIsCounted
<1>3. u = c + g /\ v = (c + n) + (g + k)
  BY <1>1, <1>2 DEF UnreadIsCounted
<1>4. v = u + (n + k)
  BY <1>3
<1> QED BY <1>2, <1>4

LEMMA UnreadStays ==
  ASSUME TtyInv, TtyInv', semtab'["tyisem"] = semtab["tyisem"],
         \A p \in Reader : pc'[p].op \in {"getc", "nextc"} <=> pc[p].op \in {"getc", "nextc"}
  PROVE  Unread' = Unread
<1>1. Getting' = Getting
  BY DEF Getting
<1>2. PICK c \in Int, g \in Nat, z \in Int, u \in Nat :
        c = Count("tyisem") /\ g = Cardinality(Getting) /\ z = 0 /\ u = Unread
  BY UnreadIs DEF UnreadIsCounted
<1>3. Count("tyisem")' = c
  BY <1>2 DEF Count
<1>4. c = c + z /\ g = g + z /\ u = u + (z + z)
  BY <1>2
<1>5. Count("tyisem")' = Count("tyisem") + z /\ Cardinality(Getting') = Cardinality(Getting) + z
  BY <1>1, <1>2, <1>3, <1>4
<1>6. Unread' = Unread + (z + z)
  BY <1>5, UnreadMoves
<1> QED BY <1>2, <1>4, <1>6

LEMMA UnreadGrows ==
  ASSUME TtyInv, TtyInv', NEW n \in Nat, Signal(n), pc' = pc
  PROVE  Unread' = Unread + n
<1>1. Getting' = Getting
  BY DEF Getting
<1>2. PICK c \in Int, g \in Nat, z \in Int :
        c = Count("tyisem") /\ g = Cardinality(Getting) /\ z = 0
  BY UnreadIs DEF UnreadIsCounted
<1>3. Count("tyisem")' = Count("tyisem") + n
  <2>1. PICK new : new = Signalln(semtab, "tyisem", n)
    OBVIOUS
  <2>2. new["tyisem"].count = semtab["tyisem"].count + n
    <3>1. "tyisem" \in Sems
      BY TtySizes
    <3> QED BY <2>1, <3>1, TtySignalled
  <2> QED BY <2>1, <2>2 DEF Signal, Count
<1>4. Cardinality(Getting') = Cardinality(Getting) + z
  BY <1>1, <1>2
<1>5. n \in Int /\ n + z = n
  BY <1>2
<1>6. Unread' = Unread + (n + z)
  BY <1>3, <1>4, <1>5, UnreadMoves
<1> QED BY <1>5, <1>6

(* Steps that leave input alone: those of the output side, and those of    *)
(* readers that neither wait nor read.                                     *)
LEMMA OutputLeavesLine ==
  ASSUME TtyInv, TtyInv', LineOK, UNCHANGED ivars, semtab'["tyisem"] = semtab["tyisem"],
         \A p \in Reader : pc'[p].op \in {"getc", "nextc"} <=> pc[p].op \in {"getc", "nextc"}
  PROVE  LineOK' /\ LineMoves
BY UnreadStays, LineStays

(* Whatever is typed, in every mode.                                       *)
LEMMA InputLine ==
  ASSUME TtyInv, TtyInv', LineOK, NEW ch \in Typable, Ttyhandle_in(ch)
  PROVE  LineOK' /\ LineMoves
<1>1. /\ ~overrun /\ pc' = pc /\ tyicursor \in Nat /\ Unread \in Nat
      /\ ch \in Characters /\ Mapped(ch) \in Characters
  <2>1. ch \in Characters
    BY TtyAssumption
  <2>2. Mapped(ch) \in Characters
    BY <2>1 DEF Mapped, Characters
  <2>3. Unread \in Nat
    BY UnreadIs DEF UnreadIsCounted
  <2> QED BY <2>1, <2>2, <2>3 DEF Ttyhandle_in, TtyInv, TtyTypeOK
<1>2. ASSUME UNCHANGED <<ivars, semtab>> PROVE LineOK' /\ LineMoves
  BY <1>1, <1>2, OutputLeavesLine
<1>3. ASSUME NEW x \in Characters, StoreAndWrap(x), Signal(1), UNCHANGED tyicursor
      PROVE  LineOK' /\ LineMoves
  <2>1. Unread' = Unread + 1
    <3>1. 1 \in Nat
      OBVIOUS
    <3> QED BY <1>1, <1>3, <3>1, UnreadGrows
  <2>2. Stores(x) /\ tyitail' = Wrapped(tyitail + 1, TY_IBUFLEN)
    BY <1>3 DEF StoreAndWrap
  <2> QED BY <1>1, <1>3, <2>1, <2>2, PassedLine
<1>4. ASSUME NEW x \in Characters, KillLine(x) PROVE LineOK' /\ LineMoves
  <2>1. PICK m \in Nat : m = tyicursor
    BY <1>1
  <2>2. /\ tyitail' = IF tyitail - m < 0 THEN tyitail - m + TY_IBUFLEN ELSE tyitail - m
        /\ tyicursor' = 0 /\ UNCHANGED <<tyibuff, tyihead, overrun, semtab>>
    BY <1>4, <2>1 DEF KillLine
  <2>3. Unread' = Unread
    BY <1>1, <2>2, UnreadStays
  <2>4. m \in 0..tyicursor /\ tyicursor' = tyicursor - m
    BY <2>1, <2>2
  <2> QED BY <1>1, <2>1, <2>2, <2>3, <2>4, TakenLine
<1>5. ASSUME NEW x \in Characters, EraseChar(x) PROVE LineOK' /\ LineMoves
  <2>1. CASE Quiet
    BY <1>2, <2>1 DEF Quiet
  <2>2. CASE ~Quiet
    <3>1. /\ tyicursor > 0 /\ tyicursor' = tyicursor - 1
          /\ tyitail' = (IF tyitail = 0 THEN TY_IBUFLEN - 1 ELSE tyitail - 1)
          /\ UNCHANGED <<tyibuff, tyihead, overrun, semtab>>
      BY <1>5, <2>2 DEF EraseChar
    <3>2. PICK m \in Nat : m = 1
      OBVIOUS
    <3>3. tyitail \in 0..TY_IBUFLEN /\ TY_IBUFLEN \in Nat \ {0}
      BY <1>1, TtyAssumption DEF LineOK, InputOK
    <3>4. tyitail' = IF tyitail - m < 0 THEN tyitail - m + TY_IBUFLEN ELSE tyitail - m
      BY <3>1, <3>2, <3>3
    <3>5. Unread' = Unread
      BY <1>1, <3>1, UnreadStays
    <3>6. m \in 0..tyicursor /\ tyicursor' = tyicursor - m
      BY <1>1, <3>1, <3>2
    <3> QED BY <1>1, <3>1, <3>2, <3>4, <3>5, <3>6, TakenLine
  <2> QED BY <2>1, <2>2
<1>6. ASSUME NEW x \in Characters, EndOfLine(x) PROVE LineOK' /\ LineMoves
  <2>1. StoreAndWrap("newline") /\ Signal(tyicursor + 1) /\ tyicursor' = 0
    BY <1>6 DEF EndOfLine
  <2>2. tyicursor + 1 \in Nat
    BY <1>1
  <2>3. Unread' = Unread + (tyicursor + 1)
    BY <1>1, <2>1, <2>2, UnreadGrows
  <2> QED BY <1>1, <2>1, <2>3, EnteredLine
<1>7. ASSUME NEW x \in Characters, Eof(x) PROVE LineOK' /\ LineMoves
  <2>1. CASE Quiet
    BY <1>2, <2>1 DEF Quiet
  <2>2. CASE ~Quiet
    <3>1. /\ x = "eof" /\ tyicursor = 0 /\ Stores(x) /\ tyitail' = tyitail + 1
          /\ Signal(1) /\ tyicursor' = tyicursor
      BY <1>7, <2>2 DEF Eof
    <3>2. Unread' = Unread + 1
      <4>1. 1 \in Nat
        OBVIOUS
      <4> QED BY <1>1, <3>1, <4>1, UnreadGrows
    <3>3. tyitail' = tyitail + 1 /\ tyicursor' = 0 /\ x = "eof"
      BY <3>1
    <3> QED BY <1>1, <3>1, <3>2, <3>3, PassedLine
  <2> QED BY <2>1, <2>2
<1>8. ASSUME NEW x \in Characters, Ordinary(x) PROVE LineOK' /\ LineMoves
  <2>1. StoreAndWrap(x) /\ tyicursor' = tyicursor + 1 /\ semtab' = semtab
    BY <1>8 DEF Ordinary
  <2>2. Unread' = Unread
    BY <1>1, <2>1, UnreadStays
  <2> QED BY <1>1, <2>1, <2>2, TypedLine
<1>9. ASSUME NEW x \in Characters, Cooked(x) PROVE LineOK' /\ LineMoves
  <2>1. Bell(x) => UNCHANGED <<ivars, semtab>>
    BY DEF Bell, Quiet
  <2> QED BY <1>2, <1>4, <1>5, <1>6, <1>7, <1>8, <1>9, <2>1 DEF Cooked
<1>10. ASSUME NEW x \in Characters, Cbreak(x) \/ Raw(x) PROVE LineOK' /\ LineMoves
  <2>1. Quiet \/ (StoreAndWrap(x) /\ Signal(1) /\ UNCHANGED tyicursor)
    BY <1>10 DEF Cbreak, Raw
  <2> QED BY <1>2, <1>3, <2>1 DEF Quiet
<1>11. CASE FlowControl(ch)
  BY <1>2, <1>11 DEF FlowControl
<1>12. Raw(ch) \/ FlowControl(ch) \/ Cbreak(Mapped(ch)) \/ Cooked(Mapped(ch))
  BY DEF Ttyhandle_in
<1> QED BY <1>1, <1>9, <1>10, <1>11, <1>12

(* A reader that blocks waits for a character more than there are, and one *)
(* that looked at a character gives it back.                               *)
LEMMA BlockingLine ==
  ASSUME TtyInv, TtyInv', LineOK, NEW p \in Reader, NEW op \in {"getc", "nextc"},
         pc[p].op \in {"idle", "want"}, Block(p, "tyisem", op), UNCHANGED ivars
  PROVE  LineOK' /\ LineMoves
<1>1. /\ pc \in [Reader \cup Writer -> TtyCall] /\ SemOK(semtab, Reader \cup Writer)
      /\ "tyisem" \in Sems
  BY TtySizes DEF TtyInv, TtyTypeOK, TtySemsOK
<1>2. PICK c : c = [pc[p] EXCEPT !.op = op]
  OBVIOUS
<1>3. pc' = [pc EXCEPT ![p] = c] /\ c.op = op
  BY <1>1, <1>2 DEF Block, TtyCall
<1>4. Getting' = Getting \cup {p} /\ p \notin Getting
  BY <1>1, <1>3 DEF Getting
<1>5. UnreadIsCounted
  BY UnreadIs
<1>6. PICK i \in Int, k \in Int, u \in Nat : i = -1 /\ k = 1 /\ u = Unread
  BY <1>5 DEF UnreadIsCounted
<1>7. Cardinality(Getting') = Cardinality(Getting) + k
  BY <1>4, <1>5, <1>6, FS_AddElement DEF UnreadIsCounted
<1>8. Count("tyisem")' = Count("tyisem") + i
  <2>1. semtab' = Enqueued(semtab, "tyisem", p) /\ semtab \in [Sems -> SemEntry(Reader \cup Writer)]
    BY <1>1 DEF Block, SemOK
  <2>2. semtab'["tyisem"].count = semtab["tyisem"].count - 1
    <3>1. PICK w, e : w = Waited(semtab, "tyisem") /\ e = semtab["tyisem"]
      OBVIOUS
    <3>2. PICK d : d = [e EXCEPT !.count = @ - 1]
      OBVIOUS
    <3>3. e \in SemEntry(Reader \cup Writer) /\ w["tyisem"] = d /\ "tyisem" \in DOMAIN w
      BY <1>1, <2>1, <3>1, <3>2 DEF Waited
    <3>4. d.count = e.count - 1 /\ DOMAIN d = {"state", "count", "queue"}
      BY <3>2, <3>3 DEF SemEntry
    <3>5. semtab' = [w EXCEPT !["tyisem"].queue = Append(@, p)]
      BY <2>1, <3>1 DEF Enqueued
    <3>6. semtab'["tyisem"] = [d EXCEPT !.queue = Append(@, p)]
      BY <3>3, <3>5
    <3>7. semtab'["tyisem"].count = d.count
      BY <3>6
    <3> QED BY <3>1, <3>4, <3>7
  <2>3. semtab["tyisem"].count \in Int
    BY <1>1, <2>1 DEF SemEntry
  <2> QED BY <1>6, <2>2, <2>3 DEF Count
<1>9. Unread' = Unread + (i + k)
  BY <1>7, <1>8, UnreadMoves
<1>10. Unread' = Unread
  BY <1>6, <1>9
<1> QED BY <1>10, LineStays

LEMMA LookedLine ==
  ASSUME TtyInv, TtyInv', LineOK, NEW p \in Reader, TcNextcResumes(p)
  PROVE  LineOK' /\ LineMoves
<1>1. /\ pc \in [Reader \cup Writer -> TtyCall] /\ "tyisem" \in Sems /\ Idle.op = "idle"
      /\ pc[p].op = "nextc" /\ pc' = [pc EXCEPT ![p] = Idle] /\ Signal(1) /\ UNCHANGED ivars
  BY TtySizes, IdleIs DEF TtyInv, TtyTypeOK, TcNextcResumes
<1>2. Getting' = Getting \ {p} /\ p \in Getting
  BY <1>1 DEF Getting
<1>3. UnreadIsCounted
  BY UnreadIs
<1>4. PICK i \in Int, n \in Nat, u \in Nat, g \in Nat :
        i = -1 /\ n = 1 /\ u = Unread /\ g = Cardinality(Getting)
  BY <1>3 DEF UnreadIsCounted
<1>5. Cardinality(Getting') = Cardinality(Getting) + i
  <2>1. Cardinality(Getting') = g - 1
    BY <1>2, <1>3, <1>4, FS_RemoveElement DEF UnreadIsCounted
  <2> QED BY <1>4, <2>1
<1>6. Count("tyisem")' = Count("tyisem") + n
  <2>1. PICK new : new = Signalln(semtab, "tyisem", n)
    OBVIOUS
  <2>2. new["tyisem"].count = semtab["tyisem"].count + n
    BY <1>1, <2>1, TtySignalled
  <2>3. semtab' = new
    BY <1>1, <1>4, <2>1 DEF Signal
  <2> QED BY <2>2, <2>3 DEF Count
<1>7. n \in Int
  OBVIOUS
<1>8. Unread' = Unread + (n + i)
  BY <1>5, <1>6, <1>7, UnreadMoves
<1>9. Unread' = Unread
  BY <1>4, <1>8
<1> QED BY <1>1, <1>9, LineStays

(* Whom ttygetc gives a character, by n units and k readers less.          *)
LEMMA ExtractedLine ==
  ASSUME TtyInv, TtyInv', LineOK, ~overrun, NEW p \in Reader, NEW tab, Extract(p, tab),
         Unread > 0, NEW n \in Int, NEW k \in Int, n + k = -1,
         Count("tyisem")' = Count("tyisem") + n,
         Cardinality(Getting') = Cardinality(Getting) + k
  PROVE  LineOK' /\ LineMoves
<1>1. Unread \in Nat /\ Unread' = Unread + (n + k)
  BY UnreadMoves
<1>2. PICK u \in Nat \ {0} : u = Unread
  BY <1>1
<1>3. Unread' = u - 1
  <2>1. u + (n + k) = u - 1
    OBVIOUS
  <2> QED BY <1>1, <1>2, <2>1
<1>4. /\ tyihead' = Wrapped(tyihead + 1, TY_IBUFLEN)
      /\ UNCHANGED <<tyibuff, tyitail, tyicursor, overrun>> /\ tyicursor \in Nat
  BY DEF Extract, TtyInv, TtyTypeOK
<1> QED BY <1>2, <1>3, <1>4, ReadLine

(* What a reader that got its character does next.                         *)
LEMMA ExtractedOp ==
  ASSUME TtyInv, NEW p \in Reader, NEW tab, Extract(p, tab)
  PROVE  Getting' = Getting \ {p} /\ semtab' = tab
<1>1. pc \in [Reader \cup Writer -> TtyCall]
  BY DEF TtyInv, TtyTypeOK
<1>2. PICK part, left, c :
        /\ c \in {Idle, [Idle EXCEPT !.op = "want", !.part = part, !.left = left]}
        /\ pc' = [pc EXCEPT ![p] = c] /\ semtab' = tab
  BY DEF Extract
<1>3. c.op \in {"idle", "want"}
  <2>1. CASE c = Idle
    BY <2>1, IdleIs
  <2>2. CASE c = [Idle EXCEPT !.op = "want", !.part = part, !.left = left]
    <3>1. c = [op |-> "want", part |-> part, left |-> left, todo |-> <<>>]
      BY <2>2 DEF Idle
    <3> QED BY <3>1
  <2> QED BY <1>2, <2>1, <2>2
<1> QED BY <1>1, <1>2, <1>3 DEF Getting

LEMMA GetcLine ==
  ASSUME TtyInv, TtyInv', LineOK, NEW p \in Reader, Ttygetc(p)
  PROVE  LineOK' /\ LineMoves
<1>1. pc[p].op = "want" /\ ~overrun
  BY DEF Ttygetc
<1>2. CASE Block(p, "tyisem", "getc") /\ UNCHANGED ivars
  BY <1>1, <1>2, BlockingLine
<1>3. CASE Count("tyisem") > 0 /\ Extract(p, Waited(semtab, "tyisem"))
  <2>1. PICK tab : tab = Waited(semtab, "tyisem") /\ Extract(p, tab)
    BY <1>3
  <2>2. Getting' = Getting /\ semtab' = tab
    <3>1. Getting' = Getting \ {p} /\ semtab' = tab
      BY <2>1, ExtractedOp
    <3>2. p \notin Getting
      BY <1>1 DEF Getting
    <3> QED BY <3>1, <3>2
  <2>3. UnreadIsCounted
    BY UnreadIs
  <2>4. PICK c \in Int, g \in Nat, i \in Int, z \in Int :
          c = Count("tyisem") /\ g = Cardinality(Getting) /\ i = -1 /\ z = 0
    BY <2>3 DEF UnreadIsCounted
  <2>5. Cardinality(Getting') = Cardinality(Getting) + z
    BY <2>2, <2>4
  <2>6. Count("tyisem")' = Count("tyisem") + i
    <3>1. semtab \in [Sems -> SemEntry(Reader \cup Writer)] /\ "tyisem" \in Sems
      BY TtySizes DEF TtyInv, TtySemsOK, SemOK
    <3>2. tab["tyisem"].count = semtab["tyisem"].count - 1
      BY <2>1, <3>1 DEF Waited, SemEntry
    <3>3. tab["tyisem"].count = c - 1
      BY <2>4, <3>2 DEF Count
    <3> QED BY <2>2, <2>4, <3>3 DEF Count
  <2>7. i + z = -1 /\ Unread > 0
    BY <1>3, <2>3, <2>4 DEF UnreadIsCounted
  <2> QED BY <1>1, <2>1, <2>5, <2>6, <2>7, ExtractedLine
<1> QED BY <1>2, <1>3 DEF Ttygetc

LEMMA GetcResumesLine ==
  ASSUME TtyInv, TtyInv', LineOK, NEW p \in Reader, TtygetcResumes(p)
  PROVE  LineOK' /\ LineMoves
<1>1. pc[p].op = "getc" /\ ~overrun /\ ~Waiting(p) /\ Extract(p, semtab)
  BY DEF TtygetcResumes
<1>2. Getting' = Getting \ {p} /\ semtab' = semtab /\ p \in Getting
  BY <1>1, ExtractedOp DEF Getting
<1>3. UnreadIsCounted
  BY UnreadIs
<1>4. PICK c \in Int, g \in Nat, i \in Int, z \in Int :
        c = Count("tyisem") /\ g = Cardinality(Getting) /\ i = -1 /\ z = 0
  BY <1>3 DEF UnreadIsCounted
<1>5. Cardinality(Getting') = Cardinality(Getting) + i
  <2>1. Cardinality(Getting') = g - 1
    BY <1>2, <1>3, <1>4, FS_RemoveElement DEF UnreadIsCounted
  <2> QED BY <1>4, <2>1
<1>6. Count("tyisem")' = Count("tyisem") + z
  BY <1>2, <1>4 DEF Count
<1>7. z + i = -1 /\ Unread > 0
  BY <1>1, <1>2, <1>3, <1>4 DEF UnreadIsCounted
<1> QED BY <1>1, <1>5, <1>6, <1>7, ExtractedLine

(* Writers and the output interrupt have no part in input.                 *)
LEMMA WriterLine ==
  ASSUME TtyInv, TtyInv', LineOK, NEW p \in Writer, NEW c,
         pc' = pc \/ pc' = [pc EXCEPT ![p] = c], UNCHANGED ivars,
         semtab'["tyisem"] = semtab["tyisem"]
  PROVE  LineOK' /\ LineMoves
<1>1. p \notin Reader /\ pc \in [Reader \cup Writer -> TtyCall]
  BY TtySizes DEF TtyInv, TtyTypeOK
<1>2. \A r \in Reader : pc'[r].op = pc[r].op
  BY <1>1
<1> QED BY <1>2, OutputLeavesLine

LEMMA PutLine ==
  ASSUME TtyInv, TtyInv', LineOK, NEW p \in Writer, UNCHANGED ivars,
         Block(p, "tyosem", "putc") \/ PutChar(p, semtab) \/ PutChar(p, Waited(semtab, "tyosem"))
  PROVE  LineOK' /\ LineMoves
<1>1. semtab \in [Sems -> SemEntry(Reader \cup Writer)] /\ "tyisem" \in Sems
  BY TtySizes DEF TtyInv, TtySemsOK, SemOK
<1>2. semtab'["tyisem"] = semtab["tyisem"]
  BY <1>1 DEF Block, PutChar, Waited, Enqueued
<1>3. PICK c : pc' = [pc EXCEPT ![p] = c]
  <2>1. pc \in [Reader \cup Writer -> TtyCall]
    BY DEF TtyInv, TtyTypeOK
  <2>2. PICK a, b : a = [pc[p] EXCEPT !.op = "putc"] /\ b = RestOf(pc[p])
    OBVIOUS
  <2>3. pc' = [pc EXCEPT ![p] = a] \/ pc' = [pc EXCEPT ![p] = b]
    BY <2>1, <2>2 DEF Block, PutChar
  <2> QED BY <2>3
<1> QED BY <1>2, <1>3, WriterLine

LEMMA LineStep ==
  ASSUME TtyInv, LineOK, [Next]_vars
  PROVE  LineOK' /\ LineMoves
<1>0. TtyInv'
  BY TtyStep
<1>1. CASE Drain \/ Ttycontrol \/ UNCHANGED vars
  <2>1. UNCHANGED <<ivars, semtab, pc>>
    BY <1>1 DEF Drain, Ttycontrol, vars
  <2> QED BY <1>0, <2>1, OutputLeavesLine
<1>2. CASE Ttyhandle_out
  <2>1. semtab'["tyisem"] = semtab["tyisem"]
    <3>1. semtab \in [Sems -> SemEntry(Reader \cup Writer)] /\ "tyisem" \in Sems
      BY TtySizes DEF TtyInv, TtySemsOK, SemOK
    <3>2. semtab' = semtab \/ \E k : semtab' = Signalln(semtab, "tyosem", k)
      BY <1>2 DEF Ttyhandle_out, Send
    <3> QED BY <3>1, <3>2 DEF Signalln
  <2>2. UNCHANGED <<ivars, pc>>
    BY <1>2 DEF Ttyhandle_out
  <2> QED BY <1>0, <2>1, <2>2, OutputLeavesLine
<1>3. ASSUME NEW ch \in Typable, Ttyhandle_in(ch) PROVE LineOK' /\ LineMoves
  BY <1>0, <1>3, InputLine
<1>4. ASSUME NEW p \in Reader, NEW n \in Counts, Ttyread(p, n) PROVE LineOK' /\ LineMoves
  <2>1. PICK c : /\ pc' = [pc EXCEPT ![p] = c] /\ c.op = "want" /\ pc[p].op = "idle"
                 /\ UNCHANGED <<ivars, semtab>>
    <3>1. PICK m, part :
            /\ m = (IF n > 0 THEN n ELSE IF tyimode = "cooked" THEN 1 ELSE Avail)
            /\ part = (IF tyimode = "cooked" THEN "first" ELSE "chars")
      OBVIOUS
    <3>2. PICK c : c = [Idle EXCEPT !.op = "want", !.left = m, !.part = part]
      OBVIOUS
    <3>3. c = [op |-> "want", part |-> part, left |-> m, todo |-> <<>>]
      BY <3>2 DEF Idle
    <3>4. pc' = [pc EXCEPT ![p] = c]
      BY <1>4, <3>1, <3>2 DEF Ttyread
    <3>5. c.op = "want" /\ pc[p].op = "idle" /\ UNCHANGED <<ivars, semtab>>
      BY <1>4, <3>3 DEF Ttyread
    <3> QED BY <3>4, <3>5
  <2>2. pc \in [Reader \cup Writer -> TtyCall]
    BY DEF TtyInv, TtyTypeOK
  <2>3. \A r \in Reader : pc'[r].op \in {"getc", "nextc"} <=> pc[r].op \in {"getc", "nextc"}
    BY <2>1, <2>2
  <2> QED BY <1>0, <2>1, <2>3, OutputLeavesLine
<1>5. ASSUME NEW p \in Reader, TcNextc(p) PROVE LineOK' /\ LineMoves
  <2>1. pc[p].op = "idle" /\ Block(p, "tyisem", "nextc") /\ UNCHANGED ivars
    BY <1>5 DEF TcNextc
  <2> QED BY <1>0, <2>1, BlockingLine
<1>6. ASSUME NEW p \in Reader, Ttygetc(p) \/ TtygetcResumes(p) \/ TcNextcResumes(p)
      PROVE  LineOK' /\ LineMoves
  BY <1>0, <1>6, GetcLine, GetcResumesLine, LookedLine
<1>7. ASSUME NEW p \in Writer, NEW t \in Texts, Ttywrite(p, t) PROVE LineOK' /\ LineMoves
  <2>1. PICK c : pc' = [pc EXCEPT ![p] = c] /\ UNCHANGED <<ivars, semtab>>
    BY <1>7 DEF Ttywrite
  <2> QED BY <1>0, <2>1, WriterLine
<1>8. ASSUME NEW p \in Writer, Ttyputc(p) \/ TtyputcResumes(p) PROVE LineOK' /\ LineMoves
  <2>1. /\ UNCHANGED ivars
        /\ \/ Block(p, "tyosem", "putc") \/ PutChar(p, semtab)
           \/ PutChar(p, Waited(semtab, "tyosem"))
    BY <1>8 DEF Ttyputc, TtyputcResumes
  <2> QED BY <1>0, <2>1, PutLine
<1> QED BY <1>1, <1>2, <1>3, <1>4, <1>5, <1>6, <1>7, <1>8 DEF Next

LEMMA LineBegins ==
  ASSUME Init
  PROVE  LineOK /\ Line!LineInit
<1>1. PICK N \in Nat \ {0} : N = TY_IBUFLEN
  BY TtyAssumption
<1>2. TtyInv
  BY TtyInitOK
<1>3. Unread = 0
  <2>1. Getting = {}
    BY IdleIs DEF Init, Getting
  <2>2. Cardinality(Getting) = 0
    BY <2>1, FS_EmptySet
  <2>3. Count("tyisem") = 0
    <3>1. "tyisem" \in Sems /\ "tyosem" \in Sems /\ "tyisem" # SYSERR /\ "tyosem" # SYSERR
      BY TtySizes, SemTableAssumption
    <3> QED BY <3>1 DEF Init, Semcreate, Count
  <2>4. UnreadIsCounted
    BY <1>2, UnreadIs
  <2> QED BY <2>2, <2>3, <2>4 DEF UnreadIsCounted
<1>4. /\ tyihead = 0 /\ tyitail = 0 /\ tyicursor = 0 /\ overrun = FALSE
      /\ tyibuff = [i \in 0..(N - 1) |-> "none"]
  BY <1>1 DEF Init
<1>5. Unread + tyicursor = 0 /\ 0 % N = 0 /\ 0 + 0 = 0
  BY <1>3, <1>4, ModIs
<1>6. InputOK
  BY <1>1, <1>4, <1>5 DEF InputOK
<1>7. Readable = <<>> /\ Edited = <<>>
  BY <1>3, <1>4, LineIs, RingEmpty
<1>8. tyitail # TY_IBUFLEN
  BY <1>1, <1>4
<1> QED BY <1>4, <1>6, <1>7, <1>8 DEF LineOK, Line!LineInit

(* ttyhandle_in and ttyread keep the promise of a terminal line, in every  *)
(* mode and across changes of mode: what is typed, and not erased or       *)
(* killed, is read once and in order, for every number of readers, every   *)
(* size of the ring, and with readers that look at a character (TC_NEXTC)  *)
(* in between.                                                             *)
THEOREM TerminalKeepsLines == Spec => TtyIsLine
<1>1. Init => TtyInv /\ LineOK /\ Line!LineInit
  BY TtyInitOK, LineBegins
<1>2. TtyInv /\ LineOK /\ [Next]_vars => TtyInv' /\ LineOK' /\ [Line!LineNext]_(Line!lvars)
  BY TtyStep, LineStep DEF LineMoves
<1> QED BY <1>1, <1>2, PTL DEF Spec, TtyIsLine, Line!LineIsKept
=============================================================================
