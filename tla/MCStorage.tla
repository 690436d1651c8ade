----------------------------- MODULE MCStorage -----------------------------
(***************************************************************************)
(* A finite instance of the file systems, the remote disk, the name space, *)
(* the shell and its date, and the local file system as a table of byte    *)
(* sequences.  They share no state, so that each behaviour is about one of *)
(* them, or about one aspect of it; `scenario' says which.                 *)
(***************************************************************************)
EXTENDS LocalFile, RemoteFile, RemoteDisk, NameSpace, Shell, Calendar, TLC
LOCAL INSTANCE SequencesExt

CONSTANTS
  LfMaxSize,    \* greatest size of a local file
  MaxSeq,       \* exchanges with the servers
  LineMax       \* characters of a line, and tokens of a longer one

VARIABLE scenario

mcvars == <<lfsvars, rfvars, rdsvars, nmvars, shvars, calvars, scenario>>

One(S) == {CHOOSE x \in S : TRUE}

(* One file with all of its operations, or two files that two processes    *)
(* open and append to; the disk has blocks for one file of five bytes,     *)
(* or hardly any, or was never given a file system.                        *)
Disks == IF scenario # "files" THEN {Layout(2, 5, "xinu")}
         ELSE {Layout(2, 4, "xinu"), Layout(2, 3, "xinu"), Layout(1, 3, "zeros")}

MCInit ==
  /\ scenario \in {"file", "files", "remote", "disk", "names", "shell", "lines", "dates"}
  /\ LfsInit /\ LflInit /\ lfdisk \in Disks
  /\ RfInit /\ RdsInit /\ NamInit /\ ShellInit /\ CalInit
  /\ scenario # "remote" => \A n \in RfName : rfserver[n] = RfAbsent
  /\ scenario # "disk" => rd_blk = 0
  /\ shell.pid = 1
-----------------------------------------------------------------------------
MCLfModes == {<<>>, <<"o">>, <<"r", "w", "n">>, <<"r", "r">>}

(* What is appended depends on the place, so that misplaced bytes show;    *)
(* the first byte and the last may be overwritten.                         *)
Puts(s, ch) ==
  LET f == lfltab[s]
  IN  /\ f.state = "used"
      /\ \/ /\ scenario = "file" /\ f.pos < LfMaxSize
            /\ IF Extends(f) THEN ch = IF f.pos % 2 = 0 THEN "x" ELSE "y"
                             ELSE f.pos % (LfMaxSize - 1) = 0
         \/ scenario = "files" /\ f.pos < 1 /\ Extends(f) /\ ch = "x"

LfsNext ==
  /\ scenario \in {"file", "files"} /\ ~raced
  /\ UNCHANGED <<rfvars, rdsvars, nmvars, shvars, calvars, scenario>>
  /\ \/ \E p \in IF scenario = "file" THEN One(Opener) ELSE Opener :
          \/ \E n \in IF scenario = "file" THEN One(LfName) ELSE LfName,
                m \in IF scenario = "file" THEN LfModes ELSE {<<>>} : Lfsopen(p, n, m)
          \/ LfsopenGoesOn(p)
     \/ \E s \in Lfl :
          \/ \E ch \in LfByte : Puts(s, ch) /\ Lflputc(s, ch)
          \/ LfGoesOn(s)
          \/ scenario = "file" /\ Lflgetc(s)
          \/ scenario = "file" /\ \E k \in 0..LfMaxSize : Lflseek(s, k)
          \/ Lflcontrol(s) \/ Lflclose(s) \/ LflcloseGoesOn(s)
     \/ Lfscreate(1, 3) \/ Lfsckfmt

MCRfModes == {<<>>, <<"r", "n">>, <<"w", "o">>, <<"x">>}

RfNext ==
  /\ scenario = "remote" /\ UNCHANGED <<lfsvars, rdsvars, nmvars, shvars, calvars, scenario>>
  /\ \/ RfSend \/ RfError \/ RfTimeout \/ \E m \in rfreplies : RfReceive(m)
     \/ \E s \in Rfl : Rflclose(s) \/ \E k \in 0..2 : Rflseek(s, k)
     \/ /\ rf_seq <= MaxSeq
        /\ \/ \E n \in RfName, m \in RfModes : Rfsopen(n, m)
           \/ \E n \in RfName, func \in RfsControls : Rfscontrol(func, n)
           \/ \E s \in Rfl :
                \/ Rflread(s, 2) \/ Rflgetc(s)
                \/ Rflwrite(s, <<"x", "y">>) \/ Rflputc(s, "z")

(* Not followed further: a disk of which nothing is promised any more.     *)
RdsNext ==
  /\ scenario = "disk" /\ ~rdstolen /\ rddoubt # RdBlock
  /\ UNCHANGED <<lfsvars, rfvars, nmvars, shvars, calvars, scenario>>
  /\ \/ Rdsopen \/ Rdsclose \/ RdsDelete
     \/ \E p \in RdCaller :
          \/ RdsGoesOn(p) \/ RdsreadEnds(p) \/ RdsSync(p)
          \/ \E b \in RdBlock : Rdsread(p, b) \/ \E d \in RdData : Rdswrite(p, b, d)
     \/ rd_seq < MaxSeq /\ RdsTakes
     \/ RdsSends \/ RdsTimesOut \/ \E m \in rdreplies : RdsReceives(m)
-----------------------------------------------------------------------------
(* A small name space: devices /d/nu, /d/a (the name space itself) and     *)
(* /d/r beside what naminit adds.                                          *)
Letters     == {"/", "d", "x", "N", "n", "U", "u", "A", "a", "R", "r", "l", ":"}
MCLower     == [c \in Letters |-> CASE c = "N" -> "n" [] c = "U" -> "u" [] c = "A" -> "a"
                                    [] c = "R" -> "r" [] OTHER -> c]
MCDevtab    == << <<<<"N", "U">>, "NULLDEV">>, <<<<"A">>, "NAMESPACE">>, <<<<"R">>, "RAM0">> >>
MCDevPrefix == <<"/", "d", "/">>
MCEntries   == << << <<"/", "d", "/", "n">>, <<>>, "NULLDEV">>,
                  << <<"/", "r", "/">>, <<"r", ":">>, "RFILESYS">>,
                  << <<"/", "l", "/">>, <<>>, "LFILESYS">>,
                  << <<"/", "d", "/">>, <<>>, NmError>>,
                  << <<"/">>, <<"/", ":">>, "RFILESYS">>,
                  << <<>>, <<>>, "LFILESYS">> >>

Xs(n) == [i \in 1..n |-> "x"]

(* Names that begin with each prefix, or with detours by way of the name   *)
(* space, and are short, about 127 characters or about 255 characters      *)
(* long; and one detour after another.                                     *)
Names ==
  LET a      == MCDevPrefix \o <<"a">>
      starts == {e.prefix : e \in Range(naminit)} \cup
                {MCDevPrefix, a \o MCDevPrefix \o <<"r">>, a \o <<"/", "l", "/">>}
  IN  {s \o Xs(n) : s \in starts, n \in (0..1) \cup (117..127) \cup (242..256)}
        \cup {FlattenSeq([i \in 1..n |-> a]) : n \in 1..12}

NamNext ==
  /\ scenario = "names" /\ nmasked = NmError
  /\ UNCHANGED <<lfsvars, rfvars, rdsvars, shvars, calvars, scenario>>
  /\ \/ \E n \in Names : Namopen(n)
     \/ Mount(Xs(64), <<>>, "RAM0") \/ Mount(MCDevPrefix \o <<"r", "x">>, <<"/">>, "NAMESPACE")

-----------------------------------------------------------------------------
(* Commands: c, k (kill) and e (exit), in lines that one would type, and   *)
(* in all short lines, and all longer rows of a name and signs, of which   *)
(* only one is read.  Not followed further: files that may have been       *)
(* closed for another.                                                     *)
MCcmdtab == [n \in {<<"c">>, <<"k">>, <<"e">>} |->
               IF n = <<"c">> THEN "command" ELSE IF n = <<"k">> THEN "kill" ELSE "exit"]

Typed == {<<"c">>, <<"c", "&">>, <<"c", " ", "<", "x">>, <<"c", " ", ">", "x", "&">>,
          <<"c", " ", "<", "x", " ", ">", "y">>, <<"c", " ", ">", "x", " ", "<", "y", "&">>,
          <<"e">>} \cup {<<"k", " ", Digits[p + 1]>> : p \in ShPid}

Spaced(row) == [i \in 1..(2 * Len(row)) |-> IF i % 2 = 0 THEN " " ELSE row[(i + 1) \div 2]]
Lines == UNION {[1..n -> {"c", " ", "&", "<", ">", "'", "\""}] : n \in 1..LineMax}
           \cup {Spaced(row) : row \in UNION {[1..n -> {"c", "&", "<", ">"}] : n \in 3..(LineMax + 2)}}

ShNext ==
  /\ scenario \in {"shell", "lines"} /\ ~shghost.again
  /\ UNCHANGED <<lfsvars, rfvars, rdsvars, nmvars, calvars, scenario>>
  /\ \/ scenario = "shell" /\ (ShellNext \/ \E line \in Typed : ShellReads(line))
     \/ scenario = "lines" /\ shline = <<>> /\ \E line \in Lines : ShellReads(line)

(* Hours at the ends of days and where daylight saving changes, in a row   *)
(* of years with every first day of the week, and at turns of a century.   *)
MCDateAsked ==
  UNION {{Begins[y] + 24 * d + h : d \in 0..(364 + LeapDay(y)), h \in (0..3) \cup {22, 23}} :
         y \in (1970..1976) \cup {2000, 2001, 2099}}

DateNext ==
  /\ scenario = "dates" /\ CalInit
  /\ Date /\ UNCHANGED <<lfsvars, rfvars, rdsvars, nmvars, shvars, scenario>>

MCNext == LfsNext \/ RfNext \/ RdsNext \/ NamNext \/ ShNext \/ DateNext

MCSpec == MCInit /\ [][MCNext]_mcvars
-----------------------------------------------------------------------------
(* Identifies states that differ in what nothing reads before it is        *)
(* written again: contents of free blocks, buffers and control blocks, and *)
(* which of the buffers of the remote disk is which.                       *)
LfsView ==
  <<[lfdisk EXCEPT !.db = [d \in DOMAIN @ |-> IF d \in ToSet(lf_dir.dfree) THEN DFILL ELSE @[d]]],
    lf_dir, lf_dirpresent, lf_dirdirty,
    [s \in Lfl |-> IF lfltab[s].state = "free" THEN None ELSE lfltab[s]],
    lfopening, lf_got, raced, missed, lfpanic>>

RdsView ==
  LET Asked(b)  == [rd_buff[b] EXCEPT !.of = 0, !.refcnt = 0, !.valid = TRUE]
      Copy(b)   == <<rd_buff[b].refcnt, rd_buff[b].blknum, rd_buff[b].valid,
                     IF rd_buff[b].valid THEN rd_buff[b].data ELSE RdNone>>
      Caller(p) == IF rdcall[p].ph # "got" THEN rdcall[p]
                   ELSE [rdcall[p] EXCEPT !.buf =
                           {i \in DOMAIN rd_cache : rd_cache[i] = rdcall[p].buf}]
  IN  <<rd_state, Len(rd_free), [i \in DOMAIN rd_queue |-> Asked(rd_queue[i])],
        [i \in DOMAIN rd_cache |-> Copy(rd_cache[i])], rd_availsem, rd_waiting, rd_reqsem,
        [p \in RdCaller |-> Caller(p)],
        IF rdcom = ComWaits THEN rdcom ELSE [rdcom EXCEPT !.buf = 0], rd_blk, rd_seq,
        {[m EXCEPT !.data = RdNone, !.blk = 0] : m \in rdreplies}, rdserver, rdghost, rdpanic>>

(* Of the shell that has read one line only that line matters.             *)
ShView == IF scenario = "lines" THEN shline
          ELSE <<shell, shmsg, command, opened, shghost>>

View == <<scenario, LfsView, rfvars, RdsView, nmvars, ShView, calvars>>

Symmetry == Permutations(RdCaller) \cup Permutations(RdData) \cup Permutations(ShFile)

Files == INSTANCE FileSpec WITH
  Handle <- Lfl, Name <- LfName, Byte <- LfByte, Absent <- None, EOF <- "EOF", Nothing <- None,
  content <- [n \in LfName |->
                LET dir == IF lf_dirpresent THEN lf_dir ELSE lfdisk.dir
                    e   == {i \in DOMAIN dir.files : dir.files[i].name = n}
                IN  IF e = {} THEN None ELSE Bytes(dir.files[CHOOSE i \in e : TRUE])],
  handle <- [s \in Lfl |-> IF lfltab[s].state = "free" THEN None
                           ELSE [name |-> Entry(s).name, pos |-> lfltab[s].pos]],
  got <- lf_got, broken <- raced

(* lflputc, lflgetc, lflseek, truncation, closing and opening keep the     *)
(* promise that a file is the sequence of the bytes written to it, through *)
(* the copies of its blocks in the control block, on the disk and in the   *)
(* directory; until two processes open a file at once (lfsopen.c:49).      *)
FileIsSequence == Files!FilesKept
=============================================================================
