----------------------------- MODULE LocalFile -----------------------------
(***************************************************************************)
(* The local file system (device/lfs): a directory in sector 0, a list of  *)
(* index blocks for each file, and data blocks, on a disk whose reads and  *)
(* writes do not block (the ram disk).  Each open file has a copy of one   *)
(* index block and of one data block, written back when they are replaced. *)
(*                                                                         *)
(* A process in lflputc, lflgetc, lflclose or lflcontrol holds the mutex   *)
(* of the file, one in lfsetup, lftruncate or lfsopen that of the          *)
(* directory; such a call is one step, except where another may come       *)
(* between: an open file is searched for before the directory's mutex is   *)
(* held, and the directory is marked clean after it has been written,      *)
(* while a process that extends another file may mark it dirty.  The lists *)
(* threaded through free blocks are sequences.                             *)
(***************************************************************************)
EXTENDS Integers, SequencesExt, FiniteSets

CONSTANTS
  LfName, Opener,     \* names of files, processes that open them
  Nlfl,               \* pseudo-devices for open files
  LF_BLKSIZ, LF_IBLEN, LF_NUM_DIR_ENT,
  IbPerSector,        \* index blocks in a sector
  LfByte, LfModes,    \* bytes written, mode strings
  None

ASSUME LfAssumption ==
  /\ {Nlfl, LF_BLKSIZ, LF_IBLEN, LF_NUM_DIR_ENT, IbPerSector} \subseteq Nat \ {0}
  /\ None \notin LfByte

VARIABLES
  lfdisk,             \* sectors: the directory, index blocks and data blocks
  lf_dir,             \* the directory in memory
  lf_dirpresent, lf_dirdirty,
  lfltab,             \* control blocks of open files
  lfopening,          \* processes that chose a pseudo-device and wait for the directory
  lf_got,             \* the byte, or EOF, the last lflgetc returned
  raced,              \* a pseudo-device or a file was opened twice (ghost)
  missed,             \* the directory changed after it was written and before its mark
                      \* was cleared (ghost)
  lfpanic

lfsvars == <<lfdisk, lf_dir, lf_dirpresent, lf_dirdirty, lfltab, lfopening, lf_got,
             raced, missed, lfpanic>>

Lfl      == 0..(Nlfl - 1)
LF_NULL  == -1                          \* LF_INULL and LF_DNULL
LF_IDATA == LF_IBLEN * LF_BLKSIZ
DFILL    == [i \in 1..LF_BLKSIZ |-> "+"]
IDLE     == [call |-> "none", ch |-> None, wrote |-> None]

lfibclear(offset) ==
  [next |-> LF_NULL, offset |-> offset, dba |-> [i \in 0..(LF_IBLEN - 1) |-> LF_NULL]]

(* The disk lfscreate lays out; it leaves the identification zero.         *)
Layout(lfiblks, sectors, id) ==
  LET ibsectors == (lfiblks + IbPerSector - 1) \div IbPerSector
      nib       == ibsectors * IbPerSector
      dblks     == (ibsectors + 1)..(sectors - 1)
  IN  [dir |-> [id |-> id, files |-> <<>>, ifree |-> [i \in 1..nib |-> i - 1],
                dfree |-> [i \in 1..Cardinality(dblks) |-> ibsectors + i]],
       ib |-> [i \in 0..(nib - 1) |-> lfibclear(0)],
       db |-> [d \in dblks |-> DFILL]]

lfscheck(dir) == dir.id = "xinu"

LfsInit ==
  /\ lf_dir = [id |-> "zeros", files |-> <<>>, ifree |-> <<>>, dfree |-> <<>>]
  /\ lf_dirpresent = FALSE /\ lf_dirdirty = FALSE
  /\ lfopening = [p \in Opener |-> None]
  /\ lf_got = None /\ raced = FALSE /\ missed = FALSE /\ lfpanic = FALSE

LflInit ==
  lfltab = [s \in Lfl |->
              [state |-> "free", ent |-> 0, mode |-> {}, pos |-> 0, inum |-> LF_NULL,
               ib |-> lfibclear(0), dnum |-> 0, db |-> DFILL, byte |-> LF_BLKSIZ,
               ibdirty |-> FALSE, dbdirty |-> FALSE, op |-> IDLE]]

(* Letters of a mode string as a set of bits; none if it is in error.      *)
lfgetmode(mode) ==
  LET bits == {mode[i] : i \in DOMAIN mode}
  IN  IF /\ bits \subseteq {"r", "w", "o", "n"} /\ ~({"o", "n"} \subseteq bits)
         /\ Cardinality(bits) = Len(mode)
      THEN IF bits \cap {"r", "w"} = {} THEN bits \cup {"r", "w"} ELSE bits
      ELSE {}

LfMutexFree == \A s \in Lfl : lfltab[s].op.call \notin {"put", "get"}

Ready(s) == lfltab[s].op = IDLE /\ lfltab[s].state = "used" /\ ~lfpanic

Entry(s)  == lf_dir.files[lfltab[s].ent]
IsOpen(n) == \E s \in Lfl : lfltab[s].state = "used" /\ Entry(s).name = n

(* lfsopen, the search of the pseudo-devices, made without the mutex ...   *)
Lfsopen(p, n, mode) ==
  LET free == {s \in Lfl : lfltab[s].state = "free"}
  IN  /\ lfopening[p] = None /\ ~lfpanic
      /\ lfgetmode(mode) # {} /\ ~IsOpen(n) /\ free # {}
      /\ lfopening' = [lfopening EXCEPT ![p] =
           [slot |-> CHOOSE s \in free : \A t \in free : s <= t,
            name |-> n, mbits |-> lfgetmode(mode)]]
      /\ UNCHANGED <<lfdisk, lf_dir, lf_dirpresent, lf_dirdirty, lfltab, lf_got, raced,
                     missed, lfpanic>>

(* ... and the rest of it, with the directory held.                        *)
LfsopenGoesOn(p) ==
  LET o     == lfopening[p]
      dir   == IF lf_dirpresent THEN lf_dir ELSE lfdisk.dir
      named == {i \in DOMAIN dir.files : dir.files[i].name = o.name}
      fails == \/ ~lf_dirpresent /\ ~lfscheck(dir)
               \/ named = {} /\ ("o" \in o.mbits \/ Len(dir.files) >= LF_NUM_DIR_ENT)
               \/ named # {} /\ "n" \in o.mbits
      files == IF named # {} THEN dir.files
               ELSE Append(dir.files, [name |-> o.name, size |-> 0, ilist |-> LF_NULL])
  IN  /\ o # None /\ LfMutexFree /\ ~lfpanic
      /\ lfopening' = [lfopening EXCEPT ![p] = None]
      /\ lf_dirpresent' = (lf_dirpresent \/ lfscheck(dir))
      /\ \/ fails /\ lf_dir' = dir /\ UNCHANGED <<lfltab, lf_got, raced>>
         \/ /\ ~fails /\ lf_got' = None
            /\ raced' = (lfltab[o.slot].state = "used" \/ IsOpen(o.name))
            /\ lf_dir' = [dir EXCEPT !.files = files]
            /\ lfltab' = [lfltab EXCEPT ![o.slot] =
                 [@ EXCEPT !.state = "used", !.mode = o.mbits \cap {"r", "w"}, !.pos = 0,
                           !.ent = CHOOSE i \in DOMAIN files : files[i].name = o.name,
                           !.inum = LF_NULL, !.dnum = LF_NULL, !.byte = LF_BLKSIZ,
                           !.ibdirty = FALSE, !.dbdirty = FALSE]]
      /\ UNCHANGED <<lfdisk, lf_dirdirty, missed, lfpanic>>

(* Reading and writing an index block; taking one, or a data block, from   *)
(* its free list, which is an error when there is none.                    *)
lfibget(disk, i)     == disk.ib[i]
lfibput(disk, i, ib) == [disk EXCEPT !.ib[i] = ib]
LfiballocKeeps(dir)  == dir
lfiballoc(dir)       == [dir EXCEPT !.ifree = Tail(@)]
lfdballoc(dir)       == [dir EXCEPT !.dfree = Tail(@)]

(* lfdbfree, for data blocks one after another: each goes to the head of   *)
(* the free list.                                                          *)
lfdbfree(dir, freed) == [dir EXCEPT !.dfree = Reverse(freed) \o @]

(* lfflush: the copies that changed are written back.                      *)
LfflushKeepsDir(disk, f) ==
  [disk EXCEPT !.db = IF f.dbdirty THEN [@ EXCEPT ![f.dnum] = f.db] ELSE @,
               !.ib = IF f.ibdirty THEN [@ EXCEPT ![f.inum] = f.ib] ELSE @]
lfflush(disk, f) ==
  [dir |-> IF lf_dirdirty THEN lf_dir ELSE disk.dir,
   db  |-> IF f.dbdirty THEN [disk.db EXCEPT ![f.dnum] = f.db] ELSE disk.db,
   ib  |-> IF f.ibdirty THEN [disk.ib EXCEPT ![f.inum] = f.ib] ELSE disk.ib]

(* lfsetup: index and data block for the position of file f, allocated if  *)
(* the file does not have them (lfiballoc, lfdballoc).                     *)
lfsetup(f) ==
  LET dirty == f.ibdirty \/ f.dbdirty
      d     == IF dirty THEN lfflush(lfdisk, f) ELSE lfdisk
      first == lf_dir.files[f.ent].ilist
      base  == f.pos - (f.pos % LF_IDATA)
      start == IF f.inum = LF_NULL \/ f.pos < f.ib.offset THEN first ELSE f.inum
      walk[i \in DOMAIN d.ib] ==
        LET ib == lfibget(d, i)
        IN  IF ib.offset >= base \/ ib.next = LF_NULL THEN i ELSE walk[ib.next]
      last  == IF start = LF_NULL THEN LF_NULL ELSE walk[start]
      newib == last = LF_NULL \/ d.ib[last].offset < base
      inum  == IF newib THEN Head(lf_dir.ifree) ELSE last
      ib    == IF ~newib THEN lfibget(d, last)
               ELSE lfibclear(IF last = LF_NULL THEN 0 ELSE d.ib[last].offset + LF_IDATA)
      kept  == IF start # LF_NULL /\ (newib \/ last # start) THEN LF_NULL ELSE f.dnum
      k     == (f.pos % LF_IDATA) \div LF_BLKSIZ
      newdb == ib.dba[k] = LF_NULL
      dnum  == IF newdb THEN Head(lf_dir.dfree) ELSE ib.dba[k]
      dir1  == IF newib THEN lfiballoc(lf_dir) ELSE lf_dir
      dir   == [IF newdb THEN lfdballoc(dir1) ELSE dir1 EXCEPT
                  !.files[f.ent].ilist = IF last = LF_NULL THEN inum ELSE @]
      d1    == IF newib /\ last # LF_NULL
               THEN lfibput(d, last, [lfibget(d, last) EXCEPT !.next = inum]) ELSE d
  IN  IF (newib /\ lf_dir.ifree = <<>>) \/ (newdb /\ lf_dir.dfree = <<>>)
      THEN [panic |-> TRUE]
      ELSE [panic |-> FALSE, dir |-> dir,
            wrote |-> IF newdb THEN <<dir, dir>>
                      ELSE IF dirty /\ lf_dirdirty THEN <<lf_dir, d.dir>> ELSE None,
            disk  |-> [d1 EXCEPT !.dir = IF newdb THEN dir ELSE @],
            file  |-> [f EXCEPT
                         !.inum = inum, !.dnum = dnum, !.byte = f.pos % LF_BLKSIZ,
                         !.ib = IF newdb THEN [ib EXCEPT !.dba[k] = dnum] ELSE ib,
                         !.db = IF newdb THEN DFILL
                                ELSE IF dnum # kept THEN d.db[dnum] ELSE @,
                         !.ibdirty = newib \/ newdb,
                         !.dbdirty = FALSE]]

(* lflgetc and lflputc, once the block of the position is in memory.       *)
Get(s, f) ==
  /\ lf_got' = f.db[f.byte + 1]
  /\ lfltab' = [lfltab EXCEPT ![s] = [f EXCEPT !.byte = @ + 1, !.pos = @ + 1, !.op = IDLE]]

Put(s, f, ch) ==
  /\ lf_got' = None
  /\ lfltab' = [lfltab EXCEPT ![s] =
       [f EXCEPT !.db[f.byte + 1] = ch, !.byte = @ + 1, !.pos = @ + 1, !.dbdirty = TRUE,
                 !.op = IDLE]]

Extends(f) == f.pos >= lf_dir.files[f.ent].size
SizedAlways(f) == [lf_dir EXCEPT !.files[f.ent].size = @ + 1]
Sized(f)   == IF Extends(f) THEN [lf_dir EXCEPT !.files[f.ent].size = @ + 1] ELSE lf_dir

(* A call at the end of the block in memory begins with lfsetup ...        *)
LfSetup(s, call, ch) ==
  LET r == lfsetup(lfltab[s])
  IN  /\ lfltab[s].byte >= LF_BLKSIZ /\ LfMutexFree
      /\ \/ r.panic /\ lfpanic' = TRUE /\ UNCHANGED <<lfdisk, lf_dir, lfltab>>
         \/ /\ ~r.panic
            /\ lfdisk' = r.disk /\ lf_dir' = r.dir
            /\ lfltab' = [lfltab EXCEPT ![s] =
                 [r.file EXCEPT !.op = [call |-> call, ch |-> ch, wrote |-> r.wrote]]]
            /\ UNCHANGED lfpanic
      /\ UNCHANGED <<lf_dirpresent, lf_dirdirty, lfopening, lf_got, raced, missed>>

SameDir(a, b) ==
  LET Full(d) == {d.files[i] : i \in {j \in DOMAIN d.files : d.files[j].size > 0}}
  IN  a.ifree = b.ifree /\ a.dfree = b.dfree /\ Full(a) = Full(b)

(* The directory, in memory or on the disk, is no longer what it was when  *)
(* a call had written it.                                                  *)
Overtaken(wrote) == ~(SameDir(wrote[1], lf_dir) /\ SameDir(wrote[2], lfdisk.dir))

(* ... and goes on when the directory has been marked clean.               *)
LfGoesOn(s) ==
  LET f == lfltab[s]
  IN  /\ f.op.call \in {"put", "get"} /\ ~lfpanic
      /\ missed' = IF f.op.wrote # None THEN Overtaken(f.op.wrote) ELSE missed
      /\ \/ /\ f.op.call = "get" /\ Get(s, f)
            /\ lf_dirdirty' = (lf_dirdirty /\ f.op.wrote = None) /\ UNCHANGED lf_dir
         \/ /\ f.op.call = "put" /\ Put(s, f, f.op.ch)
            /\ lf_dir' = Sized(f)
            /\ lf_dirdirty' = (Extends(f) \/ (lf_dirdirty /\ f.op.wrote = None))
      /\ UNCHANGED <<lfdisk, lf_dirpresent, lfopening, raced, lfpanic>>

Lflputc(s, ch) ==
  LET f == lfltab[s]
  IN  /\ Ready(s) /\ f.pos <= Entry(s).size
      /\ \/ LfSetup(s, "put", ch)
         \/ /\ f.byte < LF_BLKSIZ /\ Put(s, f, ch)
            /\ lf_dir' = Sized(f) /\ lf_dirdirty' = (Extends(f) \/ lf_dirdirty)
            /\ UNCHANGED <<lfdisk, lf_dirpresent, lfopening, raced, missed, lfpanic>>

Lflgetc(s) ==
  LET f == lfltab[s]
  IN  /\ Ready(s)
      /\ \/ /\ f.pos >= Entry(s).size /\ lf_got' = "EOF" /\ UNCHANGED lfltab
            /\ UNCHANGED <<lfdisk, lf_dir, lf_dirpresent, lf_dirdirty, lfopening, raced,
                           missed, lfpanic>>
         \/ f.pos < Entry(s).size /\ LfSetup(s, "get", None)
         \/ /\ f.pos < Entry(s).size /\ f.byte < LF_BLKSIZ /\ Get(s, f)
            /\ UNCHANGED <<lfdisk, lf_dir, lf_dirpresent, lf_dirdirty, lfopening, raced,
                           missed, lfpanic>>

Lflseek(s, offset) ==
  /\ Ready(s) /\ offset <= Entry(s).size
  /\ lfltab' = [lfltab EXCEPT ![s].pos = offset, ![s].byte = LF_BLKSIZ]
  /\ lf_got' = None
  /\ UNCHANGED <<lfdisk, lf_dir, lf_dirpresent, lf_dirdirty, lfopening, raced, missed,
                 lfpanic>>

(* lftruncate: the data blocks are put on their free list one by one, and  *)
(* the directory written each time (lfdbfree); the index blocks go to      *)
(* theirs as they are linked, which is left for the next flush.            *)
lftruncate(f) ==
  LET d     == IF f.ibdirty \/ f.dbdirty THEN lfflush(lfdisk, f) ELSE lfdisk
      chain[i \in DOMAIN d.ib \cup {LF_NULL}] ==
        IF i = LF_NULL THEN <<>> ELSE <<i>> \o chain[d.ib[i].next]
      iblks == chain[lf_dir.files[f.ent].ilist]
      slots == [j \in 1..(Len(iblks) * LF_IBLEN) |->
                  d.ib[iblks[(j - 1) \div LF_IBLEN + 1]].dba[(j - 1) % LF_IBLEN]]
      freed == SelectSeq(slots, LAMBDA b : b # LF_NULL)
      dir   == [lfdbfree(lf_dir, freed) EXCEPT
                  !.files[f.ent].size = 0, !.files[f.ent].ilist = LF_NULL]
  IN  [dir  |-> [dir EXCEPT !.ifree = iblks \o @],
       disk |-> [d EXCEPT !.dir = dir,
                          !.ib = [i \in DOMAIN @ |-> IF i \in {iblks[j] : j \in DOMAIN iblks}
                                                     THEN lfibclear(0) ELSE @[i]]]]

Lflcontrol(s) ==
  LET f == lfltab[s]  r == lftruncate(f)
  IN  /\ Ready(s) /\ LfMutexFree /\ Entry(s).size > 0
      /\ lfdisk' = r.disk /\ lf_dir' = r.dir /\ lf_dirdirty' = TRUE
      /\ lfltab' = [lfltab EXCEPT ![s] =
           [f EXCEPT !.pos = 0, !.inum = LF_NULL, !.dnum = LF_NULL, !.byte = LF_BLKSIZ,
                     !.ibdirty = FALSE, !.dbdirty = FALSE]]
      /\ lf_got' = None
      /\ UNCHANGED <<lf_dirpresent, lfopening, raced, missed, lfpanic>>

(* lflclose: what changed is written; when that includes the directory,    *)
(* which other files change too, it is marked clean in a step of its own.  *)
Lflclose(s) ==
  LET disk == lfflush(lfdisk, lfltab[s])
      f    == [lfltab[s] EXCEPT !.ibdirty = FALSE, !.dbdirty = FALSE]
  IN  /\ Ready(s)
      /\ lfdisk' = disk
      /\ lfltab' = [lfltab EXCEPT ![s] =
           IF lf_dirdirty THEN [f EXCEPT !.op.call = "close",
                                               !.op.wrote = <<lf_dir, disk.dir>>]
           ELSE [f EXCEPT !.state = "free"]]
      /\ lf_got' = IF lf_dirdirty THEN lf_got ELSE None
      /\ UNCHANGED <<lf_dir, lf_dirpresent, lf_dirdirty, lfopening, raced, missed, lfpanic>>

LflcloseGoesOn(s) ==
  /\ lfltab[s].op.call = "close" /\ ~lfpanic
  /\ lf_dirdirty' = FALSE /\ missed' = Overtaken(lfltab[s].op.wrote)
  /\ lf_got' = None
  /\ lfltab' = [lfltab EXCEPT ![s].state = "free", ![s].op = IDLE]
  /\ UNCHANGED <<lfdisk, lf_dir, lf_dirpresent, lfopening, raced, lfpanic>>

(* A new file system, and the check of one, on a disk that is not in use.  *)
Lfscreate(lfiblks, sectors) ==
  /\ ~lf_dirpresent /\ lfopening = [p \in Opener |-> None] /\ ~lfpanic
  /\ (lfiblks + IbPerSector - 1) \div IbPerSector <= sectors \div 2
  /\ lfdisk' = Layout(lfiblks, sectors, "zeros")
  /\ UNCHANGED <<lf_dir, lf_dirpresent, lf_dirdirty, lfltab, lfopening, lf_got, raced,
                 missed, lfpanic>>

Lfsckfmt ==
  /\ ~lf_dirpresent /\ ~lfscheck(lfdisk.dir) /\ ~lfpanic
  /\ lfpanic' = TRUE
  /\ UNCHANGED <<lfdisk, lf_dir, lf_dirpresent, lf_dirdirty, lfltab, lfopening, lf_got,
                 raced, missed>>

LocalNext ==
  \/ \E p \in Opener : LfsopenGoesOn(p) \/ \E n \in LfName, m \in LfModes : Lfsopen(p, n, m)
  \/ \E s \in Lfl :
       \/ \E ch \in LfByte : Lflputc(s, ch)
       \/ Lflgetc(s) \/ LfGoesOn(s) \/ \E k \in Nat : Lflseek(s, k)
       \/ Lflcontrol(s) \/ Lflclose(s) \/ LflcloseGoesOn(s)
  \/ Lfsckfmt \/ \E lfiblks, sectors \in Nat : Lfscreate(lfiblks, sectors)

(* On a disk that was never written, or has a new file system with the     *)
(* identification that lfscreate forgets.                                  *)
LocalSpec ==
  /\ LfsInit /\ LflInit
  /\ \E n, m \in Nat, id \in {"xinu", "zeros"} : lfdisk = Layout(n, m, id)
  /\ [][LocalNext]_lfsvars
-----------------------------------------------------------------------------
(* The blocks of a file, those of an open one as in memory.                *)
Iblk(i) ==
  LET open == {s \in Lfl : lfltab[s].state = "used" /\ lfltab[s].inum = i}
  IN  IF open = {} THEN lfdisk.ib[i] ELSE lfltab[CHOOSE s \in open : TRUE].ib

Dblk(d) ==
  LET open == {s \in Lfl : lfltab[s].state = "used" /\ lfltab[s].dnum = d}
  IN  IF open = {} THEN lfdisk.db[d] ELSE lfltab[CHOOSE s \in open : TRUE].db

IndexBlocks(e) ==
  LET chain[i \in DOMAIN lfdisk.ib \cup {LF_NULL}] ==
        IF i = LF_NULL THEN <<>> ELSE <<i>> \o chain[Iblk(i).next]
  IN  chain[e.ilist]

DataBlocks(iblks) ==
  [j \in 1..(Len(iblks) * LF_IBLEN) |->
     Iblk(iblks[(j - 1) \div LF_IBLEN + 1]).dba[(j - 1) % LF_IBLEN]]

Bytes(e) ==
  LET blks == DataBlocks(IndexBlocks(e))
      data == [j \in 1..((e.size + LF_BLKSIZ - 1) \div LF_BLKSIZ) |-> Dblk(blks[j])]
  IN  [k \in 1..e.size |-> data[(k - 1) \div LF_BLKSIZ + 1][((k - 1) % LF_BLKSIZ) + 1]]

(* Every block is on its free list or belongs to one file, and to none     *)
(* twice: lfsetup and lftruncate neither share nor lose a block.           *)
LfsBlocksKept ==
  LET index == [i \in DOMAIN lf_dir.files |-> IndexBlocks(lf_dir.files[i])]
      data  == [i \in DOMAIN index |->
                  SelectSeq(DataBlocks(index[i]), LAMBDA b : b # LF_NULL)]
      Once(free, held, all) ==
        LET lists == FlattenSeq(<<free>> \o held)
        IN  Len(lists) = Cardinality(all) /\ ToSet(lists) = all
  IN  lf_dirpresent /\ ~raced => /\ Once(lf_dir.ifree, index, DOMAIN lfdisk.ib)
                                /\ Once(lf_dir.dfree, data, DOMAIN lfdisk.db)

(* A directory that is not marked dirty is on the disk: the files, their   *)
(* sizes and the free lists are what a restart would find.  Two cases are  *)
(* excepted: a file that is still empty, since lfsopen does not mark the   *)
(* directory, and a change made while the mark of an earlier one was       *)
(* cleared.                                                                *)
DirectoryOnDisk ==
  lf_dirpresent /\ ~lf_dirdirty /\ ~missed /\ ~raced /\ (\A s \in Lfl : lfltab[s].op.wrote = None)
    => SameDir(lfdisk.dir, lf_dir)
=============================================================================
