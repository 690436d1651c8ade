--------------------------- MODULE LocalFileProofs ---------------------------
(***************************************************************************)
(* DirectoryOnDisk of LocalFile, for every number of processes, files,     *)
(* blocks and bytes.                                                       *)
(*                                                                         *)
(* The directory is the one on the disk while it is clean (LfsInv), and a  *)
(* call that will mark it clean remembers two directories that are the     *)
(* same (WroteOK): the one that it wrote as it was in memory, and as it    *)
(* came to be on the disk.                                                 *)
(***************************************************************************)
EXTENDS LocalFile, SequenceTheorems, TLAPS

(* A directory whose files are known entries.                              *)
DirEntry(e) == "size" \in DOMAIN e /\ e = [k \in DOMAIN e |-> e[k]]

FilesOK(fs) == \E S : fs \in Seq(S) /\ \A e \in S : DirEntry(e)

DirOK(d) == {"files", "ifree", "dfree"} \subseteq DOMAIN d /\ FilesOK(d.files)

(* What a call that wrote the directory remembers of it.                   *)
WroteOK(op) == op.wrote # None \/ op.call = "close" => SameDir(op.wrote[1], op.wrote[2])

CallKnown(f) ==
  /\ {"op", "pos"} \subseteq DOMAIN f /\ {"call", "ch", "wrote"} \subseteq DOMAIN f.op
  /\ f.pos \in Nat /\ WroteOK(f.op)

LfsKnown ==
  /\ DirOK(lf_dir) /\ DirOK(lfdisk.dir) /\ {"dir", "ib", "db"} \subseteq DOMAIN lfdisk
  /\ lfltab = [s \in Lfl |-> lfltab[s]] /\ \A s \in Lfl : CallKnown(lfltab[s])

(* The directory is clean, and nobody is about to say so of another one.   *)
Clean == lf_dirpresent /\ ~lf_dirdirty /\ ~missed /\ \A s \in Lfl : lfltab[s].op.wrote = None

LfsInv == LfsKnown /\ (Clean => SameDir(lfdisk.dir, lf_dir))

(* The files that are not empty.                                           *)
FullOf(fs) == {fs[i] : i \in {j \in DOMAIN fs : fs[j].size > 0}}

LEMMA SameDirFull ==
  ASSUME NEW a, NEW b
  PROVE  SameDir(a, b) <=> /\ a.ifree = b.ifree /\ a.dfree = b.dfree
                           /\ FullOf(a.files) = FullOf(b.files)
BY DEF SameDir, FullOf

LEMMA SameDirIs ==
  /\ \A a, b : a.ifree = b.ifree /\ a.dfree = b.dfree /\ a.files = b.files => SameDir(a, b)
  /\ \A a : SameDir(a, a)
  /\ \A a, b : SameDir(a, b) => SameDir(b, a)
  /\ \A a, b, c : SameDir(a, b) /\ SameDir(b, c) => SameDir(a, c)
BY SameDirFull

(* An entry of the directory changes, or is added.                         *)
LEMMA FilesChanged ==
  ASSUME NEW fs, FilesOK(fs), NEW i, NEW e, i \in DOMAIN fs => DirEntry(e)
  PROVE  FilesOK([fs EXCEPT ![i] = e])
<1>1. PICK S : fs \in Seq(S) /\ \A x \in S : DirEntry(x)
  BY DEF FilesOK
<1>2. PICK gs : gs = [fs EXCEPT ![i] = e]
  OBVIOUS
<1>3. PICK n \in Nat : fs \in [1..n -> S] /\ DOMAIN fs = 1..n
  BY <1>1
<1>4. CASE i \in 1..n
  <2>1. gs \in [1..n -> S \cup {e}]
    BY <1>2, <1>3
  <2>2. gs \in Seq(S \cup {e})
    BY <2>1
  <2>3. \A x \in S \cup {e} : DirEntry(x)
    BY <1>1, <1>3, <1>4
  <2> QED BY <1>2, <2>2, <2>3 DEF FilesOK
<1>5. CASE i \notin 1..n
  <2>1. gs = fs
    BY <1>2, <1>3, <1>5
  <2> QED BY <1>2, <2>1
<1> QED BY <1>4, <1>5

LEMMA FieldChanged ==
  ASSUME NEW fs, FilesOK(fs), NEW i, NEW k \in {"size", "ilist"}, NEW v
  PROVE  FilesOK([fs EXCEPT ![i] = [fs[i] EXCEPT ![k] = v]])
<1>1. PICK e : e = [fs[i] EXCEPT ![k] = v]
  OBVIOUS
<1>2. ASSUME i \in DOMAIN fs PROVE DirEntry(e)
  <2>1. PICK S : fs \in Seq(S) /\ \A x \in S : DirEntry(x)
    BY DEF FilesOK
  <2>2. DirEntry(fs[i])
    BY <1>2, <2>1
  <2>3. DOMAIN e = DOMAIN fs[i] /\ e = [x \in DOMAIN e |-> e[x]]
    BY <1>1
  <2> QED BY <2>2, <2>3 DEF DirEntry
<1> QED BY <1>1, <1>2, FilesChanged

LEMMA FileAdded ==
  ASSUME NEW d, DirOK(d), NEW e, DirEntry(e), NEW d2, d2 = [d EXCEPT !.files = Append(d.files, e)]
  PROVE  DirOK(d2) /\ (e.size = 0 => SameDir(d, d2))
<1>1. PICK S, fs : fs = d.files /\ fs \in Seq(S) /\ \A x \in S : DirEntry(x)
  BY DEF DirOK, FilesOK
<1>2. PICK gs : gs = Append(fs, e)
  OBVIOUS
<1>3. /\ d2.files = gs /\ d2.ifree = d.ifree /\ d2.dfree = d.dfree
      /\ {"files", "ifree", "dfree"} \subseteq DOMAIN d2
  BY <1>1, <1>2 DEF DirOK
<1>4. PICK n \in Nat : n = Len(fs) /\ DOMAIN fs = 1..n
  BY <1>1
<1>5. /\ gs \in Seq(S \cup {e}) /\ DOMAIN gs = 1..(n + 1) /\ gs[n + 1] = e
      /\ \A i \in 1..n : gs[i] = fs[i]
  <2>1. fs \in Seq(S \cup {e})
    BY <1>1
  <2> QED BY <1>2, <1>4, <2>1, AppendProperties
<1>6. DirOK(d2)
  BY <1>1, <1>3, <1>5 DEF DirOK, FilesOK
<1>7. ASSUME e.size = 0 PROVE SameDir(d, d2)
  <2>1. FullOf(fs) = FullOf(gs)
    <3>1. ~(e.size > 0)
      BY <1>7
    <3>2. \A i : i \in 1..(n + 1) <=> i \in 1..n \/ i = n + 1
      OBVIOUS
    <3>3. {j \in DOMAIN gs : gs[j].size > 0} = {j \in DOMAIN fs : fs[j].size > 0}
      BY <1>4, <1>5, <3>1, <3>2
    <3> QED BY <1>4, <1>5, <3>3 DEF FullOf
  <2> QED BY <1>1, <1>3, <2>1, SameDirFull
<1> QED BY <1>6, <1>7

(* The place of a data block in its index block.                           *)
LEMMA BlockPlace ==
  ASSUME NEW pos \in Nat
  PROVE  (pos % LF_IDATA) \div LF_BLKSIZ \in 0..(LF_IBLEN - 1)
<1>1. PICK m \in Nat \ {0}, b \in Nat \ {0} : m = LF_IBLEN /\ b = LF_BLKSIZ
  BY LfAssumption
<1>2. PICK t \in Nat \ {0} : t = m * b
  <2>1. m * b \in Nat \ {0}
    OBVIOUS
  <2> QED BY <2>1
<1>3. PICK x \in 0..(t - 1) : x = pos % t
  <2>1. pos % t \in 0..(t - 1)
    OBVIOUS
  <2> QED BY <2>1
<1>4. PICK q \in Int, r \in 0..(b - 1) : q = x \div b /\ x = b * q + r
  <2>1. x \in Int /\ x \div b \in Int /\ x % b \in 0..(b - 1) /\ x = b * (x \div b) + (x % b)
    OBVIOUS
  <2> QED BY <2>1
<1>5. q >= 0
  <2>1. ASSUME q < 0 PROVE FALSE
    <3>1. b * q <= -b
      BY <2>1
    <3> QED BY <1>3, <1>4, <3>1
  <2> QED BY <2>1
<1>6. q < m
  <2>1. ASSUME q >= m PROVE FALSE
    <3>1. b * q >= b * m /\ b * m = t
      BY <1>2, <2>1
    <3> QED BY <1>3, <1>4, <3>1
  <2> QED BY <2>1
<1>7. q \in 0..(m - 1)
  BY <1>5, <1>6
<1> QED BY <1>1, <1>2, <1>3, <1>4, <1>7 DEF LF_IDATA
(* The index block of an entry is set; a size stays what it was.           *)
LEMMA IlistSet ==
  ASSUME NEW d, DirOK(d), NEW i, NEW v, NEW d2, d2 = [d EXCEPT !.files[i].ilist = v]
  PROVE  DirOK(d2) /\ (v = d.files[i].ilist => SameDir(d, d2))
<1>1. PICK fs : fs = d.files
  OBVIOUS
<1>2. PICK e : e = [fs[i] EXCEPT !.ilist = v]
  OBVIOUS
<1>3. PICK gs : gs = [fs EXCEPT ![i] = e]
  OBVIOUS
<1>4. /\ d2.files = gs /\ d2.ifree = d.ifree /\ d2.dfree = d.dfree
      /\ {"files", "ifree", "dfree"} \subseteq DOMAIN d2
  BY <1>1, <1>2, <1>3 DEF DirOK
<1>5. FilesOK(gs)
  BY <1>1, <1>2, <1>3, FieldChanged DEF DirOK
<1>6. ASSUME v = fs[i].ilist PROVE FullOf(fs) = FullOf(gs)
  <2>1. PICK S : fs \in Seq(S) /\ \A x \in S : DirEntry(x)
    BY <1>1 DEF DirOK, FilesOK
  <2>2. ASSUME i \in DOMAIN fs PROVE e = fs[i]
    <3>1. PICK x : x = fs[i] /\ DirEntry(x)
      BY <2>1, <2>2
    <3>2. x = [k \in DOMAIN x |-> x[k]]
      BY <3>1 DEF DirEntry
    <3>3. e = [x EXCEPT !.ilist = x.ilist]
      BY <1>2, <1>6, <3>1
    <3>4. e = [k \in DOMAIN x |-> x[k]]
      BY <3>3
    <3> QED BY <3>1, <3>2, <3>4
  <2>3. gs = fs
    <3>1. PICK n \in Nat : fs \in [1..n -> S] /\ DOMAIN fs = 1..n
      BY <2>1
    <3> QED BY <1>3, <2>2, <3>1
  <2> QED BY <2>3
<1> QED BY <1>1, <1>4, <1>5, <1>6, SameDirFull DEF DirOK

LEMMA SizeSet ==
  ASSUME NEW d, DirOK(d), NEW i, NEW v, NEW d2, d2 = [d EXCEPT !.files[i].size = v]
  PROVE  DirOK(d2)
<1>1. PICK fs : fs = d.files
  OBVIOUS
<1>2. PICK gs : gs = [fs EXCEPT ![i] = [fs[i] EXCEPT !.size = v]]
  OBVIOUS
<1>3. d2.files = gs /\ {"files", "ifree", "dfree"} \subseteq DOMAIN d2
  BY <1>1, <1>2 DEF DirOK
<1>4. FilesOK(gs)
  BY <1>1, <1>2, FieldChanged DEF DirOK
<1> QED BY <1>3, <1>4 DEF DirOK

(* What lfsetup returns, when there are blocks: a directory that it wrote, *)
(* or the one in memory.                                                   *)
SetUp(r, f) ==
  /\ DirOK(r.dir) /\ DirOK(r.disk.dir) /\ {"dir", "ib", "db"} \subseteq DOMAIN r.disk
  /\ r.file.pos = f.pos /\ {"op", "pos"} \subseteq DOMAIN r.file
  /\ \/ SameDir(r.wrote[1], r.wrote[2]) /\ lf_dirdirty
     \/ SameDir(r.wrote[1], r.wrote[2]) /\ SameDir(r.disk.dir, r.dir)
     \/ r.wrote = None /\ r.disk.dir = lfdisk.dir /\ SameDir(r.dir, lf_dir)

LEMMA SetupKnown ==
  ASSUME LfsKnown, NEW f, CallKnown(f), ~lfsetup(f).panic
  PROVE  SetUp(lfsetup(f), f)
<1> DEFINE dirty == f.ibdirty \/ f.dbdirty
           d     == IF dirty THEN lfflush(lfdisk, f) ELSE lfdisk
           first == lf_dir.files[f.ent].ilist
           base  == f.pos - (f.pos % LF_IDATA)
           start == IF f.inum = LF_NULL \/ f.pos < f.ib.offset THEN first ELSE f.inum
           walk[i \in DOMAIN d.ib] ==
             LET ib == lfibget(d, i)
             IN  IF ib.offset >= base \/ ib.next = LF_NULL THEN i ELSE walk[ib.next]
           last  == IF start = LF_NULL THEN LF_NULL ELSE walk[start]
           newib == last = LF_NULL \/ d.ib[last].offset < base
           inum  == IF newib THEN Head(lf_dir.ifree) ELSE last
           ib    == IF ~newib THEN lfibget(d, last)
                    ELSE lfibclear(IF last = LF_NULL THEN 0 ELSE d.ib[last].offset + LF_IDATA)
           kept  == IF start # LF_NULL /\ (newib \/ last # start) THEN LF_NULL ELSE f.dnum
           k     == (f.pos % LF_IDATA) \div LF_BLKSIZ
           newdb == ib.dba[k] = LF_NULL
           dnum  == IF newdb THEN Head(lf_dir.dfree) ELSE ib.dba[k]
           dir1  == IF newib THEN lfiballoc(lf_dir) ELSE lf_dir
           dir   == [IF newdb THEN lfdballoc(dir1) ELSE dir1 EXCEPT
                       !.files[f.ent].ilist = IF last = LF_NULL THEN inum ELSE @]
           d1    == IF newib /\ last # LF_NULL
                    THEN lfibput(d, last, [lfibget(d, last) EXCEPT !.next = inum]) ELSE d
<1>1. lfsetup(f) =
        IF (newib /\ lf_dir.ifree = <<>>) \/ (newdb /\ lf_dir.dfree = <<>>)
        THEN [panic |-> TRUE]
        ELSE [panic |-> FALSE, dir |-> dir,
              wrote |-> IF newdb THEN <<dir, dir>>
                        ELSE IF dirty /\ lf_dirdirty THEN <<lf_dir, d.dir>> ELSE None,
              disk  |-> [d1 EXCEPT !.dir = IF newdb THEN dir ELSE @],
              file  |-> [f EXCEPT
                           !.inum = inum, !.dnum = dnum, !.byte = f.pos % LF_BLKSIZ,
                           !.ib = IF newdb THEN [ib EXCEPT !.dba[k] = dnum] ELSE ib,
                           !.db = IF newdb THEN DFILL
                                  ELSE IF dnum # kept THEN d.db[dnum] ELSE @,
                           !.ibdirty = newib \/ newdb,
                           !.dbdirty = FALSE]]
  BY Zenon DEF lfsetup
<1> HIDE DEF dirty, d, first, base, start, walk, last, newib, inum, ib, kept, k, newdb, dnum,
             dir1, dir, d1
<1>2. /\ {"dir", "ib", "db"} \subseteq DOMAIN d /\ DirOK(d.dir)
      /\ d.dir = IF dirty /\ lf_dirdirty THEN lf_dir ELSE lfdisk.dir
  <2>1. CASE dirty
    BY <2>1 DEF d, lfflush, LfsKnown
  <2>2. CASE ~dirty
    BY <2>2 DEF d, LfsKnown
  <2> QED BY <2>1, <2>2
<1>3. newib => newdb
  <2>1. PICK c : c = IF last = LF_NULL THEN 0 ELSE d.ib[last].offset + LF_IDATA
    OBVIOUS
  <2>2. k \in 0..(LF_IBLEN - 1)
    BY BlockPlace DEF k, CallKnown
  <2>3. newib => ib = lfibclear(c)
    BY <2>1 DEF ib
  <2>4. PICK j : j = k
    OBVIOUS
  <2>5. lfibclear(c).dba[j] = LF_NULL
    BY <2>2, <2>4 DEF lfibclear
  <2> QED BY <2>3, <2>4, <2>5 DEF newdb
<1>4. DirOK(dir1) /\ dir1.files = lf_dir.files /\ (~newib => dir1 = lf_dir)
  BY DEF dir1, lfiballoc, LfsKnown, DirOK
<1>5. DirOK(dir) /\ (~newdb => SameDir(dir, lf_dir))
  <2>1. PICK x : x = IF newdb THEN lfdballoc(dir1) ELSE dir1
    OBVIOUS
  <2>2. DirOK(x)
    BY <1>4, <2>1 DEF lfdballoc, DirOK
  <2>3. PICK v : v = IF last = LF_NULL THEN inum ELSE x.files[f.ent].ilist
    OBVIOUS
  <2>4. dir = [x EXCEPT !.files[f.ent].ilist = v]
    BY <2>1, <2>3 DEF dir
  <2>5. DirOK(dir) /\ (v = x.files[f.ent].ilist => SameDir(x, dir))
    BY <2>2, <2>4, IlistSet
  <2>6. ASSUME ~newdb PROVE x = lf_dir /\ v = x.files[f.ent].ilist
    BY <1>3, <1>4, <2>1, <2>3, <2>6 DEF newib
  <2> QED BY <2>5, <2>6, SameDirIs
<1>6. {"dir", "ib", "db"} \subseteq DOMAIN d1 /\ d1.dir = d.dir
  BY <1>2 DEF d1, lfibput
<1>7. PICK r : r = lfsetup(f)
  OBVIOUS
<1>8. /\ r.dir = dir
      /\ r.wrote = IF newdb THEN <<dir, dir>>
                   ELSE IF dirty /\ lf_dirdirty THEN <<lf_dir, d.dir>> ELSE None
      /\ r.disk = [d1 EXCEPT !.dir = IF newdb THEN dir ELSE d1.dir]
      /\ r.file.pos = f.pos /\ DOMAIN r.file = DOMAIN f
  <2>1. r = [panic |-> TRUE] => r.panic
    OBVIOUS
  <2> QED BY <1>1, <1>7, <2>1 DEF CallKnown
<1>9. {"dir", "ib", "db"} \subseteq DOMAIN r.disk
      /\ r.disk.dir = IF newdb THEN dir ELSE d.dir
  BY <1>6, <1>8
<1>10. SetUp(r, f)
  <2>1. CASE newdb
    <3>1. r.wrote[1] = dir /\ r.wrote[2] = dir
      BY <1>8, <2>1
    <3>2. SameDir(dir, dir)
      BY SameDirIs
    <3> QED BY <1>5, <1>8, <1>9, <2>1, <3>1, <3>2 DEF SetUp, CallKnown
  <2>2. CASE ~newdb /\ dirty /\ lf_dirdirty
    <3>1. r.wrote[1] = lf_dir /\ r.wrote[2] = lf_dir
      BY <1>2, <1>8, <2>2
    <3>2. SameDir(lf_dir, lf_dir)
      BY SameDirIs
    <3> QED BY <1>2, <1>5, <1>8, <1>9, <2>2, <3>1, <3>2 DEF SetUp, CallKnown
  <2>3. CASE ~newdb /\ ~(dirty /\ lf_dirdirty)
    BY <1>2, <1>5, <1>8, <1>9, <2>3 DEF SetUp, CallKnown
  <2> QED BY <2>1, <2>2, <2>3
<1> QED BY <1>7, <1>10
(* The control blocks are known, and a call that wrote the directory has   *)
(* not forgotten it.                                                       *)
TabKept ==
  /\ lfltab' = [t \in Lfl |-> lfltab'[t]] /\ \A t \in Lfl : CallKnown(lfltab'[t])
  /\ (\A t \in Lfl : lfltab'[t].op.wrote = None) => \A t \in Lfl : lfltab[t].op.wrote = None

(* A step on the control block of one file.                                *)
LEMMA TabStep ==
  ASSUME LfsKnown, NEW s, NEW g, lfltab' = [lfltab EXCEPT ![s] = g],
         s \in Lfl => CallKnown(g)
  PROVE  /\ lfltab' = [t \in Lfl |-> lfltab'[t]] /\ \A t \in Lfl : CallKnown(lfltab'[t])
         /\ /\ s \in Lfl => lfltab[s].op.wrote = None
            /\ \A t \in Lfl : lfltab'[t].op.wrote = None
            => \A t \in Lfl : lfltab[t].op.wrote = None
         /\ s \in Lfl => lfltab'[s] = g
<1>1. PICK tab, new : tab = lfltab /\ new = lfltab'
  OBVIOUS
<1>2. tab = [t \in Lfl |-> tab[t]] /\ new = [tab EXCEPT ![s] = g]
  BY <1>1 DEF LfsKnown
<1>3. DOMAIN tab = Lfl
  BY <1>2
<1>4. /\ new = [t \in Lfl |-> new[t]]
      /\ \A t \in Lfl : t # s => new[t] = tab[t]
      /\ s \in Lfl => new[s] = g
  BY <1>2, <1>3
<1>5. \A t \in Lfl : CallKnown(tab[t])
  BY <1>1 DEF LfsKnown
<1>6. \A t \in Lfl : CallKnown(new[t])
  BY <1>4, <1>5
<1>7. ASSUME s \in Lfl => tab[s].op.wrote = None, \A t \in Lfl : new[t].op.wrote = None
      PROVE  \A t \in Lfl : tab[t].op.wrote = None
  BY <1>4, <1>7
<1> QED BY <1>1, <1>4, <1>6, <1>7

(* The directory, in memory and on the disk, stays as it is.               *)
LEMMA DirStands ==
  ASSUME LfsInv, lfdisk' = lfdisk, lf_dir' = lf_dir, Clean' => Clean,
         lfltab' = [t \in Lfl |-> lfltab'[t]], \A t \in Lfl : CallKnown(lfltab'[t])
  PROVE  LfsInv'
<1>1. LfsKnown'
  BY DEF LfsInv, LfsKnown
<1>2. SameDir(lfdisk.dir, lf_dir) => SameDir(lfdisk.dir, lf_dir)'
  BY DEF SameDir
<1> QED BY <1>1, <1>2 DEF LfsInv

LEMMA NothingKnown ==
  ASSUME LfsInv, UNCHANGED <<lfdisk, lf_dir, lf_dirpresent, lf_dirdirty, lfltab, missed>>
  PROVE  LfsInv'
<1>1. Clean' => Clean
  BY DEF Clean, Lfl
<1>2. lfltab' = [t \in Lfl |-> lfltab'[t]] /\ \A t \in Lfl : CallKnown(lfltab'[t])
  BY DEF LfsInv, LfsKnown
<1> QED BY <1>1, <1>2, DirStands

(* A file is opened.                                                       *)
LEMMA OpenKeeps ==
  ASSUME LfsInv, NEW p \in Opener, LfsopenGoesOn(p)
  PROVE  LfsInv'
<1> DEFINE o     == lfopening[p]
           dir   == IF lf_dirpresent THEN lf_dir ELSE lfdisk.dir
           named == {i \in DOMAIN dir.files : dir.files[i].name = o.name}
           files == IF named # {} THEN dir.files
                    ELSE Append(dir.files, [name |-> o.name, size |-> 0, ilist |-> LF_NULL])
<1>1. /\ lfdisk' = lfdisk /\ lf_dirdirty' = lf_dirdirty /\ missed' = missed
      /\ \/ lf_dir' = dir /\ lfltab' = lfltab
         \/ /\ lf_dir' = [dir EXCEPT !.files = files]
            /\ lfltab' = [lfltab EXCEPT ![o.slot] =
                 [@ EXCEPT !.state = "used", !.mode = o.mbits \cap {"r", "w"}, !.pos = 0,
                           !.ent = CHOOSE i \in DOMAIN files : files[i].name = o.name,
                           !.inum = LF_NULL, !.dnum = LF_NULL, !.byte = LF_BLKSIZ,
                           !.ibdirty = FALSE, !.dbdirty = FALSE]]
  BY Zenon DEF LfsopenGoesOn
<1> HIDE DEF o, dir, named, files
<1>2. DirOK(dir) /\ dir = IF lf_dirpresent THEN lf_dir ELSE lfdisk.dir
  BY DEF dir, LfsInv, LfsKnown
<1>3. PICK D : D = lf_dir'
  OBVIOUS
<1>4. DirOK(D) /\ SameDir(dir, D)
  <2>1. CASE D = dir
    BY <1>2, <2>1, SameDirIs
  <2>2. CASE D = [dir EXCEPT !.files = files]
    <3>1. CASE named = {}
      <4>1. PICK e : e = [name |-> o.name, size |-> 0, ilist |-> LF_NULL]
        OBVIOUS
      <4>2. DirEntry(e) /\ e.size = 0
        BY <4>1 DEF DirEntry
      <4>3. D = [dir EXCEPT !.files = Append(dir.files, e)]
        BY <2>2, <3>1, <4>1 DEF files
      <4> QED BY <1>2, <4>2, <4>3, FileAdded
    <3>2. CASE named # {}
      <4>1. D.files = dir.files /\ D.ifree = dir.ifree /\ D.dfree = dir.dfree /\ DirOK(D)
        BY <1>2, <2>2, <3>2 DEF files, DirOK
      <4> QED BY <4>1, SameDirIs
    <3> QED BY <3>1, <3>2
  <2> QED BY <1>1, <1>3, <2>1, <2>2
<1>5. TabKept
  <2>1. CASE lfltab' = lfltab
    BY <2>1 DEF LfsInv, LfsKnown, TabKept
  <2>2. ASSUME lfltab' # lfltab
        PROVE  \E m, i : lfltab' = [lfltab EXCEPT ![o.slot] =
                 [@ EXCEPT !.state = "used", !.mode = m, !.pos = 0, !.ent = i,
                           !.inum = LF_NULL, !.dnum = LF_NULL, !.byte = LF_BLKSIZ,
                           !.ibdirty = FALSE, !.dbdirty = FALSE]]
    BY <1>1, <2>2
  <2>3. ASSUME NEW m, NEW i,
               lfltab' = [lfltab EXCEPT ![o.slot] =
                 [@ EXCEPT !.state = "used", !.mode = m, !.pos = 0, !.ent = i,
                           !.inum = LF_NULL, !.dnum = LF_NULL, !.byte = LF_BLKSIZ,
                           !.ibdirty = FALSE, !.dbdirty = FALSE]]
        PROVE  TabKept
    <3>1. PICK x, f : x = o.slot /\ f = lfltab[x]
      OBVIOUS
    <3>2. PICK g : g = [f EXCEPT !.state = "used", !.mode = m, !.pos = 0, !.ent = i,
                           !.inum = LF_NULL, !.dnum = LF_NULL, !.byte = LF_BLKSIZ,
                           !.ibdirty = FALSE, !.dbdirty = FALSE]
      OBVIOUS
    <3>3. lfltab' = [lfltab EXCEPT ![x] = g]
      BY <2>3, <3>1, <3>2
    <3>4. x \in Lfl => CallKnown(f)
      BY <3>1 DEF LfsInv, LfsKnown
    <3>5. CallKnown(f) => CallKnown(g) /\ g.op = f.op
      BY <3>2 DEF CallKnown
    <3>6. LfsKnown
      BY DEF LfsInv
    <3>7. x \in Lfl => CallKnown(g)
      BY <3>4, <3>5
    <3>8. /\ lfltab' = [t \in Lfl |-> lfltab'[t]] /\ \A t \in Lfl : CallKnown(lfltab'[t])
          /\ /\ x \in Lfl => lfltab[x].op.wrote = None
             /\ \A t \in Lfl : lfltab'[t].op.wrote = None
             => \A t \in Lfl : lfltab[t].op.wrote = None
          /\ x \in Lfl => lfltab'[x] = g
      BY ONLY <3>3, <3>6, <3>7, TabStep
    <3>9. x \in Lfl => lfltab'[x].op = lfltab[x].op
      BY <3>1, <3>4, <3>5, <3>8
    <3> QED BY ONLY <3>8, <3>9 DEF TabKept
  <2> QED BY <2>1, <2>2, <2>3
<1>6. ASSUME Clean' PROVE SameDir(lfdisk.dir, D)
  <2>1. CASE lf_dirpresent
    <3>1. Clean
      BY <1>1, <1>5, <1>6, <2>1 DEF Clean, Lfl, TabKept
    <3> QED BY <1>2, <1>4, <2>1, <3>1, SameDirIs DEF LfsInv
  <2>2. CASE ~lf_dirpresent
    BY <1>2, <1>4, <2>2
  <2> QED BY <2>1, <2>2
<1>7. LfsKnown'
  BY <1>1, <1>3, <1>4, <1>5 DEF LfsInv, LfsKnown, TabKept
<1>8. Clean' => SameDir(lfdisk.dir, lf_dir)'
  BY <1>1, <1>3, <1>6
<1> QED BY <1>7, <1>8 DEF LfsInv
(* One control block changes, and the directory is known.                  *)
LEMMA OneStep ==
  ASSUME LfsInv, NEW s \in Lfl, NEW g, CallKnown(g), lfltab' = [lfltab EXCEPT ![s] = g],
         DirOK(lf_dir'), DirOK(lfdisk'.dir), {"dir", "ib", "db"} \subseteq DOMAIN lfdisk'
  PROVE  /\ LfsKnown'
         /\ lfltab[s].op.wrote = None /\ (\A t \in Lfl : lfltab'[t].op.wrote = None)
            => \A t \in Lfl : lfltab[t].op.wrote = None
         /\ lfltab'[s] = g
<1>1. /\ lfltab' = [t \in Lfl |-> lfltab'[t]] /\ \A t \in Lfl : CallKnown(lfltab'[t])
      /\ /\ s \in Lfl => lfltab[s].op.wrote = None
         /\ \A t \in Lfl : lfltab'[t].op.wrote = None
         => \A t \in Lfl : lfltab[t].op.wrote = None
      /\ s \in Lfl => lfltab'[s] = g
  BY TabStep DEF LfsInv
<1> QED BY <1>1 DEF LfsKnown

LEMMA IdleKnown ==
  ASSUME NEW g, {"op", "pos"} \subseteq DOMAIN g, g.pos \in Nat, g.op = IDLE
  PROVE  CallKnown(g)
BY DEF CallKnown, WroteOK, IDLE

(* The control block after a byte was read or written.                     *)
LEMMA ByteMoved ==
  ASSUME NEW s \in Lfl, NEW f, CallKnown(f), Get(s, f) \/ \E ch : Put(s, f, ch)
  PROVE  \E g : CallKnown(g) /\ lfltab' = [lfltab EXCEPT ![s] = g]
<1>1. CASE Get(s, f)
  <2>1. PICK g : g = [f EXCEPT !.byte = @ + 1, !.pos = @ + 1, !.op = IDLE]
    OBVIOUS
  <2>2. CallKnown(g)
    <3>1. {"op", "pos"} \subseteq DOMAIN g /\ g.pos \in Nat /\ g.op = IDLE
      BY <2>1 DEF CallKnown
    <3> QED BY <3>1, IdleKnown
  <2> QED BY <1>1, <2>1, <2>2 DEF Get
<1>2. ASSUME NEW ch, Put(s, f, ch) PROVE \E g : CallKnown(g) /\ lfltab' = [lfltab EXCEPT ![s] = g]
  <2>1. PICK g : g = [f EXCEPT !.db[f.byte + 1] = ch, !.byte = @ + 1, !.pos = @ + 1,
                                 !.dbdirty = TRUE, !.op = IDLE]
    OBVIOUS
  <2>2. CallKnown(g)
    <3>1. {"op", "pos"} \subseteq DOMAIN g /\ g.pos \in Nat /\ g.op = IDLE
      BY <2>1 DEF CallKnown
    <3> QED BY <3>1, IdleKnown
  <2> QED BY <1>2, <2>1, <2>2 DEF Put
<1> QED BY <1>1, <1>2

(* The size of the file grows.                                             *)
LEMMA SizedKnown ==
  ASSUME LfsInv, NEW f
  PROVE  DirOK(Sized(f)) /\ (~Extends(f) => Sized(f) = lf_dir)
<1>1. CASE Extends(f)
  <2>1. PICK i, v, d2 : /\ i = f.ent /\ v = lf_dir.files[i].size + 1
                        /\ d2 = [lf_dir EXCEPT !.files[i].size = v]
    OBVIOUS
  <2>2. Sized(f) = d2
    BY <1>1, <2>1 DEF Sized
  <2>3. DirOK(d2)
    BY <2>1, SizeSet DEF LfsInv, LfsKnown
  <2> QED BY <1>1, <2>2, <2>3
<1>2. CASE ~Extends(f)
  BY <1>2 DEF Sized, LfsInv, LfsKnown
<1> QED BY <1>1, <1>2

(* lfsetup, at the beginning of a call.                                    *)
LEMMA SetupKeeps ==
  ASSUME LfsInv, NEW s \in Lfl, Ready(s), NEW call \in {"put", "get"}, NEW ch,
         LfSetup(s, call, ch)
  PROVE  LfsInv'
<1>1. PICK f : f = lfltab[s] /\ CallKnown(f) /\ f.op = IDLE
  BY DEF LfsInv, LfsKnown, Ready
<1>2. PICK r : r = lfsetup(f)
  OBVIOUS
<1>3. /\ UNCHANGED <<lf_dirpresent, lf_dirdirty, missed>>
      /\ \/ UNCHANGED <<lfdisk, lf_dir, lfltab>>
         \/ /\ ~r.panic /\ lfdisk' = r.disk /\ lf_dir' = r.dir
            /\ lfltab' = [lfltab EXCEPT ![s] =
                 [r.file EXCEPT !.op = [call |-> call, ch |-> ch, wrote |-> r.wrote]]]
  BY <1>1, <1>2 DEF LfSetup
<1>4. CASE UNCHANGED <<lfdisk, lf_dir, lfltab>>
  BY <1>3, <1>4, NothingKnown
<1>5. CASE /\ ~r.panic /\ lfdisk' = r.disk /\ lf_dir' = r.dir
           /\ lfltab' = [lfltab EXCEPT ![s] =
                [r.file EXCEPT !.op = [call |-> call, ch |-> ch, wrote |-> r.wrote]]]
  <2>1. SetUp(r, f)
    BY <1>1, <1>2, <1>5, SetupKnown DEF LfsInv
  <2>2. PICK g : g = [r.file EXCEPT !.op = [call |-> call, ch |-> ch, wrote |-> r.wrote]]
    OBVIOUS
  <2>3. /\ {"op", "pos"} \subseteq DOMAIN g /\ g.pos \in Nat
        /\ g.op = [call |-> call, ch |-> ch, wrote |-> r.wrote]
    BY <1>1, <2>1, <2>2 DEF SetUp, CallKnown
  <2>4. g.op.wrote = r.wrote /\ g.op.call # "close" /\ {"call", "ch", "wrote"} \subseteq DOMAIN g.op
    BY <2>3
  <2>5. CallKnown(g)
    BY <2>1, <2>3, <2>4 DEF SetUp, CallKnown, WroteOK
  <2>6. lfltab' = [lfltab EXCEPT ![s] = g]
    BY <1>5, <2>2
  <2>7. DirOK(lf_dir') /\ DirOK(lfdisk'.dir) /\ {"dir", "ib", "db"} \subseteq DOMAIN lfdisk'
    BY <1>5, <2>1 DEF SetUp
  <2>8. /\ LfsKnown'
        /\ lfltab[s].op.wrote = None /\ (\A t \in Lfl : lfltab'[t].op.wrote = None)
           => \A t \in Lfl : lfltab[t].op.wrote = None
    BY <2>5, <2>6, <2>7, OneStep
  <2>9. ASSUME Clean' PROVE SameDir(lfdisk.dir, lf_dir)'
    <3>1. ~lf_dirdirty
      BY <1>3, <2>9 DEF Clean
    <3>2. CASE SameDir(r.disk.dir, r.dir)
      BY <1>5, <3>2 DEF SameDir
    <3>3. CASE r.disk.dir = lfdisk.dir /\ SameDir(r.dir, lf_dir)
      <4>1. lfltab[s].op.wrote = None
        BY <1>1 DEF IDLE
      <4>2. Clean
        BY <1>3, <2>8, <2>9, <4>1 DEF Clean, Lfl
      <4>3. SameDir(lfdisk.dir, lf_dir)
        BY <4>2 DEF LfsInv
      <4>4. SameDir(r.disk.dir, r.dir)
        BY <3>3, <4>3, SameDirIs
      <4> QED BY <1>5, <4>4
    <3> QED BY <2>1, <3>1, <3>2, <3>3 DEF SetUp
  <2> QED BY <2>8, <2>9 DEF LfsInv
<1> QED BY <1>3, <1>4, <1>5
(* A byte is read or written: the directory stands, or is marked dirty.    *)
LEMMA ByteKeeps ==
  ASSUME LfsInv, NEW s \in Lfl, NEW f, f = lfltab[s],
         \/ Get(s, f) /\ lf_dir' = lf_dir
         \/ (\E ch : Put(s, f, ch)) /\ lf_dir' = Sized(f) /\ (Extends(f) => lf_dirdirty'),
         lfdisk' = lfdisk
  PROVE  /\ LfsKnown'
         /\ ~lf_dirdirty' => lf_dir' = lf_dir
         /\ lfltab[s].op.wrote = None /\ (\A t \in Lfl : lfltab'[t].op.wrote = None)
            => \A t \in Lfl : lfltab[t].op.wrote = None
<1>1. CallKnown(f)
  BY DEF LfsInv, LfsKnown
<1>2. PICK g : CallKnown(g) /\ lfltab' = [lfltab EXCEPT ![s] = g]
  BY <1>1, ByteMoved
<1>3. DirOK(lf_dir') /\ (~lf_dirdirty' => lf_dir' = lf_dir)
  <2>1. DirOK(Sized(f)) /\ (~Extends(f) => Sized(f) = lf_dir) /\ DirOK(lf_dir)
    BY SizedKnown DEF LfsInv, LfsKnown
  <2> QED BY <2>1
<1>4. DirOK(lfdisk'.dir) /\ {"dir", "ib", "db"} \subseteq DOMAIN lfdisk'
  BY DEF LfsInv, LfsKnown
<1> QED BY <1>2, <1>3, <1>4, OneStep

(* The second step of a call: what the mark is cleared for is on the disk. *)
LEMMA GoesOnKeeps ==
  ASSUME LfsInv, NEW s \in Lfl, LfGoesOn(s)
  PROVE  LfsInv'
<1>1. PICK f : f = lfltab[s]
  OBVIOUS
<1>2. /\ lfdisk' = lfdisk /\ lf_dirpresent' = lf_dirpresent
      /\ missed' = IF f.op.wrote # None THEN Overtaken(f.op.wrote) ELSE missed
      /\ \/ /\ Get(s, f) /\ lf_dir' = lf_dir
            /\ lf_dirdirty' = (lf_dirdirty /\ f.op.wrote = None)
         \/ /\ \E ch : Put(s, f, ch)
            /\ lf_dir' = Sized(f)
            /\ lf_dirdirty' = (Extends(f) \/ (lf_dirdirty /\ f.op.wrote = None))
  BY <1>1 DEF LfGoesOn
<1>3. /\ LfsKnown'
      /\ ~lf_dirdirty' => lf_dir' = lf_dir
      /\ lfltab[s].op.wrote = None /\ (\A t \in Lfl : lfltab'[t].op.wrote = None)
         => \A t \in Lfl : lfltab[t].op.wrote = None
  BY <1>1, <1>2, ByteKeeps
<1>4. ASSUME Clean' PROVE SameDir(lfdisk.dir, lf_dir)
  <2>1. ~lf_dirdirty' /\ ~missed' /\ lf_dirpresent
    BY <1>2, <1>4 DEF Clean
  <2>2. CASE f.op.wrote = None
    <3>1. ~lf_dirdirty /\ ~missed
      BY <1>2, <2>1, <2>2
    <3>2. Clean
      BY <1>1, <1>3, <1>4, <2>1, <2>2, <3>1 DEF Clean, Lfl
    <3> QED BY <3>2 DEF LfsInv
  <2>3. CASE f.op.wrote # None
    <3>1. SameDir(f.op.wrote[1], lf_dir) /\ SameDir(f.op.wrote[2], lfdisk.dir)
      BY <1>2, <2>1, <2>3 DEF Overtaken
    <3>2. SameDir(f.op.wrote[1], f.op.wrote[2])
      BY <1>1, <2>3 DEF LfsInv, LfsKnown, CallKnown, WroteOK
    <3> QED BY <3>1, <3>2, SameDirIs
  <2> QED BY <2>2, <2>3
<1>5. ASSUME Clean' PROVE SameDir(lfdisk.dir, lf_dir)'
  <2>1. lf_dir' = lf_dir
    BY <1>3, <1>5 DEF Clean
  <2> QED BY <1>2, <1>4, <1>5, <2>1
<1> QED BY <1>3, <1>5 DEF LfsInv

(* A byte of the block that is in memory, and the end of the file.         *)
LEMMA PutGetKeeps ==
  ASSUME LfsInv, NEW s \in Lfl, Lflgetc(s) \/ \E ch \in LfByte : Lflputc(s, ch)
  PROVE  LfsInv'
<1>1. PICK f : f = lfltab[s]
  OBVIOUS
<1>2. Ready(s) /\ f.op.wrote = None
  BY <1>1 DEF Lflgetc, Lflputc, Ready, IDLE
<1>3. \/ UNCHANGED <<lfdisk, lf_dir, lf_dirpresent, lf_dirdirty, lfltab, missed>>
      \/ \E call \in {"put", "get"}, ch \in LfByte \cup {None} : LfSetup(s, call, ch)
      \/ /\ lfdisk' = lfdisk /\ lf_dirpresent' = lf_dirpresent /\ missed' = missed
         /\ \/ Get(s, f) /\ lf_dir' = lf_dir /\ lf_dirdirty' = lf_dirdirty
            \/ /\ \E ch : Put(s, f, ch)
               /\ lf_dir' = Sized(f) /\ lf_dirdirty' = (Extends(f) \/ lf_dirdirty)
  <2>1. CASE Lflgetc(s)
    BY <1>1, <2>1 DEF Lflgetc
  <2>2. ASSUME NEW ch \in LfByte, Lflputc(s, ch) PROVE <1>3!:
    BY <1>1, <2>2 DEF Lflputc
  <2> QED BY <2>1, <2>2
<1>4. CASE UNCHANGED <<lfdisk, lf_dir, lf_dirpresent, lf_dirdirty, lfltab, missed>>
  BY <1>4, NothingKnown
<1>5. CASE \E call \in {"put", "get"}, ch \in LfByte \cup {None} : LfSetup(s, call, ch)
  BY <1>2, <1>5, SetupKeeps
<1>6. CASE /\ lfdisk' = lfdisk /\ lf_dirpresent' = lf_dirpresent /\ missed' = missed
           /\ \/ Get(s, f) /\ lf_dir' = lf_dir /\ lf_dirdirty' = lf_dirdirty
              \/ /\ \E ch : Put(s, f, ch)
                 /\ lf_dir' = Sized(f) /\ lf_dirdirty' = (Extends(f) \/ lf_dirdirty)
  <2>1. /\ LfsKnown'
        /\ ~lf_dirdirty' => lf_dir' = lf_dir
        /\ lfltab[s].op.wrote = None /\ (\A t \in Lfl : lfltab'[t].op.wrote = None)
           => \A t \in Lfl : lfltab[t].op.wrote = None
    BY <1>1, <1>6, ByteKeeps
  <2>2. ASSUME Clean' PROVE SameDir(lfdisk.dir, lf_dir)'
    <3>1. ~lf_dirdirty' /\ lf_dir' = lf_dir /\ ~lf_dirdirty
      <4>1. ~lf_dirdirty'
        BY <2>2 DEF Clean
      <4>2. lf_dirdirty => lf_dirdirty'
        BY ONLY <1>6, Zenon
      <4> QED BY <2>1, <4>1, <4>2
    <3>2. Clean
      BY <1>1, <1>2, <1>6, <2>1, <2>2, <3>1 DEF Clean, Lfl
    <3> QED BY <1>6, <3>1, <3>2 DEF LfsInv
  <2> QED BY <2>1, <2>2 DEF LfsInv
<1> QED BY <1>3, <1>4, <1>5, <1>6
LEMMA SeekKeeps ==
  ASSUME LfsInv, NEW s \in Lfl, NEW offset \in Nat, Lflseek(s, offset)
  PROVE  LfsInv'
<1>1. PICK f : f = lfltab[s] /\ CallKnown(f)
  BY DEF LfsInv, LfsKnown
<1>2. PICK g : g = [f EXCEPT !.pos = offset, !.byte = LF_BLKSIZ]
  OBVIOUS
<1>3. /\ lfltab' = [lfltab EXCEPT ![s] = g]
      /\ UNCHANGED <<lfdisk, lf_dir, lf_dirpresent, lf_dirdirty, missed>>
      /\ f.op = IDLE
  <2>1. lfltab' = [lfltab EXCEPT ![s].pos = offset, ![s].byte = LF_BLKSIZ]
    BY DEF Lflseek
  <2>2. lfltab = [t \in Lfl |-> lfltab[t]]
    BY DEF LfsInv, LfsKnown
  <2>3. lfltab' = [lfltab EXCEPT ![s] = g]
    BY <1>1, <1>2, <2>1, <2>2
  <2> QED BY <1>1, <2>3 DEF Lflseek, Ready
<1>4. CallKnown(g)
  <2>1. {"op", "pos"} \subseteq DOMAIN g /\ g.pos \in Nat /\ g.op = IDLE
    BY <1>1, <1>2, <1>3 DEF CallKnown
  <2> QED BY <2>1, IdleKnown
<1>5. /\ LfsKnown'
      /\ lfltab[s].op.wrote = None /\ (\A t \in Lfl : lfltab'[t].op.wrote = None)
         => \A t \in Lfl : lfltab[t].op.wrote = None
  <2>1. DirOK(lf_dir') /\ DirOK(lfdisk'.dir) /\ {"dir", "ib", "db"} \subseteq DOMAIN lfdisk'
    BY <1>3 DEF LfsInv, LfsKnown
  <2> QED BY <1>3, <1>4, <2>1, OneStep
<1>6. Clean' => Clean
  BY <1>1, <1>3, <1>5 DEF Clean, Lfl, IDLE
<1> QED BY <1>3, <1>5, <1>6, DirStands DEF LfsKnown

(* lftruncate marks the directory dirty.                                   *)
LEMMA ControlKeeps ==
  ASSUME LfsInv, NEW s \in Lfl, Lflcontrol(s)
  PROVE  LfsInv'
<1>1. PICK f : f = lfltab[s] /\ CallKnown(f) /\ f.op = IDLE
  BY DEF LfsInv, LfsKnown, Lflcontrol, Ready
<1>2. PICK r : r = lftruncate(f)
  OBVIOUS
<1>3. /\ lfdisk' = r.disk /\ lf_dir' = r.dir /\ lf_dirdirty' = TRUE
      /\ lfltab' = [lfltab EXCEPT ![s] =
           [f EXCEPT !.pos = 0, !.inum = LF_NULL, !.dnum = LF_NULL, !.byte = LF_BLKSIZ,
                     !.ibdirty = FALSE, !.dbdirty = FALSE]]
  BY <1>1, <1>2 DEF Lflcontrol
<1>4. DirOK(r.dir) /\ DirOK(r.disk.dir) /\ {"dir", "ib", "db"} \subseteq DOMAIN r.disk
  <2> DEFINE d     == IF f.ibdirty \/ f.dbdirty THEN lfflush(lfdisk, f) ELSE lfdisk
             chain[i \in DOMAIN d.ib \cup {LF_NULL}] ==
               IF i = LF_NULL THEN <<>> ELSE <<i>> \o chain[d.ib[i].next]
             iblks == chain[lf_dir.files[f.ent].ilist]
             slots == [j \in 1..(Len(iblks) * LF_IBLEN) |->
                         d.ib[iblks[(j - 1) \div LF_IBLEN + 1]].dba[(j - 1) % LF_IBLEN]]
             freed == SelectSeq(slots, LAMBDA b : b # LF_NULL)
             dir   == [lfdbfree(lf_dir, freed) EXCEPT
                         !.files[f.ent].size = 0, !.files[f.ent].ilist = LF_NULL]
  <2>1. lftruncate(f) =
          [dir  |-> [dir EXCEPT !.ifree = iblks \o @],
           disk |-> [d EXCEPT !.dir = dir,
                              !.ib = [i \in DOMAIN @ |-> IF i \in {iblks[j] : j \in DOMAIN iblks}
                                                         THEN lfibclear(0) ELSE @[i]]]]
    BY Zenon DEF lftruncate
  <2> HIDE DEF d, chain, iblks, slots, freed, dir
  <2>2. DirOK(lf_dir) /\ {"dir", "ib", "db"} \subseteq DOMAIN d
    BY DEF d, lfflush, LfsInv, LfsKnown
  <2>3. PICK x : x = lfdbfree(lf_dir, freed)
    OBVIOUS
  <2>4. DirOK(x)
    <3>1. PICK v : x = [lf_dir EXCEPT !.dfree = v]
      BY <2>3 DEF lfdbfree
    <3> QED BY <2>2, <3>1 DEF DirOK
  <2>5. PICK i, y : i = f.ent /\ y = [x EXCEPT !.files[i].size = 0]
    OBVIOUS
  <2>6. DirOK(y)
    BY <2>4, <2>5, SizeSet
  <2>7. dir = [y EXCEPT !.files[i].ilist = LF_NULL]
    <3>1. dir = [x EXCEPT !.files[i].size = 0, !.files[i].ilist = LF_NULL]
      BY <2>3, <2>5 DEF dir
    <3> QED BY <2>5, <3>1
  <2>8. DirOK(dir)
    BY <2>6, <2>7, IlistSet
  <2>9. (\E v : r.dir = [dir EXCEPT !.ifree = v])
        /\ \E w : r.disk = [d EXCEPT !.dir = dir, !.ib = w]
    <3>1. PICK v : v = iblks \o dir.ifree
      OBVIOUS
    <3>2. PICK w : w = [i1 \in DOMAIN d.ib |-> IF i1 \in {iblks[j] : j \in DOMAIN iblks}
                                              THEN lfibclear(0) ELSE d.ib[i1]]
      OBVIOUS
    <3>3. r = [dir  |-> [dir EXCEPT !.ifree = v],
               disk |-> [d EXCEPT !.dir = dir, !.ib = w]]
      BY <1>2, <2>1, <3>1, <3>2, Zenon
    <3> QED BY <3>3
  <2>10. DirOK(r.dir)
    <3>1. PICK v : r.dir = [dir EXCEPT !.ifree = v]
      BY <2>9
    <3> QED BY <2>8, <3>1 DEF DirOK
  <2>11. r.disk.dir = dir /\ {"dir", "ib", "db"} \subseteq DOMAIN r.disk
    BY <2>2, <2>9
  <2> QED BY <2>8, <2>10, <2>11
<1>5. PICK g : g = [f EXCEPT !.pos = 0, !.inum = LF_NULL, !.dnum = LF_NULL, !.byte = LF_BLKSIZ,
                             !.ibdirty = FALSE, !.dbdirty = FALSE]
  OBVIOUS
<1>6. CallKnown(g)
  <2>1. {"op", "pos"} \subseteq DOMAIN g /\ g.pos \in Nat /\ g.op = IDLE
    BY <1>1, <1>5 DEF CallKnown
  <2> QED BY <2>1, IdleKnown
<1>7. LfsKnown'
  <2>1. DirOK(lf_dir') /\ DirOK(lfdisk'.dir) /\ {"dir", "ib", "db"} \subseteq DOMAIN lfdisk'
    BY <1>3, <1>4
  <2>2. lfltab' = [lfltab EXCEPT ![s] = g]
    BY <1>3, <1>5
  <2> QED BY <1>6, <2>1, <2>2, OneStep
<1>8. ~Clean'
  BY <1>3 DEF Clean
<1> QED BY <1>7, <1>8 DEF LfsInv

(* lflclose, and the step that marks the directory clean.                  *)
LEMMA CloseKeeps ==
  ASSUME LfsInv, NEW s \in Lfl, Lflclose(s)
  PROVE  LfsInv'
<1>1. PICK h : h = lfltab[s] /\ CallKnown(h) /\ h.op = IDLE
  BY DEF LfsInv, LfsKnown, Lflclose, Ready
<1>2. PICK disk : disk = lfflush(lfdisk, h)
  OBVIOUS
<1>3. PICK f : f = [h EXCEPT !.ibdirty = FALSE, !.dbdirty = FALSE]
  OBVIOUS
<1>4. PICK g : g = IF lf_dirdirty THEN [f EXCEPT !.op.call = "close",
                                               !.op.wrote = <<lf_dir, disk.dir>>]
                   ELSE [f EXCEPT !.state = "free"]
  OBVIOUS
<1>5. /\ lfdisk' = disk /\ lfltab' = [lfltab EXCEPT ![s] = g]
      /\ UNCHANGED <<lf_dir, lf_dirpresent, lf_dirdirty, missed>>
  BY <1>1, <1>2, <1>3, <1>4 DEF Lflclose
<1>6. /\ {"dir", "ib", "db"} \subseteq DOMAIN disk
      /\ disk.dir = IF lf_dirdirty THEN lf_dir ELSE lfdisk.dir
  BY <1>2 DEF lfflush
<1>7. CallKnown(g)
  <2>1. {"op", "pos"} \subseteq DOMAIN f /\ f.pos \in Nat /\ f.op = IDLE
    BY <1>1, <1>3 DEF CallKnown
  <2>2. CASE lf_dirdirty
    <3>1. PICK a, w : a = disk.dir /\ w = <<lf_dir, a>>
      OBVIOUS
    <3>2. /\ {"op", "pos"} \subseteq DOMAIN g /\ g.pos \in Nat
          /\ g.op = [IDLE EXCEPT !.call = "close", !.wrote = w]
      BY <1>4, <2>1, <2>2, <3>1
    <3>3. {"call", "ch", "wrote"} \subseteq DOMAIN g.op /\ g.op.wrote = w
      BY <3>2 DEF IDLE
    <3>4. SameDir(w[1], w[2])
      <4>1. w[1] = lf_dir /\ w[2] = lf_dir
        BY <1>6, <2>2, <3>1
      <4>2. SameDir(lf_dir, lf_dir)
        BY SameDirIs
      <4> QED BY <4>1, <4>2
    <3> QED BY <3>2, <3>3, <3>4 DEF CallKnown, WroteOK
  <2>3. CASE ~lf_dirdirty
    <3>1. {"op", "pos"} \subseteq DOMAIN g /\ g.pos \in Nat /\ g.op = IDLE
      BY <1>4, <2>1, <2>3
    <3> QED BY <3>1, IdleKnown
  <2> QED BY <2>2, <2>3
<1>8. /\ LfsKnown'
      /\ lfltab[s].op.wrote = None /\ (\A t \in Lfl : lfltab'[t].op.wrote = None)
         => \A t \in Lfl : lfltab[t].op.wrote = None
  <2>1. DirOK(lf_dir') /\ DirOK(lfdisk'.dir) /\ {"dir", "ib", "db"} \subseteq DOMAIN lfdisk'
    BY <1>5, <1>6 DEF LfsInv, LfsKnown
  <2> QED BY <1>5, <1>7, <2>1, OneStep
<1>9. ASSUME Clean' PROVE SameDir(lfdisk.dir, lf_dir)'
  <2>1. ~lf_dirdirty
    BY <1>5, <1>9 DEF Clean
  <2>2. Clean
    BY <1>1, <1>5, <1>8, <1>9 DEF Clean, Lfl, IDLE
  <2>3. lfdisk'.dir = lfdisk.dir
    BY <1>5, <1>6, <2>1
  <2> QED BY <1>5, <2>2, <2>3 DEF LfsInv
<1> QED BY <1>8, <1>9 DEF LfsInv

LEMMA CloseGoesOnKeeps ==
  ASSUME LfsInv, NEW s \in Lfl, LflcloseGoesOn(s)
  PROVE  LfsInv'
<1>1. PICK f : f = lfltab[s] /\ CallKnown(f) /\ f.op.call = "close"
  BY DEF LfsInv, LfsKnown, LflcloseGoesOn
<1>2. PICK g : g = [f EXCEPT !.state = "free", !.op = IDLE]
  OBVIOUS
<1>3. /\ lfltab' = [lfltab EXCEPT ![s] = g]
      /\ UNCHANGED <<lfdisk, lf_dir, lf_dirpresent>> /\ missed' = Overtaken(f.op.wrote)
  <2>1. lfltab' = [lfltab EXCEPT ![s].state = "free", ![s].op = IDLE]
    BY DEF LflcloseGoesOn
  <2>2. lfltab = [t \in Lfl |-> lfltab[t]]
    BY DEF LfsInv, LfsKnown
  <2>3. lfltab' = [lfltab EXCEPT ![s] = g]
    BY <1>1, <1>2, <2>1, <2>2
  <2> QED BY <1>1, <2>3 DEF LflcloseGoesOn
<1>4. CallKnown(g)
  <2>1. {"op", "pos"} \subseteq DOMAIN g /\ g.pos \in Nat /\ g.op = IDLE
    BY <1>1, <1>2 DEF CallKnown
  <2> QED BY <2>1, IdleKnown
<1>5. LfsKnown'
  <2>1. DirOK(lf_dir') /\ DirOK(lfdisk'.dir) /\ {"dir", "ib", "db"} \subseteq DOMAIN lfdisk'
    BY <1>3 DEF LfsInv, LfsKnown
  <2> QED BY <1>3, <1>4, <2>1, OneStep
<1>6. ASSUME Clean' PROVE SameDir(lfdisk.dir, lf_dir)'
  <2>1. ~missed'
    BY <1>6 DEF Clean
  <2>2. SameDir(f.op.wrote[1], lf_dir) /\ SameDir(f.op.wrote[2], lfdisk.dir)
    BY <1>3, <2>1 DEF Overtaken
  <2>3. SameDir(f.op.wrote[1], f.op.wrote[2])
    BY <1>1 DEF CallKnown, WroteOK
  <2>4. SameDir(lfdisk.dir, lf_dir)
    BY <2>2, <2>3, SameDirIs
  <2> QED BY <1>3, <2>4
<1> QED BY <1>5, <1>6 DEF LfsInv

LEMMA NoFiles == FilesOK(<<>>)
<1>1. PICK fs, S : fs = <<>> /\ S = {} /\ fs \in Seq(S)
  <2>1. PICK S : S = {}
    OBVIOUS
  <2>2. <<>> \in Seq(S)
    OBVIOUS
  <2>3. PICK fs : fs = <<>>
    OBVIOUS
  <2>4. fs \in Seq(S)
    BY <2>2, <2>3
  <2> QED BY <2>1, <2>3, <2>4, Zenon
<1>2. \A e \in S : DirEntry(e)
  BY <1>1
<1> QED BY <1>1, <1>2, Zenon DEF FilesOK

(* A new file system is laid out only while none is present.               *)
LEMMA LayoutKnown ==
  ASSUME NEW n \in Nat, NEW m \in Nat, NEW id
  PROVE  /\ DirOK(Layout(n, m, id).dir)
         /\ {"dir", "ib", "db"} \subseteq DOMAIN Layout(n, m, id)
<1>1. PICK d : d = Layout(n, m, id).dir
  OBVIOUS
<1>2. /\ {"files", "ifree", "dfree"} \subseteq DOMAIN d /\ d.files = <<>>
      /\ {"dir", "ib", "db"} \subseteq DOMAIN Layout(n, m, id)
  BY <1>1 DEF Layout
<1> QED BY <1>1, <1>2, NoFiles DEF DirOK

LEMMA CreateKeeps ==
  ASSUME LfsInv, NEW n \in Nat, NEW m \in Nat, Lfscreate(n, m)
  PROVE  LfsInv'
<1>1. DirOK(lfdisk'.dir) /\ {"dir", "ib", "db"} \subseteq DOMAIN lfdisk'
  BY LayoutKnown DEF Lfscreate
<1>2. UNCHANGED <<lf_dir, lf_dirpresent, lfltab>> /\ ~lf_dirpresent
  BY DEF Lfscreate
<1>3. LfsKnown'
  BY <1>1, <1>2 DEF LfsInv, LfsKnown
<1>4. ~Clean'
  BY <1>2 DEF Clean
<1> QED BY <1>3, <1>4 DEF LfsInv

LEMMA LocalInit ==
  ASSUME LfsInit, LflInit, NEW n \in Nat, NEW m \in Nat, NEW id, lfdisk = Layout(n, m, id)
  PROVE  LfsInv
<1>1. DirOK(lfdisk.dir) /\ {"dir", "ib", "db"} \subseteq DOMAIN lfdisk
  BY LayoutKnown
<1>2. DirOK(lf_dir)
  BY NoFiles DEF LfsInit, DirOK
<1>3. lfltab = [s \in Lfl |-> lfltab[s]]
  BY DEF LflInit
<1>4. ASSUME NEW s \in Lfl PROVE CallKnown(lfltab[s])
  <2>1. PICK g : g = lfltab[s]
    OBVIOUS
  <2>2. {"op", "pos"} \subseteq DOMAIN g /\ g.pos \in Nat /\ g.op = IDLE
    BY <2>1 DEF LflInit
  <2> QED BY <2>1, <2>2, IdleKnown
<1>5. ~Clean
  BY DEF LfsInit, Clean
<1> QED BY <1>1, <1>2, <1>3, <1>4, <1>5 DEF LfsInv, LfsKnown

(* A directory that is not marked dirty is on the disk, whoever opens,     *)
(* writes, truncates and closes files at the same time (lfsopen, lfsetup,  *)
(* lfflush, lftruncate and the marks lflputc and lflclose leave).          *)
THEOREM DirectoryIsOnDisk == LocalSpec => []DirectoryOnDisk
<1>1. ASSUME LfsInit, LflInit, NEW n \in Nat, NEW m \in Nat, NEW id, lfdisk = Layout(n, m, id)
      PROVE  LfsInv
  BY <1>1, LocalInit
<1>2. LfsInit /\ LflInit /\ (\E n, m \in Nat, id \in {"xinu", "zeros"} : lfdisk = Layout(n, m, id))
      => LfsInv
  BY <1>1
<1>3. ASSUME LfsInv, LocalNext PROVE LfsInv'
  <2>1. ASSUME NEW p \in Opener, LfsopenGoesOn(p) PROVE LfsInv'
    BY <1>3, <2>1, OpenKeeps
  <2>2. ASSUME NEW p \in Opener, NEW n \in LfName, NEW m \in LfModes, Lfsopen(p, n, m)
        PROVE  LfsInv'
    <3>1. UNCHANGED <<lfdisk, lf_dir, lf_dirpresent, lf_dirdirty, lfltab, missed>>
      BY <2>2 DEF Lfsopen
    <3> QED BY <1>3, <3>1, NothingKnown
  <2>3. ASSUME NEW s \in Lfl, Lflgetc(s) \/ \E ch \in LfByte : Lflputc(s, ch) PROVE LfsInv'
    BY <1>3, <2>3, PutGetKeeps
  <2>4. ASSUME NEW s \in Lfl, LfGoesOn(s) PROVE LfsInv'
    BY <1>3, <2>4, GoesOnKeeps
  <2>5. ASSUME NEW s \in Lfl, NEW k \in Nat, Lflseek(s, k) PROVE LfsInv'
    BY <1>3, <2>5, SeekKeeps
  <2>6. ASSUME NEW s \in Lfl, Lflcontrol(s) PROVE LfsInv'
    BY <1>3, <2>6, ControlKeeps
  <2>7. ASSUME NEW s \in Lfl, Lflclose(s) PROVE LfsInv'
    BY <1>3, <2>7, CloseKeeps
  <2>8. ASSUME NEW s \in Lfl, LflcloseGoesOn(s) PROVE LfsInv'
    BY <1>3, <2>8, CloseGoesOnKeeps
  <2>9. ASSUME Lfsckfmt PROVE LfsInv'
    <3>1. UNCHANGED <<lfdisk, lf_dir, lf_dirpresent, lf_dirdirty, lfltab, missed>>
      BY <2>9 DEF Lfsckfmt
    <3> QED BY <1>3, <3>1, NothingKnown
  <2>10. ASSUME NEW n \in Nat, NEW m \in Nat, Lfscreate(n, m) PROVE LfsInv'
    BY <1>3, <2>10, CreateKeeps
  <2> QED BY <1>3, <2>1, <2>2, <2>3, <2>4, <2>5, <2>6, <2>7, <2>8, <2>9, <2>10 DEF LocalNext
<1>4. ASSUME LfsInv, UNCHANGED lfsvars PROVE LfsInv'
  <2>1. UNCHANGED <<lfdisk, lf_dir, lf_dirpresent, lf_dirdirty, lfltab, missed>>
    BY <1>4 DEF lfsvars
  <2> QED BY <1>4, <2>1, NothingKnown
<1>5. LfsInv => DirectoryOnDisk
  BY DEF LfsInv, Clean, DirectoryOnDisk
<1> QED BY <1>2, <1>3, <1>4, <1>5, PTL DEF LocalSpec
==============================================================================
