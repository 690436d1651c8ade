----------------------------- MODULE NameSpace -----------------------------
(***************************************************************************)
(* The syntactic name space (device/nam): a table of prefixes, each with a *)
(* replacement and a device, that namopen applies to the names of files.   *)
(* A name is a sequence of characters without its null; its length in the  *)
(* code counts the null.  Interrupts are disabled in mount, and namopen    *)
(* only reads, so that each call is a step.                                *)
(***************************************************************************)
EXTENDS Integers, Sequences
LOCAL INSTANCE SequencesExt
LOCAL INSTANCE FiniteSetsExt

CONSTANTS
  Devtab,       \* names and ids of the devices, in the order of devtab
  Lower,        \* lower case of each character
  DevPrefix,    \* "/dev/"
  OtherEntries, \* the other entries naminit mounts: prefix, replacement, device
  NAMESPACE,    \* the device of the name space
  NNAMES, NM_PRELEN, NM_REPLLEN, NM_MAXLEN,
  NmError       \* SYSERR

ASSUME NameAssumption == {NNAMES, NM_PRELEN, NM_REPLLEN, NM_MAXLEN} \subseteq Nat \ {0}

VARIABLES
  nametab,      \* the table; its length is nnames
  nmasked,      \* the name opened last (ghost)
  nmopened      \* what it was mapped to (ghost)

nmvars == <<nametab, nmasked, nmopened>>

Mounted(tab, prefix, replace, device) ==
  IF Len(prefix) < NM_PRELEN /\ Len(replace) < NM_REPLLEN /\ device # NmError
     /\ Len(tab) < NNAMES
  THEN Append(tab, [prefix |-> prefix, replace |-> replace, device |-> device])
  ELSE tab

(* naminit: every device under its name in lower case, then the others.    *)
DevEntries == [i \in DOMAIN Devtab |->
                 <<DevPrefix \o [k \in DOMAIN Devtab[i][1] |-> Lower[Devtab[i][1][k]]],
                   <<>>, Devtab[i][2]>>]
naminit == FoldLeft(LAMBDA tab, e : Mounted(tab, e[1], e[2], e[3]), <<>>,
                    DevEntries \o OtherEntries)

NamInit == nametab = naminit /\ nmasked = NmError /\ nmopened = NmError

(* A length that is kept in a char.                                        *)
Char(n) == ((n + 128) % 256) - 128

(* The entries whose prefix matches; the first is the one that applies.    *)
Matching(name)    == {i \in DOMAIN nametab : IsPrefix(nametab[i].prefix, name)}
AppliesLast(name) == nametab[Max(Matching(name))]
Applies(name)     == nametab[Min(Matching(name))]

(* namrepl: the name as the entry that applies changes it.  When the rest  *)
(* of the name has no length left, nothing of it is copied, its null       *)
(* neither.                                                                *)
namrepl(name) ==
  LET e        == Applies(name)
      remain   == Char(Len(name) + 1) - Len(e.prefix)
      rest     == SubSeq(name, Len(e.prefix) + 1, Len(e.prefix) + remain - 1)
  IN  IF Matching(name) = {} \/ Len(e.replace) + remain > NM_MAXLEN
      THEN [device |-> NmError, name |-> <<>>, ends |-> TRUE]
      ELSE [device |-> e.device, name |-> e.replace \o rest, ends |-> remain > 0]

(* nammap: again and again while the device is the name space.             *)
nammap(name) ==
  LET last == FoldLeft(LAMBDA r, e : IF r.device = NAMESPACE THEN namrepl(r.name) ELSE r,
                       [device |-> NAMESPACE, name |-> name, ends |-> TRUE], nametab)
  IN  IF Len(name) < NM_MAXLEN /\ last.device # NAMESPACE THEN last
      ELSE [device |-> NmError, name |-> <<>>, ends |-> TRUE]

Mount(prefix, replace, device) ==
  /\ nametab' = Mounted(nametab, prefix, replace, device)
  /\ nmasked' = NmError /\ nmopened' = NmError

Namopen(name) ==
  /\ nmasked' = name /\ nmopened' = nammap(name)
  /\ UNCHANGED nametab
-----------------------------------------------------------------------------
(* The entry that should apply: the longest prefix naminit mounted, since  *)
(* it mounts "longest prefix first" and the empty prefix last.  Entries    *)
(* mounted later are never reached.                                        *)
LongestOf(name) ==
  CHOOSE e \in Range(naminit) :
    /\ IsPrefix(e.prefix, name)
    /\ \A f \in Range(naminit) : IsPrefix(f.prefix, name) => Len(f.prefix) <= Len(e.prefix)

Image(name) == LET e == LongestOf(name)
               IN  <<e.device, e.replace \o SubSeq(name, Len(e.prefix) + 1, Len(name))>>

(* A name is opened on the device, and under the name, that the longest    *)
(* prefix gives it, through any number of detours by way of the name space *)
(* itself, whatever is mounted later.  From 127 characters on (nammap.c:88 *)
(* keeps the length in a char) the device is right but the rest of the     *)
(* name is lost.                                                           *)
NamesMapped ==
  nmasked # NmError =>
    LET last == FoldLeft(LAMBDA r, e : IF r[1] = NAMESPACE THEN Image(r[2]) ELSE r,
                         <<NAMESPACE, nmasked>>, nametab)
        got  == <<nmopened.device, nmopened.name>>
    IN  IF Len(nmasked) <= 126
        THEN nmopened.ends
             /\ got = IF last[1] = NAMESPACE THEN <<NmError, <<>>>> ELSE last
        ELSE \/ got = <<NmError, <<>>>> \/ Image(nmasked)[1] = NAMESPACE
             \/ got = <<Image(nmasked)[1], LongestOf(nmasked).replace>> /\ ~nmopened.ends
=============================================================================
