---------------------------- MODULE CommandLine ----------------------------
(***************************************************************************)
(* From a line to the arguments of a command: the lexical analyser         *)
(* (shell/lexan.c), the shell's parsing of its tokens (shell/shell.c), and *)
(* addargs, which copies what is left of them to the command's stack.  A   *)
(* line is a sequence of characters without its newline.                   *)
(***************************************************************************)
EXTENDS Integers, Sequences
LOCAL INSTANCE SequencesExt
LOCAL INSTANCE FiniteSetsExt

CONSTANTS
  SHELL_MAXTOK,   \* tokens in a line
  ShError         \* SYSERR

ASSUME LineAssumption == SHELL_MAXTOK \in Nat \ {0}

NULLCH    == "NULLCH"
SH_BLANKS == {" ", "\t"}
SH_QUOTES == {"'", "\""}
SH_SIGNS  == {"&", "<", ">"}
TOK_OTHER == "other"
NoName    == <<NULLCH>>
-----------------------------------------------------------------------------
(* lexan.  The tokens stand one behind the other in tokbuf, each with its  *)
(* null; tok has their types and where they begin.                         *)
WithToken(lx, typ, text) ==
  [tok    |-> Append(lx.tok, [typ |-> typ, at |-> Len(lx.tokbuf)]),
   tokbuf |-> lx.tokbuf \o text \o <<NULLCH>>]

From(s, i) == SubSeq(s, i, Len(s))

(* The first of the places from 2 on that holds one of chs, or the end.    *)
Stop(p, chs) == Min({i \in 2..Len(p) : p[i] \in chs} \cup {Len(p) + 1})

RECURSIVE Lexed(_, _)
Lexed(line, lx) ==
  LET start == Min({i \in DOMAIN line : line[i] \notin SH_BLANKS} \cup {Len(line) + 1})
      p     == From(line, start)
      ch    == p[1]
      close == Stop(p, {ch})
      stop  == Stop(p, SH_BLANKS \cup SH_QUOTES \cup SH_SIGNS)
  IN  IF line = <<>> THEN lx
      ELSE IF Len(lx.tok) >= SHELL_MAXTOK THEN ShError
      ELSE IF p = <<>> THEN lx
      ELSE IF ch \in SH_SIGNS THEN Lexed(Tail(p), WithToken(lx, ch, <<ch>>))
      ELSE IF ch \in SH_QUOTES
        THEN IF close > Len(p) THEN ShError
             ELSE Lexed(From(p, close + 1), WithToken(lx, TOK_OTHER, SubSeq(p, 2, close - 1)))
      ELSE IF stop <= Len(p) /\ p[stop] \in SH_QUOTES \cup {"<", ">"} THEN ShError
      ELSE Lexed(From(p, stop), WithToken(lx, TOK_OTHER, SubSeq(p, 1, stop - 1)))

Lexan(line) == Lexed(line, [tok |-> <<>>, tokbuf |-> <<>>])

(* The string that begins behind the first n characters of buf.            *)
StringAt(buf, n) ==
  LET rest == From(buf, n + 1)
      nuls == {i \in DOMAIN rest : rest[i] = NULLCH}
  IN  IF nuls = {} THEN ShError ELSE SubSeq(rest, 1, Min(nuls) - 1)
-----------------------------------------------------------------------------
(* shell: what it finds in the tokens, and where it stops at an error.     *)
Type(c, i) == c.tok[i].typ

TakeAmpersand(c) ==
  IF Type(c, c.ntok) # "&" THEN c
  ELSE [c EXCEPT !.ntok = @ - 1, !.tlen = @ - 2, !.backgnd = TRUE]

(* The last two tokens name a file; what is left ends before them.         *)
WithNameShort(c) ==
  [c EXCEPT !.name[Type(c, c.ntok - 1)] = StringAt(c.tokbuf, c.tok[c.ntok].at),
            !.ntok = @ - 2, !.tlen = c.tok[c.ntok - 2].at]
WithName(c) ==
  [c EXCEPT !.name[Type(c, c.ntok - 1)] = StringAt(c.tokbuf, c.tok[c.ntok].at),
            !.ntok = @ - 2, !.tlen = c.tok[c.ntok - 1].at]

TakeRedirection(c) ==
  LET sign == Type(c, c.ntok - 1) IN
  IF c.ntok < 3 \/ c.verdict # "run" THEN c
  ELSE IF sign \notin {"<", ">"} THEN c
  ELSE IF Type(c, c.ntok) # TOK_OTHER \/ c.name[sign] # NoName
    THEN [c EXCEPT !.verdict = "error"]
  ELSE WithName(c)

OnlyOthers(c) ==
  IF c.ntok = 0 \/ \E i \in 1..c.ntok : Type(c, i) # TOK_OTHER
  THEN [c EXCEPT !.verdict = "error"] ELSE c

(* Parse: the command in a line, or that there is an error or nothing.     *)
Parse(line) ==
  LET lx == Lexan(line)
      c  == [tok |-> lx.tok, tokbuf |-> lx.tokbuf, ntok |-> Len(lx.tok),
             tlen |-> Len(lx.tokbuf), backgnd |-> FALSE, verdict |-> "run",
             name |-> [s \in {"<", ">"} |-> NoName]]
  IN  IF line = <<>> THEN [verdict |-> "empty"]
      ELSE IF lx = ShError THEN [verdict |-> "error"]
      ELSE IF lx.tok = <<>> THEN [verdict |-> "empty"]
      ELSE OnlyOthers(TakeRedirection(TakeRedirection(TakeAmpersand(c))))

(* addargs: tlen characters of tokbuf go to the stack, behind a vector of  *)
(* the places in the copy where the arguments begin.                       *)
Addargs(c) ==
  LET argstr == SubSeq(c.tokbuf, 1, c.tlen)
  IN  [i \in 1..c.ntok |-> StringAt(argstr, c.tok[i].at)]
-----------------------------------------------------------------------------
(* What the comment on shell says the syntax is: a name and arguments,     *)
(* either or both redirections, and an ampersand.                          *)
Tails ==
  LET In == <<"<", TOK_OTHER>>
      Out == <<">", TOK_OTHER>>
      redirections == {<<>>, In, Out, In \o Out, Out \o In}
  IN  redirections \cup {Append(r, "&") : r \in redirections}

Spelled(s) == SelectSeq(s, LAMBDA ch : ch \notin SH_BLANKS \cup SH_QUOTES)

(* The tokens of a line spell what is in it and nothing else, in order,    *)
(* and fit into tokbuf; a line is taken for a command exactly if its       *)
(* tokens have the documented syntax, and then the command's process gets  *)
(* as its arguments the tokens before the redirections, and the shell      *)
(* opens the tokens behind < and > (shell.c:38-52).                        *)
ArgsAsTypedIn(line) ==
  LET lx    == Lexan(line)
      c     == Parse(line)
      n     == Len(lx.tok)
      types == [i \in 1..n |-> lx.tok[i].typ]
      texts == [i \in 1..n |-> StringAt(lx.tokbuf, lx.tok[i].at)]
      Syntax(k) == /\ \A i \in 1..k : types[i] = TOK_OTHER
                   /\ SubSeq(types, k + 1, n) \in Tails
      Files(k, sign) == {texts[i + 1] : i \in {j \in (k + 1)..n : types[j] = sign}}
  IN  lx # ShError =>
        /\ Spelled(FlattenSeq(texts)) = Spelled(line)
        /\ Len(lx.tokbuf) <= Len(line) + SHELL_MAXTOK
        /\ c.verdict = "run" <=> \E k \in 1..n : Syntax(k)
        /\ \A k \in 1..n : Syntax(k) =>
             /\ Addargs(c) = SubSeq(texts, 1, k)
             /\ c.backgnd = (types[n] = "&")
             /\ \A sign \in {"<", ">"} :
                  {c.name[sign]} = IF Files(k, sign) = {} THEN {NoName} ELSE Files(k, sign)
=============================================================================
