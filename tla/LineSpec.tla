------------------------------ MODULE LineSpec ------------------------------
(***************************************************************************)
(* What the input side of a terminal promises: characters typed are read   *)
(* once and in order, those of a line only when the line is complete and   *)
(* as it was edited.  Input is lost only when the buffer is full, or when  *)
(* it follows an end of file.                                              *)
(***************************************************************************)
EXTENDS Sequences, Integers

CONSTANTS Char, Capacity

VARIABLES line,      \* characters that may be read
          edit,      \* the line being typed
          lost,      \* input was overwritten: nothing is promised any more
          ended      \* the last character was an end of file, and may cost the next

lvars == <<line, edit, lost>>

LineInit == line = <<>> /\ edit = <<>> /\ lost = FALSE /\ ended = FALSE

Typed(ch) == edit' = Append(edit, ch) /\ UNCHANGED <<line, lost>>

Erased ==
  /\ edit # <<>>
  /\ edit' = SubSeq(edit, 1, Len(edit) - 1)
  /\ UNCHANGED <<line, lost>>

Discarded == edit' = <<>> /\ UNCHANGED <<line, lost>>

Entered == edit' = <<>> /\ line' = (line \o edit) \o <<"newline">> /\ UNCHANGED lost

(* One more character may be read: the one typed or, if a line was begun   *)
(* before editing was switched off, the first of that line.                *)
Passed(ch) ==
  /\ line' \o edit' = (line \o edit) \o <<ch>>
  /\ Len(line') = Len(line) + 1
  /\ UNCHANGED lost

Read == line # <<>> /\ line' = Tail(line) /\ UNCHANGED <<edit, lost>>

Lost ==
  /\ Len(line \o edit) >= Capacity \/ ended
  /\ lost' = TRUE /\ line' = <<>> /\ edit' = <<>>

LineNext ==
  \/ Passed("eof") \/ Lost
  \/ /\ Erased \/ Discarded \/ Entered \/ Read \/ \E ch \in Char : Typed(ch) \/ Passed(ch)
     /\ ended' => ended

LineIsKept == LineInit /\ [][LineNext]_lvars
=============================================================================
