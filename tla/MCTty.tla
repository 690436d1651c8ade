------------------------------- MODULE MCTty -------------------------------
(***************************************************************************)
(* A finite instance of Tty.  The two halves of the driver share only the  *)
(* flags of echo and flow control; so each behaviour has processes of one  *)
(* kind, which `scenario' chooses.                                         *)
(***************************************************************************)
EXTENDS Tty

CONSTANT Looker   \* readers that only look ahead

MCTexts == {<<"newline">>}

VARIABLE scenario

mcvars == <<vars, scenario>>

MCInit == Init /\ scenario \in {"readers", "writers"}

(* Characters that concern the input ring, once echo is switched off and   *)
(* while the UART has nothing to send, and those that concern output.      *)
Types(ch) ==
  \/ /\ scenario = "readers" /\ ~tyiecho /\ ~uart.busy /\ ~uart.thre
     /\ IF tyimode = "cooked" THEN ch \notin {"stop", "start"}
                              ELSE ch \in {"x", "newline"}
  \/ scenario = "writers" /\ ch \in {"stop", "start", "kill", "erase", "x"}

MCNext ==
  /\ \/ Drain \/ Ttyhandle_out
     \/ \E ch \in Typable : Types(ch) /\ Ttyhandle_in(ch)
     \/ /\ scenario = "readers"
        /\ \/ Ttycontrol /\ ~tyiecho'
           \/ \E p \in Reader \ Looker :
                Ttygetc(p) \/ TtygetcResumes(p) \/ \E n \in Counts : Ttyread(p, n)
           \/ \E p \in Looker : TcNextc(p) \/ TcNextcResumes(p)
     \/ /\ scenario = "writers"
        /\ \E p \in Writer :
             \/ \E t \in Texts : Ttywrite(p, t)
             \/ Ttyputc(p) \/ TtyputcResumes(p)
  /\ UNCHANGED scenario

MCSpec == MCInit /\ [][MCNext]_mcvars /\ WF_vars(Drain) /\ WF_vars(Ttyhandle_out)
=============================================================================
