----------------------------- MODULE AlarmClock -----------------------------
(***************************************************************************)
(* What the sleep queue promises: every client that asked for a delay of d *)
(* ticks is let go by the d-th tick after, neither before nor later.  Only *)
(* an excused client - one that was sent a message or was killed - leaves  *)
(* earlier.                                                                *)
(***************************************************************************)
EXTENDS Integers

CONSTANTS Client, Delay

NotSet == -1

VARIABLES left, excused

alarmVars == <<left, excused>>

Waiting == {c \in Client : left[c] # NotSet}

AlarmInit ==
  /\ left = [c \in Client |-> NotSet]
  /\ excused \in [Client -> BOOLEAN]

Set(c, d) ==
  /\ left[c] = NotSet
  /\ left' = [left EXCEPT ![c] = d]

Ring(c) ==
  /\ left[c] = 0
  /\ left' = [left EXCEPT ![c] = NotSet]

Cancel(c) ==
  /\ c \in Waiting
  /\ excused'[c]
  /\ left' = [left EXCEPT ![c] = NotSet]

(* Time passes for all at once, and only when nobody is due already. *)
Tick ==
  /\ Waiting # {}
  /\ \A c \in Waiting : left[c] > 0
  /\ left' = [c \in Client |-> IF c \in Waiting THEN left[c] - 1 ELSE NotSet]

Excuse == UNCHANGED left

AlarmNext ==
  /\ excused' \in [Client -> BOOLEAN]
  /\ \/ Excuse
     \/ Tick
     \/ \E c \in Client : Ring(c) \/ Cancel(c)
     \/ \E c \in Client, d \in Delay : Set(c, d)

AlarmSpec == AlarmInit /\ [][AlarmNext]_alarmVars
=============================================================================
