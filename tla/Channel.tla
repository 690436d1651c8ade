------------------------------ MODULE Channel ------------------------------
(***************************************************************************)
(* What a table of message ports promises: while a port is open it is a    *)
(* bounded first-in first-out queue of messages; closing or emptying it    *)
(* discards what it held, and a closed port takes and gives nothing.       *)
(***************************************************************************)
EXTENDS Integers, Sequences

CONSTANTS Port, Message, Size

VARIABLES open, size, contents

chanvars == <<open, size, contents>>

ChannelInit ==
  /\ open = [c \in Port |-> FALSE]
  /\ size = [c \in Port |-> 0]
  /\ contents = [c \in Port |-> <<>>]

Open(c, n) ==
  /\ ~open[c]
  /\ open' = [open EXCEPT ![c] = TRUE]
  /\ size' = [size EXCEPT ![c] = n]
  /\ UNCHANGED contents

Put(c, m) ==
  /\ open[c] /\ Len(contents[c]) < size[c]
  /\ contents' = [contents EXCEPT ![c] = Append(@, m)]
  /\ UNCHANGED <<open, size>>

Get(c) ==
  /\ open[c] /\ contents[c] # <<>>
  /\ contents' = [contents EXCEPT ![c] = Tail(@)]
  /\ UNCHANGED <<open, size>>

Close(c) ==
  /\ open[c]
  /\ open' = [open EXCEPT ![c] = FALSE]
  /\ size' = [size EXCEPT ![c] = 0]
  /\ contents' = [contents EXCEPT ![c] = <<>>]

ChannelNext ==
  \E c \in Port :
    \/ \E n \in Size : Open(c, n)
    \/ \E m \in Message : Put(c, m)
    \/ Get(c)
    \/ Close(c)

ChannelSpec == ChannelInit /\ [][ChannelNext]_chanvars
=============================================================================
