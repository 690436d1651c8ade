------------------------------- MODULE MCNet -------------------------------
(***************************************************************************)
(* Finite instances of the network's parts.  `scenario' chooses the part   *)
(* that moves in a behaviour: they are joined only by what each assumes of *)
(* the next, a resolver of its caller, a client of UDP.                    *)
(***************************************************************************)
EXTENDS Arp, Stack, Ethernet, Tftp, Dhcp, TLC

VARIABLE scenario

parts == <<arpvars, svars, ethvars, tftpvars, dvars>>

MCInit ==
  /\ ArpInit /\ StackInit /\ EthInit /\ TftpInit /\ DhcpInit
  /\ scenario \in {"arp", "udp", "icmp", "rx", "tx", "tftp", "dhcp"}
  /\ scenario # "tftp" => \A c \in Capacities : tftp.room <= c

Packet(k, src, dst) == [kind |-> k, src |-> src, dst |-> dst, ident |-> 0, valid |-> TRUE]

MCPackets ==
  IF scenario = "udp"
  THEN {Packet("udp", "peer", "self"), Packet("udp", "stranger", "other"),
        [Packet("udp", "peer", "self") EXCEPT !.valid = FALSE]}
  ELSE {Packet("echorequest", "peer", "self"), Packet("echoreply", "peer", "IP_BCAST")}

MCSends ==
  IF scenario = "udp"
  THEN {Packet("udp", "self", d) : d \in {"self", "noroute", "host"}}
  ELSE {Packet("echorequest", "self", "self")}

MCNext ==
  /\ UNCHANGED scenario
  /\ \/ scenario = "arp" /\ ArpNext /\ UNCHANGED <<svars, ethvars, tftpvars, dvars>>
     \/ /\ scenario \in {"udp", "icmp"}
        /\ StackNext(MCPackets, MCSends)
        /\ tab'[IF scenario = "udp" THEN "icmp" ELSE "udp"] =
             tab[IF scenario = "udp" THEN "icmp" ELSE "udp"]
        /\ UNCHANGED <<arpvars, ethvars, tftpvars, dvars>>
     \/ /\ \/ scenario = "rx" /\ (RxNext \/ Ethhandler)
           \/ scenario = "tx" /\ (TxNext \/ Ethhandler)
        /\ UNCHANGED <<arpvars, svars, tftpvars, dvars>>
     \/ scenario = "tftp" /\ TftpNext /\ UNCHANGED <<arpvars, svars, ethvars, dvars>>
     \/ scenario = "dhcp" /\ DhcpNext /\ UNCHANGED <<arpvars, svars, ethvars, tftpvars>>

MCSpec == MCInit /\ [][MCNext]_<<parts, scenario>>

MCNameServer == [a1 |-> "ns", a2 |-> "zero"]
MCOffers     == {Offer("a1", TRUE), Offer("a2", TRUE), Offer("a2", FALSE)}
MCLonger     == [xu |-> {"xu", "xu.edu"}] @@ ("xu.edu" :> {"xu.edu"})

(* The processes of the different parts are the same model values.         *)
Symm == Permutations(Resolver) \cup Permutations(Host)
=============================================================================
