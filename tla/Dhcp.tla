-------------------------------- MODULE Dhcp --------------------------------
(***************************************************************************)
(* Obtaining an address (net/dhcp.c) and looking up a name (net/dns.c),    *)
(* which begins by obtaining an address: processes that call getlocalip    *)
(* and dnslookup, each call on a UDP endpoint of its own, over a network   *)
(* that loses, repeats and reorders packets.  The servers are external:    *)
(* they may offer what was discovered, grant or refuse what was requested, *)
(* and answer for names that were asked.                                   *)
(***************************************************************************)
EXTENDS Naturals, FiniteSets

CONSTANTS
  Caller,
  Address,            \* what the servers offer, each with a name server or "zero"
  NameServer,         \* Address -> its name server
  Offers,             \* their offers, with the server's identifier or without
  Name, Longer,       \* names, and for each those that begin with it
  DHCP_RETRY, DNSRETRY

ASSUME DhcpAssumption ==
  /\ {DHCP_RETRY, DNSRETRY} \subseteq Nat \ {0}
  /\ "zero" \notin Address
  /\ Offers \subseteq [op : {"offer"}, of : Address, id : BOOLEAN]
  /\ {"free", "abandoned"} \cap Caller = {}
  /\ \A a \in Address :     \* a name server is no kind of message
       NameServer[a] \notin {"dhcp", "discover", "request", "offer", "ack", "nak"}
  /\ Longer \in [Name -> SUBSET Name] /\ \A n \in Name : n \in Longer[n]

VARIABLES
  NetData,            \* our address and name server, "zero" if not known
  endpoint,           \* who has registered (0,67,68) and each name server
  call,               \* what each process is doing, or its last result
  sent, wire          \* messages to servers, and their answers

dvars == <<NetData, endpoint, call, sent, wire>>

Ports == {"dhcp"} \cup ({NameServer[a] : a \in Address} \ {"zero"})

Result(asked, value) == [op |-> "idle", name |-> asked, value |-> value]
Failed == Result("none", "SYSERR")

Discover     == [op |-> "discover", of |-> "none"]
Request(a)   == [op |-> "request", of |-> a]
Query(ns, n) == [op |-> ns, of |-> n]
Offer(a, id) == [op |-> "offer", of |-> a, id |-> id]
Granted(a)   == [op |-> "ack", of |-> a]
Refused      == [op |-> "nak"]
Answer(ns, n) == [op |-> ns, of |-> n]

DhcpInit ==
  /\ NetData = [ipucast |-> "zero", dnsserver |-> "zero"]
  /\ endpoint = [e \in Ports |-> "free"]
  /\ call = [p \in Caller |-> Failed]
  /\ sent = {} /\ wire = {}

(* A call that waits in udp_recv at endpoint e.                            *)
At(p, e) == call[p].op = "recv" /\ call[p].at = e

Finish(p, e, result) ==
  /\ endpoint' = [endpoint EXCEPT ![e] = "free"]
  /\ call' = [call EXCEPT ![p] = result]

(* A return without udp_release: nobody can register there any more.       *)
Abandon(p, e) ==
  /\ endpoint' = [endpoint EXCEPT ![e] = "abandoned"]
  /\ call' = [call EXCEPT ![p] = Failed]
-----------------------------------------------------------------------------
(* getlocalip, by itself (name "none") or on behalf of dnslookup.          *)
Getlocalip(p, name) ==
  /\ call[p].op = "idle"
  /\ \/ /\ endpoint["dhcp"] # "free"
        /\ call' = [call EXCEPT ![p] = Failed]
        /\ UNCHANGED <<endpoint, sent>>
     \/ /\ endpoint["dhcp"] = "free"
        /\ endpoint' = [endpoint EXCEPT !["dhcp"] = p]
        /\ call' = [call EXCEPT ![p] =
             [op |-> "recv", at |-> "dhcp", i |-> 1, j |-> 1, snd |-> Discover, name |-> name]]
        /\ sent' = sent \cup {Discover}
  /\ UNCHANGED <<NetData, wire>>

(* The next of the three receives, or the last message sent once more.     *)
NextTry(p, c) ==
  \/ /\ c.j < 3 /\ call' = [call EXCEPT ![p] = [c EXCEPT !.j = @ + 1]]
     /\ UNCHANGED <<endpoint, sent>>
  \/ /\ c.j = 3 /\ c.i < DHCP_RETRY
     /\ call' = [call EXCEPT ![p] = [c EXCEPT !.j = 1, !.i = @ + 1]]
     /\ sent' = sent \cup {c.snd}
     /\ UNCHANGED endpoint
  \/ /\ c.j = 3 /\ c.i = DHCP_RETRY
     /\ Finish(p, "dhcp", Failed)
     /\ UNCHANGED sent

(* An offer is requested, and the request is what is sent from then on,    *)
(* also after a refusal; each further offer is requested as well.          *)
DhcpOffered(p, m) ==
  LET c == [call[p] EXCEPT !.snd = Request(m.of)] IN
  /\ m.op = "offer" /\ UNCHANGED NetData
  /\ \/ ~m.id /\ Abandon(p, "dhcp") /\ UNCHANGED sent
     \/ /\ m.id
        /\ \/ /\ c.j < 3 \/ c.i < DHCP_RETRY
              /\ sent' = sent \cup {Request(m.of)}
              /\ call' = [call EXCEPT ![p] =
                   IF c.j < 3 THEN [c EXCEPT !.j = @ + 1] ELSE [c EXCEPT !.j = 1, !.i = @ + 1]]
              /\ UNCHANGED endpoint
           \/ /\ c.j = 3 /\ c.i = DHCP_RETRY
              /\ sent' = sent \cup {Request(m.of)}
              /\ Finish(p, "dhcp", Failed)

(* What dnslookup does after getlocalip: a query to the name server that   *)
(* is known now, on an endpoint that it registers.                         *)
Lookup(p, name, ns) ==
  \/ /\ ns \in {"zero"} \cup {e \in Ports : endpoint[e] # "free"}
     /\ Finish(p, "dhcp", Failed) /\ UNCHANGED sent
  \/ /\ ns # "zero" /\ endpoint[ns] = "free"
     /\ endpoint' = [endpoint EXCEPT !["dhcp"] = "free", ![ns] = p]
     /\ sent' = sent \cup {Query(ns, name)}
     /\ call' = [call EXCEPT ![p] = [op |-> "recv", at |-> ns, i |-> 1, name |-> name]]

DhcpGranted(p, m) ==
  LET ns == IF NameServer[m.of] = "zero" THEN NetData.dnsserver ELSE NameServer[m.of] IN
  /\ m.op = "ack"
  /\ NetData' = [ipucast |-> m.of, dnsserver |-> ns]
  /\ \/ call[p].name = "none" /\ Finish(p, "dhcp", Result("none", m.of)) /\ UNCHANGED sent
     \/ call[p].name # "none" /\ Lookup(p, call[p].name, ns)

DhcpReceives(p, m) ==
  /\ UNCHANGED wire
  /\ \/ DhcpOffered(p, m)
     \/ DhcpGranted(p, m)
     \/ m.op = "nak" /\ NextTry(p, call[p]) /\ UNCHANGED NetData

DhcpTimeout(p) ==
  /\ At(p, "dhcp") /\ NextTry(p, call[p])
  /\ UNCHANGED <<NetData, wire>>
-----------------------------------------------------------------------------
(* dnslookup, when udp_recv returns.  The identification of an answer is   *)
(* not compared, and its name only as far as the one asked for goes.       *)
DnsAgain(p) ==
  LET c == call[p] IN
  \/ /\ c.i < DNSRETRY
     /\ call' = [call EXCEPT ![p].i = @ + 1]
     /\ sent' = sent \cup {Query(c.at, c.name)}
     /\ UNCHANGED endpoint
  \/ c.i = DNSRETRY /\ Finish(p, c.at, Failed) /\ UNCHANGED sent

DnsTakesAny(p, m) == Finish(p, call[p].at, Result(call[p].name, m.of)) /\ UNCHANGED sent

DnsGeta(p, m) ==
  \/ m.of \in Longer[call[p].name] /\ Finish(p, call[p].at, Result(call[p].name, m.of)) /\ UNCHANGED sent
  \/ m.of \notin Longer[call[p].name] /\ DnsAgain(p)

DnsReceives(p, m) ==
  /\ m.op = call[p].at /\ DnsGeta(p, m)
  /\ UNCHANGED <<NetData, wire>>

DnsTimeout(p) ==
  /\ call[p].op = "recv" /\ call[p].at # "dhcp" /\ DnsAgain(p)
  /\ UNCHANGED <<NetData, wire>>

(* A message from elsewhere makes udp_recv return SYSERR, which dnslookup  *)
(* takes for a timeout; a killed process releases nothing.                 *)
Interrupted(p) ==
  /\ call[p].op = "recv" /\ UNCHANGED <<NetData, sent, wire>>
  /\ Abandon(p, call[p].at)
-----------------------------------------------------------------------------
(* The servers.                                                            *)
Serves(m) == wire' = wire \cup {m} /\ UNCHANGED <<NetData, endpoint, call, sent>>

DhcpServer ==
  \/ Discover \in sent /\ \E m \in Offers : Serves(m)
  \/ \E a \in Address : Request(a) \in sent /\ (Serves(Granted(a)) \/ Serves(Refused))

DnsServer ==
  \E ns \in Ports \ {"dhcp"}, n \in Name : Query(ns, n) \in sent /\ Serves(Answer(ns, n))

DhcpNext ==
  \/ \E p \in Caller :
       \/ \E name \in Name \cup {"none"} : Getlocalip(p, name)
       \/ At(p, "dhcp") /\ \E m \in wire : DhcpReceives(p, m)
       \/ DhcpTimeout(p) \/ DnsTimeout(p) \/ Interrupted(p)
       \/ \E m \in wire : call[p].op = "recv" /\ DnsReceives(p, m)
  \/ DhcpServer \/ DnsServer

DhcpSpec == DhcpInit /\ [][DhcpNext]_dvars
-----------------------------------------------------------------------------
(* An endpoint belongs to the one call that waits there, or was abandoned; *)
(* so two calls never take each other's packets, and one that ran out of   *)
(* tries leaves the endpoint to the next.                                  *)
EndpointKept ==
  \A e \in Ports :
    /\ endpoint[e] \in Caller => At(endpoint[e], e)
    /\ \A p \in Caller : At(p, e) => endpoint[e] = p

(* The address in use was granted to a request of this machine, though     *)
(* perhaps to another call; what dnslookup returns is the address of a     *)
(* name that was asked and begins with the one given.                      *)
AnswersAsked ==
  /\ NetData.ipucast # "zero" =>
       Granted(NetData.ipucast) \in wire /\ Request(NetData.ipucast) \in sent
  /\ \A p \in Caller :
       call[p].op = "idle" /\ call[p].name # "none" =>
         /\ call[p].value \in Longer[call[p].name]
         /\ \E ns \in Ports : Query(ns, call[p].value) \in sent

(* Whatever is lost, repeated, late or refused on the way, both: calls     *)
(* keep their endpoints, and return what was asked.                        *)
ClientsServed == EndpointKept /\ AnswersAsked
=============================================================================
