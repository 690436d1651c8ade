SPECIFICATION MCSpec
CONSTANTS
  Resolver = {p1, p2}
  Host = {h1, h2, h3}
  ARP_SIZ = 2
  ARP_RETRY = 2
  Stray = {"TIMEOUT", "SYSERR", "other"}
  User = {p1, p2}
  Remote = {"self", "peer"}
  UDP_SLOTS = 2
  UDP_QSIZ = 2
  ICMP_SLOTS = 2
  ICMP_QSIZ = 1
  IP_OQSIZ = 1
  Sender = {p1, p2, p3}
  rxRingSize = 6
  txRingSize = 3
  E1000_RING_BOUNDARY = 2
  FileLen = 4
  Transfer = {1, 2}
  TFTP_MAXRETRIES = 2
  Capacities = {3, 4}
  Caller = {p1, p2}
  Address = {"a1", "a2"}
  Offers <- MCOffers
  NameServer <- MCNameServer
  Name = {"xu", "xu.edu"}
  Longer <- MCLonger
  DHCP_RETRY = 2
  DNSRETRY = 2
INVARIANTS
  AnswerOrExcuse
  BuffersConserved
  WaiterOwnsEndpoint
  RingsKept
  TftpOneFile
  ClientsServed
SYMMETRY Symm
