----------------------------- MODULE DhcpServer ------------------------------
(***************************************************************************)
(* The DHCP server of TinyONE (ipapi/src/ip_dhcpserver.c): one task that   *)
(* receives a message or times out, answers it, and then frees the leases  *)
(* that have run out.  The lease table IPList is its only memory.          *)
(*                                                                         *)
(* Clients and network are external: requests may be lost, duplicated,     *)
(* delayed and reordered.  A client counts its lease from the moment it    *)
(* sent the request that was acknowledged (RFC 2131, 4.4.1), in ticks; the *)
(* server counts it in whole seconds.                                      *)
(***************************************************************************)
EXTENDS Integers, FiniteSets

CONSTANTS
  Client,         \* the Ethernet addresses of the clients
  Config,         \* the settings a user may have stored: records of
                  \* dPoolStart (its low byte), dPoolSize
  LeaseTimeSec,   \* the address lease time, in seconds
  TicksPerSecond, \* OS_TICKS_PER_SECOND
  MaxTime,        \* bound: ticks of a behaviour
  MaxInFlight,    \* bound: requests in the network
  NoEntry         \* stands for the address 0 of a refused request

DHCP_IP_MAX_SIZE == 256

ASSUME ConfigAssumption ==
  Config \subseteq [dPoolStart : 0..255, dPoolSize : 1..DHCP_IP_MAX_SIZE]
ASSUME TimeAssumption ==
  /\ LeaseTimeSec \in Nat
  /\ TicksPerSecond \in Nat \ {0}
  /\ MaxTime \in Nat /\ MaxInFlight \in Nat
ASSUME NoEntryAssumption == NoEntry \notin Nat \cup Client

VARIABLES
  InUse,     \* Server.InUse
  config,    \* the settings in the NVM
  PoolStart, \* Server.PoolStart, its low byte
  PoolSize,  \* Server.PoolSize
  IPList,    \* the entries of the lease table the server uses, the first PoolSize;
             \* entry i is for the address PoolStart + i
  place,     \* the blocking call the task is in: "recvfrom" or "sendto"
  now,       \* dSystemTick
  requests,  \* the requests in the network
  granted    \* the acknowledged leases that have not run out, as their clients see them

dhcpVars == <<InUse, config, PoolStart, PoolSize, IPList, place, now, requests, granted>>

\* Only the subnet of the address a client requests matters.
Request == [type : {"DISCOVER", "REQUEST"}, mac : Client, inSubnet : BOOLEAN, sent : Nat]
Entry == [Used : BOOLEAN, MACAddr : Client \cup {NoEntry}, StartTime : Nat]
Lease == [mac : Client, index : Nat, until : Nat]
Pool == 0..PoolSize - 1

OS_TimeGetSeconds == now \div TicksPerSecond

-----------------------------------------------------------------------------
FreeEntry == [Used |-> FALSE, MACAddr |-> NoEntry, StartTime |-> 0]

DhcpInit ==
  /\ InUse = FALSE
  /\ config \in Config
  /\ PoolStart = 0 /\ PoolSize = 0
  /\ IPList = [i \in Pool |-> FreeEntry]
  /\ place = "recvfrom"
  /\ now = 0
  /\ requests = {}
  /\ granted = {}

\* Mutations of PoolSizeOf: the pool is not cut at the end of the subnet; its
\* last address is not counted.
PoolSizeUncut(c) == c.dPoolSize
PoolSizeExclusive(c) ==
  IF c.dPoolStart + c.dPoolSize >= 254 THEN 254 - c.dPoolStart ELSE c.dPoolSize

\* The last address of a pool is at most x.x.x.254.
PoolSizeOf(c) ==
  IF c.dPoolStart + c.dPoolSize >= 254 THEN (254 - c.dPoolStart) + 1 ELSE c.dPoolSize

IP_DHCP_ServerStart ==
  /\ ~InUse
  /\ InUse' = TRUE
  /\ PoolStart' = config.dPoolStart
  /\ PoolSize' = PoolSizeOf(config)
  /\ IPList' = [i \in 0..PoolSizeOf(config) - 1 |-> FreeEntry]
  /\ UNCHANGED <<config, place, now, requests, granted>>

-----------------------------------------------------------------------------
First(S) == CHOOSE i \in S : \A j \in S : i <= j

EntriesOf(mac) == {i \in Pool : IPList[i].Used /\ IPList[i].MACAddr = mac}
FreeEntries == {i \in Pool : ~IPList[i].Used}

\* Mutation of FindFreeIP: the client's own entry is not looked for.
FindFreeIPAlwaysNew(m) ==
  IF m.type = "REQUEST" /\ ~m.inSubnet THEN NoEntry
  ELSE IF FreeEntries # {} THEN First(FreeEntries)
  ELSE NoEntry

\* The client's own entry, else the first free one.  The requested address only
\* decides whether a REQUEST is refused.
FindFreeIP(m) ==
  IF m.type = "REQUEST" /\ ~m.inSubnet THEN NoEntry
  ELSE IF EntriesOf(m.mac) # {} THEN First(EntriesOf(m.mac))
  ELSE IF FreeEntries # {} THEN First(FreeEntries)
  ELSE NoEntry

\* Mutation of TakeEntry: the lease of a known client is not extended.
TakeEntryKeepStart(m, i) ==
  IPList' = [IPList EXCEPT ![i] =
               IF @.Used THEN @
               ELSE [Used |-> TRUE, MACAddr |-> m.mac, StartTime |-> OS_TimeGetSeconds]]

\* A DISCOVER occupies its entry for a whole lease, like a REQUEST.
TakeEntry(m, i) ==
  IPList' = [IPList EXCEPT ![i] =
               [Used |-> TRUE, MACAddr |-> m.mac, StartTime |-> OS_TimeGetSeconds]]

\* An ACK promises the address; an OFFER or a NAK promises nothing.
BuildResponseMsg(m) ==
  LET i == FindFreeIP(m)
  IN  IF i = NoEntry THEN UNCHANGED <<IPList, granted>>
      ELSE /\ TakeEntry(m, i)
           /\ granted' = IF m.type = "DISCOVER" THEN granted
                         ELSE granted \cup {[mac |-> m.mac, index |-> i,
                                until |-> m.sent + LeaseTimeSec * TicksPerSecond]}

\* recvfrom returns the request m, whose answer goes to sendto.  Another copy of
\* m may still be under way.
ReceiveRequest(m) ==
  /\ InUse /\ place = "recvfrom"
  /\ m \in requests
  /\ requests' \in {requests, requests \ {m}}
  /\ BuildResponseMsg(m)
  /\ place' = "sendto"
  /\ UNCHANGED <<InUse, config, PoolStart, PoolSize, now>>

\* Mutation of LeaseExpired: one second early.
LeaseExpiredEarly(e) == OS_TimeGetSeconds - e.StartTime >= LeaseTimeSec - 1

\* OS_TEST_TIMEOUT(Actual, StartTime, LeaseTimeSec)
LeaseExpired(e) == OS_TimeGetSeconds - e.StartTime >= LeaseTimeSec

CheckLeaseTime ==
  IPList' = [i \in Pool |-> IF IPList[i].Used /\ LeaseExpired(IPList[i])
                            THEN FreeEntry ELSE IPList[i]]

\* recvfrom timed out, or returned a frame the server does not answer.
ReceiveNothing ==
  /\ InUse /\ place = "recvfrom"
  /\ CheckLeaseTime
  /\ UNCHANGED <<InUse, config, PoolStart, PoolSize, place, now, requests, granted>>

\* Mutation of SendtoReturns: leases are only checked when nothing is received.
SendtoReturnsNoCheck ==
  /\ place = "sendto"
  /\ place' = "recvfrom"
  /\ UNCHANGED <<InUse, config, PoolStart, PoolSize, IPList, now, requests, granted>>

SendtoReturns ==
  /\ place = "sendto"
  /\ place' = "recvfrom"
  /\ CheckLeaseTime
  /\ UNCHANGED <<InUse, config, PoolStart, PoolSize, now, requests, granted>>

-----------------------------------------------------------------------------
\* The network and the clients.
ClientSend(type, mac, inSubnet) ==
  /\ type = "DISCOVER" => inSubnet    \* a DISCOVER is not checked
  /\ Cardinality(requests) < MaxInFlight
  /\ requests' = requests \cup
       {[type |-> type, mac |-> mac, inSubnet |-> inSubnet, sent |-> now]}
  /\ UNCHANGED <<InUse, config, PoolStart, PoolSize, IPList, place, now, granted>>

Lose(m) ==
  /\ m \in requests
  /\ requests' = requests \ {m}
  /\ UNCHANGED <<InUse, config, PoolStart, PoolSize, IPList, place, now, granted>>

Tick ==
  /\ now < MaxTime
  /\ now' = now + 1
  /\ granted' = {g \in granted : g.until > now + 1}
  /\ UNCHANGED <<InUse, config, PoolStart, PoolSize, IPList, place, requests>>

DhcpNext ==
  \/ IP_DHCP_ServerStart
  \/ \E m \in requests : ReceiveRequest(m) \/ Lose(m)
  \/ ReceiveNothing
  \/ SendtoReturns
  \/ \E type \in {"DISCOVER", "REQUEST"}, mac \in Client, inSubnet \in BOOLEAN :
       ClientSend(type, mac, inSubnet)
  \/ Tick

DhcpSpec == DhcpInit /\ [][DhcpNext]_dhcpVars

\* recvfrom has a timeout of a second and sendto returns; requests may come faster
\* than the timeout for ever.
DhcpFairSpec ==
  /\ DhcpSpec
  /\ WF_dhcpVars(ReceiveNothing \/ \E m \in requests : ReceiveRequest(m))
  /\ WF_dhcpVars(SendtoReturns)

-----------------------------------------------------------------------------
DhcpTypeOK ==
  /\ InUse \in BOOLEAN
  /\ config \in Config
  /\ PoolStart \in 0..255 /\ PoolSize \in 0..DHCP_IP_MAX_SIZE
  /\ IPList \in [Pool -> Entry]
  /\ place \in {"recvfrom", "sendto"}
  /\ now \in Nat
  /\ requests \subseteq Request /\ \A m \in requests : m.sent <= now
  /\ granted \subseteq Lease

\* The pool ends before the broadcast address of its last byte.
PoolInHostRange == PoolSize > 0 => PoolStart + PoolSize - 1 <= 254

\* What the page "Size of pool" asks for is what the server uses.
PoolSizeAsConfigured == InUse => PoolSize <= config.dPoolSize

\* A client has one entry at most, however its messages are repeated.
OneEntryPerClient ==
  \A i, j \in Pool :
    IPList[i].Used /\ IPList[j].Used /\ IPList[i].MACAddr = IPList[j].MACAddr => i = j

\* No address is promised to two clients at a time: at any moment two leases for
\* the same address that still run, as their clients count them, belong to one
\* client.  The server counts whole seconds and may free an address up to one
\* tick less than a second early, so that is taken off each lease.
Runs(g) == g.until - (TicksPerSecond - 1) > now
LeaseExclusive ==
  \A g, h \in granted : Runs(g) /\ Runs(h) /\ g.index = h.index => g.mac = h.mac

\* A lease that runs is in the table, under the address that was acknowledged.
LeaseRemembered ==
  \A g \in granted : Runs(g) =>
     /\ g.index \in Pool
     /\ IPList[g.index].Used
     /\ IPList[g.index].MACAddr = g.mac

\* A client whose lease runs is never refused its renewal and never moved to
\* another address, even if the pool is exhausted and requests overtake each other.
RenewalKeepsAddress ==
  [][\A m \in requests, g \in granted :
       (ReceiveRequest(m) /\ Runs(g) /\ g.mac = m.mac /\ m.type = "REQUEST" /\ m.inSubnet)
         => [mac |-> m.mac, index |-> g.index,
             until |-> m.sent + LeaseTimeSec * TicksPerSecond] \in granted']_dhcpVars

\* Addresses of leases that ran out become free again, although clients may keep
\* the server busy: again and again there is no entry that is overdue.
Overdue(i) == IPList[i].Used /\ LeaseExpired(IPList[i])
ExpiredLeasesAreFreed == []<>(\A i \in Pool : ~Overdue(i))
=============================================================================
