-------------------------- MODULE DhcpServerProofs ---------------------------
(***************************************************************************)
(* Proofs about DhcpServer, for any number of clients, any settings, any   *)
(* lease time and any tick rate.                                           *)
(***************************************************************************)
EXTENDS DhcpServer, WellFoundedInduction, TLAPS

-----------------------------------------------------------------------------
(* Arithmetic of the two clocks: s seconds are s * TicksPerSecond ticks.     *)

LEMMA SecondsOf ==
  ASSUME NEW t \in Nat
  PROVE  /\ t \div TicksPerSecond \in Nat
         /\ (t \div TicksPerSecond) * TicksPerSecond <= t
         /\ t <= (t \div TicksPerSecond) * TicksPerSecond + (TicksPerSecond - 1)
  BY TimeAssumption, SMT

LEMMA SecondsMonotonic ==
  ASSUME NEW a \in Nat, NEW b \in Nat, NEW l \in Nat, a - b >= l
  PROVE  a * TicksPerSecond >= b * TicksPerSecond + l * TicksPerSecond
  BY TimeAssumption, SMT

-----------------------------------------------------------------------------
(* The first entry of a set of entries.                                      *)

LEMMA FirstIsMember ==
  ASSUME NEW S, S \subseteq Nat, S # {}
  PROVE  First(S) \in S
<1>1. \E x \in S : \A y \in S : ~(<<y, x>> \in OpToRel(<, Nat))
  BY NatLessThanWellFounded, WFMin
<1>2. PICK x \in S : \A y \in S : ~(y < x)
  BY <1>1 DEF OpToRel
<1>3. \A y \in S : x <= y
  BY <1>2
<1> QED
  BY <1>3 DEF First

-----------------------------------------------------------------------------
(* The inductive invariant.  Before the start there is no pool; afterwards   *)
(* the pool is the one of the settings.  A promised lease that runs is in    *)
(* the table, and the entry's own clock does not run out before it: that is  *)
(* what CheckLeaseTime needs to keep it.                                     *)

PoolInv ==
  IF InUse THEN PoolStart = config.dPoolStart /\ PoolSize = PoolSizeOf(config)
  ELSE PoolStart = 0 /\ PoolSize = 0 /\ granted = {}

EntryOutlasts(g) ==
  g.until - (TicksPerSecond - 1)
    <= IPList[g.index].StartTime * TicksPerSecond + LeaseTimeSec * TicksPerSecond

LeaseInv ==
  \A g \in granted :
     /\ g.until <= now + LeaseTimeSec * TicksPerSecond
     /\ Runs(g) => /\ g.index \in Pool
                   /\ IPList[g.index].Used
                   /\ IPList[g.index].MACAddr = g.mac
                   /\ EntryOutlasts(g)

DhcpInv == DhcpTypeOK /\ PoolInv /\ OneEntryPerClient /\ LeaseInv

LEMMA PoolSizeType ==
  ASSUME NEW c \in Config
  PROVE  /\ c.dPoolStart \in 0..255
         /\ PoolSizeOf(c) \in 0..DHCP_IP_MAX_SIZE
         /\ PoolSizeOf(c) > 0 => c.dPoolStart + PoolSizeOf(c) - 1 <= 254
<1>1. c.dPoolStart \in 0..255 /\ c.dPoolSize \in 1..256
  BY ConfigAssumption DEF DHCP_IP_MAX_SIZE
<1> DEFINE low == c.dPoolStart
           size == c.dPoolSize
           pool == PoolSizeOf(c)
<1>2. pool = IF low + size >= 254 THEN (254 - low) + 1 ELSE size
  BY DEF PoolSizeOf
<1>3. low \in 0..255 /\ size \in 1..256
  BY <1>1
<1> HIDE DEF low, size, pool
<1>4. low \in 0..255 /\ pool \in 0..256 /\ (pool > 0 => low + pool - 1 <= 254)
  <2>1. CASE low + size >= 254
    BY <1>2, <1>3, <2>1
  <2>2. CASE low + size < 254
    BY <1>2, <1>3, <2>2
  <2> QED
    BY <1>3, <2>1, <2>2
<1> QED
  BY <1>4 DEF low, pool, DHCP_IP_MAX_SIZE

\* What FindFreeIP returns: no entry, the client's own one, or a free one if the
\* client has none.
LEMMA FindFreeIPResult ==
  ASSUME DhcpTypeOK, NEW m, FindFreeIP(m) # NoEntry
  PROVE  /\ FindFreeIP(m) \in Pool
         /\ \/ FindFreeIP(m) \in EntriesOf(m.mac)
            \/ EntriesOf(m.mac) = {} /\ FindFreeIP(m) \in FreeEntries
<1>1. Pool \subseteq Nat
  BY DEF Pool
<1>2. EntriesOf(m.mac) \subseteq Pool /\ FreeEntries \subseteq Pool
  BY DEF EntriesOf, FreeEntries
<1>3. EntriesOf(m.mac) # {} => First(EntriesOf(m.mac)) \in EntriesOf(m.mac)
  BY <1>1, <1>2, FirstIsMember
<1>4. FreeEntries # {} => First(FreeEntries) \in FreeEntries
  BY <1>1, <1>2, FirstIsMember
<1> QED
  BY <1>2, <1>3, <1>4 DEF FindFreeIP

-----------------------------------------------------------------------------
LEMMA DhcpInitInv == DhcpInit => DhcpInv
<1> SUFFICES ASSUME DhcpInit PROVE DhcpInv
  OBVIOUS
<1>1. IPList \in [Pool -> Entry]
  BY DEF DhcpInit, FreeEntry, Entry
<1>2. DhcpTypeOK
  <2>1. PoolSize \in 0..DHCP_IP_MAX_SIZE /\ PoolStart \in 0..255
    BY DEF DhcpInit, DHCP_IP_MAX_SIZE
  <2> QED
    BY <1>1, <2>1 DEF DhcpInit, DhcpTypeOK
<1>3. PoolInv /\ OneEntryPerClient /\ LeaseInv
  BY DEF DhcpInit, PoolInv, OneEntryPerClient, LeaseInv, FreeEntry
<1> QED
  BY <1>2, <1>3 DEF DhcpInv

LEMMA ServerStartInv == DhcpInv /\ IP_DHCP_ServerStart => DhcpInv'
<1> SUFFICES ASSUME DhcpInv, IP_DHCP_ServerStart PROVE DhcpInv'
  OBVIOUS
<1> USE DEF IP_DHCP_ServerStart
<1>1. /\ PoolSize' \in 0..DHCP_IP_MAX_SIZE
      /\ PoolStart' \in 0..255
  BY PoolSizeType DEF DhcpInv, DhcpTypeOK
<1>2. Pool' = 0..PoolSizeOf(config) - 1
  BY DEF Pool
<1>3. IPList' \in [Pool' -> Entry] /\ \A i \in Pool' : ~IPList'[i].Used
  BY <1>2 DEF FreeEntry, Entry
<1>4. DhcpTypeOK'
  BY <1>1, <1>3 DEF DhcpInv, DhcpTypeOK
<1>5. PoolInv' /\ OneEntryPerClient' /\ LeaseInv'
  BY <1>3 DEF DhcpInv, PoolInv, OneEntryPerClient, LeaseInv
<1> QED
  BY <1>4, <1>5 DEF DhcpInv

LEMMA ReceiveRequestInv ==
  ASSUME DhcpInv, NEW m \in requests, ReceiveRequest(m)
  PROVE  DhcpInv'
<1> DEFINE i == FindFreeIP(m)
           ticks == LeaseTimeSec * TicksPerSecond
           lease == [mac |-> m.mac, index |-> i, until |-> m.sent + ticks]
<1>1. m \in Request /\ m.mac \in Client /\ m.sent \in Nat /\ m.sent <= now /\ now \in Nat
  BY DEF DhcpInv, DhcpTypeOK, Request
<1>2. Pool' = Pool /\ Pool \subseteq Nat /\ ticks \in Nat
  BY TimeAssumption DEF ReceiveRequest, Pool
<1>3. requests' \subseteq Request /\ \A r \in requests' : r.sent <= now'
  BY DEF ReceiveRequest, DhcpInv, DhcpTypeOK
<1>4. CASE i = NoEntry
  <2>1. UNCHANGED <<InUse, config, PoolStart, PoolSize, IPList, now, granted>>
    BY <1>4 DEF ReceiveRequest, BuildResponseMsg
  <2>2. DhcpTypeOK' /\ PoolInv'
    BY <1>2, <1>3, <2>1 DEF DhcpInv, DhcpTypeOK, PoolInv, ReceiveRequest
  <2>3. OneEntryPerClient' /\ LeaseInv'
    BY <1>2, <2>1 DEF DhcpInv, OneEntryPerClient, LeaseInv, Runs, EntryOutlasts
  <2> QED
    BY <2>2, <2>3 DEF DhcpInv
<1>5. CASE i # NoEntry
  <2> DEFINE entry == [Used |-> TRUE, MACAddr |-> m.mac, StartTime |-> OS_TimeGetSeconds]
  <2>1. /\ i \in Pool
        /\ \/ IPList[i].Used /\ IPList[i].MACAddr = m.mac
           \/ EntriesOf(m.mac) = {} /\ ~IPList[i].Used
    BY <1>5, FindFreeIPResult DEF DhcpInv, EntriesOf, FreeEntries
  <2>2. /\ IPList' = [IPList EXCEPT ![i] = entry]
        /\ granted' \in {granted, granted \cup {lease}}
        /\ UNCHANGED <<InUse, config, PoolStart, PoolSize, now>>
    BY <1>5 DEF ReceiveRequest, BuildResponseMsg, TakeEntry
  <2> HIDE DEF i
  <2>3. OS_TimeGetSeconds \in Nat
    BY <1>1, SecondsOf DEF OS_TimeGetSeconds
  <2>4. entry \in Entry /\ IPList \in [Pool -> Entry]
    BY <1>1, <2>3 DEF Entry, DhcpInv, DhcpTypeOK
  <2>5. IPList' \in [Pool -> Entry] /\ lease \in Lease /\ granted' \subseteq Lease
    BY <1>1, <1>2, <2>1, <2>2, <2>4 DEF Lease, DhcpInv, DhcpTypeOK
  <2>6. /\ IPList'[i] = entry
        /\ \A j \in Pool : j # i => IPList'[j] = IPList[j]
    BY <2>1, <2>2, <2>4
  <2>7. DhcpTypeOK' /\ PoolInv'
    BY <1>2, <1>3, <2>2, <2>5 DEF DhcpInv, DhcpTypeOK, PoolInv, ReceiveRequest
  <2>8. OneEntryPerClient'
    <3>1. \A j \in Pool : j # i => ~(IPList[j].Used /\ IPList[j].MACAddr = m.mac)
      BY <2>1 DEF DhcpInv, OneEntryPerClient, EntriesOf
    <3>2. entry.MACAddr = m.mac
      OBVIOUS
    <3> HIDE DEF entry
    <3>3. SUFFICES ASSUME NEW a \in Pool, NEW b \in Pool,
                          IPList'[a].Used, IPList'[b].Used,
                          IPList'[a].MACAddr = IPList'[b].MACAddr
                   PROVE  a = b
      BY <1>2 DEF OneEntryPerClient
    <3>4. CASE a # i /\ b # i
      BY <2>6, <3>3, <3>4 DEF DhcpInv, OneEntryPerClient
    <3>5. CASE a = i /\ b # i
      BY <2>6, <3>1, <3>2, <3>3, <3>5
    <3>6. CASE a # i /\ b = i
      BY <2>6, <3>1, <3>2, <3>3, <3>6
    <3> QED
      BY <3>4, <3>5, <3>6
  <2>9. \A g \in granted' : g.until <= now + ticks
    BY <1>1, <1>2, <2>2 DEF DhcpInv, LeaseInv
  <2>10. ASSUME NEW g \in granted', Runs(g)
         PROVE  /\ g.index \in Pool
                /\ IPList'[g.index].Used
                /\ IPList'[g.index].MACAddr = g.mac
                /\ g.until - (TicksPerSecond - 1)
                     <= IPList'[g.index].StartTime * TicksPerSecond + ticks
    <3>1. g.until \in Nat /\ g \in Lease
      BY <2>5 DEF Lease
    <3>2. CASE g.index = i
      <4>1. g.mac = m.mac
        BY <2>1, <2>2, <2>10, <3>2 DEF DhcpInv, LeaseInv
      <4>2. now - (TicksPerSecond - 1) <= OS_TimeGetSeconds * TicksPerSecond
        BY <1>1, SecondsOf, TimeAssumption DEF OS_TimeGetSeconds
      <4>3. OS_TimeGetSeconds * TicksPerSecond \in Nat
        BY <2>3, TimeAssumption
      <4>4. g.until - (TicksPerSecond - 1) <= OS_TimeGetSeconds * TicksPerSecond + ticks
        BY <1>1, <1>2, <2>9, <3>1, <4>2, <4>3, TimeAssumption
      <4> QED
        BY <2>1, <2>6, <3>2, <4>1, <4>4
    <3>3. CASE g.index # i
      BY <2>2, <2>6, <2>10, <3>3 DEF DhcpInv, LeaseInv, EntryOutlasts
    <3> QED
      BY <3>2, <3>3
  <2>11. LeaseInv'
    BY <1>2, <2>2, <2>9, <2>10 DEF LeaseInv, EntryOutlasts, Runs
  <2> QED
    BY <2>7, <2>8, <2>11 DEF DhcpInv
<1> QED
  BY <1>4, <1>5

\* CheckLeaseTime frees no entry of a lease that runs.
LEMMA CheckLeaseTimeInv ==
  ASSUME DhcpInv, CheckLeaseTime, place' \in {"recvfrom", "sendto"},
         UNCHANGED <<InUse, config, PoolStart, PoolSize, now, requests, granted>>
  PROVE  DhcpInv'
<1>1. Pool' = Pool /\ IPList \in [Pool -> Entry] /\ now \in Nat
  BY DEF Pool, DhcpInv, DhcpTypeOK
<1>2. \A j \in Pool : IPList'[j] = IF IPList[j].Used /\ LeaseExpired(IPList[j])
                                   THEN FreeEntry ELSE IPList[j]
  BY DEF CheckLeaseTime
<1>3. IPList' \in [Pool -> Entry]
  BY <1>1 DEF CheckLeaseTime, FreeEntry, Entry
<1>4. DhcpTypeOK' /\ PoolInv'
  BY <1>1, <1>3 DEF DhcpInv, DhcpTypeOK, PoolInv
<1>5. OneEntryPerClient'
  BY <1>1, <1>2 DEF DhcpInv, OneEntryPerClient, FreeEntry
<1>6. ASSUME NEW g \in granted, Runs(g)
      PROVE  g.index \in Pool /\ IPList'[g.index] = IPList[g.index]
  <2> DEFINE start == IPList[g.index].StartTime
             sec == OS_TimeGetSeconds
  <2>1. g.index \in Pool /\ EntryOutlasts(g)
    BY <1>6 DEF DhcpInv, LeaseInv
  <2>2. start \in Nat
    BY <1>1, <2>1 DEF Entry
  <2>3. sec \in Nat /\ sec * TicksPerSecond <= now
    BY <1>1, SecondsOf DEF OS_TimeGetSeconds
  <2>4. g.until \in Nat /\ g.until - (TicksPerSecond - 1) > now
    BY <1>6 DEF Runs, DhcpInv, DhcpTypeOK, Lease
  <2>5. now < start * TicksPerSecond + LeaseTimeSec * TicksPerSecond
    <3>1. /\ start * TicksPerSecond \in Nat
          /\ LeaseTimeSec * TicksPerSecond \in Nat
      BY <2>2, TimeAssumption
    <3> HIDE DEF start
    <3>2. g.until - (TicksPerSecond - 1)
            <= start * TicksPerSecond + LeaseTimeSec * TicksPerSecond
      BY <2>1 DEF EntryOutlasts, start
    <3> QED
      BY <1>1, <2>4, <3>1, <3>2, TimeAssumption
  <2>6. ~(sec - start >= LeaseTimeSec)
    <3> SUFFICES ASSUME sec - start >= LeaseTimeSec PROVE FALSE
      OBVIOUS
    <3> HIDE DEF sec, start
    <3>1. sec * TicksPerSecond >= start * TicksPerSecond + LeaseTimeSec * TicksPerSecond
      BY <2>2, <2>3, SecondsMonotonic, TimeAssumption
    <3>2. /\ start * TicksPerSecond \in Nat
          /\ sec * TicksPerSecond \in Nat
          /\ LeaseTimeSec * TicksPerSecond \in Nat
      BY <2>2, <2>3, TimeAssumption
    <3> QED
      BY <1>1, <2>3, <2>5, <3>1, <3>2
  <2> QED
    BY <1>2, <2>1, <2>6 DEF LeaseExpired
<1>7. LeaseInv'
  BY <1>1, <1>6 DEF DhcpInv, LeaseInv, Runs, EntryOutlasts
<1> QED
  BY <1>4, <1>5, <1>7 DEF DhcpInv

LEMMA EnvironmentInv ==
  ASSUME DhcpInv,
         \/ \E m \in requests : Lose(m)
         \/ \E type \in {"DISCOVER", "REQUEST"}, mac \in Client, inSubnet \in BOOLEAN :
              ClientSend(type, mac, inSubnet)
  PROVE  DhcpInv'
<1>1. UNCHANGED <<InUse, config, PoolStart, PoolSize, IPList, place, now, granted>>
  BY DEF Lose, ClientSend
<1>2. requests' \subseteq Request /\ \A r \in requests' : r.sent <= now
  <2>1. CASE \E m \in requests : Lose(m)
    BY <2>1 DEF Lose, DhcpInv, DhcpTypeOK
  <2>2. ASSUME NEW type \in {"DISCOVER", "REQUEST"}, NEW mac \in Client,
               NEW inSubnet \in BOOLEAN, ClientSend(type, mac, inSubnet)
        PROVE  requests' \subseteq Request /\ \A r \in requests' : r.sent <= now
    <3> DEFINE r0 == [type |-> type, mac |-> mac, inSubnet |-> inSubnet, sent |-> now]
    <3>1. r0 \in Request /\ r0.sent <= now
      BY DEF Request, DhcpInv, DhcpTypeOK
    <3>2. requests' = requests \cup {r0}
      BY <2>2 DEF ClientSend
    <3> QED
      BY <3>1, <3>2 DEF DhcpInv, DhcpTypeOK
  <2> QED
    BY <2>1, <2>2
<1>3. DhcpTypeOK' /\ PoolInv' /\ OneEntryPerClient'
  BY <1>1, <1>2 DEF DhcpInv, DhcpTypeOK, PoolInv, OneEntryPerClient, Pool
<1>4. LeaseInv'
  BY <1>1 DEF DhcpInv, LeaseInv, Runs, EntryOutlasts, Pool
<1> QED
  BY <1>3, <1>4 DEF DhcpInv

LEMMA TickInv == ASSUME DhcpInv, Tick PROVE DhcpInv'
<1>1. now \in Nat /\ now' = now + 1 /\ granted' \subseteq granted
  BY DEF Tick, DhcpInv, DhcpTypeOK
<1>2. UNCHANGED <<InUse, config, PoolStart, PoolSize, IPList, place, requests>>
  BY DEF Tick
<1>3. \A m \in requests : m.sent \in Nat
  BY DEF DhcpInv, DhcpTypeOK, Request
<1>4. DhcpTypeOK'
  BY <1>1, <1>2, <1>3 DEF DhcpInv, DhcpTypeOK, Pool
<1>5. PoolInv' /\ OneEntryPerClient'
  BY <1>1, <1>2 DEF DhcpInv, PoolInv, OneEntryPerClient, Pool
<1>6. LeaseTimeSec * TicksPerSecond \in Nat /\ TicksPerSecond \in Nat
  BY TimeAssumption
<1>7. \A g \in granted : g.until \in Nat
  BY DEF DhcpInv, DhcpTypeOK, Lease
<1>8. LeaseInv'
  BY <1>1, <1>2, <1>6, <1>7 DEF DhcpInv, LeaseInv, Runs, EntryOutlasts, Pool
<1> QED
  BY <1>4, <1>5, <1>8 DEF DhcpInv

-----------------------------------------------------------------------------
LEMMA DhcpNextInv == DhcpInv /\ [DhcpNext]_dhcpVars => DhcpInv'
<1> SUFFICES ASSUME DhcpInv, [DhcpNext]_dhcpVars PROVE DhcpInv'
  OBVIOUS
<1>1. CASE IP_DHCP_ServerStart
  BY <1>1, ServerStartInv
<1>2. ASSUME NEW m \in requests, ReceiveRequest(m) PROVE DhcpInv'
  BY <1>2, ReceiveRequestInv
<1>3. CASE ReceiveNothing
  BY <1>3, CheckLeaseTimeInv DEF ReceiveNothing, DhcpInv, DhcpTypeOK
<1>4. CASE SendtoReturns
  BY <1>4, CheckLeaseTimeInv DEF SendtoReturns
<1>5. CASE \/ \E m \in requests : Lose(m)
           \/ \E type \in {"DISCOVER", "REQUEST"}, mac \in Client, inSubnet \in BOOLEAN :
                ClientSend(type, mac, inSubnet)
  BY <1>5, EnvironmentInv
<1>6. CASE Tick
  BY <1>6, TickInv
<1>7. CASE UNCHANGED dhcpVars
  BY <1>7 DEF dhcpVars, DhcpInv, DhcpTypeOK, PoolInv, OneEntryPerClient, LeaseInv,
              Runs, EntryOutlasts, Pool
<1> QED
  BY <1>1, <1>2, <1>3, <1>4, <1>5, <1>6, <1>7 DEF DhcpNext

\* The inductive invariant holds in every state of the server.
THEOREM DhcpInvariant == DhcpSpec => []DhcpInv
  BY DhcpInitInv, DhcpNextInv, PTL DEF DhcpSpec

\* Type correctness of the server.
THEOREM DhcpTypeCorrect == DhcpSpec => []DhcpTypeOK
<1>1. DhcpInv => DhcpTypeOK
  BY DEF DhcpInv
<1> QED
  BY <1>1, DhcpInvariant, PTL

\* The pool of any settings ends before the broadcast address.
THEOREM PoolStaysInHostRange == DhcpSpec => []PoolInHostRange
<1>1. DhcpInv => PoolInHostRange
  BY PoolSizeType DEF DhcpInv, DhcpTypeOK, PoolInv, PoolInHostRange
<1> QED
  BY <1>1, DhcpInvariant, PTL

\* No client ever has two entries.
THEOREM AtMostOneEntry == DhcpSpec => []OneEntryPerClient
<1>1. DhcpInv => OneEntryPerClient
  BY DEF DhcpInv
<1> QED
  BY <1>1, DhcpInvariant, PTL

\* A promised lease stays in the table as long as it runs.
THEOREM LeasesAreRemembered == DhcpSpec => []LeaseRemembered
<1>1. DhcpInv => LeaseRemembered
  BY DEF DhcpInv, LeaseInv, LeaseRemembered
<1> QED
  BY <1>1, DhcpInvariant, PTL

\* No address is promised to two clients at a time.
THEOREM LeasesAreExclusive == DhcpSpec => []LeaseExclusive
<1>1. DhcpInv => LeaseExclusive
  BY DEF DhcpInv, LeaseInv, LeaseExclusive
<1> QED
  BY <1>1, DhcpInvariant, PTL

\* A client that renews a lease that runs gets the same address again.
THEOREM RenewalsKeepTheirAddress == DhcpSpec => RenewalKeepsAddress
<1>1. ASSUME DhcpInv, NEW m \in requests, NEW g \in granted, ReceiveRequest(m),
             Runs(g), g.mac = m.mac, m.type = "REQUEST", m.inSubnet
      PROVE  [mac |-> m.mac, index |-> g.index,
              until |-> m.sent + LeaseTimeSec * TicksPerSecond] \in granted'
  <2>1. g.index \in EntriesOf(m.mac)
    BY <1>1 DEF DhcpInv, LeaseInv, EntriesOf
  <2>2. \A j \in EntriesOf(m.mac) : j = g.index
    BY <1>1, <2>1 DEF DhcpInv, OneEntryPerClient, EntriesOf
  <2>3. EntriesOf(m.mac) \subseteq Nat
    BY DEF EntriesOf, Pool
  <2>4. First(EntriesOf(m.mac)) = g.index
    BY <2>1, <2>2, <2>3, FirstIsMember
  <2>5. FindFreeIP(m) = g.index /\ g.index # NoEntry
    BY <1>1, <2>1, <2>3, <2>4, NoEntryAssumption DEF FindFreeIP
  <2> QED
    BY <1>1, <2>5 DEF ReceiveRequest, BuildResponseMsg
<1>2. DhcpInv /\ [DhcpNext]_dhcpVars =>
        [\A m \in requests, g \in granted :
           (ReceiveRequest(m) /\ Runs(g) /\ g.mac = m.mac /\ m.type = "REQUEST" /\ m.inSubnet)
             => [mac |-> m.mac, index |-> g.index,
                 until |-> m.sent + LeaseTimeSec * TicksPerSecond] \in granted']_dhcpVars
  BY <1>1
<1> QED
  BY <1>2, DhcpInvariant, PTL DEF DhcpSpec, RenewalKeepsAddress
=============================================================================
