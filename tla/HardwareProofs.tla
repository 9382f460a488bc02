--------------------------- MODULE HardwareProofs ---------------------------
(***************************************************************************)
(* Theorems about the health scores, for every reading and every state of  *)
(* the security features, and about the collections of Hardware.           *)
(***************************************************************************)
EXTENDS Hardware, NumberTheorems, TLAPS

-----------------------------------------------------------------------------
(***************************************************************************)
(* The scores.                                                             *)
(***************************************************************************)

\* A share of a total is a percentage.
LEMMA Quotient ==
    ASSUME NEW a \in Nat, NEW b \in Nat, b # 0, a <= 100 * b
    PROVE  a \div b \in 0..100
  OBVIOUS

LEMMA PercentRange ==
    ASSUME NEW used \in Nat, NEW total \in Nat, used <= total
    PROVE  Percent(used, total) \in -1..100
  <1>1. CASE total = 0
    BY <1>1 DEF Percent
  <1>2. CASE total # 0
    <2>1. 100 * used \in Nat /\ 100 * used <= 100 * total
      OBVIOUS
    <2>2. (100 * used) \div total \in 0..100
      BY <1>2, <2>1, Quotient
    <2> QED
      BY <1>2, <2>2 DEF Percent
  <1> QED
    BY <1>1, <1>2

LEMMA UsageScore ==
    /\ \A v \in Int : usageScore(v) \in 0..100
    /\ \A v, w \in 0..100 : v <= w => usageScore(w) <= usageScore(v)
  BY DEF usageScore

LEMMA LatencyScore ==
    /\ \A v \in Int : latencyScore(v) \in 10..100
    /\ \A v, w \in Nat : v <= w => latencyScore(w) <= latencyScore(v)
  <1>1. \A v \in Nat : latencyScore(v) = IF v <= 200 THEN 100 ELSE
                         IF v <= 500 THEN 70 ELSE IF v <= 1000 THEN 40 ELSE 10
    BY DEF latencyScore
  <1>2. \A v \in Int : v < 0 => latencyScore(v) = 50
    BY DEF latencyScore
  <1>3. \A v \in Int : latencyScore(v) \in 10..100
    BY <1>1, <1>2
  <1>4. \A v, w \in Nat : v <= w => latencyScore(w) <= latencyScore(v)
    BY <1>1
  <1> QED
    BY <1>3, <1>4

LEMMA OtherScores ==
    /\ \A status : heartbeatScore(status) \in {0, 50, 100}
    /\ \A state : securityScore(state) \in {0, 50, 100}
  BY DEF heartbeatScore, securityScore

LEMMA ProtectionScore == \A security : protectionScore(security) \in 0..400
  <1> SUFFICES ASSUME NEW security PROVE protectionScore(security) \in 0..400
    OBVIOUS
  <1>1. /\ securityScore(security.tpm) \in {0, 50, 100}
        /\ securityScore(security.bitlocker) \in {0, 50, 100}
        /\ securityScore(security.defender) \in {0, 50, 100}
        /\ securityScore(security.firewall) \in {0, 50, 100}
    BY OtherScores
  <1> QED
    BY <1>1 DEF protectionScore

\* The weighted sum is a percentage (400 times), and grows with every score.
LEMMA OverallRange ==
    ASSUME NEW c \in 0..100, NEW m \in 0..100, NEW d \in 0..100,
           NEW h \in 0..100, NEW l \in 0..100, NEW p \in 0..400
    PROVE  /\ overallScore(c, m, d, h, l, p) \in Nat
           /\ overallScore(c, m, d, h, l, p) <= 100 * 400
  <1>1. overallScore(c, m, d, h, l, p) \in Nat
    BY DEF overallScore
  <1>2. overallScore(c, m, d, h, l, p) <= 100 * 400
    BY DEF overallScore
  <1> QED
    BY <1>1, <1>2

LEMMA OverallGrows ==
    ASSUME NEW c1 \in 0..100, NEW m1 \in 0..100, NEW d1 \in 0..100,
           NEW h1 \in 0..100, NEW l1 \in 0..100,
           NEW c2 \in 0..100, NEW m2 \in 0..100, NEW d2 \in 0..100,
           NEW h2 \in 0..100, NEW l2 \in 0..100, NEW p \in 0..400,
           c2 <= c1, m2 <= m1, d2 <= d1, h2 <= h1, l2 <= l1
    PROVE  overallScore(c2, m2, d2, h2, l2, p) <= overallScore(c1, m1, d1, h1, l1, p)
  BY DEF overallScore

LEMMA SeverityValues ==
    Severity["Healthy"] = 0 /\ Severity["Warning"] = 1 /\ Severity["Critical"] = 2
  BY DEF Severity

LEMMA StatusFalls ==
    ASSUME NEW o1 \in Nat, NEW o2 \in Nat, o2 <= o1
    PROVE  Severity[overallStatus(o2)] >= Severity[overallStatus(o1)]
  BY SeverityValues DEF overallStatus

\* The parts of an assessment.
LEMMA Assessment ==
    ASSUME NEW cpu \in Int, NEW memory \in Int, NEW disk \in Int, NEW status,
           NEW latency \in Int, NEW security
    PROVE  LET a == CalculateHealthV2(cpu, memory, disk, status, latency, security)
           IN  /\ a.overall = overallScore(usageScore(cpu), usageScore(memory),
                                usageScore(disk), heartbeatScore(status),
                                latencyScore(latency), protectionScore(security))
               /\ a.status = overallStatus(a.overall)
               /\ a.overall \in Nat /\ a.overall <= 100 * 400
               /\ \A i \in 1..3 : a.usage[i] \in 0..100
  <1> DEFINE a == CalculateHealthV2(cpu, memory, disk, status, latency, security)
             o == overallScore(usageScore(cpu), usageScore(memory), usageScore(disk),
                               heartbeatScore(status), latencyScore(latency),
                               protectionScore(security))
  <1>1. /\ a.overall = o /\ a.status = overallStatus(o)
        /\ a.usage = <<usageScore(cpu), usageScore(memory), usageScore(disk)>>
    BY DEF CalculateHealthV2
  <1>2. /\ usageScore(cpu) \in 0..100 /\ usageScore(memory) \in 0..100
        /\ usageScore(disk) \in 0..100
    BY UsageScore
  <1>3. heartbeatScore(status) \in 0..100
    <2>1. heartbeatScore(status) \in {0, 50, 100}
      BY OtherScores
    <2> QED
      BY <2>1
  <1>4. latencyScore(latency) \in 0..100
    <2>1. latencyScore(latency) \in 10..100
      BY LatencyScore
    <2> QED
      BY <2>1
  <1>5. o \in Nat /\ o <= 100 * 400
    <2>1. protectionScore(security) \in 0..400
      BY ProtectionScore
    <2> QED
      BY <1>2, <1>3, <1>4, <2>1, OverallRange
  <1>6. \A i \in 1..3 : a.usage[i] \in 0..100
    BY <1>1, <1>2
  <1> QED
    BY <1>1, <1>5, <1>6

\* Readings that are known and no better, a heartbeat status and a latency that
\* are no better, and the same security never raise CalculateHealthV2's score
\* nor improve its status.
LEMMA WorseAssessment ==
    ASSUME NEW c1 \in 0..100, NEW m1 \in 0..100, NEW d1 \in 0..100,
           NEW c2 \in 0..100, NEW m2 \in 0..100, NEW d2 \in 0..100,
           c1 <= c2, m1 <= m2, d1 <= d2, NEW s1, NEW s2,
           heartbeatScore(s2) <= heartbeatScore(s1),
           NEW l1 \in Nat, NEW l2 \in Nat, l1 <= l2, NEW security
    PROVE  LET a1 == CalculateHealthV2(c1, m1, d1, s1, l1, security)
               a2 == CalculateHealthV2(c2, m2, d2, s2, l2, security)
           IN  a2.overall <= a1.overall /\ Severity[a2.status] >= Severity[a1.status]
  <1> DEFINE a1 == CalculateHealthV2(c1, m1, d1, s1, l1, security)
             a2 == CalculateHealthV2(c2, m2, d2, s2, l2, security)
             o1 == overallScore(usageScore(c1), usageScore(m1), usageScore(d1),
                     heartbeatScore(s1), latencyScore(l1), protectionScore(security))
             o2 == overallScore(usageScore(c2), usageScore(m2), usageScore(d2),
                     heartbeatScore(s2), latencyScore(l2), protectionScore(security))
  <1>0. c1 \in Int /\ m1 \in Int /\ d1 \in Int /\ c2 \in Int /\ m2 \in Int /\ d2 \in Int
        /\ l1 \in Int /\ l2 \in Int
    OBVIOUS
  <1>1. a1.overall = o1 /\ a1.status = overallStatus(o1) /\ o1 \in Nat
    BY <1>0, Assessment
  <1>2. a2.overall = o2 /\ a2.status = overallStatus(o2) /\ o2 \in Nat
    BY <1>0, Assessment
  <1>3. /\ usageScore(c1) \in 0..100 /\ usageScore(m1) \in 0..100
        /\ usageScore(d1) \in 0..100 /\ usageScore(c2) \in 0..100
        /\ usageScore(m2) \in 0..100 /\ usageScore(d2) \in 0..100
        /\ usageScore(c2) <= usageScore(c1) /\ usageScore(m2) <= usageScore(m1)
        /\ usageScore(d2) <= usageScore(d1)
    BY UsageScore
  <1>4. /\ latencyScore(l1) \in 0..100 /\ latencyScore(l2) \in 0..100
        /\ latencyScore(l2) <= latencyScore(l1)
    <2>1. /\ latencyScore(l1) \in 10..100 /\ latencyScore(l2) \in 10..100
          /\ latencyScore(l2) <= latencyScore(l1)
      BY LatencyScore
    <2> QED
      BY <2>1
  <1>5. heartbeatScore(s1) \in 0..100 /\ heartbeatScore(s2) \in 0..100
    <2>1. heartbeatScore(s1) \in {0, 50, 100} /\ heartbeatScore(s2) \in {0, 50, 100}
      BY OtherScores
    <2> QED
      BY <2>1
  <1>6. protectionScore(security) \in 0..400
    BY ProtectionScore
  <1>7. o2 <= o1
    BY <1>3, <1>4, <1>5, <1>6, OverallGrows
  <1> HIDE DEF a1, a2, o1, o2
  <1>8. o1 \in Nat /\ o2 \in Nat
    BY <1>1, <1>2
  <1>9. Severity[overallStatus(o2)] >= Severity[overallStatus(o1)]
    BY <1>7, <1>8, StatusFalls
  <1>10. a2.overall <= a1.overall /\ Severity[a2.status] >= Severity[a1.status]
    BY <1>1, <1>2, <1>7, <1>9
  <1> QED
    BY <1>10 DEF a1, a2

\* The same of CalculateHealth, which the heartbeat sends.
LEMMA WorseHealth ==
    ASSUME NEW c1 \in 0..100, NEW m1 \in 0..100, NEW d1 \in 0..100,
           NEW c2 \in 0..100, NEW m2 \in 0..100, NEW d2 \in 0..100,
           c1 <= c2, m1 <= m2, d1 <= d2
    PROVE  Severity[CalculateHealth(c2, m2, d2)] >= Severity[CalculateHealth(c1, m1, d1)]
  <1> DEFINE Critical(c, m, d) == c >= 90 \/ m >= 90 \/ d >= 90 \/ c + m + d >= 255
             Warning(c, m, d) == c >= 75 \/ m >= 75 \/ d >= 75 \/ c + m + d >= 195
  <1>1. ASSUME NEW c \in 0..100, NEW m \in 0..100, NEW d \in 0..100
        PROVE  CalculateHealth(c, m, d) =
                  IF Critical(c, m, d) THEN "Critical"
                  ELSE IF Warning(c, m, d) THEN "Warning" ELSE "Healthy"
    BY <1>1 DEF CalculateHealth
  <1>2. /\ CalculateHealth(c1, m1, d1) =
             IF Critical(c1, m1, d1) THEN "Critical"
             ELSE IF Warning(c1, m1, d1) THEN "Warning" ELSE "Healthy"
        /\ CalculateHealth(c2, m2, d2) =
             IF Critical(c2, m2, d2) THEN "Critical"
             ELSE IF Warning(c2, m2, d2) THEN "Warning" ELSE "Healthy"
    BY <1>1
  <1>3. /\ Critical(c1, m1, d1) => Critical(c2, m2, d2)
        /\ Warning(c1, m1, d1) => Warning(c2, m2, d2)
    OBVIOUS
  <1> HIDE DEF Critical, Warning
  <1>4. CASE Critical(c2, m2, d2)
    <2>1. Severity[CalculateHealth(c2, m2, d2)] = 2
      BY <1>2, <1>4, SeverityValues
    <2>2. Severity[CalculateHealth(c1, m1, d1)] \in 0..2
      BY <1>2, SeverityValues
    <2> QED
      BY <2>1, <2>2
  <1>5. CASE ~Critical(c2, m2, d2)
    BY <1>2, <1>3, <1>5, SeverityValues
  <1> QED
    BY <1>4, <1>5

-----------------------------------------------------------------------------
(***************************************************************************)
(* The collections.                                                        *)
(***************************************************************************)

\* What a collection reports in use is part of what it reports in total, even
\* if a query failed or a volume has more free than it has in all: the
\* subtractions of unsigned sizes never wrap.
LEMMA MemoryWithinTotal ==
    ASSUME NEW m \in Machines, NEW failed \in Failures
    PROVE  LET ram == RAM(query(m, failed))
           IN  ram.used \in Nat /\ ram.total \in Nat /\ ram.used <= ram.total
  <1> DEFINE a == query(m, failed)
             os == First(a.os, [total |-> 0, free |-> 0])
             ram == System(a).ram
  <1>1. /\ {"os", "system", "volumes"} \subseteq DOMAIN m
        /\ m.os # <<>> => m.os[1].total \in Nat /\ m.os[1].free \in Nat
        /\ m.system # <<>> => m.system[1].ram \in Nat
    BY HardwareAssumption DEF SizesUnsigned
  <1>2. a.os \in {<<>>, m.os} /\ a.system \in {<<>>, m.system}
    BY <1>1 DEF query
  <1>3. os.total \in Nat /\ os.free \in Nat
    BY <1>1, <1>2 DEF First
  <1>4. ram \in Nat
    BY <1>1, <1>2 DEF First, System
  <1> DEFINE r == RAM(a)
             available == IF os.total > 0 THEN os.free ELSE 0
  <1>5. /\ r.total = IF os.total > 0 THEN os.total ELSE ram
        /\ r.used = IF os.total > available THEN os.total - available ELSE 0
    BY DEF RAM
  <1> HIDE DEF a, os, ram, r
  <1>6. r.used \in Nat /\ r.total \in Nat /\ r.used <= r.total
    BY <1>3, <1>4, <1>5
  <1> QED
    BY <1>6 DEF r, a

\* The logical disks of the first rows exist for every number of rows.
LEMMA DisksSteps ==
    ASSUME NEW volumes, Len(volumes) \in Nat
    PROVE  \E disks :
             /\ disks = [n \in 0..Len(volumes) |->
                           IF n = 0 THEN [devices |-> <<>>, total |-> 0, free |-> 0]
                           ELSE AddVolume(disks[n - 1], volumes[n])]
             /\ LogicalDisks(volumes) = disks[Len(volumes)]
  <1> DEFINE Row(s, n) == IF n = 0 THEN [devices |-> <<>>, total |-> 0, free |-> 0]
                          ELSE AddVolume(s, volumes[n])
             Upto(disks, k) == disks = [n \in 0..k |-> Row(disks[n - 1], n)]
             T == {k \in Nat : \E disks : Upto(disks, k)}
  <1>1. 0 \in T
    <2>1. Upto([n \in 0..0 |-> [devices |-> <<>>, total |-> 0, free |-> 0]], 0)
      OBVIOUS
    <2> QED
      BY <2>1
  <1>2. ASSUME NEW k \in T PROVE k + 1 \in T
    <2>1. PICK disks : Upto(disks, k)
      OBVIOUS
    <2> DEFINE more == [n \in 0..(k + 1) |->
                          IF n <= k THEN disks[n] ELSE Row(disks[k], k + 1)]
    <2>2. \A n \in 0..k : disks[n] = Row(disks[n - 1], n)
      BY <2>1
    <2> HIDE DEF Row
    <2>3. Upto(more, k + 1)
      <3> SUFFICES ASSUME NEW n \in 0..(k + 1) PROVE more[n] = Row(more[n - 1], n)
        OBVIOUS
      <3>1. CASE n = 0
        <4>1. Row(more[n - 1], n) = Row(disks[n - 1], n)
          BY <3>1 DEF Row
        <4> QED
          BY <2>2, <3>1, <4>1
      <3>2. CASE n \in 1..k
        BY <2>2, <3>2
      <3>3. CASE n = k + 1
        BY <3>3
      <3> QED
        BY <3>1, <3>2, <3>3
    <2> HIDE DEF Upto, more
    <2>4. k + 1 \in Nat /\ \E next : Upto(next, k + 1)
      BY <2>3
    <2> QED
      BY <2>4
  <1>3. T \in SUBSET Nat
    OBVIOUS
  <1>4. Len(volumes) \in T
    <2> HIDE DEF T
    <2> QED
      BY <1>1, <1>2, <1>3, Induction
  <1> QED
    BY <1>4 DEF LogicalDisks

LEMMA SumsUnsigned ==
    ASSUME NEW volumes, Len(volumes) \in Nat,
           \A i \in 1..Len(volumes) :
              volumes[i].size \in Nat /\ volumes[i].free \in Nat
    PROVE  LogicalDisks(volumes).total \in Nat /\ LogicalDisks(volumes).free \in Nat
  <1>1. PICK disks :
           /\ disks = [n \in 0..Len(volumes) |->
                         IF n = 0 THEN [devices |-> <<>>, total |-> 0, free |-> 0]
                         ELSE AddVolume(disks[n - 1], volumes[n])]
           /\ LogicalDisks(volumes) = disks[Len(volumes)]
    BY DisksSteps
  <1> DEFINE T == {k \in Nat : k <= Len(volumes) =>
                                  disks[k].total \in Nat /\ disks[k].free \in Nat}
  <1>2. 0 \in T
    BY <1>1
  <1>3. ASSUME NEW k \in T PROVE k + 1 \in T
    <2> SUFFICES ASSUME k + 1 <= Len(volumes)
                 PROVE  disks[k + 1].total \in Nat /\ disks[k + 1].free \in Nat
      OBVIOUS
    <2>1. k \in Nat /\ disks[k].total \in Nat /\ disks[k].free \in Nat
      OBVIOUS
    <2>2. k + 1 \in 1..Len(volumes) /\ k + 1 \in 0..Len(volumes) /\ (k + 1) - 1 = k
      BY <2>1
    <2>3. disks[k + 1] = AddVolume(disks[k], volumes[k + 1])
      BY <1>1, <2>2
    <2> QED
      BY <2>1, <2>2, <2>3 DEF AddVolume
  <1>4. T \in SUBSET Nat
    OBVIOUS
  <1>5. Len(volumes) \in T
    <2> HIDE DEF T
    <2> QED
      BY <1>2, <1>3, <1>4, Induction
  <1> QED
    BY <1>1, <1>5

LEMMA DiskWithinTotal ==
    ASSUME NEW m \in Machines, NEW failed \in Failures
    PROVE  LET disk == Disk(query(m, failed))
           IN  /\ disk.used \in Nat /\ disk.total \in Nat /\ disk.free \in Nat
               /\ disk.used <= disk.total
  <1> DEFINE disk == Disk(query(m, failed))
  <1>1. disk.total \in Nat /\ disk.free \in Nat
    <2> DEFINE volumes == query(m, failed).volumes
    <2>1. "volumes" \in DOMAIN m
      BY HardwareAssumption DEF SizesUnsigned
    <2>2. volumes \in {<<>>, m.volumes}
      BY <2>1 DEF query
    <2>3. Len(volumes) \in Nat
      BY <2>2, HardwareAssumption DEF SizesUnsigned, Rows
    <2>4. \A i \in 1..Len(volumes) : volumes[i].size \in Nat /\ volumes[i].free \in Nat
      BY <2>2, HardwareAssumption DEF SizesUnsigned
    <2>5. /\ disk.total = LogicalDisks(volumes).total
          /\ disk.free = LogicalDisks(volumes).free
      BY DEF Disk
    <2> HIDE DEF volumes, disk
    <2>6. LogicalDisks(volumes).total \in Nat /\ LogicalDisks(volumes).free \in Nat
      BY <2>3, <2>4, SumsUnsigned
    <2> QED
      BY <2>5, <2>6
  <1>2. disk.used = IF disk.free <= disk.total THEN disk.total - disk.free ELSE 0
    BY DEF Disk
  <1> HIDE DEF disk
  <1>3. /\ disk.used \in Nat /\ disk.total \in Nat /\ disk.free \in Nat
        /\ disk.used <= disk.total
    BY <1>1, <1>2
  <1> QED
    BY <1>3 DEF disk

\* The columns of a collection.
LEMMA Collected ==
    ASSUME NEW m \in Machines, NEW failed \in Failures, NEW r \in Readings
    PROVE  LET x == Collection(m, failed, r)
           IN  /\ x.machine = m /\ x.failed = failed /\ x.readings = r
               /\ x.health = CalculateHealthV2(r.cpu, memoryUsage(x.hardware),
                               diskUsage(x.hardware), r.status, r.latency,
                               x.hardware.security)
               /\ memoryUsage(x.hardware) \in -1..100
               /\ diskUsage(x.hardware) \in -1..100
               /\ r.cpu \in Int /\ r.latency \in Int
  <1> DEFINE x == Collection(m, failed, r)
             h == Collect(m, failed)
             ram == RAM(query(m, failed))
             disk == Disk(query(m, failed))
  <1>1. /\ x.machine = m /\ x.failed = failed /\ x.readings = r /\ x.hardware = h
        /\ x.health = health(h, r)
    BY DEF Collection
  <1>2. h.memory = ram /\ h.disk = disk
    BY DEF Collect
  <1>3. ram.used \in Nat /\ ram.total \in Nat /\ ram.used <= ram.total
    BY MemoryWithinTotal
  <1>4. disk.used \in Nat /\ disk.total \in Nat /\ disk.used <= disk.total
    BY DiskWithinTotal
  <1> HIDE DEF x, h, ram, disk
  <1>5. memoryUsage(h) \in -1..100
    BY <1>2, <1>3, PercentRange DEF memoryUsage
  <1>6. diskUsage(h) \in -1..100
    <2>1. Percent(disk.used, disk.total) \in -1..100
      BY <1>4, PercentRange
    <2> QED
      BY <1>2, <2>1 DEF diskUsage
  <1>7. r.cpu \in Int /\ r.latency \in Int
    BY HardwareAssumption DEF SizesUnsigned
  <1>8. x.health = CalculateHealthV2(r.cpu, memoryUsage(x.hardware),
                     diskUsage(x.hardware), r.status, r.latency, x.hardware.security)
    BY <1>1 DEF health
  <1>9. /\ x.machine = m /\ x.failed = failed /\ x.readings = r
        /\ x.health = CalculateHealthV2(r.cpu, memoryUsage(x.hardware),
                        diskUsage(x.hardware), r.status, r.latency,
                        x.hardware.security)
        /\ memoryUsage(x.hardware) \in -1..100
        /\ diskUsage(x.hardware) \in -1..100
        /\ r.cpu \in Int /\ r.latency \in Int
    BY <1>1, <1>5, <1>6, <1>7, <1>8
  <1> QED
    BY <1>9 DEF x

IsCollection(x) ==
    \E m \in Machines, failed \in Failures, r \in Readings :
        x = Collection(m, failed, r)

\* What is in hand and what is stored were collected of some machine, with some
\* queries failing and some readings.
CollectionInv ==
    /\ pc \in {"idle", "decide"}
    /\ pc = "decide" <=> current # None
    /\ current = None \/ IsCollection(current)
    /\ stored = None \/ IsCollection(stored)

LEMMA CollectionInvariance == Spec => []CollectionInv
  <1>1. Init => CollectionInv
    BY DEF Init, CollectionInv
  <1>2. CollectionInv /\ [Next]_vars => CollectionInv'
    <2> SUFFICES ASSUME CollectionInv, [Next]_vars PROVE CollectionInv'
      OBVIOUS
    <2>1. CASE CollectNow
      <3>1. IsCollection(current)'
        BY <2>1 DEF CollectNow, IsCollection
      <3>2. current' # None
        BY <2>1, HardwareAssumption DEF CollectNow, NoneIsNoCollection
      <3>3. pc' = "decide" /\ stored' = stored
        BY <2>1 DEF CollectNow
      <3>4. (stored = None \/ IsCollection(stored))'
        BY <3>3 DEF CollectionInv, IsCollection
      <3> QED
        BY <3>1, <3>2, <3>3, <3>4 DEF CollectionInv
    <2>2. CASE Skip
      BY <2>2 DEF Skip, CollectionInv, IsCollection
    <2>3. CASE Report
      BY <2>3 DEF Report, CollectionInv, IsCollection
    <2>4. CASE ReportFails
      BY <2>4 DEF ReportFails, CollectionInv, IsCollection
    <2>5. CASE UNCHANGED vars
      BY <2>5 DEF vars, CollectionInv, IsCollection
    <2> QED
      BY <2>1, <2>2, <2>3, <2>4, <2>5 DEF Next
  <1> QED
    BY <1>1, <1>2, PTL DEF Spec

\* The type of every variable: the scores of a collection are percentages,
\* whatever the queries answered and whichever failed.
THEOREM TypeCorrect == Spec => []TypeOK
  <1>1. ASSUME NEW x, IsCollection(x)
        PROVE  /\ x.machine \in Machines /\ x.failed \in Failures
               /\ x.readings \in Readings
               /\ \A i \in 1..3 : x.health.usage[i] \in 0..100
               /\ x.health.overall \in Nat /\ x.health.overall <= 100 * 400
    <2>1. PICK m \in Machines, failed \in Failures, r \in Readings :
              x = Collection(m, failed, r)
      BY <1>1 DEF IsCollection
    <2> DEFINE memory == memoryUsage(x.hardware)
               disk == diskUsage(x.hardware)
    <2>2. /\ x.machine = m /\ x.failed = failed /\ x.readings = r
          /\ x.health = CalculateHealthV2(r.cpu, memory, disk, r.status, r.latency,
                                          x.hardware.security)
          /\ memory \in -1..100 /\ disk \in -1..100
          /\ r.cpu \in Int /\ r.latency \in Int
      BY <2>1, Collected
    <2> HIDE DEF memory, disk
    <2>3. memory \in Int /\ disk \in Int
      BY <2>2
    <2>4. /\ \A i \in 1..3 : x.health.usage[i] \in 0..100
          /\ x.health.overall \in Nat /\ x.health.overall <= 100 * 400
      BY <2>2, <2>3, Assessment
    <2> QED
      BY <2>2, <2>4
  <1>2. CollectionInv => TypeOK
    BY <1>1 DEF CollectionInv, TypeOK
  <1> QED
    BY <1>2, CollectionInvariance, PTL

\* Neither CalculateHealth nor CalculateHealthV2 improves from one collection
\* to the next when the readings, all known, only get worse: for every machine,
\* every query that fails and every reading.
THEOREM HealthIsMonotone == Spec => []WorseNeverBetter
  <1>1. CollectionInv => WorseNeverBetter
    <2> DEFINE old == Usage(stored)
               new == Usage(current)
               worse == \A i \in 1..3 :
                          0 <= old[i] /\ old[i] <= new[i] /\ new[i] <= 100
               same == /\ 0 <= stored.readings.latency
                       /\ stored.readings.latency <= current.readings.latency
                       /\ heartbeatScore(current.readings.status)
                            <= heartbeatScore(stored.readings.status)
                       /\ current.hardware.security = stored.hardware.security
    <2> SUFFICES ASSUME CollectionInv, Deciding, worse
                 PROVE  /\ Severity[CalculateHealth(new[1], new[2], new[3])]
                             >= Severity[CalculateHealth(old[1], old[2], old[3])]
                        /\ same =>
                             /\ current.health.overall <= stored.health.overall
                             /\ Severity[current.health.status]
                                  >= Severity[stored.health.status]
      BY DEF WorseNeverBetter
    <2>1. IsCollection(current) /\ IsCollection(stored)
      BY DEF CollectionInv, Deciding
    <2>2. ASSUME NEW x, IsCollection(x)
          PROVE  /\ x.health = CalculateHealthV2(Usage(x)[1], Usage(x)[2], Usage(x)[3],
                                 x.readings.status, x.readings.latency,
                                 x.hardware.security)
                 /\ Usage(x)[1] \in Int /\ Usage(x)[2] \in Int /\ Usage(x)[3] \in Int
                 /\ x.readings.latency \in Int
      <3>1. PICK m \in Machines, failed \in Failures, r \in Readings :
                x = Collection(m, failed, r)
        BY <2>2 DEF IsCollection
      <3> DEFINE memory == memoryUsage(x.hardware)
                 disk == diskUsage(x.hardware)
      <3>2. /\ x.readings = r
            /\ x.health = CalculateHealthV2(r.cpu, memory, disk, r.status, r.latency,
                                            x.hardware.security)
            /\ memory \in -1..100 /\ disk \in -1..100
            /\ r.cpu \in Int /\ r.latency \in Int
        BY <3>1, Collected
      <3>3. Usage(x) = <<x.readings.cpu, memory, disk>>
        BY DEF Usage
      <3> HIDE DEF memory, disk
      <3>4. Usage(x)[1] = r.cpu /\ Usage(x)[2] = memory /\ Usage(x)[3] = disk
        BY <3>2, <3>3
      <3> QED
        BY <3>2, <3>4
    <2> DEFINE c1 == old[1]  m1 == old[2]  d1 == old[3]
               c2 == new[1]  m2 == new[2]  d2 == new[3]
    <2>3. /\ c1 \in Int /\ m1 \in Int /\ d1 \in Int
          /\ c2 \in Int /\ m2 \in Int /\ d2 \in Int
          /\ stored.readings.latency \in Int /\ current.readings.latency \in Int
      BY <2>1, <2>2
    <2>4. /\ 0 <= c1 /\ c1 <= c2 /\ c2 <= 100 /\ 0 <= m1 /\ m1 <= m2 /\ m2 <= 100
          /\ 0 <= d1 /\ d1 <= d2 /\ d2 <= 100
      OBVIOUS
    <2>5. /\ stored.health = CalculateHealthV2(c1, m1, d1, stored.readings.status,
                               stored.readings.latency, stored.hardware.security)
          /\ current.health = CalculateHealthV2(c2, m2, d2, current.readings.status,
                               current.readings.latency, current.hardware.security)
      BY <2>1, <2>2
    <2> HIDE DEF old, new, worse, c1, m1, d1, c2, m2, d2
    <2>6. /\ c1 \in 0..100 /\ m1 \in 0..100 /\ d1 \in 0..100
          /\ c2 \in 0..100 /\ m2 \in 0..100 /\ d2 \in 0..100
      BY <2>3, <2>4
    <2>7. Severity[CalculateHealth(c2, m2, d2)] >= Severity[CalculateHealth(c1, m1, d1)]
      BY <2>4, <2>6, WorseHealth
    <2>8. ASSUME same
          PROVE  /\ current.health.overall <= stored.health.overall
                 /\ Severity[current.health.status] >= Severity[stored.health.status]
      <3>1. stored.readings.latency \in Nat /\ current.readings.latency \in Nat
        BY <2>3, <2>8
      <3> DEFINE s == stored.hardware.security
                 a1 == CalculateHealthV2(c1, m1, d1, stored.readings.status,
                                         stored.readings.latency, s)
                 a2 == CalculateHealthV2(c2, m2, d2, current.readings.status,
                                         current.readings.latency, s)
      <3>2. a2.overall <= a1.overall /\ Severity[a2.status] >= Severity[a1.status]
        BY <2>4, <2>6, <2>8, <3>1, WorseAssessment
      <3>3. stored.health = a1 /\ current.health = a2
        BY <2>5, <2>8
      <3> QED
        BY <3>2, <3>3
    <2> QED
      BY <2>7, <2>8 DEF c1, m1, d1, c2, m2, d2
  <1> QED
    BY <1>1, CollectionInvariance, PTL

-----------------------------------------------------------------------------
(***************************************************************************)
(* The network adapters.                                                   *)
(***************************************************************************)

LEMMA MergedSteps ==
    ASSUME NEW nics, NEW details, Len(details) \in Nat
    PROVE  \E merged :
             /\ merged = [n \in 0..Len(details) |->
                            IF n = 0 THEN nics ELSE MergeDetail(merged[n - 1], details[n])]
             /\ Merged(nics, details) = merged[Len(details)]
  <1> DEFINE Row(s, n) == IF n = 0 THEN nics ELSE MergeDetail(s, details[n])
             Upto(merged, k) == merged = [n \in 0..k |-> Row(merged[n - 1], n)]
             T == {k \in Nat : \E merged : Upto(merged, k)}
  <1>1. 0 \in T
    <2>1. Upto([n \in 0..0 |-> nics], 0)
      OBVIOUS
    <2> QED
      BY <2>1
  <1>2. ASSUME NEW k \in T PROVE k + 1 \in T
    <2>1. PICK merged : Upto(merged, k)
      OBVIOUS
    <2> DEFINE more == [n \in 0..(k + 1) |->
                          IF n <= k THEN merged[n] ELSE Row(merged[k], k + 1)]
    <2>2. \A n \in 0..k : merged[n] = Row(merged[n - 1], n)
      BY <2>1
    <2> HIDE DEF Row
    <2>3. Upto(more, k + 1)
      <3> SUFFICES ASSUME NEW n \in 0..(k + 1) PROVE more[n] = Row(more[n - 1], n)
        OBVIOUS
      <3>1. CASE n = 0
        <4>1. Row(more[n - 1], n) = Row(merged[n - 1], n)
          BY <3>1 DEF Row
        <4> QED
          BY <2>2, <3>1, <4>1
      <3>2. CASE n \in 1..k
        BY <2>2, <3>2
      <3>3. CASE n = k + 1
        BY <3>3
      <3> QED
        BY <3>1, <3>2, <3>3
    <2> HIDE DEF Upto, more
    <2>4. k + 1 \in Nat /\ \E next : Upto(next, k + 1)
      BY <2>3
    <2> QED
      BY <2>4
  <1>3. T \in SUBSET Nat
    OBVIOUS
  <1>4. Len(details) \in T
    <2> HIDE DEF T
    <2> QED
      BY <1>1, <1>2, <1>3, Induction
  <1> QED
    BY <1>4 DEF Merged

\* DistinctAdapters of the rows that two queries gave.
DistinctRows(configs, details) ==
    /\ \A i, j \in 1..Len(details) :
          i # j => /\ details[i].name # details[j].name
                   /\ details[i].mac # details[j].mac \/ details[i].mac = ""
    /\ \A i, j \in 1..Len(configs) :
          i # j => /\ configs[i].desc # configs[j].desc
                   /\ configs[i].mac # configs[j].mac \/ configs[i].mac = ""
    /\ \A i \in 1..Len(configs), j \in 1..Len(details) :
          configs[i].desc = details[j].name => configs[i].mac = details[j].mac

\* No adapter with an IP configuration is the one of this row.
Alone(configs, detail) ==
    detail.name # "" /\ \A i \in 1..Len(configs) : ~Matches(configs[i], detail)

\* The adapters after the first k rows of details: those with an IP
\* configuration, each with the name and speed of the row it matches, and one
\* for each row that matches none.
ConfiguredPart(nics, configs, details, k) ==
    \A i \in 1..Len(configs) :
        /\ nics[i].mac = configs[i].mac /\ nics[i].desc = configs[i].desc
        /\ \A j \in 1..k : Matches(configs[i], details[j]) =>
              nics[i].name = details[j].name /\ nics[i].speed = details[j].speed
        /\ (\A j \in 1..k : ~Matches(configs[i], details[j])) =>
              nics[i].name = configs[i].desc
AppendedPart(nics, configs, details, k) ==
    /\ \A i \in (Len(configs) + 1)..Len(nics) : \E j \in 1..k :
          /\ Alone(configs, details[j])
          /\ nics[i].mac = details[j].mac /\ nics[i].desc = ""
          /\ nics[i].name = details[j].name /\ nics[i].speed = details[j].speed
    /\ \A j \in 1..k : Alone(configs, details[j]) =>
          \E i \in (Len(configs) + 1)..Len(nics) : nics[i].name = details[j].name
    /\ \A i, l \in (Len(configs) + 1)..Len(nics) : nics[i].name = nics[l].name => i = l
MergedInv(nics, configs, details, k) ==
    /\ Rows(nics) /\ Len(configs) <= Len(nics)
    /\ \A i \in 1..Len(nics) : {"name", "speed", "status"} \subseteq DOMAIN nics[i]
    /\ ConfiguredPart(nics, configs, details, k)
    /\ AppendedPart(nics, configs, details, k)

LEMMA RowsFacts ==
    ASSUME NEW n \in Nat, NEW t, t = [i \in 1..n |-> t[i]]
    PROVE  Rows(t) /\ Len(t) = n
  <1> DEFINE S == {t[i] : i \in 1..n}
  <1>1. t \in [1..n -> S]
    OBVIOUS
  <1>2. t \in Seq(S)
    BY <1>1
  <1>3. Len(t) = n
    BY <1>1, <1>2
  <1> QED
    BY <1>3 DEF Rows

LEMMA AppendRows ==
    ASSUME NEW s, Rows(s), NEW e
    PROVE  LET t == Append(s, e)
           IN  /\ Rows(t) /\ Len(t) = Len(s) + 1 /\ t[Len(s) + 1] = e
               /\ \A i \in 1..Len(s) : t[i] = s[i]
  <1> DEFINE n == Len(s)
             S == {s[i] : i \in 1..n} \cup {e}
  <1>1. s \in Seq(S)
    BY DEF Rows
  <1>2. /\ Append(s, e) \in Seq(S) /\ Len(Append(s, e)) = n + 1
        /\ Append(s, e)[n + 1] = e /\ \A i \in 1..n : Append(s, e)[i] = s[i]
    BY <1>1
  <1> DEFINE t == Append(s, e)
  <1> HIDE DEF S, t
  <1>3. /\ t \in Seq(S) /\ Len(t) = n + 1
        /\ t[n + 1] = e /\ \A i \in 1..n : t[i] = s[i]
    BY <1>2 DEF t
  <1>4. Len(t) \in Nat /\ t = [i \in 1..Len(t) |-> t[i]]
    BY <1>3
  <1> QED
    BY <1>3, <1>4 DEF t, Rows

\* The body of the loop over details.
LEMMA MergedStep ==
    ASSUME NEW nics, NEW configs, NEW details, NEW k \in Nat,
           Len(configs) \in Nat, Len(details) \in Nat, k + 1 <= Len(details),
           DistinctRows(configs, details), MergedInv(nics, configs, details, k)
    PROVE  MergedInv(MergeDetail(nics, details[k + 1]), configs, details, k + 1)
  <1> DEFINE c == Len(configs)
             d == details[k + 1]
             after == MergeDetail(nics, d)
             update(n) == [n EXCEPT !.name = d.name, !.speed = d.speed,
                                    !.status = networkStatus(d.code)]
             new == [name |-> d.name, desc |-> "", mac |-> d.mac, dhcp |-> FALSE,
                     addr |-> "", speed |-> d.speed, status |-> networkStatus(d.code)]
  <1>1. /\ Rows(nics) /\ Len(nics) \in Nat /\ c <= Len(nics)
        /\ DOMAIN nics = 1..Len(nics)
        /\ \A i \in 1..Len(nics) : {"name", "speed", "status"} \subseteq DOMAIN nics[i]
        /\ ConfiguredPart(nics, configs, details, k)
        /\ AppendedPart(nics, configs, details, k)
    BY DEF MergedInv, Rows
  <1>2. k + 1 \in 1..Len(details) /\ \A j \in 1..k : j \in 1..Len(details) /\ j # k + 1
    OBVIOUS
  <1>3. \A i \in 1..c : Matches(nics[i], d) <=> Matches(configs[i], d)
    BY <1>1 DEF ConfiguredPart, Matches
  <1>4. \A i \in (c + 1)..Len(nics) : ~Matches(nics[i], d)
    <2> SUFFICES ASSUME NEW i \in (c + 1)..Len(nics) PROVE ~Matches(nics[i], d)
      OBVIOUS
    <2>1. PICK j \in 1..k : nics[i].mac = details[j].mac /\ nics[i].desc = ""
      BY <1>1 DEF AppendedPart
    <2>2. details[j].mac # d.mac \/ details[j].mac = ""
      BY <1>2 DEF DistinctRows
    <2> QED
      BY <2>1, <2>2 DEF Matches
  <1>5. \A i \in 1..c : \A j \in 1..k :
           Matches(configs[i], details[j]) => ~Matches(configs[i], d)
    <2> SUFFICES ASSUME NEW i \in 1..c, NEW j \in 1..k,
                        Matches(configs[i], details[j]), Matches(configs[i], d)
                 PROVE  FALSE
      OBVIOUS
    <2>1. details[j].mac = configs[i].mac /\ d.mac = configs[i].mac
      BY <1>2 DEF DistinctRows, Matches
    <2>2. details[j].name # d.name /\ (details[j].mac # d.mac \/ details[j].mac = "")
      BY <1>2 DEF DistinctRows
    <2> QED
      BY <2>1, <2>2 DEF Matches
  <1>6. 1..(k + 1) = 1..k \cup {k + 1}
    OBVIOUS
  <1>7. after = IF \E i \in 1..Len(nics) : Matches(nics[i], d)
                  THEN [i \in 1..Len(nics) |->
                          IF Matches(nics[i], d) THEN update(nics[i]) ELSE nics[i]]
                ELSE IF d.name # "" THEN Append(nics, new)
                ELSE nics
    BY <1>1 DEF MergeDetail, Map
  <1> HIDE DEF after, d
  <1>8. CASE \E i \in 1..Len(nics) : Matches(nics[i], d)
    <2>1. after = [i \in 1..Len(nics) |->
                      IF Matches(nics[i], d) THEN update(nics[i]) ELSE nics[i]]
      BY <1>7, <1>8
    <2>2. Rows(after) /\ Len(after) = Len(nics)
      <3>1. after = [i \in 1..Len(nics) |-> after[i]]
        BY <2>1
      <3> QED
        BY <1>1, <3>1, RowsFacts
    <2>3. \A i \in 1..Len(nics) :
             /\ ~Matches(nics[i], d) => after[i] = nics[i]
             /\ Matches(nics[i], d) =>
                  /\ after[i].name = d.name /\ after[i].speed = d.speed
                  /\ after[i].mac = nics[i].mac /\ after[i].desc = nics[i].desc
             /\ {"name", "speed", "status"} \subseteq DOMAIN after[i]
      <3> SUFFICES ASSUME NEW i \in 1..Len(nics)
                   PROVE  /\ ~Matches(nics[i], d) => after[i] = nics[i]
                          /\ Matches(nics[i], d) =>
                               /\ after[i].name = d.name /\ after[i].speed = d.speed
                               /\ after[i].mac = nics[i].mac
                               /\ after[i].desc = nics[i].desc
                          /\ {"name", "speed", "status"} \subseteq DOMAIN after[i]
        OBVIOUS
      <3>1. {"name", "speed", "status"} \subseteq DOMAIN nics[i]
        BY <1>1
      <3>2. CASE ~Matches(nics[i], d)
        BY <2>1, <3>1, <3>2
      <3>3. CASE Matches(nics[i], d)
        <4>1. after[i] = update(nics[i])
          BY <2>1, <3>3
        <4> QED
          BY <3>1, <3>3, <4>1
      <3> QED
        BY <3>2, <3>3
    <2>4. ConfiguredPart(after, configs, details, k + 1)
      <3> SUFFICES ASSUME NEW i \in 1..c
                   PROVE  /\ after[i].mac = configs[i].mac /\ after[i].desc = configs[i].desc
                          /\ \A j \in 1..(k + 1) : Matches(configs[i], details[j]) =>
                                /\ after[i].name = details[j].name
                                /\ after[i].speed = details[j].speed
                          /\ (\A j \in 1..(k + 1) : ~Matches(configs[i], details[j])) =>
                                after[i].name = configs[i].desc
        BY DEF ConfiguredPart
      <3>1. i \in 1..Len(nics)
        BY <1>1
      <3>2. CASE Matches(configs[i], d)
        <4>1. \A j \in 1..k : ~Matches(configs[i], details[j])
          BY <1>5, <3>2
        <4> QED
          BY <1>1, <1>3, <1>6, <2>3, <3>1, <3>2, <4>1 DEF ConfiguredPart, d
      <3>3. CASE ~Matches(configs[i], d)
        <4>1. after[i] = nics[i]
          BY <1>3, <2>3, <3>1, <3>3
        <4> QED
          BY <1>1, <1>6, <3>3, <4>1 DEF ConfiguredPart, d
      <3> QED
        BY <3>2, <3>3
    <2>5. AppendedPart(after, configs, details, k + 1)
      <3>1. \A i \in (c + 1)..Len(nics) : after[i] = nics[i]
        BY <1>1, <1>4, <2>3
      <3>2. ~Alone(configs, d)
        <4>1. PICK i \in 1..Len(nics) : Matches(nics[i], d)
          BY <1>8
        <4>2. i \in 1..c
          BY <1>1, <1>4, <4>1
        <4> QED
          BY <1>3, <4>1, <4>2 DEF Alone
      <3>3. AppendedPart(nics, configs, details, k + 1)
        BY <1>1, <1>6, <3>2 DEF AppendedPart, d
      <3>4. \A i \in (c + 1)..Len(nics) : \E j \in 1..(k + 1) :
               /\ Alone(configs, details[j])
               /\ after[i].mac = details[j].mac /\ after[i].desc = ""
               /\ after[i].name = details[j].name /\ after[i].speed = details[j].speed
        <4> SUFFICES ASSUME NEW i \in (c + 1)..Len(nics)
                     PROVE  \E j \in 1..(k + 1) :
                               /\ Alone(configs, details[j])
                               /\ after[i].mac = details[j].mac /\ after[i].desc = ""
                               /\ after[i].name = details[j].name
                               /\ after[i].speed = details[j].speed
          OBVIOUS
        <4>1. PICK j \in 1..(k + 1) :
                 /\ Alone(configs, details[j])
                 /\ nics[i].mac = details[j].mac /\ nics[i].desc = ""
                 /\ nics[i].name = details[j].name /\ nics[i].speed = details[j].speed
          BY <3>3 DEF AppendedPart
        <4>2. after[i] = nics[i]
          BY <3>1
        <4> QED
          BY <4>1, <4>2
      <3>5. \A j \in 1..(k + 1) : Alone(configs, details[j]) =>
               \E i \in (c + 1)..Len(nics) : after[i].name = details[j].name
        <4> SUFFICES ASSUME NEW j \in 1..(k + 1), Alone(configs, details[j])
                     PROVE  \E i \in (c + 1)..Len(nics) : after[i].name = details[j].name
          OBVIOUS
        <4>1. PICK i \in (c + 1)..Len(nics) : nics[i].name = details[j].name
          BY <3>3 DEF AppendedPart
        <4>2. after[i] = nics[i]
          BY <3>1
        <4> QED
          BY <4>1, <4>2
      <3>6. \A i, l \in (c + 1)..Len(nics) : after[i].name = after[l].name => i = l
        BY <3>1, <3>3 DEF AppendedPart
      <3>7. Len(after) = Len(nics)
        BY <2>2
      <3> QED
        BY <3>4, <3>5, <3>6, <3>7 DEF AppendedPart
    <2> QED
      BY <1>1, <2>2, <2>3, <2>4, <2>5 DEF MergedInv, after, d
  <1>9. CASE ~\E i \in 1..Len(nics) : Matches(nics[i], d)
    <2>1. \A i \in 1..c : ~Matches(configs[i], d)
      BY <1>1, <1>3, <1>9
    <2>2. CASE d.name = ""
      <3>1. after = nics
        BY <1>7, <1>9, <2>2
      <3>2. ~Alone(configs, d)
        BY <2>2 DEF Alone
      <3>3. ConfiguredPart(nics, configs, details, k + 1)
        BY <1>1, <1>6, <2>1 DEF ConfiguredPart, d
      <3>4. AppendedPart(nics, configs, details, k + 1)
        BY <1>1, <1>6, <3>2 DEF AppendedPart, d
      <3> QED
        BY <1>1, <3>1, <3>3, <3>4 DEF MergedInv, after, d
    <2>3. CASE d.name # ""
      <3>1. after = Append(nics, new)
        BY <1>7, <1>9, <2>3
      <3> HIDE DEF new
      <3>2. /\ Rows(after) /\ Len(after) = Len(nics) + 1 /\ after[Len(nics) + 1] = new
            /\ \A i \in 1..Len(nics) : after[i] = nics[i]
        BY <1>1, <3>1, AppendRows
      <3>3. Alone(configs, d)
        BY <2>1, <2>3 DEF Alone
      <3>4. /\ new.name = d.name /\ new.desc = "" /\ new.mac = d.mac
            /\ new.speed = d.speed /\ {"name", "speed", "status"} \subseteq DOMAIN new
        BY DEF new
      <3>5. ConfiguredPart(after, configs, details, k + 1)
        <4>1. \A i \in 1..c : after[i] = nics[i]
          BY <1>1, <3>2
        <4> QED
          BY <1>1, <1>6, <2>1, <4>1 DEF ConfiguredPart, d
      <3>6. AppendedPart(after, configs, details, k + 1)
        <4>1. (c + 1)..Len(after) = ((c + 1)..Len(nics)) \cup {Len(after)}
          BY <1>1, <3>2
        <4>2. \A i \in (c + 1)..Len(nics) : after[i] = nics[i]
          BY <1>1, <3>2
        <4>3. after[Len(after)] = new
          BY <3>2
        <4>4. \A i \in (c + 1)..Len(nics) : nics[i].name # d.name
          <5> SUFFICES ASSUME NEW i \in (c + 1)..Len(nics) PROVE nics[i].name # d.name
            OBVIOUS
          <5>1. PICK j \in 1..k : nics[i].name = details[j].name
            BY <1>1 DEF AppendedPart
          <5> QED
            BY <1>2, <5>1 DEF DistinctRows, d
        <4>5. ASSUME NEW i \in (c + 1)..Len(after)
              PROVE  \E j \in 1..(k + 1) :
                        /\ Alone(configs, details[j])
                        /\ after[i].mac = details[j].mac /\ after[i].desc = ""
                        /\ after[i].name = details[j].name
                        /\ after[i].speed = details[j].speed
          <5>1. CASE i \in (c + 1)..Len(nics)
            <6>1. PICK j \in 1..k :
                    /\ Alone(configs, details[j])
                    /\ nics[i].mac = details[j].mac /\ nics[i].desc = ""
                    /\ nics[i].name = details[j].name /\ nics[i].speed = details[j].speed
              BY <1>1, <5>1 DEF AppendedPart
            <6> QED
              BY <1>6, <4>2, <5>1, <6>1
          <5>2. CASE i = Len(after)
            BY <1>6, <3>3, <3>4, <4>3, <5>2 DEF d
          <5> QED
            BY <4>1, <5>1, <5>2
        <4>6. ASSUME NEW j \in 1..(k + 1), Alone(configs, details[j])
              PROVE  \E i \in (c + 1)..Len(after) : after[i].name = details[j].name
          <5>1. CASE j \in 1..k
            <6>1. PICK i \in (c + 1)..Len(nics) : nics[i].name = details[j].name
              BY <1>1, <4>6, <5>1 DEF AppendedPart
            <6> QED
              BY <4>1, <4>2, <6>1
          <5>2. CASE j = k + 1
            BY <3>4, <4>1, <4>3, <5>2 DEF d
          <5> QED
            BY <1>6, <5>1, <5>2
        <4>7. ASSUME NEW i \in (c + 1)..Len(after), NEW l \in (c + 1)..Len(after),
                     after[i].name = after[l].name
              PROVE  i = l
          <5>1. CASE i \in (c + 1)..Len(nics) /\ l \in (c + 1)..Len(nics)
            BY <1>1, <4>2, <4>7, <5>1 DEF AppendedPart
          <5>2. CASE i = Len(after) /\ l \in (c + 1)..Len(nics)
            BY <3>4, <4>2, <4>3, <4>4, <4>7, <5>2
          <5>3. CASE l = Len(after) /\ i \in (c + 1)..Len(nics)
            BY <3>4, <4>2, <4>3, <4>4, <4>7, <5>3
          <5> QED
            BY <4>1, <5>1, <5>2, <5>3
        <4> QED
          BY <4>5, <4>6, <4>7 DEF AppendedPart
      <3>7. \A i \in 1..Len(after) : {"name", "speed", "status"} \subseteq DOMAIN after[i]
        <4>1. 1..Len(after) = 1..Len(nics) \cup {Len(nics) + 1}
          BY <1>1, <3>2
        <4> QED
          BY <1>1, <3>2, <3>4, <4>1
      <3> QED
        BY <1>1, <3>2, <3>5, <3>6, <3>7 DEF MergedInv, after, d
    <2> QED
      BY <2>2, <2>3
  <1> QED
    BY <1>8, <1>9

\* Whatever rows the two queries gave, in any order.
LEMMA MergedAdapters ==
    ASSUME NEW configs, NEW details, Rows(configs), Rows(details),
           DistinctRows(configs, details)
    PROVE  MergedInv(Merged(Map(configs, Configured), details),
                     configs, details, Len(details))
  <1> DEFINE nics == Map(configs, Configured)
  <1>1. Len(configs) \in Nat /\ Len(details) \in Nat /\ DOMAIN configs = 1..Len(configs)
    BY DEF Rows
  <1>2. nics = [i \in 1..Len(configs) |->
                  [name |-> configs[i].desc, desc |-> configs[i].desc,
                   mac |-> configs[i].mac, dhcp |-> configs[i].dhcp,
                   addr |-> configs[i].addr, speed |-> 0, status |-> "up"]]
    BY <1>1 DEF Map, Configured
  <1> HIDE DEF nics
  <1>3. MergedInv(nics, configs, details, 0)
    <2>1. Rows(nics) /\ Len(nics) = Len(configs)
      <3>1. nics = [i \in 1..Len(configs) |-> nics[i]]
        BY <1>2
      <3> QED
        BY <1>1, <3>1, RowsFacts
    <2>2. \A i \in 1..Len(configs) :
             /\ nics[i].mac = configs[i].mac /\ nics[i].desc = configs[i].desc
             /\ nics[i].name = configs[i].desc
             /\ {"name", "speed", "status"} \subseteq DOMAIN nics[i]
      BY <1>2
    <2>3. 1..0 = {} /\ (Len(configs) + 1)..Len(configs) = {}
      BY <1>1
    <2>4. ConfiguredPart(nics, configs, details, 0)
      BY <2>2, <2>3 DEF ConfiguredPart
    <2>5. AppendedPart(nics, configs, details, 0)
      BY <2>1, <2>3 DEF AppendedPart
    <2> QED
      BY <1>1, <2>1, <2>2, <2>4, <2>5 DEF MergedInv
  <1>4. PICK merged :
           /\ merged = [n \in 0..Len(details) |->
                          IF n = 0 THEN nics ELSE MergeDetail(merged[n - 1], details[n])]
           /\ Merged(nics, details) = merged[Len(details)]
    BY <1>1, MergedSteps
  <1> DEFINE T == {k \in Nat : k <= Len(details) =>
                                  MergedInv(merged[k], configs, details, k)}
  <1>5. 0 \in T
    <2>1. merged[0] = nics
      BY <1>1, <1>4
    <2> QED
      BY <1>3, <2>1
  <1>6. ASSUME NEW k \in T PROVE k + 1 \in T
    <2> SUFFICES ASSUME k + 1 <= Len(details)
                 PROVE  MergedInv(merged[k + 1], configs, details, k + 1)
      OBVIOUS
    <2>1. k \in Nat /\ MergedInv(merged[k], configs, details, k)
      BY <1>1
    <2>2. k + 1 \in 0..Len(details) /\ k + 1 # 0 /\ (k + 1) - 1 = k
      BY <1>1, <2>1
    <2>3. merged[k + 1] = MergeDetail(merged[k], details[k + 1])
      BY <1>4, <2>2
    <2> QED
      BY <1>1, <2>1, <2>3, MergedStep
  <1>7. T \in SUBSET Nat
    OBVIOUS
  <1>8. Len(details) \in T
    <2> HIDE DEF T
    <2> QED
      BY <1>1, <1>5, <1>6, <1>7, Induction
  <1> QED
    BY <1>1, <1>4, <1>8 DEF nics

\* After all rows, the adapter of a named row is there once, as the row says.
LEMMA AdapterReported ==
    ASSUME NEW configs, NEW details, Len(configs) \in Nat, Len(details) \in Nat,
           DistinctRows(configs, details),
           NEW nics, MergedInv(nics, configs, details, Len(details)),
           NEW j \in 1..Len(details), details[j].name # ""
    PROVE  ReportedOnce(nics, details[j])
  <1> DEFINE d == details[j]
             c == Len(configs)
             reports(n) == IF d.mac = "" THEN n.name = d.name ELSE n.mac = d.mac
  <1>1. /\ Len(nics) \in Nat /\ c <= Len(nics)
        /\ ConfiguredPart(nics, configs, details, Len(details))
        /\ AppendedPart(nics, configs, details, Len(details))
    BY DEF MergedInv, Rows
  \* An adapter with an IP configuration is this one only if the row matches it.
  <1>2. ASSUME NEW k \in 1..c, reports(nics[k]) PROVE Matches(configs[k], d)
    <2>1. nics[k].mac = configs[k].mac
      BY <1>1 DEF ConfiguredPart
    <2>2. CASE d.mac # ""
      BY <1>2, <2>1, <2>2 DEF Matches
    <2>3. CASE d.mac = ""
      <3>1. nics[k].name = d.name
        BY <1>2, <2>3
      <3>2. CASE \E l \in 1..Len(details) : Matches(configs[k], details[l])
        <4>1. PICK l \in 1..Len(details) : Matches(configs[k], details[l])
          BY <3>2
        <4>2. details[l].name = d.name
          BY <1>1, <3>1, <4>1 DEF ConfiguredPart
        <4>3. l = j
          BY <4>2 DEF DistinctRows
        <4> QED
          BY <4>1, <4>3
      <3>3. CASE \A l \in 1..Len(details) : ~Matches(configs[k], details[l])
        <4>1. configs[k].desc = d.name
          BY <1>1, <3>1, <3>3 DEF ConfiguredPart
        <4> QED
          BY <4>1 DEF Matches
      <3> QED
        BY <3>2, <3>3
    <2> QED
      BY <2>2, <2>3
  \* An appended one is this one only if it was appended for this row.
  <1>3. ASSUME NEW k \in (c + 1)..Len(nics), reports(nics[k])
        PROVE  /\ Alone(configs, d) /\ nics[k].name = d.name /\ nics[k].speed = d.speed
               /\ nics[k].mac = d.mac
    <2>1. PICK l \in 1..Len(details) :
             /\ Alone(configs, details[l]) /\ nics[k].mac = details[l].mac
             /\ nics[k].name = details[l].name /\ nics[k].speed = details[l].speed
      BY <1>1 DEF AppendedPart
    <2>2. l = j
      <3>1. l # j => /\ details[l].name # d.name
                     /\ details[l].mac # d.mac \/ details[l].mac = ""
        BY DEF DistinctRows
      <3> QED
        BY <1>3, <2>1, <3>1
    <2> QED
      BY <2>1, <2>2
  <1>4. 1..Len(nics) = (1..c) \cup ((c + 1)..Len(nics))
    BY <1>1, IntervalSplit
  <1>5. DOMAIN nics = 1..Len(nics)
    BY DEF MergedInv, Rows
  <1>6. CASE \E i \in 1..c : Matches(configs[i], d)
    <2>1. PICK i \in 1..c : Matches(configs[i], d)
      BY <1>6
    <2>2. /\ nics[i].name = d.name /\ nics[i].speed = d.speed
          /\ nics[i].mac = configs[i].mac
      BY <1>1, <2>1 DEF ConfiguredPart
    <2>3. \A k \in 1..c : Matches(configs[k], d) => configs[k].mac = d.mac
      BY DEF DistinctRows, Matches
    <2>4. reports(nics[i])
      BY <2>1, <2>2, <2>3
    <2>5. ASSUME NEW k \in 1..Len(nics), reports(nics[k]) PROVE k = i
      <3>1. CASE k \in 1..c
        <4>1. Matches(configs[k], d) /\ configs[k].mac = d.mac /\ configs[i].mac = d.mac
          BY <1>2, <2>1, <2>3, <2>5, <3>1
        <4>2. k # i => /\ configs[k].desc # configs[i].desc
                       /\ configs[k].mac # configs[i].mac \/ configs[k].mac = ""
          BY <3>1 DEF DistinctRows
        <4> QED
          BY <2>1, <4>1, <4>2 DEF Matches
      <3>2. CASE k \in (c + 1)..Len(nics)
        <4>1. Alone(configs, d)
          BY <1>3, <2>5, <3>2
        <4> QED
          BY <2>1, <4>1 DEF Alone
      <3> QED
        BY <1>4, <3>1, <3>2
    <2>6. i \in 1..Len(nics)
      BY <1>4
    <2> QED
      BY <1>5, <2>2, <2>4, <2>5, <2>6 DEF ReportedOnce
  <1>7. CASE ~\E i \in 1..c : Matches(configs[i], d)
    <2>1. Alone(configs, d)
      BY <1>7 DEF Alone
    <2>2. PICK i \in (c + 1)..Len(nics) : nics[i].name = d.name
      BY <1>1, <2>1 DEF AppendedPart
    <2>3. nics[i].speed = d.speed /\ nics[i].mac = d.mac
      <3>1. PICK l \in 1..Len(details) :
               /\ nics[i].mac = details[l].mac
               /\ nics[i].name = details[l].name /\ nics[i].speed = details[l].speed
        BY <1>1 DEF AppendedPart
      <3>2. l = j
        BY <2>2, <3>1 DEF DistinctRows
      <3> QED
        BY <3>1, <3>2
    <2>4. reports(nics[i])
      BY <2>2, <2>3
    <2>5. ASSUME NEW k \in 1..Len(nics), reports(nics[k]) PROVE k = i
      <3>1. CASE k \in 1..c
        BY <1>2, <1>7, <2>5, <3>1
      <3>2. CASE k \in (c + 1)..Len(nics)
        <4>1. nics[k].name = nics[i].name
          BY <1>3, <2>2, <2>5, <3>2
        <4> QED
          BY <1>1, <3>2, <4>1 DEF AppendedPart
      <3> QED
        BY <1>4, <3>1, <3>2
    <2>6. i \in 1..Len(nics)
      BY <1>4
    <2> QED
      BY <1>5, <2>2, <2>3, <2>4, <2>5, <2>6 DEF ReportedOnce
  <1> QED
    BY <1>6, <1>7

LEMMA AdaptersOfNIC ==
    ASSUME NEW a, Rows(a.configs), Rows(a.details), DistinctRows(a.configs, a.details)
    PROVE  MergedInv(NIC(a), a.configs, a.details, Len(a.details))
  BY MergedAdapters DEF NIC

LEMMA DistinctCollected ==
    ASSUME NEW m, Rows(m.configs), Rows(m.details), DistinctAdapters(m)
    PROVE  DistinctRows(m.configs, m.details) /\ DistinctRows(<<>>, m.details)
  <1> DEFINE configs == m.configs
             details == m.details
  <1>1. DOMAIN details = 1..Len(details) /\ DOMAIN configs = 1..Len(configs)
    BY DEF Rows
  <1>2. /\ \A i, j \in DOMAIN details :
             i # j => /\ details[i].name # details[j].name
                      /\ details[i].mac # details[j].mac \/ details[i].mac = ""
        /\ \A i, j \in DOMAIN configs :
             i # j => /\ configs[i].desc # configs[j].desc
                      /\ configs[i].mac # configs[j].mac \/ configs[i].mac = ""
        /\ \A i \in DOMAIN configs, j \in DOMAIN details :
             configs[i].desc = details[j].name => configs[i].mac = details[j].mac
    BY Zenon DEF DistinctAdapters
  <1> HIDE DEF configs, details
  <1>3. DistinctRows(configs, details)
    BY <1>1, <1>2, Zenon DEF DistinctRows
  <1>4. 1..Len(<<>>) = {}
    OBVIOUS
  <1>5. DistinctRows(<<>>, details)
    BY <1>1, <1>2, <1>4, Zenon DEF DistinctRows
  <1> QED
    BY <1>3, <1>5 DEF configs, details

LEMMA CollectedNetwork ==
    ASSUME NEW m, NEW failed
    PROVE  Collect(m, failed).network = NIC(query(m, failed))
  BY DEF Collect

\* Every adapter Windows names is reported once, with its name and speed,
\* however many rows the two queries of collectNIC give and in whatever order,
\* and whether or not the query for the IP configurations failed.
THEOREM AdaptersReportedOnce == Spec => []AdapterOnce
  <1>1. CollectionInv => AdapterOnce
    <2> SUFFICES ASSUME CollectionInv, pc = "decide", DistinctAdapters(current.machine),
                        "details" \notin current.failed
                 PROVE  AdapterOnce
      BY DEF AdapterOnce
    <2>1. PICK m \in Machines, failed \in Failures, r \in Readings :
             current = Collection(m, failed, r)
      BY DEF CollectionInv, IsCollection
    <2>2. /\ current.machine = m /\ current.failed = failed
          /\ current.hardware = Collect(m, failed)
      BY <2>1 DEF Collection
    <2> DEFINE a == query(m, failed)
               nics == NIC(a)
    <2>3. current.hardware.network = nics
      BY <2>2, CollectedNetwork
    <2>4. /\ {"configs", "details"} \subseteq DOMAIN m
          /\ Rows(m.configs) /\ Rows(m.details)
      BY HardwareAssumption DEF SizesUnsigned
    <2>5. a.details = m.details /\ (a.configs = <<>> \/ a.configs = m.configs)
      BY <2>2, <2>4 DEF query
    <2>6. Rows(<<>>)
      BY DEF Rows
    <2>7. Rows(a.configs) /\ Rows(a.details)
      BY <2>4, <2>5, <2>6
    <2>8. DistinctRows(a.configs, a.details)
      <3>1. DistinctRows(m.configs, m.details) /\ DistinctRows(<<>>, m.details)
        BY <2>2, <2>4, DistinctCollected
      <3> QED
        BY <2>5, <3>1
    <2> HIDE DEF a
    <2>9. MergedInv(nics, a.configs, a.details, Len(a.details))
      BY <2>7, <2>8, AdaptersOfNIC
    <2> HIDE DEF nics
    <2>10. /\ DOMAIN nics = 1..Len(nics) /\ DOMAIN a.details = 1..Len(a.details)
           /\ Len(a.configs) \in Nat /\ Len(a.details) \in Nat
      BY <2>7, <2>9 DEF MergedInv, Rows
    <2>11. \A j \in 1..Len(a.details) :
              a.details[j].name # "" => ReportedOnce(nics, a.details[j])
      BY <2>8, <2>9, <2>10, AdapterReported
    <2>12. \A j \in DOMAIN m.details :
              m.details[j].name # "" => ReportedOnce(nics, m.details[j])
      BY <2>5, <2>10, <2>11
    <2> QED
      BY <2>2, <2>3, <2>12 DEF AdapterOnce
  <1> QED
    BY <1>1, CollectionInvariance, PTL

-----------------------------------------------------------------------------
(***************************************************************************)
(* What the fingerprint leaves out.  Two collections for which the same    *)
(* queries failed are compared section by section: a section is the same   *)
(* if the rows behind it are, whatever their volatile columns hold.        *)
(***************************************************************************)

\* The columns that last, of the queries that also have volatile ones.
Lasting ==
    [system |-> {"name", "vendor", "model", "domain", "member", "ram"},
     os |-> {"id", "total"}, volumes |-> {"device", "fs", "kind", "size"},
     configs |-> {"desc", "mac", "dhcp"}, details |-> {"name", "mac", "speed"}]

\* The rows of a query are the same, in the same order, but for those columns.
SameRows(m, n, q) ==
    /\ q \in DOMAIN m /\ q \in DOMAIN n
    /\ IF q \in DOMAIN Lasting
         THEN /\ Len(m[q]) = Len(n[q])
              /\ \A i \in 1..Len(m[q]) :
                    \A c \in Lasting[q] : m[q][i][c] = n[q][i][c]
         ELSE m[q] = n[q]

\* The queries behind a section, on every machine: without an answer of
\* Win32_OperatingSystem the size of the memory comes from another query.
Sources(s) ==
    IF s = "disk" THEN {"volumes", "drives", "smart"}
    ELSE IF s = "memory" THEN {"memory", "os", "system"}
    ELSE Behind[s]

LEMMA EmptyRows == Rows(<<>>) /\ Len(<<>>) = 0
  BY DEF Rows

LEMMA SameAnswers ==
    ASSUME NEW m, NEW n, NEW failed, NEW q, SameRows(m, n, q)
    PROVE  SameRows(query(m, failed), query(n, failed), q)
  <1> DEFINE a == query(m, failed)
             b == query(n, failed)
  <1>1. q \in DOMAIN a /\ q \in DOMAIN b
    BY DEF SameRows, query
  <1>2. CASE q \in failed
    <2>1. a[q] = <<>> /\ b[q] = <<>>
      BY <1>2 DEF SameRows, query
    <2>2. Len(a[q]) = Len(b[q]) /\ 1..Len(a[q]) = {}
      BY <2>1, EmptyRows
    <2> HIDE DEF a, b
    <2>3. SameRows(a, b, q)
      BY <1>1, <2>1, <2>2 DEF SameRows
    <2> QED
      BY <2>3 DEF a, b
  <1>3. CASE q \notin failed
    <2>1. a[q] = m[q] /\ b[q] = n[q]
      BY <1>3 DEF SameRows, query
    <2> HIDE DEF a, b
    <2>2. SameRows(a, b, q)
      BY <1>1, <2>1 DEF SameRows
    <2> QED
      BY <2>2 DEF a, b
  <1> QED
    BY <1>2, <1>3

\* A query's answer is rows, if the machine's are.
LEMMA AnswerRows ==
    ASSUME NEW m \in Machines, NEW failed
    PROVE  LET a == query(m, failed)
           IN  /\ Rows(a.os) /\ Rows(a.system) /\ Rows(a.volumes)
               /\ Rows(a.configs) /\ Rows(a.details)
  <1>1. /\ {"os", "system", "volumes", "configs", "details"} \subseteq DOMAIN m
        /\ Rows(m.os) /\ Rows(m.system)
        /\ Rows(m.volumes) /\ Rows(m.configs) /\ Rows(m.details)
    BY HardwareAssumption DEF SizesUnsigned
  <1> DEFINE a == query(m, failed)
  <1>2. /\ a.os \in {<<>>, m.os} /\ a.system \in {<<>>, m.system}
        /\ a.volumes \in {<<>>, m.volumes} /\ a.configs \in {<<>>, m.configs}
        /\ a.details \in {<<>>, m.details}
    BY <1>1 DEF query
  <1> HIDE DEF a
  <1>3. /\ Rows(a.os) /\ Rows(a.system) /\ Rows(a.volumes)
        /\ Rows(a.configs) /\ Rows(a.details)
    BY <1>1, <1>2, EmptyRows
  <1> QED
    BY <1>3 DEF a

\* Rows are empty exactly when there are none.
LEMMA NoRows ==
    ASSUME NEW s, Rows(s) PROVE s = <<>> <=> Len(s) = 0
  <1>1. CASE Len(s) = 0
    <2>1. s = [i \in 1..0 |-> s[i]]
      BY <1>1 DEF Rows
    <2>2. 1..0 = {}
      OBVIOUS
    <2> QED
      BY <1>1, <2>1, <2>2
  <1>2. CASE s = <<>>
    BY <1>2, EmptyRows
  <1> QED
    BY <1>1, <1>2

-----------------------------------------------------------------------------
LEMMA SystemSame ==
    ASSUME NEW a, NEW b, Rows(a.system), Rows(b.system), SameRows(a, b, "system")
    PROVE  LET s == System(a) t == System(b)
           IN  /\ s.name = t.name /\ s.vendor = t.vendor /\ s.model = t.model
               /\ s.domain = t.domain /\ s.member = t.member /\ s.ram = t.ram
  <1> DEFINE x == a.system
             y == b.system
             zero == [name |-> "", vendor |-> "", model |-> "", domain |-> "",
                      member |-> FALSE, user |-> "", ram |-> 0]
  <1>1. "system" \in DOMAIN Lasting
    BY DEF Lasting
  <1>2. /\ Len(x) = Len(y)
        /\ \A i \in 1..Len(x) : \A c \in Lasting["system"] : x[i][c] = y[i][c]
    BY <1>1 DEF SameRows
  <1>3. Lasting["system"] = {"name", "vendor", "model", "domain", "member", "ram"}
    BY DEF Lasting
  <1>4. System(a) = First(x, zero) /\ System(b) = First(y, zero)
    BY DEF System
  <1>5. CASE x = <<>>
    <2>1. y = <<>>
      BY <1>2, <1>5, NoRows
    <2>2. System(a) = System(b)
      BY <1>4, <1>5, <2>1
    <2> QED
      BY <2>2
  <1>6. CASE x # <<>>
    <2>1. y # <<>> /\ Len(x) \in Nat /\ Len(x) # 0
      BY <1>2, <1>6, NoRows DEF Rows
    <2>2. System(a) = x[1] /\ System(b) = y[1]
      BY <1>4, <1>6, <2>1 DEF First
    <2>3. 1 \in 1..Len(x)
      BY <2>1
    <2>4. \A c \in {"name", "vendor", "model", "domain", "member", "ram"} :
             x[1][c] = y[1][c]
      BY <1>2, <1>3, <2>3
    <2> HIDE DEF x, y
    <2> QED
      BY <2>2, <2>4
  <1> QED
    BY <1>5, <1>6

\* The columns of Win32_OperatingSystem that are used.
LEMMA OsSame ==
    ASSUME NEW a, NEW b, Rows(a.os), Rows(b.os), SameRows(a, b, "os")
    PROVE  /\ First(a.os, [id |-> ""]).id = First(b.os, [id |-> ""]).id
           /\ LET zero == [total |-> 0, free |-> 0]
              IN  First(a.os, zero).total = First(b.os, zero).total
  <1> DEFINE x == a.os
             y == b.os
  <1>1. "os" \in DOMAIN Lasting
    BY DEF Lasting
  <1>2. /\ Len(x) = Len(y)
        /\ \A i \in 1..Len(x) : \A c \in Lasting["os"] : x[i][c] = y[i][c]
    BY <1>1 DEF SameRows
  <1>3. Lasting["os"] = {"id", "total"}
    BY DEF Lasting
  <1>4. CASE x = <<>>
    <2>1. y = <<>>
      BY <1>2, <1>4, NoRows
    <2> QED
      BY <1>4, <2>1 DEF First
  <1>5. CASE x # <<>>
    <2>1. y # <<>> /\ Len(x) \in Nat /\ Len(x) # 0
      BY <1>2, <1>5, NoRows DEF Rows
    <2>2. 1 \in 1..Len(x)
      BY <2>1
    <2>3. \A c \in {"id", "total"} : x[1][c] = y[1][c]
      BY <1>2, <1>3, <2>2
    <2>4. x[1].id = y[1].id /\ x[1].total = y[1].total
      BY <2>3
    <2> QED
      BY <1>5, <2>1, <2>4 DEF First
  <1> QED
    BY <1>4, <1>5

\* Two lists that are the same but for the volatile columns.
AlikeDevices(s, t) ==
    /\ Rows(s) /\ Rows(t) /\ Len(s) = Len(t)
    /\ \A i \in 1..Len(s) : stableDevice(s[i]) = stableDevice(t[i])

LEMMA AddVolumeSame ==
    ASSUME NEW s, NEW t, AlikeDevices(s.devices, t.devices), s.total = t.total,
           NEW v, NEW w,
           v.device = w.device, v.fs = w.fs, v.kind = w.kind, v.size = w.size
    PROVE  /\ AlikeDevices(AddVolume(s, v).devices, AddVolume(t, w).devices)
           /\ AddVolume(s, v).total = AddVolume(t, w).total
  <1>1. CASE ~(v.size > 0)
    <2>1. AddVolume(s, v) = s /\ AddVolume(t, w) = t
      BY <1>1 DEF AddVolume
    <2> QED
      BY <2>1
  <1>2. CASE v.size > 0
    <2> DEFINE D(x) == [device |-> x.device, fs |-> x.fs,
                        type |-> normalizeStorageType({}),
                        kind |-> driveTypeName(x.kind), size |-> x.size, free |-> x.free]
               s1 == s.devices
               t1 == t.devices
               s2 == Append(s1, D(v))
               t2 == Append(t1, D(w))
    <2>1. /\ AddVolume(s, v).devices = s2 /\ AddVolume(t, w).devices = t2
          /\ AddVolume(s, v).total = s.total + v.size
          /\ AddVolume(t, w).total = t.total + w.size
      BY <1>2 DEF AddVolume
    <2>2. stableDevice(D(v)) = stableDevice(D(w))
      BY DEF stableDevice
    <2> HIDE DEF D, s1, t1
    <2>3. Rows(s1) /\ Rows(t1) /\ Len(s1) = Len(t1) /\ Len(s1) \in Nat
      BY DEF s1, t1, AlikeDevices, Rows
    <2>4. /\ Rows(s2) /\ Len(s2) = Len(s1) + 1 /\ s2[Len(s1) + 1] = D(v)
          /\ \A i \in 1..Len(s1) : s2[i] = s1[i]
      BY <2>3, AppendRows
    <2>5. /\ Rows(t2) /\ Len(t2) = Len(s1) + 1 /\ t2[Len(s1) + 1] = D(w)
          /\ \A i \in 1..Len(s1) : t2[i] = t1[i]
      BY <2>3, AppendRows
    <2> HIDE DEF s2, t2
    <2>6. \A i \in 1..Len(s1) : stableDevice(s1[i]) = stableDevice(t1[i])
      BY DEF s1, t1, AlikeDevices
    <2>7. \A i \in 1..(Len(s1) + 1) : stableDevice(s2[i]) = stableDevice(t2[i])
      <3> SUFFICES ASSUME NEW i \in 1..(Len(s1) + 1)
                   PROVE  stableDevice(s2[i]) = stableDevice(t2[i])
        OBVIOUS
      <3>1. CASE i \in 1..Len(s1)
        BY <2>4, <2>5, <2>6, <3>1
      <3>2. CASE i = Len(s1) + 1
        BY <2>2, <2>4, <2>5, <3>2
      <3> QED
        BY <2>3, <3>1, <3>2
    <2>8. AlikeDevices(s2, t2)
      BY <2>4, <2>5, <2>7 DEF AlikeDevices
    <2> QED
      BY <2>1, <2>8
  <1> QED
    BY <1>1, <1>2

\* The devices and their total size, row by row.
LEMMA DisksSame ==
    ASSUME NEW v, NEW w, Len(v) \in Nat, Len(w) = Len(v),
           \A i \in 1..Len(v) : /\ v[i].device = w[i].device /\ v[i].fs = w[i].fs
                                /\ v[i].kind = w[i].kind /\ v[i].size = w[i].size
    PROVE  /\ AlikeDevices(LogicalDisks(v).devices, LogicalDisks(w).devices)
           /\ LogicalDisks(v).total = LogicalDisks(w).total
  <1>1. PICK s :
           /\ s = [n \in 0..Len(v) |->
                     IF n = 0 THEN [devices |-> <<>>, total |-> 0, free |-> 0]
                     ELSE AddVolume(s[n - 1], v[n])]
           /\ LogicalDisks(v) = s[Len(v)]
    BY DisksSteps
  <1>2. PICK t :
           /\ t = [n \in 0..Len(w) |->
                     IF n = 0 THEN [devices |-> <<>>, total |-> 0, free |-> 0]
                     ELSE AddVolume(t[n - 1], w[n])]
           /\ LogicalDisks(w) = t[Len(w)]
    BY DisksSteps
  <1> DEFINE Same(k) == /\ AlikeDevices(s[k].devices, t[k].devices)
                        /\ s[k].total = t[k].total
             T == {k \in Nat : k <= Len(v) => Same(k)}
  <1>3. 0 \in T
    <2>1. s[0].devices = <<>> /\ t[0].devices = <<>> /\ s[0].total = t[0].total
      BY <1>1, <1>2
    <2>2. AlikeDevices(<<>>, <<>>)
      BY EmptyRows DEF AlikeDevices
    <2> QED
      BY <2>1, <2>2
  <1>4. ASSUME NEW k \in T PROVE k + 1 \in T
    <2> SUFFICES ASSUME k + 1 <= Len(v) PROVE Same(k + 1)
      OBVIOUS
    <2>1. k \in Nat /\ Same(k)
      OBVIOUS
    <2>2. k + 1 \in 1..Len(v) /\ k + 1 \in 0..Len(v) /\ (k + 1) - 1 = k /\ k + 1 # 0
      BY <2>1
    <2>3. s[k + 1] = AddVolume(s[k], v[k + 1]) /\ t[k + 1] = AddVolume(t[k], w[k + 1])
      BY <1>1, <1>2, <2>2
    <2> QED
      BY <2>1, <2>2, <2>3, AddVolumeSame
  <1>5. T \in SUBSET Nat
    OBVIOUS
  <1>6. Len(v) \in T
    <2> HIDE DEF T
    <2> QED
      BY <1>3, <1>4, <1>5, Induction
  <1> QED
    BY <1>1, <1>2, <1>6

\* An adapter is a record of these columns.
NICColumns == {"name", "desc", "mac", "dhcp", "addr", "speed", "status"}
IsNIC(x) == x = [c \in NICColumns |-> x[c]]
SameNIC(x, y) ==
    /\ IsNIC(x) /\ IsNIC(y)
    /\ \A c \in NICColumns \ {"addr", "status"} : x[c] = y[c]
AlikeNICs(s, t) ==
    /\ Rows(s) /\ Rows(t) /\ Len(s) = Len(t)
    /\ \A i \in 1..Len(s) : SameNIC(s[i], t[i])

LEMMA StableNIC ==
    ASSUME NEW x, NEW y, SameNIC(x, y) PROVE stableNIC(x) = stableNIC(y)
  <1>1. ASSUME NEW z, IsNIC(z)
        PROVE  stableNIC(z) = [c \in NICColumns |->
                                 IF c \in {"addr", "status"} THEN "" ELSE z[c]]
    <2>1. DOMAIN z = NICColumns /\ z = [c \in DOMAIN z |-> z[c]]
      BY <1>1 DEF IsNIC
    <2>2. "addr" \in DOMAIN z /\ "status" \in DOMAIN z
      BY <2>1 DEF NICColumns
    <2> QED
      BY <2>1, <2>2 DEF stableNIC
  <1>2. \A c \in NICColumns : (IF c \in {"addr", "status"} THEN "" ELSE x[c]) =
                               (IF c \in {"addr", "status"} THEN "" ELSE y[c])
    BY DEF SameNIC
  <1> QED
    BY <1>1, <1>2 DEF SameNIC

\* One row of Win32_NetworkAdapter: what it matches does not depend on the
\* volatile columns.
LEMMA MergeSame ==
    ASSUME NEW s, NEW t, AlikeNICs(s, t),
           NEW d, NEW e, d.name = e.name, d.mac = e.mac, d.speed = e.speed
    PROVE  AlikeNICs(MergeDetail(s, d), MergeDetail(t, e))
  <1> DEFINE L == Len(s)
             U(x, r) == [x EXCEPT !.name = r.name, !.speed = r.speed,
                                  !.status = networkStatus(r.code)]
             N(r) == [name |-> r.name, desc |-> "", mac |-> r.mac, dhcp |-> FALSE,
                      addr |-> "", speed |-> r.speed, status |-> networkStatus(r.code)]
             s2 == MergeDetail(s, d)
             t2 == MergeDetail(t, e)
  <1>1. /\ Rows(s) /\ Rows(t) /\ Len(t) = L /\ L \in Nat
        /\ DOMAIN s = 1..L /\ DOMAIN t = 1..L
        /\ \A i \in 1..L : SameNIC(s[i], t[i])
    BY DEF AlikeNICs, Rows
  <1>2. \A i \in 1..L : Matches(s[i], d) <=> Matches(t[i], e)
    <2>1. \A i \in 1..L : s[i].mac = t[i].mac /\ s[i].desc = t[i].desc
      BY <1>1 DEF SameNIC, NICColumns
    <2> QED
      BY <2>1 DEF Matches
  <1>3. s2 = IF \E i \in 1..L : Matches(s[i], d)
               THEN [i \in 1..L |-> IF Matches(s[i], d) THEN U(s[i], d) ELSE s[i]]
             ELSE IF d.name # "" THEN Append(s, N(d)) ELSE s
    BY <1>1 DEF MergeDetail, Map
  <1>4. t2 = IF \E i \in 1..L : Matches(t[i], e)
               THEN [i \in 1..L |-> IF Matches(t[i], e) THEN U(t[i], e) ELSE t[i]]
             ELSE IF e.name # "" THEN Append(t, N(e)) ELSE t
    BY <1>1 DEF MergeDetail, Map
  <1>5. ASSUME NEW x, IsNIC(x), NEW r
        PROVE  U(x, r) = [c \in NICColumns |->
                            IF c = "name" THEN r.name ELSE IF c = "speed" THEN r.speed
                            ELSE IF c = "status" THEN networkStatus(r.code) ELSE x[c]]
    <2>1. DOMAIN x = NICColumns /\ x = [c \in DOMAIN x |-> x[c]]
      BY <1>5 DEF IsNIC
    <2>2. {"name", "speed", "status"} \subseteq DOMAIN x
      BY <2>1 DEF NICColumns
    <2> QED
      BY <2>1, <2>2
  <1>6. ASSUME NEW x, NEW y, SameNIC(x, y) PROVE SameNIC(U(x, d), U(y, e))
    <2> DEFINE ux == U(x, d)
               uy == U(y, e)
               F(z, r) == [c \in NICColumns |->
                             IF c = "name" THEN r.name ELSE IF c = "speed" THEN r.speed
                             ELSE IF c = "status" THEN networkStatus(r.code) ELSE z[c]]
    <2>1. ux = F(x, d) /\ uy = F(y, e)
      BY <1>5, <1>6 DEF SameNIC
    <2> HIDE DEF ux, uy
    <2>2. SameNIC(ux, uy)
      BY <1>6, <2>1 DEF SameNIC, IsNIC
    <2> QED
      BY <2>2 DEF ux, uy
  <1>7. SameNIC(N(d), N(e))
    <2>1. ASSUME NEW r PROVE IsNIC(N(r))
      <3> DEFINE n == N(r)
      <3>1. DOMAIN n = NICColumns
        BY DEF NICColumns
      <3>2. n = [c \in DOMAIN n |-> n[c]]
        OBVIOUS
      <3> HIDE DEF n
      <3>3. IsNIC(n)
        BY <3>1, <3>2 DEF IsNIC
      <3> QED
        BY <3>3 DEF n
    <2>2. /\ N(d).name = N(e).name /\ N(d).desc = N(e).desc /\ N(d).mac = N(e).mac
          /\ N(d).dhcp = N(e).dhcp /\ N(d).speed = N(e).speed
      OBVIOUS
    <2> HIDE DEF N
    <2>3. \A c \in NICColumns \ {"addr", "status"} : N(d)[c] = N(e)[c]
      BY <2>2 DEF NICColumns
    <2> QED
      BY <2>1, <2>3 DEF SameNIC
  <1> HIDE DEF U, N, s2, t2
  <1>8. CASE \E i \in 1..L : Matches(s[i], d)
    <2>1. \E i \in 1..L : Matches(t[i], e)
      BY <1>2, <1>8
    <2>2. /\ s2 = [i \in 1..L |-> IF Matches(s[i], d) THEN U(s[i], d) ELSE s[i]]
          /\ t2 = [i \in 1..L |-> IF Matches(t[i], e) THEN U(t[i], e) ELSE t[i]]
      BY <1>3, <1>4, <1>8, <2>1
    <2>3. s2 = [i \in 1..L |-> s2[i]] /\ t2 = [i \in 1..L |-> t2[i]]
      BY <2>2
    <2>4. Rows(s2) /\ Len(s2) = L /\ Rows(t2) /\ Len(t2) = L
      BY <1>1, <2>3, RowsFacts
    <2>5. ASSUME NEW i \in 1..L PROVE SameNIC(s2[i], t2[i])
      <3>1. CASE Matches(s[i], d)
        <4>1. s2[i] = U(s[i], d) /\ t2[i] = U(t[i], e)
          BY <1>2, <2>2, <3>1
        <4> QED
          BY <1>1, <1>6, <4>1
      <3>2. CASE ~Matches(s[i], d)
        <4>1. s2[i] = s[i] /\ t2[i] = t[i]
          BY <1>2, <2>2, <3>2
        <4> QED
          BY <1>1, <4>1
      <3> QED
        BY <3>1, <3>2
    <2>6. AlikeNICs(s2, t2)
      BY <2>4, <2>5 DEF AlikeNICs
    <2> QED
      BY <2>6 DEF s2, t2
  <1>9. CASE ~\E i \in 1..L : Matches(s[i], d)
    <2>1. ~\E i \in 1..L : Matches(t[i], e)
      BY <1>2, <1>9
    <2>2. CASE d.name = ""
      <3>1. s2 = s /\ t2 = t
        BY <1>3, <1>4, <1>9, <2>1, <2>2
      <3> QED
        BY <3>1 DEF s2, t2
    <2>3. CASE d.name # ""
      <3>1. s2 = Append(s, N(d)) /\ t2 = Append(t, N(e))
        BY <1>3, <1>4, <1>9, <2>1, <2>3
      <3>2. /\ Rows(s2) /\ Len(s2) = L + 1 /\ s2[L + 1] = N(d)
            /\ \A i \in 1..L : s2[i] = s[i]
        BY <1>1, <3>1, AppendRows
      <3>3. /\ Rows(t2) /\ Len(t2) = L + 1 /\ t2[L + 1] = N(e)
            /\ \A i \in 1..L : t2[i] = t[i]
        BY <1>1, <3>1, AppendRows
      <3>4. ASSUME NEW i \in 1..(L + 1) PROVE SameNIC(s2[i], t2[i])
        <4>1. CASE i \in 1..L
          BY <1>1, <3>2, <3>3, <4>1
        <4>2. CASE i = L + 1
          BY <1>7, <3>2, <3>3, <4>2
        <4> QED
          BY <1>1, <4>1, <4>2
      <3>5. AlikeNICs(s2, t2)
        BY <3>2, <3>3, <3>4 DEF AlikeNICs
      <3> QED
        BY <3>5 DEF s2, t2
    <2> QED
      BY <2>2, <2>3
  <1> QED
    BY <1>8, <1>9

LEMMA NetworkSame ==
    ASSUME NEW a, NEW b, Rows(a.configs), Rows(b.configs),
           Rows(a.details), Rows(b.details),
           SameRows(a, b, "configs"), SameRows(a, b, "details")
    PROVE  AlikeNICs(NIC(a), NIC(b))
  <1> DEFINE L == Len(a.configs)
             K == Len(a.details)
             x == Map(a.configs, Configured)
             y == Map(b.configs, Configured)
  <1>1. /\ "configs" \in DOMAIN Lasting /\ "details" \in DOMAIN Lasting
        /\ Lasting["configs"] = {"desc", "mac", "dhcp"}
        /\ Lasting["details"] = {"name", "mac", "speed"}
    BY DEF Lasting
  <1>2. /\ L \in Nat /\ Len(b.configs) = L
        /\ \A i \in 1..L : \A c \in {"desc", "mac", "dhcp"} :
              a.configs[i][c] = b.configs[i][c]
    BY <1>1 DEF SameRows, Rows
  <1>3. /\ K \in Nat /\ Len(b.details) = K
        /\ \A i \in 1..K : \A c \in {"name", "mac", "speed"} :
              a.details[i][c] = b.details[i][c]
    BY <1>1 DEF SameRows, Rows
  <1>4. AlikeNICs(x, y)
    <2>1. DOMAIN a.configs = 1..L /\ DOMAIN b.configs = 1..L
      BY <1>2 DEF Rows
    <2>2. /\ x = [i \in 1..L |-> Configured(a.configs[i])]
          /\ y = [i \in 1..L |-> Configured(b.configs[i])]
      BY <2>1 DEF Map
    <2> HIDE DEF x, y
    <2>3. x = [i \in 1..L |-> x[i]] /\ y = [i \in 1..L |-> y[i]]
      BY <2>2
    <2>4. Rows(x) /\ Len(x) = L /\ Rows(y) /\ Len(y) = L
      BY <1>2, <2>3, RowsFacts
    <2>5. ASSUME NEW r PROVE IsNIC(Configured(r))
      <3> DEFINE n == Configured(r)
      <3>1. DOMAIN n = NICColumns
        BY DEF NICColumns, Configured
      <3>2. n = [c \in DOMAIN n |-> n[c]]
        BY DEF Configured
      <3> HIDE DEF n
      <3>3. IsNIC(n)
        BY <3>1, <3>2 DEF IsNIC
      <3> QED
        BY <3>3 DEF n
    <2>6. ASSUME NEW i \in 1..L PROVE SameNIC(x[i], y[i])
      <3> DEFINE c == a.configs[i]
                 e == b.configs[i]
      <3>1. c.desc = e.desc /\ c.mac = e.mac /\ c.dhcp = e.dhcp
        BY <1>2
      <3>2. x[i] = Configured(c) /\ y[i] = Configured(e)
        BY <2>2
      <3> HIDE DEF c, e
      <3>3. /\ x[i].name = y[i].name /\ x[i].desc = y[i].desc /\ x[i].mac = y[i].mac
            /\ x[i].dhcp = y[i].dhcp /\ x[i].speed = y[i].speed
        BY <3>1, <3>2 DEF Configured
      <3>4. IsNIC(x[i]) /\ IsNIC(y[i])
        BY <2>5, <3>2
      <3> QED
        BY <3>3, <3>4 DEF SameNIC, NICColumns
    <2> QED
      BY <2>4, <2>6 DEF AlikeNICs
  <1>5. PICK s :
           /\ s = [n \in 0..Len(a.details) |->
                     IF n = 0 THEN x ELSE MergeDetail(s[n - 1], a.details[n])]
           /\ Merged(x, a.details) = s[Len(a.details)]
    <2> HIDE DEF x, y
    <2> QED
      BY <1>3, MergedSteps
  <1>6. PICK t :
           /\ t = [n \in 0..Len(b.details) |->
                     IF n = 0 THEN y ELSE MergeDetail(t[n - 1], b.details[n])]
           /\ Merged(y, b.details) = t[Len(b.details)]
    <2> HIDE DEF x, y
    <2> QED
      BY <1>3, MergedSteps
  <1>7. NIC(a) = s[K] /\ NIC(b) = t[K]
    BY <1>3, <1>5, <1>6 DEF NIC
  <1> HIDE DEF x, y
  <1> DEFINE T == {k \in Nat : k <= K => AlikeNICs(s[k], t[k])}
  <1>8. 0 \in T
    <2>1. s[0] = x /\ t[0] = y
      BY <1>3, <1>5, <1>6
    <2> QED
      BY <1>4, <2>1
  <1>9. ASSUME NEW k \in T PROVE k + 1 \in T
    <2> SUFFICES ASSUME k + 1 <= K PROVE AlikeNICs(s[k + 1], t[k + 1])
      OBVIOUS
    <2>1. k \in Nat /\ AlikeNICs(s[k], t[k])
      BY <1>3
    <2>2. k + 1 \in 1..K /\ k + 1 \in 0..K /\ (k + 1) - 1 = k /\ k + 1 # 0
      BY <1>3, <2>1
    <2> DEFINE d == a.details[k + 1]
               e == b.details[k + 1]
    <2>3. s[k + 1] = MergeDetail(s[k], d) /\ t[k + 1] = MergeDetail(t[k], e)
      BY <1>3, <1>5, <1>6, <2>2
    <2>4. d.name = e.name /\ d.mac = e.mac /\ d.speed = e.speed
      BY <1>3, <2>2
    <2> HIDE DEF d, e
    <2> QED
      BY <2>1, <2>3, <2>4, MergeSame
  <1>10. T \in SUBSET Nat
    OBVIOUS
  <1>11. K \in T
    <2> HIDE DEF T
    <2> QED
      BY <1>3, <1>8, <1>9, <1>10, Induction
  <1> QED
    BY <1>3, <1>7, <1>11

-----------------------------------------------------------------------------
Columns == Sections \cup {"disk", "users"}

LEMMA Normalized ==
    ASSUME NEW h, DOMAIN h = Columns, h = [c \in DOMAIN h |-> h[c]]
    PROVE  LET g == normalizedHardware(h)
           IN  /\ DOMAIN g = Columns /\ g = [c \in DOMAIN g |-> g[c]]
               /\ g.users = <<>>
               /\ g.operatingSystem = [h.operatingSystem EXCEPT !.boot = 0]
               /\ g.memory = stableMemory(h.memory) /\ g.disk = stableDisk(h.disk)
               /\ g.storage = Sorted(h.storage, storageKey)
               /\ g.network = Sorted(Map(h.network, stableNIC), networkKey)
               /\ g.display = Sorted(h.display, nameKey)
               /\ g.gpu = Sorted(h.gpu, nameKey)
               /\ \A c \in {"general", "cpu", "motherboard", "bios", "security"} :
                     g[c] = h[c]
  <1> DEFINE g == normalizedHardware(h)
             os == [h.operatingSystem EXCEPT !.boot = 0]
             memory == stableMemory(h.memory)
             disk == stableDisk(h.disk)
             storage == Sorted(h.storage, storageKey)
             network == Sorted(Map(h.network, stableNIC), networkKey)
             display == Sorted(h.display, nameKey)
             gpu == Sorted(h.gpu, nameKey)
  <1>1. DOMAIN h = {"general", "operatingSystem", "cpu", "memory", "storage",
                    "network", "motherboard", "bios", "security", "display", "gpu",
                    "disk", "users"}
    BY DEF Columns, Sections
  <1>2. g = [h EXCEPT !.users = <<>>, !.operatingSystem = os, !.memory = memory,
                      !.disk = disk, !.storage = storage, !.network = network,
                      !.display = display, !.gpu = gpu]
    BY <1>1 DEF normalizedHardware
  <1> HIDE DEF g, os, memory, disk, storage, network, display, gpu
  <1>3. g = [c \in DOMAIN h |->
               IF c = "users" THEN <<>> ELSE IF c = "operatingSystem" THEN os
               ELSE IF c = "memory" THEN memory ELSE IF c = "disk" THEN disk
               ELSE IF c = "storage" THEN storage ELSE IF c = "network" THEN network
               ELSE IF c = "display" THEN display ELSE IF c = "gpu" THEN gpu ELSE h[c]]
    BY <1>1, <1>2
  <1>4. DOMAIN g = DOMAIN h /\ g = [c \in DOMAIN g |-> g[c]]
    BY <1>3
  <1>5. /\ g.users = <<>> /\ g.operatingSystem = os /\ g.memory = memory
        /\ g.disk = disk /\ g.storage = storage /\ g.network = network
        /\ g.display = display /\ g.gpu = gpu
        /\ \A c \in {"general", "cpu", "motherboard", "bios", "security"} : g[c] = h[c]
    BY <1>1, <1>3
  <1> QED
    BY <1>4, <1>5, Zenon DEF g, os, memory, disk, storage, network, display, gpu

\* Answers without volatile columns are the same altogether.
LEMMA OtherRows ==
    ASSUME NEW a, NEW b, NEW q, SameRows(a, b, q), q \notin DOMAIN Lasting
    PROVE  a[q] = b[q]
  BY DEF SameRows

LEMMA LastingQueries ==
    DOMAIN Lasting = {"system", "os", "volumes", "configs", "details"}
  BY DEF Lasting

LEMMA GeneralSame ==
    ASSUME NEW a, NEW b, Rows(a.system), Rows(b.system), SameRows(a, b, "system"),
           a.product = b.product, a.enclosure = b.enclosure, a.bios = b.bios
    PROVE  General(a) = General(b)
  <1>1. /\ System(a).name = System(b).name /\ System(a).vendor = System(b).vendor
        /\ System(a).model = System(b).model
    BY SystemSame
  <1> QED
    BY <1>1 DEF General

LEMMA StableOs ==
    ASSUME NEW c
    PROVE  [OperatingSystem(c) EXCEPT !.boot = 0] =
               [id |-> First(c.os, [id |-> ""]).id, boot |-> 0,
                domain |-> System(c).domain,
                workgroup |-> IF System(c).member THEN "" ELSE System(c).domain,
                zone |-> timezone(c)]
  <1> DEFINE o == OperatingSystem(c)
             w == IF System(c).member THEN "" ELSE System(c).domain
             g == [o EXCEPT !.boot = 0]
  <1>1. /\ DOMAIN o = {"id", "boot", "domain", "workgroup", "zone"}
        /\ o = [k \in DOMAIN o |-> o[k]]
    BY DEF OperatingSystem
  <1>2. /\ o.id = First(c.os, [id |-> ""]).id /\ o.domain = System(c).domain
        /\ o.workgroup = w /\ o.zone = timezone(c)
    BY DEF OperatingSystem
  <1> HIDE DEF o, w
  <1>3. g = [k \in DOMAIN o |-> IF k = "boot" THEN 0 ELSE o[k]]
    BY <1>1
  <1> HIDE DEF g
  <1>4. g = [id |-> o.id, boot |-> 0, domain |-> o.domain, workgroup |-> o.workgroup,
             zone |-> o.zone]
    BY <1>1, <1>3
  <1> QED
    BY <1>2, <1>4, Zenon DEF o, g, w

LEMMA OperatingSystemSame ==
    ASSUME NEW a, NEW b, Rows(a.system), Rows(b.system), SameRows(a, b, "system"),
           Rows(a.os), Rows(b.os), SameRows(a, b, "os"), a.zone = b.zone
    PROVE  [OperatingSystem(a) EXCEPT !.boot = 0] =
               [OperatingSystem(b) EXCEPT !.boot = 0]
  <1>1. System(a).domain = System(b).domain /\ System(a).member = System(b).member
    BY SystemSame
  <1>2. First(a.os, [id |-> ""]).id = First(b.os, [id |-> ""]).id
    BY OsSame
  <1>3. timezone(a) = timezone(b)
    BY DEF timezone
  <1> DEFINE w(c) == IF System(c).member THEN "" ELSE System(c).domain
  <1>4. w(a) = w(b)
    BY <1>1
  <1>5. ASSUME NEW c
        PROVE  [OperatingSystem(c) EXCEPT !.boot = 0] =
                   [id |-> First(c.os, [id |-> ""]).id, boot |-> 0,
                    domain |-> System(c).domain, workgroup |-> w(c),
                    zone |-> timezone(c)]
    BY StableOs
  <1> HIDE DEF w
  <1> QED
    BY <1>1, <1>2, <1>3, <1>4, <1>5

LEMMA StableModules ==
    ASSUME NEW c
    PROVE  stableMemory(RAM(c)) =
               [total |-> RAM(c).total, available |-> 0, used |-> 0,
                modules |-> Sorted(c.memory, memoryKey)]
  <1> DEFINE m == RAM(c)
             s == Sorted(m.modules, memoryKey)
             g == stableMemory(m)
  <1>1. /\ DOMAIN m = {"total", "available", "used", "modules"}
        /\ m = [k \in DOMAIN m |-> m[k]] /\ m.modules = c.memory
    BY DEF RAM, Modules
  <1> HIDE DEF m
  <1>2. g = [m EXCEPT !.available = 0, !.used = 0, !.modules = s]
    BY <1>1 DEF stableMemory
  <1>3. s = Sorted(c.memory, memoryKey)
    BY <1>1
  <1> HIDE DEF s, g
  <1>4. g = [total |-> m.total, available |-> 0, used |-> 0, modules |-> s]
    BY <1>1, <1>2
  <1> QED
    BY <1>3, <1>4, Zenon DEF g, m

LEMMA MemorySame ==
    ASSUME NEW a, NEW b, Rows(a.system), Rows(b.system), SameRows(a, b, "system"),
           Rows(a.os), Rows(b.os), SameRows(a, b, "os"), a.memory = b.memory
    PROVE  stableMemory(RAM(a)) = stableMemory(RAM(b))
  <1>1. System(a).ram = System(b).ram
    BY SystemSame
  <1>2. First(a.os, [total |-> 0, free |-> 0]).total =
            First(b.os, [total |-> 0, free |-> 0]).total
    BY OsSame
  <1>3. RAM(a).total = RAM(b).total
    BY <1>1, <1>2 DEF RAM
  <1>4. ASSUME NEW c
        PROVE  stableMemory(RAM(c)) =
                   [total |-> RAM(c).total, available |-> 0, used |-> 0,
                    modules |-> Sorted(c.memory, memoryKey)]
    BY StableModules
  <1>5. Sorted(a.memory, memoryKey) = Sorted(b.memory, memoryKey)
    OBVIOUS
  <1> QED
    BY <1>3, <1>4, <1>5

LEMMA StorageSame ==
    ASSUME NEW a, NEW b, a.drives = b.drives, a.smart = b.smart
    PROVE  Storage(a) = Storage(b)
  <1>1. collectSMARTStatus(a) = collectSMARTStatus(b)
    BY DEF collectSMARTStatus
  <1>2. SelectSeq(a.drives, LAMBDA d : d.size > 0) =
            SelectSeq(b.drives, LAMBDA d : d.size > 0)
    OBVIOUS
  <1> QED
    BY <1>1, <1>2 DEF Storage, Map

LEMMA SecuritySame ==
    ASSUME NEW a, NEW b, NEW failed,
           a.tpm = b.tpm, a.secureBoot = b.secureBoot, a.bitlocker = b.bitlocker,
           a.defender = b.defender, a.antispyOff = b.antispyOff, a.firewall = b.firewall
    PROVE  Security(a, failed) = Security(b, failed)
  BY DEF Security

\* The logical disks, and the drive that stands for them.
LEMMA DiskSame ==
    ASSUME NEW a, NEW b, Rows(a.volumes), Rows(b.volumes), SameRows(a, b, "volumes"),
           a.drives = b.drives, a.smart = b.smart
    PROVE  stableDisk(Disk(a)) = stableDisk(Disk(b))
  <1> DEFINE v == a.volumes
             w == b.volumes
             x == LogicalDisks(v).devices
             y == LogicalDisks(w).devices
  <1>1. /\ "volumes" \in DOMAIN Lasting
        /\ Lasting["volumes"] = {"device", "fs", "kind", "size"}
    BY DEF Lasting
  <1>2. /\ Len(v) \in Nat /\ Len(w) = Len(v)
        /\ \A i \in 1..Len(v) :
              \A c \in {"device", "fs", "kind", "size"} : v[i][c] = w[i][c]
    BY <1>1 DEF SameRows, Rows
  <1>3. \A i \in 1..Len(v) : /\ v[i].device = w[i].device /\ v[i].fs = w[i].fs
                             /\ v[i].kind = w[i].kind /\ v[i].size = w[i].size
    BY <1>2
  <1>4. AlikeDevices(x, y) /\ LogicalDisks(v).total = LogicalDisks(w).total
    <2> HIDE DEF v, w
    <2> QED
      BY <1>2, <1>3, DisksSame
  <1>5. Map(x, stableDevice) = Map(y, stableDevice)
    <2>1. /\ DOMAIN x = DOMAIN y
          /\ \A i \in DOMAIN x : stableDevice(x[i]) = stableDevice(y[i])
      BY <1>4 DEF AlikeDevices, Rows
    <2> HIDE DEF x, y
    <2> QED
      BY <2>1 DEF Map
  <1>6. Disk(a).drive = Disk(b).drive
    <2>1. Storage(a) = Storage(b)
      BY StorageSame
    <2> QED
      BY <2>1 DEF Disk
  <1>7. ASSUME NEW c
        PROVE  stableDisk(Disk(c)) =
                   [devices |-> Sorted(Map(LogicalDisks(c.volumes).devices, stableDevice),
                                       volumeKey),
                    total |-> LogicalDisks(c.volumes).total, free |-> 0, used |-> 0,
                    drive |-> Disk(c).drive]
    <2> DEFINE d == Disk(c)
               s == Sorted(Map(d.devices, stableDevice), volumeKey)
               g == stableDisk(d)
    <2>1. /\ DOMAIN d = {"devices", "total", "free", "used", "drive"}
          /\ d = [k \in DOMAIN d |-> d[k]]
          /\ d.devices = LogicalDisks(c.volumes).devices
          /\ d.total = LogicalDisks(c.volumes).total
      BY DEF Disk
    <2> HIDE DEF d
    <2>2. g = [d EXCEPT !.free = 0, !.used = 0, !.devices = s]
      BY <2>1 DEF stableDisk
    <2>3. s = Sorted(Map(LogicalDisks(c.volumes).devices, stableDevice), volumeKey)
      BY <2>1
    <2> HIDE DEF s, g
    <2>4. g = [devices |-> s, total |-> d.total, free |-> 0, used |-> 0, drive |-> d.drive]
      BY <2>1, <2>2
    <2>5. d.total = LogicalDisks(c.volumes).total
      BY <2>1
    <2> QED
      BY <2>3, <2>4, <2>5, Zenon DEF g, d
  <1>8. Sorted(Map(x, stableDevice), volumeKey) = Sorted(Map(y, stableDevice), volumeKey)
    BY <1>5
  <1> QED
    BY <1>4, <1>6, <1>7, <1>8

LEMMA NetworkStable ==
    ASSUME NEW x, NEW y, AlikeNICs(x, y)
    PROVE  Sorted(Map(x, stableNIC), networkKey) = Sorted(Map(y, stableNIC), networkKey)
  <1>1. DOMAIN x = DOMAIN y /\ \A i \in DOMAIN x : SameNIC(x[i], y[i])
    BY DEF AlikeNICs, Rows
  <1>2. \A i \in DOMAIN x : stableNIC(x[i]) = stableNIC(y[i])
    BY <1>1, StableNIC
  <1>3. Map(x, stableNIC) = Map(y, stableNIC)
    BY <1>1, <1>2 DEF Map
  <1> QED
    BY <1>3

-----------------------------------------------------------------------------
\* A collection and the answers it was made of, column by column.
Collects(h, a, failed) ==
    /\ DOMAIN h = Columns /\ h = [c \in DOMAIN h |-> h[c]]
    /\ h.general = General(a) /\ h.operatingSystem = OperatingSystem(a)
    /\ h.cpu = CPU(a) /\ h.memory = RAM(a) /\ h.disk = Disk(a)
    /\ h.storage = Storage(a) /\ h.network = NIC(a)
    /\ h.motherboard = Motherboard(a)
    /\ h.bios = First(a.bios, [id |-> "", serial |-> ""])
    /\ h.security = Security(a, failed)
    /\ h.display = a.monitors /\ h.gpu = a.gpus

LEMMA CollectedColumns ==
    ASSUME NEW m, NEW failed, NEW h, h = Collect(m, failed),
           NEW a, a = query(m, failed)
    PROVE  Collects(h, a, failed)
  <1>1. DOMAIN h = {"general", "operatingSystem", "cpu", "memory", "disk", "storage",
                    "network", "motherboard", "bios", "security", "display", "gpu",
                    "users"}
    BY DEF Collect
  <1>2. DOMAIN h = Columns
    BY <1>1 DEF Columns, Sections
  <1>3. h = [c \in DOMAIN h |-> h[c]]
    BY DEF Collect
  <1>4. /\ h.general = General(a) /\ h.operatingSystem = OperatingSystem(a)
        /\ h.cpu = CPU(a) /\ h.memory = RAM(a) /\ h.disk = Disk(a)
        /\ h.storage = Storage(a) /\ h.network = NIC(a)
        /\ h.motherboard = Motherboard(a)
        /\ h.bios = First(a.bios, [id |-> "", serial |-> ""])
        /\ h.security = Security(a, failed)
        /\ h.display = a.monitors /\ h.gpu = a.gpus
    BY DEF Collect
  <1> QED
    BY <1>2, <1>3, <1>4 DEF Collects

\* A section of the fingerprint is a function of the rows behind it, without
\* their volatile columns.
LEMMA SectionSame ==
    ASSUME NEW m \in Machines, NEW n \in Machines, NEW failed,
           NEW s \in Sections \cup {"disk"},
           \A q \in Sources(s) : SameRows(m, n, q)
    PROVE  normalizedHardware(Collect(m, failed))[s] =
               normalizedHardware(Collect(n, failed))[s]
  <1> DEFINE a == query(m, failed)
             b == query(n, failed)
             h == Collect(m, failed)
             k == Collect(n, failed)
             g == normalizedHardware(h)
             f == normalizedHardware(k)
             Same(q) == SameRows(a, b, q)
  <1>1. \A q \in Sources(s) : Same(q)
    BY SameAnswers
  <1>2. \A q : Same(q) /\ q \notin {"system", "os", "volumes", "configs", "details"} =>
              a[q] = b[q]
    <2> HIDE DEF a, b
    <2> QED
      BY OtherRows, LastingQueries
  <1>3. /\ Rows(a.os) /\ Rows(a.system) /\ Rows(a.volumes)
        /\ Rows(a.configs) /\ Rows(a.details)
    BY AnswerRows
  <1>4. /\ Rows(b.os) /\ Rows(b.system) /\ Rows(b.volumes)
        /\ Rows(b.configs) /\ Rows(b.details)
    BY AnswerRows
  <1> HIDE DEF g, f, Same
  <1>5. a = query(m, failed) /\ h = Collect(m, failed)
    OBVIOUS
  <1>6. b = query(n, failed) /\ k = Collect(n, failed)
    OBVIOUS
  <1> HIDE DEF a, b, h, k
  <1>7. Collects(h, a, failed)
    BY <1>5, CollectedColumns
  <1>8. Collects(k, b, failed)
    BY <1>6, CollectedColumns
  <1>9. /\ g.operatingSystem = [h.operatingSystem EXCEPT !.boot = 0]
        /\ g.memory = stableMemory(h.memory) /\ g.disk = stableDisk(h.disk)
        /\ g.storage = Sorted(h.storage, storageKey)
        /\ g.network = Sorted(Map(h.network, stableNIC), networkKey)
        /\ g.display = Sorted(h.display, nameKey)
        /\ g.gpu = Sorted(h.gpu, nameKey)
        /\ \A c \in {"general", "cpu", "motherboard", "bios", "security"} : g[c] = h[c]
    BY <1>7, Normalized, Zenon DEF g, Collects
  <1>10. /\ f.operatingSystem = [k.operatingSystem EXCEPT !.boot = 0]
        /\ f.memory = stableMemory(k.memory) /\ f.disk = stableDisk(k.disk)
        /\ f.storage = Sorted(k.storage, storageKey)
        /\ f.network = Sorted(Map(k.network, stableNIC), networkKey)
        /\ f.display = Sorted(k.display, nameKey)
        /\ f.gpu = Sorted(k.gpu, nameKey)
        /\ \A c \in {"general", "cpu", "motherboard", "bios", "security"} : f[c] = k[c]
    BY <1>8, Normalized, Zenon DEF f, Collects
  <1>11. CASE s = "general"
    <2>1. Sources(s) = {"system", "product", "enclosure", "bios"}
      BY <1>11 DEF Sources, Behind
    <2>2. Same("system") /\ Same("product") /\ Same("enclosure") /\ Same("bios")
      BY <1>1, <2>1
    <2>3. a.product = b.product /\ a.enclosure = b.enclosure /\ a.bios = b.bios
      BY <1>2, <2>2
    <2>4. General(a) = General(b)
      BY <1>3, <1>4, <2>2, <2>3, GeneralSame DEF Same
    <2>5. g[s] = f[s]
      BY <1>7, <1>8, <1>9, <1>10, <1>11, <2>4 DEF Collects
    <2> QED
      BY <2>5 DEF g, f, h, k
  <1>12. CASE s = "operatingSystem"
    <2>1. Sources(s) = {"os", "system", "zone"}
      BY <1>12 DEF Sources, Behind
    <2>2. Same("os") /\ Same("system") /\ Same("zone")
      BY <1>1, <2>1
    <2>3. a.zone = b.zone
      BY <1>2, <2>2
    <2>4. [OperatingSystem(a) EXCEPT !.boot = 0] = [OperatingSystem(b) EXCEPT !.boot = 0]
      BY <1>3, <1>4, <2>2, <2>3, OperatingSystemSame DEF Same
    <2>5. h.operatingSystem = OperatingSystem(a) /\ k.operatingSystem = OperatingSystem(b)
      BY <1>7, <1>8 DEF Collects
    <2>6. g.operatingSystem = f.operatingSystem
      BY <1>9, <1>10, <2>4, <2>5
    <2> QED
      BY <1>12, <2>6 DEF g, f, h, k
  <1>13. CASE s = "cpu"
    <2>1. Sources(s) = {"processors"}
      BY <1>13 DEF Sources, Behind
    <2>2. a.processors = b.processors
      BY <1>1, <1>2, <2>1
    <2>3. CPU(a) = CPU(b)
      BY <2>2 DEF CPU
    <2>4. g[s] = f[s]
      BY <1>7, <1>8, <1>9, <1>10, <1>13, <2>3 DEF Collects
    <2> QED
      BY <2>4 DEF g, f, h, k
  <1>14. CASE s = "memory"
    <2>1. Sources(s) = {"memory", "os", "system"}
      BY <1>14 DEF Sources
    <2>2. Same("memory") /\ Same("os") /\ Same("system")
      BY <1>1, <2>1
    <2>3. a.memory = b.memory
      BY <1>2, <2>2
    <2>4. stableMemory(RAM(a)) = stableMemory(RAM(b))
      BY <1>3, <1>4, <2>2, <2>3, MemorySame DEF Same
    <2>5. h.memory = RAM(a) /\ k.memory = RAM(b)
      BY <1>7, <1>8 DEF Collects
    <2>6. g.memory = f.memory
      BY <1>9, <1>10, <2>4, <2>5
    <2> QED
      BY <1>14, <2>6 DEF g, f, h, k
  <1>15. CASE s = "storage"
    <2>1. Sources(s) = {"drives", "smart"}
      BY <1>15 DEF Sources, Behind
    <2>2. a.drives = b.drives /\ a.smart = b.smart
      BY <1>1, <1>2, <2>1
    <2>3. h.storage = k.storage
      BY <1>7, <1>8, <2>2, StorageSame DEF Collects
    <2>4. g.storage = f.storage
      BY <1>9, <1>10, <2>3, Zenon
    <2> QED
      BY <1>15, <2>4 DEF g, f, h, k
  <1>16. CASE s = "disk"
    <2>1. Sources(s) = {"volumes", "drives", "smart"}
      BY <1>16 DEF Sources
    <2>2. Same("volumes") /\ Same("drives") /\ Same("smart")
      BY <1>1, <2>1
    <2>3. a.drives = b.drives /\ a.smart = b.smart
      BY <1>2, <2>2
    <2>4. stableDisk(Disk(a)) = stableDisk(Disk(b))
      BY <1>3, <1>4, <2>2, <2>3, DiskSame DEF Same
    <2>5. h.disk = Disk(a) /\ k.disk = Disk(b)
      BY <1>7, <1>8 DEF Collects
    <2>6. g.disk = f.disk
      BY <1>9, <1>10, <2>4, <2>5
    <2> QED
      BY <1>16, <2>6 DEF g, f, h, k
  <1>17. CASE s = "network"
    <2>1. Sources(s) = {"configs", "details"}
      BY <1>17 DEF Sources, Behind
    <2>2. Same("configs") /\ Same("details")
      BY <1>1, <2>1
    <2>3. AlikeNICs(NIC(a), NIC(b))
      BY <1>3, <1>4, <2>2, NetworkSame DEF Same
    <2>4. AlikeNICs(h.network, k.network)
      BY <1>7, <1>8, <2>3 DEF Collects
    <2>5. Sorted(Map(h.network, stableNIC), networkKey) =
              Sorted(Map(k.network, stableNIC), networkKey)
      BY <2>4, NetworkStable
    <2>6. g.network = f.network
      BY <1>9, <1>10, <2>5, Zenon
    <2> QED
      BY <1>17, <2>6 DEF g, f, h, k
  <1>18. CASE s = "motherboard"
    <2>1. Sources(s) = {"board"}
      BY <1>18 DEF Sources, Behind
    <2>2. a.board = b.board
      BY <1>1, <1>2, <2>1
    <2>3. Motherboard(a) = Motherboard(b)
      BY <2>2 DEF Motherboard
    <2>4. g[s] = f[s]
      BY <1>7, <1>8, <1>9, <1>10, <1>18, <2>3 DEF Collects
    <2> QED
      BY <2>4 DEF g, f, h, k
  <1>19. CASE s = "bios"
    <2>1. Sources(s) = {"bios"}
      BY <1>19 DEF Sources, Behind
    <2>2. a.bios = b.bios
      BY <1>1, <1>2, <2>1
    <2>3. g[s] = f[s]
      BY <1>7, <1>8, <1>9, <1>10, <1>19, <2>2 DEF Collects
    <2> QED
      BY <2>3 DEF g, f, h, k
  <1>20. CASE s = "security"
    <2>1. Sources(s) = {"tpm", "secureBoot", "bitlocker", "defender", "antispyOff",
                        "firewall"}
      BY <1>20 DEF Sources, Behind
    <2>2. /\ a.tpm = b.tpm /\ a.secureBoot = b.secureBoot /\ a.bitlocker = b.bitlocker
          /\ a.defender = b.defender /\ a.antispyOff = b.antispyOff
          /\ a.firewall = b.firewall
      BY <1>1, <1>2, <2>1
    <2>3. Security(a, failed) = Security(b, failed)
      BY <2>2, SecuritySame
    <2>4. g[s] = f[s]
      BY <1>7, <1>8, <1>9, <1>10, <1>20, <2>3 DEF Collects
    <2> QED
      BY <2>4 DEF g, f, h, k
  <1>21. CASE s = "display"
    <2>1. Sources(s) = {"monitors"}
      BY <1>21 DEF Sources, Behind
    <2>2. h.display = k.display
      BY <1>1, <1>2, <1>7, <1>8, <2>1 DEF Collects
    <2>3. g.display = f.display
      BY <1>9, <1>10, <2>2, Zenon
    <2> QED
      BY <1>21, <2>3 DEF g, f, h, k
  <1>22. CASE s = "gpu"
    <2>1. Sources(s) = {"gpus"}
      BY <1>22 DEF Sources, Behind
    <2>2. h.gpu = k.gpu
      BY <1>1, <1>2, <1>7, <1>8, <2>1 DEF Collects
    <2>3. g.gpu = f.gpu
      BY <1>9, <1>10, <2>2, Zenon
    <2> QED
      BY <1>22, <2>3 DEF g, f, h, k
  <1> QED
    BY <1>11, <1>12, <1>13, <1>14, <1>15, <1>16, <1>17, <1>18, <1>19, <1>20, <1>21,
       <1>22 DEF Sections

LEMMA NormalizedCollected ==
    ASSUME NEW m, NEW failed, NEW h, h = Collect(m, failed),
           NEW g, g = normalizedHardware(h)
    PROVE  /\ DOMAIN h = Columns /\ h = [c \in DOMAIN h |-> h[c]]
           /\ DOMAIN g = Columns /\ g = [c \in DOMAIN g |-> g[c]]
           /\ g.users = <<>>
  <1>1. Collects(h, query(m, failed), failed)
    BY CollectedColumns
  <1>2. DOMAIN h = Columns /\ h = [c \in DOMAIN h |-> h[c]]
    BY <1>1 DEF Collects
  <1>3. DOMAIN g = Columns /\ g = [c \in DOMAIN g |-> g[c]] /\ g.users = <<>>
    BY <1>2, Normalized, Zenon
  <1> QED
    BY <1>2, <1>3

-----------------------------------------------------------------------------
\* The same queries failed in both collections.
AlikeCollected == Deciding /\ current.failed = stored.failed

\* Every section the changes name has a query behind it whose rows changed in
\* a column that lasts.
ChangesFromRows ==
    AlikeCollected =>
        \A s \in Changes :
            \E q \in Sources(s) : ~SameRows(current.machine, stored.machine, q)

\* The rows behind every part of the fingerprint are the same but for their
\* volatile columns.
OnlyVolatile ==
    \A s \in Sections \cup {"disk"} :
        \A q \in Sources(s) : SameRows(current.machine, stored.machine, q)

\* A machine of which only the volatile columns changed is not uploaded again.
VolatileColumnsSkipped == AlikeCollected /\ OnlyVolatile => Unchanged

\* Both collections, and their parts.
LEMMA BothCollected ==
    ASSUME CollectionInv, Deciding
    PROVE  /\ stored # None /\ stored.hardware # None
           /\ current.machine \in Machines /\ stored.machine \in Machines
           /\ current.hardware = Collect(current.machine, current.failed)
           /\ stored.hardware = Collect(stored.machine, stored.failed)
  <1>1. ASSUME NEW x, IsCollection(x)
        PROVE  /\ x.machine \in Machines /\ x.hardware # None
               /\ x.hardware = Collect(x.machine, x.failed)
    <2>1. PICK m \in Machines, failed \in Failures, r \in Readings :
             x = Collection(m, failed, r)
      BY <1>1 DEF IsCollection
    <2>2. x.machine = m /\ x.failed = failed /\ x.hardware = Collect(m, failed)
      BY <2>1 DEF Collection
    <2>3. None # Collect(m, failed)
      BY HardwareAssumption DEF NoneIsNoCollection
    <2> QED
      BY <2>2, <2>3
  <1>2. IsCollection(current) /\ IsCollection(stored) /\ stored # None
    BY DEF CollectionInv, Deciding
  <1> QED
    BY <1>1, <1>2

\* No change is reported that nothing behind it explains: for every machine
\* and whatever queries failed, as long as the same ones failed both times, a
\* section DiffHardware names has a query behind it whose rows differ in more
\* than free space, addresses, link states, boot time and the user.
THEOREM ChangesAreReal == Spec => []ChangesFromRows
  <1>1. CollectionInv => ChangesFromRows
    <2> SUFFICES ASSUME CollectionInv, AlikeCollected, NEW s \in Changes,
                        \A q \in Sources(s) : SameRows(current.machine, stored.machine, q)
                 PROVE  FALSE
      BY DEF ChangesFromRows
    <2> DEFINE m == current.machine
               n == stored.machine
               failed == current.failed
    <2>1. /\ stored # None /\ m \in Machines /\ n \in Machines
          /\ current.hardware = Collect(m, failed)
          /\ stored.hardware = Collect(n, failed)
      BY BothCollected DEF AlikeCollected
    <2>2. stored.hardware # None
      BY BothCollected DEF AlikeCollected
    <2>3. /\ s \in Sections
          /\ normalizedHardware(Collect(n, failed))[s] #
                 normalizedHardware(Collect(m, failed))[s]
      BY <2>1, <2>2 DEF Changes, DiffHardware
    <2> HIDE DEF m, n, failed
    <2>4. \A q \in Sources(s) : SameRows(m, n, q)
      BY DEF m, n
    <2> QED
      BY <2>1, <2>3, <2>4, SectionSame
  <1> QED
    BY <1>1, CollectionInvariance, PTL

\* The fingerprint leaves out what changes on an unchanged machine: for every
\* machine and whatever queries failed, as long as the same ones failed both
\* times, other users, addresses, link states, boot times and free space alone
\* make RunOnce skip the upload.
THEOREM VolatileNeverUploaded == Spec => []VolatileColumnsSkipped
  <1>1. CollectionInv => VolatileColumnsSkipped
    <2> SUFFICES ASSUME CollectionInv, AlikeCollected, OnlyVolatile PROVE Unchanged
      BY DEF VolatileColumnsSkipped
    <2> DEFINE m == current.machine
               n == stored.machine
               failed == current.failed
               g == normalizedHardware(Collect(m, failed))
               f == normalizedHardware(Collect(n, failed))
    <2>1. /\ stored # None /\ m \in Machines /\ n \in Machines
          /\ current.hardware = Collect(m, failed)
          /\ stored.hardware = Collect(n, failed)
      BY BothCollected DEF AlikeCollected
    <2>2. \A s \in Sections \cup {"disk"} : \A q \in Sources(s) : SameRows(m, n, q)
      BY DEF OnlyVolatile
    <2> HIDE DEF m, n, failed
    <2>3. \A s \in Sections \cup {"disk"} : g[s] = f[s]
      BY <2>1, <2>2, SectionSame
    <2>4. /\ DOMAIN g = Columns /\ g = [c \in DOMAIN g |-> g[c]] /\ g.users = <<>>
          /\ DOMAIN f = Columns /\ f = [c \in DOMAIN f |-> f[c]] /\ f.users = <<>>
      BY NormalizedCollected
    <2> HIDE DEF g, f
    <2>5. \A c \in Columns : g[c] = f[c]
      BY <2>3, <2>4 DEF Columns
    <2>6. g = f
      BY <2>4, <2>5
    <2> QED
      BY <2>1, <2>6 DEF Unchanged, Fingerprint, g, f
  <1> QED
    BY <1>1, CollectionInvariance, PTL

-----------------------------------------------------------------------------
\* DiffHardware names something exactly when the fingerprint changed, but for
\* the logical disks, which it does not compare.
NamedButDisks ==
    Deciding =>
        (Unchanged <=>
            /\ Changes = {}
            /\ stableDisk(current.hardware.disk) = stableDisk(stored.hardware.disk))

\* A query that both collections got an answer of, one with rows each time.
Answered(q) ==
    q \in (DOMAIN current.machine \cap DOMAIN stored.machine) \
              (current.failed \cup stored.failed)
HasRow(q) ==
    Answered(q) /\ current.machine[q] # <<>> /\ stored.machine[q] # <<>>

\* What a skipped snapshot shows of two machines: the same memory modules,
\* monitors and GPUs, and the same identities.
SkippedItemsSame ==
    Deciding /\ Unchanged =>
        LET m == current.machine
            n == stored.machine
        IN  /\ Answered("memory") =>
                  Sorted(m.memory, memoryKey) = Sorted(n.memory, memoryKey)
            /\ Answered("monitors") =>
                  Sorted(m.monitors, nameKey) = Sorted(n.monitors, nameKey)
            /\ Answered("gpus") => Sorted(m.gpus, nameKey) = Sorted(n.gpus, nameKey)
            /\ HasRow("product") => /\ m.product[1].uuid = n.product[1].uuid
                                    /\ m.product[1].name = n.product[1].name
            /\ HasRow("enclosure") => m.enclosure[1].tag = n.enclosure[1].tag
            /\ HasRow("os") => m.os[1].id = n.os[1].id
            /\ HasRow("board") => m.board[1] = n.board[1]
            /\ HasRow("bios") => m.bios[1] = n.bios[1]
            /\ HasRow("tpm") => /\ m.tpm[1].on = n.tpm[1].on
                                /\ m.tpm[1].spec = n.tpm[1].spec

\* The change list and the fingerprint agree but for the logical disks: an
\* upload without a named change comes from the disks alone, and a skipped run
\* never drops a named change, whichever queries failed in either run.
THEOREM ChangesMissOnlyDisks == Spec => []NamedButDisks
  <1>1. CollectionInv => NamedButDisks
    <2> DEFINE h == current.hardware
               k == stored.hardware
               g == normalizedHardware(h)
               f == normalizedHardware(k)
    <2> SUFFICES ASSUME CollectionInv, Deciding
                 PROVE  Unchanged <=> Changes = {} /\ stableDisk(h.disk) = stableDisk(k.disk)
      BY DEF NamedButDisks
    <2>1. stored # None /\ k # None
      BY BothCollected
    <2>2. Unchanged <=> f = g
      BY <2>1 DEF Unchanged, Fingerprint
    <2>3. Changes = {s \in Sections : f[s] # g[s]}
      BY <2>1 DEF Changes, DiffHardware
    <2>4. /\ h = Collect(current.machine, current.failed)
          /\ k = Collect(stored.machine, stored.failed)
      BY BothCollected
    <2> HIDE DEF h, k
    <2>5. /\ DOMAIN h = Columns /\ h = [c \in DOMAIN h |-> h[c]]
          /\ DOMAIN g = Columns /\ g = [c \in DOMAIN g |-> g[c]] /\ g.users = <<>>
      BY <2>4, NormalizedCollected
    <2>6. /\ DOMAIN k = Columns /\ k = [c \in DOMAIN k |-> k[c]]
          /\ DOMAIN f = Columns /\ f = [c \in DOMAIN f |-> f[c]] /\ f.users = <<>>
      BY <2>4, NormalizedCollected
    <2>7. g.disk = stableDisk(h.disk)
      BY <2>5, Normalized, Zenon
    <2>8. f.disk = stableDisk(k.disk)
      BY <2>6, Normalized, Zenon
    <2> HIDE DEF g, f
    <2>9. f = g <=> \A c \in Columns : f[c] = g[c]
      BY <2>5, <2>6
    <2>10. (\A c \in Columns : f[c] = g[c]) <=>
               (\A s \in Sections : f[s] = g[s]) /\ f.disk = g.disk
      BY <2>5, <2>6 DEF Columns
    <2>11. Changes = {} <=> \A s \in Sections : f[s] = g[s]
      BY <2>3
    <2> QED
      BY <2>2, <2>7, <2>8, <2>9, <2>10, <2>11
  <1> QED
    BY <1>1, CollectionInvariance, PTL

\* A skipped snapshot hides no change of these items: whatever the rest of the
\* machine and whichever queries failed, the memory modules, monitors and GPUs
\* that both runs got are the same, and so are the identities both runs read.
THEOREM SkippedSame == Spec => []SkippedItemsSame
  <1>1. CollectionInv => SkippedItemsSame
    <2> DEFINE m == current.machine
               n == stored.machine
               a == query(m, current.failed)
               b == query(n, stored.failed)
               h == current.hardware
               k == stored.hardware
               g == normalizedHardware(h)
               f == normalizedHardware(k)
    <2>1. SUFFICES ASSUME CollectionInv, Deciding, Unchanged
                   PROVE  SkippedItemsSame
      BY DEF SkippedItemsSame
    <2>2. h = Collect(m, current.failed) /\ k = Collect(n, stored.failed)
      BY <2>1, BothCollected
    <2>3. g = f
      BY <2>1 DEF Unchanged, Fingerprint
    <2>4. \A q : Answered(q) => a[q] = m[q] /\ b[q] = n[q]
      BY DEF Answered, query
    <2>5. \A q : HasRow(q) => /\ a[q] # <<>> /\ a[q][1] = m[q][1]
                              /\ b[q] # <<>> /\ b[q][1] = n[q][1]
      BY <2>4 DEF HasRow
    <2>6. a = query(m, current.failed) /\ b = query(n, stored.failed)
      OBVIOUS
    <2> HIDE DEF m, n, a, b, h, k
    <2>7. Collects(h, a, current.failed) /\ Collects(k, b, stored.failed)
      BY <2>2, <2>6, CollectedColumns
    <2>8. /\ DOMAIN h = Columns /\ h = [c \in DOMAIN h |-> h[c]]
          /\ DOMAIN k = Columns /\ k = [c \in DOMAIN k |-> k[c]]
      BY <2>7 DEF Collects
    <2>9. /\ g.operatingSystem = [h.operatingSystem EXCEPT !.boot = 0]
          /\ g.memory = stableMemory(h.memory)
          /\ g.display = Sorted(h.display, nameKey) /\ g.gpu = Sorted(h.gpu, nameKey)
          /\ \A c \in {"general", "cpu", "motherboard", "bios", "security"} : g[c] = h[c]
      BY <2>8, Normalized, Zenon
    <2>10. /\ f.operatingSystem = [k.operatingSystem EXCEPT !.boot = 0]
           /\ f.memory = stableMemory(k.memory)
           /\ f.display = Sorted(k.display, nameKey) /\ f.gpu = Sorted(k.gpu, nameKey)
           /\ \A c \in {"general", "cpu", "motherboard", "bios", "security"} : f[c] = k[c]
      BY <2>8, Normalized, Zenon
    <2> HIDE DEF g, f
    <2>11. Answered("monitors") => Sorted(m.monitors, nameKey) = Sorted(n.monitors, nameKey)
      <3> SUFFICES ASSUME Answered("monitors")
                   PROVE  Sorted(m.monitors, nameKey) = Sorted(n.monitors, nameKey)
        OBVIOUS
      <3>1. h.display = m.monitors /\ k.display = n.monitors
        BY <2>4, <2>7 DEF Collects
      <3>2. Sorted(h.display, nameKey) = Sorted(k.display, nameKey)
        BY <2>3, <2>9, <2>10, Zenon
      <3> QED
        BY <3>1, <3>2, Zenon
    <2>12. Answered("gpus") => Sorted(m.gpus, nameKey) = Sorted(n.gpus, nameKey)
      <3> SUFFICES ASSUME Answered("gpus")
                   PROVE  Sorted(m.gpus, nameKey) = Sorted(n.gpus, nameKey)
        OBVIOUS
      <3>1. h.gpu = m.gpus /\ k.gpu = n.gpus
        BY <2>4, <2>7 DEF Collects
      <3>2. Sorted(h.gpu, nameKey) = Sorted(k.gpu, nameKey)
        BY <2>3, <2>9, <2>10, Zenon
      <3> QED
        BY <3>1, <3>2, Zenon
    <2>13. Answered("memory") => Sorted(m.memory, memoryKey) = Sorted(n.memory, memoryKey)
      <3> SUFFICES ASSUME Answered("memory")
                   PROVE  Sorted(m.memory, memoryKey) = Sorted(n.memory, memoryKey)
        OBVIOUS
      <3>1. stableMemory(RAM(a)).modules = Sorted(a.memory, memoryKey)
        BY StableModules
      <3>2. stableMemory(RAM(b)).modules = Sorted(b.memory, memoryKey)
        BY StableModules
      <3>3. h.memory = RAM(a) /\ k.memory = RAM(b)
        BY <2>7 DEF Collects
      <3>4. stableMemory(RAM(a)) = stableMemory(RAM(b))
        BY <2>3, <2>9, <2>10, <3>3
      <3>5. a.memory = m.memory /\ b.memory = n.memory
        BY <2>4
      <3>6. Sorted(a.memory, memoryKey) = Sorted(b.memory, memoryKey)
        BY <3>1, <3>2, <3>4, Zenon
      <3> QED
        BY <3>5, <3>6, Zenon
    <2>14. General(a) = General(b) /\ Motherboard(a) = Motherboard(b)
      BY <2>3, <2>7, <2>9, <2>10 DEF Collects
    <2>15. First(a.bios, [id |-> "", serial |-> ""]) =
               First(b.bios, [id |-> "", serial |-> ""])
      BY <2>3, <2>7, <2>9, <2>10 DEF Collects
    <2>16. Security(a, current.failed) = Security(b, stored.failed)
      BY <2>3, <2>7, <2>9, <2>10 DEF Collects
    <2>17. HasRow("product") => /\ m.product[1].uuid = n.product[1].uuid
                                /\ m.product[1].name = n.product[1].name
      BY <2>5, <2>14 DEF General, First
    <2>18. HasRow("enclosure") => m.enclosure[1].tag = n.enclosure[1].tag
      BY <2>5, <2>14 DEF General, First
    <2>19. HasRow("board") => m.board[1] = n.board[1]
      BY <2>5, <2>14 DEF Motherboard, Value, First
    <2>20. HasRow("bios") => m.bios[1] = n.bios[1]
      BY <2>5, <2>15 DEF First
    <2>21. HasRow("tpm") => m.tpm[1].on = n.tpm[1].on /\ m.tpm[1].spec = n.tpm[1].spec
      <3> SUFFICES ASSUME HasRow("tpm")
                   PROVE  m.tpm[1].on = n.tpm[1].on /\ m.tpm[1].spec = n.tpm[1].spec
        OBVIOUS
      <3>1. Security(a, current.failed).tpm =
                [available |-> TRUE, enabled |-> m.tpm[1].on, status |-> m.tpm[1].spec]
        BY <2>5 DEF Security
      <3>2. Security(b, stored.failed).tpm =
                [available |-> TRUE, enabled |-> n.tpm[1].on, status |-> n.tpm[1].spec]
        BY <2>5 DEF Security
      <3> QED
        BY <2>16, <3>1, <3>2
    <2>22. HasRow("os") => m.os[1].id = n.os[1].id
      <3> SUFFICES ASSUME HasRow("os") PROVE m.os[1].id = n.os[1].id
        OBVIOUS
      <3>1. [OperatingSystem(a) EXCEPT !.boot = 0] = [OperatingSystem(b) EXCEPT !.boot = 0]
        BY <2>3, <2>7, <2>9, <2>10 DEF Collects
      <3>2. OperatingSystem(a).id = OperatingSystem(b).id
        BY <3>1, StableOs
      <3> QED
        BY <2>5, <3>2 DEF OperatingSystem, First
    <2> QED
      BY <2>11, <2>12, <2>13, <2>17, <2>18, <2>19, <2>20, <2>21, <2>22, Zenon
         DEF SkippedItemsSame, m, n
  <1> QED
    BY <1>1, CollectionInvariance, PTL
=============================================================================
