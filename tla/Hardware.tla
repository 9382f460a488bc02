------------------------------ MODULE Hardware ------------------------------
(***************************************************************************)
(* internal/inventory: what a collection makes of the machine, which part  *)
(* of it the fingerprint is taken of, what the reported changes name and   *)
(* how the machine's health is judged.                                     *)
(*                                                                         *)
(* A machine is what Windows answers: for each query, the rows it gives,   *)
(* as a sequence, a registry value being a query with at most one row.     *)
(* Columns that are only copied together are one column, id.  Any query    *)
(* may fail; Collect ignores its error and goes on without rows.  The rows *)
(* of one machine may come in another order another time.  Snapshot models *)
(* the steps of RunOnce around this; here a run collects, and decides.     *)
(***************************************************************************)
EXTENDS Health

CONSTANTS Machines,  \* machines, or states of one
          Failures,  \* sets of queries that fail together
          Readings,  \* keys the heartbeat left: cpu, latency_ms, status
          Hostname,
          None

VARIABLES pc,      \* "idle", or "decide" when a collection is complete
          current, \* the collection in hand and what it was made of, or None
          stored   \* inventory_last_hardware, likewise, or None

vars == <<pc, current, stored>>

-----------------------------------------------------------------------------
\* query: the rows it leaves in its destination.
query(machine, failed) ==
    [q \in DOMAIN machine |-> IF q \in failed THEN <<>> ELSE machine[q]]

\* The first row, or the zero value of its type.
First(rows, zero) == IF rows = <<>> THEN zero ELSE rows[1]

\* registryString and the others: a value or its default.
Value(rows, default) == First(rows, default)

\* v, or another value where v is empty.
Or(v, other) == IF v = "" THEN other ELSE v

Map(rows, Op(_)) == [i \in DOMAIN rows |-> Op(rows[i])]

System(a) ==
    First(a.system, [name |-> "", vendor |-> "", model |-> "", domain |-> "",
                     member |-> FALSE, user |-> "", ram |-> 0])

General(a) ==
    LET product == First(a.product, [uuid |-> "", name |-> "", vendor |-> ""])
        enclosure == First(a.enclosure, [tag |-> "", serial |-> ""])
        bios == First(a.bios, [id |-> "", serial |-> ""])
    IN  [name |-> Or(System(a).name, Hostname), model |-> System(a).model,
         vendor |-> Or(System(a).vendor, product.vendor),
         uuid |-> product.uuid, product |-> product.name, tag |-> enclosure.tag,
         serial |-> Or(enclosure.serial, bios.serial)]

timezone(a) == Or(Value(a.zone, ""), "Local")

OperatingSystem(a) ==
    LET system == System(a)
    IN  [id |-> First(a.os, [id |-> ""]).id, boot |-> First(a.os, [boot |-> 0]).boot,
         domain |-> system.domain,
         workgroup |-> IF system.member THEN "" ELSE system.domain,
         zone |-> timezone(a)]

\* One CPU for all processors: the last one's identity, the sum of the cores.
CPU(a) ==
    FoldLeft(LAMBDA cpu, p : [id |-> p.id, cores |-> cpu.cores + p.cores,
                              clock |-> Max({cpu.clock, p.clock})],
             [id |-> "", cores |-> 0, clock |-> 0], a.processors)

Modules(a) == a.memory

\* Without an answer of Win32_OperatingSystem, the other total and no usage.
RAM(a) ==
    LET os == First(a.os, [total |-> 0, free |-> 0])
        available == IF os.total > 0 THEN os.free ELSE 0
    IN  [total |-> IF os.total > 0 THEN os.total ELSE System(a).ram,
         available |-> available,
         used |-> IF os.total > available THEN os.total - available ELSE 0,
         modules |-> Modules(a)]

\* normalizeStorageType, of the words that occur in media type and model.
normalizeStorageType(words) ==
    IF "nvme" \in words THEN "NVMe"
    ELSE IF words \cap {"ssd", "solid"} # {} THEN "SSD"
    ELSE IF words \cap {"hdd", "hard"} # {} THEN "HDD"
    ELSE "unknown"

collectSMARTStatus(a) ==
    IF a.smart = <<>> THEN "unknown"
    ELSE IF TRUE \in ToSet(a.smart) THEN "failure" ELSE "healthy"

\* Physical drives.
Storage(a) ==
    Map(SelectSeq(a.drives, LAMBDA d : d.size > 0),
        LAMBDA d : [device |-> d.device, type |-> normalizeStorageType(d.words),
                    model |-> d.model, serial |-> d.serial, health |-> d.status,
                    smart |-> collectSMARTStatus(a), size |-> d.size])

driveTypeName(kind) ==
    CASE kind = 3 -> "fixed" [] kind = 2 -> "removable" [] kind = 4 -> "network"
      [] kind = 5 -> "optical" [] OTHER -> "unknown"

\* A volume is a device, and its sizes are added up; an empty one is left out.
AddVolume(disks, v) ==
    IF v.size > 0
      THEN [devices |-> Append(disks.devices,
                               [device |-> v.device, fs |-> v.fs,
                                type |-> normalizeStorageType({}),
                                kind |-> driveTypeName(v.kind),
                                size |-> v.size, free |-> v.free]),
            total |-> disks.total + v.size, free |-> disks.free + v.free]
      ELSE disks

\* The logical disks after the rows of Win32_LogicalDisk.
LogicalDisks(volumes) ==
    LET disks[n \in 0..Len(volumes)] ==
          IF n = 0 THEN [devices |-> <<>>, total |-> 0, free |-> 0]
          ELSE AddVolume(disks[n - 1], volumes[n])
    IN  disks[Len(volumes)]

\* Logical disks, and the first drive that has a model (else the last drive).
\* No drive letter begins with the name of a drive, so that the devices here
\* never get a model.
Disk(a) ==
    LET disks == LogicalDisks(a.volumes)
        modelled == SelectSeq(Storage(a), LAMBDA d : d.model # "")
    IN  [devices |-> disks.devices, total |-> disks.total, free |-> disks.free,
         used |-> IF disks.free <= disks.total THEN disks.total - disks.free ELSE 0,
         drive |-> IF modelled # <<>> THEN modelled[1]
                   ELSE IF Storage(a) # <<>> THEN Storage(a)[Len(Storage(a))]
                   ELSE None]

-----------------------------------------------------------------------------
networkStatus(code) ==
    CASE code = 2 -> "up" [] code = 7 -> "down" [] OTHER -> "unknown"

\* An adapter and the row of its details are the same.
Matches(nic, detail) ==
    \/ detail.mac # "" /\ detail.mac = nic.mac
    \/ nic.desc # "" /\ detail.name = nic.desc

\* Mutant of MergeDetail: adapters are matched by their description only.
MergeByName(nics, detail) ==
    LET same(n) == n.desc # "" /\ detail.name = n.desc
        update(n) == [n EXCEPT !.name = detail.name, !.speed = detail.speed,
                               !.status = networkStatus(detail.code)]
    IN  IF \E i \in DOMAIN nics : same(nics[i])
          THEN Map(nics, LAMBDA n : IF same(n) THEN update(n) ELSE n)
          ELSE Append(nics, [name |-> detail.name, desc |-> "", mac |-> detail.mac,
                             dhcp |-> FALSE, addr |-> "", speed |-> detail.speed,
                             status |-> networkStatus(detail.code)])

\* A row of Win32_NetworkAdapter updates every adapter it matches; a named
\* one that matches none is appended.
MergeDetail(nics, detail) ==
    LET update(n) == [n EXCEPT !.name = detail.name, !.speed = detail.speed,
                               !.status = networkStatus(detail.code)]
    IN  IF \E i \in DOMAIN nics : Matches(nics[i], detail)
          THEN Map(nics, LAMBDA n : IF Matches(n, detail) THEN update(n) ELSE n)
        ELSE IF detail.name # ""
          THEN Append(nics, [name |-> detail.name, desc |-> "", mac |-> detail.mac,
                             dhcp |-> FALSE, addr |-> "", speed |-> detail.speed,
                             status |-> networkStatus(detail.code)])
        ELSE nics

\* The adapters after the rows of Win32_NetworkAdapter.
Merged(nics, details) ==
    LET merged[n \in 0..Len(details)] ==
          IF n = 0 THEN nics ELSE MergeDetail(merged[n - 1], details[n])
    IN  merged[Len(details)]

\* An adapter that has an IP configuration.
Configured(c) ==
    [name |-> c.desc, desc |-> c.desc, mac |-> c.mac, dhcp |-> c.dhcp,
     addr |-> c.addr, speed |-> 0, status |-> "up"]

NIC(a) == Merged(Map(a.configs, Configured), a.details)

boolStatus(enabled, available) ==
    IF ~available THEN "unknown" ELSE IF enabled THEN "enabled" ELSE "disabled"

State(available, enabled) ==
    [available |-> available, enabled |-> enabled,
     status |-> boolStatus(enabled, available)]

\* collectSecurity.  A volume query that gives no row leaves BitLocker
\* unavailable and "disabled", one that fails leaves no status.
Security(a, failed) ==
    LET protected == TRUE \in ToSet(a.bitlocker)
    IN  [tpm |-> IF a.tpm = <<>>
                   THEN [available |-> FALSE, enabled |-> FALSE, status |-> ""]
                   ELSE [available |-> TRUE, enabled |-> a.tpm[1].on,
                         status |-> a.tpm[1].spec],
         secureBoot |-> State(a.secureBoot # <<>>, Value(a.secureBoot, FALSE)),
         bitlocker |-> [available |-> a.bitlocker # <<>>, enabled |-> protected,
                        status |-> IF "bitlocker" \in failed THEN ""
                                   ELSE boolStatus(protected, TRUE)],
         defender |-> State(TRUE, Value(a.defender, ~Value(a.antispyOff, FALSE))),
         firewall |-> State(a.firewall # <<>>, Value(a.firewall, FALSE))]

Motherboard(a) == Value(a.board, "")

\* Collect, with RunOnce's default for the computer name.  Network repeats
\* NIC, and SerialNumber repeats General's.
Collect(machine, failed) ==
    LET a == query(machine, failed)
    IN  [general |-> General(a), operatingSystem |-> OperatingSystem(a),
         cpu |-> CPU(a), memory |-> RAM(a), disk |-> Disk(a),
         storage |-> Storage(a), network |-> NIC(a),
         motherboard |-> Motherboard(a),
         bios |-> First(a.bios, [id |-> "", serial |-> ""]),
         security |-> Security(a, failed), display |-> a.monitors, gpu |-> a.gpus,
         users |-> <<System(a).user,
                     Or(Value(a.lastUser, ""), Value(a.lastDisplayName, ""))>>]

-----------------------------------------------------------------------------
\* What is left of a device, an adapter: the volatile columns are cleared.
stableDevice(d) == [d EXCEPT !.free = 0]

\* Mutants of stableNIC: one column too few and one too many is cleared.
StatusKept(n) == [n EXCEPT !.addr = ""]
DhcpCleared(n) == [n EXCEPT !.addr = "", !.status = "", !.dhcp = FALSE]

stableNIC(n) == [n EXCEPT !.addr = "", !.status = ""]

memoryKey(m) == <<m.slot, m.part>>
storageKey(d) == <<d.device, d.serial, d.model>>
volumeKey(d) == d.device
networkKey(n) == <<n.mac, n.name>>
nameKey(r) == r.name

\* sort.Slice by a key, up to the order of the keys: the rows of each key.
\* Rows with equal keys stay in the order they came in (these lists are
\* short enough for Go's insertion sort).
Sorted(rows, Key(_)) ==
    [k \in {Key(rows[i]) : i \in DOMAIN rows} |->
        SelectSeq(rows, LAMBDA r : Key(r) = k)]

stableMemory(m) ==
    [m EXCEPT !.available = 0, !.used = 0, !.modules = Sorted(@, memoryKey)]

stableDisk(d) ==
    [d EXCEPT !.free = 0, !.used = 0,
              !.devices = Sorted(Map(@, stableDevice), volumeKey)]

normalizedHardware(h) ==
    [h EXCEPT
        !.users = <<>>, !.operatingSystem.boot = 0,
        !.memory = stableMemory(@), !.disk = stableDisk(@),
        !.storage = Sorted(@, storageKey),
        !.network = Sorted(Map(@, stableNIC), networkKey),
        !.display = Sorted(@, nameKey), !.gpu = Sorted(@, nameKey)]

\* The hash of the normalised hardware, as that hardware itself.
Fingerprint(h) == normalizedHardware(h)

Sections ==
    {"general", "operatingSystem", "cpu", "memory", "storage", "network",
     "motherboard", "bios", "security", "display", "gpu"}

\* Mutant of DiffHardware: a section is forgotten.
DiffWithoutGPU(previous, h) ==
    IF previous = None THEN {"hardware"}
    ELSE {s \in Sections \ {"gpu"} :
            normalizedHardware(previous)[s] # normalizedHardware(h)[s]}

\* The sections that changed; one entry for a first snapshot.
DiffHardware(previous, h) ==
    IF previous = None THEN {"hardware"}
    ELSE {s \in Sections :
            normalizedHardware(previous)[s] # normalizedHardware(h)[s]}

\* Engine.health: the readings of a collection, -1 for an unknown one.
Percent(used, total) == IF total = 0 THEN -1 ELSE (100 * used) \div total

memoryUsage(h) == Percent(h.memory.used, h.memory.total)

diskUsage(h) ==
    IF h.disk.free <= h.disk.total THEN Percent(h.disk.used, h.disk.total) ELSE -1

health(h, r) ==
    CalculateHealthV2(r.cpu, memoryUsage(h), diskUsage(h), r.status, r.latency,
                      h.security)

\* A collection and what it was made of.
Collection(machine, failed, r) ==
    LET h == Collect(machine, failed)
    IN  [machine |-> machine, failed |-> failed, hardware |-> h, readings |-> r,
         health |-> health(h, r)]

\* A query gives a sequence of rows.
Rows(s) == Len(s) \in Nat /\ s = [i \in 1..Len(s) |-> s[i]]

\* Sizes are unsigned (types.go), readings are numbers, and None is
\* neither a collection nor its hardware.
SizesUnsigned ==
    /\ \A m \in Machines :
          /\ {"os", "system", "volumes", "configs", "details"} \subseteq DOMAIN m
          /\ Rows(m.os) /\ Rows(m.system)
          /\ Rows(m.volumes) /\ Rows(m.configs) /\ Rows(m.details)
          /\ m.os # <<>> => m.os[1].total \in Nat /\ m.os[1].free \in Nat
          /\ m.system # <<>> => m.system[1].ram \in Nat
          /\ \A i \in 1..Len(m.volumes) :
                m.volumes[i].size \in Nat /\ m.volumes[i].free \in Nat
    /\ \A r \in Readings : r.cpu \in Int /\ r.latency \in Int
NoneIsNoCollection ==
    \A m \in Machines, failed \in Failures, r \in Readings :
        None # Collection(m, failed, r) /\ None # Collect(m, failed)

ASSUME HardwareAssumption == SizesUnsigned /\ NoneIsNoCollection

-----------------------------------------------------------------------------
Init == pc = "idle" /\ current = None /\ stored = None

\* RunOnce collects: the machine is as it is now, some queries fail.
CollectNow ==
    /\ pc = "idle"
    /\ \E machine \in Machines, failed \in Failures, r \in Readings :
          current' = Collection(machine, failed, r)
    /\ pc' = "decide"
    /\ UNCHANGED stored

Unchanged ==
    /\ stored # None
    /\ Fingerprint(stored.hardware) = Fingerprint(current.hardware)

Changes ==
    DiffHardware(IF stored = None THEN None ELSE stored.hardware, current.hardware)

Skip ==
    /\ pc = "decide" /\ Unchanged
    /\ pc' = "idle" /\ current' = None /\ UNCHANGED stored

\* The payload is sent or queued, and the snapshot stored.
Report ==
    /\ pc = "decide" /\ ~Unchanged
    /\ stored' = current
    /\ pc' = "idle" /\ current' = None

\* SendJSON fails.
ReportFails ==
    /\ pc = "decide" /\ ~Unchanged
    /\ pc' = "idle" /\ current' = None /\ UNCHANGED stored

Next == CollectNow \/ Skip \/ Report \/ ReportFails

Spec == Init /\ [][Next]_vars

-----------------------------------------------------------------------------
\* The type of every variable; scores are percentages.
TypeOK ==
    LET collections == {x \in {current, stored} : x # None}
    IN  /\ pc \in {"idle", "decide"} /\ (pc = "decide" <=> current # None)
        /\ \A x \in collections :
              /\ x.machine \in Machines /\ x.failed \in Failures
              /\ x.readings \in Readings
              /\ \A i \in 1..3 : x.health.usage[i] \in 0..100
              /\ x.health.overall \in Nat /\ x.health.overall <= 100 * 400

\* A row without the columns that change on an unchanged machine, and without
\* those that only stand in for another query's.
Identity(q, row) ==
    CASE q = "system" -> [row EXCEPT !.user = "", !.ram = 0]
      [] q = "product" -> [row EXCEPT !.vendor = ""]
      [] q = "os" -> [row EXCEPT !.boot = 0, !.free = 0]
      [] q = "volumes" -> [row EXCEPT !.free = 0]
      [] q = "configs" -> [row EXCEPT !.addr = ""]
      [] q = "details" -> [row EXCEPT !.code = 0]
      [] OTHER -> row

\* Rows whose order among themselves matters to the code.
OrderKey(q, row) ==
    CASE q = "memory" -> memoryKey(row)
      [] q \in {"volumes", "drives"} -> row.device
      [] q \in {"monitors", "gpus"} -> row.name
      [] q = "configs" -> row.mac
      [] q = "details" -> Or(row.mac, row.name)
      [] OTHER -> q

\* Two machines have the same hardware, as far as these queries tell.
SameHardware(m, n, queries) ==
    \A q \in queries :
        LET ident(row) == Identity(q, row)
            key(row) == OrderKey(q, row)
        IN  Sorted(Map(m[q], ident), key) = Sorted(Map(n[q], ident), key)

Users == {"lastUser", "lastDisplayName"}

\* Queries whose rows are reported in one value, or only if another fails.
Aggregated == {"processors", "smart", "bitlocker", "antispyOff"}

Itemised(m) == DOMAIN m \ (Users \cup Aggregated)

\* Adapters are told apart by their MAC address and by their name.
DistinctAdapters(m) ==
    /\ \A i, j \in DOMAIN m.details :
          i # j => /\ m.details[i].name # m.details[j].name
                   /\ m.details[i].mac # m.details[j].mac \/ m.details[i].mac = ""
    /\ \A i, j \in DOMAIN m.configs :
          i # j => /\ m.configs[i].desc # m.configs[j].desc
                   /\ m.configs[i].mac # m.configs[j].mac \/ m.configs[i].mac = ""
    /\ \A i \in DOMAIN m.configs, j \in DOMAIN m.details :
          m.configs[i].desc = m.details[j].name => m.configs[i].mac = m.details[j].mac

\* Both collections are there, and told apart as the properties need.
Deciding == pc = "decide" /\ stored # None
Complete == current.failed = {} /\ stored.failed = {}

\* A skipped snapshot hides nothing: whatever queries failed in either
\* collection, the rows both got are those of the same hardware.
SkipHidesNothing ==
    Deciding /\ Unchanged /\ DistinctAdapters(current.machine)
             /\ DistinctAdapters(stored.machine) =>
        SameHardware(current.machine, stored.machine,
                     Itemised(current.machine) \ (current.failed \cup stored.failed))

\* An unchanged machine is not uploaded again: other users, addresses, free
\* space and rows in another order do not count, when no query failed, the
\* first drive is the same, and rows that sort alike came in the same order.
VolatileNotReported ==
    /\ Deciding /\ Complete
    /\ current.hardware.disk.drive = stored.hardware.disk.drive
    /\ SameHardware(current.machine, stored.machine, DOMAIN current.machine \ Users)
    => Unchanged

\* The queries behind each section of a change.
Behind ==
    [general |-> {"system", "product", "enclosure", "bios"},
     operatingSystem |-> {"os", "system", "zone"}, cpu |-> {"processors"},
     memory |-> {"memory", "os"}, storage |-> {"drives", "smart"},
     network |-> {"configs", "details"}, motherboard |-> {"board"},
     bios |-> {"bios"}, display |-> {"monitors"}, gpu |-> {"gpus"},
     security |-> {"tpm", "secureBoot", "bitlocker", "defender", "antispyOff",
                   "firewall"}]

\* The entries of a change are true and complete: hardware behind each named
\* section changed, and what changed is behind a named section.  The logical
\* disks are not: a new volume changes the fingerprint and nothing is named.
ChangeExplained ==
    Deciding /\ Complete /\ DistinctAdapters(current.machine)
             /\ DistinctAdapters(stored.machine) =>
        LET differ(Q) == ~SameHardware(current.machine, stored.machine, Q)
        IN  /\ \A s \in Changes : differ(Behind[s])
            /\ \A q \in Itemised(current.machine) \ {"volumes"} :
                  differ({q}) => \E s \in Changes : q \in Behind[s]

\* One adapter stands for a row of details, with its name and its speed.
ReportedOnce(nics, d) ==
    LET reports(n) == IF d.mac = "" THEN n.name = d.name ELSE n.mac = d.mac
    IN  \E i \in DOMAIN nics :
           /\ reports(nics[i])
           /\ nics[i].name = d.name /\ nics[i].speed = d.speed
           /\ \A k \in DOMAIN nics : reports(nics[k]) => k = i

\* Every named adapter is reported exactly once, under its own name, whether
\* its IP configuration was found by MAC address, by description or not.
AdapterOnce ==
    pc = "decide" /\ DistinctAdapters(current.machine)
                  /\ "details" \notin current.failed =>
        \A j \in DOMAIN current.machine.details :
            current.machine.details[j].name # "" =>
                ReportedOnce(current.hardware.network, current.machine.details[j])

\* The readings of a collection: CPU, memory and disk in use.
Usage(x) ==
    <<x.readings.cpu, memoryUsage(x.hardware), diskUsage(x.hardware)>>

Severity == [Healthy |-> 0, Warning |-> 1, Critical |-> 2]

\* Neither health score improves when the readings, all known (a percentage),
\* only get worse.
WorseNeverBetter ==
    Deciding =>
        LET old == Usage(stored) new == Usage(current)
            state(x) == heartbeatScore(x.readings.status)
            v1(u) == Severity[CalculateHealth(u[1], u[2], u[3])]
            worse == \A i \in 1..3 : 0 <= old[i] /\ old[i] <= new[i] /\ new[i] <= 100
        IN  worse =>
              /\ v1(new) >= v1(old)
              /\ /\ 0 <= stored.readings.latency
                 /\ stored.readings.latency <= current.readings.latency
                 /\ state(current) <= state(stored)
                 /\ current.hardware.security = stored.hardware.security
                 => /\ current.health.overall <= stored.health.overall
                    /\ Severity[current.health.status] >= Severity[stored.health.status]
=============================================================================
