# Verification of the IT Portal Agent

TLA+ models of the Windows agent in this repository (`internal/...`), checked by
TLC on small instances and, component by component, proved with TLAPS for every
value of their constants. `PROJECT.json` lists the runs, the mutants that each checked
property is shown to catch, the source lines behind each definition, the
findings, the hazards and the theorems.

## 1. Inventory

| Component | State | Operations | Hard part | Correct when |
|---|---|---|---|---|
| storage (`internal/storage`) | SQLite file `agent.db`: `queue`, `config` (key-value), `inventory_history` | Put, Get, PutSecret, GetSecret, Enqueue, Pending, DeleteQueueItem, RecordInventoryHistory | shared by every process; no transaction spans two calls; row ids are reused; no busy timeout | a statement affects the row its caller means |
| sync engine (`internal/sync`, `internal/httpclient`) | a mutex per process; a flush pass in memory | SendJSON, Flush | three goroutines and a command, lost replies, failing statements, shutdown | queued payloads are delivered in order, at least once, none lost |
| bootstrap (`internal/bootstrap`, `internal/app`, `internal/config`, `internal/security`) | UUID, token, configuration, version in `config`; `config.yaml` | EnsureRegistered, Register, ReloadConfig, save*, backoff loop | one Put at a time, crash between Puts, lost registration reply, two processes, DPAPI accounts | token and UUID belong together, one registration, the key is spent last |
| inventory and software engines | last fingerprint, last hardware, history, timeline | Run, RunOnce | crash between SendJSON and the records, ignored errors, a machine that changes during a run, a command beside the service, fresh payloads that overtake queued ones | only identical snapshots are skipped; the Portal ends up with the machine as it is |
| software normalisation | none (a pure function over a Go map) | NormalizeAndDeduplicate, applied twice | random map order, unstable sort, a preference that is not an order | one best record for each application in a fixed order |
| heartbeat (`internal/heartbeat`, `status` in `internal/app`) | a timer; status keys in `config` | Run, send, persistSuccess, persistFailure, ConfiguredInterval, CalculateHealth | interval arithmetic, a time cut to seconds, late and failed cycles, keys written one by one | ONLINE means alive, OFFLINE is never false, ONLINE comes back |
| hardware collection and intelligence (`internal/inventory`) | none (pure over WMI rows) | Collect, Fingerprint, DiffHardware, CalculateHealthV2 | queries that fail, rows in any order, lists merged by MAC or name, hashed and diffed sections that differ | skipped means the same hardware and the other way round; changes are named; worse is never better |
| Windows service wrapper | service state in the SCM, a context | Execute, Install, Uninstall, Start, Stop, Restart | `sc stop` returns before the service stopped; the process ends under its goroutines | a stop ends the process; a failed restart is reported |
| signing, logger, types | none | HMAC, zap | bytes | not modelled |

The components meet in the database. The service first runs the bootstrap loop,
then three goroutines (heartbeat, inventory, software) that share one sync
engine. Each CLI command (`register`, `reload-config`, `inventory`, `software`,
`status`) is a process of its own with its own engine over the same database
and the same YAML file. Nothing excludes processes from each other.

## 2. Modules

| Module | Models |
|---|---|
| `Storage` | the statements on `queue` as operators on a set of rows `[id, stamp]`; `stamp` is the identity of the payload. `NextRowId` is SQLite's rule for `INTEGER PRIMARY KEY` without `AUTOINCREMENT` |
| `OfflineDelivery` | abstract: an outbox that accepts, delivers its oldest payload, and forgets it only when delivered |
| `SyncEngine` | `Flush`, `SendJSON`, `send`, `queueOnFailure`, `Client.Do`, and the cycle of a goroutine around them; extends `Storage`, implements `OfflineDelivery` |
| `Bootstrap` | registration, configuration reload, the saves one key at a time, the YAML file, backoff, DPAPI accounts |
| `Snapshot` | change detection and the records of the inventory and software engines, up to what the Portal has received. The sync engine appears as the outbox of `OfflineDelivery`, which `SyncEngine` implements |
| `ServiceControl` | the service process under the SCM, and the five service commands as sequences of `sc.exe` calls |
| `Heartbeat` | the heartbeat loop, its timer, its keys and what `status` says; extends `ServiceControl`, which starts and ends it |
| `Health` | `CalculateHealth` and `CalculateHealthV2` |
| `Hardware` | what `Collect` makes of the machine's rows, the fingerprint, the diff and the assessment; extends `Health` |
| `Deduplicate` | reading order of the registry views, normalisation, selection, sorting, twice |
| `SyncEngineProofs`, `BootstrapProofs`, `SnapshotProofs`, `HeartbeatProofs`, `DeduplicateProofs`, `HardwareProofs` | theorems about the module of that name, and the inductive invariants they rest on |
| `NumberTheorems` | least element of a set of numbers and induction over one, for the proofs |
| `MC*` | constant values for TLC |

### SyncEngine

`queue` is the table; `mu[p]` the mutex of process `p`; `pc[t]`, `items[t]`,
`attempt[t]` are where goroutine `t` is, the rows left of its flush pass, and the
attempt counter of `Client.Do`. Actions follow the code between two points where
another goroutine or process can get in: one SQL statement or one HTTP exchange
each. While `env = "faulty"` every statement and request may fail, the service
may be cancelled, and a process may end at any step; `Calm` ends this, which is
what liveness is stated from. `enqueued`, `acked` and `lastFlushed` are history.
A payload is numbered when its INSERT succeeds: from then on the caller was told
ErrQueued and the engine answers for it. Payload content, gzip and headers are
abstracted; the type only selects the endpoint. After cancellation a reply may
still be counted: this allows more than the code does, which is safe for the
invariants. `MaxQueued` bounds successful INSERTs; at the bound an INSERT fails.

### Bootstrap

`db` holds the values of the seven keys as numbers: a registration's UUID and token are
both its number, so that "belongs together" is equality; configuration, policy
and version are the Portal's revision. `Script` is the order of the Puts; `Save`
performs one. `file` may be `torn`, between the truncation and the write of
`config.Save`. The Portal (`Issue`, `Reply`, `Revise`) is external: it may handle
a request whose reply is lost; a reply may leave out any of the `Optional`
fields, each by itself, except that `ReloadConfig` requires a configuration (and
`Register` the UUID and the token only); a token it rotates still belongs to the
same agent. `MaxIssued` and `MaxRev` bound it. `bare` is history: the last
version that a registration reply gave without a configuration.

### Snapshot

`world` is the machine, `Fingerprint` the hash of a normalized state: two of the
three values differ in volatile fields only. `scenario` is chosen in `Init` and
never changes: the kind (inventory or software), the processes that run it (the
service alone or beside a command), whether statements fail and processes end,
and the bounds. Each statement of `persistSnapshot`, `persistHistory` and
`persistTimeline` is an action, reading and writing the timeline two. `outbox`
and `portal` are the queued payloads of this kind and the state the Portal
received last; `reported`, `everReported`, `overtaken` and `unrecorded` are
history.

What SendJSON returns is not what the Portal has: a payload that is QUEUED may
have been handled with its reply lost, and so may one that FAILED (the context
was cancelled, or Enqueue failed) or whose process ended, which may also have
left it in the queue (`HandledUnseen`, `QueuedUnseen`). The last two leave
`unrecorded` behind until the next accepted report. A flush whose reply is lost
keeps its row (`DeliverAndKeep`). The Portal is taken to handle a request before
the client sees its end, not later.

### ServiceControl and Heartbeat

The SCM is external: `Grants` and `Effect` say when it accepts a request and what
changes at once, and it may refuse any. `stop` only puts the request into
Execute's channel; `HandleStop`, `ExecuteReturns` and the end of the process
follow on their own, while `restart` goes on to `start`. `marked` is a service
deleted while it runs. Boot, shutdown and a killed process are there too.

`Heartbeat` counts time in units, `Second` of them in a second, and keeps ages
instead of clock values: `age` of the stored success (cut to a second by the
format), `ackAge` of the acknowledgement it stands for (history). `left` is the
timer, or what is left of the time in which a cycle is prompt; in calm times a
cycle is prompt, before that it may take any time. Each Put of `persistSuccess`
and `persistFailure` may fail unnoticed; the five Puts of latency, health and
metrics are one action, because no property tells them apart. `Wrap` is 64-bit
arithmetic on a small `Int64`. `heartbeatState` is what `status` would print in
that state. `Reload` stores another configuration at any moment.

### Health and Hardware

A machine is a record of WMI and registry queries, each with its rows; columns
that are only copied together are one column. `CollectNow` takes any machine of
`Machines` with any set of `Failures`, so two collections in a row stand for
whatever happened to the machine between them; `Skip`, `Report` and `ReportFails`
are the decision of `RunOnce`, whose statements are `Snapshot`'s subject. A list
sorted by a key is the function from keys to the rows with that key, in their old
order. The fingerprint is the normalised record itself (SHA-256 is taken as
injective). The loop that copies model and serial number to logical disks is left
out: it compares `C:` with `\\.\PHYSICALDRIVE0` and never matches. Scores are exact
where the code uses float64, which may differ on a threshold.

### Deduplicate

`Read` takes records view by view in the collector's order; `Keep` is the body of
the loop; `Sort` picks any listing that agrees with the comparison, since the Go
map and `sort.Slice` order equals arbitrarily. Nothing is scheduled after the
result, hence no deadlock check in this run. `Reference` is the definition
the loop is compared with.

## 3. Runs

| Run | Instance | Shows |
|---|---|---|
| `sync_one_process` | 3 goroutines, 3 retries, pass of 2 rows, 5 payloads of which the Portal refuses the fourth, fair | nothing queued is lost, only the oldest can be repeated, FIFO, a pass is never stale, refinement of `OfflineDelivery`; once faults end the queue empties up to the refused payload |
| `sync_two_processes_loss` | service and command | **violated**: a queued record is deleted undelivered |
| `bootstrap_one_registrar` | service and reload-config, fair | token matches UUID, UUID never replaced, key spent last, bootstrap completes after the faults |
| `bootstrap_commands` | one prompt, register and reload-config, 3 revisions, replies that lack any optional fields | the version is never ahead of the configuration, unless the Portal gave it without one |
| `bootstrap_token_lost` | service | **violated**: engines start without a token |
| `bootstrap_accounts` | service and register under another account | **violated**: the service cannot read the token |
| `snapshot_detection` | either kind alone (3 changes), inventory with failing statements and restarts, inventory in two processes; timeline of 2; fair | skips, diffs and timeline are right when statements succeed; the database never runs ahead of what was reported; an empty queue means that the Portal has the last report, with the exceptions of section 4; undisturbed, it ends up with the machine's state |
| `snapshot_restart` | inventory with faults | **violated**: a state that is not the last reported one is skipped |
| `deduplicate_result` | up to 3 records from 3 views | equals the reference, fixed order, second pass idle |
| `heartbeat_status` | 2 units in a second, intervals of 2 and 3, cycles of 1, service commands, fair | no false OFFLINE, no false ONLINE, error and health of the last cycle, ONLINE stays once faults end; a stop is carried out, a restart never fails silently |
| `heartbeat_interval` | also 0.5 s, an overflowing value and the default | **violated**: the interval is not positive |
| `hardware_changes` | a notebook in 15 states, 8 sets of failing queries, 4 sets of readings | skipped if and only if the hardware is the same, changes named, adapters reported once, health monotone |

Bounds. Two rows per pass with five payloads give passes that leave rows behind
and queues that grow during a pass; an id is reused already with two payloads.
Three retries is the code's own value. A maximal delay of 3 makes the doubling
overshoot the cap (1, 2, then 4 cut to 3), as 256 s, then 512 s cut to 300 s
does in the code. Two registrations are enough for a lost one and a stored
one. Three values with two fingerprints separate volatile from real changes, and
a timeline of two is cut by the third event. Three records give every order of
two duplicates and a bystander. With an interval of 2 units, a cycle of 1 and a
truncation of 1 the age of a prompt heartbeat reaches exactly two intervals, so
`NoFalseOffline` is tight; `AgeCap` is one unit above the largest limit. The
states of the notebook hold one change of each kind the properties tell apart:
volatile columns, row order, equal names and MACs, added and removed rows,
security settings.

Fairness. Weak fairness on every step of a goroutine or process: the Go
scheduler runs what can run, timers fire, HTTP requests time out (30 s or 60 s);
and on the start of the service, which is installed with `start= auto`.
`Snapshot` also assumes strong fairness of `Report`: a `SendJSON` that is tried
again and again either sends or queues in the end. Failures themselves are never
fair. `Snapshot` assumes weak fairness of `Deliver`: this is `QueueDrains` for a
Portal that refuses no payload, since a refused one would block the queue for
good. `PortalConverges` is about runs in which nothing fails but requests and
replies: no process ends or is cancelled, no statement fails.
`Heartbeat` assumes that time passes, that the goroutine and `Execute` run, and
that the process is gone after `Execute` returned. `BootstrapCompletes` assumes
that the Portal accepts what it is sent once the faults ended; `QueueDrains`
allows payloads it refuses for ever (`Refused`) and says that everything before
the first of them goes out.

## 4. Findings

Five runs end in a counterexample to something the repository says of itself;
`PROJECT.json` quotes the lines.

1. Two processes flushing lose a queued record: the DELETE uses an id that was
   freed and given to a new row. Both processes must be able to read the token
   (the service run in a console, or the command run as SYSTEM).
2. UUID stored, token not: the agent counts as registered and never gets a token.
3. `register` under an administrator's account leaves a token that the service,
   running as LocalSystem, cannot unprotect.
4. A crash between `SendJSON` and the Put of the fingerprint makes a later,
   different snapshot be skipped when the machine changes back.
5. A heartbeat interval between 0 and 1 second, or a very large one, becomes zero
   or negative instead of the default, and the loop no longer waits.

More limits of the guarantees show in the hypotheses. `FlushFIFO` and the
delivery theorems need one process: two that flush deliver out of order.
`UuidStable` needs one registrar: the service and a `register` command can both
find no UUID and both register. And `ResultIsReference` puts the length of
InstallLocation before the source: a per-user record with a longer location
replaces the machine-wide one. `PortalHasLatest` and `PortalConverges` exclude
`overtaken`: SendJSON does not wait for the queue, so a fresh snapshot may reach
the Portal before older queued ones, which then become its last. They exclude as
well what `unrecorded` marks: an upload that FAILED on a cancelled context or a
failing Enqueue, or whose process ended, may have reached the Portal while the
agent keeps its old fingerprint. The next run sends the state again unless the
machine has changed back to the recorded one; then it is skipped, and the Portal
keeps the other state until the next change. A registration reply with a version
and no configuration stores a version that belongs to no stored configuration
(`bare`). A refused payload blocks all later ones. Two processes writing the timeline lose events.
In `Hardware`, a new logical disk changes the fingerprint and no section of the
diff; failed queries are reported as changes; adapters that share a MAC address
collapse; two monitors or GPUs of one name, or drives, in another order make an
unchanged machine look changed; and link speed, DHCP, the screen resolution and
whether an adapter has an IP configuration all belong to the fingerprint, so that
unplugging a cable is a hardware change.

## 5. Proofs

Every safety property of a passing run is a theorem, except three of `Hardware`.
Few of them are inductive; each proof module defines the invariant that is, and
TLC checked each of these invariants on the run's instance before it was proved.

### SyncEngineProofs

`TypeCorrect` holds for any processes. `OnlyReusedIdsLose` does too: it is
`AcceptedNotLost` of any number of processes, under the one condition on the
behaviour that no INSERT takes the id of a row some flush pass still has in hand
(`FreshIds`). The loss of finding 1 therefore needs a reused id, and a table
declared with `AUTOINCREMENT` would rule it out. Its invariant, `SharedInv`, says
that a row in hand whose id is in the table is that very row.

Everything else is under `OneProcess` (all threads belong to one process), which
finding 1 shows to be needed, for any number of threads, retries, rows per pass
and payloads. `IInv` adds to the properties:

- `LockInv`: a thread between Lock and Unlock is the holder, and only it has rows
  in memory;
- `Ordered`, `HasLast`: ids grow with stamps and the table has a last row, so
  that `NextRowId` yields exactly one id above all others;
- `FlushedBefore`: no row in the table is older than the last acknowledged one;
- `DeleteAcked`: a thread about to DELETE has its first row acknowledged;
- `PassIsQueuePrefix`: its rows are the oldest of the table.

Deleting the first row of the pass then deletes the oldest row of the table, an
acknowledged one. `NothingLost`, `RedeliveryBounded`, `PassNeverStale`,
`FlushInOrder` follow, and `Refinement` maps EnqueuePayload to Accept,
FlushAcknowledged to Deliver, FlushDelete to Settle and the rest to stuttering.

### BootstrapProofs

`TypeCorrect` holds for any processes. `SerialRegistrationsSafe` says of any number
of registrars and reloads that, as long as no two processes are between finding no
UUID and storing one (`[]SerialRegistrations`, a condition on the behaviour),
token and UUID match, the UUID is never replaced and the key goes last: it is
overlapping registrations that section 4 speaks of, not several registrars. One
registrar (`OneRegistrar`) satisfies the condition by itself, hence
`CredentialsAlwaysMatch`, `RegisteredOnce` and `KeySpentLast`. `IInv` says for each process and each index of `Script` how its reply relates to the
database: a registrar that still has the UUID to write is looking at an empty
database; past it, the stored UUID is its own; a reloading process holds a token
of the stored agent; and a process about to clear the key has everything stored.

`VersionBySerialSaves` needs no assumption on who registers, only that no two
processes are between the Puts of a reply at once (`[]OneSaver`, a condition on
the behaviour): then `ReplyInv` holds, a reply being saved is not older than what
is stored, and its configuration is stored before its version, so a crash in
between leaves the version behind and never ahead. A version that came without a
configuration is stored alone; `bare` bounds it, in the property and in
`ReplyInv`, and is itself never ahead of the Portal's revision. One process (`OneProcess`)
satisfies that by itself (`VersionByOneProcess`). Overlapping saves do not: each
of the two may write its half.

`TokenReadableByOneAccount` is the positive side of finding 3: when every
process runs under the account of the service, the service can read the token.

### SnapshotProofs

Two results hold in every scenario, faults and several processes included.
`OnlyReportedRecorded` needs `RecordingInv`: what a run is recording was accepted
by SendJSON, and so was everything in the timeline it has read and will write
back. `PortalIsLatest` needs `YoungestInv`: the youngest queued payload is the
last report, with the two exceptions of the property. `UploadEnds` is what an
upload that is not accepted may leave at the Portal or in the queue.

The others are about undisturbed scenarios (one process, statements that
succeed); finding 4 and the lost events of section 4 are what happens without.
`DetectionInv` says where stored fingerprint, stored hardware and last report
agree: except between SendJSON and the two Puts that follow it. Hence
`OnlyIdenticalSkipped` and `DiffIsAgainstPrevious`. `TimelineInv` says that the
timeline is the end of the history, less the event that is in the history and not
yet in the timeline; the lemmas about `Last` show that appending and then cutting
keeps this for any `TimelineCap`. With several processes there remains `EventInv`:
an event is in the history before it is in any timeline. Both give
`TimelineIsHistory`.

### HeartbeatProofs

`IInv` has one part for each concern: `CommandInv` (which calls a command may
still have to make, so that the last call of a restart is the start),
`ProcessInv` (no goroutine without a process), `CycleInv` (what a cycle has
stored so far), `AgeInv` (a stored success is never younger than its
acknowledgement) and `FreshInv`, which bounds the age of the stored success at
each point of an undisturbed loop: what the format cuts off, plus the wait, plus
the cycle. `NoSilentRestart` and `StatusTellsLastCycle` follow without further
hypotheses, for any interval, `OnlineIsAlive` unless twice the
interval underflows 64 bits (`NoUnderflow`) and `OfflineIsTrue` unless it
overflows (`NoOverflow`). `status` multiplies by two without a check, so both are needed;
finding 5 has the configurations that come near. Both hold of every interval
that is a plausible number of seconds.

### DeduplicateProofs

`CollectorInv` describes the loop half way: the map has exactly one record of
each fingerprint seen, and it beats every record read so far with that
fingerprint. That needs `OrderInv`: records come view by view, so that a later one
is never from a higher source and `Preferred`, which is not an order in general,
comes down to the length of the location. At the end of the pass the map is the reference: `ResultIsTheReference`.
`ResultIsOrdered` follows because records with different fingerprints are never
equal to the comparison. `SecondPassIsIdle` needs that a set of
distinct records has one listing only; that is proved by counting the records
below each one, which is its place in any listing.

### HardwareProofs

`CollectionInv`: what is in hand and what is stored are collections of some
machine with some failing queries and some readings. `MemoryWithinTotal` and
`DiskWithinTotal` show that what is in use is never more than the total, and the
unsigned subtractions never wrap, even when the query behind one of them failed.
From the lemmas on each score follow `TypeCorrect` (usage and overall scores are
percentages) and `HealthIsMonotone` (neither `CalculateHealth` nor
`CalculateHealthV2` improves when all readings are known and none gets better).
"Known" includes that a CPU reading is at most 100: above that the code takes it
for unknown and gives it the middle score, which can be an improvement.

The loops over logical disks and over adapter details are recursive functions
(`LogicalDisks`, `Merged`). `DisksSteps` and `MergedSteps` show that such a
function exists for lists of any length, and what it computes follows by
`Induction` over a set of numbers. `SumsUnsigned` gets the totals of the disks
that way, and `MergedInv` says where the adapters come from after each row of
details: `AdaptersReportedOnce` (`AdapterOnce` of every machine) rests on it.

Four theorems are about what the fingerprint distinguishes. `SameRows` compares
the rows of a query in the columns that last (`Lasting`): everything but the
user, the boot time, free space, addresses and link states. `SectionSame` shows
that a normalised section is a function of those columns, the merged and summed
lists included. For every machine it follows that

- `ChangesAreReal`: each section of a reported change has a query behind it whose
  rows differ in such a column, if the same queries failed both times;
- `VolatileNeverUploaded`: if nothing else changed, and the same queries failed,
  the run is skipped;
- `ChangesMissOnlyDisks`: whatever failed, the list of changes is empty and the
  logical disks are the same exactly when the fingerprint is;
- `SkippedSame`: whatever failed, a skipped run hides no change of memory modules,
  monitors, GPUs or the identities it read.

TLC checked the four on the instance of `hardware_changes` before they were
proved; there, states with different machines, and with different failures,
satisfy their hypotheses.

### Assumptions

`SyncAssumption`, `BootstrapAssumption`, `SnapshotAssumption`,
`DeduplicateAssumption`, `HeartbeatAssumption` and `HardwareAssumption` are types
and positive bounds; TLC evaluates them in every run. Beyond types,
`HeartbeatAssumption` asks that ages can be counted up to a second, which the
truncation of the stored time needs, and `HardwareAssumption` that `None` is
neither a collection nor its hardware. `DeduplicateAssumption` takes SHA-256 as
injective, which the proofs do not use.

### Only model-checked

- Liveness: `QueueDrains`, `BootstrapCompletes`, `PortalConverges`,
  `StopCarriedOut`, `StaysOnline`. TLAPS has no proof rules for fairness that
  apply here.
- `SkipHidesNothing`, `VolatileNotReported` and `ChangeExplained` of `Hardware`.
  They speak of rows in another order and of every column, which is true of the
  notebook's rows and not of all machines: a row of empty values is collected like
  no row, a drive or volume of size 0 is left out, an adapter row without a name
  is dropped, and rows of details that match several adapters depend on their
  order. The four theorems above are the parts of them that hold of every machine.
- The five violations, which are counterexamples.

## 6. Not modelled

Signing and the encryption itself, WMI, the registry, PowerShell and the SCM
themselves (their answers are inputs), logging, printing, gzip, headers and
payload contents; keys that the code only writes; `HardwareCount` and
`BuildAssetLinkHints`, which copy fields; the software engine's interval (a timer
that fires); two `reload-config` commands at once in `bootstrap_commands`.

## 7. What could come next

1. Proofs: `VolatileNotReported` for rows in another order, under the conditions
   on a machine that the sorted lists need; adapters and drives in `SkippedSame`.
2. Larger instances where time allows: three processes in `Bootstrap`, two kinds
   sharing one outbox in `Snapshot`.
