------------------------------ MODULE Snapshot ------------------------------
(***************************************************************************)
(* internal/inventory/engine.go and internal/software/engine.go: change    *)
(* detection, from the machine to the Portal.  A run collects the state of *)
(* the machine, skips it when its fingerprint is the stored one, hands it  *)
(* to the sync engine otherwise, and records what it handed over in        *)
(* separate statements whose errors are ignored.                           *)
(*                                                                         *)
(* A collected state is a value of Values; Fingerprint[v] is the hash of   *)
(* its normalized form, so values that differ in volatile fields only have *)
(* the same one (Hardware says when).  The sync engine is the outbox that  *)
(* OfflineDelivery promises: a payload is SENT to the Portal at once, or   *)
(* QUEUED and delivered later in FIFO order, or the call FAILED.           *)
(*                                                                         *)
(* Inventory and software share nothing but the outbox, so a behaviour     *)
(* follows one of them; its scenario says which, whether an "inventory" or *)
(* "software" command runs beside the service, and whether statements may  *)
(* fail and processes end.  Status keys (last_checked, last_success,       *)
(* last_error, ...) only feed the status command and are left out.         *)
(***************************************************************************)
EXTENDS Integers, Sequences, FiniteSets

CONSTANTS Inventory,    \* the kind that keeps hardware, history and timeline
          Values,       \* states of the machine
          Fingerprint,  \* [Values -> Nat]
          Scenarios,    \* records of kind, runs, faults, values, bounds
          TimelineCap,  \* events kept in inventory_change_timeline
          None

ASSUME SnapshotAssumption ==
    /\ Fingerprint \in [Values -> Nat]
    /\ \A s \in Scenarios :
          /\ IsFiniteSet(s.runs) /\ s.faults \in BOOLEAN
          /\ s.values \subseteq Values
          /\ s.maxChanges \in Nat /\ s.maxHistory \in Nat /\ s.maxQueued \in Nat
    /\ TimelineCap \in Nat \ {0}
    /\ None \notin Values /\ None \notin Nat

VARIABLES scenario,  \* fixed: kind, the processes with a run, faults or not
          world,     \* the state of the machine
          changes,   \* how often it changed
          fp,        \* the stored last fingerprint, or None
          hardware,  \* inventory_last_hardware, or None
          history,   \* the rows of inventory_history: [from, to]
          timeline,  \* inventory_change_timeline
          outbox,    \* the payloads of this kind that are queued
          portal,    \* the state the Portal received last, or None
          pc,        \* pc[r]: where the run of process r is
          snap,      \* snap[r]: the collected state
          from,      \* from[r]: the state its changes were computed against
          sent,      \* sent[r]: the last SendJSON returned SENT
          read,      \* read[r]: the timeline as persistTimeline read it
          reported,  \* history: the last state SENT or QUEUED
          everReported, \* history: all states SENT or QUEUED
          overtaken, \* history: the last one was SENT past queued ones
          unrecorded \* history: since then a snapshot that FAILED or was cut
                     \* off reached the Portal or the queue all the same

stored == <<fp, hardware, history, timeline>>
machine == <<scenario, world, changes>>
local == <<snap, from, sent, read>>
delivery == <<outbox, portal, reported, everReported, overtaken, unrecorded>>
vars == <<machine, stored, pc, local, delivery>>

Runs == scenario.runs
Faults == scenario.faults
Kind == scenario.kind

\* Bounds: changes of the machine, SENT inventory snapshots, payloads queued.
MaxChanges == scenario.maxChanges
MaxHistory == scenario.maxHistory
MaxQueued == scenario.maxQueued

Init ==
    /\ scenario \in Scenarios
    /\ world \in scenario.values /\ changes = 0
    /\ fp = None /\ hardware = None /\ history = <<>> /\ timeline = <<>>
    /\ outbox = <<>> /\ portal = None
    /\ pc = [r \in Runs |-> "idle"]
    /\ snap = [r \in Runs |-> None]
    /\ from = [r \in Runs |-> None]
    /\ sent = [r \in Runs |-> FALSE]
    /\ read = [r \in Runs |-> <<>>]
    /\ reported = None /\ everReported = {}
    /\ overtaken = FALSE /\ unrecorded = FALSE

Goto(r, label) == pc' = [pc EXCEPT ![r] = label]

\* The run returns: its locals are gone.
Return(r) ==
    /\ Goto(r, "idle")
    /\ snap' = [snap EXCEPT ![r] = None]
    /\ from' = [from EXCEPT ![r] = None]
    /\ sent' = [sent EXCEPT ![r] = FALSE]
    /\ read' = [read EXCEPT ![r] = <<>>]

-----------------------------------------------------------------------------
\* RunOnce up to Collect.  An early return (cancelled, not registered, the
\* collector failed) leaves the run idle and changes nothing kept here.
Collect(r) ==
    /\ pc[r] = "idle"
    /\ snap' = [snap EXCEPT ![r] = world]
    /\ Goto(r, "compare")
    /\ UNCHANGED <<machine, stored, from, sent, read, delivery>>

\* The fingerprint is the stored one: SKIPPED.
Skip(r) ==
    /\ pc[r] = "compare" /\ fp = Fingerprint[snap[r]]
    /\ Return(r)
    /\ UNCHANGED <<machine, stored, delivery>>

\* It is not, or cannot be read: the payload is built, with the changes since
\* the stored hardware (nothing when that cannot be read) for inventory.
Prepare(r) ==
    /\ pc[r] = "compare" /\ (fp # Fingerprint[snap[r]] \/ Faults)
    /\ \/ from' = [from EXCEPT ![r] = IF Kind = Inventory THEN hardware ELSE None]
       \/ Faults /\ from' = [from EXCEPT ![r] = None]
    /\ Goto(r, "send")
    /\ UNCHANGED <<machine, stored, snap, sent, read, delivery>>

\* Mutant of FirstRecord: the hardware is not stored.
FingerprintOnly == "fingerprint"

FirstRecord == IF Kind = Inventory THEN "hardware" ELSE "fingerprint"

\* SendJSON returned nil or ErrQueued: the sync engine answers for the state.
Accepted(r, ok) ==
    /\ pc[r] = "send"
    /\ sent' = [sent EXCEPT ![r] = ok]
    /\ reported' = snap[r]
    /\ everReported' = everReported \cup {snap[r]}
    /\ unrecorded' = FALSE
    /\ Goto(r, FirstRecord)
    /\ UNCHANGED <<machine, stored, snap, from, read>>

\* SendJSON returns nil.  It does not look at the queue first.
ReportSent(r) ==
    /\ Accepted(r, TRUE)
    /\ Len(history) < MaxHistory
    /\ portal' = snap[r]
    /\ overtaken' = (outbox # <<>>)
    /\ UNCHANGED outbox

\* SendJSON returns ErrQueued; the Portal may have handled an attempt whose
\* reply was lost.
ReportQueued(r) ==
    /\ Accepted(r, FALSE)
    /\ Len(outbox) < MaxQueued
    /\ outbox' = Append(outbox, snap[r])
    /\ portal' \in {portal, snap[r]}
    /\ overtaken' = FALSE

\* Mutant of ReportFails: a failed snapshot is recorded like a queued one.
RecordsFailure(r) ==
    /\ pc[r] = "send"
    /\ sent' = [sent EXCEPT ![r] = FALSE]
    /\ Goto(r, FirstRecord)
    /\ UNCHANGED <<machine, stored, snap, from, read, delivery>>

\* The Portal handles an attempt whose reply never arrives.
HandledUnseen(r) ==
    /\ portal' = snap[r]
    /\ unrecorded' = TRUE
    /\ UNCHANGED <<outbox, reported, everReported, overtaken>>

\* SendJSON returns another error: FAILED, nothing is recorded.  It gives up
\* before the request, or after it when the context is cancelled (the process
\* is ending) or Enqueue fails; then the Portal may have handled the request.
ReportFails(r) ==
    /\ pc[r] = "send"
    /\ Return(r)
    /\ UNCHANGED delivery \/ (Faults /\ HandledUnseen(r))
    /\ UNCHANGED <<machine, stored>>

\* persistSnapshot, first Put.  Errors are ignored here and below.
RecordHardware(r) ==
    /\ pc[r] = "hardware"
    /\ hardware' = snap[r] \/ (Faults /\ hardware' = hardware)
    /\ Goto(r, "fingerprint")
    /\ UNCHANGED <<machine, fp, history, timeline, local, delivery>>

AfterFingerprint(r) ==
    IF sent[r] /\ Kind = Inventory
      THEN Goto(r, "history") /\ UNCHANGED local
      ELSE Return(r)

\* Mutant of RecordFingerprint: the machine as it is now, not as it was sent.
RecordsCurrent(r) ==
    /\ pc[r] = "fingerprint"
    /\ fp' = Fingerprint[world]
    /\ AfterFingerprint(r)
    /\ UNCHANGED <<machine, hardware, history, timeline, delivery>>

\* persistSnapshot, second Put (for software the only one).
RecordFingerprint(r) ==
    /\ pc[r] = "fingerprint"
    /\ fp' = Fingerprint[snap[r]] \/ (Faults /\ fp' = fp)
    /\ AfterFingerprint(r)
    /\ UNCHANGED <<machine, hardware, history, timeline, delivery>>

Event(r) == [from |-> from[r], to |-> snap[r]]

\* persistHistory inserts a row.
RecordHistory(r) ==
    /\ pc[r] = "history"
    /\ history' = Append(history, Event(r)) \/ (Faults /\ history' = history)
    /\ Goto(r, "readTimeline")
    /\ UNCHANGED <<machine, fp, hardware, timeline, local, delivery>>

\* persistTimeline reads the timeline (an empty one when that fails)...
ReadTimeline(r) ==
    /\ pc[r] = "readTimeline"
    /\ \/ read' = [read EXCEPT ![r] = timeline]
       \/ Faults /\ read' = [read EXCEPT ![r] = <<>>]
    /\ Goto(r, "writeTimeline")
    /\ UNCHANGED <<machine, stored, snap, from, sent, delivery>>

\* Mutant of Last: one element too many.
LastAndOneMore(s, n) == IF Len(s) <= n THEN s ELSE SubSeq(s, Len(s) - n, Len(s))

\* The last n elements of s.
Last(s, n) == IF Len(s) <= n THEN s ELSE SubSeq(s, Len(s) - n + 1, Len(s))

\* Mutant of WriteTimeline: the newest event is cut instead of the oldest.
CutsNewest(r) ==
    /\ pc[r] = "writeTimeline"
    /\ timeline' = IF Len(read[r]) = TimelineCap THEN read[r]
                                                 ELSE Append(read[r], Event(r))
    /\ Return(r)
    /\ UNCHANGED <<machine, fp, hardware, history, delivery>>

\* ... appends to what it read, cuts it and writes it back.
WriteTimeline(r) ==
    /\ pc[r] = "writeTimeline"
    /\ \/ timeline' = Last(Append(read[r], Event(r)), TimelineCap)
       \/ Faults /\ timeline' = timeline
    /\ Return(r)
    /\ UNCHANGED <<machine, fp, hardware, history, delivery>>

-----------------------------------------------------------------------------
\* Mutant of Deliver: the youngest payload first.
DeliverLast ==
    /\ outbox # <<>>
    /\ portal' = outbox[Len(outbox)]
    /\ outbox' = SubSeq(outbox, 1, Len(outbox) - 1)
    /\ UNCHANGED <<machine, stored, pc, local, reported, everReported, overtaken,
                   unrecorded>>

\* Some goroutine's Flush delivers the oldest payload and removes it.
Deliver ==
    /\ outbox # <<>>
    /\ portal' = Head(outbox)
    /\ outbox' = Tail(outbox)
    /\ UNCHANGED <<machine, stored, pc, local, reported, everReported, overtaken,
                   unrecorded>>

\* It delivers the oldest payload, and the reply is lost or the row cannot be
\* removed.
DeliverAndKeep ==
    /\ outbox # <<>>
    /\ portal' = Head(outbox)
    /\ UNCHANGED <<machine, stored, pc, local, outbox, reported, everReported,
                   overtaken, unrecorded>>

\* Hardware or software of the machine changes, perhaps back.
Change ==
    /\ changes < MaxChanges
    /\ world' \in scenario.values \ {world}
    /\ changes' = changes + 1
    /\ UNCHANGED <<scenario, stored, pc, local, delivery>>

\* Enqueue has committed, and nobody sees that it has.
QueuedUnseen(r) ==
    /\ Len(outbox) < MaxQueued
    /\ outbox' = Append(outbox, snap[r])
    /\ portal' \in {portal, snap[r]}
    /\ unrecorded' = TRUE
    /\ UNCHANGED <<reported, everReported, overtaken>>

\* A process ends, in SendJSON at any point of it, and is started again.
Restart(r) ==
    /\ Faults /\ pc[r] # "idle"
    /\ Return(r)
    /\ \/ UNCHANGED delivery
       \/ pc[r] = "send" /\ (HandledUnseen(r) \/ QueuedUnseen(r))
    /\ UNCHANGED <<machine, stored>>

Report(r) == ReportSent(r) \/ ReportQueued(r)

\* Every step of a run except a failed SendJSON.
Progress(r) ==
    \/ Collect(r) \/ Skip(r) \/ Prepare(r) \/ Report(r) \/ RecordHardware(r)
    \/ RecordFingerprint(r) \/ RecordHistory(r) \/ ReadTimeline(r)
    \/ WriteTimeline(r)

Next ==
    \/ \E r \in Runs : Progress(r) \/ ReportFails(r) \/ Restart(r)
    \/ Deliver \/ DeliverAndKeep \/ Change

Spec == Init /\ [][Next]_vars

\* A run goes on (its timer fires), SendJSON does not fail every time, and the
\* queue is flushed and the Portal refuses no payload: then it does not block
\* (QueueDrains of SyncEngine).
FairSpec ==
    /\ Spec
    /\ \A r \in UNION {s.runs : s \in Scenarios} :
          /\ WF_vars(r \in Runs /\ Progress(r))
          /\ SF_vars(r \in Runs /\ Report(r))
    /\ WF_vars(Deliver)

-----------------------------------------------------------------------------
Events == [from : Values \cup {None}, to : Values]

MachineTypeOK ==
    scenario \in Scenarios /\ world \in Values /\ changes \in 0..MaxChanges

StoredTypeOK ==
    /\ fp \in Nat \cup {None} /\ hardware \in Values \cup {None}
    /\ history \in Seq(Events)
    /\ timeline \in Seq(Events) /\ Len(timeline) <= TimelineCap

LocalTypeOK ==
    /\ pc \in [Runs -> {"idle", "compare", "send", "hardware", "fingerprint",
                        "history", "readTimeline", "writeTimeline"}]
    /\ snap \in [Runs -> Values \cup {None}]
    /\ from \in [Runs -> Values \cup {None}]
    /\ sent \in [Runs -> BOOLEAN] /\ read \in [Runs -> Seq(Events)]

DeliveryTypeOK ==
    /\ outbox \in Seq(Values) /\ portal \in Values \cup {None}
    /\ reported \in Values \cup {None} /\ everReported \subseteq Values
    /\ overtaken \in BOOLEAN /\ unrecorded \in BOOLEAN

\* The type of every variable.
TypeOK == MachineTypeOK /\ StoredTypeOK /\ LocalTypeOK /\ DeliveryTypeOK

\* No statement fails, no process ends or is cancelled, and only one process
\* runs the engine.
Undisturbed == ~Faults /\ Cardinality(Runs) = 1

\* Only identical snapshots are skipped: a run that is about to skip has
\* collected what was reported last, up to its fingerprint.
SkipIsIdentical ==
    \A r \in Runs : pc[r] = "compare" /\ fp = Fingerprint[snap[r]] =>
        reported # None /\ Fingerprint[reported] = Fingerprint[snap[r]]

SkipIsIdenticalUndisturbed == Undisturbed => SkipIsIdentical

\* Whatever fails, whenever a process ends and whoever else runs, the database
\* only names states that the sync engine took: a fingerprint is never stored
\* ahead of the report that justifies skipping it, and so are the other records.
RecordsWereReported ==
    /\ fp # None => \E v \in everReported : Fingerprint[v] = fp
    /\ hardware # None => hardware \in everReported
    /\ \A i \in 1..Len(history) : history[i].to \in everReported
    /\ \A i \in 1..Len(timeline) : timeline[i].to \in everReported

\* The changes attached to an inventory payload are those since the snapshot
\* reported before it.
DiffAgainstPrevious ==
    Undisturbed /\ Kind = Inventory =>
        \A r \in Runs : pc[r] = "send" => from[r] = reported

\* Between runs the timeline shows the latest rows of the history, although
\* the two are written separately and the timeline is cut.  Two processes can
\* lose an event (both read, both write), but even they record none that has
\* no row in the history.
TimelineMatchesHistory ==
    /\ ~Faults => \A i \in 1..Len(timeline) :
                      \E j \in 1..Len(history) : timeline[i] = history[j]
    /\ Undisturbed /\ (\A r \in Runs : pc[r] \notin {"readTimeline", "writeTimeline"})
           => timeline = Last(history, TimelineCap)

\* Once nothing is queued the Portal has the state that was reported last,
\* through lost replies, failing statements and processes that end.  There are
\* two exceptions: that state was SENT past older queued ones, which then
\* arrive after it (SendJSON does not wait for the queue to be empty), or a
\* later snapshot that FAILED or was cut off had been handled or queued.
PortalHasLatest ==
    outbox = <<>> /\ ~overtaken /\ ~unrecorded => portal = reported

\* The Portal ends up with the state of a machine that stopped changing, up to
\* volatile fields, when nothing is cancelled or fails but requests and their
\* replies, and unless a fresh snapshot overtook queued ones.
PortalConverges ==
    (changes = MaxChanges /\ Undisturbed) ~>
        []( \/ portal # None /\ Fingerprint[portal] = Fingerprint[world]
            \/ overtaken )
=============================================================================
