--------------------------- MODULE SnapshotProofs ---------------------------
(***************************************************************************)
(* Theorems about Snapshot, for any machine states, fingerprint function,  *)
(* number of processes, length of the timeline and bounds.  What the       *)
(* database names was reported, and the Portal has the latest report, in   *)
(* every scenario; the guarantees of change detection itself are proved    *)
(* for a single process whose statements do not fail, which is where they  *)
(* hold.                                                                   *)
(***************************************************************************)
EXTENDS Snapshot, SequenceTheorems, FiniteSetTheorems, TLAPS

-----------------------------------------------------------------------------
(***************************************************************************)
(* Sequences.                                                              *)
(***************************************************************************)

\* How many elements Last(s, n) leaves out.
Cut(s, n) == IF Len(s) <= n THEN 0 ELSE Len(s) - n

\* The last n elements of a sequence, one by one.
LEMMA LastElements ==
    ASSUME NEW S, NEW s \in Seq(S), NEW n \in Nat \ {0}
    PROVE  /\ Last(s, n) \in Seq(S)
           /\ Cut(s, n) \in 0..Len(s)
           /\ Len(Last(s, n)) = Len(s) - Cut(s, n)
           /\ \A i \in 1..(Len(s) - Cut(s, n)) : Last(s, n)[i] = s[Cut(s, n) + i]
  <1>1. Len(s) \in Nat /\ \A i \in 1..Len(s) : s[i] \in S
    BY LenProperties, ElementOfSeq
  <1>2. CASE Len(s) <= n
    BY <1>1, <1>2 DEF Last, Cut
  <1>3. CASE ~(Len(s) <= n)
    <2> DEFINE k == Len(s) - n + 1
    <2>1. k \in 1..Len(s) /\ Cut(s, n) = k - 1
      BY <1>1, <1>3 DEF Cut
    <2>2. Last(s, n) = SubSeq(s, k, Len(s))
      BY <1>3 DEF Last
    <2>3. \A i \in k..Len(s) : s[i] \in S
      BY <1>1, <2>1
    <2> HIDE DEF k
    <2>4. /\ SubSeq(s, k, Len(s)) \in Seq(S)
          /\ Len(SubSeq(s, k, Len(s))) = Len(s) - k + 1
          /\ \A i \in 1..(Len(s) - k + 1) : SubSeq(s, k, Len(s))[i] = s[k + i - 1]
      BY <1>1, <2>1, <2>3, SubSeqProperties
    <2> QED
      BY <1>1, <2>1, <2>2, <2>4
  <1> QED
    BY <1>2, <1>3

\* Every element of the end of a sequence is one of the sequence.
LEMMA LastFrom ==
    ASSUME NEW S, NEW s \in Seq(S), NEW n \in Nat \ {0}
    PROVE  \A i \in 1..Len(Last(s, n)) : \E j \in 1..Len(s) : Last(s, n)[i] = s[j]
  <1> DEFINE c == Cut(s, n)
  <1>1. /\ Len(s) \in Nat /\ c \in 0..Len(s) /\ Len(Last(s, n)) = Len(s) - c
        /\ \A i \in 1..(Len(s) - c) : Last(s, n)[i] = s[c + i]
    BY LenProperties, LastElements
  <1> HIDE DEF c
  <1> SUFFICES ASSUME NEW i \in 1..(Len(s) - c)
               PROVE  \E j \in 1..Len(s) : Last(s, n)[i] = s[j]
    BY <1>1
  <1>2. c + i \in 1..Len(s) /\ Last(s, n)[i] = s[c + i]
    BY <1>1
  <1> QED
    BY <1>2

\* Cutting before an event is appended and cut again loses nothing more than
\* cutting once: the timeline may be read, extended and cut for ever.
LEMMA LastAppend ==
    ASSUME NEW S, NEW s \in Seq(S), NEW e \in S, NEW n \in Nat \ {0}
    PROVE  Last(Append(Last(s, n), e), n) = Last(Append(s, e), n)
  <1> DEFINE t == Last(s, n)
             a == Append(t, e)
             b == Append(s, e)
             m == Cut(s, n)
             k == Cut(a, n)
             l == Cut(b, n)
  <1>1. /\ t \in Seq(S) /\ Len(s) \in Nat /\ m \in 0..Len(s)
        /\ Len(t) = Len(s) - m
        /\ \A i \in 1..Len(t) : t[i] = s[m + i]
    BY LenProperties, LastElements
  <1>2. /\ a \in Seq(S) /\ Len(a) = Len(t) + 1 /\ a[Len(t) + 1] = e
        /\ \A i \in 1..Len(t) : a[i] = t[i]
    BY <1>1, AppendProperties
  <1>3. /\ b \in Seq(S) /\ Len(b) = Len(s) + 1 /\ b[Len(s) + 1] = e
        /\ \A i \in 1..Len(s) : b[i] = s[i]
    BY AppendProperties
  <1> HIDE DEF a, b, t
  <1>4. /\ Last(a, n) \in Seq(S) /\ k \in 0..Len(a)
        /\ Len(Last(a, n)) = Len(a) - k
        /\ \A i \in 1..(Len(a) - k) : Last(a, n)[i] = a[k + i]
    <2>1. a \in Seq(S)
      BY <1>2
    <2> QED
      BY <2>1, LastElements
  <1>5. /\ Last(b, n) \in Seq(S) /\ l \in 0..Len(b)
        /\ Len(Last(b, n)) = Len(b) - l
        /\ \A i \in 1..(Len(b) - l) : Last(b, n)[i] = b[l + i]
    <2>1. b \in Seq(S)
      BY <1>3
    <2> QED
      BY <2>1, LastElements
  <1>6. m \in Nat /\ k \in Nat /\ l \in Nat
    BY <1>1, <1>2, <1>3, <1>4, <1>5
  <1>7. m + k = l /\ Len(a) - k = Len(b) - l
    <2>1. Len(s) \in Nat /\ Len(a) = Len(s) - m + 1 /\ Len(b) = Len(s) + 1
      BY <1>1, <1>2, <1>3
    <2>2. /\ m = IF Len(s) <= n THEN 0 ELSE Len(s) - n
          /\ k = IF Len(a) <= n THEN 0 ELSE Len(a) - n
          /\ l = IF Len(b) <= n THEN 0 ELSE Len(b) - n
      BY DEF Cut
    <2> DEFINE x == Len(s)
               y == Len(a)
               z == Len(b)
    <2>3. x \in Nat /\ n \in Nat /\ y = x - m + 1 /\ z = x + 1
      BY <2>1
    <2> HIDE DEF m, k, l, x, y, z
    <2>4. CASE x <= n
      BY <2>2, <2>3, <2>4 DEF x, y, z
    <2>5. CASE ~(x <= n)
      <3>1. m = x - n /\ y = n + 1
        BY <2>2, <2>3, <2>5 DEF x
      <3>2. k = 1
        <4>1. Len(a) = n + 1 /\ ~(n + 1 <= n) /\ (n + 1) - n = 1
          BY <2>3, <3>1 DEF y
        <4>2. k = IF Len(a) <= n THEN 0 ELSE Len(a) - n
          BY <2>2
        <4> QED
          BY <4>1, <4>2
      <3>3. l = x + 1 - n
        BY <2>2, <2>3, <2>5 DEF z
      <3> QED
        BY <2>3, <3>1, <3>2, <3>3 DEF x, y, z
    <2> QED
      BY <2>4, <2>5
  <1> HIDE DEF m, k, l
  <1>8. \A j \in 1..Len(a) : a[j] = b[m + j]
    <2> SUFFICES ASSUME NEW j \in 1..Len(a) PROVE a[j] = b[m + j]
      OBVIOUS
    <2>1. CASE j = Len(t) + 1
      BY <1>1, <1>2, <1>3, <1>6, <2>1
    <2>2. CASE j \in 1..Len(t)
      <3>1. m + j \in 1..Len(s)
        BY <1>1, <1>6, <2>2
      <3> QED
        BY <1>1, <1>2, <1>3, <2>2, <3>1
    <2> QED
      BY <1>1, <1>2, <1>6, <2>1, <2>2
  <1>9. \A i \in 1..Len(Last(a, n)) : Last(a, n)[i] = Last(b, n)[i]
    <2> SUFFICES ASSUME NEW i \in 1..(Len(a) - k)
                 PROVE  Last(a, n)[i] = Last(b, n)[i]
      BY <1>4
    <2>1. k + i \in 1..Len(a) /\ i \in 1..(Len(b) - l)
      BY <1>1, <1>2, <1>6, <1>7
    <2>2. m + (k + i) = l + i
      BY <1>6, <1>7
    <2> QED
      BY <1>4, <1>5, <1>8, <2>1, <2>2
  <1>10. Last(a, n) = Last(b, n)
    BY <1>4, <1>5, <1>7, <1>9, SeqEqual
  <1> QED
    BY <1>10 DEF a, b, t

-----------------------------------------------------------------------------
(***************************************************************************)
(* The inductive invariant.                                                *)
(***************************************************************************)

\* A run that has begun has collected a state of the machine.
CollectedInv == \A r \in Runs : pc[r] # "idle" => snap[r] \in Values

\* What SendJSON has accepted and the run is recording.
Recording == {"hardware", "fingerprint", "history", "readTimeline", "writeTimeline"}

\* What a run records, or read in order to write it again, was reported.
RecordingInv ==
    \A r \in Runs :
        /\ pc[r] \in Recording => snap[r] \in everReported
        /\ \A i \in 1..Len(read[r]) : read[r][i].to \in everReported

\* The youngest queued payload is the last report, unless that was overtaking
\* or a later snapshot was queued without being reported.
YoungestInv ==
    outbox # <<>> /\ ~overtaken /\ ~unrecorded => outbox[Len(outbox)] = reported

\* The fingerprint that the last report leaves in the database.
LastFingerprint == IF reported = None THEN None ELSE Fingerprint[reported]

\* One process, no failures: where the stored state and the last report agree.
DetectionInv ==
    Undisturbed => \A r \in Runs :
        /\ pc[r] \in {"hardware", "fingerprint"} => reported = snap[r]
        /\ pc[r] \notin {"hardware", "fingerprint"} => fp = LastFingerprint
        /\ Kind = Inventory /\ pc[r] # "hardware" => hardware = reported
        /\ Kind = Inventory /\ pc[r] = "send" => from[r] = reported

InHistory(e) == \E j \in 1..Len(history) : e = history[j]

\* Any processes, no failures: an event reaches the history before the timeline.
EventInv ==
    ~Faults =>
        /\ \A i \in 1..Len(timeline) : InHistory(timeline[i])
        /\ \A r \in Runs :
              /\ \A i \in 1..Len(read[r]) : InHistory(read[r][i])
              /\ pc[r] \in {"readTimeline", "writeTimeline"} => InHistory(Event(r))

\* One process, no failures: the timeline is the end of the history, but for
\* the event that is in the history and not yet in the timeline.
TimelineInv ==
    Undisturbed => \A r \in Runs :
        /\ pc[r] \notin {"readTimeline", "writeTimeline"} =>
              timeline = Last(history, TimelineCap)
        /\ pc[r] \in {"readTimeline", "writeTimeline"} =>
              \E h \in Seq(Events) :
                  history = Append(h, Event(r)) /\ timeline = Last(h, TimelineCap)
        /\ pc[r] = "writeTimeline" => read[r] = timeline

TypeInv == TypeOK /\ CollectedInv

-----------------------------------------------------------------------------
(***************************************************************************)
(* Types.                                                                  *)
(***************************************************************************)

\* No step changes the scenario: neither the runs nor whether they may fail.
LEMMA ScenarioFixed ==
    ASSUME [Next]_vars
    PROVE  /\ scenario' = scenario
           /\ Runs' = Runs /\ Faults' = Faults /\ Kind' = Kind
           /\ MaxChanges' = MaxChanges /\ (Undisturbed <=> Undisturbed')
  <1>1. scenario' = scenario
    BY DEF Next, Progress, Report, vars, machine, Collect, Skip, Prepare,
           Accepted, ReportSent, ReportQueued, ReportFails, RecordHardware,
           RecordFingerprint, RecordHistory, ReadTimeline, WriteTimeline,
           Restart, Deliver, DeliverAndKeep, Change
  <1> QED
    BY <1>1 DEF Runs, Faults, Kind, MaxChanges, Undisturbed

\* A run that returns has locals of the right type again.
LEMMA ReturnType ==
    ASSUME LocalTypeOK, CollectedInv, NEW r \in Runs, Runs' = Runs, Return(r)
    PROVE  LocalTypeOK' /\ CollectedInv'
  <1>1. <<>> \in Seq(Events)
    OBVIOUS
  <1> QED
    BY <1>1 DEF Return, Goto, LocalTypeOK, CollectedInv

\* What AfterFingerprint leaves of the locals.
LEMMA AfterFingerprintType ==
    ASSUME LocalTypeOK, CollectedInv, NEW r \in Runs, Runs' = Runs,
           pc[r] = "fingerprint", AfterFingerprint(r)
    PROVE  LocalTypeOK' /\ CollectedInv'
  <1>1. CASE Return(r)
    BY <1>1, ReturnType
  <1>2. CASE Goto(r, "history") /\ UNCHANGED local
    BY <1>2 DEF Goto, local, LocalTypeOK, CollectedInv
  <1> QED
    BY <1>1, <1>2 DEF AfterFingerprint

\* The event that a run records, and the timeline with it.
LEMMA EventType ==
    ASSUME LocalTypeOK, CollectedInv, NEW r \in Runs, pc[r] # "idle"
    PROVE  Event(r) \in Events
  BY DEF LocalTypeOK, CollectedInv, Event, Events

\* The timeline is never longer than its cap.
LEMMA LastLength ==
    ASSUME NEW S, NEW s \in Seq(S), NEW n \in Nat \ {0}
    PROVE  Len(Last(s, n)) <= n
  <1>1. Len(s) \in Nat /\ Len(Last(s, n)) = Len(s) - Cut(s, n)
    BY LenProperties, LastElements
  <1> QED
    BY <1>1 DEF Cut

LEMMA TypeInit == Init => TypeInv
  <1> SUFFICES ASSUME Init PROVE TypeInv
    OBVIOUS
  <1>1. MachineTypeOK
    BY SnapshotAssumption DEF Init, MachineTypeOK, MaxChanges
  <1>2. StoredTypeOK
    BY SnapshotAssumption DEF Init, StoredTypeOK
  <1>3. LocalTypeOK /\ CollectedInv
    <2>1. <<>> \in Seq(Events)
      OBVIOUS
    <2> QED
      BY <2>1 DEF Init, LocalTypeOK, CollectedInv
  <1>4. DeliveryTypeOK
    <2>1. <<>> \in Seq(Values)
      OBVIOUS
    <2> QED
      BY <2>1 DEF Init, DeliveryTypeOK
  <1> QED
    BY <1>1, <1>2, <1>3, <1>4 DEF TypeInv, TypeOK

\* What is left of an upload that FAILED or was cut off: the Portal may have the
\* snapshot, or the queue, and neither what was reported nor the database does.
LEMMA UploadEnds ==
    ASSUME TypeInv, NEW r \in Runs, ReportFails(r) \/ Restart(r)
    PROVE  /\ Return(r) /\ UNCHANGED <<machine, stored, reported, everReported>>
           /\ UNCHANGED delivery \/ (unrecorded' /\ DeliveryTypeOK')
  <1>1. DeliveryTypeOK
    BY DEF TypeInv, TypeOK
  <1>2. CASE UNCHANGED delivery
    BY <1>2 DEF ReportFails, Restart, delivery
  <1>3. CASE pc[r] = "send" /\ (HandledUnseen(r) \/ QueuedUnseen(r))
    <2>1. snap[r] \in Values
      BY <1>3 DEF TypeInv, CollectedInv
    <2>2. /\ UNCHANGED <<reported, everReported, overtaken>> /\ unrecorded' = TRUE
          /\ portal' \in {portal, snap[r]}
          /\ outbox' = outbox \/ outbox' = Append(outbox, snap[r])
      BY <1>3 DEF HandledUnseen, QueuedUnseen
    <2>3. outbox' \in Seq(Values)
      BY <1>1, <2>1, <2>2, AppendProperties DEF DeliveryTypeOK
    <2>4. DeliveryTypeOK'
      BY <1>1, <2>1, <2>2, <2>3 DEF DeliveryTypeOK
    <2> QED
      BY <2>2, <2>4 DEF ReportFails, Restart
  <1> QED
    BY <1>2, <1>3 DEF ReportFails, Restart

LEMMA TypeStep == TypeInv /\ [Next]_vars => TypeInv'
  <1> SUFFICES ASSUME TypeInv, [Next]_vars PROVE TypeInv'
    OBVIOUS
  <1>1. scenario' = scenario /\ Runs' = Runs /\ MaxChanges' = MaxChanges
    BY ScenarioFixed
  <1>2. MachineTypeOK /\ StoredTypeOK /\ LocalTypeOK /\ DeliveryTypeOK /\ CollectedInv
    BY DEF TypeInv, TypeOK
  <1> SUFFICES MachineTypeOK' /\ StoredTypeOK' /\ LocalTypeOK' /\ DeliveryTypeOK'
               /\ CollectedInv'
    BY DEF TypeInv, TypeOK
  <1>3. ASSUME UNCHANGED machine PROVE MachineTypeOK'
    BY <1>1, <1>2, <1>3 DEF MachineTypeOK, machine
  <1>4. ASSUME UNCHANGED stored PROVE StoredTypeOK'
    BY <1>2, <1>4 DEF StoredTypeOK, stored
  <1>5. ASSUME UNCHANGED <<pc, local>> PROVE LocalTypeOK' /\ CollectedInv'
    BY <1>1, <1>2, <1>5 DEF LocalTypeOK, CollectedInv, local
  <1>6. ASSUME UNCHANGED delivery PROVE DeliveryTypeOK'
    BY <1>2, <1>6 DEF DeliveryTypeOK, delivery
  <1>7. ASSUME NEW r \in Runs, Progress(r) \/ ReportFails(r) \/ Restart(r)
        PROVE  MachineTypeOK' /\ StoredTypeOK' /\ LocalTypeOK' /\ DeliveryTypeOK'
               /\ CollectedInv'
    <2>1. CASE Collect(r)
      <3>1. LocalTypeOK' /\ CollectedInv'
        BY <1>1, <1>2, <2>1 DEF Collect, Goto, LocalTypeOK, CollectedInv, MachineTypeOK
      <3> QED
        BY <1>3, <1>4, <1>6, <2>1, <3>1 DEF Collect
    <2>2. CASE Skip(r) \/ ReportFails(r) \/ Restart(r)
      <3>1. Return(r) /\ UNCHANGED <<machine, stored>> /\ DeliveryTypeOK'
        BY <1>6, <2>2, UploadEnds DEF Skip
      <3> QED
        BY <1>1, <1>2, <1>3, <1>4, <3>1, ReturnType
    <2>3. CASE Prepare(r)
      <3>1. LocalTypeOK' /\ CollectedInv'
        BY <1>1, <1>2, <2>3
           DEF Prepare, Goto, LocalTypeOK, CollectedInv, StoredTypeOK
      <3> QED
        BY <1>3, <1>4, <1>6, <2>3, <3>1 DEF Prepare
    <2>4. CASE Report(r)
      <3>1. PICK ok \in BOOLEAN : Accepted(r, ok)
        BY <2>4 DEF Report, ReportSent, ReportQueued
      <3>2. snap[r] \in Values
        BY <1>2, <3>1 DEF Accepted, CollectedInv
      <3>3. LocalTypeOK' /\ CollectedInv'
        BY <1>1, <1>2, <3>1, <3>2
           DEF Accepted, Goto, FirstRecord, LocalTypeOK, CollectedInv
      <3>4. reported' \in Values \cup {None} /\ everReported' \subseteq Values
        BY <1>2, <3>1, <3>2 DEF Accepted, DeliveryTypeOK
      <3>5. CASE ReportSent(r)
        BY <1>2, <1>3, <1>4, <3>1, <3>2, <3>3, <3>4, <3>5
           DEF ReportSent, Accepted, DeliveryTypeOK
      <3>6. CASE ReportQueued(r)
        <4>1. Append(outbox, snap[r]) \in Seq(Values)
          BY <1>2, <3>2 DEF DeliveryTypeOK
        <4> QED
          BY <1>2, <1>3, <1>4, <3>1, <3>3, <3>4, <3>6, <4>1
             DEF ReportQueued, Accepted, DeliveryTypeOK
      <3> QED
        BY <2>4, <3>5, <3>6 DEF Report
    <2>5. CASE RecordHardware(r)
      <3>1. StoredTypeOK'
        BY <1>2, <2>5 DEF RecordHardware, StoredTypeOK, CollectedInv
      <3>2. LocalTypeOK' /\ CollectedInv'
        BY <1>1, <1>2, <2>5 DEF RecordHardware, Goto, local, LocalTypeOK, CollectedInv
      <3> QED
        BY <1>3, <1>6, <2>5, <3>1, <3>2 DEF RecordHardware
    <2>6. CASE RecordFingerprint(r)
      <3>1. StoredTypeOK'
        BY <1>2, <2>6, SnapshotAssumption
           DEF RecordFingerprint, StoredTypeOK, CollectedInv
      <3>2. LocalTypeOK' /\ CollectedInv'
        BY <1>1, <1>2, <2>6, AfterFingerprintType DEF RecordFingerprint
      <3> QED
        BY <1>3, <1>6, <2>6, <3>1, <3>2 DEF RecordFingerprint
    <2>7. CASE RecordHistory(r)
      <3>1. Append(history, Event(r)) \in Seq(Events)
        BY <1>2, <2>7, EventType DEF RecordHistory, StoredTypeOK
      <3>2. StoredTypeOK'
        BY <1>2, <2>7, <3>1 DEF RecordHistory, StoredTypeOK
      <3>3. LocalTypeOK' /\ CollectedInv'
        BY <1>1, <1>2, <2>7 DEF RecordHistory, Goto, local, LocalTypeOK, CollectedInv
      <3> QED
        BY <1>3, <1>6, <2>7, <3>2, <3>3 DEF RecordHistory
    <2>8. CASE ReadTimeline(r)
      <3>1. timeline \in Seq(Events) /\ <<>> \in Seq(Events)
        BY <1>2 DEF StoredTypeOK
      <3>2. LocalTypeOK' /\ CollectedInv'
        BY <1>1, <1>2, <2>8, <3>1 DEF ReadTimeline, Goto, LocalTypeOK, CollectedInv
      <3> QED
        BY <1>3, <1>4, <1>6, <2>8, <3>2 DEF ReadTimeline
    <2>9. CASE WriteTimeline(r)
      <3>1. Append(read[r], Event(r)) \in Seq(Events)
        BY <1>2, <2>9, EventType DEF WriteTimeline, LocalTypeOK
      <3>2. /\ Last(Append(read[r], Event(r)), TimelineCap) \in Seq(Events)
            /\ Len(Last(Append(read[r], Event(r)), TimelineCap)) <= TimelineCap
        BY <3>1, LastElements, LastLength, SnapshotAssumption
      <3>3. StoredTypeOK'
        BY <1>2, <2>9, <3>2 DEF WriteTimeline, StoredTypeOK
      <3> QED
        BY <1>1, <1>2, <1>3, <1>6, <2>9, <3>3, ReturnType DEF WriteTimeline
    <2> QED
      BY <1>7, <2>1, <2>2, <2>3, <2>4, <2>5, <2>6, <2>7, <2>8, <2>9 DEF Progress
  <1>8. CASE Deliver \/ DeliverAndKeep
    <2>1. Head(outbox) \in Values /\ Tail(outbox) \in Seq(Values)
      BY <1>2, <1>8 DEF Deliver, DeliverAndKeep, DeliveryTypeOK
    <2>2. DeliveryTypeOK'
      BY <1>2, <1>8, <2>1 DEF Deliver, DeliverAndKeep, DeliveryTypeOK
    <2> QED
      BY <1>3, <1>4, <1>5, <1>8, <2>2 DEF Deliver, DeliverAndKeep
  <1>9. CASE Change
    <2>1. MaxChanges \in Nat /\ scenario.values \subseteq Values
      BY <1>2, SnapshotAssumption DEF MachineTypeOK, MaxChanges
    <2>2. MachineTypeOK'
      BY <1>1, <1>2, <1>9, <2>1 DEF Change, MachineTypeOK
    <2> QED
      BY <1>4, <1>5, <1>6, <1>9, <2>2 DEF Change
  <1>10. CASE UNCHANGED vars
    BY <1>3, <1>4, <1>5, <1>6, <1>10 DEF vars
  <1> QED
    BY <1>7, <1>8, <1>9, <1>10 DEF Next

\* Every variable keeps its type, the timeline its maximal length, and a run
\* at work holds a collected state, in every scenario.
THEOREM TypeCorrect == Spec => []TypeOK
  <1>1. TypeInv => TypeOK
    BY DEF TypeInv
  <1> QED
    BY <1>1, TypeInit, TypeStep, PTL DEF Spec

-----------------------------------------------------------------------------
(***************************************************************************)
(* The database only names what was reported, in every scenario.           *)
(***************************************************************************)
ReportedInv == RecordsWereReported /\ RecordingInv

\* A run that returns, or moves on to a state that is not recording, keeps
\* what the other runs hold.
LEMMA ReturnRecording ==
    ASSUME LocalTypeOK, RecordingInv, NEW r \in Runs, Runs' = Runs,
           Return(r), UNCHANGED everReported
    PROVE  RecordingInv'
  <1> SUFFICES ASSUME NEW q \in Runs
               PROVE  /\ pc'[q] \in Recording => snap'[q] \in everReported
                      /\ \A i \in 1..Len(read'[q]) : read'[q][i].to \in everReported
    BY DEF RecordingInv
  <1>1. CASE q = r
    <2>1. pc'[q] = "idle" /\ read'[q] = <<>> /\ Len(<<>>) = 0
      BY <1>1 DEF Return, Goto, LocalTypeOK
    <2> QED
      BY <2>1 DEF Recording
  <1>2. CASE q # r
    BY <1>2 DEF Return, Goto, LocalTypeOK, RecordingInv
  <1> QED
    BY <1>1, <1>2

\* A run that moves on while its collected state is reported already.
LEMMA GotoRecording ==
    ASSUME LocalTypeOK, RecordingInv, NEW r \in Runs, Runs' = Runs,
           NEW l, Goto(r, l), l \in Recording => snap[r] \in everReported,
           UNCHANGED <<snap, read, everReported>>
    PROVE  RecordingInv'
  BY DEF Goto, LocalTypeOK, RecordingInv

LEMMA ReportedInit == Init => ReportedInv
  <1> SUFFICES ASSUME Init PROVE ReportedInv
    OBVIOUS
  <1>1. Len(<<>>) = 0
    OBVIOUS
  <1> QED
    BY <1>1 DEF Init, ReportedInv, RecordsWereReported, RecordingInv, Recording

LEMMA ReportedStep == TypeInv /\ ReportedInv /\ [Next]_vars => ReportedInv'
  <1> SUFFICES ASSUME TypeInv, ReportedInv, [Next]_vars PROVE ReportedInv'
    OBVIOUS
  <1>1. Runs' = Runs
    BY ScenarioFixed
  <1>2. StoredTypeOK /\ LocalTypeOK /\ DeliveryTypeOK /\ CollectedInv
    BY DEF TypeInv, TypeOK
  <1>3. RecordsWereReported /\ RecordingInv
    BY DEF ReportedInv
  <1> SUFFICES RecordsWereReported' /\ RecordingInv'
    BY DEF ReportedInv
  <1>4. ASSUME UNCHANGED <<stored, everReported>> PROVE RecordsWereReported'
    BY <1>3, <1>4 DEF RecordsWereReported, stored
  <1>5. ASSUME UNCHANGED <<pc, snap, read, everReported>> PROVE RecordingInv'
    BY <1>1, <1>3, <1>5 DEF RecordingInv
  <1>6. ASSUME NEW r \in Runs, Progress(r) \/ ReportFails(r) \/ Restart(r)
        PROVE  RecordsWereReported' /\ RecordingInv'
    <2>1. CASE Collect(r)
      <3>1. RecordingInv'
        BY <1>1, <1>2, <1>3, <2>1
           DEF Collect, Goto, delivery, LocalTypeOK, RecordingInv, Recording
      <3> QED
        BY <1>4, <2>1, <3>1 DEF Collect, delivery
    <2>2. CASE Skip(r) \/ ReportFails(r) \/ Restart(r)
      <3>1. Return(r) /\ UNCHANGED <<stored, everReported>>
        BY <2>2, UploadEnds DEF Skip, delivery
      <3> QED
        BY <1>1, <1>2, <1>3, <1>4, <3>1, ReturnRecording
    <2>3. CASE Prepare(r)
      <3>1. Goto(r, "send") /\ UNCHANGED <<snap, read, everReported>>
        BY <2>3 DEF Prepare, delivery
      <3>2. "send" \notin Recording
        BY DEF Recording
      <3>3. RecordingInv'
        BY <1>1, <1>2, <1>3, <3>1, <3>2, GotoRecording
      <3> QED
        BY <1>4, <2>3, <3>3 DEF Prepare, delivery
    <2>4. CASE Report(r)
      <3>1. PICK ok \in BOOLEAN : Accepted(r, ok)
        BY <2>4 DEF Report, ReportSent, ReportQueued
      <3>2. /\ UNCHANGED <<stored, snap, read>>
            /\ everReported \subseteq everReported' /\ snap[r] \in everReported'
        BY <3>1 DEF Accepted
      <3>3. RecordsWereReported'
        BY <1>3, <3>2 DEF RecordsWereReported, stored
      <3>4. RecordingInv'
        BY <1>1, <1>2, <1>3, <3>1, <3>2
           DEF Accepted, Goto, LocalTypeOK, RecordingInv
      <3> QED
        BY <3>3, <3>4
    <2>5. CASE RecordHardware(r)
      <3>1. snap[r] \in everReported
        BY <1>3, <2>5 DEF RecordHardware, RecordingInv, Recording
      <3>2. RecordingInv'
        BY <1>1, <1>2, <1>3, <2>5, <3>1, GotoRecording DEF RecordHardware, local, delivery
      <3>3. RecordsWereReported'
        BY <1>3, <2>5, <3>1 DEF RecordHardware, RecordsWereReported, delivery
      <3> QED
        BY <3>2, <3>3
    <2>6. CASE RecordFingerprint(r)
      <3>1. snap[r] \in everReported
        BY <1>3, <2>6 DEF RecordFingerprint, RecordingInv, Recording
      <3>2. RecordsWereReported'
        BY <1>3, <2>6, <3>1 DEF RecordFingerprint, RecordsWereReported, delivery
      <3>3. CASE Return(r)
        BY <1>1, <1>2, <1>3, <2>6, <3>2, <3>3, ReturnRecording
           DEF RecordFingerprint, delivery
      <3>4. CASE Goto(r, "history") /\ UNCHANGED local
        BY <1>1, <1>2, <1>3, <2>6, <3>1, <3>2, <3>4, GotoRecording
           DEF RecordFingerprint, delivery, local
      <3> QED
        BY <2>6, <3>3, <3>4 DEF RecordFingerprint, AfterFingerprint
    <2>7. CASE RecordHistory(r)
      <3>1. snap[r] \in everReported /\ everReported' = everReported
        BY <1>3, <2>7 DEF RecordHistory, RecordingInv, Recording, delivery
      <3>2. RecordingInv'
        BY <1>1, <1>2, <1>3, <2>7, <3>1, GotoRecording DEF RecordHistory, local
      <3>3. \A i \in 1..Len(history') : history'[i].to \in everReported
        <4>1. CASE history' = history
          BY <1>3, <4>1 DEF RecordsWereReported
        <4>2. CASE history' = Append(history, Event(r))
          <5>1. Event(r) \in Events /\ Event(r).to = snap[r] /\ history \in Seq(Events)
            BY <1>2, <2>7, EventType DEF RecordHistory, StoredTypeOK, Event
          <5>2. /\ Len(history) \in Nat /\ Len(history') = Len(history) + 1
                /\ \A i \in 1..Len(history) : history'[i] = history[i]
                /\ history'[Len(history) + 1] = Event(r)
            BY <4>2, <5>1, AppendProperties, LenProperties
          <5> QED
            BY <1>3, <3>1, <5>1, <5>2 DEF RecordsWereReported
        <4> QED
          BY <2>7, <4>1, <4>2 DEF RecordHistory
      <3>4. RecordsWereReported'
        BY <1>3, <2>7, <3>1, <3>3 DEF RecordHistory, RecordsWereReported
      <3> QED
        BY <3>2, <3>4
    <2>8. CASE ReadTimeline(r)
      <3>1. snap[r] \in everReported /\ everReported' = everReported
        BY <1>3, <2>8 DEF ReadTimeline, RecordingInv, Recording, delivery
      <3>2. \A i \in 1..Len(read'[r]) : read'[r][i].to \in everReported
        <4>1. Len(<<>>) = 0 /\ read \in [Runs -> Seq(Events)]
          BY <1>2 DEF LocalTypeOK
        <4>2. read'[r] = timeline \/ read'[r] = <<>>
          BY <2>8, <4>1 DEF ReadTimeline
        <4> QED
          BY <1>3, <4>1, <4>2 DEF RecordsWereReported
      <3>3. \A q \in Runs \ {r} : UNCHANGED <<read[q], pc[q], snap[q]>>
        BY <1>2, <2>8 DEF ReadTimeline, Goto, LocalTypeOK
      <3>4. RecordingInv'
        BY <1>1, <1>3, <2>8, <3>1, <3>2, <3>3 DEF ReadTimeline, RecordingInv
      <3> QED
        BY <1>4, <2>8, <3>1, <3>4 DEF ReadTimeline
    <2>9. CASE WriteTimeline(r)
      <3>1. snap[r] \in everReported /\ everReported' = everReported
        BY <1>3, <2>9 DEF WriteTimeline, RecordingInv, Recording, delivery
      <3>2. RecordingInv'
        BY <1>1, <1>2, <1>3, <2>9, <3>1, ReturnRecording DEF WriteTimeline
      <3>3. \A i \in 1..Len(timeline') : timeline'[i].to \in everReported
        <4> DEFINE a == Append(read[r], Event(r))
        <4>1. CASE timeline' = timeline
          BY <1>3, <4>1 DEF RecordsWereReported
        <4>2. CASE timeline' = Last(a, TimelineCap)
          <5>1. Event(r) \in Events /\ Event(r).to = snap[r] /\ read[r] \in Seq(Events)
            BY <1>2, <2>9, EventType DEF WriteTimeline, LocalTypeOK, Event
          <5>2. /\ Len(read[r]) \in Nat /\ Len(a) = Len(read[r]) + 1 /\ a \in Seq(Events)
                /\ \A i \in 1..Len(read[r]) : a[i] = read[r][i]
                /\ a[Len(read[r]) + 1] = Event(r)
            BY <5>1, AppendProperties, LenProperties
          <5>3. \A i \in 1..Len(a) : a[i].to \in everReported
            <6> HIDE DEF a
            <6> QED BY <1>3, <3>1, <5>1, <5>2 DEF RecordingInv
          <5> HIDE DEF a
          <5>4. a \in Seq(Events) /\ TimelineCap \in Nat \ {0}
            BY <5>2, SnapshotAssumption
          <5>5. \A i \in 1..Len(timeline') : \E j \in 1..Len(a) : timeline'[i] = a[j]
            BY <4>2, <5>4, LastFrom
          <5> QED
            BY <5>3, <5>5
        <4> QED
          BY <2>9, <4>1, <4>2 DEF WriteTimeline
      <3>4. RecordsWereReported'
        BY <1>3, <2>9, <3>1, <3>3 DEF WriteTimeline, RecordsWereReported
      <3> QED
        BY <3>2, <3>4
    <2> QED
      BY <1>6, <2>1, <2>2, <2>3, <2>4, <2>5, <2>6, <2>7, <2>8, <2>9 DEF Progress
  <1>7. CASE Deliver \/ DeliverAndKeep \/ Change \/ UNCHANGED vars
    BY <1>4, <1>5, <1>7 DEF Deliver, DeliverAndKeep, Change, vars, local, delivery
  <1> QED
    BY <1>6, <1>7 DEF Next

\* A fingerprint, hardware, history row or timeline event in the database is of
\* a state that the sync engine took, however many processes write it, whatever
\* statement fails and wherever a process ends: persistSnapshot, persistHistory
\* and persistTimeline only run once SendJSON has accepted the payload.
THEOREM OnlyReportedRecorded == Spec => []RecordsWereReported
  <1>1. ReportedInv => RecordsWereReported
    BY DEF ReportedInv
  <1> QED
    BY <1>1, TypeInit, TypeStep, ReportedInit, ReportedStep, PTL DEF Spec

-----------------------------------------------------------------------------
(***************************************************************************)
(* The Portal has the last report, in every scenario.                      *)
(***************************************************************************)
LatestInv == PortalHasLatest /\ YoungestInv

LEMMA LatestStep == TypeInv /\ LatestInv /\ [Next]_vars => LatestInv'
  <1> SUFFICES ASSUME TypeInv, LatestInv, [Next]_vars PROVE LatestInv'
    OBVIOUS
  <1>1. outbox \in Seq(Values) /\ Len(outbox) \in Nat
    BY LenProperties DEF TypeInv, TypeOK, DeliveryTypeOK
  <1>2. ASSUME UNCHANGED delivery PROVE LatestInv'
    BY <1>2 DEF LatestInv, PortalHasLatest, YoungestInv, delivery
  <1>3. ASSUME NEW r \in Runs, ReportSent(r) PROVE LatestInv'
    <2>1. portal' = reported' /\ outbox' = outbox /\ (overtaken' <=> outbox # <<>>)
      BY <1>3 DEF ReportSent, Accepted
    <2> QED
      BY <2>1 DEF LatestInv, PortalHasLatest, YoungestInv
  <1>4. ASSUME NEW r \in Runs, ReportQueued(r) PROVE LatestInv'
    <2>1. pc[r] = "send" /\ reported' = snap[r] /\ outbox' = Append(outbox, snap[r])
      BY <1>4 DEF ReportQueued, Accepted
    <2>2. snap[r] \in Values
      BY <2>1 DEF TypeInv, CollectedInv
    <2>3. outbox' # <<>> /\ outbox'[Len(outbox')] = snap[r]
      BY <1>1, <2>1, <2>2, AppendProperties
    <2> QED
      BY <2>1, <2>3 DEF LatestInv, PortalHasLatest, YoungestInv
  <1>5. CASE Deliver
    <2>1. /\ outbox # <<>> /\ portal' = Head(outbox) /\ outbox' = Tail(outbox)
          /\ reported' = reported
          /\ (overtaken' <=> overtaken) /\ (unrecorded' <=> unrecorded)
      BY <1>5 DEF Deliver
    <2>2. CASE overtaken \/ unrecorded
      BY <2>1, <2>2 DEF LatestInv, PortalHasLatest, YoungestInv
    <2>3. CASE ~overtaken /\ ~unrecorded
      <3>1. outbox[Len(outbox)] = reported
        BY <2>1, <2>3 DEF LatestInv, YoungestInv
      <3>2. /\ Head(outbox) = outbox[1] /\ Len(outbox) > 0
            /\ Len(Tail(outbox)) = Len(outbox) - 1
            /\ \A i \in 1..(Len(outbox) - 1) : Tail(outbox)[i] = outbox[i + 1]
        BY <1>1, <2>1, HeadTailProperties, EmptySeq
      <3>3. CASE outbox' = <<>>
        <4>1. Len(outbox) = 1
          <5>1. Tail(outbox) = <<>>
            BY <2>1, <3>3
          <5>2. Len(<<>>) = 0
            OBVIOUS
          <5>3. Len(outbox) - 1 = 0
            BY <3>2, <5>1, <5>2
          <5> QED
            BY <1>1, <5>3
        <4> QED
          BY <2>1, <3>1, <3>2, <3>3, <4>1 DEF LatestInv, PortalHasLatest, YoungestInv
      <3>4. CASE outbox' # <<>>
        <4>1. Tail(outbox) \in Seq(Values)
          BY <1>1, <2>1
        <4>2. Len(Tail(outbox)) # 0
          BY <2>1, <3>4, <4>1, EmptySeq
        <4>3. outbox'[Len(outbox')] = outbox[Len(outbox)]
          BY <1>1, <2>1, <3>2, <4>2
        <4> QED
          BY <2>1, <3>1, <3>4, <4>3 DEF LatestInv, PortalHasLatest, YoungestInv
      <3> QED
        BY <3>3, <3>4
    <2> QED
      BY <2>2, <2>3
  <1>6. CASE DeliverAndKeep
    BY <1>6 DEF DeliverAndKeep, LatestInv, PortalHasLatest, YoungestInv
  <1>7. ASSUME NEW r \in Runs, Progress(r), ~Report(r)
        PROVE  UNCHANGED delivery
    BY <1>7 DEF Progress, Collect, Skip, Prepare, RecordHardware,
       RecordFingerprint, RecordHistory, ReadTimeline, WriteTimeline
  <1>8. ASSUME NEW r \in Runs, ReportFails(r) \/ Restart(r) PROVE LatestInv'
    <2>1. CASE UNCHANGED delivery
      BY <1>2, <2>1
    <2>2. CASE unrecorded'
      BY <2>2 DEF LatestInv, PortalHasLatest, YoungestInv
    <2> QED
      BY <1>8, <2>1, <2>2, UploadEnds
  <1>9. CASE Change \/ UNCHANGED vars
    BY <1>2, <1>9 DEF Change, vars
  <1> QED
    BY <1>2, <1>3, <1>4, <1>5, <1>6, <1>7, <1>8, <1>9 DEF Next, Report

\* With the queue empty the Portal has the last state that was SENT or QUEUED,
\* whatever replies are lost, however many processes send and whichever of them
\* end, unless that state had overtaken queued ones or a later upload that was
\* not accepted (FAILED, or its process ended) had reached the Portal or the
\* queue: RunOnce forgets such an upload, and the Portal does not.
THEOREM PortalIsLatest == Spec => []PortalHasLatest
  <1>1. Init => LatestInv
    BY DEF Init, LatestInv, PortalHasLatest, YoungestInv
  <1>2. LatestInv => PortalHasLatest
    BY DEF LatestInv
  <1> QED
    BY <1>1, <1>2, TypeInit, TypeStep, LatestStep, PTL DEF Spec

-----------------------------------------------------------------------------
(***************************************************************************)
(* Change detection by one process whose statements do not fail.           *)
(***************************************************************************)

\* There is one run, and nothing but its own steps changes its state.
LEMMA OneRun ==
    ASSUME TypeInv, Undisturbed
    PROVE  \E r \in Runs : Runs = {r}
  <1>1. IsFiniteSet(Runs) /\ Cardinality(Runs) = 1
    BY SnapshotAssumption DEF TypeInv, TypeOK, MachineTypeOK, Undisturbed, Runs
  <1> QED
    BY <1>1, FS_Singleton

LEMMA DetectionInit == Init => DetectionInv
  BY DEF Init, DetectionInv, LastFingerprint

LEMMA DetectionStep == TypeInv /\ DetectionInv /\ [Next]_vars => DetectionInv'
  <1> SUFFICES ASSUME TypeInv, DetectionInv, [Next]_vars, Undisturbed
               PROVE  \A r \in Runs :
        /\ pc'[r] \in {"hardware", "fingerprint"} => reported' = snap'[r]
        /\ pc'[r] \notin {"hardware", "fingerprint"} => fp' = LastFingerprint'
        /\ Kind = Inventory /\ pc'[r] # "hardware" => hardware' = reported'
        /\ Kind = Inventory /\ pc'[r] = "send" => from'[r] = reported'
    BY ScenarioFixed DEF DetectionInv
  <1>1. PICK r \in Runs : Runs = {r}
    BY OneRun
  <1>2. /\ pc[r] \in {"hardware", "fingerprint"} => reported = snap[r]
        /\ pc[r] \notin {"hardware", "fingerprint"} => fp = LastFingerprint
        /\ Kind = Inventory /\ pc[r] # "hardware" => hardware = reported
        /\ Kind = Inventory /\ pc[r] = "send" => from[r] = reported
    BY <1>1 DEF DetectionInv
  <1>3. /\ ~Faults
        /\ LocalTypeOK /\ CollectedInv
    BY DEF TypeInv, TypeOK, Undisturbed
  <1> SUFFICES
        /\ pc'[r] \in {"hardware", "fingerprint"} => reported' = snap'[r]
        /\ pc'[r] \notin {"hardware", "fingerprint"} => fp' = LastFingerprint'
        /\ Kind = Inventory /\ pc'[r] # "hardware" => hardware' = reported'
        /\ Kind = Inventory /\ pc'[r] = "send" => from'[r] = reported'
    BY <1>1
  <1>4. CASE Collect(r)
    BY <1>2, <1>3, <1>4
       DEF Collect, Goto, stored, delivery, LocalTypeOK, LastFingerprint
  <1>5. CASE Skip(r) \/ ReportFails(r)
    <2>1. Return(r) /\ UNCHANGED <<stored, reported>>
      BY <1>5, UploadEnds DEF Skip, delivery
    <2>2. pc[r] \in {"compare", "send"}
      BY <1>5 DEF Skip, ReportFails
    <2> QED
      BY <1>2, <1>3, <2>1, <2>2
         DEF Return, Goto, stored, LocalTypeOK, LastFingerprint
  <1>6. CASE Prepare(r)
    BY <1>2, <1>3, <1>6
       DEF Prepare, Goto, stored, delivery, LocalTypeOK, LastFingerprint
  <1>7. CASE Report(r)
    <2>1. PICK ok \in BOOLEAN : Accepted(r, ok)
      BY <1>7 DEF Report, ReportSent, ReportQueued
    <2> QED
      BY <1>2, <1>3, <2>1
         DEF Accepted, Goto, FirstRecord, stored, LocalTypeOK
  <1>8. CASE RecordHardware(r)
    BY <1>2, <1>3, <1>8
       DEF RecordHardware, Goto, local, delivery, LocalTypeOK
  <1>9. CASE RecordFingerprint(r)
    <2>1. reported = snap[r] /\ snap[r] \in Values
      BY <1>2, <1>3, <1>9 DEF RecordFingerprint, CollectedInv
    <2>2. fp' = LastFingerprint'
      BY <1>3, <1>9, <2>1, SnapshotAssumption
         DEF RecordFingerprint, delivery, LastFingerprint
    <2>3. pc'[r] \in {"idle", "history"}
      BY <1>3, <1>9 DEF RecordFingerprint, AfterFingerprint, Return, Goto, LocalTypeOK
    <2> QED
      BY <1>2, <1>9, <2>2, <2>3 DEF RecordFingerprint, delivery
  <1>10. CASE RecordHistory(r) \/ ReadTimeline(r) \/ WriteTimeline(r)
    <2>1. pc'[r] \in {"idle", "readTimeline", "writeTimeline"}
      BY <1>3, <1>10 DEF RecordHistory, ReadTimeline, WriteTimeline, Return, Goto,
                         LocalTypeOK
    <2>2. pc[r] \in {"history", "readTimeline", "writeTimeline"}
      BY <1>10 DEF RecordHistory, ReadTimeline, WriteTimeline
    <2>3. UNCHANGED <<fp, hardware, reported>>
      BY <1>10 DEF RecordHistory, ReadTimeline, WriteTimeline, stored, delivery
    <2> QED
      BY <1>2, <2>1, <2>2, <2>3 DEF LastFingerprint
  <1>11. CASE Deliver \/ DeliverAndKeep \/ Change \/ UNCHANGED vars
    BY <1>2, <1>11 DEF Deliver, DeliverAndKeep, Change, vars, stored, local, delivery, LastFingerprint
  <1> QED
    BY <1>1, <1>3, <1>4, <1>5, <1>6, <1>7, <1>8, <1>9, <1>10, <1>11
       DEF Next, Progress, Restart

LEMMA Detection == Spec => [](TypeInv /\ DetectionInv)
  BY TypeInit, TypeStep, DetectionInit, DetectionStep, PTL DEF Spec

\* One process whose statements do not fail skips only what the sync engine
\* took last, up to the volatile fields: RunOnce compares with a fingerprint
\* that persistSnapshot stored after that report and no other.
THEOREM OnlyIdenticalSkipped == Spec => []SkipIsIdenticalUndisturbed
  <1>1. TypeInv /\ DetectionInv => SkipIsIdenticalUndisturbed
    <2> SUFFICES ASSUME TypeInv, DetectionInv, Undisturbed, NEW r \in Runs,
                        pc[r] = "compare", fp = Fingerprint[snap[r]]
                 PROVE  reported # None /\ Fingerprint[reported] = Fingerprint[snap[r]]
      BY DEF SkipIsIdenticalUndisturbed, SkipIsIdentical
    <2>1. fp = LastFingerprint
      BY DEF DetectionInv
    <2>2. fp \in Nat
      BY SnapshotAssumption DEF TypeInv, CollectedInv
    <2> QED
      BY <2>1, <2>2, SnapshotAssumption DEF LastFingerprint
  <1> QED
    BY <1>1, Detection, PTL

\* The changes that CompareHardware attached to an inventory payload of one
\* process whose statements do not fail are those since the previous report.
THEOREM DiffIsAgainstPrevious == Spec => []DiffAgainstPrevious
  <1>1. TypeInv /\ DetectionInv => DiffAgainstPrevious
    BY DEF DetectionInv, DiffAgainstPrevious
  <1> QED
    BY <1>1, Detection, PTL

-----------------------------------------------------------------------------
(***************************************************************************)
(* The timeline and the history.                                           *)
(***************************************************************************)

\* The history only grows at its end.
LEMMA HistoryGrows ==
    ASSUME TypeInv, [Next]_vars
    PROVE  \A e : InHistory(e) => \E j \in 1..Len(history') : e = history'[j]
  <1>1. history \in Seq(Events) /\ Len(history) \in Nat
    BY LenProperties DEF TypeInv, TypeOK, StoredTypeOK
  <1>2. ASSUME NEW r \in Runs, pc[r] = "history", history' = Append(history, Event(r))
        PROVE  /\ Len(history') = Len(history) + 1
               /\ \A j \in 1..Len(history) : history'[j] = history[j]
    <2>1. Event(r) \in Events
      BY <1>2, EventType DEF TypeInv, TypeOK
    <2> QED
      BY <1>1, <1>2, <2>1, AppendProperties
  <1>3. \/ history' = history
        \/ \E r \in Runs : pc[r] = "history" /\ history' = Append(history, Event(r))
    BY DEF Next, Progress, Report, vars, stored, Collect, Skip, Prepare,
           Accepted, ReportSent, ReportQueued, ReportFails, RecordHardware,
           RecordFingerprint, RecordHistory, ReadTimeline, WriteTimeline,
           Restart, Deliver, DeliverAndKeep, Change
  <1>4. CASE history' = history
    BY <1>4 DEF InHistory
  <1>5. CASE \E r \in Runs : pc[r] = "history" /\ history' = Append(history, Event(r))
    <2>1. /\ Len(history') = Len(history) + 1
          /\ \A j \in 1..Len(history) : history'[j] = history[j]
      BY <1>2, <1>5
    <2>2. \A j \in 1..Len(history) : j \in 1..Len(history')
      BY <1>1, <2>1
    <2> QED
      BY <2>1, <2>2 DEF InHistory
  <1> QED
    BY <1>3, <1>4, <1>5

\* The parts of EventInv, without its hypothesis.
TimelineInHistory == \A i \in 1..Len(timeline) : InHistory(timeline[i])

RunInHistory(r) ==
    /\ \A i \in 1..Len(read[r]) : InHistory(read[r][i])
    /\ pc[r] \in {"readTimeline", "writeTimeline"} => InHistory(Event(r))

\* Locals that do not change stay in the history, and so does a run that
\* returns.
LEMMA RunStaysInHistory ==
    ASSUME TypeInv, [Next]_vars, NEW q \in Runs, RunInHistory(q),
           \/ UNCHANGED <<pc[q], read[q], Event(q)>>
           \/ pc'[q] \notin {"readTimeline", "writeTimeline"} /\ read'[q] = read[q]
           \/ pc'[q] = "idle" /\ read'[q] = <<>>
    PROVE  RunInHistory(q)'
  <1>1. \A e : InHistory(e) => \E j \in 1..Len(history') : e = history'[j]
    BY HistoryGrows
  <1> DEFINE Then(e) == \E j \in 1..Len(history') : e = history'[j]
  <1>2. ASSUME read'[q] = read[q] PROVE \A i \in 1..Len(read'[q]) : Then(read'[q][i])
    <2>1. \A i \in 1..Len(read[q]) : InHistory(read[q][i])
      BY DEF RunInHistory
    <2> QED
      BY <1>1, <1>2, <2>1
  <1>3. RunInHistory(q)' <=>
            /\ \A i \in 1..Len(read'[q]) : Then(read'[q][i])
            /\ pc'[q] \in {"readTimeline", "writeTimeline"} => Then(Event(q)')
    BY DEF RunInHistory, InHistory
  <1>4. CASE UNCHANGED <<pc[q], read[q], Event(q)>>
    <2>1. pc'[q] \in {"readTimeline", "writeTimeline"} => InHistory(Event(q))
      BY <1>4 DEF RunInHistory
    <2>2. pc'[q] \in {"readTimeline", "writeTimeline"} => Then(Event(q))
      BY <1>1, <2>1
    <2>3. \A i \in 1..Len(read'[q]) : Then(read'[q][i])
      BY <1>4, <1>2
    <2> HIDE DEF Then
    <2> QED
      BY <1>4, <1>3, <2>2, <2>3
  <1>5. CASE pc'[q] \notin {"readTimeline", "writeTimeline"} /\ read'[q] = read[q]
    BY <1>5, <1>2, <1>3
  <1>6. CASE pc'[q] = "idle" /\ read'[q] = <<>>
    <2>1. Len(<<>>) = 0
      OBVIOUS
    <2> QED
      BY <1>6, <2>1 DEF RunInHistory
  <1> QED
    BY <1>4, <1>5, <1>6

\* A step of one run does not change the locals of another.
LEMMA OthersUnchanged ==
    ASSUME TypeInv, NEW r \in Runs, Progress(r) \/ ReportFails(r) \/ Restart(r),
           NEW q \in Runs, q # r
    PROVE  UNCHANGED <<pc[q], read[q], Event(q)>>
  <1>1. LocalTypeOK
    BY DEF TypeInv, TypeOK
  <1>2. CASE Return(r)
    BY <1>1, <1>2 DEF Return, Goto, LocalTypeOK, Event
  <1>3. CASE Collect(r) \/ Prepare(r)
    BY <1>1, <1>3 DEF Collect, Prepare, Goto, LocalTypeOK, Event
  <1>4. CASE Report(r)
    <2>1. PICK ok \in BOOLEAN : Accepted(r, ok)
      BY <1>4 DEF Report, ReportSent, ReportQueued
    <2> QED
      BY <1>1, <2>1 DEF Accepted, Goto, LocalTypeOK, Event
  <1>5. CASE UNCHANGED local /\ \E l : Goto(r, l)
    BY <1>1, <1>5 DEF Goto, LocalTypeOK, Event, local
  <1>6. CASE ReadTimeline(r)
    BY <1>1, <1>6 DEF ReadTimeline, Goto, LocalTypeOK, Event
  <1> QED
    BY <1>2, <1>3, <1>4, <1>5, <1>6
       DEF Progress, Skip, RecordHardware, RecordFingerprint, AfterFingerprint,
           RecordHistory, WriteTimeline, ReportFails, Restart

LEMMA EventStep == TypeInv /\ EventInv /\ [Next]_vars => EventInv'
  <1> SUFFICES ASSUME TypeInv, EventInv, [Next]_vars, ~Faults
               PROVE  TimelineInHistory' /\ \A q \in Runs : RunInHistory(q)'
    BY ScenarioFixed DEF EventInv, TimelineInHistory, RunInHistory
  <1>1. TimelineInHistory /\ \A q \in Runs : RunInHistory(q)
    BY DEF EventInv, TimelineInHistory, RunInHistory
  <1>2. StoredTypeOK /\ LocalTypeOK /\ CollectedInv
    BY DEF TypeInv, TypeOK
  <1>3. \A e : InHistory(e) => \E j \in 1..Len(history') : e = history'[j]
    BY HistoryGrows
  <1>4. ASSUME UNCHANGED timeline PROVE TimelineInHistory'
    BY <1>1, <1>3, <1>4 DEF TimelineInHistory, InHistory
  <1>5. ASSUME NEW r \in Runs, Progress(r) \/ ReportFails(r) \/ Restart(r),
               RunInHistory(r)'
        PROVE  \A q \in Runs : RunInHistory(q)'
    <2> SUFFICES ASSUME NEW q \in Runs, q # r PROVE RunInHistory(q)'
      BY <1>5
    <2>1. UNCHANGED <<pc[q], read[q], Event(q)>>
      BY <1>5, OthersUnchanged
    <2> QED
      BY <1>1, <2>1, RunStaysInHistory
  <1>6. ASSUME NEW r \in Runs, Progress(r) \/ ReportFails(r) \/ Restart(r)
        PROVE  TimelineInHistory' /\ \A q \in Runs : RunInHistory(q)'
    <2> SUFFICES TimelineInHistory' /\ RunInHistory(r)'
      BY <1>5, <1>6
    <2>1. CASE Collect(r) \/ Prepare(r) \/ RecordHardware(r)
      <3>1. pc'[r] \notin {"readTimeline", "writeTimeline"} /\ read'[r] = read[r]
        BY <1>2, <2>1 DEF Collect, Prepare, RecordHardware, Goto, local, LocalTypeOK
      <3>2. UNCHANGED timeline
        BY <2>1 DEF Collect, Prepare, RecordHardware, stored
      <3> QED
        BY <1>1, <1>4, <3>1, <3>2, RunStaysInHistory
    <2>2. CASE Return(r) /\ UNCHANGED timeline
      <3>1. pc'[r] = "idle" /\ read'[r] = <<>>
        BY <1>2, <2>2 DEF Return, Goto, LocalTypeOK
      <3> QED
        BY <1>1, <1>4, <2>2, <3>1, RunStaysInHistory
    <2>3. CASE Report(r)
      <3>1. PICK ok \in BOOLEAN : Accepted(r, ok)
        BY <2>3 DEF Report, ReportSent, ReportQueued
      <3>2. pc'[r] \notin {"readTimeline", "writeTimeline"} /\ read'[r] = read[r]
        BY <1>2, <3>1 DEF Accepted, FirstRecord, Goto, LocalTypeOK
      <3>3. UNCHANGED timeline
        BY <3>1 DEF Accepted, stored
      <3> QED
        BY <1>1, <1>4, <3>2, <3>3, RunStaysInHistory
    <2>4. CASE Goto(r, "history") /\ UNCHANGED <<local, timeline>>
      <3>1. pc'[r] \notin {"readTimeline", "writeTimeline"} /\ read'[r] = read[r]
        BY <1>2, <2>4 DEF Goto, local, LocalTypeOK
      <3> QED
        BY <1>1, <1>4, <2>4, <3>1, RunStaysInHistory
    <2>5. CASE RecordHistory(r)
      <3>1. /\ UNCHANGED <<timeline, read, Event(r)>>
            /\ history' = Append(history, Event(r))
        BY <2>5 DEF RecordHistory, local, Event, Undisturbed
      <3>2. history \in Seq(Events) /\ Event(r) \in Events
        BY <1>2, <2>5, EventType DEF RecordHistory, StoredTypeOK
      <3>3. Len(history') \in 1..Len(history') /\ history'[Len(history')] = Event(r)
        BY <3>1, <3>2, AppendProperties, LenProperties
      <3>4. RunInHistory(r)'
        BY <1>1, <1>3, <3>1, <3>3 DEF RunInHistory, InHistory
      <3> QED
        BY <1>4, <3>1, <3>4
    <2>6. CASE ReadTimeline(r)
      <3>1. /\ pc[r] = "readTimeline" /\ read'[r] = timeline
            /\ UNCHANGED <<timeline, history, Event(r)>>
        BY <1>2, <2>6 DEF ReadTimeline, LocalTypeOK, stored, Event
      <3>2. RunInHistory(r)'
        BY <1>1, <3>1 DEF RunInHistory, InHistory, TimelineInHistory
      <3> QED
        BY <1>4, <3>1, <3>2
    <2>7. CASE WriteTimeline(r)
      <3> DEFINE a == Append(read[r], Event(r))
      <3>1. /\ pc[r] = "writeTimeline" /\ timeline' = Last(a, TimelineCap)
            /\ Return(r)
        BY <2>7 DEF WriteTimeline
      <3>2. read[r] \in Seq(Events) /\ Event(r) \in Events
        BY <1>2, <3>1, EventType DEF LocalTypeOK
      <3>3. /\ a \in Seq(Events) /\ Len(read[r]) \in Nat /\ Len(a) = Len(read[r]) + 1
            /\ \A i \in 1..Len(read[r]) : a[i] = read[r][i]
            /\ a[Len(read[r]) + 1] = Event(r)
        BY <3>2, AppendProperties, LenProperties
      <3> HIDE DEF a
      <3>4. \A j \in 1..Len(a) : InHistory(a[j])
        BY <1>1, <3>1, <3>3 DEF RunInHistory
      <3>5. a \in Seq(Events) /\ TimelineCap \in Nat \ {0}
        BY <3>3, SnapshotAssumption
      <3>6. \A i \in 1..Len(timeline') : \E j \in 1..Len(a) : timeline'[i] = a[j]
        BY <3>1, <3>5, LastFrom
      <3>7. \A i \in 1..Len(timeline') : InHistory(timeline'[i])
        BY <3>4, <3>6
      <3>8. TimelineInHistory'
        BY <1>3, <3>7 DEF TimelineInHistory, InHistory
      <3>9. pc'[r] = "idle" /\ read'[r] = <<>>
        BY <1>2, <3>1 DEF Return, Goto, LocalTypeOK
      <3> QED
        BY <1>1, <3>8, <3>9, RunStaysInHistory
    <2> QED
      BY <1>6, <2>1, <2>2, <2>3, <2>4, <2>5, <2>6, <2>7
         DEF Progress, Skip, RecordFingerprint, AfterFingerprint, ReportFails,
             Restart, stored
  <1>7. CASE Deliver \/ DeliverAndKeep \/ Change \/ UNCHANGED vars
    <2>1. UNCHANGED <<timeline, pc, read, snap, from>>
      BY <1>7 DEF Deliver, DeliverAndKeep, Change, vars, stored, local
    <2>2. \A q \in Runs : UNCHANGED <<pc[q], read[q], Event(q)>>
      BY <2>1 DEF Event
    <2> QED
      BY <1>1, <1>4, <2>1, <2>2, RunStaysInHistory
  <1> QED
    BY <1>6, <1>7 DEF Next

LEMMA TimelineStep == TypeInv /\ TimelineInv /\ [Next]_vars => TimelineInv'
  <1> DEFINE Late(r) == pc[r] \in {"readTimeline", "writeTimeline"}
             Settled == timeline = Last(history, TimelineCap)
             Owed(r) == \E h \in Seq(Events) :
                           history = Append(h, Event(r)) /\ timeline = Last(h, TimelineCap)
             Inv(r) == /\ ~Late(r) => Settled
                       /\ Late(r) => Owed(r)
                       /\ pc[r] = "writeTimeline" => read[r] = timeline
  <1> SUFFICES ASSUME TypeInv, TimelineInv, [Next]_vars, Undisturbed
               PROVE  \A r \in Runs : Inv(r)'
    BY ScenarioFixed DEF TimelineInv
  <1>1. PICK r \in Runs : Runs = {r}
    BY OneRun
  <1>2. Inv(r)
    BY DEF TimelineInv
  <1>3. ~Faults /\ StoredTypeOK /\ LocalTypeOK /\ CollectedInv
    BY DEF TypeInv, TypeOK, Undisturbed
  <1> SUFFICES Inv(r)'
    BY <1>1
  <1>4. ASSUME ~Late(r), ~Late(r)', UNCHANGED <<history, timeline>>
        PROVE  Inv(r)'
    BY <1>2, <1>4
  <1>5. CASE \/ Collect(r) \/ Skip(r) \/ Prepare(r) \/ Report(r)
             \/ RecordHardware(r) \/ RecordFingerprint(r) \/ ReportFails(r)
    <2>1. UNCHANGED <<history, timeline>>
      BY <1>5 DEF Collect, Skip, Prepare, Report, ReportSent, ReportQueued, Accepted,
                  RecordHardware, RecordFingerprint, ReportFails, stored
    <2>2. ~Late(r)
      BY <1>5 DEF Collect, Skip, Prepare, Report, ReportSent, ReportQueued, Accepted,
                  RecordHardware, RecordFingerprint, ReportFails
    <2>3. pc'[r] \in {"idle", "compare", "send", "hardware", "fingerprint", "history"}
      BY <1>3, <1>5
         DEF Collect, Skip, Prepare, Report, ReportSent, ReportQueued, Accepted,
             FirstRecord, RecordHardware, RecordFingerprint, AfterFingerprint,
             ReportFails, Return, Goto, LocalTypeOK
    <2> QED
      BY <1>4, <2>1, <2>2, <2>3
  <1>6. CASE RecordHistory(r)
    <2>1. /\ pc[r] = "history" /\ pc'[r] = "readTimeline"
          /\ history' = Append(history, Event(r))
          /\ UNCHANGED <<timeline, Event(r)>>
      BY <1>3, <1>6 DEF RecordHistory, Goto, local, LocalTypeOK, Event
    <2>2. history \in Seq(Events) /\ timeline = Last(history, TimelineCap)
      BY <1>2, <1>3, <2>1 DEF StoredTypeOK
    <2> QED
      BY <2>1, <2>2
  <1>7. CASE ReadTimeline(r)
    <2>1. /\ pc[r] = "readTimeline" /\ pc'[r] = "writeTimeline"
          /\ read'[r] = timeline
          /\ UNCHANGED <<history, timeline, Event(r)>>
      BY <1>3, <1>7 DEF ReadTimeline, Goto, stored, LocalTypeOK, Event
    <2> QED
      BY <1>2, <2>1
  <1>8. CASE WriteTimeline(r)
    <2>1. /\ pc[r] = "writeTimeline" /\ pc'[r] = "idle"
          /\ timeline' = Last(Append(read[r], Event(r)), TimelineCap)
          /\ history' = history
      BY <1>3, <1>8 DEF WriteTimeline, Return, Goto, LocalTypeOK
    <2>2. PICK h \in Seq(Events) :
              history = Append(h, Event(r)) /\ timeline = Last(h, TimelineCap)
      BY <1>2, <2>1
    <2>3. timeline' = Last(Append(Last(h, TimelineCap), Event(r)), TimelineCap)
      BY <1>2, <2>1, <2>2
    <2>4. Event(r) \in Events /\ TimelineCap \in Nat \ {0}
      BY <1>3, <2>1, EventType, SnapshotAssumption
    <2>5. timeline' = Last(history', TimelineCap)
      BY <2>1, <2>2, <2>3, <2>4, LastAppend
    <2> QED
      BY <2>1, <2>5
  <1>9. CASE Deliver \/ DeliverAndKeep \/ Change \/ UNCHANGED vars
    <2>1. UNCHANGED <<pc, history, timeline, read, Event(r)>>
      BY <1>9 DEF Deliver, DeliverAndKeep, Change, vars, stored, local, Event
    <2> QED
      BY <1>2, <2>1
  <1> QED
    BY <1>1, <1>3, <1>5, <1>6, <1>7, <1>8, <1>9
       DEF Next, Progress, Restart

LEMMA TimelineInit == Init => EventInv /\ TimelineInv
  <1> SUFFICES ASSUME Init PROVE EventInv /\ TimelineInv
    OBVIOUS
  <1>1. Len(<<>>) = 0 /\ 0 <= TimelineCap
    BY SnapshotAssumption
  <1>2. Last(<<>>, TimelineCap) = <<>>
    BY <1>1 DEF Last
  <1> QED
    BY <1>1, <1>2 DEF Init, EventInv, TimelineInv

\* Between runs the timeline is the end of the history, as far as its cap
\* reaches, when one process writes both and nothing fails; with several
\* processes an event of the timeline still has its row in the history.
THEOREM TimelineIsHistory == Spec => []TimelineMatchesHistory
  <1>1. TypeInv /\ EventInv /\ TimelineInv => TimelineMatchesHistory
    <2> SUFFICES ASSUME TypeInv, EventInv, TimelineInv PROVE TimelineMatchesHistory
      OBVIOUS
    <2>1. ASSUME ~Faults
          PROVE  \A i \in 1..Len(timeline) :
                     \E j \in 1..Len(history) : timeline[i] = history[j]
      BY <2>1 DEF EventInv, InHistory
    <2>2. ASSUME Undisturbed,
                 \A r \in Runs : pc[r] \notin {"readTimeline", "writeTimeline"}
          PROVE  timeline = Last(history, TimelineCap)
      BY <2>2, OneRun DEF TimelineInv
    <2> QED
      BY <2>1, <2>2 DEF TimelineMatchesHistory
  <1> QED
    BY <1>1, TypeInit, TypeStep, TimelineInit, EventStep, TimelineStep, PTL DEF Spec
=============================================================================
