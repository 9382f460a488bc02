-------------------------- MODULE SyncEngineProofs --------------------------
(***************************************************************************)
(* Theorems about SyncEngine, for any number of threads, retries and queued*)
(* payloads.  Type correctness holds whatever processes run; the delivery  *)
(* guarantees need OneProcess, because the mutex that keeps the ids of a   *)
(* flush pass from going stale is not shared between processes.            *)
(***************************************************************************)
EXTENDS SyncEngine, FiniteSetTheorems, NumberTheorems, TLAPS

OneProcess == \A p, q \in Procs : p = q

-----------------------------------------------------------------------------
(***************************************************************************)
(* Type correctness.                                                       *)
(***************************************************************************)

\* Rows in the table and in memory are of payloads that were enqueued.
StampsBounded ==
    /\ \A r \in queue : r.stamp <= enqueued
    /\ \A t \in Threads : \A r \in items[t] : r.stamp <= enqueued

TypeInv == TypeOK /\ StampsBounded

\* An INSERT adds rows with the new stamp and a positive id only.
LEMMA EnqueueRows ==
    ASSUME NEW q, q \subseteq QueueRow, NEW n \in Nat \ {0}
    PROVE  /\ Enqueue(q, n) \subseteq QueueRow
           /\ \A r \in Enqueue(q, n) : r \in q \/ r.stamp = n
  BY DEF Enqueue, NextRowId, QueueRow

\* The steps that only end a call: they leave the table as it is.
QuietReturn(t) ==
    \/ FlushReturns(t) \/ FlushDeleteFails(t) \/ FlushSendFails(t)
    \/ SendAcknowledged(t) \/ SendCancelled(t) \/ EnqueueFails(t)

LEMMA QuietReturnEffect ==
    ASSUME NEW t \in Threads, QuietReturn(t)
    PROVE  /\ pc[t] \in Locked
           /\ Return(t, "ready") \/ Return(t, "idle")
           /\ UNCHANGED <<queue, run, env, enqueued, acked, lastFlushed>>
  BY DEF QuietReturn, FlushReturns, FlushDeleteFails, FlushSendFails,
         SendAcknowledged, SendCancelled, EnqueueFails, Locked, histVars

\* One step preserves the type invariant.
LEMMA TypeStep == TypeInv /\ [Next]_vars => TypeInv'
  <1> SUFFICES ASSUME TypeInv, [Next]_vars PROVE TypeInv'
    OBVIOUS
  <1> USE SyncAssumption DEF TypeInv, TypeOK, StampsBounded
  <1>1. ASSUME NEW t \in Threads, Flush(t) PROVE TypeInv'
    BY <1>1 DEF Flush, Lock, Goto, Pending, histVars, Labels, Locked
  <1>2. ASSUME NEW t \in Threads,
               \/ FlushReadFails(t) \/ FlushItem(t) \/ Skip(t)
               \/ SendWithoutToken(t)
        PROVE  TypeInv'
    BY <1>2 DEF FlushReadFails, FlushItem, Skip, SendWithoutToken, Goto,
                histVars, Labels, Locked
  <1>3. ASSUME NEW t \in Threads, QuietReturn(t) PROVE TypeInv'
    <2>1. UNCHANGED <<queue, run, env, enqueued, acked, lastFlushed>>
      BY <1>3, QuietReturnEffect
    <2>2. /\ mu' \in [Procs -> Threads \cup {None}]
          /\ pc' \in [Threads -> Labels]
          /\ items' = [items EXCEPT ![t] = {}]
          /\ attempt' \in [Threads -> 0..Retries]
      BY <1>3, QuietReturnEffect DEF Return, Labels
    <2> QED
      BY <2>1, <2>2
  <1>4. ASSUME NEW t \in Threads, FlushDelete(t) PROVE TypeInv'
    BY <1>4 DEF FlushDelete, Goto, DeleteQueueItem, FirstRow, histVars,
                Labels, Locked
  <1>5. ASSUME NEW t \in Threads, FlushAcknowledged(t) PROVE TypeInv'
    <2>1. PICK r \in items[t] :
             acked' = acked \cup {r.stamp} /\ lastFlushed' = r.stamp
      BY <1>5 DEF FlushAcknowledged, FirstRow
    <2>2. PICK n \in 1..enqueued : acked' = acked \cup {n} /\ lastFlushed' = n
      <3>1. r.stamp \in 1..enqueued
        BY <2>1 DEF QueueRow
      <3> QED
        BY <2>1, <3>1
    <2>3. /\ UNCHANGED <<queue, run, mu, items, env, enqueued>>
          /\ attempt' \in [Threads -> 0..Retries]
          /\ pc' \in [Threads -> Labels]
      BY <1>5 DEF FlushAcknowledged, Goto, Labels, Locked
    <2>4. acked' \subseteq 1..enqueued' /\ lastFlushed' \in Nat
      BY <2>2, <2>3
    <2> QED
      BY <2>3, <2>4
  <1>6. ASSUME NEW t \in Threads, SendJSON(t) PROVE TypeInv'
    BY <1>6 DEF SendJSON, Lock, Goto, histVars, Labels, Locked
  <1>7. ASSUME NEW t \in Threads, Retry(t) PROVE TypeInv'
    BY <1>7 DEF Retry, histVars
  <1>8. ASSUME NEW t \in Threads, SendQueues(t) PROVE TypeInv'
    BY <1>8 DEF SendQueues, Goto, histVars, Labels, Locked
  <1>9. ASSUME NEW t \in Threads, EnqueuePayload(t) PROVE TypeInv'
    <2>1. /\ enqueued' \in 1..MaxQueued /\ enqueued' = enqueued + 1
          /\ queue' = Enqueue(queue, enqueued')
      BY <1>9 DEF EnqueuePayload
    <2>2. queue' \subseteq QueueRow /\ \A r \in queue' : r.stamp <= enqueued'
      BY <2>1, EnqueueRows DEF QueueRow
    <2>3. /\ run' = run /\ env' = env
          /\ acked' = acked /\ lastFlushed' = lastFlushed
          /\ mu' \in [Procs -> Threads \cup {None}]
          /\ pc' \in [Threads -> Labels]
          /\ items' = [items EXCEPT ![t] = {}]
          /\ attempt' \in [Threads -> 0..Retries]
      BY <1>9 DEF EnqueuePayload, Return, Labels, Locked
    <2> QED
      BY <2>1, <2>2, <2>3 DEF QueueRow
  <1>10. ASSUME NEW p \in Procs, Exit(p) PROVE TypeInv'
    <2>1. /\ run' \in [Procs -> {"up", "stopping", "down"}]
          /\ mu' \in [Procs -> Threads \cup {None}]
          /\ pc' \in [Threads -> Labels]
          /\ attempt' \in [Threads -> 0..Retries]
          /\ \A t \in Threads : items'[t] \subseteq items[t]
          /\ items' \in [Threads -> SUBSET QueueRow]
      BY <1>10 DEF Exit, Labels
    <2> QED
      BY <1>10, <2>1 DEF Exit, histVars
  <1>11. ASSUME NEW p \in Procs, Start(p) PROVE TypeInv'
    BY <1>11 DEF Start, histVars
  <1>12. ASSUME Cancel PROVE TypeInv'
    BY <1>12 DEF Cancel, histVars
  <1>13. ASSUME Calm PROVE TypeInv'
    BY <1>13 DEF Calm, histVars
  <1>14. ASSUME UNCHANGED vars PROVE TypeInv'
    BY <1>14 DEF vars, sysVars, histVars
  <1> QED
    BY <1>1, <1>2, <1>3, <1>4, <1>5, <1>6, <1>7, <1>8, <1>9, <1>10, <1>11,
       <1>12, <1>13, <1>14 DEF Next, Step, QuietReturn

LEMMA TypeInit == Init => TypeInv
  BY SyncAssumption DEF Init, TypeInv, TypeOK, StampsBounded, QueueRow, Labels

\* Type correctness of the engine, with any number of processes.
THEOREM TypeCorrect == Spec => []TypeOK
  <1>1. TypeInv => TypeOK
    BY DEF TypeInv
  <1> QED
    BY <1>1, TypeInit, TypeStep, PTL DEF Spec

-----------------------------------------------------------------------------
(***************************************************************************)
(* The mutex, with any number of processes.                                *)
(***************************************************************************)

Passing == {"flushing", "flushSend", "flushDelete"}

\* A thread is inside Flush or SendJSON exactly when it holds the mutex of
\* its process, and has a list of items only during a pass.
LockInv ==
    \A t \in Threads :
        /\ pc[t] \in Locked <=> mu[ProcOf[t]] = t
        /\ pc[t] \notin Passing => items[t] = {}

(***************************************************************************)
(* The inductive invariant of one process.                                 *)
(***************************************************************************)

\* Rows are in the order of acceptance and their ids are distinct.
Ordered ==
    \A r, s \in queue :
        /\ r.id < s.id <=> r.stamp < s.stamp
        /\ r.id = s.id => r = s

\* The table has a row with the largest id unless it is empty, so the next
\* rowid exists.
HasLast == queue # {} => \E m \in queue : \A r \in queue : r.id <= m.id

\* Everything before the last acknowledged payload has left the table.
FlushedBefore ==
    /\ lastFlushed <= enqueued
    /\ \A r \in queue : lastFlushed <= r.stamp

\* The row about to be deleted was acknowledged.
DeleteAcked ==
    \A t \in Threads : pc[t] = "flushDelete" =>
        \A r \in FirstRow(items[t]) : r.stamp \in acked

QueueInv ==
    /\ IsFiniteSet(queue) /\ Ordered /\ HasLast /\ FlushedBefore
    /\ AcceptedNotLost /\ DuplicateOnlyAtHead

PassInv == PassIsQueuePrefix /\ DeleteAcked

IInv == TypeInv /\ LockInv /\ QueueInv /\ PassInv

-----------------------------------------------------------------------------
LEMMA LockStep == TypeInv /\ LockInv /\ [Next]_vars => LockInv'
  <1> SUFFICES ASSUME TypeInv, LockInv, [Next]_vars PROVE LockInv'
    OBVIOUS
  <1> USE SyncAssumption DEF TypeInv, TypeOK, LockInv, Passing
  <1>1. ASSUME NEW t \in Threads, Flush(t) \/ SendJSON(t) PROVE LockInv'
    <2>1. /\ pc[t] \notin Locked /\ mu[ProcOf[t]] = None
          /\ mu' = [mu EXCEPT ![ProcOf[t]] = t]
          /\ \A u \in Threads \ {t} : pc'[u] = pc[u] /\ items'[u] = items[u]
          /\ pc'[t] \in Locked
          /\ pc'[t] \notin Passing => items'[t] = {}
      BY <1>1 DEF Flush, SendJSON, Lock, Goto, Locked
    <2> QED
      BY <2>1
  <1>2. ASSUME NEW t \in Threads,
               \/ FlushReadFails(t) \/ Skip(t) \/ SendWithoutToken(t)
        PROVE  LockInv'
    BY <1>2 DEF FlushReadFails, Skip, SendWithoutToken, Goto, Locked
  <1>3. ASSUME NEW t \in Threads, pc[t] \in Locked,
               Return(t, "ready") \/ Return(t, "idle")
        PROVE  LockInv'
    BY <1>3 DEF Return, Locked
  <1>4. ASSUME NEW t \in Threads, QuietReturn(t) \/ EnqueuePayload(t)
        PROVE  LockInv'
    BY <1>3, <1>4, QuietReturnEffect DEF EnqueuePayload, Locked
  <1>5. ASSUME NEW t \in Threads,
               \/ FlushItem(t) \/ FlushDelete(t) \/ FlushAcknowledged(t)
        PROVE  LockInv'
    BY <1>5 DEF FlushItem, FlushDelete, FlushAcknowledged, Goto, Locked
  <1>6. ASSUME NEW t \in Threads, Retry(t) \/ SendQueues(t) PROVE LockInv'
    BY <1>6 DEF Retry, SendQueues, Goto, Locked
  <1>7. ASSUME NEW p \in Procs, Exit(p) PROVE LockInv'
    BY <1>7 DEF Exit, Locked
  <1>8. ASSUME NEW p \in Procs, Start(p) PROVE LockInv'
    BY <1>8 DEF Start
  <1>9. ASSUME Cancel \/ Calm \/ UNCHANGED vars PROVE LockInv'
    BY <1>9 DEF Cancel, Calm, vars, sysVars
  <1> QED
    BY <1>1, <1>2, <1>4, <1>5, <1>6, <1>7, <1>8, <1>9
       DEF Next, Step, QuietReturn

\* With one process the mutex excludes every other thread.
LEMMA MutualExclusion ==
    ASSUME OneProcess, TypeInv, LockInv,
           NEW t \in Threads, pc[t] \in Locked,
           NEW u \in Threads, u # t
    PROVE  pc[u] \notin Locked /\ items[u] = {}
  <1>1. ProcOf[t] = ProcOf[u]
    BY SyncAssumption DEF OneProcess
  <1> QED
    BY <1>1 DEF LockInv, Passing, Locked

\* LIMIT cuts a prefix of the table in id order.
LEMMA PendingPrefix ==
    ASSUME NEW q, IsFiniteSet(q), q \subseteq QueueRow, NEW limit \in Nat
    PROVE  /\ Pending(q, limit) \subseteq q
           /\ \A r \in Pending(q, limit), s \in q :
                 s.id < r.id => s \in Pending(q, limit)
  <1> DEFINE Below(r) == {s \in q : s.id < r.id}
  <1>1. ASSUME NEW r \in Pending(q, limit), NEW s \in q, s.id < r.id
        PROVE  s \in Pending(q, limit)
    <2>1. r \in q /\ Cardinality(Below(r)) < limit
      BY <1>1 DEF Pending
    <2>2. Below(s) \subseteq Below(r)
      BY <1>1, <2>1 DEF QueueRow
    <2>3. IsFiniteSet(Below(r)) /\ IsFiniteSet(Below(s))
      BY FS_Subset
    <2>4. Cardinality(Below(s)) <= Cardinality(Below(r))
      BY <2>2, <2>3, FS_Subset
    <2>5. Cardinality(Below(s)) \in Nat /\ Cardinality(Below(r)) \in Nat
      BY <2>3, FS_CardinalityType
    <2>6. Cardinality(Below(s)) < limit
      BY <2>1, <2>4, <2>5
    <2> QED
      BY <1>1, <2>6 DEF Pending
  <1> QED
    BY <1>1 DEF Pending

-----------------------------------------------------------------------------
\* The first item of a pass is the first row of the table.
LEMMA FirstItem ==
    ASSUME TypeInv, PassIsQueuePrefix,
           NEW t \in Threads, NEW r \in FirstRow(items[t])
    PROVE  r \in queue /\ r \in QueueRow /\ \A s \in queue : r.id <= s.id
  <1>1. r \in items[t] /\ \A s \in items[t] : r.id <= s.id
    BY DEF FirstRow
  <1>2. r \in queue /\ \A s \in queue : s.id < r.id => s \in items[t]
    BY <1>1 DEF PassIsQueuePrefix
  <1>3. \A s \in queue : s \in QueueRow
    BY DEF TypeInv, TypeOK
  <1> QED
    BY <1>1, <1>2, <1>3 DEF QueueRow

\* Steps that leave the table and the histories alone, and only shorten
\* items to nothing, preserve what is said of the table and of passes.
LEMMA QuietStep ==
    ASSUME QueueInv, PassInv,
           UNCHANGED <<queue, enqueued, acked, lastFlushed>>,
           \A t \in Threads : items'[t] = items[t] \/ items'[t] = {},
           \A t \in Threads : pc'[t] = "flushDelete" => pc[t] = "flushDelete"
    PROVE  QueueInv' /\ PassInv'
  <1>1. QueueInv'
    BY DEF QueueInv, Ordered, HasLast, FlushedBefore, AcceptedNotLost,
           DuplicateOnlyAtHead
  <1>2. PassIsQueuePrefix'
    BY DEF PassInv, PassIsQueuePrefix
  <1>3. DeleteAcked'
    BY DEF PassInv, DeleteAcked, FirstRow
  <1> QED
    BY <1>1, <1>2, <1>3 DEF PassInv

\* Flush begins a pass with a prefix of the table.
LEMMA FlushStep ==
    ASSUME TypeInv, QueueInv, PassInv, NEW t \in Threads, Flush(t)
    PROVE  QueueInv' /\ PassInv'
  <1>1. /\ UNCHANGED <<queue, enqueued, acked, lastFlushed>>
        /\ items' = [items EXCEPT ![t] = Pending(queue, FlushLimit)]
        /\ pc' = [pc EXCEPT ![t] = "flushing"]
    BY DEF Flush, Goto, histVars
  <1>2. QueueInv'
    BY <1>1 DEF QueueInv, Ordered, HasLast, FlushedBefore, AcceptedNotLost,
                DuplicateOnlyAtHead
  <1>3. PassIsQueuePrefix'
    <2>1. /\ Pending(queue, FlushLimit) \subseteq queue
          /\ \A r \in Pending(queue, FlushLimit), s \in queue :
                 s.id < r.id => s \in Pending(queue, FlushLimit)
      BY PendingPrefix, SyncAssumption DEF QueueInv, TypeInv, TypeOK
    <2> QED
      BY <1>1, <2>1 DEF PassInv, PassIsQueuePrefix, TypeInv, TypeOK
  <1>4. DeleteAcked'
    BY <1>1 DEF PassInv, DeleteAcked, TypeInv, TypeOK
  <1> QED
    BY <1>2, <1>3, <1>4 DEF PassInv

\* The acknowledged item is the first row of the table.
LEMMA AcknowledgeStep ==
    ASSUME OneProcess, TypeInv, LockInv, QueueInv, PassInv,
           NEW t \in Threads, FlushAcknowledged(t)
    PROVE  QueueInv' /\ PassInv'
  <1>1. PICK r \in FirstRow(items[t]) :
           acked' = acked \cup {r.stamp} /\ lastFlushed' = r.stamp
    BY DEF FlushAcknowledged
  <1>2. /\ UNCHANGED <<queue, items, enqueued>>
        /\ pc' = [pc EXCEPT ![t] = "flushDelete"]
        /\ pc[t] \in Locked
    BY DEF FlushAcknowledged, Goto, Locked
  <1>3. r \in queue /\ r \in QueueRow /\ \A s \in queue : r.id <= s.id
    BY FirstItem DEF PassInv
  <1>4. \A s \in queue : s \in QueueRow /\ s.stamp <= enqueued
    BY DEF TypeInv, TypeOK, StampsBounded
  <1>5. \A s \in queue : r.stamp <= s.stamp /\ (s.stamp = r.stamp => s.id = r.id)
    BY <1>3, <1>4 DEF QueueInv, Ordered, QueueRow
  <1>6. IsFiniteSet(queue)' /\ Ordered' /\ HasLast'
    BY <1>2 DEF QueueInv, Ordered, HasLast
  <1>7. FlushedBefore'
    BY <1>1, <1>2, <1>3, <1>4, <1>5 DEF FlushedBefore
  <1>8. AcceptedNotLost'
    BY <1>1, <1>2 DEF QueueInv, AcceptedNotLost
  <1>9. DuplicateOnlyAtHead'
    BY <1>1, <1>2, <1>3, <1>5 DEF QueueInv, DuplicateOnlyAtHead, FirstRow
  <1>10. PassIsQueuePrefix'
    BY <1>2 DEF PassInv, PassIsQueuePrefix
  <1>11. DeleteAcked'
    <2> SUFFICES ASSUME NEW u \in Threads, pc'[u] = "flushDelete",
                        NEW s \in FirstRow(items[u])
                 PROVE  s.stamp \in acked'
      BY <1>2 DEF DeleteAcked
    <2>1. u = t
      BY <1>2, MutualExclusion DEF FirstRow
    <2>2. s \in queue /\ s \in QueueRow /\ \A x \in queue : s.id <= x.id
      BY FirstItem DEF PassInv
    <2>3. s.id = r.id
      BY <1>3, <2>2 DEF QueueRow
    <2>4. s = r
      BY <1>3, <2>2, <2>3 DEF QueueInv, Ordered
    <2> QED
      BY <1>1, <2>4
  <1> QED
    BY <1>6, <1>7, <1>8, <1>9, <1>10, <1>11 DEF QueueInv, PassInv

\* The row deleted by id is the acknowledged one, and the table's first.
LEMMA DeleteStep ==
    ASSUME OneProcess, TypeInv, LockInv, QueueInv, PassInv,
           NEW t \in Threads, FlushDelete(t)
    PROVE  QueueInv' /\ PassInv'
  <1>1. PICK r \in FirstRow(items[t]) :
           /\ queue' = DeleteQueueItem(queue, r.id)
           /\ items' = [items EXCEPT ![t] = @ \ {r}]
    BY DEF FlushDelete
  <1>2. /\ UNCHANGED <<enqueued, acked, lastFlushed>>
        /\ pc' = [pc EXCEPT ![t] = "flushing"]
        /\ pc[t] = "flushDelete"
    BY DEF FlushDelete, Goto, histVars
  <1>3. r \in queue /\ r \in QueueRow /\ \A s \in queue : r.id <= s.id
    BY FirstItem DEF PassInv
  <1>4. \A s \in queue : s \in QueueRow
    BY DEF TypeInv, TypeOK
  <1>5. queue' = queue \ {r}
    BY <1>1, <1>3 DEF DeleteQueueItem, QueueInv, Ordered
  <1>6. r.stamp \in acked
    BY <1>2 DEF PassInv, DeleteAcked
  <1>7. \A u \in Threads \ {t} : pc[u] \notin Locked /\ items[u] = {}
    BY <1>2, MutualExclusion DEF Locked
  <1>8. IsFiniteSet(queue)'
    BY <1>5, FS_RemoveElement DEF QueueInv
  <1>9. Ordered' /\ FlushedBefore'
    BY <1>2, <1>5 DEF QueueInv, Ordered, FlushedBefore
  <1>10. HasLast'
    <2> SUFFICES ASSUME NEW x \in queue'
                 PROVE  \E m \in queue' : \A s \in queue' : s.id <= m.id
      BY DEF HasLast
    <2>1. PICK m \in queue : \A s \in queue : s.id <= m.id
      BY <1>3 DEF QueueInv, HasLast
    <2>2. m # r
      <3> SUFFICES ASSUME m = r PROVE FALSE
        OBVIOUS
      <3>1. x \in queue /\ x # r
        BY <1>5
      <3>2. x.id = r.id
        BY <1>3, <1>4, <2>1, <3>1 DEF QueueRow
      <3> QED
        BY <1>3, <3>1, <3>2 DEF QueueInv, Ordered
    <2> QED
      BY <1>5, <2>1, <2>2
  <1>11. AcceptedNotLost'
    BY <1>2, <1>5, <1>6 DEF QueueInv, AcceptedNotLost
  <1>12. DuplicateOnlyAtHead'
    BY <1>2, <1>5 DEF QueueInv, DuplicateOnlyAtHead, FirstRow
  <1>13. PassIsQueuePrefix'
    <2>1. /\ items[t] \subseteq queue
          /\ \A x \in items[t], s \in queue : s.id < x.id => s \in items[t]
      BY DEF PassInv, PassIsQueuePrefix, FirstRow
    <2>2. items'[t] = items[t] \ {r} /\ \A u \in Threads \ {t} : items'[u] = {}
      BY <1>1, <1>7 DEF TypeInv, TypeOK
    <2> QED
      BY <1>5, <2>1, <2>2 DEF PassIsQueuePrefix
  <1>14. DeleteAcked'
    BY <1>2, <1>7 DEF DeleteAcked, Locked, TypeInv, TypeOK
  <1> QED
    BY <1>8, <1>9, <1>10, <1>11, <1>12, <1>13, <1>14 DEF QueueInv, PassInv

\* The next rowid exists and is larger than every id in the table.
LEMMA NextRowIdLargest ==
    ASSUME TypeInv, HasLast
    PROVE  \E i \in Nat \ {0} :
              NextRowId(queue) = {i} /\ \A r \in queue : r.id < i
  <1>1. \A r \in queue : r.id \in Nat \ {0}
    BY DEF TypeInv, TypeOK, QueueRow
  <1>2. CASE queue = {}
    BY <1>2 DEF NextRowId
  <1>3. CASE queue # {}
    <2>1. PICK m \in queue : \A r \in queue : r.id <= m.id
      BY <1>3 DEF HasLast
    <2>2. \A r \in queue : r.id < m.id + 1
      BY <1>1, <2>1
    <2>3. \A i \in NextRowId(queue) : i = m.id + 1
      BY <1>1, <2>1 DEF NextRowId
    <2>4. m.id + 1 \in NextRowId(queue)
      BY <2>2 DEF NextRowId
    <2> QED
      BY <1>1, <2>2, <2>3, <2>4
  <1> QED
    BY <1>2, <1>3

\* The inserted row is the last of the table and was not acknowledged.
LEMMA EnqueueStep ==
    ASSUME OneProcess, TypeInv, LockInv, QueueInv, PassInv,
           NEW t \in Threads, EnqueuePayload(t)
    PROVE  QueueInv' /\ PassInv'
  <1>1. PICK i \in Nat \ {0} :
           NextRowId(queue) = {i} /\ \A r \in queue : r.id < i
    BY NextRowIdLargest DEF QueueInv
  <1> DEFINE n == enqueued + 1
             new == [id |-> i, stamp |-> n]
  <1>2. /\ enqueued' = n /\ queue' = queue \cup {new}
        /\ UNCHANGED <<acked, lastFlushed>>
        /\ pc[t] = "enqueue" /\ pc' = [pc EXCEPT ![t] = "idle"]
        /\ items' = [items EXCEPT ![t] = {}]
    BY <1>1 DEF EnqueuePayload, Enqueue, Return
  <1>3. /\ enqueued \in Nat /\ lastFlushed \in Nat /\ n \in Nat
        /\ acked \subseteq 1..enqueued
        /\ \A r \in queue : r \in QueueRow /\ r.stamp < n
    BY SyncAssumption DEF TypeInv, TypeOK, StampsBounded, QueueRow
  <1>4. \A u \in Threads : items'[u] = {} /\ pc'[u] # "flushDelete"
    BY <1>2, MutualExclusion DEF Locked, TypeInv, TypeOK
  <1>5. new.id = i /\ new.stamp = n /\ new \notin queue
    BY <1>3
  <1>6. IsFiniteSet(queue)'
    BY <1>2, FS_AddElement DEF QueueInv
  <1>7. Ordered'
    <2> SUFFICES ASSUME NEW r \in queue', NEW s \in queue'
                 PROVE  /\ r.id < s.id <=> r.stamp < s.stamp
                        /\ r.id = s.id => r = s
      BY DEF Ordered
    <2>1. CASE r \in queue /\ s \in queue
      BY <2>1 DEF QueueInv, Ordered
    <2>2. CASE r \in queue /\ s = new
      BY <1>1, <1>3, <1>5, <2>2 DEF QueueRow
    <2>3. CASE r = new /\ s \in queue
      BY <1>1, <1>3, <1>5, <2>3 DEF QueueRow
    <2>4. CASE r = new /\ s = new
      BY <1>3, <1>5, <2>4
    <2>5. (r \in queue \/ r = new) /\ (s \in queue \/ s = new)
      BY <1>2
    <2> HIDE DEF new
    <2> QED
      BY <2>1, <2>2, <2>3, <2>4, <2>5
  <1>8. HasLast'
    BY <1>1, <1>2, <1>3, <1>5 DEF HasLast, QueueRow
  <1>9. FlushedBefore'
    BY <1>2, <1>3, <1>5 DEF QueueInv, FlushedBefore
  <1>10. AcceptedNotLost'
    BY <1>2, <1>3, <1>5 DEF QueueInv, AcceptedNotLost
  <1>11. DuplicateOnlyAtHead'
    <2> SUFFICES ASSUME NEW r \in queue', r.stamp \in acked
                 PROVE  \A s \in queue' : r.id <= s.id
      BY <1>2 DEF DuplicateOnlyAtHead, FirstRow
    <2>1. r \in queue
      BY <1>2, <1>3, <1>5
    <2>2. \A s \in queue : r.id <= s.id
      BY <2>1 DEF QueueInv, DuplicateOnlyAtHead, FirstRow
    <2> QED
      BY <1>1, <1>2, <1>3, <1>5, <2>1, <2>2 DEF QueueRow
  <1>12. PassInv'
    BY <1>4 DEF PassInv, PassIsQueuePrefix, DeleteAcked
  <1> QED
    BY <1>6, <1>7, <1>8, <1>9, <1>10, <1>11, <1>12 DEF QueueInv

-----------------------------------------------------------------------------
\* The invariant of one process is inductive.
LEMMA InvStep == OneProcess /\ IInv /\ [Next]_vars => IInv'
  <1> SUFFICES ASSUME OneProcess, IInv, [Next]_vars PROVE IInv'
    OBVIOUS
  <1> USE DEF IInv
  <1>1. TypeInv' /\ LockInv'
    BY TypeStep, LockStep
  <1>2. ASSUME NEW t \in Threads, Flush(t) PROVE QueueInv' /\ PassInv'
    BY <1>2, FlushStep
  <1>3. ASSUME NEW t \in Threads, FlushAcknowledged(t)
        PROVE  QueueInv' /\ PassInv'
    BY <1>3, AcknowledgeStep
  <1>4. ASSUME NEW t \in Threads, FlushDelete(t) PROVE QueueInv' /\ PassInv'
    BY <1>4, DeleteStep
  <1>5. ASSUME NEW t \in Threads, EnqueuePayload(t)
        PROVE  QueueInv' /\ PassInv'
    BY <1>5, EnqueueStep
  <1>6. ASSUME NEW t \in Threads,
               \/ FlushReadFails(t) \/ FlushItem(t) \/ Skip(t) \/ SendJSON(t)
               \/ SendWithoutToken(t) \/ Retry(t) \/ SendQueues(t)
        PROVE  QueueInv' /\ PassInv'
    <2>1. /\ UNCHANGED <<queue, items, enqueued, acked, lastFlushed>>
          /\ pc' = pc \/ \E l \in Labels \ {"flushDelete"} :
                            pc' = [pc EXCEPT ![t] = l]
      BY <1>6 DEF FlushReadFails, FlushItem, Skip, SendJSON, SendWithoutToken,
                  Retry, SendQueues, Goto, Labels, Locked, histVars
    <2>2. \A u \in Threads : pc'[u] = "flushDelete" => pc[u] = "flushDelete"
      BY <2>1 DEF TypeInv, TypeOK
    <2> QED
      BY <2>1, <2>2, QuietStep
  <1>7. ASSUME NEW t \in Threads, QuietReturn(t) PROVE QueueInv' /\ PassInv'
    <2>1. /\ UNCHANGED <<queue, enqueued, acked, lastFlushed>>
          /\ \A u \in Threads : items'[u] = items[u] \/ items'[u] = {}
          /\ \A u \in Threads : pc'[u] = "flushDelete" => pc[u] = "flushDelete"
      BY <1>7, QuietReturnEffect DEF Return, TypeInv, TypeOK
    <2> QED
      BY <2>1, QuietStep
  <1>8. ASSUME NEW p \in Procs, Exit(p) \/ Start(p)
        PROVE  QueueInv' /\ PassInv'
    <2>1. /\ UNCHANGED <<queue, enqueued, acked, lastFlushed>>
          /\ \A u \in Threads : items'[u] = items[u] \/ items'[u] = {}
          /\ \A u \in Threads : pc'[u] = "flushDelete" => pc[u] = "flushDelete"
      BY <1>8 DEF Exit, Start, histVars
    <2> QED
      BY <2>1, QuietStep
  <1>9. ASSUME Cancel \/ Calm \/ UNCHANGED vars PROVE QueueInv' /\ PassInv'
    <2>1. UNCHANGED <<queue, items, pc, enqueued, acked, lastFlushed>>
      BY <1>9 DEF Cancel, Calm, vars, sysVars, histVars
    <2> QED
      BY <2>1, QuietStep
  <1> QED
    BY <1>1, <1>2, <1>3, <1>4, <1>5, <1>6, <1>7, <1>8, <1>9
       DEF Next, Step, QuietReturn

LEMMA InvInit == Init => IInv
  <1> SUFFICES ASSUME Init PROVE IInv
    OBVIOUS
  <1>1. TypeInv
    BY TypeInit
  <1>2. LockInv
    BY SyncAssumption DEF Init, LockInv, Locked
  <1>3. QueueInv
    BY FS_EmptySet DEF Init, QueueInv, Ordered, HasLast, FlushedBefore,
                       AcceptedNotLost, DuplicateOnlyAtHead
  <1>4. PassInv
    BY DEF Init, PassInv, PassIsQueuePrefix, DeleteAcked
  <1> QED
    BY <1>1, <1>2, <1>3, <1>4 DEF IInv

\* With one process the inductive invariant always holds.
THEOREM Invariance == ASSUME OneProcess PROVE Spec => []IInv
  <1>1. IInv /\ [Next]_vars => IInv'
    BY InvStep
  <1> QED
    BY <1>1, InvInit, PTL DEF Spec

\* With one process no payload reported as queued is lost, whatever fails,
\* crashes or is restarted.
THEOREM NothingLost == ASSUME OneProcess PROVE Spec => []AcceptedNotLost
  <1>1. IInv => AcceptedNotLost
    BY DEF IInv, QueueInv
  <1> QED
    BY <1>1, Invariance, PTL

\* With one process at most the oldest row is delivered again.
THEOREM RedeliveryBounded ==
    ASSUME OneProcess PROVE Spec => []DuplicateOnlyAtHead
  <1>1. IInv => DuplicateOnlyAtHead
    BY DEF IInv, QueueInv
  <1> QED
    BY <1>1, Invariance, PTL

\* With one process the ids a flush pass holds in memory never go stale.
THEOREM PassNeverStale == ASSUME OneProcess PROVE Spec => []PassIsQueuePrefix
  <1>1. IInv => PassIsQueuePrefix
    BY DEF IInv, PassInv
  <1> QED
    BY <1>1, Invariance, PTL

-----------------------------------------------------------------------------
\* lastFlushed changes only when the first row of the table is acknowledged.
LEMMA LastFlushedStep ==
    ASSUME OneProcess, IInv, [Next]_vars PROVE lastFlushed' >= lastFlushed
  <1>1. lastFlushed \in Nat
    BY DEF IInv, TypeInv, TypeOK
  <1>2. CASE lastFlushed' = lastFlushed
    BY <1>1, <1>2
  <1>3. ASSUME NEW t \in Threads, FlushAcknowledged(t)
        PROVE  lastFlushed' >= lastFlushed
    <2>1. PICK r \in FirstRow(items[t]) : lastFlushed' = r.stamp
      BY <1>3 DEF FlushAcknowledged
    <2>2. r \in queue /\ r \in QueueRow
      BY FirstItem DEF IInv, PassInv
    <2> QED
      BY <1>1, <2>1, <2>2 DEF IInv, QueueInv, FlushedBefore, QueueRow
  <1>4. lastFlushed' = lastFlushed
           \/ \E t \in Threads : FlushAcknowledged(t)
    BY QuietReturnEffect
       DEF Next, Step, QuietReturn, vars, histVars, Flush, FlushReadFails,
           FlushItem, FlushDelete, Skip, SendJSON, SendWithoutToken, Retry,
           SendQueues, EnqueuePayload, Exit, Start, Cancel, Calm
  <1> QED
    BY <1>2, <1>3, <1>4

\* With one process Flush delivers in FIFO order.
THEOREM FlushInOrder == ASSUME OneProcess PROVE Spec => FlushFIFO
  <1>1. IInv /\ [Next]_vars => [lastFlushed' >= lastFlushed]_vars
    BY LastFlushedStep
  <1> QED
    BY <1>1, Invariance, PTL DEF Spec, FlushFIFO

-----------------------------------------------------------------------------
(***************************************************************************)
(* Refinement: with one process the engine implements OfflineDelivery.     *)
(***************************************************************************)

Stamps(q) == {r.stamp : r \in q}

LEMMA StampsOfAdded ==
    ASSUME NEW q, NEW i, NEW n
    PROVE  Stamps(q \cup {[id |-> i, stamp |-> n]}) = Stamps(q) \cup {n}
  <1>1. PICK r : r = [id |-> i, stamp |-> n]
    OBVIOUS
  <1>2. r.stamp = n
    BY <1>1
  <1>3. Stamps(q \cup {r}) = Stamps(q) \cup {n}
    BY <1>2 DEF Stamps
  <1> QED
    BY <1>1, <1>3

\* The first row of the table is the oldest payload of the outbox.
LEMMA FirstIsOldest ==
    ASSUME IInv, NEW t \in Threads, NEW r \in FirstRow(items[t])
    PROVE  Delivery!Oldest(r.stamp)
  <1>1. r \in queue /\ r \in QueueRow /\ \A s \in queue : r.id <= s.id
    BY FirstItem DEF IInv, PassInv
  <1>2. \A s \in queue : s \in QueueRow
    BY DEF IInv, TypeInv, TypeOK
  <1>3. \A s \in queue : r.stamp <= s.stamp
    BY <1>1, <1>2 DEF IInv, QueueInv, Ordered, QueueRow
  <1> QED
    BY <1>1, <1>3 DEF Delivery!Oldest

\* Every step of the engine is a step of the outbox or leaves it alone.
LEMMA DeliverySteps ==
    ASSUME OneProcess, IInv, [Next]_vars
    PROVE  [Delivery!Next]_(Delivery!vars)
  <1>1. ASSUME NEW t \in Threads, FlushAcknowledged(t) PROVE Delivery!Next
    <2>1. PICK r \in FirstRow(items[t]) : acked' = acked \cup {r.stamp}
      BY <1>1 DEF FlushAcknowledged
    <2>2. Delivery!Oldest(r.stamp)
      BY FirstIsOldest
    <2>3. Delivery!Deliver(r.stamp)
      BY <1>1, <2>1, <2>2 DEF Delivery!Deliver, FlushAcknowledged
    <2> QED
      BY <2>2, <2>3 DEF Delivery!Next, Delivery!Oldest
  <1>2. ASSUME NEW t \in Threads, FlushDelete(t) PROVE Delivery!Next
    <2>1. PICK r \in FirstRow(items[t]) : queue' = DeleteQueueItem(queue, r.id)
      BY <1>2 DEF FlushDelete
    <2>2. Delivery!Oldest(r.stamp)
      BY FirstIsOldest
    <2>3. r.stamp \in acked
      BY <1>2 DEF IInv, PassInv, DeleteAcked, FlushDelete
    <2>4. r \in queue /\ r \in QueueRow
      BY FirstItem DEF IInv, PassInv
    <2>5. \A s \in queue : s \in QueueRow
      BY DEF IInv, TypeInv, TypeOK
    <2>6. \A s \in queue : s.id = r.id <=> s.stamp = r.stamp
      BY <2>4, <2>5 DEF IInv, QueueInv, Ordered, QueueRow
    <2>7. Stamps(queue') = Stamps(queue) \ {r.stamp}
      BY <2>1, <2>6 DEF DeleteQueueItem, Stamps
    <2>8. Delivery!Settle(r.stamp)
      BY <1>2, <2>2, <2>3, <2>7
         DEF Delivery!Settle, FlushDelete, histVars, Stamps
    <2> QED
      BY <2>2, <2>8 DEF Delivery!Next, Delivery!Oldest
  <1>3. ASSUME NEW t \in Threads, EnqueuePayload(t) PROVE Delivery!Next
    <2>1. PICK i \in Nat \ {0} : NextRowId(queue) = {i}
      BY NextRowIdLargest DEF IInv, QueueInv
    <2>2. /\ enqueued' = enqueued + 1 /\ acked' = acked
          /\ queue' = queue \cup {[id |-> i, stamp |-> enqueued']}
      BY <1>3, <2>1 DEF EnqueuePayload, Enqueue
    <2>3. Stamps(queue') = Stamps(queue) \cup {enqueued'}
      BY <2>2, StampsOfAdded
    <2> QED
      BY <2>2, <2>3 DEF Delivery!Next, Delivery!Accept, Stamps
  <1>4. ASSUME UNCHANGED <<queue, enqueued, acked>>
        PROVE  UNCHANGED Delivery!vars
    BY <1>4 DEF Delivery!vars
  <1>5. \/ UNCHANGED <<queue, enqueued, acked>>
        \/ \E t \in Threads :
              FlushAcknowledged(t) \/ FlushDelete(t) \/ EnqueuePayload(t)
    BY QuietReturnEffect
       DEF Next, Step, QuietReturn, vars, sysVars, histVars, Flush,
           FlushReadFails, FlushItem, Skip, SendJSON, SendWithoutToken, Retry,
           SendQueues, Exit, Start, Cancel, Calm
  <1> QED
    BY <1>1, <1>2, <1>3, <1>4, <1>5

\* With one process the engine implements the outbox: payloads reported as
\* queued are delivered in order, at least once, and kept until then.
THEOREM Refinement == ASSUME OneProcess PROVE Spec => ImplementsDelivery
  <1>1. Init => Delivery!Init
    BY DEF Init, Delivery!Init
  <1>2. IInv /\ [Next]_vars => [Delivery!Next]_(Delivery!vars)
    BY DeliverySteps
  <1> QED
    BY <1>1, <1>2, Invariance, PTL DEF Spec, ImplementsDelivery, Delivery!Spec

-----------------------------------------------------------------------------
(***************************************************************************)
(* Several processes.  Their flush passes overlap, delete each other's rows*)
(* and deliver a payload twice.  A payload is lost only if a rowid is used *)
(* again while a pass still holds it: everything else about the overlap is *)
(* harmless.  FreshIds is what AUTOINCREMENT would guarantee.              *)
(***************************************************************************)

\* A row that a step inserts has an id that no flush pass still holds.
FreshIds ==
    \A t \in Threads : \A r \in items[t], s \in queue' \ queue : s.id # r.id

\* Ids are distinct and bounded, so that there is a next one.
IdsDistinct == \A r, s \in queue : r.id = s.id => r = s
IdsBounded == \E b \in Nat : \A r \in queue : r.id <= b

\* A pass may hold rows that another process has deleted, but a row that has
\* such an id is the row that was read.
PassNotReused ==
    \A t \in Threads : \A r \in items[t] :
        /\ \A s \in queue : s.id = r.id => s = r
        /\ \A s \in items[t] : s.id = r.id => s = r

SharedInv ==
    /\ IdsDistinct /\ IdsBounded /\ PassNotReused /\ DeleteAcked /\ AcceptedNotLost

LEMMA SharedQuiet ==
    ASSUME SharedInv, UNCHANGED <<queue, enqueued, acked>>,
           \A t \in Threads : items'[t] = items[t] \/ items'[t] = {},
           \A t \in Threads : pc'[t] = "flushDelete" => pc[t] = "flushDelete"
    PROVE  SharedInv'
  <1>1. (IdsDistinct /\ IdsBounded /\ AcceptedNotLost)'
    BY DEF SharedInv, IdsDistinct, IdsBounded, AcceptedNotLost
  <1>2. PassNotReused'
    BY DEF SharedInv, PassNotReused
  <1>3. DeleteAcked'
    BY DEF SharedInv, DeleteAcked, FirstRow
  <1> QED
    BY <1>1, <1>2, <1>3 DEF SharedInv

\* A pass begins with rows of the table.
LEMMA SharedFlush ==
    ASSUME TypeInv, SharedInv, NEW t \in Threads, Flush(t)
    PROVE  SharedInv'
  <1>1. /\ UNCHANGED <<queue, enqueued, acked>>
        /\ items' = [items EXCEPT ![t] = Pending(queue, FlushLimit)]
        /\ pc' = [pc EXCEPT ![t] = "flushing"]
    BY DEF Flush, Goto, histVars
  <1>2. (IdsDistinct /\ IdsBounded /\ AcceptedNotLost)'
    BY <1>1 DEF SharedInv, IdsDistinct, IdsBounded, AcceptedNotLost
  <1>3. Pending(queue, FlushLimit) \subseteq queue
    BY DEF Pending
  <1>4. PassNotReused'
    <2> SUFFICES ASSUME NEW u \in Threads, NEW r \in items'[u]
                 PROVE  /\ \A s \in queue : s.id = r.id => s = r
                        /\ \A s \in items'[u] : s.id = r.id => s = r
      BY <1>1 DEF PassNotReused
    <2>1. CASE u = t
      BY <1>1, <1>3, <2>1 DEF SharedInv, IdsDistinct, TypeInv, TypeOK
    <2>2. CASE u # t
      BY <1>1, <2>2 DEF SharedInv, PassNotReused, TypeInv, TypeOK
    <2> QED
      BY <2>1, <2>2
  <1>5. DeleteAcked'
    BY <1>1 DEF SharedInv, DeleteAcked, TypeInv, TypeOK
  <1> QED
    BY <1>2, <1>4, <1>5 DEF SharedInv

LEMMA SharedAcknowledge ==
    ASSUME TypeInv, SharedInv, NEW t \in Threads, FlushAcknowledged(t)
    PROVE  SharedInv'
  <1>1. PICK r \in FirstRow(items[t]) : acked' = acked \cup {r.stamp}
    BY DEF FlushAcknowledged
  <1>2. /\ UNCHANGED <<queue, items, enqueued>>
        /\ pc' = [pc EXCEPT ![t] = "flushDelete"]
    BY DEF FlushAcknowledged, Goto
  <1>3. (IdsDistinct /\ IdsBounded /\ PassNotReused /\ AcceptedNotLost)'
    BY <1>1, <1>2 DEF SharedInv, IdsDistinct, IdsBounded, PassNotReused, AcceptedNotLost
  <1>4. DeleteAcked'
    <2> SUFFICES ASSUME NEW u \in Threads, pc'[u] = "flushDelete",
                        NEW s \in FirstRow(items[u])
                 PROVE  s.stamp \in acked'
      BY <1>2 DEF DeleteAcked
    <2>1. CASE u = t
      <3>1. r \in items[t] /\ s \in items[t] /\ r.id <= s.id /\ s.id <= r.id
        BY <2>1 DEF FirstRow
      <3>2. r.id \in Nat /\ s.id \in Nat
        BY <3>1 DEF TypeInv, TypeOK, QueueRow
      <3>3. s = r
        BY <3>1, <3>2 DEF SharedInv, PassNotReused
      <3> QED
        BY <1>1, <3>3
    <2>2. CASE u # t
      BY <1>1, <1>2, <2>2 DEF SharedInv, DeleteAcked, TypeInv, TypeOK
    <2> QED
      BY <2>1, <2>2
  <1> QED
    BY <1>3, <1>4 DEF SharedInv

\* The row with the deleted id, if there is one, is the acknowledged row.
LEMMA SharedDelete ==
    ASSUME TypeInv, SharedInv, NEW t \in Threads, FlushDelete(t)
    PROVE  SharedInv'
  <1>1. PICK r \in FirstRow(items[t]) :
           /\ queue' = {s \in queue : s.id # r.id}
           /\ items' = [items EXCEPT ![t] = @ \ {r}]
    BY DEF FlushDelete, DeleteQueueItem
  <1>2. /\ UNCHANGED <<enqueued, acked>> /\ pc[t] = "flushDelete"
        /\ pc' = [pc EXCEPT ![t] = "flushing"]
    BY DEF FlushDelete, Goto, histVars
  <1>3. queue' \subseteq queue /\ \A u \in Threads : items'[u] \subseteq items[u]
    BY <1>1 DEF TypeInv, TypeOK
  <1>4. (IdsDistinct /\ IdsBounded)'
    BY <1>3 DEF SharedInv, IdsDistinct, IdsBounded
  <1>5. PassNotReused'
    BY <1>3 DEF SharedInv, PassNotReused
  <1>6. DeleteAcked'
    <2> SUFFICES ASSUME NEW u \in Threads, pc'[u] = "flushDelete"
                 PROVE  \A s \in FirstRow(items'[u]) : s.stamp \in acked
      BY <1>2 DEF DeleteAcked
    <2>1. u # t
      BY <1>2 DEF TypeInv, TypeOK
    <2>2. pc[u] = "flushDelete" /\ items'[u] = items[u]
      BY <1>1, <1>2, <2>1 DEF TypeInv, TypeOK
    <2> QED
      BY <2>2 DEF SharedInv, DeleteAcked
  <1>7. AcceptedNotLost'
    <2> SUFFICES ASSUME NEW n \in 1..enqueued, n \notin acked
                 PROVE  \E s \in queue' : s.stamp = n
      BY <1>2 DEF AcceptedNotLost
    <2>1. PICK s \in queue : s.stamp = n
      BY DEF SharedInv, AcceptedNotLost
    <2>2. r \in items[t] /\ r.stamp \in acked
      BY <1>2 DEF SharedInv, DeleteAcked, FirstRow
    <2>3. s.id # r.id
      BY <2>1, <2>2 DEF SharedInv, PassNotReused
    <2> QED
      BY <1>1, <2>1, <2>3
  <1> QED
    BY <1>4, <1>5, <1>6, <1>7 DEF SharedInv

LEMMA LastRowExists ==
    ASSUME TypeInv, IdsBounded PROVE HasLast
  <1> DEFINE T == {r.id : r \in queue}
  <1>1. T \in SUBSET Nat
    BY DEF TypeInv, TypeOK, QueueRow
  <1>2. PICK b \in Nat : \A n \in T : n <= b
    BY DEF IdsBounded
  <1>3. CASE T # {}
    <2> HIDE DEF T
    <2>1. PICK n \in T : \A m \in T : m <= n
      BY <1>1, <1>2, <1>3, LargestNumber
    <2>2. PICK r \in queue : n = r.id
      BY <2>1 DEF T
    <2> QED
      BY <2>1, <2>2 DEF HasLast, T
  <1> QED
    BY <1>3 DEF HasLast

\* Only this step needs that the new id is not one a pass still holds.
LEMMA SharedEnqueue ==
    ASSUME TypeInv, SharedInv, FreshIds, NEW t \in Threads, EnqueuePayload(t)
    PROVE  SharedInv'
  <1>1. PICK i \in Nat \ {0} :
           NextRowId(queue) = {i} /\ \A r \in queue : r.id < i
    BY LastRowExists, NextRowIdLargest DEF SharedInv
  <1> DEFINE n == enqueued + 1
             new == [id |-> i, stamp |-> n]
  <1>2. /\ enqueued' = n /\ queue' = queue \cup {new} /\ acked' = acked
        /\ pc' = [pc EXCEPT ![t] = "idle"]
        /\ items' = [items EXCEPT ![t] = {}]
    BY <1>1 DEF EnqueuePayload, Enqueue, Return
  <1>3. enqueued \in Nat /\ \A r \in queue : r.id \in Nat
    BY SyncAssumption DEF TypeInv, TypeOK, QueueRow
  <1>4. new.id = i /\ new.stamp = n
    OBVIOUS
  <1> HIDE DEF new
  <1>5. new \notin queue /\ \A r \in queue : r.id # new.id /\ r.id <= i
    BY <1>1, <1>3, <1>4
  <1>6. \A u \in Threads : items'[u] = items[u] \/ items'[u] = {}
    BY <1>2 DEF TypeInv, TypeOK
  <1>7. IdsDistinct'
    BY <1>2, <1>5 DEF SharedInv, IdsDistinct
  <1>8. IdsBounded'
    <2>1. \A r \in queue' : r.id <= i
      BY <1>2, <1>4, <1>5
    <2> QED
      BY <2>1 DEF IdsBounded
  <1>9. PassNotReused'
    <2> SUFFICES ASSUME NEW u \in Threads, NEW r \in items'[u]
                 PROVE  /\ \A s \in queue' : s.id = r.id => s = r
                        /\ \A s \in items'[u] : s.id = r.id => s = r
      BY DEF PassNotReused
    <2>1. items'[u] = items[u] /\ r \in items[u]
      BY <1>6
    <2>2. new.id # r.id
      BY <1>2, <1>5, <2>1 DEF FreshIds
    <2> QED
      BY <1>2, <2>1, <2>2 DEF SharedInv, PassNotReused
  <1>10. DeleteAcked'
    BY <1>2, <1>6 DEF SharedInv, DeleteAcked, FirstRow, TypeInv, TypeOK
  <1>11. AcceptedNotLost'
    BY <1>2, <1>3, <1>4 DEF SharedInv, AcceptedNotLost
  <1> QED
    BY <1>7, <1>8, <1>9, <1>10, <1>11 DEF SharedInv

LEMMA SharedStep == TypeInv /\ SharedInv /\ [Next]_vars /\ [FreshIds]_vars => SharedInv'
  <1> SUFFICES ASSUME TypeInv, SharedInv, [Next]_vars, [FreshIds]_vars PROVE SharedInv'
    OBVIOUS
  <1>1. ASSUME NEW t \in Threads, Flush(t) PROVE SharedInv'
    BY <1>1, SharedFlush
  <1>2. ASSUME NEW t \in Threads, FlushAcknowledged(t) PROVE SharedInv'
    BY <1>2, SharedAcknowledge
  <1>3. ASSUME NEW t \in Threads, FlushDelete(t) PROVE SharedInv'
    BY <1>3, SharedDelete
  <1>4. ASSUME NEW t \in Threads, EnqueuePayload(t) PROVE SharedInv'
    <2>1. enqueued' = enqueued + 1 /\ enqueued \in Nat
      BY <1>4, SyncAssumption DEF EnqueuePayload, TypeInv, TypeOK
    <2>2. FreshIds
      BY <2>1 DEF vars, histVars
    <2> QED
      BY <1>4, <2>2, SharedEnqueue
  <1>5. ASSUME NEW t \in Threads,
               \/ FlushReadFails(t) \/ FlushItem(t) \/ Skip(t) \/ SendJSON(t)
               \/ SendWithoutToken(t) \/ Retry(t) \/ SendQueues(t)
        PROVE  SharedInv'
    <2>1. /\ UNCHANGED <<queue, items, enqueued, acked>>
          /\ pc' = pc \/ \E l \in Labels \ {"flushDelete"} :
                            pc' = [pc EXCEPT ![t] = l]
      BY <1>5 DEF FlushReadFails, FlushItem, Skip, SendJSON, SendWithoutToken,
                  Retry, SendQueues, Goto, Labels, Locked, histVars
    <2>2. \A u \in Threads : pc'[u] = "flushDelete" => pc[u] = "flushDelete"
      BY <2>1 DEF TypeInv, TypeOK
    <2> QED
      BY <2>1, <2>2, SharedQuiet
  <1>6. ASSUME NEW t \in Threads, QuietReturn(t) PROVE SharedInv'
    <2>1. /\ UNCHANGED <<queue, enqueued, acked>>
          /\ \A u \in Threads : items'[u] = items[u] \/ items'[u] = {}
          /\ \A u \in Threads : pc'[u] = "flushDelete" => pc[u] = "flushDelete"
      BY <1>6, QuietReturnEffect DEF Return, TypeInv, TypeOK
    <2> QED
      BY <2>1, SharedQuiet
  <1>7. ASSUME NEW p \in Procs, Exit(p) \/ Start(p) PROVE SharedInv'
    <2>1. /\ UNCHANGED <<queue, enqueued, acked>>
          /\ \A u \in Threads : items'[u] = items[u] \/ items'[u] = {}
          /\ \A u \in Threads : pc'[u] = "flushDelete" => pc[u] = "flushDelete"
      BY <1>7 DEF Exit, Start, histVars
    <2> QED
      BY <2>1, SharedQuiet
  <1>8. ASSUME Cancel \/ Calm \/ UNCHANGED vars PROVE SharedInv'
    <2>1. UNCHANGED <<queue, items, pc, enqueued, acked>>
      BY <1>8 DEF Cancel, Calm, vars, sysVars, histVars
    <2> QED
      BY <2>1, SharedQuiet
  <1> QED
    BY <1>1, <1>2, <1>3, <1>4, <1>5, <1>6, <1>7, <1>8 DEF Next, Step, QuietReturn

\* However many processes share the table, and whatever fails, crashes or is
\* restarted, no payload reported as queued is lost as long as the INSERT never
\* gives a new row an id that some flush pass still has to delete.
THEOREM OnlyReusedIdsLose == Spec /\ [][FreshIds]_vars => []AcceptedNotLost
  <1>1. Init => SharedInv
    BY DEF Init, SharedInv, IdsDistinct, IdsBounded, PassNotReused, DeleteAcked,
           AcceptedNotLost
  <1>2. SharedInv => AcceptedNotLost
    BY DEF SharedInv
  <1> QED
    BY <1>1, <1>2, TypeInit, TypeStep, SharedStep, PTL DEF Spec
=============================================================================
