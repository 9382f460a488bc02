----------------------------- MODULE SyncEngine -----------------------------
(***************************************************************************)
(* internal/sync with internal/httpclient: the delivery engine shared by   *)
(* the heartbeat, inventory and software goroutines of a process, over the *)
(* queue table of the SQLite file that every process shares.               *)
(*                                                                         *)
(* A goroutine runs cycles: Flush the queue, collect, then either find     *)
(* nothing to report or SendJSON one payload.  Both calls hold the engine's*)
(* mutex from their first to their last statement, HTTP retries included;  *)
(* the mutex belongs to a process, so two processes (the service and an    *)
(* "inventory" or "software" command) do not exclude each other.           *)
(*                                                                         *)
(* Everything outside may fail as long as env = "faulty": a request, its   *)
(* reply, an SQL statement (no busy_timeout is set), reading the token;    *)
(* a process may end at any step.  Calm ends the faults, for liveness; a   *)
(* payload in Refused is refused (a 4xx, say) in any case.                 *)
(***************************************************************************)
EXTENDS Storage

CONSTANTS Procs,       \* the processes that may run
          Service,     \* the one that is the Windows service
          Threads,     \* the goroutines (or the command) using an engine
          Heartbeat,   \* the goroutine that runs heartbeat.Run
          ProcOf,      \* the process of each thread
          Retries,     \* Client.Retries
          FlushLimit,  \* the LIMIT of one flush pass
          MaxQueued,   \* bound: INSERTs that may succeed in a behaviour
          Refused,     \* numbers of queued payloads the Portal never accepts
          None

ASSUME SyncAssumption ==
    /\ Service \in Procs
    /\ Heartbeat \in Threads
    /\ ProcOf \in [Threads -> Procs]
    /\ Retries \in Nat
    /\ FlushLimit \in Nat \ {0}
    /\ MaxQueued \in Nat
    /\ Refused \subseteq Nat
    /\ None \notin Threads

VARIABLES queue,     \* the rows of the queue table
          run,       \* run[p]: "up", "stopping" (context cancelled) or "down"
          mu,        \* mu[p]: the thread holding the engine's mutex, or None
          pc,        \* pc[t]: where thread t is in its cycle
          items,     \* items[t]: the rows left in t's flush pass
          attempt,   \* attempt[t]: the index of t's current HTTP attempt
          env,       \* "faulty" or "calm"
          enqueued,  \* history: successful INSERTs, which number the payloads
          acked,     \* history: queued payloads that got a successful reply
          lastFlushed \* history: the payload the last successful reply was for

sysVars == <<queue, run, mu, pc, items, attempt, env>>
histVars == <<enqueued, acked, lastFlushed>>
vars == <<sysVars, histVars>>

\* "flushing": between two items of a pass; "flushSend", "send": inside
\* Client.Do for a queued or for a fresh payload; "flushDelete": acknowledged,
\* row not yet deleted; "enqueue": about to INSERT; "ready": between the
\* calls of Flush and SendJSON.
Locked == {"flushing", "flushSend", "flushDelete", "send", "enqueue"}
Labels == Locked \cup {"idle", "ready"}

Init ==
    /\ queue = {}
    /\ run = [p \in Procs |-> "down"]
    /\ mu = [p \in Procs |-> None]
    /\ pc = [t \in Threads |-> "idle"]
    /\ items = [t \in Threads |-> {}]
    /\ attempt = [t \in Threads |-> 0]
    /\ env = "faulty"
    /\ enqueued = 0 /\ acked = {} /\ lastFlushed = 0

-----------------------------------------------------------------------------
\* Mutant of Lock: the mutex does not exclude.
NoLock(t) == mu' = [mu EXCEPT ![ProcOf[t]] = t]

Lock(t) == mu[ProcOf[t]] = None /\ mu' = [mu EXCEPT ![ProcOf[t]] = t]

\* The call returns: the deferred Unlock, and the locals are gone.
Return(t, label) ==
    /\ mu' = [mu EXCEPT ![ProcOf[t]] = None]
    /\ pc' = [pc EXCEPT ![t] = label]
    /\ items' = [items EXCEPT ![t] = {}]
    /\ attempt' = [attempt EXCEPT ![t] = 0]

Goto(t, label) == pc' = [pc EXCEPT ![t] = label]

\* A cycle begins.  After cancellation inventory and software see ctx.Err()
\* and return; heartbeat may still take its timer instead of ctx.Done().
MayBegin(t) ==
    \/ run[ProcOf[t]] = "up"
    \/ run[ProcOf[t]] = "stopping" /\ t = Heartbeat

\* Engine.Flush takes the mutex and reads the pending rows.
Flush(t) ==
    /\ pc[t] = "idle" /\ MayBegin(t)
    /\ Lock(t)
    /\ Goto(t, "flushing")
    /\ items' = [items EXCEPT ![t] = Pending(queue, FlushLimit)]
    /\ UNCHANGED <<queue, run, attempt, env, histVars>>

\* Reading the pending rows fails: the callers log it and carry on.
FlushReadFails(t) ==
    /\ pc[t] = "idle" /\ MayBegin(t) /\ env = "faulty"
    /\ mu[ProcOf[t]] = None
    /\ Goto(t, "ready")
    /\ UNCHANGED <<queue, run, mu, items, attempt, env, histVars>>

\* The loop takes the next item; send reads the token and starts Client.Do.
FlushItem(t) ==
    /\ pc[t] = "flushing" /\ items[t] # {}
    /\ Goto(t, "flushSend")
    /\ UNCHANGED <<queue, run, mu, items, attempt, env, histVars>>

\* The loop is over, or send cannot read a token, which ends the pass.
FlushReturns(t) ==
    /\ pc[t] = "flushing"
    /\ items[t] = {} \/ env = "faulty"
    /\ Return(t, "ready")
    /\ UNCHANGED <<queue, run, env, histVars>>

\* DeleteQueueItem with the id read when the pass began.
FlushDelete(t) ==
    /\ pc[t] = "flushDelete"
    /\ \E r \in FirstRow(items[t]) :
          /\ queue' = DeleteQueueItem(queue, r.id)
          /\ items' = [items EXCEPT ![t] = @ \ {r}]
    /\ Goto(t, "flushing")
    /\ UNCHANGED <<run, mu, attempt, env, histVars>>

\* Mutant of FlushDeleteFails: the pass goes on with the next item.
DeleteErrorIgnored(t) ==
    /\ pc[t] = "flushDelete" /\ env = "faulty"
    /\ \E r \in FirstRow(items[t]) : items' = [items EXCEPT ![t] = @ \ {r}]
    /\ Goto(t, "flushing")
    /\ UNCHANGED <<queue, run, mu, attempt, env, histVars>>

\* The DELETE fails: the pass ends with the row still in the table.
FlushDeleteFails(t) ==
    /\ pc[t] = "flushDelete" /\ env = "faulty"
    /\ Return(t, "ready")
    /\ UNCHANGED <<queue, run, env, histVars>>

-----------------------------------------------------------------------------
\* The caller has nothing to report: collecting failed, or the fingerprint
\* did not change.
Skip(t) ==
    /\ pc[t] = "ready"
    /\ Goto(t, "idle")
    /\ UNCHANGED <<queue, run, mu, items, attempt, env, histVars>>

\* Engine.SendJSON takes the mutex; send reads the token, starts Client.Do.
SendJSON(t) ==
    /\ pc[t] = "ready"
    /\ Lock(t)
    /\ Goto(t, "send")
    /\ UNCHANGED <<queue, run, items, attempt, env, histVars>>

\* send cannot read a token: the error returns and nothing is queued.
SendWithoutToken(t) ==
    /\ pc[t] = "ready" /\ env = "faulty"
    /\ mu[ProcOf[t]] = None
    /\ Goto(t, "idle")
    /\ UNCHANGED <<queue, run, mu, items, attempt, env, histVars>>

\* Mutant of Retry: one attempt too many.
RetryOnceMore(t) ==
    /\ pc[t] \in {"flushSend", "send"} /\ env = "faulty"
    /\ attempt[t] <= Retries
    /\ attempt' = [attempt EXCEPT ![t] = @ + 1]
    /\ UNCHANGED <<queue, run, mu, pc, items, env, histVars>>

\* Client.Do: no response, and attempts are left.
Retry(t) ==
    /\ pc[t] \in {"flushSend", "send"} /\ env = "faulty"
    /\ attempt[t] < Retries
    /\ attempt' = [attempt EXCEPT ![t] = @ + 1]
    /\ UNCHANGED <<queue, run, mu, pc, items, env, histVars>>

\* A 2xx response with an acceptable body to a queued payload.  Nothing is
\* asked of the context here or below: a reply may be in when it is cancelled.
FlushAcknowledged(t) ==
    /\ pc[t] = "flushSend"
    /\ \E r \in FirstRow(items[t]) :
          /\ r.stamp \notin Refused
          /\ acked' = acked \cup {r.stamp}
          /\ lastFlushed' = r.stamp
    /\ attempt' = [attempt EXCEPT ![t] = 0]
    /\ Goto(t, "flushDelete")
    /\ UNCHANGED <<queue, run, mu, items, env, enqueued>>

\* A 2xx response with an acceptable body to a fresh payload.
SendAcknowledged(t) ==
    /\ pc[t] = "send"
    /\ Return(t, "idle")
    /\ UNCHANGED <<queue, run, env, histVars>>

\* Mutant of FlushSendFails: a refused row is removed.
RefusedIsRemoved(t) ==
    /\ pc[t] = "flushSend" /\ env = "faulty"
    /\ \E r \in FirstRow(items[t]) : queue' = DeleteQueueItem(queue, r.id)
    /\ Return(t, "ready")
    /\ UNCHANGED <<run, env, histVars>>

\* The next three are the ways send fails: the last attempt got no response,
\* or any attempt got one that cannot be read, is not 2xx or is not JSON.
\* queueOnFailure = false: the error ends the pass, the row stays.
FlushSendFails(t) ==
    /\ pc[t] = "flushSend"
    /\ env = "faulty" \/ \E r \in FirstRow(items[t]) : r.stamp \in Refused
    /\ Return(t, "ready")
    /\ UNCHANGED <<queue, run, env, histVars>>

\* queueOnFailure = true, and the context is alive: Enqueue comes next.
SendQueues(t) ==
    /\ pc[t] = "send" /\ (env = "faulty" \/ enqueued + 1 \in Refused)
    /\ run[ProcOf[t]] = "up"
    /\ attempt' = [attempt EXCEPT ![t] = 0]
    /\ Goto(t, "enqueue")
    /\ UNCHANGED <<queue, run, mu, items, env, histVars>>

\* queueOnFailure = true, but the context is cancelled: the payload is lost.
SendCancelled(t) ==
    /\ pc[t] = "send" /\ env = "faulty"
    /\ run[ProcOf[t]] = "stopping"
    /\ Return(t, "idle")
    /\ UNCHANGED <<queue, run, env, histVars>>

\* storage.Enqueue: from here on the engine answers for the payload.
EnqueuePayload(t) ==
    /\ pc[t] = "enqueue" /\ enqueued < MaxQueued
    /\ enqueued' = enqueued + 1
    /\ queue' = Enqueue(queue, enqueued')
    /\ Return(t, "idle")
    /\ UNCHANGED <<run, env, acked, lastFlushed>>

\* The INSERT fails and the caller gets an error that is not ErrQueued.
EnqueueFails(t) ==
    /\ pc[t] = "enqueue" /\ (env = "faulty" \/ enqueued = MaxQueued)
    /\ Return(t, "idle")
    /\ UNCHANGED <<queue, run, env, histVars>>

-----------------------------------------------------------------------------
\* The service control manager asks the service to stop: cancel().
Cancel ==
    /\ run[Service] = "up" /\ env = "faulty"
    /\ run' = [run EXCEPT ![Service] = "stopping"]
    /\ UNCHANGED <<queue, mu, pc, items, attempt, env, histVars>>

\* The process ends: the command or the service returned, or it was killed.
\* Nobody waits for the goroutines.
Exit(p) ==
    /\ run[p] # "down" /\ env = "faulty"
    /\ run' = [run EXCEPT ![p] = "down"]
    /\ mu' = [mu EXCEPT ![p] = None]
    /\ pc' = [t \in Threads |-> IF ProcOf[t] = p THEN "idle" ELSE pc[t]]
    /\ items' = [t \in Threads |-> IF ProcOf[t] = p THEN {} ELSE items[t]]
    /\ attempt' = [t \in Threads |-> IF ProcOf[t] = p THEN 0 ELSE attempt[t]]
    /\ UNCHANGED <<queue, env, histVars>>

\* The process is started (again) over the same database.
Start(p) ==
    /\ run[p] = "down"
    /\ run' = [run EXCEPT ![p] = "up"]
    /\ UNCHANGED <<queue, mu, pc, items, attempt, env, histVars>>

\* The faults end; a service that was stopping is stopped by then.
Calm ==
    /\ env = "faulty" /\ run[Service] # "stopping"
    /\ env' = "calm"
    /\ UNCHANGED <<queue, run, mu, pc, items, attempt, histVars>>

Step(t) ==
    \/ Flush(t) \/ FlushReadFails(t) \/ FlushItem(t) \/ FlushReturns(t)
    \/ FlushDelete(t) \/ FlushDeleteFails(t) \/ FlushAcknowledged(t)
    \/ FlushSendFails(t) \/ Skip(t) \/ SendJSON(t) \/ SendWithoutToken(t)
    \/ Retry(t) \/ SendAcknowledged(t) \/ SendQueues(t) \/ SendCancelled(t)
    \/ EnqueuePayload(t) \/ EnqueueFails(t)

Next ==
    \/ \E t \in Threads : Step(t)
    \/ \E p \in Procs : Exit(p) \/ Start(p)
    \/ Cancel \/ Calm

Spec == Init /\ [][Next]_vars

\* The Go scheduler runs every goroutine that can run, timers fire, requests
\* time out, and a stopped service is started again (start= auto).
Fairness ==
    /\ \A t \in Threads : WF_vars(Step(t))
    /\ WF_vars(Start(Service))

FairSpec == Spec /\ Fairness

-----------------------------------------------------------------------------
\* The type of every variable.
TypeOK ==
    /\ queue \subseteq QueueRow
    /\ run \in [Procs -> {"up", "stopping", "down"}]
    /\ mu \in [Procs -> Threads \cup {None}]
    /\ pc \in [Threads -> Labels]
    /\ items \in [Threads -> SUBSET QueueRow]
    /\ attempt \in [Threads -> 0..Retries]
    /\ env \in {"faulty", "calm"}
    /\ enqueued \in 0..MaxQueued
    /\ acked \subseteq 1..enqueued
    /\ lastFlushed \in Nat

\* A payload that was reported as queued is still in the table or was
\* acknowledged: no order of flushes, failures, crashes and restarts deletes
\* a row that was not delivered (Flush deletes by the id it read earlier).
AcceptedNotLost ==
    \A n \in 1..enqueued : n \in acked \/ \E r \in queue : r.stamp = n

\* Of the rows kept after their acknowledgement (the DELETE failed, or the
\* process ended before it) there is at most one, the oldest of the table,
\* so the Portal sees no more than that one queued payload again.
DuplicateOnlyAtHead ==
    \A r \in queue : r.stamp \in acked => r \in FirstRow(queue)

\* Flush delivers in FIFO order: no acknowledgement is for a payload that was
\* queued before the one acknowledged last.
FlushFIFO == [][lastFlushed' >= lastFlushed]_vars

\* Of the rows read by a flush pass, those not yet handled are exactly the
\* oldest rows of the table: the ids kept in memory are not stale.
PassIsQueuePrefix ==
    \A t \in Threads : items[t] # {} =>
        /\ items[t] \subseteq queue
        /\ \A r \in items[t], s \in queue : s.id < r.id => s \in items[t]

\* The engine implements the outbox of OfflineDelivery.
Delivery == INSTANCE OfflineDelivery WITH
    accepted <- enqueued, pending <- {r.stamp : r \in queue}, delivered <- acked

ImplementsDelivery == Delivery!Spec

\* Once the faults end the queue is emptied, in as many passes as it takes,
\* and stays empty, up to the first payload the Portal refuses: that one is
\* tried for ever (no status code makes Flush give up) and blocks the payloads
\* behind it, and none before it.
QueueDrains ==
    (env = "calm") ~> [](\A r \in queue : \E n \in Refused : n <= r.stamp)
=============================================================================
