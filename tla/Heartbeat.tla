----------------------------- MODULE Heartbeat -----------------------------
(***************************************************************************)
(* internal/heartbeat in the service process: the loop with its timer, the *)
(* keys it leaves for the status command, and what printStatus makes of    *)
(* them at any moment.  Composed with ServiceControl, which starts and     *)
(* ends the process, and with reload-config, which replaces the interval.  *)
(*                                                                         *)
(* Time is counted in units; Second units are a second, to which the       *)
(* RFC3339 format of heartbeat_last_success truncates.  Only ages are      *)
(* kept: Tick makes them grow, up to AgeCap.  SQL statements take no time. *)
(* A cycle (Flush, collect, SendJSON) that takes at most MaxWork is prompt.*)
(* The sync engine is seen through the result of SendJSON: nil, or an      *)
(* error (ErrQueued included).  While env = "faulty" anything may fail, be *)
(* late, be stopped or be reconfigured; Calm ends this.                    *)
(***************************************************************************)
EXTENDS ServiceControl

CONSTANTS Second,          \* units in a second
          Int64,           \* a Duration is in -Int64 .. Int64 - 1
          DefaultInterval, \* 30 s in the code
          Configs,         \* portal_configuration: its two interval values
          MaxWork,         \* the longest prompt cycle
          AgeCap,          \* bound: older than this is as old as this
          None

ASSUME HeartbeatAssumption ==
    /\ Second \in Nat \ {0} /\ Int64 \in Nat \ {0}
    /\ DefaultInterval \in Nat \ {0} /\ MaxWork \in Nat
    /\ AgeCap \in Nat /\ AgeCap >= Second - 1
    /\ \A c \in Configs : \A i \in 1..2 :
          c[i].type \in {"float", "string", "other"} /\ c[i].value \in Int
    /\ None \notin Int

VARIABLES config,     \* portal_configuration
          registered, \* agent_uuid is stored
          pc,         \* where the goroutine is
          left,       \* time until the timer fires, or of a prompt cycle
          phase,      \* the clock modulo Second
          age,        \* time since heartbeat_last_success, or None
          error,      \* heartbeat_last_error is not empty
          health,     \* the stored health and metrics are those of the last
                      \* heartbeat the Portal acknowledged
          env,        \* "faulty" or "calm"
          ackAge,     \* history: time since the Portal acknowledged the
                      \* heartbeat whose success is stored
          outcome,    \* history: how the last cycle ended
          dirty,      \* history: a Put of the last cycle failed
          disturbed   \* history: since the last stored success the service
                      \* failed, was late, stopped or was reconfigured

keyVars == <<config, registered, age, error, health>>
loopVars == <<pc, left>>
histVars == <<ackAge, outcome, dirty, disturbed>>
hbVars == <<keyVars, loopVars, phase, env, histVars>>
vars == <<serviceVars, hbVars>>

-----------------------------------------------------------------------------
\* 64-bit arithmetic.
Wrap(n) == ((n + Int64) % (2 * Int64)) - Int64

\* time.Duration(value) * time.Second: the fraction is cut before the
\* multiplication, which may overflow.
Seconds(value) == Wrap((value \div Second) * Second)

\* The cases of ConfiguredInterval that return.  ParseDuration refuses what
\* does not fit, so a string never overflows.
Usable(v) == v.type \in {"float", "string"} /\ v.value > 0

\* ConfiguredInterval: heartbeatInterval, else heartbeat_interval, else 30 s.
ConfiguredInterval(c) ==
    IF \E i \in 1..2 : Usable(c[i])
      THEN LET v == c[IF Usable(c[1]) THEN 1 ELSE 2]
           IN  IF v.type = "float" THEN Seconds(v.value) ELSE v.value
      ELSE DefaultInterval

\* Mutant of storedHeartbeatStatus: one interval without a heartbeat is enough.
statusAfterOneInterval ==
    IF age = None THEN "PENDING"
    ELSE IF age > ConfiguredInterval(config) THEN "OFFLINE" ELSE "ONLINE"

\* What the inventory engine takes the heartbeat for.
storedHeartbeatStatus ==
    IF age = None THEN "PENDING"
    ELSE IF age > Wrap(2 * ConfiguredInterval(config)) THEN "OFFLINE"
    ELSE "ONLINE"

\* printStatus's Heartbeat Status.
heartbeatState == IF registered THEN storedHeartbeatStatus ELSE "PENDING"

Init ==
    /\ ServiceInit
    /\ config \in Configs /\ registered = FALSE
    /\ pc = "off" /\ left = 0 /\ phase = 0
    /\ age = None /\ error = FALSE /\ health = FALSE
    /\ env = "faulty"
    /\ ackAge = None /\ outcome = "none" /\ dirty = FALSE /\ disturbed = TRUE

-----------------------------------------------------------------------------
\* A Put, whose error is ignored: the new value, or the old one.
Put(key, value) ==
    \/ key' = value /\ dirty' = dirty
    \/ env = "faulty" /\ key' = key /\ dirty' = TRUE

\* bootstrapWithRetry returned nil: Run starts with a cycle at once.
BootstrapDone ==
    /\ pc = "bootstrap"
    /\ registered' = TRUE
    /\ pc' = "work" /\ left' = MaxWork
    /\ UNCHANGED <<serviceVars, config, age, error, health, phase, env,
                   histVars>>

\* bootstrapWithRetry, or the select of Run, sees the cancellation.
LoopEnds ==
    /\ pc \in {"bootstrap", "wait"} /\ ctx = "cancelled"
    /\ pc' = "off" /\ left' = 0 /\ disturbed' = TRUE
    /\ UNCHANGED <<serviceVars, keyVars, phase, env, ackAge, outcome, dirty>>

\* The timer fires (select may take it although the context is cancelled).
TimerFires ==
    /\ pc = "wait" /\ left = 0
    /\ pc' = "work" /\ left' = MaxWork
    /\ UNCHANGED <<serviceVars, keyVars, phase, env, histVars>>

\* SendJSON returned nil.
Acknowledged ==
    /\ pc = "work"
    /\ pc' = "putSuccess" /\ health' = FALSE
    /\ outcome' = "ok" /\ dirty' = FALSE
    /\ UNCHANGED <<serviceVars, config, registered, age, error, left, phase, env,
                   ackAge, disturbed>>

\* Mutant of Failed: a queued heartbeat counts as a success.
QueuedIsSuccess ==
    /\ pc = "work" /\ (env = "faulty" \/ ctx = "cancelled")
    /\ pc' = "putSuccess"
    /\ outcome' = "failed" /\ dirty' = FALSE /\ disturbed' = TRUE
    /\ UNCHANGED <<serviceVars, keyVars, left, phase, env, ackAge>>

\* collect or SendJSON returned an error.
Failed ==
    /\ pc = "work" /\ (env = "faulty" \/ ctx = "cancelled")
    /\ pc' = "putError"
    /\ outcome' = "failed" /\ dirty' = FALSE /\ disturbed' = TRUE
    /\ UNCHANGED <<serviceVars, keyVars, left, phase, env, ackAge>>

\* The cycle is over: a new timer with the interval as it is now.  A timer
\* with a negative duration fires at once.
Rearm ==
    /\ pc' = "wait"
    /\ left' = LET d == ConfiguredInterval(config) IN IF d < 0 THEN 0 ELSE d

\* Mutant of PutError: the loop ends with any error.
LoopEndsOnError ==
    /\ pc = "putError"
    /\ Put(error, TRUE)
    /\ pc' = "off" /\ left' = 0
    /\ UNCHANGED <<serviceVars, config, registered, age, health, phase,
                   env, ackAge, outcome, disturbed>>

\* persistFailure; Run returns when the context is cancelled.
PutError ==
    /\ pc = "putError"
    /\ Put(error, TRUE)
    /\ IF ctx = "cancelled" THEN pc' = "off" /\ left' = 0 ELSE Rearm
    /\ UNCHANGED <<serviceVars, config, registered, age, health, phase,
                   env, ackAge, outcome, disturbed>>

\* Mutant of PutSuccess: the time is rounded, not cut.
TimeRounded ==
    /\ pc = "putSuccess"
    /\ Put(age, IF 2 * phase >= Second THEN phase - Second ELSE phase)
    /\ disturbed' = dirty'
    /\ ackAge' = IF ~dirty' /\ outcome = "ok" THEN 0 ELSE ackAge
    /\ pc' = "putHealth"
    /\ UNCHANGED <<serviceVars, config, registered, error, health, left, phase,
                   env, outcome>>

\* persistSuccess, first Put: the time, cut to a second.
PutSuccess ==
    /\ pc = "putSuccess"
    /\ Put(age, phase)
    /\ disturbed' = dirty'
    /\ ackAge' = IF ~dirty' /\ outcome = "ok" THEN 0 ELSE ackAge
    /\ pc' = "putHealth"
    /\ UNCHANGED <<serviceVars, config, registered, error, health, left, phase,
                   env, outcome>>

\* Its five Puts of latency, health and metrics, which stand or fall as one.
PutHealth ==
    /\ pc = "putHealth"
    /\ Put(health, outcome = "ok")
    /\ pc' = "putClear"
    /\ UNCHANGED <<serviceVars, config, registered, age, error, left,
                   phase, env, ackAge, outcome, disturbed>>

\* Mutant of PutClear: the last Put is missing.
ErrorStays ==
    /\ pc = "putClear"
    /\ Rearm
    /\ UNCHANGED <<serviceVars, keyVars, phase, env, histVars>>

\* Its last Put: no error.
PutClear ==
    /\ pc = "putClear"
    /\ Put(error, FALSE)
    /\ Rearm
    /\ UNCHANGED <<serviceVars, config, registered, age, health, phase,
                   env, ackAge, outcome, disturbed>>

-----------------------------------------------------------------------------
Older(a) == IF a = None \/ a = AgeCap THEN a ELSE a + 1

\* A unit of time passes.  It cannot pass a timer that is due, nor the Puts,
\* nor, once the faults ended, the end of a prompt cycle or the bootstrap.
Tick ==
    /\ pc \in {"off", "bootstrap", "wait", "work"}
    /\ pc = "wait" => left > 0
    /\ env = "calm" => pc # "bootstrap" /\ left > 0
    /\ phase' = (phase + 1) % Second
    /\ age' = Older(age) /\ ackAge' = Older(ackAge)
    /\ left' = IF left > 0 THEN left - 1 ELSE 0
    /\ disturbed' = (disturbed \/ (pc = "work" /\ left = 0))
    /\ UNCHANGED <<serviceVars, config, registered, error, health, pc,
                   env, outcome, dirty>>

\* reload-config stores another configuration.
Reload ==
    /\ env = "faulty" /\ registered
    /\ config' \in Configs \ {config}
    /\ disturbed' = TRUE
    /\ UNCHANGED <<serviceVars, registered, age, error, health, loopVars, phase,
                   env, ackAge, outcome, dirty>>

\* Commands of the administrator; they do not touch the loop.
Commands ==
    /\ env = "faulty"
    /\ Invoke \/ Exit \/ CallSucceeds \/ CallFails \/ Boot \/ Shutdown
    /\ UNCHANGED hbVars

\* Execute starts the goroutine, or cancels its context.
Execute ==
    \/ Dispatch /\ pc' = "bootstrap"
                /\ UNCHANGED <<keyVars, left, phase, env, histVars>>
    \/ HandleStop /\ UNCHANGED hbVars

\* The process ends, and the goroutine with it, wherever it is.
ProcessEnds ==
    /\ ExecuteReturns \/ (env = "faulty" /\ Killed)
    /\ pc' = "off" /\ left' = 0
    /\ outcome' = "none" /\ dirty' = FALSE /\ disturbed' = TRUE
    /\ UNCHANGED <<keyVars, phase, env, ackAge>>

\* The faults end with the service running and nobody at the prompt; a cycle
\* that is under way may still take MaxWork.
Calm ==
    /\ env = "faulty" /\ scm = "running" /\ ~stopping /\ command = "none"
    /\ env' = "calm"
    /\ left' = IF pc = "work" THEN MaxWork ELSE left
    /\ disturbed' = (disturbed \/ pc = "work")
    /\ UNCHANGED <<serviceVars, keyVars, pc, phase, ackAge, outcome, dirty>>

Loop ==
    \/ BootstrapDone \/ LoopEnds \/ TimerFires \/ Acknowledged \/ Failed
    \/ PutError \/ PutSuccess \/ PutHealth \/ PutClear

Next ==
    Loop \/ Tick \/ Reload \/ Commands \/ Execute \/ ProcessEnds \/ Calm

Spec == Init /\ [][Next]_vars

\* The goroutine and Execute run when they can, and time passes.
FairSpec ==
    /\ Spec
    /\ WF_vars(Loop) /\ WF_vars(Tick) /\ WF_vars(Execute)
    /\ WF_vars(ExecuteReturns /\ ProcessEnds)

-----------------------------------------------------------------------------
FlagsTypeOK ==
    /\ registered \in BOOLEAN /\ error \in BOOLEAN /\ health \in BOOLEAN
    /\ dirty \in BOOLEAN /\ disturbed \in BOOLEAN

LoopTypeOK ==
    /\ config \in Configs
    /\ pc \in {"off", "bootstrap", "wait", "work", "putError", "putSuccess",
               "putHealth", "putClear"}
    /\ left \in Nat /\ phase \in 0..(Second - 1)
    /\ age \in 0..AgeCap \cup {None} /\ ackAge \in 0..AgeCap \cup {None}
    /\ env \in {"faulty", "calm"} /\ outcome \in {"none", "ok", "failed"}

\* The type of every variable.
TypeOK == ServiceTypeOK /\ FlagsTypeOK /\ LoopTypeOK

\* Cycles are short enough for the interval: the age of a heartbeat reaches one
\* interval, one cycle and the truncated part of a second.
Prompt == MaxWork + Second - 1 <= ConfiguredInterval(config)

\* status does not report OFFLINE while every cycle succeeds and is prompt:
\* two intervals cover the wait, the cycle and the truncation of the time.
NoFalseOffline == ~disturbed /\ Prompt => heartbeatState # "OFFLINE"

\* status reports ONLINE only when the Portal acknowledged a heartbeat in the
\* last two intervals, whatever was killed, lost or not stored since.
OnlineMeansAlive ==
    heartbeatState = "ONLINE" =>
        ackAge # None /\ ackAge <= 2 * ConfiguredInterval(config)

\* Between cycles the stored error and health are those of the last cycle,
\* unless one of its Puts failed: an error is shown exactly after a failure.
StatusOfLastCycle ==
    pc = "wait" /\ ~dirty =>
        /\ error <=> outcome = "failed"
        /\ outcome = "ok" => health

\* Once the faults end, status becomes ONLINE and stays so.
StaysOnline == (env = "calm" /\ Prompt) ~> [](heartbeatState = "ONLINE")

\* The heartbeat interval is a positive time: an unusable value of the Portal
\* gives the default.
IntervalPositive == pc = "wait" => ConfiguredInterval(config) > 0
=============================================================================
