-------------------------- MODULE HeartbeatProofs --------------------------
(***************************************************************************)
(* Theorems about Heartbeat and ServiceControl, for every configuration    *)
(* of the Portal, every length of a second, of a cycle and of the 64-bit   *)
(* range.  The guarantees of the status command that compare an age with   *)
(* twice the interval need the hypothesis that this product does not       *)
(* overflow; nothing in the code keeps the Portal from sending one that    *)
(* does.                                                                   *)
(***************************************************************************)
EXTENDS Heartbeat, TLAPS

interval == ConfiguredInterval(config)

-----------------------------------------------------------------------------
(***************************************************************************)
(* 64-bit arithmetic.                                                      *)
(***************************************************************************)

\* Within the range nothing wraps, and from zero up wrapping never adds.
LEMMA WrapFacts ==
    ASSUME NEW n \in Int
    PROVE  /\ Wrap(n) \in -Int64 .. Int64 - 1
           /\ n \in -Int64 .. Int64 - 1 => Wrap(n) = n
           /\ n >= -Int64 => Wrap(n) <= n
  <1> DEFINE m == 2 * Int64
             a == n + Int64
  <1>1. Int64 \in Nat \ {0}
    BY HeartbeatAssumption
  <1>2. m \in Nat \ {0} /\ a \in Int
    BY <1>1
  <1> HIDE DEF m, a
  <1>3. a % m \in 0 .. m - 1
    BY <1>2
  <1>4. a \in 0 .. m - 1 => a % m = a
    BY <1>2
  <1>5. a >= 0 => a % m <= a
    BY <1>2
  <1>6. Wrap(n) = (a % m) - Int64
    BY DEF Wrap, a, m
  <1> QED
    BY <1>1, <1>3, <1>4, <1>5, <1>6 DEF a, m

\* ConfiguredInterval returns a Duration.
LEMMA IntervalType ==
    ASSUME NEW c \in Configs PROVE ConfiguredInterval(c) \in Int
  <1>1. Second \in Nat \ {0} /\ DefaultInterval \in Int
    BY HeartbeatAssumption
  <1>2. c[1].value \in Int /\ c[2].value \in Int
    BY HeartbeatAssumption
  <1>3. \A v \in Int : Seconds(v) \in Int
    <2> SUFFICES ASSUME NEW v \in Int PROVE Seconds(v) \in Int
      OBVIOUS
    <2>1. v \div Second \in Int
      BY <1>1
    <2>2. (v \div Second) * Second \in Int
      BY <1>1, <2>1
    <2> QED
      BY <2>2, WrapFacts DEF Seconds
  <1> QED
    BY <1>1, <1>2, <1>3 DEF ConfiguredInterval

-----------------------------------------------------------------------------
(***************************************************************************)
(* Type correctness.                                                       *)
(***************************************************************************)

\* What the types need of the constants.
LEMMA Constants ==
    /\ Second \in Nat \ {0} /\ DefaultInterval \in Nat \ {0}
    /\ MaxWork \in Nat /\ AgeCap \in Nat /\ AgeCap >= Second - 1
    /\ None \notin Int
  BY HeartbeatAssumption

LEMMA OlderType ==
    ASSUME NEW a \in 0..AgeCap \cup {None}
    PROVE  Older(a) \in 0..AgeCap \cup {None}
  BY Constants DEF Older

LEMMA RearmType ==
    ASSUME LoopTypeOK, Rearm PROVE left' \in Nat /\ pc' = "wait"
  BY IntervalType DEF LoopTypeOK, Rearm

\* The steps of the service control manager and of the commands.
ServiceStep ==
    \/ Invoke \/ Exit \/ CallSucceeds \/ CallFails \/ Boot \/ Shutdown
    \/ Dispatch \/ HandleStop \/ ExecuteReturns \/ Killed
    \/ UNCHANGED serviceVars

LEMMA ServiceSteps == [Next]_vars => ServiceStep
  BY DEF ServiceStep, Next, vars, Loop, BootstrapDone, LoopEnds, TimerFires,
         Acknowledged, Failed, PutError, PutSuccess, PutHealth, PutClear,
         Tick, Reload, Commands, Execute, ProcessEnds, Calm

Verbs == {"create", "description", "delete", "start", "stop"}

\* They keep the types.
LEMMA ServiceTypeStep == ServiceTypeOK /\ ServiceStep => ServiceTypeOK'
  <1> SUFFICES ASSUME ServiceTypeOK, ServiceStep PROVE ServiceTypeOK'
    OBVIOUS
  <1> USE DEF ServiceTypeOK, serviceVars, scVars, cliVars
  <1>1. CASE Invoke
    <2>1. PICK c \in DOMAIN Calls : command' = c /\ todo' = Calls[c]
      BY <1>1 DEF Invoke
    <2>2. Calls[c] \in Seq(Verbs)
      <3>1. c \in {"install", "uninstall", "start", "stop", "restart"}
        BY DEF Calls
      <3>2. /\ Calls["install"] \in Seq(Verbs)
            /\ Calls["uninstall"] \in Seq(Verbs)
            /\ Calls["start"] \in Seq(Verbs) /\ Calls["stop"] \in Seq(Verbs)
            /\ Calls["restart"] \in Seq(Verbs)
        BY DEF Calls, Verbs
      <3> QED
        BY <3>1, <3>2
    <2> QED
      BY <1>1, <2>1, <2>2 DEF Invoke, Verbs
  <1>2. CASE Exit
    BY <1>2 DEF Exit
  <1>3. CASE CallSucceeds
    <2>1. Head(todo) \in Verbs /\ todo' \in Seq(Verbs)
      BY <1>3 DEF CallSucceeds, Verbs
    <2>2. /\ marked' \in BOOLEAN /\ stopping' \in BOOLEAN
          /\ started' \in BOOLEAN /\ command' \in DOMAIN Calls \cup {"none"}
          /\ result' \in {"none", "ok", "error"}
      BY <1>3 DEF CallSucceeds, Effect
    <2>3. /\ scm' \in {"absent", "stopped", "startPending", "running",
                       "stopPending"}
          /\ ctx' \in {"none", "live", "cancelled"}
          /\ ctx' = "none" <=> scm' \in {"absent", "stopped"}
      <3>1. CASE Head(todo) = "start"
        BY <1>3, <3>1 DEF CallSucceeds, Effect
      <3>2. CASE Head(todo) = "create"
        BY <1>3, <3>2 DEF CallSucceeds, Effect, Grants
      <3>3. CASE Head(todo) \in {"description", "stop", "delete"}
        BY <1>3, <3>3 DEF CallSucceeds, Effect
      <3> QED
        BY <2>1, <3>1, <3>2, <3>3 DEF Verbs
    <2> QED
      BY <2>1, <2>2, <2>3 DEF Verbs
  <1>4. CASE CallFails
    BY <1>4 DEF CallFails
  <1>5. CASE Boot \/ Shutdown
    BY <1>5 DEF Boot, Shutdown
  <1>6. CASE Dispatch \/ HandleStop
    BY <1>6 DEF Dispatch, HandleStop
  <1>7. CASE ExecuteReturns \/ Killed
    BY <1>7 DEF ExecuteReturns, Killed, Gone
  <1>8. CASE UNCHANGED serviceVars
    BY <1>8
  <1> QED
    BY <1>1, <1>2, <1>3, <1>4, <1>5, <1>6, <1>7, <1>8 DEF ServiceStep

LEMMA FlagsTypeStep == FlagsTypeOK /\ [Next]_vars => FlagsTypeOK'
  <1> SUFFICES ASSUME FlagsTypeOK, [Next]_vars PROVE FlagsTypeOK'
    OBVIOUS
  <1> USE DEF hbVars, keyVars, loopVars, histVars, FlagsTypeOK
  <1>1. CASE Loop
    BY <1>1 DEF Loop, BootstrapDone, LoopEnds, TimerFires, Acknowledged, Failed,
                PutError, PutSuccess, PutHealth, PutClear, Put
  <1>2. CASE Tick \/ Reload \/ Commands \/ Execute \/ ProcessEnds \/ Calm
    BY <1>2 DEF Tick, Reload, Commands, Execute, ProcessEnds, Calm
  <1>3. CASE UNCHANGED vars
    BY <1>3 DEF vars
  <1> QED
    BY <1>1, <1>2, <1>3 DEF Next

LEMMA LoopTypeStep == LoopTypeOK /\ [Next]_vars => LoopTypeOK'
  <1> SUFFICES ASSUME LoopTypeOK, [Next]_vars PROVE LoopTypeOK'
    OBVIOUS
  <1> USE Constants DEF hbVars, keyVars, loopVars, histVars, LoopTypeOK
  <1>1. CASE BootstrapDone \/ LoopEnds \/ TimerFires \/ Acknowledged \/ Failed
    BY <1>1 DEF BootstrapDone, LoopEnds, TimerFires, Acknowledged, Failed
  <1>2. CASE PutError \/ PutClear
    <2>1. Rearm \/ (pc' = "off" /\ left' = 0)
      BY <1>2 DEF PutError, PutClear
    <2>2. left' \in Nat /\ pc' \in {"off", "wait"}
      BY <2>1, RearmType
    <2> QED
      BY <1>2, <2>2 DEF PutError, PutClear
  <1>3. CASE PutSuccess \/ PutHealth
    BY <1>3 DEF PutSuccess, PutHealth, Put
  <1>4. CASE Tick
    <2>1. age' \in 0..AgeCap \cup {None} /\ ackAge' \in 0..AgeCap \cup {None}
      BY <1>4, OlderType DEF Tick
    <2>2. phase' \in 0..(Second - 1) /\ left' \in Nat
      BY <1>4 DEF Tick
    <2> QED
      BY <1>4, <2>1, <2>2 DEF Tick
  <1>5. CASE Reload \/ Commands \/ Execute \/ ProcessEnds
    BY <1>5 DEF Reload, Commands, Execute, ProcessEnds
  <1>6. CASE Calm
    BY <1>6 DEF Calm
  <1>7. CASE UNCHANGED vars
    BY <1>7 DEF vars
  <1> QED
    BY <1>1, <1>2, <1>3, <1>4, <1>5, <1>6, <1>7 DEF Next, Loop

LEMMA TypeStep == TypeOK /\ [Next]_vars => TypeOK'
  BY ServiceSteps, ServiceTypeStep, FlagsTypeStep, LoopTypeStep DEF TypeOK

LEMMA TypeInit == Init => TypeOK
  <1> SUFFICES ASSUME Init PROVE TypeOK
    OBVIOUS
  <1>1. ServiceTypeOK
    <2>1. todo \in Seq(Verbs)
      BY DEF Init, ServiceInit, Verbs
    <2>2. ctx = "none" <=> (scm \in {"absent", "stopped"})
      BY DEF Init, ServiceInit
    <2> QED
      BY <2>1, <2>2 DEF Init, ServiceInit, ServiceTypeOK, Verbs
  <1>2. LoopTypeOK
    BY Constants DEF Init, LoopTypeOK
  <1>3. FlagsTypeOK
    BY DEF Init, FlagsTypeOK
  <1> QED
    BY <1>1, <1>2, <1>3 DEF TypeOK

\* Type correctness of the heartbeat loop and of the service around it: no
\* duration or age leaves its range, and a context exists exactly as long as
\* the service control manager knows a process.
THEOREM TypeCorrect == Spec => []TypeOK
  BY TypeInit, TypeStep, PTL DEF Spec

-----------------------------------------------------------------------------
(***************************************************************************)
(* The inductive invariant.                                                *)
(***************************************************************************)

\* What a command that has not finished may still have to call.
Remaining == [install |-> {<<"create", "description">>, <<"description">>},
              uninstall |-> {<<"delete">>}, start |-> {<<"start">>},
              stop |-> {<<"stop">>},
              restart |-> {<<"stop", "start">>, <<"start">>}]

\* A command has a result only after its last call, which for start and
\* restart is the call that starts a process.
CommandInv ==
    /\ command = "none" => result = "none" /\ todo = <<>>
    /\ command # "none" /\ todo # <<>> =>
          result = "none" /\ todo \in Remaining[command]
    /\ RestartNotSilent

\* There is a goroutine only while the process runs.
ProcessInv == scm \in {"absent", "stopped", "startPending"} => pc = "off"

\* What the loop has stored of its cycle so far.
CycleInv ==
    /\ pc = "putError" => outcome = "failed" /\ ~dirty
    /\ pc = "putSuccess" => outcome = "ok" /\ ~dirty
    /\ pc \in {"putHealth", "putClear"} => outcome = "ok"
    /\ pc = "putClear" /\ ~dirty => health
    /\ StatusOfLastCycle

\* A stored success is at least as old as its acknowledgement.
AgeInv == age # None => ackAge # None /\ ackAge <= age

\* How old the stored success can be at each point of an undisturbed loop:
\* the truncated part of a second, then the wait, then the cycle.
FreshInv ==
    ~disturbed =>
        /\ pc \in {"wait", "work", "putSuccess", "putHealth", "putClear"}
        /\ age # None
        /\ Prompt =>
              /\ pc = "wait" => age + left <= Second - 1 + interval
              /\ pc = "work" => age + left <= Second - 1 + interval + MaxWork
              /\ pc = "putSuccess" => age <= Second - 1 + interval + MaxWork
              /\ pc \in {"putHealth", "putClear"} => age <= Second - 1

IInv ==
    /\ TypeOK /\ CommandInv /\ ProcessInv /\ CycleInv /\ AgeInv /\ FreshInv

-----------------------------------------------------------------------------
LEMMA ShortSequences ==
    ASSUME NEW a, NEW b
    PROVE  /\ <<a>> # <<>> /\ Len(<<a>>) = 1
           /\ Head(<<a>>) = a /\ Tail(<<a>>) = <<>>
           /\ <<a, b>> # <<>> /\ Len(<<a, b>>) = 2 /\ Tail(<<a, b>>) = <<b>>
  OBVIOUS

\* A call is the last one of its command, or the one after it remains.
LEMMA RemainingCalls ==
    ASSUME NEW c \in DOMAIN Calls, NEW s \in Remaining[c]
    PROVE  /\ s # <<>>
           /\ Len(s) # 1 => Tail(s) \in Remaining[c]
           /\ Len(s) = 1 => Tail(s) = <<>>
           /\ c \in {"start", "restart"} /\ Len(s) = 1 => Head(s) = "start"
  <1>1. c \in {"install", "uninstall", "start", "stop", "restart"}
    BY DEF Calls
  <1>2. /\ Remaining["install"] = {<<"create", "description">>, <<"description">>}
        /\ Remaining["uninstall"] = {<<"delete">>}
        /\ Remaining["start"] = {<<"start">>}
        /\ Remaining["stop"] = {<<"stop">>}
        /\ Remaining["restart"] = {<<"stop", "start">>, <<"start">>}
    BY DEF Remaining
  <1>3. CASE c \in {"uninstall", "start", "stop"}
    <2>1. PICK v : s = <<v>> /\ (c = "start" => v = "start")
      BY <1>2, <1>3
    <2> QED
      BY <1>3, <2>1, ShortSequences
  <1>4. CASE c \in {"install", "restart"}
    <2>1. PICK v, w :
            /\ s = <<v, w>> \/ s = <<w>>
            /\ <<w>> \in Remaining[c]
            /\ c = "restart" => w = "start"
      BY <1>2, <1>4
    <2>2. CASE s = <<v, w>>
      <3>1. s # <<>> /\ Len(s) # 1
        BY <2>2, ShortSequences
      <3>2. Tail(s) \in Remaining[c]
        BY <2>1, <2>2, ShortSequences
      <3> QED
        BY <3>1, <3>2
    <2>3. CASE s = <<w>>
      <3>1. s # <<>> /\ Len(s) = 1 /\ Head(s) = w /\ Tail(s) = <<>>
        BY <2>3, ShortSequences
      <3> QED
        BY <1>4, <2>1, <3>1
    <2> QED
      BY <2>1, <2>2, <2>3
  <1> QED
    BY <1>1, <1>3, <1>4

LEMMA CommandStep ==
    ServiceTypeOK /\ CommandInv /\ ServiceStep => CommandInv'
  <1> SUFFICES ASSUME ServiceTypeOK, CommandInv, ServiceStep PROVE CommandInv'
    OBVIOUS
  <1> USE DEF CommandInv, RestartNotSilent, scVars, cliVars, serviceVars
  <1>1. CASE Invoke
    <2>1. PICK c \in DOMAIN Calls : command' = c /\ todo' = Calls[c]
      BY <1>1 DEF Invoke
    <2>2. c # "none" /\ Calls[c] \in Remaining[c]
      BY DEF Calls, Remaining
    <2>3. result' = "none"
      BY <1>1 DEF Invoke
    <2> QED
      BY <2>1, <2>2, <2>3
  <1>2. CASE Exit
    <2>1. todo = <<>>
      BY <1>2 DEF Exit
    <2> QED
      BY <1>2, <2>1 DEF Exit
  <1>3. CASE CallSucceeds
    <2>1. command \in DOMAIN Calls /\ todo \in Remaining[command]
      BY <1>3 DEF CallSucceeds, ServiceTypeOK
    <2>2. command # "none" /\ result = "none" /\ command' = command
      BY <1>3 DEF CallSucceeds
    <2>3. CASE Len(todo) = 1
      <3>1. todo' = <<>> /\ result' = "ok"
        BY <1>3, <2>1, <2>3, RemainingCalls DEF CallSucceeds
      <3>2. command \in {"start", "restart"} => started'
        BY <1>3, <2>1, <2>3, RemainingCalls DEF CallSucceeds, Effect
      <3> QED
        BY <2>2, <3>1, <3>2
    <2>4. CASE Len(todo) # 1
      <3>1. todo' \in Remaining[command] /\ result' = "none"
        BY <1>3, <2>1, <2>2, <2>4, RemainingCalls DEF CallSucceeds
      <3> QED
        BY <2>2, <3>1
    <2> QED
      BY <2>3, <2>4
  <1>4. CASE CallFails
    BY <1>4 DEF CallFails
  <1>5. CASE \/ Boot \/ Shutdown \/ Dispatch \/ HandleStop \/ ExecuteReturns
             \/ Killed \/ UNCHANGED serviceVars
    <2>1. UNCHANGED cliVars
      BY <1>5 DEF Boot, Shutdown, Dispatch, HandleStop, ExecuteReturns, Killed,
                  Gone
    <2> QED
      BY <2>1
  <1> QED
    BY <1>1, <1>2, <1>3, <1>4, <1>5 DEF ServiceStep

\* The process is there before and after every step of the loop.
LEMMA ProcessStep ==
    TypeOK /\ ProcessInv /\ [Next]_vars => ProcessInv'
  <1> SUFFICES ASSUME TypeOK, ProcessInv, [Next]_vars PROVE ProcessInv'
    OBVIOUS
  <1> USE DEF ProcessInv, scVars, serviceVars, hbVars, loopVars
  <1>1. CASE Loop
    <2>1. pc # "off" /\ scm' = scm
      BY <1>1 DEF Loop, BootstrapDone, LoopEnds, TimerFires, Acknowledged,
           Failed, PutError, PutSuccess, PutHealth, PutClear
    <2> QED
      BY <2>1
  <1>2. CASE Tick \/ Reload \/ Calm
    BY <1>2 DEF Tick, Reload, Calm
  <1>3. CASE Commands
    <2>1. pc' = pc
      BY <1>3 DEF Commands
    <2>2. CASE Invoke \/ Exit \/ CallFails \/ Shutdown \/ Boot
      BY <2>1, <2>2 DEF Invoke, Exit, CallFails, Shutdown, Boot
    <2>3. CASE CallSucceeds
      <3>1. \/ scm \in {"absent", "stopped"}
            \/ scm' = scm
        <4>1. Head(todo) \in Verbs
          BY <2>3 DEF CallSucceeds, TypeOK, ServiceTypeOK, Verbs
        <4> QED
          BY <2>3, <4>1 DEF CallSucceeds, Effect, Grants, Verbs
      <3> QED
        BY <2>1, <3>1
    <2> QED
      BY <1>3, <2>2, <2>3 DEF Commands
  <1>4. CASE Execute
    BY <1>4 DEF Execute, Dispatch, HandleStop
  <1>5. CASE ProcessEnds
    BY <1>5 DEF ProcessEnds
  <1>6. CASE UNCHANGED vars
    BY <1>6 DEF vars
  <1> QED
    BY <1>1, <1>2, <1>3, <1>4, <1>5, <1>6 DEF Next

\* The Puts of a cycle follow its outcome.
LEMMA CycleStep == TypeOK /\ CycleInv /\ [Next]_vars => CycleInv'
  <1> SUFFICES ASSUME TypeOK, CycleInv, [Next]_vars PROVE CycleInv'
    OBVIOUS
  <1> USE DEF CycleInv, StatusOfLastCycle, keyVars, loopVars, histVars
  <1>1. CASE BootstrapDone \/ LoopEnds \/ TimerFires \/ Acknowledged \/ Failed
    BY <1>1 DEF BootstrapDone, LoopEnds, TimerFires, Acknowledged, Failed
  <1>2. CASE PutError
    <2>1. pc' \in {"off", "wait"} /\ outcome' = "failed"
      BY <1>2 DEF PutError, Rearm
    <2>2. error' \/ dirty'
      BY <1>2 DEF PutError, Put
    <2> QED
      BY <2>1, <2>2
  <1>3. CASE PutSuccess
    BY <1>3 DEF PutSuccess
  <1>4. CASE PutHealth
    <2>1. pc' = "putClear" /\ outcome' = "ok"
      BY <1>4 DEF PutHealth
    <2>2. health' \/ dirty'
      BY <1>4 DEF PutHealth, Put
    <2> QED
      BY <2>1, <2>2
  <1>5. CASE PutClear
    <2>1. pc' = "wait" /\ outcome' = "ok" /\ health' = health
      BY <1>5 DEF PutClear, Rearm
    <2>2. dirty' \/ (~error' /\ dirty' = dirty)
      BY <1>5 DEF PutClear, Put
    <2>3. ~dirty' => ~error' /\ health'
      BY <1>5, <2>1, <2>2 DEF PutClear
    <2> QED
      BY <2>1, <2>3
  <1>6. ASSUME UNCHANGED <<pc, outcome, dirty, error, health>> PROVE CycleInv'
    BY <1>6
  <1>7. CASE Tick \/ Reload \/ Calm \/ Commands
    BY <1>6, <1>7 DEF Tick, Reload, Calm, Commands, hbVars
  <1>8. CASE Execute
    BY <1>6, <1>8 DEF Execute, hbVars
  <1>9. CASE ProcessEnds
    BY <1>9 DEF ProcessEnds
  <1>10. CASE UNCHANGED vars
    BY <1>6, <1>10 DEF vars, hbVars
  <1> QED
    BY <1>1, <1>2, <1>3, <1>4, <1>5, <1>7, <1>8, <1>9, <1>10 DEF Next, Loop

LEMMA OlderMonotonic ==
    ASSUME NEW a \in 0..AgeCap, NEW b \in 0..AgeCap, a <= b
    PROVE  /\ Older(a) \in 0..AgeCap /\ Older(b) \in 0..AgeCap
           /\ Older(a) <= Older(b) /\ Older(b) <= b + 1
  BY Constants DEF Older

\* Stored success and acknowledgement grow old together.
LEMMA AgeStep == TypeOK /\ CycleInv /\ AgeInv /\ [Next]_vars => AgeInv'
  <1> SUFFICES ASSUME TypeOK, CycleInv, AgeInv, [Next]_vars PROVE AgeInv'
    OBVIOUS
  <1> USE DEF AgeInv
  <1>1. /\ age \in 0..AgeCap \cup {None} /\ ackAge \in 0..AgeCap \cup {None}
        /\ phase \in Nat
    BY Constants DEF TypeOK, LoopTypeOK
  <1>2. CASE PutSuccess
    <2>1. outcome = "ok" /\ ~dirty
      BY <1>2 DEF PutSuccess, CycleInv
    <2>2. CASE age' = phase /\ dirty' = dirty
      <3>1. ackAge' = 0
        BY <1>2, <2>1, <2>2 DEF PutSuccess
      <3> QED
        BY <1>1, <2>2, <3>1, Constants
    <2>3. CASE age' = age /\ dirty' = TRUE
      <3>1. ackAge' = ackAge
        BY <1>2, <2>3 DEF PutSuccess
      <3> QED
        BY <2>3, <3>1
    <2> QED
      BY <1>2, <2>2, <2>3 DEF PutSuccess, Put
  <1>3. CASE Tick
    <2>1. age' = Older(age) /\ ackAge' = Older(ackAge)
      BY <1>3 DEF Tick
    <2>2. CASE age = None
      BY <2>1, <2>2 DEF Older
    <2>3. CASE age # None
      <3>1. age \in 0..AgeCap /\ ackAge \in 0..AgeCap /\ ackAge <= age
        BY <1>1, <2>3
      <3> QED
        BY <2>1, <3>1, OlderMonotonic, Constants
    <2> QED
      BY <2>2, <2>3
  <1>4. CASE UNCHANGED <<age, ackAge>>
    BY <1>4
  <1>5. PutSuccess \/ Tick \/ UNCHANGED <<age, ackAge>>
    BY DEF Next, vars, hbVars, keyVars, histVars, Loop, BootstrapDone, LoopEnds,
           TimerFires, Acknowledged, Failed, PutError, PutHealth, PutClear,
           Reload, Commands, Execute, ProcessEnds, Calm
  <1> QED
    BY <1>2, <1>3, <1>4, <1>5

\* An undisturbed loop keeps its success fresh.
LEMMA FreshStep ==
    TypeOK /\ ProcessInv /\ FreshInv /\ [Next]_vars => FreshInv'
  <1> SUFFICES ASSUME TypeOK, ProcessInv, FreshInv, [Next]_vars, ~disturbed'
               PROVE  FreshInv'
    BY DEF FreshInv
  <1> USE DEF FreshInv, Prompt, interval
  <1>1. /\ age \in 0..AgeCap \cup {None} /\ left \in Nat
        /\ phase \in 0..(Second - 1)
        /\ ConfiguredInterval(config) \in Int
        /\ Second \in Nat \ {0} /\ MaxWork \in Nat /\ None \notin Int
    BY Constants, IntervalType DEF TypeOK, LoopTypeOK
  <1>2. CASE Loop
    <2>1. config' = config
      BY <1>2 DEF Loop, BootstrapDone, LoopEnds, TimerFires, Acknowledged,
           Failed, PutError, PutSuccess, PutHealth, PutClear, keyVars
    <2>2. CASE BootstrapDone \/ LoopEnds \/ Failed \/ PutError
      <3>1. disturbed'
        BY <2>2 DEF BootstrapDone, LoopEnds, Failed, PutError, histVars
      <3> QED
        BY <3>1
    <2>3. CASE TimerFires
      <3>1. /\ pc = "wait" /\ left = 0 /\ pc' = "work" /\ left' = MaxWork
            /\ age' = age /\ ~disturbed
        BY <2>3 DEF TimerFires, keyVars, histVars
      <3> QED
        BY <1>1, <2>1, <3>1
    <2>4. CASE Acknowledged
      <3>1. pc = "work" /\ pc' = "putSuccess" /\ age' = age /\ ~disturbed
        BY <2>4 DEF Acknowledged
      <3> QED
        BY <1>1, <2>1, <3>1
    <2>5. CASE PutSuccess
      <3>1. ~dirty' /\ pc' = "putHealth"
        BY <2>5 DEF PutSuccess
      <3>2. age' = phase
        BY <2>5, <3>1 DEF PutSuccess, Put
      <3> QED
        BY <1>1, <2>1, <3>1, <3>2
    <2>6. CASE PutHealth
      <3>1. /\ pc = "putHealth" /\ pc' = "putClear" /\ age' = age /\ ~disturbed
        BY <2>6 DEF PutHealth
      <3> QED
        BY <1>1, <2>1, <3>1
    <2>7. CASE PutClear
      <3>1. /\ pc = "putClear" /\ pc' = "wait" /\ age' = age /\ ~disturbed
            /\ ConfiguredInterval(config) >= 0 =>
                  left' = ConfiguredInterval(config)
        BY <1>1, <2>7 DEF PutClear, Rearm
      <3> QED
        BY <1>1, <2>1, <3>1
    <2> QED
      BY <1>2, <2>2, <2>3, <2>4, <2>5, <2>6, <2>7 DEF Loop
  <1>3. CASE Tick
    <2>1. /\ pc' = pc /\ config' = config /\ age' = Older(age) /\ ~disturbed
          /\ pc \in {"wait", "work"} => left > 0 /\ left' = left - 1
      <3>1. ~disturbed /\ (pc = "work" => left # 0)
        BY <1>3 DEF Tick
      <3>2. pc' = pc /\ config' = config /\ age' = Older(age)
        BY <1>3 DEF Tick
      <3>3. /\ pc = "wait" => left > 0
            /\ left' = IF left > 0 THEN left - 1 ELSE 0
        BY <1>3 DEF Tick
      <3> QED
        BY <1>1, <3>1, <3>2, <3>3
    <2>2. pc \in {"wait", "work"}
      BY <1>3, <2>1 DEF Tick
    <2>3. age \in 0..AgeCap /\ age' \in 0..AgeCap /\ age' <= age + 1
      BY <1>1, <2>1, OlderMonotonic
    <2> QED
      BY <1>1, <2>1, <2>2, <2>3
  <1>4. CASE UNCHANGED <<pc, left, age, config, disturbed>>
    BY <1>4
  <1>5. CASE Reload \/ ProcessEnds
    BY <1>5 DEF Reload, ProcessEnds
  <1>6. CASE Commands
    BY <1>4, <1>6 DEF Commands, hbVars, keyVars, loopVars, histVars
  <1>7. CASE Execute
    <2>1. CASE Dispatch /\ UNCHANGED histVars
      <3>1. pc = "off" /\ ~disturbed
        BY <2>1 DEF Dispatch, ProcessInv, histVars
      <3> QED
        BY <3>1
    <2> QED
      BY <1>4, <1>7, <2>1 DEF Execute, hbVars, keyVars, loopVars, histVars
  <1>8. CASE Calm
    <2>1. pc # "work"
      BY <1>8 DEF Calm
    <2> QED
      BY <1>4, <1>8, <2>1 DEF Calm, keyVars
  <1>9. CASE UNCHANGED vars
    BY <1>4, <1>9 DEF vars, hbVars, keyVars, loopVars, histVars
  <1> QED
    BY <1>2, <1>3, <1>5, <1>6, <1>7, <1>8, <1>9 DEF Next

-----------------------------------------------------------------------------
\* The inductive invariant always holds.
THEOREM Invariance == Spec => []IInv
  <1>1. Init => IInv
    <2> SUFFICES ASSUME Init PROVE IInv
      OBVIOUS
    <2>1. CommandInv
      BY DEF Init, ServiceInit, CommandInv, RestartNotSilent
    <2>2. ProcessInv /\ CycleInv /\ AgeInv /\ FreshInv
      BY DEF Init, ProcessInv, CycleInv, StatusOfLastCycle, AgeInv, FreshInv
    <2> QED
      BY <2>1, <2>2, TypeInit DEF IInv
  <1>2. IInv /\ [Next]_vars => IInv'
    BY TypeStep, ServiceSteps, CommandStep, ProcessStep, CycleStep, AgeStep,
       FreshStep DEF IInv, TypeOK
  <1> QED
    BY <1>1, <1>2, PTL DEF Spec

\* A start or restart that reports success has started a process, whatever
\* the service control manager refuses and whenever the process dies.
THEOREM NoSilentRestart == Spec => []RestartNotSilent
  <1>1. IInv => RestartNotSilent
    BY DEF IInv, CommandInv
  <1> QED
    BY <1>1, Invariance, PTL

\* Between cycles the stored error and health are those of the last cycle,
\* unless one of its Puts failed.
THEOREM StatusTellsLastCycle == Spec => []StatusOfLastCycle
  <1>1. IInv => StatusOfLastCycle
    BY DEF IInv, CycleInv
  <1> QED
    BY <1>1, Invariance, PTL

-----------------------------------------------------------------------------
(***************************************************************************)
(* What the status command says of the heartbeat's age.                    *)
(***************************************************************************)

\* Twice a configured interval does not overflow downwards.  An interval that
\* does is far below zero, which only an overflow of the Portal's number of
\* seconds gives; it wraps to a positive time.
NoUnderflow == \A c \in Configs : 2 * ConfiguredInterval(c) >= -Int64

\* Twice a configured interval that cycles are prompt for does not overflow.
NoOverflow ==
    \A c \in Configs :
        MaxWork + Second - 1 <= ConfiguredInterval(c) =>
            2 * ConfiguredInterval(c) < Int64

\* status says ONLINE only if the Portal acknowledged a heartbeat in the last
\* two intervals.
THEOREM OnlineIsAlive == ASSUME NoUnderflow PROVE Spec => []OnlineMeansAlive
  <1>1. ASSUME IInv, heartbeatState = "ONLINE"
        PROVE  ackAge # None /\ ackAge <= 2 * ConfiguredInterval(config)
    <2>1. /\ config \in Configs /\ ConfiguredInterval(config) \in Int
          /\ age \in 0..AgeCap \cup {None} /\ ackAge \in 0..AgeCap \cup {None}
          /\ None \notin Int /\ AgeCap \in Nat
      BY <1>1, Constants, IntervalType DEF IInv, TypeOK, LoopTypeOK
    <2>2. age # None /\ ~(age > Wrap(2 * ConfiguredInterval(config)))
      BY <1>1 DEF heartbeatState, storedHeartbeatStatus
    <2>3. ackAge # None /\ ackAge <= age
      BY <1>1, <2>2 DEF IInv, AgeInv
    <2>4. /\ Wrap(2 * ConfiguredInterval(config)) \in Int
          /\ Wrap(2 * ConfiguredInterval(config)) <= 2 * ConfiguredInterval(config)
      BY <2>1, WrapFacts, HeartbeatAssumption DEF NoUnderflow
    <2> QED
      BY <2>1, <2>2, <2>3, <2>4
  <1>2. IInv => OnlineMeansAlive
    BY <1>1 DEF OnlineMeansAlive
  <1> QED
    BY <1>2, Invariance, PTL

\* status does not say OFFLINE while every cycle succeeds and is prompt.
THEOREM OfflineIsTrue == ASSUME NoOverflow PROVE Spec => []NoFalseOffline
  <1>1. ASSUME IInv, ~disturbed, Prompt PROVE heartbeatState # "OFFLINE"
    <2>1. /\ config \in Configs /\ ConfiguredInterval(config) \in Int
          /\ age \in 0..AgeCap \cup {None} /\ left \in Nat
          /\ MaxWork \in Nat /\ Second \in Nat \ {0}
          /\ Int64 \in Nat \ {0} /\ None \notin Int
      BY <1>1, Constants, IntervalType, HeartbeatAssumption
         DEF IInv, TypeOK, LoopTypeOK
    <2>2. /\ age \in Nat
          /\ MaxWork + Second - 1 <= ConfiguredInterval(config)
          /\ age <= Second - 1 + ConfiguredInterval(config) + MaxWork
      BY <1>1, <2>1 DEF IInv, FreshInv, Prompt, interval
    <2>3. 2 * ConfiguredInterval(config) \in -Int64 .. Int64 - 1
      BY <2>1, <2>2 DEF NoOverflow
    <2>4. Wrap(2 * ConfiguredInterval(config)) = 2 * ConfiguredInterval(config)
      BY <2>3, WrapFacts
    <2>5. ~(age > Wrap(2 * ConfiguredInterval(config)))
      BY <2>1, <2>2, <2>4
    <2> QED
      BY <2>5 DEF heartbeatState, storedHeartbeatStatus
  <1>2. IInv => NoFalseOffline
    BY <1>1 DEF NoFalseOffline
  <1> QED
    BY <1>2, Invariance, PTL
=============================================================================
