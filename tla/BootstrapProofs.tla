--------------------------- MODULE BootstrapProofs ---------------------------
(***************************************************************************)
(* Theorems about Bootstrap, for any number of processes, retries and      *)
(* Portal revisions.  Type correctness holds whatever processes run; the   *)
(* registration guarantees need SerialRegistrations, because nothing keeps *)
(* two processes from both finding that there is no agent UUID.            *)
(***************************************************************************)
EXTENDS Bootstrap, TLAPS

Registrar(p) == "register" \in May[p]

\* A process has found no agent UUID and is about to store one.
Registering(p) ==
    pc[p] = "post" \/ (pc[p] = "save" /\ resp[p]["agent_uuid"] # 0)

\* No two processes register at the same time: each may, one after another,
\* and reload the configuration at any time.
SerialRegistrations ==
    \A p, q \in Procs : Registering(p) /\ Registering(q) => p = q

\* At most one process registers; any number may reload the configuration.
OneRegistrar ==
    \A p, q \in Procs : Registrar(p) /\ Registrar(q) => p = q

-----------------------------------------------------------------------------
(***************************************************************************)
(* Type correctness.                                                       *)
(***************************************************************************)

\* Where the keys that the properties speak of are written.
LEMMA ScriptFacts ==
    /\ "agent_uuid" \in Keys /\ "agent_token" \in Keys
    /\ "registration_time" \in Keys /\ "last_configuration_sync" \in Keys
    /\ \A i \in 1..8 :
          /\ Script[i] \in Keys
          /\ Script[i] = "agent_uuid" <=> i = 1
          /\ Script[i] = "agent_token" <=> i \in {2, 4}
          /\ Script[i] = "registration_time" <=> i = 3
          /\ Script[i] = "last_configuration_sync" <=> i = 8
  BY DEF Keys, Script

LEMMA ReplyType ==
    ASSUME rev \in Nat, NEW n \in Nat, NEW tok \in Nat, NEW omitted
    PROVE  Reply(n, tok, omitted) \in [Keys -> Nat]
  BY DEF Reply

LEMMA ForgetType ==
    ASSUME TypeOK, NEW p \in Procs, Forget(p)
    PROVE  /\ step' \in [Procs -> 1..8]
           /\ resp' \in [Procs -> [Keys -> Nat]]
           /\ attempt' \in [Procs -> 0..Retries]
  BY BootstrapAssumption DEF TypeOK, Forget, NoReply

\* One step preserves the types.
LEMMA TypeStep == TypeOK /\ [Next]_vars => TypeOK'
  <1> SUFFICES ASSUME TypeOK, [Next]_vars PROVE TypeOK'
    OBVIOUS
  <1> USE BootstrapAssumption DEF portal, local
  <1>1. ASSUME NEW p \in Procs, Start(p) PROVE TypeOK'
    BY <1>1 DEF Start, Goto, TypeOK
  <1>2. ASSUME NEW p \in Procs, Succeed(p) \/ Fail(p)
        PROVE  /\ pc' \in [Procs -> {"down", "check", "post", "save", "clear",
                              "write", "wait", "running", "reload", "fetch"}]
               /\ step' \in [Procs -> 1..8]
               /\ resp' \in [Procs -> [Keys -> Nat]]
               /\ attempt' \in [Procs -> 0..Retries]
    BY <1>2, ForgetType DEF Succeed, Fail, Goto, TypeOK
  <1>3. ASSUME NEW p \in Procs, EnsureRegistered(p) PROVE TypeOK'
    <2>1. UNCHANGED <<db, sealedBy, file, key, url, delay, issued, rev, bare, env>>
      BY <1>3 DEF EnsureRegistered
    <2>2. CASE Succeed(p) \/ Fail(p)
      BY <1>2, <2>1, <2>2 DEF TypeOK
    <2>3. CASE Goto(p, "post") /\ UNCHANGED <<step, resp, attempt>>
      BY <2>1, <2>3 DEF TypeOK, Goto
    <2> QED
      BY <1>3, <2>2, <2>3 DEF EnsureRegistered
  <1>4. ASSUME NEW p \in Procs, Registered(p) PROVE TypeOK'
    <2>1. issued' \in 0..(MaxIssued + 1)
      BY <1>4 DEF Registered, Issue, TypeOK
    <2>2. PICK omitted \in SUBSET Optional :
              /\ resp' = [resp EXCEPT ![p] = Reply(issued', issued', omitted)]
              /\ bare' = rev \/ bare' = bare
      BY <1>4 DEF Registered
    <2>3. resp' \in [Procs -> [Keys -> Nat]]
      BY <2>1, <2>2, ReplyType DEF TypeOK
    <2>4. bare' \in 0..MaxRev
      BY <2>2 DEF TypeOK
    <2> QED
      BY <1>4, <2>1, <2>3, <2>4 DEF Registered, Goto, TypeOK
  <1>5. ASSUME NEW p \in Procs, NoResponse(p) PROVE TypeOK'
    <2>1. /\ UNCHANGED <<db, sealedBy, file, key, url, delay, rev, bare, env>>
          /\ issued' \in 0..(MaxIssued + 1)
      BY <1>5 DEF NoResponse, Issue, TypeOK
    <2>2. CASE attempt[p] < Retries
      BY <1>5, <2>1, <2>2 DEF NoResponse, TypeOK
    <2>3. CASE Fail(p)
      BY <1>2, <2>1, <2>3 DEF TypeOK
    <2> QED
      BY <1>5, <2>2, <2>3 DEF NoResponse
  <1>6. ASSUME NEW p \in Procs, BadResponse(p) \/ SaveFails(p) PROVE TypeOK'
    <2>1. /\ UNCHANGED <<db, sealedBy, file, key, url, delay, issued, rev, bare, env>>
          /\ Fail(p)
      BY <1>6 DEF BadResponse, SaveFails
    <2> QED
      BY <1>2, <2>1 DEF TypeOK
  <1>7. ASSUME NEW p \in Procs, Save(p) PROVE TypeOK'
    <2>1. UNCHANGED <<file, key, url, delay, issued, rev, bare, env>>
      BY <1>7 DEF Save
    <2>2. db' \in [Keys -> Nat] /\ sealedBy' \in Accounts \cup {None}
      <3>1. step[p] \in 1..8 /\ resp[p] \in [Keys -> Nat]
        BY DEF TypeOK
      <3>2. Script[step[p]] \in Keys
        BY <3>1, ScriptFacts
      <3> QED
        BY <1>7, <3>1, <3>2 DEF Save, TypeOK
    <2>3. CASE step[p] < 8 /\ UNCHANGED <<pc, resp, attempt>>
                 /\ step' = [step EXCEPT ![p] = @ + 1]
      BY <2>1, <2>2, <2>3 DEF TypeOK
    <2>4. CASE Succeed(p)
      BY <1>2, <2>1, <2>2, <2>4 DEF TypeOK
    <2>5. CASE Goto(p, "clear") /\ Forget(p)
      BY <2>1, <2>2, <2>5, ForgetType DEF TypeOK, Goto
    <2> QED
      BY <1>7, <2>3, <2>4, <2>5 DEF Save
  <1>8. ASSUME NEW p \in Procs, ClearKey(p) PROVE TypeOK'
    <2>1. /\ UNCHANGED <<db, sealedBy, url, delay, issued, rev, bare, env>>
          /\ file' \in {"absent", "nokey", "key", "torn"}
          /\ key' \in [Procs -> BOOLEAN]
      BY <1>8 DEF ClearKey, TypeOK
    <2>2. CASE Succeed(p)
      BY <1>2, <2>1, <2>2 DEF TypeOK
    <2>3. CASE Goto(p, "write") /\ UNCHANGED <<step, resp, attempt>>
      BY <2>1, <2>3 DEF TypeOK, Goto
    <2> QED
      BY <1>8, <2>2, <2>3 DEF ClearKey
  <1>9. ASSUME NEW p \in Procs, WriteFile(p) PROVE TypeOK'
    BY <1>2, <1>9 DEF WriteFile, TypeOK
  <1>10. ASSUME NEW p \in Procs, Backoff(p) PROVE TypeOK'
    BY <1>10 DEF Backoff, Goto, TypeOK
  <1>11. ASSUME NEW p \in Procs, ReloadConfig(p) PROVE TypeOK'
    <2>1. UNCHANGED <<db, sealedBy, file, key, url, delay, issued, rev, bare, env>>
      BY <1>11 DEF ReloadConfig
    <2>2. CASE Fail(p)
      BY <1>2, <2>1, <2>2 DEF TypeOK
    <2>3. CASE /\ resp' = [resp EXCEPT ![p]["agent_token"] = db["agent_token"]]
               /\ Goto(p, "fetch") /\ UNCHANGED <<step, attempt>>
      BY <2>1, <2>3, ScriptFacts DEF TypeOK, Goto
    <2> QED
      BY <1>11, <2>2, <2>3 DEF ReloadConfig
  <1>12. ASSUME NEW p \in Procs, Fetched(p) PROVE TypeOK'
    <2>1. resp' \in [Procs -> [Keys -> Nat]]
      <3>1. resp[p]["agent_token"] \in Nat /\ rev \in Nat
        BY ScriptFacts DEF TypeOK
      <3> QED
        BY <1>12, <3>1, ReplyType DEF Fetched, TypeOK
    <2> QED
      BY <1>12, <2>1 DEF Fetched, ConfigurationStep, Goto, TypeOK
  <1>13. ASSUME NEW p \in Procs, Exit(p) PROVE TypeOK'
    BY <1>13, ForgetType DEF Exit, Goto, TypeOK
  <1>14. ASSUME Configure \/ Revise \/ Calm \/ UNCHANGED vars PROVE TypeOK'
    BY <1>14 DEF Configure, Revise, Calm, Faulty, vars, TypeOK
  <1> QED
    BY <1>1, <1>3, <1>4, <1>5, <1>6, <1>7, <1>8, <1>9, <1>10, <1>11, <1>12,
       <1>13, <1>14 DEF Next, Step

\* Type correctness of bootstrap, with any number of processes.
THEOREM TypeCorrect == Spec => []TypeOK
  <1>1. Init => TypeOK
    BY BootstrapAssumption DEF Init, TypeOK, NoReply
  <1> QED
    BY <1>1, TypeStep, PTL DEF Spec

-----------------------------------------------------------------------------
(***************************************************************************)
(* The inductive invariant of registrations that do not overlap.           *)
(***************************************************************************)

uuid == db["agent_uuid"]
token == db["agent_token"]

\* The whole registration is in the database.
Complete ==
    /\ uuid # 0 /\ token = uuid
    /\ db["registration_time"] # 0 /\ db["last_configuration_sync"] # 0

\* Only a process that may register is in the steps of a registration.
Roles ==
    \A p \in Procs :
        \/ Registrar(p)
        \/ pc[p] \in {"down", "reload", "fetch"}
        \/ pc[p] = "save" /\ resp[p]["agent_uuid"] = 0

\* A registration was requested for an agent that still has no UUID.
PostInv(p) == pc[p] = "post" => uuid = 0

\* A registration reply is stored up to the current step.
SaveInv(p) ==
    pc[p] = "save" /\ resp[p]["agent_uuid"] # 0 =>
        /\ resp[p]["agent_token"] = resp[p]["agent_uuid"]
        /\ resp[p]["registration_time"] # 0
        /\ resp[p]["last_configuration_sync"] # 0
        /\ uuid = IF step[p] = 1 THEN 0 ELSE resp[p]["agent_uuid"]
        /\ step[p] > 2 => token = uuid
        /\ step[p] > 3 => db["registration_time"] # 0

\* A reload uses and returns a token of the registered agent, and never
\* reaches the steps that write the registration.
ReloadInv(p) ==
    /\ pc[p] = "fetch" => uuid # 0 /\ resp[p]["agent_token"] = uuid
    /\ pc[p] = "save" /\ resp[p]["agent_uuid"] = 0 =>
          /\ uuid # 0 /\ step[p] >= ConfigurationStep
          /\ resp[p]["agent_token"] \in {0, uuid}

ClearInv(p) == pc[p] \in {"clear", "write"} => Complete

ProcInv(p) == PostInv(p) /\ SaveInv(p) /\ ReloadInv(p) /\ ClearInv(p)

IInv == TypeOK /\ CredentialsMatch /\ Roles /\ \A p \in Procs : ProcInv(p)

-----------------------------------------------------------------------------
\* What every step does to the table except the one that stores the UUID.
Grows ==
    /\ uuid' = uuid
    /\ token' = token \/ token' = uuid
    /\ db["registration_time"] # 0 => db'["registration_time"] # 0
    /\ db["last_configuration_sync"] # 0 => db'["last_configuration_sync"] # 0

Same(q) == pc'[q] = pc[q] /\ step'[q] = step[q] /\ resp'[q] = resp[q]

\* A process is not disturbed by what another one stores.
LEMMA Frame ==
    ASSUME NEW q \in Procs, ProcInv(q), Grows, Same(q)
    PROVE  ProcInv(q)'
  <1> USE DEF Grows, Same, uuid, token
  <1>1. PostInv(q)' /\ ReloadInv(q)'
    BY DEF ProcInv, PostInv, ReloadInv
  <1>2. SaveInv(q)'
    BY DEF ProcInv, SaveInv
  <1>3. ClearInv(q)'
    BY DEF ProcInv, ClearInv, Complete
  <1> QED
    BY <1>1, <1>2, <1>3 DEF ProcInv

\* A process that is between operations has nothing to keep.
Between == {"down", "check", "wait", "running", "reload"}

LEMMA IdleInv ==
    ASSUME NEW p \in Procs, pc'[p] \in Between PROVE ProcInv(p)'
  BY DEF Between, ProcInv, PostInv, SaveInv, ReloadInv, ClearInv

\* A step of p that leaves the table alone, given what it does to p.
LEMMA QuietStep ==
    ASSUME IInv, TypeOK', db' = db, NEW p \in Procs,
           \A q \in Procs \ {p} : Same(q),
           ProcInv(p)',
           \/ Registrar(p)
           \/ pc'[p] \in {"down", "reload", "fetch"}
           \/ pc'[p] = "save" /\ resp'[p]["agent_uuid"] = 0
    PROVE  IInv'
  <1>1. Grows
    BY DEF Grows, uuid, token
  <1>2. \A q \in Procs : ProcInv(q)'
    BY <1>1, Frame DEF IInv
  <1>3. CredentialsMatch'
    BY DEF IInv, CredentialsMatch
  <1>4. Roles'
    BY DEF IInv, Roles, Same
  <1> QED
    BY <1>2, <1>3, <1>4 DEF IInv

\* A step of p after which p is between operations.
LEMMA ReturnStep ==
    ASSUME IInv, TypeOK', db' = db, NEW p \in Procs,
           \A q \in Procs \ {p} : Same(q),
           \/ pc'[p] \in {"down", "reload"}
           \/ pc'[p] \in Between /\ Registrar(p)
    PROVE  IInv'
  BY IdleInv, QuietStep DEF Between

\* Succeed and Fail leave p between operations.
LEMMA EndsBetween ==
    ASSUME TypeOK, NEW p \in Procs, Succeed(p) \/ Fail(p)
    PROVE  /\ \A q \in Procs \ {p} : Same(q)
           /\ \/ pc'[p] \in {"down", "reload"}
              \/ pc'[p] \in Between /\ Registrar(p)
  <1>1. p = Service => Registrar(p)
    BY BootstrapAssumption DEF Registrar
  <1> QED
    BY <1>1 DEF Succeed, Fail, Goto, Forget, Same, Between, TypeOK

\* The reply of a registration has every field that must be there.
LEMMA ReplyFields ==
    ASSUME NEW n, NEW tok, NEW omitted \in SUBSET Optional
    PROVE  LET r == Reply(n, tok, omitted) IN
             /\ r["agent_uuid"] = n /\ r["agent_token"] = tok
             /\ r["registration_time"] = n
             /\ r["last_configuration_sync"] = rev
  BY ScriptFacts DEF Reply, Optional

\* What a Put does to p: it goes on to the next key, ends, or clears the key.
LEMMA SaveMoves ==
    ASSUME TypeOK, NEW p \in Procs, Save(p)
    PROVE  /\ pc[p] = "save"
           /\ \A q \in Procs \ {p} : Same(q)
           /\ \/ /\ step[p] < 8 /\ step'[p] = step[p] + 1
                 /\ pc'[p] = "save" /\ resp'[p] = resp[p]
              \/ /\ step[p] = 8 /\ resp[p]["agent_uuid"] = 0
                 /\ \/ pc'[p] \in {"down", "reload"}
                    \/ pc'[p] \in Between /\ Registrar(p)
              \/ /\ step[p] = 8 /\ resp[p]["agent_uuid"] # 0
                 /\ pc'[p] = "clear"
  <1>1. CASE Succeed(p) /\ step[p] = 8 /\ resp[p]["agent_uuid"] = 0
    BY <1>1, EndsBetween DEF Save
  <1>2. CASE /\ step[p] = 8 /\ resp[p]["agent_uuid"] # 0
             /\ Goto(p, "clear") /\ Forget(p)
    BY <1>2 DEF Save, Goto, Forget, Same, TypeOK
  <1>3. CASE /\ step[p] < 8 /\ step' = [step EXCEPT ![p] = @ + 1]
             /\ UNCHANGED <<pc, resp, attempt>>
    BY <1>3 DEF Save, Same, TypeOK
  <1> QED
    BY <1>1, <1>2, <1>3 DEF Save

\* What a Put does to the table.
LEMMA SaveWrites ==
    ASSUME TypeOK, NEW p \in Procs, Save(p)
    PROVE  \A k \in Keys : db'[k] = IF k = Script[step[p]] /\ resp[p][k] # 0
                                      THEN resp[p][k] ELSE db[k]
  <1>1. step[p] \in 1..8 /\ Script[step[p]] \in Keys
    BY ScriptFacts DEF TypeOK
  <1> QED
    BY <1>1 DEF Save, TypeOK

\* The Put that stores the UUID: nobody else has the agent's registration.
LEMMA SaveUuid ==
    ASSUME SerialRegistrations, IInv, TypeOK', NEW p \in Procs, Save(p),
           resp[p]["agent_uuid"] # 0, step[p] = 1
    PROVE  IInv'
  <1>1. /\ pc[p] = "save" /\ pc'[p] = "save" /\ step'[p] = 2
        /\ resp'[p] = resp[p] /\ \A q \in Procs \ {p} : Same(q)
    BY SaveMoves DEF IInv
  <1>2. SaveInv(p) /\ uuid = 0 /\ token = 0
    BY <1>1 DEF IInv, ProcInv, SaveInv, CredentialsMatch, uuid, token
  <1>3. /\ uuid' = resp[p]["agent_uuid"] /\ token' = token
    BY SaveWrites, ScriptFacts DEF IInv, uuid, token
  <1>4. \A q \in Procs \ {p} : ~Registering(q)
    BY <1>1 DEF SerialRegistrations, Registering
  <1>5. \A q \in Procs \ {p} : pc[q] \in Between
    BY <1>2, <1>4 DEF IInv, ProcInv, ReloadInv, ClearInv, Complete, Registering,
                      TypeOK, Between
  <1>6. \A q \in Procs \ {p} : ProcInv(q)'
    BY <1>1, <1>5, IdleInv DEF Same, Between
  <1>7. ProcInv(p)'
    BY <1>1, <1>2, <1>3
       DEF ProcInv, PostInv, SaveInv, ReloadInv, ClearInv, uuid, token
  <1>8. CredentialsMatch'
    BY <1>2, <1>3 DEF CredentialsMatch, uuid, token
  <1>9. Roles'
    BY <1>1 DEF IInv, Roles, Same
  <1> QED
    BY <1>6, <1>7, <1>8, <1>9 DEF IInv

\* Every other Put.
LEMMA SaveOther ==
    ASSUME IInv, TypeOK', NEW p \in Procs, Save(p),
           ~(resp[p]["agent_uuid"] # 0 /\ step[p] = 1)
    PROVE  IInv' /\ uuid' = uuid
  <1>1. pc[p] = "save" /\ step[p] \in 1..8
    BY SaveMoves DEF IInv, TypeOK
  <1>2. SaveInv(p) /\ ReloadInv(p)
    BY DEF IInv, ProcInv
  <1>3. step[p] # 1
    BY <1>1, <1>2 DEF ReloadInv, ConfigurationStep
  <1>4. uuid' = uuid
    BY <1>1, <1>3, SaveWrites, ScriptFacts DEF IInv, uuid
  <1>5. resp[p]["agent_token"] \in {0, uuid}
    BY <1>1, <1>2, <1>3 DEF SaveInv, ReloadInv
  <1>6. /\ token' = IF step[p] \in {2, 4} /\ resp[p]["agent_token"] # 0
                      THEN uuid ELSE token
        /\ step[p] # 3 =>
              db'["registration_time"] = db["registration_time"]
        /\ step[p] = 3 /\ resp[p]["registration_time"] # 0 =>
              db'["registration_time"] # 0
        /\ db["registration_time"] # 0 => db'["registration_time"] # 0
        /\ db["last_configuration_sync"] # 0 =>
              db'["last_configuration_sync"] # 0
        /\ step[p] = 8 /\ resp[p]["last_configuration_sync"] # 0 =>
              db'["last_configuration_sync"] # 0
    BY <1>1, <1>5, SaveWrites, ScriptFacts DEF IInv, token
  <1>7. Grows
    BY <1>4, <1>6 DEF Grows
  <1>8. \A q \in Procs \ {p} : ProcInv(q)'
    BY <1>7, SaveMoves, Frame DEF IInv
  <1>9. CredentialsMatch'
    BY <1>4, <1>6 DEF IInv, CredentialsMatch, uuid, token
  <1>10. Roles'
    BY <1>1, SaveMoves DEF IInv, Roles, Same, Between
  <1>11. ProcInv(p)'
    <2>1. CASE /\ step[p] < 8 /\ step'[p] = step[p] + 1
               /\ pc'[p] = "save" /\ resp'[p] = resp[p]
      <3>1. SaveInv(p)'
        BY <1>1, <1>2, <1>3, <1>4, <1>6, <2>1 DEF SaveInv
      <3>2. ReloadInv(p)'
        BY <1>1, <1>2, <1>4, <2>1 DEF ReloadInv, ConfigurationStep
      <3> QED
        BY <2>1, <3>1, <3>2 DEF ProcInv, PostInv, ClearInv
    <2>2. CASE pc'[p] \in Between
      BY <2>2, IdleInv
    <2>3. CASE /\ step[p] = 8 /\ resp[p]["agent_uuid"] # 0
               /\ pc'[p] = "clear"
      <3>1. Complete'
        BY <1>1, <1>2, <1>4, <1>6, <2>3 DEF SaveInv, Complete
      <3> QED
        BY <2>3, <3>1 DEF ProcInv, PostInv, SaveInv, ReloadInv, ClearInv
    <2> QED
      BY <2>1, <2>2, <2>3, SaveMoves DEF IInv, Between
  <1> QED
    BY <1>4, <1>8, <1>9, <1>10, <1>11 DEF IInv

-----------------------------------------------------------------------------
\* The invariant is inductive as long as no two registrations overlap.
LEMMA InvStep == SerialRegistrations /\ IInv /\ [Next]_vars => IInv'
  <1> SUFFICES ASSUME SerialRegistrations, IInv, [Next]_vars PROVE IInv'
    OBVIOUS
  <1> USE DEF local, portal
  <1>1. TypeOK /\ TypeOK'
    BY TypeStep DEF IInv
  <1>2. ASSUME NEW p \in Procs, db' = db, Succeed(p) \/ Fail(p) PROVE IInv'
    BY <1>1, <1>2, EndsBetween, ReturnStep
  <1>3. ASSUME NEW p \in Procs, Start(p) PROVE IInv'
    <2>1. db' = db /\ \A q \in Procs \ {p} : Same(q)
      BY <1>1, <1>3 DEF Start, Goto, Same, TypeOK
    <2>2. pc'[p] = "reload" \/ (pc'[p] = "check" /\ Registrar(p))
      BY <1>1, <1>3, BootstrapAssumption DEF Start, Goto, Registrar, Ops, TypeOK
    <2> QED
      BY <1>1, <2>1, <2>2, ReturnStep DEF Between
  <1>4. ASSUME NEW p \in Procs, EnsureRegistered(p) PROVE IInv'
    <2>1. db' = db /\ pc[p] = "check"
      BY <1>4 DEF EnsureRegistered
    <2>2. CASE Succeed(p) \/ Fail(p)
      BY <1>2, <2>1, <2>2
    <2>3. CASE /\ uuid = 0
               /\ Goto(p, "post") /\ UNCHANGED <<step, resp, attempt>>
      <3>1. pc'[p] = "post" /\ \A q \in Procs \ {p} : Same(q)
        BY <1>1, <2>3 DEF Goto, Same, TypeOK
      <3>2. Registrar(p)
        BY <2>1 DEF IInv, Roles
      <3>3. ProcInv(p)'
        BY <2>1, <2>3, <3>1
           DEF ProcInv, PostInv, SaveInv, ReloadInv, ClearInv, uuid
      <3> QED
        BY <1>1, <2>1, <3>1, <3>2, <3>3, QuietStep
    <2> QED
      BY <1>4, <2>2, <2>3 DEF EnsureRegistered, uuid
  <1>5. ASSUME NEW p \in Procs, Registered(p) PROVE IInv'
    <2>1. /\ db' = db /\ pc[p] = "post"
          /\ pc'[p] = "save" /\ step'[p] = 1
          /\ \A q \in Procs \ {p} : Same(q)
      BY <1>1, <1>5 DEF Registered, Goto, Same, TypeOK
    <2>2. issued' # 0 /\ rev # 0
      BY <1>1, <1>5 DEF Registered, Issue, TypeOK
    <2>3. /\ resp'[p]["agent_uuid"] = issued'
          /\ resp'[p]["agent_token"] = issued'
          /\ resp'[p]["registration_time"] = issued'
          /\ resp'[p]["last_configuration_sync"] = rev
      BY <1>1, <1>5, ReplyFields DEF Registered, TypeOK
    <2>4. Registrar(p) /\ uuid = 0
      BY <2>1 DEF IInv, Roles, ProcInv, PostInv
    <2>5. ProcInv(p)'
      BY <2>1, <2>2, <2>3, <2>4
         DEF ProcInv, PostInv, SaveInv, ReloadInv, ClearInv, uuid, token
    <2> QED
      BY <1>1, <2>1, <2>4, <2>5, QuietStep
  <1>6. ASSUME NEW p \in Procs, NoResponse(p) PROVE IInv'
    <2>1. db' = db
      BY <1>6 DEF NoResponse
    <2>2. CASE Fail(p)
      BY <1>2, <2>1, <2>2
    <2>3. CASE UNCHANGED <<pc, step, resp>>
      <3>1. \A q \in Procs : Same(q)
        BY <2>3 DEF Same
      <3>2. ProcInv(p)'
        BY <2>1, <3>1, Frame DEF IInv, Grows, uuid, token
      <3> QED
        BY <1>1, <2>1, <2>3, <3>1, <3>2, QuietStep DEF IInv, Roles
    <2> QED
      BY <1>6, <2>2, <2>3 DEF NoResponse
  <1>7. ASSUME NEW p \in Procs, BadResponse(p) \/ SaveFails(p) PROVE IInv'
    BY <1>2, <1>7 DEF BadResponse, SaveFails
  <1>8. ASSUME NEW p \in Procs, Save(p) PROVE IInv'
    BY <1>1, <1>8, SaveUuid, SaveOther
  <1>9. ASSUME NEW p \in Procs, ClearKey(p) PROVE IInv'
    <2>1. db' = db /\ pc[p] = "clear"
      BY <1>9 DEF ClearKey
    <2>2. CASE Succeed(p)
      BY <1>2, <2>1, <2>2
    <2>3. CASE Goto(p, "write") /\ UNCHANGED <<step, resp, attempt>>
      <3>1. pc'[p] = "write" /\ \A q \in Procs \ {p} : Same(q)
        BY <1>1, <2>3 DEF Goto, Same, TypeOK
      <3>2. Registrar(p) /\ Complete
        BY <2>1 DEF IInv, Roles, ProcInv, ClearInv
      <3>3. ProcInv(p)'
        BY <2>1, <3>1, <3>2 DEF ProcInv, PostInv, SaveInv, ReloadInv, ClearInv,
                                Complete, uuid, token
      <3> QED
        BY <1>1, <2>1, <3>1, <3>2, <3>3, QuietStep
    <2> QED
      BY <1>9, <2>2, <2>3 DEF ClearKey
  <1>10. ASSUME NEW p \in Procs, WriteFile(p) PROVE IInv'
    BY <1>2, <1>10 DEF WriteFile
  <1>11. ASSUME NEW p \in Procs, Backoff(p) PROVE IInv'
    <2>1. /\ db' = db /\ pc[p] = "wait" /\ pc'[p] = "check"
          /\ \A q \in Procs \ {p} : Same(q)
      BY <1>1, <1>11 DEF Backoff, Goto, Same, TypeOK
    <2>2. Registrar(p)
      BY <2>1 DEF IInv, Roles
    <2> QED
      BY <1>1, <2>1, <2>2, ReturnStep DEF Between
  <1>12. ASSUME NEW p \in Procs, ReloadConfig(p) PROVE IInv'
    <2>1. db' = db
      BY <1>12 DEF ReloadConfig
    <2>2. CASE Fail(p)
      BY <1>2, <2>1, <2>2
    <2>3. CASE /\ token # 0
               /\ resp' = [resp EXCEPT ![p]["agent_token"] = db["agent_token"]]
               /\ Goto(p, "fetch") /\ UNCHANGED <<step, attempt>>
      <3>1. pc'[p] = "fetch" /\ \A q \in Procs \ {p} : Same(q)
        BY <1>1, <2>3 DEF Goto, Same, TypeOK
      <3>2. resp'[p]["agent_token"] = token /\ token = uuid
        BY <1>1, <2>3, ScriptFacts
           DEF TypeOK, IInv, CredentialsMatch, token, uuid
      <3>3. ProcInv(p)'
        BY <2>1, <2>3, <3>1, <3>2 DEF ProcInv, PostInv, SaveInv, ReloadInv,
                                      ClearInv, uuid, token
      <3> QED
        BY <1>1, <2>1, <3>1, <3>3, QuietStep
    <2> QED
      BY <1>12, <2>2, <2>3 DEF ReloadConfig, token
  <1>13. ASSUME NEW p \in Procs, Fetched(p) PROVE IInv'
    <2>1. /\ db' = db /\ pc[p] = "fetch"
          /\ pc'[p] = "save" /\ step'[p] = ConfigurationStep
          /\ \A q \in Procs \ {p} : Same(q)
      BY <1>1, <1>13 DEF Fetched, Goto, Same, TypeOK
    <2>2. /\ resp'[p]["agent_uuid"] = 0
          /\ resp'[p]["agent_token"] \in {0, resp[p]["agent_token"]}
      BY <1>1, <1>13, ReplyFields DEF Fetched, TypeOK
    <2>3. uuid # 0 /\ resp[p]["agent_token"] = uuid
      BY <2>1 DEF IInv, ProcInv, ReloadInv
    <2>4. ProcInv(p)'
      BY <2>1, <2>2, <2>3 DEF ProcInv, PostInv, SaveInv, ReloadInv, ClearInv,
                              ConfigurationStep, uuid
    <2> QED
      BY <1>1, <2>1, <2>2, <2>4, QuietStep
  <1>14. ASSUME NEW p \in Procs, Exit(p) PROVE IInv'
    <2>1. db' = db /\ pc'[p] = "down" /\ \A q \in Procs \ {p} : Same(q)
      BY <1>1, <1>14 DEF Exit, Goto, Forget, Same, TypeOK
    <2> QED
      BY <1>1, <2>1, ReturnStep
  <1>15. ASSUME Configure \/ Revise \/ Calm \/ UNCHANGED vars PROVE IInv'
    <2>1. UNCHANGED <<db, pc, step, resp>>
      BY <1>15 DEF Configure, Revise, Calm, vars
    <2>2. \A q \in Procs : ProcInv(q)'
      BY <2>1, Frame DEF IInv, Grows, Same, uuid, token
    <2> QED
      BY <1>1, <2>1, <2>2 DEF IInv, CredentialsMatch, Roles
  <1> QED
    BY <1>3, <1>4, <1>5, <1>6, <1>7, <1>8, <1>9, <1>10, <1>11, <1>12, <1>13,
       <1>14, <1>15 DEF Next, Step

LEMMA InvInit == Init => IInv
  <1> SUFFICES ASSUME Init PROVE IInv
    OBVIOUS
  <1>1. TypeOK
    BY BootstrapAssumption DEF Init, TypeOK, NoReply
  <1>2. CredentialsMatch /\ Roles
    BY ScriptFacts DEF Init, CredentialsMatch, Roles
  <1>3. \A p \in Procs : ProcInv(p)
    BY DEF Init, ProcInv, PostInv, SaveInv, ReloadInv, ClearInv
  <1> QED
    BY <1>1, <1>2, <1>3 DEF IInv

LEMMA SerialInvariance == Spec /\ []SerialRegistrations => []IInv
  BY InvInit, InvStep, PTL DEF Spec

\* With one registrar the inductive invariant always holds, and so no two
\* registrations overlap.
THEOREM Invariance ==
    ASSUME OneRegistrar PROVE Spec => []IInv /\ []SerialRegistrations
  <1>1. IInv => SerialRegistrations
    BY DEF IInv, Roles, OneRegistrar, SerialRegistrations, Registering
  <1>2. IInv /\ [Next]_vars => IInv'
    BY <1>1, InvStep
  <1> QED
    BY <1>1, <1>2, InvInit, PTL DEF Spec

-----------------------------------------------------------------------------
\* Only the Put of a registration by an agent without a UUID stores one.
LEMMA UuidStep ==
    ASSUME IInv, [Next]_vars, uuid # 0 PROVE uuid' = uuid
  <1>1. ASSUME NEW p \in Procs, Save(p) PROVE uuid' = uuid
    <2>1. pc[p] = "save" /\ TypeOK'
      BY <1>1, TypeStep DEF Save, IInv
    <2>2. ~(resp[p]["agent_uuid"] # 0 /\ step[p] = 1)
      BY <2>1 DEF IInv, ProcInv, SaveInv
    <2> QED
      BY <1>1, <2>1, <2>2, SaveOther
  <1>2. db' = db \/ \E p \in Procs : Save(p)
    BY DEF Next, Step, vars, Start, EnsureRegistered, Registered, NoResponse,
           BadResponse, SaveFails, ClearKey, WriteFile, Backoff, ReloadConfig,
           Fetched, Exit, Configure, Revise, Calm
  <1> QED
    BY <1>1, <1>2 DEF uuid

\* Only a process that has stored a whole registration removes the key.
LEMMA KeyStep ==
    ASSUME IInv, [Next]_vars, file = "key", file' # "key" PROVE Complete
  <1>1. \E p \in Procs : ClearKey(p) \/ WriteFile(p)
    BY DEF Next, Step, vars, Start, EnsureRegistered, Registered, NoResponse,
           BadResponse, Save, SaveFails, Backoff, ReloadConfig, Fetched, Exit,
           Configure, Revise, Calm
  <1> QED
    BY <1>1 DEF ClearKey, WriteFile, IInv, ProcInv, ClearInv

\* However many processes register, as long as no two of them do so at the same
\* time: the stored token is always one of the stored UUID, the agent registers
\* once, and the enrollment key is removed only after everything that the
\* registration returned was stored.  Reloads may overlap with anything.
THEOREM SerialRegistrationsSafe ==
    Spec /\ []SerialRegistrations =>
        []CredentialsMatch /\ UuidStable /\ KeySpentAfterSave
  <1>1. IInv => CredentialsMatch
    BY DEF IInv
  <1>2. IInv /\ [Next]_vars =>
          [db["agent_uuid"] # 0 => db'["agent_uuid"] = db["agent_uuid"]]_vars
    BY UuidStep DEF uuid
  <1>3. IInv /\ [Next]_vars =>
          [file = "key" /\ file' # "key" =>
             /\ db["agent_uuid"] # 0 /\ db["agent_token"] = db["agent_uuid"]
             /\ db["registration_time"] # 0
             /\ db["last_configuration_sync"] # 0]_vars
    BY KeyStep DEF Complete, uuid, token
  <1> QED
    BY <1>1, <1>2, <1>3, SerialInvariance, PTL DEF Spec, UuidStable, KeySpentAfterSave

\* With one registrar the stored token is always one of the stored UUID.
THEOREM CredentialsAlwaysMatch ==
    ASSUME OneRegistrar PROVE Spec => []CredentialsMatch
  BY Invariance, SerialRegistrationsSafe, PTL

\* With one registrar the agent registers once.
THEOREM RegisteredOnce == ASSUME OneRegistrar PROVE Spec => UuidStable
  BY Invariance, SerialRegistrationsSafe, PTL

\* With one registrar the enrollment key is removed only after everything
\* the registration returned was stored.
THEOREM KeySpentLast == ASSUME OneRegistrar PROVE Spec => KeySpentAfterSave
  BY Invariance, SerialRegistrationsSafe, PTL

-----------------------------------------------------------------------------
(***************************************************************************)
(* The stored version is never ahead of the stored configuration and of    *)
(* what the Portal gave without one, as long as no two processes save at   *)
(* the same time.                                                          *)
(***************************************************************************)
conf == db["portal_configuration"]
version == db["configuration_version"]

\* No two processes are between the first and the last Put of a reply.
OneSaver ==
    \A p, q \in Procs : pc[p] = "save" /\ pc[q] = "save" => p = q

OneProcess == \A p, q \in Procs : p = q

\* A reply that is being saved is not older than what is stored, its version
\* comes with its configuration unless the Portal gave it bare, and the
\* configuration is stored first.
ReplyInv(p) ==
    LET c == resp[p]["portal_configuration"]
        v == resp[p]["configuration_version"]
    IN  pc[p] = "save" =>
          /\ v <= c \/ v <= bare
          /\ c <= rev
          /\ c # 0 => conf <= c
          /\ c # 0 /\ step[p] > 5 => conf = c

VersionInv ==
    /\ TypeOK /\ VersionNotAhead /\ conf <= rev /\ bare <= rev
    /\ \A p \in Procs : ReplyInv(p)

LEMMA VersionKeys ==
    /\ "portal_configuration" \in Keys /\ "configuration_version" \in Keys
    /\ \A i \in 1..8 : /\ Script[i] = "portal_configuration" <=> i = 5
                       /\ Script[i] = "configuration_version" <=> i = 7
  BY DEF Keys, Script

\* A reply with a version has the configuration of that version, or none.
LEMMA ReplyVersion ==
    ASSUME NEW n, NEW tok, NEW omitted \in SUBSET Optional, rev \in Nat
    PROVE  LET r == Reply(n, tok, omitted) IN
             /\ r["configuration_version"] \in {0, rev}
             /\ r["portal_configuration"] \in {0, rev}
             /\ \/ r["configuration_version"] <= r["portal_configuration"]
                \/ /\ "portal_configuration" \in omitted
                   /\ "configuration_version" \notin omitted
  BY VersionKeys DEF Reply

\* A step that saves nothing, given that the replies it leaves are the old
\* ones or one the Portal has just made.
LEMMA NoSaveVersion ==
    ASSUME VersionInv, TypeOK', db' = db,
           rev <= rev', bare <= bare', bare' <= rev',
           \A q \in Procs :
              \/ pc'[q] # "save"
              \/ Same(q)
              \/ /\ \/ resp'[q]["configuration_version"] <= resp'[q]["portal_configuration"]
                    \/ resp'[q]["configuration_version"] <= bare'
                 /\ resp'[q]["portal_configuration"] \in {0, rev}
                 /\ step'[q] <= 5
    PROVE  VersionInv'
  <1>1. /\ conf \in Nat /\ version \in Nat /\ conf <= rev /\ rev \in Nat /\ rev' \in Nat
        /\ bare \in Nat /\ bare' \in Nat
        /\ UNCHANGED <<conf, version>>
    BY VersionKeys DEF VersionInv, TypeOK, conf, version
  <1>2. VersionNotAhead' /\ conf' <= rev'
    <2>1. version <= conf \/ version <= bare
      BY DEF VersionInv, VersionNotAhead, conf, version
    <2>2. (version' <= conf' \/ version' <= bare') /\ conf' <= rev'
      BY <1>1, <2>1
    <2> QED
      BY <2>2 DEF VersionNotAhead, conf, version
  <1>3. ASSUME NEW q \in Procs PROVE ReplyInv(q)'
    <2> DEFINE c == resp[q]["portal_configuration"]
               v == resp[q]["configuration_version"]
    <2>1. /\ c \in Nat /\ v \in Nat /\ step[q] \in 1..8
          /\ c' \in Nat /\ v' \in Nat /\ step'[q] \in 1..8
      BY <1>3, VersionKeys DEF VersionInv, TypeOK
    <2>2. CASE pc'[q] # "save"
      BY <2>2 DEF ReplyInv
    <2>3. CASE Same(q)
      <3>1. /\ pc'[q] = pc[q] /\ step'[q] = step[q] /\ c' = c /\ v' = v
        BY <2>3 DEF Same
      <3>2. ReplyInv(q)
        BY <1>3 DEF VersionInv
      <3> QED
        BY <1>1, <2>1, <3>1, <3>2 DEF ReplyInv
    <2>4. CASE (v' <= c' \/ v' <= bare') /\ c' \in {0, rev} /\ step'[q] <= 5
      BY <1>1, <2>1, <2>4 DEF ReplyInv
    <2> QED
      BY <1>3, <2>2, <2>3, <2>4
  <1> QED
    BY <1>2, <1>3 DEF VersionInv

\* A Put by the only process that saves.
LEMMA SaveVersion ==
    ASSUME VersionInv, TypeOK', OneSaver, NEW p \in Procs, Save(p)
    PROVE  VersionInv'
  <1> DEFINE c == resp[p]["portal_configuration"]
             v == resp[p]["configuration_version"]
  <1>1. /\ TypeOK /\ pc[p] = "save" /\ rev' = rev /\ rev \in Nat
        /\ bare' = bare /\ bare \in Nat /\ bare <= rev
        /\ step[p] \in 1..8 /\ c \in Nat /\ v \in Nat /\ conf \in Nat /\ version \in Nat
    BY VersionKeys DEF VersionInv, TypeOK, Save, portal, conf, version
  <1>2. /\ v <= c \/ v <= bare
        /\ c <= rev /\ (c # 0 => conf <= c)
        /\ (c # 0 /\ step[p] > 5 => conf = c)
        /\ version <= conf \/ version <= bare
        /\ conf <= rev
    BY <1>1 DEF VersionInv, ReplyInv, VersionNotAhead, conf, version
  <1>3. /\ conf' = IF step[p] = 5 /\ c # 0 THEN c ELSE conf
        /\ version' = IF step[p] = 7 /\ v # 0 THEN v ELSE version
    BY <1>1, SaveWrites, VersionKeys DEF conf, version
  <1>4. (version' <= conf' \/ version' <= bare) /\ conf' <= rev
    <2>1. CASE step[p] = 5
      BY <1>1, <1>2, <1>3, <2>1
    <2>2. CASE step[p] = 7
      BY <1>1, <1>2, <1>3, <2>2
    <2>3. CASE step[p] # 5 /\ step[p] # 7
      BY <1>2, <1>3, <2>3
    <2> QED
      BY <2>1, <2>2, <2>3
  <1>5. \A q \in Procs \ {p} : pc'[q] # "save"
    BY <1>1, SaveMoves DEF OneSaver, Same
  <1>6. ReplyInv(p)'
    <2>1. CASE pc'[p] # "save"
      BY <2>1 DEF ReplyInv
    <2>2. CASE step'[p] = step[p] + 1 /\ resp'[p] = resp[p]
      <3>1. c' = c /\ v' = v
        BY <2>2
      <3>2. c # 0 => conf' <= c
        BY <1>1, <1>2, <1>3
      <3>3. c # 0 /\ step'[p] > 5 => conf' = c
        BY <1>1, <1>2, <1>3, <2>2
      <3> QED
        BY <1>1, <1>2, <3>1, <3>2, <3>3 DEF ReplyInv
    <2> QED
      BY <1>1, <2>1, <2>2, SaveMoves DEF Between
  <1>7. \A q \in Procs : ReplyInv(q)'
    BY <1>5, <1>6 DEF ReplyInv
  <1>8. VersionNotAhead'
    BY <1>1, <1>4 DEF VersionNotAhead, conf, version
  <1> QED
    BY <1>1, <1>4, <1>7, <1>8 DEF VersionInv

LEMMA VersionStep == VersionInv /\ OneSaver /\ [Next]_vars => VersionInv'
  <1> SUFFICES ASSUME VersionInv, OneSaver, [Next]_vars PROVE VersionInv'
    OBVIOUS
  <1> USE DEF portal, local
  <1>1. TypeOK /\ TypeOK' /\ rev \in Nat /\ bare \in Nat /\ bare <= rev
    BY TypeStep DEF VersionInv, TypeOK
  <1>2. ASSUME db' = db, rev' = rev, bare' = bare, NEW p \in Procs, pc'[p] # "save",
               \A q \in Procs \ {p} : Same(q)
        PROVE  VersionInv'
    BY <1>1, <1>2, NoSaveVersion
  <1>3. ASSUME NEW p \in Procs, Save(p) PROVE VersionInv'
    BY <1>1, <1>3, SaveVersion
  <1>4. ASSUME db' = db, rev' = rev, bare' = bare, NEW p \in Procs, Succeed(p) \/ Fail(p)
        PROVE  VersionInv'
    BY <1>1, <1>2, <1>4, EndsBetween DEF Between
  <1>5. ASSUME NEW p \in Procs, Registered(p) PROVE VersionInv'
    <2>1. /\ db' = db /\ rev' = rev /\ \A q \in Procs \ {p} : Same(q)
          /\ step'[p] <= 5
      BY <1>1, <1>5 DEF Registered, Goto, Same, TypeOK
    <2>2. PICK omitted \in SUBSET Optional :
              /\ resp'[p] = Reply(issued', issued', omitted)
              /\ bare' = IF /\ "portal_configuration" \in omitted
                            /\ "configuration_version" \notin omitted
                           THEN rev ELSE bare
      BY <1>1, <1>5 DEF Registered, TypeOK
    <2>3. bare <= bare' /\ bare' <= rev'
      BY <1>1, <2>1, <2>2
    <2>4. /\ \/ resp'[p]["configuration_version"] <= resp'[p]["portal_configuration"]
             \/ resp'[p]["configuration_version"] <= bare'
          /\ resp'[p]["portal_configuration"] \in {0, rev}
      <3>1. /\ resp'[p]["configuration_version"] \in {0, rev}
            /\ resp'[p]["portal_configuration"] \in {0, rev}
            /\ \/ resp'[p]["configuration_version"] <= resp'[p]["portal_configuration"]
               \/ /\ "portal_configuration" \in omitted
                  /\ "configuration_version" \notin omitted
        BY <1>1, <2>2, ReplyVersion
      <3> QED
        BY <1>1, <2>2, <3>1
    <2> QED
      BY <1>1, <2>1, <2>3, <2>4, NoSaveVersion
  <1>6. ASSUME NEW p \in Procs, Fetched(p) PROVE VersionInv'
    <2>1. /\ db' = db /\ rev' = rev /\ bare' = bare
          /\ \A q \in Procs \ {p} : Same(q)
          /\ step'[p] <= 5
      BY <1>1, <1>6 DEF Fetched, Goto, Same, ConfigurationStep, TypeOK
    <2>2. \E n, tok : \E omitted \in SUBSET Optional :
              /\ "portal_configuration" \notin omitted
              /\ resp'[p] = Reply(n, tok, omitted)
      BY <1>1, <1>6 DEF Fetched, TypeOK
    <2>3. /\ resp'[p]["configuration_version"] <= resp'[p]["portal_configuration"]
          /\ resp'[p]["portal_configuration"] \in {0, rev}
      BY <1>1, <2>2, ReplyVersion
    <2> QED
      BY <1>1, <2>1, <2>3, NoSaveVersion
  <1>7. ASSUME NEW p \in Procs,
               Start(p) \/ EnsureRegistered(p) \/ ClearKey(p) \/ WriteFile(p)
               \/ Backoff(p) \/ ReloadConfig(p) \/ Exit(p) \/ BadResponse(p)
               \/ SaveFails(p) \/ NoResponse(p)
        PROVE  VersionInv'
    <2>1. db' = db /\ rev' = rev /\ bare' = bare
      BY <1>7 DEF Start, EnsureRegistered, ClearKey, WriteFile, Backoff,
                  ReloadConfig, Exit, BadResponse, SaveFails, NoResponse
    <2>2. CASE Succeed(p) \/ Fail(p)
      BY <1>4, <2>1, <2>2
    <2>3. CASE NoResponse(p) /\ UNCHANGED <<pc, step, resp>>
      <3>1. \A q \in Procs : Same(q)
        BY <2>3 DEF Same
      <3> QED
        BY <1>1, <2>1, <3>1, NoSaveVersion
    <2>4. CASE Start(p) \/ Backoff(p) \/ Exit(p)
      <3>1. pc'[p] # "save" /\ \A q \in Procs \ {p} : Same(q)
        BY <1>1, <2>4 DEF Start, Backoff, Exit, Goto, Forget, Same, TypeOK
      <3> QED
        BY <1>2, <2>1, <3>1
    <2>5. CASE Goto(p, "post") /\ UNCHANGED <<step, resp, attempt>>
      <3>1. pc'[p] # "save" /\ \A q \in Procs \ {p} : Same(q)
        BY <1>1, <2>5 DEF Goto, Same, TypeOK
      <3> QED
        BY <1>2, <2>1, <3>1
    <2>6. CASE Goto(p, "write") /\ UNCHANGED <<step, resp, attempt>>
      <3>1. pc'[p] # "save" /\ \A q \in Procs \ {p} : Same(q)
        BY <1>1, <2>6 DEF Goto, Same, TypeOK
      <3> QED
        BY <1>2, <2>1, <3>1
    <2>7. CASE /\ resp' = [resp EXCEPT ![p]["agent_token"] = db["agent_token"]]
               /\ Goto(p, "fetch") /\ UNCHANGED <<step, attempt>>
      <3>1. pc'[p] # "save" /\ \A q \in Procs \ {p} : Same(q)
        BY <1>1, <2>7 DEF Goto, Same, TypeOK
      <3> QED
        BY <1>2, <2>1, <3>1
    <2>8. NoResponse(p) => Fail(p) \/ (NoResponse(p) /\ UNCHANGED <<pc, step, resp>>)
      BY DEF NoResponse
    <2>9. BadResponse(p) \/ SaveFails(p) \/ WriteFile(p) => Succeed(p) \/ Fail(p)
      BY DEF BadResponse, SaveFails, WriteFile
    <2>10. EnsureRegistered(p) =>
             \/ Succeed(p) \/ Fail(p)
             \/ Goto(p, "post") /\ UNCHANGED <<step, resp, attempt>>
      BY DEF EnsureRegistered
    <2>11. ClearKey(p) => \/ Succeed(p)
                          \/ Goto(p, "write") /\ UNCHANGED <<step, resp, attempt>>
      BY DEF ClearKey
    <2>12. ReloadConfig(p) =>
             \/ Fail(p)
             \/ /\ resp' = [resp EXCEPT ![p]["agent_token"] = db["agent_token"]]
                /\ Goto(p, "fetch") /\ UNCHANGED <<step, attempt>>
      BY DEF ReloadConfig
    <2> QED
      BY <1>7, <2>2, <2>3, <2>4, <2>5, <2>6, <2>7, <2>8, <2>9, <2>10, <2>11, <2>12
  <1>8. ASSUME Configure \/ Revise \/ Calm \/ UNCHANGED vars PROVE VersionInv'
    <2>1. /\ db' = db /\ rev <= rev' /\ bare' = bare /\ bare' <= rev'
          /\ \A q \in Procs : Same(q)
      BY <1>1, <1>8 DEF Configure, Revise, Calm, vars, Same
    <2> QED
      BY <1>1, <2>1, NoSaveVersion
  <1> QED
    BY <1>3, <1>5, <1>6, <1>7, <1>8 DEF Next, Step

\* As long as no two processes save a reply at the same time, the version in
\* the table is never newer than the configuration, wherever a save stops and
\* whatever fields its reply lacks: saveConfiguration writes the configuration
\* first and the version after it.  The exception is in the property: a version
\* that a registration reply gives without a configuration.
THEOREM VersionBySerialSaves == Spec /\ []OneSaver => []VersionNotAhead
  <1>1. Init => VersionInv
    <2> SUFFICES ASSUME Init PROVE VersionInv
      OBVIOUS
    <2>1. TypeOK
      BY BootstrapAssumption DEF Init, TypeOK, NoReply
    <2> QED
      BY <2>1, VersionKeys DEF Init, VersionInv, VersionNotAhead, ReplyInv, conf
  <1>2. VersionInv => VersionNotAhead
    BY DEF VersionInv
  <1> QED
    BY <1>1, <1>2, VersionStep, PTL DEF Spec

\* In particular a single process, registering and reloading in any order with
\* failed Puts and restarts anywhere, never claims a version without having the
\* configuration, or having been given that version without one.
THEOREM VersionByOneProcess == ASSUME OneProcess PROVE Spec => []VersionNotAhead
  <1>1. Init => OneSaver
    BY DEF OneProcess, OneSaver
  <1>2. OneSaver /\ [Next]_vars => OneSaver'
    BY DEF OneProcess, OneSaver
  <1> QED
    BY <1>1, <1>2, VersionBySerialSaves, PTL DEF Spec

-----------------------------------------------------------------------------
(***************************************************************************)
(* The account that sealed the token.                                      *)
(***************************************************************************)

\* Every process runs under the account of the service.
OneAccount == \A p \in Procs : Account[p] = Account[Service]

\* When every process runs under the service's account, the service can
\* unprotect whatever token is stored: PutSecret sealed it for that account.
THEOREM TokenReadableByOneAccount ==
    ASSUME OneAccount PROVE Spec => []TokenReadableByService
  <1> DEFINE Sealed == TypeOK /\ (token # 0 => sealedBy = Account[Service])
  <1>1. Init => Sealed
    BY BootstrapAssumption, ScriptFacts DEF Init, TypeOK, NoReply, token
  <1>2. Sealed /\ [Next]_vars => Sealed'
    <2> SUFFICES ASSUME Sealed, [Next]_vars PROVE token' # 0 => sealedBy' = Account[Service]
      BY TypeStep
    <2>1. ASSUME NEW p \in Procs, Save(p) PROVE token' # 0 => sealedBy' = Account[Service]
      <3>1. step[p] \in 1..8 /\ Account[p] = Account[Service]
        BY <2>1 DEF OneAccount, TypeOK
      <3>2. token' = IF Script[step[p]] = "agent_token" /\ resp[p]["agent_token"] # 0
                       THEN resp[p]["agent_token"] ELSE token
        BY <2>1, <3>1, SaveWrites, ScriptFacts DEF token
      <3>3. sealedBy' = IF Script[step[p]] = "agent_token" /\ resp[p]["agent_token"] # 0
                          THEN Account[p] ELSE sealedBy
        BY <2>1 DEF Save
      <3> QED
        BY <3>1, <3>2, <3>3
    <2>2. UNCHANGED <<db, sealedBy>> \/ \E p \in Procs : Save(p)
      BY DEF Next, Step, vars, Start, EnsureRegistered, Registered, NoResponse,
             BadResponse, SaveFails, ClearKey, WriteFile, Backoff, ReloadConfig,
             Fetched, Exit, Configure, Revise, Calm
    <2> QED
      BY <2>1, <2>2 DEF token
  <1>3. Sealed => TokenReadableByService
    BY DEF TokenReadableByService, token
  <1> QED
    BY <1>1, <1>2, <1>3, PTL DEF Spec
=============================================================================
