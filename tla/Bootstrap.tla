------------------------------ MODULE Bootstrap ------------------------------
(***************************************************************************)
(* internal/bootstrap with the parts of internal/app, internal/config,     *)
(* internal/security and the config table of internal/storage it drives:   *)
(* registration with retries, the save of a Portal reply one key at a time,*)
(* removal of the enrollment key from the YAML file, and reload-config.    *)
(*                                                                         *)
(* Processes share the database and the YAML file.  The service registers  *)
(* in a loop with backoff and then runs its engines; a command makes one   *)
(* attempt ("register" or "reload-config") and ends.  The agent UUID and   *)
(* the token a registration returns are both named by its number, and      *)
(* configuration, policy and version by the Portal's revision; 0 is "no    *)
(* row" in the table and "no field" in a reply.  Timestamps are the number *)
(* of the reply they were written for.                                     *)
(*                                                                         *)
(* While env = "faulty" requests, replies and SQL statements may fail and  *)
(* a process may end at any step.                                          *)
(***************************************************************************)
EXTENDS Integers, Sequences

CONSTANTS Procs,      \* the processes that may run
          Service,    \* the Windows service (need not be in Procs)
          May,        \* May[p]: the operations p performs
          Accounts,   \* Windows accounts
          Account,    \* Account[p]: the account p runs under
          Retries,    \* Client.Retries
          MaxDelay,   \* the longest backoff, in seconds
          MaxIssued,  \* bound: registrations the Portal handles under faults
          MaxRev,     \* bound: configuration revisions
          None

Ops == {"register", "reload"}

ASSUME BootstrapAssumption ==
    /\ May \in [Procs -> SUBSET Ops]
    /\ Service \in Procs => May[Service] = {"register"}
    /\ Account \in [Procs -> Accounts]
    /\ Retries \in Nat
    /\ MaxDelay \in Nat \ {0}
    /\ MaxIssued \in Nat
    /\ MaxRev \in Nat \ {0}
    /\ None \notin Accounts

VARIABLES db,        \* the config table: [Keys -> Nat]
          sealedBy,  \* the account whose DPAPI key protects the stored token
          file,      \* config.yaml: "absent", "nokey", "key" or "torn"
          key,       \* key[p]: p's copy of the configuration has the key
          url,       \* url[p]: p's copy of the configuration has the URL
          pc,        \* pc[p]: where p is
          step,      \* step[p]: the index in Script of p's next Put
          resp,      \* resp[p]: the Portal reply p is saving
          attempt,   \* attempt[p]: the index of p's current HTTP attempt
          delay,     \* the service's next backoff
          issued,    \* the Portal: registrations handled
          rev,       \* the Portal: current configuration revision
          bare,      \* history: the last version a reply gave without the
                     \* configuration it is the version of, or 0
          env        \* "faulty" or "calm"

local == <<key, url, pc, step, resp, attempt, delay>>
portal == <<issued, rev, bare>>
vars == <<db, sealedBy, file, local, portal, env>>

\* Mutants of Script: the token before the UUID, the version before the
\* configuration.
TokenFirst == <<"agent_token", "agent_uuid", "registration_time", "agent_token",
                "portal_configuration", "portal_policy",
                "configuration_version", "last_configuration_sync">>
VersionFirst == <<"agent_uuid", "agent_token", "registration_time",
                  "agent_token", "configuration_version", "portal_policy",
                  "portal_configuration", "last_configuration_sync">>

\* The Puts of saveRegistration, then those of saveConfiguration.
Script == <<"agent_uuid", "agent_token", "registration_time", "agent_token",
            "portal_configuration", "portal_policy", "configuration_version",
            "last_configuration_sync">>
ConfigurationStep == 4
Keys == {Script[i] : i \in 1..8}
NoReply == [k \in Keys |-> 0]

Init ==
    /\ db = [k \in Keys |-> 0]
    /\ sealedBy = None
    /\ file \in {"absent", "key"}
    /\ key = [p \in Procs |-> FALSE]
    /\ url = [p \in Procs |-> FALSE]
    /\ pc = [p \in Procs |-> "down"]
    /\ step = [p \in Procs |-> 1]
    /\ resp = [p \in Procs |-> NoReply]
    /\ attempt = [p \in Procs |-> 0]
    /\ delay = 1
    /\ issued = 0 /\ rev = 1 /\ bare = 0
    /\ env = "faulty"

-----------------------------------------------------------------------------
Faulty == env = "faulty"

Goto(p, label) == pc' = [pc EXCEPT ![p] = label]

\* The locals of a finished or failed operation.
Forget(p) ==
    /\ step' = [step EXCEPT ![p] = 1]
    /\ resp' = [resp EXCEPT ![p] = NoReply]
    /\ attempt' = [attempt EXCEPT ![p] = 0]

\* The operation returns nil: the service starts its engines, a command ends.
Succeed(p) ==
    /\ Goto(p, IF p = Service THEN "running" ELSE "down")
    /\ Forget(p)

\* The operation returns an error: the service waits, a command ends.
Fail(p) ==
    /\ Goto(p, IF p = Service THEN "wait" ELSE "down")
    /\ Forget(p)

\* initialize: config.LoadOrCreate (which writes the default file when there
\* is none; an empty file parses as the zero Config) and the command.
Start(p) ==
    /\ pc[p] = "down"
    /\ \E op \in May[p] : Goto(p, IF op = "register" THEN "check" ELSE "reload")
    /\ key' = [key EXCEPT ![p] = (file = "key")]
    /\ url' = [url EXCEPT ![p] = (file # "torn")]
    /\ file' = IF file = "absent" THEN "nokey" ELSE file
    /\ delay' = IF p = Service THEN 1 ELSE delay
    /\ UNCHANGED <<db, sealedBy, step, resp, attempt, portal, env>>

\* Mutant of EnsureRegistered: it looks for the token instead of the UUID.
RegisteredByToken(p) ==
    /\ pc[p] = "check"
    /\ \/ db["agent_token"] # 0 /\ Succeed(p)
       \/ db["agent_token"] = 0 /\ ~key[p] /\ Fail(p)
       \/ /\ db["agent_token"] = 0 /\ key[p]
          /\ Goto(p, "post") /\ UNCHANGED <<step, resp, attempt>>
    /\ UNCHANGED <<db, sealedBy, file, key, url, delay, portal, env>>

\* EnsureRegistered: a stored agent_uuid means registered.  Then Register
\* gives up without a key, and otherwise posts.
EnsureRegistered(p) ==
    /\ pc[p] = "check"
    /\ \/ db["agent_uuid"] # 0 /\ Succeed(p)
       \/ db["agent_uuid"] = 0 /\ ~key[p] /\ Fail(p)
       \/ /\ db["agent_uuid"] = 0 /\ key[p]
          /\ Goto(p, "post") /\ UNCHANGED <<step, resp, attempt>>
       \/ Faulty /\ Fail(p)
    /\ UNCHANGED <<db, sealedBy, file, key, url, delay, portal, env>>

\* The fields a reply may leave out, each by itself.
Optional == {"portal_configuration", "portal_policy", "configuration_version"}

\* The reply of registration n (0: none) carrying token tok (0: none).
Reply(n, tok, omitted) ==
    [k \in Keys |-> CASE k = "agent_uuid" -> n
                      [] k = "agent_token" -> tok
                      [] k = "registration_time" -> n
                      [] k \in omitted -> 0
                      [] OTHER -> rev]

\* The Portal handles a registration, whether or not its reply arrives.
Issue ==
    /\ issued < (IF Faulty THEN MaxIssued ELSE MaxIssued + 1)
    /\ issued' = issued + 1

\* The registration succeeds, its reply has the UUID and the token, and
\* saveRegistration begins.
Registered(p) ==
    /\ pc[p] = "post" /\ url[p]
    /\ Issue
    /\ \E omitted \in SUBSET Optional :
          /\ resp' = [resp EXCEPT ![p] = Reply(issued', issued', omitted)]
          /\ bare' = IF /\ "portal_configuration" \in omitted
                        /\ "configuration_version" \notin omitted
                       THEN rev ELSE bare
    /\ Goto(p, "save")
    /\ step' = [step EXCEPT ![p] = 1]
    /\ attempt' = [attempt EXCEPT ![p] = 0]
    /\ UNCHANGED <<db, sealedBy, file, key, url, delay, rev, env>>

\* Client.Do got no response; the Portal may have handled the request.
NoResponse(p) ==
    /\ pc[p] \in {"post", "fetch"}
    /\ Faulty \/ ~url[p]
    /\ \/ pc[p] = "post" /\ url[p] /\ Issue
       \/ UNCHANGED issued
    /\ IF attempt[p] < Retries
         THEN /\ attempt' = [attempt EXCEPT ![p] = @ + 1]
              /\ UNCHANGED <<pc, step, resp>>
         ELSE Fail(p)
    /\ UNCHANGED <<db, sealedBy, file, key, url, delay, rev, bare, env>>

\* A response that is not 2xx, cannot be parsed or lacks what is required.
BadResponse(p) ==
    /\ pc[p] \in {"post", "fetch"} /\ Faulty /\ url[p]
    /\ Fail(p)
    /\ UNCHANGED <<db, sealedBy, file, key, url, delay, portal, env>>

\* One Put or PutSecret of saveRegistration and saveConfiguration; a field
\* the reply lacks is not written.
Save(p) ==
    /\ pc[p] = "save"
    /\ LET k == Script[step[p]] IN
         /\ db' = IF resp[p][k] = 0 THEN db ELSE [db EXCEPT ![k] = resp[p][k]]
         /\ sealedBy' = IF k = "agent_token" /\ resp[p][k] # 0
                          THEN Account[p] ELSE sealedBy
    /\ \/ /\ step[p] < 8
          /\ step' = [step EXCEPT ![p] = @ + 1]
          /\ UNCHANGED <<pc, resp, attempt>>
       \/ step[p] = 8 /\ resp[p]["agent_uuid"] = 0 /\ Succeed(p)
       \/ step[p] = 8 /\ resp[p]["agent_uuid"] # 0 /\ Goto(p, "clear") /\ Forget(p)
    /\ UNCHANGED <<file, key, url, delay, portal, env>>

\* Mutant of SaveFails: the error is ignored and the key is cleared.
SaveErrorIgnored(p) ==
    /\ pc[p] = "save" /\ Faulty
    /\ Goto(p, "clear") /\ Forget(p)
    /\ UNCHANGED <<db, sealedBy, file, key, url, delay, portal, env>>

\* A Put fails: the operation ends with the keys before it written.
SaveFails(p) ==
    /\ pc[p] = "save" /\ Faulty
    /\ Fail(p)
    /\ UNCHANGED <<db, sealedBy, file, key, url, delay, portal, env>>

\* Register clears its copy of the key; config.Save truncates the file.  When
\* it cannot open it, the key stays there and Register only logs that.
ClearKey(p) ==
    /\ pc[p] = "clear"
    /\ key' = [key EXCEPT ![p] = FALSE]
    /\ \/ /\ file' = "torn"
          /\ Goto(p, "write") /\ UNCHANGED <<step, resp, attempt>>
       \/ Faulty /\ file' = file /\ Succeed(p)
    /\ UNCHANGED <<db, sealedBy, url, delay, portal, env>>

\* config.Save writes the file; when it cannot, Register only logs it.
WriteFile(p) ==
    /\ pc[p] = "write"
    /\ file' = "nokey" \/ (Faulty /\ file' = file)
    /\ Succeed(p)
    /\ UNCHANGED <<db, sealedBy, key, url, delay, portal, env>>

\* Mutants of Backoff: no maximum, and no retry after the longest delay.
BackoffUncapped(p) ==
    /\ pc[p] = "wait" /\ delay <= MaxDelay
    /\ Goto(p, "check")
    /\ delay' = 2 * delay
    /\ UNCHANGED <<db, sealedBy, file, key, url, step, resp, attempt, portal, env>>
BackoffGivesUp(p) ==
    /\ pc[p] = "wait" /\ delay < MaxDelay
    /\ Goto(p, "check")
    /\ delay' = IF 2 * delay > MaxDelay THEN MaxDelay ELSE 2 * delay
    /\ UNCHANGED <<db, sealedBy, file, key, url, step, resp, attempt, portal, env>>

\* bootstrapWithRetry: the timer fires, the delay doubles up to the maximum.
Backoff(p) ==
    /\ pc[p] = "wait"
    /\ Goto(p, "check")
    /\ delay' = IF 2 * delay > MaxDelay THEN MaxDelay ELSE 2 * delay
    /\ UNCHANGED <<db, sealedBy, file, key, url, step, resp, attempt, portal, env>>

\* ReloadConfig: the token must be there and p's account must be able to
\* unprotect it.  resp holds the token the request is signed with.
ReloadConfig(p) ==
    /\ pc[p] = "reload"
    /\ \/ /\ db["agent_token"] # 0 /\ sealedBy = Account[p]
          /\ resp' = [resp EXCEPT ![p]["agent_token"] = db["agent_token"]]
          /\ Goto(p, "fetch") /\ UNCHANGED <<step, attempt>>
       \/ (db["agent_token"] = 0 \/ sealedBy # Account[p] \/ Faulty) /\ Fail(p)
    /\ UNCHANGED <<db, sealedBy, file, key, url, delay, portal, env>>

\* The Portal returns its configuration (required here), with a new token for
\* the same agent or without one, and saveConfiguration begins.
Fetched(p) ==
    /\ pc[p] = "fetch" /\ url[p]
    /\ \E tok \in {0, resp[p]["agent_token"]},
          omitted \in SUBSET (Optional \ {"portal_configuration"}) :
             resp' = [resp EXCEPT ![p] = Reply(0, tok, omitted)]
    /\ Goto(p, "save")
    /\ step' = [step EXCEPT ![p] = ConfigurationStep]
    /\ attempt' = [attempt EXCEPT ![p] = 0]
    /\ UNCHANGED <<db, sealedBy, file, key, url, delay, portal, env>>

\* The process ends; what it had in memory is gone.
Exit(p) ==
    /\ pc[p] = "running" \/ (pc[p] # "down" /\ Faulty)
    /\ Goto(p, "down")
    /\ Forget(p)
    /\ UNCHANGED <<db, sealedBy, file, key, url, delay, portal, env>>

-----------------------------------------------------------------------------
\* The administrator writes the enrollment key into the YAML file.
Configure ==
    /\ file \in {"absent", "nokey"} /\ db["agent_uuid"] = 0
    /\ file' = "key"
    /\ UNCHANGED <<db, sealedBy, local, portal, env>>

\* The Portal's configuration changes.
Revise ==
    /\ rev < MaxRev
    /\ rev' = rev + 1
    /\ UNCHANGED <<db, sealedBy, file, local, issued, bare, env>>

\* The faults end.
Calm ==
    /\ Faulty
    /\ env' = "calm"
    /\ UNCHANGED <<db, sealedBy, file, local, portal>>

Step(p) ==
    \/ Start(p) \/ EnsureRegistered(p) \/ Registered(p) \/ NoResponse(p)
    \/ BadResponse(p) \/ Save(p) \/ SaveFails(p) \/ ClearKey(p) \/ WriteFile(p)
    \/ Backoff(p) \/ ReloadConfig(p) \/ Fetched(p)

Next ==
    \/ \E p \in Procs : Step(p) \/ Exit(p)
    \/ Configure \/ Revise \/ Calm

Spec == Init /\ [][Next]_vars

\* A process that can take a step takes one: timers fire, requests time out,
\* and the service is started again after it ended (start= auto).
FairSpec == Spec /\ \A p \in Procs : WF_vars(Step(p))

-----------------------------------------------------------------------------
\* The type of every variable.
TypeOK ==
    /\ db \in [Keys -> Nat]
    /\ sealedBy \in Accounts \cup {None}
    /\ file \in {"absent", "nokey", "key", "torn"}
    /\ key \in [Procs -> BOOLEAN] /\ url \in [Procs -> BOOLEAN]
    /\ pc \in [Procs -> {"down", "check", "post", "save", "clear", "write",
                         "wait", "running", "reload", "fetch"}]
    /\ step \in [Procs -> 1..8]
    /\ resp \in [Procs -> [Keys -> Nat]]
    /\ attempt \in [Procs -> 0..Retries]
    /\ delay \in 1..MaxDelay
    /\ issued \in 0..(MaxIssued + 1) /\ rev \in 1..MaxRev
    /\ bare \in 0..MaxRev
    /\ env \in {"faulty", "calm"}

\* The stored token belongs to the stored agent UUID, through lost replies,
\* partial saves, crashes, restarts and token rotation by reload-config
\* (saveRegistration writes them in two statements).
CredentialsMatch == db["agent_token"] \in {0, db["agent_uuid"]}

\* The agent registers once: a stored agent UUID is never replaced.
UuidStable ==
    [][db["agent_uuid"] # 0 => db'["agent_uuid"] = db["agent_uuid"]]_vars

\* The enrollment key leaves config.yaml only when the whole registration is
\* in the database, so that no crash leaves the agent without both.
KeySpentAfterSave ==
    [][file = "key" /\ file' # "key" =>
          /\ db["agent_uuid"] # 0 /\ db["agent_token"] = db["agent_uuid"]
          /\ db["registration_time"] # 0
          /\ db["last_configuration_sync"] # 0]_vars

\* The version that "status" prints is not newer than the configuration: a
\* save that is interrupted between its keys, or whose reply lacks some, never
\* claims more than it stored.  Only a version that a registration reply gave
\* without any configuration (Register does not require one) is stored alone.
VersionNotAhead ==
    \/ db["configuration_version"] <= db["portal_configuration"]
    \/ db["configuration_version"] <= bare

\* Once the faults end a service that loaded the enrollment key completes
\* its bootstrap, through backoff and retries.
BootstrapCompletes ==
    (env = "calm" /\ key[Service]) ~> pc[Service] = "running"

\* The heartbeat starts only after successful registration: when the engines
\* run, the database has the agent's UUID and its token.
HeartbeatAfterRegistration ==
    pc[Service] = "running" => db["agent_uuid"] # 0 /\ db["agent_token"] # 0

\* When the engines run, the service can unprotect the stored token.
TokenReadableByService ==
    pc[Service] = "running" /\ db["agent_token"] # 0
        => sealedBy = Account[Service]
=============================================================================
