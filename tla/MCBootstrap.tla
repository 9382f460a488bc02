---------------------------- MODULE MCBootstrap -----------------------------
(***************************************************************************)
(* Instances of Bootstrap: the service beside a reload-config command, one *)
(* command prompt that registers and reloads, the service alone, and the   *)
(* service beside a register command under the same or another account.    *)
(***************************************************************************)
EXTENDS Bootstrap

CONSTANTS svc, cli, system, admin

OnlyRegisters == [p \in {svc} |-> {"register"}]
Commands == [p \in {cli} |-> {"register", "reload"}]
ServiceAndReload ==
    [p \in {svc, cli} |-> IF p = svc THEN {"register"} ELSE {"reload"}]
ServiceAndRegister == [p \in {svc, cli} |-> {"register"}]
SameAccount == [p \in {svc, cli} |-> system]
SystemOnly == [p \in {svc} |-> system]
AdminOnly == [p \in {cli} |-> admin]
OwnAccount == [p \in {svc, cli} |-> IF p = svc THEN system ELSE admin]
=============================================================================
