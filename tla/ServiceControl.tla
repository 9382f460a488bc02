--------------------------- MODULE ServiceControl ---------------------------
(***************************************************************************)
(* internal/windowsservice: the life of the service process under the      *)
(* Windows service control manager (SCM), and the commands install,        *)
(* uninstall, start, stop and restart, each a sequence of sc.exe calls     *)
(* that ends at the first error.                                           *)
(*                                                                         *)
(* sc.exe only hands a request to the SCM: "stop" returns when the control *)
(* was accepted, before Execute has even seen it, "start" when the process *)
(* has connected, "delete" marks a running service and removes it when its *)
(* process ends.  The SCM is external and may refuse any request.          *)
(***************************************************************************)
EXTENDS Integers, Sequences

VARIABLES scm,      \* the service's state as the SCM reports it
          marked,   \* marked for deletion
          stopping, \* a stop request is in Execute's channel
          ctx,      \* the context of runService: "none", "live", "cancelled"
          command,  \* the command at the prompt
          todo,     \* its sc.exe calls still to be made
          result,   \* "none", "ok" or "error"
          started   \* history: a process was started since the command began

scVars == <<scm, marked, stopping, ctx>>
cliVars == <<command, todo, result, started>>
serviceVars == <<scVars, cliVars>>

\* The calls of runSC behind each command.
Calls == [install |-> <<"create", "description">>, uninstall |-> <<"delete">>,
          start |-> <<"start">>, stop |-> <<"stop">>,
          restart |-> <<"stop", "start">>]

ServiceInit ==
    /\ scm \in {"absent", "stopped"} /\ marked = FALSE /\ stopping = FALSE
    /\ ctx = "none"
    /\ command = "none" /\ todo = <<>> /\ result = "none" /\ started = FALSE

-----------------------------------------------------------------------------
\* An administrator enters a command.
Invoke ==
    /\ command = "none"
    /\ \E c \in DOMAIN Calls : command' = c /\ todo' = Calls[c]
    /\ UNCHANGED <<scVars, result, started>>

\* The command's process exits and the prompt is free again.
Exit ==
    /\ result # "none"
    /\ command' = "none" /\ result' = "none" /\ started' = FALSE
    /\ UNCHANGED <<scVars, todo>>

\* When the SCM grants a request.
Grants(verb) ==
    CASE verb = "create" -> scm = "absent"
      [] verb = "description" -> scm # "absent"
      [] verb = "delete" -> scm # "absent" /\ ~marked
      [] verb = "start" -> scm = "stopped"
      [] verb = "stop" -> scm = "running"

\* What a granted request does at once.
Effect(verb) ==
    /\ scm' = CASE verb = "create" -> "stopped"
                [] verb = "start" -> "startPending"
                [] verb = "delete" /\ scm = "stopped" -> "absent"
                [] OTHER -> scm
    /\ marked' = (marked \/ (verb = "delete" /\ scm # "stopped"))
    /\ stopping' = (stopping \/ verb = "stop")
    /\ ctx' = IF verb = "start" THEN "live" ELSE ctx
    /\ started' = (started \/ verb = "start")

\* runSC returns nil; the command returns nil after its last call.
CallSucceeds ==
    /\ todo # <<>> /\ Grants(Head(todo))
    /\ Effect(Head(todo))
    /\ todo' = Tail(todo)
    /\ result' = IF Len(todo) = 1 THEN "ok" ELSE result
    /\ UNCHANGED command

\* Mutant of CallFails: the error of the last call is dropped.
LastErrorDropped ==
    /\ todo # <<>>
    /\ todo' = <<>>
    /\ result' = IF Len(todo) = 1 THEN "ok" ELSE "error"
    /\ UNCHANGED <<scVars, command, started>>

\* sc.exe exits with an error: the command returns it, the rest is not called.
CallFails ==
    /\ todo # <<>>
    /\ todo' = <<>> /\ result' = "error"
    /\ UNCHANGED <<scVars, command, started>>

-----------------------------------------------------------------------------
\* Execute reports StartPending, starts the goroutine and reports Running.
Dispatch ==
    /\ scm = "startPending"
    /\ scm' = "running"
    /\ UNCHANGED <<marked, stopping, ctx, cliVars>>

\* Mutant of HandleStop: the request is answered like an Interrogate.
StopAnswered ==
    /\ scm = "running" /\ stopping
    /\ stopping' = FALSE
    /\ UNCHANGED <<scm, marked, ctx, cliVars>>

\* Execute takes a Stop (or, from the system, a Shutdown): it reports
\* StopPending and calls h.stop, which cancels the context.
HandleStop ==
    /\ scm = "running" /\ stopping
    /\ scm' = "stopPending" /\ ctx' = "cancelled"
    /\ UNCHANGED <<marked, stopping, cliVars>>

Shutdown ==
    /\ scm = "running"
    /\ stopping' = TRUE
    /\ UNCHANGED <<scm, marked, ctx, cliVars>>

\* The process is gone; the SCM removes a marked service.
Gone ==
    /\ scm' = IF marked THEN "absent" ELSE "stopped"
    /\ marked' = FALSE /\ stopping' = FALSE /\ ctx' = "none"
    /\ UNCHANGED cliVars

\* Execute returns: runService returns too, without waiting for goroutines.
ExecuteReturns == scm = "stopPending" /\ Gone

\* The process is killed or crashes.  No recovery action is configured.
Killed == ctx # "none" /\ Gone

\* The system starts the service (start= auto) when the machine boots.
Boot ==
    /\ scm = "stopped"
    /\ scm' = "startPending" /\ ctx' = "live"
    /\ UNCHANGED <<marked, stopping, cliVars>>

ServiceTypeOK ==
    /\ scm \in {"absent", "stopped", "startPending", "running", "stopPending"}
    /\ marked \in BOOLEAN /\ stopping \in BOOLEAN
    /\ ctx \in {"none", "live", "cancelled"}
    /\ ctx = "none" <=> scm \in {"absent", "stopped"}
    /\ command \in DOMAIN Calls \cup {"none"}
    /\ todo \in Seq({"create", "description", "delete", "start", "stop"})
    /\ result \in {"none", "ok", "error"} /\ started \in BOOLEAN

\* A start or restart that reports success has started a process.  Restart
\* calls sc start while the service is mostly still stopping; the SCM then
\* refuses, and the command must say that the service stays down.
RestartNotSilent ==
    command \in {"start", "restart"} /\ result = "ok" => started

\* A stop that the SCM accepted ends the process, whatever the goroutines are
\* doing, and with it goes a service that was uninstalled while it ran (the
\* removal that docs/installation.md gives: stop, then uninstall).
StopCarriedOut ==
    /\ (stopping /\ ~marked) ~> (ctx = "none")
    /\ (stopping /\ marked) ~> (scm = "absent")
=============================================================================
