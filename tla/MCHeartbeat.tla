---------------------------- MODULE MCHeartbeat ----------------------------
(***************************************************************************)
(* Instances of Heartbeat with half seconds as units: configurations that  *)
(* give a usable interval, and all of them.                                *)
(***************************************************************************)
EXTENDS Heartbeat

Float(n) == [type |-> "float", value |-> n]
Text(n) == [type |-> "string", value |-> n]
Other == [type |-> "other", value |-> 0]

UsableConfigs ==
    {<<Float(-2), Float(3)>>, \* falls through to the second key, 1.5 s cut to 1 s
     <<Text(3), Other>>}      \* 1.5 s
AllConfigs == UsableConfigs \cup
    {<<Other, Other>>,        \* the default, 1 s
     <<Float(1), Other>>,     \* 0.5 s
     <<Float(10), Other>>}    \* overflows
=============================================================================
