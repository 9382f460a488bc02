-------------------------- MODULE OfflineDelivery --------------------------
(***************************************************************************)
(* What the sync engine promises of a payload it reports as queued: an     *)
(* outbox that delivers in the order of acceptance, at least once, keeps a *)
(* payload until the Portal acknowledged it, and repeats at most the       *)
(* oldest one.  Payloads are numbered in the order they were accepted.     *)
(***************************************************************************)
EXTENDS Integers

VARIABLES accepted,   \* how many payloads were accepted so far
          pending,    \* the accepted payloads still kept
          delivered   \* the payloads the Portal acknowledged

vars == <<accepted, pending, delivered>>

Init == accepted = 0 /\ pending = {} /\ delivered = {}

\* A payload becomes the youngest of the outbox.
Accept ==
    /\ accepted' = accepted + 1
    /\ pending' = pending \cup {accepted'}
    /\ UNCHANGED delivered

\* n is the oldest payload of the outbox.
Oldest(n) == n \in pending /\ \A m \in pending : n <= m

\* The Portal acknowledges the oldest payload.
Deliver(n) ==
    /\ Oldest(n)
    /\ delivered' = delivered \cup {n}
    /\ UNCHANGED <<accepted, pending>>

\* The oldest payload is forgotten, which takes an acknowledgement.
Settle(n) ==
    /\ Oldest(n) /\ n \in delivered
    /\ pending' = pending \ {n}
    /\ UNCHANGED <<accepted, delivered>>

Next == Accept \/ \E n \in pending : Deliver(n) \/ Settle(n)

Spec == Init /\ [][Next]_vars
=============================================================================
