--------------------------- MODULE MCDeduplicate ----------------------------
(***************************************************************************)
(* An instance of Deduplicate: the fingerprints of one name are not in the *)
(* order of its editions, as hash values need not be.                      *)
(***************************************************************************)
EXTENDS Deduplicate

Sha == [i \in Words \X Editions |-> 10 * (5 - i[1]) + ((7 * i[2]) % 5)]
=============================================================================
