---------------------------- MODULE Deduplicate ----------------------------
(***************************************************************************)
(* internal/software/normalize.go with the reading order of the collector: *)
(* the uninstall keys of three registry views are read one view after the  *)
(* other, normalized, reduced to one record for each fingerprint and       *)
(* sorted.  The collector does that to what it read, and RunOnce does it   *)
(* again to the collector's result before hashing it.                      *)
(*                                                                         *)
(* A text is [word, upper, pad]: the letters, their case and the number of *)
(* superfluous blanks; word 0 is the empty text.  An installation keeps    *)
(* its name, the other identity fields as one (already normalized) value,  *)
(* its source, the length of its InstallLocation, and the registry key,    *)
(* which numbers the records in the order they are read.  The range over   *)
(* the Go map and sort.Slice promise no order among equals: Sort takes any *)
(* listing that agrees with the comparison.                                *)
(***************************************************************************)
EXTENDS Integers, Sequences, FiniteSets

CONSTANTS Words,     \* the names, as numbers in alphabetical order
          Pads,      \* superfluous blanks in a name as stored
          Editions,  \* publisher, version and architecture together
          Lengths,   \* lengths of InstallLocation
          Hash,      \* the SHA-256 sum of an identity, as a number
          MaxItems   \* bound: records in the registry

Sources == {"REGISTRY_MACHINE_64", "REGISTRY_MACHINE_32", "REGISTRY_USER"}

ASSUME DeduplicateAssumption ==
    /\ Words \subseteq Nat /\ Pads \subseteq Nat /\ Lengths \subseteq Nat
    /\ Hash \in [Words \X Editions -> Nat]
    /\ \A i, j \in Words \X Editions : Hash[i] = Hash[j] => i = j
    /\ MaxItems \in Nat

VARIABLES items,      \* the input of a pass, in the end the result
          next,       \* the index of the next record of the pass
          byFingerprint, \* the map, as the set of its values
          pc,         \* "read", "collector", "runOnce" or "done"
          collected,  \* history: what was read from the registry
          listed      \* history: the result of the collector's pass

vars == <<items, next, byFingerprint, pc, collected, listed>>

Text == [word : Words, upper : BOOLEAN, pad : Pads \cup {0}]
Installation == [name : Text, edition : Editions, source : Sources,
                 location : Lengths, key : 1..MaxItems]

Init ==
    /\ items = <<>> /\ next = 1 /\ byFingerprint = {}
    /\ pc = "read"
    /\ collected = <<>> /\ listed = <<>>

-----------------------------------------------------------------------------
sourceRank(source) == CASE source = "REGISTRY_MACHINE_64" -> 3
                        [] source = "REGISTRY_MACHINE_32" -> 2
                        [] source = "REGISTRY_USER" -> 1

\* Mutant of clean: it removes one blank.
cleanOne(text) == [text EXCEPT !.pad = IF @ = 0 THEN 0 ELSE @ - 1]

clean(text) == [text EXCEPT !.pad = 0]

NormalizeInstallation(item) == [item EXCEPT !.name = clean(@)]

\* Case and blanks do not count.
Fingerprint(item) == Hash[<<item.name.word, item.edition>>]

\* Mutant of Preferred: the later of two equally good records wins.
LaterPreferred(item, existing) == item.location >= existing.location

\* The record found later replaces the one in the map.
Preferred(item, existing) ==
    \/ sourceRank(item.source) > sourceRank(existing.source)
    \/ item.location > existing.location

Same(item) == {e \in byFingerprint : Fingerprint(e) = Fingerprint(item)}

\* Mutant of less: names only.
lessByName(left, right) == left.name.word < right.name.word

\* The comparison given to sort.Slice.
less(left, right) ==
    IF left.name.word = right.name.word
      THEN Fingerprint(left) < Fingerprint(right)
      ELSE left.name.word < right.name.word

\* Listings of a set of records in which no record precedes a smaller one.
Listings(set) ==
    {s \in [1..Cardinality(set) -> set] :
        /\ \A i, j \in DOMAIN s : i # j => s[i] # s[j]
        /\ \A i, j \in DOMAIN s : i < j => ~less(s[j], s[i])}

-----------------------------------------------------------------------------
\* readRegistryItem in a view that comes no earlier than the last one read.  A
\* key without a name is not returned, a view that cannot be read is skipped.
Read ==
    /\ pc = "read" /\ Len(items) < MaxItems
    /\ \E item \in [name : Text, edition : Editions, source : Sources,
                    location : Lengths, key : {Len(items) + 1}] :
          /\ item.name.word # 0
          /\ items # <<>> =>
                sourceRank(item.source) <= sourceRank(items[Len(items)].source)
          /\ items' = Append(items, item)
    /\ UNCHANGED <<next, byFingerprint, pc, collected, listed>>

\* The views are read: NormalizeAndDeduplicate begins.
EndRead ==
    /\ pc = "read"
    /\ pc' = "collector"
    /\ collected' = items
    /\ UNCHANGED <<items, next, byFingerprint, listed>>

\* The body of its loop.
Keep ==
    /\ pc \in {"collector", "runOnce"} /\ next <= Len(items)
    /\ LET item == NormalizeInstallation(items[next]) IN
         byFingerprint' =
            IF \/ item.name.word = 0
               \/ \E e \in Same(item) : ~Preferred(item, e)
              THEN byFingerprint
              ELSE (byFingerprint \ Same(item)) \cup {item}
    /\ next' = next + 1
    /\ UNCHANGED <<items, pc, collected, listed>>

\* The loop is over: the values of the map are listed and sorted, and the
\* result is the input of the second pass or of payloadFingerprint.
Sort ==
    /\ pc \in {"collector", "runOnce"} /\ next > Len(items)
    /\ items' \in Listings(byFingerprint)
    /\ listed' = IF pc = "collector" THEN items' ELSE listed
    /\ pc' = IF pc = "collector" THEN "runOnce" ELSE "done"
    /\ next' = 1 /\ byFingerprint' = {}
    /\ UNCHANGED collected

Next == Read \/ EndRead \/ Keep \/ Sort

Spec == Init /\ [][Next]_vars

-----------------------------------------------------------------------------
\* The type of every variable.
TypeOK ==
    /\ items \in Seq(Installation)
    /\ Len(items) <= MaxItems
    /\ next \in 1..(MaxItems + 1)
    /\ byFingerprint \subseteq Installation
    /\ pc \in {"read", "collector", "runOnce", "done"}
    /\ collected \in Seq(Installation) /\ listed \in Seq(Installation)

\* Of the records r and s with the same fingerprint r is at least as good: its
\* location is longer, or as long and r was read first, which is never from a
\* lower source.
Beats(r, s) ==
    \/ r.location > s.location
    \/ r.location = s.location /\ r.key <= s.key

\* The reference definition: one record for each fingerprint, its best one.
Reference ==
    {NormalizeInstallation(collected[i]) : i \in
        {j \in DOMAIN collected : \A k \in DOMAIN collected :
            Fingerprint(collected[k]) = Fingerprint(collected[j]) =>
                Beats(collected[j], collected[k])}}

\* What is hashed and sent is the reference selection: every application that
\* was read, once, whatever the order of the keys and of the Go map.
ResultIsReference ==
    pc = "done" => {items[i] : i \in DOMAIN items} = Reference

\* The order of the result is fixed by its content, so that an unchanged
\* machine hashes to the same payload fingerprint at every run: neither the
\* order of the map nor an unstable sort shows.
ResultOrdered ==
    pc = "done" => \A i, j \in DOMAIN items : i < j =>
        \/ items[i].name.word < items[j].name.word
        \/ /\ items[i].name.word = items[j].name.word
           /\ Fingerprint(items[i]) < Fingerprint(items[j])

\* RunOnce normalizes and deduplicates what the collector already did: the
\* second pass changes nothing.
SecondPassIdle == pc = "done" => items = listed
=============================================================================
