------------------------- MODULE DeduplicateProofs -------------------------
(***************************************************************************)
(* Theorems about Deduplicate, for any names, editions, locations and      *)
(* injective hash, and any number of records.                              *)
(***************************************************************************)
EXTENDS Deduplicate, FiniteSetTheorems, SequenceTheorems, TLAPS

-----------------------------------------------------------------------------
(***************************************************************************)
(* The inductive invariant.                                                *)
(***************************************************************************)

\* The types, and where the two passes are in their input.
PassInv ==
    /\ next <= Len(items) + 1
    /\ IsFiniteSet(byFingerprint) /\ Cardinality(byFingerprint) <= next - 1
    /\ pc = "read" => next = 1 /\ byFingerprint = {}

TypeInv == TypeOK /\ PassInv

\* What reading the registry guarantees of the records: numbered in order,
\* named, and never from a higher source than the one before.
InReadingOrder(s) ==
    \A i \in 1..Len(s) :
        /\ s[i].key = i /\ s[i].name.word # 0
        /\ \A j \in 1..i : sourceRank(s[i].source) <= sourceRank(s[j].source)

\* No two records of a set have the same fingerprint.
Distinct(S) == \A e, f \in S : Fingerprint(e) = Fingerprint(f) => e = f

\* A record as a pass leaves it: named and normalized.
Clean(e) == e \in Installation /\ e.name.word # 0 /\ NormalizeInstallation(e) = e

\* The collector's pass: the map has one record of each fingerprint seen so
\* far, a normalized one of the input that is as good as any.
CollectorInv ==
    pc = "collector" =>
        /\ items = collected
        /\ Distinct(byFingerprint)
        /\ \A e \in byFingerprint :
              \E i \in 1..(next - 1) : e = NormalizeInstallation(items[i])
        /\ \A i \in 1..(next - 1) : \E e \in byFingerprint :
              Fingerprint(e) = Fingerprint(items[i]) /\ Beats(e, items[i])

\* After it: the reference selection is listed.
ListedInv ==
    pc \in {"runOnce", "done"} =>
        /\ listed \in Listings(Reference)
        /\ IsFiniteSet(Reference) /\ Distinct(Reference)
        /\ \A e \in Reference : Clean(e)

\* The pass of RunOnce: it finds every record it is given worth keeping.
RunOnceInv ==
    /\ pc = "runOnce" => /\ items = listed
                         /\ byFingerprint = {items[i] : i \in 1..(next - 1)}
    /\ pc = "done" => items \in Listings(Reference)

OrderInv == InReadingOrder(IF pc = "read" THEN items ELSE collected)

IInv == TypeInv /\ OrderInv /\ CollectorInv /\ ListedInv /\ RunOnceInv

-----------------------------------------------------------------------------
(***************************************************************************)
(* The operators.                                                          *)
(***************************************************************************)

\* Normalizing a record cleans its name and leaves the rest.
LEMMA Normalized ==
    ASSUME NEW r \in Installation
    PROVE  LET n == NormalizeInstallation(r) IN
             /\ n \in Installation /\ NormalizeInstallation(n) = n
             /\ n.name.word = r.name.word /\ n.edition = r.edition
             /\ n.source = r.source /\ n.location = r.location /\ n.key = r.key
             /\ Fingerprint(n) = Fingerprint(r)
  <1> DEFINE n == NormalizeInstallation(r)
  <1>1. r.name \in Text
    BY DEF Installation
  <1>2. /\ clean(r.name) \in Text /\ clean(r.name).word = r.name.word
        /\ clean(clean(r.name)) = clean(r.name)
    BY <1>1 DEF clean, Text
  <1>3. /\ n \in Installation /\ n.name = clean(r.name) /\ n.edition = r.edition
        /\ n.source = r.source /\ n.location = r.location /\ n.key = r.key
    BY <1>2 DEF NormalizeInstallation, Installation
  <1>4. NormalizeInstallation(n) = n
    BY <1>2, <1>3 DEF NormalizeInstallation, Installation
  <1> QED
    BY <1>2, <1>3, <1>4 DEF Fingerprint

\* What the comparisons are made of.
LEMMA RecordFields ==
    ASSUME NEW r \in Installation
    PROVE  /\ r.name.word \in Nat /\ r.location \in Nat /\ r.key \in Nat
           /\ Fingerprint(r) \in Nat /\ sourceRank(r.source) \in Nat
  <1>1. r.name \in Text /\ r.edition \in Editions /\ r.source \in Sources
    BY DEF Installation
  <1>2. r.name.word \in Words
    BY <1>1 DEF Text
  <1> QED
    BY <1>1, <1>2, DeduplicateAssumption
       DEF Installation, Fingerprint, Sources, sourceRank

\* Records with the same name and fingerprint order are told apart by less.
LEMMA LessTotal ==
    ASSUME NEW r \in Installation, NEW s \in Installation,
           Fingerprint(r) # Fingerprint(s), ~less(s, r)
    PROVE  less(r, s)
  BY RecordFields DEF less

\* less is a strict order.
LEMMA LessOrder ==
    ASSUME NEW r \in Installation, NEW s \in Installation
    PROVE  ~less(r, r) /\ ~(less(r, s) /\ less(s, r))
  BY RecordFields DEF less

\* A listing names every record of its set, once.
LEMMA ListingIsBijection ==
    ASSUME NEW S, IsFiniteSet(S), NEW s \in Listings(S)
    PROVE  /\ Cardinality(S) \in Nat /\ DOMAIN s = 1..Cardinality(S)
           /\ \A i \in DOMAIN s : s[i] \in S
           /\ \A i, j \in DOMAIN s : i # j => s[i] # s[j]
           /\ \A i, j \in DOMAIN s : i < j => ~less(s[j], s[i])
           /\ \A x \in S : \E i \in DOMAIN s : s[i] = x
  <1> DEFINE n == Cardinality(S)
  <1>1. n \in Nat
    BY FS_CardinalityType
  <1>2. /\ s \in [1..n -> S]
        /\ \A i, j \in DOMAIN s : i # j => s[i] # s[j]
        /\ \A i, j \in DOMAIN s : i < j => ~less(s[j], s[i])
    BY DEF Listings
  <1> HIDE DEF n
  <1>3. s \in Injection(1..n, S)
    BY <1>2 DEF Injection, IsInjective
  <1>4. IsFiniteSet(1..n) /\ Cardinality(1..n) = n
    BY <1>1, FS_Interval
  <1>5. s \in Surjection(1..n, S)
    BY <1>3, <1>4, FS_Injection DEF n
  <1> QED
    BY <1>1, <1>2, <1>5 DEF Surjection, n

\* The listing as a sequence.
LEMMA ListingIsSequence ==
    ASSUME NEW S, IsFiniteSet(S), S \subseteq Installation, NEW s \in Listings(S)
    PROVE  s \in Seq(Installation) /\ Len(s) = Cardinality(S)
  <1>1. Cardinality(S) \in Nat
    BY FS_CardinalityType
  <1>2. s \in [1..Cardinality(S) -> Installation]
    BY DEF Listings
  <1> QED
    BY <1>1, <1>2

\* In a listing of records with distinct fingerprints they ascend.
LEMMA ListingAscends ==
    ASSUME NEW S, IsFiniteSet(S), S \subseteq Installation, Distinct(S),
           NEW s \in Listings(S), NEW i \in DOMAIN s, NEW j \in DOMAIN s, i < j
    PROVE  less(s[i], s[j])
  <1>1. s[i] \in S /\ s[j] \in S /\ s[i] # s[j] /\ ~less(s[j], s[i])
    <2>1. DOMAIN s \subseteq Nat
      BY ListingIsBijection
    <2> QED
      BY <2>1, ListingIsBijection
  <1>2. Fingerprint(s[i]) # Fingerprint(s[j])
    BY <1>1 DEF Distinct
  <1> QED
    BY <1>1, <1>2, LessTotal

\* The place of a record in a listing is the number of smaller records.
LEMMA Place ==
    ASSUME NEW S, IsFiniteSet(S), S \subseteq Installation, Distinct(S),
           NEW s \in Listings(S), NEW i \in DOMAIN s
    PROVE  Cardinality({x \in S : less(x, s[i])}) = i - 1
  <1> DEFINE T == {x \in S : less(x, s[i])}
             f == [j \in 1..(i - 1) |-> s[j]]
  <1>1. /\ DOMAIN s = 1..Cardinality(S) /\ Cardinality(S) \in Nat /\ i \in Nat /\ i >= 1
        /\ \A j \in DOMAIN s : s[j] \in S /\ s[j] \in Installation
        /\ \A j, k \in DOMAIN s : j # k => s[j] # s[k]
        /\ \A x \in S : \E j \in DOMAIN s : s[j] = x
    BY ListingIsBijection
  <1>2. \A j \in 1..(i - 1) : j \in DOMAIN s /\ j < i
    BY <1>1
  <1>3. \A j \in 1..(i - 1) : s[j] \in T
    BY <1>1, <1>2, ListingAscends
  <1>4. \A x \in T : \E j \in 1..(i - 1) : s[j] = x
    <2> SUFFICES ASSUME NEW j \in DOMAIN s, less(s[j], s[i]) PROVE j \in 1..(i - 1)
      BY <1>1
    <2>1. j # i
      BY <1>1, LessOrder
    <2>2. ~(i < j)
      <3> SUFFICES ASSUME i < j PROVE FALSE
        OBVIOUS
      <3>1. less(s[i], s[j])
        BY ListingAscends
      <3> QED
        BY <1>1, <3>1, LessOrder
    <2> QED
      BY <1>1, <2>1, <2>2
  <1>5. f \in Bijection(1..(i - 1), T)
    <2>1. f \in [1..(i - 1) -> T]
      BY <1>3
    <2>2. f \in Injection(1..(i - 1), T)
      BY <1>1, <1>2, <2>1 DEF Injection, IsInjective
    <2>3. f \in Surjection(1..(i - 1), T)
      BY <1>4, <2>1 DEF Surjection
    <2> QED
      BY <2>2, <2>3 DEF Bijection
  <1>6. IsFiniteSet(1..(i - 1)) /\ Cardinality(1..(i - 1)) = i - 1
    <2> DEFINE m == i - 1
    <2>1. m \in Nat
      BY <1>1
    <2> HIDE DEF m
    <2>2. IsFiniteSet(1..m) /\ Cardinality(1..m) = IF 1 > m THEN 0 ELSE m - 1 + 1
      BY <2>1, FS_Interval
    <2>3. Cardinality(1..m) = m
      BY <2>1, <2>2
    <2> QED
      BY <2>2, <2>3 DEF m
  <1> HIDE DEF f, T
  <1>7. ExistsBijection(1..(i - 1), T)
    BY <1>5 DEF ExistsBijection
  <1>8. Cardinality(T) = i - 1
    BY <1>6, <1>7, FS_Bijection
  <1> QED
    BY <1>8 DEF T

\* Records with distinct fingerprints have one listing: neither the order of
\* the map nor the instability of the sort shows.
LEMMA ListingUnique ==
    ASSUME NEW S, IsFiniteSet(S), S \subseteq Installation, Distinct(S),
           NEW s \in Listings(S), NEW t \in Listings(S)
    PROVE  s = t
  <1>1. /\ s \in [1..Cardinality(S) -> S] /\ t \in [1..Cardinality(S) -> S]
        /\ Cardinality(S) \in Nat
    BY FS_CardinalityType DEF Listings
  <1>2. ASSUME NEW i \in 1..Cardinality(S) PROVE s[i] = t[i]
    <2>1. i \in DOMAIN s /\ s[i] \in S
      BY <1>1, <1>2
    <2>2. PICK j \in DOMAIN t : t[j] = s[i]
      BY <2>1, ListingIsBijection
    <2>3. /\ Cardinality({x \in S : less(x, s[i])}) = i - 1
          /\ Cardinality({x \in S : less(x, t[j])}) = j - 1
      BY <2>1, Place
    <2>4. j \in Nat /\ i \in Nat /\ j - 1 = i - 1
      BY <1>1, <2>2, <2>3
    <2>5. i = j
      BY <2>4
    <2> QED
      BY <2>2, <2>5
  <1> QED
    BY <1>1, <1>2

-----------------------------------------------------------------------------
(***************************************************************************)
(* Types.                                                                  *)
(***************************************************************************)

\* The record that Read appends.
LEMMA ReadRecord ==
    ASSUME TypeInv, Read
    PROVE  \E r \in Installation :
              /\ r.key = Len(items) + 1 /\ r.name.word # 0
              /\ items # <<>> =>
                    sourceRank(r.source) <= sourceRank(items[Len(items)].source)
              /\ items' = Append(items, r)
  <1>1. Len(items) + 1 \in 1..MaxItems
    BY LenProperties, DeduplicateAssumption DEF TypeInv, TypeOK, Read
  <1>2. PICK r \in [name : Text, edition : Editions, source : Sources,
                    location : Lengths, key : {Len(items) + 1}] :
              /\ r.name.word # 0
              /\ items # <<>> =>
                    sourceRank(r.source) <= sourceRank(items[Len(items)].source)
              /\ items' = Append(items, r)
    BY DEF Read
  <1>3. r \in Installation /\ r.key = Len(items) + 1
    BY <1>1, <1>2 DEF Installation
  <1> QED
    BY <1>2, <1>3

\* The record that Keep looks at, and what it does to the map.
LEMMA KeepRecord ==
    ASSUME TypeInv, Keep
    PROVE  LET item == NormalizeInstallation(items[next]) IN
             /\ next \in 1..Len(items) /\ Len(items) \in Nat
             /\ items[next] \in Installation /\ item \in Installation
             /\ \/ byFingerprint' = byFingerprint
                \/ byFingerprint' = (byFingerprint \ Same(item)) \cup {item}
  <1>1. /\ next \in 1..Len(items) /\ Len(items) \in Nat
        /\ items[next] \in Installation
    BY LenProperties, ElementOfSeq DEF TypeInv, TypeOK, Keep
  <1>2. NormalizeInstallation(items[next]) \in Installation
    BY <1>1, Normalized
  <1> QED
    BY <1>1, <1>2 DEF Keep

LEMMA TypeInit == Init => TypeInv
  <1> SUFFICES ASSUME Init PROVE TypeInv
    OBVIOUS
  <1>1. <<>> \in Seq(Installation) /\ Len(<<>>) = 0
    OBVIOUS
  <1>2. IsFiniteSet({}) /\ Cardinality({}) = 0
    BY FS_EmptySet
  <1>3. PassInv
    BY <1>1, <1>2 DEF Init, PassInv
  <1>4. TypeOK
    BY <1>1, DeduplicateAssumption DEF Init, TypeOK
  <1> QED
    BY <1>3, <1>4 DEF TypeInv

LEMMA TypeStep == TypeInv /\ [Next]_vars => TypeInv'
  <1> SUFFICES ASSUME TypeInv, [Next]_vars PROVE TypeInv'
    OBVIOUS
  <1>1. TypeOK /\ PassInv
    BY DEF TypeInv
  <1>2. /\ items \in Seq(Installation) /\ Len(items) \in Nat /\ Len(items) <= MaxItems
        /\ next \in Nat /\ next >= 1 /\ MaxItems \in Nat
        /\ Cardinality(byFingerprint) \in Nat
    BY <1>1, LenProperties, FS_CardinalityType, DeduplicateAssumption DEF TypeOK, PassInv
  <1>3. CASE Read
    <2>1. PICK r \in Installation : items' = Append(items, r)
      BY <1>3, ReadRecord
    <2>2. items' \in Seq(Installation) /\ Len(items') = Len(items) + 1
      BY <1>2, <2>1, AppendProperties
    <2>3. pc = "read" /\ Len(items) < MaxItems
          /\ UNCHANGED <<next, byFingerprint, pc, collected, listed>>
      BY <1>3 DEF Read
    <2>4. TypeOK'
      BY <1>1, <1>2, <2>2, <2>3 DEF TypeOK
    <2>5. PassInv'
      BY <1>1, <1>2, <2>2, <2>3 DEF PassInv
    <2> QED
      BY <2>4, <2>5 DEF TypeInv
  <1>4. CASE EndRead
    BY <1>1, <1>4 DEF EndRead, TypeInv, TypeOK, PassInv
  <1>5. CASE Keep
    <2> DEFINE item == NormalizeInstallation(items[next])
               rest == byFingerprint \ Same(item)
    <2>1. /\ next \in 1..Len(items) /\ item \in Installation
          /\ byFingerprint' = byFingerprint \/ byFingerprint' = rest \cup {item}
      BY <1>5, KeepRecord
    <2>2. UNCHANGED <<items, pc, collected, listed>> /\ next' = next + 1
          /\ pc # "read"
      BY <1>5 DEF Keep
    <2>3. IsFiniteSet(rest) /\ Cardinality(rest) <= Cardinality(byFingerprint)
          /\ Cardinality(rest) \in Nat
      BY <1>1, FS_Subset, FS_CardinalityType DEF PassInv
    <2>4. rest \subseteq Installation
      BY <1>1 DEF TypeOK
    <2> HIDE DEF rest, item
    <2>5. /\ IsFiniteSet(rest \cup {item})
          /\ Cardinality(rest \cup {item}) <= Cardinality(rest) + 1
          /\ Cardinality(rest \cup {item}) \in Nat
      BY <2>3, FS_AddElement
    <2>6. TypeOK'
      BY <1>1, <1>2, <2>1, <2>2, <2>4 DEF TypeOK
    <2>7. IsFiniteSet(byFingerprint') /\ Cardinality(byFingerprint') <= next
      <3>1. IsFiniteSet(byFingerprint) /\ Cardinality(byFingerprint) <= next - 1
        BY <1>1 DEF PassInv
      <3>2. CASE byFingerprint' = byFingerprint
        BY <1>2, <3>1, <3>2
      <3>3. CASE byFingerprint' = rest \cup {item}
        <4>1. Cardinality(rest \cup {item}) <= next
          BY <1>2, <2>3, <2>5, <3>1
        <4> QED
          BY <2>5, <3>3, <4>1
      <3> QED
        BY <2>1, <3>2, <3>3
    <2>8. PassInv'
      BY <1>2, <2>1, <2>2, <2>7 DEF PassInv
    <2> QED
      BY <2>6, <2>8 DEF TypeInv
  <1>6. CASE Sort
    <2>1. /\ items' \in Listings(byFingerprint)
          /\ next' = 1 /\ byFingerprint' = {} /\ collected' = collected
          /\ listed' \in {items', listed} /\ pc' \in {"runOnce", "done"}
      BY <1>6 DEF Sort
    <2>2. IsFiniteSet(byFingerprint) /\ byFingerprint \subseteq Installation
      BY <1>1 DEF TypeOK, PassInv
    <2>3. items' \in Seq(Installation) /\ Len(items') = Cardinality(byFingerprint)
      BY <2>1, <2>2, ListingIsSequence
    <2>4. Cardinality(byFingerprint) <= MaxItems
      BY <1>1, <1>2 DEF TypeOK, PassInv
    <2>5. TypeOK'
      BY <1>1, <1>2, <2>1, <2>3, <2>4 DEF TypeOK
    <2>6. IsFiniteSet({}) /\ Cardinality({}) = 0
      BY FS_EmptySet
    <2>7. PassInv'
      BY <1>2, <2>1, <2>3, <2>6 DEF PassInv
    <2> QED
      BY <2>5, <2>7 DEF TypeInv
  <1>7. CASE UNCHANGED vars
    BY <1>1, <1>7 DEF vars, TypeInv, TypeOK, PassInv
  <1> QED
    BY <1>3, <1>4, <1>5, <1>6, <1>7 DEF Next

\* Every variable keeps its type; a result is no longer than what was read.
THEOREM TypeCorrect == Spec => []TypeOK
  <1>1. TypeInv => TypeOK
    BY DEF TypeInv
  <1> QED
    BY <1>1, TypeInit, TypeStep, PTL DEF Spec

-----------------------------------------------------------------------------
(***************************************************************************)
(* The two passes.                                                         *)
(***************************************************************************)
LEMMA OrderStep == TypeInv /\ OrderInv /\ [Next]_vars => OrderInv'
  <1> SUFFICES ASSUME TypeInv, OrderInv, [Next]_vars PROVE OrderInv'
    OBVIOUS
  <1>1. CASE Read
    <2>1. pc = "read" /\ pc' = "read" /\ InReadingOrder(items)
      BY <1>1 DEF Read, OrderInv
    <2>2. PICK r \in Installation :
              /\ r.key = Len(items) + 1 /\ r.name.word # 0
              /\ items # <<>> =>
                    sourceRank(r.source) <= sourceRank(items[Len(items)].source)
              /\ items' = Append(items, r)
      BY <1>1, ReadRecord
    <2>3. items \in Seq(Installation) /\ Len(items) \in Nat
      BY LenProperties DEF TypeInv, TypeOK
    <2>4. /\ Len(items') = Len(items) + 1
          /\ \A i \in 1..Len(items) : items'[i] = items[i]
          /\ items'[Len(items) + 1] = r
      BY <2>2, <2>3, AppendProperties
    <2>5. ASSUME NEW j \in 1..Len(items)
          PROVE  sourceRank(r.source) <= sourceRank(items[j].source)
      <3>1. items # <<>> /\ Len(items) \in 1..Len(items) /\ j \in 1..Len(items)
        BY <2>3, <2>5
      <3>2. /\ sourceRank(r.source) <= sourceRank(items[Len(items)].source)
            /\ sourceRank(items[Len(items)].source) <= sourceRank(items[j].source)
        BY <2>1, <2>2, <3>1 DEF InReadingOrder
      <3>3. items[j] \in Installation /\ items[Len(items)] \in Installation
        BY <2>3, <3>1, ElementOfSeq
      <3>4. /\ sourceRank(r.source) \in Nat /\ sourceRank(items[j].source) \in Nat
            /\ sourceRank(items[Len(items)].source) \in Nat
        BY <2>2, <3>3, RecordFields
      <3> QED
        BY <3>2, <3>4
    <2>6. ASSUME NEW i \in 1..Len(items')
          PROVE  /\ items'[i].key = i /\ items'[i].name.word # 0
                 /\ \A j \in 1..i :
                       sourceRank(items'[i].source) <= sourceRank(items'[j].source)
      <3>1. CASE i \in 1..Len(items)
        <4>1. \A j \in 1..i : j \in 1..Len(items)
          BY <2>3, <3>1
        <4> QED
          BY <2>1, <2>4, <3>1, <4>1 DEF InReadingOrder
      <3>2. CASE i = Len(items) + 1
        <4>1. sourceRank(r.source) \in Nat
          BY <2>2, RecordFields
        <4>2. \A j \in 1..i : j \in 1..Len(items) \/ j = i
          BY <2>3, <3>2
        <4> QED
          BY <2>2, <2>4, <2>5, <3>2, <4>1, <4>2
      <3> QED
        BY <2>3, <2>4, <2>6, <3>1, <3>2
    <2> QED
      BY <2>1, <2>6 DEF OrderInv, InReadingOrder
  <1>2. CASE EndRead
    BY <1>2 DEF EndRead, OrderInv, InReadingOrder
  <1>3. CASE Keep \/ Sort
    <2>1. pc # "read" /\ pc' # "read" /\ collected' = collected
      BY <1>3 DEF Keep, Sort
    <2> QED
      BY <2>1 DEF OrderInv, InReadingOrder
  <1>4. CASE UNCHANGED vars
    BY <1>4 DEF vars, OrderInv, InReadingOrder
  <1> QED
    BY <1>1, <1>2, <1>3, <1>4 DEF Next

\* The records of the input, in the collector's pass.
LEMMA CollectorInput ==
    ASSUME TypeInv, OrderInv, CollectorInv, pc = "collector"
    PROVE  /\ items = collected /\ Len(items) \in Nat
           /\ \A i \in 1..Len(items) :
                 /\ items[i] \in Installation /\ items[i].key = i
                 /\ items[i].name.word # 0
                 /\ \A j \in 1..i :
                       sourceRank(items[i].source) <= sourceRank(items[j].source)
  <1>1. items = collected /\ items \in Seq(Installation)
    BY DEF TypeInv, TypeOK, CollectorInv
  <1>2. Len(items) \in Nat /\ \A i \in 1..Len(items) : items[i] \in Installation
    BY <1>1, LenProperties, ElementOfSeq
  <1>3. InReadingOrder(items)
    BY <1>1 DEF OrderInv
  <1> QED
    BY <1>1, <1>2, <1>3 DEF InReadingOrder

\* A record that replaces another has a longer location: its source is never
\* a higher one, because the views are read from the highest to the lowest.
LEMMA ReplacedIsShorter ==
    ASSUME TypeInv, OrderInv, CollectorInv, pc = "collector", Keep,
           NEW e \in Same(NormalizeInstallation(items[next]))
    PROVE  /\ e.location \in Nat /\ e.key \in Nat /\ e.key < next
           /\ Preferred(NormalizeInstallation(items[next]), e) <=>
                 items[next].location > e.location
  <1> DEFINE item == NormalizeInstallation(items[next])
  <1>1. e \in byFingerprint /\ Fingerprint(e) = Fingerprint(item)
    BY DEF Same
  <1>2. PICK i \in 1..(next - 1) : e = NormalizeInstallation(items[i])
    BY <1>1 DEF CollectorInv
  <1>3. next \in 1..Len(items) /\ Len(items) \in Nat
    BY KeepRecord
  <1>4. i \in 1..Len(items) /\ i \in 1..next /\ i < next
    BY <1>3
  <1>5. /\ items[i] \in Installation /\ items[next] \in Installation
        /\ items[i].key = i
        /\ sourceRank(items[next].source) <= sourceRank(items[i].source)
    BY <1>3, <1>4, CollectorInput
  <1>6. /\ e.location = items[i].location /\ e.key = i /\ e.source = items[i].source
        /\ item.location = items[next].location /\ item.source = items[next].source
    BY <1>2, <1>5, Normalized
  <1>7. /\ items[i].location \in Nat /\ items[next].location \in Nat
        /\ sourceRank(items[i].source) \in Nat
        /\ sourceRank(items[next].source) \in Nat
    BY <1>5, RecordFields
  <1>8. ~(sourceRank(item.source) > sourceRank(e.source))
    BY <1>5, <1>6, <1>7
  <1> HIDE DEF item
  <1>9. Preferred(item, e) <=> items[next].location > e.location
    BY <1>6, <1>8 DEF Preferred
  <1> QED
    BY <1>4, <1>6, <1>7, <1>9 DEF item

LEMMA KeepCollector ==
    ASSUME TypeInv, OrderInv, CollectorInv, pc = "collector", Keep
    PROVE  CollectorInv'
  <1> DEFINE r == items[next]
             item == NormalizeInstallation(r)
  <1>1. next \in 1..Len(items) /\ Len(items) \in Nat /\ next' = next + 1
        /\ UNCHANGED <<items, pc, collected, listed>>
    BY KeepRecord DEF Keep
  <1>2. r \in Installation /\ r.key = next /\ r.name.word # 0 /\ items = collected
    BY <1>1, CollectorInput
  <1>3. /\ item \in Installation /\ item.name.word # 0 /\ item.location = r.location
        /\ item.key = next /\ Fingerprint(item) = Fingerprint(r)
        /\ r.location \in Nat /\ next \in Nat
    BY <1>1, <1>2, Normalized, RecordFields
  <1>4. byFingerprint' = IF \E e \in Same(item) : ~Preferred(item, e)
                           THEN byFingerprint
                           ELSE (byFingerprint \ Same(item)) \cup {item}
    BY <1>3 DEF Keep
  <1>5. \A e \in Same(item) :
            /\ e.location \in Nat /\ e.key \in Nat /\ e.key < next
            /\ Preferred(item, e) <=> r.location > e.location
    BY ReplacedIsShorter
  <1>6. /\ Distinct(byFingerprint)
        /\ \A e \in byFingerprint :
              \E i \in 1..(next - 1) : e = NormalizeInstallation(items[i])
        /\ \A i \in 1..(next - 1) : \E e \in byFingerprint :
              Fingerprint(e) = Fingerprint(items[i]) /\ Beats(e, items[i])
    BY DEF CollectorInv
  <1>7. \A i \in 1..next : i \in 1..(next - 1) \/ i = next
    BY <1>1
  <1>8. \A i \in 1..(next - 1) : i \in 1..next
    BY <1>1
  <1> SUFFICES
        /\ Distinct(byFingerprint')
        /\ \A e \in byFingerprint' :
              \E i \in 1..next : e = NormalizeInstallation(items[i])
        /\ \A i \in 1..next : \E e \in byFingerprint' :
              Fingerprint(e) = Fingerprint(items[i]) /\ Beats(e, items[i])
    <2>1. next' - 1 = next
      BY <1>1
    <2> QED
      BY <1>1, <1>2, <2>1 DEF CollectorInv, Distinct
  <1> HIDE DEF item
  <1>9. CASE \E e \in Same(item) : ~Preferred(item, e)
    <2>1. PICK e \in Same(item) : ~Preferred(item, e)
      BY <1>9
    <2>2. e \in byFingerprint /\ Fingerprint(e) = Fingerprint(r)
      BY <1>3 DEF Same
    <2>3. /\ e.location \in Nat /\ e.key \in Nat /\ e.key < next
          /\ ~(r.location > e.location)
      BY <1>5, <2>1
    <2>4. Beats(e, r)
      BY <1>2, <1>3, <2>3 DEF Beats
    <2>5. byFingerprint' = byFingerprint
      BY <1>4, <1>9
    <2>6. \A d \in byFingerprint' :
              \E i \in 1..next : d = NormalizeInstallation(items[i])
      BY <1>6, <1>8, <2>5
    <2>7. \A i \in 1..next : \E d \in byFingerprint' :
              Fingerprint(d) = Fingerprint(items[i]) /\ Beats(d, items[i])
      BY <1>6, <1>7, <2>2, <2>4, <2>5
    <2> QED
      BY <1>6, <2>5, <2>6, <2>7
  <1>10. CASE \A e \in Same(item) : Preferred(item, e)
    <2>1. byFingerprint' = (byFingerprint \ Same(item)) \cup {item}
      BY <1>4, <1>10
    <2>2. Distinct(byFingerprint')
      BY <1>6, <2>1 DEF Distinct, Same
    <2>3. \A d \in byFingerprint' :
              \E i \in 1..next : d = NormalizeInstallation(items[i])
      <3>1. next \in 1..next /\ item = NormalizeInstallation(items[next])
        BY <1>1 DEF item
      <3> QED
        BY <1>6, <1>8, <2>1, <3>1
    <2>4. Beats(item, r)
      BY <1>2, <1>3 DEF Beats
    <2>5. ASSUME NEW i \in 1..(next - 1)
          PROVE  \E d \in byFingerprint' :
                    Fingerprint(d) = Fingerprint(items[i]) /\ Beats(d, items[i])
      <3>1. PICK e \in byFingerprint :
                Fingerprint(e) = Fingerprint(items[i]) /\ Beats(e, items[i])
        BY <1>6, <2>5
      <3>2. CASE e \notin Same(item)
        BY <2>1, <3>1, <3>2
      <3>3. CASE e \in Same(item)
        <4>1. e.location \in Nat /\ r.location > e.location
          BY <1>5, <1>10, <3>3
        <4>2. i \in 1..Len(items)
          BY <1>1, <2>5
        <4>3. items[i].location \in Nat
          BY <4>2, CollectorInput, RecordFields
        <4>4. e.location >= items[i].location
          BY <3>1, <4>1, <4>3 DEF Beats
        <4>5. Beats(item, items[i])
          BY <1>3, <4>1, <4>3, <4>4 DEF Beats
        <4>6. Fingerprint(item) = Fingerprint(items[i])
          BY <3>1, <3>3 DEF Same
        <4> QED
          BY <2>1, <4>5, <4>6
      <3> QED
        BY <3>2, <3>3
    <2>6. \A i \in 1..next : \E d \in byFingerprint' :
              Fingerprint(d) = Fingerprint(items[i]) /\ Beats(d, items[i])
      BY <1>3, <1>7, <2>1, <2>4, <2>5
    <2> QED
      BY <2>2, <2>3, <2>6
  <1> QED
    BY <1>9, <1>10

LEMMA CollectorStep ==
    TypeInv /\ OrderInv /\ CollectorInv /\ [Next]_vars => CollectorInv'
  <1> SUFFICES ASSUME TypeInv, OrderInv, CollectorInv, [Next]_vars PROVE CollectorInv'
    OBVIOUS
  <1>1. CASE Read \/ Sort
    BY <1>1 DEF Read, Sort, CollectorInv
  <1>2. CASE EndRead
    <2>1. /\ pc = "read" /\ next = 1 /\ byFingerprint = {} /\ collected' = items
          /\ UNCHANGED <<items, next, byFingerprint>>
      BY <1>2 DEF EndRead, TypeInv, PassInv
    <2> QED
      BY <2>1 DEF CollectorInv, Distinct
  <1>3. CASE Keep
    <2>1. CASE pc = "collector"
      BY <1>3, <2>1, KeepCollector
    <2>2. CASE pc # "collector"
      BY <1>3, <2>2 DEF Keep, CollectorInv
    <2> QED
      BY <2>1, <2>2
  <1>4. CASE UNCHANGED vars
    BY <1>4 DEF vars, CollectorInv, Distinct
  <1> QED
    BY <1>1, <1>2, <1>3, <1>4 DEF Next

\* When the collector's loop is over, the map is the reference selection.
LEMMA SelectionIsReference ==
    ASSUME TypeInv, OrderInv, CollectorInv, pc = "collector", next > Len(items)
    PROVE  /\ byFingerprint = Reference /\ Distinct(byFingerprint)
           /\ \A e \in byFingerprint : Clean(e)
  <1> DEFINE Best(i) == \A k \in 1..Len(items) :
                           Fingerprint(items[k]) = Fingerprint(items[i]) =>
                               Beats(items[i], items[k])
  <1>1. /\ items = collected /\ Len(items) \in Nat
        /\ \A i \in 1..Len(items) :
              items[i] \in Installation /\ items[i].key = i /\ items[i].name.word # 0
    BY CollectorInput
  <1>2. next - 1 = Len(items) /\ DOMAIN collected = 1..Len(items)
    BY <1>1, LenProperties DEF TypeInv, TypeOK, PassInv
  <1>3. /\ Distinct(byFingerprint)
        /\ \A e \in byFingerprint :
              \E i \in 1..Len(items) : e = NormalizeInstallation(items[i])
        /\ \A i \in 1..Len(items) : \E e \in byFingerprint :
              Fingerprint(e) = Fingerprint(items[i]) /\ Beats(e, items[i])
    BY <1>2 DEF CollectorInv
  <1>4. Reference = {NormalizeInstallation(items[i]) : i \in {j \in 1..Len(items) : Best(j)}}
    BY <1>1, <1>2 DEF Reference
  <1>5. \A i \in 1..Len(items) :
            LET n == NormalizeInstallation(items[i]) IN
              /\ n.location = items[i].location /\ n.key = i
              /\ Fingerprint(n) = Fingerprint(items[i])
              /\ items[i].location \in Nat /\ i \in Nat
              /\ Clean(n)
    BY <1>1, Normalized, RecordFields DEF Clean
  <1>6. ASSUME NEW e \in byFingerprint PROVE e \in Reference
    <2>1. PICK i \in 1..Len(items) : e = NormalizeInstallation(items[i])
      BY <1>3, <1>6
    <2>2. ASSUME NEW k \in 1..Len(items), Fingerprint(items[k]) = Fingerprint(items[i])
          PROVE  Beats(items[i], items[k])
      <3>1. PICK d \in byFingerprint :
                Fingerprint(d) = Fingerprint(items[k]) /\ Beats(d, items[k])
        BY <1>3, <2>2
      <3>2. d = e
        BY <1>3, <1>5, <1>6, <2>1, <2>2, <3>1 DEF Distinct
      <3>3. e.location = items[i].location /\ e.key = items[i].key
        BY <1>1, <1>5, <2>1
      <3> QED
        BY <3>1, <3>2, <3>3 DEF Beats
    <2>3. Best(i)
      BY <2>2
    <2> QED
      BY <1>4, <2>1, <2>3
  <1>7. ASSUME NEW i \in 1..Len(items), Best(i)
        PROVE  NormalizeInstallation(items[i]) \in byFingerprint
    <2>1. PICK e \in byFingerprint :
              Fingerprint(e) = Fingerprint(items[i]) /\ Beats(e, items[i])
      BY <1>3, <1>7
    <2>2. PICK j \in 1..Len(items) : e = NormalizeInstallation(items[j])
      BY <1>3, <2>1
    <2>3. Beats(items[i], items[j])
      BY <1>5, <1>7, <2>1, <2>2
    <2>4. /\ e.location = items[j].location /\ e.key = j
          /\ items[i].location \in Nat /\ items[j].location \in Nat
          /\ items[i].key = i /\ items[j].key = j /\ i \in Nat /\ j \in Nat
      BY <1>1, <1>5, <1>7, <2>2
    <2>5. i = j
      BY <2>1, <2>3, <2>4 DEF Beats
    <2> QED
      BY <2>2, <2>5
  <1>8. byFingerprint = Reference
    BY <1>4, <1>6, <1>7
  <1>9. \A e \in byFingerprint : Clean(e)
    BY <1>3, <1>5
  <1> QED
    BY <1>3, <1>8, <1>9

\* RunOnce's pass over the collector's list keeps the next record as it is.
LEMMA KeepRunOnce ==
    ASSUME TypeInv, ListedInv, RunOnceInv, pc = "runOnce", Keep
    PROVE  byFingerprint' = {items[i] : i \in 1..next}
  <1> DEFINE S == Reference
             r == items[next]
  <1>1. /\ items \in Listings(S) /\ IsFiniteSet(S) /\ Distinct(S)
        /\ \A e \in S : Clean(e)
        /\ byFingerprint = {items[i] : i \in 1..(next - 1)}
    BY DEF ListedInv, RunOnceInv
  <1>2. next \in 1..Len(items) /\ Len(items) \in Nat
    BY KeepRecord
  <1> HIDE DEF S
  <1>3. /\ DOMAIN items = 1..Len(items)
        /\ \A i \in DOMAIN items : items[i] \in S
        /\ \A i, j \in DOMAIN items : i # j => items[i] # items[j]
    BY <1>1, ListingIsBijection, LenProperties DEF TypeInv, TypeOK
  <1>4. r \in S /\ Clean(r)
    BY <1>1, <1>2, <1>3
  <1>5. NormalizeInstallation(r) = r /\ r.name.word # 0
    BY <1>4 DEF Clean
  <1>6. Same(r) = {}
    <2> SUFFICES ASSUME NEW i \in 1..(next - 1),
                        Fingerprint(items[i]) = Fingerprint(r)
                 PROVE  FALSE
      BY <1>1 DEF Same
    <2>1. i \in DOMAIN items /\ next \in DOMAIN items /\ i # next
      BY <1>2, <1>3
    <2> QED
      BY <1>1, <1>3, <2>1 DEF Distinct
  <1>7. byFingerprint' = (byFingerprint \ Same(r)) \cup {r}
    BY <1>5, <1>6 DEF Keep
  <1>8. byFingerprint' = {items[i] : i \in 1..(next - 1)} \cup {items[next]}
    BY <1>1, <1>6, <1>7
  <1>9. 1..next = 1..(next - 1) \cup {next}
    BY <1>2
  <1> QED
    BY <1>8, <1>9

LEMMA PassesStep ==
    IInv /\ [Next]_vars => ListedInv' /\ RunOnceInv'
  <1> SUFFICES ASSUME IInv, [Next]_vars PROVE ListedInv' /\ RunOnceInv'
    OBVIOUS
  <1>1. TypeInv /\ OrderInv /\ CollectorInv /\ ListedInv /\ RunOnceInv
    BY DEF IInv
  <1>2. ASSUME UNCHANGED <<collected, listed>>, pc' = pc PROVE ListedInv'
    <2>1. Reference' = Reference
      BY <1>2 DEF Reference
    <2> QED
      BY <1>1, <1>2, <2>1 DEF ListedInv
  <1>3. CASE Read \/ EndRead
    BY <1>3 DEF Read, EndRead, ListedInv, RunOnceInv
  <1>4. CASE Keep
    <2>1. UNCHANGED <<items, pc, collected, listed>> /\ next' = next + 1
          /\ pc \in {"collector", "runOnce"} /\ next \in Nat
      BY <1>1, <1>4 DEF Keep, TypeInv, TypeOK
    <2>2. next' - 1 = next
      BY <2>1
    <2>3. CASE pc = "runOnce"
      <3>1. byFingerprint' = {items[i] : i \in 1..next}
        BY <1>1, <1>4, <2>3, KeepRunOnce
      <3>2. RunOnceInv'
        BY <1>1, <2>1, <2>2, <2>3, <3>1 DEF RunOnceInv
      <3> QED
        BY <1>2, <2>1, <3>2
    <2>4. CASE pc = "collector"
      BY <1>2, <2>1, <2>4 DEF RunOnceInv
    <2> QED
      BY <2>1, <2>3, <2>4
  <1>5. CASE Sort
    <2>1. /\ next > Len(items) /\ items' \in Listings(byFingerprint)
          /\ next' = 1 /\ byFingerprint' = {} /\ collected' = collected
      BY <1>5 DEF Sort
    <2>2. Reference' = Reference
      BY <2>1 DEF Reference
    <2>3. CASE pc = "collector"
      <3>1. /\ byFingerprint = Reference /\ Distinct(Reference)
            /\ \A e \in Reference : Clean(e)
        BY <1>1, <2>1, <2>3, SelectionIsReference
      <3>2. IsFiniteSet(Reference)
        BY <1>1, <3>1 DEF TypeInv, PassInv
      <3>3. pc' = "runOnce" /\ listed' = items'
        BY <1>5, <2>3 DEF Sort
      <3>4. ListedInv'
        BY <2>1, <2>2, <3>1, <3>2, <3>3 DEF ListedInv
      <3>5. RunOnceInv'
        BY <2>1, <3>3 DEF RunOnceInv
      <3> QED
        BY <3>4, <3>5
    <2>4. CASE pc = "runOnce"
      <3>1. pc' = "done" /\ listed' = listed
        BY <1>5, <2>4 DEF Sort
      <3>2. ListedInv'
        BY <1>1, <2>2, <2>4, <3>1 DEF ListedInv
      <3>3. items \in Listings(Reference) /\ IsFiniteSet(Reference)
            /\ byFingerprint = {items[i] : i \in 1..(next - 1)}
        BY <1>1, <2>4 DEF ListedInv, RunOnceInv
      <3>4. next - 1 = Len(items) /\ DOMAIN items = 1..Len(items)
        BY <1>1, <2>1, LenProperties DEF TypeInv, TypeOK, PassInv
      <3>5. byFingerprint = Reference
        BY <3>3, <3>4, ListingIsBijection
      <3>6. RunOnceInv'
        BY <2>1, <2>2, <3>1, <3>5 DEF RunOnceInv
      <3> QED
        BY <3>2, <3>6
    <2> QED
      BY <1>5, <2>3, <2>4 DEF Sort
  <1>6. CASE UNCHANGED vars
    <2>1. UNCHANGED <<items, next, byFingerprint, pc, collected, listed>>
      BY <1>6 DEF vars
    <2>2. Reference' = Reference
      BY <2>1 DEF Reference
    <2>3. RunOnceInv'
      BY <1>1, <2>1, <2>2 DEF RunOnceInv
    <2> QED
      BY <1>2, <2>1, <2>3
  <1> QED
    BY <1>3, <1>4, <1>5, <1>6 DEF Next

\* The inductive invariant of reading and of the two passes.
THEOREM Invariance == Spec => []IInv
  <1>1. Init => IInv
    <2> SUFFICES ASSUME Init PROVE IInv
      OBVIOUS
    <2>1. OrderInv
      <3>1. Len(<<>>) = 0
        OBVIOUS
      <3> QED
        BY <3>1 DEF Init, OrderInv, InReadingOrder
    <2>2. CollectorInv /\ ListedInv /\ RunOnceInv
      BY DEF Init, CollectorInv, ListedInv, RunOnceInv
    <2> QED
      BY <2>1, <2>2, TypeInit DEF IInv
  <1>2. IInv /\ [Next]_vars => IInv'
    BY TypeStep, OrderStep, CollectorStep, PassesStep DEF IInv
  <1> QED
    BY <1>1, <1>2, PTL DEF Spec

\* At the end, what the invariant says of the result.
LEMMA Result ==
    ASSUME IInv, pc = "done"
    PROVE  /\ IsFiniteSet(Reference) /\ Distinct(Reference)
           /\ Reference \subseteq Installation
           /\ items \in Listings(Reference) /\ listed \in Listings(Reference)
  BY DEF IInv, ListedInv, RunOnceInv, Clean

\* What RunOnce hashes and sends is the best record of each application that
\* was read from the registry, whatever the order of its keys: the map and
\* Preferred select record by record what the reference selects at once.
THEOREM ResultIsTheReference == Spec => []ResultIsReference
  <1>1. IInv => ResultIsReference
    <2> SUFFICES ASSUME IInv, pc = "done"
                 PROVE  {items[i] : i \in DOMAIN items} = Reference
      BY DEF ResultIsReference
    <2> QED
      BY Result, ListingIsBijection
  <1> QED
    BY <1>1, Invariance, PTL

\* The result is sorted strictly, although sort.Slice is not stable and the
\* map has no order.
THEOREM ResultIsOrdered == Spec => []ResultOrdered
  <1>1. IInv => ResultOrdered
    <2> SUFFICES ASSUME IInv, pc = "done",
                        NEW i \in DOMAIN items, NEW j \in DOMAIN items, i < j
                 PROVE  \/ items[i].name.word < items[j].name.word
                        \/ /\ items[i].name.word = items[j].name.word
                           /\ Fingerprint(items[i]) < Fingerprint(items[j])
      BY DEF ResultOrdered
    <2>1. less(items[i], items[j])
      BY Result, ListingAscends
    <2> QED
      BY <2>1 DEF less
  <1> QED
    BY <1>1, Invariance, PTL

\* NormalizeAndDeduplicate applied to its own result gives that result: the
\* second pass, in RunOnce, changes nothing.
THEOREM SecondPassIsIdle == Spec => []SecondPassIdle
  <1>1. IInv => SecondPassIdle
    <2> SUFFICES ASSUME IInv, pc = "done" PROVE items = listed
      BY DEF SecondPassIdle
    <2> QED
      BY Result, ListingUnique
  <1> QED
    BY <1>1, Invariance, PTL
=============================================================================
