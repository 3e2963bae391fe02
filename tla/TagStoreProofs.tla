--------------------------- MODULE TagStoreProofs ---------------------------
(* The ledger is exact for any finite set of tag names and any manifests. *)
EXTENDS TagStore, FiniteSetTheorems, TLAPS

LEMMA TagsOfFinite ==
  ASSUME TagAssumption
  PROVE  \A m : IsFiniteSet(TagsOf(m)) /\ Cardinality(TagsOf(m)) \in Nat
BY FS_Subset, FS_CardinalityType DEF TagsOf, TagAssumption

LEMMA TypeInit == Init => TypeOK
BY DEF Init, TypeOK

LEMMA TypeNext == TypeOK /\ [Next]_vars => TypeOK'
<1>1. SUFFICES ASSUME TypeOK, [Next]_vars PROVE TypeOK'
  OBVIOUS
<1>2. ASSUME NEW m PROVE Dropped(m) \in [Manifest -> Nat]
  BY <1>1 DEF TypeOK, Dropped
<1>3. ASSUME NEW r \in Ref, NEW m \in Manifest, Set(r, m) PROVE TypeOK'
  <2>1. tags' \in [Ref -> Manifest \cup {None}]
    BY <1>1, <1>3 DEF TypeOK, Set
  <2>2. DEFINE dropped == Dropped(tags[r])
  <2>3. dropped \in [Manifest -> Nat]
    BY <1>2
  <2>4. ledger' = ledger \/ ledger' = [dropped EXCEPT ![m] = @ + 1]
    BY <1>3 DEF Set
  <2>5. HIDE DEF dropped
  <2>6. ledger' \in [Manifest -> Nat]
    BY <1>1, <2>3, <2>4 DEF TypeOK
  <2>7. QED
    BY <2>1, <2>6 DEF TypeOK
<1>4. ASSUME NEW r \in Ref, Delete(r) PROVE TypeOK'
  BY <1>1, <1>2, <1>4 DEF TypeOK, Delete
<1>5. CASE UNCHANGED vars
  BY <1>1, <1>5 DEF TypeOK, vars
<1>6. QED
  BY <1>1, <1>3, <1>4, <1>5 DEF Next

\* No tags, no references.
LEMMA LedgerInit == TagAssumption /\ Init => LedgerExact
<1>1. SUFFICES ASSUME TagAssumption, Init, NEW m \in Manifest PROVE ledger[m] = Cardinality(TagsOf(m))
  BY DEF LedgerExact
<1>2. TagsOf(m) = {}
  BY <1>1 DEF Init, TagsOf, TagAssumption
<1>3. QED
  BY <1>1, <1>2, FS_EmptySet DEF Init

\* The tags of a manifest after r was pointed at target (a manifest or None).
LEMMA TagsOfAfter ==
  ASSUME TypeOK, NEW r \in Ref, NEW target \in Manifest \cup {None},
         tags' = [tags EXCEPT ![r] = target], NEW m \in Manifest
  PROVE  TagsOf(m)' = IF m = target THEN TagsOf(m) \cup {r} ELSE TagsOf(m) \ {r}
BY DEF TypeOK, TagsOf

\* Dropping the reference of r's old target matches taking r out of its tags.
LEMMA DroppedExact ==
  ASSUME TagAssumption, TypeOK, LedgerExact, NEW r \in Ref, NEW m \in Manifest
  PROVE  Dropped(tags[r])[m] = Cardinality(TagsOf(m) \ {r})
<1>1. CASE tags[r] = m
  <2>1. r \in TagsOf(m)
    BY <1>1 DEF TagsOf
  <2>2. Cardinality(TagsOf(m) \ {r}) = Cardinality(TagsOf(m)) - 1
    BY <2>1, TagsOfFinite, FS_RemoveElement
  <2>3. Cardinality(TagsOf(m)) # 0
    BY <2>1, TagsOfFinite, FS_EmptySet
  <2>4. QED
    BY <1>1, <2>2, <2>3, TagsOfFinite DEF LedgerExact, Dropped, TypeOK
<1>2. CASE tags[r] # m
  <2>1. TagsOf(m) \ {r} = TagsOf(m)
    BY <1>2 DEF TagsOf
  <2>2. QED
    BY <1>2, <2>1 DEF Dropped, LedgerExact
<1>3. QED
  BY <1>1, <1>2

LEMMA SetExact ==
  ASSUME TagAssumption, TypeOK, LedgerExact, NEW r \in Ref, NEW m \in Manifest, Set(r, m)
  PROVE  LedgerExact'
<1>1. SUFFICES ASSUME NEW n \in Manifest PROVE ledger'[n] = Cardinality(TagsOf(n)')
  BY DEF LedgerExact
<1>2. TagsOf(n)' = IF n = m THEN TagsOf(n) \cup {r} ELSE TagsOf(n) \ {r}
  BY TagsOfAfter DEF Set
<1>3. CASE tags[r] = m
  <2>1. TagsOf(n)' = TagsOf(n)
    BY <1>2, <1>3 DEF TagsOf
  <2>2. QED
    BY <1>3, <2>1 DEF Set, LedgerExact
<1>4. CASE tags[r] # m
  <2>1. ledger'[n] = IF n = m THEN Dropped(tags[r])[n] + 1 ELSE Dropped(tags[r])[n]
    BY <1>4 DEF Set, Dropped
  <2>2. CASE n = m
    <3>1. r \notin TagsOf(n)
      BY <1>4, <2>2 DEF TagsOf
    <3>2. Cardinality(TagsOf(n) \cup {r}) = Cardinality(TagsOf(n)) + 1
      BY <3>1, TagsOfFinite, FS_AddElement
    <3>3. TagsOf(n) \ {r} = TagsOf(n)
      BY <3>1
    <3>4. QED
      BY <1>2, <2>1, <2>2, <3>2, <3>3, DroppedExact
  <2>3. CASE n # m
    BY <1>2, <2>1, <2>3, DroppedExact
  <2>4. QED
    BY <2>2, <2>3
<1>5. QED
  BY <1>3, <1>4

LEMMA DeleteExact ==
  ASSUME TagAssumption, TypeOK, LedgerExact, NEW r \in Ref, Delete(r)
  PROVE  LedgerExact'
<1>1. SUFFICES ASSUME NEW n \in Manifest PROVE ledger'[n] = Cardinality(TagsOf(n)')
  BY DEF LedgerExact
<1>2. TagsOf(n)' = TagsOf(n) \ {r}
  BY TagsOfAfter DEF Delete, TagAssumption
<1>3. QED
  BY <1>2, DroppedExact DEF Delete

\* The ledger equals a recount of the tag table after any history of tagging,
\* re-tagging and untagging.
THEOREM LedgerAlwaysExact ==
  ASSUME TagAssumption
  PROVE  Spec => []LedgerExact
<1>1. TypeOK /\ LedgerExact /\ [Next]_vars => (TypeOK /\ LedgerExact)'
  <2>1. SUFFICES ASSUME TagAssumption, TypeOK, LedgerExact, [Next]_vars PROVE LedgerExact'
    BY TypeNext
  <2>2. CASE Next
    BY <2>1, <2>2, SetExact, DeleteExact DEF Next
  <2>3. CASE UNCHANGED vars
    BY <2>1, <2>3 DEF vars, LedgerExact, TagsOf
  <2>4. QED
    BY <2>1, <2>2, <2>3
<1>2. QED
  BY <1>1, TypeInit, LedgerInit, PTL DEF Spec
=============================================================================
