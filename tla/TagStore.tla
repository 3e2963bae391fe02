------------------------------ MODULE TagStore ------------------------------
(***************************************************************************)
(* The tag table of one repository and its reference ledger:               *)
(* internal/tag/store.go, memoryStore.  Each operation runs under the      *)
(* store's mutex and is one action.  The revision counter is left out:     *)
(* nothing reads it.                                                       *)
(***************************************************************************)
EXTENDS Naturals, FiniteSets

CONSTANTS
  Ref,          \* the tag names in use
  Manifest,     \* the manifest digests in use
  None          \* "no such tag"

\* What the theorems assume of the names, and PushGC provides.
TagAssumption ==
  /\ IsFiniteSet(Ref)
  /\ None \notin Manifest

VARIABLES
  tags,         \* tag name to manifest digest, None where there is no tag
  ledger        \* manifest digest to reference count, 0 where there is none

vars == <<tags, ledger>>

TypeOK ==
  /\ tags \in [Ref -> Manifest \cup {None}]
  /\ ledger \in [Manifest -> Nat]

Init ==
  /\ tags = [r \in Ref |-> None]
  /\ ledger = [m \in Manifest |-> 0]

TagsOf(m) == {r \in Ref : tags[r] = m}

Tagged(m) == TagsOf(m) # {}

BadDropped(m) ==                 \* the comparison is inverted, no floor
  [n \in Manifest |-> IF n = m THEN ledger[n] ELSE ledger[n] - 1]

\* The ledger after one reference to m went: an entry that reaches zero (or
\* was not there) is deleted.
Dropped(m) ==
  [n \in Manifest |-> IF n # m THEN ledger[n]
                      ELSE IF ledger[n] > 0 THEN ledger[n] - 1 ELSE 0]

BadSet(r, m) ==                  \* the reference of the old target is kept
  /\ tags' = [tags EXCEPT ![r] = m]
  /\ ledger' = IF tags[r] = m THEN ledger ELSE [ledger EXCEPT ![m] = @ + 1]

\* Set points r at m.  Re-pointing to the same digest keeps the reference;
\* otherwise the old target loses one and m gains one.
Set(r, m) ==
  /\ tags' = [tags EXCEPT ![r] = m]
  /\ ledger' = IF tags[r] = m THEN ledger ELSE [Dropped(tags[r]) EXCEPT ![m] = @ + 1]

Delete(r) ==
  /\ tags[r] # None
  /\ tags' = [tags EXCEPT ![r] = None]
  /\ ledger' = Dropped(tags[r])

Next == \E r \in Ref :
  \/ \E m \in Manifest : Set(r, m)
  \/ Delete(r)

Spec == Init /\ [][Next]_vars

----------------------------------------------------------------------------
(* Properties *)

\* The incrementally kept ledger always equals a recount of the tag table,
\* over any history of tagging, re-tagging and untagging.  GC's Sweep drops a
\* tagged manifest's blobs from the reachable set when the two differ.
LedgerExact == \A m \in Manifest : ledger[m] = Cardinality(TagsOf(m))
=============================================================================
