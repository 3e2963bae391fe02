-------------------------- MODULE BlobStoreProofs --------------------------
(* Safety of the blob store, for every set of digests and every bound. *)
EXTENDS BlobStore, TLAPS

\* The store's two maps, type and agreement together, are inductive.
StoreInv == TypeOK /\ BytesIffCommitted

LEMMA StoreInit == Init => StoreInv
BY DEF Init, StoreInv, TypeOK, BytesIffCommitted, BlobState, Readable, Committed

LEMMA StoreNext == StoreInv /\ [Next]_vars => StoreInv'
<1>1. SUFFICES ASSUME StoreInv, [Next]_vars PROVE StoreInv'
  OBVIOUS
<1>. USE DEF StoreInv, TypeOK, BytesIffCommitted, BlobState, Readable, Committed, Exists
<1>2. ASSUME NEW d \in Digest, Stage(d) PROVE StoreInv'
  BY <1>1, <1>2 DEF Stage
<1>3. ASSUME NEW d \in Digest, Put(d) PROVE StoreInv'
  BY <1>1, <1>3 DEF Put
<1>4. ASSUME NEW d \in Digest, IncRef(d) PROVE StoreInv'
  BY <1>1, <1>4 DEF IncRef
<1>5. ASSUME NEW d \in Digest, DecRef(d) PROVE StoreInv'
  BY <1>1, <1>5 DEF DecRef
<1>6. ASSUME NEW gone \in SUBSET Digest, Remove(gone) PROVE StoreInv'
  BY <1>1, <1>6 DEF Remove
<1>7. ASSUME NEW d \in Digest, Delete(d) PROVE StoreInv'
  BY <1>6, <1>7 DEF Delete
<1>8. ASSUME NEW reachable \in SUBSET Digest, SweepUnreferenced(reachable) PROVE StoreInv'
  BY <1>6, <1>8 DEF SweepUnreferenced
<1>9. CASE UNCHANGED vars
  BY <1>1, <1>9 DEF vars
<1>10. QED
  BY <1>1, <1>2, <1>3, <1>4, <1>5, <1>7, <1>8, <1>9 DEF Next

\* Records, references and bytes keep their types: a count never goes below
\* zero, whatever releases it and however often.
THEOREM TypeCorrect == Spec => []TypeOK
<1>1. StoreInv => TypeOK
  BY DEF StoreInv
<1>2. QED
  BY <1>1, StoreInit, StoreNext, PTL DEF Spec

\* Validate (which reads the record) and Verify (which reads the bytes) agree
\* on every digest, in every reachable state.
THEOREM BytesAgree == Spec => []BytesIffCommitted
<1>1. StoreInv => BytesIffCommitted
  BY DEF StoreInv
<1>2. QED
  BY <1>1, StoreInit, StoreNext, PTL DEF Spec

\* A committed blob only ever leaves by a removal that found no reference.
THEOREM CommittedIsKept == Spec => CommittedLeavesOnlyUnreferenced
<1>1. StoreInv /\ [Next]_vars
        => [\A d \in Digest : Committed(d) /\ ~Committed(d)'
                                 => refCount[d] = 0 /\ ~Exists(d)' /\ ~Readable(d)']_vars
  <2>1. SUFFICES ASSUME StoreInv, Next, NEW d \in Digest, Committed(d), ~Committed(d)'
                 PROVE refCount[d] = 0 /\ ~Exists(d)' /\ ~Readable(d)'
    OBVIOUS
  <2>. USE DEF StoreInv, TypeOK, BlobState, Readable, Committed, Exists
  <2>2. ASSUME NEW e \in Digest, Stage(e) \/ Put(e) \/ IncRef(e) \/ DecRef(e) PROVE FALSE
    BY <2>1, <2>2 DEF Stage, Put, IncRef, DecRef
  <2>3. ASSUME NEW e \in Digest, Delete(e) PROVE refCount[d] = 0 /\ ~Exists(d)' /\ ~Readable(d)'
    BY <2>1, <2>3 DEF Delete, Remove
  <2>4. ASSUME NEW reachable \in SUBSET Digest, SweepUnreferenced(reachable)
        PROVE refCount[d] = 0 /\ ~Exists(d)' /\ ~Readable(d)'
    BY <2>1, <2>4 DEF SweepUnreferenced, Remove
  <2>5. QED
    BY <2>1, <2>2, <2>3, <2>4 DEF Next
<1>2. QED
  BY <1>1, StoreInit, StoreNext, PTL DEF Spec, CommittedLeavesOnlyUnreferenced
=============================================================================
