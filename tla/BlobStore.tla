----------------------------- MODULE BlobStore -----------------------------
(***************************************************************************)
(* The content-addressed blob layer of one repository:                     *)
(* internal/blob/store.go, memoryStore.                                    *)
(*                                                                         *)
(* Every operation runs under the store's one mutex, so each is one        *)
(* action.  The code keeps two maps, blobs (digest to metadata record) and *)
(* data (digest to bytes), both split over shards; a digest is always      *)
(* routed to the same shard, so the shards are one map here.  The bytes    *)
(* stored under a digest hash to it (Put computes the digest from the      *)
(* bytes), so data is the set of digests that have bytes.                  *)
(***************************************************************************)
EXTENDS Naturals

CONSTANTS
  Digest,       \* the digests in use
  MaxRefs       \* bound: Put and IncRef stop counting references here

ASSUME MaxRefsAssumption == MaxRefs \in Nat \ {0}

VARIABLES
  blobState,    \* Blob.State of the record, "absent" where there is none
  refCount,     \* Blob.RefCount, 0 where there is no record
  data          \* the digests whose bytes are held

vars == <<blobState, refCount, data>>

\* No code path assigns BlobUploading: a record is born verifying or committed.
BlobState == {"absent", "verifying", "committed"}

TypeOK ==
  /\ blobState \in [Digest -> BlobState]
  /\ refCount \in [Digest -> Nat]
  /\ data \subseteq Digest

Init ==
  /\ blobState = [d \in Digest |-> "absent"]
  /\ refCount = [d \in Digest |-> 0]
  /\ data = {}

----------------------------------------------------------------------------
(* What the read operations report. *)

Exists(d) == blobState[d] # "absent"

Committed(d) == blobState[d] = "committed"

Readable(d) == d \in data        \* Get returns bytes rather than an error

----------------------------------------------------------------------------
(* The operations that change state.  The definitions named Bad... are      *)
(* plausible mistakes, kept to show which property each one breaks.         *)

BadStage(d) ==                   \* Stage without the ErrAlreadyExists check
  /\ blobState' = [blobState EXCEPT ![d] = "verifying"]
  /\ refCount' = [refCount EXCEPT ![d] = 0]
  /\ UNCHANGED data

\* Stage reserves a digest whose bytes have not arrived; it fails with
\* ErrAlreadyExists, changing nothing, when there is a record.
Stage(d) ==
  /\ ~Exists(d)
  /\ blobState' = [blobState EXCEPT ![d] = "verifying"]
  /\ refCount' = [refCount EXCEPT ![d] = 0]
  /\ UNCHANGED data

BadPut(d) ==                     \* a digest with a record gets no reference
  /\ blobState' = [blobState EXCEPT ![d] = "committed"]
  /\ refCount' = [refCount EXCEPT ![d] = IF Exists(d) THEN @ ELSE 1]
  /\ data' = data \cup {d}

\* Put stores the bytes, commits the record and takes one reference, whether
\* the record is new, staged or already committed (dedup).
Put(d) ==
  /\ blobState' = [blobState EXCEPT ![d] = "committed"]
  /\ refCount' = [refCount EXCEPT ![d] = @ + 1]
  /\ data' = data \cup {d}

IncRef(d) ==
  /\ Exists(d)
  /\ refCount' = [refCount EXCEPT ![d] = @ + 1]
  /\ UNCHANGED <<blobState, data>>

BadDecRef(d) ==                  \* no floor at zero
  /\ refCount' = [refCount EXCEPT ![d] = @ - 1]
  /\ UNCHANGED <<blobState, data>>

\* A reference count never goes below zero; on a missing record DecRef fails
\* with ErrNotFound, which every caller ignores.
DecRef(d) ==
  /\ refCount' = [refCount EXCEPT ![d] = IF @ > 0 THEN @ - 1 ELSE 0]
  /\ UNCHANGED <<blobState, data>>

BadRemove(gone) ==               \* the record goes, the bytes stay
  /\ blobState' = [d \in Digest |-> IF d \in gone THEN "absent" ELSE blobState[d]]
  /\ refCount' = [d \in Digest |-> IF d \in gone THEN 0 ELSE refCount[d]]
  /\ UNCHANGED data

Remove(gone) ==
  /\ blobState' = [d \in Digest |-> IF d \in gone THEN "absent" ELSE blobState[d]]
  /\ refCount' = [d \in Digest |-> IF d \in gone THEN 0 ELSE refCount[d]]
  /\ data' = data \ gone

Delete(d) ==
  /\ Exists(d)
  /\ refCount[d] = 0             \* ErrConflict otherwise
  /\ Remove({d})

BadSweepCommitted(reachable) ==  \* abandoned reservations are passed over
  Remove({d \in Digest : Committed(d) /\ d \notin reachable /\ refCount[d] = 0})

BadSweepAll(reachable) ==        \* the reachable set is not consulted
  Remove({d \in Digest : Exists(d) /\ refCount[d] = 0})

\* The whole scan and the deletions run under one write lock.
SweepUnreferenced(reachable) ==
  Remove({d \in Digest : Exists(d) /\ d \notin reachable /\ refCount[d] = 0})

Next ==
  \/ \E d \in Digest : Stage(d)
  \/ \E d \in Digest : refCount[d] < MaxRefs /\ Put(d)
  \/ \E d \in Digest : refCount[d] < MaxRefs /\ IncRef(d)
  \/ \E d \in Digest : DecRef(d)
  \/ \E d \in Digest : Delete(d)
  \/ \E reachable \in SUBSET Digest : SweepUnreferenced(reachable)

Spec == Init /\ [][Next]_vars

----------------------------------------------------------------------------
(* Properties *)

\* The two maps never disagree: bytes are held for exactly the committed
\* digests.  Validate looks at the record (Committed) and Verify at the bytes
\* (Get); they accept the same manifests only because of this, however
\* staging, dedup, deletion and sweeping interleave on one digest.
BytesIffCommitted == \A d \in Digest : Readable(d) <=> Committed(d)

\* A digest once committed is never demoted to a reservation, by a late Stage
\* of a second uploader or otherwise: it stays readable until a removal that
\* found no reference to it takes the record away altogether.
CommittedLeavesOnlyUnreferenced ==
  [][\A d \in Digest : Committed(d) /\ ~Committed(d)'
                          => refCount[d] = 0 /\ ~Exists(d)' /\ ~Readable(d)']_vars
=============================================================================
