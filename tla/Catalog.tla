------------------------------ MODULE Catalog ------------------------------
(***************************************************************************)
(* What a repository promises its clients, without handlers, references or *)
(* collections: a table from names to artifacts, every blob of which can   *)
(* be fetched.                                                             *)
(***************************************************************************)
CONSTANTS Digest, Manifest, Ref, None, Blobs(_)

VARIABLES
  table,        \* the artifact each name resolves to
  ready         \* the blobs that can be fetched

Needed == UNION {Blobs(table[r]) : r \in {q \in Ref : table[q] # None}}

Init == table = [r \in Ref |-> None] /\ ready = {}

Commit(d) == ready' = ready \cup {d} /\ UNCHANGED table

Publish(r, m) ==
  /\ Blobs(m) \subseteq ready
  /\ table' = [table EXCEPT ![r] = m]
  /\ UNCHANGED ready

Reclaim(gone) ==
  /\ gone \cap Needed = {}
  /\ ready' = ready \ gone
  /\ UNCHANGED table

Next ==
  \/ \E d \in Digest : Commit(d)
  \/ \E r \in Ref, m \in Manifest : Publish(r, m)
  \/ \E gone \in SUBSET Digest : Reclaim(gone)

Spec == Init /\ [][Next]_<<table, ready>>
=============================================================================
