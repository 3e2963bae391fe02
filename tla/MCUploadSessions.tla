-------------------------- MODULE MCUploadSessions --------------------------
(* Chunks, handlers, sessions, digests and tokens are interchangeable. *)
EXTENDS UploadSessions, TLC
Interchangeable ==
  Permutations(Handler) \cup Permutations(Chunk) \cup Permutations(Session)
    \cup Permutations(Digest) \cup Permutations(Token)

\* Bound: references are given back, and whole blobs pushed, only where one token
\* is in use.
Bounded ==
  \/ \A t, u \in Token : A!Known(t) /\ A!Known(u) => t = u
  \/ released = [d \in Digest |-> 0] /\ \A h \in Handler : ~At(h, "blob")
BoundedSpec == Init /\ [][Next /\ Bounded']_vars
=============================================================================
