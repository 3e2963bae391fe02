----------------------------- MODULE MCWindowed -----------------------------
(* Two manifests over two blobs, one of which they share.  Handlers and tags are
   interchangeable. *)
EXTENDS Pulls, TLC
CONSTANTS d1, d2, m1, m2
MCDescriptors == (m1 :> <<d1, d2>>) @@ (m2 :> <<d2>>)
Interchangeable == Permutations(Pusher) \cup Permutations(Collector) \cup Permutations(Ref)

\* What the index map holds decides no step outside index.Add, and no property
\* of this run reads it: states that differ only there are one.
ExceptIndex ==
  <<blobVars, tagVars, manifestVars, gc, pull,
    [p \in Pusher |-> IF push[p].pc = "enter" THEN [push[p] EXCEPT !.into = None] ELSE push[p]]>>
=============================================================================
