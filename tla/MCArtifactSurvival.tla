------------------------- MODULE MCArtifactSurvival -------------------------
(* Two manifests that share their blob, one of them listing it twice.  Handlers
   and tags are interchangeable. *)
EXTENDS ArtifactSurvival, TLC
CONSTANTS d1, m1, m2
MCDescriptors == (m1 :> <<d1>>) @@ (m2 :> <<d1, d1>>)
Interchangeable == Permutations(Pusher) \cup Permutations(Ref)

\* Bound: either one push at a time, to any tag, or overlapping pushes as long as
\* the repository uses one tag.
InUse == {r \in Ref : tags[r] # None \/ \E p \in Pusher : push[p].ref = r}
Bounded ==
  \/ \A p, q \in Pusher : push[p].pc # "idle" /\ push[q].pc # "idle" => p = q
  \/ \A r, q \in InUse : r = q
BoundedSpec == SInit /\ [][SNext /\ Bounded']_<<vars, settled>>

\* What the index map holds decides no step outside index.Add, and no property
\* of this run reads it: states that differ only there are one.
ExceptIndex ==
  <<blobVars, tagVars, manifestVars, gc, settled,
    [p \in Pusher |-> IF push[p].pc = "enter" THEN [push[p] EXCEPT !.into = None] ELSE push[p]]>>
=============================================================================
