------------------------------ MODULE Windowed ------------------------------
(***************************************************************************)
(* PushGC under a discipline the program leaves to its operator: manifests *)
(* are not pushed while a collection runs, a collection is requested only  *)
(* when no push is in progress, and a push into a repository that has no   *)
(* manifest map yet is alone until it has made one.  Blob uploads and      *)
(* openings of chunked uploads are not restricted, later pushes overlap    *)
(* with pushes and collections with collections.  Under it the repository  *)
(* is a Catalog.  Without its first two parts it is not (see GCClaims);    *)
(* without the third a second first writer replaces the map, and what the  *)
(* first one stored and tagged is gone.                                    *)
(***************************************************************************)
EXTENDS PushGC

NoPush == \A p \in Pusher : push[p].pc = "idle"

\* A push may begin: no collection runs, and the map is there or it is alone.
MayPush == Quiet /\ (storeMap # None \/ NoPush)

WNext ==
  \/ \E d \in Digest : Upload(d) \/ OpenUpload(d)
  \/ MayPush /\ \E p \in Pusher, m \in Manifest, r \in Ref : BeginPush(p, m, r)
  \/ \E p \in Pusher : PushStep(p)
  \/ NoPush /\ \E g \in Collector : BeginMark(g)
  \/ \E g \in Collector : GCStep(g)

WSpec == Init /\ [][WNext]_vars

C == INSTANCE Catalog WITH table <- tags, ready <- {d \in Digest : B!Committed(d)}

----------------------------------------------------------------------------
\* Setting a tag publishes an artifact all of whose blobs are committed, and a
\* sweep reclaims only blobs no published artifact needs: nothing else moves
\* the tag table or loses a committed blob.
ImplementsCatalog == C!Spec

\* A tag always leads to a stored manifest: pulling by name never answers
\* "not found" for a name that was published.
TagsResolve == \A r \in Ref : tags[r] # None => tags[r] \in stored

\* internal/model/artifact.go:14 "ArtifactPublished means the artifact is
\* listed and pullable": what the index lists can be fetched.  Two pushes to
\* one name may set the tag in one order and the index in the other, so this
\* fails even at rest and even under the discipline.
ListedIsPullable ==
  Quiet /\ NoPush => \A r \in Ref : index[r] # None => Intact(index[r])
=============================================================================
