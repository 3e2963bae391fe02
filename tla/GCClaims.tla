------------------------------ MODULE GCClaims ------------------------------
(***************************************************************************)
(* Three sentences the comments in internal/gc and internal/tag say of     *)
(* collection, stated over PushGC.  The code does not keep them.           *)
(*                                                                         *)
(* Two history variables: held, the blobs each client uploaded for a push  *)
(* that has not reached the release of its references; and since, for each *)
(* running collection, the manifests that were intact and tagged when it   *)
(* recounted the tags and have been tagged ever since.                     *)
(***************************************************************************)
EXTENDS PushGC

VARIABLES held, since

CInit ==
  /\ Init
  /\ held = [p \in Pusher |-> {}]
  /\ since = [g \in Collector |-> {}]

\* A client uploads a blob once for its next push.
ClientUpload(p, d) ==
  /\ push[p].pc = "idle"
  /\ d \notin held[p]
  /\ Upload(d)
  /\ held' = [held EXCEPT ![p] = @ \cup {d}]

Releasing(p) == push[p].pc # "release" /\ push'[p].pc = "release"

Handlers ==
  /\ \/ \E d \in Digest : OpenUpload(d)
     \/ \E p \in Pusher, m \in Manifest, r \in Ref : BeginPush(p, m, r)
     \/ \E p \in Pusher : PushStep(p)
     \/ \E g \in Collector : BeginMark(g) \/ GCStep(g)
  /\ held' = [p \in Pusher |-> IF Releasing(p) THEN held[p] \ Blobs(push[p].m) ELSE held[p]]

TrackSince ==
  since' = [g \in Collector |->
              {m \in Manifest :
                 /\ T!Tagged(m)'
                 /\ IF gc[g].pc = "mark" /\ gc'[g].pc = "refs"
                    THEN Intact(m)
                    ELSE gc[g].pc # "idle" /\ m \in since[g]}]

CNext ==
  /\ (\E p \in Pusher, d \in Digest : ClientUpload(p, d)) \/ Handlers
  /\ TrackSince

CSpec == CInit /\ [][CNext]_<<vars, held, since>>

----------------------------------------------------------------------------
\* internal/gc/sweep.go:11 "a tag update that landed after Mark must be honored
\* so a freshly referenced manifest is never collected".
TaggedNeverCollected ==
  [][\A m \in Manifest : m \in stored /\ m \notin stored' => ~T!Tagged(m)]_vars

\* internal/gc/gc.go:15 "Sweep deletes unreferenced manifests and blobs that are
\* no longer held by any in-flight upload".
HeldSurvives == \A p \in Pusher : \A d \in held[p] : B!Committed(d)

\* internal/tag/tag.go:10 "whenever the two disagree the registry must treat the
\* ledger as suspect and recount from the tag table instead of collecting
\* referenced manifests"; the collection that saw the tag loses no blob of it.
RecountedSurvive == \A g \in Collector : \A m \in since[g] : Intact(m)
=============================================================================
