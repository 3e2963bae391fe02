------------------------------- MODULE Pulls -------------------------------
(***************************************************************************)
(* Pulls by name while pushes and collections go on: internal/transfer/    *)
(* download.go, PullManifest and then PullBlob for every descriptor, as    *)
(* FetchArtifact does and a client over HTTP does request by request.  A   *)
(* pull reads three stores in turn and holds nothing: what it resolved may *)
(* be re-tagged and collected before it has fetched the last blob.         *)
(***************************************************************************)
EXTENDS Windowed

CONSTANT Puller     \* concurrent pulls

VARIABLE pull       \* the state of each pull

pullVars == <<vars, pull>>

PullIdle == [pc |-> "idle", m |-> None, i |-> 1]

PullState == {PullIdle} \cup [pc : {"manifest", "blobs", "failed"}, m : Manifest, i : Nat]

PullTypeOK == TypeOK /\ pull \in [Puller -> PullState]

PInit == Init /\ pull = [q \in Puller |-> PullIdle]

\* tags.Get.  A name without a tag is ErrNotFound at once.
ResolveTag(q, r) ==
  /\ pull[q].pc = "idle"
  /\ tags[r] # None
  /\ pull' = [pull EXCEPT ![q] = [pc |-> "manifest", m |-> tags[r], i |-> 1]]

\* manifests.Get
GetManifest(q) ==
  /\ pull[q].pc = "manifest"
  /\ pull' = [pull EXCEPT ![q].pc = IF pull[q].m \in stored THEN "blobs" ELSE "failed"]

\* blobs.Get of the next descriptor, the bytes of which hash to it.
GetBlob(q) ==
  LET m == pull[q].m
      i == pull[q].i
  IN
  /\ pull[q].pc = "blobs"
  /\ pull' = IF ~B!Readable(Descriptors[m][i]) THEN [pull EXCEPT ![q].pc = "failed"]
             ELSE IF i = Len(Descriptors[m]) THEN [pull EXCEPT ![q] = PullIdle]
             ELSE [pull EXCEPT ![q].i = @ + 1]

\* The client has its error.
Failed(q) == pull[q].pc = "failed" /\ pull' = [pull EXCEPT ![q] = PullIdle]

PullStep(q) == GetManifest(q) \/ GetBlob(q) \/ Failed(q)

PNext ==
  \/ WNext /\ UNCHANGED pull
  \/ \E q \in Puller, r \in Ref : ResolveTag(q, r) /\ UNCHANGED vars
  \/ \E q \in Puller : PullStep(q) /\ UNCHANGED vars

PSpec == PInit /\ [][PNext]_pullVars

----------------------------------------------------------------------------
\* A pull that had resolved its name fails only when no name leads to the
\* manifest any more: a collection never breaks a pull of what is published,
\* wherever between its reads the pull is.
PullFailsOnlyUntagged ==
  [][\A q \in Puller :
       pull[q].pc # "failed" /\ pull'[q].pc = "failed" => ~T!Tagged(pull[q].m)]_pullVars
=============================================================================
