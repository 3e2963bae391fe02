--------------------------- MODULE WindowedProofs ---------------------------
(***************************************************************************)
(* Under the discipline of Windowed the repository implements Catalog, for *)
(* any number of handlers.  The inductive invariant WInv says why: a push  *)
(* in progress sees no collection, so what it has checked stays true until *)
(* it sets the tag; a collection in progress sees no tag move, so what is  *)
(* tagged is spared by it to its end; and while there is no manifest map   *)
(* one push at most is in progress, so the map it makes replaces none.     *)
(***************************************************************************)
EXTENDS Windowed, PushGCProofs

Exclusive == NoPush \/ Quiet

TaggedSurvive == \A m \in Manifest : T!Tagged(m) => Survives(m)

\* Until a map is made it holds nothing and one push is in progress at most; a
\* push that makes one finds none still, and a push that inserts holds the map.
OneMap ==
  /\ storeMap = None => stored = {}
  /\ storeMap = None => \A p, q \in Pusher :
                          push[p].pc # "idle" /\ push[q].pc # "idle" => p = q
  /\ \A p \in Pusher : push[p].pc = "create" => storeMap = None
  /\ \A p \in Pusher : push[p].pc = "insert" => push[p].into = storeMap /\ storeMap # None

\* What the handler of p has established at each point of its program.
Checked(p) ==
  LET m == push[p].m IN
  /\ push[p].pc \in {"validate", "recheck"} => push[p].i \in DOMAIN Descriptors[m]
  /\ push[p].pc = "recheck" =>
       \A k \in DOMAIN Descriptors[m] : k < push[p].i => B!Committed(Descriptors[m][k])
  /\ push[p].pc \in {"store", "create", "insert", "tag"} => Complete(m)
  /\ push[p].pc = "tag" => m \in stored

WInv ==
  /\ TypeOK
  /\ B!BytesIffCommitted
  /\ Exclusive
  /\ OneMap
  /\ TaggedSurvive
  /\ \A p \in Pusher : Checked(p)

LEMMA DescriptorsFacts ==
  ASSUME NEW m \in Manifest
  PROVE  /\ Len(Descriptors[m]) \in Nat \ {0}
         /\ DOMAIN Descriptors[m] = 1 .. Len(Descriptors[m])
         /\ \A k \in DOMAIN Descriptors[m] : Descriptors[m][k] \in Digest
BY DescriptorsAssumption

LEMMA CompleteIfCommitted ==
  ASSUME B!BytesIffCommitted, NEW m \in Manifest,
         \A k \in DOMAIN Descriptors[m] : B!Committed(Descriptors[m][k])
  PROVE  Complete(m)
BY DescriptorsFacts DEF Complete, Blobs, B!BytesIffCommitted

LEMMA WInvInit == Init => WInv
<1>1. SUFFICES ASSUME Init PROVE WInv
  OBVIOUS
<1>2. TypeOK
  BY <1>1, TypeInit
<1>3. B!BytesIffCommitted
  BY <1>1 DEF Init, B!Init, B!BytesIffCommitted, B!Readable, B!Committed
<1>4. Exclusive
  BY <1>1 DEF Init, Exclusive, NoPush, PushIdle
<1>5. TaggedSurvive
  BY <1>1, NamesAssumption DEF Init, T!Init, TaggedSurvive, T!Tagged, T!TagsOf
<1>6. \A p \in Pusher : Checked(p)
  BY <1>1 DEF Init, Checked, PushIdle
<1>7. OneMap
  BY <1>1 DEF Init, OneMap, PushIdle
<1>8. QED
  BY <1>2, <1>3, <1>4, <1>5, <1>6, <1>7 DEF WInv

LEMMA WNextIsNext == WNext => Next
BY DEF WNext, Next

\* The two maps of the blob store agree after each of its operations.
LEMMA BytesNext == TypeOK /\ B!BytesIffCommitted /\ [Next]_vars => B!BytesIffCommitted'
<1>1. SUFFICES ASSUME TypeOK, B!BytesIffCommitted, [Next]_vars PROVE B!BytesIffCommitted'
  OBVIOUS
<1>. USE DEF TypeOK, B!TypeOK, B!BytesIffCommitted, B!Readable, B!Committed, B!Exists
<1>2. \A d \in Digest : B!Put(d) \/ B!Stage(d) => B!BytesIffCommitted'
  BY <1>1 DEF B!Put, B!Stage
<1>3. \A d : B!DecRef(d) => B!BytesIffCommitted'
  BY <1>1 DEF B!DecRef
<1>4. \A reachable : B!SweepUnreferenced(reachable) => B!BytesIffCommitted'
  BY <1>1 DEF B!SweepUnreferenced, B!Remove
<1>5. UNCHANGED blobVars => B!BytesIffCommitted'
  BY <1>1 DEF blobVars
<1>6. \/ \E d \in Digest : B!Put(d) \/ B!Stage(d)
      \/ \E d : B!DecRef(d)
      \/ \E reachable : B!SweepUnreferenced(reachable)
      \/ UNCHANGED blobVars
  <2>. USE <1>1 DEF vars
  <2>1. ASSUME NEW d \in Digest, Upload(d) \/ OpenUpload(d) PROVE <1>6!1
    BY <2>1 DEF Upload, OpenUpload
  <2>2. QED
    BY <2>1 DEF Next, BeginPush, PushStep, CheckDescriptor, LookupManifests, CreateManifests,
         InsertManifest, SetTag, VerifyDescriptor, LookupIndex, CreateIndex, EnterIndex,
         ReleaseUpload, BeginMark, GCStep, MarkTag, Recount, ReadLedger, ListManifests,
         KeepManifest, BeginDelete, ReleaseManifest, DeleteManifest, RemoveManifest, SweepBlobs
<1>7. QED
  BY <1>2, <1>3, <1>4, <1>5, <1>6

\* Which handlers a step can be of, and what it leaves alone.
LEMMA UploadFrame ==
  ASSUME NEW d \in Digest, Upload(d) \/ OpenUpload(d)
  PROVE  UNCHANGED <<tags, stored, storeMap, push, gc>> /\ (B!Put(d) \/ B!Stage(d))
BY DEF Upload, OpenUpload, tagVars, manifestVars

LEMMA PushFrame ==
  ASSUME TypeOK, NEW p \in Pusher, PushStep(p)
  PROVE  /\ push[p].pc # "idle" /\ gc' = gc
         /\ UNCHANGED blobVars \/ \E d : B!DecRef(d)
         /\ tags' = tags \/ SetTag(p)
BY DEF PushStep, CheckDescriptor, LookupManifests, CreateManifests, InsertManifest, SetTag,
       VerifyDescriptor, LookupIndex, CreateIndex, EnterIndex, ReleaseUpload, tagVars

LEMMA GCFrame ==
  ASSUME NEW g \in Collector, BeginMark(g) \/ GCStep(g)
  PROVE  /\ UNCHANGED <<push, tags>>
         /\ storeMap' = storeMap /\ stored' \subseteq stored
         /\ GCStep(g) => gc[g].pc # "idle"
BY DEF BeginMark, GCStep, MarkTag, Recount, ReadLedger, ListManifests, KeepManifest, BeginDelete,
       ReleaseManifest, DeleteManifest, RemoveManifest, SweepBlobs, tagVars, manifestVars

LEMMA ExclusiveNext ==
  ASSUME TypeOK, Exclusive, [WNext]_vars
  PROVE  Exclusive'
<1>1. ASSUME NEW d \in Digest, Upload(d) \/ OpenUpload(d) PROVE Exclusive'
  BY <1>1, UploadFrame DEF Exclusive, NoPush, Quiet
<1>2. ASSUME Quiet, NEW p \in Pusher, NEW m \in Manifest, NEW r \in Ref, BeginPush(p, m, r)
      PROVE Exclusive'
  BY <1>2 DEF BeginPush, Exclusive, Quiet
<1>3. ASSUME NEW p \in Pusher, PushStep(p) PROVE Exclusive'
  BY <1>3, PushFrame DEF Exclusive, NoPush, Quiet
<1>4. ASSUME NoPush, NEW g \in Collector, BeginMark(g) PROVE Exclusive'
  BY <1>4, GCFrame DEF Exclusive, NoPush
<1>5. ASSUME NEW g \in Collector, GCStep(g) PROVE Exclusive'
  BY <1>5, GCFrame DEF Exclusive, NoPush, Quiet
<1>6. CASE UNCHANGED vars
  BY <1>6 DEF vars, Exclusive, NoPush, Quiet
<1>7. QED
  BY <1>1, <1>2, <1>3, <1>4, <1>5, <1>6 DEF WNext, MayPush

LEMMA OneMapNext ==
  ASSUME TypeOK, OneMap, [WNext]_vars
  PROVE  OneMap'
<1>1. ASSUME NEW d \in Digest, Upload(d) \/ OpenUpload(d) PROVE OneMap'
  BY <1>1, UploadFrame DEF OneMap
<1>2. ASSUME MayPush, NEW p \in Pusher, NEW m \in Manifest, NEW r \in Ref, BeginPush(p, m, r)
      PROVE OneMap'
  <2>1. /\ push'[p].pc = "validate" /\ \A q \in Pusher : q # p => push'[q] = push[q]
        /\ UNCHANGED <<stored, storeMap>>
    BY <1>2 DEF BeginPush, TypeOK, manifestVars
  <2>2. storeMap = None => \A q \in Pusher : push[q].pc = "idle"
    BY <1>2 DEF MayPush, NoPush
  <2>3. QED
    BY <2>1, <2>2 DEF OneMap
<1>3. ASSUME NEW p \in Pusher, PushStep(p) PROVE OneMap'
  <2>1. push[p].pc # "idle"
    BY <1>3, PushFrame
  <2>2. storeMap' = None => stored' = {}
    BY <1>3, MapStep, NamesAssumption DEF OneMap
  <2>3. storeMap' = None => \A q, s \in Pusher :
          push'[q].pc # "idle" /\ push'[s].pc # "idle" => q = s
    <3>1. storeMap' = None => storeMap = None
      BY <1>3, MapStep, NamesAssumption
    <3>2. QED
      BY <1>3, <2>1, <3>1, MapStep DEF OneMap
  <2>4. \A q \in Pusher : push'[q].pc = "create" => storeMap' = None
    BY <1>3, <2>1, MapStep DEF OneMap
  <2>5. \A q \in Pusher : push'[q].pc = "insert" => push'[q].into = storeMap' /\ storeMap' # None
    BY <1>3, <2>1, MapStep DEF OneMap
  <2>6. QED
    BY <2>2, <2>3, <2>4, <2>5 DEF OneMap
<1>4. ASSUME NEW g \in Collector, BeginMark(g) \/ GCStep(g) PROVE OneMap'
  BY <1>4, GCFrame DEF OneMap
<1>5. CASE UNCHANGED vars
  BY <1>5 DEF vars, manifestVars, OneMap
<1>6. QED
  BY <1>1, <1>2, <1>3, <1>4, <1>5 DEF WNext

\* A push that makes the manifest map replaces none: the others are idle and
\* no manifest is tagged.
LEMMA FounderAlone ==
  ASSUME WInv, NEW p \in Pusher, push[p].pc = "create"
  PROVE  /\ \A q \in Pusher : q # p => push[q].pc = "idle"
         /\ \A m \in Manifest : ~T!Tagged(m)
<1>1. storeMap = None /\ stored = {}
  BY DEF WInv, OneMap
<1>2. \A q \in Pusher : q # p => push[q].pc = "idle"
  BY <1>1 DEF WInv, OneMap
<1>3. QED
  BY <1>1, <1>2 DEF WInv, TaggedSurvive, Survives, Intact

LEMMA TaggedNext ==
  ASSUME WInv, [WNext]_vars
  PROVE  TaggedSurvive'
<1>1. SUFFICES ASSUME NEW m \in Manifest, T!Tagged(m)' PROVE Survives(m)'
  BY DEF TaggedSurvive
<1>2. T!Tagged(m) => Survives(m)
  BY DEF WInv, TaggedSurvive
<1>3. tags' = tags => T!Tagged(m)
  BY <1>1 DEF T!Tagged, T!TagsOf
<1>4. ASSUME NEW d \in Digest, Upload(d) \/ OpenUpload(d) PROVE Survives(m)'
  BY <1>2, <1>3, <1>4, UploadFrame, PushKeeps DEF WInv
<1>5. ASSUME NEW p \in Pusher, NEW n \in Manifest, NEW r \in Ref, BeginPush(p, n, r)
      PROVE Survives(m)'
  BY <1>2, <1>3, <1>5, PushKeeps DEF WInv, BeginPush, tagVars
<1>6. ASSUME NEW p \in Pusher, PushStep(p) PROVE Survives(m)'
  <2>1. CASE T!Tagged(m)
    BY <1>2, <1>6, <2>1, FounderAlone, PushKeeps DEF WInv
  <2>2. CASE ~T!Tagged(m)
    <3>1. SetTag(p) /\ push[p].pc = "tag" /\ UNCHANGED <<blobVars, stored, gc>>
      BY <1>3, <1>6, <2>2, PushFrame DEF WInv, SetTag, manifestVars
    <3>2. push[p].m = m
      <4>1. tags' = [tags EXCEPT ![push[p].ref] = push[p].m]
        BY <3>1 DEF SetTag, T!Set
      <4>2. QED
        BY <1>1, <2>2, <4>1 DEF T!Tagged, T!TagsOf, WInv, TypeOK, T!TypeOK
    <3>3. Intact(m)'
      BY <3>1, <3>2, CompleteKept DEF WInv, Checked, Intact
    <3>4. Quiet /\ gc' = gc
      BY <3>1 DEF WInv, Exclusive, NoPush
    <3>5. QED
      BY <3>3, <3>4 DEF Survives, Spared, Quiet
  <2>3. QED
    BY <2>1, <2>2
<1>7. ASSUME NEW g \in Collector, BeginMark(g) \/ GCStep(g) PROVE Survives(m)'
  BY <1>2, <1>3, <1>7, GCFrame, MarkStepKeeps, SweepStepKeeps DEF WInv, GCStep
<1>8. CASE UNCHANGED vars
  BY <1>2, <1>3, <1>8 DEF vars, blobVars, tagVars, manifestVars, Survives, Spared, MarkedOrNamed,
     Intact, Complete, Blobs, B!Committed, B!Readable
<1>9. QED
  BY <1>4, <1>5, <1>6, <1>7, <1>8 DEF WNext

\* What a handler has checked stays true while it stands still.
LEMMA CheckedKept ==
  ASSUME TypeOK, NEW p \in Pusher, Checked(p), push'[p] = push[p], stored \subseteq stored',
         \/ \E d \in Digest : B!Put(d) \/ B!Stage(d)
         \/ \E d : B!DecRef(d)
         \/ UNCHANGED blobVars
  PROVE  Checked(p)'
<1>1. CASE push[p].pc = "idle"
  BY <1>1 DEF Checked
<1>2. CASE push[p].pc # "idle"
  <2>1. push[p].m \in Manifest
    BY <1>2, PushActive
  <2>2. \A d \in Digest : B!Committed(d) => B!Committed(d)'
    BY DEF TypeOK, B!TypeOK, B!Committed, B!Put, B!Stage, B!Exists, B!DecRef, blobVars
  <2>3. Complete(push[p].m) => Complete(push[p].m)'
    BY <2>1, CompleteKept
  <2>4. QED
    BY <2>1, <2>2, <2>3, DescriptorsFacts DEF Checked
<1>3. QED
  BY <1>1, <1>2

\* Each step of a push establishes what its next point needs.
LEMMA CheckedStep ==
  ASSUME WInv, NEW p \in Pusher, PushStep(p)
  PROVE  Checked(p)'
<1>. DEFINE i == push[p].i
<1>0. PICK m \in Manifest : m = push[p].m
  BY PushFrame, PushActive DEF WInv
<1>1. /\ push[p].pc # "idle" /\ Checked(p) /\ TypeOK /\ B!BytesIffCommitted
      /\ push[p] \in [pc : PushPC, m : Manifest, ref : Ref, i : Nat, into : Pusher \cup {None}]
      /\ push \in [Pusher -> PushState]
  BY PushFrame, PushActive DEF WInv, TypeOK
<1>2. /\ Len(Descriptors[m]) \in Nat \ {0}
      /\ DOMAIN Descriptors[m] = 1 .. Len(Descriptors[m])
  BY <1>0, <1>1, DescriptorsFacts
<1>3. ASSUME Return(p) PROVE Checked(p)'
  BY <1>0, <1>1, <1>3 DEF Return, Checked, PushIdle
<1>4. ASSUME NEW pc \in PushPC, Goto(p, pc)
      PROVE /\ push'[p].pc = pc /\ push'[p].m = m /\ push'[p].i = 1
            /\ 1 \in DOMAIN Descriptors[m]
  BY <1>0, <1>1, <1>2, <1>4 DEF Goto
<1>4a. ASSUME NEW map, NEW pc, Hold(p, map, pc)
       PROVE push'[p].pc = pc /\ push'[p].m = m
  BY <1>0, <1>1, <1>4a DEF Hold
<1>5. ASSUME NextDescriptor(p), ~LastDescriptor(p)
      PROVE /\ push'[p].pc = push[p].pc /\ push'[p].m = m /\ push'[p].i = i + 1
            /\ i \in DOMAIN Descriptors[m] => i + 1 \in DOMAIN Descriptors[m]
  BY <1>0, <1>1, <1>2, <1>5 DEF NextDescriptor, LastDescriptor
<1>6. CASE CheckDescriptor(p)
  <2>1. CASE Return(p)
    BY <1>0, <1>3, <2>1
  <2>2. CASE Accepts(Descriptor(p)) /\ LastDescriptor(p)
    <3>1. CASE push[p].pc = "validate"
      <4>1. Goto(p, "recheck")
        BY <1>0, <1>6, <2>2, <3>1 DEF CheckDescriptor, Advance
      <4>2. push'[p].pc = "recheck" /\ push'[p].m = m /\ push'[p].i = 1
        BY <1>0, <1>4, <4>1 DEF PushPC
      <4>3. QED
        BY <1>0, <1>2, <4>2 DEF Checked
    <3>2. CASE push[p].pc = "recheck"
      <4>1. Goto(p, "store")
        BY <1>0, <1>6, <2>2, <3>2 DEF CheckDescriptor, Advance
      <4>2. push'[p].pc = "store" /\ push'[p].m = m
        BY <1>0, <1>4, <4>1 DEF PushPC
      <4>3. \A k \in DOMAIN Descriptors[m] : B!Committed(Descriptors[m][k])
        BY <1>0, <1>1, <1>2, <2>2, <3>2 DEF Checked, Accepts, Descriptor, LastDescriptor
      <4>4. Complete(m)
        BY <1>0, <1>1, <4>3, CompleteIfCommitted
      <4>5. Complete(m)'
        BY <1>0, <1>1, <1>6, <4>4, CompleteKept DEF CheckDescriptor
      <4>6. QED
        BY <1>0, <4>2, <4>5 DEF Checked
    <3>3. QED
      BY <1>0, <1>6, <3>1, <3>2 DEF CheckDescriptor
  <2>3. CASE Accepts(Descriptor(p)) /\ ~LastDescriptor(p)
    <3>1. NextDescriptor(p)
      BY <1>0, <1>6, <2>3 DEF CheckDescriptor, Advance
    <3>2. /\ push'[p].pc = push[p].pc /\ push'[p].m = m /\ push'[p].i = i + 1
          /\ i + 1 \in DOMAIN Descriptors[m]
      BY <1>0, <1>1, <1>5, <1>6, <2>3, <3>1 DEF Checked, CheckDescriptor
    <3>3. \A k \in DOMAIN Descriptors[m] :
            push[p].pc = "recheck" /\ k < i + 1 => B!Committed(Descriptors[m][k])
      BY <1>0, <1>1, <1>2, <2>3 DEF Checked, Accepts, Descriptor
    <3>4. \A k \in DOMAIN Descriptors[m] :
            push[p].pc = "recheck" /\ k < i + 1 => B!Committed(Descriptors[m][k])'
      BY <1>0, <1>6, <3>3 DEF CheckDescriptor, blobVars, B!Committed
    <3>5. QED
      BY <1>0, <1>6, <3>2, <3>4 DEF Checked, CheckDescriptor
  <2>4. QED
    BY <1>0, <1>6, <2>1, <2>2, <2>3 DEF CheckDescriptor
<1>7. CASE LookupManifests(p) \/ CreateManifests(p)
  <2>1. push'[p].pc \in {"create", "insert"} /\ push'[p].m = m
    BY <1>0, <1>4a, <1>7 DEF LookupManifests, CreateManifests
  <2>2. Complete(m)'
    BY <1>0, <1>1, <1>7, CompleteKept DEF LookupManifests, CreateManifests, Checked
  <2>3. QED
    BY <1>0, <2>1, <2>2 DEF Checked
<1>7a. CASE InsertManifest(p)
  <2>1. push'[p].pc = "tag" /\ push'[p].m = m /\ m \in stored'
    BY <1>0, <1>4, <1>7a DEF InsertManifest, PushPC, WInv, OneMap
  <2>2. Complete(m)'
    BY <1>0, <1>1, <1>7a, CompleteKept DEF InsertManifest, Checked
  <2>3. QED
    BY <1>0, <2>1, <2>2 DEF Checked
<1>8. CASE SetTag(p)
  BY <1>0, <1>4, <1>8 DEF SetTag, Checked, PushPC
<1>9. CASE VerifyDescriptor(p)
  <2>1. push'[p].pc \in {"verify", "index"} \/ Return(p)
    BY <1>0, <1>4, <1>5, <1>9 DEF VerifyDescriptor, Advance, PushPC
  <2>2. QED
    BY <1>0, <1>3, <2>1 DEF Checked
<1>10. CASE LookupIndex(p) \/ CreateIndex(p) \/ EnterIndex(p)
  <2>1. push'[p].pc \in {"newindex", "enter", "release"} \/ Return(p)
    BY <1>0, <1>4, <1>4a, <1>10 DEF LookupIndex, CreateIndex, EnterIndex, PushPC
  <2>2. QED
    BY <1>0, <1>3, <2>1 DEF Checked
<1>11. CASE ReleaseUpload(p)
  BY <1>0, <1>3, <1>5, <1>11 DEF ReleaseUpload, Checked
<1>12. QED
  BY <1>0, <1>6, <1>7, <1>7a, <1>8, <1>9, <1>10, <1>11 DEF PushStep

LEMMA CheckedNext ==
  ASSUME WInv, [WNext]_vars, NEW p \in Pusher
  PROVE  Checked(p)'
<1>1. ASSUME NEW d \in Digest, Upload(d) \/ OpenUpload(d) PROVE Checked(p)'
  BY <1>1, UploadFrame, CheckedKept DEF WInv
<1>2. ASSUME NEW q \in Pusher, NEW m \in Manifest, NEW r \in Ref, BeginPush(q, m, r)
      PROVE Checked(p)'
  <2>1. CASE p = q
    BY <1>2, <2>1, DescriptorsFacts DEF BeginPush, Checked, WInv, TypeOK
  <2>2. CASE p # q
    <3>1. push'[p] = push[p] /\ UNCHANGED <<blobVars, stored>>
      BY <1>2, <2>2 DEF BeginPush, WInv, TypeOK, manifestVars
    <3>2. QED
      BY <3>1, CheckedKept DEF WInv
  <2>3. QED
    BY <2>1, <2>2
<1>3. ASSUME NEW q \in Pusher, PushStep(q) PROVE Checked(p)'
  <2>1. CASE p = q
    BY <1>3, <2>1, CheckedStep
  <2>2. CASE p # q /\ push[q].pc = "create"
    BY <1>3, <2>2, MapStep, FounderAlone DEF WInv, Checked
  <2>3. CASE p # q /\ push[q].pc # "create"
    BY <1>3, <2>3, PushFrame, MapStep, CheckedKept DEF WInv
  <2>4. QED
    BY <2>1, <2>2, <2>3
<1>4. ASSUME NoPush, NEW g \in Collector, BeginMark(g) PROVE Checked(p)'
  BY <1>4, GCFrame DEF NoPush, Checked
<1>5. ASSUME NEW g \in Collector, GCStep(g) PROVE Checked(p)'
  BY <1>5, GCFrame DEF WInv, Exclusive, Quiet, NoPush, Checked
<1>6. CASE UNCHANGED vars
  BY <1>6, CheckedKept DEF vars, manifestVars, WInv
<1>7. QED
  BY <1>1, <1>2, <1>3, <1>4, <1>5, <1>6 DEF WNext

LEMMA WInvNext == WInv /\ [WNext]_vars => WInv'
BY WNextIsNext, TypeNext, BytesNext, ExclusiveNext, OneMapNext, TaggedNext, CheckedNext DEF WInv

\* Under the discipline a name leads to a stored manifest, whatever pushes
\* overlap once there is a manifest map and whatever was collected before.
THEOREM TagsAlwaysResolve == WSpec => []TagsResolve
<1>1. WInv => TagsResolve
  BY DEF WInv, TaggedSurvive, Survives, Intact, TagsResolve, T!Tagged, T!TagsOf, TypeOK, T!TypeOK
<1>2. QED
  BY <1>1, WInvInit, WInvNext, PTL DEF WSpec

Ready == {d \in Digest : B!Committed(d)}

LEMMA RefineInit == Init => C!Init
BY DEF Init, B!Init, T!Init, C!Init, B!Committed

\* Every step is a step of the catalog or none of its business.
LEMMA RefineNext == WInv /\ [WNext]_vars => [C!Next]_<<tags, Ready>>
<1>1. SUFFICES ASSUME WInv, [WNext]_vars PROVE [C!Next]_<<tags, Ready>>
  OBVIOUS
<1>2. TypeOK /\ B!TypeOK
  BY <1>1 DEF WInv, TypeOK
<1>3. ASSUME NEW d \in Digest, Upload(d) \/ OpenUpload(d) PROVE [C!Next]_<<tags, Ready>>
  <2>1. CASE Upload(d)
    <3>1. Ready' = Ready \cup {d} /\ tags' = tags
      BY <1>2, <2>1 DEF Upload, B!Put, Ready, B!TypeOK, B!Committed, tagVars
    <3>2. QED
      BY <3>1 DEF C!Next, C!Commit, Ready
  <2>2. CASE OpenUpload(d)
    BY <1>2, <2>2 DEF OpenUpload, B!Stage, B!Exists, Ready, B!TypeOK, B!Committed, tagVars
  <2>3. QED
    BY <1>3, <2>1, <2>2
<1>4. ASSUME NEW p \in Pusher, PushStep(p) PROVE [C!Next]_<<tags, Ready>>
  <2>1. Ready' = Ready
    BY <1>4, <1>2, PushFrame DEF Ready, B!Committed, B!DecRef, blobVars
  <2>2. CASE SetTag(p)
    <3>1. push[p].pc = "tag" /\ tags' = [tags EXCEPT ![push[p].ref] = push[p].m]
      BY <2>2 DEF SetTag, T!Set
    <3>2. push[p].ref \in Ref /\ push[p].m \in Manifest
      BY <1>2, <3>1, PushActive
    <3>3. Blobs(push[p].m) \subseteq Ready
      BY <1>1, <3>1, <3>2, BlobsAreDigests DEF WInv, Checked, Complete, Ready
    <3>4. QED
      BY <2>1, <3>1, <3>2, <3>3 DEF C!Next, C!Publish, Ready
  <2>3. QED
    BY <1>2, <1>4, <2>1, <2>2, PushFrame
<1>5. ASSUME NEW g \in Collector, SweepBlobs(g) PROVE [C!Next]_<<tags, Ready>>
  <2>1. tags' = tags /\ Ready' \subseteq Ready
    BY <1>5 DEF SweepBlobs, B!SweepUnreferenced, B!Remove, Ready, B!Committed, tagVars
  <2>2. ASSUME NEW r \in Ref, tags[r] # None PROVE Blobs(tags[r]) \subseteq Ready'
    <3>1. PICK m \in Manifest : m = tags[r] /\ T!Tagged(m)
      BY <1>2, <2>2 DEF TypeOK, T!TypeOK, T!Tagged, T!TagsOf
    <3>2. Complete(m)'
      BY <1>1, <1>2, <1>5, <3>1, SweepStepKeeps DEF WInv, TaggedSurvive, Survives, Intact
    <3>3. QED
      BY <2>1, <3>1, <3>2, BlobsAreDigests DEF Complete, Ready, Blobs
  <2>3. (Ready \ Ready') \cap C!Needed = {} /\ Ready' = Ready \ (Ready \ Ready')
    BY <2>1, <2>2 DEF C!Needed
  <2>4. QED
    BY <2>1, <2>3 DEF C!Next, C!Reclaim, Ready
<1>6. ASSUME NEW g \in Collector, BeginMark(g) \/ GCStep(g), ~SweepBlobs(g)
      PROVE [C!Next]_<<tags, Ready>>
  <2>1. UNCHANGED blobVars \/ \E d : B!DecRef(d)
    BY <1>6 DEF BeginMark, GCStep, MarkTag, Recount, ReadLedger, ListManifests, KeepManifest,
         BeginDelete, ReleaseManifest, DeleteManifest, RemoveManifest
  <2>2. Ready' = Ready
    BY <2>1 DEF Ready, B!Committed, B!DecRef, blobVars
  <2>3. QED
    BY <1>6, <2>2, GCFrame
<1>7. CASE UNCHANGED vars \/ \E p \in Pusher, m \in Manifest, r \in Ref : BeginPush(p, m, r)
  BY <1>7 DEF vars, BeginPush, blobVars, tagVars, Ready, B!Committed
<1>8. QED
  BY <1>1, <1>3, <1>4, <1>5, <1>6, <1>7 DEF WNext

\* Under the discipline handlers, references and collections are invisible: the
\* repository is the catalog its clients are promised.
THEOREM RepositoryIsCatalog == WSpec => ImplementsCatalog
<1>1. WSpec => []WInv
  BY WInvInit, WInvNext, PTL DEF WSpec
<1>2. QED
  BY <1>1, RefineInit, RefineNext, PTL DEF WSpec, ImplementsCatalog, C!Spec, Ready
=============================================================================
