---------------------------- MODULE PushGCProofs ----------------------------
(***************************************************************************)
(* Type correctness of the push and collection handlers, for any number of *)
(* pushers, collectors, tags, manifests and blobs; and the lemmas that say *)
(* when a step leaves a tagged artifact whole, on which the proofs about   *)
(* ArtifactSurvival and Windowed rest.                                     *)
(***************************************************************************)
EXTENDS PushGC, FiniteSetTheorems, TLAPS

LEMMA BlobsAreDigests == \A m \in Manifest : Blobs(m) \subseteq Digest
BY DescriptorsAssumption DEF Blobs

LEMMA PushIdleType == PushIdle \in PushState
BY DEF PushState

LEMMA GCIdleType == GCIdle \in GCState
BY DEF GCIdle, GCState, GCPC

\* A handler past its first statement works on a manifest and a tag.
LEMMA PushActive ==
  ASSUME TypeOK, NEW p \in Pusher, push[p].pc # "idle"
  PROVE  push[p] \in [pc : PushPC, m : Manifest, ref : Ref, i : Nat, into : Pusher \cup {None}]
BY DEF TypeOK, PushState, PushIdle

\* The store operations keep their own types whatever they are called with.
LEMMA BlobOpsType ==
  /\ \A d \in Digest : B!TypeOK /\ (B!Put(d) \/ B!Stage(d)) => B!TypeOK'
  /\ \A d : B!TypeOK /\ B!DecRef(d) => B!TypeOK'
  /\ \A reachable : B!TypeOK /\ B!SweepUnreferenced(reachable) => B!TypeOK'
<1>. USE DEF B!TypeOK, B!BlobState
<1>1. \A d \in Digest : B!TypeOK /\ (B!Put(d) \/ B!Stage(d)) => B!TypeOK'
  BY DEF B!Put, B!Stage
<1>2. \A d : B!TypeOK /\ B!DecRef(d) => B!TypeOK'
  <2>1. SUFFICES ASSUME NEW d, B!TypeOK, B!DecRef(d) PROVE B!TypeOK'
    OBVIOUS
  <2>2. CASE d \in Digest
    BY <2>1, <2>2 DEF B!DecRef
  <2>3. CASE d \notin Digest
    <3>1. refCount' = refCount
      BY <2>1, <2>3 DEF B!DecRef
    <3>2. QED
      BY <2>1, <3>1 DEF B!DecRef
  <2>4. QED
    BY <2>2, <2>3
<1>3. \A reachable : B!TypeOK /\ B!SweepUnreferenced(reachable) => B!TypeOK'
  BY DEF B!SweepUnreferenced, B!Remove
<1>4. QED
  BY <1>1, <1>2, <1>3

LEMMA TagSetType ==
  ASSUME T!TypeOK, NEW r \in Ref, NEW m \in Manifest, T!Set(r, m)
  PROVE  T!TypeOK'
<1>1. tags' \in [Ref -> Manifest \cup {None}]
  BY DEF T!TypeOK, T!Set
<1>2. DEFINE dropped == T!Dropped(tags[r])
<1>3. dropped \in [Manifest -> Nat]
  BY DEF T!TypeOK, T!Dropped
<1>4. ledger' = ledger \/ ledger' = [dropped EXCEPT ![m] = @ + 1]
  BY DEF T!Set
<1>5. HIDE DEF dropped
<1>6. ledger' \in [Manifest -> Nat]
  BY <1>3, <1>4 DEF T!TypeOK
<1>7. QED
  BY <1>1, <1>6 DEF T!TypeOK

LEMMA TypeInit == Init => TypeOK
BY PushIdleType, GCIdleType, MaxRefsAssumption
   DEF Init, TypeOK, B!Init, B!TypeOK, B!BlobState, T!Init, T!TypeOK

\* Each step of a push keeps its handler's state in its type.
LEMMA PushStepType ==
  ASSUME TypeOK, NEW p \in Pusher, PushStep(p)
  PROVE  push' \in [Pusher -> PushState] /\ push[p].pc # "idle"
<1>1. push[p].pc # "idle"
  BY DEF PushStep, CheckDescriptor, LookupManifests, CreateManifests, InsertManifest, SetTag,
       VerifyDescriptor, LookupIndex, CreateIndex, EnterIndex, ReleaseUpload
<1>2. push[p] \in [pc : PushPC, m : Manifest, ref : Ref, i : Nat, into : Pusher \cup {None}]
  BY <1>1, PushActive
<1>3. ASSUME NEW pc \in PushPC, Advance(p, pc) \/ Goto(p, pc) \/ NextDescriptor(p)
      PROVE push' \in [Pusher -> PushState]
  BY <1>2, <1>3 DEF Advance, Goto, NextDescriptor, TypeOK, PushState
<1>4. ASSUME NEW map \in Pusher \cup {None}, NEW pc \in PushPC, Hold(p, map, pc)
      PROVE push' \in [Pusher -> PushState]
  <2>1. [push[p] EXCEPT !.pc = pc, !.into = map] \in PushState
    BY <1>2 DEF PushState
  <2>2. QED
    BY <1>4, <2>1 DEF Hold, TypeOK
<1>5. ASSUME Return(p) PROVE push' \in [Pusher -> PushState]
  BY <1>5, PushIdleType DEF Return, TypeOK
<1>6. CASE CheckDescriptor(p)
  BY <1>1, <1>3, <1>5, <1>6 DEF CheckDescriptor, PushPC
<1>7. CASE LookupManifests(p) \/ CreateManifests(p) \/ LookupIndex(p) \/ CreateIndex(p)
  BY <1>4, <1>7 DEF LookupManifests, CreateManifests, LookupIndex, CreateIndex, TypeOK, PushPC
<1>8. CASE SetTag(p)
  BY <1>1, <1>3, <1>8 DEF SetTag, PushPC
<1>9. CASE VerifyDescriptor(p)
  BY <1>1, <1>3, <1>5, <1>9 DEF VerifyDescriptor, PushPC
<1>10. CASE InsertManifest(p) \/ EnterIndex(p)
  BY <1>1, <1>3, <1>5, <1>10 DEF InsertManifest, EnterIndex, PushPC
<1>11. CASE ReleaseUpload(p)
  BY <1>1, <1>3, <1>5, <1>11 DEF ReleaseUpload, PushPC
<1>12. QED
  BY <1>6, <1>7, <1>8, <1>9, <1>10, <1>11 DEF PushStep

\* Each step of a collection keeps its handler's state in its type.
LEMMA GCStepType ==
  ASSUME TypeOK, NEW g \in Collector, BeginMark(g) \/ GCStep(g)
  PROVE  gc' \in [Collector -> GCState]
<1>1. gc[g] \in GCState
  BY DEF TypeOK
<1>2. CASE BeginMark(g)
  <2>1. {<<r, tags[r]>> : r \in {q \in Ref : tags[q] # None}} \subseteq Ref \X Manifest
    BY DEF TypeOK, T!TypeOK
  <2>2. QED
    BY <1>1, <1>2, <2>1 DEF BeginMark, TypeOK, GCState, GCPC
<1>3. CASE MarkTag(g)
  <2>1. PICK name \in gc[g].names :
          \/ gc' = [gc EXCEPT ![g].names = @ \ {name}, ![g].reachM = @ \cup {name[2]},
                              ![g].reachB = @ \cup Blobs(name[2])]
          \/ gc' = [gc EXCEPT ![g].names = @ \ {name}]
    BY <1>3 DEF MarkTag
  <2>2. /\ gc[g].names \ {name} \in SUBSET (Ref \X Manifest)
        /\ gc[g].reachM \cup {name[2]} \in SUBSET Manifest
        /\ gc[g].reachB \cup Blobs(name[2]) \in SUBSET Digest
    BY <1>1, <2>1, BlobsAreDigests DEF GCState
  <2>3. /\ [gc[g] EXCEPT !.names = @ \ {name}, !.reachM = @ \cup {name[2]},
                         !.reachB = @ \cup Blobs(name[2])] \in GCState
        /\ [gc[g] EXCEPT !.names = @ \ {name}] \in GCState
    BY <1>1, <2>2 DEF GCState
  <2>4. QED
    BY <2>1, <2>3 DEF TypeOK
<1>4. CASE Recount(g)
  <2>1. [m \in Manifest |-> Cardinality(T!TagsOf(m))] \in [Manifest -> Nat]
    BY NamesAssumption, FS_Subset, FS_CardinalityType DEF T!TagsOf
  <2>2. QED
    BY <1>1, <1>4, <2>1 DEF Recount, TypeOK, GCState, GCPC
<1>5. CASE ReadLedger(g)
  BY <1>1, <1>5 DEF ReadLedger, TypeOK, T!TypeOK, GCState, GCPC
<1>6. CASE ListManifests(g)
  BY <1>1, <1>6 DEF ListManifests, TypeOK, GCState, GCPC
<1>7. CASE KeepManifest(g)
  <2>1. PICK m \in gc[g].todo :
          \/ gc' = [gc EXCEPT ![g].todo = @ \ {m}, ![g].reachB = @ \cup Blobs(m)]
          \/ gc' = [gc EXCEPT ![g].todo = @ \ {m}]
    BY <1>7 DEF KeepManifest
  <2>2. /\ gc[g].todo \ {m} \in SUBSET Manifest
        /\ gc[g].reachB \cup Blobs(m) \in SUBSET Digest
    BY <1>1, <2>1, BlobsAreDigests DEF GCState
  <2>3. /\ [gc[g] EXCEPT !.todo = @ \ {m}, !.reachB = @ \cup Blobs(m)] \in GCState
        /\ [gc[g] EXCEPT !.todo = @ \ {m}] \in GCState
    BY <1>1, <2>2 DEF GCState
  <2>4. QED
    BY <2>1, <2>3 DEF TypeOK
<1>8. CASE BeginDelete(g)
  <2>1. PICK m \in gc[g].todo :
          \/ gc' = [gc EXCEPT ![g].todo = @ \ {m}, ![g].pc = "release", ![g].cur = m]
          \/ gc' = [gc EXCEPT ![g].todo = @ \ {m}]
    BY <1>8 DEF BeginDelete
  <2>2. m \in Manifest /\ gc[g].todo \ {m} \in SUBSET Manifest
    BY <1>1, <2>1 DEF GCState
  <2>3. /\ [gc[g] EXCEPT !.todo = @ \ {m}, !.pc = "release", !.cur = m] \in GCState
        /\ [gc[g] EXCEPT !.todo = @ \ {m}] \in GCState
    BY <1>1, <2>2 DEF GCState, GCPC
  <2>4. QED
    BY <2>1, <2>3 DEF TypeOK
<1>9. CASE ReleaseManifest(g)
  <2>1. CASE gc' = [gc EXCEPT ![g].pc = "delete", ![g].i = 1]
    BY <1>1, <2>1 DEF TypeOK, GCState, GCPC
  <2>2. CASE gc' = [gc EXCEPT ![g].i = @ + 1]
    <3>1. gc[g].i + 1 \in Nat
      BY <1>1 DEF GCState
    <3>2. [gc[g] EXCEPT !.i = @ + 1] \in GCState
      BY <1>1, <3>1 DEF GCState
    <3>3. QED
      BY <2>2, <3>2 DEF TypeOK
  <2>3. QED
    BY <1>9, <2>1, <2>2 DEF ReleaseManifest
<1>10. CASE DeleteManifest(g)
  BY <1>1, <1>10, GCIdleType DEF DeleteManifest, TypeOK, GCState, GCPC
<1>11. CASE RemoveManifest(g)
  BY <1>1, <1>11 DEF RemoveManifest, TypeOK, GCState, GCPC
<1>12. CASE SweepBlobs(g)
  BY <1>12, GCIdleType DEF SweepBlobs, TypeOK
<1>13. QED
  BY <1>2, <1>3, <1>4, <1>5, <1>6, <1>7, <1>8, <1>9, <1>10, <1>11, <1>12 DEF GCStep

LEMMA TypeNext == TypeOK /\ [Next]_vars => TypeOK'
<1>1. SUFFICES ASSUME TypeOK, [Next]_vars PROVE TypeOK'
  OBVIOUS
<1>. USE DEF blobVars, tagVars, manifestVars, indexVars
<1>2. ASSUME NEW d \in Digest, Upload(d) \/ OpenUpload(d) PROVE TypeOK'
  BY <1>1, <1>2, BlobOpsType DEF Upload, OpenUpload, TypeOK, T!TypeOK
<1>3. ASSUME NEW p \in Pusher, NEW m \in Manifest, NEW r \in Ref, BeginPush(p, m, r)
      PROVE TypeOK'
  <2>1. push' \in [Pusher -> PushState]
    BY <1>1, <1>3 DEF BeginPush, TypeOK, PushState, PushPC
  <2>2. QED
    BY <1>1, <1>3, <2>1 DEF BeginPush, TypeOK, T!TypeOK, B!TypeOK
<1>4. ASSUME NEW p \in Pusher, PushStep(p) PROVE TypeOK'
  <2>1. push' \in [Pusher -> PushState] /\ push[p].m \in Manifest /\ push[p].ref \in Ref
    BY <1>1, <1>4, PushStepType, PushActive
  <2>2. B!TypeOK'
    BY <1>1, <1>4, BlobOpsType DEF TypeOK, B!TypeOK, PushStep, CheckDescriptor,
         LookupManifests, CreateManifests, InsertManifest, SetTag, VerifyDescriptor,
         LookupIndex, CreateIndex, EnterIndex, ReleaseUpload
  <2>3. T!TypeOK'
    BY <1>1, <1>4, <2>1, TagSetType DEF TypeOK, T!TypeOK, PushStep, CheckDescriptor,
         LookupManifests, CreateManifests, InsertManifest, SetTag, VerifyDescriptor,
         LookupIndex, CreateIndex, EnterIndex, ReleaseUpload
  <2>4. /\ stored' \subseteq Manifest /\ index' \in [Ref -> Manifest \cup {None}] /\ gc' = gc
        /\ {storeMap', indexMap'} \subseteq Pusher \cup {None}
    BY <1>1, <1>4, <2>1 DEF TypeOK, PushStep, CheckDescriptor, LookupManifests,
         CreateManifests, InsertManifest, SetTag, VerifyDescriptor, LookupIndex, CreateIndex,
         EnterIndex, ReleaseUpload
  <2>5. QED
    BY <1>1, <2>1, <2>2, <2>3, <2>4 DEF TypeOK
<1>5. ASSUME NEW g \in Collector, BeginMark(g) \/ GCStep(g) PROVE TypeOK'
  <2>1. gc' \in [Collector -> GCState]
    BY <1>1, <1>5, GCStepType
  <2>2. B!TypeOK'
    BY <1>1, <1>5, BlobOpsType DEF TypeOK, B!TypeOK, BeginMark, GCStep, MarkTag, Recount,
         ReadLedger, ListManifests, KeepManifest, BeginDelete, ReleaseManifest, DeleteManifest,
         RemoveManifest, SweepBlobs
  <2>3. /\ T!TypeOK' /\ stored' \subseteq Manifest /\ push' = push
        /\ UNCHANGED <<storeMap, indexVars>>
    BY <1>1, <1>5 DEF TypeOK, T!TypeOK, BeginMark, GCStep, MarkTag, Recount, ReadLedger,
         ListManifests, KeepManifest, BeginDelete, ReleaseManifest, DeleteManifest,
         RemoveManifest, SweepBlobs
  <2>4. QED
    BY <1>1, <2>1, <2>2, <2>3 DEF TypeOK
<1>6. CASE UNCHANGED vars
  BY <1>1, <1>6 DEF vars, TypeOK, T!TypeOK, B!TypeOK
<1>7. QED
  BY <1>1, <1>2, <1>3, <1>4, <1>5, <1>6 DEF Next

\* The handlers' program counters and local state stay in their types.
THEOREM TypeCorrect == Spec => []TypeOK
BY TypeInit, TypeNext, PTL DEF Spec

----------------------------------------------------------------------------
\* What a step of a push does to the manifest map: only a push that has seen
\* none makes one, and one that inserts holds the map it saw or made.
LEMMA MapStep ==
  ASSUME TypeOK, NEW p \in Pusher, PushStep(p)
  PROVE  /\ \A q \in Pusher : q # p => push'[q] = push[q]
         /\ push[p].pc = "create" => storeMap' = p /\ stored' = {} /\ push'[p].pc = "insert"
         /\ push[p].pc # "create" => storeMap' = storeMap /\ stored \subseteq stored'
         /\ stored' \subseteq stored \/ (push[p].pc = "insert" /\ push[p].into = storeMap)
         /\ push'[p].pc = "create" => storeMap = None /\ push[p].pc # "create"
         /\ push'[p].pc = "insert" => push'[p].into = storeMap' /\ storeMap' # None
<1>1. push \in [Pusher -> PushState]
  BY DEF TypeOK
<1>2. push[p] \in [pc : PushPC, m : Manifest, ref : Ref, i : Nat, into : Pusher \cup {None}]
  BY PushStepType, PushActive
<1>3. ASSUME NEW pc, Goto(p, pc) PROVE push'[p].pc = pc
  BY <1>1, <1>2, <1>3 DEF Goto
<1>4. ASSUME NEW pc, NEW map, Hold(p, map, pc) PROVE push'[p].pc = pc /\ push'[p].into = map
  BY <1>1, <1>2, <1>4 DEF Hold
<1>5. ASSUME Return(p) PROVE push'[p].pc = "idle"
  BY <1>1, <1>5 DEF Return, PushIdle
<1>6. ASSUME NextDescriptor(p) PROVE push'[p].pc = push[p].pc
  BY <1>1, <1>2, <1>6 DEF NextDescriptor
<1>7. \A q \in Pusher : q # p => push'[q] = push[q]
  BY <1>1 DEF PushStep, CheckDescriptor, LookupManifests, CreateManifests, InsertManifest, SetTag,
       VerifyDescriptor, LookupIndex, CreateIndex, EnterIndex, ReleaseUpload, Advance, Goto, Hold,
       Return, NextDescriptor
<1>8. CASE LookupManifests(p) \/ CreateManifests(p)
  BY <1>4, <1>7, <1>8, NamesAssumption DEF LookupManifests, CreateManifests, manifestVars
<1>9. CASE InsertManifest(p)
  BY <1>3, <1>7, <1>9 DEF InsertManifest
<1>10. CASE LookupIndex(p) \/ CreateIndex(p)
  BY <1>4, <1>7, <1>10 DEF LookupIndex, CreateIndex, manifestVars
<1>11. CASE \/ CheckDescriptor(p) \/ SetTag(p) \/ VerifyDescriptor(p) \/ EnterIndex(p)
            \/ ReleaseUpload(p)
  <2>1. /\ push[p].pc \in {"validate", "recheck", "tag", "verify", "enter", "release"}
        /\ UNCHANGED manifestVars
    BY <1>11 DEF CheckDescriptor, SetTag, VerifyDescriptor, EnterIndex, ReleaseUpload
  <2>2. push'[p].pc \in {push[p].pc, "idle", "recheck", "store", "verify", "index", "release"}
    BY <1>3, <1>5, <1>6, <1>11 DEF CheckDescriptor, SetTag, VerifyDescriptor, EnterIndex,
         ReleaseUpload, Advance
  <2>3. QED
    BY <1>7, <2>1, <2>2 DEF manifestVars
<1>12. QED
  BY <1>8, <1>9, <1>10, <1>11 DEF PushStep

----------------------------------------------------------------------------
\* A manifest no running collection can harm.
Survives(m) == Intact(m) /\ \A g \in Collector : Spared(g, m)

\* The blob store operations other than the sweep lose no blob, and the sweep
\* loses none that is marked.
LEMMA CompleteKept ==
  ASSUME NEW m \in Manifest, TypeOK, Complete(m)
  PROVE  /\ \A d \in Digest : B!Put(d) \/ B!Stage(d) => Complete(m)'
         /\ \A d : B!DecRef(d) => Complete(m)'
         /\ \A reachable : B!SweepUnreferenced(reachable) /\ Blobs(m) \subseteq reachable
                             => Complete(m)'
         /\ UNCHANGED blobVars => Complete(m)'
<1>. USE DEF Complete, Blobs, B!Committed, B!Readable
<1>1. \A d \in Digest : B!Put(d) \/ B!Stage(d) => Complete(m)'
  BY BlobsAreDigests DEF TypeOK, B!TypeOK, B!Put, B!Stage, B!Exists
<1>2. \A d : B!DecRef(d) => Complete(m)'
  BY DEF B!DecRef
<1>3. \A reachable : B!SweepUnreferenced(reachable) /\ Blobs(m) \subseteq reachable
                       => Complete(m)'
  BY BlobsAreDigests DEF B!SweepUnreferenced, B!Remove
<1>4. UNCHANGED blobVars => Complete(m)'
  BY DEF blobVars
<1>5. QED
  BY <1>1, <1>2, <1>3, <1>4

\* Uploads and pushes change no collector and lose no blob; and no manifest,
\* unless a push that saw no manifest map makes one.
LEMMA PushKeeps ==
  ASSUME TypeOK, NEW m \in Manifest, Survives(m),
         \/ \E d \in Digest : Upload(d) \/ OpenUpload(d)
         \/ \E p \in Pusher, n \in Manifest, r \in Ref : BeginPush(p, n, r)
         \/ \E p \in Pusher : push[p].pc # "create" /\ PushStep(p)
  PROVE  Survives(m)'
<1>1. gc' = gc /\ (m \in stored => m \in stored')
  BY DEF manifestVars, Upload, OpenUpload, BeginPush, PushStep, CheckDescriptor, LookupManifests,
       CreateManifests, InsertManifest, SetTag, VerifyDescriptor, LookupIndex, CreateIndex,
       EnterIndex, ReleaseUpload
<1>2. Complete(m)'
  BY CompleteKept DEF Survives, Spared, Intact, Upload, OpenUpload, BeginPush, PushStep,
       CheckDescriptor, LookupManifests, CreateManifests, InsertManifest, SetTag,
       VerifyDescriptor, LookupIndex, CreateIndex, EnterIndex, ReleaseUpload
<1>3. QED
  BY <1>1, <1>2 DEF Survives, Spared, Intact, MarkedOrNamed

\* What a collection step does, seen from its own collector; the others' local
\* state does not move.
LEMMA OthersKeep ==
  ASSUME TypeOK, NEW m \in Manifest, Survives(m), NEW g \in Collector, NEW h \in Collector,
         h # g, gc'[h] = gc[h]
  PROVE  Spared(h, m)'
BY DEF Survives, Spared, MarkedOrNamed

LEMMA MarkStepKeeps ==
  ASSUME TypeOK, NEW m \in Manifest, Survives(m), T!Tagged(m), NEW g \in Collector,
         BeginMark(g) \/ MarkTag(g) \/ Recount(g)
  PROVE  Survives(m)'
<1>1. Intact(m)' /\ gc \in [Collector -> GCState]
  <2>1. UNCHANGED <<blobVars, stored>>
    BY DEF BeginMark, MarkTag, Recount, manifestVars
  <2>2. QED
    BY <2>1, CompleteKept DEF Survives, Spared, Intact, TypeOK
<1>2. \A h \in Collector : h # g => gc'[h] = gc[h]
  BY <1>1 DEF BeginMark, MarkTag, Recount
<1>3. MarkedOrNamed(g, m)' /\ gc'[g].pc \in {"mark", "refs"}
  <2>1. CASE BeginMark(g)
    <3>1. PICK r \in Ref : tags[r] = m
      BY DEF T!Tagged, T!TagsOf
    <3>2. gc'[g].pc = "mark" /\ <<r, m>> \in gc'[g].names
      BY <1>1, <2>1, <3>1, NamesAssumption DEF BeginMark, GCState
    <3>3. QED
      BY <3>2 DEF MarkedOrNamed
  <2>2. CASE MarkTag(g)
    <3>1. PICK name \in gc[g].names :
            gc' = IF name[2] \in stored
                  THEN [gc EXCEPT ![g].names = @ \ {name}, ![g].reachM = @ \cup {name[2]},
                                  ![g].reachB = @ \cup Blobs(name[2])]
                  ELSE [gc EXCEPT ![g].names = @ \ {name}]
      BY <2>2 DEF MarkTag
    <3>2. /\ gc[g].pc = "mark" /\ gc'[g].pc = "mark"
          /\ gc'[g].names = gc[g].names \ {name}
          /\ gc[g].reachM \subseteq gc'[g].reachM
          /\ gc[g].reachB \subseteq gc'[g].reachB
          /\ name[2] = m => m \in gc'[g].reachM /\ Blobs(m) \subseteq gc'[g].reachB
      <4>1. gc[g] \in GCState /\ gc[g].pc = "mark" /\ m \in stored
        BY <1>1, <2>2 DEF MarkTag, Survives, Spared, Intact
      <4>2. CASE name[2] \in stored
        <5>1. gc'[g] = [gc[g] EXCEPT !.names = @ \ {name}, !.reachM = @ \cup {name[2]},
                                     !.reachB = @ \cup Blobs(name[2])]
          BY <1>1, <3>1, <4>2
        <5>2. /\ gc'[g].pc = "mark" /\ gc'[g].names = gc[g].names \ {name}
              /\ gc'[g].reachM = gc[g].reachM \cup {name[2]}
              /\ gc'[g].reachB = gc[g].reachB \cup Blobs(name[2])
          BY <4>1, <5>1 DEF GCState
        <5>3. QED
          BY <4>1, <5>2
      <4>3. CASE name[2] \notin stored
        <5>1. gc'[g] = [gc[g] EXCEPT !.names = @ \ {name}]
          BY <1>1, <3>1, <4>3
        <5>2. QED
          BY <4>1, <4>3, <5>1 DEF GCState
      <4>4. QED
        BY <4>2, <4>3
    <3>3. MarkedOrNamed(g, m)
      BY <3>2 DEF Survives, Spared
    <3>4. QED
      BY <3>2, <3>3 DEF MarkedOrNamed, Blobs
  <2>3. CASE Recount(g)
    <3>1. m \in gc[g].reachM /\ Blobs(m) \subseteq gc[g].reachB
      BY <2>3 DEF Recount, Survives, Spared, MarkedOrNamed
    <3>2. gc'[g].reachM = gc[g].reachM /\ gc'[g].reachB = gc[g].reachB /\ gc'[g].pc = "refs"
      BY <1>1, <2>3 DEF Recount, GCState
    <3>3. QED
      BY <3>1, <3>2 DEF MarkedOrNamed, Blobs
  <2>4. QED
    BY <2>1, <2>2, <2>3
<1>4. QED
  BY <1>1, <1>2, <1>3, OthersKeep DEF Survives, Spared

LEMMA SweepStepKeeps ==
  ASSUME TypeOK, NEW m \in Manifest, Survives(m), NEW g \in Collector,
         \/ ReadLedger(g) \/ ListManifests(g) \/ KeepManifest(g) \/ BeginDelete(g)
         \/ ReleaseManifest(g) \/ DeleteManifest(g) \/ RemoveManifest(g) \/ SweepBlobs(g)
  PROVE  Survives(m)'
<1>1. gc \in [Collector -> GCState]
  BY DEF TypeOK
<1>2. m \in gc[g].reachM /\ Blobs(m) \subseteq gc[g].reachB
  BY DEF Survives, Spared, MarkedOrNamed, ReadLedger, ListManifests, KeepManifest, BeginDelete,
         ReleaseManifest, DeleteManifest, RemoveManifest, SweepBlobs
<1>3. Intact(m)'
  <2>1. CASE RemoveManifest(g)
    <3>1. gc[g].cur # m
      BY <2>1 DEF RemoveManifest, Survives, Spared
    <3>2. QED
      BY <2>1, <3>1, CompleteKept DEF RemoveManifest, Survives, Spared, Intact
  <2>2. CASE SweepBlobs(g)
    BY <1>2, <2>2, CompleteKept DEF SweepBlobs, Survives, Spared, Intact, manifestVars
  <2>3. CASE ReleaseManifest(g)
    BY <2>3, CompleteKept DEF ReleaseManifest, Survives, Spared, Intact, manifestVars
  <2>4. CASE \/ ReadLedger(g) \/ ListManifests(g) \/ KeepManifest(g) \/ BeginDelete(g)
             \/ DeleteManifest(g)
    <3>1. UNCHANGED <<blobVars, stored>>
      BY <2>4 DEF ReadLedger, ListManifests, KeepManifest, BeginDelete, DeleteManifest,
           manifestVars
    <3>2. QED
      BY <3>1, CompleteKept DEF Survives, Spared, Intact
  <2>5. QED
    BY <2>1, <2>2, <2>3, <2>4
<1>4. \A h \in Collector : h # g => gc'[h] = gc[h]
  BY <1>1 DEF ReadLedger, ListManifests, KeepManifest, BeginDelete, ReleaseManifest,
              DeleteManifest, RemoveManifest, SweepBlobs
<1>5. \/ gc'[g] = GCIdle
      \/ /\ gc[g].reachM \subseteq gc'[g].reachM
         /\ gc[g].reachB \subseteq gc'[g].reachB
         /\ gc'[g].pc \in {"release", "delete", "remove"} => gc'[g].cur # m
  <2>1. CASE ReadLedger(g) \/ ListManifests(g)
    <3>1. /\ gc'[g].reachM = gc[g].reachM /\ gc'[g].reachB = gc[g].reachB
          /\ gc'[g].pc \in {"list", "scan"}
      BY <1>1, <2>1 DEF ReadLedger, ListManifests, GCState
    <3>2. QED
      BY <3>1
  <2>2. CASE KeepManifest(g)
    <3>1. PICK n \in gc[g].todo :
            \/ gc' = [gc EXCEPT ![g].todo = @ \ {n}, ![g].reachB = @ \cup Blobs(n)]
            \/ gc' = [gc EXCEPT ![g].todo = @ \ {n}]
      BY <2>2 DEF KeepManifest
    <3>2. /\ gc'[g].reachM = gc[g].reachM /\ gc[g].reachB \subseteq gc'[g].reachB
          /\ gc'[g].pc = gc[g].pc
      <4>1. \/ gc'[g] = [gc[g] EXCEPT !.todo = @ \ {n}, !.reachB = @ \cup Blobs(n)]
            \/ gc'[g] = [gc[g] EXCEPT !.todo = @ \ {n}]
        BY <1>1, <3>1
      <4>2. gc[g] \in GCState
        BY <1>1
      <4>3. QED
        BY <4>1, <4>2 DEF GCState
    <3>3. QED
      BY <2>2, <3>2 DEF KeepManifest
  <2>3. CASE BeginDelete(g)
    <3>1. PICK n \in gc[g].todo :
            /\ n \notin gc[g].reachM
            /\ gc' = IF n \in stored
                     THEN [gc EXCEPT ![g].todo = @ \ {n}, ![g].pc = "release", ![g].cur = n]
                     ELSE [gc EXCEPT ![g].todo = @ \ {n}]
      BY <2>3 DEF BeginDelete, Collectable
    <3>2. n # m /\ gc[g].pc = "scan"
      BY <1>2, <2>3, <3>1 DEF BeginDelete
    <3>3. QED
      BY <1>1, <3>1, <3>2 DEF GCState
  <2>4. CASE ReleaseManifest(g)
    BY <1>1, <2>4 DEF ReleaseManifest, Survives, Spared, GCState
  <2>5. CASE DeleteManifest(g) \/ RemoveManifest(g) \/ SweepBlobs(g)
    <3>1. CASE gc' = [gc EXCEPT ![g] = GCIdle]
      BY <1>1, <3>1
    <3>2. CASE gc' = [gc EXCEPT ![g].pc = "scan", ![g].cur = None]
      <4>1. /\ gc'[g].reachM = gc[g].reachM /\ gc'[g].reachB = gc[g].reachB
            /\ gc'[g].pc = "scan"
        BY <1>1, <3>2 DEF GCState
      <4>2. QED
        BY <4>1
    <3>3. CASE gc[g].pc = "delete" /\ gc' = [gc EXCEPT ![g].pc = "remove"]
      BY <1>1, <3>3 DEF Survives, Spared, GCState
    <3>4. QED
      BY <2>5, <3>1, <3>2, <3>3 DEF DeleteManifest, RemoveManifest, SweepBlobs
  <2>6. QED
    BY <2>1, <2>2, <2>3, <2>4, <2>5
<1>6. Spared(g, m)'
  BY <1>2, <1>5 DEF Spared, MarkedOrNamed, Blobs, GCIdle
<1>7. QED
  BY <1>3, <1>4, <1>6, OthersKeep DEF Survives, Spared
----------------------------------------------------------------------------
TP == INSTANCE TagStoreProofs

\* The handlers use the tag store by its operations only.
LEMMA TagsAreStore == Spec => T!Spec
<1>1. Init => T!Init
  BY DEF Init
<1>2. TypeOK /\ [Next]_vars => [T!Next]_T!vars
  <2>1. SUFFICES ASSUME TypeOK, [Next]_vars PROVE T!Next \/ UNCHANGED T!vars
    OBVIOUS
  <2>2. CASE \E p \in Pusher : SetTag(p)
    <3>1. PICK p \in Pusher : SetTag(p)
      BY <2>2
    <3>2. push[p].m \in Manifest /\ push[p].ref \in Ref
      BY <2>1, <3>1, PushActive DEF SetTag
    <3>3. QED
      BY <3>1, <3>2 DEF SetTag, T!Next
  <2>3. CASE ~\E p \in Pusher : SetTag(p)
    BY <2>1, <2>3 DEF Next, vars, tagVars, T!vars, Upload, OpenUpload, BeginPush, PushStep,
         CheckDescriptor, LookupManifests, CreateManifests, InsertManifest, VerifyDescriptor,
         LookupIndex, CreateIndex, EnterIndex, ReleaseUpload, BeginMark, GCStep, MarkTag,
         Recount, ReadLedger, ListManifests, KeepManifest, BeginDelete, ReleaseManifest,
         DeleteManifest, RemoveManifest, SweepBlobs
  <2>4. QED
    BY <2>2, <2>3
<1>3. QED
  BY <1>1, <1>2, TypeCorrect, PTL DEF Spec, T!Spec

\* The ledger equals a recount of the tag table after any history of pushes,
\* whatever collections overlap them: tag.memoryStore.Set keeps it exact.
THEOREM LedgerStaysExact == Spec => []LedgerExact
<1>1. TP!TagAssumption
  BY NamesAssumption DEF TP!TagAssumption, TP!IsFiniteSet, IsFiniteSet
<1>2. TP!Spec => []TP!LedgerExact
  BY <1>1, TP!LedgerAlwaysExact
<1>3. TP!LedgerExact => LedgerExact
  BY DEF LedgerExact, T!LedgerExact, TP!LedgerExact, T!TagsOf, TP!TagsOf,
     T!Cardinality, TP!Cardinality
<1>4. T!Spec => TP!Spec
  BY PTL DEF T!Spec, TP!Spec, T!Init, TP!Init, T!Next, TP!Next, T!Set, TP!Set,
     T!Delete, TP!Delete, T!Dropped, TP!Dropped, T!vars, TP!vars
<1>5. QED
  BY <1>2, <1>3, <1>4, TagsAreStore, PTL

----------------------------------------------------------------------------
BP == INSTANCE BlobStoreProofs

\* The handlers use the blob store by its operations only: pushes, uploads and
\* collections interleaved are behaviours of the blob store.
THEOREM BlobsAreStore == Spec => B!Spec
<1>1. Init => B!Init
  BY DEF Init
<1>2. TypeOK /\ [Next]_vars => [B!Next]_B!vars
  <2>1. SUFFICES ASSUME TypeOK, [Next]_vars PROVE B!Next \/ UNCHANGED B!vars
    OBVIOUS
  <2>2. ASSUME NEW d \in Digest, Upload(d) \/ OpenUpload(d) PROVE B!Next
    BY <2>2 DEF Upload, OpenUpload, B!Next
  <2>3. ASSUME NEW d, B!DecRef(d) PROVE B!Next \/ UNCHANGED B!vars
    <3>1. CASE d \in Digest
      BY <2>3, <3>1 DEF B!Next
    <3>2. CASE d \notin Digest
      <4>1. refCount' = refCount
        BY <2>1, <2>3, <3>2 DEF B!DecRef, TypeOK, B!TypeOK
      <4>2. QED
        BY <2>3, <4>1 DEF B!DecRef, B!vars
    <3>3. QED
      BY <3>1, <3>2
  <2>4. ASSUME NEW g \in Collector, SweepBlobs(g) PROVE B!Next
    <3>1. gc[g].reachB \in SUBSET Digest
      BY <2>1 DEF TypeOK, GCState, GCIdle
    <3>2. QED
      BY <2>4, <3>1 DEF SweepBlobs, B!Next
  <2>5. CASE (\E p \in Pusher : ReleaseUpload(p)) \/ (\E g \in Collector : ReleaseManifest(g))
    BY <2>3, <2>5 DEF ReleaseUpload, ReleaseManifest
  <2>6. CASE UNCHANGED blobVars
    BY <2>6 DEF blobVars, B!vars
  <2>7. QED
    BY <2>1, <2>2, <2>4, <2>5, <2>6 DEF Next, vars, BeginPush, PushStep, CheckDescriptor,
         LookupManifests, CreateManifests, InsertManifest, SetTag, VerifyDescriptor,
         LookupIndex, CreateIndex, EnterIndex, BeginMark, GCStep, MarkTag, Recount,
         ReadLedger, ListManifests, KeepManifest, BeginDelete, DeleteManifest, RemoveManifest
<1>3. QED
  BY <1>1, <1>2, TypeCorrect, PTL DEF Spec, B!Spec

LEMMA SameBlobStore == B!Spec => BP!Spec
BY PTL DEF B!Spec, BP!Spec, B!Init, BP!Init, B!Next, BP!Next, B!vars, BP!vars, B!Stage, BP!Stage,
   B!Put, BP!Put, B!IncRef, BP!IncRef, B!DecRef, BP!DecRef, B!Delete, BP!Delete, B!Remove, BP!Remove,
   B!SweepUnreferenced, BP!SweepUnreferenced, B!Exists, BP!Exists

\* What Validate reads and what Verify reads agree at every step of a push,
\* also while collections remove blobs: only this lets Complete ask for both.
THEOREM BlobMapsAgree == Spec => []B!BytesIffCommitted
<1>1. BP!MaxRefsAssumption
  BY MaxRefsAssumption DEF BP!MaxRefsAssumption
<1>2. BP!Spec => []BP!BytesIffCommitted
  BY <1>1, BP!BytesAgree
<1>3. BP!BytesIffCommitted => B!BytesIffCommitted
  BY DEF BP!BytesIffCommitted, B!BytesIffCommitted, BP!Readable, B!Readable, BP!Committed,
       B!Committed
<1>4. QED
  BY <1>2, <1>3, SameBlobStore, BlobsAreStore, PTL

\* No step of a push, an upload or a collection takes away a committed blob
\* that has a reference, or leaves its bytes or its record behind.
THEOREM OnlyUnreferencedGo == Spec => B!CommittedLeavesOnlyUnreferenced
<1>1. BP!MaxRefsAssumption
  BY MaxRefsAssumption DEF BP!MaxRefsAssumption
<1>2. BP!Spec => BP!CommittedLeavesOnlyUnreferenced
  BY <1>1, BP!CommittedIsKept
<1>3. BP!CommittedLeavesOnlyUnreferenced => B!CommittedLeavesOnlyUnreferenced
  BY PTL DEF BP!CommittedLeavesOnlyUnreferenced, B!CommittedLeavesOnlyUnreferenced, BP!Readable,
     B!Readable, BP!Committed, B!Committed, BP!Exists, B!Exists, BP!vars, B!vars
<1>4. QED
  BY <1>2, <1>3, SameBlobStore, BlobsAreStore, PTL
=============================================================================
