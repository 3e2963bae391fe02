----------------------- MODULE ArtifactSurvivalProofs -----------------------
(***************************************************************************)
(* SettledIntact for any number of pushers and collectors.                 *)
(*                                                                         *)
(* SurvivalInv is the inductive strengthening: a collection that is running *)
(* either still has to look up a tag naming the settled manifest, or has   *)
(* marked it with all its blobs, so neither its deletions nor its sweep    *)
(* reach it.  Quiet matters where a manifest becomes settled: no running   *)
(* collection can then hold a stale snapshot.  Founding matters there too: *)
(* a push that saw no manifest map drops every manifest when it makes one. *)
(* Once something is settled there is a map, so no later push founds one.  *)
(***************************************************************************)
EXTENDS ArtifactSurvival, PushGCProofs

LEMMA SurvivalInit == SInit => TypeOK /\ SurvivalInv
BY TypeInit DEF SInit, Init, PushIdle, MapsHeld, SurvivalInv

\* Only pushes make maps and insert into them.
LEMMA MapFrame ==
  ASSUME [Next]_vars, \A p \in Pusher : ~PushStep(p), TypeOK
  PROVE  /\ storeMap' = storeMap /\ stored' \subseteq stored
         /\ \A p \in Pusher : push'[p] = push[p] \/ push'[p].pc = "validate"
<1>1. push \in [Pusher -> PushState]
  BY DEF TypeOK
<1>2. ASSUME NEW p \in Pusher, NEW m \in Manifest, NEW r \in Ref, BeginPush(p, m, r)
      PROVE \A q \in Pusher : push'[q] = push[q] \/ push'[q].pc = "validate"
  BY <1>1, <1>2 DEF BeginPush
<1>3. \/ UNCHANGED push
      \/ \E p \in Pusher, m \in Manifest, r \in Ref : BeginPush(p, m, r)
  BY DEF Next, vars, Upload, OpenUpload, BeginMark, GCStep, MarkTag, Recount, ReadLedger,
       ListManifests, KeepManifest, BeginDelete, ReleaseManifest, DeleteManifest, RemoveManifest,
       SweepBlobs
<1>4. storeMap' = storeMap /\ stored' \subseteq stored
  BY DEF Next, vars, manifestVars, Upload, OpenUpload, BeginPush, BeginMark, GCStep, MarkTag,
       Recount, ReadLedger, ListManifests, KeepManifest, BeginDelete, ReleaseManifest,
       DeleteManifest, RemoveManifest, SweepBlobs
<1>5. QED
  BY <1>2, <1>3, <1>4

LEMMA MapsNext ==
  ASSUME TypeOK, MapsHeld, [Next]_vars
  PROVE  /\ MapsHeld'
         /\ Founding' => Founding \/ storeMap = None
<1>1. CASE \A p \in Pusher : ~PushStep(p)
  BY <1>1, MapFrame DEF MapsHeld, Founding
<1>2. ASSUME NEW p \in Pusher, PushStep(p)
      PROVE MapsHeld' /\ (Founding' => Founding \/ storeMap = None)
  <2>1. storeMap' = None => stored' = {}
    BY <1>2, MapStep, NamesAssumption DEF MapsHeld
  <2>2. \A q \in Pusher : push'[q].pc = "insert" => push'[q].into # None
    BY <1>2, MapStep DEF MapsHeld
  <2>3. Founding' => Founding \/ storeMap = None
    BY <1>2, MapStep DEF Founding
  <2>4. QED
    BY <2>1, <2>2, <2>3 DEF MapsHeld
<1>3. QED
  BY <1>1, <1>2

LEMMA SurvivalNext == TypeOK /\ SurvivalInv /\ [SNext]_<<vars, settled>> => (TypeOK /\ SurvivalInv)'
<1>1. SUFFICES ASSUME TypeOK, SurvivalInv, [SNext]_<<vars, settled>> PROVE (TypeOK /\ SurvivalInv)'
  OBVIOUS
<1>2. TypeOK'
  BY <1>1, TypeNext DEF SNext
<1>3. MapsHeld' /\ (Founding' => Founding \/ storeMap = None)
  BY <1>1, MapsNext DEF SurvivalInv, SNext, vars
<1>4. CASE SNext
  <2>1. SUFFICES ASSUME NEW m \in settled' PROVE T!Tagged(m)' /\ Survives(m)' /\ ~Founding'
    BY <1>2, <1>3 DEF SurvivalInv, Survives
  <2>2. m \in Manifest /\ T!Tagged(m)' /\ (m \in settled \/ (Quiet /\ ~Founding /\ Intact(m))')
    BY <1>4, <2>1 DEF SNext, Settle
  <2>3. CASE (Quiet /\ ~Founding /\ Intact(m))'
    BY <2>2, <2>3 DEF Quiet, Survives, Spared
  <2>4. CASE m \in settled
    <3>1. T!Tagged(m) /\ Survives(m) /\ ~Founding
      BY <1>1, <2>4 DEF SurvivalInv, Survives
    <3>2. storeMap # None
      BY <1>1, <3>1 DEF SurvivalInv, MapsHeld, Survives, Intact
    <3>3. \A p \in Pusher : push[p].pc # "create"
      BY <3>1 DEF Founding
    <3>4. Survives(m)'
      BY <1>1, <1>4, <2>2, <3>1, <3>3, PushKeeps, MarkStepKeeps, SweepStepKeeps
         DEF SNext, Next, GCStep
    <3>5. QED
      BY <1>3, <2>2, <3>1, <3>2, <3>4
  <2>5. QED
    BY <2>2, <2>3, <2>4
<1>5. CASE UNCHANGED <<vars, settled>>
  <2>1. \A m \in settled : T!Tagged(m)' /\ Intact(m)' /\ \A g \in Collector : Spared(g, m)'
    BY <1>1, <1>5 DEF vars, blobVars, tagVars, manifestVars, SurvivalInv, Spared, MarkedOrNamed,
         Intact, Complete, Blobs, B!Committed, B!Readable, T!Tagged, T!TagsOf
  <2>2. Founding' <=> Founding
    BY <1>5 DEF vars, Founding
  <2>3. QED
    BY <1>1, <1>2, <1>3, <1>5, <2>1, <2>2 DEF SurvivalInv
<1>6. QED
  BY <1>1, <1>2, <1>4, <1>5

\* The inductive invariant holds in every reachable state.
THEOREM Survival == SSpec => [](TypeOK /\ SurvivalInv)
BY SurvivalInit, SurvivalNext, PTL DEF SSpec

\* No collection ever takes a manifest or a blob from a settled artifact,
\* however many collections and pushes run at once.
THEOREM SettledStaysIntact == SSpec => []SettledIntact
<1>1. SurvivalInv => SettledIntact
  BY DEF SurvivalInv, SettledIntact
<1>2. QED
  BY <1>1, Survival, PTL
=============================================================================
