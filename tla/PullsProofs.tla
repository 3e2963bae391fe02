---------------------------- MODULE PullsProofs ----------------------------
(***************************************************************************)
(* A pull never fails while a name leads to what it resolved, for any      *)
(* number of pulls, pushes and collections that keep the discipline of     *)
(* Windowed.  Pulls change nothing that the others see, so WInv holds here *)
(* too; it makes every tagged manifest whole at every moment.              *)
(***************************************************************************)
EXTENDS Pulls, WindowedProofs

\* A pull that fetches blobs is at one of the descriptors of its manifest.
InDescriptors == \A q \in Puller :
  /\ pull[q].pc \in {"manifest", "blobs"} => pull[q].m \in Manifest
  /\ pull[q].pc \in {"manifest", "blobs"} => pull[q].i \in DOMAIN Descriptors[pull[q].m]

PInv == WInv /\ pull \in [Puller -> PullState] /\ InDescriptors

LEMMA PInvInit == PInit => PInv
BY WInvInit DEF PInit, PInv, PullIdle, PullState, InDescriptors

LEMMA ResolveKeeps ==
  ASSUME PInv, NEW q \in Puller, NEW r \in Ref, ResolveTag(q, r)
  PROVE  pull' \in [Puller -> PullState] /\ InDescriptors'
<1>1. tags[r] \in Manifest
  BY DEF PInv, WInv, TypeOK, T!TypeOK, ResolveTag
<1>2. 1 \in DOMAIN Descriptors[tags[r]]
  BY <1>1, DescriptorsFacts
<1>3. pull' \in [Puller -> PullState]
  BY <1>1 DEF PInv, ResolveTag, PullState
<1>4. QED
  BY <1>1, <1>2, <1>3 DEF PInv, ResolveTag, InDescriptors

LEMMA StepKeeps ==
  ASSUME PInv, NEW q \in Puller, PullStep(q)
  PROVE  pull' \in [Puller -> PullState] /\ InDescriptors'
<1>1. CASE GetManifest(q)
  <2>1. pull[q] \in [pc : {"manifest", "blobs", "failed"}, m : Manifest, i : Nat]
    BY <1>1 DEF PInv, GetManifest, PullState, PullIdle
  <2>2. QED
    BY <1>1, <2>1 DEF PInv, GetManifest, PullState, InDescriptors
<1>2. CASE GetBlob(q)
  <2>1. pull[q] \in [pc : {"manifest", "blobs", "failed"}, m : Manifest, i : Nat]
    BY <1>2 DEF PInv, GetBlob, PullState, PullIdle
  <2>2. pull[q].i \in 1 .. Len(Descriptors[pull[q].m])
    BY <1>2, <2>1, DescriptorsFacts DEF PInv, GetBlob, InDescriptors
  <2>3. CASE pull' = [pull EXCEPT ![q].pc = "failed"]
    BY <2>1, <2>3 DEF PInv, PullState, InDescriptors
  <2>4. CASE pull' = [pull EXCEPT ![q] = PullIdle]
    BY <2>4 DEF PInv, PullState, PullIdle, InDescriptors
  <2>5. CASE /\ pull[q].i # Len(Descriptors[pull[q].m])
             /\ pull' = [pull EXCEPT ![q].i = @ + 1]
    <3>1. pull[q].i + 1 \in DOMAIN Descriptors[pull[q].m]
      BY <2>1, <2>2, <2>5, DescriptorsFacts
    <3>2. QED
      BY <2>1, <2>5, <3>1 DEF PInv, PullState, InDescriptors
  <2>6. QED
    BY <1>2, <2>3, <2>4, <2>5 DEF GetBlob
<1>3. CASE Failed(q)
  BY <1>3 DEF PInv, Failed, PullState, PullIdle, InDescriptors
<1>4. QED
  BY <1>1, <1>2, <1>3 DEF PullStep

LEMMA PInvNext == PInv /\ [PNext]_pullVars => PInv'
<1>1. SUFFICES ASSUME PInv, [PNext]_pullVars PROVE PInv'
  OBVIOUS
<1>2. [WNext]_vars
  BY <1>1 DEF PNext, pullVars
<1>3. WInv'
  BY <1>1, <1>2, WInvNext DEF PInv
<1>4. pull' \in [Puller -> PullState] /\ InDescriptors'
  <2>1. CASE UNCHANGED pull
    BY <1>1, <2>1 DEF PInv, InDescriptors
  <2>2. CASE ~UNCHANGED pull
    BY <1>1, <2>2, ResolveKeeps, StepKeeps DEF PNext, pullVars
  <2>3. QED
    BY <2>1, <2>2
<1>5. QED
  BY <1>3, <1>4 DEF PInv

\* The pulls' local state stays in its type.
THEOREM PullTypeCorrect == PSpec => []PullTypeOK
<1>1. PInv => PullTypeOK
  BY DEF PInv, WInv, PullTypeOK
<1>2. QED
  BY <1>1, PInvInit, PInvNext, PTL DEF PSpec

\* A failed read finds the manifest or one of its blobs missing, so the
\* manifest is not tagged: tagged ones survive.
LEMMA FailsUntagged ==
  ASSUME PInv, NEW q \in Puller, PullStep(q), NEW p \in Puller,
         pull[p].pc # "failed", pull'[p].pc = "failed"
  PROVE  ~T!Tagged(pull[p].m)
<1>1. p = q
  BY DEF PInv, PullStep, GetManifest, GetBlob, Failed
<1>2. pull[q].pc \in {"manifest", "blobs"}
  BY <1>1 DEF PullStep, GetManifest, GetBlob, Failed
<1>3. pull[q].m \in Manifest /\ pull[q].i \in DOMAIN Descriptors[pull[q].m]
  BY <1>2 DEF PInv, InDescriptors
<1>4. ~Intact(pull[q].m)
  <2>1. CASE GetManifest(q)
    BY <1>1, <2>1 DEF PInv, GetManifest, Intact
  <2>2. CASE GetBlob(q)
    <3>1. ~B!Readable(Descriptors[pull[q].m][pull[q].i])
      BY <1>1, <2>2 DEF PInv, GetBlob, PullIdle
    <3>2. QED
      BY <1>3, <3>1 DEF Intact, Complete, Blobs
  <2>3. QED
    BY <1>2, <2>1, <2>2 DEF PullStep, Failed
<1>5. QED
  BY <1>1, <1>3, <1>4 DEF PInv, WInv, TaggedSurvive, Survives

\* A pull under way fails only when no name leads to its manifest any more.
THEOREM PullsOfTaggedSucceed == PSpec => PullFailsOnlyUntagged
<1>. DEFINE FailsUntaggedOnly == \A q \in Puller :
       pull[q].pc # "failed" /\ pull'[q].pc = "failed" => ~T!Tagged(pull[q].m)
<1>1. PInv /\ [PNext]_pullVars => [FailsUntaggedOnly]_pullVars
  <2>1. SUFFICES ASSUME PInv, PNext, NEW p \in Puller,
                        pull[p].pc # "failed", pull'[p].pc = "failed"
                 PROVE  ~T!Tagged(pull[p].m)
    OBVIOUS
  <2>2. CASE \E q \in Puller : PullStep(q)
    BY <2>1, <2>2, FailsUntagged
  <2>3. CASE \E q \in Puller, r \in Ref : ResolveTag(q, r)
    BY <2>1, <2>3 DEF PInv, ResolveTag
  <2>4. CASE UNCHANGED pull
    BY <2>1, <2>4
  <2>5. QED
    BY <2>1, <2>2, <2>3, <2>4 DEF PNext
<1>2. QED
  BY <1>1, PInvInit, PInvNext, PTL DEF PSpec, PullFailsOnlyUntagged
=============================================================================
