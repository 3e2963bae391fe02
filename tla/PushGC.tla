------------------------------- MODULE PushGC -------------------------------
(***************************************************************************)
(* Manifest pushes racing with garbage collection in one live repository:  *)
(* internal/transfer/push.go and internal/gc over the blob, manifest, tag  *)
(* and index stores.                                                       *)
(*                                                                         *)
(* A request handler is a goroutine.  It holds no lock from one store call *)
(* to the next, so every store call is one action and handlers interleave  *)
(* between calls.  A pusher is a handler of PUT /manifests, a collector    *)
(* one of POST /gc; uploads of whole blobs and openings of chunked uploads *)
(* make one store call and need no process.                                *)
(*                                                                         *)
(* The manifest and index stores have no mutex, so what they do is split   *)
(* at their map operations.  Each keeps one inner map per repository, made *)
(* by the first writer; a second writer that saw no map replaces it, and   *)
(* whatever the first one holds is lost.  A single map operation is taken  *)
(* as atomic, the best the Go runtime gives (it may also abort the         *)
(* program), and a read as one operation.                                  *)
(***************************************************************************)
EXTENDS Naturals, Sequences, FiniteSets

CONSTANTS
  Digest,       \* blob digests
  Manifest,     \* manifest digests
  Ref,          \* tag names
  None,         \* "nothing there"
  Descriptors,  \* the digests of a manifest's config and layers, in order
  Pusher,       \* concurrent PushManifest handlers
  Collector,    \* concurrent gc.Run handlers
  MaxRefs       \* bound: no upload of a digest at this reference count

\* A valid manifest has a config and at least one layer.
ASSUME DescriptorsAssumption == Descriptors \in [Manifest -> Seq(Digest) \ {<<>>}]
ASSUME MaxRefsAssumption == MaxRefs \in Nat \ {0}
ASSUME NamesAssumption == IsFiniteSet(Ref) /\ None \notin Manifest /\ None \notin Pusher

VARIABLES
  blobState, refCount, data,   \* the blob store
  tags, ledger,                \* the tag store
  stored,                      \* the digests in the repository's manifest map
  storeMap,                    \* the pusher that made that map, or None
  index,                       \* the manifest each published name lists
  indexMap,                    \* the pusher that made the index map, or None
  push,                        \* the handler state of each pusher
  gc                           \* the handler state of each collector

blobVars == <<blobState, refCount, data>>
tagVars == <<tags, ledger>>
manifestVars == <<stored, storeMap>>
indexVars == <<index, indexMap>>
vars == <<blobVars, tagVars, manifestVars, indexVars, push, gc>>

B == INSTANCE BlobStore
T == INSTANCE TagStore

----------------------------------------------------------------------------
Blobs(m) == {Descriptors[m][k] : k \in DOMAIN Descriptors[m]}

Complete(m) == \A d \in Blobs(m) : B!Committed(d) /\ B!Readable(d)

Intact(m) == m \in stored /\ Complete(m)     \* everything a pull fetches is there

Quiet == \A g \in Collector : gc[g].pc = "idle"

PushIdle == [pc |-> "idle", m |-> None, ref |-> None, i |-> 1, into |-> None]

GCIdle ==
  [pc |-> "idle", names |-> {}, reachM |-> {}, reachB |-> {},
   counts |-> [m \in Manifest |-> 0], refs |-> [m \in Manifest |-> 0],
   todo |-> {}, cur |-> None, i |-> 1]

PushPC ==
  {"validate", "recheck", "store", "create", "insert", "tag", "verify",
   "index", "newindex", "enter", "release"}

GCPC == {"idle", "mark", "refs", "list", "scan", "release", "delete", "remove"}

\* into is the map the handler holds between two operations of a store.
PushState ==
  {PushIdle} \cup
  [pc : PushPC, m : Manifest, ref : Ref, i : Nat, into : Pusher \cup {None}]

GCState ==
  [pc : GCPC, names : SUBSET (Ref \X Manifest),
   reachM : SUBSET Manifest, reachB : SUBSET Digest,
   counts : [Manifest -> Nat], refs : [Manifest -> Nat],
   todo : SUBSET Manifest, cur : Manifest \cup {None}, i : Nat]

TypeOK ==
  /\ B!TypeOK
  /\ T!TypeOK
  /\ stored \subseteq Manifest
  /\ {storeMap, indexMap} \subseteq Pusher \cup {None}
  /\ index \in [Ref -> Manifest \cup {None}]
  /\ push \in [Pusher -> PushState]
  /\ gc \in [Collector -> GCState]

Init ==
  /\ B!Init
  /\ T!Init
  /\ stored = {}
  /\ storeMap = None
  /\ indexMap = None
  /\ index = [r \in Ref |-> None]
  /\ push = [p \in Pusher |-> PushIdle]
  /\ gc = [g \in Collector |-> GCIdle]

----------------------------------------------------------------------------
(* Uploads *)

\* PushBlob, or the store call of a completed chunked upload.
Upload(d) ==
  /\ refCount[d] < MaxRefs
  /\ B!Put(d)
  /\ UNCHANGED <<tagVars, manifestVars, indexVars, push, gc>>

\* Opening a chunked upload stages the digest; no bytes yet.
OpenUpload(d) ==
  /\ B!Stage(d)
  /\ UNCHANGED <<tagVars, manifestVars, indexVars, push, gc>>

----------------------------------------------------------------------------
(* PushManifest *)

Descriptor(p) == Descriptors[push[p].m][push[p].i]

LastDescriptor(p) == push[p].i = Len(Descriptors[push[p].m])

NextDescriptor(p) == push' = [push EXCEPT ![p].i = @ + 1]

Goto(p, pc) == push' = [push EXCEPT ![p].pc = pc, ![p].i = 1, ![p].into = None]

\* The handler holds a store's map and goes on at pc.
Hold(p, map, pc) == push' = [push EXCEPT ![p].pc = pc, ![p].into = map]

\* The loop over the descriptors goes on, or ends and the handler is at pc.
Advance(p, pc) == IF LastDescriptor(p) THEN Goto(p, pc) ELSE NextDescriptor(p)

Return(p) == push' = [push EXCEPT ![p] = PushIdle]

BeginPush(p, m, r) ==
  /\ push[p].pc = "idle"
  /\ push' = [push EXCEPT ![p] = [pc |-> "validate", m |-> m, ref |-> r, i |-> 1,
                                        into |-> None]]
  /\ UNCHANGED <<blobVars, tagVars, manifestVars, indexVars, gc>>

BadAccepts(d) == B!Exists(d)     \* a reservation is taken for a blob

Accepts(d) == B!Committed(d)

\* manifests.Validate asks the blob store about one descriptor at a time, and
\* the push is refused at the first that is not committed (ErrUnfinished or
\* ErrNotFound).  It runs twice: before manifests.Store and again inside it.
CheckDescriptor(p) ==
  /\ push[p].pc \in {"validate", "recheck"}
  /\ IF Accepts(Descriptor(p))
     THEN Advance(p, IF push[p].pc = "validate" THEN "recheck" ELSE "store")
     ELSE Return(p)
  /\ UNCHANGED <<blobVars, tagVars, manifestVars, indexVars, gc>>

BadLookupManifests(p) ==         \* makes a map for every manifest
  /\ push[p].pc = "store"
  /\ Hold(p, storeMap, "create")
  /\ UNCHANGED <<blobVars, tagVars, manifestVars, indexVars, gc>>

\* manifests.Store looks up the map of the repository...
LookupManifests(p) ==
  /\ push[p].pc = "store"
  /\ Hold(p, storeMap, IF storeMap = None THEN "create" ELSE "insert")
  /\ UNCHANGED <<blobVars, tagVars, manifestVars, indexVars, gc>>

\* ... makes an empty one when there was none, over any made meanwhile...
CreateManifests(p) ==
  /\ push[p].pc = "create"
  /\ storeMap' = p
  /\ stored' = {}
  /\ Hold(p, p, "insert")
  /\ UNCHANGED <<blobVars, tagVars, indexVars, gc>>

\* ... and inserts into the map it holds, replaced or not.
InsertManifest(p) ==
  /\ push[p].pc = "insert"
  /\ stored' = IF push[p].into = storeMap THEN stored \cup {push[p].m} ELSE stored
  /\ Goto(p, "tag")
  /\ UNCHANGED <<blobVars, tagVars, storeMap, indexVars, gc>>

SetTag(p) ==
  /\ push[p].pc = "tag"
  /\ T!Set(push[p].ref, push[p].m)
  /\ Goto(p, "verify")
  /\ UNCHANGED <<blobVars, manifestVars, indexVars, gc>>

BadVerifyDescriptor(p) ==        \* waits for missing bytes instead of failing
  /\ push[p].pc = "verify"
  /\ B!Readable(Descriptor(p))
  /\ Advance(p, "index")
  /\ UNCHANGED <<blobVars, tagVars, manifestVars, indexVars, gc>>

\* manifests.Verify reads the bytes of one descriptor at a time.  At the first
\* it cannot read it reports "not ready"; index.Add then refuses and the push
\* fails, leaving the manifest stored, the tag set and the references held.
VerifyDescriptor(p) ==
  /\ push[p].pc = "verify"
  /\ IF B!Readable(Descriptor(p)) THEN Advance(p, "index") ELSE Return(p)
  /\ UNCHANGED <<blobVars, tagVars, manifestVars, indexVars, gc>>

\* index.Add makes the map of the repository as manifests.Store does.
LookupIndex(p) ==
  /\ push[p].pc = "index"
  /\ Hold(p, indexMap, IF indexMap = None THEN "newindex" ELSE "enter")
  /\ UNCHANGED <<blobVars, tagVars, manifestVars, indexVars, gc>>

CreateIndex(p) ==
  /\ push[p].pc = "newindex"
  /\ indexMap' = p
  /\ index' = [r \in Ref |-> None]
  /\ Hold(p, p, "enter")
  /\ UNCHANGED <<blobVars, tagVars, manifestVars, gc>>

\* Two handlers that enter one name for the first time may share its draft
\* record.  The slower finds it published (ErrInvalidState) and its push fails,
\* the references held.  The model lets any push fail here that is not alone.
EnterIndex(p) ==
  /\ push[p].pc = "enter"
  /\ index' = IF push[p].into = indexMap THEN [index EXCEPT ![push[p].ref] = push[p].m] ELSE index
  /\ Goto(p, "release") \/ (Pusher # {p} /\ Return(p))
  /\ UNCHANGED <<blobVars, tagVars, manifestVars, indexMap, gc>>

\* The upload references are released one descriptor at a time, also for a
\* descriptor this client never uploaded.
ReleaseUpload(p) ==
  /\ push[p].pc = "release"
  /\ B!DecRef(Descriptor(p))
  /\ IF LastDescriptor(p) THEN Return(p) ELSE NextDescriptor(p)
  /\ UNCHANGED <<tagVars, manifestVars, indexVars, gc>>

PushStep(p) ==
  \/ CheckDescriptor(p)
  \/ LookupManifests(p)
  \/ CreateManifests(p)
  \/ InsertManifest(p)
  \/ SetTag(p)
  \/ VerifyDescriptor(p)
  \/ LookupIndex(p)
  \/ CreateIndex(p)
  \/ EnterIndex(p)
  \/ ReleaseUpload(p)

----------------------------------------------------------------------------
(* gc.Run: Mark, then Sweep *)

\* Mark reads the whole tag table once.
BeginMark(g) ==
  /\ gc[g].pc = "idle"
  /\ gc' = [gc EXCEPT ![g].pc = "mark",
                      ![g].names = {<<r, tags[r]>> : r \in {q \in Ref : tags[q] # None}}]
  /\ UNCHANGED <<blobVars, tagVars, manifestVars, indexVars, push>>

BadMarkTag(g) ==                 \* marks the manifest, not its blobs
  /\ gc[g].pc = "mark"
  /\ \E name \in gc[g].names :
       LET m == name[2] IN
       gc' = IF m \in stored
             THEN [gc EXCEPT ![g].names = @ \ {name}, ![g].reachM = @ \cup {m}]
             ELSE [gc EXCEPT ![g].names = @ \ {name}]
  /\ UNCHANGED <<blobVars, tagVars, manifestVars, indexVars, push>>

\* Each tag read leads to a lookup of its manifest, in no particular order; a
\* manifest that is not stored is passed over.
MarkTag(g) ==
  /\ gc[g].pc = "mark"
  /\ \E name \in gc[g].names :
       LET m == name[2] IN
       gc' = IF m \in stored
             THEN [gc EXCEPT ![g].names = @ \ {name}, ![g].reachM = @ \cup {m},
                             ![g].reachB = @ \cup Blobs(m)]
             ELSE [gc EXCEPT ![g].names = @ \ {name}]
  /\ UNCHANGED <<blobVars, tagVars, manifestVars, indexVars, push>>

BadRecount(g) ==                 \* sweeps before every tag was looked up
  /\ gc[g].pc = "mark"
  /\ gc' = [gc EXCEPT ![g].pc = "refs",
                      ![g].counts = [m \in Manifest |-> Cardinality(T!TagsOf(m))]]
  /\ UNCHANGED <<blobVars, tagVars, manifestVars, indexVars, push>>

\* Sweep starts by reading the tag table again...
Recount(g) ==
  /\ gc[g].pc = "mark"
  /\ gc[g].names = {}
  /\ gc' = [gc EXCEPT ![g].pc = "refs",
                      ![g].counts = [m \in Manifest |-> Cardinality(T!TagsOf(m))]]
  /\ UNCHANGED <<blobVars, tagVars, manifestVars, indexVars, push>>

\* ... then, under a lock of its own, the ledger...
ReadLedger(g) ==
  /\ gc[g].pc = "refs"
  /\ gc' = [gc EXCEPT ![g].pc = "list", ![g].refs = ledger]
  /\ UNCHANGED <<blobVars, tagVars, manifestVars, indexVars, push>>

\* ... and lists the manifests.
ListManifests(g) ==
  /\ gc[g].pc = "list"
  /\ gc' = [gc EXCEPT ![g].pc = "scan", ![g].todo = stored]
  /\ UNCHANGED <<blobVars, tagVars, manifestVars, indexVars, push>>

Collectable(g, m) == gc[g].counts[m] = 0 /\ m \notin gc[g].reachM

Remarkable(g, m) ==
  gc[g].counts[m] # 0 /\ gc[g].refs[m] = gc[g].counts[m] /\ m \in stored

\* A listed manifest that is not collected.  The blobs of a tagged one are
\* marked again, unless the ledger and the recount disagree or it is gone.
KeepManifest(g) ==
  /\ gc[g].pc = "scan"
  /\ \E m \in gc[g].todo :
       /\ ~Collectable(g, m)
       /\ gc' = IF Remarkable(g, m)
                THEN [gc EXCEPT ![g].todo = @ \ {m}, ![g].reachB = @ \cup Blobs(m)]
                ELSE [gc EXCEPT ![g].todo = @ \ {m}]
  /\ UNCHANGED <<blobVars, tagVars, manifestVars, indexVars, push>>

\* deleteManifest starts by fetching the manifest; one already gone is fine.
BeginDelete(g) ==
  /\ gc[g].pc = "scan"
  /\ \E m \in gc[g].todo :
       /\ Collectable(g, m)
       /\ gc' = IF m \in stored
                THEN [gc EXCEPT ![g].todo = @ \ {m}, ![g].pc = "release", ![g].cur = m]
                ELSE [gc EXCEPT ![g].todo = @ \ {m}]
  /\ UNCHANGED <<blobVars, tagVars, manifestVars, indexVars, push>>

\* It releases one reference per descriptor...
ReleaseManifest(g) ==
  /\ gc[g].pc = "release"
  /\ B!DecRef(Descriptors[gc[g].cur][gc[g].i])
  /\ gc' = IF gc[g].i = Len(Descriptors[gc[g].cur])
           THEN [gc EXCEPT ![g].pc = "delete", ![g].i = 1]
           ELSE [gc EXCEPT ![g].i = @ + 1]
  /\ UNCHANGED <<tagVars, manifestVars, indexVars, push>>

\* ... and deletes the manifest.  When another run was faster the deletion
\* fails with ErrNotFound and the whole run ends, its blobs not swept.
DeleteManifest(g) ==
  /\ gc[g].pc = "delete"
  /\ gc' = IF gc[g].cur \in stored
           THEN [gc EXCEPT ![g].pc = "remove"]
           ELSE [gc EXCEPT ![g] = GCIdle]
  /\ UNCHANGED <<blobVars, tagVars, manifestVars, indexVars, push>>

\* Nothing spans the check and the removal, which of a missing entry is none.
RemoveManifest(g) ==
  /\ gc[g].pc = "remove"
  /\ stored' = stored \ {gc[g].cur}
  /\ gc' = [gc EXCEPT ![g].pc = "scan", ![g].cur = None]
  /\ UNCHANGED <<blobVars, tagVars, storeMap, indexVars, push>>

BadSweepBlobs(g) ==              \* the marks are kept for the next run
  /\ gc[g].pc = "scan"
  /\ gc[g].todo = {}
  /\ B!SweepUnreferenced(gc[g].reachB)
  /\ gc' = [gc EXCEPT ![g].pc = "idle"]
  /\ UNCHANGED <<tagVars, manifestVars, indexVars, push>>

SweepBlobs(g) ==
  /\ gc[g].pc = "scan"
  /\ gc[g].todo = {}
  /\ B!SweepUnreferenced(gc[g].reachB)
  /\ gc' = [gc EXCEPT ![g] = GCIdle]
  /\ UNCHANGED <<tagVars, manifestVars, indexVars, push>>

GCStep(g) ==
  \/ MarkTag(g)
  \/ Recount(g)
  \/ ReadLedger(g)
  \/ ListManifests(g)
  \/ KeepManifest(g)
  \/ BeginDelete(g)
  \/ ReleaseManifest(g)
  \/ DeleteManifest(g)
  \/ RemoveManifest(g)
  \/ SweepBlobs(g)

----------------------------------------------------------------------------
Next ==
  \/ \E d \in Digest : Upload(d) \/ OpenUpload(d)
  \/ \E p \in Pusher, m \in Manifest, r \in Ref : BeginPush(p, m, r)
  \/ \E p \in Pusher : PushStep(p)
  \/ \E g \in Collector : BeginMark(g) \/ GCStep(g)

Spec == Init /\ [][Next]_vars

----------------------------------------------------------------------------
\* The incrementally kept ledger equals a recount of the tag table, over every
\* history of pushes.  When Sweep finds the two different it takes the blobs of
\* a tagged manifest off its marks.
LedgerExact == T!LedgerExact

----------------------------------------------------------------------------
(* When a running collection leaves a manifest alone (for the invariants).  *)

\* Until Mark has looked it up, it is still named by a tag of the snapshot;
\* from then on it and all its blobs are marked.
MarkedOrNamed(g, m) ==
  \/ m \in gc[g].reachM /\ Blobs(m) \subseteq gc[g].reachB
  \/ gc[g].pc = "mark" /\ \E name \in gc[g].names : name[2] = m

Spared(g, m) ==
  /\ gc[g].pc # "idle" => MarkedOrNamed(g, m)
  /\ gc[g].pc \in {"release", "delete", "remove"} => gc[g].cur # m

----------------------------------------------------------------------------
(* Liveness.  A handler that has started is a goroutine: the Go scheduler   *)
(* keeps running it and no store call blocks for ever, so it always takes   *)
(* another step.  Nothing obliges a client to upload or push, nor an        *)
(* administrator to request a collection.                                   *)

Fairness ==
  /\ \A p \in Pusher : WF_vars(PushStep(p))
  /\ \A g \in Collector : WF_vars(GCStep(g))

LiveSpec == Spec /\ Fairness

\* Every handler answers, on the error paths too.
HandlersReturn ==
  /\ \A p \in Pusher : push[p].pc # "idle" ~> push[p].pc = "idle"
  /\ \A g \in Collector : gc[g].pc # "idle" ~> gc[g].pc = "idle"

\* An administrator keeps requesting collections.
KeepsCollecting == []<>(\E g \in Collector : gc[g].pc = "mark")

Pushed(m) == \E p \in Pusher : push[p].m = m

\* When collections keep being requested, a manifest that no tag names and no
\* push handles any more is collected for good.
UntaggedIsCollected ==
  \A m \in Manifest :
    KeepsCollecting /\ <>[](~T!Tagged(m) /\ ~Pushed(m)) => <>[](m \notin stored)

\* A record without references of which no tagged or handled manifest has need
\* is reclaimed: committed blobs and abandoned reservations alike (the comment
\* on Stage promises the latter).  A later upload may bring it back.
UnreferencedIsReclaimed ==
  \A d \in Digest :
    KeepsCollecting /\ <>[](/\ refCount[d] = 0
                           /\ \A m \in Manifest : d \in Blobs(m) => ~T!Tagged(m) /\ ~Pushed(m))
      => []<>~B!Exists(d)
=============================================================================
