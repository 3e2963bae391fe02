# A verification of the artifact registry

TLA+ models, TLC runs and machine-checked proofs about the Go program in `src/`:
an in-memory registry of OCI-style artifacts. Clients upload content-addressed
blobs, push manifests that list them under tag names, and pull by name; an
administrator requests garbage collections and deletes repositories.

Nothing is persisted, so there is no crash recovery to verify. What is hard is
concurrency: a request handler is a goroutine that makes a sequence of calls to
stores, each store call is atomic at best, and nothing spans two of them.

## Inventory

| part | state | operations | what makes it correct | hard because |
|---|---|---|---|---|
| blob store, `internal/blob` | metadata record (state, reference count) and bytes per digest, in two sharded maps, one mutex | Stage, Put, IncRef, DecRef, Delete, SweepUnreferenced, reads | records and bytes agree; a committed blob goes only when unreferenced; abandoned reservations are reclaimed | dedup, staging and deletion meet on one digest |
| tag store, `internal/tag` | tag table, reference ledger, one mutex | Set, Delete, List, Refs | the ledger equals a recount | kept by differences; read in two calls |
| manifest store, `internal/manifest` | map of manifests per repository, **no** mutex | Store (validates), Verify, Get, Delete, List | a stored manifest was complete, and stays while it is tagged | validation reads the blob store one descriptor at a time; the first writer makes the repository's map, and a second first writer replaces it |
| index, `internal/index` | published name to digest, **no** mutex | Add | what is listed can be pulled | written after the tag, by another call; made as the manifest map is |
| push, `internal/transfer/push.go` | none of its own | PushBlob, PushManifest, CompleteSession | a tag leads to a complete artifact | six store calls, no transaction, error returns between them |
| upload sessions, `transfer/session.go`, `chunk.go` | sessions, chunks, release functions, one mutex | Create, UploadChunk, Complete, Abort, Get, ResumeOffset | committed means whole, without gap or overlap, and stored; the repository is entered while an upload is in flight; who resumes finishes | Complete drops its lock in the middle; four stores; int64 arithmetic on numbers clients choose |
| garbage collector, `internal/gc` | none between runs | Run = Mark, Sweep | a published artifact is left alone; what is unreferenced goes | works on snapshots taken at different moments |
| repositories, `internal/repo` | namespaces, in-flight counters, orphans, one mutex | Create, Delete, Enter and its release | the counter is exact; a repository deleted under an upload is tracked | checks are made before the call they guard |
| tokens, `internal/auth` | tokens, owning family of each session, one mutex | Issue, Renew, Bind, Validate, ValidateForSession | a token names sessions of its own family only | tokens expire, are renewed and re-bound at any moment |
| pull, `transfer/download.go` | none | PullManifest, PullBlob, FetchArtifact | what a tag names can be fetched, whatever is pushed and collected meanwhile | several reads, no snapshot |
| facade and HTTP, `internal/registry`, `cmd` | none | one route per operation; RunGC visits the repository and every orphan | forwarding | bodies are cut at a limit, a status is read in two calls |

A push calls the blob, manifest, tag and index stores; a collection the tag,
manifest and blob stores; a session the token, repository and blob stores. They
interact through this shared state only; the one callback is the release
function that Enter hands out. `PROJECT.json` lists the hazards of each part with
the properties that address them.

## Modules

```
BlobStore   TagStore            RepoStore   AuthStore   BlobStore
     \       /                        \         |         /
      PushGC                            UploadSessions
     /   |   \
ArtifactSurvival  GCClaims  Windowed ---implements---> Catalog     ChunkLayout
                              |
                            Pulls
```

* **BlobStore**, **TagStore**, **RepoStore**, **AuthStore** hold one store each,
  with one action per operation. A store runs each operation under its mutex, so
  an operation is one action. `AuthStore` names a family by the token it was issued
  with. BlobStore is also checked on its own; the rest inside the modules that use
  them. `TagStore!Delete`, which nothing in the program calls, is reached by the
  proof about TagStore alone.
* **PushGC** composes the push and collection handlers over the stores. The
  variables `push` and `gc` hold each handler's program counter and locals. Every
  store call is an action: the loop over the descriptors in Validate (which runs
  twice, once inside Store), in Verify and in the release of references, Mark's
  lookup of each manifest, the two reads of the tag store that Sweep makes, and
  deleteManifest's calls. Error returns go back to `idle` and leave what was done.
  The manifest and index stores have no mutex, so their operations are split further:
  `LookupManifests`, `CreateManifests` and `InsertManifest` are manifests.Store after
  its validation, `LookupIndex`, `CreateIndex` and `EnterIndex` are index.Add, and
  `DeleteManifest` and `RemoveManifest` are the check and the removal of
  manifests.Delete. A repository's map is named by the pusher that made it
  (`storeMap`, `indexMap`); a handler holds the map it saw or made in `into`, and
  what it puts into one that was replaced meanwhile is lost.
* **ArtifactSurvival** adds the history variable `settled`: the manifests tagged
  without a break since a moment when they were stored with every blob, no collection
  was running and no push was about to make the manifest map. It states what a
  collection may not do; **GCClaims** adds two histories to state what comments in
  `gc` and `tag` say of it.
* **Catalog** is the abstract specification of a repository: a table of names and
  the set of blobs that can be fetched; publishing requires the blobs, reclaiming
  spares the published ones. **Windowed** is PushGC under a discipline the program
  leaves to its operator: no manifest is pushed while a collection runs, no
  collection is requested during a push, and a push into a repository without a
  manifest map is alone until it has made one. It implements Catalog under
  `table <- tags`, `ready <-` the committed digests. Each part is needed: the
  `claim_` runs show the first two, and without the third the manifest of one of two
  first pushes is lost under its tag (a run of `catalog` with `MayPush` reduced to
  `Quiet` finds it).
* **Pulls** adds pulls by name to Windowed: `pull` is what FetchArtifact (or a client
  that fetches request by request) has resolved and how far it is; each of its
  reads of the tag, manifest and blob stores is an action.
* **UploadSessions** composes chunked uploads with the token, repository and blob
  stores: `sess` is the session manager's maps (a session that is uploading has
  an entry in `releases`; removing either removes both), `handler` the requests
  in progress. Complete is three actions around its two critical sections. Two
  uploads may bring the same bytes, and tokens are renewed between any two steps
  (auth.Store offers Renew; no route of the server calls it). Manifests are not in
  this module, but what they do to blobs is: `Release` is one DecRef of a manifest
  push (push.go:85) or of a collection's deleteManifest (gc.go:65) and may happen at
  any moment, `Collect` sweeps with any set of marks, and the history variable
  `released` counts the references given back.
* **ChunkLayout** is the arithmetic of chunk.go with wrap-around at `MaxInt`, the
  largest integer: the expected size of a chunk, the number of chunks, `written`, the
  loop of ResumeOffset (`Reached`, `Stops`) and the one that assembles (`Assembled`),
  with the body limit of the handlers and a client that resumes. Its reference is the
  set of byte offsets that have arrived. The loops are recursive functions on the
  naturals, so that they can be proved about.
* **MC...** modules give the constants their values; **...Proofs** hold theorems.

Definitions named `Bad...` are plausible mistakes, one for each property, some of
which share one; no specification uses them. They show that the property notices
the mistake.

### Abstractions

Digests, names and tokens are model values; the bytes under a digest hash to it.
Media types are left out, and sizes outside ChunkLayout: in UploadSessions chunks
are a set of indexes, and the content `None` is bytes other than the announced ones;
ChunkLayout in turn takes one upload without announced digest, and its operations
as the critical sections they are, and leaves the two stores and the gap inside
Complete to UploadSessions. In the manifest and index stores a single map operation
is atomic and a read (Get, List) one operation: the best the runtime gives them, for
it may also abort the process on concurrent use, which is not modelled. Two handlers
that enter one name into the index for the first time may share its draft record, and
the slower one then fails; `EnterIndex` may fail wherever there is another handler,
which is more than the code does. A token expires at any moment; one collection
sweeps one namespace.

## Runs

Each run's bounds are in its `.cfg`. Bounds that cut behaviour: `MaxRefs` stops
uploads of a blob at that reference count, enough for a count that a release
brings to zero and, at 2, for one it does not; `MaxReleases` stops the references
given back in UploadSessions; `Requests`, `Indexes` and `Lengths` are what the clients
of ChunkLayout send; the other constants are the sizes of the sets. `BoundedSpec`, in
two MC modules, cuts further. In `push_gc` pushes come one at a time to any of two
tags, or overlap while the repository uses one tag: the first is where re-tagging
meets a collection, the second where two pushes meet in the manifest map. In
`sessions` references are given back, and whole blobs pushed, only where one token is
in use: what happens to the blobs and who may name a session do not meet. Deadlock is
checked except in ChunkLayout, where a committed upload has nothing left to do.

| run | instance | shows |
|---|---|---|
| `blob_store` | 3 digests, counts to 3 | `BytesIffCommitted`, `CommittedLeavesOnlyUnreferenced` |
| `push_gc` | 2 manifests sharing a blob, one listing it twice; 2 names; 2 pushes and a collection, bounded as above | `SettledIntact`: a collection leaves alone every artifact that was complete and tagged before it began, although its blobs have reference count zero, and no push loses it with the manifest map; `SurvivalInv` is the reason |
| `gc_liveness` | 2 manifests and 2 blobs, 1 name, a push and a collection | handlers return; an untagged manifest and an unreferenced blob are reclaimed |
| `catalog` | 2 pushes, 2 collections, a pull, 2 names, 2 blobs; under the discipline of Windowed | Windowed implements Catalog; tags resolve; `LedgerExact`: the reference ledger equals a recount; `PullFailsOnlyUntagged`: a pull breaks only when its manifest has lost its last name |
| `sessions` | 2 handlers, 2 sessions of 2 chunks, 1 digest, 2 tokens, 1 reference given back; bounded as above | `CommittedIsWhole`; `HoldsCounted`: each committed session brought a reference, and `CommittedIsStored`: its blob is in the store until as many were given back as sessions committed it; `InflightExact`; `OrphanTracked`, of sessions that entered the repository; `BindingsAgree`, and the action properties `SessionsKeepOwner` (no session changes family) and `SessionsOnlyAdvance` (no session comes back, complete bytes stay) |
| `chunks` | 14 shapes of an upload in 8-bit integers | `CommittedTiles`, `WrittenIsCovered`, `ResumeAtFirstGap`; `NeverStuck`: who follows the resume offset is accepted; `ResumingFinishes` |
| `claim_tagged` | 1 manifest, 1 blob | **violated**: a freshly tagged manifest is collected |
| `claim_held` | 2 manifests, 2 blobs | **violated**: a blob an upload holds is swept |
| `claim_ledger` | 1 manifest, 2 names | **violated**: the blobs of a tagged manifest the sweep kept are swept |
| `claim_listed` | 2 pushes, 1 collection | **violated**: the index lists what cannot be pulled |
| `claim_chunks` | as `chunks`, any client | **violated**: an upload is committed whose chunks do not lie side by side |
| `claim_deleted` | 2 digests, 1 token | **violated**: a blob arrives in a deleted repository |

The six violations are statements of the repository's comments that the code does
not keep; `PROJECT.json` quotes each. Four are check-then-act gaps between store
calls; `claim_held` is a reference that is released but was never taken, and
`claim_chunks` an unchecked product. `claim_listed` fails even at rest and under the
discipline of Windowed. The lost first write of the manifest map contradicts no
comment and is a hazard of `PROJECT.json`.

Settled artifacts outlive the reference counts; the blob of a committed session does
not. Publishing an upload gives its reference back, after which only marks protect
the blob, and a collection that deletes another manifest may take a reference a
session still counts on (`claim_held`). That is why the two properties of `sessions`
about blobs count what was given back.

`push_gc` and `catalog` do not tell states apart by what the index holds, nor by the
index map a handler holds (`VIEW`): neither decides a step outside index.Add, and no
property of these runs reads them. Handlers and tags are interchangeable there
(`SYMMETRY`), as are handlers, sessions, chunks and tokens in `sessions`; none of
the three checks a liveness property. `sessions` has one digest
because sessions meet in the blob store only when they bring the same bytes, and
two tokens because a family is a token and its renewal, or two tokens are two
families.

`chunks` runs `InRangeSpec`: clients whose numbers fit the integers (`InRange`, and
no index whose offset overflows) and whose chunks fit a request body. The program
checks neither; `claim_chunks` drops the first restriction, and a client that
breaks the second can never finish. The shapes are even, short-tailed and
single-chunk uploads, some at the largest sum that fits. `MaxInt` is a parameter
of the same operators; it is 127 in the runs, whose 8 bits meet every case of
wrapping that 64 do, and any natural number in the proofs.

### Fairness

`LiveSpec` asks weak fairness of each handler that has started: it is a goroutine,
no store call blocks for ever, and a handler always has a step. Nothing obliges a
client to push or an administrator to collect; that collections keep being
requested is a hypothesis of the two reclamation properties. With one collector
`UntaggedIsCollected` holds. Overlapping collections may abort each other
(ErrNotFound from manifests.Delete) before they sweep, so `UnreferencedIsReclaimed`
is claimed for collections that run one at a time.

`InRangeSpec` asks weak fairness of a client that asks where to resume, sends the
chunk that begins there and at last completes: that a client goes on is the
hypothesis of `ResumingFinishes`, and that each request returns is the code's. Other
connections may send chunks in between, so the answer may be stale when it is used.

## Proofs

TLAPS proves these for every value of the constants that satisfies the named
assumptions of the modules (`Descriptors` maps each manifest to a non-empty
sequence; `Ref`, and the sessions and handlers of UploadSessions, are finite; `None`
is none of the values it stands beside; `MaxRefs` is positive, `MaxReleases` a
natural; in ChunkLayout,
`MaxInt` and `BodyLimit` are naturals, and clients announce positive sizes and send
integers). The theorems about ChunkLayout are about `InRangeSpec`: of a client that
keeps to no range `CommittedTiles` is false, as `claim_chunks` shows.

* `BlobStoreProofs`: `BytesAgree` is inductive as it stands; `CommittedIsKept` goes
  through the actions, using only the type invariant, which `TypeCorrect` proves.
* `TagStoreProofs`: `LedgerAlwaysExact`, from `TagAssumption` (finitely many names). `Set` moves one name: the cases are whether
  the old target is the new one, another manifest, or none, with lemmas on how the
  set of names of a manifest changes by one.
* `PushGCProofs`: `TypeCorrect`, and lemmas on how each action affects the manifest
  map (`MapStep`), an intact manifest and a collection that spares it. `LedgerStaysExact` carries the ledger's
  theorem over: the tag variables of PushGC implement TagStore. `BlobsAreStore` says
  the same of the blob variables: the handlers change them by the store's operations
  only, so every theorem about BlobStore is one about pushes and collections
  (`BlobMapsAgree`, `OnlyUnreferencedGo`).
* `ArtifactSurvivalProofs`: `Survival` and `SettledStaysIntact`. `SettledIntact`
  alone is not inductive: nothing in it says why the next sweep spares the artifact.
  `SurvivalInv` adds that each running collection either has marked the manifest and
  all its blobs or still has a tag that names it to look up, and is not deleting it.
  The invariant survives a re-tagging because the snapshot of names is the
  collection's own. And it adds that once something is settled no push is about to
  make the manifest map: a settled manifest is in a map (`MapsHeld`), so a push that
  looks finds one. The run checks it with one collector; the proof is for any number
  of pushers and collectors.
* `WindowedProofs`: `TagsAlwaysResolve` and `RepositoryIsCatalog`, by an invariant
  that says a tagged manifest is stored and complete, a push that has passed a check
  of a descriptor still finds it, and a collection spares every tagged manifest; and
  `OneMap`: while there is no manifest map at most one push is in progress, one that
  makes the map replaces none, and one that inserts holds the map that is there.
* `PullsProofs`: `PullsOfTaggedSucceed`. A pull changes no store, so the invariant of
  WindowedProofs holds with pulls too; in a state that satisfies it a manifest some
  name leads to is stored and all its blobs are readable.
* `UploadSessionsProofs`: the properties `sessions` checks, from invariants that
  build on each other. `TypedInv`: a handler has drawn what it will use. `SetupInv`: a
  session that is being set up has one handler, no entry yet and no token. With it
  `BindingsAgree` is inductive, since a session is bound for the first time by its
  creator alone. `ContentInv`: a session with a content is whole, and a handler that
  has assembled it finds it unchanged or gone. `CounterInv`: who is in the
  repository. `HoldsInv`: a handler between Put and the second critical section of
  Complete brings one reference more than the committed sessions need; this is what
  keeps `HoldsCounted` through two completions of one session; a reference given back
  moves from the count to `released`. `CommittedIsStored` joins three of them: when
  fewer were given back than sessions committed the digest it has a reference, only a
  committed digest has one (`StoredCounts`), and by `BlobsAreStore` and BlobStore's own
  theorem a committed digest has its bytes. `SessionsKeepOwner` needs `OwnedKnown`: a session
  with an owner exists and nobody is setting it up, so no creation binds it again, and
  `BindingsAgree` says that a renewal writes the owner that is there already.
  `SessionsOnlyAdvance` needs `ContentInv`: a chunk arrives only where one was
  missing, so no content was there to change.
* `ChunkLayoutProofs`: the invariants `chunks` checks. `LayoutInv` says that a chunk is
  determined by its index: it begins at index times chunk size, ends at the next
  one's beginning or at the end of the upload, and nothing wraps. Then bytes are
  covered chunk by chunk and `written` is their number; counting indexes, the number
  of chunks Complete waits for is reached only when all are there. The two loops
  are sums over indexes: `RunningSum` proves that such an equation has exactly one
  solution, by the least number it could fail at, and `SumOfShares` gives the value
  it has while each term is a chunk's share. `NeverStuck` follows from the
  resume offset being the first gap, hence the beginning of a missing chunk.

Only model-checked: the liveness properties `HandlersReturn`, `UntaggedIsCollected`,
`UnreferencedIsReclaimed` and `ResumingFinishes`, since the prover has no ENABLED and
so no fairness. `NeverStuck` is the safety half of `ResumingFinishes`: the step fairness
asks of the client is one the server accepts.

## Not modelled, and the plan

Not modelled:

* the HTTP layer beyond what ChunkLayout takes from it, and the browse page: decoding,
  encoding and status codes, without state; digests and shard labels, pure hashing;
* a whole-blob body cut at the limit, which is stored under the digest of what was
  read: the bytes of a blob are not modelled;
* the loop of RunGC over the orphaned namespaces: one namespace is modelled, and
  namespaces share nothing; whether an orphan is on the list is `OrphanTracked`, which
  covers chunked uploads only, since a whole-blob upload leaves no mark;
* the abort of the Go runtime on concurrent use of the manifest and index maps, and a
  read that sees half of a write to them;
* `IsDigestUploading`, which only chooses between two errors of a refused push; the
  tag revision, which nothing reads; `SplitChunks`, `ChunkBounds`, `index.Remove` and
  `MarkGC`, which nothing in the program calls.

Plan, in order:

1. (done) stores, pushes and collections, artifact survival, the catalogue.
2. (done) upload sessions against deletion and collection, families and renewals.
3. (done) the layout of chunks, resuming, and the overflow at a small width.
4. (done) pulls during pushes and collections; the ledger under the handlers.
5. (done) proofs of the safety properties of UploadSessions.
6. (done) proofs of ChunkLayout, of the blob store under its users, and of the action
   properties of sessions.
7. Proofs still worth having: that the repository and token variables of UploadSessions
   implement RepoStore and AuthStore.
8. Several namespaces in one collection request, and a request that fails half-way.
