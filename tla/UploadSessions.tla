--------------------------- MODULE UploadSessions ---------------------------
(***************************************************************************)
(* Chunked uploads into one repository that may be deleted meanwhile:      *)
(* internal/transfer/session.go and chunk.go with CompleteSession of       *)
(* push.go, over the repository, token and blob stores.                    *)
(*                                                                         *)
(* A handler is a goroutine serving one request.  The session manager's    *)
(* lock is held inside one action only: Complete takes it to assemble the  *)
(* chunks, lets it go to store the blob, and takes it again.  A token      *)
(* check, the critical section it admits to and each call into another     *)
(* store are actions of their own, except where said.                      *)
(*                                                                         *)
(* Manifests are not modelled here.  What their pushes and the collections *)
(* do to the blobs is: they give references back (Release) and sweep with  *)
(* whatever marks the tagged manifests lead to (Collect).  The history     *)
(* variable released counts the references given back.                     *)
(***************************************************************************)
EXTENDS Naturals, FiniteSets

CONSTANTS
  Digest,       \* digests of assembled uploads
  Session,      \* session ids
  Token,        \* push tokens
  Handler,      \* concurrent request handlers
  Chunk,        \* the chunk indexes of every upload
  None,
  MaxRefs,      \* bound: a blob is not stored again at this reference count
  MaxReleases   \* bound: references of one blob given back by manifests

ASSUME NoneAssumption == None \notin Session \cup Digest \cup Token
ASSUME FiniteAssumption == IsFiniteSet(Session) /\ IsFiniteSet(Handler)
ASSUME MaxRefsAssumption == MaxRefs \in Nat \ {0}
ASSUME MaxReleasesAssumption == MaxReleases \in Nat

VARIABLES
  blobState, refCount, data,      \* the blob store
  repo, inflight, orphan, open,   \* the repository store
  family, expired, bound, owner,  \* the token store
  sess,                           \* the session manager's sessions and chunks
  handler,                        \* the handlers' local state
  released                        \* history: references of each blob given back

blobVars == <<blobState, refCount, data>>
repoVars == <<repo, inflight, orphan, open>>
authVars == <<family, expired, bound, owner>>
vars == <<blobVars, repoVars, authVars, sess, handler, released>>

B == INSTANCE BlobStore
R == INSTANCE RepoStore
A == INSTANCE AuthStore

\* expected is the digest the client announced, chunks those that have arrived
\* and content the digest of their bytes once all have, None for bytes other
\* than announced.  "none" and "removed" are absent from the manager's map,
\* before the session and after.
NoSession == [state |-> "none", expected |-> None, chunks |-> {}, content |-> None]

Present(s) == sess[s].state \in {"uploading", "committed"}

\* A handler works on the session s; t is the token it still has to show; d is
\* the digest announced or the one it stores.  What a request brings is drawn
\* where it is first used.
HandlerIdle == [pc |-> "idle", s |-> None, t |-> None, d |-> None]

HandlerPC == {"blob", "enter", "stage", "insert", "bind", "chunk",
              "abort", "remove", "complete", "assemble", "put", "finish"}

TypeOK ==
  /\ B!TypeOK
  /\ A!TypeOK
  /\ repo \in {"absent", "alive", "deleted"}
  /\ inflight \in Nat /\ orphan \in BOOLEAN /\ open \subseteq Session
  /\ sess \in [Session -> [state : {"none", "uploading", "committed", "removed"},
                           expected : Digest \cup {None}, chunks : SUBSET Chunk,
                           content : Digest \cup {None}]]
  /\ handler \in [Handler -> {HandlerIdle} \cup
                             [pc : HandlerPC, s : Session \cup {None}, t : Token \cup {None},
                              d : Digest \cup {None}]]
  /\ released \in [Digest -> Nat]

Init ==
  /\ B!Init
  /\ R!Init
  /\ A!Init
  /\ sess = [s \in Session |-> NoSession]
  /\ handler = [h \in Handler |-> HandlerIdle]
  /\ released = [d \in Digest |-> 0]

At(h, pc) == handler[h].pc = pc

Begin(h, pc, s, t) ==
  /\ At(h, "idle")
  /\ handler' = [handler EXCEPT ![h] = [pc |-> pc, s |-> s, t |-> t, d |-> None]]

Return(h) == handler' = [handler EXCEPT ![h] = HandlerIdle]

----------------------------------------------------------------------------
(* PushBlob: a whole blob in one request *)

BeginPushBlob(h, t) ==
  /\ A!Valid(t)
  /\ R!Alive
  /\ Begin(h, "blob", None, None)
  /\ UNCHANGED <<blobVars, repoVars, authVars, sess>>

PutBlob(h) ==
  /\ At(h, "blob")
  /\ \E d \in Digest : refCount[d] < MaxRefs /\ B!Put(d)
  /\ Return(h)
  /\ UNCHANGED <<repoVars, authVars, sess>>

----------------------------------------------------------------------------
(* Session creation *)

BeginCreate(h, t) ==
  /\ A!Valid(t)
  /\ R!Alive
  /\ Begin(h, "enter", None, t)
  /\ UNCHANGED <<blobVars, repoVars, authVars, sess>>

\* The session is named by its id from here on; the id is random.
Fresh(s) == sess[s] = NoSession /\ \A h \in Handler : handler[h].s # s

EnterRepo(h) ==
  /\ At(h, "enter")
  /\ \/ \E s \in Session :
          /\ Fresh(s)
          /\ R!Enter(s)
          /\ handler' = [handler EXCEPT ![h].pc = "stage", ![h].s = s]
     \/ ~R!Alive /\ Return(h) /\ UNCHANGED repoVars
  /\ UNCHANGED <<blobVars, authVars, sess>>

\* An empty name or a size that is not positive.
RefuseArguments(h) ==
  /\ At(h, "stage")
  /\ R!Release(handler[h].s)
  /\ Return(h)
  /\ UNCHANGED <<blobVars, authVars, sess>>

\* A digest may be announced; one that has a record already is no error.
StageDigest(h) ==
  /\ At(h, "stage")
  /\ \E d \in Digest \cup {None} :
       /\ IF d # None /\ ~B!Exists(d) THEN B!Stage(d) ELSE UNCHANGED blobVars
       /\ handler' = [handler EXCEPT ![h].pc = "insert", ![h].d = d]
  /\ UNCHANGED <<repoVars, authVars, sess>>

InsertSession(h) ==
  /\ At(h, "insert")
  /\ sess' = [sess EXCEPT ![handler[h].s] =
                [NoSession EXCEPT !.state = "uploading", !.expected = handler[h].d]]
  /\ handler' = [handler EXCEPT ![h].pc = "bind", ![h].d = None]
  /\ UNCHANGED <<blobVars, repoVars, authVars>>

\* Bind fails for an unknown token only, and tokens are never forgotten.
BindToken(h) ==
  /\ At(h, "bind")
  /\ A!Bind(handler[h].t, handler[h].s)
  /\ Return(h)
  /\ UNCHANGED <<blobVars, repoVars, sess>>

----------------------------------------------------------------------------
(* UploadChunk *)

BeginChunk(h, t, s) ==
  /\ A!ValidForSession(t, s)
  /\ Begin(h, "chunk", s, None)
  /\ UNCHANGED <<blobVars, repoVars, authVars, sess>>

\* What the content of the session s can be, given the chunks that arrived.
Contents(s, chunks) ==
  IF chunks # Chunk THEN {None}
  ELSE IF sess[s].expected = None THEN Digest
  ELSE {sess[s].expected, None}

\* ErrNotFound, ErrInvalidState or, for a chunk that has arrived, ErrConflict
\* leave the session as it is.
StoreChunk(h) ==
  LET s == handler[h].s IN
  /\ At(h, "chunk")
  /\ \/ /\ sess[s].state = "uploading"
        /\ \E c \in Chunk \ sess[s].chunks : LET chunks == sess[s].chunks \cup {c} IN
             \E d \in Contents(s, chunks) :
               sess' = [sess EXCEPT ![s].chunks = chunks, ![s].content = d]
     \/ UNCHANGED sess
  /\ Return(h)
  /\ UNCHANGED <<blobVars, repoVars, authVars>>

----------------------------------------------------------------------------
(* CompleteSession *)

\* Get and Alive.  Get only fails the request: had the session gone or the
\* token expired before Alive answered, the next check would fail it too.
BeginComplete(h, t, s) ==
  /\ A!ValidForSession(t, s)
  /\ Present(s)
  /\ Begin(h, IF R!Alive THEN "complete" ELSE "abort", s, t)
  /\ UNCHANGED <<blobVars, repoVars, authVars, sess>>

\* The token check of Complete, or of Abort.
Authorize(h) ==
  /\ handler[h].pc \in {"complete", "abort"}
  /\ IF A!ValidForSession(handler[h].t, handler[h].s)
     THEN handler' = [handler EXCEPT ![h].t = None,
                        ![h].pc = IF At(h, "complete") THEN "assemble" ELSE "remove"]
     ELSE Return(h)
  /\ UNCHANGED <<blobVars, repoVars, authVars, sess>>

\* Abort forgets the session and lets go of the repository.  What the session
\* staged stays in the blob store.
AbortSession(h) ==
  LET s == handler[h].s IN
  /\ At(h, "remove")
  /\ IF Present(s)
     THEN R!Release(s) /\ sess' = [sess EXCEPT ![s] = [NoSession EXCEPT !.state = "removed"]]
     ELSE UNCHANGED <<repoVars, sess>>
  /\ Return(h)
  /\ UNCHANGED <<blobVars, authVars>>

\* Still uploading (ErrInvalidState), every chunk arrived (ErrUnfinished), and
\* the bytes are what was announced (ErrCorrupt).
Assembles(s) ==
  /\ sess[s].state = "uploading"
  /\ sess[s].chunks = Chunk
  /\ sess[s].content # None

BadAssemble(h) ==                \* reports committed before the blob is stored
  LET s == handler[h].s IN
  /\ At(h, "assemble")
  /\ IF Assembles(s)
     THEN /\ handler' = [handler EXCEPT ![h].pc = "put", ![h].d = sess[s].content]
          /\ sess' = [sess EXCEPT ![s].state = "committed"]
     ELSE Return(h) /\ UNCHANGED sess
  /\ UNCHANGED <<blobVars, repoVars, authVars>>

\* The first critical section copies the session and assembles its chunks.
\* The state stays "uploading": session.Verify advances the copy.
Assemble(h) ==
  /\ At(h, "assemble")
  /\ IF Assembles(handler[h].s)
     THEN handler' = [handler EXCEPT ![h].pc = "put", ![h].d = sess[handler[h].s].content]
     ELSE Return(h)
  /\ UNCHANGED <<blobVars, repoVars, authVars, sess>>

PutAssembled(h) ==
  /\ At(h, "put")
  /\ refCount[handler[h].d] < MaxRefs
  /\ B!Put(handler[h].d)
  /\ handler' = [handler EXCEPT ![h].pc = "finish", ![h].d = None]
  /\ UNCHANGED <<repoVars, authVars, sess>>

BadFinishComplete(h) ==          \* the entry of the releases map stays behind
  LET s == handler[h].s IN
  /\ At(h, "finish")
  /\ sess' = IF Present(s) THEN [sess EXCEPT ![s].state = "committed"] ELSE sess
  /\ Return(h)
  /\ UNCHANGED <<blobVars, repoVars, authVars>>

BadFinishAborted(h) ==           \* a session aborted meanwhile comes back
  LET s == handler[h].s IN
  /\ At(h, "finish")
  /\ R!Release(s) /\ sess' = [sess EXCEPT ![s].state = "committed"]
  /\ Return(h)
  /\ UNCHANGED <<blobVars, authVars>>

\* The second critical section.  Whoever else completed the session meanwhile
\* is not noticed; an aborted session stays gone (ErrNotFound).
FinishComplete(h) ==
  LET s == handler[h].s IN
  /\ At(h, "finish")
  /\ IF Present(s)
     THEN R!Release(s) /\ sess' = [sess EXCEPT ![s].state = "committed"]
     ELSE UNCHANGED <<repoVars, sess>>
  /\ Return(h)
  /\ UNCHANGED <<blobVars, authVars>>

----------------------------------------------------------------------------
(* The other requests, and time *)

CreateRepo == R!Create /\ UNCHANGED <<blobVars, authVars, sess, handler, released>>

DeleteRepo == R!Delete /\ UNCHANGED <<blobVars, authVars, sess, handler, released>>

\* One step of the release loop of a push of a manifest that lists d, or of the
\* deletion of one by a collection, which knows nothing of sessions.
Release(d) ==
  /\ refCount[d] > 0               \* changes nothing otherwise
  /\ released[d] < MaxReleases
  /\ B!DecRef(d)
  /\ released' = [released EXCEPT ![d] = @ + 1]
  /\ UNCHANGED <<repoVars, authVars, sess, handler>>

\* The sweep of a gc.Run, whatever it has marked.
Collect ==
  /\ \E reachable \in SUBSET Digest : B!SweepUnreferenced(reachable)
  /\ UNCHANGED <<repoVars, authVars, sess, handler, released>>

IssueToken(t) == A!Issue(t, None) /\ UNCHANGED <<blobVars, repoVars, sess, handler, released>>

\* Offered by the token store; no route of the server calls it.
RenewToken(old, t) == A!Renew(old, t) /\ UNCHANGED <<blobVars, repoVars, sess, handler, released>>

ExpireToken(t) == A!Expire(t) /\ UNCHANGED <<blobVars, repoVars, sess, handler, released>>

Step(h) ==
  \/ PutBlob(h)
  \/ EnterRepo(h)
  \/ RefuseArguments(h)
  \/ StageDigest(h)
  \/ InsertSession(h)
  \/ BindToken(h)
  \/ StoreChunk(h)
  \/ Authorize(h)
  \/ AbortSession(h)
  \/ Assemble(h)
  \/ PutAssembled(h)
  \/ FinishComplete(h)

Next ==
  \/ /\ \E h \in Handler :
          \/ \E t \in Token : BeginPushBlob(h, t) \/ BeginCreate(h, t)
          \/ \E t \in Token, s \in Session : BeginChunk(h, t, s) \/ BeginComplete(h, t, s)
          \/ Step(h)
     /\ UNCHANGED released
  \/ \E t \in Token : IssueToken(t) \/ ExpireToken(t)
  \/ \E old, t \in Token : RenewToken(old, t)
  \/ CreateRepo
  \/ DeleteRepo
  \/ \E d \in Digest : Release(d)
  \/ Collect

Spec == Init /\ [][Next]_vars

----------------------------------------------------------------------------
(* Properties *)

\* A session reports committed only when every chunk had arrived and the bytes
\* are those that were announced, whatever chunk uploads, completions and
\* aborts of it overlapped.
CommittedIsWhole ==
  \A s \in Session : sess[s].state = "committed" =>
    /\ sess[s].chunks = Chunk
    /\ sess[s].content \in IF sess[s].expected = None THEN Digest ELSE {sess[s].expected}

CommittedWith(d) == {s \in Session : sess[s].state = "committed" /\ sess[s].content = d}

\* Every committed session brought a reference of its own on its blob, also when
\* another upload brought the same bytes: what is missing of them was given back
\* by the release loop of a manifest push or by a collection's deletions.
HoldsCounted == \A d \in Digest : refCount[d] + released[d] >= Cardinality(CommittedWith(d))

\* internal/transfer/chunk.go:109: "the session only reports committed after
\* the blob is stored".  And no collection takes the blob before as many of its
\* references were given back as sessions committed it, whatever its marks are
\* and whatever other uploads of the same bytes do.
CommittedIsStored ==
  \A d \in Digest : released[d] < Cardinality(CommittedWith(d)) => B!Readable(d)

\* The in-flight counter is exact: it counts the sessions that are being set
\* up and those that are uploading.  Overlapping completions and aborts of one
\* session give its entry back once, and none is given back early.
InflightExact ==
  /\ open = {s \in Session : sess[s].state = "uploading"}
              \cup {handler[h].s : h \in {i \in Handler : handler[i].pc \in {"stage", "insert"}}}
  /\ inflight = Cardinality(open)

\* A repository deleted while a chunked upload was in it is remembered as an
\* orphan for the collector, wherever between entering it and its last step the
\* upload was.  A whole-blob upload never enters, so nothing is said of it.
OrphanTracked == repo = "deleted" /\ open # {} => orphan

\* A token is bound only to a session of its own family, through every
\* renewal, re-binding and expiry, and while creations bind tokens that are
\* being renewed: so renewing the token of an upload goes on with the upload,
\* and no family answers for another one's session.
BindingsAgree == \A t \in Token : bound[t] # None => owner[bound[t]] = family[t]

\* A session never passes from one family to another, whichever creations,
\* re-bindings and renewals of its token overlap: the family that created an
\* upload is the only one that can ever finish or abort it.
SessionsKeepOwner == [][\A s \in Session : owner[s] # None => owner'[s] = owner[s]]_vars

\* A session only moves forward, whatever requests for it overlap.  One that
\* was aborted never comes back, not even through a completion that had
\* assembled it before; one that committed is at most removed; and while a
\* session is present it loses no chunk, and its bytes once complete stay.
SessionsOnlyAdvance ==
  [][\A s \in Session :
       /\ sess[s].state = "removed" => sess'[s].state = "removed"
       /\ sess[s].state = "committed" => sess'[s].state \in {"committed", "removed"}
       /\ Present(s) /\ sess'[s].state # "removed" =>
            /\ sess'[s].expected = sess[s].expected
            /\ sess[s].chunks \subseteq sess'[s].chunks
            /\ sess[s].content # None => sess'[s].content = sess[s].content]_vars

\* What internal/repo/repo.go says of a deletion: uploads in flight that commit
\* afterwards are refused, so no blob arrives in a deleted repository.
DeletedReceivesNothing ==
  [][repo = "deleted" => \A d \in Digest : B!Committed(d)' => B!Committed(d)]_vars
=============================================================================
