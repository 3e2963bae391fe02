------------------------ MODULE UploadSessionsProofs ------------------------
(***************************************************************************)
(* Safety of chunked uploads, for any number of handlers, sessions, chunks *)
(* and tokens, whatever references manifest pushes and collections give    *)
(* back and whatever collections have marked.                              *)
(***************************************************************************)
EXTENDS UploadSessions, FiniteSetTheorems, TLAPS

HandlerRec == [pc : HandlerPC \cup {"idle"}, s : Session \cup {None},
               t : Token \cup {None}, d : Digest \cup {None}]

SessionRec == [state : {"none", "uploading", "committed", "removed"},
               expected : Digest \cup {None}, chunks : SUBSET Chunk,
               content : Digest \cup {None}]

\* What a handler has drawn by the time it uses it.
Shape == \A h \in Handler :
  /\ handler[h].pc \notin {"idle", "blob", "enter"} => handler[h].s \in Session
  /\ handler[h].pc \in {"enter", "stage", "insert", "bind", "complete", "abort"}
       => handler[h].t \in Token
  /\ handler[h].pc = "put" => handler[h].d \in Digest

TypedInv == TypeOK /\ Shape

LEMMA Types ==
  ASSUME TypeOK
  PROVE  handler \in [Handler -> HandlerRec] /\ sess \in [Session -> SessionRec]
<1>1. HandlerIdle \in HandlerRec
  BY DEF HandlerIdle, HandlerRec
<1>2. handler \in [Handler -> HandlerRec]
  BY <1>1 DEF TypeOK, HandlerRec
<1>3. QED
  BY <1>2 DEF TypeOK, SessionRec

LEMMA TypedInit == Init => TypedInv
<1>1. Init => B!TypeOK /\ A!TypeOK
  BY DEF Init, B!Init, B!TypeOK, B!BlobState, A!Init, A!TypeOK
<1>2. Init => sess \in [Session -> SessionRec]
  BY DEF Init, NoSession, SessionRec
<1>3. Init => inflight \in Nat
  BY SMT DEF Init, R!Init
<1>4. Init => Shape
  BY DEF Init, Shape, HandlerIdle
<1>5. Init => repo \in {"absent", "alive", "deleted"} /\ orphan \in BOOLEAN /\ open \subseteq Session
  BY Zenon DEF Init, R!Init
<1>6. Init => released \in [Digest -> Nat]
  BY DEF Init
<1>7. QED
  BY <1>1, <1>2, <1>3, <1>4, <1>5, <1>6 DEF Init, TypedInv, TypeOK, SessionRec

\* The store operations keep their own types.
LEMMA BlobOpsType ==
  /\ \A d \in Digest : B!TypeOK /\ (B!Put(d) \/ B!Stage(d)) => B!TypeOK'
  /\ \A d \in Digest : B!TypeOK /\ B!DecRef(d) => B!TypeOK'
  /\ \A reachable : B!TypeOK /\ B!SweepUnreferenced(reachable) => B!TypeOK'
  /\ B!TypeOK /\ UNCHANGED blobVars => B!TypeOK'
BY DEF B!TypeOK, B!BlobState, B!Put, B!Stage, B!DecRef, B!SweepUnreferenced, B!Remove, blobVars

RepoTyped ==
  /\ repo \in {"absent", "alive", "deleted"}
  /\ inflight \in Nat /\ orphan \in BOOLEAN /\ open \subseteq Session

LEMMA RepoOpsType ==
  /\ \A s \in Session : RepoTyped /\ R!Enter(s) => RepoTyped'
  /\ \A s : RepoTyped /\ R!Release(s) => RepoTyped'
  /\ RepoTyped /\ (R!Create \/ R!Delete) => RepoTyped'
  /\ RepoTyped /\ UNCHANGED repoVars => RepoTyped'
<1>1. \A s \in Session : RepoTyped /\ R!Enter(s) => RepoTyped'
  <2>1. SUFFICES ASSUME NEW s \in Session, RepoTyped, R!Enter(s) PROVE RepoTyped'
    OBVIOUS
  <2>2. inflight' \in Nat /\ open' \subseteq Session
    BY <2>1 DEF RepoTyped, R!Enter
  <2>3. QED
    BY <2>1, <2>2, Zenon DEF RepoTyped, R!Enter
<1>2. \A s : RepoTyped /\ R!Release(s) => RepoTyped'
  <2>1. SUFFICES ASSUME NEW s, RepoTyped, R!Release(s) PROVE RepoTyped'
    OBVIOUS
  <2>2. inflight' \in Nat /\ open' \subseteq Session
    BY <2>1 DEF RepoTyped, R!Release
  <2>3. QED
    BY <2>1, <2>2, Zenon DEF RepoTyped, R!Release
<1>3. RepoTyped /\ (R!Create \/ R!Delete) => RepoTyped'
  BY Zenon DEF RepoTyped, R!Create, R!Delete
<1>4. RepoTyped /\ UNCHANGED repoVars => RepoTyped'
  BY Zenon DEF RepoTyped, repoVars
<1>5. QED
  BY <1>1, <1>2, <1>3, <1>4

LEMMA AuthOpsType ==
  /\ \A t \in Token : A!TypeOK /\ (A!Issue(t, None) \/ A!Expire(t)) => A!TypeOK'
  /\ \A old, t \in Token : A!TypeOK /\ A!Renew(old, t) => A!TypeOK'
  /\ \A t \in Token, s \in Session : A!TypeOK /\ A!Bind(t, s) => A!TypeOK'
  /\ A!TypeOK /\ UNCHANGED authVars => A!TypeOK'
BY DEF A!TypeOK, A!Issue, A!Expire, A!Renew, A!New, A!Known, A!Bind, authVars

\* The local state of the handlers and the session manager.
Locals ==
  /\ sess \in [Session -> SessionRec]
  /\ handler \in [Handler -> {HandlerIdle} \cup
                             [pc : HandlerPC, s : Session \cup {None}, t : Token \cup {None},
                              d : Digest \cup {None}]]
  /\ Shape

ReleasedTyped == released \in [Digest -> Nat]

LEMMA TypedParts == TypedInv <=> B!TypeOK /\ A!TypeOK /\ RepoTyped /\ Locals /\ ReleasedTyped
BY DEF TypedInv, TypeOK, RepoTyped, Locals, ReleasedTyped, SessionRec

LEMMA BeginKeeps ==
  ASSUME Locals, NEW h \in Handler, NEW pc \in HandlerPC,
         NEW s \in Session \cup {None}, NEW t \in Token \cup {None},
         pc \notin {"blob", "enter"} => s \in Session,
         pc \in {"enter", "stage", "insert", "bind", "complete", "abort"} => t \in Token,
         pc # "put", Begin(h, pc, s, t), UNCHANGED sess
  PROVE  Locals'
<1>1. Shape'
  BY DEF Locals, Shape, Begin
<1>2. QED
  BY <1>1 DEF Locals, Begin

LEMMA ReturnKeeps ==
  ASSUME Locals, NEW h \in Handler, Return(h) PROVE Shape' /\ (sess' \in [Session -> SessionRec] => Locals')
<1>1. Shape'
  BY DEF Locals, Shape, Return, HandlerIdle
<1>2. QED
  BY <1>1 DEF Locals, Return

\* A handler goes on to another point with what it has, or with more.
LEMMA GoesOn ==
  ASSUME Locals, NEW h \in Handler, ~At(h, "idle"),
         NEW rec \in [pc : HandlerPC, s : Session, t : Token \cup {None}, d : Digest \cup {None}],
         rec.pc \in {"stage", "insert", "bind", "complete", "abort"} => rec.t \in Token,
         rec.pc = "put" => rec.d \in Digest,
         rec.pc # "enter",
         handler' = [handler EXCEPT ![h] = rec]
  PROVE  Shape' /\ (sess' \in [Session -> SessionRec] => Locals')
<1>1. Shape'
  BY DEF Locals, Shape
<1>2. QED
  BY <1>1 DEF Locals

LEMMA StepKeepsLocals ==
  ASSUME TypedInv, NEW h \in Handler, Step(h) PROVE Locals'
<1>1. Locals /\ handler \in [Handler -> HandlerRec]
  BY Types, TypedParts DEF TypedInv
<1>2. handler[h] \in HandlerRec
  BY <1>1
<1>3. CASE PutBlob(h)
  BY <1>1, <1>3, ReturnKeeps DEF PutBlob, Locals
<1>4. CASE EnterRepo(h)
  <2>1. CASE Return(h)
    BY <1>1, <1>4, <2>1, ReturnKeeps DEF EnterRepo, Locals
  <2>2. ASSUME NEW s \in Session, handler' = [handler EXCEPT ![h].pc = "stage", ![h].s = s]
        PROVE  Locals'
    <3>1. DEFINE rec == [handler[h] EXCEPT !.pc = "stage", !.s = s]
    <3>2. handler' = [handler EXCEPT ![h] = rec]
      BY <1>1, <2>2
    <3>3. rec \in [pc : HandlerPC, s : Session, t : Token, d : Digest \cup {None}]
      BY <1>1, <1>2, <1>4 DEF EnterRepo, At, Locals, Shape, HandlerRec, HandlerPC
    <3>4. rec.pc = "stage"
      BY <1>2 DEF HandlerRec
    <3>5. QED
      BY <1>1, <1>4, <3>2, <3>3, <3>4, GoesOn DEF EnterRepo, At, Locals
  <2>3. QED
    BY <1>4, <2>1, <2>2 DEF EnterRepo
<1>5. CASE RefuseArguments(h)
  BY <1>1, <1>5, ReturnKeeps DEF RefuseArguments, Locals
<1>6. CASE StageDigest(h)
  <2>1. PICK d \in Digest \cup {None} : handler' = [handler EXCEPT ![h].pc = "insert", ![h].d = d]
    BY <1>6 DEF StageDigest
  <2>2. DEFINE rec == [handler[h] EXCEPT !.pc = "insert", !.d = d]
  <2>3. handler' = [handler EXCEPT ![h] = rec]
    BY <1>1, <2>1
  <2>4. rec \in [pc : HandlerPC, s : Session, t : Token, d : Digest \cup {None}]
    BY <1>1, <1>2, <1>6 DEF StageDigest, At, Locals, Shape, HandlerRec, HandlerPC
  <2>5. rec.pc = "insert"
    BY <1>2 DEF HandlerRec
  <2>6. QED
    BY <1>1, <1>6, <2>3, <2>4, <2>5, GoesOn DEF StageDigest, At, Locals
<1>7. CASE InsertSession(h)
  <2>1. sess' \in [Session -> SessionRec]
    BY <1>1, <1>2, <1>7 DEF InsertSession, Locals, SessionRec, NoSession, HandlerRec
  <2>2. DEFINE rec == [handler[h] EXCEPT !.pc = "bind", !.d = None]
  <2>3. handler' = [handler EXCEPT ![h] = rec]
    BY <1>1, <1>7 DEF InsertSession
  <2>4. rec \in [pc : HandlerPC, s : Session, t : Token, d : Digest \cup {None}]
    BY <1>1, <1>2, <1>7 DEF InsertSession, At, Locals, Shape, HandlerRec, HandlerPC
  <2>5. rec.pc = "bind"
    BY <1>2 DEF HandlerRec
  <2>6. QED
    BY <1>1, <1>7, <2>1, <2>3, <2>4, <2>5, GoesOn DEF InsertSession, At
<1>8. CASE BindToken(h)
  BY <1>1, <1>8, ReturnKeeps DEF BindToken, Locals
<1>9. CASE StoreChunk(h)
  <2>1. sess' \in [Session -> SessionRec]
    <3>1. CASE UNCHANGED sess
      BY <1>1, <3>1 DEF Locals
    <3>2. CASE ~UNCHANGED sess
      <4>1. PICK c \in Chunk : \E d \in Digest \cup {None} :
              sess' = [sess EXCEPT ![handler[h].s].chunks = sess[handler[h].s].chunks \cup {c},
                                   ![handler[h].s].content = d]
        <5>1. \A s \in Session : \A chunks : Contents(s, chunks) \subseteq Digest \cup {None}
          BY <1>1 DEF Contents, Locals, SessionRec
        <5>2. handler[h].s \in Session
          BY <1>1, <1>9 DEF StoreChunk, At, Locals, Shape
        <5>3. QED
          BY <1>9, <3>2, <5>1, <5>2 DEF StoreChunk
      <4>2. PICK d \in Digest \cup {None} :
              sess' = [sess EXCEPT ![handler[h].s].chunks = sess[handler[h].s].chunks \cup {c},
                                   ![handler[h].s].content = d]
        BY <4>1
      <4>3. handler[h].s \in Session
        BY <1>1, <1>9 DEF StoreChunk, At, Locals, Shape
      <4>4. sess[handler[h].s] \in SessionRec
        BY <1>1, <4>3 DEF Locals
      <4>5. [sess[handler[h].s] EXCEPT !.chunks = sess[handler[h].s].chunks \cup {c}, !.content = d]
              \in SessionRec
        BY <4>4 DEF SessionRec
      <4>6. QED
        BY <1>1, <4>2, <4>3, <4>4, <4>5 DEF Locals
    <3>3. QED
      BY <3>1, <3>2
  <2>2. QED
    BY <1>1, <1>9, <2>1, ReturnKeeps DEF StoreChunk
<1>10. CASE Authorize(h)
  <2>1. CASE Return(h)
    BY <1>1, <1>10, <2>1, ReturnKeeps DEF Authorize, Locals
  <2>2. CASE ~Return(h)
    <3>1. PICK pc \in {"assemble", "remove"} :
            handler' = [handler EXCEPT ![h].t = None, ![h].pc = pc]
      BY <1>10, <2>2 DEF Authorize
    <3>2. DEFINE rec == [handler[h] EXCEPT !.t = None, !.pc = pc]
    <3>3. handler' = [handler EXCEPT ![h] = rec]
      BY <1>1, <3>1
    <3>4. rec \in [pc : HandlerPC, s : Session, t : {None}, d : Digest \cup {None}]
      BY <1>1, <1>2, <1>10 DEF Authorize, Locals, Shape, HandlerRec, HandlerPC
    <3>5. rec.pc = pc
      BY <1>2 DEF HandlerRec
    <3>6. QED
      BY <1>1, <1>10, <3>3, <3>4, <3>5, GoesOn DEF Authorize, At, Locals
  <2>3. QED
    BY <2>1, <2>2
<1>11. CASE AbortSession(h)
  <2>1. sess' \in [Session -> SessionRec]
    BY <1>1, <1>11 DEF AbortSession, Locals, SessionRec, NoSession
  <2>2. QED
    BY <1>1, <1>11, <2>1, ReturnKeeps DEF AbortSession
<1>12. CASE Assemble(h)
  <2>1. CASE Return(h)
    BY <1>1, <1>12, <2>1, ReturnKeeps DEF Assemble, Locals
  <2>2. CASE ~Return(h)
    <3>1. /\ Assembles(handler[h].s)
          /\ handler' = [handler EXCEPT ![h].pc = "put", ![h].d = sess[handler[h].s].content]
      BY <1>12, <2>2 DEF Assemble
    <3>2. handler[h].s \in Session
      BY <1>1, <1>12 DEF Assemble, At, Locals, Shape
    <3>3. sess[handler[h].s].content \in Digest
      BY <1>1, <3>1, <3>2 DEF Assembles, Locals, SessionRec
    <3>4. DEFINE rec == [handler[h] EXCEPT !.pc = "put", !.d = sess[handler[h].s].content]
    <3>5. handler' = [handler EXCEPT ![h] = rec]
      BY <1>1, <3>1
    <3>6. rec \in [pc : HandlerPC, s : Session, t : Token \cup {None}, d : Digest]
      BY <1>2, <3>2, <3>3 DEF HandlerRec, HandlerPC
    <3>7. rec.pc = "put"
      BY <1>2 DEF HandlerRec
    <3>8. QED
      BY <1>1, <1>12, <3>5, <3>6, <3>7, GoesOn DEF Assemble, At, Locals
  <2>3. QED
    BY <2>1, <2>2
<1>13. CASE PutAssembled(h)
  <2>1. DEFINE rec == [handler[h] EXCEPT !.pc = "finish", !.d = None]
  <2>2. handler' = [handler EXCEPT ![h] = rec]
    BY <1>1, <1>13 DEF PutAssembled
  <2>3. rec \in [pc : HandlerPC, s : Session, t : Token \cup {None}, d : Digest \cup {None}]
    BY <1>1, <1>2, <1>13 DEF PutAssembled, At, Locals, Shape, HandlerRec, HandlerPC
  <2>4. rec.pc = "finish"
    BY <1>2 DEF HandlerRec
  <2>5. QED
    BY <1>1, <1>13, <2>2, <2>3, <2>4, GoesOn DEF PutAssembled, At, Locals
<1>14. CASE FinishComplete(h)
  <2>1. sess' \in [Session -> SessionRec]
    BY <1>1, <1>14 DEF FinishComplete, Locals, SessionRec
  <2>2. QED
    BY <1>1, <1>14, <2>1, ReturnKeeps DEF FinishComplete
<1>15. QED
  BY <1>3, <1>4, <1>5, <1>6, <1>7, <1>8, <1>9, <1>10, <1>11, <1>12, <1>13, <1>14 DEF Step

LEMMA StepKeepsStores ==
  ASSUME TypedInv, NEW h \in Handler, Step(h)
  PROVE  B!TypeOK' /\ A!TypeOK' /\ RepoTyped'
<1>1. B!TypeOK /\ A!TypeOK /\ RepoTyped /\ Shape
  BY TypedParts DEF TypedInv
<1>2. B!TypeOK'
  <2>1. CASE UNCHANGED blobVars
    BY <1>1, <2>1, BlobOpsType
  <2>2. CASE PutBlob(h)
    BY <1>1, <2>2, BlobOpsType DEF PutBlob
  <2>3. CASE StageDigest(h)
    BY <1>1, <2>1, <2>3, BlobOpsType DEF StageDigest, TypedInv, TypeOK, Shape, At
  <2>4. CASE PutAssembled(h)
    BY <1>1, <2>4, BlobOpsType DEF PutAssembled, Shape, At
  <2>5. QED
    BY <2>1, <2>2, <2>3, <2>4 DEF Step, EnterRepo, RefuseArguments, InsertSession, BindToken,
       StoreChunk, Authorize, AbortSession, Assemble, FinishComplete
<1>3. A!TypeOK'
  <2>1. CASE UNCHANGED authVars
    BY <1>1, <2>1, AuthOpsType
  <2>2. CASE BindToken(h)
    BY <1>1, <2>2, AuthOpsType DEF BindToken, Shape, At
  <2>3. QED
    BY <2>1, <2>2 DEF Step, PutBlob, EnterRepo, RefuseArguments, StageDigest, InsertSession,
       StoreChunk, Authorize, AbortSession, Assemble, PutAssembled, FinishComplete
<1>4. RepoTyped'
  <2>1. CASE UNCHANGED repoVars
    BY <1>1, <2>1, RepoOpsType
  <2>2. CASE EnterRepo(h)
    BY <1>1, <2>1, <2>2, RepoOpsType DEF EnterRepo
  <2>3. CASE RefuseArguments(h) \/ AbortSession(h) \/ FinishComplete(h)
    BY <1>1, <2>1, <2>3, RepoOpsType DEF RefuseArguments, AbortSession, FinishComplete, repoVars
  <2>4. QED
    BY <2>1, <2>2, <2>3 DEF Step, PutBlob, StageDigest, InsertSession, BindToken,
       StoreChunk, Authorize, Assemble, PutAssembled
<1>5. QED
  BY <1>2, <1>3, <1>4

LEMMA TypedNext == TypedInv /\ [Next]_vars => TypedInv'
<1>1. SUFFICES ASSUME TypedInv, [Next]_vars PROVE TypedInv'
  OBVIOUS
<1>2. B!TypeOK /\ A!TypeOK /\ RepoTyped /\ Locals
  BY <1>1, TypedParts
<1>3. UNCHANGED blobVars => B!TypeOK'
  BY <1>2, BlobOpsType
<1>4. UNCHANGED authVars => A!TypeOK'
  BY <1>2, AuthOpsType
<1>5. UNCHANGED repoVars => RepoTyped'
  BY <1>2, RepoOpsType
<1>6. UNCHANGED <<sess, handler>> => Locals'
  BY <1>2 DEF Locals, Shape
<1>7. ReleasedTyped'
  <2>1. CASE UNCHANGED released
    BY <1>1, <2>1 DEF TypedInv, TypeOK, ReleasedTyped
  <2>2. CASE \E d \in Digest : Release(d)
    BY <1>1, <2>2 DEF Release, TypedInv, TypeOK, ReleasedTyped
  <2>3. QED
    BY <1>1, <2>1, <2>2 DEF Next, IssueToken, ExpireToken, RenewToken, CreateRepo, DeleteRepo, Collect,
       vars
<1>8. SUFFICES B!TypeOK' /\ A!TypeOK' /\ RepoTyped' /\ Locals'
  BY <1>7, TypedParts DEF TypedInv, TypeOK, RepoTyped, Locals, ReleasedTyped, SessionRec
<1>9. ASSUME NEW h \in Handler, Step(h) PROVE B!TypeOK' /\ A!TypeOK' /\ RepoTyped' /\ Locals'
  BY <1>1, <1>9, StepKeepsStores, StepKeepsLocals
<1>10. ASSUME NEW h \in Handler, NEW t \in Token, NEW s \in Session \cup {None},
             \/ BeginPushBlob(h, t) \/ BeginCreate(h, t)
             \/ (s \in Session /\ (BeginChunk(h, t, s) \/ BeginComplete(h, t, s)))
      PROVE  B!TypeOK' /\ A!TypeOK' /\ RepoTyped' /\ Locals'
  <2>1. UNCHANGED <<blobVars, repoVars, authVars>>
    BY <1>10 DEF BeginPushBlob, BeginCreate, BeginChunk, BeginComplete
  <2>2. {"blob", "enter", "chunk", "complete", "abort"} \subseteq HandlerPC
    BY DEF HandlerPC
  <2>3. CASE BeginPushBlob(h, t) \/ BeginCreate(h, t)
    BY <1>2, <1>3, <1>4, <1>5, <2>1, <2>2, <2>3, BeginKeeps
       DEF BeginPushBlob, BeginCreate, blobVars, repoVars, authVars
  <2>4. CASE s \in Session /\ (BeginChunk(h, t, s) \/ BeginComplete(h, t, s))
    <3>1. PICK pc \in {"chunk", "complete", "abort"} :
            Begin(h, pc, s, t) \/ (pc = "chunk" /\ Begin(h, pc, s, None))
      BY <2>4 DEF BeginChunk, BeginComplete
    <3>2. Locals'
      BY <1>2, <1>10, <2>2, <2>4, <3>1, BeginKeeps DEF BeginChunk, BeginComplete
    <3>3. QED
      BY <1>3, <1>4, <1>5, <2>1, <3>2 DEF blobVars, repoVars, authVars
  <2>5. QED
    BY <1>10, <2>3, <2>4
<1>11. ASSUME NEW t \in Token, IssueToken(t) \/ ExpireToken(t)
       PROVE  B!TypeOK' /\ A!TypeOK' /\ RepoTyped' /\ Locals'
  BY <1>2, <1>3, <1>5, <1>6, <1>11, AuthOpsType DEF IssueToken, ExpireToken, blobVars, repoVars
<1>12. ASSUME NEW old \in Token, NEW t \in Token, RenewToken(old, t)
       PROVE  B!TypeOK' /\ A!TypeOK' /\ RepoTyped' /\ Locals'
  BY <1>2, <1>3, <1>5, <1>6, <1>12, AuthOpsType DEF RenewToken, blobVars, repoVars
<1>13. CASE CreateRepo \/ DeleteRepo
  BY <1>2, <1>3, <1>4, <1>6, <1>13, RepoOpsType DEF CreateRepo, DeleteRepo, blobVars, authVars
<1>14. CASE Collect
  BY <1>2, <1>4, <1>5, <1>6, <1>14, BlobOpsType DEF Collect, authVars, repoVars
<1>15. ASSUME NEW d \in Digest, Release(d) PROVE B!TypeOK' /\ A!TypeOK' /\ RepoTyped' /\ Locals'
  BY <1>2, <1>4, <1>5, <1>6, <1>15, BlobOpsType DEF Release, authVars, repoVars
<1>16. CASE UNCHANGED vars
  BY <1>3, <1>4, <1>5, <1>6, <1>16 DEF vars, blobVars, repoVars, authVars
<1>17. QED
  BY <1>1, <1>9, <1>10, <1>11, <1>12, <1>13, <1>14, <1>16, <1>15 DEF Next

\* The handlers, the session manager and the three stores keep their types.
THEOREM TypeCorrect == Spec => []TypeOK
<1>1. TypedInv => TypeOK
  BY DEF TypedInv
<1>2. QED
  BY <1>1, TypedInit, TypedNext, PTL DEF Spec

----------------------------------------------------------------------------
(* A session that is being set up belongs to one handler, and no token     *)
(* names it.                                                               *)

SettingUp == {"stage", "insert", "bind"}

Known(s) == sess[s].state # "none"

OwnSession == \A h, i \in Handler :
  /\ handler[h].pc \in SettingUp /\ handler[i].pc \in SettingUp /\ handler[h].s = handler[i].s => h = i
  /\ handler[h].pc \in {"stage", "insert"} => sess[handler[h].s] = NoSession
  /\ handler[h].pc = "bind" => Known(handler[h].s)

BoundKnown == \A t \in Token : bound[t] # None =>
  /\ Known(bound[t])
  /\ \A h \in Handler : handler[h].pc \in SettingUp => handler[h].s # bound[t]

SetupInv == OwnSession /\ BoundKnown

LEMMA SetupInit == Init => SetupInv
BY DEF Init, A!Init, SetupInv, OwnSession, BoundKnown, SettingUp, HandlerIdle

\* A chunk that is taken changes the chunks and the content of its session.
LEMMA ChunkStored ==
  ASSUME TypedInv, NEW h \in Handler, StoreChunk(h), ~UNCHANGED sess
  PROVE  LET s == handler[h].s IN
         /\ s \in Session /\ sess[s].state = "uploading"
         /\ \A x \in Session : x # s => sess'[x] = sess[x]
         /\ \E c \in Chunk \ sess[s].chunks :
              /\ sess'[s].chunks = sess[s].chunks \cup {c}
              /\ sess'[s].content \in Contents(s, sess[s].chunks \cup {c})
         /\ sess'[s].state = sess[s].state /\ sess'[s].expected = sess[s].expected
<1>. DEFINE s == handler[h].s
<1>1. sess \in [Session -> SessionRec] /\ s \in Session
  BY Types DEF TypedInv, Shape, StoreChunk, At
<1>2. PICK c \in Chunk \ sess[s].chunks : \E d \in Contents(s, sess[s].chunks \cup {c}) :
        sess' = [sess EXCEPT ![s].chunks = sess[s].chunks \cup {c}, ![s].content = d]
  BY DEF StoreChunk
<1>3. PICK d \in Contents(s, sess[s].chunks \cup {c}) :
        sess' = [sess EXCEPT ![s].chunks = sess[s].chunks \cup {c}, ![s].content = d]
  BY <1>2
<1>4. sess[s] \in SessionRec
  BY <1>1
<1>5. sess'[s] = [sess[s] EXCEPT !.chunks = sess[s].chunks \cup {c}, !.content = d]
  BY <1>1, <1>3
<1>6. /\ sess'[s].chunks = sess[s].chunks \cup {c} /\ sess'[s].content = d
      /\ sess'[s].state = sess[s].state /\ sess'[s].expected = sess[s].expected
  BY <1>4, <1>5 DEF SessionRec
<1>7. sess[s].state = "uploading"
  BY DEF StoreChunk
<1>8. \A x \in Session : x # s => sess'[x] = sess[x]
  BY <1>1, <1>3
<1>9. QED
  BY <1>1, <1>6, <1>7, <1>8

\* What a step of a handler does to the sessions.
LEMMA SessionSteps ==
  ASSUME TypedInv, NEW h \in Handler, Step(h), ~InsertSession(h), NEW s \in Session
  PROVE  sess'[s] = sess[s] \/ (Known(s) /\ Known(s)')
<1>1. sess \in [Session -> SessionRec]
  BY Types DEF TypedInv
<1>2. CASE UNCHANGED sess
  BY <1>2
<1>3. CASE StoreChunk(h)
  BY <1>2, <1>3, ChunkStored DEF Known
<1>4. CASE AbortSession(h)
  <2>1. CASE ~Present(handler[h].s)
    BY <1>4, <2>1 DEF AbortSession
  <2>2. CASE Present(handler[h].s)
    <3>1. sess' = [sess EXCEPT ![handler[h].s] = [NoSession EXCEPT !.state = "removed"]]
      BY <1>4, <2>2 DEF AbortSession
    <3>2. [NoSession EXCEPT !.state = "removed"].state = "removed"
      BY DEF NoSession
    <3>3. QED
      BY <1>1, <2>2, <3>1, <3>2 DEF Known, Present
  <2>3. QED
    BY <2>1, <2>2
<1>5. CASE FinishComplete(h)
  BY <1>1, <1>5 DEF FinishComplete, Known, Present, SessionRec
<1>6. QED
  BY <1>2, <1>3, <1>4, <1>5 DEF Step, PutBlob, EnterRepo, RefuseArguments, StageDigest, InsertSession,
     BindToken, Authorize, Assemble, PutAssembled

\* Handlers that are not setting a session up, or no longer, disturb nothing.
LEMMA OthersKeepSetup ==
  ASSUME TypedInv, SetupInv, NEW h \in Handler, UNCHANGED bound,
         \A i \in Handler : i # h => handler'[i] = handler[i],
         handler'[h].pc \in SettingUp =>
           /\ handler'[h].s = handler[h].s
           /\ handler'[h].pc \in {"stage", "insert"} /\ handler[h].pc \in {"stage", "insert"},
         \A s \in Session : sess'[s] = sess[s] \/ (Known(s) /\ Known(s)')
  PROVE  SetupInv'
<1>1. \A i \in Handler : handler[i].pc \in SettingUp => handler[i].s \in Session
  BY DEF TypedInv, Shape, SettingUp
<1>2. OwnSession'
  <2>1. SUFFICES ASSUME NEW i \in Handler, NEW j \in Handler
                 PROVE  /\ handler'[i].pc \in SettingUp /\ handler'[j].pc \in SettingUp
                             /\ handler'[i].s = handler'[j].s => i = j
                        /\ handler'[i].pc \in {"stage", "insert"} => sess'[handler'[i].s] = NoSession
                        /\ handler'[i].pc = "bind" => Known(handler[i].s)' /\ i # h
    BY DEF OwnSession
  <2>2. \A k \in Handler : handler'[k].pc \in SettingUp =>
          /\ handler[k].pc \in SettingUp /\ handler'[k].s = handler[k].s
          /\ handler'[k].pc \in {"stage", "insert"} <=> handler[k].pc \in {"stage", "insert"}
    BY DEF SettingUp
  <2>3. \A x \in Session : /\ sess[x] = NoSession => sess'[x] = NoSession
                           /\ Known(x) => Known(x)'
    BY DEF Known, NoSession
  <2>4. QED
    BY <1>1, <2>2, <2>3 DEF SetupInv, OwnSession, SettingUp
<1>3. BoundKnown'
  BY <1>1, NoneAssumption DEF TypedInv, TypeOK, A!TypeOK, SetupInv, BoundKnown, SettingUp, Known
<1>4. QED
  BY <1>2, <1>3 DEF SetupInv

LEMMA StepKeepsSetup ==
  ASSUME TypedInv, SetupInv, NEW h \in Handler, Step(h)
  PROVE  SetupInv'
<1>1. handler \in [Handler -> HandlerRec] /\ sess \in [Session -> SessionRec]
  BY Types DEF TypedInv
<1>2. \A i \in Handler : handler[i].pc \in SettingUp => handler[i].s \in Session
  BY DEF TypedInv, Shape, SettingUp
<1>3. CASE EnterRepo(h)
  <2>1. CASE Return(h)
    BY <1>1, <1>3, <2>1, OthersKeepSetup DEF EnterRepo, Return, HandlerIdle, SettingUp, authVars
  <2>2. ASSUME NEW s \in Session, Fresh(s),
               handler' = [handler EXCEPT ![h].pc = "stage", ![h].s = s]
        PROVE  SetupInv'
    <3>1. /\ \A i \in Handler : i # h => handler'[i] = handler[i] /\ handler[i].s # s
          /\ handler'[h].pc = "stage" /\ handler'[h].s = s
      BY <1>1, <2>2 DEF Fresh, HandlerRec
    <3>2. sess[s] = NoSession /\ UNCHANGED <<sess, bound>>
      BY <1>3, <2>2 DEF Fresh, EnterRepo, authVars
    <3>3. OwnSession'
      BY <1>2, <3>1, <3>2 DEF SetupInv, OwnSession, SettingUp, Known
    <3>4. \A t \in Token : bound[t] # s
      BY <2>2, <3>2, NoneAssumption DEF SetupInv, BoundKnown, Known, NoSession
    <3>5. BoundKnown'
      BY <3>1, <3>2, <3>4 DEF SetupInv, BoundKnown, SettingUp, Known
    <3>6. QED
      BY <3>3, <3>5 DEF SetupInv
  <2>3. QED
    BY <1>3, <2>1, <2>2 DEF EnterRepo
<1>4. CASE InsertSession(h)
  <2>1. DEFINE s == handler[h].s
  <2>2. s \in Session /\ handler[h].pc = "insert"
    BY <1>2, <1>4 DEF InsertSession, At, SettingUp
  <2>3. /\ \A i \in Handler : i # h => handler'[i] = handler[i]
        /\ handler'[h].pc = "bind" /\ handler'[h].s = s
    BY <1>1, <1>4 DEF InsertSession, HandlerRec
  <2>4. Known(s)' /\ \A x \in Session : x # s => sess'[x] = sess[x]
    BY <1>1, <1>4, <2>2 DEF InsertSession, Known, NoSession
  <2>5. bound' = bound
    BY <1>4 DEF InsertSession, authVars
  <2>6. OwnSession'
    BY <1>2, <2>2, <2>3, <2>4 DEF SetupInv, OwnSession, SettingUp, Known
  <2>7. BoundKnown'
    BY <2>2, <2>3, <2>4, <2>5, NoneAssumption
       DEF TypedInv, TypeOK, A!TypeOK, SetupInv, BoundKnown, SettingUp, Known
  <2>8. QED
    BY <2>6, <2>7 DEF SetupInv
<1>5. CASE BindToken(h)
  <2>1. /\ \A i \in Handler : i # h => handler'[i] = handler[i]
        /\ handler'[h].pc = "idle" /\ handler[h].pc = "bind" /\ UNCHANGED sess
    BY <1>1, <1>5 DEF BindToken, Return, HandlerIdle, At
  <2>2. handler[h].s \in Session /\ handler[h].t \in Token
    BY <2>1 DEF TypedInv, Shape
  <2>3. bound' = [bound EXCEPT ![handler[h].t] = handler[h].s]
    BY <1>5 DEF BindToken, A!Bind
  <2>4. OwnSession'
    BY <2>1 DEF SetupInv, OwnSession, SettingUp, Known
  <2>5. BoundKnown'
    BY <2>1, <2>2, <2>3 DEF TypedInv, TypeOK, A!TypeOK, SetupInv, OwnSession, BoundKnown, SettingUp, Known
  <2>6. QED
    BY <2>4, <2>5 DEF SetupInv
<1>6. CASE ~EnterRepo(h) /\ ~InsertSession(h) /\ ~BindToken(h)
  <2>1. \A i \in Handler : i # h => handler'[i] = handler[i]
    BY <1>1, <1>6 DEF Step, PutBlob, RefuseArguments, StageDigest, Return, StoreChunk, Authorize,
       AbortSession, Assemble, PutAssembled, FinishComplete
  <2>2. handler'[h].pc \in SettingUp =>
           /\ handler'[h].s = handler[h].s
           /\ handler'[h].pc \in {"stage", "insert"} /\ handler[h].pc \in {"stage", "insert"}
    BY <1>1, <1>6 DEF Step, PutBlob, RefuseArguments, StageDigest, Return, StoreChunk, Authorize,
       AbortSession, Assemble, PutAssembled, FinishComplete, HandlerIdle, SettingUp, At, HandlerRec
  <2>3. UNCHANGED bound
    BY <1>6 DEF Step, PutBlob, RefuseArguments, StageDigest, StoreChunk, Authorize,
       AbortSession, Assemble, PutAssembled, FinishComplete, authVars
  <2>4. QED
    BY <1>6, <2>1, <2>2, <2>3, SessionSteps, OthersKeepSetup
<1>7. QED
  BY <1>3, <1>4, <1>5, <1>6

\* The requests that arrive.
Begins(h) == \E t \in Token, s \in Session \cup {None} :
  \/ BeginPushBlob(h, t)
  \/ BeginCreate(h, t)
  \/ s \in Session /\ (BeginChunk(h, t, s) \/ BeginComplete(h, t, s))

LEMMA BeginsChange ==
  ASSUME TypedInv, NEW h \in Handler, Begins(h)
  PROVE  /\ UNCHANGED <<blobVars, repoVars, authVars, sess>>
         /\ \A i \in Handler : i # h => handler'[i] = handler[i]
         /\ handler[h].pc = "idle"
         /\ handler'[h].pc \in {"blob", "enter", "chunk", "complete", "abort"}
<1>1. handler \in [Handler -> HandlerRec]
  BY Types DEF TypedInv
<1>2. PICK t \in Token, s \in Session \cup {None} :
        \/ BeginPushBlob(h, t)
        \/ BeginCreate(h, t)
        \/ s \in Session /\ (BeginChunk(h, t, s) \/ BeginComplete(h, t, s))
  BY DEF Begins
<1>3. PICK pc \in {"blob", "enter", "chunk", "complete", "abort"},
          x \in Session \cup {None}, y \in Token \cup {None} : Begin(h, pc, x, y)
  BY <1>2 DEF BeginPushBlob, BeginCreate, BeginChunk, BeginComplete
<1>4. QED
  BY <1>1, <1>2, <1>3 DEF Begin, At, BeginPushBlob, BeginCreate, BeginChunk, BeginComplete,
     blobVars, repoVars, authVars

\* What happens around the handlers leaves them and the sessions alone.
Around ==
  \/ \E t \in Token : IssueToken(t) \/ ExpireToken(t)
  \/ \E old, t \in Token : RenewToken(old, t)
  \/ CreateRepo \/ DeleteRepo \/ Collect \/ UNCHANGED vars
  \/ \E d \in Digest : Release(d)

LEMMA AroundChange == Around => UNCHANGED <<sess, handler>>
BY DEF Around, IssueToken, ExpireToken, RenewToken, CreateRepo, DeleteRepo, Collect, Release, vars

LEMMA NextCases ==
  ASSUME [Next]_vars
  PROVE  \/ UNCHANGED released /\ \E h \in Handler : Step(h) \/ Begins(h)
         \/ Around
<1>1. ASSUME NEW h \in Handler,
             \/ \E t \in Token : BeginPushBlob(h, t) \/ BeginCreate(h, t)
             \/ \E t \in Token, s \in Session : BeginChunk(h, t, s) \/ BeginComplete(h, t, s)
      PROVE  Begins(h)
  BY <1>1 DEF Begins
<1>2. QED
  BY <1>1 DEF Next, Around

LEMMA SetupNext == TypedInv /\ SetupInv /\ [Next]_vars => SetupInv'
<1>1. SUFFICES ASSUME TypedInv, SetupInv, [Next]_vars PROVE SetupInv'
  OBVIOUS
<1>2. ASSUME NEW h \in Handler, Begins(h) PROVE SetupInv'
  BY <1>1, <1>2, BeginsChange, OthersKeepSetup DEF SettingUp, authVars
<1>3. CASE Around
  <2>1. OwnSession'
    BY <1>1, <1>3, AroundChange DEF SetupInv, OwnSession, Known
  <2>2. ASSUME NEW t \in Token, bound'[t] # None
        PROVE  \E old \in Token : bound[old] = bound'[t]
    <3>1. CASE UNCHANGED bound
      BY <2>2, <3>1
    <3>2. CASE \E x \in Token : IssueToken(x)
      BY <1>1, <2>2, <3>2 DEF IssueToken, A!Issue, A!New, TypedInv, TypeOK, A!TypeOK
    <3>3. CASE \E old, x \in Token : RenewToken(old, x)
      BY <1>1, <2>2, <3>3 DEF RenewToken, A!Renew, A!New, TypedInv, TypeOK, A!TypeOK
    <3>4. QED
      BY <1>3, <3>1, <3>2, <3>3 DEF Around, ExpireToken, A!Expire, CreateRepo, DeleteRepo, Collect, Release,
         vars, authVars
  <2>3. BoundKnown'
    BY <1>1, <1>3, <2>2, AroundChange DEF SetupInv, BoundKnown, Known
  <2>4. QED
    BY <2>1, <2>3 DEF SetupInv
<1>4. QED
  BY <1>1, <1>2, <1>3, NextCases, StepKeepsSetup

----------------------------------------------------------------------------
(* Bindings: a session that is bound for the first time is bound by nobody *)
(* else, and a renewal is of the family that owns the session.             *)

LEMMA BindingsInit == Init => BindingsAgree
BY DEF Init, A!Init, BindingsAgree

LEMMA BindingsNext == TypedInv /\ SetupInv /\ BindingsAgree /\ [Next]_vars => BindingsAgree'
<1>1. SUFFICES ASSUME TypedInv, SetupInv, BindingsAgree, [Next]_vars PROVE BindingsAgree'
  OBVIOUS
<1>. USE DEF TypedInv, TypeOK, A!TypeOK
<1>2. CASE UNCHANGED authVars
  BY <1>1, <1>2 DEF BindingsAgree, authVars
<1>3. ASSUME NEW h \in Handler, BindToken(h) PROVE BindingsAgree'
  <2>1. handler[h].pc = "bind" /\ handler[h].s \in Session /\ handler[h].t \in Token
    BY <1>1, <1>3 DEF BindToken, At, Shape
  <2>2. \A t \in Token : bound[t] # handler[h].s
    BY <1>1, <2>1, NoneAssumption DEF SetupInv, BoundKnown, SettingUp
  <2>3. QED
    BY <1>1, <1>3, <2>1, <2>2 DEF BindToken, A!Bind, BindingsAgree
<1>4. ASSUME NEW t \in Token, IssueToken(t) PROVE BindingsAgree'
  BY <1>1, <1>4 DEF IssueToken, A!Issue, A!New, BindingsAgree
<1>5. ASSUME NEW t \in Token, ExpireToken(t) PROVE BindingsAgree'
  BY <1>1, <1>5 DEF ExpireToken, A!Expire, BindingsAgree
<1>6. ASSUME NEW old \in Token, NEW t \in Token, RenewToken(old, t) PROVE BindingsAgree'
  <2>1. old # t /\ family' = [family EXCEPT ![t] = family[old]]
          /\ bound' = [bound EXCEPT ![t] = bound[old]]
    BY <1>6 DEF RenewToken, A!Renew, A!New, A!Known
  <2>2. owner' = owner
    BY <1>1, <1>6 DEF RenewToken, A!Renew, A!New, BindingsAgree
  <2>3. QED
    BY <1>1, <2>1, <2>2 DEF BindingsAgree
<1>7. QED
  <2>1. ASSUME NEW h \in Handler, Step(h), ~BindToken(h) PROVE UNCHANGED authVars
    BY <2>1 DEF Step, PutBlob, EnterRepo, RefuseArguments, StageDigest, InsertSession,
       StoreChunk, Authorize, AbortSession, Assemble, PutAssembled, FinishComplete
  <2>2. ASSUME NEW h \in Handler, Begins(h) PROVE UNCHANGED authVars
    BY <1>1, <2>2, BeginsChange
  <2>3. QED
    BY <1>1, <1>2, <1>3, <1>4, <1>5, <1>6, <2>1, <2>2, NextCases
       DEF Around, CreateRepo, DeleteRepo, Collect, Release, vars

\* Every binding names a session of the token's own family.
THEOREM BindingsStayInFamily == Spec => []BindingsAgree
BY TypedInit, TypedNext, SetupInit, SetupNext, BindingsInit, BindingsNext, PTL DEF Spec

----------------------------------------------------------------------------
(* Owners: a session gets its owner when it is bound for the first time,   *)
(* and nothing binds it again; a renewal writes the owner that is there.   *)

OwnedKnown == \A s \in Session : owner[s] # None =>
  /\ Known(s)
  /\ \A h \in Handler : handler[h].pc \in SettingUp => handler[h].s # s

LEMMA OwnedInit == Init => OwnedKnown
BY DEF Init, A!Init, OwnedKnown

LEMMA KnownStays ==
  ASSUME TypedInv, [Next]_vars, NEW s \in Session, Known(s)
  PROVE  Known(s)'
<1>1. ASSUME NEW h \in Handler, Step(h) PROVE Known(s)'
  <2>1. CASE InsertSession(h)
    <3>1. sess \in [Session -> SessionRec] /\ handler[h].s \in Session
      BY <2>1, Types DEF TypedInv, Shape, InsertSession, At
    <3>2. QED
      BY <2>1, <3>1 DEF InsertSession, Known, NoSession
  <2>2. CASE ~InsertSession(h)
    BY <1>1, <2>2, SessionSteps DEF Known
  <2>3. QED
    BY <2>1, <2>2
<1>2. ASSUME NEW h \in Handler, Begins(h) PROVE Known(s)'
  BY <1>2, BeginsChange DEF Known
<1>3. QED
  BY <1>1, <1>2, AroundChange, NextCases DEF Known

\* Whoever is setting a session up has been, or has just drawn a fresh one.
LEMMA SettingUpStays ==
  ASSUME TypedInv, [Next]_vars, NEW i \in Handler, handler'[i].pc \in SettingUp
  PROVE  \/ handler[i].pc \in SettingUp /\ handler'[i].s = handler[i].s
         \/ handler'[i].s \in Session /\ Fresh(handler'[i].s)
<1>1. handler \in [Handler -> HandlerRec]
  BY Types DEF TypedInv
<1>2. ASSUME NEW h \in Handler, Step(h), i # h PROVE handler'[i] = handler[i]
  BY <1>1, <1>2 DEF Step, PutBlob, EnterRepo, RefuseArguments, StageDigest, InsertSession, BindToken,
     Return, StoreChunk, Authorize, AbortSession, Assemble, PutAssembled, FinishComplete
<1>3. CASE Step(i)
  <2>1. ~Return(i)
    BY <1>1 DEF Return, HandlerIdle, SettingUp
  <2>2. CASE EnterRepo(i)
    <3>1. PICK s \in Session : Fresh(s) /\ handler' = [handler EXCEPT ![i].pc = "stage", ![i].s = s]
      BY <2>1, <2>2 DEF EnterRepo
    <3>2. handler[i] \in HandlerRec
      BY <1>1
    <3>3. handler'[i].s = s
      BY <1>1, <3>1, <3>2 DEF HandlerRec
    <3>4. QED
      BY <3>1, <3>3
  <2>3. CASE StageDigest(i) \/ InsertSession(i)
    BY <1>1, <2>3 DEF StageDigest, InsertSession, At, SettingUp, HandlerRec
  <2>4. CASE Authorize(i) \/ Assemble(i) \/ PutAssembled(i)
    <3>1. PICK pc \in HandlerPC \ SettingUp : handler'[i].pc = pc
      BY <1>1, <2>1, <2>4 DEF Authorize, Assemble, PutAssembled, HandlerPC, SettingUp, HandlerRec
    <3>2. QED
      BY <3>1
  <2>5. QED
    BY <1>3, <2>1, <2>2, <2>3, <2>4 DEF Step, PutBlob, RefuseArguments, BindToken, StoreChunk,
       AbortSession, FinishComplete
<1>4. ASSUME NEW h \in Handler, Begins(h) PROVE i # h /\ handler'[i] = handler[i]
  BY <1>4, BeginsChange DEF SettingUp
<1>5. QED
  BY <1>2, <1>3, <1>4, AroundChange, NextCases

\* Only the end of a creation writes an owner that was not there.
LEMMA OwnersChange ==
  ASSUME TypedInv, BindingsAgree, [Next]_vars
  PROVE  UNCHANGED owner \/ \E h \in Handler : BindToken(h)
<1>. USE DEF TypedInv, TypeOK, A!TypeOK
<1>1. ASSUME NEW t \in Token, IssueToken(t) PROVE UNCHANGED owner
  BY <1>1 DEF IssueToken, A!Issue, A!New
<1>2. ASSUME NEW old \in Token, NEW t \in Token, RenewToken(old, t) PROVE UNCHANGED owner
  BY <1>2 DEF RenewToken, A!Renew, A!New, BindingsAgree
<1>3. ASSUME NEW t \in Token, ExpireToken(t) PROVE UNCHANGED owner
  BY <1>3 DEF ExpireToken, A!Expire
<1>4. ASSUME NEW h \in Handler, Step(h), ~BindToken(h) PROVE UNCHANGED owner
  BY <1>4 DEF Step, PutBlob, EnterRepo, RefuseArguments, StageDigest, InsertSession,
     StoreChunk, Authorize, AbortSession, Assemble, PutAssembled, FinishComplete, authVars
<1>5. ASSUME NEW h \in Handler, Begins(h) PROVE UNCHANGED owner
  BY <1>5, BeginsChange DEF authVars
<1>6. QED
  BY <1>1, <1>2, <1>3, <1>4, <1>5, NextCases DEF Around, CreateRepo, DeleteRepo, Collect, Release, vars, authVars

\* The session a creation binds has no owner yet.
LEMMA BindsUnowned ==
  ASSUME TypedInv, SetupInv, OwnedKnown, NEW h \in Handler, BindToken(h)
  PROVE  /\ handler[h].s \in Session /\ owner[handler[h].s] = None
         /\ handler[h].pc = "bind" /\ handler'[h].pc = "idle"
         /\ \A s \in Session : s # handler[h].s => owner'[s] = owner[s]
<1>1. handler[h].pc = "bind" /\ handler[h].s \in Session /\ handler[h].t \in Token
  BY DEF BindToken, At, TypedInv, Shape
<1>2. handler'[h].pc = "idle"
  BY Types DEF TypedInv, BindToken, Return, HandlerIdle
<1>3. QED
  BY <1>1, <1>2 DEF BindToken, A!Bind, OwnedKnown, SettingUp, TypedInv, TypeOK, A!TypeOK

LEMMA OwnedNext ==
  TypedInv /\ SetupInv /\ SetupInv' /\ BindingsAgree /\ OwnedKnown /\ [Next]_vars => OwnedKnown'
<1>1. SUFFICES ASSUME TypedInv, SetupInv, SetupInv', BindingsAgree, OwnedKnown, [Next]_vars,
                      NEW s \in Session, owner'[s] # None
               PROVE  Known(s)' /\ \A i \in Handler : handler'[i].pc \in SettingUp => handler'[i].s # s
  BY DEF OwnedKnown
<1>2. CASE owner[s] # None
  <2>1. Known(s) /\ Known(s)'
    BY <1>1, <1>2, KnownStays DEF OwnedKnown
  <2>2. ~Fresh(s)
    BY <2>1 DEF Fresh, Known, NoSession
  <2>3. QED
    BY <1>1, <1>2, <2>1, <2>2, SettingUpStays DEF OwnedKnown
<1>3. CASE owner[s] = None
  <2>1. PICK h \in Handler : BindToken(h)
    BY <1>1, <1>3, OwnersChange
  <2>2. handler[h].s = s /\ handler[h].pc = "bind" /\ handler'[h].pc = "idle"
    BY <1>1, <1>3, <2>1, BindsUnowned
  <2>3. Known(s)
    BY <1>1, <2>2 DEF SetupInv, OwnSession
  <2>4. ~Fresh(s)
    BY <2>3 DEF Fresh, Known, NoSession
  <2>5. \A i \in Handler : handler[i].pc \in SettingUp /\ handler[i].s = s => i = h
    BY <1>1, <2>2 DEF SetupInv, OwnSession, SettingUp
  <2>6. handler'[h].pc \notin SettingUp
    BY <2>2 DEF SettingUp
  <2>7. QED
    BY <1>1, <2>3, <2>4, <2>5, <2>6, KnownStays, SettingUpStays
<1>4. QED
  BY <1>2, <1>3

\* A session never passes from one family to another.
THEOREM OwnersStay == Spec => SessionsKeepOwner
<1>1. TypedInv /\ SetupInv /\ BindingsAgree /\ OwnedKnown /\ [Next]_vars
        => [\A s \in Session : owner[s] # None => owner'[s] = owner[s]]_vars
  BY OwnersChange, BindsUnowned
<1>2. QED
  BY <1>1, TypedInit, TypedNext, SetupInit, SetupNext, BindingsInit, BindingsNext, OwnedInit, OwnedNext,
     PTL DEF Spec, SessionsKeepOwner

----------------------------------------------------------------------------
(* Content: a session that has a content is whole, and who has assembled   *)
(* it finds it as it was, unless it has been aborted.                      *)

Whole(s) ==
  /\ sess[s].chunks = Chunk
  /\ sess[s].content \in IF sess[s].expected = None THEN Digest ELSE {sess[s].expected}

SessionsWhole == \A s \in Session :
  /\ sess[s].content # None => Whole(s)
  /\ sess[s].state = "committed" => sess[s].content # None
  /\ sess[s].state \in {"none", "removed"} => sess[s].content = None

AssembledWhole == \A h \in Handler : handler[h].pc \in {"put", "finish"} =>
  /\ Known(handler[h].s)
  /\ Present(handler[h].s) => sess[handler[h].s].content # None
  /\ Present(handler[h].s) /\ handler[h].pc = "put" => handler[h].d = sess[handler[h].s].content

ContentInv == SessionsWhole /\ AssembledWhole

LEMMA ContentInit == Init => ContentInv
BY DEF Init, ContentInv, SessionsWhole, AssembledWhole, NoSession, HandlerIdle

\* A step that changes no session and lets at most its own handler go on to
\* store what it has assembled.
LEMMA SameSessionsKeepContent ==
  ASSUME ContentInv, NEW h \in Handler, UNCHANGED sess,
         \A i \in Handler : i # h => handler'[i] = handler[i],
         handler'[h].pc \in {"put", "finish"} =>
           /\ handler'[h].s = handler[h].s
           /\ Known(handler[h].s)
           /\ Present(handler[h].s) => sess[handler[h].s].content # None
           /\ Present(handler[h].s) /\ handler'[h].pc = "put"
                => handler'[h].d = sess[handler[h].s].content
  PROVE  ContentInv'
<1>1. SessionsWhole'
  BY DEF ContentInv, SessionsWhole, Whole
<1>2. AssembledWhole'
  BY DEF ContentInv, AssembledWhole, Known, Present
<1>3. QED
  BY <1>1, <1>2 DEF ContentInv

\* A step that changes one session and leaves the other handlers where they are.
LEMMA OneSessionKeepsContent ==
  ASSUME TypedInv, ContentInv, NEW h \in Handler, NEW s \in Session,
         \A i \in Handler : i # h => handler'[i] = handler[i],
         handler'[h].pc \notin {"put", "finish"},
         \A x \in Session : x # s => sess'[x] = sess[x],
         Known(s) => Known(s)',
         Known(s) /\ Present(s)' => Present(s),
         sess[s].content # None /\ Present(s)' => sess'[s].content = sess[s].content,
         sess'[s].content # None => Whole(s)',
         sess'[s].state = "committed" => sess'[s].content # None,
         sess'[s].state \in {"none", "removed"} => sess'[s].content = None
  PROVE  ContentInv'
<1>1. SessionsWhole'
  BY DEF ContentInv, SessionsWhole, Whole
<1>2. AssembledWhole'
  <2>1. SUFFICES ASSUME NEW i \in Handler, handler'[i].pc \in {"put", "finish"}
                 PROVE  /\ Known(handler[i].s)'
                        /\ Present(handler[i].s)' => sess'[handler'[i].s].content # None
                        /\ Present(handler[i].s)' /\ handler'[i].pc = "put"
                             => handler'[i].d = sess'[handler'[i].s].content
    BY DEF AssembledWhole
  <2>2. i # h /\ handler'[i] = handler[i] /\ handler[i].s \in Session
    BY <2>1 DEF TypedInv, Shape
  <2>3. CASE handler[i].s # s
    BY <2>1, <2>2, <2>3 DEF ContentInv, AssembledWhole, Known, Present
  <2>4. CASE handler[i].s = s
    BY <2>1, <2>2, <2>4 DEF ContentInv, AssembledWhole
  <2>5. QED
    BY <2>3, <2>4
<1>3. QED
  BY <1>1, <1>2 DEF ContentInv

LEMMA StepKeepsContent ==
  ASSUME TypedInv, SetupInv, ContentInv, NEW h \in Handler, Step(h)
  PROVE  ContentInv'
<1>. DEFINE s == handler[h].s
<1>1. handler \in [Handler -> HandlerRec] /\ sess \in [Session -> SessionRec] /\ handler[h] \in HandlerRec
  BY Types DEF TypedInv
<1>2. \A i \in Handler : i # h => handler'[i] = handler[i]
  BY <1>1 DEF Step, PutBlob, EnterRepo, RefuseArguments, StageDigest, InsertSession, BindToken, Return,
     StoreChunk, Authorize, AbortSession, Assemble, PutAssembled, FinishComplete
<1>3. Return(h) => handler'[h].pc = "idle"
  BY <1>1 DEF Return, HandlerIdle
<1>4. CASE Return(h) /\ UNCHANGED sess
  BY <1>2, <1>3, <1>4, SameSessionsKeepContent
<1>5. CASE EnterRepo(h) \/ StageDigest(h) \/ Authorize(h)
  <2>1. handler'[h].pc \notin {"put", "finish"} /\ UNCHANGED sess
    BY <1>1, <1>3, <1>5 DEF EnterRepo, StageDigest, Authorize, HandlerRec
  <2>2. QED
    BY <1>2, <2>1, SameSessionsKeepContent
<1>6. CASE InsertSession(h)
  <2>1. s \in Session /\ sess[s] = NoSession
    BY <1>6 DEF InsertSession, At, TypedInv, Shape, SetupInv, OwnSession
  <2>2. handler'[h].pc = "bind"
    BY <1>1, <1>6 DEF InsertSession, HandlerRec
  <2>3. sess'[s].state = "uploading" /\ sess'[s].content = None
    BY <1>1, <1>6, <2>1 DEF InsertSession, NoSession
  <2>4. \A x \in Session : x # s => sess'[x] = sess[x]
    BY <1>1, <1>6, <2>1 DEF InsertSession
  <2>5. ~Known(s) /\ sess[s].content = None
    BY <2>1 DEF Known, NoSession
  <2>6. QED
    BY <1>2, <2>1, <2>2, <2>3, <2>4, <2>5, OneSessionKeepsContent
<1>7. CASE StoreChunk(h) /\ ~UNCHANGED sess
  <2>1. PICK x \in Session :
          /\ x = s /\ sess[x].state = "uploading"
          /\ \A y \in Session : y # x => sess'[y] = sess[y]
          /\ sess'[x].state = sess[x].state /\ sess'[x].expected = sess[x].expected
          /\ \E c \in Chunk \ sess[x].chunks :
               /\ sess'[x].chunks = sess[x].chunks \cup {c}
               /\ sess'[x].content \in Contents(x, sess[x].chunks \cup {c})
    BY <1>7, ChunkStored
  <2>2. PICK c \in Chunk \ sess[x].chunks :
          /\ sess'[x].chunks = sess[x].chunks \cup {c}
          /\ sess'[x].content \in Contents(x, sess[x].chunks \cup {c})
    BY <2>1
  <2>3. sess[x].content = None
    BY <2>1, <2>2 DEF ContentInv, SessionsWhole, Whole
  <2>4. sess'[x].content # None => Whole(x)'
    BY <2>1, <2>2 DEF Contents, Whole
  <2>5. handler'[h].pc = "idle"
    BY <1>3, <1>7 DEF StoreChunk
  <2>6. QED
    BY <1>2, <2>1, <2>3, <2>4, <2>5, OneSessionKeepsContent DEF Known, Present
<1>8. CASE AbortSession(h) /\ Present(s)
  <2>1. s \in Session /\ handler'[h].pc = "idle"
    BY <1>3, <1>8 DEF AbortSession, At, TypedInv, Shape
  <2>2. sess' = [sess EXCEPT ![s] = [NoSession EXCEPT !.state = "removed"]]
    BY <1>8 DEF AbortSession
  <2>3. sess'[s].state = "removed" /\ sess'[s].content = None
    BY <1>1, <2>1, <2>2 DEF NoSession
  <2>4. \A x \in Session : x # s => sess'[x] = sess[x]
    BY <1>1, <2>1, <2>2
  <2>5. QED
    BY <1>2, <2>1, <2>3, <2>4, OneSessionKeepsContent DEF Known, Present
<1>9. CASE Assemble(h) /\ ~Return(h)
  <2>1. /\ Assembles(s)
        /\ handler' = [handler EXCEPT ![h].pc = "put", ![h].d = sess[s].content]
        /\ UNCHANGED sess
    BY <1>9 DEF Assemble
  <2>2. handler'[h].s = s /\ handler'[h].d = sess[s].content
    BY <1>1, <2>1 DEF HandlerRec
  <2>3. QED
    BY <1>2, <2>1, <2>2, SameSessionsKeepContent DEF Assembles, Known
<1>10. CASE PutAssembled(h)
  <2>1. handler'[h].s = s /\ handler'[h].pc = "finish" /\ handler[h].pc = "put" /\ UNCHANGED sess
    BY <1>1, <1>10 DEF PutAssembled, At, HandlerRec
  <2>2. QED
    BY <1>2, <2>1, SameSessionsKeepContent DEF ContentInv, AssembledWhole
<1>11. CASE FinishComplete(h) /\ Present(s)
  <2>1. PICK x \in Session : x = s /\ Present(x) /\ handler[h].pc = "finish"
    BY <1>11 DEF FinishComplete, At, TypedInv, Shape
  <2>2. sess' = [sess EXCEPT ![x].state = "committed"] /\ handler'[h].pc = "idle"
    BY <1>3, <1>11, <2>1 DEF FinishComplete
  <2>3. sess[x] \in SessionRec /\ sess'[x] = [sess[x] EXCEPT !.state = "committed"]
    BY <1>1, <2>2
  <2>4. /\ sess'[x].state = "committed" /\ sess'[x].content = sess[x].content
        /\ sess'[x].chunks = sess[x].chunks /\ sess'[x].expected = sess[x].expected
    BY <2>3 DEF SessionRec
  <2>5. \A y \in Session : y # x => sess'[y] = sess[y]
    BY <1>1, <2>2
  <2>6. sess[x].content # None /\ Whole(x)
    BY <2>1 DEF ContentInv, AssembledWhole, SessionsWhole
  <2>7. Whole(x)'
    BY <2>4, <2>6 DEF Whole
  <2>8. QED
    BY <1>2, <2>1, <2>2, <2>4, <2>5, <2>6, <2>7, OneSessionKeepsContent DEF Known, Present
<1>12. QED
  BY <1>4, <1>5, <1>6, <1>7, <1>8, <1>9, <1>10, <1>11
     DEF Step, PutBlob, RefuseArguments, BindToken, StoreChunk, AbortSession, Assemble, FinishComplete

LEMMA ContentNext == TypedInv /\ SetupInv /\ ContentInv /\ [Next]_vars => ContentInv'
<1>1. SUFFICES ASSUME TypedInv, SetupInv, ContentInv, [Next]_vars PROVE ContentInv'
  OBVIOUS
<1>2. ASSUME NEW h \in Handler, Begins(h) PROVE ContentInv'
  BY <1>1, <1>2, BeginsChange, SameSessionsKeepContent
<1>3. CASE Around
  BY <1>1, <1>3, AroundChange DEF ContentInv, SessionsWhole, Whole, AssembledWhole, Known, Present
<1>4. QED
  BY <1>1, <1>2, <1>3, NextCases, StepKeepsContent

\* A committed session has all its chunks and the bytes that were announced.
THEOREM CommittedSessionsAreWhole == Spec => []CommittedIsWhole
<1>1. ContentInv => CommittedIsWhole
  BY DEF ContentInv, SessionsWhole, Whole, CommittedIsWhole
<1>2. QED
  BY <1>1, TypedInit, TypedNext, SetupInit, SetupNext, ContentInit, ContentNext, PTL DEF Spec

Advances(s) ==
  /\ sess[s].state = "removed" => sess'[s].state = "removed"
  /\ sess[s].state = "committed" => sess'[s].state \in {"committed", "removed"}
  /\ Present(s) /\ sess'[s].state # "removed" =>
       /\ sess'[s].expected = sess[s].expected
       /\ sess[s].chunks \subseteq sess'[s].chunks
       /\ sess[s].content # None => sess'[s].content = sess[s].content

LEMMA StepAdvances ==
  ASSUME TypedInv, SetupInv, ContentInv, NEW h \in Handler, Step(h), NEW s \in Session
  PROVE  Advances(s)
<1>1. sess \in [Session -> SessionRec]
  BY Types DEF TypedInv
<1>2. CASE sess'[s] = sess[s]
  BY <1>2 DEF Advances, Present
<1>3. CASE InsertSession(h)
  <2>1. handler[h].s \in Session /\ sess[handler[h].s] = NoSession
    BY <1>3 DEF InsertSession, At, TypedInv, Shape, SetupInv, OwnSession
  <2>2. CASE s = handler[h].s
    BY <2>1, <2>2 DEF Advances, Present, NoSession
  <2>3. CASE s # handler[h].s
    BY <1>1, <1>2, <1>3, <2>1, <2>3 DEF InsertSession
  <2>4. QED
    BY <2>2, <2>3
<1>4. CASE StoreChunk(h) /\ sess'[s] # sess[s]
  <2>1. ~UNCHANGED sess
    BY <1>4
  <2>2. /\ sess[s].state = "uploading" /\ sess'[s].state = "uploading"
        /\ sess'[s].expected = sess[s].expected
        /\ \E c \in Chunk \ sess[s].chunks : sess'[s].chunks = sess[s].chunks \cup {c}
    BY <1>4, <2>1, ChunkStored
  <2>3. sess[s].content = None
    BY <2>2 DEF ContentInv, SessionsWhole, Whole
  <2>4. QED
    BY <2>2, <2>3 DEF Advances
<1>5. CASE AbortSession(h) /\ sess'[s] # sess[s]
  <2>1. /\ Present(handler[h].s) /\ handler[h].s \in Session
        /\ sess' = [sess EXCEPT ![handler[h].s] = [NoSession EXCEPT !.state = "removed"]]
    BY <1>5 DEF AbortSession, At, TypedInv, Shape
  <2>2. sess'[s].state = "removed"
    BY <1>1, <1>5, <2>1 DEF NoSession
  <2>3. QED
    BY <2>2 DEF Advances
<1>6. CASE FinishComplete(h) /\ sess'[s] # sess[s]
  <2>1. /\ Present(handler[h].s) /\ handler[h].s \in Session
        /\ sess' = [sess EXCEPT ![handler[h].s].state = "committed"]
    BY <1>6 DEF FinishComplete, At, TypedInv, Shape
  <2>2. s = handler[h].s
    BY <1>1, <1>6, <2>1
  <2>3. sess[s] \in SessionRec /\ sess'[s] = [sess[s] EXCEPT !.state = "committed"]
    BY <1>1, <2>1, <2>2
  <2>4. /\ sess'[s].state = "committed" /\ sess'[s].expected = sess[s].expected
        /\ sess'[s].chunks = sess[s].chunks /\ sess'[s].content = sess[s].content
    BY <2>3 DEF SessionRec
  <2>5. QED
    BY <2>1, <2>2, <2>4 DEF Advances, Present
<1>7. QED
  BY <1>2, <1>3, <1>4, <1>5, <1>6 DEF Step, PutBlob, EnterRepo, RefuseArguments, StageDigest,
     BindToken, Authorize, Assemble, PutAssembled

\* A session only moves forward, and its bytes once complete stay.
THEOREM SessionsAdvance == Spec => SessionsOnlyAdvance
<1>1. TypedInv /\ SetupInv /\ ContentInv /\ [Next]_vars => [\A s \in Session : Advances(s)]_vars
  <2>1. SUFFICES ASSUME TypedInv, SetupInv, ContentInv, [Next]_vars, NEW s \in Session
                 PROVE  Advances(s)
    OBVIOUS
  <2>2. CASE UNCHANGED sess
    BY <2>2 DEF Advances, Present
  <2>3. QED
    BY <2>1, <2>2, StepAdvances, BeginsChange, AroundChange, NextCases
<1>2. SessionsOnlyAdvance <=> [][\A s \in Session : Advances(s)]_vars
  BY PTL DEF SessionsOnlyAdvance, Advances
<1>3. QED
  BY <1>1, <1>2, TypedInit, TypedNext, SetupInit, SetupNext, ContentInit, ContentNext, PTL DEF Spec

----------------------------------------------------------------------------
(* The in-flight counter: who is in the repository is who is being set up  *)
(* or uploading, and the counter counts them.                              *)

Entered(s) ==
  \/ sess[s].state = "uploading"
  \/ \E h \in Handler : handler[h].pc \in {"stage", "insert"} /\ handler[h].s = s

CounterInv ==
  /\ \A s \in Session : s \in open <=> Entered(s)
  /\ inflight = Cardinality(open)
  /\ OrphanTracked

LEMMA CounterInit == Init => CounterInv
<1>1. SUFFICES ASSUME Init PROVE CounterInv
  OBVIOUS
<1>2. open = {} /\ inflight = 0 /\ repo = "absent"
  BY <1>1 DEF Init, R!Init
<1>3. inflight = Cardinality(open)
  BY <1>2, FS_EmptySet
<1>4. QED
  BY <1>1, <1>2, <1>3 DEF Init, CounterInv, Entered, OrphanTracked, NoSession, HandlerIdle

LEMMA CounterExact == TypedInv /\ CounterInv => InflightExact
<1>1. SUFFICES ASSUME TypedInv, CounterInv PROVE InflightExact
  OBVIOUS
<1>2. \A h \in Handler : handler[h].pc \in {"stage", "insert"} => handler[h].s \in Session
  BY <1>1 DEF TypedInv, Shape
<1>3. open \subseteq Session
  BY <1>1 DEF TypedInv, TypeOK
<1>4. open = {s \in Session : sess[s].state = "uploading"}
               \cup {handler[h].s : h \in {i \in Handler : handler[i].pc \in {"stage", "insert"}}}
  BY <1>1, <1>2, <1>3 DEF CounterInv, Entered
<1>5. QED
  BY <1>1, <1>4 DEF InflightExact, CounterInv

LEMMA OpenFinite == TypedInv => IsFiniteSet(open)
BY FiniteAssumption, FS_Subset DEF TypedInv, TypeOK

LEMMA SameEnteredKeepsCounter ==
  ASSUME CounterInv, UNCHANGED <<open, inflight>>, \A s \in Session : Entered(s)' <=> Entered(s),
         OrphanTracked'
  PROVE  CounterInv'
BY DEF CounterInv

LEMMA EnterKeepsCounter ==
  ASSUME TypedInv, CounterInv, NEW s \in Session, R!Enter(s), ~Entered(s), Entered(s)',
         \A x \in Session : x # s => (Entered(x)' <=> Entered(x))
  PROVE  CounterInv'
<1>1. s \notin open /\ open' = open \cup {s} /\ inflight' = inflight + 1
  BY DEF CounterInv, R!Enter
<1>2. inflight' = Cardinality(open')
  BY <1>1, OpenFinite, FS_AddElement DEF CounterInv
<1>3. \A x \in Session : x \in open' <=> Entered(x)'
  BY <1>1 DEF CounterInv
<1>4. OrphanTracked'
  BY DEF R!Enter, R!Alive, OrphanTracked
<1>5. QED
  BY <1>2, <1>3, <1>4 DEF CounterInv

LEMMA ReleaseKeepsCounter ==
  ASSUME TypedInv, CounterInv, NEW s \in Session, R!Release(s), ~Entered(s)',
         \A x \in Session : x # s => (Entered(x)' <=> Entered(x))
  PROVE  CounterInv'
<1>1. open' = open \ {s} /\ repo' = repo /\ orphan' = orphan
  BY DEF R!Release
<1>2. inflight' = Cardinality(open')
  <2>1. CASE s \in open
    <3>1. inflight \in Nat /\ inflight > 0
      BY <2>1, OpenFinite, FS_EmptySet, FS_CardinalityType DEF CounterInv
    <3>2. Cardinality(open') = Cardinality(open) - 1
      BY <1>1, <2>1, OpenFinite, FS_RemoveElement
    <3>3. QED
      BY <2>1, <3>1, <3>2 DEF CounterInv, R!Release
  <2>2. CASE s \notin open
    BY <1>1, <2>2 DEF CounterInv, R!Release
  <2>3. QED
    BY <2>1, <2>2
<1>3. \A x \in Session : x \in open' <=> Entered(x)'
  BY <1>1 DEF CounterInv
<1>4. OrphanTracked'
  <2>1. OrphanTracked
    BY DEF CounterInv
  <2>2. QED
    BY <1>1, <2>1, Zenon DEF OrphanTracked
<1>5. QED
  BY <1>2, <1>3, <1>4 DEF CounterInv

LEMMA StepKeepsCounter ==
  ASSUME TypedInv, SetupInv, CounterInv, NEW h \in Handler, Step(h)
  PROVE  CounterInv'
<1>. DEFINE Pc == {"stage", "insert"}
<1>1. handler \in [Handler -> HandlerRec] /\ sess \in [Session -> SessionRec] /\ handler[h] \in HandlerRec
  BY Types DEF TypedInv
<1>2. \A i \in Handler : i # h => handler'[i] = handler[i]
  BY <1>1 DEF Step, PutBlob, EnterRepo, RefuseArguments, StageDigest, InsertSession, BindToken, Return,
     StoreChunk, Authorize, AbortSession, Assemble, PutAssembled, FinishComplete
<1>3. Return(h) => handler'[h].pc = "idle"
  BY <1>1 DEF Return, HandlerIdle
<1>4. ASSUME UNCHANGED repoVars PROVE OrphanTracked'
  <2>1. OrphanTracked
    BY DEF CounterInv
  <2>2. repo' = repo /\ open' = open /\ orphan' = orphan
    BY <1>4 DEF repoVars
  <2>3. QED
    BY <2>1, <2>2, Zenon DEF OrphanTracked
<1>5. CASE EnterRepo(h)
  <2>1. CASE Return(h) /\ UNCHANGED repoVars
    <3>1. handler[h].pc = "enter" /\ UNCHANGED sess
      BY <1>5 DEF EnterRepo, At
    <3>2. \A x \in Session : Entered(x)' <=> Entered(x)
      BY <1>2, <1>3, <2>1, <3>1 DEF Entered
    <3>3. QED
      BY <1>4, <2>1, <3>2, SameEnteredKeepsCounter DEF repoVars
  <2>2. ASSUME NEW s \in Session, Fresh(s), R!Enter(s),
               handler' = [handler EXCEPT ![h].pc = "stage", ![h].s = s]
        PROVE  CounterInv'
    <3>1. handler'[h].pc = "stage" /\ handler'[h].s = s /\ handler[h].pc = "enter" /\ UNCHANGED sess
      BY <1>1, <1>5, <2>2 DEF EnterRepo, At, HandlerRec
    <3>2. ~Entered(s)
      BY <2>2 DEF Fresh, Entered, NoSession
    <3>3. Entered(s)'
      BY <3>1 DEF Entered
    <3>4. \A x \in Session : x # s => (Entered(x)' <=> Entered(x))
      BY <1>2, <3>1 DEF Entered
    <3>5. QED
      BY <2>2, <3>2, <3>3, <3>4, EnterKeepsCounter
  <2>3. QED
    BY <1>5, <2>1, <2>2 DEF EnterRepo
<1>6. ASSUME NEW s \in Session, s = handler[h].s, R!Release(s), Return(h),
             sess'[s].state # "uploading",
             \A x \in Session : x # s => sess'[x].state = sess[x].state,
             \A i \in Handler \ {h} : handler[i].pc \in Pc => handler[i].s # s
      PROVE  CounterInv'
  <2>1. ~Entered(s)'
    BY <1>2, <1>3, <1>6 DEF Entered
  <2>2. \A x \in Session : x # s => (Entered(x)' <=> Entered(x))
    BY <1>2, <1>3, <1>6 DEF Entered
  <2>3. QED
    BY <1>6, <2>1, <2>2, ReleaseKeepsCounter
<1>7. CASE RefuseArguments(h)
  <2>1. handler[h].pc = "stage" /\ handler[h].s \in Session /\ UNCHANGED sess
    BY <1>7 DEF RefuseArguments, At, TypedInv, Shape
  <2>2. sess[handler[h].s].state # "uploading"
    BY <2>1 DEF SetupInv, OwnSession, NoSession
  <2>3. \A i \in Handler \ {h} : handler[i].pc \in Pc => handler[i].s # handler[h].s
    BY <2>1 DEF SetupInv, OwnSession, SettingUp
  <2>4. QED
    BY <1>6, <1>7, <2>1, <2>2, <2>3 DEF RefuseArguments
<1>8. CASE (AbortSession(h) \/ FinishComplete(h)) /\ Present(handler[h].s)
  <2>1. PICK s \in Session : s = handler[h].s /\ Present(s)
    BY <1>8 DEF AbortSession, FinishComplete, At, TypedInv, Shape
  <2>2. R!Release(s) /\ Return(h)
    BY <1>8, <2>1 DEF AbortSession, FinishComplete
  <2>3. /\ sess'[s].state # "uploading"
        /\ \A x \in Session : x # s => sess'[x].state = sess[x].state
    <3>1. CASE AbortSession(h)
      <4>1. sess' = [sess EXCEPT ![s] = [NoSession EXCEPT !.state = "removed"]]
        BY <1>8, <2>1, <3>1 DEF AbortSession
      <4>2. [NoSession EXCEPT !.state = "removed"].state = "removed"
        BY DEF NoSession
      <4>3. QED
        BY <1>1, <4>1, <4>2
    <3>2. CASE FinishComplete(h)
      <4>1. sess' = [sess EXCEPT ![s].state = "committed"]
        BY <1>8, <2>1, <3>2 DEF FinishComplete
      <4>2. QED
        BY <1>1, <4>1 DEF SessionRec
    <3>3. QED
      BY <1>8, <3>1, <3>2
  <2>4. \A i \in Handler \ {h} : handler[i].pc \in Pc => handler[i].s # s
    BY <2>1 DEF SetupInv, OwnSession, NoSession, Present
  <2>5. QED
    BY <1>6, <2>1, <2>2, <2>3, <2>4
<1>9. CASE InsertSession(h)
  <2>1. PICK s \in Session : s = handler[h].s
    BY <1>9 DEF InsertSession, At, TypedInv, Shape
  <2>2. handler[h].pc = "insert" /\ handler'[h].pc = "bind" /\ UNCHANGED repoVars
    BY <1>1, <1>9 DEF InsertSession, At, HandlerRec
  <2>3. sess'[s].state = "uploading" /\ \A x \in Session : x # s => sess'[x] = sess[x]
    BY <1>1, <1>9, <2>1 DEF InsertSession, NoSession
  <2>4. \A x \in Session : Entered(x)' <=> Entered(x)
    BY <1>2, <2>1, <2>2, <2>3 DEF Entered
  <2>5. QED
    BY <1>4, <2>2, <2>4, SameEnteredKeepsCounter DEF repoVars
<1>10. CASE StageDigest(h)
  <2>1. /\ handler[h].pc = "stage" /\ handler'[h].pc = "insert" /\ handler'[h].s = handler[h].s
        /\ UNCHANGED sess /\ UNCHANGED repoVars
    BY <1>1, <1>10 DEF StageDigest, At, HandlerRec
  <2>2. \A x \in Session : Entered(x)' <=> Entered(x)
    BY <1>2, <2>1 DEF Entered
  <2>3. QED
    BY <1>4, <2>1, <2>2, SameEnteredKeepsCounter DEF repoVars
<1>11. CASE /\ handler[h].pc \notin Pc /\ handler'[h].pc \notin Pc
            /\ \A x \in Session : sess'[x].state = sess[x].state
            /\ UNCHANGED repoVars
  <2>1. \A x \in Session : Entered(x)' <=> Entered(x)
    BY <1>2, <1>11 DEF Entered
  <2>2. QED
    BY <1>4, <1>11, <2>1, SameEnteredKeepsCounter DEF repoVars
<1>12. CASE StoreChunk(h)
  <2>1. \A x \in Session : sess'[x].state = sess[x].state
    BY <1>12, ChunkStored
  <2>2. QED
    BY <1>3, <1>11, <1>12, <2>1 DEF StoreChunk, At
<1>13. CASE \/ PutBlob(h) \/ BindToken(h) \/ Authorize(h) \/ Assemble(h) \/ PutAssembled(h)
            \/ (AbortSession(h) \/ FinishComplete(h)) /\ ~Present(handler[h].s)
  <2>1. UNCHANGED sess /\ UNCHANGED repoVars /\ handler[h].pc \notin Pc
    BY <1>13 DEF PutBlob, BindToken, Authorize, Assemble, PutAssembled, AbortSession, FinishComplete, At,
       repoVars
  <2>2. handler'[h].pc \notin Pc
    BY <1>1, <1>3, <1>13 DEF PutBlob, BindToken, Authorize, Assemble, PutAssembled, AbortSession,
       FinishComplete, HandlerRec
  <2>3. QED
    BY <1>11, <2>1, <2>2
<1>14. QED
  BY <1>5, <1>7, <1>8, <1>9, <1>10, <1>12, <1>13 DEF Step

LEMMA CounterNext == TypedInv /\ SetupInv /\ CounterInv /\ [Next]_vars => CounterInv'
<1>1. SUFFICES ASSUME TypedInv, SetupInv, CounterInv, [Next]_vars PROVE CounterInv'
  OBVIOUS
<1>2. CASE \E h \in Handler : Begins(h)
  <2>1. PICK h \in Handler : Begins(h)
    BY <1>2
  <2>2. \A x \in Session : Entered(x)' <=> Entered(x)
    BY <1>1, <2>1, BeginsChange DEF Entered
  <2>3. OrphanTracked /\ UNCHANGED repoVars
    BY <1>1, <2>1, BeginsChange DEF CounterInv
  <2>4. OrphanTracked'
    BY <2>3, Zenon DEF OrphanTracked, repoVars
  <2>5. QED
    BY <1>1, <2>2, <2>3, <2>4, SameEnteredKeepsCounter DEF repoVars
<1>3. CASE Around
  <2>1. \A x \in Session : Entered(x)' <=> Entered(x)
    BY <1>3, AroundChange DEF Entered
  <2>2. UNCHANGED <<open, inflight>>
    BY <1>3 DEF Around, IssueToken, ExpireToken, RenewToken, CreateRepo, R!Create, DeleteRepo, R!Delete,
       Collect, Release, vars, repoVars
  <2>3. OrphanTracked'
    <3>1. OrphanTracked
      BY <1>1 DEF CounterInv
    <3>2. CASE DeleteRepo
      <4>1. open # {} => inflight > 0
        BY <1>1, OpenFinite, FS_EmptySet, FS_CardinalityType DEF CounterInv
      <4>2. orphan' = (orphan \/ inflight > 0)
        BY <3>2 DEF DeleteRepo, R!Delete
      <4>3. QED
        BY <2>2, <4>1, <4>2, Zenon DEF OrphanTracked
    <3>3. CASE CreateRepo
      BY <3>3 DEF CreateRepo, R!Create, OrphanTracked
    <3>4. CASE UNCHANGED repoVars
      BY <3>1, <3>4, Zenon DEF OrphanTracked, repoVars
    <3>5. QED
      BY <1>3, <3>2, <3>3, <3>4 DEF Around, IssueToken, ExpireToken, RenewToken, Collect, Release, vars, repoVars
  <2>4. QED
    BY <1>1, <2>1, <2>2, <2>3, SameEnteredKeepsCounter
<1>4. QED
  BY <1>1, <1>2, <1>3, NextCases, StepKeepsCounter

\* The counter is exact.
THEOREM CounterStaysExact == Spec => []InflightExact
BY CounterExact, TypedInit, TypedNext, SetupInit, SetupNext, CounterInit, CounterNext, PTL DEF Spec

\* A repository deleted under an upload is remembered as an orphan.
THEOREM OrphansAreTracked == Spec => []OrphanTracked
<1>1. CounterInv => OrphanTracked
  BY DEF CounterInv
<1>2. QED
  BY <1>1, TypedInit, TypedNext, SetupInit, SetupNext, CounterInit, CounterNext, PTL DEF Spec

----------------------------------------------------------------------------
(* References: a handler that has stored a blob and not yet committed its  *)
(* session brings a reference that no committed session answers for yet.   *)

Bringing(d) == {h \in Handler : handler[h].pc = "finish" /\ sess[handler[h].s].content = d}

HoldsInv == \A d \in Digest :
  refCount[d] + released[d] >= Cardinality(CommittedWith(d)) + Cardinality(Bringing(d))

\* Only a committed blob has references: a reservation of a digest without a
\* record loses none, and a reference that is held keeps the bytes readable.
StoredCounts == \A d \in Digest : B!Committed(d) \/ refCount[d] = 0

LEMMA CountsInit == Init => StoredCounts
BY DEF Init, B!Init, StoredCounts

LEMMA CountsNext == TypedInv /\ StoredCounts /\ [Next]_vars => StoredCounts'
<1>1. SUFFICES ASSUME TypedInv, StoredCounts, [Next]_vars PROVE StoredCounts'
  OBVIOUS
<1>2. B!TypeOK
  BY <1>1 DEF TypedInv, TypeOK
<1>3. ASSUME NEW d \in Digest, B!Put(d) \/ B!Stage(d) PROVE StoredCounts'
  BY <1>1, <1>2, <1>3 DEF B!TypeOK, B!Put, B!Stage, B!Exists, B!Committed, StoredCounts
<1>4. ASSUME NEW reachable, B!SweepUnreferenced(reachable) PROVE StoredCounts'
  BY <1>1, <1>2, <1>4 DEF B!TypeOK, B!SweepUnreferenced, B!Remove, B!Exists, B!Committed, StoredCounts
<1>5. CASE UNCHANGED blobVars
  BY <1>1, <1>5 DEF blobVars, B!Committed, StoredCounts
<1>6. ASSUME NEW h \in Handler, Step(h) PROVE StoredCounts'
  <2>1. CASE PutBlob(h) \/ StageDigest(h)
    BY <1>3, <1>5, <2>1 DEF PutBlob, StageDigest
  <2>2. CASE PutAssembled(h)
    BY <1>1, <1>3, <2>2 DEF PutAssembled, At, TypedInv, Shape
  <2>3. QED
    BY <1>5, <1>6, <2>1, <2>2 DEF Step, EnterRepo, RefuseArguments, InsertSession, BindToken,
       StoreChunk, Authorize, AbortSession, Assemble, FinishComplete
<1>7. ASSUME NEW h \in Handler, Begins(h) PROVE StoredCounts'
  BY <1>1, <1>5, <1>7, BeginsChange
<1>8. ASSUME NEW d \in Digest, Release(d) PROVE StoredCounts'
  BY <1>1, <1>2, <1>8 DEF Release, B!TypeOK, B!DecRef, B!Committed, StoredCounts
<1>9. CASE Around
  BY <1>4, <1>5, <1>8, <1>9 DEF Around, IssueToken, ExpireToken, RenewToken, CreateRepo,
       DeleteRepo, Collect, Release, vars, blobVars
<1>10. QED
  BY <1>1, <1>6, <1>7, <1>9, NextCases

LEMMA HoldsInit == Init => HoldsInv
<1>1. SUFFICES ASSUME Init, NEW d \in Digest
               PROVE  refCount[d] + released[d] >= Cardinality(CommittedWith(d)) + Cardinality(Bringing(d))
  BY DEF HoldsInv
<1>2. CommittedWith(d) = {} /\ Bringing(d) = {}
  BY <1>1 DEF Init, CommittedWith, Bringing, NoSession, HandlerIdle
<1>3. refCount[d] = 0 /\ released[d] = 0
  BY <1>1 DEF Init, B!Init
<1>4. QED
  BY <1>2, <1>3, FS_EmptySet

LEMMA Finite ==
  ASSUME NEW d \in Digest
  PROVE  /\ IsFiniteSet(CommittedWith(d)) /\ Cardinality(CommittedWith(d)) \in Nat
         /\ IsFiniteSet(Bringing(d)) /\ Cardinality(Bringing(d)) \in Nat
         /\ IsFiniteSet(CommittedWith(d)') /\ Cardinality(CommittedWith(d)') \in Nat
         /\ IsFiniteSet(Bringing(d)') /\ Cardinality(Bringing(d)') \in Nat
<1>1. CommittedWith(d) \subseteq Session /\ CommittedWith(d)' \subseteq Session
  BY DEF CommittedWith
<1>2. Bringing(d) \subseteq Handler /\ Bringing(d)' \subseteq Handler
  BY DEF Bringing
<1>3. QED
  BY <1>1, <1>2, FiniteAssumption, FS_Subset, FS_CardinalityType

\* References stay, or are counted where they went, and nobody new relies on one.
LEMMA FewerKeepHolds ==
  ASSUME TypedInv, TypedInv', HoldsInv,
         \A d \in Digest : /\ refCount'[d] + released'[d] >= refCount[d] + released[d]
                           /\ CommittedWith(d)' \subseteq CommittedWith(d)
                           /\ Bringing(d)' \subseteq Bringing(d)
  PROVE  HoldsInv'
<1>1. SUFFICES ASSUME NEW d \in Digest
               PROVE  refCount'[d] + released'[d] >= Cardinality(CommittedWith(d)') + Cardinality(Bringing(d)')
  BY DEF HoldsInv
<1>2. /\ Cardinality(CommittedWith(d)') <= Cardinality(CommittedWith(d))
      /\ Cardinality(Bringing(d)') <= Cardinality(Bringing(d))
  BY Finite, FS_Subset
<1>3. /\ refCount[d] \in Nat /\ released[d] \in Nat
      /\ refCount'[d] \in Nat /\ released'[d] \in Nat
  BY DEF TypedInv, TypeOK, B!TypeOK
<1>4. QED
  BY <1>2, <1>3, Finite DEF HoldsInv

LEMMA StepKeepsHolds ==
  ASSUME TypedInv, TypedInv', SetupInv, ContentInv, StoredCounts, HoldsInv, NEW h \in Handler, Step(h),
         UNCHANGED released
  PROVE  HoldsInv'
<1>1. handler \in [Handler -> HandlerRec] /\ sess \in [Session -> SessionRec] /\ handler[h] \in HandlerRec
  BY Types DEF TypedInv
<1>2. \A i \in Handler : i # h => handler'[i] = handler[i]
  BY <1>1 DEF Step, PutBlob, EnterRepo, RefuseArguments, StageDigest, InsertSession, BindToken, Return,
     StoreChunk, Authorize, AbortSession, Assemble, PutAssembled, FinishComplete
<1>3. \A d \in Digest : /\ refCount[d] \in Nat /\ refCount'[d] \in Nat /\ d # None
                        /\ released[d] \in Nat /\ released'[d] = released[d]
  BY NoneAssumption DEF TypedInv, TypeOK, B!TypeOK
<1>4. Return(h) => handler'[h].pc = "idle"
  BY <1>1 DEF Return, HandlerIdle
<1>5. \A i \in Handler : handler[i].pc = "finish" => handler[i].s \in Session
  BY DEF TypedInv, Shape
<1>6. CASE PutAssembled(h)
  <2>1. /\ handler[h].pc = "put" /\ handler'[h].pc = "finish" /\ handler'[h].s = handler[h].s
        /\ UNCHANGED sess
    BY <1>1, <1>6 DEF PutAssembled, At, HandlerRec
  <2>2. handler[h].d \in Digest /\ handler[h].s \in Session
    BY <2>1 DEF TypedInv, Shape
  <2>3. refCount' = [refCount EXCEPT ![handler[h].d] = @ + 1]
    BY <1>6 DEF PutAssembled, B!Put
  <2>4. SUFFICES ASSUME NEW d \in Digest
                 PROVE  refCount'[d] + released'[d] >= Cardinality(CommittedWith(d)') + Cardinality(Bringing(d)')
    BY DEF HoldsInv
  <2>5. CommittedWith(d)' = CommittedWith(d) /\ h \notin Bringing(d)
    BY <2>1 DEF CommittedWith, Bringing
  <2>6. CASE sess[handler[h].s].content = d
    <3>1. Present(handler[h].s)
      BY <1>1, <1>3, <2>2, <2>6 DEF ContentInv, SessionsWhole, Present, SessionRec
    <3>2. handler[h].d = d
      BY <2>1, <2>6, <3>1 DEF ContentInv, AssembledWhole
    <3>3. Bringing(d)' = Bringing(d) \cup {h}
      BY <1>2, <2>1, <2>6 DEF Bringing
    <3>4. Cardinality(Bringing(d)') = Cardinality(Bringing(d)) + 1
      BY <2>5, <3>3, Finite, FS_AddElement
    <3>5. refCount'[d] = refCount[d] + 1
      BY <2>3, <3>2 DEF TypedInv, TypeOK, B!TypeOK
    <3>6. QED
      BY <1>3, <2>5, <3>4, <3>5, Finite DEF HoldsInv
  <2>7. CASE sess[handler[h].s].content # d
    <3>1. Bringing(d)' = Bringing(d)
      BY <1>2, <2>1, <2>7 DEF Bringing
    <3>2. refCount'[d] >= refCount[d]
      BY <1>3, <2>2, <2>3 DEF TypedInv, TypeOK, B!TypeOK
    <3>3. QED
      BY <1>3, <2>5, <3>1, <3>2, Finite DEF HoldsInv
  <2>8. QED
    BY <2>6, <2>7
<1>7. \/ PutAssembled(h)
      \/ \A d \in Digest : refCount'[d] >= refCount[d]
  <2>1. CASE UNCHANGED refCount
    BY <1>3, <2>1
  <2>2. CASE PutBlob(h)
    BY <1>3, <2>2 DEF PutBlob, B!Put, TypedInv, TypeOK, B!TypeOK
  <2>3. CASE StageDigest(h) /\ ~UNCHANGED refCount
    <3>1. PICK d \in Digest \cup {None} : d # None /\ ~B!Exists(d) /\ B!Stage(d)
      BY <2>3 DEF StageDigest, blobVars
    <3>2. /\ refCount \in [Digest -> Nat] /\ d \in Digest
          /\ refCount' = [refCount EXCEPT ![d] = 0]
      BY <3>1 DEF B!Stage, TypedInv, TypeOK, B!TypeOK
    <3>3. refCount[d] = 0
      BY <3>1, <3>2 DEF StoredCounts, B!Exists, B!Committed
    <3>4. \A e \in Digest : refCount'[e] = refCount[e]
      BY <3>2, <3>3
    <3>5. QED
      BY <1>3, <3>4
  <2>4. QED
    BY <2>1, <2>2, <2>3 DEF Step, EnterRepo, RefuseArguments, InsertSession, BindToken,
       StoreChunk, Authorize, AbortSession, Assemble, FinishComplete, blobVars
<1>8. CASE FinishComplete(h) /\ Present(handler[h].s)
  <2>1. PICK s \in Session : s = handler[h].s /\ Present(s)
    BY <1>8 DEF FinishComplete, At, TypedInv, Shape
  <2>2. handler[h].pc = "finish" /\ handler'[h].pc = "idle" /\ UNCHANGED refCount
    BY <1>4, <1>8 DEF FinishComplete, At, blobVars
  <2>3. sess' = [sess EXCEPT ![s].state = "committed"]
    BY <1>8, <2>1 DEF FinishComplete
  <2>4. sess[s] \in SessionRec /\ sess'[s] = [sess[s] EXCEPT !.state = "committed"]
    BY <1>1, <2>3
  <2>5. sess'[s].content = sess[s].content
    BY <2>4 DEF SessionRec
  <2>6. \A x \in Session : x # s => sess'[x] = sess[x]
    BY <1>1, <2>3
  <2>7. SUFFICES ASSUME NEW d \in Digest
                 PROVE  refCount'[d] + released'[d] >= Cardinality(CommittedWith(d)') + Cardinality(Bringing(d)')
    BY DEF HoldsInv
  <2>8. Bringing(d)' \subseteq Bringing(d) \ {h}
    BY <1>2, <1>5, <2>2, <2>5, <2>6 DEF Bringing
  <2>9. CASE sess[s].content = d
    <3>1. CommittedWith(d)' \subseteq CommittedWith(d) \cup {s} /\ h \in Bringing(d)
      BY <2>1, <2>2, <2>6, <2>9 DEF CommittedWith, Bringing
    <3>2. Cardinality(Bringing(d) \ {h}) = Cardinality(Bringing(d)) - 1
            /\ IsFiniteSet(Bringing(d) \ {h})
      BY <3>1, Finite, FS_RemoveElement
    <3>3. Cardinality(Bringing(d)') <= Cardinality(Bringing(d)) - 1
      BY <2>8, <3>2, FS_Subset
    <3>4. /\ IsFiniteSet(CommittedWith(d) \cup {s})
          /\ \/ Cardinality(CommittedWith(d) \cup {s}) = Cardinality(CommittedWith(d)) + 1
             \/ Cardinality(CommittedWith(d) \cup {s}) = Cardinality(CommittedWith(d))
      BY Finite, FS_AddElement
    <3>5. Cardinality(CommittedWith(d)') <= Cardinality(CommittedWith(d)) + 1
      BY <3>1, <3>4, Finite, FS_Subset, FS_CardinalityType
    <3>6. refCount[d] + released[d] >= Cardinality(CommittedWith(d)) + Cardinality(Bringing(d))
      BY DEF HoldsInv
    <3>7. QED
      BY <1>3, <2>2, <3>3, <3>5, <3>6, Finite
  <2>10. CASE sess[s].content # d
    <3>1. CommittedWith(d)' \subseteq CommittedWith(d)
      BY <2>5, <2>6, <2>10 DEF CommittedWith
    <3>2. /\ Cardinality(CommittedWith(d)') <= Cardinality(CommittedWith(d))
          /\ Cardinality(Bringing(d)') <= Cardinality(Bringing(d))
      BY <2>8, <3>1, Finite, FS_Subset
    <3>3. QED
      BY <1>3, <2>2, <3>2, Finite DEF HoldsInv
  <2>11. QED
    BY <2>9, <2>10
<1>9. CASE /\ handler'[h].pc # "finish"
           /\ \A s \in Session, d \in Digest : sess'[s].content = d =>
                \/ sess[s].content = d /\ (sess'[s].state = "committed" => sess[s].state = "committed")
                \/ /\ sess'[s].state # "committed"
                   /\ \A i \in Handler : handler[i].pc = "finish" => handler[i].s # s
           /\ ~PutAssembled(h)
  <2>1. \A d \in Digest : CommittedWith(d)' \subseteq CommittedWith(d)
    BY <1>9 DEF CommittedWith
  <2>2. \A d \in Digest : Bringing(d)' \subseteq Bringing(d)
    BY <1>2, <1>5, <1>9 DEF Bringing
  <2>3. QED
    BY <1>3, <1>7, <1>9, <2>1, <2>2, FewerKeepHolds
<1>10. CASE UNCHANGED sess /\ ~PutAssembled(h)
  <2>1. handler'[h].pc # "finish"
    BY <1>1, <1>4, <1>10 DEF Step, PutBlob, EnterRepo, RefuseArguments, StageDigest, InsertSession,
       BindToken, StoreChunk, Authorize, AbortSession, Assemble, FinishComplete, HandlerRec
  <2>2. QED
    BY <1>9, <1>10, <2>1
<1>11. CASE InsertSession(h)
  <2>1. PICK s \in Session : s = handler[h].s
    BY <1>11 DEF InsertSession, At, TypedInv, Shape
  <2>2. sess'[s].content = None /\ \A x \in Session : x # s => sess'[x] = sess[x]
    BY <1>1, <1>11, <2>1 DEF InsertSession, NoSession
  <2>3. handler'[h].pc # "finish" /\ ~PutAssembled(h)
    BY <1>1, <1>11 DEF InsertSession, PutAssembled, At, HandlerRec
  <2>4. QED
    BY <1>3, <1>9, <2>2, <2>3
<1>12. CASE AbortSession(h) /\ Present(handler[h].s)
  <2>1. PICK s \in Session : s = handler[h].s /\ Present(s)
    BY <1>12 DEF AbortSession, At, TypedInv, Shape
  <2>2. sess' = [sess EXCEPT ![s] = [NoSession EXCEPT !.state = "removed"]]
    BY <1>12, <2>1 DEF AbortSession
  <2>3. sess'[s].content = None /\ \A x \in Session : x # s => sess'[x] = sess[x]
    BY <1>1, <2>2 DEF NoSession
  <2>4. handler'[h].pc # "finish" /\ ~PutAssembled(h)
    BY <1>4, <1>12 DEF AbortSession, PutAssembled, At
  <2>5. QED
    BY <1>3, <1>9, <2>3, <2>4
<1>13. CASE StoreChunk(h) /\ ~UNCHANGED sess
  <2>1. PICK s \in Session :
          /\ s = handler[h].s /\ sess[s].state = "uploading" /\ sess'[s].state = sess[s].state
          /\ \A y \in Session : y # s => sess'[y] = sess[y]
          /\ \E c \in Chunk \ sess[s].chunks : sess'[s].chunks = sess[s].chunks \cup {c}
    BY <1>13, ChunkStored
  <2>2. sess[s].content = None
    BY <2>1 DEF ContentInv, SessionsWhole, Whole
  <2>3. \A i \in Handler : handler[i].pc = "finish" => handler[i].s # s
    BY <2>1, <2>2 DEF ContentInv, AssembledWhole, Present
  <2>4. handler'[h].pc # "finish" /\ ~PutAssembled(h)
    BY <1>4, <1>13 DEF StoreChunk, PutAssembled, At
  <2>5. QED
    BY <1>9, <2>1, <2>3, <2>4
<1>14. QED
  <2>1. CASE ~UNCHANGED sess
    BY <1>8, <1>11, <1>12, <1>13, <2>1 DEF Step, PutBlob, EnterRepo, RefuseArguments, StageDigest,
       BindToken, Authorize, AbortSession, Assemble, PutAssembled, FinishComplete
  <2>2. QED
    BY <1>6, <1>10, <2>1

LEMMA HoldsNext ==
  TypedInv /\ TypedInv' /\ SetupInv /\ ContentInv /\ StoredCounts /\ HoldsInv /\ [Next]_vars => HoldsInv'
<1>1. SUFFICES ASSUME TypedInv, TypedInv', SetupInv, ContentInv, StoredCounts, HoldsInv, [Next]_vars
               PROVE  HoldsInv'
  OBVIOUS
<1>2. \A d \in Digest : /\ refCount[d] \in Nat /\ refCount'[d] \in Nat
                        /\ released[d] \in Nat /\ released'[d] \in Nat
  BY <1>1 DEF TypedInv, TypeOK, B!TypeOK
<1>3. ASSUME NEW h \in Handler, Begins(h), UNCHANGED released PROVE HoldsInv'
  <2>1. \A d \in Digest : CommittedWith(d)' \subseteq CommittedWith(d) /\ Bringing(d)' \subseteq Bringing(d)
    BY <1>1, <1>3, BeginsChange DEF CommittedWith, Bringing
  <2>2. UNCHANGED refCount
    BY <1>1, <1>3, BeginsChange DEF blobVars
  <2>3. QED
    BY <1>1, <1>2, <1>3, <2>1, <2>2, FewerKeepHolds
<1>4. CASE Around
  <2>1. \A d \in Digest : CommittedWith(d)' \subseteq CommittedWith(d) /\ Bringing(d)' \subseteq Bringing(d)
    BY <1>4, AroundChange DEF CommittedWith, Bringing
  <2>2. ASSUME NEW d \in Digest
        PROVE  refCount'[d] + released'[d] >= refCount[d] + released[d]
    <3>1. CASE \E e \in Digest : Release(e)
      <4>1. PICK e \in Digest : Release(e)
        BY <3>1
      <4>2. /\ released' = [released EXCEPT ![e] = @ + 1]
            /\ refCount' = [refCount EXCEPT ![e] = @ - 1]
        BY <1>2, <4>1 DEF Release, B!DecRef
      <4>3. QED
        BY <1>1, <1>2, <4>2 DEF TypedInv, TypeOK, B!TypeOK
    <3>2. CASE Collect
      BY <1>1, <1>2, <3>2 DEF Collect, B!SweepUnreferenced, B!Remove
    <3>3. CASE UNCHANGED <<refCount, released>>
      BY <1>2, <3>3
    <3>4. QED
      BY <1>4, <3>1, <3>2, <3>3 DEF Around, IssueToken, ExpireToken, RenewToken, CreateRepo, DeleteRepo,
         vars, blobVars
  <2>3. QED
    BY <1>1, <1>2, <2>1, <2>2, FewerKeepHolds
<1>5. QED
  BY <1>1, <1>3, <1>4, NextCases, StepKeepsHolds

\* Every committed session brought a reference of its own: the count of its blob
\* and the references given back answer for all of them.
THEOREM HoldsStayCounted == Spec => []HoldsCounted
<1>1. TypedInv /\ HoldsInv => HoldsCounted
  <2>1. SUFFICES ASSUME TypedInv, HoldsInv, NEW d \in Digest
                 PROVE  refCount[d] + released[d] >= Cardinality(CommittedWith(d))
    BY DEF HoldsCounted
  <2>2. refCount[d] \in Nat /\ released[d] \in Nat
    BY <2>1 DEF TypedInv, TypeOK, B!TypeOK
  <2>3. QED
    BY <2>1, <2>2, Finite DEF HoldsInv
<1>2. QED
  BY <1>1, TypedInit, TypedNext, SetupInit, SetupNext, ContentInit, ContentNext,
     CountsInit, CountsNext, HoldsInit, HoldsNext, PTL DEF Spec

----------------------------------------------------------------------------
BP == INSTANCE BlobStoreProofs

\* The handlers use the blob store by its operations only.
THEOREM BlobsAreStore == Spec => B!Spec
<1>1. Init => B!Init
  BY DEF Init
<1>2. TypedInv /\ [Next]_vars => [B!Next]_B!vars
  <2>1. SUFFICES ASSUME TypedInv, [Next]_vars PROVE B!Next \/ UNCHANGED B!vars
    OBVIOUS
  <2>2. CASE UNCHANGED blobVars
    BY <2>2 DEF blobVars, B!vars
  <2>3. ASSUME NEW h \in Handler, Step(h) PROVE B!Next \/ UNCHANGED blobVars
    <3>1. CASE PutBlob(h)
      BY <3>1 DEF PutBlob, B!Next
    <3>2. CASE StageDigest(h)
      BY <3>2 DEF StageDigest, B!Next
    <3>3. CASE PutAssembled(h)
      <4>1. handler[h].d \in Digest
        BY <2>1, <3>3 DEF PutAssembled, At, TypedInv, Shape
      <4>2. QED
        BY <3>3, <4>1 DEF PutAssembled, B!Next
    <3>4. QED
      BY <2>3, <3>1, <3>2, <3>3 DEF Step, EnterRepo, RefuseArguments, InsertSession, BindToken,
         StoreChunk, Authorize, AbortSession, Assemble, FinishComplete
  <2>4. ASSUME NEW h \in Handler, Begins(h) PROVE UNCHANGED blobVars
    BY <2>1, <2>4, BeginsChange
  <2>5. CASE Around
    <3>1. CASE Collect \/ \E d \in Digest : Release(d)
      BY <3>1 DEF Collect, Release, B!Next
    <3>2. CASE ~Collect /\ ~\E d \in Digest : Release(d)
      BY <2>5, <3>2, <2>2 DEF Around, IssueToken, ExpireToken, RenewToken, CreateRepo, DeleteRepo,
         vars, blobVars
    <3>3. QED
      BY <3>1, <3>2
  <2>6. QED
    BY <2>1, <2>2, <2>3, <2>4, <2>5, NextCases
<1>3. QED
  BY <1>1, <1>2, TypedInit, TypedNext, PTL DEF Spec, B!Spec

LEMMA SameBlobStore == B!Spec => BP!Spec
BY PTL DEF B!Spec, BP!Spec, B!Init, BP!Init, B!Next, BP!Next, B!vars, BP!vars, B!Stage, BP!Stage,
   B!Put, BP!Put, B!IncRef, BP!IncRef, B!DecRef, BP!DecRef, B!Delete, BP!Delete, B!Remove, BP!Remove,
   B!SweepUnreferenced, BP!SweepUnreferenced, B!Exists, BP!Exists

LEMMA BlobMapsAgree == Spec => []B!BytesIffCommitted
<1>1. BP!MaxRefsAssumption
  BY MaxRefsAssumption DEF BP!MaxRefsAssumption
<1>2. BP!Spec => []BP!BytesIffCommitted
  BY <1>1, BP!BytesAgree
<1>3. BP!BytesIffCommitted => B!BytesIffCommitted
  BY DEF BP!BytesIffCommitted, B!BytesIffCommitted, BP!Readable, B!Readable, BP!Committed, B!Committed
<1>4. QED
  BY <1>2, <1>3, SameBlobStore, BlobsAreStore, PTL

\* While fewer references of a blob were given back than sessions committed it,
\* its count is positive; only a committed blob has a positive count, and a
\* committed blob has its bytes.
THEOREM CommittedSessionsAreStored == Spec => []CommittedIsStored
<1>1. TypedInv /\ StoredCounts /\ HoldsInv /\ B!BytesIffCommitted => CommittedIsStored
  <2>1. SUFFICES ASSUME TypedInv, StoredCounts, HoldsInv, B!BytesIffCommitted,
                        NEW d \in Digest, released[d] < Cardinality(CommittedWith(d))
                 PROVE  B!Readable(d)
    BY DEF CommittedIsStored
  <2>2. refCount[d] # 0
    <3>1. refCount[d] \in Nat /\ released[d] \in Nat
      BY <2>1 DEF TypedInv, TypeOK, B!TypeOK
    <3>2. refCount[d] + released[d] >= Cardinality(CommittedWith(d)) + Cardinality(Bringing(d))
      BY <2>1 DEF HoldsInv
    <3>3. QED
      BY <2>1, <3>1, <3>2, Finite
  <2>3. B!Committed(d)
    BY <2>1, <2>2 DEF StoredCounts
  <2>4. QED
    BY <2>1, <2>3 DEF B!BytesIffCommitted
<1>2. QED
  BY <1>1, TypedInit, TypedNext, SetupInit, SetupNext, ContentInit, ContentNext,
     CountsInit, CountsNext, HoldsInit, HoldsNext, BlobMapsAgree, PTL DEF Spec
=============================================================================
