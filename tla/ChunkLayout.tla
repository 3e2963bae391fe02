---------------------------- MODULE ChunkLayout ----------------------------
(***************************************************************************)
(* Where the chunks of one upload lie: the arithmetic of                   *)
(* internal/transfer/chunk.go on the machine's integers, with the request  *)
(* bodies of cmd/artifactregistry/handlers.go.                             *)
(*                                                                         *)
(* A byte is known by its offset only.  Each operation is one critical     *)
(* section of the session manager here; UploadSessions has the tokens, the *)
(* repository and the gap inside Complete.  No digest is announced: the    *)
(* digest check of an announced one is in UploadSessions too.              *)
(***************************************************************************)
EXTENDS Integers, FiniteSets

CONSTANTS
  MaxInt,       \* the largest integer: 2^63 - 1 in the program
  BodyLimit,    \* the bytes of a request body that are read
  Requests,     \* the sizes and chunk sizes clients announce
  Indexes,      \* the chunk indexes clients send
  Lengths       \* the lengths of the chunks clients send

MinInt == -MaxInt - 1

ASSUME WidthAssumption == MaxInt \in Nat /\ BodyLimit \in Nat
ASSUME RequestAssumption ==
  Requests \subseteq [size : 1 .. MaxInt, chunkSize : 1 .. MaxInt]
ASSUME SentAssumption == Indexes \subseteq MinInt .. MaxInt /\ Lengths \subseteq Nat

VARIABLES
  state,        \* "none", "uploading" or "committed"
  size, chunkSize,
  chunks,       \* s.Chunks: the index, offset and size of each accepted chunk
  written,      \* s.Written
  resumeAt      \* the answer a client resumes from, -1 when it has none

session == <<state, size, chunkSize, chunks, written>>
vars == <<session, resumeAt>>

TypeOK ==
  /\ state \in {"none", "uploading", "committed"}
  /\ size \in 0 .. MaxInt /\ chunkSize \in 0 .. MaxInt
  /\ chunks \subseteq [index : MinInt .. MaxInt, offset : MinInt .. MaxInt, size : 1 .. MaxInt]
  /\ written \in 0 .. MaxInt /\ resumeAt \in -1 .. MaxInt

Init ==
  /\ state = "none" /\ size = 0 /\ chunkSize = 0
  /\ chunks = {} /\ written = 0 /\ resumeAt = -1

----------------------------------------------------------------------------
(* Arithmetic *)

\* Two's complement: the result of an operation that may overflow.
Wrap(n) == ((n - MinInt) % (MaxInt - MinInt + 1)) + MinInt

Fits(n) == n \in MinInt .. MaxInt

\* Go's division by a positive number rounds towards zero.
Quotient(a, b) == IF a >= 0 THEN a \div b ELSE -((-a) \div b)

Smaller(a, b) == IF a < b THEN a ELSE b

BadChunkSizeFor(i) ==            \* forgets that the last chunk may be short
  IF i < 0 \/ Wrap(i * chunkSize) >= size THEN 0 ELSE chunkSize

\* The size chunk i should have, 0 when there is no such chunk.
ChunkSizeFor(i) ==
  LET offset == Wrap(i * chunkSize)
      remaining == Wrap(size - offset)
  IN IF i < 0 \/ offset >= size THEN 0 ELSE Smaller(remaining, chunkSize)

BadChunkCount == Quotient(size, chunkSize)         \* rounds down

ChunkCount == Quotient(Wrap(size + chunkSize - 1), chunkSize)

Present == {c.index : c \in chunks}

BadResumeOffset == Cardinality(chunks) * chunkSize    \* as if all came in order

\* The loop of ResumeOffset: the bytes counted when it comes to index i, and
\* whether it ends there.
Reached[i \in Nat] == IF i = 0 THEN 0 ELSE Reached[i - 1] + ChunkSizeFor(i - 1)

Stops(i) == i \notin Present \/ ChunkSizeFor(i) = 0 \/ Reached[i] >= size

FirstStop ==
  CHOOSE i \in 0 .. Cardinality(Present) : Stops(i) /\ \A j \in 0 .. i - 1 : ~Stops(j)

ResumeOffset == IF state = "committed" THEN size ELSE Reached[FirstStop]

----------------------------------------------------------------------------
(* Operations *)

Create(request) ==
  /\ state = "none"
  /\ state' = "uploading"
  /\ size' = request.size /\ chunkSize' = request.chunkSize
  /\ UNCHANGED <<chunks, written, resumeAt>>

\* The handler reads a body up to its limit and drops the rest unnoticed.
Body(length) == Smaller(length, BodyLimit)

Chunk(i, length) == [index |-> i, offset |-> Wrap(i * chunkSize), size |-> length]

BadAccepts(i, length) ==         \* a chunk that is sent again is taken again
  /\ state = "uploading"
  /\ Body(length) > 0
  /\ Body(length) = ChunkSizeFor(i)

\* ErrInvalidState after the commit, ErrInvalidArgument for an empty body or no
\* such chunk, ErrConflict for one of another size or one that has arrived.
Accepts(i, length) ==
  /\ state = "uploading"
  /\ Body(length) > 0
  /\ Body(length) = ChunkSizeFor(i)
  /\ i \notin Present

Store(i, length) ==
  /\ chunks' = chunks \cup {Chunk(i, Body(length))}
  /\ written' = Wrap(written + Body(length))
  /\ UNCHANGED <<state, size, chunkSize>>

\* A refused chunk changes nothing.
UploadChunk(i, length) ==
  /\ Accepts(i, length)
  /\ Store(i, length)
  /\ UNCHANGED resumeAt

SizeAt(i) == IF i \in Present THEN (CHOOSE c \in chunks : c.index = i).size ELSE 0

\* Complete joins the chunks in index order: the bytes before index i.
Assembled[i \in Nat] == IF i = 0 THEN 0 ELSE Assembled[i - 1] + SizeAt(i - 1)

\* ErrUnfinished for another number of chunks.  The blob store refuses an
\* assembly without bytes.
Complete ==
  /\ state = "uploading"
  /\ Cardinality(chunks) = ChunkCount
  /\ chunks # {}
  /\ state' = "committed"
  /\ UNCHANGED <<size, chunkSize, chunks, written, resumeAt>>

\* A client that lost track asks where to go on...
SessionStatus ==
  /\ state # "none"
  /\ resumeAt' = ResumeOffset
  /\ UNCHANGED session

\* ... and sends the chunk that begins there.  Another connection may have sent
\* it meanwhile; refused or not, the client asks again.
ResumeUpload ==
  LET i == resumeAt \div chunkSize
      length == Smaller(chunkSize, size - resumeAt)
  IN
  /\ resumeAt \in 0 .. size - 1
  /\ IF Accepts(i, length) THEN Store(i, length) ELSE UNCHANGED session
  /\ resumeAt' = -1

Next ==
  \/ \E request \in Requests : Create(request)
  \/ \E i \in Indexes, length \in Lengths : UploadChunk(i, length)
  \/ SessionStatus
  \/ ResumeUpload
  \/ Complete

Spec == Init /\ [][Next]_vars

----------------------------------------------------------------------------
(* Clients that stay within the integers and the body limit.  The program  *)
(* checks neither; this is what its answers are right for.                 *)

InRange(request) ==
  /\ Fits(request.size + request.chunkSize - 1)
  /\ Smaller(request.size, request.chunkSize) <= BodyLimit

InRangeNext ==
  \/ \E request \in Requests : InRange(request) /\ Create(request)
  \/ \E i \in Indexes, length \in Lengths : Fits(i * chunkSize) /\ UploadChunk(i, length)
  \/ SessionStatus
  \/ ResumeUpload
  \/ Complete

\* Every operation returns by itself; that the client goes on is a hypothesis.
InRangeSpec ==
  /\ Init
  /\ [][InRangeNext]_vars
  /\ WF_vars(SessionStatus) /\ WF_vars(ResumeUpload) /\ WF_vars(Complete)

----------------------------------------------------------------------------
(* Properties *)

Bytes(c) == c.offset .. c.offset + c.size - 1

Covered == UNION {Bytes(c) : c \in chunks}

\* internal/transfer/chunk.go:27: "each chunk is validated against the size it
\* should occupy so the assembled content never overlaps or leaves gaps".  What
\* is committed has every chunk at its offset and the announced size.
CommittedTiles ==
  state = "committed" =>
    /\ \A c \in chunks : Assembled[c.index] = c.offset
    /\ \E last \in chunks :
         /\ \A c \in chunks : c.index <= last.index
         /\ Assembled[last.index + 1] = size

\* Written counts every byte of the upload that has arrived once, whatever
\* order the chunks come in and however often one is sent.
WrittenIsCovered == Covered \subseteq 0 .. size - 1 /\ written = Cardinality(Covered)

\* The resume offset is the first byte that is missing, also when later chunks
\* have arrived and when the last one is short.
ResumeAtFirstGap ==
  LET missing == (0 .. size - 1) \ Covered IN
  ResumeOffset = IF missing = {} THEN size ELSE CHOOSE b \in missing : \A a \in missing : b <= a

\* A client that asks where to go on always can: the chunk that begins at the
\* answer is accepted as it stands, or every byte is there and Complete finds
\* the number of chunks it waits for.
NeverStuck ==
  state = "uploading" =>
    IF ResumeOffset < size
    THEN Accepts(ResumeOffset \div chunkSize, Smaller(chunkSize, size - ResumeOffset))
    ELSE Cardinality(chunks) = ChunkCount /\ chunks # {}

\* An upload is finished by a client that keeps asking where to resume and
\* sending what begins there, though other chunks are sent between the answer
\* and the use it makes of it: the size the server expects, the offset it
\* answers and the number of chunks it waits for agree.
ResumingFinishes == state = "uploading" ~> state = "committed"
=============================================================================
