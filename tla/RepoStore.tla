----------------------------- MODULE RepoStore -----------------------------
(***************************************************************************)
(* One repository namespace: internal/repo/store.go, memoryStore.  Each    *)
(* operation runs under the store's mutex.                                 *)
(*                                                                         *)
(* Enter hands out a release function whose body runs once (sync.Once).    *)
(* open is the set of callers, named by their upload session, whose        *)
(* release has not run yet; inflight is the counter the code keeps.        *)
(***************************************************************************)
EXTENDS Naturals

VARIABLES
  repo,         \* "absent", "alive" or "deleted" (a soft delete)
  inflight,     \* the in-flight counter
  orphan,       \* the namespace is in the orphans map
  open          \* entered, not released

vars == <<repo, inflight, orphan, open>>

Init == repo = "absent" /\ inflight = 0 /\ orphan = FALSE /\ open = {}

Alive == repo = "alive"

\* A deleted name is never created again (ErrAlreadyExists).
Create ==
  /\ repo = "absent"
  /\ repo' = "alive"
  /\ UNCHANGED <<inflight, orphan, open>>

BadDelete ==                     \* forgets the uploads in flight
  /\ repo # "absent"
  /\ repo' = "deleted"
  /\ UNCHANGED <<inflight, orphan, open>>

Delete ==
  /\ repo # "absent"
  /\ repo' = "deleted"
  /\ orphan' = (orphan \/ inflight > 0)
  /\ UNCHANGED <<inflight, open>>

BadEnter(s) ==                   \* trusts the Alive check of the caller
  /\ inflight' = inflight + 1
  /\ open' = open \cup {s}
  /\ UNCHANGED <<repo, orphan>>

\* ErrRepositoryDeleted otherwise.
Enter(s) ==
  /\ Alive
  /\ inflight' = inflight + 1
  /\ open' = open \cup {s}
  /\ UNCHANGED <<repo, orphan>>

BadRelease(s) ==                 \* every call counts down
  /\ inflight' = inflight - 1
  /\ open' = open \ {s}
  /\ UNCHANGED <<repo, orphan>>

Release(s) ==
  /\ inflight' = IF s \in open /\ inflight > 0 THEN inflight - 1 ELSE inflight
  /\ open' = open \ {s}
  /\ UNCHANGED <<repo, orphan>>
=============================================================================
