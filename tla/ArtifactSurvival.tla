-------------------------- MODULE ArtifactSurvival --------------------------
(***************************************************************************)
(* What garbage collection may not do to a published artifact.             *)
(*                                                                         *)
(* PushGC with one history variable, settled: the manifests that have been *)
(* tagged without a break since a moment when no collection was running,   *)
(* no push was about to found the repository's manifest map, and they were *)
(* stored with every blob.  A collection that starts later must leave      *)
(* these alone, whatever is pushed, re-tagged, uploaded or released        *)
(* meanwhile.                                                              *)
(***************************************************************************)
EXTENDS PushGC

VARIABLE settled

\* A push that saw no manifest map has yet to make its own.  It will replace the
\* map that another push has made meanwhile, with every manifest in it.
Founding == \E p \in Pusher : push[p].pc = "create"

\* Computed from the state a step leads to, so a manifest that this very step
\* untags is out and one it completes is in.
Settle ==
  settled' = {m \in Manifest :
                T!Tagged(m)' /\ (m \in settled \/ (Quiet /\ ~Founding /\ Intact(m))')}

SInit == Init /\ settled = {}

SNext == Next /\ Settle

SSpec == SInit /\ [][SNext]_<<vars, settled>>

----------------------------------------------------------------------------
\* A settled artifact stays pullable: its manifest is stored, its blobs are
\* committed and their bytes are held, although no reference count protects
\* them any more (the push that published it released its references).
SettledIntact == \A m \in settled : Intact(m)

----------------------------------------------------------------------------
(* What makes SettledIntact inductive.                                     *)

\* Only a manifest map that was made holds manifests, and a push inserts only
\* into a map it holds.
MapsHeld ==
  /\ storeMap = None => stored = {}
  /\ \A p \in Pusher : push[p].pc = "insert" => push[p].into # None

\* A settled manifest is tagged, intact and spared by every running collection,
\* and no push will replace the map that holds it.
SurvivalInv ==
  /\ MapsHeld
  /\ settled # {} => ~Founding
  /\ \A m \in settled :
       T!Tagged(m) /\ Intact(m) /\ \A g \in Collector : Spared(g, m)
=============================================================================
