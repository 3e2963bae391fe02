------------------------------ MODULE MCPushGC ------------------------------
(* Two manifests over two blobs, one of them listing a blob twice. *)
EXTENDS PushGC, TLC
CONSTANTS d1, d2, m1, m2
MCDescriptors == (m1 :> <<d1, d2>>) @@ (m2 :> <<d2, d2>>)
=============================================================================
