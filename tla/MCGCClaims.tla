----------------------------- MODULE MCGCClaims -----------------------------
EXTENDS GCClaims, TLC
CONSTANTS d1, d2, m1, m2
MCDescriptors == (m1 :> <<d1, d2>>) @@ (m2 :> <<d2, d2>>)
MCOneManifest == m1 :> <<d1, d1>>
=============================================================================
