--------------------------- MODULE MCPrefixCache ---------------------------
EXTENDS PrefixCache
CONSTANTS r1, r2, r3, r4, h1, h2, h3
(* Three requests share their first block, two of them the second too; the *)
(* fourth is a stranger.                                                   *)
Shared == (r1 :> <<h1, h2>>) @@ (r2 :> <<h1, h2>>) @@ (r3 :> <<h1>>) @@ (r4 :> <<h3>>)
Single == (r1 :> <<h1>>) @@ (r2 :> <<h1>>) @@ (r3 :> <<h2>>)
=============================================================================
