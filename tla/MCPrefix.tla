------------------------------ MODULE MCPrefix ------------------------------
EXTENDS PrefixCache

CONSTANTS r1, r2, r3

MCPrompt == r1 :> <<1, 1, 1>> @@ r2 :> <<1, 1, 2>> @@ r3 :> <<1, 1, 1, 1, 1>>
MCRank == r1 :> 2 @@ r2 :> 1 @@ r3 :> 3
MCLongPrompt == r1 :> <<1, 1, 1, 1, 1, 1>> @@ r2 :> <<2, 2>>
=============================================================================
