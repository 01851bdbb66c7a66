------------------------------ MODULE MCDiscovery ------------------------------
EXTENDS Discovery, TLC
CONSTANTS a1, a2, b1, r1, r2, r3, r4, s1, s2, d1, d2, g1

MCPages == <<{a1, a2}, {b1}>>
MCRetweeted == b1 :> a2
MCTop == s1 :> <<r1, r2, r3>> @@ s2 :> <<r4>>
MCAuthor == a1 :> d1 @@ a2 :> d2 @@ b1 :> d1 @@ r1 :> d1 @@ r2 :> d1 @@ r3 :> d2 @@ r4 :> d2
MCGameOf == a1 :> g1 @@ a2 :> None @@ b1 :> None @@ r1 :> g1 @@ r2 :> None @@ r3 :> None @@ r4 :> None
=============================================================================
