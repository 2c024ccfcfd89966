------------------------------- MODULE MCHub --------------------------------
EXTENDS Hub, TLC
CONSTANTS j1, j2, j3, a, b, c, f1, f2, f3
MCIdOf == (j1 :> a) @@ (j2 :> a) @@ (j3 :> b)
MCDistinct == (a :> f1) @@ (b :> f2) @@ (c :> f3)
MCColliding == (a :> f1) @@ (b :> f1) @@ (c :> f1)
=============================================================================
