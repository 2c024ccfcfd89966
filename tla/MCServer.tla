------------------------------ MODULE MCServer ------------------------------
EXTENDS Server, TLC
CONSTANTS named, auto, auto2, far
MCIdOf == (named :> 1) @@ (auto :> 0) @@ (auto2 :> 0) @@ (far :> 3)
MCTriggerOf == (named :> 4) @@ (auto :> 5) @@ (auto2 :> 6) @@ (far :> 11)
=============================================================================
