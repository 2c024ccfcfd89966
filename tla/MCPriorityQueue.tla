-------------------------- MODULE MCPriorityQueue ---------------------------
EXTENDS PriorityQueue, TLC
CONSTANTS i1, i2, i3, i4, i5, i6, i7, i8
MCPriorityOf ==
  (i1 :> 1) @@ (i2 :> 2) @@ (i3 :> 2) @@ (i4 :> 3) @@ (i5 :> 3) @@ (i6 :> 4) @@ (i7 :> 5)
  @@ (i8 :> 3)
=============================================================================
