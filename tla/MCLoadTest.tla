----------------------------- MODULE MCLoadTest -----------------------------
EXTENDS LoadTest, TLC
CONSTANTS c1, c2
=============================================================================
