--------------------------- MODULE MCStreamHealth ---------------------------
EXTENDS StreamHealth, TLC
=============================================================================
