---------------------------- MODULE MCConnection ----------------------------
\* Connection for TLC: the sockets are model values.
EXTENDS Connection
=============================================================================
