------------------------- MODULE MCDbCircuitBreaker -------------------------
\* DbCircuitBreaker for TLC: callers are model values.
EXTENDS DbCircuitBreaker
=============================================================================
