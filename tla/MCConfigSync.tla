---------------------------- MODULE MCConfigSync ----------------------------
\* ConfigSync for TLC: triggers are model values, rows are numbered.
EXTENDS ConfigSync
=============================================================================
