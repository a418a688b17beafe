---------------------------- MODULE MCConfigFile ----------------------------
\* ConfigFile for TLC: writers are model values.
EXTENDS ConfigFile
=============================================================================
