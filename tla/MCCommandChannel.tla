-------------------------- MODULE MCCommandChannel --------------------------
\* CommandChannel for TLC: sockets and runs are model values, commands their ranks.
EXTENDS CommandChannel
=============================================================================
