---------------------------- MODULE MCOtaInstall ----------------------------
\* OtaInstall for TLC: two releases are deployed, of which the second has no
\* directory admin and an agent that does not start.
EXTENDS OtaInstall

CONSTANTS v1, v2, v3, v4

MCArchive == [v \in Version |-> IF v = v4 THEN Item \ {"admin"} ELSE Item]

MCRequest == {[version |-> v3, auto |-> TRUE, reboot |-> FALSE],
              [version |-> v4, auto |-> TRUE, reboot |-> TRUE]}
=============================================================================
