------------------------- MODULE MCUpdateDeployment -------------------------
\* UpdateDeployment for TLC: releases are model values.
EXTENDS UpdateDeployment
=============================================================================
