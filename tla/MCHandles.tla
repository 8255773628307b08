----------------------------- MODULE MCHandles -----------------------------
(* Instances of module Handles for TLC.                                    *)
EXTENDS Handles

CONSTANTS c1, c2, h1, j1, j2

\* A connect may be inside the driver while another connection is at work.
TwoConns == {c1, c2}
OneHandle == {h1}
TwoCalls == {j1, j2}

AllOps == Ops

\* Without failures that the code does not survive: "setup" leaves the mutex
\* locked, "freeConnection" and "freeStatement" leave dangling references.
SurvivableFailures == {"connect", "close", "alloc", "run"}

=============================================================================
