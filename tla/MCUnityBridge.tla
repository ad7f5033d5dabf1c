---------------------------- MODULE MCUnityBridge ---------------------------
\* Two runs against one player; they differ in nothing.
EXTENDS UnityBridge, TLC

CONSTANTS run1, run2, c1

MCClients == {run1, run2}
MCIds == {c1}
MCSymmetry == Permutations(MCClients)
=============================================================================
