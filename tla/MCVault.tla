------------------------------- MODULE MCVault -------------------------------
(* Constants for TLC: a manager, a second one or a tool, a server, two users,  *)
(* two passwords and two keys.  Users, passwords and keys can be exchanged.    *)
EXTENDS Vault, TLC

CONSTANTS u1, u2, h1, h2, k1, k2

MCUsers == {u1, u2}
MCHashes == {h1, h2}
MCKeys == {k1, k2}
MCSymmetry ==
    Permutations(MCUsers) \cup Permutations(MCHashes) \cup Permutations(MCKeys)
===============================================================================
