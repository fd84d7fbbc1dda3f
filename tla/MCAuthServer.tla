----------------------------- MODULE MCAuthServer -----------------------------
(* Constants for TLC: two connections and the two packages, which the server  *)
(* treats alike, so that either can be exchanged for the other.               *)
EXTENDS AuthServer, TLC

CONSTANTS c1, c2, GateKeeper, NTLM

MCConn == {c1, c2}
MCPackages == {GateKeeper, NTLM}
MCSymmetry == Permutations(MCConn) \cup Permutations(MCPackages)
===============================================================================
