----------------------------- MODULE MCGateKeeper -----------------------------
(* Constants for TLC: hostnames of 9, 15 and 16 bytes, the last two equal in  *)
(* their first 15, beside the empty one that an absent hostname amounts to.   *)
EXTENDS GateKeeper, TLC

MCHostLen ==
    ("" :> 0) @@ ("localhost" :> 9) @@ ("irc.example.org" :> 15)
        @@ ("irc.example.org." :> 16)
MCHosts == DOMAIN MCHostLen
MCTruncated ==
    [h \in MCHosts |-> IF h = "irc.example.org." THEN "irc.example.org" ELSE h]
MCEmptyHost == ""
MCOfferedHosts == MCHosts \ {MCEmptyHost}
===============================================================================
