-------------------------------- MODULE MCWire --------------------------------
(* Constants for TLC: tokens of up to two bytes that an escape, or the lack of *)
(* one, could confuse, and each byte that has an escape on its own.            *)
EXTENDS Wire

MCBytes ==
    DOMAIN Code \cup {Code[b] : b \in DOMAIN Code} \cup
    {":", "I", "S", "AUTH", "GateKeeper", "NTLM", "x"}

UpTo2(S) == {<< >>} \cup {<<a>> : a \in S} \cup {<<a, b>> : a \in S, b \in S}

MCTokens ==
    UpTo2({"BSLASH", "n"}) \cup {<<"BSLASH", "LF">>} \cup
    {<<b>> : b \in DOMAIN Code \cup {":", "x"}}

MCPayloads ==
    {<< >>, <<"SPACE">>, <<"SPACE", "SPACE", "x">>} \cup
    {<<"SPACE">> \o payload : payload \in UpTo2({"BSLASH", ":"})}

MCNoise ==
    {<< >>, <<"SPACE">>, <<"x">>, <<"AUTH">>, <<"AUTH", "GateKeeper">>,
     <<"AUTH", "GateKeeper", "SPACE">>, <<"AUTH", "SPACE", "I">>,
     <<"AUTH", "GateKeeper", "SPACE", "x">>, <<"AUTH", "x", "SPACE", "S">>}
===============================================================================
