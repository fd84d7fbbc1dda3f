----------------------------- MODULE MCNtlmLogin -----------------------------
(* Constants for TLC: a user whose name is written in two ways and another    *)
(* one; a domain written in two ways, beside those that do not exist.         *)
EXTENDS NtlmLogin, TLC

MCNames == {"TestUser", "testuser", "bob"}
MCNameKey == [n \in MCNames |-> IF n = "TestUser" THEN "testuser" ELSE n]
MCDomains == {"", ".", "CORP", "corp"}
MCFolded == [d \in MCDomains |-> IF d = "CORP" THEN "corp" ELSE d]
MCNonExistent == {"", "."}
===============================================================================
