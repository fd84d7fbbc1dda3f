--------------------------- MODULE SecurityContexts ---------------------------
(***************************************************************************)
(* What a security provider promises its callers through the trait         *)
(* SecurityProvider of types.rs, whichever package it is: contexts are     *)
(* opened under names that were never used before, a context gets an       *)
(* identity only from a proof that some client produced and that covers    *)
(* this identity within the scope of the context, and it keeps both until  *)
(* it is closed.  How tokens travel, who holds them and how they are       *)
(* verified is left to the packages, which are shown to implement this.    *)
(***************************************************************************)

CONSTANTS
    Handles,           \* names of contexts
    Scopes,            \* what a proof has to be made for
    Identities,        \* what a context may end up being identified as
    Anonymous,         \* the identity of a context that nobody has identified
    Covers(_, _, _)    \* Covers(p, scope, id): p proves id within scope

VARIABLES
    contexts,          \* handle -> [scope, identity]
    issued,            \* the handles given out so far
    proofs             \* the proofs that clients are known to have produced

vars == <<contexts, issued, proofs>>

Init ==
    /\ contexts = << >>
    /\ issued = {}
    /\ proofs = {}

\* The first call of a handshake, on either side: a new context.
Open(h) ==
    /\ h \in Handles \ issued
    /\ \E scope \in Scopes :
          contexts' = [x \in DOMAIN contexts \cup {h} |->
                          IF x = h THEN [scope |-> scope, identity |-> Anonymous]
                                   ELSE contexts[x]]
    /\ issued' = issued \cup {h}
    /\ UNCHANGED proofs

\* There are more proofs in the world, never fewer: a client answers.
Prove ==
    /\ UNCHANGED <<contexts, issued>>
    /\ proofs \subseteq proofs'

\* The last call of a handshake, on the side that verifies.  It may be the call
\* by which the proof becomes known.
Complete(h) ==
    /\ \E id \in Identities :
          /\ contexts' = [contexts EXCEPT ![h].identity = id]
          /\ \E p \in proofs' : Covers(p, contexts[h].scope, id)
    /\ proofs \subseteq proofs'
    /\ UNCHANGED issued

\* DeleteSecurityContext.
Close(h) ==
    /\ contexts' = [x \in DOMAIN contexts \ {h} |-> contexts[x]]
    /\ UNCHANGED <<issued, proofs>>

Next ==
    \/ \E h \in issued' : Open(h)
    \/ Prove
    \/ \E h \in DOMAIN contexts : Complete(h)
    \/ \E h \in issued : Close(h)

Spec == Init /\ [][Next]_vars

-------------------------------------------------------------------------------

Context == [scope: Scopes, identity: Identities \cup {Anonymous}]

\* Type invariant.  Open contexts are among those that were given out.
TypeOK ==
    /\ DOMAIN contexts \subseteq issued
    /\ issued \subseteq Handles
    /\ \A h \in DOMAIN contexts : contexts[h] \in Context

\* An identity is never out of thin air: whoever is identified was proved to be
\* that, for the very scope of the context.
IdentityEarned ==
    \A h \in DOMAIN contexts :
        contexts[h].identity # Anonymous =>
           \E p \in proofs : Covers(p, contexts[h].scope, contexts[h].identity)
===============================================================================
