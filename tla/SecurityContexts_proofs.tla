------------------------ MODULE SecurityContexts_proofs ------------------------
(* What follows from the promises of SecurityContexts alone, and so holds of  *)
(* every provider that implements it.                                         *)
EXTENDS SecurityContexts, TLAPS

\* A context that is put into the table is found there, and the others stay.
LEMMA OpenTable ==
    ASSUME NEW h, Open(h)
    PROVE  \E scope \in Scopes :
              /\ DOMAIN contexts' = DOMAIN contexts \cup {h}
              /\ contexts'[h] = [scope |-> scope, identity |-> Anonymous]
              /\ \A x \in DOMAIN contexts :
                    x # h => contexts'[x] = contexts[x]
<1>1. PICK scope \in Scopes :
         contexts' = [x \in DOMAIN contexts \cup {h} |->
                         IF x = h
                         THEN [scope |-> scope, identity |-> Anonymous]
                         ELSE contexts[x]]
  BY DEF Open
<1>2. QED
  BY <1>1

\* The tables hold contexts, under names that were given out.
THEOREM ContextsTypeCorrect == Spec => []TypeOK
<1>1. Init => TypeOK
  BY DEF Init, TypeOK
<1>2. TypeOK /\ [Next]_vars => TypeOK'
  <2> SUFFICES ASSUME TypeOK, [Next]_vars PROVE TypeOK'
    OBVIOUS
  <2>1. ASSUME NEW h, Open(h) PROVE TypeOK'
    <3>1. issued' = issued \cup {h} /\ h \in Handles
      BY <2>1 DEF Open
    <3>2. PICK scope \in Scopes :
             /\ DOMAIN contexts' = DOMAIN contexts \cup {h}
             /\ contexts'[h] = [scope |-> scope, identity |-> Anonymous]
             /\ \A x \in DOMAIN contexts :
                   x # h => contexts'[x] = contexts[x]
      BY <2>1, OpenTable
    <3>3. QED
      BY <3>1, <3>2 DEF TypeOK, Context
  <2>2. CASE Prove
    BY <2>2 DEF Prove, TypeOK
  <2>3. ASSUME NEW h \in DOMAIN contexts, Complete(h) PROVE TypeOK'
    BY <2>3 DEF Complete, TypeOK, Context
  <2>4. ASSUME NEW h, Close(h) PROVE TypeOK'
    BY <2>4 DEF Close, TypeOK
  <2>5. CASE UNCHANGED vars
    BY <2>5 DEF vars, TypeOK
  <2>6. QED
    BY <2>1, <2>2, <2>3, <2>4, <2>5 DEF Next
<1>3. QED
  BY <1>1, <1>2, PTL DEF Spec

\* Whatever calls are made, an identity rests on a proof that exists: proofs do
\* not vanish, and neither the scope nor the identity of a context changes but
\* by a call that was given such a proof.
THEOREM IdentitiesAreEarned == Spec => []IdentityEarned
<1>1. Init => IdentityEarned
  BY DEF Init, IdentityEarned
<1>2. TypeOK /\ IdentityEarned /\ [Next]_vars => IdentityEarned'
  <2> SUFFICES ASSUME TypeOK, IdentityEarned, [Next]_vars PROVE IdentityEarned'
    OBVIOUS
  <2>1. ASSUME NEW h, Open(h) PROVE IdentityEarned'
    <3>1. proofs' = proofs
      BY <2>1 DEF Open
    <3>2. PICK scope \in Scopes :
             /\ DOMAIN contexts' = DOMAIN contexts \cup {h}
             /\ contexts'[h] = [scope |-> scope, identity |-> Anonymous]
             /\ \A x \in DOMAIN contexts :
                   x # h => contexts'[x] = contexts[x]
      BY <2>1, OpenTable
    <3>3. contexts'[h].identity = Anonymous
      BY <3>2
    <3>4. \A x \in DOMAIN contexts' : x # h => x \in DOMAIN contexts
      BY <3>2
    <3>5. QED
      BY <3>1, <3>2, <3>3, <3>4 DEF IdentityEarned
  <2>2. CASE Prove
    BY <2>2 DEF Prove, IdentityEarned
  <2>3. ASSUME NEW h \in DOMAIN contexts, Complete(h) PROVE IdentityEarned'
    <3>1. PICK id \in Identities :
             /\ contexts' = [contexts EXCEPT ![h].identity = id]
             /\ \E p \in proofs' : Covers(p, contexts[h].scope, id)
      BY <2>3 DEF Complete
    <3>2. /\ DOMAIN contexts' = DOMAIN contexts
          /\ \A x \in DOMAIN contexts : x # h => contexts'[x] = contexts[x]
          /\ contexts'[h].identity = id
          /\ contexts'[h].scope = contexts[h].scope
      BY <3>1 DEF TypeOK, Context
    <3>3. proofs \subseteq proofs'
      BY <2>3 DEF Complete
    <3>4. QED
      BY <3>1, <3>2, <3>3 DEF IdentityEarned
  <2>4. ASSUME NEW h, Close(h) PROVE IdentityEarned'
    BY <2>4 DEF Close, IdentityEarned
  <2>5. CASE UNCHANGED vars
    BY <2>5 DEF vars, IdentityEarned
  <2>6. QED
    BY <2>1, <2>2, <2>3, <2>4, <2>5 DEF Next
<1>3. QED
  BY <1>1, <1>2, ContextsTypeCorrect, PTL DEF Spec
===============================================================================
