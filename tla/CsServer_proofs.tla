---------------------------- MODULE CsServer_proofs ----------------------------
(* Proofs about CsServer and the C interface below it, for any connections,    *)
(* ids, accounts, addresses and bounds.                                        *)
EXTENDS CsServer, TLAPS

(* The interface: which provider a handle finds, and what the calls do to the  *)
(* two tables.                                                                 *)

LEMMA UpperTells ==
    ASSUME NEW p \in Packages, NEW q \in Packages, NEW r \in Roles, NEW s \in Roles,
           Upper[p][r] = Upper[q][s]
    PROVE  p = q
BY DEF Packages, Roles, Upper

LEMMA RoutedHome ==
    ASSUME NEW p \in Packages, NEW r \in Roles, NEW h, h.dw_upper = Upper[p][r]
    PROVE  ByCtxt(h) = p
<1>1. \E q \in Packages, s \in Roles : h.dw_upper = Upper[q][s]
  OBVIOUS
<1>2. ByCtxt(h) = CHOOSE q \in Packages : \E s \in Roles : h.dw_upper = Upper[q][s]
  BY <1>1 DEF ByCtxt
<1> DEFINE Made(q) == \E s \in Roles : h.dw_upper = Upper[q][s]
<1>3. Made(p) /\ ByCtxt(h) = CHOOSE q \in Packages : Made(q)
  BY <1>2
<1> HIDE DEF Made
<1>4. ByCtxt(h) \in Packages /\ Made(ByCtxt(h))
  BY <1>3
<1>5. PICK s \in Roles : h.dw_upper = Upper[ByCtxt(h)][s]
  BY <1>4 DEF Made
<1>6. Upper[p][r] = Upper[ByCtxt(h)][s]
  BY <1>5
<1>7. QED
  BY <1>4, <1>6, UpperTells

LEMMA HandleHome ==
    ASSUME NEW h \in Handle
    PROVE  ByCtxt(h) \in Packages
<1>1. PICK p \in Packages, r \in Roles : h.dw_upper = Upper[p][r]
  BY DEF Handle, Uppers
<1>2. QED
  BY <1>1, RoutedHome

LEMMA CredHome ==
    ASSUME NEW p \in Packages
    PROVE  ByCred(Cred[p]) = p
<1>1. \A q \in Packages : Cred[p].dw_upper = Cred[q].dw_upper => p = q
  BY DEF Packages, Cred
<1>2. ByCred(Cred[p]) = CHOOSE q \in Packages : Cred[p].dw_upper = Cred[q].dw_upper
  BY DEF ByCred
<1>3. QED
  BY <1>1, <1>2

LEMMA FirstLegFacts ==
    ASSUME DllTypeOK, NEW p \in Packages, NEW role \in Roles, NEW id,
           NEW h, FirstLeg(Cred[p], role, h, id)
    PROVE  /\ h \in Handle
           /\ ByCtxt(h) = p
           /\ h.dw_lower = next_handle_id[p]
           /\ h.dw_upper = Upper[p][role]
           /\ DOMAIN sessions' = Packages
           /\ DOMAIN sessions'[p] = DOMAIN sessions[p] \cup {h}
           /\ sessions'[p][h] = id
           /\ \A x \in DOMAIN sessions[p] : x # h => sessions'[p][x] = sessions[p][x]
           /\ \A q \in Packages : q # p => sessions'[q] = sessions[q]
           /\ next_handle_id' = [next_handle_id EXCEPT ![p] = @ + 1]
           /\ UNCHANGED <<blocks, corrupt>>
<1>1. Provider(Cred[p], None) = p
  BY CredHome DEF Provider
<1>2. h = FreshHandle(p, role) /\ UNCHANGED <<blocks, corrupt>>
  BY <1>1 DEF FirstLeg
<1>3. sessions' = [sessions EXCEPT ![p] =
         [x \in DOMAIN sessions[p] \cup {h} |->
             IF x = h THEN id ELSE sessions[p][x]]]
  BY <1>1 DEF FirstLeg
<1>4. next_handle_id' = [next_handle_id EXCEPT ![p] = @ + 1]
  BY <1>1 DEF FirstLeg
<1>5. h.dw_lower = next_handle_id[p] /\ h.dw_upper = Upper[p][role]
  BY <1>2 DEF FreshHandle
<1>6. h \in Handle
  BY <1>2 DEF FreshHandle, Handle, Uppers, DllTypeOK
<1>7. ByCtxt(h) = p
  BY <1>5, RoutedHome
<1>8. DOMAIN sessions = Packages
  BY DEF DllTypeOK
<1>9. sessions'[p] = [x \in DOMAIN sessions[p] \cup {h} |->
                         IF x = h THEN id ELSE sessions[p][x]]
  BY <1>3, <1>8
<1>10. /\ DOMAIN sessions'[p] = DOMAIN sessions[p] \cup {h}
       /\ sessions'[p][h] = id
       /\ \A x \in DOMAIN sessions[p] : x # h => sessions'[p][x] = sessions[p][x]
  BY <1>9
<1>11. /\ DOMAIN sessions' = Packages
       /\ \A q \in Packages : q # p => sessions'[q] = sessions[q]
  BY <1>3, <1>8
<1>12. QED
  BY <1>2, <1>4, <1>5, <1>6, <1>7, <1>10, <1>11

LEMMA LastLegFacts ==
    ASSUME DllTypeOK, NEW p \in Packages, NEW h \in Handle, NEW id,
           LastLeg(Cred[p], h, id)
    PROVE  /\ ByCtxt(h) = p
           /\ h \in DOMAIN sessions[p]
           /\ DOMAIN sessions' = Packages
           /\ \A q \in Packages : DOMAIN sessions'[q] = DOMAIN sessions[q]
           /\ sessions'[p][h] = id
           /\ \A q \in Packages : \A x \in DOMAIN sessions[q] :
                 x # h => sessions'[q][x] = sessions[q][x]
           /\ UNCHANGED <<next_handle_id, blocks, corrupt>>
<1>1. h # None
  BY NoHandleAssumption
<1>2. Provider(Cred[p], h) = ByCtxt(h) /\ ByCtxt(h) \in Packages
  BY <1>1, HandleHome DEF Provider
<1>3. Cred[p].dw_lower = Cred[ByCtxt(h)].dw_lower
  BY <1>2 DEF LastLeg, Admitted
<1>4. ByCtxt(h) = p
  BY <1>2, <1>3 DEF Packages, Cred
<1>5. h \in DOMAIN sessions[p]
  BY <1>1, <1>2, <1>4 DEF LastLeg, Admitted
<1>6. sessions' = [sessions EXCEPT ![p][h] = id]
      /\ UNCHANGED <<next_handle_id, blocks, corrupt>>
  BY <1>2, <1>4 DEF LastLeg
<1>7. QED
  BY <1>4, <1>5, <1>6 DEF DllTypeOK

LEMMA DeleteFacts ==
    ASSUME DllTypeOK, NEW h \in Handle, Delete(h)
    PROVE  /\ DOMAIN sessions' = Packages
           /\ \A p \in Packages : DOMAIN sessions'[p] = DOMAIN sessions[p] \ {h}
           /\ \A p \in Packages : \A x \in DOMAIN sessions'[p] :
                 sessions'[p][x] = sessions[p][x]
           /\ UNCHANGED <<next_handle_id, blocks, corrupt>>
<1> DEFINE p == ByCtxt(h)
<1>1. p \in Packages
  BY HandleHome
<1>2. /\ sessions' = [sessions EXCEPT ![p] = [x \in DOMAIN @ \ {h} |-> @[x]]]
      /\ UNCHANGED <<next_handle_id, blocks, corrupt>>
  BY DEF Delete
<1>3. \A q \in Packages : q # p => h \notin DOMAIN sessions[q]
  BY DEF DllTypeOK
<1>4. DOMAIN sessions = Packages
  BY DEF DllTypeOK
<1> HIDE DEF p
<1>5. sessions'[p] = [x \in DOMAIN sessions[p] \ {h} |-> sessions[p][x]]
  BY <1>1, <1>2, <1>4
<1>6. \A q \in Packages : q # p => sessions'[q] = sessions[q]
  BY <1>2, <1>4
<1>7. QED
  BY <1>2, <1>3, <1>4, <1>5, <1>6

LEMMA QueryFacts ==
    ASSUME NEW h, NEW a \in Addresses, Query(h, a)
    PROVE  /\ a \notin DOMAIN blocks
           /\ DOMAIN blocks' = DOMAIN blocks \cup {a}
           /\ blocks'[a] = NameOf(h)
           /\ \A b \in DOMAIN blocks : blocks'[b] = blocks[b]
           /\ UNCHANGED <<sessions, next_handle_id, corrupt>>
BY DEF Query, Allocate

\* The offsets of the strings, loop against sum.
LEMMA LayoutFits ==
    ASSUME NEW unit \in Nat, NEW structs \in Nat,
           NEW lengths \in [1..4 -> Nat]
    PROVE  Offset(lengths, unit, structs)[5] = Needed(lengths, unit, structs)
<1> DEFINE step(f, i) ==
              IF i = 1 THEN structs ELSE f[i - 1] + unit * (lengths[i - 1] + 1)
           g == [i \in 1..5 |->
                   CASE i = 1 -> structs
                     [] i = 2 -> structs + unit * (lengths[1] + 1)
                     [] i = 3 -> structs + unit * (lengths[1] + 1)
                                         + unit * (lengths[2] + 1)
                     [] i = 4 -> structs + unit * (lengths[1] + 1)
                                         + unit * (lengths[2] + 1)
                                         + unit * (lengths[3] + 1)
                     [] i = 5 -> structs + unit * (lengths[1] + 1)
                                         + unit * (lengths[2] + 1)
                                         + unit * (lengths[3] + 1)
                                         + unit * (lengths[4] + 1)]
           f == Offset(lengths, unit, structs)
<1>1. g = [i \in 1..5 |-> step(g, i)]
  <2>1. \A i \in 1..5 : g[i] = step(g, i)
    <3> SUFFICES ASSUME NEW i \in 1..5 PROVE g[i] = step(g, i)
      OBVIOUS
    <3>1. i = 1 \/ i = 2 \/ i = 3 \/ i = 4 \/ i = 5
      OBVIOUS
    <3>2. QED
      BY <3>1
  <2>2. QED
    BY <2>1
<1>2. f = CHOOSE x : x = [i \in 1..5 |-> step(x, i)]
  BY DEF Offset
<1> HIDE DEF g
<1>3. f = [i \in 1..5 |-> step(f, i)]
  <2> HIDE DEF f
  <2>1. QED
    BY <1>1, <1>2
<1> HIDE DEF f
<1>4. /\ f[1] = structs
      /\ f[2] = f[1] + unit * (lengths[1] + 1)
      /\ f[3] = f[2] + unit * (lengths[2] + 1)
      /\ f[4] = f[3] + unit * (lengths[3] + 1)
      /\ f[5] = f[4] + unit * (lengths[4] + 1)
  <2>1. \A i \in 1..5 : f[i] = step(f, i)
    BY <1>3
  <2>2. QED
    BY <2>1
<1>5. \A i \in 1..4 : unit * (lengths[i] + 1) \in Nat
  OBVIOUS
<1>6. Needed(lengths, unit, structs)
         = structs + unit * (lengths[1] + 1) + unit * (lengths[2] + 1)
                   + unit * (lengths[3] + 1) + unit * (lengths[4] + 1)
  BY DEF Needed
<1>7. f[5] = Needed(lengths, unit, structs)
  BY <1>4, <1>5, <1>6
<1>8. QED
  BY <1>7 DEF f

-------------------------------------------------------------------------------
(* The tables keep their types. *)

\* What a context of a package may hold.
Identities(p) == IF p = "GateKeeper" THEN Ids ELSE Accounts \cup {None}

LEMMA FirstLegType ==
    ASSUME DllTypeOK, NEW p \in Packages, NEW role \in Roles,
           NEW id \in Identities(p), NEW h, FirstLeg(Cred[p], role, h, id)
    PROVE  DllTypeOK'
<1>1. /\ h \in Handle
      /\ ByCtxt(h) = p
      /\ h.dw_lower = next_handle_id[p]
      /\ h.dw_upper = Upper[p][role]
      /\ DOMAIN sessions' = Packages
      /\ DOMAIN sessions'[p] = DOMAIN sessions[p] \cup {h}
      /\ sessions'[p][h] = id
      /\ \A x \in DOMAIN sessions[p] : x # h => sessions'[p][x] = sessions[p][x]
      /\ \A q \in Packages : q # p => sessions'[q] = sessions[q]
      /\ next_handle_id' = [next_handle_id EXCEPT ![p] = @ + 1]
      /\ UNCHANGED <<blocks, corrupt>>
  BY FirstLegFacts
<1>2. next_handle_id' \in [Packages -> Nat \ {0}]
  BY <1>1 DEF DllTypeOK
<1>3. \A q \in Packages : \A x \in DOMAIN sessions'[q] :
         x \in Handle /\ ByCtxt(x) = q /\ sessions'[q][x] \in Identities(q)
  <2> SUFFICES ASSUME NEW q \in Packages, NEW x \in DOMAIN sessions'[q]
               PROVE  x \in Handle /\ ByCtxt(x) = q /\ sessions'[q][x] \in Identities(q)
    OBVIOUS
  <2>1. CASE q = p /\ x = h
    BY <2>1, <1>1
  <2>2. CASE q = p /\ x # h
    BY <2>2, <1>1 DEF DllTypeOK, Identities
  <2>3. CASE q # p
    BY <2>3, <1>1 DEF DllTypeOK, Identities
  <2>4. QED
    BY <2>1, <2>2, <2>3
<1>4. QED
  BY <1>1, <1>2, <1>3 DEF DllTypeOK, Identities, ByCtxt

LEMMA LastLegType ==
    ASSUME DllTypeOK, NEW p \in Packages, NEW h \in Handle, NEW id \in Identities(p),
           LastLeg(Cred[p], h, id)
    PROVE  DllTypeOK'
<1>1. /\ ByCtxt(h) = p
      /\ h \in DOMAIN sessions[p]
      /\ DOMAIN sessions' = Packages
      /\ \A q \in Packages : DOMAIN sessions'[q] = DOMAIN sessions[q]
      /\ sessions'[p][h] = id
      /\ \A q \in Packages : \A x \in DOMAIN sessions[q] :
            x # h => sessions'[q][x] = sessions[q][x]
      /\ UNCHANGED <<next_handle_id, blocks, corrupt>>
  BY LastLegFacts, Zenon
<1>2. ASSUME NEW q \in Packages, NEW x \in DOMAIN sessions'[q]
      PROVE  x \in Handle /\ ByCtxt(x) = q /\ sessions'[q][x] \in Identities(q)
  <2>1. /\ x \in DOMAIN sessions[q] /\ x \in Handle /\ ByCtxt(x) = q
        /\ sessions[q][x] \in Identities(q)
    BY <1>1 DEF DllTypeOK, Identities
  <2>2. CASE x = h
    BY <1>1, <2>1, <2>2
  <2>3. CASE x # h
    BY <1>1, <2>1, <2>3
  <2>4. QED
    BY <2>1, <2>2, <2>3
<1>3. QED
  BY <1>1, <1>2 DEF DllTypeOK, Identities, ByCtxt

LEMMA DeleteType ==
    ASSUME DllTypeOK, NEW h \in Handle, Delete(h)
    PROVE  DllTypeOK'
<1>1. /\ DOMAIN sessions' = Packages
      /\ \A p \in Packages : DOMAIN sessions'[p] = DOMAIN sessions[p] \ {h}
      /\ \A p \in Packages : \A x \in DOMAIN sessions'[p] :
            sessions'[p][x] = sessions[p][x]
      /\ UNCHANGED <<next_handle_id, blocks, corrupt>>
  BY DeleteFacts
<1>2. \A q \in Packages : \A x \in DOMAIN sessions'[q] :
         x \in Handle /\ ByCtxt(x) = q /\ sessions'[q][x] \in Identities(q)
  BY <1>1 DEF DllTypeOK, Identities
<1>3. QED
  BY <1>1, <1>2 DEF DllTypeOK, Identities, ByCtxt

\* The calls that leave the handshakes alone.
LEMMA BlocksType ==
    ASSUME DllTypeOK, UNCHANGED <<sessions, next_handle_id>>,
           DOMAIN blocks' \subseteq Addresses, corrupt' \in BOOLEAN
    PROVE  DllTypeOK'
BY DEF DllTypeOK, ByCtxt

LEMMA QueryType ==
    ASSUME DllTypeOK, NEW h, NEW a \in Addresses, Query(h, a)
    PROVE  DllTypeOK'
<1>1. /\ DOMAIN blocks' = DOMAIN blocks \cup {a}
      /\ UNCHANGED <<sessions, next_handle_id, corrupt>>
  BY QueryFacts
<1>2. QED
  BY <1>1, BlocksType DEF DllTypeOK

LEMMA EnumerateType ==
    ASSUME DllTypeOK, NEW a \in Addresses, NEW lengths, NEW unit, NEW structs,
           Enumerate(lengths, unit, structs, a)
    PROVE  DllTypeOK'
<1>1. /\ DOMAIN blocks' = DOMAIN blocks \cup {a} /\ corrupt' \in BOOLEAN
      /\ UNCHANGED <<sessions, next_handle_id>>
  BY DEF Enumerate, Allocate, DllTypeOK
<1>2. QED
  BY <1>1, BlocksType DEF DllTypeOK

LEMMA FreeType ==
    ASSUME DllTypeOK, NEW a, Free(a)
    PROVE  DllTypeOK'
<1>1. /\ DOMAIN blocks' = DOMAIN blocks \ {a} /\ corrupt' \in BOOLEAN
      /\ UNCHANGED <<sessions, next_handle_id>>
  BY DEF Free, DllTypeOK
<1>2. QED
  BY <1>1, BlocksType DEF DllTypeOK

LEMMA DllStutter ==
    ASSUME DllTypeOK, UNCHANGED dllVars
    PROVE  DllTypeOK'
BY DEF DllTypeOK, dllVars, ByCtxt

-------------------------------------------------------------------------------

\* Where a task holds a context, whether it has deleted it already or not.
Busy == {"restarting", "challenging", "denied", "querying", "copying", "freeing",
         "deleting", "disposing"}

BusyHold == \A c \in Conns : pc[c] \in Busy => context[c] # None

LEMMA InitType == Init => TypeOK /\ BusyHold
<1> SUFFICES ASSUME Init PROVE TypeOK /\ BusyHold
  OBVIOUS
<1>1. DllTypeOK
  <2>1. \A p \in Packages : DOMAIN sessions[p] = {}
    BY DEF Init, DllInit
  <2>2. DOMAIN blocks = {}
    BY DEF Init, DllInit
  <2>3. DOMAIN sessions = Packages /\ corrupt = FALSE
    BY DEF Init, DllInit
  <2>4. next_handle_id \in [Packages -> Nat \ {0}]
    BY DEF Init, DllInit
  <2>5. QED
    BY <2>1, <2>2, <2>3, <2>4 DEF DllTypeOK
<1>2. QED
  BY <1>1 DEF Init, TypeOK, Places, BusyHold, Busy

\* The steps of connections that leave the interface alone and move on.
Moves(c) ==
    \/ ReceiveOpening(c) \/ ReceiveBadAnswer(c) \/ ReceiveEnd(c)
    \/ AcceptFails(c) \/ WriteChallenge(c)

LEMMA MovesOn ==
    ASSUME TypeOK, BusyHold, NEW c \in Conns, Moves(c)
    PROVE  /\ UNCHANGED <<dllVars, taskVars, history, native>>
           /\ \E place \in Places :
                 /\ Goto(c, place)
                 /\ place \in {"reading", "leaving", "accepting", "restarting", "denied"}
                 /\ place \in Busy => context[c] # None
                 /\ place = "accepting" => context[c] = None
                 /\ place = "reading" => pc[c] = "challenging"
           /\ pc[c] \in {"reading", "accepting", "challenging"}
BY DEF Moves, ReceiveOpening, ReceiveBadAnswer, ReceiveEnd, AcceptFails,
       WriteChallenge, Places, Busy, BusyHold

\* The steps that delete the context of a connection.
Deletes(c) == Restart(c) \/ DeleteOnce(c) \/ Dispose(c) \/ Leave(c)

LEMMA DeletesOwn ==
    ASSUME TypeOK, BusyHold, NEW c \in Conns, Deletes(c)
    PROVE  /\ \/ context[c] = None /\ pc[c] = "leaving" /\ UNCHANGED dllVars
              \/ context[c] # None /\ context[c] \in Handle /\ Delete(context[c])
           /\ UNCHANGED <<names, username, history, native>>
           /\ \E place \in Places :
                 /\ Goto(c, place)
                 /\ \/ /\ pc[c] = "restarting" /\ place = "accepting"
                       /\ context' = [context EXCEPT ![c] = None]
                    \/ /\ pc[c] = "deleting" /\ place = "disposing"
                       /\ context' = context
                    \/ /\ pc[c] = "denied" /\ place = "leaving"
                       /\ context' = context
                    \/ /\ pc[c] = "disposing" /\ place = "replying"
                       /\ context' = [context EXCEPT ![c] = None]
                    \/ /\ pc[c] = "leaving" /\ place = "closed"
                       /\ context' = [context EXCEPT ![c] = None]
<1>1. CASE Restart(c)
  <2>1. context[c] # None /\ context[c] \in Handle
    BY <1>1 DEF Restart, BusyHold, Busy, TypeOK
  <2>2. QED
    BY <1>1, <2>1 DEF Restart, Places
<1>2. CASE DeleteOnce(c)
  <2>1. context[c] # None /\ context[c] \in Handle
    BY <1>2 DEF DeleteOnce, BusyHold, Busy, TypeOK
  <2>2. QED
    BY <1>2, <2>1 DEF DeleteOnce, Places, taskVars
<1>3. CASE Dispose(c)
  <2>1. context[c] # None /\ context[c] \in Handle
    BY <1>3 DEF Dispose, BusyHold, Busy, TypeOK
  <2>2. QED
    BY <1>3, <2>1 DEF Dispose, Places
<1>4. CASE Leave(c)
  <2>1. context[c] # None => context[c] \in Handle
    BY DEF TypeOK
  <2>2. QED
    BY <1>4, <2>1 DEF Leave, Places
<1>5. QED
  BY <1>1, <1>2, <1>3, <1>4 DEF Deletes

\* The steps of the name: query, copy, free.
Names(c) == QueryName(c) \/ CopyName(c) \/ FreeName(c)

\* What native code does, with its parameters.
LEMMA NativeCases ==
    ASSUME TypeOK, Native
    PROVE  \/ \E p \in Packages, role \in Roles :
                 \E h \in Handle, id \in Identities(p) : NativeOpen(p, role, h, id)
           \/ \E p \in Packages :
                 \E h \in native.contexts, id \in Identities(p) : NativeComplete(p, h, id)
           \/ \E h \in native.contexts : NativeDelete(h)
           \/ \E h \in native.contexts, address \in Addresses : NativeQuery(h, address)
           \/ \E structs \in StructSizes, address \in Addresses :
                 NativeEnumerate(structs, address)
           \/ \E address \in native.blocks : NativeFree(address)
<1>1. ASSUME NEW p \in Packages, NEW role \in Roles PROVE FreshHandle(p, role) \in Handle
  BY <1>1 DEF FreshHandle, Handle, Uppers, TypeOK, DllTypeOK
<1>2. ASSUME NEW p \in Packages, NEW role \in Roles
      PROVE FirstIdentities(p, role) \subseteq Identities(p)
  BY <1>2, IdAssumption DEF FirstIdentities, Identities, Packages
<1>3. ASSUME NEW p \in Packages PROVE Named(p) \subseteq Identities(p)
  BY <1>3 DEF Named, Identities
<1>4. QED
  BY <1>1, <1>2, <1>3 DEF Native

LEMMA TypeStep == TypeOK /\ BusyHold /\ [Next]_vars => TypeOK' /\ BusyHold'
<1> SUFFICES ASSUME TypeOK, BusyHold, [Next]_vars PROVE TypeOK' /\ BusyHold'
  OBVIOUS
<1>0. /\ DllTypeOK
      /\ "GateKeeper" \in Packages /\ "server" \in Roles
  BY DEF TypeOK, Packages, Roles
<1>1. ASSUME NEW c \in Conns, Moves(c) PROVE TypeOK' /\ BusyHold'
  <2>1. UNCHANGED <<dllVars, taskVars, history, native>>
    BY <1>1, MovesOn
  <2>2. PICK place \in Places : Goto(c, place) /\ (place \in Busy => context[c] # None)
    BY <1>1, MovesOn
  <2>3. DllTypeOK'
    BY <1>0, <2>1, DllStutter
  <2>4. TypeOK'
    BY <2>1, <2>2, <2>3 DEF TypeOK, Goto, taskVars, history
  <2>5. BusyHold'
    BY <2>1, <2>2 DEF BusyHold, Goto, taskVars, TypeOK
  <2>6. QED
    BY <2>4, <2>5
<1>2. ASSUME NEW c \in Conns, NEW id \in Ids, ReceiveAnswer(c, id)
      PROVE  TypeOK' /\ BusyHold'
  <2>1. context[c] # None /\ context[c] \in Handle
    BY <1>2 DEF ReceiveAnswer, TypeOK
  <2>2. DllTypeOK'
    BY <1>0, <1>2, <2>1, LastLegType DEF ReceiveAnswer, Identities
  <2>3. TypeOK'
    BY <1>2, <2>2 DEF ReceiveAnswer, TypeOK, Goto, Places, taskVars
  <2>4. BusyHold'
    BY <1>2, <2>1 DEF ReceiveAnswer, BusyHold, Goto, taskVars, TypeOK
  <2>5. QED
    BY <2>3, <2>4
<1>3. ASSUME NEW c \in Conns, Deletes(c) PROVE TypeOK' /\ BusyHold'
  <2>1. UNCHANGED dllVars \/ (context[c] \in Handle /\ Delete(context[c]))
    BY <1>3, DeletesOwn
  <2>2. DllTypeOK'
    BY <1>0, <2>1, DeleteType, DllStutter
  <2>3. PICK place \in Places :
           /\ Goto(c, place)
           /\ \/ context' = [context EXCEPT ![c] = None] /\ place \notin Busy
              \/ context' = context /\ (place \in Busy => context[c] # None)
    <3>1. PICK place \in Places :
             /\ Goto(c, place)
             /\ \/ /\ place = "accepting" /\ context' = [context EXCEPT ![c] = None]
                \/ /\ place = "disposing" /\ pc[c] = "deleting" /\ context' = context
                \/ /\ place = "leaving" /\ context' = context
                \/ /\ place = "replying" /\ context' = [context EXCEPT ![c] = None]
                \/ /\ place = "closed" /\ context' = [context EXCEPT ![c] = None]
      BY <1>3, DeletesOwn
    <3>2. pc[c] = "deleting" => context[c] # None
      BY DEF BusyHold, Busy
    <3>3. QED
      BY <3>1, <3>2 DEF Busy
  <2>4. UNCHANGED <<names, username, history, native>>
    BY <1>3, DeletesOwn
  <2>5. TypeOK'
    BY <2>2, <2>3, <2>4 DEF TypeOK, Goto, history
  <2>6. BusyHold'
    BY <2>3 DEF BusyHold, Goto, TypeOK
  <2>7. QED
    BY <2>5, <2>6
<1>4. ASSUME NEW c \in Conns, NEW h, h = FreshHandle("GateKeeper", "server"), Accept(c, h)
      PROVE  TypeOK' /\ BusyHold'
  <2>1. DllTypeOK' /\ h \in Handle
    BY <1>0, <1>4, FirstLegType, FirstLegFacts, IdAssumption DEF Accept, Identities
  <2>2. TypeOK'
    BY <1>4, <2>1 DEF Accept, TypeOK, Goto, Places
  <2>3. BusyHold'
    BY <1>4, <2>1, NoHandleAssumption DEF Accept, BusyHold, Goto, TypeOK
  <2>4. QED
    BY <2>2, <2>3
<1>5. ASSUME NEW c \in Conns, QueryName(c) PROVE TypeOK' /\ BusyHold'
  <2>1. PICK place \in Places :
           Goto(c, place) /\ place \in {"copying", "freeing"} /\ pc[c] = "querying"
    BY <1>5 DEF QueryName, Places
  <2>2. \E address \in Addresses \cup {None} : names' = [names EXCEPT ![c] = address]
    BY <1>5 DEF QueryName
  <2>3. DllTypeOK'
    BY <1>0, <1>5, QueryType, DllStutter DEF QueryName
  <2>4. UNCHANGED <<context, username, history, native>>
    BY <1>5 DEF QueryName
  <2>5. TypeOK'
    BY <2>1, <2>2, <2>3, <2>4 DEF TypeOK, Goto, history
  <2>6. BusyHold'
    BY <2>1, <2>4 DEF BusyHold, Busy, Goto, TypeOK
  <2>7. QED
    BY <2>5, <2>6
<1>6. ASSUME NEW c \in Conns, CopyName(c) PROVE TypeOK' /\ BusyHold'
  <2>1. DllTypeOK'
    BY <1>0, <1>6, DllStutter DEF CopyName
  <2>2. TypeOK'
    BY <1>6, <2>1 DEF CopyName, TypeOK, Goto, Places, history
  <2>3. BusyHold'
    BY <1>6 DEF CopyName, BusyHold, Busy, Goto, TypeOK
  <2>4. QED
    BY <2>2, <2>3
<1>7. ASSUME NEW c \in Conns, FreeName(c) PROVE TypeOK' /\ BusyHold'
  <2>1. DllTypeOK'
    BY <1>0, <1>7, DllStutter, FreeType DEF FreeName
  <2>2. TypeOK'
    BY <1>7, <2>1 DEF FreeName, TypeOK, Goto, Places, history
  <2>3. BusyHold'
    BY <1>7 DEF FreeName, BusyHold, Busy, Goto, TypeOK
  <2>4. QED
    BY <2>2, <2>3
<1>8. ASSUME NEW c \in Conns, Reply(c) PROVE TypeOK' /\ BusyHold'
  <2>1. DllTypeOK'
    BY <1>0, <1>8, DllStutter DEF Reply
  <2>2. PICK place \in {"reading", "leaving"} : Goto(c, place)
    BY <1>8 DEF Reply
  <2>3. /\ UNCHANGED <<context, names, opened, native>>
        /\ proved' = [proved EXCEPT ![c] = None]
        /\ username' = [username EXCEPT ![c] = None]
    BY <1>8 DEF Reply
  <2>4. TypeOK'
    BY <2>1, <2>2, <2>3 DEF TypeOK, Goto, Places
  <2>5. BusyHold'
    BY <2>2, <2>3 DEF BusyHold, Busy, Goto, TypeOK
  <2>6. QED
    BY <2>4, <2>5
<1>9. ASSUME Native PROVE TypeOK' /\ BusyHold'
  <2>1. UNCHANGED <<pc, taskVars, history>>
    BY <1>9 DEF Native, NativeOpen, NativeComplete, NativeDelete, NativeQuery,
                NativeEnumerate, NativeFree
  <2>2. BusyHold'
    BY <2>1 DEF BusyHold, taskVars
  <2>3. DllTypeOK' /\ native'.contexts \subseteq Handle /\ native'.blocks \subseteq Addresses
    <3> DEFINE Good == /\ native.contexts \subseteq Handle
                       /\ native.blocks \subseteq Addresses
    <3>0. Good /\ \A h \in native.contexts : h \in Handle
      BY DEF TypeOK
    <3>1. ASSUME NEW p \in Packages, NEW role \in Roles, NEW h \in Handle,
                 NEW id \in Identities(p), NativeOpen(p, role, h, id)
          PROVE  DllTypeOK' /\ Good'
      <4>1. DllTypeOK'
        BY <1>0, <3>1, FirstLegType DEF NativeOpen
      <4>2. native' = [native EXCEPT !.contexts = @ \cup {h}]
        BY <3>1 DEF NativeOpen
      <4>3. QED
        BY <4>1, <4>2, <3>0
    <3>2. ASSUME NEW p \in Packages, NEW h \in native.contexts,
                 NEW id \in Identities(p), NativeComplete(p, h, id)
          PROVE  DllTypeOK' /\ Good'
      BY <1>0, <3>0, <3>2, LastLegType DEF NativeComplete
    <3>3. ASSUME NEW h \in native.contexts, NativeDelete(h) PROVE DllTypeOK' /\ Good'
      BY <1>0, <3>0, <3>3, DeleteType DEF NativeDelete
    <3>4. ASSUME NEW h \in native.contexts, NEW address \in Addresses,
                 NativeQuery(h, address)
          PROVE  DllTypeOK' /\ Good'
      <4>1. DllTypeOK'
        BY <1>0, <3>4, QueryType DEF NativeQuery
      <4>2. native' = [native EXCEPT !.blocks = {address}]
        BY <3>4 DEF NativeQuery
      <4>3. QED
        BY <4>1, <4>2, <3>0
    <3>5. ASSUME NEW structs \in StructSizes, NEW address \in Addresses,
                 NativeEnumerate(structs, address)
          PROVE  DllTypeOK' /\ Good'
      <4>1. DllTypeOK'
        BY <1>0, <3>5, EnumerateType DEF NativeEnumerate
      <4>2. native' = [native EXCEPT !.blocks = {address}]
        BY <3>5 DEF NativeEnumerate
      <4>3. QED
        BY <4>1, <4>2, <3>0
    <3>6. ASSUME NEW address \in native.blocks, NativeFree(address)
          PROVE  DllTypeOK' /\ Good'
      <4>1. DllTypeOK'
        BY <1>0, <3>6, FreeType DEF NativeFree
      <4>2. native' = [native EXCEPT !.blocks = @ \ {address}]
        BY <3>6 DEF NativeFree
      <4>3. QED
        BY <4>1, <4>2, <3>0
    <3>7. QED
      BY <1>9, <3>1, <3>2, <3>3, <3>4, <3>5, <3>6, NativeCases
  <2>4. QED
    BY <2>1, <2>2, <2>3 DEF TypeOK, taskVars, history
<1>10. CASE UNCHANGED vars
  BY <1>0, <1>10, DllStutter DEF vars, taskVars, history, TypeOK, BusyHold
<1>11. QED
  BY <1>1, <1>2, <1>3, <1>4, <1>5, <1>6, <1>7, <1>8, <1>9, <1>10
     DEF Next, Receive, Step, Moves, Deletes

\* The tables of the interface and the fields of the tasks have their types, and
\* no task deletes a context, or asks for its name, that it does not have.
THEOREM TypeCorrect == Spec => []TypeOK
<1>1. QED
  BY InitType, TypeStep, PTL DEF Spec

-------------------------------------------------------------------------------
(* Who owns a context.  That a new handle is nobody's yet, not even as a stale *)
(* copy, rests on every handle ever kept being older than the counter.         *)

Unheld == {"accepting", "replying", "closed"}

Working == Places \ {"disposing", "leaving"}

Older ==
    /\ \A p \in Packages : \A h \in DOMAIN sessions[p] : h.dw_lower < next_handle_id[p]
    /\ \A h \in native.contexts : h.dw_lower < next_handle_id[ByCtxt(h)]
    /\ \A c \in Conns : context[c] # None =>
          /\ ByCtxt(context[c]) = "GateKeeper"
          /\ context[c].dw_lower < next_handle_id["GateKeeper"]

UnheldNone == \A c \in Conns : pc[c] \in Unheld => context[c] = None

Own == TypeOK /\ BusyHold /\ Older /\ UnheldNone /\ ContextsOwned

LEMMA OwnInit == Init => Own
<1> SUFFICES ASSUME Init PROVE Own
  OBVIOUS
<1>1. TypeOK /\ BusyHold
  BY InitType
<1>2. \A p \in Packages : DOMAIN sessions[p] = {}
  BY DEF Init, DllInit
<1>3. /\ native.contexts = {}
      /\ \A c \in Conns : context[c] = None
      /\ \A c \in Conns : pc[c] = "reading"
  BY DEF Init
<1>4. "GateKeeper" \in Packages
  BY DEF Packages
<1>5. Older /\ UnheldNone /\ ContextsOwned
  BY <1>2, <1>3, <1>4 DEF Older, UnheldNone, Unheld, ContextsOwned
<1>6. QED
  BY <1>1, <1>5 DEF Own

\* Steps after which the same contexts exist and the same are held.
LEMMA OwnKept ==
    ASSUME Own, context' = context, native'.contexts = native.contexts,
           \A p \in Packages : DOMAIN sessions'[p] = DOMAIN sessions[p],
           next_handle_id' = next_handle_id,
           \A c \in Conns : context[c] # None /\ pc'[c] \in Unheld => pc[c] \in Unheld,
           \A c \in Conns : context[c] # None /\ pc'[c] \in Working => pc[c] \in Working
    PROVE  Older' /\ UnheldNone' /\ ContextsOwned'
<1>0. "GateKeeper" \in Packages
  BY DEF Packages
<1>1. Older'
  BY DEF Own, Older, ByCtxt
<1>2. UnheldNone'
  BY DEF Own, UnheldNone
<1>3. ContextsOwned'
  BY <1>0 DEF Own, ContextsOwned, Working
<1>4. QED
  BY <1>1, <1>2, <1>3

LEMMA OwnDelete ==
    ASSUME Own, NEW c \in Conns, Deletes(c), TypeOK'
    PROVE  Older' /\ UnheldNone' /\ ContextsOwned'
<1>0. "GateKeeper" \in Packages /\ DllTypeOK
  BY DEF Packages, Own, TypeOK
<1> DEFINE gone == IF context[c] = None THEN {} ELSE {context[c]}
<1>1. /\ \A p \in Packages : DOMAIN sessions'[p] = DOMAIN sessions[p] \ gone
      /\ next_handle_id' = next_handle_id
  <2>1. \/ context[c] = None /\ UNCHANGED dllVars
        \/ context[c] # None /\ context[c] \in Handle /\ Delete(context[c])
    BY DeletesOwn DEF Own
  <2>2. CASE context[c] = None /\ UNCHANGED dllVars
    BY <2>2 DEF dllVars
  <2>3. CASE context[c] # None /\ context[c] \in Handle /\ Delete(context[c])
    BY <1>0, <2>3, DeleteFacts
  <2>4. QED
    BY <2>1, <2>2, <2>3
<1>2. native' = native
  BY DeletesOwn DEF Own
<1>3. PICK place \in Places :
         /\ Goto(c, place)
         /\ \/ /\ place \in {"accepting", "replying", "closed"}
               /\ context' = [context EXCEPT ![c] = None]
            \/ /\ place \in {"disposing", "leaving"}
               /\ context' = context
  BY DeletesOwn DEF Own
<1>4. /\ \A d \in Conns : d # c => context'[d] = context[d] /\ pc'[d] = pc[d]
      /\ pc'[c] = place
      /\ \/ place \in {"accepting", "replying", "closed"} /\ context'[c] = None
         \/ place \in {"disposing", "leaving"} /\ context'[c] = context[c]
  BY <1>3 DEF Goto, Own, TypeOK
<1>5. Older'
  BY <1>1, <1>2, <1>4 DEF Own, Older, ByCtxt
<1>6. UnheldNone'
  BY <1>4 DEF Own, UnheldNone, Unheld
<1>7. ContextsOwned'
  <2>1. \A h \in DOMAIN sessions'["GateKeeper"] :
           h \in native'.contexts \/ \E d \in Conns : context'[d] = h
    <3> SUFFICES ASSUME NEW h \in DOMAIN sessions'["GateKeeper"], h \notin native.contexts
                 PROVE  \E d \in Conns : context'[d] = h
      BY <1>2
    <3>1. h \in DOMAIN sessions["GateKeeper"] /\ h \notin gone
      BY <1>0, <1>1
    <3>2. PICK d \in Conns : context[d] = h
      BY <3>1 DEF Own, ContextsOwned
    <3>3. h # None
      BY <1>0, <3>1, NoHandleAssumption DEF DllTypeOK
    <3>4. d # c
      BY <3>1, <3>2, <3>3
    <3>5. QED
      BY <3>2, <3>4, <1>4
  <2>2. ASSUME NEW d \in Conns, context'[d] # None
        PROVE  /\ context'[d] \notin native'.contexts
               /\ \A e \in Conns : context'[d] = context'[e] => d = e
               /\ pc'[d] \in Places \ {"disposing", "leaving"} =>
                     context'[d] \in DOMAIN sessions'["GateKeeper"]
    <3>1. context'[d] = context[d]
      BY <2>2, <1>4
    <3>2. \A e \in Conns : context'[e] # None => context'[e] = context[e]
      BY <1>4
    <3>3. /\ context[d] \notin native.contexts
          /\ \A e \in Conns : context[d] = context[e] => d = e
      BY <2>2, <3>1 DEF Own, ContextsOwned
    <3>4. ASSUME pc'[d] \in Places \ {"disposing", "leaving"}
          PROVE  context'[d] \in DOMAIN sessions'["GateKeeper"]
      <4>1. d # c
        BY <3>4, <2>2, <1>4
      <4>2. context[d] \in DOMAIN sessions["GateKeeper"]
        BY <4>1, <3>4, <3>1, <2>2, <1>4 DEF Own, ContextsOwned
      <4>3. context[d] \notin gone
        BY <4>1, <3>3
      <4>4. QED
        BY <4>2, <4>3, <3>1, <1>0, <1>1
    <3>5. QED
      BY <3>1, <3>2, <3>3, <3>4, <2>2, <1>2
  <2>3. QED
    BY <2>1, <2>2 DEF ContextsOwned
<1>8. QED
  BY <1>5, <1>6, <1>7

\* What the tables are after a new context, whose handle is nobody's yet.
MakesNew(p, h) ==
    /\ h \in Handle
    /\ h # None
    /\ ByCtxt(h) = p
    /\ h \notin DOMAIN sessions[p]
    /\ h \notin native.contexts
    /\ \A c \in Conns : context[c] # h
    /\ DOMAIN sessions' = Packages
    /\ DOMAIN sessions'[p] = DOMAIN sessions[p] \cup {h}
    /\ \A q \in Packages : q # p => sessions'[q] = sessions[q]
    /\ h.dw_lower = next_handle_id[p]
    /\ next_handle_id'[p] = next_handle_id[p] + 1
    /\ \A q \in Packages : next_handle_id[q] \in Nat
    /\ \A q \in Packages : q # p => next_handle_id'[q] = next_handle_id[q]

LEMMA FreshIsNew ==
    ASSUME Own, NEW p \in Packages, NEW role \in Roles, NEW h, NEW id,
           FirstLeg(Cred[p], role, h, id)
    PROVE  MakesNew(p, h)
<1>1. DllTypeOK
  BY DEF Own, TypeOK
<1>2. /\ h \in Handle
      /\ ByCtxt(h) = p
      /\ h.dw_lower = next_handle_id[p]
      /\ h.dw_upper = Upper[p][role]
      /\ DOMAIN sessions' = Packages
      /\ DOMAIN sessions'[p] = DOMAIN sessions[p] \cup {h}
      /\ sessions'[p][h] = id
      /\ \A x \in DOMAIN sessions[p] : x # h => sessions'[p][x] = sessions[p][x]
      /\ \A q \in Packages : q # p => sessions'[q] = sessions[q]
      /\ next_handle_id' = [next_handle_id EXCEPT ![p] = @ + 1]
      /\ UNCHANGED <<blocks, corrupt>>
  BY <1>1, FirstLegFacts
<1>3. h # None
  BY <1>2, NoHandleAssumption
<1>4. \A q \in Packages : next_handle_id[q] \in Nat
  BY <1>1 DEF DllTypeOK
<1>5. ~(next_handle_id[p] < next_handle_id[p])
  BY <1>4
<1>6. h \notin DOMAIN sessions[p] /\ h \notin native.contexts
  BY <1>2, <1>5 DEF Own, Older
<1>7. \A c \in Conns : context[c] # h
  BY <1>2, <1>3, <1>5 DEF Own, Older
<1>8. /\ next_handle_id'[p] = next_handle_id[p] + 1
      /\ \A q \in Packages : q # p => next_handle_id'[q] = next_handle_id[q]
  BY <1>1, <1>2 DEF DllTypeOK
<1>9. QED
  BY <1>2, <1>3, <1>4, <1>6, <1>7, <1>8 DEF MakesNew

\* Handles that were older than the counter still are, and the new one is, too.
LEMMA OlderGrows ==
    ASSUME Own, NEW p \in Packages, NEW role \in Roles, NEW h, NEW id,
           FirstLeg(Cred[p], role, h, id),
           \A x \in native'.contexts : x \in native.contexts \/ x = h,
           \A c \in Conns : context'[c] = context[c]
                               \/ (context'[c] = h /\ p = "GateKeeper")
    PROVE  Older'
<1>0. "GateKeeper" \in Packages
  BY DEF Packages
<1>9. MakesNew(p, h)
  BY FreshIsNew
<1>1. /\ ByCtxt(h) = p
      /\ h.dw_lower = next_handle_id[p]
      /\ DOMAIN sessions'[p] = DOMAIN sessions[p] \cup {h}
      /\ \A q \in Packages : q # p => sessions'[q] = sessions[q]
      /\ next_handle_id'[p] = next_handle_id[p] + 1
      /\ \A q \in Packages : next_handle_id[q] \in Nat
      /\ \A q \in Packages : q # p => next_handle_id'[q] = next_handle_id[q]
  BY <1>9 DEF MakesNew
<1>2. \A q \in Packages : \A x \in Handle :
         x.dw_lower < next_handle_id[q] => x.dw_lower < next_handle_id'[q]
  <2> SUFFICES ASSUME NEW q \in Packages, NEW x \in Handle,
                      x.dw_lower < next_handle_id[q]
               PROVE  x.dw_lower < next_handle_id'[q]
    OBVIOUS
  <2>1. x.dw_lower \in Nat
    BY DEF Handle
  <2>2. next_handle_id[q] \in Nat
    BY <1>1
  <2>3. next_handle_id'[q] = next_handle_id[q] \/ next_handle_id'[q] = next_handle_id[q] + 1
    BY <1>1
  <2>4. QED
    BY <2>1, <2>2, <2>3
<1>3. h.dw_lower < next_handle_id'[p]
  BY <1>1
<1>4. /\ \A q \in Packages : \A x \in DOMAIN sessions[q] : x \in Handle
      /\ \A x \in native.contexts : x \in Handle /\ ByCtxt(x) \in Packages
      /\ \A c \in Conns : context[c] # None => context[c] \in Handle
  BY HandleHome DEF Own, TypeOK, DllTypeOK
<1>5. \A q \in Packages : \A x \in DOMAIN sessions'[q] : x.dw_lower < next_handle_id'[q]
  <2> SUFFICES ASSUME NEW q \in Packages, NEW x \in DOMAIN sessions'[q]
               PROVE  x.dw_lower < next_handle_id'[q]
    OBVIOUS
  <2>1. x \in DOMAIN sessions[q] \/ (q = p /\ x = h)
    BY <1>1
  <2>2. QED
    BY <2>1, <1>2, <1>3, <1>4 DEF Own, Older
<1>6. \A x \in native'.contexts : x.dw_lower < next_handle_id'[ByCtxt(x)]
  BY <1>1, <1>2, <1>3, <1>4 DEF Own, Older
<1>7. \A c \in Conns : context'[c] # None =>
         /\ ByCtxt(context'[c]) = "GateKeeper"
         /\ context'[c].dw_lower < next_handle_id'["GateKeeper"]
  BY <1>0, <1>1, <1>2, <1>3, <1>4 DEF Own, Older
<1>8. QED
  BY <1>5, <1>6, <1>7 DEF Older, ByCtxt

LEMMA OwnAccept ==
    ASSUME Own, NEW c \in Conns, NEW h, Accept(c, h)
    PROVE  Older' /\ UnheldNone' /\ ContextsOwned'
<1>0. "GateKeeper" \in Packages /\ "server" \in Roles
  BY DEF Packages, Roles
<1>1. /\ FirstLeg(Cred["GateKeeper"], "server", h, ZeroId)
      /\ UNCHANGED native
      /\ pc[c] = "accepting"
  BY DEF Accept
<1>2. /\ \A d \in Conns : d # c => context'[d] = context[d] /\ pc'[d] = pc[d]
      /\ context'[c] = h /\ pc'[c] = "challenging"
  BY DEF Accept, Goto, Own, TypeOK
<1>11. MakesNew("GateKeeper", h)
  BY <1>0, <1>1, FreshIsNew
<1>3. /\ h # None
      /\ h \notin native.contexts
      /\ \A d \in Conns : context[d] # h
      /\ DOMAIN sessions'["GateKeeper"] = DOMAIN sessions["GateKeeper"] \cup {h}
  BY <1>0, <1>11 DEF MakesNew
<1>4. Older'
  BY <1>0, <1>1, <1>2, OlderGrows
<1>5. UnheldNone'
  BY <1>2 DEF Own, UnheldNone, Unheld
<1>6. context[c] = None
  BY <1>1 DEF Own, UnheldNone, Unheld
<1>7. \A x \in DOMAIN sessions'["GateKeeper"] :
         x \in native'.contexts \/ \E d \in Conns : context'[d] = x
  <2> SUFFICES ASSUME NEW x \in DOMAIN sessions["GateKeeper"], x \notin native.contexts
               PROVE  \E d \in Conns : context'[d] = x
    BY <1>1, <1>2, <1>3
  <2>1. PICK d \in Conns : context[d] = x
    BY DEF Own, ContextsOwned
  <2>2. x # None
    BY <1>0, NoHandleAssumption DEF Own, TypeOK, DllTypeOK
  <2>3. QED
    BY <2>1, <2>2, <1>2, <1>6
<1>8. ASSUME NEW d \in Conns, context'[d] # None
      PROVE  /\ context'[d] \notin native'.contexts
             /\ \A e \in Conns : context'[d] = context'[e] => d = e
             /\ pc'[d] \in Places \ {"disposing", "leaving"} =>
                   context'[d] \in DOMAIN sessions'["GateKeeper"]
  <2>1. CASE d = c
    BY <2>1, <1>1, <1>2, <1>3
  <2>2. CASE d # c
    BY <2>2, <1>8, <1>1, <1>2, <1>3 DEF Own, ContextsOwned
  <2>3. QED
    BY <2>1, <2>2
<1>9. ContextsOwned'
  BY <1>7, <1>8 DEF ContextsOwned
<1>10. QED
  BY <1>4, <1>5, <1>9

LEMMA OwnNativeOpen ==
    ASSUME Own, NEW p \in Packages, NEW role \in Roles, NEW h, NEW id,
           NativeOpen(p, role, h, id)
    PROVE  Older' /\ UnheldNone' /\ ContextsOwned'
<1>0. "GateKeeper" \in Packages
  BY DEF Packages
<1>1. FirstLeg(Cred[p], role, h, id) /\ UNCHANGED <<pc, context>>
  BY DEF NativeOpen, taskVars
<1>2. native'.contexts = native.contexts \cup {h}
  BY DEF NativeOpen, Own, TypeOK
<1>9. MakesNew(p, h)
  BY <1>1, FreshIsNew
<1>3. /\ \A d \in Conns : context[d] # h
      /\ DOMAIN sessions'[p] = DOMAIN sessions[p] \cup {h}
      /\ \A q \in Packages : q # p => sessions'[q] = sessions[q]
  BY <1>9 DEF MakesNew
<1>4. Older'
  <2>1. \A x \in native'.contexts : x \in native.contexts \/ x = h
    BY <1>2
  <2>2. \A c \in Conns : context'[c] = context[c]
                             \/ (context'[c] = h /\ p = "GateKeeper")
    BY <1>1
  <2>3. QED
    BY <1>1, <2>1, <2>2, OlderGrows
<1>5. UnheldNone'
  BY <1>1 DEF Own, UnheldNone
<1>6. /\ DOMAIN sessions["GateKeeper"] \subseteq DOMAIN sessions'["GateKeeper"]
      /\ DOMAIN sessions'["GateKeeper"] \subseteq DOMAIN sessions["GateKeeper"] \cup {h}
  BY <1>0, <1>3
<1>7. ContextsOwned'
  BY <1>1, <1>2, <1>3, <1>6 DEF Own, ContextsOwned
<1>8. QED
  BY <1>4, <1>5, <1>7

LEMMA OwnNativeDelete ==
    ASSUME Own, NEW h \in native.contexts, NativeDelete(h)
    PROVE  Older' /\ UnheldNone' /\ ContextsOwned'
<1>0. "GateKeeper" \in Packages /\ DllTypeOK /\ h \in Handle
  BY DEF Packages, Own, TypeOK
<1>1. Delete(h) /\ UNCHANGED <<pc, context, native>>
  BY DEF NativeDelete, taskVars
<1>2. /\ \A p \in Packages : DOMAIN sessions'[p] = DOMAIN sessions[p] \ {h}
      /\ next_handle_id' = next_handle_id
  BY <1>0, <1>1, DeleteFacts
<1>3. Older'
  BY <1>1, <1>2 DEF Own, Older, ByCtxt
<1>4. UnheldNone'
  BY <1>1 DEF Own, UnheldNone
<1>5. \A c \in Conns : context[c] # None => context[c] # h
  BY DEF Own, ContextsOwned
<1>6. ContextsOwned'
  BY <1>0, <1>1, <1>2, <1>5 DEF Own, ContextsOwned
<1>7. QED
  BY <1>3, <1>4, <1>6

\* No context is lost, taken by two, or deleted by someone whose it is not.
LEMMA OwnStep == Own /\ [Next]_vars => Own'
<1> SUFFICES ASSUME Own, [Next]_vars PROVE Own'
  OBVIOUS
<1>1. TypeOK' /\ BusyHold' /\ TypeOK /\ BusyHold /\ DllTypeOK
  BY TypeStep DEF Own, TypeOK
<1> DEFINE Goal == Older' /\ UnheldNone' /\ ContextsOwned'
<1>2. ASSUME NEW c \in Conns, Moves(c) PROVE Goal
  <2>1. UNCHANGED <<dllVars, taskVars, native>>
    BY <1>1, <1>2, MovesOn
  <2>2. PICK place \in Places :
           /\ Goto(c, place)
           /\ place = "accepting" => context[c] = None
           /\ place \in {"reading", "leaving", "accepting", "restarting", "denied"}
    BY <1>1, <1>2, MovesOn
  <2>3. pc[c] \in Working
    BY <1>1, <1>2, MovesOn DEF Working, TypeOK
  <2>4. \A d \in Conns : context[d] # None /\ pc'[d] \in Unheld => pc[d] \in Unheld
    BY <1>1, <2>2 DEF Goto, TypeOK, Unheld
  <2>5. \A d \in Conns : context[d] # None /\ pc'[d] \in Working => pc[d] \in Working
    BY <1>1, <2>2, <2>3 DEF Goto, TypeOK
  <2>6. QED
    BY <2>1, <2>4, <2>5, OwnKept DEF dllVars, taskVars
<1>3. ASSUME NEW c \in Conns, NEW id \in Ids, ReceiveAnswer(c, id) PROVE Goal
  <2>1. /\ context' = context /\ native' = native /\ pc[c] = "reading"
        /\ Goto(c, "querying") /\ context[c] # None
        /\ LastLeg(Cred["GateKeeper"], context[c], id)
    BY <1>3 DEF ReceiveAnswer, taskVars
  <2>2. context[c] \in Handle /\ "GateKeeper" \in Packages
    BY <1>1, <2>1 DEF TypeOK, Packages
  <2>3. /\ \A p \in Packages : DOMAIN sessions'[p] = DOMAIN sessions[p]
        /\ UNCHANGED next_handle_id
    BY <1>1, <2>1, <2>2, LastLegFacts
  <2>4. \A d \in Conns : context[d] # None /\ pc'[d] \in Unheld => pc[d] \in Unheld
    BY <1>1, <2>1 DEF Goto, TypeOK, Unheld
  <2>5. \A d \in Conns : context[d] # None /\ pc'[d] \in Working => pc[d] \in Working
    BY <1>1, <2>1 DEF Goto, TypeOK, Working, Places
  <2>6. QED
    BY <2>1, <2>3, <2>4, <2>5, OwnKept
<1>4. ASSUME NEW c \in Conns, Names(c) PROVE Goal
  <2>1. /\ UNCHANGED <<sessions, next_handle_id, context, native>>
        /\ pc[c] \in {"querying", "copying", "freeing"}
        /\ \E place \in {"copying", "freeing", "deleting"} : Goto(c, place)
    BY <1>4 DEF Names, QueryName, CopyName, FreeName, Query, Free, dllVars
  <2>2. \A d \in Conns : context[d] # None /\ pc'[d] \in Unheld => pc[d] \in Unheld
    BY <1>1, <2>1 DEF Goto, TypeOK, Unheld
  <2>3. \A d \in Conns : context[d] # None /\ pc'[d] \in Working => pc[d] \in Working
    BY <1>1, <2>1 DEF Goto, TypeOK, Working, Places
  <2>4. QED
    BY <2>1, <2>2, <2>3, OwnKept
<1>5. ASSUME NEW c \in Conns, Deletes(c) PROVE Goal
  BY <1>1, <1>5, OwnDelete
<1>6. ASSUME NEW c \in Conns, NEW h, h = FreshHandle("GateKeeper", "server"), Accept(c, h)
      PROVE  Goal
  BY <1>6, OwnAccept
<1>7. ASSUME NEW c \in Conns, Reply(c) PROVE Goal
  <2>1. /\ UNCHANGED <<dllVars, context, native>>
        /\ pc[c] = "replying"
        /\ \E place \in {"reading", "leaving"} : Goto(c, place)
    BY <1>7 DEF Reply
  <2>2. \A d \in Conns : context[d] # None /\ pc'[d] \in Unheld => pc[d] \in Unheld
    BY <1>1, <2>1 DEF Goto, TypeOK, Unheld
  <2>3. \A d \in Conns : context[d] # None /\ pc'[d] \in Working => pc[d] \in Working
    BY <1>1, <2>1 DEF Goto, TypeOK, Working, Places
  <2>4. QED
    BY <2>1, <2>2, <2>3, OwnKept DEF dllVars
<1>8. ASSUME Native PROVE Goal
  <2>0. UNCHANGED <<pc, context>> /\ \A h \in native.contexts : h \in Handle
    BY <1>1, <1>8 DEF Native, NativeOpen, NativeComplete, NativeDelete, NativeQuery,
                      NativeEnumerate, NativeFree, taskVars, TypeOK
  <2>1. ASSUME NEW p \in Packages, NEW role \in Roles, NEW h \in Handle,
               NEW id \in Identities(p), NativeOpen(p, role, h, id)
        PROVE  Goal
    BY <2>1, OwnNativeOpen
  <2>2. ASSUME NEW p \in Packages, NEW h \in native.contexts,
               NEW id \in Identities(p), NativeComplete(p, h, id)
        PROVE  Goal
    <3>1. LastLeg(Cred[p], h, id) /\ native' = native
      BY <2>2 DEF NativeComplete
    <3>2. /\ \A q \in Packages : DOMAIN sessions'[q] = DOMAIN sessions[q]
          /\ UNCHANGED next_handle_id
      BY <1>1, <2>0, <3>1, LastLegFacts
    <3>3. QED
      BY <2>0, <3>1, <3>2, OwnKept
  <2>3. ASSUME NEW h \in native.contexts, NativeDelete(h) PROVE Goal
    BY <2>3, OwnNativeDelete
  <2>4. ASSUME \/ \E h \in native.contexts, address \in Addresses :
                     NativeQuery(h, address)
               \/ \E structs \in StructSizes, address \in Addresses :
                     NativeEnumerate(structs, address)
               \/ \E address \in native.blocks : NativeFree(address)
        PROVE  Goal
    <3>1. UNCHANGED <<sessions, next_handle_id>>
      BY <2>4 DEF NativeQuery, NativeEnumerate, NativeFree, Query, Enumerate, Free
    <3>2. native'.contexts = native.contexts
      <4>1. \E S : native' = [native EXCEPT !.blocks = S]
        BY <2>4 DEF NativeQuery, NativeEnumerate, NativeFree
      <4>2. QED
        BY <4>1
    <3>3. QED
      BY <2>0, <3>1, <3>2, OwnKept
  <2>5. QED
    BY <1>1, <1>8, <2>1, <2>2, <2>3, <2>4, NativeCases
<1>9. ASSUME UNCHANGED vars PROVE Goal
  <2>1. UNCHANGED <<sessions, next_handle_id, pc, context, native>>
    BY <1>9 DEF vars, dllVars, taskVars
  <2>2. \A c \in Conns : pc'[c] = pc[c]
    BY <2>1
  <2>3. /\ context' = context
        /\ native'.contexts = native.contexts
        /\ \A p \in Packages : DOMAIN sessions'[p] = DOMAIN sessions[p]
        /\ next_handle_id' = next_handle_id
    BY <2>1
  <2>4. QED
    BY <2>2, <2>3, OwnKept
<1> HIDE DEF Goal
<1>10. Goal
  BY <1>2, <1>3, <1>4, <1>5, <1>6, <1>7, <1>8, <1>9
     DEF Next, Receive, Step, Moves, Deletes, Names
<1>11. QED
  BY <1>1, <1>10 DEF Own, Goal

\* A task never deletes, answers on or asks about a context that is not its own,
\* and none is left without an owner.
THEOREM OwnedAlways == Spec => []ContextsOwned
<1>1. Own => ContextsOwned
  BY DEF Own
<1>2. QED
  BY <1>1, OwnInit, OwnStep, PTL DEF Spec

-------------------------------------------------------------------------------
(* The heap.  A block that a task or native code has is allocated and nobody    *)
(* else's; that SspiHelpers never frees an unwritten pointer rests on the task  *)
(* having a context that GateKeeper knows.                                      *)

Heap ==
    /\ ~corrupt
    /\ native.blocks \subseteq DOMAIN blocks
    /\ \A c \in Conns : names[c] # None =>
          /\ pc[c] \in {"copying", "freeing"}
          /\ names[c] \in DOMAIN blocks \ native.blocks
    /\ \A c \in Conns : pc[c] = "copying" => names[c] # None
    /\ \A c, d \in Conns : names[c] # None /\ names[c] = names[d] => c = d

LEMMA HeapInit == Init => Heap
BY DEF Init, DllInit, Heap

\* Steps that leave the heap alone.
LEMMA HeapKept ==
    ASSUME Heap, blocks' = blocks, corrupt' = corrupt, names' = names,
           native'.blocks = native.blocks,
           \A c \in Conns : names[c] # None => pc'[c] \in {"copying", "freeing"},
           \A c \in Conns : pc'[c] = "copying" => pc[c] = "copying"
    PROVE  Heap'
BY DEF Heap

\* A task that asks for the name of its context gets the id it proved.
LEMMA NameFound ==
    ASSUME Own, NEW c \in Conns, pc[c] = "querying"
    PROVE  /\ context[c] \in DOMAIN sessions["GateKeeper"]
           /\ NameOf(context[c]) = GuidText(sessions["GateKeeper"][context[c]])
           /\ NameOf(context[c]) # None
<1>0. "GateKeeper" \in Packages /\ DllTypeOK
  BY DEF Packages, Own, TypeOK
<1>1. context[c] # None
  BY DEF Own, BusyHold, Busy
<1>2. context[c] \in DOMAIN sessions["GateKeeper"]
  BY <1>1 DEF Own, ContextsOwned, Places
<1>3. ByCtxt(context[c]) = "GateKeeper"
  BY <1>1 DEF Own, Older
<1>4. "GateKeeper" # None
  BY <1>0, NoHandleAssumption
<1>5. NameOf(context[c]) = GuidText(sessions["GateKeeper"][context[c]])
  BY <1>2, <1>3, <1>4 DEF NameOf
<1>6. sessions["GateKeeper"][context[c]] \in Ids
  BY <1>0, <1>2 DEF DllTypeOK
<1>7. QED
  BY <1>2, <1>5, <1>6, NoNameAssumption

LEMMA QueryGets ==
    ASSUME Own, NEW c \in Conns, QueryName(c)
    PROVE  /\ pc[c] = "querying"
           /\ Goto(c, "copying")
           /\ UNCHANGED <<context, username, history, native>>
           /\ \E address \in Addresses :
                 /\ Query(context[c], address)
                 /\ names' = [names EXCEPT ![c] = address]
<1>1. pc[c] = "querying"
  BY DEF QueryName
<1>2. NameOf(context[c]) # None
  BY <1>1, NameFound
<1>3. QED
  BY <1>1, <1>2 DEF QueryName

LEMMA EnumerateFits ==
    ASSUME DllTypeOK, NEW address \in Addresses, NEW structs \in StructSizes,
           NativeEnumerate(structs, address)
    PROVE  corrupt' = corrupt
<1>1. structs \in Nat
  BY DEF StructSizes
<1>2. LengthsA \in [1..4 -> Nat] /\ LengthsW \in [1..4 -> Nat]
  BY DEF LengthsA, LengthsW
<1>3. /\ Offset(LengthsA, 1, structs)[5] = Needed(LengthsA, 1, structs)
      /\ Offset(LengthsW, 2, structs)[5] = Needed(LengthsW, 2, structs)
  BY <1>1, <1>2, LayoutFits
<1>4. Needed(LengthsA, 1, structs) \in Nat /\ Needed(LengthsW, 2, structs) \in Nat
  BY <1>1 DEF Needed, LengthsA, LengthsW
<1>5. /\ ~(Offset(LengthsA, 1, structs)[5] > Needed(LengthsA, 1, structs))
      /\ ~(Offset(LengthsW, 2, structs)[5] > Needed(LengthsW, 2, structs))
  BY <1>3, <1>4
<1>6. corrupt \in BOOLEAN
  BY DEF DllTypeOK
<1>7. CASE Enumerate(LengthsA, 1, structs, address)
  BY <1>5, <1>6, <1>7 DEF Enumerate
<1>8. CASE Enumerate(LengthsW, 2, structs, address)
  BY <1>5, <1>6, <1>8 DEF Enumerate
<1>9. QED
  BY <1>7, <1>8 DEF NativeEnumerate

LEMMA HeapStep == Own /\ Heap /\ [Next]_vars => Heap'
<1> SUFFICES ASSUME Own, Heap, [Next]_vars PROVE Heap'
  OBVIOUS
<1>0. TypeOK /\ BusyHold /\ DllTypeOK /\ DOMAIN pc = Conns
      /\ names \in [Conns -> Addresses \cup {None}]
  BY DEF Own, TypeOK
<1>1. ASSUME NEW c \in Conns, Moves(c) PROVE Heap'
  <2>1. UNCHANGED <<blocks, corrupt, names, native>>
    BY <1>0, <1>1, MovesOn DEF dllVars, taskVars
  <2>2. /\ pc[c] \in {"reading", "accepting", "challenging"}
        /\ \E place \in {"reading", "leaving", "accepting", "restarting", "denied"} :
              Goto(c, place)
    BY <1>0, <1>1, MovesOn
  <2>3. \A d \in Conns : names[d] # None => pc'[d] \in {"copying", "freeing"}
    BY <1>0, <2>2 DEF Goto, Heap
  <2>4. \A d \in Conns : pc'[d] = "copying" => pc[d] = "copying"
    BY <1>0, <2>2 DEF Goto
  <2>5. QED
    BY <2>1, <2>3, <2>4, HeapKept
<1>2. ASSUME NEW c \in Conns, NEW id \in Ids, ReceiveAnswer(c, id) PROVE Heap'
  <2>1. UNCHANGED <<blocks, corrupt, names, native>>
    BY <1>2 DEF ReceiveAnswer, LastLeg, taskVars
  <2>2. pc[c] = "reading" /\ Goto(c, "querying")
    BY <1>2 DEF ReceiveAnswer
  <2>3. \A d \in Conns : names[d] # None => pc'[d] \in {"copying", "freeing"}
    BY <1>0, <2>2 DEF Goto, Heap
  <2>4. \A d \in Conns : pc'[d] = "copying" => pc[d] = "copying"
    BY <1>0, <2>2 DEF Goto
  <2>5. QED
    BY <2>1, <2>3, <2>4, HeapKept
<1>3. ASSUME NEW c \in Conns, Deletes(c) PROVE Heap'
  <2>1. UNCHANGED <<blocks, corrupt, names, native>>
    <3>1. UNCHANGED <<names, native>>
      BY <1>0, <1>3, DeletesOwn
    <3>2. UNCHANGED <<blocks, corrupt>>
      BY <1>0, <1>3, DeletesOwn, DeleteFacts DEF dllVars
    <3>3. QED
      BY <3>1, <3>2
  <2>2. /\ pc[c] \in {"restarting", "deleting", "denied", "disposing", "leaving"}
        /\ \E place \in {"accepting", "disposing", "leaving", "replying", "closed"} :
              Goto(c, place)
    BY <1>0, <1>3, DeletesOwn
  <2>3. \A d \in Conns : names[d] # None => pc'[d] \in {"copying", "freeing"}
    BY <1>0, <2>2 DEF Goto, Heap
  <2>4. \A d \in Conns : pc'[d] = "copying" => pc[d] = "copying"
    BY <1>0, <2>2 DEF Goto
  <2>5. QED
    BY <2>1, <2>3, <2>4, HeapKept
<1>4. ASSUME NEW c \in Conns, NEW h, Accept(c, h) PROVE Heap'
  <2>1. UNCHANGED <<blocks, corrupt, names, native>>
    BY <1>4 DEF Accept, FirstLeg
  <2>2. pc[c] = "accepting" /\ Goto(c, "challenging")
    BY <1>4 DEF Accept
  <2>3. \A d \in Conns : names[d] # None => pc'[d] \in {"copying", "freeing"}
    BY <1>0, <2>2 DEF Goto, Heap
  <2>4. \A d \in Conns : pc'[d] = "copying" => pc[d] = "copying"
    BY <1>0, <2>2 DEF Goto
  <2>5. QED
    BY <2>1, <2>3, <2>4, HeapKept
<1>5. ASSUME NEW c \in Conns, QueryName(c) PROVE Heap'
  <2>1. pc[c] = "querying" /\ Goto(c, "copying") /\ native' = native
    BY <1>5, QueryGets
  <2>2. PICK address \in Addresses :
           Query(context[c], address) /\ names' = [names EXCEPT ![c] = address]
    BY <1>5, QueryGets
  <2>3. /\ address \notin DOMAIN blocks
        /\ DOMAIN blocks' = DOMAIN blocks \cup {address}
        /\ corrupt' = corrupt
    BY <2>2 DEF Query, Allocate
  <2>4. /\ pc'[c] = "copying" /\ names'[c] = address /\ address # None
        /\ \A d \in Conns : d # c => names'[d] = names[d] /\ pc'[d] = pc[d]
    BY <1>0, <2>1, <2>2, NoneAssumption DEF Goto
  <2>5. /\ ~corrupt' /\ native'.blocks \subseteq DOMAIN blocks'
        /\ \A d \in Conns : names'[d] # None =>
              /\ pc'[d] \in {"copying", "freeing"}
              /\ names'[d] \in DOMAIN blocks' \ native'.blocks
        /\ \A d \in Conns : pc'[d] = "copying" => names'[d] # None
    BY <2>1, <2>3, <2>4 DEF Heap
  <2>6. \A d, e \in Conns : names'[d] # None /\ names'[d] = names'[e] => d = e
    BY <2>3, <2>4 DEF Heap
  <2>7. QED
    BY <2>5, <2>6 DEF Heap
<1>6. ASSUME NEW c \in Conns, CopyName(c) PROVE Heap'
  <2>1. UNCHANGED <<blocks, corrupt, names, native>>
    BY <1>6 DEF CopyName, dllVars
  <2>2. pc[c] = "copying" /\ Goto(c, "freeing")
    BY <1>6 DEF CopyName
  <2>3. \A d \in Conns : names[d] # None => pc'[d] \in {"copying", "freeing"}
    BY <1>0, <2>2 DEF Goto, Heap
  <2>4. \A d \in Conns : pc'[d] = "copying" => pc[d] = "copying"
    BY <1>0, <2>2 DEF Goto
  <2>5. QED
    BY <2>1, <2>3, <2>4, HeapKept
<1>7. ASSUME NEW c \in Conns, FreeName(c) PROVE Heap'
  <2>1. /\ pc[c] = "freeing" /\ Goto(c, "deleting") /\ native' = native
        /\ names' = [names EXCEPT ![c] = None]
    BY <1>7 DEF FreeName
  <2>2. /\ DOMAIN blocks' = DOMAIN blocks \ {names[c]}
        /\ corrupt' = corrupt
    <3>1. CASE names[c] = None
      <4>1. UNCHANGED <<blocks, corrupt>>
        BY <1>7, <3>1 DEF FreeName, dllVars
      <4>2. None \notin DOMAIN blocks
        BY <1>0, NoneAssumption DEF DllTypeOK
      <4>3. QED
        BY <3>1, <4>1, <4>2
    <3>2. CASE names[c] # None
      <4>1. names[c] \in DOMAIN blocks
        BY <3>2 DEF Heap
      <4>2. QED
        BY <1>0, <1>7, <3>2, <4>1 DEF FreeName, Free, DllTypeOK
    <3>3. QED
      BY <3>1, <3>2
  <2>3. /\ pc'[c] = "deleting" /\ names'[c] = None
        /\ \A d \in Conns : d # c => names'[d] = names[d] /\ pc'[d] = pc[d]
    BY <1>0, <2>1 DEF Goto
  <2>4. names[c] \notin native.blocks
    BY <1>0, NoneAssumption DEF Heap, TypeOK
  <2>5. \A d \in Conns : d # c /\ names[d] # None => names[d] # names[c]
    BY DEF Heap
  <2>6. /\ ~corrupt' /\ native'.blocks \subseteq DOMAIN blocks'
        /\ \A d \in Conns : names'[d] # None =>
              /\ pc'[d] \in {"copying", "freeing"}
              /\ names'[d] \in DOMAIN blocks' \ native'.blocks
        /\ \A d \in Conns : pc'[d] = "copying" => names'[d] # None
    BY <2>1, <2>2, <2>3, <2>4, <2>5 DEF Heap
  <2>7. \A d, e \in Conns : names'[d] # None /\ names'[d] = names'[e] => d = e
    BY <2>3 DEF Heap
  <2>8. QED
    BY <2>6, <2>7 DEF Heap
<1>8. ASSUME NEW c \in Conns, Reply(c) PROVE Heap'
  <2>1. UNCHANGED <<blocks, corrupt, names, native>>
    BY <1>8 DEF Reply, dllVars
  <2>2. pc[c] = "replying" /\ \E place \in {"reading", "leaving"} : Goto(c, place)
    BY <1>8 DEF Reply
  <2>3. \A d \in Conns : names[d] # None => pc'[d] \in {"copying", "freeing"}
    BY <1>0, <2>2 DEF Goto, Heap
  <2>4. \A d \in Conns : pc'[d] = "copying" => pc[d] = "copying"
    BY <1>0, <2>2 DEF Goto
  <2>5. QED
    BY <2>1, <2>3, <2>4, HeapKept
<1>9. ASSUME Native PROVE Heap'
  <2>0. UNCHANGED <<pc, names>>
    BY <1>9 DEF Native, NativeOpen, NativeComplete, NativeDelete, NativeQuery,
                NativeEnumerate, NativeFree, taskVars
  <2>7. /\ \A c \in Conns : names[c] # None => pc'[c] \in {"copying", "freeing"}
        /\ \A c \in Conns : pc'[c] = "copying" => pc[c] = "copying"
    BY <2>0 DEF Heap
  <2>1. ASSUME \/ \E p \in Packages, role \in Roles :
                     \E h \in Handle, id \in Identities(p) : NativeOpen(p, role, h, id)
               \/ \E p \in Packages :
                     \E h \in native.contexts, id \in Identities(p) :
                        NativeComplete(p, h, id)
               \/ \E h \in native.contexts : NativeDelete(h)
        PROVE  Heap'
    <3>1. UNCHANGED <<blocks, corrupt>>
      BY <2>1 DEF NativeOpen, NativeComplete, NativeDelete, FirstLeg, LastLeg, Delete
    <3>2. native'.blocks = native.blocks
      <4>1. native' = native \/ \E S : native' = [native EXCEPT !.contexts = S]
        BY <2>1 DEF NativeOpen, NativeComplete, NativeDelete
      <4>2. ASSUME NEW S, native' = [native EXCEPT !.contexts = S]
            PROVE  native'.blocks = native.blocks
        BY <4>2
      <4>3. QED
        BY <4>1, <4>2
    <3>3. QED
      BY <2>0, <2>7, <3>1, <3>2, HeapKept
  <2>2. ASSUME NEW address \in Addresses, address \notin DOMAIN blocks,
               native.blocks = {},
               DOMAIN blocks' = DOMAIN blocks \cup {address},
               corrupt' = corrupt,
               native' = [native EXCEPT !.blocks = {address}]
        PROVE  Heap'
    <3>1. native'.blocks = {address}
      BY <2>2
    <3>2. \A c \in Conns : names[c] # None => names[c] # address
      BY <2>2 DEF Heap
    <3>3. QED
      BY <2>0, <2>7, <2>2, <3>1, <3>2 DEF Heap
  <2>3. ASSUME NEW h \in native.contexts, NEW address \in Addresses,
               NativeQuery(h, address)
        PROVE  Heap'
    BY <2>2, <2>3 DEF NativeQuery, Query, Allocate
  <2>4. ASSUME NEW structs \in StructSizes, NEW address \in Addresses,
               NativeEnumerate(structs, address)
        PROVE  Heap'
    <3>1. corrupt' = corrupt
      BY <1>0, <2>4, EnumerateFits
    <3>2. QED
      BY <2>2, <2>4, <3>1 DEF NativeEnumerate, Enumerate, Allocate
  <2>5. ASSUME NEW address \in native.blocks, NativeFree(address) PROVE Heap'
    <3>1. address \in DOMAIN blocks /\ corrupt \in BOOLEAN
      BY <1>0 DEF Heap, DllTypeOK
    <3>2. DOMAIN blocks' = DOMAIN blocks \ {address} /\ corrupt' = corrupt
      BY <2>5, <3>1 DEF NativeFree, Free
    <3>3. native'.blocks = native.blocks \ {address}
      <4>1. native' = [native EXCEPT !.blocks = @ \ {address}]
        BY <2>5 DEF NativeFree
      <4>2. QED
        BY <4>1
    <3>4. \A c \in Conns : names[c] # None => names[c] # address
      BY DEF Heap
    <3>5. QED
      BY <2>0, <2>7, <3>2, <3>3, <3>4 DEF Heap
  <2>6. QED
    BY <1>0, <1>9, <2>1, <2>3, <2>4, <2>5, NativeCases
<1>10. ASSUME UNCHANGED vars PROVE Heap'
  <2>1. UNCHANGED <<blocks, corrupt, names, native, pc>>
    BY <1>10 DEF vars, dllVars, taskVars
  <2>2. QED
    BY <2>1 DEF Heap
<1>11. QED
  BY <1>1, <1>2, <1>3, <1>4, <1>5, <1>6, <1>7, <1>8, <1>9, <1>10
     DEF Next, Receive, Step, Moves, Deletes

\* Each block is freed once, by who has it, no pointer is freed that was never
\* written, and what EnumerateSecurityPackages writes fits.
THEOREM HeapAlwaysIntact == Spec => []HeapIntact
<1>1. Own /\ Heap => HeapIntact
  BY DEF Heap, HeapIntact
<1>2. QED
  BY <1>1, OwnInit, OwnStep, HeapInit, HeapStep, PTL DEF Spec

-------------------------------------------------------------------------------
(* The name.  From the accepted answer to the reply it is in the context, in the *)
(* block and in the task in turn, and always the one of the id proved.           *)

Passed == {"freeing", "deleting", "disposing", "replying"}

Ident ==
    /\ \A c \in Conns : pc[c] = "querying" =>
          proved[c] \in Ids /\ sessions["GateKeeper"][context[c]] = proved[c]
    /\ \A c \in Conns : pc[c] = "copying" =>
          proved[c] \in Ids /\ blocks[names[c]] = GuidText(proved[c])
    /\ \A c \in Conns : pc[c] \in Passed =>
          proved[c] \in Ids /\ username[c] = GuidText(proved[c])
    /\ \A a \in announced : a.id \in Ids /\ a.name = GuidText(a.id)

LEMMA IdentInit == Init => Ident
BY DEF Init, Ident, Passed

\* Steps that leave alone what a task has of its name: c is the task that moves,
\* to a place where it has none, or onwards with it.
LEMMA IdentKept ==
    ASSUME Ident, announced' = announced, proved' = proved, username' = username,
           \A c \in Conns : pc'[c] = "querying" =>
              /\ pc[c] = "querying"
              /\ sessions'["GateKeeper"][context'[c]] = sessions["GateKeeper"][context[c]],
           \A c \in Conns : pc'[c] = "copying" =>
              pc[c] = "copying" /\ blocks'[names'[c]] = blocks[names[c]],
           \A c \in Conns : pc'[c] \in Passed => pc[c] \in Passed
    PROVE  Ident'
BY DEF Ident, GuidText

\* The contexts that tasks ask about are there, and the blocks that they read.
LEMMA Reachable ==
    ASSUME Own, Heap, NEW c \in Conns
    PROVE  /\ pc[c] = "querying" => /\ context[c] \in DOMAIN sessions["GateKeeper"]
                                    /\ context[c] # None
                                    /\ context[c] \notin native.contexts
                                    /\ \A d \in Conns : context[c] = context[d] => c = d
           /\ pc[c] = "copying" => /\ names[c] \in DOMAIN blocks
                                   /\ names[c] # None
                                   /\ names[c] \notin native.blocks
                                   /\ \A d \in Conns : names[c] = names[d] => c = d
<1>1. pc[c] = "querying" => context[c] # None /\ context[c] \in DOMAIN sessions["GateKeeper"]
  BY NameFound DEF Own, BusyHold, Busy
<1>2. QED
  BY <1>1 DEF Own, ContextsOwned, Heap

LEMMA IdentStep == Own /\ Heap /\ Ident /\ [Next]_vars => Ident'
<1> SUFFICES ASSUME Own, Heap, Ident, [Next]_vars PROVE Ident'
  OBVIOUS
<1>0. /\ TypeOK /\ BusyHold /\ DllTypeOK /\ DOMAIN pc = Conns /\ DOMAIN context = Conns
      /\ DOMAIN username = Conns /\ DOMAIN proved = Conns /\ DOMAIN names = Conns
      /\ "GateKeeper" \in Packages
  BY DEF Own, TypeOK, Packages
<1>1. ASSUME NEW c \in Conns, Moves(c) PROVE Ident'
  <2>1. UNCHANGED <<sessions, blocks, names, context, username, proved, announced>>
    BY <1>0, <1>1, MovesOn DEF dllVars, taskVars, history
  <2>2. /\ pc[c] \in {"reading", "accepting", "challenging"}
        /\ \E place \in {"reading", "leaving", "accepting", "restarting", "denied"} :
              Goto(c, place)
    BY <1>0, <1>1, MovesOn
  <2>3. \A d \in Conns : pc'[d] = pc[d] \/ (d = c /\ pc'[d] \in
           {"reading", "leaving", "accepting", "restarting", "denied"})
    BY <1>0, <2>2 DEF Goto
  <2>4. QED
    BY <2>1, <2>3, IdentKept DEF Passed
<1>2. ASSUME NEW c \in Conns, NEW id \in Ids, ReceiveAnswer(c, id) PROVE Ident'
  <2>1. /\ LastLeg(Cred["GateKeeper"], context[c], id)
        /\ context[c] # None /\ Goto(c, "querying")
        /\ proved' = [proved EXCEPT ![c] = id]
        /\ UNCHANGED <<names, context, username, announced>>
    BY <1>2 DEF ReceiveAnswer, taskVars
  <2>2. context[c] \in Handle
    BY <1>0, <2>1 DEF TypeOK
  <2>3. /\ sessions'["GateKeeper"][context[c]] = id
        /\ \A x \in DOMAIN sessions["GateKeeper"] : x # context[c] =>
              sessions'["GateKeeper"][x] = sessions["GateKeeper"][x]
        /\ UNCHANGED blocks
    BY <1>0, <2>1, <2>2, LastLegFacts
  <2>4. /\ pc'[c] = "querying" /\ proved'[c] = id
        /\ \A d \in Conns : d # c => pc'[d] = pc[d] /\ proved'[d] = proved[d]
    BY <1>0, <2>1 DEF Goto
  <2>5. ASSUME NEW d \in Conns, pc'[d] = "querying"
        PROVE  proved'[d] \in Ids /\ sessions'["GateKeeper"][context'[d]] = proved'[d]
    <3>1. CASE d = c
      BY <3>1, <2>1, <2>3, <2>4
    <3>2. CASE d # c
      BY <3>2, <2>1, <2>3, <2>4, <2>5, Reachable DEF Ident
    <3>3. QED
      BY <3>1, <3>2
  <2>6. /\ \A d \in Conns : pc'[d] = "copying" =>
              proved'[d] \in Ids /\ blocks'[names'[d]] = GuidText(proved'[d])
        /\ \A d \in Conns : pc'[d] \in Passed =>
              proved'[d] \in Ids /\ username'[d] = GuidText(proved'[d])
        /\ \A a \in announced' : a.id \in Ids /\ a.name = GuidText(a.id)
    BY <2>1, <2>3, <2>4 DEF Ident, Passed
  <2>7. QED
    BY <2>5, <2>6 DEF Ident, GuidText
<1>3. ASSUME NEW c \in Conns, Deletes(c) PROVE Ident'
  <2>1. UNCHANGED <<names, username, proved, announced>>
    BY <1>0, <1>3, DeletesOwn DEF history
  <2>2. UNCHANGED blocks /\ \A x \in DOMAIN sessions["GateKeeper"] :
           x # context[c] => sessions'["GateKeeper"][x] = sessions["GateKeeper"][x]
    <3>1. CASE UNCHANGED dllVars
      BY <3>1 DEF dllVars
    <3>2. CASE context[c] \in Handle /\ Delete(context[c])
      BY <1>0, <3>2, DeleteFacts
    <3>3. QED
      BY <1>0, <1>3, <3>1, <3>2, DeletesOwn
  <2>3. PICK place \in Places :
           /\ Goto(c, place)
           /\ place \in {"accepting", "disposing", "leaving", "replying", "closed"}
           /\ place \in Passed => pc[c] \in Passed
           /\ \/ context' = [context EXCEPT ![c] = None]
              \/ context' = context
    BY <1>0, <1>3, DeletesOwn DEF Passed
  <2>4. /\ \A d \in Conns : d # c => pc'[d] = pc[d] /\ context'[d] = context[d]
        /\ pc'[c] = place
    BY <1>0, <2>3 DEF Goto
  <2>5. \A d \in Conns : pc'[d] = "querying" =>
           /\ pc[d] = "querying"
           /\ sessions'["GateKeeper"][context'[d]] = sessions["GateKeeper"][context[d]]
    BY <2>2, <2>3, <2>4, Reachable
  <2>6. \A d \in Conns : pc'[d] = "copying" => pc[d] = "copying"
    BY <2>3, <2>4
  <2>7. \A d \in Conns : pc'[d] \in Passed => pc[d] \in Passed
    BY <2>3, <2>4
  <2>8. QED
    BY <2>1, <2>2, <2>5, <2>6, <2>7, IdentKept
<1>4. ASSUME NEW c \in Conns, NEW h, Accept(c, h) PROVE Ident'
  <2>1. /\ FirstLeg(Cred["GateKeeper"], "server", h, ZeroId)
        /\ Goto(c, "challenging") /\ context' = [context EXCEPT ![c] = h]
        /\ UNCHANGED <<names, username, proved, announced>>
    BY <1>4 DEF Accept
  <2>2. UNCHANGED blocks
    BY <2>1 DEF FirstLeg
  <2>3. MakesNew("GateKeeper", h)
    BY <1>0, <2>1, FreshIsNew DEF Roles
  <2>4. \A x \in DOMAIN sessions["GateKeeper"] :
           x # h => sessions'["GateKeeper"][x] = sessions["GateKeeper"][x]
    BY <1>0, <2>1, CredHome DEF FirstLeg, Provider, DllTypeOK
  <2>5. \A d \in Conns : context[d] # h
    BY <2>3 DEF MakesNew
  <2>6. /\ \A d \in Conns : d # c => pc'[d] = pc[d] /\ context'[d] = context[d]
        /\ pc'[c] = "challenging"
    BY <1>0, <2>1 DEF Goto
  <2>7. \A d \in Conns : pc'[d] = "querying" =>
           /\ pc[d] = "querying"
           /\ sessions'["GateKeeper"][context'[d]] = sessions["GateKeeper"][context[d]]
    BY <2>4, <2>5, <2>6, Reachable
  <2>8. /\ \A d \in Conns : pc'[d] = "copying" => pc[d] = "copying"
        /\ \A d \in Conns : pc'[d] \in Passed => pc[d] \in Passed
    BY <2>6 DEF Passed
  <2>9. QED
    BY <2>1, <2>2, <2>7, <2>8, IdentKept
<1>5. ASSUME NEW c \in Conns, QueryName(c) PROVE Ident'
  <2>1. /\ pc[c] = "querying" /\ Goto(c, "copying")
        /\ UNCHANGED <<context, username, proved, announced>>
    BY <1>5, QueryGets DEF history
  <2>2. PICK address \in Addresses :
           Query(context[c], address) /\ names' = [names EXCEPT ![c] = address]
    BY <1>5, QueryGets
  <2>3. /\ blocks'[address] = GuidText(sessions["GateKeeper"][context[c]])
        /\ \A b \in DOMAIN blocks : blocks'[b] = blocks[b]
        /\ UNCHANGED sessions
    <3>1. NameOf(context[c]) = GuidText(sessions["GateKeeper"][context[c]])
      BY <2>1, NameFound
    <3>2. QED
      BY <2>2, <3>1 DEF Query, Allocate
  <2>4. /\ \A d \in Conns : d # c => pc'[d] = pc[d] /\ names'[d] = names[d]
        /\ pc'[c] = "copying" /\ names'[c] = address
    BY <1>0, <2>1, <2>2 DEF Goto
  <2>5. proved[c] \in Ids /\ sessions["GateKeeper"][context[c]] = proved[c]
    BY <2>1 DEF Ident
  <2>6. ASSUME NEW d \in Conns, pc'[d] = "copying"
        PROVE  proved[d] \in Ids /\ blocks'[names'[d]] = GuidText(proved[d])
    <3>1. CASE d = c
      BY <3>1, <2>3, <2>4, <2>5
    <3>2. CASE d # c
      BY <3>2, <2>3, <2>4, <2>6, Reachable DEF Ident
    <3>3. QED
      BY <3>1, <3>2
  <2>7. /\ \A d \in Conns : pc'[d] = "querying" =>
              proved[d] \in Ids /\ sessions["GateKeeper"][context[d]] = proved[d]
        /\ \A d \in Conns : pc'[d] \in Passed =>
              proved[d] \in Ids /\ username[d] = GuidText(proved[d])
        /\ \A a \in announced : a.id \in Ids /\ a.name = GuidText(a.id)
    BY <2>4 DEF Ident, Passed
  <2>8. QED
    BY <2>1, <2>3, <2>6, <2>7 DEF Ident, GuidText
<1>6. ASSUME NEW c \in Conns, CopyName(c) PROVE Ident'
  <2>1. /\ pc[c] = "copying" /\ Goto(c, "freeing")
        /\ UNCHANGED <<sessions, blocks, context, names, proved, announced>>
        /\ username' = [username EXCEPT ![c] =
               IF names[c] \in DOMAIN blocks THEN blocks[names[c]] ELSE None]
    BY <1>6 DEF CopyName, dllVars, history
  <2>2. names[c] \in DOMAIN blocks
    BY <2>1, Reachable
  <2>3. /\ \A d \in Conns : d # c => pc'[d] = pc[d] /\ username'[d] = username[d]
        /\ pc'[c] = "freeing" /\ username'[c] = blocks[names[c]]
    BY <1>0, <2>1, <2>2 DEF Goto
  <2>4. \A d \in Conns : pc'[d] \in Passed =>
           proved[d] \in Ids /\ username'[d] = GuidText(proved[d])
    BY <2>1, <2>3 DEF Ident
  <2>5. /\ \A d \in Conns : pc'[d] = "querying" =>
              proved[d] \in Ids /\ sessions["GateKeeper"][context[d]] = proved[d]
        /\ \A d \in Conns : pc'[d] = "copying" =>
              proved[d] \in Ids /\ blocks[names[d]] = GuidText(proved[d])
        /\ \A a \in announced : a.id \in Ids /\ a.name = GuidText(a.id)
    BY <2>3 DEF Ident
  <2>6. QED
    BY <2>1, <2>4, <2>5 DEF Ident, GuidText
<1>7. ASSUME NEW c \in Conns, FreeName(c) PROVE Ident'
  <2>1. /\ pc[c] = "freeing" /\ Goto(c, "deleting")
        /\ UNCHANGED <<sessions, context, username, proved, announced>>
        /\ names' = [names EXCEPT ![c] = None]
    BY <1>7 DEF FreeName, dllVars, Free, history
  <2>2. \A b \in DOMAIN blocks : b # names[c] => blocks'[b] = blocks[b]
    BY <1>7 DEF FreeName, dllVars, Free
  <2>3. /\ \A d \in Conns : d # c => pc'[d] = pc[d] /\ names'[d] = names[d]
        /\ pc'[c] = "deleting"
    BY <1>0, <2>1 DEF Goto
  <2>4. \A d \in Conns : pc'[d] = "copying" =>
           pc[d] = "copying" /\ blocks'[names'[d]] = blocks[names[d]]
    BY <2>2, <2>3, Reachable
  <2>5. /\ \A d \in Conns : pc'[d] = "querying" => pc[d] = "querying"
        /\ \A d \in Conns : pc'[d] \in Passed => pc[d] \in Passed
    BY <2>1, <2>3 DEF Passed
  <2>6. QED
    BY <2>1, <2>4, <2>5, IdentKept
<1>8. ASSUME NEW c \in Conns, Reply(c) PROVE Ident'
  <2>1. /\ pc[c] = "replying"
        /\ UNCHANGED <<sessions, blocks, context, names>>
        /\ username' = [username EXCEPT ![c] = None]
        /\ proved' = [proved EXCEPT ![c] = None]
        /\ \A a \in announced' :
              a \in announced \/ a = [name |-> username[c], id |-> proved[c]]
        /\ \E place \in {"reading", "leaving"} : Goto(c, place)
    BY <1>8 DEF Reply, dllVars
  <2>2. /\ \A d \in Conns : d # c =>
              pc'[d] = pc[d] /\ username'[d] = username[d] /\ proved'[d] = proved[d]
        /\ pc'[c] \in {"reading", "leaving"}
    BY <1>0, <2>1 DEF Goto
  <2>3. proved[c] \in Ids /\ username[c] = GuidText(proved[c])
    BY <2>1 DEF Ident, Passed
  <2>4. \A a \in announced' : a.id \in Ids /\ a.name = GuidText(a.id)
    BY <2>1, <2>3 DEF Ident
  <2>5. /\ \A d \in Conns : pc'[d] = "querying" =>
              proved'[d] \in Ids /\ sessions["GateKeeper"][context[d]] = proved'[d]
        /\ \A d \in Conns : pc'[d] = "copying" =>
              proved'[d] \in Ids /\ blocks[names[d]] = GuidText(proved'[d])
        /\ \A d \in Conns : pc'[d] \in Passed =>
              proved'[d] \in Ids /\ username'[d] = GuidText(proved'[d])
    BY <2>2 DEF Ident, Passed
  <2>6. QED
    BY <2>1, <2>4, <2>5 DEF Ident, GuidText
<1>9. ASSUME Native PROVE Ident'
  <2>0. UNCHANGED <<pc, context, names, username, proved, announced>>
    BY <1>9 DEF Native, NativeOpen, NativeComplete, NativeDelete, NativeQuery,
                NativeEnumerate, NativeFree, taskVars, history
  <2>1. ASSUME NEW h,
               \A c \in Conns : pc[c] = "querying" => context[c] # h,
               \A x \in DOMAIN sessions["GateKeeper"] :
                  x # h => sessions'["GateKeeper"][x] = sessions["GateKeeper"][x],
               UNCHANGED blocks
        PROVE  Ident'
    <3>1. \A c \in Conns : pc'[c] = "querying" =>
             /\ pc[c] = "querying"
             /\ sessions'["GateKeeper"][context'[c]] = sessions["GateKeeper"][context[c]]
      BY <2>0, <2>1, Reachable
    <3>2. QED
      BY <2>0, <2>1, <3>1, IdentKept
  <2>2. ASSUME NEW a,
               \A c \in Conns : pc[c] = "copying" => names[c] # a,
               \A b \in DOMAIN blocks : b # a => blocks'[b] = blocks[b],
               UNCHANGED sessions
        PROVE  Ident'
    <3>1. \A c \in Conns : pc'[c] = "copying" =>
             pc[c] = "copying" /\ blocks'[names'[c]] = blocks[names[c]]
      BY <2>0, <2>2, Reachable
    <3>2. QED
      BY <2>0, <2>2, <3>1, IdentKept
  <2>3. ASSUME NEW p \in Packages, NEW role \in Roles, NEW h \in Handle,
               NEW id \in Identities(p), NativeOpen(p, role, h, id)
        PROVE  Ident'
    <3>1. FirstLeg(Cred[p], role, h, id)
      BY <2>3 DEF NativeOpen
    <3>2. MakesNew(p, h)
      BY <3>1, FreshIsNew
    <3>3. \A x \in DOMAIN sessions["GateKeeper"] :
             x # h => sessions'["GateKeeper"][x] = sessions["GateKeeper"][x]
      BY <1>0, <3>1, CredHome DEF FirstLeg, Provider, DllTypeOK
    <3>4. QED
      BY <2>1, <3>1, <3>2, <3>3 DEF MakesNew, FirstLeg
  <2>4. ASSUME NEW p \in Packages, NEW h \in native.contexts,
               NEW id \in Identities(p), NativeComplete(p, h, id)
        PROVE  Ident'
    <3>1. h \in Handle /\ LastLeg(Cred[p], h, id)
      BY <1>0, <2>4 DEF NativeComplete, TypeOK
    <3>2. /\ \A x \in DOMAIN sessions["GateKeeper"] :
                x # h => sessions'["GateKeeper"][x] = sessions["GateKeeper"][x]
          /\ UNCHANGED blocks
      BY <1>0, <3>1, LastLegFacts
    <3>3. QED
      BY <2>1, <3>2, Reachable
  <2>5. ASSUME NEW h \in native.contexts, NativeDelete(h) PROVE Ident'
    <3>1. h \in Handle /\ Delete(h)
      BY <1>0, <2>5 DEF NativeDelete, TypeOK
    <3>2. /\ \A x \in DOMAIN sessions["GateKeeper"] :
                x # h => sessions'["GateKeeper"][x] = sessions["GateKeeper"][x]
          /\ UNCHANGED blocks
      BY <1>0, <3>1, DeleteFacts
    <3>3. QED
      BY <2>1, <3>2, Reachable
  <2>6. ASSUME NEW h \in native.contexts, NEW address \in Addresses,
               NativeQuery(h, address)
        PROVE  Ident'
    <3>1. /\ address \notin DOMAIN blocks
          /\ \A b \in DOMAIN blocks : blocks'[b] = blocks[b]
          /\ UNCHANGED sessions
      BY <2>6 DEF NativeQuery, Query, Allocate
    <3>2. QED
      BY <2>2, <3>1, Reachable
  <2>7. ASSUME NEW structs \in StructSizes, NEW address \in Addresses,
               NativeEnumerate(structs, address)
        PROVE  Ident'
    <3>1. /\ address \notin DOMAIN blocks
          /\ \A b \in DOMAIN blocks : blocks'[b] = blocks[b]
          /\ UNCHANGED sessions
      BY <2>7 DEF NativeEnumerate, Enumerate, Allocate
    <3>2. QED
      BY <2>2, <3>1, Reachable
  <2>8. ASSUME NEW address \in native.blocks, NativeFree(address) PROVE Ident'
    <3>1. /\ \A b \in DOMAIN blocks : b # address => blocks'[b] = blocks[b]
          /\ UNCHANGED sessions
      BY <2>8 DEF NativeFree, Free
    <3>2. QED
      BY <2>2, <3>1, Reachable
  <2>9. QED
    BY <1>0, <1>9, <2>3, <2>4, <2>5, <2>6, <2>7, <2>8, NativeCases
<1>10. ASSUME UNCHANGED vars PROVE Ident'
  <2>1. UNCHANGED <<sessions, blocks, pc, context, names, username, proved, announced>>
    BY <1>10 DEF vars, dllVars, taskVars, history
  <2>2. QED
    BY <2>1, IdentKept
<1>11. QED
  BY <1>1, <1>2, <1>3, <1>4, <1>5, <1>6, <1>7, <1>8, <1>9, <1>10
     DEF Next, Receive, Step, Moves, Deletes

-------------------------------------------------------------------------------
(* What the name says. *)

\* format_gatekeeper_id prints a GUID.
LEMMA PrintsGuid ==
    ASSUME NEW id
    PROVE  GuidText(id) = Guid(id)
<1> DEFINE order == <<3, 2, 1, 0, 5, 4, 7, 6, 8, 9, 10, 11, 12, 13, 14, 15>>
<1>1. \A i \in 1..16 :
         id[order[i]] = CASE i \in 1..4 -> id[4 - i]
                          [] i \in 5..6 -> id[10 - i]
                          [] i \in 7..8 -> id[14 - i]
                          [] i \in 9..16 -> id[i - 1]
  <2>1. \A i \in 1..4 : order[i] = 4 - i
    OBVIOUS
  <2>2. \A i \in 5..6 : order[i] = 10 - i
    OBVIOUS
  <2>3. \A i \in 7..8 : order[i] = 14 - i
    OBVIOUS
  <2>4. \A i \in 9..16 : order[i] = i - 1
    OBVIOUS
  <2> HIDE DEF order
  <2>5. QED
    BY <2>1, <2>2, <2>3, <2>4
<1>2. QED
  BY <1>1 DEF GuidText, Guid

\* Two ids have different GUIDs.
LEMMA GuidsDiffer ==
    ASSUME NEW a \in Ids, NEW b \in Ids, Guid(a) = Guid(b)
    PROVE  a = b
<1>1. \A k \in 0..15 : a[k] = b[k]
  <2>1. \A i \in 1..16 : Guid(a).hex[i] = Guid(b).hex[i]
    OBVIOUS
  <2>2. \A i \in 1..4 : Guid(a).hex[i] = a[4 - i] /\ Guid(b).hex[i] = b[4 - i]
    BY DEF Guid
  <2>3. \A i \in 5..6 : Guid(a).hex[i] = a[10 - i] /\ Guid(b).hex[i] = b[10 - i]
    BY DEF Guid
  <2>4. \A i \in 7..8 : Guid(a).hex[i] = a[14 - i] /\ Guid(b).hex[i] = b[14 - i]
    BY DEF Guid
  <2>5. \A i \in 9..16 : Guid(a).hex[i] = a[i - 1] /\ Guid(b).hex[i] = b[i - 1]
    BY DEF Guid
  <2> SUFFICES ASSUME NEW k \in 0..15 PROVE a[k] = b[k]
    OBVIOUS
  <2>6. CASE k \in 0..3
    <3>1. 4 - k \in 1..4 /\ 4 - (4 - k) = k
      BY <2>6
    <3>2. QED
      BY <2>1, <2>2, <3>1
  <2>7. CASE k \in 4..5
    <3>1. 10 - k \in 5..6 /\ 10 - (10 - k) = k
      BY <2>7
    <3>2. QED
      BY <2>1, <2>3, <3>1
  <2>8. CASE k \in 6..7
    <3>1. 14 - k \in 7..8 /\ 14 - (14 - k) = k
      BY <2>8
    <3>2. QED
      BY <2>1, <2>4, <3>1
  <2>9. CASE k \in 8..15
    <3>1. k + 1 \in 9..16 /\ (k + 1) - 1 = k
      BY <2>9
    <3>2. QED
      BY <2>1, <2>5, <3>1
  <2>10. QED
    BY <2>6, <2>7, <2>8, <2>9
<1>2. a = [i \in 0..15 |-> a[i]] /\ b = [i \in 0..15 |-> b[i]]
  BY IdAssumption
<1>3. QED
  BY <1>1, <1>2

\* A success names the id that was accepted on this very connection, and two ids
\* never go by one name.
THEOREM NamesAlwaysOwn == Spec => []NamesAreOwn
<1>1. Ident => NamesAreOwn
  <2> SUFFICES ASSUME Ident PROVE NamesAreOwn
    OBVIOUS
  <2>1. \A a \in announced : a.id \in Ids /\ a.name = Guid(a.id)
    BY PrintsGuid DEF Ident
  <2>2. \A a, b \in announced : a.name = b.name => a.id = b.id
    BY <2>1, GuidsDiffer
  <2>3. QED
    BY <2>1, <2>2 DEF NamesAreOwn
<1>2. QED
  BY <1>1, OwnInit, OwnStep, HeapInit, HeapStep, IdentInit, IdentStep, PTL DEF Spec
===============================================================================
