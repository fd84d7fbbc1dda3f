--------------------------- MODULE NtlmLogin_proofs ---------------------------
(* Proofs about NtlmLogin, for any names, domains, hashes and bounds.          *)
EXTENDS NtlmLogin, TLAPS

(* The tables that the calls build. *)

LEMMA NewSessionType ==
    ASSUME NEW c \in Challenges \cup {None}
    PROVE  NewSession(c) \in Session
BY DEF NewSession, Session

LEMMA NewSessionFields ==
    ASSUME NEW c
    PROVE  NewSession(c).server_challenge = c /\ NewSession(c).authenticated = None
BY DEF NewSession

\* The bookkeeping of an opening, common to both sides.
LEMMA Opened ==
    ASSUME TypeOK, NEW role \in {Client, Server}, NEW c \in Challenges \cup {None},
           NEW h, h = FreshHandle(role), sessions' = With(h, NewSession(c))
    PROVE  /\ h \in Handle
           /\ h.dw_lower = next_handle_id
           /\ DOMAIN sessions' = DOMAIN sessions \cup {h}
           /\ sessions'[h] = NewSession(c)
           /\ \A x \in DOMAIN sessions : x # h => sessions'[x] = sessions[x]
           /\ DOMAIN sessions' \subseteq Handle
           /\ \A x \in DOMAIN sessions' : sessions'[x] \in Session
<1>1. h \in Handle /\ h.dw_lower = next_handle_id
  BY DEF FreshHandle, Handle, TypeOK
<1>2. /\ DOMAIN sessions' = DOMAIN sessions \cup {h}
      /\ sessions'[h] = NewSession(c)
      /\ \A x \in DOMAIN sessions : x # h => sessions'[x] = sessions[x]
  BY DEF With
<1>3. NewSession(c) \in Session
  BY NewSessionType
<1>4. QED
  BY <1>1, <1>2, <1>3 DEF TypeOK

\* What an accepted answer had to be.
LEMMA OkMeans ==
    ASSUME NEW s, NEW answer, LoginStatus(s, answer) = "Ok"
    PROVE  /\ s.server_challenge # None
           /\ NameKey[answer.username] \in DOMAIN vault
           /\ \E d \in Candidates(vault[NameKey[answer.username]], answer.domain) :
                 answer.proof = Proof(NameKey[answer.username], d,
                                      vault[NameKey[answer.username]].nt_hash,
                                      s.server_challenge)
BY DEF LoginStatus

-------------------------------------------------------------------------------

\* The tables, the vault and the histories hold what they are meant to hold.
THEOREM TypeCorrect == Spec => []TypeOK
<1>1. Init => TypeOK
  BY DEF Init, TypeOK
<1>2. TypeOK /\ [Next]_vars => TypeOK'
  <2> SUFFICES ASSUME TypeOK, [Next]_vars PROVE TypeOK'
    OBVIOUS
  <2>1. CASE ClientOpen
    <3>1. PICK h : h = FreshHandle(Client)
      OBVIOUS
    <3>2. /\ DOMAIN sessions' \subseteq Handle
          /\ \A x \in DOMAIN sessions' : sessions'[x] \in Session
      BY <2>1, <3>1, Opened DEF ClientOpen
    <3>3. QED
      BY <2>1, <3>2 DEF ClientOpen, TypeOK, accounts
  <2>2. ASSUME NEW h \in DOMAIN sessions, ClientAnswer(h) PROVE TypeOK'
    BY <2>2 DEF ClientAnswer, TypeOK, Session, accounts
  <2>3. ASSUME NEW c \in Challenges \ challenges, ServerOpen(c) PROVE TypeOK'
    <3>1. PICK h : h = FreshHandle(Server)
      OBVIOUS
    <3>2. /\ DOMAIN sessions' \subseteq Handle
          /\ \A x \in DOMAIN sessions' : sessions'[x] \in Session
      BY <2>3, <3>1, Opened DEF ServerOpen
    <3>3. QED
      BY <2>3, <3>2 DEF ServerOpen, TypeOK, accounts
  <2>4. ASSUME NEW h \in DOMAIN sessions, NEW answer \in AnswersTo(challenges),
               ServerVerify(h, answer)
        PROVE  TypeOK'
    <3> DEFINE account == vault[NameKey[answer.username]]
    <3>1. account \in Account
      BY <2>4, OkMeans DEF ServerVerify, TypeOK
    <3>2. IdentityOf(account) \in Identity
      BY <3>1 DEF IdentityOf, Identity, Account
    <3>3. answer.proof \in Proofs(Challenges)
      BY DEF AnswersTo, Proofs, TypeOK
    <3> HIDE DEF account
    <3>4. [ctx |-> h, proof |-> answer.proof, account |-> account]
             \in [ctx: Handle, proof: Proofs(Challenges), account: Account]
      BY <3>1, <3>3 DEF TypeOK
    <3>5. /\ sessions' = [sessions EXCEPT ![h].authenticated = IdentityOf(account),
                                          ![h].engine = "second leg"]
          /\ logins' = logins \cup
               {[ctx |-> h, proof |-> answer.proof, account |-> account]}
          /\ UNCHANGED <<next_handle_id, challenges, accounts, deleted>>
      BY <2>4 DEF ServerVerify, account
    <3>6. /\ DOMAIN sessions' = DOMAIN sessions
          /\ \A x \in DOMAIN sessions' : sessions'[x] \in Session
      BY <3>2, <3>5 DEF TypeOK, Session
    <3>7. QED
      BY <3>4, <3>5, <3>6 DEF TypeOK, accounts
  <2>5. ASSUME NEW h \in DOMAIN sessions, ServerDeny(h) PROVE TypeOK'
    BY <2>5 DEF ServerDeny, TypeOK, Session, accounts
  <2>6. ASSUME NEW h \in DOMAIN sessions \cup deleted, Delete(h) PROVE TypeOK'
    BY <2>6 DEF Delete, Without, TypeOK, accounts
  <2>7. ASSUME NEW name \in Names, NEW hash \in Hashes, NEW level \in Levels,
               NEW domain \in Domains, SaveAccount(name, hash, level, domain)
        PROVE  TypeOK'
    <3>1. StoredDomain(domain) \in Domains
      BY DomainAssumption DEF StoredDomain
    <3>2. NameKey[name] \in Keys
      BY DEF Keys
    <3> DEFINE key == NameKey[name]
               account == [username |-> name, nt_hash |-> hash, level |-> level,
                           domain |-> StoredDomain(domain)]
    <3>3. account \in Account
      BY <3>1 DEF Account
    <3>4. /\ vault' = [k \in DOMAIN vault \cup {key} |->
                          IF k = key THEN account ELSE vault[k]]
          /\ saved' = saved \cup {[key |-> key, account |-> account]}
          /\ UNCHANGED <<table, challenges, logins>>
      BY <2>7 DEF SaveAccount
    <3>5. key \in Keys
      BY <3>2
    <3> HIDE DEF key, account
    <3>6. [key |-> key, account |-> account] \in [key: Keys, account: Account]
      BY <3>3, <3>5
    <3>7. /\ DOMAIN vault' \subseteq Keys
          /\ \A k \in DOMAIN vault' : vault'[k] \in Account
      BY <3>3, <3>4, <3>5 DEF TypeOK
    <3>8. QED
      BY <3>4, <3>6, <3>7 DEF TypeOK, table
  <2>8. ASSUME NEW key \in DOMAIN vault, DeleteAccount(key) PROVE TypeOK'
    BY <2>8 DEF DeleteAccount, TypeOK, table
  <2>9. CASE UNCHANGED vars
    BY <2>9 DEF vars, table, accounts, TypeOK
  <2>10. QED
    BY <2>1, <2>2, <2>3, <2>4, <2>5, <2>6, <2>7, <2>8, <2>9 DEF Next
<1>3. QED
  BY <1>1, <1>2, PTL DEF Spec

-------------------------------------------------------------------------------
(* The inductive invariant.  Handles that were given out lie below the counter; *)
(* a challenge that was drawn belongs to one session at most, even to those that *)
(* are gone, whose logins are remembered; accounts lie under their own name, with *)
(* a domain that folding leaves alone.                                          *)

Below ==
    \A h \in DOMAIN sessions \cup deleted \cup {a.ctx : a \in logins} :
        h.dw_lower < next_handle_id

OneSessionEach ==
    /\ \A h \in DOMAIN sessions :
          sessions[h].server_challenge \in challenges \cup {None}
    /\ \A g, h \in DOMAIN sessions :
          /\ sessions[g].server_challenge # None
          /\ sessions[g].server_challenge = sessions[h].server_challenge
          => g = h
    /\ \A a \in logins : a.proof.challenge \in challenges
    /\ \A a \in logins, h \in DOMAIN sessions :
          sessions[h].server_challenge = a.proof.challenge => h = a.ctx

VaultInOrder ==
    \A k \in DOMAIN vault :
        /\ NameKey[vault[k].username] = k
        /\ Folded[vault[k].domain] = vault[k].domain

IInv ==
    TypeOK /\ Below /\ OneSessionEach /\ VaultInOrder /\ AnswerFitsOneContext

LEMMA OpenInductive ==
    ASSUME IInv, TypeOK', NEW role \in {Client, Server},
           NEW c \in (Challenges \ challenges) \cup {None},
           NEW h, h = FreshHandle(role), sessions' = With(h, NewSession(c)),
           next_handle_id' = next_handle_id + 1,
           challenges' = challenges \cup ({c} \ {None}),
           UNCHANGED <<accounts, logins, deleted>>
    PROVE  IInv'
<1> USE DEF IInv
<1>1. /\ h.dw_lower = next_handle_id
      /\ DOMAIN sessions' = DOMAIN sessions \cup {h}
      /\ sessions'[h] = NewSession(c)
      /\ \A x \in DOMAIN sessions : x # h => sessions'[x] = sessions[x]
  BY Opened
<1>2. h \notin DOMAIN sessions
  BY <1>1 DEF TypeOK, Below
<1>3. Below'
  <2>1. \A x \in DOMAIN sessions \cup deleted \cup {a.ctx : a \in logins} :
           x \in Handle
    BY DEF TypeOK
  <2>2. \A x \in Handle : x.dw_lower \in Nat
    BY DEF Handle
  <2>3. next_handle_id \in Nat
    BY DEF TypeOK
  <2>4. QED
    BY <1>1, <2>1, <2>2, <2>3 DEF Below
<1>4. sessions'[h].server_challenge = c
  BY <1>1, NewSessionFields
<1>5. None \notin challenges
  BY NoneAssumption DEF TypeOK
<1>6. OneSessionEach'
  <2>1. \A x \in DOMAIN sessions' :
           sessions'[x].server_challenge \in challenges' \cup {None}
    BY <1>1, <1>2, <1>4 DEF OneSessionEach
  <2>2. \A x \in DOMAIN sessions : sessions'[x] = sessions[x]
    BY <1>1, <1>2
  <2>3. \A x \in DOMAIN sessions : c # None =>
           sessions[x].server_challenge # c
    BY <1>5 DEF OneSessionEach
  <2>4. \A x, y \in DOMAIN sessions' :
           /\ sessions'[x].server_challenge # None
           /\ sessions'[x].server_challenge = sessions'[y].server_challenge
           => x = y
    BY <1>1, <1>4, <2>2, <2>3 DEF OneSessionEach
  <2>5. \A a \in logins : a.proof.challenge \in challenges
           /\ a.proof.challenge # c
    BY <1>5 DEF OneSessionEach
  <2>6. \A a \in logins', x \in DOMAIN sessions' :
           sessions'[x].server_challenge = a.proof.challenge => x = a.ctx
    BY <1>1, <1>4, <2>2, <2>5 DEF OneSessionEach
  <2>7. QED
    BY <2>1, <2>4, <2>5, <2>6 DEF OneSessionEach
<1>7. VaultInOrder' /\ AnswerFitsOneContext'
  BY DEF VaultInOrder, AnswerFitsOneContext, accounts
<1>8. QED
  BY <1>3, <1>6, <1>7

LEMMA VerifyInductive ==
    ASSUME IInv, TypeOK', NEW h \in DOMAIN sessions,
           NEW answer \in AnswersTo(challenges), ServerVerify(h, answer)
    PROVE  IInv'
<1> USE DEF IInv
<1> DEFINE account == vault[NameKey[answer.username]]
           login == [ctx |-> h, proof |-> answer.proof, account |-> account]
           c == sessions[h].server_challenge
<1>1. c # None /\ answer.proof.challenge = c
  <2>1. LoginStatus(sessions[h], answer) = "Ok"
    BY DEF ServerVerify
  <2>2. PICK d : answer.proof = Proof(NameKey[answer.username], d,
                                      account.nt_hash, c)
    BY <2>1, OkMeans
  <2>3. answer.proof.challenge = c
    BY <2>2 DEF Proof
  <2>4. QED
    BY <2>1, <2>3, OkMeans
<1>2. /\ sessions' = [sessions EXCEPT ![h].authenticated = IdentityOf(account),
                                      ![h].engine = "second leg"]
      /\ logins' = logins \cup {login}
      /\ UNCHANGED <<next_handle_id, challenges, accounts, deleted>>
  BY DEF ServerVerify
<1>3. login.ctx = h /\ login.proof.challenge = c
  BY <1>1
<1>4. /\ DOMAIN sessions' = DOMAIN sessions
      /\ \A x \in DOMAIN sessions :
            sessions'[x].server_challenge = sessions[x].server_challenge
  BY <1>2 DEF TypeOK, Session
<1>5. c \in challenges
  BY <1>1 DEF OneSessionEach
<1> HIDE DEF login, account
<1>6. Below'
  BY <1>2, <1>3, <1>4 DEF Below
<1>7. \A a \in logins : a.proof.challenge = c => a.ctx = h
  BY DEF OneSessionEach
<1>8. OneSessionEach'
  <2>1. \A x \in DOMAIN sessions' :
           sessions'[x].server_challenge = c => x = h
    BY <1>1, <1>4 DEF OneSessionEach
  <2> HIDE DEF c
  <2>2. QED
    BY <1>2, <1>3, <1>4, <1>5, <2>1 DEF OneSessionEach
<1>9. AnswerFitsOneContext'
  <2> HIDE DEF c
  <2>1. QED
    BY <1>2, <1>3, <1>7 DEF AnswerFitsOneContext
<1>10. VaultInOrder'
  BY <1>2 DEF VaultInOrder, accounts
<1>11. QED
  BY <1>6, <1>8, <1>9, <1>10

\* Steps after which no session has another challenge than before, and in which
\* nobody logs in.
LEMMA QuietInductive ==
    ASSUME IInv, TypeOK',
           DOMAIN sessions' \subseteq DOMAIN sessions,
           \A x \in DOMAIN sessions' :
              sessions'[x].server_challenge = sessions[x].server_challenge,
           deleted' \subseteq deleted \cup DOMAIN sessions,
           UNCHANGED <<next_handle_id, challenges, logins>>
    PROVE  (Below /\ OneSessionEach /\ AnswerFitsOneContext)'
<1> USE DEF IInv
<1>1. Below'
  BY DEF Below
<1>2. OneSessionEach'
  BY DEF OneSessionEach
<1>3. QED
  BY <1>1, <1>2 DEF AnswerFitsOneContext

THEOREM Invariance == Spec => []IInv
<1>1. Init => IInv
  BY DEF Init, IInv, TypeOK, Below, OneSessionEach, VaultInOrder,
         AnswerFitsOneContext
<1>2. IInv /\ TypeOK' /\ [Next]_vars => IInv'
  <2> SUFFICES ASSUME IInv, TypeOK', [Next]_vars PROVE IInv'
    OBVIOUS
  <2> USE DEF IInv
  <2>1. CASE ClientOpen
    <3>1. PICK h : h = FreshHandle(Client)
      OBVIOUS
    <3>2. challenges' = challenges \cup ({None} \ {None})
      BY <2>1 DEF ClientOpen
    <3>3. QED
      BY <2>1, <3>1, <3>2, OpenInductive DEF ClientOpen
  <2>2. ASSUME NEW h \in DOMAIN sessions, ClientAnswer(h) PROVE IInv'
    <3>1. VaultInOrder'
      BY <2>2 DEF ClientAnswer, VaultInOrder, accounts
    <3>2. QED
      BY <2>2, <3>1, QuietInductive DEF ClientAnswer, TypeOK, Session
  <2>3. ASSUME NEW c \in Challenges \ challenges, ServerOpen(c) PROVE IInv'
    <3>1. PICK h : h = FreshHandle(Server)
      OBVIOUS
    <3>2. challenges' = challenges \cup ({c} \ {None})
      BY <2>3, NoneAssumption DEF ServerOpen
    <3>3. QED
      BY <2>3, <3>1, <3>2, OpenInductive DEF ServerOpen
  <2>4. ASSUME NEW h \in DOMAIN sessions, NEW answer \in AnswersTo(challenges),
               ServerVerify(h, answer)
        PROVE  IInv'
    BY <2>4, VerifyInductive
  <2>5. ASSUME NEW h \in DOMAIN sessions, ServerDeny(h) PROVE IInv'
    <3>1. VaultInOrder'
      BY <2>5 DEF ServerDeny, VaultInOrder, accounts
    <3>2. QED
      BY <2>5, <3>1, QuietInductive DEF ServerDeny, TypeOK, Session
  <2>6. ASSUME NEW h \in DOMAIN sessions \cup deleted, Delete(h) PROVE IInv'
    <3>1. VaultInOrder'
      BY <2>6 DEF Delete, VaultInOrder, accounts
    <3>2. QED
      BY <2>6, <3>1, QuietInductive DEF Delete, Without
  <2>7. ASSUME NEW name \in Names, NEW hash \in Hashes, NEW level \in Levels,
               NEW domain \in Domains, SaveAccount(name, hash, level, domain)
        PROVE  IInv'
    <3> DEFINE key == NameKey[name]
               account == [username |-> name, nt_hash |-> hash, level |-> level,
                           domain |-> StoredDomain(domain)]
    <3>1. Folded[StoredDomain(domain)] = StoredDomain(domain)
      BY DomainAssumption DEF StoredDomain
    <3>2. NameKey[account.username] = key /\ Folded[account.domain] = account.domain
      BY <3>1
    <3>3. /\ vault' = [k \in DOMAIN vault \cup {key} |->
                          IF k = key THEN account ELSE vault[k]]
          /\ UNCHANGED <<table, challenges, logins>>
      BY <2>7 DEF SaveAccount
    <3> HIDE DEF key, account
    <3>4. VaultInOrder'
      BY <3>2, <3>3 DEF VaultInOrder
    <3>5. QED
      BY <3>3, <3>4, QuietInductive DEF table
  <2>8. ASSUME NEW key \in DOMAIN vault, DeleteAccount(key) PROVE IInv'
    <3>1. VaultInOrder'
      BY <2>8 DEF DeleteAccount, VaultInOrder
    <3>2. QED
      BY <2>8, <3>1, QuietInductive DEF DeleteAccount, table
  <2>9. CASE UNCHANGED vars
    BY <2>9 DEF vars, table, accounts, Below, OneSessionEach, VaultInOrder,
                AnswerFitsOneContext
  <2>10. QED
    BY <2>1, <2>2, <2>3, <2>4, <2>5, <2>6, <2>7, <2>8, <2>9 DEF Next
<1>3. QED
  BY <1>1, <1>2, TypeCorrect, PTL DEF Spec

\* An answer logs in at one context at most, however often and wherever it is
\* delivered, even when its own context is long gone.
THEOREM AnswersFitOneContext == Spec => []AnswerFitsOneContext
<1>1. IInv => AnswerFitsOneContext
  BY DEF IInv
<1>2. QED
  BY <1>1, Invariance, PTL

\* Whoever was saved under a domain is let in with it in any spelling, and
\* whoever was saved without one with "" and ".".
THEOREM SavedCanAlwaysLogIn == Spec => []SavedCanLogIn
<1>1. TypeOK => SavedCanLogIn
  <2> SUFFICES ASSUME TypeOK, NEW k \in DOMAIN vault, NEW n \in Names,
                      NEW h \in DOMAIN sessions, NEW d \in Domains,
                      NEW e \in Domains, NameKey[n] = k,
                      sessions[h].server_challenge # None,
                      vault[k].domain = StoredDomain(d),
                      IF d \in NonExistent THEN e \in {Empty, Dot}
                                           ELSE Folded[e] = Folded[d]
               PROVE  LoginStatus(sessions[h],
                        [username |-> n, domain |-> e,
                         proof |-> Proof(k, e, vault[k].nt_hash,
                                         sessions[h].server_challenge)]) = "Ok"
    BY DEF SavedCanLogIn
  <2>1. e \in Candidates(vault[k], e)
    <3>1. CASE d \in NonExistent
      BY <3>1, DomainAssumption DEF StoredDomain, Candidates
    <3>2. CASE d \notin NonExistent
      <4>1. Folded[d] # Empty
        BY <3>2, DomainAssumption
      <4>2. vault[k].domain = Folded[d] /\ Folded[Folded[d]] = Folded[d]
        BY <3>2, DomainAssumption DEF StoredDomain
      <4>3. QED
        BY <3>2, <4>1, <4>2 DEF Candidates
    <3>3. QED
      BY <3>1, <3>2
  <2>2. QED
    BY <2>1 DEF LoginStatus
<1>2. QED
  BY <1>1, TypeCorrect, PTL

-------------------------------------------------------------------------------
(* The refinement. *)

Map == [h \in DOMAIN sessions |->
           [scope |-> sessions[h].server_challenge,
            identity |-> sessions[h].authenticated]]

LEMMA OpenStep ==
    ASSUME IInv, NEW role \in {Client, Server}, NEW c \in Challenges \cup {None},
           NEW h, h = FreshHandle(role), sessions' = With(h, NewSession(c)),
           UNCHANGED <<logins, deleted>>
    PROVE  Contexts!Next
<1>1. /\ h \in Handle
      /\ h.dw_lower = next_handle_id
      /\ DOMAIN sessions' = DOMAIN sessions \cup {h}
      /\ sessions'[h] = NewSession(c)
      /\ \A x \in DOMAIN sessions : x # h => sessions'[x] = sessions[x]
  BY Opened DEF IInv
<1>2. h \notin DOMAIN sessions \cup deleted
  <2>1. next_handle_id \in Nat
    BY DEF IInv, TypeOK
  <2>2. QED
    BY <1>1, <2>1 DEF IInv, Below
<1>3. [scope |-> sessions'[h].server_challenge,
       identity |-> sessions'[h].authenticated] = [scope |-> c, identity |-> None]
  BY <1>1, NewSessionFields
<1>4. Map' = [x \in DOMAIN Map \cup {h} |->
                IF x = h THEN [scope |-> c, identity |-> None] ELSE Map[x]]
  BY <1>1, <1>2, <1>3 DEF Map
<1>5. Contexts!Open(h)
  BY <1>1, <1>2, <1>4 DEF Contexts!Open, Map
<1>6. QED
  BY <1>1, <1>5 DEF Contexts!Next

LEMMA VerifyStep ==
    ASSUME IInv, NEW h \in DOMAIN sessions, NEW answer \in AnswersTo(challenges),
           ServerVerify(h, answer)
    PROVE  Contexts!Next
<1> USE DEF IInv
<1> DEFINE key == NameKey[answer.username]
           account == vault[key]
           login == [ctx |-> h, proof |-> answer.proof, account |-> account]
           c == sessions[h].server_challenge
           id == IdentityOf(account)
<1>1. key \in DOMAIN vault /\ account \in Account /\ NameKey[account.username] = key
      /\ Folded[account.domain] = account.domain
  BY OkMeans DEF ServerVerify, TypeOK, VaultInOrder
<1>2. PICK d \in Candidates(account, answer.domain) :
         answer.proof = Proof(key, d, account.nt_hash, c)
  BY OkMeans DEF ServerVerify
<1>3. NtlmCovers(login, c, id)
  <2>1. IF account.domain = Empty THEN d \in {Empty, Dot}
                                  ELSE Folded[d] = account.domain
    BY <1>1, <1>2 DEF Candidates
  <2>2. login.proof = Proof(key, d, account.nt_hash, c) /\ login.account = account
    BY <1>2
  <2> HIDE DEF login, account, key, c
  <2>3. QED
    BY <1>1, <2>1, <2>2 DEF NtlmCovers, Proof
<1>4. id \in Identity
  BY <1>1 DEF IdentityOf, Identity, Account
<1>5. /\ sessions' = [sessions EXCEPT ![h].authenticated = id,
                                      ![h].engine = "second leg"]
      /\ logins' = logins \cup {login}
      /\ UNCHANGED deleted
  BY DEF ServerVerify
<1> HIDE DEF login, id
<1>6. /\ DOMAIN sessions' = DOMAIN sessions
      /\ \A x \in DOMAIN sessions : x # h => sessions'[x] = sessions[x]
      /\ sessions'[h].server_challenge = sessions[h].server_challenge
      /\ sessions'[h].authenticated = id
  BY <1>5 DEF TypeOK, Session
<1>7. Map' = [Map EXCEPT ![h].identity = id]
  BY <1>6 DEF Map
<1>8. Map[h].scope = c
  BY DEF Map
<1>9. \E p \in logins' : NtlmCovers(p, Map[h].scope, id)
  <2> HIDE DEF c
  <2>1. login \in logins'
    BY <1>5
  <2>2. QED
    BY <1>3, <1>8, <2>1
<1>10. Contexts!Complete(h)
  BY <1>4, <1>5, <1>6, <1>7, <1>9 DEF Contexts!Complete, Map
<1>11. QED
  BY <1>10 DEF Contexts!Next

LEMMA RefinementStep ==
    ASSUME IInv, [Next]_vars
    PROVE  [Contexts!Next]_Contexts!vars
<1> USE DEF IInv
<1>1. CASE ClientOpen
  <2>1. PICK h : h = FreshHandle(Client)
    OBVIOUS
  <2>2. QED
    BY <1>1, <2>1, OpenStep DEF ClientOpen
<1>2. ASSUME NEW c \in Challenges \ challenges, ServerOpen(c)
      PROVE  Contexts!Next
  <2>1. PICK h : h = FreshHandle(Server)
    OBVIOUS
  <2>2. QED
    BY <1>2, <2>1, OpenStep DEF ServerOpen
<1>3. ASSUME NEW h \in DOMAIN sessions, ClientAnswer(h) \/ ServerDeny(h)
      PROVE  UNCHANGED Contexts!vars
  <2>1. /\ DOMAIN sessions' = DOMAIN sessions
        /\ \A x \in DOMAIN sessions :
              /\ sessions'[x].server_challenge = sessions[x].server_challenge
              /\ sessions'[x].authenticated = sessions[x].authenticated
    <3>1. sessions' = [sessions EXCEPT ![h].engine = "second leg"]
      BY <1>3 DEF ClientAnswer, ServerDeny
    <3>2. QED
      BY <3>1 DEF TypeOK, Session
  <2>2. UNCHANGED <<deleted, logins>>
    BY <1>3 DEF ClientAnswer, ServerDeny
  <2>3. QED
    BY <2>1, <2>2 DEF Contexts!vars
<1>4. ASSUME NEW h \in DOMAIN sessions \cup deleted, Delete(h)
      PROVE  Contexts!Next
  <2>1. /\ DOMAIN sessions' = DOMAIN sessions \ {h}
        /\ \A x \in DOMAIN sessions' : sessions'[x] = sessions[x]
        /\ DOMAIN sessions' \cup deleted' = DOMAIN sessions \cup deleted
        /\ UNCHANGED logins
    BY <1>4 DEF Delete, Without
  <2>2. Contexts!Close(h)
    BY <2>1 DEF Contexts!Close
  <2>3. QED
    BY <2>2 DEF Contexts!Next
<1>5. ASSUME NEW name \in Names, NEW hash \in Hashes, NEW level \in Levels,
             NEW domain \in Domains, SaveAccount(name, hash, level, domain)
      PROVE  UNCHANGED Contexts!vars
  BY <1>5 DEF SaveAccount, table, Contexts!vars
<1>6. ASSUME NEW key \in DOMAIN vault, DeleteAccount(key)
      PROVE  UNCHANGED Contexts!vars
  BY <1>6 DEF DeleteAccount, table, Contexts!vars
<1>7. CASE UNCHANGED vars
  BY <1>7 DEF vars, table, Contexts!vars
<1>8. QED
  BY <1>1, <1>2, <1>3, <1>4, <1>5, <1>6, <1>7, VerifyStep DEF Next

\* The provider implements the abstract one, whoever saves and deletes accounts
\* between the calls: an identity comes with a proof over the challenge of its
\* context, made with the hash and for the domain of the account it names.
THEOREM Implements == Spec => ImplementsContexts
<1>1. Init => Contexts!Init
  BY DEF Init, Contexts!Init
<1>2. QED
  BY <1>1, RefinementStep, Invariance, PTL
     DEF Spec, ImplementsContexts, Contexts!Spec
===============================================================================
