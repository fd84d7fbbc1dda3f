--------------------------- MODULE GateKeeper_proofs ---------------------------
(* Proofs about GateKeeper, for every choice of its constants.  Types and     *)
(* handles come first; what is known of the tokens in circulation (Provenance)*)
(* then gives the properties of the sessions that were completed.             *)
EXTENDS GateKeeper, TLAPS

-------------------------------------------------------------------------------
(* Facts about the operators the calls are built from. *)

\* A session put into the table is found there, the others stay as they are.
LEMMA WithLookup ==
    ASSUME NEW h, NEW s
    PROVE  /\ DOMAIN With(h, s) = DOMAIN sessions \cup {h}
           /\ With(h, s)[h] = s
           /\ \A x \in DOMAIN sessions : x # h => With(h, s)[x] = sessions[x]
BY DEF With

\* Deleting removes the one session and leaves the others as they are.
LEMMA WithoutLookup ==
    ASSUME NEW h
    PROVE  /\ DOMAIN Without(h) = DOMAIN sessions \ {h}
           /\ \A x \in DOMAIN sessions \ {h} : Without(h)[x] = sessions[x]
BY DEF Without

\* A signature is made of a challenge and of a hostname.
LEMMA HmacType ==
    ASSUME NEW c \in Challenges, NEW host \in Hosts, NEW v \in Nat
    PROVE  ClientHmac(c, host, v) \in Signature
BY HostAssumption DEF ClientHmac, Signature

\* Both sides compute alike: the server expects what the client signs, for two
\* hostnames that are equal up to the bytes that are signed.
LEMMA HmacsAgree ==
    ASSUME NEW c, NEW host, NEW other, NEW v,
           v >= 3 => Truncated[host] = Truncated[other]
    PROVE  ClientHmac(c, host, v) = ServerHmac(c, other, v)
BY DEF ClientHmac, ServerHmac

\* What the client builds is an answer token of the version it was asked for.
LEMMA AnswerTokenType ==
    ASSUME NEW v \in Nat, NEW m \in Signature, NEW id \in Ids
    PROVE  /\ AnswerToken(v, m, id) \in AnswerTokens
           /\ AnswerToken(v, m, id).version = v
           /\ AnswerToken(v, m, id).hmac = m
           /\ AnswerToken(v, m, id).step = 3
           /\ v = 1 => AnswerToken(v, m, id).len = 32
           /\ v # 1 => AnswerToken(v, m, id).len = 48
<1>1. CASE v = 1
  BY <1>1 DEF AnswerToken, AnswerTokens
<1>2. CASE v # 1
  BY <1>2 DEF AnswerToken, AnswerTokens
<1>3. QED
  BY <1>1, <1>2

\* The three kinds of token tell themselves apart by their length.
LEMMA TokenLengths ==
    ASSUME TypeOK, NEW t \in Produced
    PROVE  \/ t \in OpeningTokens /\ t \in tokens /\ t.len = 16
           \/ t \in ChallengeTokens /\ t \in tokens /\ t.len = 24
           \/ /\ t \in AnswerTokens /\ t.len \in {32, 48}
              /\ \E r \in answers : r.token = t
<1>1. CASE t \in tokens
  BY <1>1 DEF TypeOK, OpeningTokens, ChallengeTokens
<1>2. CASE \E r \in answers : r.token = t
  BY <1>2 DEF TypeOK, Answers, AnswerTokens
<1>3. QED
  BY <1>1, <1>2 DEF Produced

\* The checks on the length see to it that a token which a short buffer has cut
\* is refused wherever it is delivered: what a call takes was produced as it is.
LEMMA CutRefused ==
    ASSUME TypeOK, NEW t \in Delivered
    PROVE  /\ t.len >= 16 /\ t.step = 1 => t \in Produced
           /\ ChallengeStatus(t) = "Ok" => t \in Produced
           /\ \A s : IsWellFormedAnswer(s, t) => t \in Produced
<1>1. CASE t \in Produced
  BY <1>1
<1>2. ASSUME NEW u \in Produced, NEW n \in ShortBuffers, n < u.len, t = Cut(u, n)
      PROVE  /\ ~(t.len >= 16 /\ t.step = 1)
             /\ ChallengeStatus(t) # "Ok"
             /\ \A s : ~IsWellFormedAnswer(s, t)
  <2>0. n \in Nat
    BY BufferAssumption
  <2>1. CASE u \in OpeningTokens
    <3>1. t.len = n /\ t.step = 1 /\ u.len = 16
      BY <1>2, <2>1 DEF Cut, OpeningTokens
    <3>2. QED
      BY <3>1, <2>0, <1>2 DEF ChallengeStatus, IsWellFormedAnswer
  <2>2. CASE u \in ChallengeTokens
    <3>1. t.len = n /\ t.step = 2 /\ u.len = 24
      BY <1>2, <2>2 DEF Cut, ChallengeTokens
    <3>2. QED
      BY <3>1, <2>0, <1>2 DEF ChallengeStatus, IsWellFormedAnswer
  <2>3. CASE u \in AnswerTokens
    <3>1. /\ t.len = n /\ t.step = 3 /\ t.version = u.version
          /\ u.version \in Nat
          /\ IF u.version = 1 THEN u.len = 32 ELSE u.len = 48
      BY <1>2, <2>3 DEF Cut, AnswerTokens
    <3>2. \A s : ~IsWellFormedAnswer(s, t)
      BY <3>1, <2>0, <1>2 DEF IsWellFormedAnswer, IsVersionOk
    <3>3. QED
      BY <3>1, <3>2 DEF ChallengeStatus
  <2>4. QED
    BY <2>1, <2>2, <2>3, TokenLengths
<1>3. QED
  BY <1>1, <1>2 DEF Delivered

\* A session accepts only an answer that some call of ClientAnswer signed.
LEMMA OkIsAnswer ==
    ASSUME TypeOK, NEW h \in DOMAIN sessions, NEW t \in Delivered,
           AnswerStatus(sessions[h], t) = "Ok"
    PROVE  /\ t \in AnswerTokens
           /\ \E r \in answers : r.token = t
           /\ IsWellFormedAnswer(sessions[h], t)
           /\ t.hmac = ServerHmac(sessions[h].challenge, sessions[h].hostname, t.version)
           /\ IdsFrom(t) \subseteq Ids
<1>1. IsWellFormedAnswer(sessions[h], t)
  BY DEF AnswerStatus
<1>2. t.hmac = ServerHmac(sessions[h].challenge, sessions[h].hostname, t.version)
  BY <1>1 DEF AnswerStatus
<1>3. t \in AnswerTokens /\ \E r \in answers : r.token = t
  BY <1>1, CutRefused, TokenLengths DEF IsWellFormedAnswer
<1>4. t.version \in Nat /\ t.version # 0
  BY <1>1, <1>3 DEF AnswerTokens, IsWellFormedAnswer, IsVersionOk
<1>5. t.version # 1 => t.len = 48
  BY <1>1, <1>4 DEF IsWellFormedAnswer
<1>6. t.version # 1 => t.id \in Ids
  BY <1>3, <1>5 DEF AnswerTokens
<1>7. QED
  BY <1>1, <1>2, <1>3, <1>6 DEF IdsFrom, Ids

-------------------------------------------------------------------------------
(* Types. *)

\* Every reachable state is well typed, whatever calls are made in whatever order.
THEOREM TypeCorrect == Spec => []TypeOK
<1>1. Init => TypeOK
  BY DEF Init, TypeOK
<1>2. TypeOK /\ [Next]_vars => TypeOK'
  <2> SUFFICES ASSUME TypeOK, [Next]_vars PROVE TypeOK'
    OBVIOUS
  <2>0. ASSUME NEW role \in {Client, Server}, NEW s \in Session,
               sessions' = With(FreshHandle(role), s)
        PROVE  /\ DOMAIN sessions' \subseteq Handle
               /\ \A x \in DOMAIN sessions' : sessions'[x] \in Session
    <3>1. FreshHandle(role) \in Handle
      BY DEF TypeOK, FreshHandle, Handle
    <3>2. /\ DOMAIN sessions' = DOMAIN sessions \cup {FreshHandle(role)}
          /\ sessions'[FreshHandle(role)] = s
          /\ \A x \in DOMAIN sessions :
                x # FreshHandle(role) => sessions'[x] = sessions[x]
      BY <2>0 DEF With
    <3>3. QED
      BY <3>1, <3>2 DEF TypeOK
  <2>1. ASSUME NEW host \in OfferedHosts, NEW id \in ClientIds,
               NEW version \in OfferedVersions, ClientOpen(host, id, version)
        PROVE  TypeOK'
    <3> DEFINE s == [NewSession EXCEPT !.gatekeeper_id = id, !.hostname = host]
    <3>1. s \in Session
      BY HostAssumption DEF NewSession, Session, Ids, Challenges
    <3>2. sessions' = With(FreshHandle(Client), s)
      BY <2>1 DEF ClientOpen
    <3>3. /\ DOMAIN sessions' \subseteq Handle
          /\ \A x \in DOMAIN sessions' : sessions'[x] \in Session
      BY <3>1, <3>2, <2>0
    <3>4. OpeningToken(version) \in OpeningTokens
      BY DEF OpeningToken, OpeningTokens
    <3>5. QED
      BY <2>1, <3>3, <3>4 DEF TypeOK, ClientOpen
  <2>2. ASSUME NEW h \in Callable(Client), NEW token \in Delivered,
               ClientAnswer(h, token)
        PROVE  TypeOK'
    <3> DEFINE s == sessions[h]
               m == ClientHmac(token.challenge, s.hostname, token.version)
    <3>1. h \in DOMAIN sessions /\ h \in Handle /\ s \in Session
      BY DEF Callable, TypeOK
    <3>2. token \in ChallengeTokens
      BY <2>2, CutRefused, TokenLengths DEF ClientAnswer, ChallengeStatus
    <3>3. /\ token.version \in Nat
          /\ token.challenge \in Challenges
      BY <3>2, VersionAssumption DEF ChallengeTokens, Challenges
    <3>4. m \in Signature
      BY <3>1, <3>3, HmacType DEF Session
    <3>5. AnswerToken(token.version, m, s.gatekeeper_id) \in AnswerTokens
      BY <3>1, <3>3, <3>4, AnswerTokenType DEF Session
    <3>6. answers' \subseteq Answers
      BY <2>2, <3>1, <3>5 DEF ClientAnswer, Answers, TypeOK, Session
    <3>7. \A x \in DOMAIN sessions' : sessions'[x] \in Session
      BY <2>2, <3>1, <3>3 DEF ClientAnswer, TypeOK, Session
    <3>8. QED
      BY <2>2, <3>6, <3>7 DEF ClientAnswer, TypeOK
  <2>3. ASSUME NEW token \in Delivered, NEW host \in OfferedHosts,
               NEW allow \in BOOLEAN, ServerOpen(token, host, allow)
        PROVE  TypeOK'
    <3> DEFINE s == [NewSession EXCEPT !.hostname = host,
                   !.allow_older_versions = allow,
                   !.challenge = ServerChallenge]
    <3>1. s \in Session
      BY HostAssumption DEF NewSession, Session, Ids, Challenges
    <3>2. sessions' = With(FreshHandle(Server), s)
      BY <2>3 DEF ServerOpen
    <3>3. /\ DOMAIN sessions' \subseteq Handle
          /\ \A x \in DOMAIN sessions' : sessions'[x] \in Session
      BY <3>1, <3>2, <2>0
    <3>4. token.step = 1 /\ token \in Produced
      BY <2>3, CutRefused DEF ServerOpen, OpeningStatus
    <3>5. token \in OpeningTokens
      BY <3>4, TokenLengths DEF ChallengeTokens, AnswerTokens
    <3>6. ChallengeToken(token.version, ServerChallenge) \in ChallengeTokens
      BY <3>5 DEF ChallengeToken, ChallengeTokens, OpeningTokens
    <3>7. QED
      BY <2>3, <3>3, <3>6 DEF TypeOK, ServerOpen
  <2>4. ASSUME NEW h \in Callable(Server), NEW token \in Delivered,
               ServerVerify(h, token)
        PROVE  TypeOK'
    <3>1. h \in DOMAIN sessions /\ h \in Handle /\ sessions[h] \in Session
      BY DEF Callable, TypeOK
    <3>2. token \in AnswerTokens /\ IdsFrom(token) \subseteq Ids
      BY <2>4, <3>1, OkIsAnswer DEF ServerVerify
    <3>3. PICK id \in IdsFrom(token) :
            /\ sessions' = [sessions EXCEPT ![h].gatekeeper_id = id,
                                            ![h].is_step2_hmac_done = TRUE]
            /\ accepted' = accepted \cup
                  {[ctx |-> h, host |-> sessions[h].hostname, id |-> id,
                    compat |-> sessions[h].allow_older_versions,
                    token |-> token]}
      BY <2>4 DEF ServerVerify
    <3>4. \A x \in DOMAIN sessions' : sessions'[x] \in Session
      BY <3>1, <3>2, <3>3 DEF TypeOK, Session
    <3>5. accepted' \subseteq Acceptances
      BY <3>1, <3>2, <3>3 DEF TypeOK, Session, Acceptances
    <3>6. QED
      BY <2>4, <3>3, <3>4, <3>5 DEF TypeOK, ServerVerify
  <2>5. ASSUME NEW h \in DOMAIN sessions \cup deleted, Delete(h)
        PROVE  TypeOK'
    <3>1. DOMAIN sessions' \subseteq Handle
      BY <2>5, WithoutLookup DEF Delete, TypeOK
    <3>2. \A x \in DOMAIN sessions' : sessions'[x] \in Session
      BY <2>5, WithoutLookup DEF Delete, TypeOK
    <3>3. QED
      BY <2>5, <3>1, <3>2 DEF Delete, TypeOK
  <2>6. CASE UNCHANGED vars
    BY <2>6 DEF vars, TypeOK
  <2>7. QED
    BY <2>1, <2>2, <2>3, <2>4, <2>5, <2>6 DEF Next
<1>3. QED
  BY <1>1, <1>2, PTL DEF Spec

-------------------------------------------------------------------------------
(* Handles. *)

\* No handle id is handed out twice, and a deleted context does not come back:
\* what makes the unconditional success of DeleteSecurityContext harmless.
THEOREM HandlesNeverReused == Spec => []HandlesUnique
<1>1. Init => HandlesUnique
  BY DEF Init, HandlesUnique
<1>2. TypeOK /\ HandlesUnique /\ [Next]_vars => HandlesUnique'
  <2> SUFFICES ASSUME TypeOK, HandlesUnique, [Next]_vars PROVE HandlesUnique'
    OBVIOUS
  <2>1. ASSUME NEW role \in {Client, Server}, NEW s,
               sessions' = With(FreshHandle(role), s),
               next_handle_id' = next_handle_id + 1, UNCHANGED deleted
        PROVE  HandlesUnique'
    <3> DEFINE h == FreshHandle(role)
    <3>1. h.dw_lower = next_handle_id /\ next_handle_id \in Nat
      BY DEF FreshHandle, TypeOK
    <3>2. DOMAIN sessions' = DOMAIN sessions \cup {h}
      BY <2>1, WithLookup
    <3>3. \A g \in DOMAIN sessions \cup deleted :
             g \in Handle /\ g.dw_lower < h.dw_lower
      BY <3>1 DEF HandlesUnique, TypeOK
    <3>4. \A g \in DOMAIN sessions \cup deleted : g.dw_lower \in Nat
      BY <3>3 DEF Handle
    <3>5. QED
      BY <2>1, <3>1, <3>2, <3>3, <3>4 DEF HandlesUnique
  <2>2. CASE DOMAIN sessions' = DOMAIN sessions
             /\ UNCHANGED <<next_handle_id, deleted>>
    BY <2>2 DEF HandlesUnique
  <2>3. ASSUME NEW host, NEW id, NEW version, ClientOpen(host, id, version)
        PROVE  HandlesUnique'
    BY <2>1, <2>3 DEF ClientOpen
  <2>4. ASSUME NEW token, NEW host, NEW allow, ServerOpen(token, host, allow)
        PROVE  HandlesUnique'
    BY <2>1, <2>4 DEF ServerOpen
  <2>5. ASSUME NEW h, NEW token, ClientAnswer(h, token)
        PROVE  HandlesUnique'
    BY <2>2, <2>5 DEF ClientAnswer
  <2>6. ASSUME NEW h, NEW token, ServerVerify(h, token)
        PROVE  HandlesUnique'
    BY <2>2, <2>6 DEF ServerVerify
  <2>7. ASSUME NEW h \in DOMAIN sessions \cup deleted, Delete(h)
        PROVE  HandlesUnique'
    <3>1. /\ DOMAIN sessions' = DOMAIN sessions \ {h}
          /\ deleted' = deleted \cup {h}
          /\ next_handle_id' = next_handle_id
      BY <2>7, WithoutLookup DEF Delete
    <3>2. QED
      BY <3>1 DEF HandlesUnique
  <2>8. CASE UNCHANGED vars
    BY <2>2, <2>8 DEF vars
  <2>9. QED
    BY <2>3, <2>4, <2>5, <2>6, <2>7, <2>8 DEF Next
<1>3. QED
  BY <1>1, <1>2, TypeCorrect, PTL DEF Spec

-------------------------------------------------------------------------------
(* Where tokens, answers and identities come from. *)

\* What is known of the tokens in circulation and of the challenges in the
\* table: the part of the inductive invariant that is about single steps of the
\* handshake.
Provenance ==
    /\ \A t \in tokens : t.step = 2 => OpeningToken(t.version) \in tokens
    /\ \A r \in answers :
          /\ r.token.version \in 1..4
          /\ r.token.step = 3
          /\ r.token.version = 1 => r.token.len = 32
          /\ r.token.version # 1 => r.token.len = 48
          /\ r.token.hmac = ClientHmac(ServerChallenge, r.host, r.token.version)
          /\ ChallengeToken(r.token.version, ServerChallenge) \in tokens
    /\ \A h \in DOMAIN sessions :
          h.dw_upper = Server => sessions[h].challenge = ServerChallenge

\* What is known of the answers that completed a session.
Completed ==
    \A a \in accepted :
        /\ IsVersionOk(a.compat, a.token.version)
        /\ \E r \in answers :
              /\ r.token = a.token
              /\ a.token.version >= 3 => Truncated[r.host] = Truncated[a.host]
        /\ a.token.version # 1 => a.id = a.token.id

IInv == TypeOK /\ Provenance /\ Completed

\* The length of a challenge token decides what it is: it names a version some
\* client offered, and the one challenge the server knows.
LEMMA ChallengeOk ==
    ASSUME TypeOK, Provenance, NEW t \in Delivered, ChallengeStatus(t) = "Ok"
    PROVE  /\ t.version \in 1..4
           /\ t.challenge = ServerChallenge
           /\ ChallengeToken(t.version, ServerChallenge) \in tokens
           /\ OpeningToken(t.version) \in tokens
<1>1. t.version \in 1..4 /\ t.step = 2 /\ t.len = 24
  BY DEF ChallengeStatus
<1>2. t \in ChallengeTokens /\ t \in tokens
  BY <1>1, CutRefused, TokenLengths
<1>3. t = ChallengeToken(t.version, ServerChallenge)
  BY <1>2 DEF ChallengeTokens, ChallengeToken
<1>4. QED
  BY <1>1, <1>2, <1>3 DEF Provenance, ChallengeTokens

LEMMA ProvenanceInductive ==
    ASSUME TypeOK, TypeOK', Provenance, Next
    PROVE  Provenance'
<1>1. ASSUME NEW host \in OfferedHosts, NEW id \in ClientIds,
             NEW version \in OfferedVersions, ClientOpen(host, id, version)
      PROVE  Provenance'
  <2>1. /\ tokens' = tokens \cup {OpeningToken(version)}
        /\ answers' = answers
    BY <1>1 DEF ClientOpen
  <2>2. \A t \in tokens' : t.step = 2 => t \in tokens
    BY <2>1 DEF OpeningToken
  <2>3. \A h \in DOMAIN sessions' : h.dw_upper = Server =>
           h \in DOMAIN sessions /\ sessions'[h] = sessions[h]
    BY <1>1 DEF ClientOpen, With, FreshHandle, Client, Server
  <2>4. QED
    BY <2>1, <2>2, <2>3 DEF Provenance
<1>2. ASSUME NEW h \in Callable(Client), NEW t \in Delivered,
             ClientAnswer(h, t)
      PROVE  Provenance'
  <2> DEFINE s == sessions[h]
             m == ClientHmac(t.challenge, s.hostname, t.version)
             r == [signer |-> h, host |-> s.hostname,
                   token |-> AnswerToken(t.version, m, s.gatekeeper_id)]
  <2>1. /\ t.version \in 1..4
        /\ t.challenge = ServerChallenge
        /\ ChallengeToken(t.version, ServerChallenge) \in tokens
    BY <1>2, ChallengeOk DEF ClientAnswer
  <2>2. h \in DOMAIN sessions /\ s \in Session
    BY DEF Callable, TypeOK
  <2>3. m = ClientHmac(ServerChallenge, s.hostname, t.version) /\ m \in Signature
    BY <2>1, <2>2, HmacType DEF Session, Challenges
  <2>4. /\ r.token.version = t.version
        /\ r.token.hmac = m
        /\ r.token.step = 3
        /\ t.version = 1 => r.token.len = 32
        /\ t.version # 1 => r.token.len = 48
    <3> HIDE DEF m
    <3> QED
      BY <2>1, <2>2, <2>3, AnswerTokenType DEF Session
  <2>5. answers' = answers \cup {r} /\ tokens' = tokens
    BY <1>2 DEF ClientAnswer
  <2>6. r.host = s.hostname
    OBVIOUS
  <2>7. \A x \in answers' :
          /\ x.token.version \in 1..4
          /\ x.token.step = 3
          /\ x.token.version = 1 => x.token.len = 32
          /\ x.token.version # 1 => x.token.len = 48
          /\ x.token.hmac = ClientHmac(ServerChallenge, x.host, x.token.version)
          /\ ChallengeToken(x.token.version, ServerChallenge) \in tokens
    <3> HIDE DEF r, m, s
    <3> QED
      BY <2>1, <2>3, <2>4, <2>5, <2>6 DEF Provenance
  <2>8. \A x \in DOMAIN sessions' : x.dw_upper = Server =>
           sessions'[x].challenge = ServerChallenge
    BY <1>2, <2>1, <2>2 DEF ClientAnswer, Provenance, TypeOK, Session
  <2>9. QED
    BY <2>5, <2>7, <2>8 DEF Provenance
<1>3. ASSUME NEW t \in Delivered, NEW host \in OfferedHosts,
             NEW allow \in BOOLEAN, ServerOpen(t, host, allow)
      PROVE  Provenance'
  <2>1. t \in OpeningTokens /\ t \in tokens
    <3>1. t.step = 1 /\ t \in Produced
      BY <1>3, CutRefused DEF ServerOpen, OpeningStatus
    <3>2. QED
      BY <3>1, TokenLengths DEF ChallengeTokens, AnswerTokens
  <2>2. t = OpeningToken(t.version)
    BY <2>1 DEF OpeningTokens, OpeningToken
  <2>3. /\ tokens' = tokens \cup {ChallengeToken(t.version, ServerChallenge)}
        /\ answers' = answers
    BY <1>3 DEF ServerOpen
  <2>4. \A x \in tokens' : x.step = 2 => OpeningToken(x.version) \in tokens'
    BY <2>1, <2>2, <2>3 DEF Provenance, ChallengeToken
  <2>5. \A x \in DOMAIN sessions' : x.dw_upper = Server =>
           sessions'[x].challenge = ServerChallenge
    BY <1>3 DEF ServerOpen, With, NewSession, Provenance
  <2>6. QED
    BY <2>3, <2>4, <2>5 DEF Provenance
<1>4. ASSUME NEW h \in Callable(Server), NEW t \in Delivered,
             ServerVerify(h, t)
      PROVE  Provenance'
  <2>1. PICK id \in IdsFrom(t) :
           sessions' = [sessions EXCEPT ![h].gatekeeper_id = id,
                                        ![h].is_step2_hmac_done = TRUE]
    BY <1>4 DEF ServerVerify
  <2>2. \A x \in DOMAIN sessions' :
           sessions'[x].challenge = sessions[x].challenge
    BY <2>1 DEF Callable, TypeOK, Session
  <2>3. QED
    BY <1>4, <2>1, <2>2 DEF ServerVerify, Provenance
<1>5. ASSUME NEW h \in DOMAIN sessions \cup deleted, Delete(h)
      PROVE  Provenance'
  <2>1. \A x \in DOMAIN sessions' :
           x \in DOMAIN sessions /\ sessions'[x] = sessions[x]
    BY <1>5, WithoutLookup DEF Delete
  <2>2. QED
    BY <1>5, <2>1 DEF Delete, Provenance
<1>6. QED
  BY <1>1, <1>2, <1>3, <1>4, <1>5 DEF Next

LEMMA CompletedInductive ==
    ASSUME TypeOK, Provenance, Completed, Next
    PROVE  Completed'
<1>1. CASE UNCHANGED accepted /\ answers \subseteq answers'
  BY <1>1 DEF Completed
<1>2. ASSUME NEW h \in Callable(Server), NEW t \in Delivered,
             ServerVerify(h, t)
      PROVE  Completed'
  <2> DEFINE s == sessions[h]
  <2>1. h \in DOMAIN sessions /\ AnswerStatus(s, t) = "Ok"
    BY <1>2 DEF ServerVerify, Callable
  <2>2. /\ IsVersionOk(s.allow_older_versions, t.version)
        /\ t.hmac = ServerHmac(s.challenge, s.hostname, t.version)
    BY <2>1, OkIsAnswer DEF IsWellFormedAnswer
  <2>3. PICK r \in answers : r.token = t
    BY <2>1, OkIsAnswer
  <2>4. t.hmac = ClientHmac(ServerChallenge, r.host, t.version)
    BY <2>3 DEF Provenance
  <2>5. t.version >= 3 => Truncated[r.host] = Truncated[s.hostname]
    BY <2>2, <2>4 DEF ClientHmac, ServerHmac
  <2>6. PICK id \in IdsFrom(t) :
           accepted' = accepted \cup
              {[ctx |-> h, host |-> s.hostname, id |-> id,
                compat |-> s.allow_older_versions, token |-> t]}
    BY <1>2 DEF ServerVerify
  <2>7. t.version # 1 => id = t.id
    BY <2>6 DEF IdsFrom
  <2>8. answers' = answers
    BY <1>2 DEF ServerVerify
  <2>9. QED
    BY <2>2, <2>3, <2>5, <2>6, <2>7, <2>8 DEF Completed
<1>3. QED
  BY <1>1, <1>2 DEF Next, ClientOpen, ClientAnswer, ServerOpen, Delete

\* The inductive invariant holds of every reachable state.
THEOREM Invariance == Spec => []IInv
<1>1. Init => Provenance /\ Completed
  BY DEF Init, Provenance, Completed
<1>2. TypeOK /\ TypeOK' /\ Provenance /\ Completed /\ [Next]_vars
      => Provenance' /\ Completed'
  <2>1. CASE UNCHANGED vars
    BY <2>1 DEF vars, Provenance, Completed
  <2>2. QED
    BY <2>1, ProvenanceInductive, CompletedInductive
<1>3. QED
  BY <1>1, <1>2, TypeCorrect, PTL DEF Spec, IInv

-------------------------------------------------------------------------------
(* What the inductive invariant says of completed sessions. *)

\* A version 3 or 4 session completes only on an answer signed for its own
\* hostname, and takes over that signer's id.
THEOREM HostsAreBound == Spec => []HostBinding
<1>1. IInv => HostBinding
  <2> SUFFICES ASSUME IInv, NEW a \in accepted, a.token.version >= 3
               PROVE  \E r \in answers :
                         /\ r.token = a.token
                         /\ Truncated[r.host] = Truncated[a.host]
                         /\ a.id = r.token.id
    BY DEF HostBinding
  <2>1. PICK r \in answers :
           r.token = a.token /\ Truncated[r.host] = Truncated[a.host]
    BY DEF IInv, Completed
  <2>2. a.token.version # 1
    BY <2>1 DEF IInv, Provenance
  <2>3. QED
    BY <2>1, <2>2 DEF IInv, Completed
<1>2. QED
  BY <1>1, Invariance, PTL

\* The compatibility flag of the opening governs the answer that completes.
THEOREM StrictnessKept == Spec => []StrictSessionsStayStrict
<1>1. IInv => StrictSessionsStayStrict
  <2> SUFFICES ASSUME IInv, NEW a \in accepted
               PROVE  /\ ~a.compat => a.token.version >= 3
                      /\ a.token.version \in 1..4
    BY DEF StrictSessionsStayStrict
  <2>1. a.token.version \in 1..4
    BY DEF IInv, Completed, Provenance
  <2>2. ~a.compat => a.token.version >= 3
    BY DEF IInv, Completed, IsVersionOk
  <2>3. QED
    BY <2>1, <2>2
<1>2. QED
  BY <1>1, Invariance, PTL

\* The version of a completed session was offered and was challenged.
THEOREM VersionsNegotiated == Spec => []VersionWasNegotiated
<1>1. IInv => VersionWasNegotiated
  <2> SUFFICES ASSUME IInv, NEW a \in accepted
               PROVE  /\ OpeningToken(a.token.version) \in tokens
                      /\ ChallengeToken(a.token.version, ServerChallenge) \in tokens
    BY DEF VersionWasNegotiated
  <2> DEFINE c == ChallengeToken(a.token.version, ServerChallenge)
  <2>1. c \in tokens
    BY DEF IInv, Completed, Provenance
  <2>2. c.step = 2 /\ c.version = a.token.version
    BY DEF ChallengeToken
  <2>3. OpeningToken(c.version) \in tokens
    <3> HIDE DEF c
    <3> QED
      BY <2>1, <2>2 DEF IInv, Provenance
  <2>4. QED
    BY <2>1, <2>2, <2>3
<1>2. QED
  BY <1>1, Invariance, PTL

\* Both sides compute the same: an honest answer for the right hostname is never
\* refused by a session whose policy admits its version.
THEOREM HonestAnswersAccepted == Spec => []HonestAnswerAccepted
<1>1. IInv => HonestAnswerAccepted
  <2> SUFFICES ASSUME IInv, NEW r \in answers, NEW h \in DOMAIN sessions,
                      h.dw_upper = Server,
                      IsVersionOk(sessions[h].allow_older_versions, r.token.version),
                      r.token.version >= 3 =>
                         Truncated[r.host] = Truncated[sessions[h].hostname]
               PROVE  AnswerStatus(sessions[h], r.token) = "Ok"
    BY DEF HonestAnswerAccepted
  <2>1. /\ r.token.version \in 1..4
        /\ r.token.step = 3
        /\ r.token.version = 1 => r.token.len = 32
        /\ r.token.version # 1 => r.token.len = 48
        /\ r.token.hmac = ClientHmac(ServerChallenge, r.host, r.token.version)
    BY DEF IInv, Provenance
  <2>2. sessions[h].challenge = ServerChallenge
    BY DEF IInv, Provenance
  <2>3. IsWellFormedAnswer(sessions[h], r.token)
    BY <2>1 DEF IsWellFormedAnswer
  <2>4. ClientHmac(ServerChallenge, r.host, r.token.version)
           = ServerHmac(ServerChallenge, sessions[h].hostname, r.token.version)
    BY HmacsAgree
  <2>5. QED
    BY <2>1, <2>2, <2>3, <2>4 DEF AnswerStatus
<1>2. QED
  BY <1>1, Invariance, PTL

-------------------------------------------------------------------------------
(* Refinement: every call of the provider is a call of the abstract one, or   *)
(* changes nothing that it speaks of.                                         *)

\* The handles given out so far are those in the table and those deleted, and
\* what was accepted was accepted on one of them.
Issued == \A a \in accepted : a.ctx \in DOMAIN sessions \cup deleted

LEMMA IssuedInductive ==
    ASSUME TypeOK, Issued, [Next]_vars
    PROVE  Issued'
<1>1. ASSUME NEW h \in Callable(Server), NEW t \in Delivered, ServerVerify(h, t)
      PROVE  Issued'
  <2>1. /\ \A a \in accepted' : a \in accepted \/ a.ctx = h
        /\ DOMAIN sessions' = DOMAIN sessions /\ deleted' = deleted
    BY <1>1 DEF ServerVerify
  <2>2. QED
    BY <2>1 DEF Issued, Callable
<1>2. CASE UNCHANGED accepted
           /\ DOMAIN sessions \cup deleted \subseteq DOMAIN sessions' \cup deleted'
  BY <1>2 DEF Issued
<1>3. QED
  BY <1>1, <1>2 DEF Next, vars, ClientOpen, ClientAnswer, ServerOpen, Delete,
                    With, Without

\* A call that opens a context is Open of the abstract provider.
LEMMA OpenStep ==
    ASSUME TypeOK, HandlesUnique, Issued, NEW role \in {Client, Server},
           NEW s \in Session, NEW h, h = FreshHandle(role),
           sessions' = With(h, s),
           UNCHANGED <<accepted, deleted, answers>>
    PROVE  Contexts!Next
<1>1. h \in Handle /\ h \notin DOMAIN sessions \cup deleted
  BY DEF TypeOK, HandlesUnique, FreshHandle, Handle
<1>2. \A a \in accepted : a.ctx # h
  BY <1>1 DEF Issued
<1>3. /\ DOMAIN sessions' = DOMAIN sessions \cup {h}
      /\ sessions'[h] = s
      /\ \A x \in DOMAIN sessions : x # h => sessions'[x] = sessions[x]
  BY DEF With
<1>4. ContextOf(h)' = [scope |-> Truncated[s.hostname], identity |-> ZeroId]
  BY <1>2, <1>3 DEF ContextOf
<1>5. \A x \in DOMAIN sessions : ContextOf(x)' = ContextOf(x)
  BY <1>1, <1>3 DEF ContextOf
<1>6. Truncated[s.hostname] \in Hosts
  BY HostAssumption DEF Session
<1>7. [x \in DOMAIN sessions |-> ContextOf(x)]'
         = [x \in DOMAIN [y \in DOMAIN sessions |-> ContextOf(y)] \cup {h} |->
              IF x = h THEN [scope |-> Truncated[s.hostname], identity |-> ZeroId]
                       ELSE [y \in DOMAIN sessions |-> ContextOf(y)][x]]
  BY <1>3, <1>4, <1>5
<1>8. Contexts!Open(h)
  BY <1>1, <1>3, <1>6, <1>7 DEF Contexts!Open
<1>9. QED
  BY <1>3, <1>8 DEF Contexts!Next

\* ServerVerify is Complete: the answer it accepts covers the identity.
LEMMA VerifyStep ==
    ASSUME IInv, NEW h \in Callable(Server), NEW t \in Delivered,
           ServerVerify(h, t)
    PROVE  Contexts!Next
<1> DEFINE s == sessions[h]
           map == [x \in DOMAIN sessions |-> ContextOf(x)]
<1>1. h \in DOMAIN sessions /\ h \in Handle /\ AnswerStatus(s, t) = "Ok"
      /\ s \in Session
  BY DEF ServerVerify, Callable, IInv, TypeOK
<1>2. PICK r \in answers : r.token = t
  BY <1>1, OkIsAnswer DEF IInv
<1>3. /\ t.hmac = ServerHmac(s.challenge, s.hostname, t.version)
      /\ t.hmac = ClientHmac(ServerChallenge, r.host, t.version)
  BY <1>1, <1>2, OkIsAnswer DEF IInv, Provenance
<1>4. t.version >= 3 => Truncated[r.host] = Truncated[s.hostname]
  BY <1>3 DEF ClientHmac, ServerHmac
<1>5. PICK id \in IdsFrom(t) :
         /\ sessions' = [sessions EXCEPT ![h].gatekeeper_id = id,
                                         ![h].is_step2_hmac_done = TRUE]
         /\ accepted' = accepted \cup
              {[ctx |-> h, host |-> s.hostname, id |-> id,
                compat |-> s.allow_older_versions, token |-> t]}
  BY DEF ServerVerify
<1>6. id \in Ids
  BY <1>1, <1>5, OkIsAnswer DEF IInv
<1>7. GateKeeperCovers(r, Truncated[s.hostname], id)
  BY <1>2, <1>4, <1>5 DEF GateKeeperCovers, IdsFrom
<1>8. /\ DOMAIN sessions' = DOMAIN sessions
      /\ sessions'[h].hostname = s.hostname /\ sessions'[h].gatekeeper_id = id
      /\ \A x \in DOMAIN sessions : x # h => sessions'[x] = sessions[x]
  BY <1>1, <1>5 DEF Session
<1>9. ContextOf(h)' = [scope |-> Truncated[s.hostname], identity |-> id]
  <2> DEFINE acc == [ctx |-> h, host |-> s.hostname, id |-> id,
                     compat |-> s.allow_older_versions, token |-> t]
  <2>0. acc.ctx = h /\ acc \in accepted'
    BY <1>5
  <2> HIDE DEF acc
  <2>1. \E a \in accepted' : a.ctx = h
    BY <2>0
  <2> HIDE DEF s, map
  <2>2. QED
    BY <2>1, <1>8 DEF ContextOf
<1>10. \A x \in DOMAIN sessions : x # h => ContextOf(x)' = ContextOf(x)
  BY <1>5, <1>8 DEF ContextOf
<1>11. map[h].scope = Truncated[s.hostname]
       /\ [map[h] EXCEPT !.identity = id]
              = [scope |-> Truncated[s.hostname], identity |-> id]
  BY <1>1 DEF ContextOf
<1>12. map' = [map EXCEPT ![h].identity = id]
  <2> HIDE DEF s
  <2>1. /\ DOMAIN map' = DOMAIN map
        /\ \A x \in DOMAIN map : x # h => map'[x] = map[x]
        /\ map'[h] = [map[h] EXCEPT !.identity = id]
    BY <1>1, <1>8, <1>9, <1>10, <1>11
  <2>2. map' = [x \in DOMAIN map' |-> map'[x]]
    OBVIOUS
  <2> HIDE DEF map
  <2>3. QED
    BY <2>1, <2>2
<1>13. UNCHANGED <<deleted, answers>>
  BY DEF ServerVerify
<1>14. Contexts!Complete(h)
  BY <1>2, <1>6, <1>7, <1>8, <1>11, <1>12, <1>13 DEF Contexts!Complete
<1>15. QED
  BY <1>1, <1>14 DEF Contexts!Next

LEMMA RefinementStep ==
    ASSUME IInv, HandlesUnique, Issued, [Next]_vars
    PROVE  [Contexts!Next]_Contexts!vars
<1> USE DEF IInv
<1>1. ASSUME NEW host \in OfferedHosts, NEW id \in ClientIds,
             NEW version \in OfferedVersions, ClientOpen(host, id, version)
      PROVE  Contexts!Next
  <2>1. [NewSession EXCEPT !.gatekeeper_id = id, !.hostname = host] \in Session
    BY HostAssumption DEF NewSession, Session, Ids, Challenges
  <2>2. PICK h : h = FreshHandle(Client)
    OBVIOUS
  <2>3. QED
    BY <1>1, <2>1, <2>2, OpenStep DEF ClientOpen
<1>2. ASSUME NEW token \in Delivered, NEW host \in OfferedHosts,
             NEW allow \in BOOLEAN, ServerOpen(token, host, allow)
      PROVE  Contexts!Next
  <2>1. [NewSession EXCEPT !.hostname = host, !.allow_older_versions = allow,
                           !.challenge = ServerChallenge] \in Session
    BY HostAssumption DEF NewSession, Session, Ids, Challenges
  <2>2. PICK h : h = FreshHandle(Server)
    OBVIOUS
  <2>3. QED
    BY <1>2, <2>1, <2>2, OpenStep DEF ServerOpen
<1>3. ASSUME NEW h \in Callable(Client), NEW token \in Delivered,
             ClientAnswer(h, token)
      PROVE  Contexts!Next
  <2>1. /\ DOMAIN sessions' = DOMAIN sessions
        /\ \A x \in DOMAIN sessions :
              /\ sessions'[x].hostname = sessions[x].hostname
              /\ sessions'[x].gatekeeper_id = sessions[x].gatekeeper_id
    BY <1>3 DEF ClientAnswer, TypeOK, Session
  <2>2. /\ answers \subseteq answers'
        /\ UNCHANGED <<accepted, deleted>>
    BY <1>3 DEF ClientAnswer
  <2>3. \A x \in DOMAIN sessions : ContextOf(x)' = ContextOf(x)
    BY <2>1, <2>2 DEF ContextOf
  <2>4. QED
    BY <2>1, <2>2, <2>3 DEF Contexts!Next, Contexts!Prove
<1>4. ASSUME NEW h \in DOMAIN sessions \cup deleted, Delete(h)
      PROVE  Contexts!Next
  <2>1. /\ DOMAIN sessions' = DOMAIN sessions \ {h}
        /\ \A x \in DOMAIN sessions' : sessions'[x] = sessions[x]
        /\ DOMAIN sessions' \cup deleted' = DOMAIN sessions \cup deleted
        /\ UNCHANGED <<accepted, answers>>
    BY <1>4, WithoutLookup DEF Delete
  <2>2. \A x \in DOMAIN sessions' : ContextOf(x)' = ContextOf(x)
    BY <2>1 DEF ContextOf
  <2>3. Contexts!Close(h)
    BY <2>1, <2>2 DEF Contexts!Close
  <2>4. QED
    BY <2>3 DEF Contexts!Next
<1>5. CASE UNCHANGED vars
  BY <1>5 DEF vars, Contexts!vars, ContextOf
<1>6. QED
  BY <1>1, <1>2, <1>3, <1>4, <1>5, VerifyStep DEF Next

\* The provider implements the abstract one: whatever tokens are delayed,
\* repeated, swapped or cut, an identity comes with an answer that covers it.
THEOREM Implements == Spec => ImplementsContexts
<1>1. Init => Contexts!Init
  BY DEF Init, Contexts!Init
<1>2. Init => Issued
  BY DEF Init, Issued
<1>3. Spec => []Issued
  BY <1>2, IssuedInductive, TypeCorrect, PTL DEF Spec
<1>4. QED
  BY <1>1, <1>3, RefinementStep, Invariance, HandlesNeverReused, PTL
     DEF Spec, ImplementsContexts, Contexts!Spec

===============================================================================
