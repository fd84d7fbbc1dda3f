------------------------------ MODULE GateKeeper ------------------------------
(***************************************************************************)
(* The GateKeeper (GKSSP) security provider of gatekeeper.rs: one session  *)
(* table, shared by the client calls (InitializeSecurityContext) and the   *)
(* server calls (AcceptSecurityContext), keyed by context handle.  Every   *)
(* call holds the sessions mutex from its first look at the table to its   *)
(* return, so a call is one action.  Callers make any call at any time,    *)
(* with any token the provider has produced: tokens are delayed,           *)
(* duplicated, reordered and delivered to another context than the one     *)
(* they were meant for.                                                    *)
(***************************************************************************)
EXTENDS Integers, FiniteSets

CONSTANTS
    Hosts,            \* byte strings that may serve as a hostname
    OfferedHosts,     \* the hostnames that applications pass
    HostLen,          \* HostLen[h]: the length of h in bytes
    Truncated,        \* Truncated[h]: the first 15 bytes of h
    EmptyHost,        \* the empty byte string
    ClientIds,        \* 16-byte GateKeeper ids that client applications pass
    GeneratedIds,     \* 16-byte ids that the server makes up for version 1
    ZeroId,           \* the id of a session that nobody has identified
    ZeroChallenge,    \* the challenge field of a fresh client session
    ServerChallenge,  \* the 8 bytes ((i * 37 + 101) % 254 + 1), i = 0..7
    OfferedVersions,  \* version DWORDs that client applications ask for
    CrossedRoles,     \* may a caller pass a handle to the other role's call?
    ShortBuffers,     \* sizes of the output buffers that callers make too small
    MaxHandle         \* bound of the model: contexts created in a behaviour

Client == "0x1000"    \* dw_upper of a handle created by a client call
Server == "0x2000"    \* dw_upper of a handle created by a server call

Ids == ClientIds \cup GeneratedIds \cup {ZeroId}
Challenges == {ZeroChallenge, ServerChallenge}

ASSUME HostAssumption ==
    /\ HostLen \in [Hosts -> Nat]
    /\ Truncated \in [Hosts -> Hosts]
    /\ EmptyHost \in Hosts
    /\ OfferedHosts \subseteq Hosts

ASSUME ChallengeAssumption == ZeroChallenge # ServerChallenge

ASSUME VersionAssumption == OfferedVersions \subseteq Nat

ASSUME RoleAssumption == CrossedRoles \in BOOLEAN

ASSUME BufferAssumption == ShortBuffers \subseteq Nat

ASSUME MaxHandleAssumption == MaxHandle \in Nat

VARIABLES
    sessions,         \* the session table: handle -> session
    next_handle_id,   \* dw_lower of the next handle
    tokens,           \* opening and challenge tokens produced so far
    answers,          \* answer tokens produced so far, and who signed them
    accepted,         \* history: the answers a server call accepted
    deleted           \* history: handles passed to DeleteSecurityContext

vars == <<sessions, next_handle_id, tokens, answers, accepted, deleted>>

-------------------------------------------------------------------------------
(* Handles, sessions and tokens. *)

Handle == [dw_lower: Nat, dw_upper: {Client, Server}]

\* The fields of GateKeeperSession that a later call reads, and the flag that
\* both sides set when the HMAC step is done.
Session ==
    [hostname: Hosts, challenge: Challenges, gatekeeper_id: Ids,
     allow_older_versions: BOOLEAN, is_step2_hmac_done: BOOLEAN]

NewSession ==
    [hostname |-> EmptyHost, challenge |-> ZeroChallenge,
     gatekeeper_id |-> ZeroId, allow_older_versions |-> FALSE,
     is_step2_hmac_done |-> FALSE]

\* HMAC-MD5 under the shared key is taken to be injective: a signature is the
\* payload it was computed over.  The hostname enters from version 3 on, cut at
\* 15 bytes; each side does that for itself.

\* Mutant: the client signs the whole hostname.
ClientHmacWholeHost(challenge, hostname, version) ==
    [challenge |-> challenge,
     host |-> IF version >= 3 THEN hostname ELSE EmptyHost]

\* What the client signs.
ClientHmac(challenge, hostname, version) ==
    [challenge |-> challenge,
     host |-> IF version >= 3 THEN Truncated[hostname] ELSE EmptyHost]

\* What the server expects.
ServerHmac(challenge, hostname, version) ==
    [challenge |-> challenge,
     host |-> IF version >= 3 THEN Truncated[hostname] ELSE EmptyHost]

Signature == [challenge: Challenges, host: Hosts]

OpeningToken(version) == [len |-> 16, step |-> 1, version |-> version]

\* Mutant: the server names its own highest version.
ChallengeTokenOwnVersion(version, challenge) ==
    [len |-> 24, step |-> 2, version |-> 4, challenge |-> challenge]

ChallengeToken(version, challenge) ==
    [len |-> 24, step |-> 2, version |-> version, challenge |-> challenge]

\* Version 1 answers carry no GateKeeper id.
AnswerToken(version, hmac, id) ==
    IF version = 1
    THEN [len |-> 32, step |-> 3, version |-> version, hmac |-> hmac]
    ELSE [len |-> 48, step |-> 3, version |-> version, hmac |-> hmac, id |-> id]

AnswerTokens ==
    [len: {32}, step: {3}, version: {1}, hmac: Signature]
        \cup [len: {48}, step: {3}, version: Nat \ {1}, hmac: Signature, id: Ids]

Produced == tokens \cup {a.token : a \in answers}

\* What the C interface hands to a caller whose output buffer holds n bytes: the
\* first n of the token, and the status of a call that went well.  The fields
\* beyond len are no longer there for a reader.
Cut(token, n) == [token EXCEPT !.len = n]

\* Everything that can arrive as the input token of a call.
Delivered ==
    Produced \cup
        UNION {{Cut(t, n) : n \in {k \in ShortBuffers : k < t.len}} : t \in Produced}

With(h, s) ==
    [x \in DOMAIN sessions \cup {h} |-> IF x = h THEN s ELSE sessions[x]]
Without(h) == [x \in DOMAIN sessions \ {h} |-> sessions[x]]

-------------------------------------------------------------------------------
(* What a call answers for its inputs.  A refused call changes nothing. *)

\* The client takes the first package parameter that is shorter than 16 bytes
\* and not 4 bytes long (those are version overrides) for the hostname.
IsClientHost(host) == HostLen[host] < 16 /\ HostLen[host] # 4

IsVersionOk(allow_older_versions, version) ==
    IF allow_older_versions THEN version \in 1..4 ELSE version >= 3

OpeningStatus(token, allow_older_versions) ==
    IF /\ token.len >= 16
       /\ IsVersionOk(allow_older_versions, token.version)
       /\ token.step = 1
    THEN "ContinueNeeded" ELSE "InvalidToken"

ChallengeStatus(token) ==
    IF token.len = 24 /\ token.version \in 1..4 /\ token.step = 2
    THEN "Ok" ELSE "InvalidToken"

\* Mutant: the compatibility flag of the session is forgotten.
IsWellFormedAnswerNoFlag(s, token) ==
    /\ token.len \in {32, 48}
    /\ IsVersionOk(TRUE, token.version)
    /\ token.step = 3
    /\ token.version = 1 => token.len = 32
    /\ token.version > 1 => token.len = 48

IsWellFormedAnswer(s, token) ==
    /\ token.len \in {32, 48}
    /\ IsVersionOk(s.allow_older_versions, token.version)
    /\ token.step = 3
    /\ token.version = 1 => token.len = 32
    /\ token.version > 1 => token.len = 48

\* Mutant: a session that is done already is not verified again.
AnswerStatusOnceDone(s, token) ==
    IF ~IsWellFormedAnswer(s, token) THEN "InvalidToken"
    ELSE IF /\ ~s.is_step2_hmac_done
            /\ token.hmac # ServerHmac(s.challenge, s.hostname, token.version)
         THEN "LogonDenied" ELSE "Ok"

AnswerStatus(s, token) ==
    IF ~IsWellFormedAnswer(s, token) THEN "InvalidToken"
    ELSE IF token.hmac # ServerHmac(s.challenge, s.hostname, token.version)
         THEN "LogonDenied" ELSE "Ok"

\* Mutant: no id is read from an answer of either legacy version.
IdsFromVersion3(token) == IF token.version < 3 THEN GeneratedIds ELSE {token.id}

\* The ids a server session may take from an accepted answer.
IdsFrom(token) == IF token.version = 1 THEN GeneratedIds ELSE {token.id}

-------------------------------------------------------------------------------
(* The calls. *)

Init ==
    /\ sessions = << >>
    /\ next_handle_id = 1
    /\ tokens = {}
    /\ answers = {}
    /\ accepted = {}
    /\ deleted = {}

\* Mutant: the id is the size of the table, so it comes back after a deletion.
FreshHandleBySize(role) ==
    [dw_lower |-> Cardinality(DOMAIN sessions) + 1, dw_upper |-> role]

FreshHandle(role) == [dw_lower |-> next_handle_id, dw_upper |-> role]

\* InitializeSecurityContext with no context: the client opens.
ClientOpen(host, id, version) ==
    /\ next_handle_id <= MaxHandle
    /\ IsClientHost(host)
    /\ sessions' = With(FreshHandle(Client),
                        [NewSession EXCEPT !.gatekeeper_id = id,
                                           !.hostname = host])
    /\ next_handle_id' = next_handle_id + 1
    /\ tokens' = tokens \cup {OpeningToken(version)}
    /\ UNCHANGED <<answers, accepted, deleted>>

\* InitializeSecurityContext with a context: the client answers a challenge.
\* The code looks neither at the role of the handle (Next says which handles
\* callers pass) nor at the flags.
ClientAnswer(h, token) ==
    /\ ChallengeStatus(token) = "Ok"
    /\ LET s == sessions[h]
           hmac == ClientHmac(token.challenge, s.hostname, token.version)
       IN  answers' = answers \cup
               {[signer |-> h, host |-> s.hostname,
                 token |-> AnswerToken(token.version, hmac, s.gatekeeper_id)]}
    /\ sessions' = [sessions EXCEPT ![h].challenge = token.challenge,
                                    ![h].is_step2_hmac_done = TRUE]
    /\ UNCHANGED <<next_handle_id, tokens, accepted, deleted>>

\* AcceptSecurityContext with no context: the server checks the opening token
\* and challenges the client.
ServerOpen(token, host, allow_older_versions) ==
    /\ next_handle_id <= MaxHandle
    /\ OpeningStatus(token, allow_older_versions) = "ContinueNeeded"
    /\ sessions' = With(FreshHandle(Server),
                        [NewSession EXCEPT
                            !.hostname = host,
                            !.allow_older_versions = allow_older_versions,
                            !.challenge = ServerChallenge])
    /\ next_handle_id' = next_handle_id + 1
    /\ tokens' = tokens \cup {ChallengeToken(token.version, ServerChallenge)}
    /\ UNCHANGED <<answers, accepted, deleted>>

\* AcceptSecurityContext with a context: the server verifies the answer.  A
\* session that is done already is verified again like any other.
ServerVerify(h, token) ==
    /\ AnswerStatus(sessions[h], token) = "Ok"
    /\ \E id \in IdsFrom(token) :
         /\ sessions' = [sessions EXCEPT ![h].gatekeeper_id = id,
                                         ![h].is_step2_hmac_done = TRUE]
         /\ accepted' = accepted \cup
                {[ctx |-> h, host |-> sessions[h].hostname, id |-> id,
                  compat |-> sessions[h].allow_older_versions,
                  token |-> token]}
    /\ UNCHANGED <<next_handle_id, tokens, answers, deleted>>

\* DeleteSecurityContext: succeeds on any handle, known or not.
Delete(h) ==
    /\ sessions' = Without(h)
    /\ deleted' = deleted \cup {h}
    /\ UNCHANGED <<next_handle_id, tokens, answers, accepted>>

\* The handles that callers pass to the calls of a role.
Callable(role) ==
    {h \in DOMAIN sessions : CrossedRoles \/ h.dw_upper = role}

Next ==
    \/ \E host \in OfferedHosts, id \in ClientIds, version \in OfferedVersions :
          ClientOpen(host, id, version)
    \/ \E h \in Callable(Client), token \in Delivered : ClientAnswer(h, token)
    \/ \E token \in Delivered, host \in OfferedHosts, allow \in BOOLEAN :
          ServerOpen(token, host, allow)
    \/ \E h \in Callable(Server), token \in Delivered : ServerVerify(h, token)
    \/ \E h \in DOMAIN sessions \cup deleted : Delete(h)

Spec == Init /\ [][Next]_vars

-------------------------------------------------------------------------------
(* Properties. *)

OpeningTokens == [len: {16}, step: {1}, version: OfferedVersions]
ChallengeTokens ==
    [len: {24}, step: {2}, version: OfferedVersions, challenge: {ServerChallenge}]
Answers == [signer: Handle, host: Hosts, token: AnswerTokens]
Acceptances ==
    [ctx: Handle, host: Hosts, id: Ids, compat: BOOLEAN, token: AnswerTokens]

\* Type invariant.
TypeOK ==
    /\ DOMAIN sessions \subseteq Handle
    /\ \A h \in DOMAIN sessions : sessions[h] \in Session
    /\ next_handle_id \in Nat \ {0}
    /\ tokens \subseteq OpeningTokens \cup ChallengeTokens
    /\ answers \subseteq Answers
    /\ accepted \subseteq Acceptances
    /\ deleted \subseteq Handle

\* The counter both roles share never hands out an id a second time: a late or
\* repeated DeleteSecurityContext, which the code answers with success, cannot
\* hit the session of somebody else, and a deleted context never comes back.
HandlesUnique ==
    /\ \A h \in DOMAIN sessions \cup deleted : h.dw_lower < next_handle_id
    /\ \A g, h \in DOMAIN sessions \cup deleted :
          g.dw_lower = h.dw_lower => g = h
    /\ DOMAIN sessions \cap deleted = {}

\* From version 3 on, whatever tokens were delayed, repeated or swapped, a
\* server session completes only on an answer that was signed for its own
\* hostname (up to the 15 bytes that are signed), and it takes the id of that
\* signer.
HostBinding ==
    \A a \in accepted : a.token.version >= 3 =>
        \E r \in answers :
            /\ r.token = a.token
            /\ Truncated[r.host] = Truncated[a.host]
            /\ a.id = r.token.id

\* The compatibility flag given with the opening token governs the answer: a
\* session opened without it never completes below version 3, and none at all
\* completes above version 4, though the strict check itself has no ceiling
\* (the client refuses such a challenge).
StrictSessionsStayStrict ==
    \A a \in accepted :
        /\ ~a.compat => a.token.version >= 3
        /\ a.token.version \in 1..4

\* The version a session completes with was offered by a client and put into a
\* challenge by a server: neither side answers with a version of its own.
VersionWasNegotiated ==
    \A a \in accepted :
        /\ OpeningToken(a.token.version) \in tokens
        /\ ChallengeToken(a.token.version, ServerChallenge) \in tokens

\* The two sides compute the same HMAC over the same bytes and agree on the
\* token lengths: an answer whose version the policy of a server session admits
\* is never refused, whenever it arrives, when it was signed for the hostname of
\* that session, or for any hostname below version 3.
HonestAnswerAccepted ==
    \A r \in answers, h \in DOMAIN sessions :
        /\ h.dw_upper = Server
        /\ IsVersionOk(sessions[h].allow_older_versions, r.token.version)
        /\ r.token.version >= 3 =>
              Truncated[r.host] = Truncated[sessions[h].hostname]
        => AnswerStatus(sessions[h], r.token) = "Ok"

-------------------------------------------------------------------------------
(* The provider as an implementation of SecurityContexts.  The scope of a    *)
(* context is its hostname, as far as it is signed; a proof is an answer with *)
(* its signer, and it covers the hostname only from version 3 on.             *)

GateKeeperCovers(answer, scope, id) ==
    /\ answer.token.version >= 3 => Truncated[answer.host] = scope
    /\ IF answer.token.version = 1 THEN id \in GeneratedIds
                                   ELSE id = answer.token.id

\* Before a call has verified it, nobody is identified by a context, though the
\* client keeps its own id there.
ContextOf(h) ==
    [scope |-> Truncated[sessions[h].hostname],
     identity |-> IF \E a \in accepted : a.ctx = h
                  THEN sessions[h].gatekeeper_id ELSE ZeroId]

Contexts == INSTANCE SecurityContexts WITH
    Handles <- Handle,
    Scopes <- Hosts,
    Identities <- Ids,
    Anonymous <- ZeroId,
    Covers <- GateKeeperCovers,
    contexts <- [h \in DOMAIN sessions |-> ContextOf(h)],
    issued <- DOMAIN sessions \cup deleted,
    proofs <- answers

\* The provider keeps the promises of the trait, every call of it: no handle is
\* used twice, and a context is identified only by a call that was given a
\* signed answer which covers this identity for the hostname of the context.
ImplementsContexts == Contexts!Spec

-------------------------------------------------------------------------------
(* A claim of the documentation that the code does not keep. *)

\* README.md "Once a handshake finishes (SEC_E_OK), you can safely query the
\* identity associated with the session": the identity stays as it was.
IdentityStable ==
    [][\A h \in DOMAIN sessions \cap DOMAIN sessions' :
          h.dw_upper = Server /\ sessions[h].is_step2_hmac_done
          => sessions'[h].gatekeeper_id = sessions[h].gatekeeper_id]_vars

===============================================================================
