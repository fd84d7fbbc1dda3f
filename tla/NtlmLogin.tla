------------------------------- MODULE NtlmLogin -------------------------------
(***************************************************************************)
(* The NTLM security provider of ntlm.rs and the accounts it checks a      *)
(* login against.  One session table holds the contexts of both sides; the *)
(* messages themselves are made and parsed by an engine of the sspi crate, *)
(* one in each session, which is external: it draws the challenge, and it  *)
(* may refuse any message.  The provider takes the challenge down, and     *)
(* when the answer (Type 3) comes it looks the account up in the vault and *)
(* computes the proof again for the domains that it lets through.          *)
(*                                                                         *)
(* A call holds the sessions mutex from its first look at the table to its *)
(* return, so it is one action; accounts are saved and deleted by other    *)
(* programs between the calls (how they get at the files is the business   *)
(* of module Vault, here the vault is the map that a login finds).         *)
(***************************************************************************)
EXTENDS Integers, FiniteSets

CONSTANTS
    Names,           \* user names as people write them, without outer blanks
    NameKey,         \* NameKey[n]: n without regard to case
    Domains,         \* domains as people write them
    Folded,          \* Folded[d]: d trimmed and in lower case
    Empty, Dot,      \* the domains "" and "."
    NonExistent,     \* domains that are saved as Empty
    Hashes,          \* NT hashes
    Levels,          \* user levels
    Challenges,      \* the 8-byte challenges that engines draw
    None,            \* no challenge, no identity
    MaxHandle,       \* bound of the model: contexts created in a behaviour
    MaxAccounts,     \* bound of the model: accounts saved in a behaviour
    MaxLogins        \* bound of the model: different logins in a behaviour

Client == "0x5000"   \* dw_upper of a handle created by a client call
Server == "0x6000"   \* dw_upper of a handle created by a server call

Keys == {NameKey[n] : n \in Names}

ASSUME NameAssumption == NameKey \in [Names -> Names]

ASSUME DomainAssumption ==
    /\ Folded \in [Domains -> Domains]
    /\ \A d \in Domains : Folded[Folded[d]] = Folded[d]
    /\ {Empty, Dot} \subseteq NonExistent
    /\ NonExistent \subseteq Domains
    /\ \A d \in Domains : d \in NonExistent <=> Folded[d] \in NonExistent
    /\ Folded[Empty] = Empty
    /\ Folded[Dot] = Dot

ASSUME NoneAssumption == None \notin Challenges

ASSUME BoundAssumption ==
    MaxHandle \in Nat /\ MaxAccounts \in Nat /\ MaxLogins \in Nat

VARIABLES
    sessions,         \* the session table: handle -> session
    next_handle_id,   \* dw_lower of the next handle
    challenges,       \* the challenges drawn so far; clients know them
    vault,            \* key -> account
    saved,            \* history: every account that was saved, with its key
    logins,           \* history: the logins that were accepted
    deleted           \* history: handles passed to DeleteSecurityContext

table == <<sessions, next_handle_id, deleted>>
accounts == <<vault, saved>>
vars == <<table, challenges, accounts, logins>>

-------------------------------------------------------------------------------
(* Handles, sessions, accounts. *)

Handle == [dw_lower: Nat, dw_upper: {Client, Server}]

Account == [username: Names, nt_hash: Hashes, level: Levels, domain: Domains]

Identity == [username: Names, level: Levels, domain: Domains]

\* Mutant: the session keeps the whole account, with the hash.
IdentityWithHash(account) == account

IdentityOf(account) ==
    [username |-> account.username, level |-> account.level,
     domain |-> account.domain]

\* None is no identity: the names, levels and domains of people are strings.
ASSUME IdentityAssumption == None \notin Identity

\* The Option fields authenticated_* are set together.  The engine is external;
\* all that is said of it is whether it has been fed a second message.
Session ==
    [server_challenge: Challenges \cup {None},
     authenticated: Identity \cup {None},
     engine: {"first leg", "second leg"}]

NewSession(challenge) ==
    [server_challenge |-> challenge, authenticated |-> None,
     engine |-> "first leg"]

FreshHandle(role) == [dw_lower |-> next_handle_id, dw_upper |-> role]

With(h, s) ==
    [x \in DOMAIN sessions \cup {h} |-> IF x = h THEN s ELSE sessions[x]]

Without(h) == [x \in DOMAIN sessions \ {h} |-> sessions[x]]

-------------------------------------------------------------------------------
(* Answers. *)

\* calculate_ntlmv2_hash and calculate_ntlmv2_proof: HMAC-MD5 is taken to be
\* injective, so a proof is what it was computed over: the user without regard
\* to case, the domain as it is written, the NT hash and the challenge.
Proof(user, domain, hash, challenge) ==
    [user |-> user, domain |-> domain, hash |-> hash, challenge |-> challenge]

Proofs(drawn) == [user: Keys, domain: Domains, hash: Hashes, challenge: drawn]

\* A Type 3 message: a name and a domain in the clear beside the proof.  Clients
\* answer challenges that were drawn, at any time and as often as they like, with
\* any hash; nothing ties what is in the clear to the proof.
AnswersTo(drawn) ==
    [username: Names, domain: Domains, proof: Proofs(drawn)]

\* Mutant: the domain of the account is not looked at.
CandidatesAnyDomain(account, domain) == {domain, Empty, Dot}

\* Mutant: an account without a domain takes the client's word for it.
CandidatesOwnDomain(account, domain) ==
    IF Folded[domain] = Folded[account.domain] THEN {domain} ELSE {}

\* The domains that the proof of an account is computed for: none if the
\* client's domain is refused; if the account has no domain, "" and "." whichever
\* of them the client writes; if it has one, it as the client writes it.
Candidates(account, domain) ==
    IF account.domain = Empty
    THEN IF Folded[domain] \in {Empty, Dot} THEN {Empty, Dot} ELSE {}
    ELSE IF Folded[domain] = Folded[account.domain] THEN {domain} ELSE {}

\* Mutant: the proof is computed over whatever challenge the answer brings.
LoginStatusAnyChallenge(session, answer) ==
    LET key == NameKey[answer.username]
    IN  IF /\ session.server_challenge # None
           /\ key \in DOMAIN vault
           /\ \E d \in Candidates(vault[key], answer.domain) :
                 answer.proof = Proof(key, d, vault[key].nt_hash,
                                      answer.proof.challenge)
        THEN "Ok" ELSE "LogonDenied"

LoginStatus(session, answer) ==
    LET key == NameKey[answer.username]
    IN  IF /\ session.server_challenge # None
           /\ key \in DOMAIN vault
           /\ \E d \in Candidates(vault[key], answer.domain) :
                 answer.proof = Proof(key, d, vault[key].nt_hash,
                                      session.server_challenge)
        THEN "Ok" ELSE "LogonDenied"

-------------------------------------------------------------------------------
(* The calls of the provider. *)

Init ==
    /\ sessions = << >>
    /\ next_handle_id = 1
    /\ challenges = {}
    /\ vault = << >>
    /\ saved = {}
    /\ logins = {}
    /\ deleted = {}

\* InitializeSecurityContext with no context: Type 1 goes out.
ClientOpen ==
    /\ next_handle_id <= MaxHandle
    /\ sessions' = With(FreshHandle(Client), NewSession(None))
    /\ next_handle_id' = next_handle_id + 1
    /\ UNCHANGED <<challenges, accounts, logins, deleted>>

\* InitializeSecurityContext with a context: the engine makes Type 3 of a Type 2,
\* always for the same user and without a domain, which is one of the answers
\* that AnswersTo counts.  The call looks the handle up whatever its role.
ClientAnswer(h) ==
    /\ challenges # {}
    /\ sessions' = [sessions EXCEPT ![h].engine = "second leg"]
    /\ UNCHANGED <<next_handle_id, challenges, accounts, logins, deleted>>

\* AcceptSecurityContext with no context: the engine draws a challenge, which
\* the provider finds at bytes 24 to 31 of the Type 2 message.  (Next lets it draw
\* each challenge once: 64 random bits are taken not to repeat.)
ServerOpen(challenge) ==
    /\ next_handle_id <= MaxHandle
    /\ sessions' = With(FreshHandle(Server), NewSession(challenge))
    /\ next_handle_id' = next_handle_id + 1
    /\ challenges' = challenges \cup {challenge}
    /\ UNCHANGED <<accounts, logins, deleted>>

\* AcceptSecurityContext with a context: the login is accepted, and the account
\* of the vault, not what the client wrote, says who it is.
ServerVerify(h, answer) ==
    LET account == vault[NameKey[answer.username]]
    IN  /\ LoginStatus(sessions[h], answer) = "Ok"
        /\ Cardinality(logins) < MaxLogins
        /\ sessions' = [sessions EXCEPT
                          ![h].authenticated = IdentityOf(account),
                          ![h].engine = "second leg"]
        /\ logins' = logins \cup
               {[ctx |-> h, proof |-> answer.proof, account |-> account]}
        /\ UNCHANGED <<next_handle_id, challenges, accounts, deleted>>

\* It is denied, because the answer does not verify or because the key or the
\* vault could not be read: the engine has gone on, an identity found earlier
\* stays.  (An answer that the engine refuses changes nothing.)
ServerDeny(h) ==
    /\ challenges # {}
    /\ sessions' = [sessions EXCEPT ![h].engine = "second leg"]
    /\ UNCHANGED <<next_handle_id, challenges, accounts, logins, deleted>>

\* DeleteSecurityContext: succeeds on any handle, known or not.
Delete(h) ==
    /\ sessions' = Without(h)
    /\ deleted' = deleted \cup {h}
    /\ UNCHANGED <<next_handle_id, challenges, accounts, logins>>

-------------------------------------------------------------------------------
(* The accounts, as add_user_to_vault and the manager save and delete them. *)

\* is_non_existent_domain decides what is stored for a domain.
StoredDomain(domain) == IF domain \in NonExistent THEN Empty ELSE Folded[domain]

SaveAccount(name, hash, level, domain) ==
    LET key == NameKey[name]
        account == [username |-> name, nt_hash |-> hash, level |-> level,
                    domain |-> StoredDomain(domain)]
    IN  /\ Cardinality(saved) < MaxAccounts
        /\ vault' = [k \in DOMAIN vault \cup {key} |->
                        IF k = key THEN account ELSE vault[k]]
        /\ saved' = saved \cup {[key |-> key, account |-> account]}
        /\ UNCHANGED <<table, challenges, logins>>

DeleteAccount(key) ==
    /\ vault' = [k \in DOMAIN vault \ {key} |-> vault[k]]
    /\ UNCHANGED <<table, challenges, saved, logins>>

Next ==
    \/ ClientOpen
    \/ \E h \in DOMAIN sessions : ClientAnswer(h)
    \/ \E challenge \in Challenges \ challenges : ServerOpen(challenge)
    \/ \E h \in DOMAIN sessions, answer \in AnswersTo(challenges) :
          ServerVerify(h, answer)
    \/ \E h \in DOMAIN sessions : ServerDeny(h)
    \/ \E h \in DOMAIN sessions \cup deleted : Delete(h)
    \/ \E name \in Names, hash \in Hashes, level \in Levels, domain \in Domains :
          SaveAccount(name, hash, level, domain)
    \/ \E key \in DOMAIN vault : DeleteAccount(key)

Spec == Init /\ [][Next]_vars

-------------------------------------------------------------------------------
(* Properties. *)

\* Type invariant.
TypeOK ==
    /\ DOMAIN sessions \subseteq Handle
    /\ \A h \in DOMAIN sessions : sessions[h] \in Session
    /\ next_handle_id \in Nat \ {0}
    /\ challenges \subseteq Challenges
    /\ DOMAIN vault \subseteq Keys
    /\ \A k \in DOMAIN vault : vault[k] \in Account
    /\ saved \subseteq [key: Keys, account: Account]
    /\ logins \subseteq [ctx: Handle, proof: Proofs(Challenges), account: Account]
    /\ deleted \subseteq Handle

\* An answer, delayed, repeated or delivered to another context, logs in at one
\* context at most: the challenge ties it to the session that asked for it, and
\* a session of the client side, which has none, accepts nothing.
AnswerFitsOneContext ==
    \A a, b \in logins :
        a.proof.challenge = b.proof.challenge => a.ctx = b.ctx

\* Saving and verifying agree on domains: whoever was saved under a domain is
\* let in with it, written in capitals or not, and whoever was saved under one of
\* those that do not exist is let in with "" and with ".", provided that the
\* answer is over the challenge of the session and made with the stored hash.
SavedCanLogIn ==
    \A k \in DOMAIN vault, n \in Names, h \in DOMAIN sessions, d, e \in Domains :
        /\ NameKey[n] = k
        /\ sessions[h].server_challenge # None
        /\ vault[k].domain = StoredDomain(d)
        /\ IF d \in NonExistent THEN e \in {Empty, Dot} ELSE Folded[e] = Folded[d]
        => LoginStatus(sessions[h],
                [username |-> n, domain |-> e,
                 proof |-> Proof(k, e, vault[k].nt_hash,
                                 sessions[h].server_challenge)]) = "Ok"

-------------------------------------------------------------------------------
(* The provider as an implementation of SecurityContexts.  The scope of a    *)
(* context is its challenge; a proof is what a client signed and a login was  *)
(* accepted for, together with the account that the vault held then.  It      *)
(* covers the identity of this account if it is made for its name, with its   *)
(* hash, and for its domain, or for none if it has none.                      *)

NtlmCovers(login, scope, id) ==
    /\ login.proof.challenge = scope
    /\ login.proof.user = NameKey[login.account.username]
    /\ login.proof.hash = login.account.nt_hash
    /\ IF login.account.domain = Empty
       THEN login.proof.domain \in {Empty, Dot}
       ELSE Folded[login.proof.domain] = login.account.domain
    /\ id = IdentityOf(login.account)

Contexts == INSTANCE SecurityContexts WITH
    Handles <- Handle,
    Scopes <- Challenges \cup {None},
    Identities <- Identity,
    Anonymous <- None,
    Covers <- NtlmCovers,
    contexts <- [h \in DOMAIN sessions |->
                    [scope |-> sessions[h].server_challenge,
                     identity |-> sessions[h].authenticated]],
    issued <- DOMAIN sessions \cup deleted,
    proofs <- logins

\* The provider keeps the promises of the trait, every call of it and whatever
\* happens to the accounts in between: a context is identified only by a proof
\* over its own challenge, made with the hash of a saved account and for its
\* domain (though two ways of writing one count as the same, and what is in the
\* clear is not signed), and as that very account, its level and domain included.
ImplementsContexts == Contexts!Spec
===============================================================================
