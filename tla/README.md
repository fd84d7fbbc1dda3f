# irc7-sspi in TLA+

`irc7-sspi` is a library of two SSPI security packages, GateKeeper and NTLM, with
what surrounds them: a C interface, a TCP server that authenticates IRCX clients,
an encrypted vault of credentials and a graphical manager for it. This directory
holds TLA+ models of its parts, TLC configurations that check them on small
instances, and proofs, checked by TLAPS, that hold for instances of any size.
Paths below are those of the repository.

## 1. The system

| Component | State it keeps | Operations | Model |
|---|---|---|---|
| GateKeeper provider, `src/gatekeeper.rs` | a mutex-protected table of sessions, a counter of handles | two client legs, two server legs, delete | `GateKeeper` |
| NTLM provider, `src/ntlm.rs` | the same, plus the engine of the `sspi` crate in each session | the same; the second server leg reads the vault | `NtlmLogin`; its file access in `Vault` |
| TCP server, `src/bin/server.rs` | per thread: active package, active context; shared: both providers | read, process AUTH lines, write, clean up | `AuthServer` |
| Vault, `src/vault.rs` | the files `master.key` and `credentials.vault` | make and read the key, read and rewrite the vault | `Vault` |
| Vault manager, `src/bin/gui.rs` | a copy of the vault, a form, two banners | reload, edit, save, delete, confirm, cancel | `Vault` |
| C interface, `src/dll.rs` | one static pair of providers, allocated buffers | route by handle, copy buffers in and out, query names, free | `Dll`; copying in `GateKeeper` |
| Escaping and lines, `server.rs`, `SspiHelpers.cs` | a buffer of unfinished bytes | escape, unescape, split, parse | `Wire` |
| C# bindings and server, `interop/`, `examples/` | a context and a credential per connection | as the TCP server, through the C interface | `CsServer` |
| Trait and defaults, `types.rs`, `default.rs` | none | what each package implements; refuse | `SecurityContexts` |
| Integration client `main.rs`, build files | none | | not modelled |

**How they interact.** The TCP server calls the providers through the trait
`SecurityProvider`; the C interface calls them for foreign programs, such as the
C# server. A provider holds the mutex of its table from the first look at it to the
return of the call, so a call is one step. Everything that a caller does between two
calls is not protected. The NTLM provider reads the two files of the vault at every login;
the manager, and whoever calls `add_user_to_vault`, rewrite them in place. These
programs share no lock.

**What is hard.** A handshake takes four messages, and tokens may be delayed,
repeated or delivered to another session (GateKeeper). A verification, the question for
the user's name and the deletion of the session are three critical sections, several
lines may arrive in one segment, and clients go away at any moment (server). Above the C
interface every connection deletes contexts twice and frees what it was given, while others
get the same addresses (C# server). Accounts change between the two legs of a login (NTLM). Files
without locks are read, truncated and written by several programs that may be
killed between any two steps, and reading and writing may fail, half way too (vault).

**What makes each part correct.**

- *GateKeeper*: a server session completes only on an answer that fits it: signed
  for its hostname, of a version that its policy admits and that was negotiated. An
  honest answer is not refused. A handle is never given out twice.
- *Server*: the tables hold what the threads work on and nothing else. A success
  names the user of the handshake it ends. Each line gets an answer. A connection that
  ends leaves no session.
- *Vault*: the key on disk opens the vault on disk. What was reported as saved is
  saved, and stays so. Who was deleted cannot log in, nor anybody with
  a password that was replaced.
- *NTLM*: a login is accepted only with a proof made with the stored hash, for the stored
  domain, over the challenge of the session, and in no other session. Who is saved can
  log in.
- *Both packages*: they keep what the trait promises, stated once in `SecurityContexts`.
- *C interface*: a handle reaches the provider that made it. A token that was cut is not
  taken for another. The heap stays sound.
- *C# server*: a context has one owner, a success names who was verified on the
  connection, and a connection that ends leaves no context.
- *Wire*: the server hears what was said, however it was escaped and cut into segments, and
  the servers of both languages understand a line alike.

The hazards of the code, each at its line, are in `PROJECT.json` with the properties that
would catch them.

## 2. Modules and how they correspond to the code

### GateKeeper

`sessions`, `next_handle_id` are the fields of `GateKeeperSecurityProvider`. A handle is
`[dw_lower, dw_upper]`, and `dw_upper` is the role. Both roles draw from one counter.
Each call of the trait is an action: `ClientOpen` and `ClientAnswer`
(`initialize_security_context` without and with a context), `ServerOpen` and
`ServerVerify` (`accept_security_context`), `Delete`. The parameters of an action are
what the caller may pass: any token that was produced before, any handle, for the
answers of crossed roles too (`CrossedRoles`), since the code looks handles up without
checking the role. `tokens` and `answers` are the messages in circulation. They are sets
from which nothing is taken, which makes loss, repetition and any order possible.
`accepted` and `deleted` are history.

The operators `OpeningStatus`, `ChallengeStatus`, `AnswerStatus` follow the checks of the
code in their order. `ClientHmac` and `ServerHmac` are the two places that compute a signature,
each on its own; they keep what is hashed (challenge, and from version 3 the
first 15 bytes of the hostname). Hostnames are members of a set with a length and a
truncation, since only these decide anything.

Abstracted: HMAC-MD5 is injective. A call with a wrong credential or
data representation, or a token whose bytes are no token at all, is refused before the
table is touched and is not an action. Fields that are written and never read (the
flags of both steps but one) are left out.

Callers of the C interface may pass buffers that are too small. The copying loop of `dll.rs`
then stops at the end of the buffer and the call reports success, so a token may arrive cut: `Delivered`
adds to the tokens that were produced their beginnings of the sizes `ShortBuffers`. A cut
token is told by its length, and the properties hold with them.

`Contexts` is the refinement of `SecurityContexts`: the scope of a session is its
hostname as far as it is signed, its identity is anonymous until an answer was accepted, and
an answer covers an identity from version 3 on for its own hostname only.

Two things a reader may stumble on are modelled as they are: the strict check
admits versions from 3 with no upper bound where the compatible one admits 1 to 4, and
the session keeps the flag of its opening but not its version. A client hostname of 16
bytes or more, or of exactly 4, is not found among the package parameters
(`IsClientHost`), although the documentation speaks of truncation to 15.

### AuthServer

One thread per connection; `pc` is its place in `handle_client` and `process_auth`,
`active_package` and `active_context` are its two locals, and `sessions` joins the
tables of both providers, told apart by `dw_upper`. `Read` takes any number of the lines
that arrived, as a segment may hold several. The lines of a batch are processed
(`Open`, `OpenContinues`, `OpenFails`, `Mismatch`, `Verify`, `VerifyFails`, `Drop`,
`GetUsername`, `Finish`), then all replies are written (`Write`, `WriteFails`,
`WriteEnd`). Every look at a table is a step of its own, as each locks the mutex
anew. `Cleaned` is `cleanup_session`, which runs inside the step that calls it. The
client (external) sends lines, closes or resets.

The providers are reduced to what the server sees of them: whether a leg
continues, fails or authenticates. Both always continue after a first leg and never after
a later one, so the branches of `process_auth` for the other two cases
are dead and left out. After a failed write the thread leaves the loop
over the replies and reads again, as in the code.

Not modelled: binding, hex dumps, lines that are no AUTH lines, panics inside a
provider (they would poison a mutex). The bytes of a line are in `Wire`.

### Vault

The programs are managers, tools (callers of `add_user_to_vault`) and servers. `pc`
is the place of a program in `ensure_master_key`, loading, or `encrypt_and_save_vault`;
`key_file` and `vault_file` are the two files. Creating a file, writing it, truncating it
and reading it are separate steps, with everything else in between, and `Stop`
kills a program at any of them. `users[m]` is the manager's copy, `form`, `status` and
`pending_delete` its form and banners, one action for each button. `Login`,
`LoginKey`, `LoginVault` are the part of the NTLM login that reads the files.

`SaveFails` is the error path of a save: the file could not be opened, or was cut.
The manager then keeps the change in its copy, as the code does. `KeyFails` is the error
path of `ensure_master_key`, which the manager ignores (`let _ =`) and at which servers
and tools give up. `ReadFails` is a file that is there and cannot be opened or read, whatever is in
it, and `CannotRead` one whose content is no key or no vault; `LoadFails` (a manager) and
`AddUserFails` (a tool) are the error paths of both, and a login is denied. A manager keeps the key
that it has read when the vault fails, and the accounts that it had, which are none at its start.

History: `acked` are the accounts whose last change was reported as a success, `gone` the
users whose last change was a reported deletion, `late` the logins that began when
their user was gone or had been given another password (`Outdated`), `blind` the managers that
could not read files in good order at their start and have not read or saved the vault since, and
`safe` the users whose last change was acknowledged with nothing since that puts the account at
risk: neither a write that was cut off nor a save of such a manager.

Abstracted: authenticated encryption makes every content other than a whole vault under
the right key an error. A file is read in one step, wholly or not at all. `Path::exists`, which
answers "no" also when it cannot look (`vault.rs:89`, `vault.rs:113`), is taken to be right. An account is its NT hash; domain and
level travel with it, and what is stored for a domain is in `NtlmLogin`. The legacy format,
theme and layout are left out. Names are the keys of the map, and the cases where trimming
and lower case disagree between key and stored name are outside the model (a hazard in
`PROJECT.json` says where).

`OneAtATime` restricts the operators, not the code: programs are started one after the
other, and at most one writer (manager or tool) runs at a time. Servers run all the
while. The promises of the vault need this restriction; two runs show what happens without.

### SecurityContexts

What the trait `SecurityProvider` promises whichever package is behind it: `Open`, `Prove`,
`Complete`, `Close` over `contexts` (scope and identity), the handles `issued` and the
`proofs` that exist. `Covers(proof, scope, identity)` is a parameter; each package gives
its own. It is not run by itself but as the `PROPERTY` `ImplementsContexts` of the runs
of the two packages.

### NtlmLogin

The session table of `ntlm.rs` and the accounts as a login finds them. `ClientOpen`,
`ClientAnswer`, `ServerOpen`, `ServerVerify`, `ServerDeny` and `Delete` are the calls of the trait;
`SaveAccount` and `DeleteAccount` happen between them, by other programs. `Candidates` is
the check of the domain, with the asymmetry of the code: an account without a domain is
tried with `""` and with `"."`, one with a domain with what the client wrote. `StoredDomain` is
`is_non_existent_domain` and the folding before it is stored. `AnswersTo` are the Type 3
messages: any name and domain in the clear, next to a proof over any user, domain, hash and
challenge that was drawn.

The engine of the `sspi` crate is external. It may refuse any message, which is the disjunct
that changes nothing, and it draws the challenges, which do not repeat (64 random bits).

Abstracted: the proof is injective, in the concatenation of user and domain too. Case folding is
that of ASCII. A domain like `WORKGROUP`, which is stored as `""`, accepts `""` and
`"."` but not itself, as in the code. A client domain of blanks passes the first
check, but no candidate equals it, so that its proof fails. Names are without outer blanks. An engine
that answers the first message of a client with anything but "continue" does not occur:
it would leave a session whose handle the caller never learns.

### Dll and CsServer

`Dll` is the C interface as operators to be conjoined with the steps of its callers: one table
per package, one counter each, and the allocated `blocks`. `ByCred` and `ByCtxt` route by `dw_upper`,
`NameOf` and `Query` are `QueryContextAttributes` with its fallback to `"user"` for NTLM,
`GuidText` is `format_gatekeeper_id`. `Enumerate` compares the size that `EnumerateSecurityPackages`
computes first with the offsets that it writes to later, and `Free` is
`FreeContextBuffer`. `corrupt` records a free of what is not allocated, or a write past the
end.

`CsServer` runs it. `pc[c]` is the place of a connection's task in `ProcessAuth`; `context`,
`names` and `username` are `session.Context`, the pointer in `pNames` and the name read from it. Each
call of the interface is a step of its own (`Accept`, `QueryName`, `FreeName`,
`DeleteOnce`, `Dispose`), so that those of other tasks fall in between. The context is deleted
twice, after the result and with the session, and the second deletion must find nothing
that belongs to somebody else. The C# server offers GateKeeper only. `Native` is whatever
other code of the process does with the interface, in both packages and both roles, with
contexts and blocks that it was given; it is the environment, and deletes its contexts as
often as it likes.

Abstracted: allocation succeeds. `SspiHelpers` does not initialise the pointer that its
`finally` block frees; the model keeps this (`QueryName` gives any pointer after a failed
query), and `ContextsOwned` shows why no query fails. Calls that are refused or that
change no table (acquiring and freeing credentials, which are constants, the second leg of a client)
are no actions. A `GateKeeper` provider never completes in its first leg, so the branch for it is
left out. Null pointers, which every export refuses first, the function tables, and
`parse_c_buffers` beyond the cut of an output are not modelled.

By the comment at `dll.rs:643` and by `docs/gatekeeper_sspi_documentation.md:148` an id which is
printable text is returned as such; the code prints the digits of a GUID for every id. `GuidText`
follows the code, `NamesAreOwn` is about names of either form, and `PrintableAsText` is what the
documents say, in a run of its own.

### Wire

`Say` puts a line with an escaped token on the stream as both servers and their clients write
it, `SayBadly` one with any payload, `SayNothing` one that is none of the protocol's, `Read`
takes any number of bytes. `Feed` is `LineBuffer.feed` and `Fed` the body of its loop,
`ParseAuthLine` and `TryParseAuthLine` are the parsers of the two servers, `Escape` and
`Unescape` the loops that both languages share, and `Messages` what a server makes of its lines.
Each loop is a recursive function of the position it has reached. A byte that the protocol
treats in a way of its own has a name, `"x"` stands for the others, and keywords are one symbol
(`"AUTH"` with the blank behind it). `Bytes` are all of these. `Payloads` are what a peer may
send in the place of an escaped token, and `Noise` lines that the server passes over; the
assumptions say that a peer sends one line at a time and that stages are one letter long: the
parsers disagree on longer ones, which are no part of the protocol.

## 3. Runs

| Run | Instance | Shows |
|---|---|---|
| `gatekeeper` | 3 contexts of any role, 4 hostnames, versions 1, 2, 3, 5 | `TypeOK`, `HandlesUnique`, `HostBinding`, `StrictSessionsStayStrict`, `VersionWasNegotiated`, `HonestAnswerAccepted`, `ImplementsContexts` |
| `gatekeeper_identity` | 2 contexts, roles kept apart | violated: the identity of a finished session stays |
| `auth_server` | 2 connections, 2 packages, 4 lines | `TypeOK`, `SessionsAreOwned`, `SuccessNamesOwnUser`, `EachSuccessHasItsOpening` |
| `auth_server_live` | 2 connections, 1 package, 3 lines | `LinesAnswered`, `SessionsReleased` under fairness |
| `vault` | a manager, a tool, a server; 2 users, passwords, keys; one writer at a time; failures and kills | `TypeOK`, `KeyOpensVault`, `SuccessMeansSaved`, `NothingLost`, `EditKeepsPassword`, `OutdatedCannotLogIn` |
| `ntlm_login` | 2 contexts, 2 challenges, 3 names of 2 users, 4 domains, 2 hashes, 2 accounts saved, 2 logins | `TypeOK`, `AnswerFitsOneContext`, `SavedCanLogIn`, `ImplementsContexts` |
| `cs_server` | 2 connections, 2 contexts per package, native code with one of them, 2 heap addresses, 2 ids | `TypeOK`, `ContextsOwned`, `HeapIntact`, `NamesAreOwn`, and `ContextsReleased` under fairness |
| `cs_server_printable` | as `cs_server` | violated: a printable id is announced as a text |
| `wire` | 2 lines; tokens and payloads of up to two bytes, noise | `TypeOK`, `HeardAsSaid`, `ReadersAgree` |
| `vault_key` | programs that start together | violated: a key that exists is not replaced |
| `vault_lost_update` | two writers at once | violated: a save keeps what others stored |
| `vault_blind_save` | a manager alone and a server; a read that fails | violated: a save begins with all accounts that are in the vault |

**Bounds, and why they are enough.** Three contexts are a client, its server and a third
that a token can go astray to. The hostnames of 15 and 16 bytes share their first 15
and so sit on both sides of the truncation, the one of 9 differs from both, and
the empty one is what a session without a name has. Versions 1 and 2 are below the strict floor (and differ in
the length of an answer), 3 binds the host, 5 passes the strict check and no client answers
it; 4 behaves as 3. Four lines are the shortest sequence in which
a refused line of another package, or a second handshake, falls inside a
handshake, or two connections each run a whole one. One manager, one tool and one server
are one of each kind; the lost update needs two writers, and two programs suffice
to race for the key, and one manager to save what it never read. `CanFail` lets the random
generator, and the creating, opening, reading and writing of a file fail, each time anew, a write with
nothing, or with a part of the bytes, in the file. Two users are one that is changed and one that must not be
affected. The files have no counters, so these runs are bounded by their sets
alone. The buffers of 8, 24 and 32 bytes cut a token at its header and to the lengths that other
tokens have. For NTLM, two contexts and two challenges are
what an answer can be delivered wrongly between; `TestUser` and `testuser` are one user
and `CORP` and `corp` one domain; two saves are an account and another one, or the one that replaces
it. In `cs_server` two connections may have a context each, or one may get a new one while the
other still deletes; with two addresses a freed one is used again at once; the ids are zero and
`GK_CLIENT_ID_TOK`, which the integration client uses: it is printable, and the bytes that are
swapped differ, so that a wrong order shows. In `wire` two bytes are an escape,
half of one with something else, or two escapes' beginnings, and the second line shows what the
first has left behind. The bounds are `MaxHandle`, `MaxLines`, `MaxAccounts`, `MaxLogins` and
`MaxNative`, in the guards of the actions that create contexts, send lines, save, log
in and open native contexts; none of the proofs depends on their value.

**Symmetry** is used in `auth_server` (connections and packages) and `vault`
(users, hashes, keys) for invariants only, never with temporal properties.

**Deadlock** is not checked: every model may come to rest. Callers and clients stop, the
bounds are reached, a finished thread does nothing more.

**Fairness.** In `AuthServer`, `FairSpec` assumes weak fairness of each server thread
(`WF_vars(Thread(c))`) and nothing of clients. The code justifies it: the threads are
operating-system threads, each critical section runs a bounded computation, and the two
mutexes of a provider (table, then counter) are taken in one order wherever both
are held. A thread that waits for bytes has no step enabled and owes none. A client that sends nothing is
therefore never made to send, and an idle connection keeps its session, as there
is no timeout in the code: `SessionsReleased` starts at the end of the connection. In `CsServer` it assumes weak fairness of each
task (`WF_vars(Step(c))`): the runtime schedules its tasks, and each call of the interface
returns. Peers need not send, and native code need not call or release anything.

One assumption about peers is in these fairness conditions. Writing is synchronous in both servers
and has no timeout (`write_all`, `server.rs:369`; `Write`, `IrcxAuthServer.cs:159`). A peer that keeps its
connection open and never reads what it is sent blocks such a write for good once the buffers
between them are full. In the models a write returns or fails (`Write`, `WriteFails`; `WriteChallenge`, `Reply`).
`LinesAnswered`, `SessionsReleased` and `ContextsReleased` hold of connections whose peer
reads or goes away, and say nothing of one that does neither. No safety property depends on this:
a task that is blocked takes no step.

**Mutants.** Each property of a passing run has a mutant of the code that breaks it, in the
module right before the definition it would replace: a counter that counts
the table, a check without its flag, a reset that is forgotten, a result not looked at.

## 4. Findings

Each of these is a run that TLC refutes.

1. A repeated version 1 answer changes the identity of a finished session
   (`gatekeeper.rs:417`): a flag says that the step is done, and nothing reads it.
2. `ensure_master_key` looks, then creates: two programs that start together
   may leave a vault that no key opens (`vault.rs:89`).
3. A save writes a copy that was read earlier (`vault.rs:209`, `gui.rs:192`):
   what another writer stored in between is lost after it was reported as stored.
4. A manager whose first reading of a whole vault fails has a key and no accounts, and the
   next save replaces the vault by the one account in its form (`gui.rs:111`). It takes no
   second writer, and no write is cut off.
5. A printable id is announced as a GUID (`dll.rs:647`), where the comment above it and the
   documentation say that the text itself is returned.

Two more need no run to be seen. The challenge is constant (`gatekeeper.rs:325`), where comment
and documentation (`docs/gatekeeper_sspi_documentation.md:99`) call it random; that every server session
has the same one is part of `Provenance` below. Answers are not tied to sessions: hence `HostBinding`
speaks of the hostname and not of the session. And the reload button reports success
whatever the load came to (`gui.rs:258`); in the model, a `LoadFails` of a reload shows the banner
`"reloaded"`.

## 5. Proofs

All theorems hold for any sets of hosts, connections, programs, users, domains, ids, addresses and
keys and any value of the bounds, under the named assumptions of the modules: a name for "none" is
not a name of something else, the kinds of programs are disjoint, the two challenge
values differ, lengths are numbers, folding the case of a domain twice is folding it once, an id
has 16 bytes, a payload holds no line end and noise is what the parser refuses. Of `OneAtATime` it is said where it is assumed.

**GateKeeper_proofs.** `TypeCorrect`, `HandlesNeverReused` and, through
`IInv == TypeOK /\ Provenance /\ Completed`, the theorems `HostsAreBound`,
`StrictnessKept`, `VersionsNegotiated` and `HonestAnswersAccepted`. None of these
properties is inductive: they say that an accepted answer came about in a certain way,
and a step can only be seen to keep this if the tokens in circulation are known to have
come about properly. `Provenance` says that each challenge token names a version that was
opened, that each answer has the length and the signature of its version over
the challenge of the server, and that each server session has this challenge. `Completed`
says what was checked when an answer was accepted. Handles need a separate and smaller
argument: the counter is ahead of every id in the table or deleted. `Implements` is the step
simulation of `SecurityContexts`: opening maps to `Open` since the handle is new, the
client's answer to `Prove`, an accepted answer to `Complete`, and for it the invariant says that
the answer covers what the session records.

**AuthServer_proofs.** `TypeCorrect`, `SessionsOwned`, `SuccessIsOwn`. The invariant has
to say where a thread is between two critical sections: after the verification
its session is authenticated as its own user (`pc = "name"`), after the
question it knows its own name (`pc = "delete"`), when a first leg is about to run there is
no active context. With `SessionsAreOwned` no other thread can change a session
in between. `CountersAhead` makes a new handle new, and `LinesInOrder` makes the line that a
thread works on one that arrived. `SuccessHasOpening` is about the lines and replies of the past.
`Histories` says that a connection with an active context has an opening of this package among
its replies, after which only answers to other packages were refused, and that each success
had one when it was written; it is shown to be kept on top of the invariant above.

**Vault_proofs.** `TypeCorrect` holds however programs overlap. The others assume
`OneAtATime`. `KeyAlwaysOpensVault` rests on `KInv`: programs start alone, a program that is
about to create the key finds no file and one that is about to write it an empty one, and a
key in memory is the key on disk. `BannersAreTrue`, `SavedIsSaved` and `OutdatedStaysOut`
rest on `SInv`, which adds, for each writer, what its copy is worth: empty before it
has read the vault, then covering everything that is `safe` (`CopyHolds`, for a writer that is not
`blind`, and for any that is writing), with the change under way in it, at no time with a user that is gone or a password that was
replaced (`Current`, which the file has to be too, and which a write that is cut off does not
end), and the file empty between truncation and write. The step that needs most is a load that fails at the start: the copy is empty
then, and the next save replaces the vault. If the content is to blame, `UnreadHoldsNothing` shows
that nothing is `safe`, as a write was cut off before; if only the reading failed, the manager is
`blind` until it loads or saves, and its save takes all accounts out of `safe`. So `NothingLost` says that
an acknowledged account is lost in two ways only, a write that is cut off and finding 4.
`EditsKeepPasswords` follows from `Current` of the manager's copy: an edit looks the hash up in the
copy when it is saved, and no reload or deletion in between has made that copy outdated.

**SecurityContexts_proofs.** `IdentitiesAreEarned`: whoever a context identifies was proved to
be that, within its scope. Proofs only grow in number, so what covered an identity once still
does. With the two `Implements` theorems this holds of both packages.

**NtlmLogin_proofs.** `IInv` adds to the types that handles are below the counter, that each
challenge belongs to one session at most and was drawn, and that accounts are stored under
the folded name with a domain that folding leaves alone. `AnswersFitOneContext` follows since a
login is for the challenge of its context, and a challenge is drawn once; `SavedCanAlwaysLogIn`
since both sides fold in the same way. `Implements` is the step simulation.

**CsServer_proofs.** `OwnedAlways` rests on `Own`: the handles of both packages route to the
table they are in and are older than its counter, and a task holds a context exactly where
its place in the code says so. `HeapAlwaysIntact`
rests on `Heap`: each pointer a task holds is allocated, held by nobody else, and freed at one
place; `LayoutFits` shows that the two computations of `EnumerateSecurityPackages` agree
whatever the lengths of the strings. `NamesAlwaysOwn` rests on `Ident`, which follows the
verified id from the table to the block, to the name and to the reply; `PrintsGuid` shows that the
printed order of the bytes is that of a GUID and `GuidsDiffer` that different ids are printed
differently.

**Wire_proofs.** The theorems hold for tokens, payloads and lines of any length. What they rest
on is not about states but about the loops: `FeedConcat` says that a stream may be cut anywhere,
that is, what `feed` gives for a first part and then for what was left in the buffer with the rest is what it
gives for the whole; `EscapeRoundTrip` that `unescape` gives back what was escaped, whatever is in
it; `AuthLineParsed` that the parser finds the parts of a line where they were put, and
`Agreed` that the other one does, for every line that any peer sends.
An escaped token holds no line end (`EscapeSeen`), so that a line is one line. From these follows
the invariant `Inv`. `HeardAsSaid` alone is not inductive: it says nothing of what is still
under way, and so nothing of what the next read will hear. `Inv` therefore compares what was said
with what the server would have heard had it read everything that is on the stream
(`Rest`, `All`, `AllHeard`), and has both parsers agree on all of these lines (`AllAgreed`). Then
a read leaves all of it as it is, by `FeedConcat`, and only a new line has to be looked at.

An induction over the length of a sequence is needed for each loop. `Induction` gets it from
`LeastNumber`, that a set of numbers which is not empty has a least element, as the steps of each
induction are stated as a set of lengths; `Loop` and `Recursion` show that a loop, written as a recursive
function, is a function that obeys its equation, and `Agreement` that two functions which obey one equation are
equal.

The inductive invariants were checked with TLC on the instances above before they were proved.

**Only model-checked:** the liveness properties `LinesAnswered`, `SessionsReleased` and
`ContextsReleased` (the prover has no fairness or `ENABLED`); and of course the violations.
Every invariant and every action property of a passing run is a theorem.

## 6. What is left

*Not modelled:*

- the migration of the legacy vault format and a change of representation at a load
  (`vault.rs:138`): nothing in the repository writes that format any more. Of two of its names
  that differ in case only, one account is left, and which one is decided anew at each
  load until a save writes the new format;
- names with outer blanks, where the key and the stored name of an account differ
  (`vault.rs:202`): no document says what should become of them;
- the integration client `main.rs`, a driver that keeps no state of its own, and the build
  files;
- GateKeeperPassport, which is named in documents only;
- panics and poisoned mutexes, allocation that fails, and the parts of `dll.rs` named under `Dll`;
- theme, layout, logging, hex dumps, and listening and shutting down.

*Worth adding:* an instance of `AuthServer` with the handshakes of both packages in full, which TLC
could reach with one connection only; the legacy migration as a further program of `Vault`,
if it is kept in the code.

## 7. How to run

    tlc -config GateKeeper.cfg MCGateKeeper.tla
    tlc -config AuthServer.cfg MCAuthServer.tla
    tlc -config AuthServerLive.cfg MCAuthServer.tla
    tlc -config Vault.cfg MCVault.tla
    tlc -config NtlmLogin.cfg MCNtlmLogin.tla
    tlc -config CsServer.cfg MCCsServer.tla
    tlc -config Wire.cfg MCWire.tla
    tlapm SecurityContexts_proofs.tla
    tlapm NtlmLogin_proofs.tla
    tlapm CsServer_proofs.tla
    tlapm GateKeeper_proofs.tla
    tlapm AuthServer_proofs.tla
    tlapm Vault_proofs.tla
    tlapm Wire_proofs.tla
