------------------------------- MODULE CsServer -------------------------------
(***************************************************************************)
(* The C# authentication server of IrcxAuthServer.cs and SspiHelpers.cs    *)
(* above the C interface, in one process with native code that uses the    *)
(* interface too, for both packages.  Each connection is a task; it reads a *)
(* line, works on it to the end, call by call, and writes the reply.  The   *)
(* calls of the other tasks and of the native code fall in between.         *)
(*                                                                         *)
(* Calls that change nothing in the interface (credentials are constants,  *)
(* a refused leg, the second leg of a client) are part of the step of the   *)
(* task that makes them, or of no step.                                    *)
(***************************************************************************)
EXTENDS Dll

CONSTANTS
    Conns,           \* connections
    MaxNative        \* bound of the model: contexts that native code opens

ASSUME NativeAssumption == MaxNative \in Nat

VARIABLES
    pc,          \* conn -> what the task does next
    context,     \* conn -> session.Context, or None if not HasContext
    names,       \* conn -> the pointer in pNames, or None
    username,    \* conn -> the name that was read
    proved,      \* history: conn -> the id of the answer accepted just now
    opened,      \* history: conn -> the contexts opened for it
    announced,   \* history: successes written: the name, and the id proved
    native       \* what native code holds: contexts, past ones too, and blocks

taskVars == <<context, names, username>>
history == <<proved, opened, announced>>
vars == <<dllVars, pc, taskVars, history, native>>

\* "reading": in ReadAsync.  "restarting", "accepting", "denied", "querying",
\* "copying", "freeing", "deleting", "disposing", "replying": in ProcessAuth.
\* "challenging": writing a challenge.  "leaving": in the Dispose of using.
Places ==
    {"reading", "restarting", "accepting", "challenging", "denied", "querying",
     "copying", "freeing", "deleting", "disposing", "replying", "leaving",
     "closed"}

Goto(c, place) == pc' = [pc EXCEPT ![c] = place]

Init ==
    /\ DllInit
    /\ pc = [c \in Conns |-> "reading"]
    /\ context = [c \in Conns |-> None]
    /\ names = [c \in Conns |-> None]
    /\ username = [c \in Conns |-> None]
    /\ proved = [c \in Conns |-> None]
    /\ opened = [c \in Conns |-> {}]
    /\ announced = {}
    /\ native = [contexts |-> {}, blocks |-> {}]

-------------------------------------------------------------------------------
(* What arrives.  Anything that ProcessAuth throws at ends the connection. *)

\* An I line: the session is disposed of first.
ReceiveOpening(c) ==
    /\ pc[c] = "reading"
    /\ Goto(c, IF context[c] = None THEN "accepting" ELSE "restarting")
    /\ UNCHANGED <<dllVars, taskVars, history, native>>

\* An S line that the provider accepts.  Answers of version 1 carry no id, and
\* the provider makes one up; otherwise the peer chooses it.
ReceiveAnswer(c, id) ==
    /\ pc[c] = "reading"
    /\ context[c] # None
    /\ LastLeg(Cred["GateKeeper"], context[c], id)
    /\ proved' = [proved EXCEPT ![c] = id]
    /\ Goto(c, "querying")
    /\ UNCHANGED <<taskVars, opened, announced, native>>

\* An S line that it refuses.
ReceiveBadAnswer(c) ==
    /\ pc[c] = "reading"
    /\ context[c] # None
    /\ Goto(c, "denied")
    /\ UNCHANGED <<dllVars, taskVars, history, native>>

\* A line of another package, an S line without a context, the end of the stream,
\* an error or a cancellation.
ReceiveEnd(c) ==
    /\ pc[c] = "reading"
    /\ Goto(c, "leaving")
    /\ UNCHANGED <<dllVars, taskVars, history, native>>

-------------------------------------------------------------------------------
(* The steps of a task. *)

\* session.Dispose and Reset before an opening.
Restart(c) ==
    /\ pc[c] = "restarting"
    /\ Delete(context[c])
    /\ context' = [context EXCEPT ![c] = None]
    /\ Goto(c, "accepting")
    /\ UNCHANGED <<names, username, history, native>>

\* Accept without a context: the opening token is good.  The host and the flag
\* for older versions go along, so that answers of all versions are admitted.
Accept(c, h) ==
    /\ pc[c] = "accepting"
    /\ FirstLeg(Cred["GateKeeper"], "server", h, ZeroId)
    /\ context' = [context EXCEPT ![c] = h]
    /\ opened' = [opened EXCEPT ![c] = @ \cup {h}]
    /\ Goto(c, "challenging")
    /\ UNCHANGED <<names, username, proved, announced, native>>

\* It is not: an exception.
AcceptFails(c) ==
    /\ pc[c] = "accepting"
    /\ Goto(c, "leaving")
    /\ UNCHANGED <<dllVars, taskVars, history, native>>

\* The challenge, or the success, is written, or the write throws.
WriteChallenge(c) ==
    /\ pc[c] = "challenging"
    /\ \E place \in {"reading", "leaving"} : Goto(c, place)
    /\ UNCHANGED <<dllVars, taskVars, history, native>>

\* QueryContextUserName.  pNames is not initialised: after a failed query the
\* pointer that the finally block frees is whatever lay there.
QueryName(c) ==
    /\ pc[c] = "querying"
    /\ IF NameOf(context[c]) # None
       THEN \E address \in Addresses :
               /\ Query(context[c], address)
               /\ names' = [names EXCEPT ![c] = address]
               /\ Goto(c, "copying")
       ELSE \E address \in Addresses \cup {None} :
               /\ names' = [names EXCEPT ![c] = address]
               /\ Goto(c, "freeing")
               /\ UNCHANGED dllVars
    /\ UNCHANGED <<context, username, history, native>>

\* Marshal.PtrToStringAnsi: the name is read from the block.
CopyName(c) ==
    /\ pc[c] = "copying"
    /\ username' = [username EXCEPT ![c] =
           IF names[c] \in DOMAIN blocks THEN blocks[names[c]] ELSE None]
    /\ Goto(c, "freeing")
    /\ UNCHANGED <<dllVars, context, names, history, native>>

\* Mutant: the pointer is kept, and freed with the session once more.
FreeNameTwice(c) ==
    /\ pc[c] \in {"freeing", "deleting"}
    /\ IF names[c] = None THEN UNCHANGED dllVars ELSE Free(names[c])
    /\ Goto(c, IF pc[c] = "freeing" THEN "deleting" ELSE "disposing")
    /\ UNCHANGED <<taskVars, history, native>>

\* The finally block.
FreeName(c) ==
    /\ pc[c] = "freeing"
    /\ IF names[c] = None THEN UNCHANGED dllVars ELSE Free(names[c])
    /\ names' = [names EXCEPT ![c] = None]
    /\ Goto(c, "deleting")
    /\ UNCHANGED <<context, username, history, native>>

\* DeleteSecurityContext after a success or a refusal; HasContext stays set.
DeleteOnce(c) ==
    /\ pc[c] \in {"deleting", "denied"}
    /\ Delete(context[c])
    /\ Goto(c, IF pc[c] = "deleting" THEN "disposing" ELSE "leaving")
    /\ UNCHANGED <<taskVars, history, native>>

\* session.Dispose and Reset: the same context once more.
Dispose(c) ==
    /\ pc[c] = "disposing"
    /\ Delete(context[c])
    /\ context' = [context EXCEPT ![c] = None]
    /\ Goto(c, "replying")
    /\ UNCHANGED <<names, username, history, native>>

\* "AUTH <package> * <name>@<package> 0", or the write throws.
Reply(c) ==
    /\ pc[c] = "replying"
    /\ \/ /\ announced' = announced \cup {[name |-> username[c], id |-> proved[c]]}
          /\ Goto(c, "reading")
       \/ /\ UNCHANGED announced
          /\ Goto(c, "leaving")
    /\ username' = [username EXCEPT ![c] = None]
    /\ proved' = [proved EXCEPT ![c] = None]
    /\ UNCHANGED <<dllVars, context, names, opened, native>>

\* Mutant: the session is not in a using declaration.
LeaveWithoutDispose(c) ==
    /\ pc[c] = "leaving"
    /\ Goto(c, "closed")
    /\ UNCHANGED <<dllVars, taskVars, history, native>>

\* The using declarations end: the session is disposed of, the client closed.
Leave(c) ==
    /\ pc[c] = "leaving"
    /\ IF context[c] = None THEN UNCHANGED dllVars ELSE Delete(context[c])
    /\ context' = [context EXCEPT ![c] = None]
    /\ Goto(c, "closed")
    /\ UNCHANGED <<names, username, history, native>>

-------------------------------------------------------------------------------
(* Native code in the same process, with either package and in any role.  It  *)
(* uses what was given to it, contexts even after it has deleted them.         *)

NativeOpen(p, role, h, id) ==
    /\ Cardinality(native.contexts) < MaxNative
    /\ FirstLeg(Cred[p], role, h, id)
    /\ native' = [native EXCEPT !.contexts = @ \cup {h}]
    /\ UNCHANGED <<pc, taskVars, history>>

NativeComplete(p, h, id) ==
    /\ LastLeg(Cred[p], h, id)
    /\ UNCHANGED <<pc, taskVars, history, native>>

NativeDelete(h) ==
    /\ Delete(h)
    /\ UNCHANGED <<pc, taskVars, history, native>>

\* One block at a time.
NativeQuery(h, address) ==
    /\ native.blocks = {}
    /\ Query(h, address)
    /\ native' = [native EXCEPT !.blocks = {address}]
    /\ UNCHANGED <<pc, taskVars, history>>

NativeEnumerate(structs, address) ==
    /\ native.blocks = {}
    /\ \/ Enumerate(LengthsA, 1, structs, address)
       \/ Enumerate(LengthsW, 2, structs, address)
    /\ native' = [native EXCEPT !.blocks = {address}]
    /\ UNCHANGED <<pc, taskVars, history>>

NativeFree(address) ==
    /\ Free(address)
    /\ native' = [native EXCEPT !.blocks = @ \ {address}]
    /\ UNCHANGED <<pc, taskVars, history>>

\* Whom a handshake of a package may identify.
Named(p) == IF p = "GateKeeper" THEN Ids ELSE Accounts

\* A GateKeeper client context holds the id of its client, others nobody's.
FirstIdentities(p, role) ==
    IF p = "NTLM" THEN {None} ELSE IF role = "client" THEN Ids ELSE {ZeroId}

Native ==
    \/ \E p \in Packages, role \in Roles :
          \E id \in FirstIdentities(p, role) :
             NativeOpen(p, role, FreshHandle(p, role), id)
    \/ \E p \in Packages : \E h \in native.contexts, id \in Named(p) :
          NativeComplete(p, h, id)
    \/ \E h \in native.contexts : NativeDelete(h)
    \/ \E h \in native.contexts, address \in Addresses : NativeQuery(h, address)
    \/ \E structs \in StructSizes, address \in Addresses :
          NativeEnumerate(structs, address)
    \/ \E address \in native.blocks : NativeFree(address)

-------------------------------------------------------------------------------

Receive(c) ==
    \/ ReceiveOpening(c)
    \/ \E id \in Ids : ReceiveAnswer(c, id)
    \/ ReceiveBadAnswer(c)
    \/ ReceiveEnd(c)

Step(c) ==
    \/ Restart(c)
    \/ Accept(c, FreshHandle("GateKeeper", "server"))
    \/ AcceptFails(c)
    \/ WriteChallenge(c)
    \/ QueryName(c)
    \/ CopyName(c)
    \/ FreeName(c)
    \/ DeleteOnce(c)
    \/ Dispose(c)
    \/ Reply(c)
    \/ Leave(c)

Next ==
    \/ \E c \in Conns : Receive(c) \/ Step(c)
    \/ Native

Spec == Init /\ [][Next]_vars

\* Tasks are scheduled; peers need not send, and native code need not call.
FairSpec == Spec /\ \A c \in Conns : WF_vars(Step(c))

-------------------------------------------------------------------------------
(* Properties. *)

\* Type invariant.
TypeOK ==
    /\ DllTypeOK
    /\ pc \in [Conns -> Places]
    /\ \A c \in Conns : context[c] # None => context[c] \in Handle
    /\ DOMAIN context = Conns
    /\ names \in [Conns -> Addresses \cup {None}]
    /\ DOMAIN username = Conns
    /\ proved \in [Conns -> Ids \cup {None}]
    /\ opened \in [Conns -> SUBSET Handle]
    /\ native.contexts \subseteq Handle
    /\ native.blocks \subseteq Addresses

\* Each context has one owner: whatever a task deletes, even for the second time,
\* or after an exception, is its own and nobody's who came later; no context
\* is left behind; and while a task works on one it is still there, so that
\* no answer is refused, and no query fails, because of somebody else.
ContextsOwned ==
    /\ \A h \in DOMAIN sessions["GateKeeper"] :
          h \in native.contexts \/ \E c \in Conns : context[c] = h
    /\ \A c \in Conns : context[c] # None =>
          /\ context[c] \notin native.contexts
          /\ \A d \in Conns : context[c] = context[d] => c = d
          /\ pc[c] \in Places \ {"disposing", "leaving"} =>
                context[c] \in DOMAIN sessions["GateKeeper"]

\* The heap stays sound: each block is freed once, by whoever got it, though
\* SspiHelpers frees a pointer that a failed query would leave uninitialised,
\* and everything that is written fits.
HeapIntact == ~corrupt

\* A Windows GUID in hexadecimal digits: a dword and two words in little-endian
\* order, and eight bytes.
Guid(id) ==
    [hex |-> [i \in 1..16 |-> CASE i \in 1..4 -> id[4 - i]
                                [] i \in 5..6 -> id[10 - i]
                                [] i \in 7..8 -> id[14 - i]
                                [] i \in 9..16 -> id[i - 1]]]

\* An id that is a text itself, and that text.
IsPrintable(id) == \A i \in 0..15 : id[i] \in 32..126
AsText(id) == [ascii |-> id]

\* A success names the very id that was accepted on this connection, in one of
\* the two forms that the documents know, whatever other tasks and native code do
\* between the calls; and two users are never announced under one name.
NamesAreOwn ==
    /\ \A a \in announced :
          a.name = Guid(a.id) \/ (IsPrintable(a.id) /\ a.name = AsText(a.id))
    /\ \A a, b \in announced : a.name = b.name => a.id = b.id

\* Every line is worked off, every connection that ends is closed, and then none
\* of the contexts that were ever opened for it is left.
ContextsReleased ==
    /\ \A c \in Conns : pc[c] # "reading" ~> pc[c] \in {"reading", "closed"}
    /\ \A c \in Conns :
          pc[c] = "leaving" ~> opened[c] \cap DOMAIN sessions["GateKeeper"] = {}

-------------------------------------------------------------------------------
(* A claim that the code does not keep. *)

\* dll.rs:644 "If the ID consists of printable ASCII characters, it is returned
\* directly as a string.": whoever proved such an id is announced by it.
PrintableAsText ==
    \A a \in announced : IsPrintable(a.id) => a.name = AsText(a.id)
===============================================================================
