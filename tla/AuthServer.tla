------------------------------ MODULE AuthServer ------------------------------
(***************************************************************************)
(* The TCP authentication server of bin/server.rs: one thread per          *)
(* connection (handle_client), all of them sharing the two security        *)
(* providers.  A thread reads a segment, processes every AUTH line in it   *)
(* (process_auth), writes the replies, and reads again; its active package *)
(* and context are local.  What threads share are the providers' session   *)
(* tables, and each look at a table is a critical section of its own: a    *)
(* thread verifies an answer, asks for the user name and deletes the       *)
(* session in three separate steps, between which other threads run.       *)
(*                                                                         *)
(* The providers are abstracted to what the server sees of them: a first   *)
(* leg creates a session and asks to continue, or fails and creates none;  *)
(* a later leg authenticates the session or fails and leaves it, and is    *)
(* refused for an unknown handle.  (Both providers always ask to continue  *)
(* after a first leg and never after a later one, so those two branches of *)
(* process_auth are dead code and not modelled.)                           *)
(***************************************************************************)
EXTENDS Integers, Sequences, FiniteSets

CONSTANTS
    Conn,          \* the connections, each served by a thread
    Packages,      \* the package names parse_auth_line lets through
    None,          \* no package, no context, no user
    Fallback,      \* the user name get_username reports for a missing session
    MaxLines       \* bound of the model: lines under way on all connections

\* dw_upper tells the tables of the two providers apart (0x2000, 0x6000).
Handle == [dw_lower: Nat, dw_upper: Packages]

ASSUME NoneAssumption == None \notin Packages \cup Conn \cup Handle

ASSUME FallbackAssumption == Fallback \notin Conn \cup {None}

ASSUME MaxLinesAssumption == MaxLines \in Nat

VARIABLES
    sessions,        \* both session tables: handle -> [user, conn]
    next_handle_id,  \* next_handle_id[p]: the counter of provider p
    sent,            \* sent[c]: the AUTH lines that reached the server on c
    eof,             \* eof[c]: the client of c has closed or reset it
    fed,             \* fed[c]: how many lines of sent[c] were read
    pc,              \* pc[c]: where the thread of c is
    active_package,  \* active_package[c], None or a package
    active_context,  \* active_context[c], None or a handle
    username,        \* username[c]: what get_username returned
    replies,         \* replies[c][i]: the reply to line i of c
    next_out,        \* next_out[c]: the next reply of the batch to write
    written          \* written[c]: the replies handed to the socket, in order

local == <<active_package, active_context, username>>
wire == <<sent, eof>>
vars == <<sessions, next_handle_id, sent, eof, fed, pc, local, replies,
          next_out, written>>

-------------------------------------------------------------------------------

\* The client of connection c authenticates as c.  History: conn is the
\* connection the session was created for.
Session == [user: Conn \cup {None}, conn: Conn]

Line == [package: Packages, stage: {"I", "S"}]

Continue == [kind |-> "Continue"]       \* AUTH <package> S :<token>
Failed == [kind |-> "Failed"]           \* :server 910 * :Auth failed
Success(user) == [kind |-> "Success", user |-> user]  \* AUTH <package> * <user> 0

Reply == {Continue, Failed} \cup {Success(u) : u \in Conn \cup {None, Fallback}}

\* The line the thread of c is working on: the first without a reply.
Current(c) == sent[c][Len(replies[c]) + 1]

\* Mutant: the id is the size of the table, so it comes back after a deletion.
FreshHandleBySize(p) ==
    [dw_lower |-> Cardinality({h \in DOMAIN sessions : h.dw_upper = p}) + 1,
     dw_upper |-> p]

FreshHandle(p) == [dw_lower |-> next_handle_id[p], dw_upper |-> p]

\* delete_security_context of provider p: removes the handle if it is there.
Without(p, h) ==
    [x \in DOMAIN sessions \ {y \in {h} : y.dw_upper = p} |-> sessions[x]]

\* The tables after cleanup_session: it deletes the active context, provided
\* there is an active package too.
Cleaned(c) ==
    IF active_context[c] # None /\ active_package[c] # None
    THEN Without(active_package[c], active_context[c]) ELSE sessions

Answer(c, reply) == replies' = [replies EXCEPT ![c] = Append(@, reply)]

Goto(c, label) == pc' = [pc EXCEPT ![c] = label]

-------------------------------------------------------------------------------
(* The clients and the network. *)

AllSent == UNION {{c} \X DOMAIN sent[c] : c \in Conn}

Send(c, line) ==
    /\ ~eof[c]
    /\ Cardinality(AllSent) < MaxLines
    /\ sent' = [sent EXCEPT ![c] = Append(@, line)]
    /\ UNCHANGED <<sessions, next_handle_id, eof, fed, pc, local, replies,
                   next_out, written>>

\* The client closes: what it sent is read before the end of the stream is.
Close(c) ==
    /\ ~eof[c]
    /\ eof' = [eof EXCEPT ![c] = TRUE]
    /\ UNCHANGED <<sessions, next_handle_id, sent, fed, pc, local, replies,
                   next_out, written>>

\* The connection is reset: what was not read yet is lost.
Reset(c) ==
    /\ ~eof[c]
    /\ eof' = [eof EXCEPT ![c] = TRUE]
    /\ sent' = [sent EXCEPT ![c] = SubSeq(@, 1, fed[c])]
    /\ UNCHANGED <<sessions, next_handle_id, fed, pc, local, replies,
                   next_out, written>>

-------------------------------------------------------------------------------
(* handle_client. *)

\* A segment of the stream is read: it completes one line or more.
Read(c) ==
    /\ pc[c] = "read"
    /\ \E n \in fed[c] + 1 .. Len(sent[c]) : fed' = [fed EXCEPT ![c] = n]
    /\ Goto(c, "line")
    /\ UNCHANGED <<sessions, next_handle_id, wire, local, replies, next_out,
                   written>>

\* Mutant: the thread returns without cleanup_session.
ReadEndNoCleanup(c) ==
    /\ pc[c] = "read"
    /\ eof[c]
    /\ fed[c] = Len(sent[c])
    /\ Goto(c, "done")
    /\ UNCHANGED <<sessions, next_handle_id, wire, fed, local, replies,
                   next_out, written>>

\* The read reports the end of the stream, or an error.
ReadEnd(c) ==
    /\ pc[c] = "read"
    /\ eof[c]
    /\ fed[c] = Len(sent[c])
    /\ Goto(c, "cleanup")
    /\ UNCHANGED <<sessions, next_handle_id, wire, fed, local, replies,
                   next_out, written>>

\* cleanup_session as the thread ends.
Cleanup(c) ==
    /\ pc[c] = "cleanup"
    /\ sessions' = Cleaned(c)
    /\ active_context' = [active_context EXCEPT ![c] = None]
    /\ active_package' = [active_package EXCEPT ![c] = None]
    /\ Goto(c, "done")
    /\ UNCHANGED <<next_handle_id, wire, fed, username, replies, next_out,
                   written>>

\* Mutant: the replies are written only while a handshake is going on.
BatchEndQuiet(c) ==
    /\ pc[c] = "line"
    /\ Len(replies[c]) = fed[c]
    /\ Goto(c, IF active_context[c] # None THEN "write" ELSE "read")
    /\ UNCHANGED <<sessions, next_handle_id, wire, fed, local, replies,
                   next_out, written>>

\* The whole segment is processed.
BatchEnd(c) ==
    /\ pc[c] = "line"
    /\ Len(replies[c]) = fed[c]
    /\ Goto(c, "write")
    /\ UNCHANGED <<sessions, next_handle_id, wire, fed, local, replies,
                   next_out, written>>

Write(c) ==
    /\ pc[c] = "write"
    /\ next_out[c] <= Len(replies[c])
    /\ written' = [written EXCEPT ![c] = Append(@, next_out[c])]
    /\ next_out' = [next_out EXCEPT ![c] = @ + 1]
    /\ UNCHANGED <<sessions, next_handle_id, wire, fed, pc, local, replies>>

\* A failed write abandons the replies of the batch and not the connection: the
\* break leaves the loop over the replies only.
WriteFails(c) ==
    /\ pc[c] = "write"
    /\ eof[c]
    /\ next_out[c] <= Len(replies[c])
    /\ next_out' = [next_out EXCEPT ![c] = Len(replies[c]) + 1]
    /\ UNCHANGED <<sessions, next_handle_id, wire, fed, pc, local, replies,
                   written>>

WriteEnd(c) ==
    /\ pc[c] = "write"
    /\ next_out[c] > Len(replies[c])
    /\ Goto(c, "read")
    /\ UNCHANGED <<sessions, next_handle_id, wire, fed, local, replies,
                   next_out, written>>

-------------------------------------------------------------------------------
(* process_auth. *)

HasLine(c, stage) ==
    /\ pc[c] = "line"
    /\ Len(replies[c]) < fed[c]
    /\ Current(c).stage = stage

\* Stage I drops whatever handshake was going on, and notes the package.
Open(c) ==
    /\ HasLine(c, "I")
    /\ sessions' = Cleaned(c)
    /\ active_context' = [active_context EXCEPT ![c] = None]
    /\ active_package' = [active_package EXCEPT ![c] = Current(c).package]
    /\ Goto(c, "accept first")
    /\ UNCHANGED <<next_handle_id, wire, fed, username, replies, next_out,
                   written>>

\* The provider accepts the opening token: the session is in its table before
\* the lock is released.
OpenContinues(c) ==
    LET p == active_package[c]
        h == FreshHandle(p)
    IN  /\ pc[c] = "accept first"
        /\ sessions' = [x \in DOMAIN sessions \cup {h} |->
                           IF x = h THEN [user |-> None, conn |-> c]
                                    ELSE sessions[x]]
        /\ next_handle_id' = [next_handle_id EXCEPT ![p] = @ + 1]
        /\ active_context' = [active_context EXCEPT ![c] = h]
        /\ Answer(c, Continue)
        /\ Goto(c, "line")
        /\ UNCHANGED <<wire, fed, active_package, username, next_out, written>>

\* The provider refuses it.  The package stays active, without a context.
OpenFails(c) ==
    /\ pc[c] = "accept first"
    /\ Answer(c, Failed)
    /\ Goto(c, "line")
    /\ UNCHANGED <<sessions, next_handle_id, wire, fed, local, next_out, written>>

\* Stage S needs a handshake that is going on, with the same package.
IsForActive(c) ==
    /\ active_context[c] # None
    /\ active_package[c] = Current(c).package

\* Otherwise it fails at once, and the handshake goes on.
Mismatch(c) ==
    /\ HasLine(c, "S")
    /\ ~IsForActive(c)
    /\ Answer(c, Failed)
    /\ UNCHANGED <<sessions, next_handle_id, wire, fed, pc, local, next_out,
                   written>>

\* Mutant: the provider forgets a session as soon as it is authenticated.
VerifyDeletesFirst(c) ==
    LET h == active_context[c]
    IN  /\ HasLine(c, "S")
        /\ IsForActive(c)
        /\ h \in DOMAIN sessions
        /\ h.dw_upper = Current(c).package
        /\ sessions' = Without(h.dw_upper, h)
        /\ Goto(c, "name")
        /\ UNCHANGED <<next_handle_id, wire, fed, local, replies, next_out,
                       written>>

\* Mutant: the provider authenticates the session as the fallback user.
VerifyFallback(c) ==
    LET h == active_context[c]
    IN  /\ HasLine(c, "S")
        /\ IsForActive(c)
        /\ h \in DOMAIN sessions
        /\ h.dw_upper = Current(c).package
        /\ sessions' = [sessions EXCEPT ![h].user = Fallback]
        /\ Goto(c, "name")
        /\ UNCHANGED <<next_handle_id, wire, fed, local, replies, next_out,
                       written>>

\* The provider of the line's package accepts the answer: the session names the
\* user from now on.
Verify(c) ==
    LET h == active_context[c]
    IN  /\ HasLine(c, "S")
        /\ IsForActive(c)
        /\ h \in DOMAIN sessions
        /\ h.dw_upper = Current(c).package
        /\ sessions' = [sessions EXCEPT ![h].user = c]
        /\ Goto(c, "name")
        /\ UNCHANGED <<next_handle_id, wire, fed, local, replies, next_out,
                       written>>

\* The provider refuses the answer, or does not know the handle.
VerifyFails(c) ==
    /\ HasLine(c, "S")
    /\ IsForActive(c)
    /\ Goto(c, "drop")
    /\ UNCHANGED <<sessions, next_handle_id, wire, fed, local, replies,
                   next_out, written>>

\* Mutant: a failed answer leaves the handshake open for another try.
DropNothing(c) ==
    /\ pc[c] = "drop"
    /\ Answer(c, Failed)
    /\ Goto(c, "line")
    /\ UNCHANGED <<sessions, next_handle_id, wire, fed, local, next_out, written>>

\* cleanup_session after a failure.
Drop(c) ==
    /\ pc[c] = "drop"
    /\ sessions' = Cleaned(c)
    /\ active_context' = [active_context EXCEPT ![c] = None]
    /\ active_package' = [active_package EXCEPT ![c] = None]
    /\ Answer(c, Failed)
    /\ Goto(c, "line")
    /\ UNCHANGED <<next_handle_id, wire, fed, username, next_out, written>>

\* get_username locks the table again; a session that is gone has a fallback.
GetUsername(c) ==
    LET h == active_context[c]
    IN  /\ pc[c] = "name"
        /\ username' = [username EXCEPT ![c] =
                          IF h \in DOMAIN sessions THEN sessions[h].user
                                                   ELSE Fallback]
        /\ Goto(c, "delete")
        /\ UNCHANGED <<sessions, next_handle_id, wire, fed, active_package,
                       active_context, replies, next_out, written>>

\* The session is deleted, in a third critical section, and success reported.
Finish(c) ==
    /\ pc[c] = "delete"
    /\ sessions' = Without(Current(c).package, active_context[c])
    /\ active_context' = [active_context EXCEPT ![c] = None]
    /\ active_package' = [active_package EXCEPT ![c] = None]
    /\ username' = [username EXCEPT ![c] = None]
    /\ Answer(c, Success(username[c]))
    /\ Goto(c, "line")
    /\ UNCHANGED <<next_handle_id, wire, fed, next_out, written>>

-------------------------------------------------------------------------------

Init ==
    /\ sessions = << >>
    /\ next_handle_id = [p \in Packages |-> 1]
    /\ sent = [c \in Conn |-> << >>]
    /\ eof = [c \in Conn |-> FALSE]
    /\ fed = [c \in Conn |-> 0]
    /\ pc = [c \in Conn |-> "read"]
    /\ active_package = [c \in Conn |-> None]
    /\ active_context = [c \in Conn |-> None]
    /\ username = [c \in Conn |-> None]
    /\ replies = [c \in Conn |-> << >>]
    /\ next_out = [c \in Conn |-> 1]
    /\ written = [c \in Conn |-> << >>]

Client(c) == (\E line \in Line : Send(c, line)) \/ Close(c) \/ Reset(c)

Thread(c) ==
    \/ Read(c) \/ ReadEnd(c) \/ Cleanup(c)
    \/ BatchEnd(c) \/ Write(c) \/ WriteFails(c) \/ WriteEnd(c)
    \/ Open(c) \/ OpenContinues(c) \/ OpenFails(c)
    \/ Mismatch(c) \/ Verify(c) \/ VerifyFails(c) \/ Drop(c)
    \/ GetUsername(c) \/ Finish(c)

Next == \E c \in Conn : Client(c) \/ Thread(c)

Spec == Init /\ [][Next]_vars

\* The operating system keeps every thread running, and nobody holds a lock for
\* longer than one of the steps above.  Clients are under no obligation.
FairSpec == Spec /\ \A c \in Conn : WF_vars(Thread(c))

-------------------------------------------------------------------------------
(* Properties. *)

Labels == {"read", "line", "accept first", "drop", "name", "delete", "write",
           "cleanup", "done"}

\* Type invariant.
TypeOK ==
    /\ DOMAIN sessions \subseteq Handle
    /\ \A h \in DOMAIN sessions : sessions[h] \in Session
    /\ next_handle_id \in [Packages -> Nat]
    /\ sent \in [Conn -> Seq(Line)]
    /\ replies \in [Conn -> Seq(Reply)]
    /\ eof \in [Conn -> BOOLEAN]
    /\ fed \in [Conn -> Nat]
    /\ pc \in [Conn -> Labels]
    /\ active_package \in [Conn -> Packages \cup {None}]
    /\ active_context \in [Conn -> Handle \cup {None}]
    /\ username \in [Conn -> Conn \cup {None, Fallback}]
    /\ next_out \in [Conn -> Nat]
    /\ written \in [Conn -> Seq(Nat)]

\* The two session tables hold exactly the sessions that connections are working
\* on, each for the connection it was created for and in the table of that
\* connection's package.  A session nobody holds would stay for the life of the
\* server, and a connection whose session was gone would be refused.
SessionsAreOwned ==
    /\ \A h \in DOMAIN sessions : active_context[sessions[h].conn] = h
    /\ \A c \in Conn : active_context[c] # None =>
          /\ active_context[c] \in DOMAIN sessions
          /\ sessions[active_context[c]].conn = c
          /\ active_context[c].dw_upper = active_package[c]

\* Whatever the other threads do between the three critical sections, a success
\* names the user who answered on this connection, and never the fallback.
SuccessNamesOwnUser ==
    \A c \in Conn : \A i \in DOMAIN replies[c] :
        replies[c][i].kind = "Success" => replies[c][i].user = c

\* One handshake, one verdict: a success on line i answers a handshake that was
\* opened on an earlier line, with the same package, and on which nothing but
\* lines for the other package were refused in between.
EachSuccessHasItsOpening ==
    \A c \in Conn : \A i \in DOMAIN replies[c] :
        replies[c][i].kind = "Success" =>
           \E j \in 1 .. i - 1 :
             /\ replies[c][j] = Continue
             /\ sent[c][j].package = sent[c][i].package
             /\ \A k \in j + 1 .. i - 1 :
                  /\ sent[c][k].stage = "S"
                  /\ sent[c][k].package # sent[c][i].package
                  /\ replies[c][k] = Failed

\* A line that reached the server is answered, unless the client goes away.
LinesAnswered ==
    \A c \in Conn : \A i \in 1..MaxLines :
        (Len(sent[c]) >= i) ~> (eof[c] \/ \E k \in DOMAIN written[c] : written[c][k] = i)

\* When a client goes away, its session does too, for good.
SessionsReleased ==
    \A c \in Conn :
        eof[c] ~> [](\A h \in DOMAIN sessions : sessions[h].conn # c)

===============================================================================
