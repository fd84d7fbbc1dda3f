--------------------------- MODULE AuthServer_proofs ---------------------------
(* Proofs about AuthServer, for any set of connections and packages.  The     *)
(* session tables and the threads' local variables are related by an          *)
(* inductive invariant that also says where a thread is between two of its    *)
(* critical sections.                                                         *)
EXTENDS AuthServer, TLAPS

-------------------------------------------------------------------------------
(* The strengthening. *)

\* Lines are processed in the order they were read, and read as they arrived.
LinesInOrder ==
    \A c \in Conn : Len(replies[c]) <= fed[c] /\ fed[c] <= Len(sent[c])

\* The counter of a provider is ahead of every handle in its table.
CountersAhead ==
    \A h \in DOMAIN sessions : h.dw_lower < next_handle_id[h.dw_upper]

\* What a thread knows between two critical sections.
ThreadConsistent(c) ==
    /\ pc[c] \in {"accept first", "drop", "name", "delete"} =>
          Len(replies[c]) < fed[c]
    /\ pc[c] = "accept first" =>
          active_context[c] = None /\ active_package[c] # None
    /\ pc[c] \in {"name", "delete"} =>
          /\ active_context[c] # None
          /\ active_package[c] = Current(c).package
    /\ pc[c] = "name" => sessions[active_context[c]].user = c
    /\ pc[c] = "delete" => username[c] = c

ThreadsConsistent == \A c \in Conn : ThreadConsistent(c)

IInv ==
    /\ TypeOK
    /\ SuccessNamesOwnUser
    /\ LinesInOrder
    /\ CountersAhead
    /\ SessionsAreOwned
    /\ ThreadsConsistent

-------------------------------------------------------------------------------
(* Lemmas about the operators. *)

\* The line a thread works on is one of those that arrived.
LEMMA CurrentType ==
    ASSUME TypeOK, LinesInOrder, NEW c \in Conn, Len(replies[c]) < fed[c]
    PROVE  /\ Len(replies[c]) + 1 \in 1 .. Len(sent[c])
           /\ Current(c) \in Line
           /\ Current(c).package \in Packages
<1>1. /\ sent[c] \in Seq(Line) /\ replies[c] \in Seq(Reply)
      /\ fed[c] \in Nat
  BY DEF TypeOK
<1>2. Len(replies[c]) + 1 \in 1 .. Len(sent[c])
  BY <1>1 DEF LinesInOrder
<1>3. Current(c) \in Line
  BY <1>1, <1>2 DEF Current
<1>4. QED
  BY <1>1, <1>2, <1>3 DEF Line

\* cleanup_session takes out of the tables the session of its thread, and no
\* other: the package it looks up is the one the session was created in.
LEMMA CleanedLookup ==
    ASSUME TypeOK, SessionsAreOwned, NEW c \in Conn
    PROVE  /\ DOMAIN Cleaned(c) = DOMAIN sessions \ {active_context[c]}
           /\ \A h \in DOMAIN Cleaned(c) : Cleaned(c)[h] = sessions[h]
<1>1. CASE active_context[c] = None
  <2>1. None \notin DOMAIN sessions
    BY NoneAssumption DEF TypeOK
  <2>2. QED
    BY <1>1, <2>1 DEF Cleaned
<1>2. CASE active_context[c] # None
  <2>1. /\ active_context[c].dw_upper = active_package[c]
        /\ active_context[c] \in Handle
    BY <1>2 DEF SessionsAreOwned, TypeOK
  <2>2. active_package[c] # None
    BY <2>1, NoneAssumption DEF Handle
  <2>3. Cleaned(c) = Without(active_package[c], active_context[c])
    BY <1>2, <2>2 DEF Cleaned
  <2>4. {y \in {active_context[c]} : y.dw_upper = active_package[c]}
           = {active_context[c]}
    BY <2>1
  <2>5. QED
    BY <2>3, <2>4 DEF Without
<1>3. QED
  BY <1>1, <1>2

\* So does the deletion after a success.
LEMMA FinishLookup ==
    ASSUME TypeOK, SessionsAreOwned, ThreadsConsistent, NEW c \in Conn,
           pc[c] = "delete"
    PROVE  LET s == Without(Current(c).package, active_context[c])
           IN  /\ DOMAIN s = DOMAIN sessions \ {active_context[c]}
               /\ \A h \in DOMAIN s : s[h] = sessions[h]
<1>1. /\ active_context[c].dw_upper = Current(c).package
  BY DEF SessionsAreOwned, ThreadsConsistent, ThreadConsistent
<1>2. {y \in {active_context[c]} : y.dw_upper = Current(c).package}
         = {active_context[c]}
  BY <1>1
<1>3. QED
  BY <1>2 DEF Without

-------------------------------------------------------------------------------
(* Each part of the invariant is preserved by the steps. *)

\* A client step leaves the server's state alone; it appends to the lines that
\* were sent, or takes away lines that nobody has read.
LEMMA ClientStep ==
    ASSUME IInv, NEW c \in Conn, Client(c)
    PROVE  IInv'
<1>1. /\ UNCHANGED <<sessions, next_handle_id, fed, pc, local, replies, next_out, written>>
      /\ eof' \in [Conn -> BOOLEAN]
  BY DEF Client, Send, Close, Reset, IInv, TypeOK
<1> DEFINE KeepsWhatWasRead ==
               /\ sent' \in [Conn -> Seq(Line)]
               /\ \A d \in Conn :
                     /\ fed[d] <= Len(sent'[d])
                     /\ \A i \in 1..fed[d] : sent'[d][i] = sent[d][i]
<1>2. KeepsWhatWasRead
  <2>1. ASSUME NEW line \in Line, Send(c, line)
        PROVE  KeepsWhatWasRead
    <3>1. sent' = [sent EXCEPT ![c] = Append(sent[c], line)]
      BY <2>1 DEF Send
    <3>2. /\ Append(sent[c], line) \in Seq(Line)
          /\ Len(Append(sent[c], line)) = Len(sent[c]) + 1
          /\ \A i \in 1..Len(sent[c]) : Append(sent[c], line)[i] = sent[c][i]
      BY DEF IInv, TypeOK
    <3>3. QED
      BY <3>1, <3>2 DEF IInv, TypeOK, LinesInOrder
  <2>2. CASE Close(c)
    BY <2>2 DEF Close, IInv, TypeOK, LinesInOrder
  <2>3. CASE Reset(c)
    <3>1. sent' = [sent EXCEPT ![c] = SubSeq(sent[c], 1, fed[c])]
      BY <2>3 DEF Reset
    <3>2. /\ SubSeq(sent[c], 1, fed[c]) \in Seq(Line)
          /\ Len(SubSeq(sent[c], 1, fed[c])) = fed[c]
          /\ \A i \in 1..fed[c] : SubSeq(sent[c], 1, fed[c])[i] = sent[c][i]
      BY DEF IInv, TypeOK, LinesInOrder
    <3>3. QED
      BY <3>1, <3>2 DEF IInv, TypeOK, LinesInOrder
  <2>4. QED
    BY <2>1, <2>2, <2>3 DEF Client
<1>3. ASSUME NEW d \in Conn, Len(replies[d]) < fed[d]
      PROVE  Current(d)' = Current(d)
  <2>1. Len(replies[d]) + 1 \in 1..fed[d]
    BY <1>3 DEF IInv, TypeOK
  <2>2. QED
    BY <1>1, <1>2, <2>1 DEF Current
<1>4. TypeOK'
  BY <1>1, <1>2 DEF IInv, TypeOK, local
<1>5. LinesInOrder'
  BY <1>1, <1>2 DEF IInv, LinesInOrder
<1>6. CountersAhead' /\ SessionsAreOwned'
  BY <1>1 DEF IInv, CountersAhead, SessionsAreOwned, local
<1>7. ThreadsConsistent'
  BY <1>1, <1>3 DEF IInv, ThreadsConsistent, ThreadConsistent, local
<1>8. SuccessNamesOwnUser'
  BY <1>1 DEF IInv, SuccessNamesOwnUser
<1>9. QED
  BY <1>4, <1>5, <1>6, <1>7, <1>8 DEF IInv

\* The part of the state a step of a thread reads and changes besides the tables.
LEMMA ThreadTypes ==
    ASSUME IInv, NEW c \in Conn, Thread(c)
    PROVE  TypeOK' /\ LinesInOrder'
<1>1. CASE Read(c)
  <2>1. PICK n \in fed[c] + 1 .. Len(sent[c]) : fed' = [fed EXCEPT ![c] = n]
    BY <1>1 DEF Read
  <2>2. n \in Nat /\ fed[c] \in Nat /\ fed[c] < n /\ n <= Len(sent[c])
    BY <2>1 DEF IInv, TypeOK
  <2>3. /\ TypeOK'
    BY <1>1, <2>1, <2>2 DEF Read, Goto, IInv, TypeOK, wire, local, Labels
  <2>4. \A d \in Conn : Len(replies[d]) \in Nat
    BY DEF IInv, TypeOK
  <2>5. LinesInOrder'
    BY <1>1, <2>1, <2>2, <2>4 DEF Read, IInv, LinesInOrder, wire, TypeOK
  <2>6. QED
    BY <2>3, <2>5
<1>2. CASE ReadEnd(c) \/ BatchEnd(c) \/ WriteEnd(c)
  BY <1>2 DEF ReadEnd, BatchEnd, WriteEnd, Goto, IInv, TypeOK, LinesInOrder,
              wire, local, Labels
<1>3. CASE Write(c)
  <2>1. Append(written[c], next_out[c]) \in Seq(Nat) /\ next_out[c] + 1 \in Nat
    BY DEF IInv, TypeOK
  <2>2. QED
    BY <1>3, <2>1 DEF Write, IInv, TypeOK, LinesInOrder, wire, local
<1>4. CASE WriteFails(c)
  <2>1. Len(replies[c]) + 1 \in Nat
    BY DEF IInv, TypeOK
  <2>2. QED
    BY <1>4, <2>1 DEF WriteFails, IInv, TypeOK, LinesInOrder, wire, local
<1>5. ASSUME sessions' = Cleaned(c)
      PROVE  /\ DOMAIN sessions' \subseteq Handle
             /\ \A h \in DOMAIN sessions' : sessions'[h] \in Session
  <2>1. /\ DOMAIN sessions' = DOMAIN sessions \ {active_context[c]}
        /\ \A h \in DOMAIN sessions' : sessions'[h] = sessions[h]
    BY <1>5, CleanedLookup DEF IInv
  <2>2. QED
    BY <2>1 DEF IInv, TypeOK
<1>6. ASSUME NEW r \in Reply, Answer(c, r), fed' = fed, sent' = sent,
             Len(replies[c]) < fed[c]
      PROVE  replies' \in [Conn -> Seq(Reply)] /\ LinesInOrder'
  <2>1. /\ Append(replies[c], r) \in Seq(Reply)
        /\ Len(Append(replies[c], r)) = Len(replies[c]) + 1
        /\ Len(replies[c]) \in Nat /\ fed[c] \in Nat
    BY DEF IInv, TypeOK
  <2>2. replies' = [replies EXCEPT ![c] = Append(replies[c], r)]
    BY <1>6 DEF Answer
  <2>3. replies' \in [Conn -> Seq(Reply)]
    BY <2>1, <2>2 DEF IInv, TypeOK
  <2>4. \A d \in Conn : Len(replies'[d]) <= fed[d]
    BY <1>6, <2>1, <2>2 DEF IInv, TypeOK, LinesInOrder
  <2>5. QED
    BY <1>6, <2>3, <2>4 DEF IInv, LinesInOrder
<1>7. CASE Cleanup(c)
  BY <1>5, <1>7 DEF Cleanup, Goto, IInv, TypeOK, LinesInOrder, wire, Labels
<1>8. CASE Open(c)
  <2>1. Current(c).package \in Packages
    BY <1>8, CurrentType DEF Open, HasLine, IInv
  <2>2. QED
    BY <1>5, <1>8, <2>1 DEF Open, Goto, IInv, TypeOK, LinesInOrder, wire, Labels
<1>9. Continue \in Reply /\ Failed \in Reply
      /\ \A u \in Conn \cup {None, Fallback} : Success(u) \in Reply
  BY DEF Reply
<1>10. CASE OpenContinues(c)
  <2> DEFINE p == active_package[c]
             h == FreshHandle(p)
  <2>1. Len(replies[c]) < fed[c] /\ p \in Packages
    BY <1>10 DEF OpenContinues, IInv, ThreadsConsistent,
        ThreadConsistent, TypeOK
  <2>2. h \in Handle
    BY <2>1 DEF FreshHandle, Handle, IInv, TypeOK
  <2>3. [user |-> None, conn |-> c] \in Session
    BY DEF Session
  <2>4. /\ DOMAIN sessions' \subseteq Handle
        /\ \A x \in DOMAIN sessions' : sessions'[x] \in Session
    <3> HIDE DEF h
    <3> QED
      BY <1>10, <2>2, <2>3 DEF OpenContinues, IInv, TypeOK, h
  <2>5. replies' \in [Conn -> Seq(Reply)] /\ LinesInOrder'
    BY <1>6, <1>9, <1>10, <2>1 DEF OpenContinues, wire
  <2>6. /\ next_handle_id' \in [Packages -> Nat]
        /\ active_context' \in [Conn -> Handle \cup {None}]
    <3>1. next_handle_id[p] + 1 \in Nat
      BY <2>1 DEF IInv, TypeOK
    <3>2. /\ next_handle_id' = [next_handle_id EXCEPT ![p] = next_handle_id[p] + 1]
          /\ active_context' = [active_context EXCEPT ![c] = h]
      BY <1>10 DEF OpenContinues
    <3> HIDE DEF h, p
    <3> QED
      BY <2>1, <2>2, <3>1, <3>2 DEF IInv, TypeOK
  <2>7. QED
    BY <1>10, <2>4, <2>5, <2>6
       DEF OpenContinues, Goto, IInv, TypeOK, wire, Labels
<1>11. CASE OpenFails(c)
  <2>1. replies' \in [Conn -> Seq(Reply)] /\ LinesInOrder'
    BY <1>6, <1>9, <1>11 DEF OpenFails, wire, IInv, ThreadsConsistent,
        ThreadConsistent
  <2>2. QED
    BY <1>11, <2>1 DEF OpenFails, Goto, IInv, TypeOK, wire, local, Labels
<1>12. CASE Mismatch(c)
  <2>1. replies' \in [Conn -> Seq(Reply)] /\ LinesInOrder'
    BY <1>6, <1>9, <1>12 DEF Mismatch, HasLine, wire
  <2>2. QED
    BY <1>12, <2>1 DEF Mismatch, IInv, TypeOK, wire, local
<1>13. CASE Verify(c)
  <2> DEFINE h == active_context[c]
  <2>1. /\ DOMAIN sessions' \subseteq Handle
        /\ \A x \in DOMAIN sessions' : sessions'[x] \in Session
    BY <1>13 DEF Verify, IInv, TypeOK, Session
  <2>2. QED
    BY <1>13, <2>1 DEF Verify, Goto, IInv, TypeOK, LinesInOrder, wire, local, Labels
<1>14. CASE VerifyFails(c)
  BY <1>14 DEF VerifyFails, Goto, IInv, TypeOK, LinesInOrder, wire, local, Labels
<1>15. CASE Drop(c)
  <2>1. replies' \in [Conn -> Seq(Reply)] /\ LinesInOrder'
    BY <1>6, <1>9, <1>15 DEF Drop, wire, IInv, ThreadsConsistent,
        ThreadConsistent
  <2>2. QED
    BY <1>5, <1>15, <2>1 DEF Drop, Goto, IInv, TypeOK, wire, Labels
<1>16. CASE GetUsername(c)
  <2> DEFINE h == active_context[c]
  <2>1. h \in DOMAIN sessions => sessions[h].user \in Conn \cup {None}
    BY DEF IInv, TypeOK, Session
  <2>2. username' \in [Conn -> Conn \cup {None, Fallback}]
    BY <1>16, <2>1 DEF GetUsername, IInv, TypeOK
  <2>3. QED
    BY <1>16, <2>2 DEF GetUsername, Goto, IInv, TypeOK, LinesInOrder, wire, Labels
<1>17. CASE Finish(c)
  <2>1. /\ DOMAIN sessions' = DOMAIN sessions \ {active_context[c]}
        /\ \A h \in DOMAIN sessions' : sessions'[h] = sessions[h]
    BY <1>17, FinishLookup DEF Finish, IInv
  <2>2. /\ DOMAIN sessions' \subseteq Handle
        /\ \A h \in DOMAIN sessions' : sessions'[h] \in Session
    BY <2>1 DEF IInv, TypeOK
  <2>3. Success(username[c]) \in Reply
    BY <1>9 DEF IInv, TypeOK
  <2>4. replies' \in [Conn -> Seq(Reply)] /\ LinesInOrder'
    BY <1>6, <1>17, <2>3 DEF Finish, wire, IInv, ThreadsConsistent,
        ThreadConsistent
  <2>5. QED
    BY <1>17, <2>2, <2>4 DEF Finish, Goto, IInv, TypeOK, wire, Labels
<1>18. QED
  BY <1>1, <1>2, <1>3, <1>4, <1>7, <1>8, <1>10, <1>11, <1>12, <1>13, <1>14,
     <1>15, <1>16, <1>17 DEF Thread

\* A step of one thread does not touch what another one knows: neither its local
\* variables nor the session it holds.
LEMMA OthersKept ==
    ASSUME IInv, NEW c \in Conn, Thread(c), NEW d \in Conn, d # c
    PROVE  /\ UNCHANGED <<pc[d], active_package[d], active_context[d],
                          username[d], replies[d], fed[d], sent[d]>>
           /\ active_context[d] # None =>
                /\ active_context[d] \in DOMAIN sessions'
                /\ sessions'[active_context[d]] = sessions[active_context[d]]
<1>1. /\ sent' = sent
      /\ fed'[d] = fed[d]
      /\ pc'[d] = pc[d]
      /\ replies'[d] = replies[d]
  BY DEF Thread, Read, ReadEnd, Cleanup, BatchEnd, Write, WriteFails, WriteEnd,
         Open, OpenContinues, OpenFails, Mismatch, Verify, VerifyFails, Drop,
         GetUsername, Finish, Goto, Answer, wire, IInv, TypeOK
<1>2. /\ active_package'[d] = active_package[d]
      /\ active_context'[d] = active_context[d]
      /\ username'[d] = username[d]
  BY DEF Thread, Read, ReadEnd, Cleanup, BatchEnd, Write, WriteFails, WriteEnd,
         Open, OpenContinues, OpenFails, Mismatch, Verify, VerifyFails, Drop,
         GetUsername, Finish, local, IInv, TypeOK
<1>3. ASSUME active_context[d] # None
      PROVE  /\ active_context[d] \in DOMAIN sessions'
             /\ sessions'[active_context[d]] = sessions[active_context[d]]
  <2> DEFINE h == active_context[d]
  <2>1. /\ h \in DOMAIN sessions
        /\ h # active_context[c]
    BY <1>3 DEF IInv, SessionsAreOwned
  <2>2. CASE sessions' = Cleaned(c)
    BY <2>1, <2>2, CleanedLookup DEF IInv
  <2>3. CASE Finish(c)
    BY <2>1, <2>3, FinishLookup DEF IInv, Finish
  <2>4. CASE sessions' = sessions
    BY <2>1, <2>4
  <2>5. CASE OpenContinues(c)
    <3> DEFINE g == FreshHandle(active_package[c])
    <3>1. h # g
      BY <2>1 DEF FreshHandle, IInv, CountersAhead, TypeOK, Handle
    <3>2. QED
      BY <2>1, <2>5, <3>1 DEF OpenContinues
  <2>6. CASE Verify(c)
    BY <2>1, <2>6 DEF Verify
  <2>7. QED
    BY <2>2, <2>3, <2>4, <2>5, <2>6
       DEF Thread, Read, ReadEnd, Cleanup, BatchEnd, Write, WriteFails,
           WriteEnd, Open, OpenFails, Mismatch, VerifyFails, Drop, GetUsername
<1>4. QED
  BY <1>1, <1>2, <1>3

\* The tables and the threads keep matching each other.
LEMMA OwnershipStep ==
    ASSUME IInv, TypeOK', NEW c \in Conn, Thread(c)
    PROVE  CountersAhead' /\ SessionsAreOwned'
<1>1. CASE UNCHANGED <<sessions, next_handle_id, active_package, active_context>>
  BY <1>1 DEF IInv, CountersAhead, SessionsAreOwned
<1>2. ASSUME /\ DOMAIN sessions' = DOMAIN sessions \ {active_context[c]}
             /\ \A h \in DOMAIN sessions' : sessions'[h] = sessions[h]
             /\ active_context' = [active_context EXCEPT ![c] = None]
             /\ next_handle_id' = next_handle_id
      PROVE  CountersAhead' /\ SessionsAreOwned'
  <2>1. CountersAhead'
    BY <1>2 DEF IInv, CountersAhead
  <2>2. ASSUME NEW h \in DOMAIN sessions'
        PROVE  active_context'[sessions'[h].conn] = h
    <3>1. /\ sessions'[h] = sessions[h] /\ h \in DOMAIN sessions
          /\ h # active_context[c]
      BY <1>2
    <3>2. active_context[sessions[h].conn] = h /\ sessions[h].conn \in Conn
      BY <3>1 DEF IInv, SessionsAreOwned, TypeOK, Session
    <3>3. QED
      BY <1>2, <3>1, <3>2 DEF IInv, TypeOK
  <2>3. ASSUME NEW d \in Conn, active_context'[d] # None
        PROVE  /\ active_context'[d] \in DOMAIN sessions'
               /\ sessions'[active_context'[d]].conn = d
               /\ active_context'[d].dw_upper = active_package'[d]
    <3>1. d # c
      BY <1>2, <2>3 DEF IInv, TypeOK
    <3>2. QED
      BY <2>3, <3>1, OthersKept DEF IInv, SessionsAreOwned
  <2>4. QED
    BY <2>1, <2>2, <2>3 DEF SessionsAreOwned
<1>3. CASE sessions' = Cleaned(c) /\ UNCHANGED next_handle_id
           /\ active_context' = [active_context EXCEPT ![c] = None]
  BY <1>2, <1>3, CleanedLookup DEF IInv
<1>4. CASE Finish(c)
  BY <1>2, <1>4, FinishLookup DEF Finish, IInv
<1>5. CASE OpenContinues(c)
  <2> DEFINE p == active_package[c]
             g == FreshHandle(p)
  <2>1. p \in Packages /\ active_context[c] = None
    BY <1>5 DEF OpenContinues, IInv, ThreadsConsistent, ThreadConsistent, TypeOK
  <2>2. /\ g.dw_lower = next_handle_id[p] /\ g.dw_upper = p
        /\ next_handle_id[p] \in Nat
    BY <2>1 DEF FreshHandle, IInv, TypeOK
  <2>3. g \notin DOMAIN sessions
    BY <2>2 DEF IInv, CountersAhead
  <2>4. /\ DOMAIN sessions' = DOMAIN sessions \cup {g}
        /\ sessions'[g].conn = c
        /\ \A h \in DOMAIN sessions : sessions'[h] = sessions[h]
    BY <1>5, <2>3 DEF OpenContinues
  <2>5. /\ active_context' = [active_context EXCEPT ![c] = g]
        /\ active_package' = active_package
        /\ next_handle_id' = [next_handle_id EXCEPT ![p] = next_handle_id[p] + 1]
    BY <1>5 DEF OpenContinues
  <2>6. g \in Handle
    BY <2>1, <2>2 DEF FreshHandle, Handle
  <2> HIDE DEF g, p
  <2>7. CountersAhead'
    <3>1. ASSUME NEW h \in DOMAIN sessions
          PROVE  h.dw_lower < next_handle_id'[h.dw_upper]
      <4>1. /\ h.dw_lower < next_handle_id[h.dw_upper]
            /\ h.dw_lower \in Nat /\ h.dw_upper \in Packages
        BY DEF IInv, CountersAhead, TypeOK, Handle
      <4>2. QED
        BY <2>2, <2>5, <4>1 DEF IInv, TypeOK
    <3>2. g.dw_lower < next_handle_id'[g.dw_upper]
      BY <2>1, <2>2, <2>5 DEF IInv, TypeOK
    <3>3. QED
      BY <2>4, <3>1, <3>2 DEF CountersAhead
  <2>8. ASSUME NEW h \in DOMAIN sessions'
        PROVE  active_context'[sessions'[h].conn] = h
    <3>1. CASE h = g
      BY <2>4, <2>5, <3>1 DEF IInv, TypeOK
    <3>2. CASE h \in DOMAIN sessions
      <4>1. active_context[sessions[h].conn] = h /\ sessions[h].conn \in Conn
        BY <3>2 DEF IInv, SessionsAreOwned, TypeOK, Session
      <4>2. h # None
        BY <3>2, NoneAssumption DEF IInv, TypeOK
      <4>3. sessions[h].conn # c
        BY <2>1, <4>1, <4>2
      <4>4. QED
        BY <2>4, <2>5, <3>2, <4>1, <4>3 DEF IInv, TypeOK
    <3>3. QED
      BY <2>4, <3>1, <3>2
  <2>9. ASSUME NEW d \in Conn, active_context'[d] # None
        PROVE  /\ active_context'[d] \in DOMAIN sessions'
               /\ sessions'[active_context'[d]].conn = d
               /\ active_context'[d].dw_upper = active_package'[d]
    <3>1. CASE d = c
      <4>1. active_context'[c] = g
        BY <2>5 DEF IInv, TypeOK
      <4>2. g.dw_upper = active_package[c]
        BY <2>2 DEF p
      <4>3. active_package'[c] = active_package[c]
        BY <2>5
      <4>4. g \in DOMAIN sessions' /\ sessions'[g].conn = c
        BY <2>4
      <4>5. QED
        BY <3>1, <4>1, <4>2, <4>3, <4>4
    <3>2. CASE d # c
      BY <2>9, <3>2, OthersKept DEF IInv, SessionsAreOwned
    <3>3. QED
      BY <3>1, <3>2
  <2>10. QED
    BY <2>7, <2>8, <2>9 DEF SessionsAreOwned
<1>6. CASE Verify(c)
  <2>1. /\ DOMAIN sessions' = DOMAIN sessions
        /\ \A h \in DOMAIN sessions : sessions'[h].conn = sessions[h].conn
        /\ UNCHANGED <<next_handle_id, active_package, active_context>>
    BY <1>6 DEF Verify, local, IInv, TypeOK, Session
  <2>2. QED
    BY <2>1 DEF IInv, CountersAhead, SessionsAreOwned
<1>7. QED
  BY <1>1, <1>3, <1>4, <1>5, <1>6
     DEF Thread, Read, ReadEnd, Cleanup, BatchEnd, Write, WriteFails, WriteEnd,
         Open, OpenFails, Mismatch, VerifyFails, Drop, GetUsername, local

\* Every thread still knows what it needs for its next critical section.
LEMMA ThreadStep ==
    ASSUME IInv, TypeOK', NEW c \in Conn, Thread(c)
    PROVE  ThreadsConsistent'
<1>1. ASSUME NEW d \in Conn, d # c
      PROVE  ThreadConsistent(d)'
  <2>1. /\ UNCHANGED <<pc[d], active_package[d], active_context[d], username[d],
                       replies[d], fed[d], sent[d]>>
        /\ active_context[d] # None =>
              sessions'[active_context[d]] = sessions[active_context[d]]
    BY <1>1, OthersKept
  <2>2. Current(d)' = Current(d)
    BY <2>1 DEF Current
  <2>3. ThreadConsistent(d)
    BY DEF IInv, ThreadsConsistent
  <2>4. QED
    BY <2>1, <2>2, <2>3 DEF ThreadConsistent
<1>2. ASSUME pc'[c] \in {"read", "line", "write", "cleanup", "done"}
      PROVE  ThreadConsistent(c)'
  BY <1>2 DEF ThreadConsistent
<1>3. ASSUME Open(c)
      PROVE  ThreadConsistent(c)'
  <2>1. /\ Len(replies[c]) < fed[c]
        /\ Current(c).package \in Packages
    BY <1>3, CurrentType DEF Open, HasLine, IInv
  <2>2. /\ pc'[c] = "accept first"
        /\ active_context'[c] = None
        /\ active_package'[c] = Current(c).package
        /\ UNCHANGED <<replies, fed>>
    BY <1>3 DEF Open, Goto, IInv, TypeOK
  <2>3. QED
    BY <2>1, <2>2, NoneAssumption DEF ThreadConsistent
<1>4. ASSUME VerifyFails(c)
      PROVE  ThreadConsistent(c)'
  <2>1. pc'[c] = "drop" /\ UNCHANGED <<replies, fed>>
    BY <1>4 DEF VerifyFails, Goto, IInv, TypeOK
  <2>2. QED
    BY <1>4, <2>1 DEF VerifyFails, HasLine, ThreadConsistent
<1>5. ASSUME Verify(c)
      PROVE  ThreadConsistent(c)'
  <2>1. /\ pc'[c] = "name"
        /\ UNCHANGED <<replies, fed, sent, local>>
        /\ sessions'[active_context[c]].user = c
    BY <1>5 DEF Verify, Goto, IInv, TypeOK, wire, Session
  <2>2. QED
    BY <1>5, <2>1
       DEF Verify, HasLine, IsForActive, ThreadConsistent, Current, local
<1>6. ASSUME GetUsername(c)
      PROVE  ThreadConsistent(c)'
  <2> DEFINE h == active_context[c]
  <2>1. /\ pc[c] = "name" /\ pc'[c] = "delete"
        /\ UNCHANGED <<replies, fed, sent, active_package, active_context>>
    BY <1>6 DEF GetUsername, Goto, IInv, TypeOK, wire
  <2>2. ThreadConsistent(c)
    BY DEF IInv, ThreadsConsistent
  <2>3. h # None /\ sessions[h].user = c
    BY <2>1, <2>2 DEF ThreadConsistent
  <2>4. h \in DOMAIN sessions
    BY <2>3 DEF IInv, SessionsAreOwned
  <2>5. username'[c] = c
    BY <1>6, <2>3, <2>4 DEF GetUsername, IInv, TypeOK
  <2>6. QED
    BY <2>1, <2>2, <2>5 DEF ThreadConsistent, Current
<1>7. ASSUME Mismatch(c) \/ Write(c) \/ WriteFails(c)
      PROVE  ThreadConsistent(c)'
  BY <1>2, <1>7 DEF Mismatch, Write, WriteFails, HasLine
<1>8. ASSUME \/ Read(c) \/ ReadEnd(c) \/ Cleanup(c) \/ BatchEnd(c) \/ WriteEnd(c)
             \/ OpenContinues(c) \/ OpenFails(c) \/ Drop(c) \/ Finish(c)
      PROVE  ThreadConsistent(c)'
  <2>1. pc'[c] \in {"read", "line", "write", "cleanup", "done"}
    BY <1>8 DEF Read, ReadEnd, Cleanup, BatchEnd, WriteEnd, OpenContinues,
                OpenFails, Drop, Finish, Goto, IInv, TypeOK
  <2>2. QED
    BY <1>2, <2>1
<1>9. ThreadConsistent(c)'
  BY <1>3, <1>4, <1>5, <1>6, <1>7, <1>8 DEF Thread
<1>10. QED
  BY <1>1, <1>9 DEF ThreadsConsistent

\* A reply is added at the end; a success is reported by Finish alone, and under
\* the name that was looked up.
LEMMA SuccessStep ==
    ASSUME IInv, NEW c \in Conn, Thread(c)
    PROVE  SuccessNamesOwnUser'
<1>1. ASSUME NEW r \in Reply, Answer(c, r), r.kind = "Success" => r.user = c
      PROVE  SuccessNamesOwnUser'
  <2>1. replies' = [replies EXCEPT ![c] = Append(replies[c], r)]
    BY <1>1 DEF Answer
  <2>2. /\ replies[c] \in Seq(Reply)
        /\ DOMAIN replies'[c] = 1 .. Len(replies[c]) + 1
        /\ \A i \in 1..Len(replies[c]) : replies'[c][i] = replies[c][i]
        /\ replies'[c][Len(replies[c]) + 1] = r
    BY <2>1 DEF IInv, TypeOK
  <2>3. ASSUME NEW d \in Conn, NEW i \in DOMAIN replies'[d],
               replies'[d][i].kind = "Success"
        PROVE  replies'[d][i].user = d
    <3>1. CASE d # c
      BY <2>1, <2>3, <3>1 DEF IInv, TypeOK, SuccessNamesOwnUser
    <3>2. CASE d = c /\ i = Len(replies[c]) + 1
      BY <1>1, <2>2, <2>3, <3>2
    <3>3. CASE d = c /\ i # Len(replies[c]) + 1
      <4>1. Len(replies[c]) \in Nat /\ i \in 1 .. Len(replies[c]) + 1
        BY <2>2, <3>3
      <4>2. i \in 1..Len(replies[c])
        BY <3>3, <4>1
      <4>3. i \in DOMAIN replies[c] /\ replies'[c][i] = replies[c][i]
        BY <2>2, <4>2
      <4>4. QED
        BY <2>3, <3>3, <4>3 DEF IInv, SuccessNamesOwnUser
    <3>4. QED
      BY <3>1, <3>2, <3>3
  <2>4. QED
    BY <2>3 DEF SuccessNamesOwnUser
<1>2. CASE UNCHANGED replies
  BY <1>2 DEF IInv, SuccessNamesOwnUser
<1>3. CASE OpenContinues(c)
  BY <1>1, <1>3 DEF OpenContinues, Continue, Reply
<1>4. CASE OpenFails(c) \/ Mismatch(c) \/ Drop(c)
  BY <1>1, <1>4 DEF OpenFails, Mismatch, Drop, Failed, Reply
<1>5. CASE Finish(c)
  <2>1. username[c] = c
    BY <1>5 DEF Finish, IInv, ThreadsConsistent, ThreadConsistent
  <2>2. QED
    BY <1>1, <1>5, <2>1 DEF Finish, Success, Reply
<1>6. QED
  BY <1>2, <1>3, <1>4, <1>5
     DEF Thread, Read, ReadEnd, Cleanup, BatchEnd, Write, WriteFails, WriteEnd,
         Open, Verify, VerifyFails, GetUsername

-------------------------------------------------------------------------------
(* Which opening a success goes back to. *)

\* Of the first n lines s with the replies r, one opened a handshake of package
\* p, and only answers to other packages came after it, and were refused.
Opened(r, s, n, p) ==
    \E j \in 1 .. n :
        /\ r[j] = Continue
        /\ s[j].package = p
        /\ \A k \in j + 1 .. n :
              s[k].stage = "S" /\ s[k].package # p /\ r[k] = Failed

\* A first leg is for the package of the line that asked for it.
OpensItsPackage(c) ==
    pc[c] = "accept first" => active_package[c] = Current(c).package

\* A connection with an active context has such an opening for it, and each of its
\* successes had one.
HistoryOf(c) ==
    /\ OpensItsPackage(c)
    /\ active_context[c] # None =>
          Opened(replies[c], sent[c], Len(replies[c]), active_package[c])
    /\ \A i \in DOMAIN replies[c] : replies[c][i].kind = "Success" =>
          Opened(replies[c], sent[c], i - 1, sent[c][i].package)

Histories == \A c \in Conn : HistoryOf(c)

\* Only what came before n matters.
LEMMA OpenedKept ==
    ASSUME NEW r, NEW s, NEW r2, NEW s2, NEW n \in Int, NEW p, Opened(r, s, n, p),
           \A i \in 1 .. n : r2[i] = r[i] /\ s2[i] = s[i]
    PROVE  Opened(r2, s2, n, p)
<1>1. PICK j \in 1 .. n :
          /\ r[j] = Continue
          /\ s[j].package = p
          /\ \A k \in j + 1 .. n :
                s[k].stage = "S" /\ s[k].package # p /\ r[k] = Failed
  BY DEF Opened
<1>2. \A k \in j + 1 .. n : k \in 1 .. n
  OBVIOUS
<1>3. QED
  BY <1>1, <1>2 DEF Opened

\* The lines that were read stay as they are.
ReadLinesKept(c) == \A i \in 1 .. fed[c] : sent'[c][i] = sent[c][i]

\* A step that answers no line of a connection keeps its history, also if the
\* handshake is dropped, as long as the lines that were read stay.
LEMMA HistoryKept ==
    ASSUME IInv, NEW c \in Conn, HistoryOf(c), replies'[c] = replies[c],
           ReadLinesKept(c),
           \/ active_context'[c] = None
           \/ UNCHANGED <<active_context[c], active_package[c]>>,
           OpensItsPackage(c)'
    PROVE  HistoryOf(c)'
<1> DEFINE n == Len(replies[c])
<1>1. /\ n \in Nat /\ n \in Int
      /\ DOMAIN replies[c] = 1 .. n
      /\ \A i \in 1 .. n : sent'[c][i] = sent[c][i]
  <2>1. replies[c] \in Seq(Reply) /\ fed[c] \in Nat
    BY DEF IInv, TypeOK
  <2>2. n <= fed[c] /\ n \in Nat
    BY <2>1 DEF IInv, LinesInOrder
  <2>3. \A i \in 1 .. n : i \in 1 .. fed[c]
    BY <2>1, <2>2
  <2>4. QED
    BY <2>1, <2>2, <2>3 DEF ReadLinesKept
<1> HIDE DEF n
<1>2. ASSUME active_context'[c] # None
      PROVE  Opened(replies'[c], sent'[c], Len(replies'[c]), active_package'[c])
  <2>1. Opened(replies[c], sent[c], n, active_package'[c])
    BY <1>2 DEF HistoryOf, n
  <2>2. \A i \in 1 .. n : replies'[c][i] = replies[c][i] /\ sent'[c][i] = sent[c][i]
    BY <1>1
  <2>3. Opened(replies'[c], sent'[c], n, active_package'[c])
    BY <1>1, <2>1, <2>2, OpenedKept
  <2>4. QED
    BY <2>3 DEF n
<1>3. ASSUME NEW i \in DOMAIN replies'[c], replies'[c][i].kind = "Success"
      PROVE  Opened(replies'[c], sent'[c], i - 1, sent'[c][i].package)
  <2>1. i \in 1 .. n /\ i - 1 \in Int /\ i \in DOMAIN replies[c]
    BY <1>1
  <2>2. sent'[c][i] = sent[c][i]
    BY <1>1, <2>1
  <2>3. \A k \in 1 .. i - 1 : k \in 1 .. n
    BY <1>1, <2>1
  <2>4. \A k \in 1 .. i - 1 : replies'[c][k] = replies[c][k] /\ sent'[c][k] = sent[c][k]
    BY <1>1, <2>3
  <2>5. Opened(replies[c], sent[c], i - 1, sent'[c][i].package)
    BY <1>3, <2>1, <2>2 DEF HistoryOf
  <2>6. QED
    BY <2>1, <2>4, <2>5, OpenedKept
<1>4. QED
  BY <1>2, <1>3 DEF HistoryOf

\* A step that answers a line keeps the history if the answer is right: a success
\* ends a handshake that was opened, and a handshake that is active afterwards
\* has just been opened, or its package is another than that of a refused answer.
LEMMA HistoryAnswered ==
    ASSUME IInv, NEW c \in Conn, HistoryOf(c), NEW r \in Reply, Answer(c, r),
           sent' = sent, pc'[c] = "line", Len(replies[c]) < fed[c],
           r.kind = "Success" =>
              active_context[c] # None /\ active_package[c] = Current(c).package,
           \/ active_context'[c] = None
           \/ r = Continue /\ active_package'[c] = Current(c).package
           \/ /\ UNCHANGED <<active_context[c], active_package[c]>>
              /\ r = Failed
              /\ Current(c).stage = "S"
              /\ Current(c).package # active_package[c]
    PROVE  HistoryOf(c)'
<1> DEFINE n == Len(replies[c])
<1>1. /\ n \in Nat
      /\ DOMAIN replies[c] = 1 .. n
      /\ DOMAIN replies'[c] = 1 .. n + 1
      /\ Len(replies'[c]) = n + 1
      /\ \A i \in 1 .. n : replies'[c][i] = replies[c][i]
      /\ replies'[c][n + 1] = r
  <2>1. replies'[c] = Append(replies[c], r) /\ replies[c] \in Seq(Reply)
    BY DEF Answer, IInv, TypeOK
  <2>2. QED
    BY <2>1
<1>2. Current(c) = sent[c][n + 1]
  BY DEF Current
<1> HIDE DEF n
<1>3. ASSUME active_context[c] # None
      PROVE  Opened(replies'[c], sent[c], n, active_package[c])
  <2>1. Opened(replies[c], sent[c], n, active_package[c])
    BY <1>3 DEF HistoryOf, n
  <2>2. n \in Int /\ \A i \in 1 .. n : replies'[c][i] = replies[c][i] /\ sent[c][i] = sent[c][i]
    BY <1>1
  <2>3. QED
    BY <2>1, <2>2, OpenedKept
<1>4. ASSUME NEW i \in DOMAIN replies'[c], replies'[c][i].kind = "Success"
      PROVE  Opened(replies'[c], sent[c], i - 1, sent[c][i].package)
  <2>1. CASE i = n + 1
    <3>1. i - 1 = n
      BY <1>1, <2>1
    <3>2. active_context[c] # None /\ active_package[c] = sent[c][i].package
      BY <1>1, <1>2, <1>4, <2>1
    <3>3. QED
      BY <1>3, <3>1, <3>2
  <2>2. CASE i # n + 1
    <3>1. i \in 1 .. n /\ i - 1 \in Int /\ \A k \in 1 .. i - 1 : k \in 1 .. n
      BY <1>1, <2>2
    <3>2. Opened(replies[c], sent[c], i - 1, sent[c][i].package)
      BY <1>1, <1>4, <3>1 DEF HistoryOf
    <3>3. QED
      BY <1>1, <3>1, <3>2, OpenedKept
  <2>3. QED
    BY <2>1, <2>2
<1>5. ASSUME active_context'[c] # None
      PROVE  Opened(replies'[c], sent[c], n + 1, active_package'[c])
  <2>1. CASE r = Continue /\ active_package'[c] = Current(c).package
    <3>1. n + 1 \in 1 .. n + 1 /\ (n + 1) + 1 .. n + 1 = {}
      BY <1>1
    <3>2. QED
      BY <1>1, <1>2, <2>1, <3>1 DEF Opened
  <2>2. CASE /\ UNCHANGED <<active_context[c], active_package[c]>>
             /\ r = Failed
             /\ Current(c).stage = "S"
             /\ Current(c).package # active_package[c]
    <3>1. PICK j \in 1 .. n :
              /\ replies'[c][j] = Continue
              /\ sent[c][j].package = active_package[c]
              /\ \A k \in j + 1 .. n :
                    /\ sent[c][k].stage = "S"
                    /\ sent[c][k].package # active_package[c]
                    /\ replies'[c][k] = Failed
      BY <1>3, <1>5, <2>2 DEF Opened
    <3>2. j \in 1 .. n + 1 /\ \A k \in j + 1 .. n + 1 : k = n + 1 \/ k \in j + 1 .. n
      BY <1>1
    <3>3. QED
      BY <1>1, <1>2, <2>2, <3>1, <3>2 DEF Opened
  <2>3. QED
    BY <1>5, <2>1, <2>2
<1>6. QED
  BY <1>1, <1>4, <1>5 DEF HistoryOf, OpensItsPackage

\* Every step keeps the histories.
LEMMA HistoryStep ==
    ASSUME IInv, Histories, NEW c \in Conn, Thread(c)
    PROVE  HistoryOf(c)'
<1>0. /\ HistoryOf(c)
      /\ Len(replies[c]) \in Nat /\ fed[c] \in Nat
      /\ active_context \in [Conn -> Handle \cup {None}]
      /\ active_package \in [Conn -> Packages \cup {None}]
      /\ pc \in [Conn -> Labels]
  BY DEF Histories, IInv, TypeOK
<1>1. CASE Read(c) \/ ReadEnd(c) \/ Cleanup(c) \/ BatchEnd(c) \/ Write(c)
           \/ WriteFails(c) \/ WriteEnd(c) \/ Verify(c) \/ VerifyFails(c)
           \/ GetUsername(c)
  <2>1. /\ UNCHANGED <<replies, sent>>
        /\ \/ active_context'[c] = None
           \/ UNCHANGED <<active_context[c], active_package[c]>>
        /\ pc'[c] # "accept first"
    BY <1>0, <1>1 DEF Read, ReadEnd, Cleanup, BatchEnd, Write, WriteFails, WriteEnd,
        Verify, VerifyFails, GetUsername, Goto, local, wire
  <2>2. QED
    BY <1>0, <2>1, HistoryKept DEF ReadLinesKept, OpensItsPackage
<1>2. CASE Open(c)
  <2>1. /\ UNCHANGED <<replies, sent>>
        /\ active_context'[c] = None
        /\ active_package'[c] = Current(c).package
    BY <1>0, <1>2 DEF Open, wire
  <2>2. Current(c)' = Current(c)
    BY <2>1 DEF Current
  <2>3. QED
    BY <1>0, <2>1, <2>2, HistoryKept DEF ReadLinesKept, OpensItsPackage
<1>3. Continue \in Reply /\ Failed \in Reply
      /\ \A u \in Conn \cup {None, Fallback} : Success(u) \in Reply
  BY DEF Reply
<1>4. Continue.kind # "Success" /\ Failed.kind # "Success"
  BY DEF Continue, Failed
<1>5. CASE OpenContinues(c)
  <2>1. /\ Len(replies[c]) < fed[c]
        /\ active_package[c] = Current(c).package
    BY <1>0, <1>5 DEF OpenContinues, IInv, ThreadsConsistent, ThreadConsistent,
        HistoryOf, OpensItsPackage
  <2>2. /\ Answer(c, Continue) /\ sent' = sent /\ pc'[c] = "line"
        /\ active_package'[c] = active_package[c]
    BY <1>0, <1>5 DEF OpenContinues, Goto, wire
  <2>3. QED
    BY <1>0, <1>3, <1>4, <2>1, <2>2, HistoryAnswered
<1>6. CASE OpenFails(c) \/ Drop(c)
  <2>1. Len(replies[c]) < fed[c]
    BY <1>6 DEF OpenFails, Drop, IInv, ThreadsConsistent, ThreadConsistent
  <2>2. /\ Answer(c, Failed) /\ sent' = sent /\ pc'[c] = "line"
        /\ active_context'[c] = None
    BY <1>0, <1>6 DEF OpenFails, Drop, Goto, wire, local, IInv, ThreadsConsistent,
        ThreadConsistent
  <2>3. QED
    BY <1>0, <1>3, <1>4, <2>1, <2>2, HistoryAnswered
<1>7. CASE Mismatch(c)
  <2>1. /\ Len(replies[c]) < fed[c] /\ Current(c).stage = "S"
        /\ \/ active_context[c] = None
           \/ active_package[c] # Current(c).package
    BY <1>7 DEF Mismatch, HasLine, IsForActive
  <2>2. /\ Answer(c, Failed) /\ sent' = sent /\ pc'[c] = "line"
        /\ UNCHANGED <<active_context[c], active_package[c]>>
    BY <1>7 DEF Mismatch, HasLine, wire, local
  <2>3. QED
    BY <1>0, <1>3, <1>4, <2>1, <2>2, HistoryAnswered
<1>8. CASE Finish(c)
  <2>1. /\ Len(replies[c]) < fed[c]
        /\ active_context[c] # None /\ active_package[c] = Current(c).package
        /\ Success(username[c]) \in Reply
    BY <1>3, <1>8 DEF Finish, IInv, ThreadsConsistent, ThreadConsistent, TypeOK
  <2>2. /\ Answer(c, Success(username[c])) /\ sent' = sent /\ pc'[c] = "line"
        /\ active_context'[c] = None
    BY <1>0, <1>8 DEF Finish, Goto, wire
  <2>3. QED
    BY <1>0, <2>1, <2>2, HistoryAnswered
<1>9. QED
  BY <1>1, <1>2, <1>5, <1>6, <1>7, <1>8 DEF Thread

-------------------------------------------------------------------------------
(* The theorems. *)

\* The inductive invariant holds of every reachable state.
THEOREM Invariance == Spec => []IInv
<1>1. Init => IInv
  <2> SUFFICES ASSUME Init PROVE IInv
    OBVIOUS
  <2>1. \A c \in Conn : Len(sent[c]) = 0 /\ Len(replies[c]) = 0 /\ fed[c] = 0
    BY DEF Init
  <2>2. TypeOK
    BY DEF Init, TypeOK, local, Labels
  <2>3. LinesInOrder
    BY <2>1 DEF LinesInOrder
  <2>4. /\ CountersAhead /\ SessionsAreOwned /\ ThreadsConsistent
        /\ SuccessNamesOwnUser
    BY DEF Init, SuccessNamesOwnUser, CountersAhead, SessionsAreOwned, ThreadsConsistent,
           ThreadConsistent, local
  <2>5. QED
    BY <2>2, <2>3, <2>4 DEF IInv
<1>2. IInv /\ [Next]_vars => IInv'
  <2> SUFFICES ASSUME IInv, [Next]_vars PROVE IInv'
    OBVIOUS
  <2>1. ASSUME NEW c \in Conn, Client(c) PROVE IInv'
    BY <2>1, ClientStep
  <2>2. ASSUME NEW c \in Conn, Thread(c) PROVE IInv'
    BY <2>2, ThreadTypes, OwnershipStep, ThreadStep, SuccessStep DEF IInv
  <2>3. CASE UNCHANGED vars
    BY <2>3 DEF vars, local, IInv, TypeOK, LinesInOrder, CountersAhead,
                SessionsAreOwned, ThreadsConsistent, ThreadConsistent, Current,
                SuccessNamesOwnUser
  <2>4. QED
    BY <2>1, <2>2, <2>3 DEF Next
<1>3. QED
  BY <1>1, <1>2, PTL DEF Spec

\* Every reachable state is well typed.
THEOREM TypeCorrect == Spec => []TypeOK
<1>1. IInv => TypeOK
  BY DEF IInv
<1>2. QED
  BY <1>1, Invariance, PTL

\* The session tables hold the sessions of the connections and nothing else,
\* however their threads interleave: none is orphaned, none is lost.
THEOREM SessionsOwned == Spec => []SessionsAreOwned
<1>1. IInv => SessionsAreOwned
  BY DEF IInv
<1>2. QED
  BY <1>1, Invariance, PTL

\* The name a success reports is that of the user who answered on the same
\* connection, whatever ran between verification, look-up and deletion.
THEOREM SuccessIsOwn == Spec => []SuccessNamesOwnUser
<1>1. IInv => SuccessNamesOwnUser
  BY DEF IInv
<1>2. QED
  BY <1>1, Invariance, PTL

\* Each success ends a handshake that was opened on the same connection, with the
\* same package, and that no other line has dropped or restarted since.
THEOREM SuccessHasOpening == Spec => []EachSuccessHasItsOpening
<1>1. Init => Histories
  BY DEF Init, Histories, HistoryOf, OpensItsPackage
<1>2. IInv /\ Histories /\ [Next]_vars => Histories'
  <2> SUFFICES ASSUME IInv, Histories, [Next]_vars, NEW d \in Conn
               PROVE  HistoryOf(d)'
    BY DEF Histories
  <2>1. HistoryOf(d)
    BY DEF Histories
  <2>2. ASSUME /\ UNCHANGED <<replies[d], active_context[d], active_package[d], pc[d]>>
               /\ ReadLinesKept(d)
        PROVE  HistoryOf(d)'
    <3>1. ASSUME pc'[d] = "accept first"
          PROVE  OpensItsPackage(d)'
      <4>1. Len(replies[d]) < fed[d] /\ Len(replies[d]) \in Nat /\ fed[d] \in Nat
        <5>1. replies[d] \in Seq(Reply) /\ fed[d] \in Nat
          BY DEF IInv, TypeOK
        <5>2. Len(replies[d]) < fed[d]
          BY <2>2, <3>1 DEF IInv, ThreadsConsistent, ThreadConsistent
        <5>3. QED
          BY <5>1, <5>2
      <4>2. Current(d)' = Current(d)
        BY <2>2, <4>1 DEF Current, ReadLinesKept
      <4>3. QED
        BY <2>1, <2>2, <3>1, <4>2 DEF HistoryOf, OpensItsPackage
    <3>2. OpensItsPackage(d)'
      BY <3>1 DEF OpensItsPackage
    <3>3. QED
      BY <2>1, <2>2, <3>2, HistoryKept
  <2>3. ASSUME NEW c \in Conn, Client(c)
        PROVE  HistoryOf(d)'
    <3>1. UNCHANGED <<replies, active_context, active_package, pc>>
      BY <2>3 DEF Client, Send, Close, Reset, local
    <3>2. \A i \in 1 .. fed[d] : sent'[d][i] = sent[d][i]
      <4>1. /\ sent \in [Conn -> Seq(Line)]
            /\ fed[c] \in Nat /\ fed[c] <= Len(sent[c])
            /\ fed[d] \in Nat /\ fed[d] <= Len(sent[d])
        BY DEF IInv, TypeOK, LinesInOrder
      <4>2. ASSUME NEW line \in Line, Send(c, line)
            PROVE  \A i \in 1 .. fed[d] : sent'[d][i] = sent[d][i]
        <5>1. sent' = [sent EXCEPT ![c] = Append(sent[c], line)]
          BY <4>2 DEF Send
        <5>2. \A i \in 1 .. Len(sent[c]) : Append(sent[c], line)[i] = sent[c][i]
          BY <4>1
        <5>3. QED
          BY <4>1, <5>1, <5>2
      <4>3. CASE Close(c)
        BY <4>3 DEF Close
      <4>4. CASE Reset(c)
        <5>1. sent' = [sent EXCEPT ![c] = SubSeq(sent[c], 1, fed[c])]
          BY <4>4 DEF Reset
        <5>2. \A i \in 1 .. fed[c] : SubSeq(sent[c], 1, fed[c])[i] = sent[c][i]
          BY <4>1
        <5>3. QED
          BY <4>1, <5>1, <5>2
      <4>5. QED
        BY <2>3, <4>2, <4>3, <4>4 DEF Client
    <3>3. QED
      BY <2>2, <3>1, <3>2 DEF ReadLinesKept
  <2>4. ASSUME NEW c \in Conn, Thread(c)
        PROVE  HistoryOf(d)'
    <3>1. CASE c = d
      BY <2>4, <3>1, HistoryStep
    <3>2. CASE c # d
      BY <2>2, <2>4, <3>2, OthersKept DEF ReadLinesKept
    <3>3. QED
      BY <3>1, <3>2
  <2>5. CASE UNCHANGED vars
    BY <2>2, <2>5 DEF vars, local, ReadLinesKept
  <2>6. QED
    BY <2>3, <2>4, <2>5 DEF Next
<1>3. Histories => EachSuccessHasItsOpening
  <2> SUFFICES ASSUME Histories, NEW c \in Conn, NEW i \in DOMAIN replies[c],
                      replies[c][i].kind = "Success"
               PROVE  Opened(replies[c], sent[c], i - 1, sent[c][i].package)
    BY DEF EachSuccessHasItsOpening, Opened
  <2> QED
    BY DEF Histories, HistoryOf
<1>4. QED
  BY <1>1, <1>2, <1>3, Invariance, PTL DEF Spec

===============================================================================
