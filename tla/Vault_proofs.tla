----------------------------- MODULE Vault_proofs -----------------------------
(* Proofs about Vault, for any sets of programs, users, passwords and keys.   *)
(* Type correctness holds however the programs overlap; the other properties  *)
(* are proved for programs that start, and edit, one after the other.         *)
EXTENDS Vault, TLAPS

-------------------------------------------------------------------------------
(* Type correctness. *)

Loading == {"load key", "load vault"}
Reloading == {"reload key", "reload vault"}
Saving == {"truncate", "write"}
Starting == {"check key", "create key", "write key"}

\* What a program has at hand where it needs it.
ProgramConsistent(p) ==
    /\ pc[p] \in {"create key", "write key"} => drawn[p] # None
    /\ pc[p] \in Saving \cup {"load vault", "reload vault", "login vault"} =>
          master_key[p] # None
    /\ pc[p] \in Saving \/ (p \in Tools /\ pc[p] # "off") => task[p].user # None
    /\ p \in Tools /\ pc[p] # "off" => task[p].hash # None
    /\ p \in Tools => pc[p] \in {"off"} \cup Starting \cup Loading \cup Saving
    /\ p \in Servers => pc[p] \in {"off", "ready", "login key", "login vault"}
                                     \cup Starting

TInv == TypeOK /\ \A p \in Programs : ProgramConsistent(p)

\* The operators on maps of accounts.
LEMMA MapTypes ==
    /\ NoUsers \in Maps
    /\ \A map \in Maps, u \in Users, hash \in Hashes : With(map, u, hash) \in Maps
    /\ \A map \in Maps : \A u : Without(map, u) \in Maps
    /\ \A map \in Maps : DOMAIN map \subseteq Users
    /\ \A map \in Maps : \A u \in DOMAIN map : map[u] \in Hashes
<1>1. NoUsers \in [{} -> Hashes] /\ {} \in SUBSET Users
  BY DEF NoUsers
<1>2. ASSUME NEW map \in Maps, NEW u \in Users, NEW hash \in Hashes
      PROVE  With(map, u, hash) \in Maps
  <2>1. PICK U \in SUBSET Users : map \in [U -> Hashes]
    BY DEF Maps
  <2>2. With(map, u, hash) \in [U \cup {u} -> Hashes] /\ U \cup {u} \in SUBSET Users
    BY <2>1 DEF With
  <2>3. QED
    BY <2>2 DEF Maps
<1>3. ASSUME NEW map \in Maps, NEW u
      PROVE  Without(map, u) \in Maps
  <2>1. PICK U \in SUBSET Users : map \in [U -> Hashes]
    BY DEF Maps
  <2>2. Without(map, u) \in [U \ {u} -> Hashes] /\ U \ {u} \in SUBSET Users
    BY <2>1 DEF Without
  <2>3. QED
    BY <2>2 DEF Maps
<1>4. ASSUME NEW map \in Maps
      PROVE  /\ DOMAIN map \subseteq Users
             /\ \A u \in DOMAIN map : map[u] \in Hashes
  BY DEF Maps
<1>5. NoUsers \in Maps
  BY <1>1 DEF Maps
<1>6. QED
  BY <1>2, <1>3, <1>4, <1>5

\* What is read from a vault is a map of accounts.
LEMMA LoadedType == TypeOK => Loaded \in Maps
  BY MapTypes DEF TypeOK, Loaded, IsWhole, Absent, Empty, Garbled

\* The types of the history.
HistoryOK ==
    /\ acked \in Maps
    /\ gone \subseteq Users
    /\ late \subseteq Servers
    /\ safe \subseteq DOMAIN acked

\* A change that begins or is acknowledged leaves the history well typed.
LEMMA HistoryTypes ==
    ASSUME TypeOK
    PROVE  /\ \A u \in Users : Doubt(u) => HistoryOK' /\ blind' = blind
           /\ \A p \in Programs : Acknowledge(p) /\ task[p].user # None => HistoryOK'
<1>1. HistoryOK
  BY DEF TypeOK, HistoryOK
<1>2. ASSUME NEW u \in Users, Doubt(u)
      PROVE  HistoryOK' /\ blind' = blind
  <2>1. acked' \in Maps /\ gone' \subseteq Users /\ late' \subseteq Servers
    BY <1>1, <1>2, MapTypes DEF Doubt, HistoryOK
  <2>2. safe' \subseteq DOMAIN acked'
    BY <1>1, <1>2 DEF Doubt, HistoryOK, Without
  <2>3. QED
    BY <1>2, <2>1, <2>2 DEF Doubt, HistoryOK
<1>3. ASSUME NEW p \in Programs, Acknowledge(p), task[p].user # None
      PROVE  HistoryOK'
  <2>1. task[p].user \in Users /\ task[p].hash \in Hashes \cup {None}
    BY <1>3 DEF TypeOK
  <2>2. acked' \in Maps
    BY <1>1, <1>3, <2>1, MapTypes DEF Acknowledge, HistoryOK
  <2>3. gone' \subseteq Users /\ late' \subseteq Servers
    BY <1>1, <1>3, <2>1 DEF Acknowledge, HistoryOK
  <2>4. safe' \subseteq DOMAIN acked'
    BY <1>1, <1>3 DEF Acknowledge, HistoryOK, With, Without
  <2>5. QED
    BY <2>2, <2>3, <2>4 DEF HistoryOK
<1>4. QED
  BY <1>2, <1>3

\* A program that ends leaves nothing behind in memory.
LEMMA EndedTypes ==
    ASSUME TInv, NEW p \in Programs, Ended(p)
    PROVE  /\ pc' \in [Programs -> Labels]
           /\ drawn' \in [Programs -> Keys \cup {None}]
           /\ master_key' \in [Programs -> Keys \cup {None}]
           /\ users' \in [Programs -> Maps]
           /\ task' \in [Programs -> [user: Users \cup {None}, hash: Hashes \cup {None}]]
           /\ status' \in [Programs -> {None, "saved", "deleted", "failed",
                                        "refused", "reloaded"}]
           /\ form' \in [Programs -> Form]
           /\ pending_delete' \in [Programs -> Users \cup {None}]
           /\ verdict' \in [Programs -> {None, "accepted", "denied"}]
           /\ blind' \subseteq Managers
           /\ \A q \in Programs : ProgramConsistent(q)'
<1>1. users' \in [Programs -> Maps]
  BY MapTypes DEF Ended, TInv, TypeOK
<1>2. /\ pc' \in [Programs -> Labels]
      /\ drawn' \in [Programs -> Keys \cup {None}]
      /\ master_key' \in [Programs -> Keys \cup {None}]
      /\ status' \in [Programs -> {None, "saved", "deleted", "failed",
                                   "refused", "reloaded"}]
      /\ pending_delete' \in [Programs -> Users \cup {None}]
      /\ verdict' \in [Programs -> {None, "accepted", "denied"}]
      /\ blind' \subseteq Managers
  BY DEF Ended, Goto, TInv, TypeOK, Labels
<1>3. task' \in [Programs -> [user: Users \cup {None}, hash: Hashes \cup {None}]]
  BY DEF Ended, TInv, TypeOK, NoTask
<1>4. form' \in [Programs -> Form]
  BY DEF Ended, TInv, TypeOK, Form, BlankForm
<1>5. ASSUME NEW q \in Programs
      PROVE  ProgramConsistent(q)'
  BY DEF Ended, Goto, TInv, TypeOK, ProgramConsistent, Saving, Starting, Loading
<1>6. QED
  BY <1>1, <1>2, <1>3, <1>4, <1>5

\* A program that takes no step stays consistent.
LEMMA OthersConsistent ==
    ASSUME NEW q \in Programs, ProgramConsistent(q),
           pc'[q] = pc[q], drawn'[q] = drawn[q], master_key'[q] = master_key[q],
           task'[q] = task[q]
    PROVE  ProgramConsistent(q)'
  BY DEF ProgramConsistent

\* The steps of ensure_master_key keep the types.
LEMMA ProgramTypes ==
    ASSUME TInv, NEW p \in Programs, Program(p)
    PROVE  TInv'
<1> USE DEF TInv, Goto, files, ui, history
<1>1. CASE Start(p)
  <2>1. TypeOK'
    BY <1>1 DEF Start, TypeOK, Labels
  <2>2. \A q \in Programs : ProgramConsistent(q)'
    BY <1>1 DEF Start, TypeOK, ProgramConsistent, Starting, Saving
  <2>3. QED
    BY <2>1, <2>2
<1>2. CASE CheckKey(p)
  <2>1. drawn' \in [Programs -> Keys \cup {None}]
    <3>1. CASE key_file # Absent
      BY <1>2, <3>1 DEF CheckKey, TypeOK
    <3>2. CASE key_file = Absent
      BY <1>2, <3>2 DEF CheckKey, TypeOK
    <3>3. QED
      BY <3>1, <3>2
  <2>2. pc' \in [Programs -> Labels]
    <3>1. AfterKey(p) \in Labels /\ "create key" \in Labels
      BY DEF AfterKey, Labels
    <3>2. CASE key_file # Absent
      BY <1>2, <3>1, <3>2 DEF CheckKey, TypeOK
    <3>3. CASE key_file = Absent
      BY <1>2, <3>1, <3>3 DEF CheckKey, TypeOK
    <3>4. QED
      BY <3>2, <3>3
  <2>3. TypeOK'
    BY <1>2, <2>1, <2>2 DEF CheckKey, TypeOK
  <2>4. ASSUME NEW q \in Programs PROVE ProgramConsistent(q)'
    <3>1. CASE q # p
      BY <1>2, <3>1, OthersConsistent DEF CheckKey, TypeOK
    <3>2. CASE q = p /\ key_file # Absent
      <4>1. pc[p] = "check key" /\ pc'[p] = AfterKey(p) /\ task'[p] = task[p]
        BY <1>2, <3>2 DEF CheckKey, TypeOK
      <4>2. QED
        BY <3>2, <4>1, ProgramAssumption
        DEF AfterKey, ProgramConsistent, Starting, Saving, Loading, Writers
    <3>3. CASE q = p /\ key_file = Absent
      <4>1. pc[p] = "check key" /\ pc'[p] = "create key" /\ task'[p] = task[p]
        BY <1>2, <3>3 DEF CheckKey, TypeOK
      <4>2. drawn'[p] # None
        BY <1>2, <3>3, NoneAssumption DEF CheckKey, TypeOK
      <4>3. QED
        BY <3>3, <4>1, <4>2 DEF ProgramConsistent, Starting, Saving, Loading
    <3>4. QED
      BY <3>1, <3>2, <3>3
  <2>5. QED
    BY <2>3, <2>4
<1>3. CASE CreateKey(p)
  <2>1. TypeOK'
    BY <1>3 DEF CreateKey, TypeOK, Labels
  <2>2. \A q \in Programs : ProgramConsistent(q)'
    BY <1>3 DEF CreateKey, TypeOK, ProgramConsistent, Starting, Saving
  <2>3. QED
    BY <2>1, <2>2
<1>4. CASE WriteKey(p)
  <2>1. drawn[p] \in Keys
    BY <1>4 DEF WriteKey, TypeOK, ProgramConsistent
  <2>2. TypeOK'
    BY <1>4, <2>1 DEF WriteKey, AfterKey, TypeOK, Labels
  <2>3. ASSUME NEW q \in Programs PROVE ProgramConsistent(q)'
    <3>1. CASE q # p
      BY <1>4, <3>1, OthersConsistent DEF WriteKey, TypeOK
    <3>2. CASE q = p
      <4>1. pc[p] = "write key" /\ pc'[p] = AfterKey(p) /\ task'[p] = task[p]
        BY <1>4 DEF WriteKey, TypeOK
      <4>2. QED
        BY <3>2, <4>1, ProgramAssumption
        DEF AfterKey, ProgramConsistent, Starting, Saving, Loading, Writers
    <3>3. QED
      BY <3>1, <3>2
  <2>4. QED
    BY <2>2, <2>3
<1>5. CASE Stop(p)
  <2>1. TypeOK'
    BY <1>5, EndedTypes DEF Stop, TypeOK
  <2>2. \A q \in Programs : ProgramConsistent(q)'
    BY <1>5, EndedTypes DEF Stop
  <2>3. QED
    BY <2>1, <2>2
<1>6. CASE KeyFails(p)
  <2>1. CASE p \in Managers
    <3>1. /\ pc' = [pc EXCEPT ![p] = "load key"]
          /\ drawn' = [drawn EXCEPT ![p] = None]
          /\ late' = late \ {p}
          /\ UNCHANGED <<files, master_key, users, task, ui, verdict, acked, gone,
                         blind, safe>>
      BY <1>6, <2>1 DEF KeyFails
    <3>2. TypeOK'
      BY <3>1 DEF TypeOK, Labels
    <3>3. ASSUME NEW q \in Programs PROVE ProgramConsistent(q)'
      <4>1. CASE q # p
        BY <3>1, <4>1, OthersConsistent DEF TypeOK
      <4>2. CASE q = p
        BY <2>1, <3>1, <4>2, ProgramAssumption
        DEF TypeOK, ProgramConsistent, Saving, Starting, Loading
      <4>3. QED
        BY <4>1, <4>2
    <3>4. QED
      BY <3>2, <3>3
  <2>2. CASE p \notin Managers
    <3>1. Ended(p) /\ late' = late \ {p} /\ UNCHANGED <<files, acked, gone, safe>>
      BY <1>6, <2>2 DEF KeyFails
    <3>2. TypeOK'
      BY <3>1, EndedTypes DEF TypeOK
    <3>3. \A q \in Programs : ProgramConsistent(q)'
      BY <3>1, EndedTypes
    <3>4. QED
      BY <3>2, <3>3
  <2>3. QED
    BY <2>1, <2>2
<1>7. QED
  BY <1>1, <1>2, <1>3, <1>4, <1>5, <1>6 DEF Program

\* Reading and writing the vault keeps the types.
LEMMA WriterTypes ==
    ASSUME TInv, NEW p \in Writers, Writer(p)
    PROVE  TInv'
<1> USE DEF TInv, Goto, Show, files, ui, history
<1>0. p \in Programs /\ p \notin Servers
  BY ProgramAssumption DEF Programs, Writers
<1>1. CASE LoadKey(p)
  <2>1. TypeOK'
    BY <1>0, <1>1 DEF LoadKey, TypeOK, Labels
  <2>2. \A q \in Programs : ProgramConsistent(q)'
    BY <1>0, <1>1, NoneAssumption
    DEF LoadKey, TypeOK, ProgramConsistent, Starting, Saving, Loading
  <2>3. QED
    BY <2>1, <2>2
<1>2. CASE LoadVault(p)
  <2>1. users' \in [Programs -> Maps]
    <3>1. CASE p \in Tools
      <4>1. task[p].user \in Users /\ task[p].hash \in Hashes
        <5>1. pc[p] # "off"
          BY <1>2 DEF LoadVault
        <5>2. task[p].user # None /\ task[p].hash # None
          BY <1>0, <3>1, <5>1 DEF ProgramConsistent
        <5>3. QED
          BY <1>0, <5>2 DEF TypeOK
      <4>2. With(Loaded, task[p].user, task[p].hash) \in Maps
        BY <4>1, LoadedType, MapTypes
      <4>3. QED
        BY <1>0, <1>2, <3>1, <4>2 DEF LoadVault, TypeOK
    <3>2. CASE p \notin Tools
      BY <1>0, <1>2, <3>2, LoadedType DEF LoadVault, TypeOK
    <3>3. QED
      BY <3>1, <3>2
  <2>2. TypeOK'
    BY <1>0, <1>2, <2>1 DEF LoadVault, TypeOK, Labels
  <2>3. ASSUME NEW q \in Programs PROVE ProgramConsistent(q)'
    <3>1. CASE q # p
      BY <1>0, <1>2, <3>1, OthersConsistent DEF LoadVault, TypeOK
    <3>2. CASE q = p
      <4>1. /\ pc[p] \in {"load vault", "reload vault"}
            /\ pc'[p] = IF p \in Tools THEN "truncate" ELSE "idle"
            /\ task'[p] = task[p] /\ master_key'[p] = master_key[p]
        BY <1>0, <1>2 DEF LoadVault, TypeOK
      <4>2. QED
        BY <1>0, <3>2, <4>1
        DEF ProgramConsistent, Starting, Saving, Loading
    <3>3. QED
      BY <3>1, <3>2
  <2>4. QED
    BY <2>2, <2>3
<1>3. CASE Truncate(p)
  <2>1. TypeOK'
    BY <1>0, <1>3 DEF Truncate, TypeOK, Labels
  <2>2. \A q \in Programs : ProgramConsistent(q)'
    BY <1>0, <1>3 DEF Truncate, TypeOK, ProgramConsistent, Starting, Saving, Loading
  <2>3. QED
    BY <2>1, <2>2
<1>4. CASE Write(p)
  <2>1. /\ master_key[p] \in Keys
        /\ users[p] \in Maps
        /\ task[p].user # None
    BY <1>0, <1>4 DEF Write, TypeOK, ProgramConsistent, Saving
  <2>2. /\ key_file' \in Keys \cup {Absent, Empty}
        /\ vault_file' \in {Absent, Empty, Garbled}
              \cup [kind: {"whole"}, key: Keys, users: Maps]
    BY <1>4, <2>1 DEF Write, Written, Whole, TypeOK
  <2>3. /\ acked' \in Maps /\ gone' \subseteq Users /\ late' \subseteq Servers
        /\ safe' \subseteq DOMAIN acked'
    BY <1>0, <1>4, <2>1, HistoryTypes DEF Write, HistoryOK
  <2>5. CASE p \in Tools
    <3>1. Ended(p)
      BY <1>4, <2>5 DEF Write
    <3>2. QED
      BY <1>0, <2>2, <2>3, <3>1, EndedTypes DEF TypeOK
  <2>6. CASE p \notin Tools
    <3>1. AfterWrite(p)
      BY <1>4, <2>6 DEF Write
    <3>2. TypeOK'
      BY <1>0, <2>2, <2>3, <3>1
      DEF AfterWrite, TypeOK, Labels, NoTask, Form, BlankForm
    <3>3. \A q \in Programs : ProgramConsistent(q)'
      BY <1>0, <2>6, <3>1
      DEF AfterWrite, TypeOK, ProgramConsistent, Starting, Saving, Loading
    <3>4. QED
      BY <3>2, <3>3
  <2>7. QED
    BY <2>5, <2>6
<1>5. CASE SaveFails(p)
  <2>1. /\ key_file' \in Keys \cup {Absent, Empty}
        /\ vault_file' \in {Absent, Empty, Garbled}
              \cup [kind: {"whole"}, key: Keys, users: Maps]
        /\ acked' \in Maps /\ gone' \subseteq Users /\ late' \subseteq Servers
        /\ safe' \subseteq DOMAIN acked'
    BY <1>5 DEF SaveFails, TypeOK
  <2>2. CASE p \in Tools
    <3>1. Ended(p)
      BY <1>5, <2>2 DEF SaveFails
    <3>2. QED
      BY <1>0, <2>1, <3>1, EndedTypes DEF TypeOK
  <2>3. CASE p \notin Tools
    <3>0. /\ pc' = [pc EXCEPT ![p] = "idle"]
          /\ status' = [status EXCEPT ![p] = "failed"]
          /\ task' = [task EXCEPT ![p] = NoTask]
          /\ UNCHANGED <<drawn, master_key, users, form, pending_delete, verdict,
                         blind>>
      BY <1>5, <2>3 DEF SaveFails
    <3>1. TypeOK'
      BY <1>0, <2>1, <3>0 DEF TypeOK, Labels, NoTask
    <3>2. ASSUME NEW q \in Programs PROVE ProgramConsistent(q)'
      <4>1. CASE q # p
        BY <1>0, <3>0, <4>1, OthersConsistent DEF TypeOK
      <4>2. CASE q = p
        BY <1>0, <2>3, <3>0, <4>2
        DEF TypeOK, ProgramConsistent, Starting, Saving, Loading
      <4>3. QED
        BY <4>1, <4>2
    <3>3. QED
      BY <3>1, <3>2
  <2>4. QED
    BY <2>2, <2>3
<1>6. QED
  BY <1>1, <1>2, <1>3, <1>4, <1>5 DEF Writer

\* What the operator does at a manager keeps the types.
LEMMA ManagerTypes ==
    ASSUME TInv, NEW m \in Managers, Manager(m)
    PROVE  TInv'
<1> USE DEF TInv, Goto, Show, files, ui, history
<1>0. m \in Programs /\ m \notin Servers /\ m \notin Tools
  BY ProgramAssumption DEF Programs, Writers
<1>1. CASE ReloadVault(m)
  <2>1. TypeOK'
    BY <1>0, <1>1 DEF ReloadVault, TypeOK, Labels
  <2>2. \A q \in Programs : ProgramConsistent(q)'
    BY <1>0, <1>1 DEF ReloadVault, TypeOK, ProgramConsistent, Saving
  <2>3. QED
    BY <2>1, <2>2
<1>2. CASE LoadFails(m)
  <2>1. TypeOK'
    BY <1>0, <1>2 DEF LoadFails, TypeOK, Labels
  <2>2. \A q \in Programs : ProgramConsistent(q)'
    BY <1>0, <1>2 DEF LoadFails, TypeOK, ProgramConsistent, Saving
  <2>3. QED
    BY <2>1, <2>2
<1>3. ASSUME NEW f \in Form, Fill(m, f)
      PROVE  TInv'
  BY <1>0, <1>3 DEF Fill, TypeOK, ProgramConsistent
<1>4. CASE ResetForm(m)
  <2>1. BlankForm \in Form
    BY DEF BlankForm, Form
  <2>2. QED
    BY <1>3, <1>4, <2>1 DEF ResetForm
<1>5. ASSUME NEW u \in Users, EditUser(m, u)
      PROVE  TInv'
  <2>1. [editing |-> u, username |-> u, password |-> None] \in Form
    BY DEF Form
  <2>2. QED
    BY <1>3, <1>5, <2>1 DEF EditUser
<1>6. ASSUME NEW u \in Users, TypeName(m, u)
      PROVE  TInv'
  <2>1. form[m] \in Form
    BY <1>0 DEF TypeOK
  <2>2. [form[m] EXCEPT !.username = u] \in Form
    BY <2>1 DEF Form
  <2>3. QED
    BY <1>3, <1>6, <2>2 DEF TypeName
<1>7. ASSUME NEW hash \in Hashes, TypePassword(m, hash)
      PROVE  TInv'
  <2>1. form[m] \in Form
    BY <1>0 DEF TypeOK
  <2>2. [form[m] EXCEPT !.password = hash] \in Form
    BY <2>1 DEF Form
  <2>3. QED
    BY <1>3, <1>7, <2>2 DEF TypePassword
<1>8. ASSUME NEW u \in Users \cup {None}, SetPending(m, u)
      PROVE  TInv'
  BY <1>0, <1>8 DEF SetPending, TypeOK, ProgramConsistent
<1>9. CASE StatusExpires(m)
  BY <1>0, <1>9 DEF StatusExpires, TypeOK, ProgramConsistent
<1>10. CASE SaveRefused(m)
  BY <1>0, <1>10 DEF SaveRefused, TypeOK, ProgramConsistent
<1>11. CASE DeleteRefused(m)
  BY <1>0, <1>11 DEF DeleteRefused, TypeOK, ProgramConsistent
<1>12. CASE HandleSave(m)
  <2> DEFINE hash == IF form[m].password = None THEN users[m][form[m].editing]
                                               ELSE form[m].password
  <2>1. form[m].username \in Users
    BY <1>0, <1>12 DEF HandleSave, CanSave, TypeOK, Form
  <2>2. hash \in Hashes
    BY <1>0, <1>12, MapTypes DEF HandleSave, CanSave, TypeOK, Form
  <2>3. /\ users' = [users EXCEPT ![m] = With(@, form[m].username, hash)]
        /\ task' = [task EXCEPT ![m] = [user |-> form[m].username, hash |-> hash]]
        /\ pc' = [pc EXCEPT ![m] = "truncate"]
        /\ master_key[m] # None
        /\ Doubt(form[m].username)
        /\ UNCHANGED <<files, drawn, master_key, ui, verdict>>
    BY <1>12 DEF HandleSave, CanSave
  <2> HIDE DEF hash
  <2>4. With(users[m], form[m].username, hash) \in Maps
    BY <1>0, <2>1, <2>2, MapTypes DEF TypeOK
  <2>5. HistoryOK' /\ blind' = blind
    BY <2>1, <2>3, HistoryTypes
  <2>7. TypeOK'
    BY <1>0, <2>1, <2>2, <2>3, <2>4, <2>5 DEF TypeOK, HistoryOK, Labels
  <2>8. \A q \in Programs : ProgramConsistent(q)'
    BY <1>0, <2>1, <2>3, NoneAssumption DEF TypeOK, ProgramConsistent, Saving
  <2>9. QED
    BY <2>7, <2>8
<1>13. CASE HandleDelete(m)
  <2> DEFINE u == pending_delete[m]
  <2>1. /\ users' = [users EXCEPT ![m] = Without(@, u)]
        /\ task' = [task EXCEPT ![m] = [user |-> u, hash |-> None]]
        /\ pending_delete' = [pending_delete EXCEPT ![m] = None]
        /\ pc' = [pc EXCEPT ![m] = "truncate"]
        /\ master_key[m] # None
        /\ u # None
        /\ Doubt(u)
        /\ UNCHANGED <<files, drawn, master_key, status, form, verdict>>
    BY <1>13 DEF HandleDelete, CanDelete
  <2>2. u \in Users
    BY <1>0, <2>1 DEF TypeOK
  <2> HIDE DEF u
  <2>3. Without(users[m], u) \in Maps
    BY <1>0, <2>2, MapTypes DEF TypeOK
  <2>4. HistoryOK' /\ blind' = blind
    BY <2>1, <2>2, HistoryTypes
  <2>6. TypeOK'
    BY <1>0, <2>1, <2>2, <2>3, <2>4 DEF TypeOK, HistoryOK, Labels
  <2>7. \A q \in Programs : ProgramConsistent(q)'
    BY <1>0, <2>1, <2>2, NoneAssumption DEF TypeOK, ProgramConsistent, Saving
  <2>8. QED
    BY <2>6, <2>7
<1>14. CASE CancelDelete(m)
  BY <1>8, <1>14 DEF CancelDelete
<1>15. ASSUME NEW u \in Users, ClickDelete(m, u)
       PROVE  TInv'
  BY <1>8, <1>15 DEF ClickDelete
<1>16. QED
  BY <1>1, <1>2, <1>4, <1>5, <1>6, <1>7, <1>9, <1>10, <1>11, <1>12, <1>13, <1>14,
     <1>15 DEF Manager

\* A call of add_user_to_vault keeps the types.
LEMMA ToolTypes ==
    ASSUME TInv, NEW p \in Tools, Tool(p)
    PROVE  TInv'
<1> USE DEF TInv, files, ui, history
<1>0. p \in Programs /\ p \notin Servers
  BY ProgramAssumption DEF Programs, Writers
<1>1. ASSUME NEW u \in Users, NEW hash \in Hashes, AddUser(p, u, hash)
      PROVE  TInv'
  <2>1. HistoryOK' /\ blind' = blind
    BY <1>1, HistoryTypes DEF AddUser
  <2>3. TypeOK'
    BY <1>0, <1>1, <2>1 DEF AddUser, Goto, TypeOK, HistoryOK, Labels
  <2>4. \A q \in Programs : ProgramConsistent(q)'
    BY <1>0, <1>1, NoneAssumption
    DEF AddUser, Goto, TypeOK, ProgramConsistent, Saving, Starting
  <2>5. QED
    BY <2>3, <2>4
<1>2. CASE AddUserFails(p)
  BY <1>0, <1>2, EndedTypes DEF AddUserFails, TypeOK
<1>3. QED
  BY <1>1, <1>2 DEF Tool

\* A login keeps the types.
LEMMA ServerTypes ==
    ASSUME TInv, NEW s \in Servers, Server(s)
    PROVE  TInv'
<1> USE DEF TInv, Goto, files, ui, history
<1>0. s \in Programs /\ s \notin Tools
  BY ProgramAssumption DEF Programs, Writers
<1>1. ASSUME NEW u \in Users, NEW hash \in Hashes, Login(s, u, hash)
      PROVE  TInv'
  <2>1. TypeOK'
    BY <1>0, <1>1 DEF Login, TypeOK, Labels
  <2>2. \A q \in Programs : ProgramConsistent(q)'
    BY <1>0, <1>1 DEF Login, TypeOK, ProgramConsistent, Saving, Starting
  <2>3. QED
    BY <2>1, <2>2
<1>2. CASE LoginKey(s)
  <2>1. UNCHANGED <<files, drawn, users, task, ui, history>>
    BY <1>2 DEF LoginKey
  <2>2. CASE /\ key_file \in Keys
             /\ master_key' = [master_key EXCEPT ![s] = key_file]
             /\ pc' = [pc EXCEPT ![s] = "login vault"]
             /\ verdict' = verdict
    <3>1. TypeOK'
      BY <1>0, <2>1, <2>2 DEF TypeOK, Labels
    <3>2. \A q \in Programs : ProgramConsistent(q)'
      BY <1>0, <2>1, <2>2, NoneAssumption
      DEF TypeOK, ProgramConsistent, Saving, Starting
    <3>3. QED
      BY <3>1, <3>2
  <2>3. CASE /\ verdict' = [verdict EXCEPT ![s] = "denied"]
             /\ pc' = [pc EXCEPT ![s] = "ready"]
             /\ master_key' = master_key
    <3>1. TypeOK'
      BY <1>0, <2>1, <2>3 DEF TypeOK, Labels
    <3>2. \A q \in Programs : ProgramConsistent(q)'
      BY <1>0, <2>1, <2>3 DEF TypeOK, ProgramConsistent, Saving, Starting
    <3>3. QED
      BY <3>1, <3>2
  <2>4. QED
    BY <1>2, <2>2, <2>3 DEF LoginKey
<1>3. CASE LoginVault(s)
  <2>1. verdict' \in [Programs -> {None, "accepted", "denied"}]
    BY <1>0, <1>3 DEF LoginVault, TypeOK
  <2>2. TypeOK'
    BY <1>0, <1>3, <2>1 DEF LoginVault, TypeOK, Labels
  <2>3. \A q \in Programs : ProgramConsistent(q)'
    BY <1>0, <1>3 DEF LoginVault, TypeOK, ProgramConsistent, Saving, Starting
  <2>4. QED
    BY <2>2, <2>3
<1>4. QED
  BY <1>1, <1>2, <1>3 DEF Server

\* The initial states are well typed.
LEMMA InitTypes == Init => TInv
<1> SUFFICES ASSUME Init PROVE TInv
  OBVIOUS
<1>1. TypeOK
  BY MapTypes DEF Init, TypeOK, Labels, Form, BlankForm, NoTask
<1>2. \A q \in Programs : ProgramConsistent(q)
  BY DEF Init, ProgramConsistent, Saving
<1>3. QED
  BY <1>1, <1>2 DEF TInv

\* The types are kept by every step.
LEMMA NextTypes == TInv /\ [Next]_vars => TInv'
<1> SUFFICES ASSUME TInv, [Next]_vars
             PROVE  TInv'
  OBVIOUS
<1>1. CASE Next
  BY <1>1, ProgramTypes, WriterTypes, ManagerTypes, ToolTypes, ServerTypes DEF Next
<1>2. CASE UNCHANGED vars
  BY <1>2 DEF vars, files, ui, history, TInv, TypeOK, ProgramConsistent, Loaded
<1>3. QED
  BY <1>1, <1>2

\* However managers, tools and servers overlap, fail and are killed, the files and
\* the memory of every program have the types that vault.rs and gui.rs give them.
THEOREM TypeCorrect == Spec => []TypeOK
<1>1. Spec => []TInv
  BY InitTypes, NextTypes, PTL DEF Spec
<1>2. TInv => TypeOK
  BY DEF TInv
<1>3. QED
  BY <1>1, <1>2, PTL

-------------------------------------------------------------------------------
(* The key and the vault, when programs start one after the other. *)

\* No two programs are creating the key.
StartsAlone ==
    \A p, q \in Programs : pc[p] \in Starting /\ pc[q] \in Starting => p = q

\* The one that creates it finds no other key in its place.
KeyIsNew ==
    \A p \in Programs :
        /\ pc[p] = "create key" => key_file = Absent
        /\ pc[p] = "write key" => key_file = Empty

\* A key in memory is the key on disk.
KeysAgree == \A p \in Programs : master_key[p] # None => key_file = master_key[p]

KInv == TInv /\ StartsAlone /\ KeyIsNew /\ KeysAgree /\ KeyOpensVault

\* A program starts alone, and reads a key only from the file.
LEMMA InitKey == Init => KInv
<1> SUFFICES ASSUME Init PROVE KInv
  OBVIOUS
<1>1. StartsAlone /\ KeyIsNew /\ KeysAgree
  BY DEF Init, StartsAlone, KeyIsNew, KeysAgree, Starting
<1>2. KeyOpensVault
  BY DEF Init, KeyOpensVault, IsWhole, Absent
<1>3. QED
  BY <1>1, <1>2, InitTypes DEF KInv

\* A step that leaves both files and every key in memory, or forgets one, and
\* starts no program keeps the invariant.
LEMMA KeyKept ==
    ASSUME KInv, TInv',
           key_file' = key_file, vault_file' = vault_file,
           \A q \in Programs : master_key'[q] \in {None, master_key[q]},
           \A q \in Programs : pc'[q] = pc[q] \/ pc'[q] \notin Starting
    PROVE  KInv'
<1>1. StartsAlone'
  BY DEF KInv, StartsAlone
<1>2. KeyIsNew'
  BY DEF KInv, KeyIsNew, Starting
<1>3. KeysAgree' /\ KeyOpensVault'
  BY DEF KInv, KeysAgree, KeyOpensVault, IsWhole
<1>4. QED
  BY <1>1, <1>2, <1>3 DEF KInv

\* So do the steps of ensure_master_key.
LEMMA ProgramKeepsKey ==
    ASSUME OneAtATime, KInv, NEW p \in Programs, Program(p)
    PROVE  KInv'
<1> USE DEF Goto, files, ui, history
<1>0. TInv /\ TInv' /\ TypeOK
  BY ProgramTypes DEF KInv, TInv
<1>1. ASSUME MayStart(p), pc' = [pc EXCEPT ![p] = "check key"],
             key_file' = key_file, vault_file' = vault_file, master_key' = master_key
      PROVE  KInv'
  <2>1. \A q \in Programs : pc[q] \notin Starting
    BY <1>1 DEF MayStart, Starting
  <2>2. StartsAlone' /\ KeyIsNew'
    BY <1>0, <1>1, <2>1 DEF TypeOK, StartsAlone, KeyIsNew, Starting
  <2>3. KeysAgree' /\ KeyOpensVault'
    BY <1>1 DEF KInv, KeysAgree, KeyOpensVault, IsWhole
  <2>4. QED
    BY <1>0, <2>2, <2>3 DEF KInv
<1>2. CASE Start(p)
  BY <1>1, <1>2 DEF Start
<1>3. CASE CheckKey(p)
  <2>1. CASE key_file # Absent
    <3>1. AfterKey(p) \notin Starting
      BY DEF AfterKey, Starting
    <3>2. pc' = [pc EXCEPT ![p] = AfterKey(p)]
      BY <1>3, <2>1 DEF CheckKey
    <3>3. UNCHANGED <<key_file, vault_file, master_key>>
      BY <1>3 DEF CheckKey
    <3>4. QED
      BY <1>0, <3>1, <3>2, <3>3, KeyKept DEF TypeOK
  <2>2. CASE key_file = Absent
    <3>1. /\ pc[p] = "check key" /\ pc' = [pc EXCEPT ![p] = "create key"]
          /\ UNCHANGED <<key_file, vault_file, master_key>>
      BY <1>3, <2>2 DEF CheckKey
    <3>2. \A q \in Programs : q # p => pc[q] \notin Starting /\ pc'[q] = pc[q]
      BY <1>0, <3>1 DEF KInv, StartsAlone, Starting, TypeOK
    <3>3. StartsAlone' /\ KeyIsNew'
      BY <1>0, <2>2, <3>1, <3>2 DEF TypeOK, StartsAlone, KeyIsNew, Starting
    <3>4. KeysAgree' /\ KeyOpensVault'
      BY <3>1 DEF KInv, KeysAgree, KeyOpensVault, IsWhole
    <3>5. QED
      BY <1>0, <3>3, <3>4 DEF KInv
  <2>3. QED
    BY <2>1, <2>2
<1>4. ASSUME pc[p] \in {"create key", "write key"}
      PROVE  /\ \A q \in Programs : q # p => pc[q] \notin Starting
             /\ \A q \in Programs : master_key[q] = None
             /\ ~IsWhole
  <2>1. \A q \in Programs : q # p => pc[q] \notin Starting
    BY <1>4 DEF KInv, StartsAlone, Starting
  <2>2. key_file \notin Keys
    BY <1>4, FileAssumption DEF KInv, KeyIsNew
  <2>3. \A q \in Programs : master_key[q] = None
    BY <1>0, <2>2 DEF KInv, KeysAgree, TypeOK
  <2>4. ~IsWhole
    BY <1>0, <2>2 DEF KInv, KeyOpensVault, TypeOK, IsWhole, Absent, Empty, Garbled
  <2>5. QED
    BY <2>1, <2>3, <2>4
<1>5. CASE CreateKey(p)
  <2>1. /\ pc[p] = "create key" /\ pc' = [pc EXCEPT ![p] = "write key"]
        /\ key_file' = Empty /\ vault_file' = vault_file /\ master_key' = master_key
    BY <1>5 DEF CreateKey
  <2>2. /\ \A q \in Programs : q # p => pc[q] \notin Starting
        /\ \A q \in Programs : master_key[q] = None
        /\ ~IsWhole
    BY <1>4, <2>1
  <2>3. StartsAlone' /\ KeyIsNew'
    BY <1>0, <2>1, <2>2 DEF TypeOK, StartsAlone, KeyIsNew, Starting
  <2>4. KeysAgree' /\ KeyOpensVault'
    BY <2>1, <2>2 DEF KeysAgree, KeyOpensVault, IsWhole
  <2>5. QED
    BY <1>0, <2>3, <2>4 DEF KInv
<1>6. CASE WriteKey(p)
  <2>1. /\ pc[p] = "write key" /\ pc' = [pc EXCEPT ![p] = AfterKey(p)]
        /\ vault_file' = vault_file /\ master_key' = master_key
    BY <1>6 DEF WriteKey
  <2>2. /\ \A q \in Programs : q # p => pc[q] \notin Starting
        /\ \A q \in Programs : master_key[q] = None
        /\ ~IsWhole
    BY <1>4, <2>1
  <2>3. AfterKey(p) \notin Starting
    BY DEF AfterKey, Starting
  <2>4. \A q \in Programs : pc'[q] \notin Starting
    BY <1>0, <2>1, <2>2, <2>3 DEF TypeOK
  <2>5. StartsAlone' /\ KeyIsNew'
    BY <2>4 DEF StartsAlone, KeyIsNew, Starting
  <2>6. KeysAgree' /\ KeyOpensVault'
    BY <2>1, <2>2 DEF KeysAgree, KeyOpensVault, IsWhole
  <2>7. QED
    BY <1>0, <2>5, <2>6 DEF KInv
<1>7. CASE Stop(p)
  <2>1. UNCHANGED <<key_file, vault_file>> /\ Ended(p)
    BY <1>7 DEF Stop
  <2>2. QED
    BY <1>0, <2>1, KeyKept DEF Ended, TypeOK, Starting
<1>8. CASE KeyFails(p)
  <2>1. UNCHANGED <<key_file, vault_file>>
    BY <1>8 DEF KeyFails
  <2>2. /\ \A q \in Programs : master_key'[q] \in {None, master_key[q]}
        /\ \A q \in Programs : pc'[q] = pc[q] \/ pc'[q] \notin Starting
    <3>1. CASE p \in Managers
      <4>1. /\ pc' = [pc EXCEPT ![p] = "load key"]
            /\ master_key' = master_key
        BY <1>8, <3>1 DEF KeyFails
      <4>2. QED
        BY <1>0, <4>1 DEF TypeOK, Starting
    <3>2. CASE p \notin Managers
      <4>1. Ended(p)
        BY <1>8, <3>2 DEF KeyFails
      <4>2. QED
        BY <1>0, <4>1 DEF Ended, TypeOK, Starting
    <3>3. QED
      BY <3>1, <3>2
  <2>3. QED
    BY <1>0, <2>1, <2>2, KeyKept
<1>9. QED
  BY <1>2, <1>3, <1>5, <1>6, <1>7, <1>8 DEF Program

\* A writer saves under the key on disk.
LEMMA WriterKeepsKey ==
    ASSUME KInv, NEW p \in Writers, Writer(p)
    PROVE  KInv'
<1> USE DEF Goto, files, ui, history
<1>0. TInv /\ TInv' /\ TypeOK /\ p \in Programs
  BY WriterTypes DEF KInv, TInv, Programs
<1>1. CASE LoadKey(p)
  <2>1. /\ master_key' = [master_key EXCEPT ![p] = key_file]
        /\ pc' = [pc EXCEPT ![p] = IF pc[p] = "load key" THEN "load vault"
                                                         ELSE "reload vault"]
        /\ UNCHANGED <<key_file, vault_file>>
    BY <1>1 DEF LoadKey
  <2>2. StartsAlone' /\ KeyIsNew'
    BY <1>0, <2>1 DEF KInv, StartsAlone, KeyIsNew, TypeOK, Starting
  <2>3. KeysAgree' /\ KeyOpensVault'
    BY <1>0, <2>1 DEF KInv, KeysAgree, KeyOpensVault, IsWhole, TypeOK
  <2>4. QED
    BY <1>0, <2>2, <2>3 DEF KInv
<1>2. CASE LoadVault(p)
  <2>1. UNCHANGED <<key_file, vault_file, master_key>>
    BY <1>2 DEF LoadVault
  <2>2. pc' = [pc EXCEPT ![p] = "truncate"] \/ pc' = [pc EXCEPT ![p] = "idle"]
    BY <1>2 DEF LoadVault
  <2>3. QED
    BY <1>0, <2>1, <2>2, KeyKept DEF TypeOK, Starting
<1>3. ASSUME UNCHANGED key_file,
             vault_file' \in {Empty, Garbled, vault_file}
                  \cup {Whole(master_key[p], users[p])},
             vault_file' = Whole(master_key[p], users[p]) => master_key[p] # None,
             \A q \in Programs : master_key'[q] \in {None, master_key[q]},
             \A q \in Programs : pc'[q] = pc[q] \/ pc'[q] \notin Starting
      PROVE  KInv'
  <2>1. StartsAlone' /\ KeyIsNew'
    BY <1>3 DEF KInv, StartsAlone, KeyIsNew, Starting
  <2>2. KeysAgree'
    BY <1>3 DEF KInv, KeysAgree
  <2>3. ASSUME vault_file' = vault_file PROVE KeyOpensVault'
    BY <1>3, <2>3 DEF KInv, KeyOpensVault, IsWhole
  <2>4. ASSUME vault_file' \in {Empty, Garbled} PROVE KeyOpensVault'
    BY <2>4 DEF KeyOpensVault, IsWhole, Empty, Garbled
  <2>5. ASSUME vault_file' = Whole(master_key[p], users[p]) PROVE KeyOpensVault'
    <3>1. key_file = master_key[p]
      BY <1>0, <1>3, <2>5 DEF KInv, KeysAgree
    <3>2. QED
      BY <1>3, <2>5, <3>1 DEF KeyOpensVault, Whole
  <2>6. KeyOpensVault'
    BY <1>3, <2>3, <2>4, <2>5
  <2>7. QED
    BY <1>0, <2>1, <2>2, <2>6 DEF KInv
<1>4. CASE Truncate(p)
  <2>1. /\ pc' = [pc EXCEPT ![p] = "write"]
        /\ vault_file' = Empty
        /\ UNCHANGED <<key_file, master_key>>
    BY <1>4 DEF Truncate
  <2>2. \A q \in Programs : pc'[q] = pc[q] \/ pc'[q] \notin Starting
    BY <1>0, <2>1 DEF TypeOK, Starting
  <2>3. vault_file' # Whole(master_key[p], users[p])
    BY <2>1 DEF Whole, Empty
  <2>4. QED
    BY <1>3, <2>1, <2>2, <2>3
<1>5. CASE Write(p)
  <2>1. master_key[p] # None
    BY <1>0, <1>5 DEF Write, TInv, ProgramConsistent, Saving
  <2>2. /\ \A q \in Programs : master_key'[q] \in {None, master_key[q]}
        /\ \A q \in Programs : pc'[q] = pc[q] \/ pc'[q] \notin Starting
    <3>1. CASE p \in Tools
      <4>1. Ended(p)
        BY <1>5, <3>1 DEF Write
      <4>2. QED
        BY <1>0, <4>1 DEF Ended, TypeOK, Starting
    <3>2. CASE p \notin Tools
      <4>1. pc' = [pc EXCEPT ![p] = "idle"] /\ UNCHANGED master_key
        BY <1>5, <3>2 DEF Write, AfterWrite
      <4>2. QED
        BY <1>0, <4>1 DEF TypeOK, Starting
    <3>3. QED
      BY <3>1, <3>2
  <2>3. /\ UNCHANGED key_file
        /\ vault_file' \in {Whole(master_key[p], users[p]), Garbled}
    BY <1>5 DEF Write, Written
  <2>4. QED
    BY <1>3, <2>1, <2>2, <2>3
<1>6. CASE SaveFails(p)
  <2>1. master_key[p] # None
    BY <1>0, <1>6 DEF SaveFails, TInv, ProgramConsistent, Saving
  <2>2. /\ \A q \in Programs : master_key'[q] \in {None, master_key[q]}
        /\ \A q \in Programs : pc'[q] = pc[q] \/ pc'[q] \notin Starting
    <3>1. CASE p \in Tools
      <4>1. Ended(p)
        BY <1>6, <3>1 DEF SaveFails
      <4>2. QED
        BY <1>0, <4>1 DEF Ended, TypeOK, Starting
    <3>2. CASE p \notin Tools
      <4>1. pc' = [pc EXCEPT ![p] = "idle"] /\ UNCHANGED master_key
        BY <1>6, <3>2 DEF SaveFails
      <4>2. QED
        BY <1>0, <4>1 DEF TypeOK, Starting
    <3>3. QED
      BY <3>1, <3>2
  <2>3. UNCHANGED key_file /\ vault_file' \in {vault_file, Garbled}
    BY <1>6 DEF SaveFails
  <2>4. QED
    BY <1>3, <2>1, <2>2, <2>3
<1>7. QED
  BY <1>1, <1>2, <1>4, <1>5, <1>6 DEF Writer

\* Nothing that an operator does at a manager touches the files.
LEMMA ManagerKeepsKey ==
    ASSUME KInv, NEW m \in Managers, Manager(m)
    PROVE  KInv'
<1>1. TInv' /\ TypeOK /\ m \in Programs
  BY ManagerTypes DEF KInv, TInv, Programs, Writers
<1>2. UNCHANGED <<key_file, vault_file, master_key>>
  BY DEF Manager, ReloadVault, LoadFails, ResetForm, CancelDelete, StatusExpires,
         HandleSave, SaveRefused, HandleDelete, DeleteRefused, EditUser, TypeName,
         ClickDelete, TypePassword, Fill, SetPending, files
<1>3. \/ pc' = pc
      \/ pc' = [pc EXCEPT ![m] = "reload key"]
      \/ pc' = [pc EXCEPT ![m] = "idle"]
      \/ pc' = [pc EXCEPT ![m] = "truncate"]
  BY DEF Manager, ReloadVault, LoadFails, ResetForm, CancelDelete, StatusExpires,
         HandleSave, SaveRefused, HandleDelete, DeleteRefused, EditUser, TypeName,
         ClickDelete, TypePassword, Fill, SetPending, Goto
<1>4. \A q \in Programs : pc'[q] = pc[q] \/ pc'[q] \notin Starting
  BY <1>1, <1>3 DEF TypeOK, Starting
<1>5. QED
  BY <1>1, <1>2, <1>4, KeyKept

\* A tool starts alone.
LEMMA ToolKeepsKey ==
    ASSUME OneAtATime, KInv, NEW p \in Tools, Tool(p)
    PROVE  KInv'
<1> USE DEF Goto, files
<1>0. TInv' /\ TypeOK /\ p \in Programs
  BY ToolTypes DEF KInv, TInv, Programs, Writers
<1>1. ASSUME NEW u \in Users, NEW hash \in Hashes, AddUser(p, u, hash)
      PROVE  KInv'
  <2>1. /\ pc' = [pc EXCEPT ![p] = "check key"]
        /\ UNCHANGED <<key_file, vault_file, master_key>>
    BY <1>1 DEF AddUser
  <2>2. \A q \in Programs : pc[q] \notin Starting
    BY <1>1 DEF AddUser, MayStart, Starting
  <2>3. StartsAlone' /\ KeyIsNew'
    BY <1>0, <2>1, <2>2 DEF TypeOK, StartsAlone, KeyIsNew, Starting
  <2>4. KeysAgree' /\ KeyOpensVault'
    BY <2>1 DEF KInv, KeysAgree, KeyOpensVault, IsWhole
  <2>5. QED
    BY <1>0, <2>3, <2>4 DEF KInv
<1>2. CASE AddUserFails(p)
  <2>1. UNCHANGED <<key_file, vault_file>> /\ Ended(p)
    BY <1>2 DEF AddUserFails
  <2>2. QED
    BY <1>0, <2>1, KeyKept DEF Ended, TypeOK, Starting
<1>3. QED
  BY <1>1, <1>2 DEF Tool

\* A login reads the key from the file.
LEMMA ServerKeepsKey ==
    ASSUME KInv, NEW s \in Servers, Server(s)
    PROVE  KInv'
<1> USE DEF Goto, files
<1>0. TInv' /\ TypeOK /\ s \in Programs
  BY ServerTypes DEF KInv, TInv, Programs
<1>1. /\ UNCHANGED <<key_file, vault_file>>
      /\ \E label \in {"ready", "login key", "login vault"} :
            pc' = [pc EXCEPT ![s] = label]
      /\ \/ master_key' = master_key
         \/ master_key' = [master_key EXCEPT ![s] = None]
         \/ master_key' = [master_key EXCEPT ![s] = key_file]
  BY DEF Server, Login, LoginKey, LoginVault
<1>2. \A q \in Programs : pc'[q] = pc[q] \/ pc'[q] \notin Starting
  BY <1>0, <1>1 DEF TypeOK, Starting
<1>3. StartsAlone' /\ KeyIsNew'
  BY <1>1, <1>2 DEF KInv, StartsAlone, KeyIsNew, Starting
<1>4. KeysAgree' /\ KeyOpensVault'
  BY <1>0, <1>1 DEF KInv, KeysAgree, KeyOpensVault, IsWhole, TypeOK
<1>5. QED
  BY <1>0, <1>3, <1>4 DEF KInv

\* The invariant of the key is kept by every step.
LEMMA NextKey == OneAtATime /\ KInv /\ [Next]_vars => KInv'
<1> SUFFICES ASSUME OneAtATime, KInv, [Next]_vars
             PROVE  KInv'
  OBVIOUS
<1>1. CASE Next
  BY <1>1, ProgramKeepsKey, WriterKeepsKey, ManagerKeepsKey, ToolKeepsKey,
     ServerKeepsKey DEF Next
<1>2. CASE UNCHANGED vars
  <2>1. TInv'
    BY <1>2, NextTypes DEF KInv
  <2>2. UNCHANGED <<key_file, vault_file, master_key, pc>>
    BY <1>2 DEF vars, files
  <2>3. QED
    BY <2>1, <2>2, KeyKept
<1>3. QED
  BY <1>1, <1>2

\* If programs are started one after the other, then wherever they are killed and
\* whatever fails, the key that ensure_master_key left opens the vault on disk.
THEOREM KeyAlwaysOpensVault == ASSUME OneAtATime PROVE Spec => []KeyOpensVault
<1>1. KInv /\ [Next]_vars => KInv'
  BY NextKey
<1>2. Spec => []KInv
  BY <1>1, InitKey, PTL DEF Spec
<1>3. KInv => KeyOpensVault
  BY DEF KInv
<1>4. QED
  BY <1>2, <1>3, PTL

-------------------------------------------------------------------------------
(* What is saved stays saved, when writers run one after the other. *)

\* Where a writer has not read the vault, and where it holds a copy.
Fresh == {"off"} \cup Starting \cup Loading
Holding == {"idle"} \cup Reloading \cup Saving

WritesAlone ==
    \A p, q \in Writers : pc[p] # "off" /\ pc[q] # "off" => p = q

\* A writer that has not read the vault holds no account and shows no banner.
FreshIsEmpty(p) == pc[p] \in Fresh => users[p] = NoUsers /\ status[p] = None

\* The file is empty between the truncation and the write.
WriteIsOpen(p) == pc[p] = "write" => vault_file = Empty

BannerIsTrue(p) ==
    p \in Managers /\ pc[p] = "idle" /\ status[p] \in {"saved", "deleted"} =>
        vault_file = Whole(master_key[p], users[p])

\* What is safe is in the copy that will be saved, if the writer has not missed it
\* at its start, and is in any copy that is being written.
CopyHolds(p) ==
    pc[p] = "write" \/ (pc[p] \in Holding /\ p \notin blind) =>
        \A u \in safe : u \in DOMAIN users[p] /\ users[p][u] = acked[u]

\* Nothing is known of the account that a writer is changing.
TaskInDoubt(p) ==
    pc[p] \in Saving \/ (p \in Tools /\ pc[p] # "off") =>
        task[p].user \notin DOMAIN acked /\ task[p].user \notin gone

\* The copy that is being saved has the change in it.
TaskInCopy(p) ==
    pc[p] \in Saving =>
        IF task[p].hash = None THEN task[p].user \notin DOMAIN users[p]
        ELSE task[p].user \in DOMAIN users[p] /\ users[p][task[p].user] = task[p].hash

\* A map has no deleted account in it, and no password that was replaced.
Current(map) ==
    \A u \in DOMAIN map : u \notin gone /\ (u \in DOMAIN acked => map[u] = acked[u])

CopyIsCurrent(p) == Current(users[p])

CopyOK(p) ==
    /\ FreshIsEmpty(p)
    /\ WriteIsOpen(p)
    /\ BannerIsTrue(p)
    /\ CopyHolds(p)
    /\ TaskInDoubt(p)
    /\ TaskInCopy(p)
    /\ CopyIsCurrent(p)

DiskIsCurrent == IsWhole => Current(vault_file.users)

\* A login that was outdated when it began still is.
LateIsOutdated ==
    \A s \in late : Outdated(task[s].user, task[s].hash) /\ verdict[s] # "accepted"

SInv ==
    /\ KInv
    /\ WritesAlone
    /\ \A p \in Writers : CopyOK(p)
    /\ NothingLost
    /\ DiskIsCurrent
    /\ LateIsOutdated

\* The accounts of a map after a change.
LEMMA MapFacts ==
    /\ DOMAIN NoUsers = {}
    /\ \A map, u, hash :
          /\ DOMAIN With(map, u, hash) = DOMAIN map \cup {u}
          /\ With(map, u, hash)[u] = hash
          /\ \A x \in DOMAIN map \ {u} : With(map, u, hash)[x] = map[x]
    /\ \A map, u :
          /\ DOMAIN Without(map, u) = DOMAIN map \ {u}
          /\ \A x \in DOMAIN map \ {u} : Without(map, u)[x] = map[x]
  BY DEF NoUsers, With, Without

\* While a writer runs, the others are off.
LEMMA OthersOff ==
    ASSUME SInv, NEW p \in Writers, pc[p] # "off"
    PROVE  \A q \in Writers \ {p} : pc[q] = "off"
  BY DEF SInv, WritesAlone

\* A step of the one writer that runs keeps the invariant if it keeps the writer's
\* own part, and the file's.
LEMMA WriterStep ==
    ASSUME SInv, KInv', NEW p \in Writers,
           \A q \in Writers \ {p} :
              /\ pc[q] = "off" /\ pc'[q] = "off"
              /\ users'[q] = users[q] /\ status'[q] = status[q],
           CopyOK(p)', NothingLost', DiskIsCurrent', LateIsOutdated'
    PROVE  SInv'
<1>1. WritesAlone'
  BY DEF WritesAlone
<1>2. ASSUME NEW q \in Writers PROVE CopyOK(q)'
  <2>1. CASE q = p
    BY <2>1
  <2>2. CASE q # p
    <3>1. pc'[q] = "off" /\ users'[q] = NoUsers
      BY <2>2 DEF SInv, CopyOK, FreshIsEmpty, Fresh
    <3>2. status'[q] = None
      BY <2>2 DEF SInv, CopyOK, FreshIsEmpty, Fresh
    <3>3. FreshIsEmpty(q)' /\ WriteIsOpen(q)' /\ BannerIsTrue(q)'
      BY <3>1, <3>2 DEF FreshIsEmpty, WriteIsOpen, BannerIsTrue
    <3>4. CopyHolds(q)' /\ TaskInDoubt(q)' /\ TaskInCopy(q)'
      BY <3>1
      DEF CopyHolds, TaskInDoubt, TaskInCopy, Holding, Reloading, Saving
    <3>5. CopyIsCurrent(q)'
      BY <3>1, MapFacts DEF CopyIsCurrent, Current
    <3>6. QED
      BY <3>3, <3>4, <3>5 DEF CopyOK
  <2>3. QED
    BY <2>1, <2>2
<1>3. QED
  BY <1>1, <1>2 DEF SInv

\* A step of a writer that changes neither the file nor its copy.
LEMMA QuietStep ==
    ASSUME SInv, KInv', NEW p \in Writers, pc[p] # "off",
           UNCHANGED <<vault_file, users, task, verdict, history>>,
           \A q \in Writers \ {p} : pc'[q] = pc[q] /\ status'[q] = status[q],
           \/ pc'[p] = pc[p]
           \/ pc[p] \in Fresh /\ pc'[p] \in Fresh
           \/ pc[p] \in {"idle"} \cup Reloading /\ pc'[p] \in {"idle"} \cup Reloading,
           status'[p] = status[p] \/ pc[p] \in Holding,
           pc'[p] = "idle" /\ status'[p] \in {"saved", "deleted"} =>
              /\ pc[p] = "idle"
              /\ status'[p] = status[p]
              /\ master_key'[p] = master_key[p]
    PROVE  SInv'
<1> USE DEF history
<1>1. CopyOK(p)
  BY DEF SInv
<1>2. \A q \in Writers \ {p} : pc[q] = "off"
  BY OthersOff
<1>3. FreshIsEmpty(p)'
  BY <1>1 DEF CopyOK, FreshIsEmpty, Fresh, Holding, Reloading, Starting, Loading,
              Saving
<1>4. WriteIsOpen(p)' /\ BannerIsTrue(p)'
  BY <1>1 DEF CopyOK, WriteIsOpen, BannerIsTrue, Fresh, Reloading, Starting, Loading
<1>5. CopyHolds(p)' /\ TaskInCopy(p)'
  BY <1>1 DEF CopyOK, CopyHolds, TaskInCopy, Fresh, Holding, Reloading, Starting,
              Loading, Saving
<1>6. TaskInDoubt(p)' /\ CopyIsCurrent(p)'
  BY <1>1 DEF CopyOK, TaskInDoubt, CopyIsCurrent, Current, Fresh, Reloading, Starting,
              Loading, Saving
<1>7. NothingLost'
  <2>1. (\A q \in Writers : pc'[q] # "write") => \A q \in Writers : pc[q] # "write"
    BY <1>2 DEF Fresh, Starting, Loading, Reloading
  <2>2. QED
    BY <2>1 DEF SInv, NothingLost, IsWhole
<1>8. DiskIsCurrent' /\ LateIsOutdated'
  BY DEF SInv, DiskIsCurrent, Current, LateIsOutdated, Outdated, IsWhole
<1>9. QED
  BY <1>2, <1>3, <1>4, <1>5, <1>6, <1>7, <1>8, WriterStep DEF CopyOK

\* A writer that ends without an acknowledgement, in a write or elsewhere.
LEMMA EndedStep ==
    ASSUME SInv, KInv', NEW p \in Writers, pc[p] # "off", Ended(p),
           acked' = acked, gone' = gone, late' \in {late, late \ {p}},
           safe' = IF pc[p] = "write" THEN {} ELSE safe,
           vault_file' = vault_file \/ (vault_file' = Garbled /\ pc[p] = "write")
    PROVE  SInv'
<1>0. TypeOK /\ p \in Programs /\ p \notin Servers /\ Writers \subseteq Programs
  BY ProgramAssumption DEF SInv, KInv, TInv, Programs, Writers
<1>1. \A q \in Writers \ {p} : pc[q] = "off"
  BY OthersOff
<1>2. /\ pc'[p] = "off" /\ users'[p] = NoUsers /\ status'[p] = None
      /\ \A q \in Writers \ {p} :
            pc'[q] = "off" /\ users'[q] = users[q] /\ status'[q] = status[q]
  BY <1>0, <1>1 DEF Ended, Goto, TypeOK
<1>3. FreshIsEmpty(p)' /\ WriteIsOpen(p)' /\ BannerIsTrue(p)'
  BY <1>2 DEF FreshIsEmpty, WriteIsOpen, BannerIsTrue
<1>4. CopyHolds(p)' /\ TaskInDoubt(p)' /\ TaskInCopy(p)'
  BY <1>2 DEF CopyHolds, TaskInDoubt, TaskInCopy, Holding, Reloading, Saving
<1>5. CopyIsCurrent(p)'
  BY <1>2, MapFacts DEF CopyIsCurrent, Current
<1>6. NothingLost'
  <2>1. CASE pc[p] = "write"
    BY <2>1 DEF NothingLost
  <2>2. CASE pc[p] # "write"
    <3>1. \A q \in Writers : pc[q] # "write"
      BY <1>1, <2>2
    <3>2. vault_file' = vault_file /\ safe' = safe
      BY <2>2
    <3>3. QED
      BY <3>1, <3>2 DEF SInv, NothingLost, IsWhole
  <2>3. QED
    BY <2>1, <2>2
<1>7. DiskIsCurrent'
  BY DEF SInv, DiskIsCurrent, Current, IsWhole, Garbled
<1>8. LateIsOutdated'
  <2>1. ASSUME NEW s \in late'
        PROVE  task'[s] = task[s] /\ verdict'[s] = verdict[s] /\ s \in late
    <3>1. s \in late /\ s \in Programs /\ s # p
      BY <1>0 DEF TypeOK, Programs
    <3>2. QED
      BY <1>0, <3>1 DEF Ended, TypeOK
  <2>2. QED
    BY <2>1 DEF SInv, LateIsOutdated, Outdated
<1>9. QED
  BY <1>1, <1>2, <1>3, <1>4, <1>5, <1>6, <1>7, <1>8, WriterStep DEF CopyOK

\* A step of a server leaves the writers and the file as they are.
LEMMA ServerStep ==
    ASSUME SInv, KInv', UNCHANGED <<vault_file, acked, gone, safe>>,
           \A q \in Writers : q \in blind' <=> q \in blind,
           \A q \in Writers :
              /\ pc'[q] = pc[q] /\ users'[q] = users[q] /\ status'[q] = status[q]
              /\ task'[q] = task[q] /\ master_key'[q] = master_key[q],
           LateIsOutdated'
    PROVE  SInv'
<1>1. WritesAlone'
  BY DEF SInv, WritesAlone
<1>2. ASSUME NEW q \in Writers PROVE CopyOK(q)'
  <2>1. CopyOK(q)
    BY DEF SInv
  <2>2. FreshIsEmpty(q)' /\ WriteIsOpen(q)' /\ BannerIsTrue(q)'
    BY <2>1 DEF CopyOK, FreshIsEmpty, WriteIsOpen, BannerIsTrue
  <2>3. CopyHolds(q)' /\ TaskInDoubt(q)'
    BY <2>1 DEF CopyOK, CopyHolds, TaskInDoubt
  <2>4. TaskInCopy(q)' /\ CopyIsCurrent(q)'
    BY <2>1 DEF CopyOK, TaskInCopy, CopyIsCurrent, Current
  <2>5. QED
    BY <2>2, <2>3, <2>4 DEF CopyOK
<1>3. NothingLost' /\ DiskIsCurrent'
  BY DEF SInv, NothingLost, DiskIsCurrent, Current, IsWhole
<1>4. QED
  BY <1>1, <1>2, <1>3 DEF SInv

\* At the start of a program all that it holds is empty.
LEMMA InitSaved == Init => SInv
<1> SUFFICES ASSUME Init PROVE SInv
  OBVIOUS
<1> USE DEF Init
<1>0. Writers \subseteq Programs
  BY DEF Programs
<1>1. WritesAlone /\ LateIsOutdated
  BY <1>0 DEF WritesAlone, LateIsOutdated
<1>2. ASSUME NEW p \in Writers PROVE CopyOK(p)
  <2>1. pc[p] = "off" /\ users[p] = NoUsers /\ status[p] = None
    BY <1>0
  <2>2. FreshIsEmpty(p) /\ WriteIsOpen(p) /\ BannerIsTrue(p)
    BY <2>1 DEF FreshIsEmpty, WriteIsOpen, BannerIsTrue
  <2>3. CopyHolds(p) /\ TaskInDoubt(p) /\ TaskInCopy(p)
    BY <2>1 DEF CopyHolds, TaskInDoubt, TaskInCopy, Holding, Reloading, Saving
  <2>4. CopyIsCurrent(p)
    BY <2>1, MapFacts DEF CopyIsCurrent, Current
  <2>5. QED
    BY <2>2, <2>3, <2>4 DEF CopyOK
<1>3. NothingLost /\ DiskIsCurrent
  BY MapFacts DEF NothingLost, DiskIsCurrent, Current
<1>4. QED
  BY <1>1, <1>2, <1>3, InitKey DEF SInv

\* The steps of ensure_master_key keep the invariant.
LEMMA ProgramKeepsSaved ==
    ASSUME OneAtATime, SInv, NEW p \in Programs, Program(p)
    PROVE  SInv'
<1> USE DEF files, ui, history
<1>0. /\ KInv' /\ TypeOK /\ Writers \subseteq Programs /\ Tools \subseteq Writers
      /\ \A q \in Writers : q \notin Servers
  BY ProgramKeepsKey, ProgramAssumption DEF SInv, KInv, TInv, Programs, Writers
<1>1. CASE p \notin Writers
  <2>1. p \in Servers
    BY <1>1 DEF Programs
  <2>2. pc[p] # "write"
    BY <2>1 DEF SInv, KInv, TInv, ProgramConsistent, Starting, Programs
  <2>3. /\ UNCHANGED <<vault_file, acked, gone, safe>>
        /\ late' \in {late, late \ {p}}
        /\ blind' \in {blind, blind \ {p}}
    BY <1>0, <2>2
    DEF Program, Start, CheckKey, CreateKey, WriteKey, KeyFails, Stop, Ended, TypeOK
  <2>4. \A q \in Programs \ {p} :
           /\ pc'[q] = pc[q] /\ users'[q] = users[q] /\ status'[q] = status[q]
           /\ task'[q] = task[q] /\ master_key'[q] = master_key[q]
           /\ verdict'[q] = verdict[q]
    BY <1>0
    DEF Program, Start, CheckKey, CreateKey, WriteKey, KeyFails, Stop, Ended, Goto,
        TypeOK
  <2>5. p \in late' => task' = task /\ verdict' = verdict
    BY DEF Program, Start, CheckKey, CreateKey, WriteKey, KeyFails, Stop
  <2>6. LateIsOutdated'
    <3>1. late \subseteq Programs
      BY <1>0 DEF TypeOK, Programs
    <3>2. QED
      BY <2>3, <2>4, <2>5, <3>1 DEF SInv, LateIsOutdated, Outdated
  <2>7. QED
    BY <1>0, <1>1, <2>3, <2>4, <2>6, ServerStep
<1>2. CASE p \in Writers /\ Start(p)
  <2>1. /\ \A q \in Writers : pc[q] = "off"
        /\ pc' = [pc EXCEPT ![p] = "check key"]
        /\ UNCHANGED <<vault_file, users, task, status, verdict, history>>
        /\ p \notin Tools
    BY <1>2 DEF Start, MayStart, Goto
  <2>2. pc'[p] = "check key" /\ \A q \in Writers \ {p} : pc'[q] = pc[q]
    BY <1>0, <1>2, <2>1 DEF TypeOK
  <2>3. users[p] = NoUsers /\ status[p] = None
    BY <1>2, <2>1 DEF SInv, CopyOK, FreshIsEmpty, Fresh
  <2>4. FreshIsEmpty(p)' /\ WriteIsOpen(p)' /\ BannerIsTrue(p)'
    BY <2>1, <2>2, <2>3 DEF FreshIsEmpty, WriteIsOpen, BannerIsTrue
  <2>5. CopyHolds(p)' /\ TaskInDoubt(p)' /\ TaskInCopy(p)'
    BY <2>1, <2>2 DEF CopyHolds, TaskInDoubt, TaskInCopy, Holding, Reloading, Saving
  <2>6. CopyIsCurrent(p)'
    BY <2>1, <2>3, MapFacts DEF CopyIsCurrent, Current
  <2>7. NothingLost'
    BY <2>1 DEF SInv, NothingLost, IsWhole
  <2>8. DiskIsCurrent' /\ LateIsOutdated'
    BY <2>1 DEF SInv, DiskIsCurrent, Current, LateIsOutdated, Outdated, IsWhole
  <2>9. QED
    BY <1>0, <1>2, <2>1, <2>2, <2>4, <2>5, <2>6, <2>7, <2>8, WriterStep DEF CopyOK
<1>3. ASSUME p \in Writers, NEW label \in Fresh, pc[p] \in Starting,
             pc' = [pc EXCEPT ![p] = label],
             UNCHANGED <<vault_file, users, task, status, verdict, history>>
      PROVE  SInv'
  <2>1. pc[p] # "off" /\ pc[p] \in Fresh
    BY <1>3 DEF Starting, Fresh
  <2>2. pc'[p] = label /\ \A q \in Writers \ {p} : pc'[q] = pc[q]
    BY <1>0, <1>3 DEF TypeOK
  <2>3. label # "idle"
    BY DEF Fresh, Starting, Loading
  <2>4. QED
    BY <1>0, <1>3, <2>1, <2>2, <2>3, QuietStep
<1>4. CASE p \in Writers /\ (CheckKey(p) \/ CreateKey(p) \/ WriteKey(p))
  <2>1. AfterKey(p) \in Fresh /\ "create key" \in Fresh /\ "write key" \in Fresh
    BY <1>0, <1>4 DEF AfterKey, Fresh, Loading, Starting
  <2>2. /\ pc[p] \in Starting
        /\ UNCHANGED <<vault_file, users, task, status, verdict, history>>
    BY <1>4 DEF CheckKey, CreateKey, WriteKey, Starting
  <2>3. \E label \in {AfterKey(p), "create key", "write key"} :
           pc' = [pc EXCEPT ![p] = label]
    BY <1>4 DEF CheckKey, CreateKey, WriteKey, Goto
  <2>4. QED
    BY <1>3, <1>4, <2>1, <2>2, <2>3
<1>5. CASE p \in Writers /\ Stop(p)
  <2>1. /\ pc[p] # "off" /\ Ended(p) /\ safe' = IF pc[p] = "write" THEN {} ELSE safe
        /\ late' = late \ {p} /\ UNCHANGED <<vault_file, acked, gone>>
    BY <1>5 DEF Stop
  <2>2. QED
    BY <1>0, <1>5, <2>1, EndedStep
<1>6. CASE p \in Writers /\ KeyFails(p)
  <2>1. /\ pc[p] \in Starting /\ late' = late \ {p}
        /\ pc[p] # "off" /\ pc[p] # "write"
        /\ UNCHANGED <<vault_file, acked, gone, safe>>
    BY <1>6 DEF KeyFails, Starting
  <2>2. CASE p \in Managers
    <3>1. late' = late
      BY <1>0, <1>6, <2>1 DEF TypeOK
    <3>2. /\ pc' = [pc EXCEPT ![p] = "load key"]
          /\ UNCHANGED <<users, task, status, verdict, blind>>
      BY <1>6, <2>2 DEF KeyFails, Goto
    <3>3. "load key" \in Fresh
      BY DEF Fresh, Loading
    <3>4. QED
      BY <1>3, <1>6, <2>1, <3>1, <3>2, <3>3
  <2>3. CASE p \notin Managers
    <3>1. Ended(p)
      BY <1>6, <2>3 DEF KeyFails
    <3>2. QED
      BY <1>0, <1>6, <2>1, <3>1, EndedStep
  <2>4. QED
    BY <2>2, <2>3
<1>7. QED
  BY <1>1, <1>2, <1>4, <1>5, <1>6 DEF Program

\* What the vault gives to a writer that reads it covers what is safe.
LEMMA LoadedCovers ==
    ASSUME SInv, NEW p \in Writers, pc[p] \in {"load vault", "reload vault"}
    PROVE  /\ \A u \in safe : u \in DOMAIN Loaded /\ Loaded[u] = acked[u]
           /\ Current(Loaded)
<1>1. \A q \in Writers : pc[q] # "write"
  BY OthersOff
<1>2. \A u \in safe : u \in DOMAIN Loaded /\ Loaded[u] = acked[u]
  BY <1>1 DEF SInv, NothingLost, Loaded
<1>3. Current(Loaded)
  BY MapFacts DEF SInv, DiskIsCurrent, Current, Loaded
<1>4. QED
  BY <1>2, <1>3

\* If what is in the files cannot be read, there is nothing that a save could lose.
LEMMA UnreadHoldsNothing ==
    ASSUME SInv, NEW p \in Writers, CannotRead(p)
    PROVE  safe = {}
<1>1. \A q \in Writers : pc[q] # "write"
  BY OthersOff DEF CannotRead
<1>2. ~IsWhole
  <2>1. TypeOK /\ p \in Programs
    BY DEF SInv, KInv, TInv, Programs
  <2>2. IsWhole => key_file = vault_file.key /\ vault_file.key \in Keys
    BY <2>1
    DEF SInv, KInv, KeyOpensVault, TypeOK, IsWhole, Absent, Empty, Garbled
  <2>3. CASE key_file \notin Keys
    BY <2>2, <2>3
  <2>4. CASE key_file \in Keys
    <3>1. pc[p] \in {"load vault", "reload vault"} /\ ~CanLoad(master_key[p])
      BY <2>4 DEF CannotRead
    <3>2. master_key[p] = key_file
      BY <2>1, <3>1 DEF SInv, KInv, TInv, KeysAgree, ProgramConsistent
    <3>3. QED
      BY <2>2, <3>1, <3>2 DEF CanLoad
  <2>5. QED
    BY <2>3, <2>4
<1>3. QED
  BY <1>1, <1>2 DEF SInv, NothingLost

\* Reading and writing the vault keeps the invariant.
LEMMA WriterKeepsSaved ==
    ASSUME SInv, NEW p \in Writers, Writer(p)
    PROVE  SInv'
<1> USE DEF files, ui, history, Goto, Show
<1>0. /\ KInv' /\ TypeOK /\ p \in Programs /\ p \notin Servers
      /\ Writers \subseteq Programs /\ CopyOK(p)
  BY WriterKeepsKey, ProgramAssumption DEF SInv, KInv, TInv, Programs, Writers
<1>1. pc[p] # "off"
  BY DEF Writer, LoadKey, LoadVault, Truncate, Write, SaveFails
<1>2. \A q \in Writers \ {p} : pc[q] = "off"
  BY <1>1, OthersOff
<1>3. CASE LoadKey(p)
  <2>1. UNCHANGED <<vault_file, users, task, status, verdict, history>>
    BY <1>3 DEF LoadKey
  <2>2. /\ \A q \in Writers \ {p} : pc'[q] = pc[q]
        /\ \/ pc[p] \in Fresh /\ pc'[p] \in Fresh
           \/ pc[p] \in Reloading /\ pc'[p] \in Reloading
    BY <1>0, <1>3 DEF LoadKey, TypeOK, Fresh, Loading, Reloading
  <2>3. pc'[p] # "idle"
    BY <2>2 DEF Fresh, Starting, Loading, Reloading
  <2>4. QED
    BY <1>0, <1>1, <2>1, <2>2, <2>3, QuietStep
<1>4. CASE LoadVault(p)
  <2>1. /\ pc[p] \in {"load vault", "reload vault"}
        /\ UNCHANGED <<vault_file, master_key, task, verdict, acked, gone, late, safe>>
        /\ status' = IF pc[p] = "reload vault"
                     THEN [status EXCEPT ![p] = "reloaded"] ELSE status
    BY <1>4 DEF LoadVault
  <2>2. /\ users' = [users EXCEPT ![p] =
                        IF p \in Tools THEN With(Loaded, task[p].user, task[p].hash)
                                       ELSE Loaded]
        /\ pc' = [pc EXCEPT ![p] = IF p \in Tools THEN "truncate" ELSE "idle"]
    BY <1>4 DEF LoadVault
  <2>3. /\ pc'[p] = IF p \in Tools THEN "truncate" ELSE "idle"
        /\ users'[p] = IF p \in Tools THEN With(Loaded, task[p].user, task[p].hash)
                                      ELSE Loaded
        /\ \A q \in Writers \ {p} :
              /\ pc'[q] = pc[q] /\ users'[q] = users[q] /\ status'[q] = status[q]
    BY <1>0, <2>1, <2>2 DEF TypeOK
  <2>4. status'[p] \in {None, "reloaded"}
    BY <1>0, <2>1 DEF TypeOK, CopyOK, FreshIsEmpty, Fresh, Loading
  <2>5. p \in Tools => task[p].user \notin DOMAIN acked \cup gone
    BY <1>0, <1>1 DEF CopyOK, TaskInDoubt
  <2>6. p \in Tools =>
            /\ DOMAIN users'[p] = DOMAIN Loaded \cup {task[p].user}
            /\ users'[p][task[p].user] = task[p].hash
            /\ \A x \in DOMAIN Loaded \ {task[p].user} : users'[p][x] = Loaded[x]
    BY <2>3 DEF With
  <2>7. p \notin Tools => users'[p] = Loaded
    BY <2>3
  <2>8. FreshIsEmpty(p)' /\ WriteIsOpen(p)'
    BY <2>3 DEF FreshIsEmpty, WriteIsOpen, Fresh, Starting, Loading
  <2>9. BannerIsTrue(p)'
    <3>1. CASE pc[p] = "reload vault"
      <4>1. status'[p] = "reloaded"
        BY <1>0, <2>1, <3>1 DEF TypeOK
      <4>2. QED
        BY <4>1 DEF BannerIsTrue
    <3>2. CASE pc[p] = "load vault"
      <4>1. status'[p] = status[p] /\ status[p] = None
        BY <1>0, <2>1, <3>2 DEF CopyOK, FreshIsEmpty, Fresh, Loading
      <4>2. QED
        BY <4>1, NoneAssumption DEF BannerIsTrue
    <3>3. QED
      BY <2>1, <3>1, <3>2
  <2>10. CopyHolds(p)'
    <3>1. \A u \in safe : u \in DOMAIN Loaded /\ Loaded[u] = acked[u]
      BY <2>1, LoadedCovers
    <3>2. safe \subseteq DOMAIN acked
      BY <1>0 DEF TypeOK
    <3>3. QED
      BY <2>1, <2>5, <2>6, <2>7, <3>1, <3>2 DEF CopyHolds
  <2>11. TaskInDoubt(p)'
    BY <2>1, <2>3, <2>5 DEF TaskInDoubt, Saving
  <2>12. TaskInCopy(p)'
    <3>1. p \in Tools => task[p].hash # None
      BY <1>0, <1>1 DEF SInv, KInv, TInv, ProgramConsistent
    <3>2. QED
      BY <2>1, <2>3, <2>6, <3>1 DEF TaskInCopy, Saving
  <2>13. CopyIsCurrent(p)'
    <3>1. Current(Loaded)
      BY <2>1, LoadedCovers
    <3>2. QED
      BY <2>1, <2>5, <2>6, <2>7, <3>1 DEF CopyIsCurrent, Current
  <2>14. NothingLost'
    <3>1. \A q \in Writers : pc[q] # "write"
      BY <1>2, <2>1
    <3>2. QED
      BY <2>1, <3>1 DEF SInv, NothingLost, IsWhole
  <2>15. DiskIsCurrent' /\ LateIsOutdated'
    BY <2>1 DEF SInv, DiskIsCurrent, Current, LateIsOutdated, Outdated, IsWhole
  <2>16. QED
    BY <1>0, <1>2, <2>3, <2>8, <2>9, <2>10, <2>11, <2>12, <2>13, <2>14, <2>15,
       WriterStep DEF CopyOK
<1>5. CASE Truncate(p)
  <2>1. /\ pc[p] = "truncate" /\ vault_file' = Empty
        /\ UNCHANGED <<users, task, status, verdict, master_key, acked, gone, late>>
        /\ safe' = IF p \in blind THEN {} ELSE safe
    BY <1>5 DEF Truncate
  <2>2. pc'[p] = "write" /\ \A q \in Writers \ {p} : pc'[q] = pc[q]
    BY <1>0, <1>5 DEF Truncate, TypeOK
  <2>3. FreshIsEmpty(p)' /\ WriteIsOpen(p)' /\ BannerIsTrue(p)'
    BY <2>1, <2>2
    DEF FreshIsEmpty, WriteIsOpen, BannerIsTrue, Fresh, Starting, Loading
  <2>4. CopyHolds(p)' /\ TaskInDoubt(p)'
    BY <1>0, <2>1, <2>2 DEF CopyOK, CopyHolds, TaskInDoubt, Holding, Saving
  <2>5. TaskInCopy(p)' /\ CopyIsCurrent(p)'
    BY <1>0, <2>1, <2>2 DEF CopyOK, TaskInCopy, CopyIsCurrent, Current, Saving
  <2>6. NothingLost' /\ DiskIsCurrent'
    BY <2>1, <2>2 DEF NothingLost, DiskIsCurrent, IsWhole, Empty
  <2>7. LateIsOutdated'
    BY <2>1 DEF SInv, LateIsOutdated, Outdated
  <2>8. QED
    BY <1>0, <1>2, <2>1, <2>2, <2>3, <2>4, <2>5, <2>6, <2>7, WriterStep DEF CopyOK
<1>6. CASE Write(p)
  <2>1. /\ pc[p] = "write"
        /\ vault_file' = Whole(master_key[p], users[p])
        /\ Acknowledge(p)
    BY <1>0, <1>6 DEF Write, Written, CopyOK, WriteIsOpen
  <2>2. /\ late' = late
        /\ safe' = IF task[p].hash = None THEN safe \ {task[p].user}
                   ELSE safe \cup {task[p].user}
        /\ acked' = IF task[p].hash = None THEN Without(acked, task[p].user)
                    ELSE With(acked, task[p].user, task[p].hash)
        /\ gone' = IF task[p].hash = None THEN gone \cup {task[p].user}
                   ELSE gone \ {task[p].user}
    BY <2>1 DEF Acknowledge
  <2>3. /\ \A u \in safe : u \in DOMAIN users[p] /\ users[p][u] = acked[u]
        /\ safe \subseteq DOMAIN acked
        /\ task[p].user \notin DOMAIN acked /\ task[p].user \notin gone
        /\ IF task[p].hash = None THEN task[p].user \notin DOMAIN users[p]
           ELSE /\ task[p].user \in DOMAIN users[p]
                /\ users[p][task[p].user] = task[p].hash
        /\ Current(users[p])
    BY <1>0, <2>1
    DEF CopyOK, CopyHolds, TaskInDoubt, TaskInCopy, CopyIsCurrent, Current, Holding,
        Saving, TypeOK
  <2>4. \A u \in safe' : u \in DOMAIN users[p] /\ users[p][u] = acked'[u]
    <3>1. CASE task[p].hash = None
      <4>1. /\ DOMAIN acked' = DOMAIN acked \ {task[p].user}
            /\ \A x \in DOMAIN acked \ {task[p].user} : acked'[x] = acked[x]
        BY <2>2, <3>1 DEF Without
      <4>2. QED
        BY <2>2, <2>3, <3>1, <4>1
    <3>2. CASE task[p].hash # None
      <4>1. /\ DOMAIN acked' = DOMAIN acked \cup {task[p].user}
            /\ acked'[task[p].user] = task[p].hash
            /\ \A x \in DOMAIN acked \ {task[p].user} : acked'[x] = acked[x]
        BY <2>2, <3>2 DEF With
      <4>2. QED
        BY <2>2, <2>3, <3>2, <4>1
    <3>3. QED
      BY <3>1, <3>2
  <2>5. \A x \in DOMAIN acked \cup DOMAIN acked' : x # task[p].user =>
           x \in DOMAIN acked /\ x \in DOMAIN acked' /\ acked'[x] = acked[x]
    BY <2>2 DEF With, Without
  <2>6. \A u \in DOMAIN users[p] :
            u \notin gone' /\ (u \in DOMAIN acked' => users[p][u] = acked'[u])
    <3>1. ASSUME NEW u \in DOMAIN users[p]
          PROVE  u \notin gone' /\ (u \in DOMAIN acked' => users[p][u] = acked'[u])
      <4>1. u \notin gone /\ (u \in DOMAIN acked => users[p][u] = acked[u])
        BY <2>3, <3>1 DEF Current
      <4>2. CASE u = task[p].user
        BY <2>2, <2>3, <4>2 DEF With
      <4>3. CASE u # task[p].user
        <5>1. u \in DOMAIN acked' => u \in DOMAIN acked /\ acked'[u] = acked[u]
          BY <2>5, <4>3
        <5>2. u \notin gone'
          BY <2>2, <4>1, <4>3
        <5>3. QED
          BY <4>1, <5>1, <5>2
      <4>4. QED
        BY <4>2, <4>3
    <3>2. QED
      BY <3>1
  <2>7. /\ IsWhole' /\ vault_file'.users = users[p]
    BY <2>1 DEF IsWhole, Whole
  <2>8. NothingLost' /\ DiskIsCurrent'
    BY <2>2, <2>4, <2>6, <2>7 DEF NothingLost, DiskIsCurrent, Current
  <2>9. LateIsOutdated'
    <3>1. \A s \in late : s \in Programs /\ s # p
      BY <1>0 DEF TypeOK, Programs
    <3>2. \A s \in Programs \ {p} : task'[s] = task[s] /\ verdict'[s] = verdict[s]
      BY <1>0, <1>6 DEF Write, Ended, AfterWrite, TypeOK
    <3>3. ASSUME NEW s \in late
          PROVE  Outdated(task[s].user, task[s].hash)' /\ verdict'[s] # "accepted"
      <4>1. Outdated(task[s].user, task[s].hash) /\ verdict[s] # "accepted"
        BY DEF SInv, LateIsOutdated
      <4>2. task[s].user # task[p].user
        BY <2>3, <4>1 DEF Outdated
      <4>3. /\ task[s].user \in gone => task[s].user \in gone'
            /\ task[s].user \in DOMAIN acked =>
                  /\ task[s].user \in DOMAIN acked'
                  /\ acked'[task[s].user] = acked[task[s].user]
        BY <2>2, <2>5, <4>2
      <4>4. task'[s] = task[s] /\ verdict'[s] = verdict[s]
        BY <3>1, <3>2
      <4>5. QED
        BY <4>1, <4>3, <4>4 DEF Outdated
    <3>4. QED
      BY <2>2, <3>3 DEF LateIsOutdated
  <2>10. CASE p \in Tools
    <3>1. Ended(p)
      BY <1>6, <2>10 DEF Write
    <3>2. /\ pc'[p] = "off" /\ users'[p] = NoUsers /\ status'[p] = None
          /\ \A q \in Writers \ {p} :
                /\ pc'[q] = pc[q] /\ users'[q] = users[q] /\ status'[q] = status[q]
      BY <1>0, <3>1 DEF Ended, TypeOK
    <3>3. FreshIsEmpty(p)' /\ WriteIsOpen(p)' /\ BannerIsTrue(p)'
      BY <3>2 DEF FreshIsEmpty, WriteIsOpen, BannerIsTrue
    <3>4. CopyHolds(p)' /\ TaskInDoubt(p)' /\ TaskInCopy(p)'
      BY <3>2 DEF CopyHolds, TaskInDoubt, TaskInCopy, Holding, Reloading, Saving
    <3>5. CopyIsCurrent(p)'
      BY <3>2, MapFacts DEF CopyIsCurrent, Current
    <3>6. QED
      BY <1>0, <1>2, <2>8, <2>9, <3>2, <3>3, <3>4, <3>5, WriterStep DEF CopyOK
  <2>11. CASE p \notin Tools
    <3>1. AfterWrite(p)
      BY <1>6, <2>11 DEF Write
    <3>2. users' = users /\ master_key' = master_key
      BY <3>1 DEF AfterWrite
    <3>3. /\ pc'[p] = "idle"
          /\ \A q \in Writers \ {p} : pc'[q] = pc[q] /\ status'[q] = status[q]
      BY <1>0, <3>1 DEF AfterWrite, TypeOK
    <3>4. FreshIsEmpty(p)' /\ WriteIsOpen(p)' /\ BannerIsTrue(p)'
      BY <2>1, <3>2, <3>3
      DEF FreshIsEmpty, WriteIsOpen, BannerIsTrue, Fresh, Starting, Loading
    <3>5. CopyHolds(p)' /\ CopyIsCurrent(p)'
      BY <2>2, <2>4, <2>6, <3>2 DEF CopyHolds, CopyIsCurrent, Current
    <3>6. TaskInDoubt(p)' /\ TaskInCopy(p)'
      BY <2>11, <3>3 DEF TaskInDoubt, TaskInCopy, Saving
    <3>7. QED
      BY <1>0, <1>2, <2>8, <2>9, <3>2, <3>3, <3>4, <3>5, <3>6, WriterStep DEF CopyOK
  <2>12. QED
    BY <2>10, <2>11
<1>7. CASE SaveFails(p)
  <2>1. /\ pc[p] \in Saving
        /\ vault_file' = vault_file \/ (vault_file' = Garbled /\ pc[p] = "write")
        /\ safe' = IF pc[p] = "write" THEN {} ELSE safe
        /\ UNCHANGED <<acked, gone, late>>
    BY <1>7 DEF SaveFails, Saving
  <2>2. CASE p \in Tools
    <3>1. Ended(p)
      BY <1>7, <2>2 DEF SaveFails
    <3>2. QED
      BY <1>0, <1>1, <2>1, <3>1, EndedStep
  <2>3. CASE p \notin Tools
    <3>1. /\ status' = [status EXCEPT ![p] = "failed"]
          /\ task' = [task EXCEPT ![p] = NoTask]
          /\ pc' = [pc EXCEPT ![p] = "idle"]
          /\ users' = users /\ verdict' = verdict /\ blind' = blind
      BY <1>7, <2>3 DEF SaveFails
    <3>2. /\ pc'[p] = "idle" /\ status'[p] = "failed"
          /\ \A q \in Writers \ {p} : pc'[q] = pc[q] /\ status'[q] = status[q]
      BY <1>0, <3>1 DEF TypeOK
    <3>3. FreshIsEmpty(p)' /\ WriteIsOpen(p)' /\ BannerIsTrue(p)'
      BY <3>2 DEF FreshIsEmpty, WriteIsOpen, BannerIsTrue, Fresh, Starting, Loading
    <3>4. CopyHolds(p)' /\ CopyIsCurrent(p)'
      BY <1>0, <2>1, <3>1 DEF CopyOK, CopyHolds, CopyIsCurrent, Current, Holding
    <3>5. TaskInDoubt(p)' /\ TaskInCopy(p)'
      BY <2>3, <3>2 DEF TaskInDoubt, TaskInCopy, Saving
    <3>6. NothingLost'
      <4>1. CASE pc[p] = "write"
        BY <2>1, <4>1 DEF NothingLost
      <4>2. CASE pc[p] # "write"
        <5>1. /\ vault_file' = vault_file /\ safe' = safe
              /\ \A q \in Writers : pc[q] # "write"
          BY <1>2, <2>1, <4>2
        <5>2. QED
          BY <2>1, <5>1 DEF SInv, NothingLost, IsWhole
      <4>3. QED
        BY <4>1, <4>2
    <3>7. DiskIsCurrent'
      BY <2>1 DEF SInv, DiskIsCurrent, Current, IsWhole, Garbled
    <3>8. LateIsOutdated'
      <4>1. \A s \in late : s \in Programs /\ s # p
        BY <1>0 DEF TypeOK, Programs
      <4>2. \A s \in Programs \ {p} : task'[s] = task[s]
        BY <1>0, <3>1 DEF TypeOK
      <4>3. QED
        BY <2>1, <3>1, <4>1, <4>2 DEF SInv, LateIsOutdated, Outdated
    <3>9. QED
      BY <1>0, <1>2, <3>1, <3>2, <3>3, <3>4, <3>5, <3>6, <3>7, <3>8, WriterStep
      DEF CopyOK
  <2>4. QED
    BY <2>2, <2>3
<1>8. QED
  BY <1>3, <1>4, <1>5, <1>6, <1>7 DEF Writer

\* When a change begins, its account is in doubt and all that is known of the others
\* stays known.
LEMMA DoubtFacts ==
    ASSUME NEW u, Doubt(u)
    PROVE  /\ DOMAIN acked' = DOMAIN acked \ {u}
           /\ \A x \in DOMAIN acked' : acked'[x] = acked[x]
           /\ gone' = gone \ {u}
           /\ late' = {s \in late : task[s].user # u}
           /\ safe' = safe \ {u} /\ blind' = blind
  BY DEF Doubt, Without

\* The start of a change at writer p keeps what the logins rely on.
LEMMA DoubtKeepsLate ==
    ASSUME SInv, NEW p \in Writers, NEW u, Doubt(u), verdict' = verdict,
           \A s \in Programs \ {p} : task'[s] = task[s]
    PROVE  LateIsOutdated'
<1>1. \A s \in late : s \in Programs /\ s # p
  BY ProgramAssumption
  DEF SInv, KInv, TInv, TypeOK, Programs, Writers
<1>2. /\ gone' = gone \ {u}
      /\ late' = {s \in late : task[s].user # u}
  BY DEF Doubt
<1>3. \A s \in late : Outdated(task[s].user, task[s].hash) /\ verdict[s] # "accepted"
  BY DEF SInv, LateIsOutdated
<1>4. ASSUME NEW s \in late, task[s].user # u
      PROVE  Outdated(task[s].user, task[s].hash)'
  <2>1. task'[s] = task[s] /\ Outdated(task[s].user, task[s].hash)
    BY <1>1, <1>3
  <2>2. task[s].user \in gone => task[s].user \in gone'
    BY <1>2, <1>4
  <2>3. task[s].user \in DOMAIN acked =>
           /\ task[s].user \in DOMAIN acked'
           /\ acked'[task[s].user] = acked[task[s].user]
    BY <1>4, DoubtFacts
  <2>4. QED
    BY <2>1, <2>2, <2>3 DEF Outdated
<1>5. QED
  BY <1>2, <1>3, <1>4 DEF LateIsOutdated

\* What the operator does at a manager keeps the invariant.
LEMMA ManagerKeepsSaved ==
    ASSUME SInv, NEW m \in Managers, Manager(m)
    PROVE  SInv'
<1> USE DEF files, ui, history, Goto, Show
<1>0. /\ KInv' /\ TypeOK /\ m \in Writers /\ m \notin Tools
      /\ Writers \subseteq Programs /\ CopyOK(m)
  BY ManagerKeepsKey, ProgramAssumption DEF SInv, KInv, TInv, Programs, Writers
<1>1. ASSUME pc[m] = "idle",
             UNCHANGED <<vault_file, users, task, verdict, master_key, history>>,
             pc' = pc \/ pc' = [pc EXCEPT ![m] = "reload key"],
             \/ status' = status
             \/ \E message \in {None, "refused"} :
                   status' = [status EXCEPT ![m] = message]
      PROVE  SInv'
  <2>1. pc[m] # "off" /\ pc[m] \in Holding
    BY <1>1 DEF Holding
  <2>2. /\ \A q \in Writers \ {m} : pc'[q] = pc[q] /\ status'[q] = status[q]
        /\ pc'[m] \in {"idle"} \cup Reloading
    BY <1>0, <1>1 DEF TypeOK, Reloading
  <2>3. status'[m] = status[m] \/ status'[m] \notin {"saved", "deleted"}
    BY <1>0, <1>1, NoneAssumption DEF TypeOK
  <2>4. QED
    BY <1>0, <1>1, <2>1, <2>2, <2>3, QuietStep
<1>2. CASE ReloadVault(m) \/ StatusExpires(m) \/ SaveRefused(m) \/ DeleteRefused(m)
  BY <1>1, <1>2 DEF ReloadVault, StatusExpires, SaveRefused, DeleteRefused
<1>3. CASE \/ ResetForm(m) \/ CancelDelete(m)
           \/ \E u \in Users : EditUser(m, u) \/ TypeName(m, u) \/ ClickDelete(m, u)
           \/ \E hash \in Hashes : TypePassword(m, hash)
  BY <1>1, <1>3
  DEF ResetForm, CancelDelete, EditUser, TypeName, ClickDelete, TypePassword, Fill,
      SetPending
<1>4. CASE LoadFails(m)
  <2>1. /\ CannotRead(m) \/ ReadFails(m)
        /\ pc' = [pc EXCEPT ![m] = "idle"]
        /\ \E message \in {"failed", "reloaded"} :
              status' = [status EXCEPT ![m] = message]
        /\ blind' = IF pc[m] \in Reloading \/ CannotRead(m) THEN blind
                    ELSE blind \cup {m}
        /\ UNCHANGED <<vault_file, users, task, verdict, acked, gone, late, safe>>
    BY <1>4 DEF LoadFails, Reloading
  <2>2. /\ pc[m] # "off"
        /\ pc[m] \in Reloading \cup Loading
    BY <2>1 DEF CannotRead, ReadFails, Reloading, Loading
  <2>3. \A q \in Writers \ {m} : pc[q] = "off"
    BY <1>0, <2>2, OthersOff
  <2>4. /\ pc'[m] = "idle" /\ status'[m] \in {"failed", "reloaded"}
        /\ \A q \in Writers \ {m} : pc'[q] = pc[q] /\ status'[q] = status[q]
    BY <1>0, <2>1 DEF TypeOK
  <2>5. FreshIsEmpty(m)' /\ WriteIsOpen(m)' /\ BannerIsTrue(m)'
    BY <2>4 DEF FreshIsEmpty, WriteIsOpen, BannerIsTrue, Fresh, Starting, Loading
  <2>6. CopyHolds(m)'
    <3>1. CASE CannotRead(m)
      BY <1>0, <2>1, <3>1, UnreadHoldsNothing DEF CopyHolds
    <3>2. CASE pc[m] \in Reloading
      BY <1>0, <2>1, <2>4, <3>2 DEF CopyOK, CopyHolds, Holding
    <3>3. CASE ~CannotRead(m) /\ pc[m] \notin Reloading
      <4>1. m \in blind'
        BY <2>1, <3>3
      <4>2. QED
        BY <2>4, <4>1 DEF CopyHolds
    <3>4. QED
      BY <3>1, <3>2, <3>3
  <2>8. TaskInDoubt(m)' /\ TaskInCopy(m)'
    BY <1>0, <2>4 DEF TaskInDoubt, TaskInCopy, Saving
  <2>9. CopyIsCurrent(m)'
    BY <1>0, <2>1 DEF CopyOK, CopyIsCurrent, Current
  <2>10. NothingLost'
    <3>1. \A q \in Writers : pc[q] # "write"
      BY <2>2, <2>3 DEF Reloading, Loading
    <3>2. QED
      BY <2>1, <3>1 DEF SInv, NothingLost, IsWhole
  <2>11. DiskIsCurrent' /\ LateIsOutdated'
    BY <2>1 DEF SInv, DiskIsCurrent, Current, LateIsOutdated, Outdated, IsWhole
  <2>12. QED
    BY <1>0, <2>1, <2>3, <2>4, <2>5, <2>6, <2>8, <2>9, <2>10, <2>11, WriterStep
    DEF CopyOK
<1>5. ASSUME NEW u, NEW hash, NEW map, Doubt(u),
             pc[m] = "idle",
             users' = [users EXCEPT ![m] = map],
             task' = [task EXCEPT ![m] = [user |-> u, hash |-> hash]],
             pc' = [pc EXCEPT ![m] = "truncate"],
             UNCHANGED <<vault_file, status, verdict>>,
             \A x \in DOMAIN users[m] \ {u} : x \in DOMAIN map /\ map[x] = users[m][x],
             DOMAIN map \subseteq DOMAIN users[m] \cup {u},
             IF hash = None THEN u \notin DOMAIN map
                            ELSE u \in DOMAIN map /\ map[u] = hash
      PROVE  SInv'
  <2>1. \A q \in Writers \ {m} : pc[q] = "off"
    BY <1>0, <1>5, OthersOff
  <2>2. /\ pc'[m] = "truncate" /\ users'[m] = map
        /\ task'[m].user = u /\ task'[m].hash = hash
        /\ \A q \in Writers \ {m} :
              /\ pc'[q] = pc[q] /\ users'[q] = users[q] /\ status'[q] = status[q]
        /\ \A s \in Programs \ {m} : task'[s] = task[s]
    BY <1>0, <1>5 DEF TypeOK
  <2>3. /\ DOMAIN acked' = DOMAIN acked \ {u}
        /\ \A x \in DOMAIN acked' : acked'[x] = acked[x]
        /\ gone' = gone \ {u}
        /\ safe' = safe \ {u} /\ blind' = blind
        /\ safe \subseteq DOMAIN acked
    BY <1>0, <1>5, DoubtFacts DEF TypeOK
  <2>4. FreshIsEmpty(m)' /\ WriteIsOpen(m)' /\ BannerIsTrue(m)'
    BY <2>2 DEF FreshIsEmpty, WriteIsOpen, BannerIsTrue, Fresh, Starting, Loading
  <2>5. CopyHolds(m)'
    <3>1. m \notin blind => \A x \in safe :
                              x \in DOMAIN users[m] /\ users[m][x] = acked[x]
      BY <1>0, <1>5 DEF CopyOK, CopyHolds, Holding
    <3>2. QED
      BY <1>5, <2>2, <2>3, <3>1 DEF CopyHolds
  <2>6. TaskInDoubt(m)' /\ TaskInCopy(m)'
    BY <1>5, <2>2, <2>3 DEF TaskInDoubt, TaskInCopy
  <2>7. CopyIsCurrent(m)'
    BY <1>0, <1>5, <2>2, <2>3 DEF CopyOK, CopyIsCurrent, Current
  <2>8. NothingLost'
    <3>1. \A q \in Writers : pc[q] # "write"
      BY <1>5, <2>1
    <3>2. QED
      BY <1>5, <2>3, <3>1 DEF SInv, NothingLost, IsWhole
  <2>9. DiskIsCurrent'
    BY <1>5, <2>3 DEF SInv, DiskIsCurrent, Current, IsWhole
  <2>10. LateIsOutdated'
    BY <1>0, <1>5, <2>2, DoubtKeepsLate
  <2>11. QED
    BY <1>0, <2>1, <2>2, <2>4, <2>5, <2>6, <2>7, <2>8, <2>9, <2>10, WriterStep
    DEF CopyOK
<1>6. CASE HandleSave(m)
  <2> DEFINE u == form[m].username
             hash == IF form[m].password = None THEN users[m][form[m].editing]
                                                ELSE form[m].password
             map == With(users[m], u, hash)
  <2>1. /\ Doubt(u) /\ pc[m] = "idle"
        /\ users' = [users EXCEPT ![m] = map]
        /\ task' = [task EXCEPT ![m] = [user |-> u, hash |-> hash]]
        /\ pc' = [pc EXCEPT ![m] = "truncate"]
        /\ UNCHANGED <<vault_file, status, verdict>>
    BY <1>6 DEF HandleSave
  <2>2. hash # None
    <3>1. CASE form[m].password # None
      BY <3>1
    <3>2. CASE form[m].password = None
      <4>1. form[m].editing \in DOMAIN users[m] /\ users[m] \in Maps
        BY <1>0, <1>6, <3>2 DEF HandleSave, CanSave, TypeOK
      <4>2. users[m][form[m].editing] \in Hashes
        BY <4>1, MapTypes
      <4>3. QED
        BY <3>2, <4>2, NoneAssumption
    <3>3. QED
      BY <3>1, <3>2
  <2> HIDE DEF u, hash
  <2>3. /\ DOMAIN map = DOMAIN users[m] \cup {u}
        /\ map[u] = hash
        /\ \A x \in DOMAIN users[m] \ {u} : map[x] = users[m][x]
    BY DEF With
  <2> HIDE DEF map
  <2>4. QED
    BY <1>5, <2>1, <2>2, <2>3
<1>7. CASE HandleDelete(m)
  <2> DEFINE u == pending_delete[m]
             map == Without(users[m], u)
  <2>1. /\ Doubt(u) /\ pc[m] = "idle"
        /\ users' = [users EXCEPT ![m] = map]
        /\ task' = [task EXCEPT ![m] = [user |-> u, hash |-> None]]
        /\ pc' = [pc EXCEPT ![m] = "truncate"]
        /\ UNCHANGED <<vault_file, status, verdict>>
    BY <1>7 DEF HandleDelete
  <2> HIDE DEF u
  <2>2. /\ DOMAIN map = DOMAIN users[m] \ {u}
        /\ \A x \in DOMAIN users[m] \ {u} : map[x] = users[m][x]
    BY DEF Without
  <2> HIDE DEF map
  <2>3. QED
    BY <1>5, <2>1, <2>2
<1>8. QED
  BY <1>2, <1>3, <1>4, <1>6, <1>7 DEF Manager

\* A call of add_user_to_vault keeps the invariant.
LEMMA ToolKeepsSaved ==
    ASSUME OneAtATime, SInv, NEW p \in Tools, Tool(p)
    PROVE  SInv'
<1> USE DEF files, ui, history, Goto
<1>0. /\ KInv' /\ TypeOK /\ p \in Writers /\ p \notin Managers
      /\ Writers \subseteq Programs /\ CopyOK(p)
  BY ToolKeepsKey, ProgramAssumption, NextKey
  DEF SInv, KInv, TInv, Programs, Writers
<1>1. ASSUME NEW u \in Users, NEW hash \in Hashes, AddUser(p, u, hash)
      PROVE  SInv'
  <2>1. /\ \A q \in Writers : pc[q] = "off"
        /\ Doubt(u)
        /\ pc' = [pc EXCEPT ![p] = "check key"]
        /\ task' = [task EXCEPT ![p] = [user |-> u, hash |-> hash]]
        /\ UNCHANGED <<vault_file, users, status, verdict>>
    BY <1>0, <1>1 DEF AddUser, MayStart
  <2>2. /\ pc'[p] = "check key" /\ task'[p].user = u
        /\ \A q \in Writers \ {p} : pc'[q] = pc[q]
        /\ \A s \in Programs \ {p} : task'[s] = task[s]
    BY <1>0, <2>1 DEF TypeOK
  <2>3. /\ DOMAIN acked' = DOMAIN acked \ {u}
        /\ \A x \in DOMAIN acked' : acked'[x] = acked[x]
        /\ gone' = gone \ {u}
        /\ safe' = safe \ {u} /\ blind' = blind
        /\ safe \subseteq DOMAIN acked
    BY <1>0, <2>1, DoubtFacts DEF TypeOK
  <2>4. users[p] = NoUsers /\ status[p] = None
    BY <1>0, <2>1 DEF CopyOK, FreshIsEmpty, Fresh
  <2>5. FreshIsEmpty(p)' /\ WriteIsOpen(p)' /\ BannerIsTrue(p)'
    BY <2>1, <2>2, <2>4 DEF FreshIsEmpty, WriteIsOpen, BannerIsTrue
  <2>6. CopyHolds(p)' /\ TaskInCopy(p)'
    BY <2>2 DEF CopyHolds, TaskInCopy, Holding, Reloading, Saving
  <2>7. TaskInDoubt(p)'
    BY <2>2, <2>3 DEF TaskInDoubt
  <2>8. CopyIsCurrent(p)'
    BY <2>1, <2>4, MapFacts DEF CopyIsCurrent, Current
  <2>9. NothingLost'
    BY <2>1, <2>3 DEF SInv, NothingLost, IsWhole
  <2>10. DiskIsCurrent'
    BY <2>1, <2>3 DEF SInv, DiskIsCurrent, Current, IsWhole
  <2>11. LateIsOutdated'
    BY <1>0, <2>1, <2>2, DoubtKeepsLate
  <2>12. QED
    BY <1>0, <2>1, <2>2, <2>5, <2>6, <2>7, <2>8, <2>9, <2>10, <2>11, WriterStep
    DEF CopyOK
<1>2. CASE AddUserFails(p)
  <2>1. /\ Ended(p) /\ (CannotRead(p) \/ ReadFails(p))
        /\ UNCHANGED <<vault_file, acked, gone, late, safe>>
    BY <1>2 DEF AddUserFails
  <2>2. pc[p] # "off" /\ pc[p] # "write"
    BY <2>1 DEF CannotRead, ReadFails
  <2>3. QED
    BY <1>0, <2>1, <2>2, EndedStep
<1>3. QED
  BY <1>1, <1>2 DEF Tool

\* An outdated login finds no account that would accept it, whatever state the file
\* is in.
LEMMA ServerKeepsSaved ==
    ASSUME SInv, NEW s \in Servers, Server(s)
    PROVE  SInv'
<1> USE DEF files, ui, history, Goto
<1>0. /\ KInv' /\ TypeOK /\ s \in Programs /\ s \notin Writers
      /\ Writers \subseteq Programs /\ late \subseteq Programs
  BY ServerKeepsKey, ProgramAssumption
  DEF SInv, KInv, TInv, TypeOK, Programs, Writers
<1>1. /\ UNCHANGED <<vault_file, acked, gone, safe, blind, users, status>>
      /\ \A q \in Programs \ {s} :
            /\ pc'[q] = pc[q] /\ task'[q] = task[q]
            /\ master_key'[q] = master_key[q] /\ verdict'[q] = verdict[q]
  BY <1>0 DEF Server, Login, LoginKey, LoginVault, TypeOK
<1>2. ASSUME NEW u \in Users, NEW hash \in Hashes, Login(s, u, hash)
      PROVE  LateIsOutdated'
  <2>1. /\ task'[s].user = u /\ task'[s].hash = hash /\ verdict'[s] = None
        /\ late' = IF Outdated(u, hash) THEN late \cup {s} ELSE late \ {s}
    BY <1>0, <1>2 DEF Login, TypeOK
  <2>2. QED
    BY <1>0, <1>1, <2>1, NoneAssumption DEF SInv, LateIsOutdated, Outdated
<1>3. CASE LoginKey(s)
  <2>1. /\ task' = task /\ late' = late
        /\ verdict'[s] \in {verdict[s], "denied"}
    BY <1>0, <1>3 DEF LoginKey, TypeOK
  <2>2. LateIsOutdated'
    BY <1>0, <1>1, <2>1 DEF SInv, LateIsOutdated, Outdated
  <2>3. QED
    BY <1>0, <1>1, <2>2, ServerStep
<1>4. CASE LoginVault(s)
  <2>1. /\ task' = task /\ late' = late
        /\ verdict'[s] = "accepted" =>
              task[s].user \in DOMAIN Loaded /\ Loaded[task[s].user] = task[s].hash
    BY <1>0, <1>4 DEF LoginVault, TypeOK
  <2>2. Current(Loaded)
    BY MapFacts DEF SInv, DiskIsCurrent, Current, Loaded
  <2>3. LateIsOutdated'
    BY <1>0, <1>1, <2>1, <2>2 DEF SInv, LateIsOutdated, Outdated, Current
  <2>4. QED
    BY <1>0, <1>1, <2>3, ServerStep
<1>5. ASSUME NEW u \in Users, NEW hash \in Hashes, Login(s, u, hash)
      PROVE  SInv'
  BY <1>0, <1>1, <1>2, <1>5, ServerStep
<1>6. QED
  BY <1>3, <1>4, <1>5 DEF Server

\* The invariant of the files and the copies is kept by every step.
LEMMA NextSaved == OneAtATime /\ SInv /\ [Next]_vars => SInv'
<1> SUFFICES ASSUME OneAtATime, SInv, [Next]_vars
             PROVE  SInv'
  OBVIOUS
<1>1. CASE Next
  BY <1>1, ProgramKeepsSaved, WriterKeepsSaved, ManagerKeepsSaved, ToolKeepsSaved,
     ServerKeepsSaved DEF Next
<1>2. CASE UNCHANGED vars
  <2>1. KInv'
    BY <1>2, NextKey DEF SInv
  <2>2. /\ UNCHANGED <<vault_file, acked, gone, safe, blind, late, verdict>>
        /\ UNCHANGED <<pc, users, status, task, master_key>>
    BY <1>2 DEF vars, files, ui, history
  <2>3. LateIsOutdated'
    BY <2>2 DEF SInv, LateIsOutdated, Outdated
  <2>4. QED
    BY <2>1, <2>2, <2>3, ServerStep
<1>3. QED
  BY <1>1, <1>2

\* With one writer at a time SInv holds throughout.
LEMMA SavedInvariance == ASSUME OneAtATime PROVE Spec => []SInv
<1>1. SInv /\ [Next]_vars => SInv'
  BY NextSaved
<1>2. QED
  BY <1>1, InitSaved, PTL DEF Spec

\* With one writer at a time, the banners of gui.rs about a save or a deletion are
\* true of the file for as long as they show.
THEOREM BannersAreTrue == ASSUME OneAtATime PROVE Spec => []SuccessMeansSaved
<1>1. SInv => SuccessMeansSaved
  BY DEF SInv, CopyOK, BannerIsTrue, SuccessMeansSaved, Writers
<1>2. QED
  BY <1>1, SavedInvariance, PTL

\* With one writer at a time, failed saves, failed reloads and kills between any two
\* steps lose no acknowledged account, unless a write was cut off or a manager saved
\* after its first reading of the files had failed.
THEOREM SavedIsSaved == ASSUME OneAtATime PROVE Spec => []NothingLost
<1>1. SInv => NothingLost
  BY DEF SInv
<1>2. QED
  BY <1>1, SavedInvariance, PTL

\* With one writer at a time, an edit that leaves the password alone saves the one that
\* was last acknowledged, whatever happened since the form was opened.
THEOREM EditsKeepPasswords == ASSUME OneAtATime PROVE Spec => []EditKeepsPassword
<1>1. SInv => EditKeepsPassword
  <2>1. SUFFICES ASSUME SInv, NEW m \in Managers,
                        CanSave(m), form[m].password = None
                 PROVE  LET u == form[m].editing
                        IN  u \notin gone /\ (u \in DOMAIN acked => users[m][u] = acked[u])
    BY DEF EditKeepsPassword
  <2>2. form[m].editing \in DOMAIN users[m]
    BY <2>1 DEF CanSave
  <2>3. Current(users[m])
    BY <2>1 DEF SInv, CopyOK, CopyIsCurrent, Writers
  <2>4. QED
    BY <2>2, <2>3 DEF Current
<1>2. QED
  BY <1>1, SavedInvariance, PTL

\* With one writer at a time, a login that begins after the deletion of its user, or a
\* change of the password, was acknowledged is never accepted, cut writes included.
THEOREM OutdatedStaysOut == ASSUME OneAtATime PROVE Spec => []OutdatedCannotLogIn
<1>1. SInv => OutdatedCannotLogIn
  BY DEF SInv, LateIsOutdated, OutdatedCannotLogIn
<1>2. QED
  BY <1>1, SavedInvariance, PTL
===============================================================================
