-------------------------------- MODULE Vault --------------------------------
(***************************************************************************)
(* The credential vault of vault.rs and the programs that share it through *)
(* two files of a working directory, master.key and credentials.vault:     *)
(* the vault manager of bin/gui.rs, which keeps a cache of the accounts    *)
(* and saves all of it, callers of add_user_to_vault, and servers, which   *)
(* read both files at every NTLM login.  There is no lock.  A file is      *)
(* rewritten in place, by a truncation and a write, and a program may be   *)
(* killed between any two steps.                                           *)
(*                                                                         *)
(* A file that is read is read in one step.  The authenticated encryption  *)
(* makes any other content than a whole vault under the right key an       *)
(* error.  An account is its NT hash: domain and level travel with it.     *)
(***************************************************************************)
EXTENDS FiniteSets

CONSTANTS
    Managers,      \* vault manager programs
    Tools,         \* callers of add_user_to_vault
    Servers,       \* server programs, with one NTLM login each
    Users,         \* user names, as keys of the map: trimmed and in lower case
    Hashes,        \* NT hashes, one for each password
    Keys,          \* the 32-byte keys that getrandom may return
    None,
    OneAtATime,    \* do operators start programs and edit one after the other?
    CanFail        \* may creating, reading or writing a file fail?

ASSUME NoneAssumption ==
    None \notin Users \cup Hashes \cup Keys \cup {"saved", "deleted", "accepted"}

ASSUME FlagAssumption == OneAtATime \in BOOLEAN /\ CanFail \in BOOLEAN

ASSUME ProgramAssumption ==
    /\ Managers \cap Tools = {}
    /\ Servers \cap (Managers \cup Tools) = {}

Writers == Managers \cup Tools
Programs == Writers \cup Servers

VARIABLES
    key_file,      \* master.key: Absent, Empty or a key
    vault_file,    \* credentials.vault: Absent, Empty, Garbled or Whole
    pc,            \* pc[p]: where program p is
    drawn,         \* drawn[p]: the key p has generated and not written yet
    master_key,    \* master_key[p]: the key p has read, or None
    users,         \* users[p]: the accounts p has read and changed
    task,          \* task[p]: the account p changes, and its hash (None: delete)
    status,        \* status[m]: the status banner of manager m
    form,          \* form[m]: the edit form of manager m
    pending_delete,\* pending_delete[m]: the user of the confirmation banner
    verdict,       \* verdict[s]: how the login of server s ended
    acked,         \* history: accounts whose last change was acknowledged
    gone,          \* history: users whose last change is an acknowledged delete
    late,          \* history: servers whose login was outdated when it began
    blind,         \* history: managers that could not read files in good order at
                   \* their start, and have not loaded or saved the vault since
    safe           \* history: users with an acknowledged account, nothing having
                   \* put it at risk since

files == <<key_file, vault_file>>
ui == <<status, form, pending_delete>>
history == <<acked, gone, late, blind, safe>>
vars == <<files, pc, drawn, master_key, users, task, ui, verdict, history>>

-------------------------------------------------------------------------------
(* The files. *)

Absent == [kind |-> "absent"]
Empty == [kind |-> "empty"]        \* truncated
Garbled == [kind |-> "garbled"]    \* one write over another
Whole(key, map) == [kind |-> "whole", key |-> key, users |-> map]

ASSUME FileAssumption == Absent \notin Keys /\ Empty \notin Keys

Maps == UNION {[U -> Hashes] : U \in SUBSET Users}
NoUsers == [u \in {} |-> None]

\* Mutant: the account is put into a map of its own.
WithOnly(map, u, hash) == [x \in {u} |-> hash]

\* Mutant: an account that exists keeps its hash.
WithKeepingOld(map, u, hash) ==
    [x \in DOMAIN map \cup {u} |-> IF x \in DOMAIN map THEN map[x] ELSE hash]

With(map, u, hash) ==
    [x \in DOMAIN map \cup {u} |-> IF x = u THEN hash ELSE map[x]]
Without(map, u) == [x \in DOMAIN map \ {u} |-> map[x]]

IsWhole == vault_file.kind = "whole"

\* load_and_decrypt_vault: no file is an empty vault, and a file that is cut
\* off, garbled or encrypted under another key is an error.
CanLoad(key) == vault_file = Absent \/ (IsWhole /\ vault_file.key = key)
Loaded == IF IsWhole THEN vault_file.users ELSE NoUsers

\* What write_all leaves.  Into a file that another program has written since
\* it was truncated, the bytes go over the other's.
Written(whole) == IF vault_file = Empty THEN {whole} ELSE {whole, Garbled}

NoTask == [user |-> None, hash |-> None]

BlankForm == [editing |-> None, username |-> None, password |-> None]

Goto(p, label) == pc' = [pc EXCEPT ![p] = label]

Show(m, message) == status' = [status EXCEPT ![m] = message]

\* A new outcome for u is under way: nothing is known of u until it is there.
Doubt(u) ==
    /\ acked' = Without(acked, u)
    /\ gone' = gone \ {u}
    /\ late' = {s \in late : task[s].user # u}
    /\ safe' = safe \ {u}
    /\ UNCHANGED blind

\* The last change of u was acknowledged, and was another one than to hash.
Outdated(u, hash) ==
    u \in gone \/ (u \in DOMAIN acked /\ acked[u] # hash)

\* The change of p is acknowledged.
Acknowledge(p) ==
    LET t == task[p]
    IN  /\ acked' = IF t.hash = None THEN Without(acked, t.user)
                                     ELSE With(acked, t.user, t.hash)
        /\ gone' = IF t.hash = None THEN gone \cup {t.user} ELSE gone \ {t.user}
        /\ safe' = IF t.hash = None THEN safe \ {t.user} ELSE safe \cup {t.user}
        /\ UNCHANGED late

-------------------------------------------------------------------------------
(* Starting a program: ensure_master_key. *)

\* The writers go on to read the vault, a server to serve.
AfterKey(p) == IF p \in Servers THEN "ready" ELSE "load key"

MayStart(p) ==
    /\ pc[p] = "off"
    /\ OneAtATime =>
          /\ \A q \in Programs : pc[q] \notin {"check key", "create key", "write key"}
          /\ p \in Writers => \A q \in Writers : pc[q] = "off"

Start(p) ==
    /\ p \notin Tools
    /\ MayStart(p)
    /\ Goto(p, "check key")
    /\ UNCHANGED <<files, drawn, master_key, users, task, ui, verdict, history>>

\* add_user_to_vault is called for user u.
AddUser(p, u, hash) ==
    /\ MayStart(p)
    /\ Goto(p, "check key")
    /\ task' = [task EXCEPT ![p] = [user |-> u, hash |-> hash]]
    /\ Doubt(u)
    /\ UNCHANGED <<files, drawn, master_key, users, ui, verdict>>

\* Mutant: a key is generated at every start.
CheckKeyAlwaysNew(p) ==
    /\ pc[p] = "check key"
    /\ \E k \in Keys : drawn' = [drawn EXCEPT ![p] = k]
    /\ Goto(p, "create key")
    /\ UNCHANGED <<files, master_key, users, task, ui, verdict, history>>

\* The key is generated before the file is created.
CheckKey(p) ==
    /\ pc[p] = "check key"
    /\ \/ /\ key_file # Absent
          /\ Goto(p, AfterKey(p))
          /\ UNCHANGED drawn
       \/ /\ key_file = Absent
          /\ \E k \in Keys : drawn' = [drawn EXCEPT ![p] = k]
          /\ Goto(p, "create key")
    /\ UNCHANGED <<files, master_key, users, task, ui, verdict, history>>

CreateKey(p) ==
    /\ pc[p] = "create key"
    /\ key_file' = Empty
    /\ Goto(p, "write key")
    /\ UNCHANGED <<vault_file, drawn, master_key, users, task, ui, verdict,
                   history>>

\* Two keys have one length: the later one covers the other.
WriteKey(p) ==
    /\ pc[p] = "write key"
    /\ key_file' = drawn[p]
    /\ drawn' = [drawn EXCEPT ![p] = None]
    /\ Goto(p, AfterKey(p))
    /\ UNCHANGED <<vault_file, master_key, users, task, ui, verdict, history>>

\* The program is gone, with everything it had in memory.
Ended(p) ==
    /\ Goto(p, "off")
    /\ drawn' = [drawn EXCEPT ![p] = None]
    /\ master_key' = [master_key EXCEPT ![p] = None]
    /\ users' = [users EXCEPT ![p] = NoUsers]
    /\ task' = [task EXCEPT ![p] = NoTask]
    /\ status' = [status EXCEPT ![p] = None]
    /\ form' = [form EXCEPT ![p] = BlankForm]
    /\ pending_delete' = [pending_delete EXCEPT ![p] = None]
    /\ verdict' = [verdict EXCEPT ![p] = None]
    /\ blind' = blind \ {p}

\* The key cannot be generated, or its file created or written.  A manager goes on
\* without a key, a server exits, a tool returns the error.
KeyFails(p) ==
    /\ CanFail
    /\ pc[p] \in {"create key", "write key"}
    /\ IF p \in Managers
       THEN /\ drawn' = [drawn EXCEPT ![p] = None]
            /\ Goto(p, "load key")
            /\ UNCHANGED <<master_key, users, task, ui, verdict, blind>>
       ELSE Ended(p)
    /\ late' = late \ {p}
    /\ UNCHANGED <<files, acked, gone, safe>>

\* A program may be closed or killed at any point.
Stop(p) ==
    /\ pc[p] # "off"
    /\ Ended(p)
    /\ safe' = IF pc[p] = "write" THEN {} ELSE safe
    /\ late' = late \ {p}
    /\ UNCHANGED <<files, acked, gone>>

-------------------------------------------------------------------------------
(* Reading the vault: reload_vault of a manager, and a tool. *)

\* The button of the manager.
ReloadVault(m) ==
    /\ pc[m] = "idle"
    /\ Goto(m, "reload key")
    /\ UNCHANGED <<files, drawn, master_key, users, task, ui, verdict, history>>

\* Mutant: a short key file is not noticed.
LoadKeyUnchecked(p) ==
    /\ pc[p] \in {"load key", "reload key"}
    /\ master_key' = [master_key EXCEPT ![p] = key_file]
    /\ Goto(p, IF pc[p] = "load key" THEN "load vault" ELSE "reload vault")
    /\ UNCHANGED <<files, drawn, users, task, ui, verdict, history>>

LoadKey(p) ==
    /\ pc[p] \in {"load key", "reload key"}
    /\ key_file \in Keys
    /\ master_key' = [master_key EXCEPT ![p] = key_file]
    /\ Goto(p, IF pc[p] = "load key" THEN "load vault" ELSE "reload vault")
    /\ UNCHANGED <<files, drawn, users, task, ui, verdict, history>>

\* The manager reports the success of the button whatever the load came to.
LoadVault(p) ==
    /\ pc[p] \in {"load vault", "reload vault"}
    /\ CanLoad(master_key[p])
    /\ IF p \in Tools
       THEN /\ users' = [users EXCEPT ![p] = With(Loaded, task[p].user, task[p].hash)]
            /\ Goto(p, "truncate")
       ELSE /\ users' = [users EXCEPT ![p] = Loaded]
            /\ Goto(p, "idle")
    /\ IF pc[p] = "reload vault" THEN Show(p, "reloaded") ELSE UNCHANGED status
    /\ blind' = blind \ {p}
    /\ UNCHANGED <<files, drawn, master_key, task, form, pending_delete, verdict,
                   acked, gone, late, safe>>

\* What is in the file cannot be a key, or be decrypted with it.
CannotRead(p) ==
    \/ pc[p] \in {"load key", "reload key"} /\ key_file \notin Keys
    \/ pc[p] \in {"load vault", "reload vault"} /\ ~CanLoad(master_key[p])

\* Opening or reading a file fails, whatever is in it.  A vault that does not
\* exist is not opened.
ReadFails(p) ==
    /\ CanFail
    /\ \/ pc[p] \in {"load key", "reload key"}
       \/ pc[p] \in {"load vault", "reload vault"} /\ vault_file # Absent

\* A manager keeps the accounts it has: none, if it has just started.
LoadFails(m) ==
    LET reloads == pc[m] \in {"reload key", "reload vault"}
    IN  /\ m \in Managers
        /\ CannotRead(m) \/ ReadFails(m)
        /\ Show(m, IF reloads THEN "reloaded" ELSE "failed")
        /\ blind' = IF reloads \/ CannotRead(m) THEN blind ELSE blind \cup {m}
        /\ Goto(m, "idle")
        /\ UNCHANGED <<files, drawn, master_key, users, task, form,
                       pending_delete, verdict, acked, gone, late, safe>>

\* A tool returns the error.
AddUserFails(p) ==
    /\ p \in Tools
    /\ CannotRead(p) \/ ReadFails(p)
    /\ Ended(p)
    /\ UNCHANGED <<files, acked, gone, late, safe>>

-------------------------------------------------------------------------------
(* The manager's form and banners. *)

Fill(m, f) ==
    /\ pc[m] = "idle"
    /\ form' = [form EXCEPT ![m] = f]
    /\ UNCHANGED <<files, pc, drawn, master_key, users, task, status,
                   pending_delete, verdict, history>>

EditUser(m, u) ==
    /\ u \in DOMAIN users[m]
    /\ Fill(m, [editing |-> u, username |-> u, password |-> None])

\* The name cannot be changed while an account is edited.
TypeName(m, u) ==
    /\ form[m].editing = None
    /\ Fill(m, [form[m] EXCEPT !.username = u])

TypePassword(m, hash) == Fill(m, [form[m] EXCEPT !.password = hash])

ResetForm(m) == Fill(m, BlankForm)

SetPending(m, u) ==
    /\ pc[m] = "idle"
    /\ pending_delete' = [pending_delete EXCEPT ![m] = u]
    /\ UNCHANGED <<files, pc, drawn, master_key, users, task, status, form,
                   verdict, history>>

ClickDelete(m, u) == u \in DOMAIN users[m] /\ SetPending(m, u)

CancelDelete(m) == pending_delete[m] # None /\ SetPending(m, None)

\* A banner goes after four seconds.
StatusExpires(m) ==
    /\ pc[m] = "idle"
    /\ status[m] # None
    /\ Show(m, None)
    /\ UNCHANGED <<files, pc, drawn, master_key, users, task, form,
                   pending_delete, verdict, history>>

-------------------------------------------------------------------------------
(* handle_save and handle_delete. *)

\* A new account needs a password; an edit without one needs the old account.
CanSave(m) ==
    LET f == form[m]
    IN  /\ f.username # None
        /\ f.editing = None => f.password # None
        /\ master_key[m] # None
        /\ f.password = None => f.editing \in DOMAIN users[m]

HandleSave(m) ==
    LET f == form[m]
        hash == IF f.password = None THEN users[m][f.editing] ELSE f.password
    IN  /\ pc[m] = "idle"
        /\ CanSave(m)
        /\ users' = [users EXCEPT ![m] = With(@, f.username, hash)]
        /\ task' = [task EXCEPT ![m] = [user |-> f.username, hash |-> hash]]
        /\ Goto(m, "truncate")
        /\ Doubt(f.username)
        /\ UNCHANGED <<files, drawn, master_key, ui, verdict>>

SaveRefused(m) ==
    /\ pc[m] = "idle"
    /\ ~CanSave(m)
    /\ Show(m, "refused")
    /\ UNCHANGED <<files, pc, drawn, master_key, users, task, form,
                   pending_delete, verdict, history>>

CanDelete(m) ==
    master_key[m] # None /\ pending_delete[m] \in DOMAIN users[m]

\* Mutant: the account is removed from the cache, and the file left to later.
HandleDeleteNoSave(m) ==
    LET u == pending_delete[m]
    IN  /\ pc[m] = "idle"
        /\ u # None
        /\ CanDelete(m)
        /\ users' = [users EXCEPT ![m] = Without(@, u)]
        /\ Show(m, "deleted")
        /\ acked' = Without(acked, u)
        /\ gone' = gone \cup {u}
        /\ safe' = safe \ {u}
        /\ pending_delete' = [pending_delete EXCEPT ![m] = None]
        /\ UNCHANGED <<files, pc, drawn, master_key, task, form, verdict, late,
                       blind>>

HandleDelete(m) ==
    LET u == pending_delete[m]
    IN  /\ pc[m] = "idle"
        /\ u # None
        /\ CanDelete(m)
        /\ users' = [users EXCEPT ![m] = Without(@, u)]
        /\ task' = [task EXCEPT ![m] = [user |-> u, hash |-> None]]
        /\ pending_delete' = [pending_delete EXCEPT ![m] = None]
        /\ Goto(m, "truncate")
        /\ Doubt(u)
        /\ UNCHANGED <<files, drawn, master_key, status, form, verdict>>

DeleteRefused(m) ==
    /\ pc[m] = "idle"
    /\ pending_delete[m] # None
    /\ ~CanDelete(m)
    /\ pending_delete' = [pending_delete EXCEPT ![m] = None]
    /\ Show(m, "refused")
    /\ UNCHANGED <<files, pc, drawn, master_key, users, task, form, verdict,
                   history>>

-------------------------------------------------------------------------------
(* encrypt_and_save_vault, for a manager and a tool. *)

Truncate(p) ==
    /\ pc[p] = "truncate"
    /\ vault_file' = Empty
    /\ Goto(p, "write")
    /\ safe' = IF p \in blind THEN {} ELSE safe
    /\ UNCHANGED <<key_file, drawn, master_key, users, task, ui, verdict, acked,
                   gone, late, blind>>

\* The form is cleared after a save, and after the deletion of its account.
AfterWrite(m) ==
    LET t == task[m]
    IN  /\ Show(m, IF t.hash = None THEN "deleted" ELSE "saved")
        /\ form' = [form EXCEPT ![m] =
                      IF t.hash = None /\ @.editing # t.user THEN @ ELSE BlankForm]
        /\ task' = [task EXCEPT ![m] = NoTask]
        /\ Goto(m, "idle")
        /\ blind' = blind \ {m}
        /\ UNCHANGED <<drawn, master_key, users, pending_delete, verdict>>

Write(p) ==
    /\ pc[p] = "write"
    /\ vault_file' \in Written(Whole(master_key[p], users[p]))
    /\ Acknowledge(p)
    /\ IF p \in Tools THEN Ended(p) ELSE AfterWrite(p)
    /\ UNCHANGED key_file

\* Mutant: the result of the save is not looked at.
SaveFailsUnseen(p) ==
    /\ CanFail
    /\ pc[p] \in {"truncate", "write"}
    /\ \/ vault_file' = vault_file
       \/ pc[p] = "write" /\ vault_file' = Garbled
    /\ safe' = IF pc[p] = "write" THEN {} ELSE safe
    /\ IF p \in Tools THEN Ended(p) ELSE AfterWrite(p)
    /\ UNCHANGED <<key_file, acked, gone, late>>

\* The file cannot be opened, or takes none or part of the bytes.  The manager
\* keeps the change in its cache, and its form as it is.
SaveFails(p) ==
    /\ CanFail
    /\ pc[p] \in {"truncate", "write"}
    /\ \/ vault_file' = vault_file
       \/ pc[p] = "write" /\ vault_file' = Garbled
    /\ safe' = IF pc[p] = "write" THEN {} ELSE safe
    /\ IF p \in Tools THEN Ended(p)
       ELSE /\ Show(p, "failed")
            /\ task' = [task EXCEPT ![p] = NoTask]
            /\ Goto(p, "idle")
            /\ UNCHANGED <<drawn, master_key, users, form, pending_delete, verdict,
                           blind>>
    /\ UNCHANGED <<key_file, acked, gone, late>>

-------------------------------------------------------------------------------
(* An NTLM login at a server: the second leg of accept_security_context. *)

Login(s, u, hash) ==
    /\ pc[s] = "ready"
    /\ task' = [task EXCEPT ![s] = [user |-> u, hash |-> hash]]
    /\ verdict' = [verdict EXCEPT ![s] = None]
    /\ late' = IF Outdated(u, hash) THEN late \cup {s} ELSE late \ {s}
    /\ Goto(s, "login key")
    /\ UNCHANGED <<files, drawn, master_key, users, ui, acked, gone, blind, safe>>

LoginKey(s) ==
    /\ pc[s] = "login key"
    /\ \/ /\ key_file \in Keys
          /\ master_key' = [master_key EXCEPT ![s] = key_file]
          /\ Goto(s, "login vault")
          /\ UNCHANGED verdict
       \/ /\ key_file \notin Keys \/ CanFail
          /\ verdict' = [verdict EXCEPT ![s] = "denied"]
          /\ Goto(s, "ready")
          /\ UNCHANGED master_key
    /\ UNCHANGED <<files, drawn, users, task, ui, history>>

LoginVault(s) ==
    LET t == task[s]
        isValid == /\ CanLoad(master_key[s])
                   /\ t.user \in DOMAIN Loaded
                   /\ Loaded[t.user] = t.hash
    IN  /\ pc[s] = "login vault"
        /\ \/ isValid /\ verdict' = [verdict EXCEPT ![s] = "accepted"]
           \/ (~isValid \/ CanFail) /\ verdict' = [verdict EXCEPT ![s] = "denied"]
        /\ master_key' = [master_key EXCEPT ![s] = None]
        /\ Goto(s, "ready")
        /\ UNCHANGED <<files, drawn, users, task, ui, history>>

-------------------------------------------------------------------------------

\* The working directory is new, or holds a key from an earlier run.
Init ==
    /\ key_file \in Keys \cup {Absent}
    /\ vault_file = Absent
    /\ pc = [p \in Programs |-> "off"]
    /\ drawn = [p \in Programs |-> None]
    /\ master_key = [p \in Programs |-> None]
    /\ users = [p \in Programs |-> NoUsers]
    /\ task = [p \in Programs |-> NoTask]
    /\ status = [p \in Programs |-> None]
    /\ form = [p \in Programs |-> BlankForm]
    /\ pending_delete = [p \in Programs |-> None]
    /\ verdict = [p \in Programs |-> None]
    /\ acked = NoUsers
    /\ gone = {}
    /\ late = {}
    /\ blind = {}
    /\ safe = {}

Manager(m) ==
    \/ ReloadVault(m) \/ LoadFails(m) \/ ResetForm(m) \/ CancelDelete(m)
    \/ StatusExpires(m) \/ HandleSave(m) \/ SaveRefused(m) \/ HandleDelete(m)
    \/ DeleteRefused(m)
    \/ \E u \in Users : EditUser(m, u) \/ TypeName(m, u) \/ ClickDelete(m, u)
    \/ \E hash \in Hashes : TypePassword(m, hash)

Tool(p) ==
    \/ \E u \in Users, hash \in Hashes : AddUser(p, u, hash)
    \/ AddUserFails(p)

Writer(p) ==
    LoadKey(p) \/ LoadVault(p) \/ Truncate(p) \/ Write(p) \/ SaveFails(p)

Server(s) ==
    \/ \E u \in Users, hash \in Hashes : Login(s, u, hash)
    \/ LoginKey(s) \/ LoginVault(s)

Program(p) ==
    \/ Start(p) \/ CheckKey(p) \/ CreateKey(p) \/ WriteKey(p) \/ KeyFails(p)
    \/ Stop(p)

Next ==
    \/ \E p \in Programs : Program(p)
    \/ \E p \in Writers : Writer(p)
    \/ \E m \in Managers : Manager(m)
    \/ \E p \in Tools : Tool(p)
    \/ \E s \in Servers : Server(s)

Spec == Init /\ [][Next]_vars

-------------------------------------------------------------------------------
(* Properties. *)

Labels == {"off", "check key", "create key", "write key", "load key",
           "load vault", "idle", "reload key", "reload vault", "truncate",
           "write", "ready", "login key", "login vault"}

Form == [editing: Users \cup {None}, username: Users \cup {None},
         password: Hashes \cup {None}]

\* Type invariant.
TypeOK ==
    /\ key_file \in Keys \cup {Absent, Empty}
    /\ vault_file \in {Absent, Empty, Garbled}
           \cup [kind: {"whole"}, key: Keys, users: Maps]
    /\ pc \in [Programs -> Labels]
    /\ drawn \in [Programs -> Keys \cup {None}]
    /\ master_key \in [Programs -> Keys \cup {None}]
    /\ users \in [Programs -> Maps]
    /\ task \in [Programs -> [user: Users \cup {None}, hash: Hashes \cup {None}]]
    /\ status \in [Programs -> {None, "saved", "deleted", "failed", "refused",
                                "reloaded"}]
    /\ form \in [Programs -> Form]
    /\ pending_delete \in [Programs -> Users \cup {None}]
    /\ verdict \in [Programs -> {None, "accepted", "denied"}]
    /\ acked \in Maps
    /\ gone \subseteq Users
    /\ late \subseteq Servers
    /\ blind \subseteq Managers
    /\ safe \subseteq DOMAIN acked

\* As long as programs are started one after the other, the vault on disk can be
\* read with the key on disk, whenever a program was killed.
KeyOpensVault == IsWhole => key_file = vault_file.key

\* With one writer at a time, the manager's banners about a save or a deletion
\* are true for as long as they show: the file holds what the manager lists.
SuccessMeansSaved ==
    \A m \in Managers :
        pc[m] = "idle" /\ status[m] \in {"saved", "deleted"}
        => vault_file = Whole(master_key[m], users[m])

\* An account whose last change was acknowledged is in the vault with the hash
\* that was acknowledged, whatever was saved, could not be read or crashed since,
\* unless a write was cut off, or a manager to which the reading of files in good
\* order failed at its start has saved since.
NothingLost ==
    (\A p \in Writers : pc[p] # "write") =>
        \A u \in safe :
            /\ IsWhole
            /\ u \in DOMAIN vault_file.users
            /\ vault_file.users[u] = acked[u]

\* With one writer at a time, an edit without a new password saves the password
\* that was last acknowledged for the account, and no account that was deleted,
\* whatever was reloaded, deleted or saved since the form was opened.
EditKeepsPassword ==
    \A m \in Managers :
        pc[m] = "idle" /\ CanSave(m) /\ form[m].password = None =>
            LET u == form[m].editing
            IN  u \notin gone /\ (u \in DOMAIN acked => users[m][u] = acked[u])

\* A login that began after the deletion of its user, or the change of the user's
\* password, was acknowledged is denied, crashes and cut writes included, until
\* the user is changed again: what was replaced does not come back.
OutdatedCannotLogIn == \A s \in late : verdict[s] # "accepted"

-------------------------------------------------------------------------------
(* Claims that the code does not keep. *)

\* vault.rs:87 "Generates a cryptographically secure 32-byte key if it doesn't
\* exist": a key that is there is not replaced.
KeyNotReplaced == [][(key_file \in Keys) => (key_file' = key_file)]_vars

\* vault.rs:186 "High-level utility to add/update a user in the vault", and the
\* banner of gui.rs:197 "User successfully created in vault!": what one program
\* adds to the vault is not dropped when another one saves an account of its own.
WritesKeepOthers ==
    [][\A p \in Writers :
          pc[p] = "write" /\ pc'[p] # "write" /\ IsWhole' =>
             \A u \in DOMAIN acked \ {task[p].user} :
                u \in DOMAIN vault_file'.users /\ vault_file'.users[u] = acked[u]]_vars

\* The same claim of one program alone: a save never begins with a copy that
\* lacks an account which the vault is known to hold.
SavesKeepVault ==
    [][\A m \in Managers :
          pc[m] = "truncate" /\ pc'[m] = "write" =>
             \A u \in safe :
                u \in DOMAIN users[m] /\ users[m][u] = acked[u]]_vars

===============================================================================
