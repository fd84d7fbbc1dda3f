---------------------------------- MODULE Dll ----------------------------------
(***************************************************************************)
(* The C interface of dll.rs: one static pair of providers behind the      *)
(* functions of the SSPI table, and the buffers that it hands to callers.  *)
(* A call finds its provider by dw_upper of the context, or of the         *)
(* credential if there is no context yet; the handles of both providers    *)
(* count from 1, each with its own counter.                                *)
(*                                                                         *)
(* Each call enters a provider once and holds its mutex meanwhile, so it is *)
(* one action here, to be conjoined with what the caller does with its      *)
(* result.  Of the handshakes only what a query can tell is kept: modules   *)
(* GateKeeper and NtlmLogin are about who may complete one.                 *)
(***************************************************************************)
EXTENDS Integers, Sequences, FiniteSets

CONSTANTS
    Ids,         \* GateKeeper ids: functions from 0..15 to bytes
    ZeroId,      \* the id of a server session that nobody has identified
    Accounts,    \* names of NTLM accounts, with their domain if they have one
    Fallback,    \* the name "user"
    Addresses,   \* addresses of heap blocks
    None,        \* no provider, no context, no name
    MaxHandle    \* bound of the model: contexts created by each provider

Packages == {"GateKeeper", "NTLM"}

Cred == [p \in Packages |->
    IF p = "GateKeeper" THEN [dw_lower |-> "0x3001", dw_upper |-> "0x8888"]
                        ELSE [dw_lower |-> "0x4001", dw_upper |-> "0x6666"]]

Roles == {"client", "server"}

Upper == [p \in Packages |-> [role \in Roles |->
    IF p = "GateKeeper" THEN IF role = "client" THEN "0x1000" ELSE "0x2000"
                        ELSE IF role = "client" THEN "0x5000" ELSE "0x6000"]]

ASSUME IdAssumption ==
    ZeroId \in Ids /\ \A id \in Ids : id = [i \in 0..15 |-> id[i]]

ASSUME HandleAssumption == MaxHandle \in Nat

ASSUME NoneAssumption == None \notin Accounts \cup {Fallback} \cup Addresses

VARIABLES
    sessions,         \* package -> (handle -> identity)
    next_handle_id,   \* package -> dw_lower of its next handle
    blocks,           \* allocated blocks: address -> the name written there, or None
    corrupt           \* a block was freed that is not allocated, or overrun

dllVars == <<sessions, next_handle_id, blocks, corrupt>>

-------------------------------------------------------------------------------
(* Handles and how they find their provider. *)

Uppers == {Upper[p][role] : p \in Packages, role \in Roles}

Handle == [dw_lower: Nat, dw_upper: Uppers]

\* A handle is a structure, a package has a name.
ASSUME NoHandleAssumption == None \notin Handle \cup Packages

ByCred(cred) ==
    IF \E p \in Packages : cred.dw_upper = Cred[p].dw_upper
    THEN CHOOSE p \in Packages : cred.dw_upper = Cred[p].dw_upper ELSE None

\* Mutant: the two packages swap their client contexts.
ByCtxtSwapped(ctx) ==
    IF ctx.dw_upper \in {"0x5000", "0x2000"} THEN "GateKeeper" ELSE "NTLM"

ByCtxt(ctx) ==
    IF \E p \in Packages, role \in Roles : ctx.dw_upper = Upper[p][role]
    THEN CHOOSE p \in Packages : \E role \in Roles : ctx.dw_upper = Upper[p][role]
    ELSE None

Provider(cred, ctx) == IF ctx = None THEN ByCred(cred) ELSE ByCtxt(ctx)

\* A leg of a handshake that goes on to look at tokens: a provider is found, the
\* credential is its own (it looks at dw_lower), and it knows the context.
Admitted(cred, ctx) ==
    LET p == Provider(cred, ctx)
    IN  /\ p # None
        /\ cred.dw_lower = Cred[p].dw_lower
        /\ ctx # None => ctx \in DOMAIN sessions[p]

-------------------------------------------------------------------------------
(* The calls. *)

DllInit ==
    /\ sessions = [p \in Packages |-> << >>]
    /\ next_handle_id = [p \in Packages |-> 1]
    /\ blocks = << >>
    /\ corrupt = FALSE

\* Mutant: the id is the size of the table, so it comes back after a deletion.
FreshHandleBySize(p, role) ==
    [dw_lower |-> Cardinality(DOMAIN sessions[p]) + 1, dw_upper |-> Upper[p][role]]

FreshHandle(p, role) ==
    [dw_lower |-> next_handle_id[p], dw_upper |-> Upper[p][role]]

\* InitializeSecurityContext (client) or AcceptSecurityContext (server) with no
\* context; h is what it writes to phNewContext.  A GateKeeper client has its own
\* id from the start.
FirstLeg(cred, role, h, id) ==
    LET p == Provider(cred, None)
    IN  /\ Admitted(cred, None)
        /\ next_handle_id[p] <= MaxHandle
        /\ h = FreshHandle(p, role)
        /\ sessions' = [sessions EXCEPT ![p] =
               [x \in DOMAIN @ \cup {h} |-> IF x = h THEN id ELSE @[x]]]
        /\ next_handle_id' = [next_handle_id EXCEPT ![p] = @ + 1]
        /\ UNCHANGED <<blocks, corrupt>>

\* AcceptSecurityContext with a context, when the provider accepts the answer.
LastLeg(cred, ctx, id) ==
    LET p == Provider(cred, ctx)
    IN  /\ Admitted(cred, ctx)
        /\ sessions' = [sessions EXCEPT ![p][ctx] = id]
        /\ UNCHANGED <<next_handle_id, blocks, corrupt>>

\* DeleteSecurityContext: a provider removes what it has and succeeds anyway.
Delete(ctx) ==
    LET p == ByCtxt(ctx)
    IN  /\ p # None
        /\ sessions' = [sessions EXCEPT ![p] =
               [x \in DOMAIN @ \ {ctx} |-> @[x]]]
        /\ UNCHANGED <<next_handle_id, blocks, corrupt>>

\* Mutant: the first dword is copied as it lies there.
GuidTextUnswapped(id) ==
    [hex |-> [i \in 1..16 |->
        id[<<0, 1, 2, 3, 5, 4, 7, 6, 8, 9, 10, 11, 12, 13, 14, 15>>[i]]]]

\* format_gatekeeper_id: 32 hexadecimal digits, of the bytes of the id in the
\* order they are printed.
GuidText(id) ==
    [hex |-> [i \in 1..16 |->
        id[<<3, 2, 1, 0, 5, 4, 7, 6, 8, 9, 10, 11, 12, 13, 14, 15>>[i]]]]

\* A name is a pointer to characters.
ASSUME NoNameAssumption == \A id \in Ids : GuidText(id) # None

\* The name that QueryContextAttributes finds.  GateKeeper knows none for a
\* context that it does not know; NTLM always knows one.
NameOf(ctx) ==
    LET p == ByCtxt(ctx)
    IN  IF p = None THEN None
        ELSE IF p = "GateKeeper"
        THEN IF ctx \in DOMAIN sessions[p] THEN GuidText(sessions[p][ctx]) ELSE None
        ELSE IF ctx \in DOMAIN sessions[p] /\ sessions[p][ctx] # None
             THEN sessions[p][ctx] ELSE Fallback

Allocate(address, content) ==
    /\ address \in Addresses \ DOMAIN blocks
    /\ blocks' = [a \in DOMAIN blocks \cup {address} |->
                     IF a = address THEN content ELSE blocks[a]]

\* QueryContextAttributes for SECPKG_ATTR_NAMES, when there is a name: it goes
\* into a new block, whose address is written to the structure of the caller.
Query(ctx, address) ==
    /\ NameOf(ctx) # None
    /\ Allocate(address, NameOf(ctx))
    /\ UNCHANGED <<sessions, next_handle_id, corrupt>>

\* Mutant: no room for the terminators.
NeededUnterminated(lengths, unit, structs) ==
    structs + unit * (lengths[1] + lengths[2] + lengths[3] + lengths[4])

\* EnumerateSecurityPackages: one block holds two structures and behind them four
\* strings, each with its terminator, of characters of unit bytes.  The size is
\* computed first, in a loop of its own.
Needed(lengths, unit, structs) ==
    structs + unit * ((lengths[1] + 1) + (lengths[2] + 1)
                        + (lengths[3] + 1) + (lengths[4] + 1))

Offset(lengths, unit, structs) ==
    LET offset[i \in 1..5] ==
          IF i = 1 THEN structs ELSE offset[i - 1] + unit * (lengths[i - 1] + 1)
    IN  offset

\* Lengths of the name and the comment of each package, narrow and wide.
LengthsA == <<10, 27, 4, 21>>
LengthsW == <<10, 27, 4, 32>>

\* Sizes of the two structures, with pointers of 4 and of 8 bytes.
StructSizes == {2 * 20, 2 * 32}

Enumerate(lengths, unit, structs, address) ==
    /\ Allocate(address, None)
    /\ corrupt' = \/ corrupt
                  \/ Offset(lengths, unit, structs)[5] > Needed(lengths, unit, structs)
    /\ UNCHANGED <<sessions, next_handle_id>>

\* FreeContextBuffer, which trusts the eight bytes before the address it gets.
Free(address) ==
    /\ blocks' = [a \in DOMAIN blocks \ {address} |-> blocks[a]]
    /\ corrupt' = (corrupt \/ address \notin DOMAIN blocks)
    /\ UNCHANGED <<sessions, next_handle_id>>

-------------------------------------------------------------------------------

DllTypeOK ==
    /\ DOMAIN sessions = Packages
    /\ \A p \in Packages : \A h \in DOMAIN sessions[p] :
          /\ h \in Handle
          /\ ByCtxt(h) = p
          /\ sessions[p][h] \in IF p = "GateKeeper" THEN Ids
                                ELSE Accounts \cup {None}
    /\ next_handle_id \in [Packages -> Nat \ {0}]
    /\ DOMAIN blocks \subseteq Addresses
    /\ corrupt \in BOOLEAN
===============================================================================
