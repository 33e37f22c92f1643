------------------------------ MODULE WalletKeys ------------------------------
(***************************************************************************)
(* One custodial wallet: its row, the versions of its key, the wallet.json *)
(* of its home directory, and the commands that provision it, show its     *)
(* address or run the AgentCash CLI for it.  A key is fresh, in the file,  *)
(* or in the database; an address is told by the key it belongs to.        *)
(***************************************************************************)
EXTENDS Integers, FiniteSets, FiniteSetsExt

CONSTANTS
    Handler,        \* commands, each given once and each in a process of its own
    Key,            \* the keys that CLI and operator can still generate
    NoKey,
    NoHandler,
    MaxOverruns     \* bound: how many CLI calls may outlive WALLET_LOCK_TTL_MS

ASSUME KeyAssumption == NoKey \notin Key /\ NoHandler \notin Handler /\ MaxOverruns \in Nat

VARIABLES
    kind,           \* whose wallet: a user's, a Telegram chat's, a Discord guild's
    row,            \* its row of `wallets'
    versions,       \* its rows of `key_versions', each with its row of `wallet_keys'
    file,           \* the key in wallet.json
    holder,         \* who has the lock `wallet:...'
    pc,
    wants,          \* what a command is for: the wallet itself or its address
    snap,           \* the wallet row a command works on
    told,           \* the address its CLI call reported, if any
    generated,      \* the keys that exist
    published,      \* history: the addresses that the row ever showed
    torn,           \* history: keys whose command died while it stored them
    overruns        \* history: how many locks lapsed under a command that still ran

vars == <<kind, row, versions, file, holder, pc, wants, snap, told, generated, published, torn,
          overruns>>
history == <<published, torn, overruns>>
database == <<row, versions, published>>

Row == [status : {"none", "pending", "active", "disabled"},
        key : Key \union {NoKey}, address : Key \union {NoKey}, version : Nat]

NoRow == [status |-> "none", key |-> NoKey, address |-> NoKey, version |-> 0]

Version == [no : Nat, key : Key \union {NoKey}, active : BOOLEAN]

Init ==
    /\ kind \in {"private", "chat", "guild"}
    /\ row = NoRow
    /\ versions = {}
    /\ file = NoKey
    /\ holder = NoHandler
    /\ pc = [h \in Handler |-> "idle"]
    /\ wants = [h \in Handler |-> "wallet"]
    /\ snap = [h \in Handler |-> NoRow]
    /\ told = [h \in Handler |-> NoKey]
    /\ generated = {}
    /\ published = {}
    /\ torn = {}
    /\ overruns = 0

Exists == row.status # "none"

Goto(h, place) == pc' = [pc EXCEPT ![h] = place]

\* A command is over, and what it knew forgotten.
Leave(h) ==
    /\ Goto(h, "done")
    /\ wants' = [wants EXCEPT ![h] = "wallet"]
    /\ snap' = [snap EXCEPT ![h] = NoRow]
    /\ told' = [told EXCEPT ![h] = NoKey]

Unlocked(h) == IF holder = h THEN NoHandler ELSE holder

-----------------------------------------------------------------------------
(* Commands. *)

\* /groupwallet create does nothing once the chat has a row; /ac guild create and
\* the private commands always go through getOrCreate.
Create(h) ==
    /\ pc[h] = "idle"
    /\ kind = "chat" => ~Exists
    /\ Goto(h, "waiting")
    /\ UNCHANGED <<kind, row, versions, file, holder, wants, snap, told, generated, history>>

\* Mutant: a private balance does not provision first either.
ProvisionsFirstMutant == ~Exists

\* getBalance and getDepositAddress of a user call getOrCreate, those of a group
\* only look its wallet up.
ProvisionsFirst == kind = "private"

Show(h) ==
    /\ pc[h] = "idle"
    /\ ProvisionsFirst \/ Exists
    /\ wants' = [wants EXCEPT ![h] = "address"]
    /\ snap' = [snap EXCEPT ![h] = row]
    /\ Goto(h, IF ProvisionsFirst THEN "waiting" ELSE "asking")
    /\ UNCHANGED <<kind, row, versions, file, holder, told, generated, history>>

\* Mutant: the CLI is called again for a frozen wallet.
ReadyMutant(r) == r.status = "active" /\ r.address # NoKey /\ r.key # NoKey

Ready(r) == r.status \in {"active", "disabled"} /\ r.address # NoKey /\ r.key # NoKey

\* getOrCreate has its row r; a caller that wants an address goes on with it.
Served(h, r) ==
    IF wants[h] = "address"
    THEN /\ Goto(h, "asking")
         /\ snap' = [snap EXCEPT ![h] = r]
         /\ told' = [told EXCEPT ![h] = NoKey]
         /\ UNCHANGED wants
    ELSE Leave(h)

\* Mutant: nobody waits for the lock.
LockFreeMutant == TRUE

LockFree == holder = NoHandler

\* Within the lock: insert the row if need be, and return it or call the CLI.
Provision(h) ==
    LET r == IF Exists THEN row ELSE [NoRow EXCEPT !.status = "pending"] IN
    /\ pc[h] = "waiting"
    /\ LockFree
    /\ row' = r
    /\ IF Ready(r)
       THEN Served(h, r) /\ UNCHANGED holder
       ELSE /\ Goto(h, "spawned")
            /\ snap' = [snap EXCEPT ![h] = r]
            /\ holder' = h
            /\ UNCHANGED <<wants, told>>
    /\ UNCHANGED <<kind, versions, file, generated, history>>

-----------------------------------------------------------------------------
(* The AgentCash CLI. *)

\* It uses the key in its environment, else that in wallet.json, else it makes
\* one and writes it there.
CliUses(h, k) ==
    IF snap[h].key # NoKey
    THEN k = snap[h].key /\ UNCHANGED <<file, generated>>
    ELSE IF file # NoKey
         THEN k = file /\ UNCHANGED <<file, generated>>
         ELSE k \notin generated /\ file' = k /\ generated' = generated \union {k}

\* The child process of `accounts' or `balance' runs; its output may lack an address.
CliRuns(h) ==
    /\ pc[h] \in {"spawned", "asking"}
    /\ \E k \in Key : CliUses(h, k) /\ \E t \in {k, NoKey} : told' = [told EXCEPT ![h] = t]
    /\ Goto(h, IF pc[h] = "spawned" THEN "ran" ELSE "answered")
    /\ UNCHANGED <<kind, holder, wants, snap, database, torn, overruns>>

\* It failed, timed out or printed no JSON, whether or not it had run, or there was
\* no key to capture or no address to report.
CommandFails(h) ==
    /\ pc[h] \in {"spawned", "ran", "asking", "answered"}
    /\ holder' = Unlocked(h)
    /\ Leave(h)
    /\ UNCHANGED <<kind, file, generated, database, torn, overruns>>

\* captureWallet, which also removes the file.
Captured(h) == IF snap[h].key # NoKey THEN snap[h].key ELSE file

\* The address of ensureWallet: what the CLI printed, else what the file says, else
\* that of the row it was given.
Reported(h) ==
    IF told[h] # NoKey THEN told[h] ELSE IF file # NoKey THEN file ELSE snap[h].address

\* ensureWallet throws without an address or a key.
CanCapture(h) == pc[h] = "ran" /\ Captured(h) # NoKey /\ Reported(h) # NoKey

\* updateWallet after ensureWallet: absolute values, of a row read before the call.
\* The mismatch check before it compares the captured key with the row's of then.
Provisioned(h) ==
    [row EXCEPT !.status = "active", !.key = Captured(h), !.address = Reported(h)]

FirstVersion(k) == [no |-> 1, key |-> k, active |-> TRUE]

\* Mutant: it is not asked whether there is a version.
RecordedMutant(k) == {FirstVersion(k)}

\* recordWalletKeyIfMissing: only a wallet without any version gets one.
Recorded(k) == IF versions = {} THEN {FirstVersion(k)} ELSE versions

Save(h) ==
    LET r == Provisioned(h) IN
    /\ CanCapture(h)
    /\ file' = NoKey
    /\ versions' = Recorded(r.key)
    /\ row' = IF versions = {} THEN [r EXCEPT !.version = 1] ELSE r
    /\ published' = published \union {r.address}
    /\ holder' = Unlocked(h)
    /\ Served(h, r)
    /\ UNCHANGED <<kind, generated, torn, overruns>>

\* getBalance and getDepositAddress store the address, of their row if not of the CLI.
Refresh(h) ==
    LET address == IF told[h] # NoKey THEN told[h] ELSE snap[h].address IN
    /\ pc[h] = "answered"
    /\ IF address = NoKey
       THEN UNCHANGED <<row, published>>
       ELSE /\ row' = [row EXCEPT !.address = address]
            /\ published' = published \union {address}
    /\ Leave(h)
    /\ UNCHANGED <<kind, versions, file, holder, generated, torn, overruns>>

-----------------------------------------------------------------------------
(* Users and the operator. *)

Freeze ==
    /\ row.status \in {"pending", "active"}
    /\ row' = [row EXCEPT !.status = "disabled"]
    /\ UNCHANGED <<kind, versions, file, holder, pc, wants, snap, told, generated, history>>

Unfreeze ==
    /\ row.status \in {"pending", "disabled"}
    /\ row' = [row EXCEPT !.status = "active"]
    /\ UNCHANGED <<kind, versions, file, holder, pc, wants, snap, told, generated, history>>

\* Mutant: a key without a version is not given one before it is replaced.
RetiredMutant == {[v EXCEPT !.active = FALSE] : v \in versions}

\* Mutant: the version before stays active.
RetiredActiveMutant ==
    IF versions = {} THEN {[FirstVersion(row.key) EXCEPT !.active = FALSE]} ELSE versions

\* The versions that a rotation leaves behind, the first one back-filled.
Retired ==
    IF versions = {}
    THEN {[FirstVersion(row.key) EXCEPT !.active = FALSE]}
    ELSE {[v EXCEPT !.active = FALSE] : v \in versions}

\* rotateLocalDemoWalletKey, on a wallet that has a key.
Rotate ==
    LET no == Max({v.no : v \in Retired \union {FirstVersion(NoKey)}}) + 1 IN
    /\ Exists /\ row.key # NoKey
    /\ \E k \in Key \ generated, given \in BOOLEAN :
           /\ generated' = generated \union {k}
           /\ versions' = Retired \union {[no |-> no, key |-> k, active |-> TRUE]}
           /\ row' = [row EXCEPT !.key = k, !.version = no, !.address = IF given THEN k ELSE @]
           /\ published' = IF given THEN published \union {k} ELSE published
    /\ UNCHANGED <<kind, file, holder, pc, wants, snap, told, torn, overruns>>

-----------------------------------------------------------------------------
(* Processes that die, and locks that lapse. *)

\* Its CLI call may still run.
Dies(h) ==
    /\ pc[h] \in {"waiting", "spawned", "ran", "asking", "answered"}
    /\ IF pc[h] \in {"spawned", "asking"}
       THEN Goto(h, "orphan") /\ UNCHANGED <<wants, snap, told>>
       ELSE Leave(h)
    /\ UNCHANGED <<kind, file, holder, generated, database, torn, overruns>>

OrphanRuns(h) ==
    /\ pc[h] = "orphan"
    /\ \E k \in Key : CliUses(h, k)
    /\ Leave(h)
    /\ UNCHANGED <<kind, holder, database, torn, overruns>>

\* Between the statements of Save: with the key in memory only; with the row
\* written; with the version written and its key not; with the version complete
\* and the row's number of it not.
DiesSaving(h) ==
    /\ CanCapture(h)
    /\ file' = NoKey
    /\ Leave(h)
    /\ \/ torn' = torn \union {Captured(h)} /\ UNCHANGED database
       \/ /\ row' = Provisioned(h)
          /\ published' = published \union {row'.address}
          /\ \/ UNCHANGED <<versions, torn>>
             \/ versions = {} /\ versions' = {FirstVersion(NoKey)} /\ torn' = torn \union {row'.key}
             \/ versions = {} /\ versions' = {FirstVersion(row'.key)} /\ UNCHANGED torn
    /\ UNCHANGED <<kind, holder, generated, overruns>>

\* The TTL passes: of a dead process's lock, or under a CLI call that takes longer, as
\* AGENTCASH_TIMEOUT_MS may let it.
Lapse ==
    /\ holder # NoHandler
    /\ \/ pc[holder] \in {"done", "orphan"} /\ UNCHANGED overruns
       \/ pc[holder] \notin {"done", "orphan"} /\ overruns < MaxOverruns /\ overruns' = overruns + 1
    /\ holder' = NoHandler
    /\ UNCHANGED <<kind, row, versions, file, pc, wants, snap, told, generated, published, torn>>

Step(h) ==
    \/ Create(h) \/ Show(h) \/ Provision(h) \/ CliRuns(h) \/ CommandFails(h) \/ Save(h)
    \/ Refresh(h) \/ Dies(h) \/ OrphanRuns(h) \/ DiesSaving(h)

Next == (\E h \in Handler : Step(h)) \/ Freeze \/ Unfreeze \/ Rotate \/ Lapse

Spec == Init /\ [][Next]_vars

-----------------------------------------------------------------------------

\* Types, and that whoever provisions has the lock unless it lapsed.
TypeOK ==
    /\ kind \in {"private", "chat", "guild"}
    /\ row \in Row
    /\ versions \subseteq Version
    /\ file \in Key \union {NoKey}
    /\ holder \in Handler \union {NoHandler}
    /\ pc \in [Handler -> {"idle", "waiting", "spawned", "ran", "asking", "answered",
                           "orphan", "done"}]
    /\ wants \in [Handler -> {"wallet", "address"}]
    /\ snap \in [Handler -> Row]
    /\ told \in [Handler -> Key \union {NoKey}]
    /\ generated \subseteq Key
    /\ published \subseteq Key
    /\ torn \subseteq Key
    /\ overruns \in Nat
    /\ \A h \in Handler : pc[h] \in {"spawned", "ran"} => overruns > 0 \/ holder = h

Kept == {v.key : v \in versions} \union {file, row.key}

\* Whoever sent money to an address that the bot has shown can get it back: its key
\* is in the row, among the old keys or in the file, through rotations, concurrent
\* balances and crashes. Only a process that dies while it stores a key loses it, or
\* a call that outlives its lock.
PublishedIsKept == overruns = 0 => published \ torn \subseteq Kept

\* The row's key is that of the one active version, and the row names that version
\* unless a process died before it was written.
KeyIsActiveVersion ==
    overruns = 0 /\ row.key # NoKey /\ row.key \notin torn /\ versions # {} =>
        \E v \in versions :
            /\ v.key = row.key
            /\ row.version \in {0, v.no}
            /\ \A w \in versions : w.active <=> w = v

\* A user's address is that of the key the bot pays with, until a rotation: the
\* commands that show it provision the wallet first.
PrivateAddressIsOfKey ==
    overruns = 0 /\ kind = "private" /\ row.key # NoKey /\ (\A v \in versions : v.no = 1) =>
        row.address = row.key

\* A key in the row is not overwritten by provisioning (docs/security.md) while calls
\* end before their locks.  When one did not, another provisioning that had read the
\* row without a key replaces it, since the mismatch check looks at the row of before
\* the call; the key that is overwritten is then still among the versions, unless a
\* process died before it was written there.
OverwrittenKeyIsVersion ==
    [][ row.key # NoKey /\ row'.key # row.key =>
            \/ Rotate
            \/ /\ overruns = 1
               /\ versions # {} => row.key \in {v.key : v \in versions'} \union torn
            \/ overruns > 1 ]_vars

\* Provisioning makes its wallet active, also a frozen one; but a wallet that has its
\* key stays frozen through every command that was given before or is given after.
ProvisionedStaysFrozen ==
    [][ overruns = 0 /\ row.key # NoKey /\ row.status = "disabled" /\ row'.status # "disabled" =>
            Unfreeze ]_vars

=============================================================================
