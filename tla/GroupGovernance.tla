-------------------------- MODULE GroupGovernance --------------------------
(***************************************************************************)
(* Who governs the wallet of one group: the roles in group_members, the    *)
(* admins of the chat or guild as the platform knows them, and the rows of *)
(* telegram_admin_verifications.  The platform changes its admins when it  *)
(* likes; the bot learns of it only by asking, and uses the answer later.  *)
(*                                                                         *)
(* A user has one command of this kind open at a time.  The commands of    *)
(* different users interleave at every await.  The quote that an approval  *)
(* is about, and who consumes it, is the matter of QuoteLifecycle.         *)
(***************************************************************************)
EXTENDS Naturals, FiniteSets

CONSTANTS
    User,       \* people who may be in the group
    TTL,        \* for how many ticks a verification is fresh (five minutes)
    Lag,        \* bound: the age at which an answer of the platform is used
    MaxOpen,    \* bound: commands open at a time
    NoUser

ASSUME GovernanceAssumption ==
    /\ TTL \in Nat \ {0}
    /\ Lag \in Nat
    /\ MaxOpen \in Nat
    /\ NoUser \notin User

VARIABLES
    platform,   \* of the group
    status,     \* what each user is for the platform
    age,        \* history: ticks since the user was last an admin of the platform
    known,      \* users with a row in users
    creator,    \* groups.created_by_user_id
    role,       \* group_members
    fresh,      \* ticks until the last verification of a user expires
    job,        \* the open command of each user
    quiet       \* history: syncs whose list is still what the platform says

vars == <<platform, status, age, known, creator, role, fresh, job, quiet>>

-----------------------------------------------------------------------------

\* creator and administrator are one: nothing in the code tells them apart.
Status == {"admin", "member", "left"}

Rights == {"owner", "admin"}

Role == Rights \union {"member", "none"}

Never == TTL + Lag

Op == {"create", "sync", "cap", "approve"}

\* The awaits: of the platform's word on the caller, of the lock, of the
\* wallet's provisioning, of the list of admins, of its word on the owner, of
\* the locks of the paid call and of the call itself.
Phase == {"idle", "asking", "answered", "locking", "provisioning", "listing", "listed",
          "checking", "present", "gone", "running", "paying", "done"}

\* Those in which an answer about the caller or about the admins is held.
Holding == {"answered", "locking", "provisioning", "listed"}

Job == [op : Op \union {"none"}, phase : Phase, late : 0 .. Lag,
        list : SUBSET User, todo : SUBSET User]

NewJob(o, p) == [op |-> o, phase |-> p, late |-> 0, list |-> {}, todo |-> {}]

Idle == NewJob("none", "idle")

At(u, o, p) == job[u].op = o /\ job[u].phase = p

MayOpen(u) ==
    /\ job[u].phase = "idle"
    /\ Cardinality({v \in User : job[v].phase # "idle"}) < MaxOpen

Goto(u, p) == job' = [job EXCEPT ![u].phase = p]

Close(u) ==
    /\ job' = [job EXCEPT ![u] = Idle]
    /\ quiet' = quiet \ {u}

Exists == creator # NoUser

\* upsertUser and ensureGroupMember(..., "member").
Enter(u) ==
    /\ known' = known \union {u}
    /\ role' = [role EXCEPT ![u] = IF @ = "none" THEN "member" ELSE @]

\* A user the bot first meets may be an admin the open syncs did not know.
Unsettle(u) == quiet' = IF u \in known THEN quiet ELSE {}

\* Mutant: a verification prolongs the one before it.
RecordMutant(us) == fresh' = [u \in User |-> IF u \in us THEN fresh[u] + TTL ELSE fresh[u]]

\* recordTelegramAdminVerification: the row just inserted expires last.
Record(us) == fresh' = [u \in User |-> IF u \in us THEN TTL ELSE fresh[u]]

\* Mutant: the row counts whether or not it has expired.
HasFreshMutant(u) == TRUE

\* hasFreshTelegramAdminVerification.
HasFresh(u) == fresh[u] > 0

Init ==
    /\ platform \in {"telegram", "discord"}
    /\ status \in [User -> Status]
    /\ age = [u \in User |-> IF status[u] = "admin" THEN 0 ELSE Never]
    /\ known \in SUBSET User
    /\ creator = NoUser
    /\ role = [u \in User |-> "none"]
    /\ fresh = [u \in User |-> 0]
    /\ job = [u \in User |-> Idle]
    /\ quiet = {}

-----------------------------------------------------------------------------
(* The start of a command, up to the first await. *)

\* Any other command in the group, the read-only ones of /groupwallet too.
Visit(u) ==
    /\ Exists
    /\ job[u].phase = "idle"
    /\ Enter(u)
    /\ Unsettle(u)
    /\ UNCHANGED <<platform, status, age, creator, fresh, job>>

\* A command to the bot elsewhere.
Meet(u) ==
    /\ known' = known \union {u}
    /\ Unsettle(u)
    /\ UNCHANGED <<platform, status, age, creator, role, fresh, job>>

\* create: Telegram is asked at once, and the middleware has met the caller;
\* Discord sends the caller's permissions with the interaction.
BeginCreate(u) ==
    /\ MayOpen(u)
    /\ \/ /\ platform = "telegram"
          /\ known' = known \union {u}
          /\ Unsettle(u)
          /\ job' = [job EXCEPT ![u] = NewJob("create", "asking")]
       \/ /\ platform = "discord"
          /\ status[u] = "admin"
          /\ UNCHANGED <<known, quiet>>
          /\ job' = [job EXCEPT ![u] = NewJob("create", "answered")]
    /\ UNCHANGED <<platform, status, age, creator, role, fresh>>

\* sync-admins.
BeginSync(u) ==
    /\ Exists
    /\ MayOpen(u)
    /\ Enter(u)
    /\ \/ /\ platform = "telegram"
          /\ job' = [job EXCEPT ![u] = NewJob("sync", "asking")]
       \/ /\ platform = "discord"
          /\ status[u] = "admin"
          /\ job' = [job EXCEPT ![u] = NewJob("sync", "listing")]
    /\ Unsettle(u)
    /\ UNCHANGED <<platform, status, age, creator, fresh>>

\* cap, dailycap and export: on Telegram the role is looked up first, and not
\* again; on Discord the permission is enough.
BeginCap(u) ==
    /\ Exists
    /\ MayOpen(u)
    /\ Enter(u)
    /\ \/ /\ platform = "telegram"
          /\ role[u] \in Rights
          /\ job' = [job EXCEPT ![u] = NewJob("cap", "asking")]
       \/ /\ platform = "discord"
          /\ status[u] = "admin"
          /\ job' = [job EXCEPT ![u] = NewJob("cap", "answered")]
    /\ Unsettle(u)
    /\ UNCHANGED <<platform, status, age, creator, fresh>>

\* The confirm button of an over-cap quote of the group.
BeginApprove(u) ==
    /\ Exists
    /\ MayOpen(u)
    /\ \/ /\ platform = "telegram"
          /\ role[u] \in Rights
          /\ known' = known
          /\ job' = [job EXCEPT ![u] = NewJob("approve", "asking")]
       \/ /\ platform = "discord"
          /\ status[u] = "admin"
          /\ known' = known \union {u}
          /\ job' = [job EXCEPT ![u] = NewJob("approve", "answered")]
    /\ Unsettle(u)
    /\ UNCHANGED <<platform, status, age, creator, role, fresh>>

\* getChatMember answers, for a caller that is an admin at that moment.
Answer(u) ==
    /\ job[u].phase = "asking"
    /\ status[u] = "admin"
    /\ Goto(u, "answered")
    /\ UNCHANGED <<platform, status, age, known, creator, role, fresh, quiet>>

\* It answers otherwise, or a call of the platform fails: the command ends.
Refuse(u) ==
    /\ \/ job[u].phase = "asking" /\ status[u] # "admin"
       \/ job[u].phase \in {"asking", "listing", "checking"}
    /\ Close(u)
    /\ UNCHANGED <<platform, status, age, known, creator, role, fresh>>

-----------------------------------------------------------------------------
(* create. *)

\* Telegram's create looks for the group before it takes the lock.
CreateAgain(u) ==
    /\ At(u, "create", "answered")
    /\ platform = "telegram"
    /\ Exists
    /\ Enter(u)
    /\ Record({u})
    /\ quiet' = (IF u \in known THEN quiet ELSE {}) \ {u}
    /\ job' = [job EXCEPT ![u] = Idle]
    /\ UNCHANGED <<platform, status, age, creator>>

CreateNew(u) ==
    /\ At(u, "create", "answered")
    /\ platform = "telegram" => ~Exists
    /\ Goto(u, "locking")
    /\ UNCHANGED <<platform, status, age, known, creator, role, fresh, quiet>>

Unlocked == \A v \in User : job[v].phase # "provisioning"

\* Mutant: whoever comes through create is made an owner.
FoundRoleMutant(u) == [role EXCEPT ![u] = "owner"]

\* The role of the caller once the group is there: "owner" by
\* createGroupWithWallet, "member" by ensureGroupMember when another was first.
FoundRole(u) ==
    IF ~Exists THEN [role EXCEPT ![u] = "owner"]
    ELSE [role EXCEPT ![u] = IF @ = "none" THEN "member" ELSE @]

\* getOrCreateGroupWallet and getOrCreateDiscordGuildWallet, under the lock, up
\* to the provisioning of the wallet.
Found(u) ==
    /\ At(u, "create", "locking")
    /\ Unlocked
    /\ creator' = IF Exists THEN creator ELSE u
    /\ role' = FoundRole(u)
    /\ known' = known \union {u}
    /\ Unsettle(u)
    /\ Goto(u, "provisioning")
    /\ UNCHANGED <<platform, status, age, fresh>>

\* The wallet is active; the answer on the caller is recorded only now.
Provisioned(u) ==
    /\ At(u, "create", "provisioning")
    /\ Record({u})
    /\ Close(u)
    /\ UNCHANGED <<platform, status, age, known, creator, role>>

\* The lock times out, or the command-line tool fails.
ProvisionFails(u) ==
    /\ job[u].op = "create"
    /\ job[u].phase \in {"locking", "provisioning"}
    /\ Close(u)
    /\ UNCHANGED <<platform, status, age, known, creator, role, fresh>>

-----------------------------------------------------------------------------
(* sync-admins. *)

\* assertFreshTelegramAdmin returns; the list of admins is asked for.
SyncAsks(u) ==
    /\ At(u, "sync", "answered")
    /\ Record({u})
    /\ job' = [job EXCEPT ![u] = NewJob("sync", "listing")]
    /\ UNCHANGED <<platform, status, age, known, creator, role, quiet>>

\* getChatAdministrators, or the fetch of the guild's members.
ListAnswer(u) ==
    /\ At(u, "sync", "listing")
    /\ job' = [job EXCEPT ![u] = [NewJob("sync", "listed") EXCEPT
                                      !.list = {v \in User : status[v] = "admin"}]]
    /\ quiet' = quiet \union {u}
    /\ UNCHANGED <<platform, status, age, known, creator, role, fresh>>

\* Mutant: the creator is made the owner again, listed or not.
PromotedMutant(list) ==
    [v \in User |-> IF v = creator THEN "owner"
                    ELSE IF v \in list \intersect known THEN "admin" ELSE role[v]]

\* updateGroupMemberRole for every listed user that the bot knows.
Promoted(list) ==
    [v \in User |-> IF v \notin list \intersect known THEN role[v]
                    ELSE IF platform = "telegram" /\ v = creator THEN "owner" ELSE "admin"]

\* The members to demote.  On Telegram the owner is left for a look of its own;
\* on Discord nobody looks at an owner.
Dropped(list) ==
    {v \in User \ list : /\ Promoted(list)[v] \in Rights
                         /\ Promoted(list)[v] = "owner" => platform = "telegram" /\ v # creator}

OwnerToCheck(list) == platform = "telegram" /\ Promoted(list)[creator] = "owner"

Demoted(roles, vs) == [v \in User |-> IF v \in vs THEN "member" ELSE roles[v]]

\* A sync that writes from a list of before undoes what the others' lists say; one
\* whose own list is current does not.
UnsettleOthers(u) == quiet' = IF u \in quiet THEN quiet ELSE {}

\* Both loops when there is no owner to ask about; otherwise the first one, and
\* of the second the members that come before the owner.
Promote(u) ==
    LET list == job[u].list
    IN  /\ At(u, "sync", "listed")
        /\ IF platform = "telegram" THEN Record(list \intersect known) ELSE fresh' = fresh
        /\ \/ /\ ~OwnerToCheck(list)
              /\ role' = Demoted(Promoted(list), Dropped(list))
              /\ job' = [job EXCEPT ![u] = NewJob("sync", "done")]
           \/ /\ OwnerToCheck(list)
              /\ \E first \in SUBSET Dropped(list) :
                    /\ role' = Demoted(Promoted(list), first)
                    /\ job' = [job EXCEPT ![u] = [NewJob("sync", "checking") EXCEPT
                                                      !.todo = Dropped(list) \ first]]
        /\ UnsettleOthers(u)
        /\ UNCHANGED <<platform, status, age, known, creator>>

\* getChatMember for the owner.
OwnerAnswer(u) ==
    /\ At(u, "sync", "checking")
    /\ Goto(u, IF status[creator] = "left" THEN "gone" ELSE "present")
    /\ UNCHANGED <<platform, status, age, known, creator, role, fresh, quiet>>

\* Mutant: the loop ends at an owner who is still there.
RestMutant(u) == IF job[u].phase = "gone" THEN job[u].todo \union {creator} ELSE {}

\* Whom the rest of the second loop demotes.
Rest(u) == job[u].todo \union (IF job[u].phase = "gone" THEN {creator} ELSE {})

Settle(u) ==
    /\ job[u].op = "sync"
    /\ job[u].phase \in {"present", "gone"}
    /\ role' = Demoted(role, Rest(u))
    /\ job' = [job EXCEPT ![u] = NewJob("sync", "done")]
    /\ UnsettleOthers(u)
    /\ UNCHANGED <<platform, status, age, known, creator, fresh>>

-----------------------------------------------------------------------------
(* cap, and the confirm button. *)

\* The answer is recorded and is fresh, so the cap is changed, or the daily cap,
\* or the rows are exported, and the reply is sent.
CapResumes(u) ==
    /\ At(u, "cap", "answered")
    /\ Record({u})
    /\ job' = [job EXCEPT ![u] = NewJob("cap", "done")]
    /\ UNCHANGED <<platform, status, age, known, creator, role, quiet>>

\* The answer is recorded; Telegram's handler then consumes the session, which
\* another button may have done.
ApproveResumes(u) ==
    /\ At(u, "approve", "answered")
    /\ Record({u})
    /\ \/ /\ job' = [job EXCEPT ![u] = NewJob("approve", "running")]
          /\ quiet' = quiet
       \/ /\ platform = "telegram"
          /\ Close(u)
    /\ UNCHANGED <<platform, status, age, known, creator, role>>

\* executeApprovedQuote, when it has its locks.
Allowed(u) == role[u] \in Rights /\ HasFresh(u)

Execute(u) ==
    /\ At(u, "approve", "running")
    /\ Allowed(u)
    /\ Goto(u, "paying")
    /\ UNCHANGED <<platform, status, age, known, creator, role, fresh, quiet>>

\* It refuses, or the quote is not pending any more, or a lock is not to be had.
RunRefused(u) ==
    /\ At(u, "approve", "running")
    /\ Close(u)
    /\ UNCHANGED <<platform, status, age, known, creator, role, fresh>>

Return(u) ==
    /\ job[u].phase \in {"paying", "done"}
    /\ Close(u)
    /\ UNCHANGED <<platform, status, age, known, creator, role, fresh>>

-----------------------------------------------------------------------------
(* The platform, the clock and the process. *)

\* Somebody is promoted or demoted, joins or leaves.
ChangeStatus(u, s) ==
    /\ s # status[u]
    /\ status' = [status EXCEPT ![u] = s]
    /\ age' = IF "admin" \in {s, status[u]} THEN [age EXCEPT ![u] = 0] ELSE age
    /\ quiet' = {}
    /\ UNCHANGED <<platform, known, creator, role, fresh, job>>

\* A tick: no answer is held for more than Lag of them.
Tick ==
    /\ \A u \in User : job[u].phase \in Holding => job[u].late < Lag
    /\ age' = [u \in User |-> IF status[u] = "admin" \/ age[u] = Never THEN age[u] ELSE age[u] + 1]
    /\ fresh' = [u \in User |-> IF fresh[u] = 0 THEN 0 ELSE fresh[u] - 1]
    /\ job' = [u \in User |-> IF job[u].phase \in Holding
                              THEN [job[u] EXCEPT !.late = @ + 1] ELSE job[u]]
    /\ UNCHANGED <<platform, status, known, creator, role, quiet>>

\* The process ends and starts again; the database stays as it is.
Restart ==
    /\ job' = [u \in User |-> Idle]
    /\ quiet' = {}
    /\ UNCHANGED <<platform, status, age, known, creator, role, fresh>>

Next ==
    \/ \E u \in User :
        \/ Visit(u) \/ Meet(u)
        \/ BeginCreate(u) \/ BeginSync(u) \/ BeginCap(u) \/ BeginApprove(u)
        \/ Answer(u) \/ Refuse(u)
        \/ CreateAgain(u) \/ CreateNew(u) \/ Found(u) \/ Provisioned(u) \/ ProvisionFails(u)
        \/ SyncAsks(u) \/ ListAnswer(u) \/ Promote(u) \/ OwnerAnswer(u) \/ Settle(u)
        \/ CapResumes(u) \/ ApproveResumes(u) \/ Execute(u) \/ RunRefused(u) \/ Return(u)
        \/ \E s \in Status : ChangeStatus(u, s)
    \/ Tick
    \/ Restart

Spec == Init /\ [][Next]_vars

-----------------------------------------------------------------------------

\* Every variable has its type, and the freshness of a verification never
\* exceeds the five minutes it is given.
TypeOK ==
    /\ platform \in {"telegram", "discord"}
    /\ status \in [User -> Status]
    /\ age \in [User -> 0 .. Never]
    /\ known \in SUBSET User
    /\ creator \in User \union {NoUser}
    /\ role \in [User -> Role]
    /\ fresh \in [User -> 0 .. TTL]
    /\ job \in [User -> Job]
    /\ quiet \in SUBSET User

\* There is one owner at most and it is the user who created the group's only
\* row, however many ran create at once or ran sync-admins since
\* (docs/group-wallets.md: create never overwrites the owner).
OwnerIsCreator == \A u \in User : role[u] = "owner" => u = creator

\* When sync-admins reports that it is complete, every admin of the platform that
\* the bot knows has rights, and nobody else has but an owner, who on Telegram must
\* still be in the chat; unless, since its list was fetched, the platform changed or
\* a sync wrote from a list of before such a change.  Both loops, the await in the
\* middle of the second, and the writes of any number of syncs that overlap with
\* this one, each with a current list, are between the list and the report.
SyncMirrors ==
    \A s \in quiet : At(s, "sync", "done") =>
        \A u \in User :
            /\ u \in known /\ status[u] = "admin" => role[u] \in Rights
            /\ role[u] \in Rights /\ status[u] # "admin" =>
                   /\ role[u] = "owner"
                   /\ platform = "telegram" => status[u] # "left"

\* However syncs and creates overlap, wait for the platform and are overtaken by its
\* changes, what they write gives rights to nobody who was not an admin of the
\* platform Lag ticks ago at most: no loop writes roles from before its last await.
RightsAreRecent ==
    [][ \A u \in User : role[u] \notin Rights /\ role'[u] \in Rights => age[u] <= Lag ]_vars

\* A cap is changed only by somebody who was an admin of the platform Lag ticks
\* ago at most, and an over-cap quote is run only for one who has a role now and
\* was an admin of the platform less than TTL + Lag ago: the answer may have
\* waited Lag before it was recorded, and the record counts for TTL.
RiskTakenByAdmins ==
    [][ \A u \in User :
            /\ ~At(u, "cap", "done") /\ At(u, "cap", "done")' => age[u] <= Lag
            /\ job[u].phase # "paying" /\ job'[u].phase = "paying"
                   => role[u] \in Rights /\ age[u] < TTL + Lag ]_vars

============================================================================
