------------------------------ MODULE Gateway ------------------------------
(***************************************************************************)
(* Who may use the bot: the policy every update is put to, the allowlist,  *)
(* and the pairing codes that the bot issues and the operator's scripts    *)
(* approve and revoke on the same database.  The allowlist is hashed once, *)
(* when the bot starts; it changes by a restart with other variables.      *)
(*                                                                         *)
(* A code is the number of its row.  The bot is one thread, but the        *)
(* scripts run between any two of its statements.                          *)
(***************************************************************************)
EXTENDS Naturals

CONSTANTS
    Actor,          \* platform user ids
    Discord,        \* those of them that are Discord's
    AllowAll,       \* GATEWAY_ALLOW_ALL_USERS
    PairingMode,    \* PAIRING_MODE
    RequireMention, \* TELEGRAM_GROUP_REQUIRE_MENTION, for a chat not exempted
    CodeTTL,        \* PAIRING_CODE_TTL_SECONDS
    MaxCodes,       \* bound: rows of gateway_pairing_codes
    MaxTime,        \* bound: the clock stops here
    NoActor

ASSUME GatewayAssumption ==
    /\ Discord \subseteq Actor
    /\ AllowAll \in BOOLEAN
    /\ PairingMode \in {"disabled", "dm_code"}
    /\ RequireMention \in BOOLEAN
    /\ {CodeTTL, MaxCodes, MaxTime} \subseteq Nat
    /\ NoActor \notin Actor

VARIABLES
    entries,        \* the allowlist variables the bot was started with
    codes,          \* gateway_pairing_codes
    last,           \* the last row inserted
    draft,          \* the row issuePairingCode is about to insert
    found,          \* codes an approve-pairing script has looked up
    asked,          \* actors with a question open in their session
    listed,         \* history: actors that some start of the bot listed
    barred,         \* history: actors revoked and issued no code since
    now

vars == <<entries, codes, last, draft, found, asked, listed, barred, now>>

-----------------------------------------------------------------------------

Code == 1 .. MaxCodes

Row == [actor : Actor \union {NoActor}, expires : Nat,
        status : {"none", "pending", "approved", "expired", "revoked"}]

NoRow == [actor |-> NoActor, expires |-> 0, status |-> "none"]

\* hashTelegramId, hashDiscordId: one-to-one, and no hash is a platform's id.
Hash(id) == <<"hash", id>>

\* What an operator may put in the variables: an id, or the actor hash that
\* approve-pairing prints.
Entry == Actor \union {Hash(a) : a \in Actor}

\* buildSecurityPolicyConfig hashes every entry, whatever it is.
AllowedHashes == {Hash(e) : e \in entries}

Known(a) == AllowAll \/ Hash(a) \in AllowedHashes

Request == [chat : {"private", "group"}, kind : {"dm_command", "command", "text", "button"},
            mentioned : BOOLEAN, bot : BOOLEAN]

\* Every interaction on Discord is a command or a button.
RequestOf(a) == {r \in Request : a \in Discord => r.kind \in {"command", "button"}}

Stranger(r) ==
    CASE PairingMode = "disabled" -> "deny_with_allowlist_message"
      [] PairingMode = "dm_code" /\ r.chat = "group" -> "deny_silent"
      [] PairingMode = "dm_code" /\ r.chat = "private" -> "require_pairing"

\* A command for a private wallet given in a group, or a text nobody addressed
\* to the bot.
Misplaced(a, r) ==
    /\ a \notin Discord
    /\ r.chat = "group"
    /\ \/ r.kind = "dm_command"
       \/ r.kind = "text" /\ RequireMention /\ ~r.mentioned

\* Mutant: the allowlist is for private chats only.
VerdictMutant(a, r) ==
    CASE r.bot -> "deny_silent"
      [] ~r.bot /\ (r.kind = "button" \/ r.chat = "group") -> "allow"
      [] ~r.bot /\ r.kind # "button" /\ r.chat = "private" ->
             IF Known(a) THEN "allow" ELSE Stranger(r)

\* evaluatePolicy.  What a bot sends is ignored; buttons that people press pass.
Verdict(a, r) ==
    IF r.bot THEN "deny_silent"
    ELSE CASE r.kind = "button" -> "allow"
           [] r.kind # "button" /\ ~Known(a) -> Stranger(r)
           [] r.kind # "button" /\ Known(a) /\ Misplaced(a, r) -> "deny"
           [] r.kind # "button" /\ Known(a) /\ ~Misplaced(a, r) -> "allow"

Live(c) == codes[c].status = "pending" /\ codes[c].expires > now

Init ==
    /\ entries \in SUBSET Entry
    /\ codes = [c \in Code |-> NoRow]
    /\ last = 0
    /\ draft = NoRow
    /\ found = {}
    /\ asked = {}
    /\ listed = entries \intersect Actor
    /\ barred = {}
    /\ now = 0

-----------------------------------------------------------------------------
(* The bot. *)

\* A paid command, on its own or out of a text, that is let through: it resets
\* the session, and runs at once, fails, or asks.
Handle(a, r) ==
    /\ draft = NoRow
    /\ r.kind # "button"
    /\ Verdict(a, r) = "allow"
    /\ asked' \in {asked \union {a}, asked \ {a}}
    /\ UNCHANGED <<entries, codes, last, draft, found, listed, barred, now>>

\* A button answers the question of a; who may press it is the handler's
\* business, and an admin of a group may press that of another.
Press(p, a, r) ==
    /\ draft = NoRow
    /\ r.kind = "button"
    /\ Verdict(p, r) = "allow"
    /\ a \in asked
    /\ asked' = asked \ {a}
    /\ UNCHANGED <<entries, codes, last, draft, found, listed, barred, now>>

\* Mutant: the codes issued before stay pending.
ExpireCodesMutant(a) == codes

\* Mutant: a status that the CHECK of the table does not know.
ExpireCodesWordMutant(a) ==
    [c \in Code |-> IF codes[c].actor = a /\ codes[c].status = "pending"
                    THEN [codes[c] EXCEPT !.status = "superseded"] ELSE codes[c]]

\* expireActorPairingCodes.
ExpireCodes(a) ==
    [c \in Code |-> IF codes[c].actor = a /\ codes[c].status = "pending"
                    THEN [codes[c] EXCEPT !.status = "expired"] ELSE codes[c]]

\* issuePairingCode up to the insert.
Issue(a) ==
    /\ draft = NoRow
    /\ last < MaxCodes
    /\ codes' = ExpireCodes(a)
    /\ draft' = [actor |-> a, expires |-> now + CodeTTL, status |-> "pending"]
    /\ UNCHANGED <<entries, last, found, asked, listed, barred, now>>

\* Telegram answers a stranger in a private chat with a code; Discord tells
\* the stranger to ask for one.
TurnAway(a, r) ==
    /\ a \notin Discord
    /\ Verdict(a, r) = "require_pairing"
    /\ Issue(a)

\* /pair, which a stranger's update never reaches.
Pair(a, r) ==
    /\ a \notin Discord
    /\ r.chat = "private"
    /\ r.kind = "command"
    /\ PairingMode = "dm_code"
    /\ Verdict(a, r) = "allow"
    /\ Issue(a)

\* createPairingCode.
Insert ==
    /\ draft # NoRow
    /\ codes' = [codes EXCEPT ![last + 1] = draft]
    /\ last' = last + 1
    /\ draft' = NoRow
    /\ barred' = barred \ {draft.actor}
    /\ UNCHANGED <<entries, found, asked, listed, now>>

\* The process ends, perhaps with a code half issued, and is started again,
\* perhaps with other variables.
Restart ==
    /\ entries' \in SUBSET Entry
    /\ listed' = listed \union (entries' \intersect Actor)
    /\ draft' = NoRow
    /\ UNCHANGED <<codes, last, found, asked, barred, now>>

-----------------------------------------------------------------------------
(* The operator's scripts, each a process of its own. *)

LookUp(c) ==
    /\ c \notin found
    /\ Live(c)
    /\ found' = found \union {c}
    /\ UNCHANGED <<entries, codes, last, draft, asked, listed, barred, now>>

\* Mutant: the update asks for the id and the expiry only.
MayApproveMutant(c) == codes[c].expires > now

\* The WHERE clause of approvePairingCode.
MayApprove(c) == Live(c)

Approve(c) ==
    /\ c \in found
    /\ found' = found \ {c}
    /\ codes' = IF MayApprove(c) THEN [codes EXCEPT ![c].status = "approved"] ELSE codes
    /\ UNCHANGED <<entries, last, draft, asked, listed, barred, now>>

Revocable == {"pending", "approved"}

\* revoke-user.
Revoke(a) ==
    /\ \E c \in Code : codes[c].actor = a /\ codes[c].status \in Revocable
    /\ codes' = [c \in Code |-> IF codes[c].actor = a /\ codes[c].status \in Revocable
                                THEN [codes[c] EXCEPT !.status = "revoked"] ELSE codes[c]]
    /\ barred' = barred \union {a}
    /\ UNCHANGED <<entries, last, draft, found, asked, listed, now>>

Tick ==
    /\ now < MaxTime
    /\ now' = now + 1
    /\ UNCHANGED <<entries, codes, last, draft, found, asked, listed, barred>>

Next ==
    \/ \E a \in Actor : \E r \in RequestOf(a) :
          Handle(a, r) \/ TurnAway(a, r) \/ Pair(a, r) \/ \E b \in Actor : Press(a, b, r)
    \/ Insert \/ Restart
    \/ \E c \in Code : LookUp(c) \/ Approve(c)
    \/ \E a \in Actor : Revoke(a)
    \/ Tick

Spec == Init /\ [][Next]_vars

-----------------------------------------------------------------------------

TypeOK ==
    /\ entries \subseteq Entry
    /\ codes \in [Code -> Row]
    /\ last \in 0 .. MaxCodes
    /\ draft \in Row
    /\ found \subseteq Code
    /\ asked \subseteq Actor
    /\ listed \subseteq Actor
    /\ barred \subseteq Actor
    /\ now \in Nat

\* Deny by default: unless everybody is allowed, a question about money is open
\* only in the session of an actor whose id was on the allowlist of some start
\* of the bot.  Buttons pass the policy unasked, delisted actors keep their
\* sessions, and a pasted hash or an approved code lets nobody in.
AskedWasListed == AllowAll \/ asked \subseteq listed

\* An actor who was revoked has neither an approved code nor one that could be
\* approved until the bot issues a new one: not even when the script that
\* approves had looked a code up before the revocation.
RevokedIsOut ==
    \A c \in Code : codes[c].actor \in barred => codes[c].status \notin {"pending", "approved"}

\* c is the last code its actor was issued.
Latest(c) == \A d \in Code : d > c => codes[d].actor # codes[c].actor

\* A code is approved only while it is the last one its actor was issued and not
\* expired: a newer code ends the older ones, also between the two statements
\* of the script (docs/gateway-security.md, Pairing Flow).
OnlyLatestApproved ==
    [][\A c \in Code : (codes[c].status # "approved" /\ codes'[c].status = "approved")
          => Latest(c) /\ codes[c].expires > now]_vars

\* What listApprovedPairingActors selects; the gateway never calls it.
Paired(a) == \E c \in Code : codes[c].actor = a /\ codes[c].status = "approved" /\ codes[c].expires > now

\* README.md:97: access is denied unless everybody is allowed, an allowlist
\* matches, or a user has an approved pairing code; so nobody with an approved
\* code is answered with the demand to pair.
PairedIsLetIn ==
    [][\A a \in Actor : (draft = NoRow /\ draft'.actor = a /\ Paired(a)) => Known(a)]_vars

=============================================================================
