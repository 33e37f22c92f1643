------------------------------- MODULE Intake -------------------------------
(***************************************************************************)
(* How a request of a Telegram user becomes a paid call, or does not: the  *)
(* inline preview and the link that redeems it, the rate limits that the   *)
(* update, the quote and the paid call are put to, and the confirmation.   *)
(* All limits count the rows of one table, request_events.                 *)
(*                                                                         *)
(* A command is one message that asks for a paid skill, and the quote made *)
(* for it.  The bot's awaits separate its steps.  Locks, failures of the   *)
(* call and what follows a charge are QuoteLifecycle's; the policy is      *)
(* SpendControl's.                                                         *)
(***************************************************************************)
EXTENDS Naturals, FiniteSets

CONSTANTS
    User,
    Command,
    Maker,          \* [Command -> User]: who sends the message
    Payload,        \* inline previews
    Link,           \* the preview a command redeems by /start, or NoPayload
    Other,          \* updates that ask for nothing paid
    PerMinute, PerHour,     \* RATE_LIMIT_MAX_PER_MINUTE and _HOUR
    QuotePerMinute,         \* RATE_LIMIT_QUOTE_MAX_PER_MINUTE
    PaidPerMinute,          \* RATE_LIMIT_PAID_EXECUTION_MAX_PER_MINUTE
    Minute, Hour,           \* the windows
    Kept,                   \* two hours: older events are pruned
    PayloadTTL,             \* INLINE_PAYLOAD_TTL_MS
    QuoteTTL,               \* PENDING_CONFIRMATION_TTL_SECONDS
    MaxTime,                \* bound: the clock stops here
    NoCommand, NoPayload

ASSUME IntakeAssumption ==
    /\ IsFiniteSet(Command) /\ IsFiniteSet(Payload) /\ IsFiniteSet(Other)
    /\ Maker \in [Command -> User]
    /\ Link \in [Command -> Payload \union {NoPayload}]
    /\ NoPayload \notin Payload
    /\ NoCommand \notin Command
    /\ {PerMinute, PerHour, QuotePerMinute, PaidPerMinute} \subseteq Nat
    /\ {Minute, Hour, Kept, PayloadTTL, QuoteTTL, MaxTime} \subseteq Nat
    /\ Minute <= Hour /\ Hour <= Kept

VARIABLES
    events,         \* request_events
    payload,        \* inline_payloads
    phase,          \* where each command is
    expires,        \* the expiry of its quote
    begun,          \* when its execution began
    session,        \* the quote each user is asked about
    pressed,        \* history: commands whose confirm button was accepted
    now

vars == <<events, payload, phase, expires, begun, session, pressed, now>>

-----------------------------------------------------------------------------

\* `void' is a link that was refused.  `over' is every other end without a paid
\* call but one: `stranded' is a quote approved and then refused its execution.
Phase == {"idle", "found", "void", "preflight", "quoting", "pending", "confirming",
          "paid", "stranded", "over"}

\* An event is named for what it is recorded for, which happens once.
EventOf(name, about, u) == [name |-> name, about |-> about, user |-> u, at |-> now]

Events == [name : {"update"}, about : {"ask", "press"} \X Command, user : User, at : Nat]
    \union [name : {"update"}, about : {"preview"} \X Payload, user : User, at : Nat]
    \union [name : {"update"}, about : {"other"} \X Other, user : User, at : Nat]
    \union [name : {"quote_preflight", "paid_execution"}, about : Command, user : User, at : Nat]

PayloadRow == [status : {"none", "open", "consumed"}, expires : Nat]

Init ==
    /\ events = {}
    /\ payload = [p \in Payload |-> [status |-> "none", expires |-> 0]]
    /\ phase = [c \in Command |-> "idle"]
    /\ expires = [c \in Command |-> 0]
    /\ begun = [c \in Command |-> 0]
    /\ session = [u \in User |-> NoCommand]
    /\ pressed = {}
    /\ now = 0

Goto(c, p) == phase' = [phase EXCEPT ![c] = p]

-----------------------------------------------------------------------------
(* checkAndRecordRateLimit. *)

\* The events of a user in a window, whatever they are recorded for.
Since(u, window) == {e \in events : e.user = u /\ e.at + window >= now}

\* Mutant: a window one event too long.
AdmitsMutant(u, perMinute, perHour) ==
    Cardinality(Since(u, Minute)) <= perMinute /\ Cardinality(Since(u, Hour)) < perHour

Admits(u, perMinute, perHour) ==
    Cardinality(Since(u, Minute)) < perMinute /\ Cardinality(Since(u, Hour)) < perHour

\* The rows that are not pruned; pruning is part of every check.
Recent == {e \in events : e.at + Kept >= now}

Record(e) == events' = Recent \union {e}

\* The middleware puts every update to the general limit.
Update(about, u) ==
    /\ Admits(u, PerMinute, PerHour)
    /\ Record(EventOf("update", about, u))

\* An update that is refused, and any other one that is let through.
RefuseUpdate(u) ==
    /\ ~Admits(u, PerMinute, PerHour)
    /\ events' = Recent
    /\ UNCHANGED <<payload, phase, expires, begun, session, pressed, now>>

OtherUpdate(u, x) ==
    /\ \A e \in events : e.about # <<"other", x>>
    /\ Update(<<"other", x>>, u)
    /\ UNCHANGED <<payload, phase, expires, begun, session, pressed, now>>

-----------------------------------------------------------------------------
(* Inline previews. *)

\* An inline query that parses: createSignedInlinePayload.  Nothing is spent,
\* and the gateway's policy is not asked.
Preview(u, p) ==
    /\ payload[p].status = "none"
    /\ Update(<<"preview", p>>, u)
    /\ payload' = [payload EXCEPT ![p] = [status |-> "open", expires |-> now + PayloadTTL]]
    /\ UNCHANGED <<phase, expires, begun, session, pressed, now>>

\* /start with a link: the row is looked up, its signatures and its age are
\* verified.
Start(c) ==
    /\ phase[c] = "idle"
    /\ Link[c] # NoPayload
    /\ payload[Link[c]].status # "none"
    /\ Update(<<"ask", c>>, Maker[c])
    /\ Goto(c, IF payload[Link[c]].expires > now THEN "found" ELSE "void")
    /\ UNCHANGED <<payload, expires, begun, session, pressed, now>>

\* Mutant: the update does not ask whether the row was consumed.
MayConsumeMutant(p) == payload[p].status # "none"

\* consumeInlinePayload; its time is that of the verification.
MayConsume(p) == payload[p].status = "open"

\* Then the skill is asked for; the session is reset.
Consume(c) ==
    /\ phase[c] = "found"
    /\ LET p == Link[c]
       IN  IF MayConsume(p)
           THEN /\ payload' = [payload EXCEPT ![p].status = "consumed"]
                /\ session' = [session EXCEPT ![Maker[c]] = NoCommand]
                /\ Goto(c, "preflight")
           ELSE Goto(c, "void") /\ UNCHANGED <<payload, session>>
    /\ UNCHANGED <<events, expires, begun, pressed, now>>

-----------------------------------------------------------------------------
(* The command. *)

Ask(c) ==
    /\ phase[c] = "idle"
    /\ Link[c] = NoPayload
    /\ Update(<<"ask", c>>, Maker[c])
    /\ session' = [session EXCEPT ![Maker[c]] = NoCommand]
    /\ Goto(c, "preflight")
    /\ UNCHANGED <<payload, expires, begun, pressed, now>>

\* assertRateLimit takes twelve times the limit of a minute for an hour's.
Preflight(c) ==
    /\ phase[c] = "preflight"
    /\ LET u == Maker[c]
       IN  IF Admits(u, QuotePerMinute, 12 * QuotePerMinute)
           THEN Record(EventOf("quote_preflight", c, u)) /\ Goto(c, "quoting")
           ELSE events' = Recent /\ Goto(c, "over")
    /\ UNCHANGED <<payload, expires, begun, session, pressed, now>>

\* Every other end: a frozen wallet, a denial, no balance, no lock.
Fail(c) ==
    /\ phase[c] \in {"preflight", "quoting", "confirming"}
    /\ Goto(c, "over")
    /\ UNCHANGED <<events, payload, expires, begun, session, pressed, now>>

AskFirst(c) ==
    /\ phase[c] = "quoting"
    /\ Goto(c, "pending")
    /\ expires' = [expires EXCEPT ![c] = now + QuoteTTL]
    /\ session' = [session EXCEPT ![Maker[c]] = c]
    /\ UNCHANGED <<events, payload, begun, pressed, now>>

\* The quote is approved, and _runApprovedQuote asks the limit before it begins.
Begin(c) ==
    IF Admits(Maker[c], PaidPerMinute, 12 * PaidPerMinute)
    THEN /\ Record(EventOf("paid_execution", c, Maker[c]))
         /\ begun' = [begun EXCEPT ![c] = now]
         /\ Goto(c, "paid")
    ELSE events' = Recent /\ UNCHANGED begun /\ Goto(c, "stranded")

\* Mutant: the option is lost between /start and execute.
MustAskMutant(c) == FALSE

\* /start passes forceConfirmation.
MustAsk(c) == Link[c] # NoPayload

RunAtOnce(c) ==
    /\ phase[c] = "quoting"
    /\ ~MustAsk(c)
    /\ Begin(c)
    /\ UNCHANGED <<payload, expires, session, pressed, now>>

\* The confirm button consumes the session, then waits for the locks.
Press(c) ==
    /\ session[Maker[c]] = c
    /\ Update(<<"press", c>>, Maker[c])
    /\ session' = [session EXCEPT ![Maker[c]] = NoCommand]
    /\ pressed' = pressed \union {c}
    /\ Goto(c, "confirming")
    /\ UNCHANGED <<payload, expires, begun, now>>

\* Mutant: the session keeps the canceled quote.
CancelMutant(c) ==
    /\ session[Maker[c]] = c
    /\ Update(<<"press", c>>, Maker[c])
    /\ Goto(c, "over")
    /\ UNCHANGED <<payload, expires, begun, session, pressed, now>>

Cancel(c) ==
    /\ session[Maker[c]] = c
    /\ Update(<<"press", c>>, Maker[c])
    /\ session' = [session EXCEPT ![Maker[c]] = NoCommand]
    /\ Goto(c, "over")
    /\ UNCHANGED <<payload, expires, begun, pressed, now>>

RunConfirmed(c) ==
    /\ phase[c] = "confirming"
    /\ IF expires[c] > now
       THEN Begin(c)
       ELSE Goto(c, "over") /\ UNCHANGED <<events, begun>>
    /\ UNCHANGED <<payload, expires, session, pressed, now>>

Tick ==
    /\ now < MaxTime
    /\ now' = now + 1
    /\ UNCHANGED <<events, payload, phase, expires, begun, session, pressed>>

Next ==
    \/ \E u \in User : \/ RefuseUpdate(u)
                       \/ \E x \in Other : OtherUpdate(u, x)
                       \/ \E p \in Payload : Preview(u, p)
    \/ \E c \in Command :
          \/ Start(c) \/ Consume(c) \/ Ask(c) \/ Preflight(c) \/ Fail(c) \/ AskFirst(c)
          \/ RunAtOnce(c) \/ Press(c) \/ Cancel(c) \/ RunConfirmed(c)
    \/ Tick

Spec == Init /\ [][Next]_vars

-----------------------------------------------------------------------------

\* The question in a session is an open one of its user.
SessionOK ==
    \A u \in User : session[u] # NoCommand
        => Maker[session[u]] = u /\ phase[session[u]] = "pending"

TypeOK ==
    /\ events \subseteq Events
    /\ payload \in [Payload -> PayloadRow]
    /\ phase \in [Command -> Phase]
    /\ expires \in [Command -> Nat]
    /\ begun \in [Command -> Nat]
    /\ session \in [User -> Command \union {NoCommand}]
    /\ pressed \subseteq Command
    /\ now \in Nat
    /\ SessionOK

\* The commands a preview has started, whatever became of them.
Redeemed(p) == {c \in Command : Link[c] = p /\ phase[c] \notin {"idle", "found", "void"}}

\* A preview starts one command at most, whoever holds the link and however
\* often it is opened while another /start has verified it (docs/inline-mode.md).
OneCommandPerPreview == \A p \in Payload : \A c, d \in Redeemed(p) : c = d

\* No preview is paid for unless the one who opened it confirmed the quote
\* (docs/inline-mode.md, Safety Model).
InlineAlwaysAsks ==
    \A c \in Command : phase[c] = "paid" /\ Link[c] # NoPayload => c \in pressed

PaidSince(u, window) ==
    {c \in Command : Maker[c] = u /\ phase[c] = "paid" /\ begun[c] + window >= now}

\* In no minute do more paid calls of a user begin than the limit says, nor in
\* an hour more than twelve times that, though the calls of one user
\* interleave and the table is pruned.
PaidRateBounded ==
    \A u \in User : /\ Cardinality(PaidSince(u, Minute)) <= PaidPerMinute
                    /\ Cardinality(PaidSince(u, Hour)) <= 12 * PaidPerMinute

=============================================================================
