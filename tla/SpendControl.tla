---------------------------- MODULE SpendControl ----------------------------
(***************************************************************************)
(* One wallet, private or shared by a group, and the paid calls made from  *)
(* it: freezing, the caps and skill rules of PolicyEngine, the             *)
(* confirmations, and the ledger the rolling caps are computed from.  The  *)
(* policy sees the wallet row and the ledger as they are when a command    *)
(* reads them; money moves after further awaits, and for a confirmed quote *)
(* minutes later.                                                          *)
(*                                                                         *)
(* A call here is one quote with the command that makes it.  The rows,     *)
(* locks and failures are QuoteLifecycle's; here a call has a phase.  The  *)
(* actor's lock is left out: a command may await the CLI for longer than   *)
(* the lock's TTL, so what is said here must hold when it has lapsed.      *)
(***************************************************************************)
EXTENDS PolicyEngine, FiniteSets, FiniteSetsExt

CONSTANTS
    Call,           \* the calls (quotes)
    Workflow,       \* those of them that /research makes (ResearchWorkflowService)
    Actor,          \* chat users
    Admin,          \* owners and admins of the group, freshly verified
    Owner,          \* the owner of the wallet if it is private
    Maker,          \* [Call -> Actor]: who gives the command
    UserCap,        \* the per-call cap of the user, or of the group
    Price,          \* what checkEndpoint may quote
    Surcharge,      \* how far the price the CLI reports may exceed the quote
    CapChoice,      \* daily and weekly caps a user may set
    Day, Week, QuoteTTL,
    MaxEdits,       \* bound: changes of the policy and freezes of the wallet
    MaxTime,        \* bound: the clock stops here
    NoActor, NoCall

ASSUME SpendAssumption ==
    /\ Maker \in [Call -> Actor]
    /\ Workflow \subseteq Call
    /\ Admin \subseteq Actor
    /\ Owner \in Actor
    /\ UserCap \in Cap
    /\ Price \subseteq Nat \ {0}
    /\ Surcharge \in Nat
    /\ CapChoice \subseteq Cap
    /\ {Day, Week, QuoteTTL, MaxEdits, MaxTime} \subseteq Nat
    /\ NoActor \notin Actor
    /\ NoCall \notin Call

VARIABLES
    shared,         \* wallets.kind: a group's or guild's, not a user's
    status,         \* wallets.status
    policy,         \* wallet_policies and skill_policies of the wallet
    edits,          \* how often these were changed
    phase,          \* where each call is
    quote,          \* its quote, the policy's decision and who confirmed it
    row,            \* its transaction: when, and how much
    session,        \* the quote each actor is asked about
    before,         \* history: the calls the policy had let pass before each
    ahead,          \* history: those of them without a row yet at the time
    grace,          \* history: calls whose command ran when the wallet was frozen
    now

wallet == <<shared, status, policy, edits>>
history == <<before, ahead, grace>>
vars == <<wallet, phase, quote, row, session, history, now>>

-----------------------------------------------------------------------------

\* `over' is every end without a transaction: refused, canceled, expired, left
\* approved when the run is refused, failed and left execution_unknown.
Phase == {"idle", "preflight", "planning", "pending", "confirming",
          "executing", "recorded", "over"}

Quote == [cost : Nat, outcome : Outcome \union {"none"}, presser : Actor \union {NoActor},
          expires : Nat, dailyCap : Cap, weeklyCap : Cap]

NoQuote == [cost |-> 0, outcome |-> "none", presser |-> NoActor, expires |-> 0,
            dailyCap |-> Off, weeklyCap |-> Off]

NoRow == [at |-> 0, cents |-> 0]

Init ==
    /\ shared \in BOOLEAN
    /\ status = "active"
    /\ policy = [daily |-> Off, weekly |-> Off, skill |-> "allowed"]
    /\ edits = 0
    /\ phase = [c \in Call |-> "idle"]
    /\ quote = [c \in Call |-> NoQuote]
    /\ row = [c \in Call |-> NoRow]
    /\ session = [a \in Actor |-> NoCall]
    /\ before = [c \in Call |-> {}]
    /\ ahead = [c \in Call |-> {}]
    /\ grace = {}
    /\ now = 0

Goto(c, p) == phase' = [phase EXCEPT ![c] = p]

\* The transactions with status submitted or success.
Recorded == {c \in Call : phase[c] = "recorded"}

Since(period) == {c \in Recorded : row[c].at + period >= now}

Cents(calls) == MapThenSumSet(LAMBDA c : row[c].cents, calls)

\* getWalletSpendCents, and getDailySpendCentsForGroup, which sums the same
\* rows since a group has one wallet.
Spent(period) == Cents(Since(period))

\* The calls the policy has let pass, of those the history remembers.
Passed == {c \in Call : quote[c].outcome # "none"}

Forget(calls, c) == [d \in Call |-> IF d = c THEN {} ELSE calls[d] \ {c}]

\* Nothing reads the quote of a call that has ended; the history forgets it.
End(c) ==
    /\ Goto(c, "over")
    /\ quote' = [quote EXCEPT ![c] = NoQuote]
    /\ before' = Forget(before, c)
    /\ ahead' = Forget(ahead, c)
    /\ grace' = grace \ {c}
    /\ UNCHANGED <<wallet, row, now>>

-----------------------------------------------------------------------------
(* SkillExecutor.execute. *)

\* Mutant: the row is not asked whether the wallet is frozen.
MaySpendMutant == TRUE

\* assertWalletCanSpend.
MaySpend == status # "disabled"

\* runSkillCommand resets the session; execute then reads the wallet row, and
\* awaits balance and price.
Command(c) ==
    /\ phase[c] = "idle"
    /\ c \notin Workflow
    /\ shared \/ Maker[c] = Owner
    /\ session' = [session EXCEPT ![Maker[c]] = NoCall]
    /\ Goto(c, IF MaySpend THEN "preflight" ELSE "over")
    /\ UNCHANGED <<wallet, quote, row, history, now>>

\* Rate limit, balance or price check fails.
PreflightFails(c) ==
    /\ phase[c] = "preflight"
    /\ End(c)
    /\ UNCHANGED session

\* What execute hands to the policy: the status of the row it read at the
\* start, not the one the wallet has by now.
Request(price) ==
    [status |-> "active", group |-> shared, cost |-> price,
     spentDay |-> Spent(Day), spentWeek |-> Spent(Week), hasSpent |-> Recorded # {},
     confirmationCap |-> UserCap, groupAdminCap |-> UserCap]

\* Mutant: a blocked skill's status is returned for an outcome.
DecisionMutant(price) ==
    IF policy.skill = "blocked" THEN policy.skill ELSE Evaluate(Request(price), policy)

Decision(price) == Evaluate(Request(price), policy)

Deny(c, price) ==
    /\ phase[c] = "preflight"
    /\ Decision(price) \in DenyOutcome
    /\ End(c)
    /\ UNCHANGED session

\* createQuote and recordPolicyDecision.
CreateQuote(c, price) ==
    /\ phase[c] = "preflight"
    /\ Decision(price) \notin DenyOutcome
    /\ quote' = [quote EXCEPT ![c] =
                    [cost |-> price, outcome |-> Decision(price), presser |-> NoActor,
                     expires |-> now + QuoteTTL,
                     dailyCap |-> DailyCap(policy), weeklyCap |-> WeeklyCap(policy)]]
    /\ before' = [before EXCEPT ![c] = Passed]
    /\ ahead' = [ahead EXCEPT ![c] = Passed \ Recorded]
    /\ UNCHANGED <<wallet, row, grace, now>>

\* The policy, or forceConfirmation for routed language, asks for a button.
AskFirst(c, price) ==
    /\ CreateQuote(c, price)
    /\ Goto(c, "pending")
    /\ session' = [session EXCEPT ![Maker[c]] = c]

NeedsConfirmation(price) == Decision(price) \in ConfirmOutcome

\* Approved on the spot; _runApprovedQuote asserts the same old wallet row. The
\* paid_execution rate limit may still refuse it: that is PreflightFails.
RunAtOnce(c, price) ==
    /\ CreateQuote(c, price)
    /\ ~NeedsConfirmation(price)
    /\ Goto(c, "executing")
    /\ UNCHANGED session

-----------------------------------------------------------------------------
(* The buttons, and SkillExecutor.executeApprovedQuote. *)

\* Mutant: a member may confirm what asks for an admin.
MayConfirmMutant(a, c) == a \in Admin \/ a = Maker[c]

\* The requester or an admin; only an admin where the policy said so.
MayConfirm(a, c) ==
    \/ shared /\ a \in Admin
    \/ a = Maker[c] /\ quote[c].outcome # "require_group_admin_approval"

Confirm(a, c) ==
    /\ session[Maker[c]] = c
    /\ phase[c] = "pending"
    /\ c \notin Workflow
    /\ MayConfirm(a, c)
    /\ session' = [session EXCEPT ![Maker[c]] = NoCall]
    /\ quote' = [quote EXCEPT ![c].presser = a]
    /\ Goto(c, "confirming")
    /\ UNCHANGED <<wallet, row, history, now>>

\* Under the locks the quote and the wallet are read again; up to the start of
\* the CLI nothing is awaited.
RunConfirmed(c) ==
    /\ phase[c] = "confirming"
    /\ quote[c].expires > now
    /\ MaySpend
    /\ Goto(c, "executing")
    /\ UNCHANGED <<wallet, quote, row, session, history, now>>

\* Expired, frozen, rate limited, or the lock not to be had.
RefuseConfirmed(c) ==
    /\ phase[c] = "confirming"
    /\ End(c)
    /\ UNCHANGED session

Cancel(c) ==
    /\ session[Maker[c]] = c
    /\ phase[c] = "pending"
    /\ session' = [session EXCEPT ![Maker[c]] = NoCall]
    /\ End(c)

-----------------------------------------------------------------------------
(* The end of an execution. *)

\* The transaction carries the price the CLI reports, else the quoted one. A
\* command that completes clears the session.
Record(c) ==
    /\ phase[c] = "executing"
    /\ \E extra \in {0, Surcharge} :
           row' = [row EXCEPT ![c] = [at |-> now, cents |-> quote[c].cost + extra]]
    /\ session' = IF quote[c].presser = NoActor
                  THEN [session EXCEPT ![Maker[c]] = NoCall]
                  ELSE session
    /\ Goto(c, "recorded")
    /\ UNCHANGED <<wallet, quote, history, now>>

\* execution_unknown: charged or not, it has no transaction and counts for nothing.
Fail(c) ==
    /\ phase[c] = "executing"
    /\ End(c)
    /\ UNCHANGED session

-----------------------------------------------------------------------------
(* ResearchWorkflowService: private chats only, and of the policy two caps. *)

PlanWorkflow(c) ==
    /\ phase[c] = "idle"
    /\ c \in Workflow
    /\ ~shared /\ Maker[c] = Owner
    /\ session' = [session EXCEPT ![Maker[c]] = NoCall]
    /\ Goto(c, "planning")
    /\ UNCHANGED <<wallet, quote, row, history, now>>

\* assertWorkflowPolicy, then createQuote.
QuoteWorkflow(c, price) ==
    /\ phase[c] = "planning"
    /\ Config.allowHighValue \/ price <= Config.hardCap
    /\ ~Exceeds(price, UserCap)
    /\ quote' = [quote EXCEPT ![c].cost = price, ![c].expires = now + QuoteTTL]
    /\ session' = [session EXCEPT ![Maker[c]] = c]
    /\ Goto(c, "pending")
    /\ UNCHANGED <<wallet, row, history, now>>

RefuseWorkflow(c) ==
    /\ phase[c] = "planning"
    /\ End(c)
    /\ UNCHANGED session

\* From the button to the transaction without an await.
ConfirmWorkflow(c) ==
    /\ phase[c] = "pending"
    /\ c \in Workflow
    /\ session[Maker[c]] = c
    /\ quote[c].expires > now
    /\ session' = [session EXCEPT ![Maker[c]] = NoCall]
    /\ quote' = [quote EXCEPT ![c].presser = Maker[c]]
    /\ row' = [row EXCEPT ![c] = [at |-> now, cents |-> quote[c].cost]]
    /\ Goto(c, "recorded")
    /\ UNCHANGED <<wallet, history, now>>

ExpireWorkflow(c) ==
    /\ phase[c] = "pending"
    /\ c \in Workflow
    /\ session[Maker[c]] = c
    /\ quote[c].expires <= now
    /\ session' = [session EXCEPT ![Maker[c]] = NoCall]
    /\ End(c)

-----------------------------------------------------------------------------
(* The wallet's settings, and time. *)

Edit == edits < MaxEdits /\ edits' = edits + 1

Freeze ==
    /\ Edit
    /\ status = "active"
    /\ status' = "disabled"
    /\ grace' = {c \in Call : phase[c] = "preflight"}
    /\ UNCHANGED <<shared, policy, phase, quote, row, session, before, ahead, now>>

Unfreeze ==
    /\ status = "disabled"
    /\ status' = "active"
    /\ UNCHANGED <<shared, policy, edits, phase, quote, row, session, history, now>>

\* /policy dailycap, weeklycap, allow-skill and block-skill; /groupwallet dailycap.
SetPolicy ==
    /\ Edit
    /\ \/ \E cap \in CapChoice : policy' = [policy EXCEPT !.daily = cap]
       \/ ~shared /\ \E cap \in CapChoice : policy' = [policy EXCEPT !.weekly = cap]
       \/ ~shared /\ \E skill \in {"allowed", "blocked"} : policy' = [policy EXCEPT !.skill = skill]
    /\ policy' # policy
    /\ UNCHANGED <<shared, status, phase, quote, row, session, history, now>>

Tick ==
    /\ now < MaxTime
    /\ now' = now + 1
    /\ UNCHANGED <<wallet, phase, quote, row, session, history>>

Next ==
    \/ \E c \in Call :
           \/ Command(c) \/ PreflightFails(c)
           \/ RunConfirmed(c) \/ RefuseConfirmed(c) \/ Cancel(c)
           \/ Record(c) \/ Fail(c)
           \/ PlanWorkflow(c) \/ RefuseWorkflow(c) \/ ConfirmWorkflow(c) \/ ExpireWorkflow(c)
    \/ \E c \in Call, price \in Price :
           Deny(c, price) \/ AskFirst(c, price) \/ RunAtOnce(c, price) \/ QuoteWorkflow(c, price)
    \/ \E a \in Actor, c \in Call : Confirm(a, c)
    \/ Freeze \/ Unfreeze \/ SetPolicy \/ Tick

Spec == Init /\ [][Next]_vars

-----------------------------------------------------------------------------
(* Properties. *)

\* The columns hold what the code may write; a call is recorded once.
TypeOK ==
    /\ shared \in BOOLEAN
    /\ status \in {"active", "disabled"}
    /\ policy \in [daily : Cap, weekly : Cap, skill : SkillStatus]
    /\ edits \in 0 .. MaxEdits
    /\ phase \in [Call -> Phase]
    /\ quote \in [Call -> Quote]
    /\ row \in [Call -> [at : Nat, cents : Nat]]
    /\ session \in [Actor -> Call \union {NoCall}]
    /\ before \in [Call -> SUBSET Call]
    /\ ahead \in [Call -> SUBSET Call]
    /\ grace \subseteq Call
    /\ now \in Nat

\* The one of `calls' that the policy let pass last.
LastPassed(calls) == CHOOSE c \in calls : calls \ {c} \subseteq before[c]

\* The caps are checked when a quote is made and never again, and calls settle in
\* any order. Still the ledger exceeds the cap a call has passed by no more than
\* the calls that had passed before it without a row yet, and by what the CLI
\* charged over the last quote. Workflow calls, which no cap looks at, aside.
Overshoot(period, cap(_)) ==
    LET calls == {c \in Recorded \ Workflow : row[c].at + period >= now}
        last == LastPassed(calls)
    IN  calls # {} /\ cap(last) # Off =>
            Cents(calls) + quote[last].cost
                <= cap(last) + row[last].cents + Cents(calls \intersect ahead[last])

CapsHoldButForOverlap ==
    /\ Overshoot(Day, LAMBDA c : quote[c].dailyCap)
    /\ Overshoot(Week, LAMBDA c : quote[c].weeklyCap)

Started(c) == phase[c] \in {"executing", "recorded"}

\* docs/security.md: a call over the per-call cap runs only after the button was
\* pressed, by an owner or admin if the wallet is a group's. The one exception is
\* a trusted skill up to its own limit.
OverCapIsApproved ==
    \A c \in Call :
        Started(c) /\ Exceeds(quote[c].cost, UserCap) =>
            \/ quote[c].presser \in (IF shared THEN Admin ELSE {Maker[c]})
            \/ Config.trusted /\ quote[c].cost <= Config.trustedMax

\* Once a wallet is frozen, no paid call starts on it but those of commands that
\* had read the wallet row before: quotes waiting for a button do not. Workflow
\* calls, which look at no status, aside.
FreezeStopsAllButPreflight ==
    [][\A c \in Call :
           status = "disabled" /\ ~Started(c) /\ Started(c)' => c \in grace \union Workflow]_vars

=============================================================================
