--------------------------- MODULE QuoteLifecycle ---------------------------
(***************************************************************************)
(* A paid quote from the command that creates it to the ledger: the rows   *)
(* of the tables `quotes', `transactions' and `sessions', the concurrent   *)
(* invocations of SkillExecutor.execute and executeApprovedQuote under     *)
(* their `actor:' and `quote:' locks, the Telegram and Discord confirm and *)
(* cancel buttons, the execution reconciler, the operator's review, and    *)
(* crashes of a bot process.                                               *)
(*                                                                         *)
(* SQLite calls are synchronous, so what the code does between two awaits, *)
(* or between two statements a crash may separate, is one action here.     *)
(***************************************************************************)
EXTENDS Naturals, FiniteSets

CONSTANTS
    Quote,          \* ids createQuote may hand out
    Actor,          \* chat users of either platform
    Handler,        \* slots for concurrent handler invocations
    Processes,      \* the handlers of each bot process, a partition of Handler
    Requester,      \* [Quote -> Actor]: who the quote is created for
    Confirmers,     \* [Quote -> SUBSET Actor]: whom the ownership checks accept
    DiscordQuote,   \* quotes created and answered on Discord, the rest on Telegram
    LockProvider,   \* LOCK_PROVIDER: "local" or "redis"
    QuoteTTL,       \* PENDING_CONFIRMATION_TTL_SECONDS, in ticks
    LeaseTTL,       \* EXECUTION_LEASE_TTL_MS, in ticks
    LockTTL,        \* EXECUTION_LOCK_TTL_MS, in ticks
    MaxTime,        \* bound: the clock stops here
    MaxCrashes,     \* bound: process crashes in a behaviour
    NoQuote, NoActor,
    Free, Orphan    \* a lock nobody has, a lock whose token is lost

ASSUME QuoteAssumption ==
    /\ Requester \in [Quote -> Actor]
    /\ Confirmers \in [Quote -> SUBSET Actor]
    /\ DiscordQuote \subseteq Quote
    /\ Processes \subseteq SUBSET Handler
    /\ LockProvider \in {"local", "redis"}
    /\ NoQuote \notin Quote
    /\ Free \notin Handler
    /\ Orphan \notin Handler

ASSUME TimeAssumption ==
    /\ QuoteTTL \in Nat \ {0}
    /\ LeaseTTL \in Nat \ {0}
    /\ LockTTL \in Nat \ {0}
    /\ MaxTime \in Nat
    /\ MaxCrashes \in Nat

VARIABLES
    row,            \* table quotes
    ledger,         \* quotes that have their row in table transactions
    session,        \* sessions.state_json: the quote an actor is asked about
    op,             \* what each handler is doing
    lockOwner,      \* lock table: who holds the key
    lockUntil,      \* lock table: when the key lapses
    paid,           \* external: how often upstream charged for the quote
    crashes,
    now

vars == <<row, ledger, session, op, lockOwner, lockUntil, paid, crashes, now>>
locks == <<lockOwner, lockUntil>>

-----------------------------------------------------------------------------
(* The rows. *)

Status == {"none", "pending", "approved", "executing", "succeeded", "failed",
           "execution_unknown", "expired", "canceled"}

Review == {"none", "operator_review_required", "reviewed", "not_required"}

\* SQL NULL in execution_lease_expires_at; leases end after tick 0.
NoLease == 0

QuoteRow == [status : Status, expires : Nat, lease : Nat, attempts : Nat, review : Review]

NoRow == [status |-> "none", expires |-> 0, lease |-> NoLease, attempts |-> 0,
          review |-> "none"]

\* The statuses transitionQuoteStatus may move between.
ValidTransition(from, to) ==
    \/ from = "pending" /\ to \in {"approved", "expired", "canceled"}
    \/ from = "approved" /\ to \in {"executing", "expired", "canceled"}
    \/ from = "executing" /\ to \in {"succeeded", "failed", "execution_unknown"}

\* The row the INSERT of createQuote writes.
NewRow(status) == [status |-> status, expires |-> now + QuoteTTL, lease |-> NoLease,
                   attempts |-> 0, review |-> "none"]

\* Mutant: a misspelt reconciliation_status.
WithStatusMutant(r, to) == [r EXCEPT !.status = to, !.review = "review_required"]

\* The SET clause that updateQuoteStatus and transitionQuoteStatus share.
WithStatus(r, to) ==
    [r EXCEPT
        !.status = to,
        !.lease  = IF to \in {"succeeded", "failed", "execution_unknown"} THEN NoLease ELSE @,
        !.review = CASE to = "execution_unknown"          -> "operator_review_required"
                     [] to \in {"succeeded", "failed"}    -> "not_required"
                     [] OTHER                             -> @]

\* updateQuoteStatus: no condition on the status the row has.
UpdateStatus(q, to) == [row EXCEPT ![q] = WithStatus(@, to)]

\* transitionQuoteStatus: compare and swap on the status.
TransitionStatus(q, from, to) ==
    IF ValidTransition(from, to) /\ row[q].status = from THEN UpdateStatus(q, to) ELSE row

\* The WHERE clause of atomicApproveQuote.
CanApprove(q) == row[q].status = "pending" /\ row[q].expires > now

\* Mutant: the WHERE clause without its condition on the status.
CanBeginMutant(q) == row[q].expires > now

\* The WHERE clause of atomicBeginQuoteExecution.
CanBegin(q) == row[q].status \in {"pending", "approved"} /\ row[q].expires > now

\* The SET clause of atomicBeginQuoteExecution.
Begun(r) == [r EXCEPT !.status = "executing", !.lease = now + LeaseTTL,
                      !.attempts = @ + 1, !.review = "none"]

\* The WHERE clause of listExpiredExecutingQuotes.
LeaseExpired(q) ==
    row[q].status = "executing" /\ row[q].lease # NoLease /\ row[q].lease <= now

-----------------------------------------------------------------------------
(* Handlers and locks. *)

\* Unlocking handlers have run and are about to release what they hold.
Unlocking == {"failed", "quoted", "completed"}

Running == {"fetching", "formatting", "recorded"}

PC == {"idle", "lockActor", "lockQuote", "preflight", "check", "approved"}
      \union Running \union Unlocking

Op == [pc : PC, kind : {"command", "confirm"}, actor : Actor \union {NoActor},
       task : Quote \union {NoQuote}]

Idle == [pc |-> "idle", kind |-> "command", actor |-> NoActor, task |-> NoQuote]

At(h, pc) == op[h].pc = pc
Goto(h, pc) == op' = [op EXCEPT ![h].pc = pc]

LockKey == Quote \union Actor

\* A lease lock: a key is for the taking when nobody has it or its TTL has passed.
Available(k) == lockOwner[k] = Free \/ lockUntil[k] <= now

Take(h, k) ==
    /\ Available(k)
    /\ lockOwner' = [lockOwner EXCEPT ![k] = h]
    /\ lockUntil' = [lockUntil EXCEPT ![k] = now + LockTTL]

Held(h) == {k \in LockKey : lockOwner[k] = h}

\* Keys are deleted, or left to their TTL with nobody knowing the token. Only
\* the owner's token deletes a key: one taken over since is left alone.
Release(freed, orphaned) ==
    /\ lockOwner' = [k \in LockKey |-> CASE k \in freed    -> Free
                                        [] k \in orphaned -> Orphan
                                        [] OTHER          -> lockOwner[k]]
    /\ lockUntil' = [k \in LockKey |-> IF k \in freed THEN 0 ELSE lockUntil[k]]

\* Mutant: the session keeps the confirmation it was asked to give up.
ConsumeSessionMutant(q) == session

\* consumeSessionState: compare and swap of state_json to NULL.
ConsumeSession(q) ==
    IF session[Requester[q]] = q
    THEN [session EXCEPT ![Requester[q]] = NoQuote]
    ELSE session

\* What the caller of the locked section does to the session when it returns.
SessionAfter(h) ==
    LET o == op[h] IN
    CASE o.kind = "command" /\ o.pc = "quoted"    -> [session EXCEPT ![o.actor] = o.task]
      [] o.kind = "command" /\ o.pc = "completed" -> [session EXCEPT ![o.actor] = NoQuote]
      [] /\ o.kind = "confirm"
         /\ o.pc = "completed"
         /\ o.task \in DiscordQuote               -> ConsumeSession(o.task)
      [] OTHER                                    -> session

Init ==
    /\ row = [q \in Quote |-> NoRow]
    /\ ledger = {}
    /\ session = [a \in Actor |-> NoQuote]
    /\ op = [h \in Handler |-> Idle]
    /\ lockOwner = [k \in LockKey |-> Free]
    /\ lockUntil = [k \in LockKey |-> 0]
    /\ paid = [q \in Quote |-> 0]
    /\ crashes = 0
    /\ now = 0

-----------------------------------------------------------------------------
(* runSkillCommand and SkillExecutor.execute. *)

\* A command resets the session and asks for the actor's lock. Bound: it
\* starts early enough for its quote's lease to end before the clock stops.
StartCommand(h, a) ==
    /\ At(h, "idle")
    /\ now + QuoteTTL + LeaseTTL <= MaxTime
    /\ \E q \in Quote : Requester[q] = a /\ row[q].status = "none"
    /\ session' = [session EXCEPT ![a] = NoQuote]
    /\ op' = [op EXCEPT ![h] = [Idle EXCEPT !.pc = "lockActor", !.actor = a]]
    /\ UNCHANGED <<row, ledger, locks, paid, crashes, now>>

LockActor(h) ==
    /\ At(h, "lockActor")
    /\ Take(h, op[h].actor)
    /\ Goto(h, IF op[h].kind = "command" THEN "preflight" ELSE "lockQuote")
    /\ UNCHANGED <<row, ledger, session, paid, crashes, now>>

\* RedisLockManager.acquire throws, the key being held or Redis down; the
\* local lock manager waits instead.
LockUnavailable(h) ==
    /\ LockProvider = "redis"
    /\ op[h].pc \in {"lockActor", "lockQuote"}
    /\ Goto(h, "failed")
    /\ UNCHANGED <<row, ledger, session, locks, paid, crashes, now>>

\* Wallet, rate limit, balance, price check or policy refuses the command.
PreflightFails(h) ==
    /\ At(h, "preflight")
    /\ Goto(h, "failed")
    /\ UNCHANGED <<row, ledger, session, locks, paid, crashes, now>>

\* createQuote; the policy, or the caller's forceConfirmation, then decides
\* between asking the user and approving on the spot (atomicApproveQuote).
CreateQuote(h, q, status, pc) ==
    /\ At(h, "preflight")
    /\ row[q].status = "none"
    /\ Requester[q] = op[h].actor
    /\ row' = [row EXCEPT ![q] = NewRow(status)]
    /\ op' = [op EXCEPT ![h].pc = pc, ![h].task = q]
    /\ UNCHANGED <<ledger, session, locks, paid, crashes, now>>

QuoteForConfirmation(h, q) == CreateQuote(h, q, "pending", "quoted")

QuoteAutoApproved(h, q) == CreateQuote(h, q, "approved", "approved")

-----------------------------------------------------------------------------
(* SkillExecutor._runApprovedQuote, under the locks of its caller. *)

\* assertWalletCanSpend or the paid_execution rate limit throws: the quote
\* stays approved.
RunBlocked(h) ==
    /\ At(h, "approved")
    /\ Goto(h, "failed")
    /\ UNCHANGED <<row, ledger, session, locks, paid, crashes, now>>

\* atomicBeginQuoteExecution, then the AgentCash CLI is started.
BeginExecution(h) ==
    /\ At(h, "approved")
    /\ CanBegin(op[h].task)
    /\ row' = [row EXCEPT ![op[h].task] = Begun(@)]
    /\ Goto(h, "fetching")
    /\ UNCHANGED <<ledger, session, locks, paid, crashes, now>>

ExecutionAlreadyStarted(h) ==
    /\ At(h, "approved")
    /\ ~CanBegin(op[h].task)
    /\ Goto(h, "failed")
    /\ UNCHANGED <<row, ledger, session, locks, paid, crashes, now>>

\* External: upstream charged the call and fetchJson returns its result.
FetchReturns(h) ==
    /\ At(h, "fetching")
    /\ paid' = [paid EXCEPT ![op[h].task] = @ + 1]
    /\ Goto(h, "formatting")
    /\ UNCHANGED <<row, ledger, session, locks, crashes, now>>

\* Mutant: a failed call makes the quote confirmable again.
AfterThrowMutant(q) ==
    IF row[q].status = "executing" THEN [row EXCEPT ![q].status = "pending"] ELSE row

\* Mutant: a failed call is only logged.
AfterThrowSilentMutant(q) == row

AfterThrow(q) == TransitionStatus(q, "executing", "execution_unknown")

\* The catch block: the CLI failed or timed out, upstream having charged or
\* not, or the result could not be polled or formatted.
ExecutionThrows(h) ==
    LET q == op[h].task IN
    /\ op[h].pc \in {"fetching", "formatting"}
    /\ \E charge \in (IF At(h, "fetching") THEN {0, 1} ELSE {0}) :
           paid' = [paid EXCEPT ![q] = @ + charge]
    /\ row' = AfterThrow(q)
    /\ Goto(h, "failed")
    /\ UNCHANGED <<ledger, session, locks, crashes, now>>

\* createTransaction; the unique index on idempotency_key admits one row.
RecordTransaction(h) ==
    /\ At(h, "formatting")
    /\ op[h].task \notin ledger
    /\ ledger' = ledger \union {op[h].task}
    /\ Goto(h, "recorded")
    /\ UNCHANGED <<row, session, locks, paid, crashes, now>>

\* transitionQuoteStatus executing -> succeeded, whose result is not looked at.
SettleQuote(h) ==
    /\ At(h, "recorded")
    /\ row' = TransitionStatus(op[h].task, "executing", "succeeded")
    /\ Goto(h, "completed")
    /\ UNCHANGED <<ledger, session, locks, paid, crashes, now>>

\* The finally blocks of withLock, then what the caller does with the result.
Unlock(h) ==
    /\ op[h].pc \in Unlocking
    /\ Release(Held(h), {})
    /\ session' = SessionAfter(h)
    /\ op' = [op EXCEPT ![h] = Idle]
    /\ UNCHANGED <<row, ledger, paid, crashes, now>>

\* RedisLockManager.release throws from the finally block: some key is left to
\* its TTL and the error replaces the result, whatever that was.
UnlockFails(h) ==
    /\ LockProvider = "redis"
    /\ op[h].pc \in Unlocking
    /\ \E left \in SUBSET Held(h) :
           left # {} /\ Release(Held(h) \ left, left)
    /\ op' = [op EXCEPT ![h] = Idle]
    /\ UNCHANGED <<row, ledger, session, paid, crashes, now>>

-----------------------------------------------------------------------------
(* The confirm and cancel buttons, and SkillExecutor.executeApprovedQuote. *)

\* A confirm button is answered while the requester's session holds the quote.
PressConfirm(h, a, q) ==
    /\ At(h, "idle")
    /\ session[Requester[q]] = q
    /\ a \in Confirmers[q]
    /\ op' = [op EXCEPT ![h] = [pc |-> "lockActor", kind |-> "confirm",
                                actor |-> a, task |-> q]]
    /\ UNCHANGED <<row, ledger, locks, paid, crashes, now>>

\* Telegram gives up the session before the execution ...
ConfirmTelegram(h, a, q) ==
    /\ q \notin DiscordQuote
    /\ PressConfirm(h, a, q)
    /\ session' = ConsumeSession(q)

\* ... Discord after it, and only if it completes.
ConfirmDiscord(h, a, q) ==
    /\ q \in DiscordQuote
    /\ PressConfirm(h, a, q)
    /\ UNCHANGED session

LockQuote(h) ==
    /\ At(h, "lockQuote")
    /\ Take(h, op[h].task)
    /\ Goto(h, "check")
    /\ UNCHANGED <<row, ledger, session, paid, crashes, now>>

RejectReplay(h) ==
    /\ At(h, "check")
    /\ row[op[h].task].status # "pending"
    /\ Goto(h, "failed")
    /\ UNCHANGED <<row, ledger, session, locks, paid, crashes, now>>

ExpireQuote(h) ==
    LET q == op[h].task IN
    /\ At(h, "check")
    /\ row[q].status = "pending"
    /\ row[q].expires <= now
    /\ row' = UpdateStatus(q, "expired")
    /\ Goto(h, "failed")
    /\ UNCHANGED <<ledger, session, locks, paid, crashes, now>>

\* atomicApproveQuote.
ApproveQuote(h) ==
    /\ At(h, "check")
    /\ CanApprove(op[h].task)
    /\ row' = [row EXCEPT ![op[h].task].status = "approved"]
    /\ Goto(h, "approved")
    /\ UNCHANGED <<ledger, session, locks, paid, crashes, now>>

\* Neither lock is taken, and updateQuoteStatus does not look at the status.
PressCancel(q) ==
    /\ session[Requester[q]] = q
    /\ session' = ConsumeSession(q)
    /\ row' = UpdateStatus(q, "canceled")
    /\ UNCHANGED <<ledger, op, locks, paid, crashes, now>>

CancelTelegram(q) == q \notin DiscordQuote /\ PressCancel(q)

CancelDiscord(q) == q \in DiscordQuote /\ PressCancel(q)

-----------------------------------------------------------------------------
(* Recovery, the operator, crashes and time. *)

\* Mutant: the reconciler takes an expired lease for a finished execution.
ReconciledMutant(q) == UpdateStatus(q, "succeeded")

\* Mutant: the reconciler sweeps expired executions as expired quotes.
ReconciledSweepMutant(q) ==
    UpdateStatus(q, IF q \in ledger THEN "succeeded" ELSE "expired")

\* reconcileQuote: a transaction row proves success, else the operator decides.
Reconciled(q) ==
    TransitionStatus(q, "executing", IF q \in ledger THEN "succeeded" ELSE "execution_unknown")

\* One iteration of ExecutionReconciler.runOnce.
Reconcile(q) ==
    /\ LeaseExpired(q)
    /\ row' = Reconciled(q)
    /\ UNCHANGED <<ledger, session, op, locks, paid, crashes, now>>

\* scripts/mark-execution-reviewed.ts.
MarkReviewed(q) ==
    /\ row[q].status = "execution_unknown"
    /\ row' = [row EXCEPT ![q].review = "reviewed"]
    /\ UNCHANGED <<ledger, session, op, locks, paid, crashes, now>>

\* A bot process dies with its handlers. CLI calls in flight may still be
\* charged. Local locks die with the process, Redis keys live out their TTL.
Crash(hs) ==
    /\ crashes < MaxCrashes
    /\ \E charged \in SUBSET {h \in hs : At(h, "fetching")} :
           paid' = [q \in Quote |->
                       IF \E h \in charged : op[h].task = q THEN paid[q] + 1 ELSE paid[q]]
    /\ op' = [h \in Handler |-> IF h \in hs THEN Idle ELSE op[h]]
    /\ LET lost == UNION {Held(h) : h \in hs}
       IN  IF LockProvider = "redis" THEN Release({}, lost) ELSE Release(lost, {})
    /\ crashes' = crashes + 1
    /\ UNCHANGED <<row, ledger, session, now>>

Tick ==
    /\ now < MaxTime
    /\ now' = now + 1
    /\ UNCHANGED <<row, ledger, session, op, locks, paid, crashes>>

-----------------------------------------------------------------------------

\* The steps a live process takes by itself once a handler is running.
Proceed(h) ==
    \/ LockActor(h) \/ LockQuote(h) \/ LockUnavailable(h)
    \/ PreflightFails(h)
    \/ \E q \in Quote : QuoteForConfirmation(h, q) \/ QuoteAutoApproved(h, q)
    \/ RejectReplay(h) \/ ExpireQuote(h) \/ ApproveQuote(h)
    \/ RunBlocked(h) \/ BeginExecution(h) \/ ExecutionAlreadyStarted(h)
    \/ FetchReturns(h) \/ ExecutionThrows(h)
    \/ RecordTransaction(h) \/ SettleQuote(h)
    \/ Unlock(h) \/ UnlockFails(h)

Next ==
    \/ \E h \in Handler : Proceed(h)
    \/ \E h \in Handler, a \in Actor :
           \/ StartCommand(h, a)
           \/ \E q \in Quote : ConfirmTelegram(h, a, q) \/ ConfirmDiscord(h, a, q)
    \/ \E q \in Quote : CancelTelegram(q) \/ CancelDiscord(q)
    \/ \E q \in Quote : Reconcile(q) \/ MarkReviewed(q)
    \/ \E hs \in Processes : Crash(hs)
    \/ Tick

Spec == Init /\ [][Next]_vars

\* A handler that can go on does: the CLI runs under AGENTCASH_TIMEOUT_MS, and
\* everything else is the event loop's. No fairness for users, the reconciler
\* (nothing schedules it), the operator, crashes or the clock.
FairSpec == Spec /\ \A h \in Handler : WF_vars(Proceed(h))

-----------------------------------------------------------------------------
(* Properties. *)

\* The columns hold what the schema and the code's unions allow.
TypeOK ==
    /\ row \in [Quote -> QuoteRow]
    /\ ledger \subseteq Quote
    /\ session \in [Actor -> Quote \union {NoQuote}]
    /\ op \in [Handler -> Op]
    /\ lockOwner \in [LockKey -> Handler \union {Free, Orphan}]
    /\ lockUntil \in [LockKey -> Nat]
    /\ paid \in [Quote -> Nat]
    /\ crashes \in Nat
    /\ now \in Nat

\* No quote is ever submitted, or charged, twice: whatever double clicks, lapsed
\* locks, failed calls, crashes and the reconciler do, atomicBeginQuoteExecution
\* succeeds at most once for a quote and every charge has its submission.
PaidOnce == \A q \in Quote : row[q].attempts <= 1 /\ paid[q] <= row[q].attempts

\* A transactions row is written only for a call upstream charged, and a quote
\* is settled as succeeded, by its handler or by the reconciler, only with one.
LedgerBacked ==
    \A q \in Quote :
        /\ q \in ledger => paid[q] = 1
        /\ row[q].status = "succeeded" => q \in ledger

\* Money leaves a trace someone looks at: a Telegram quote upstream charged is
\* in flight, settled, or in the operator's list of unknown executions.
PaidIsAccounted ==
    \A q \in Quote \ DiscordQuote :
        paid[q] > 0 => row[q].status \in {"executing", "succeeded", "execution_unknown"}

\* listExpiredExecutingQuotes will find every execution a crash abandons: the
\* row always carries a lease that ends within EXECUTION_LEASE_TTL_MS.
ExecutingIsRecoverable ==
    \A q \in Quote :
        row[q].status = "executing" => row[q].lease \in (NoLease + 1) .. (now + LeaseTTL)

\* A Telegram quote moves along the documented status machine only, although
\* updateQuoteStatus, which cancel and expiry use, checks nothing: consuming the
\* session first makes confirm and cancel exclude each other.
TelegramStatusMachine ==
    [][\A q \in Quote \ DiscordQuote :
           row[q].status \notin {"none", row'[q].status}
               => ValidTransition(row[q].status, row'[q].status)]_row

\* The same quote, seen through what its money did, keeps the promise of PaidCall.
phaseBar ==
    [q \in Quote |->
        CASE q \in ledger                             -> "recorded"
          [] q \notin ledger /\ row[q].attempts > 0   -> "called"
          [] OTHER -> IF row[q].status \in {"expired", "canceled"} THEN "closed" ELSE "open"]

Promise == INSTANCE PaidCall WITH phase <- phaseBar

PromiseSpec == Promise!Spec

\* An execution does not stay open while its process lives: the catch block and
\* the settling step between them leave no path out that keeps `executing'.
ExecutingSettles ==
    \A q \in Quote : row[q].status = "executing" ~> row[q].status # "executing" \/ crashes > 0

\* docs/concurrency.md: canceled is reached from pending and approved only, so
\* nothing was submitted for a canceled quote.
CanceledNeverExecuted == \A q \in Quote : row[q].status = "canceled" => row[q].attempts = 0

=============================================================================
