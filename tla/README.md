# A TLA+ specification of agentcash-telegram

agentcash-telegram is a Telegram and Discord bot that buys API calls (research,
enrichment, image generation) for its users out of custodial USDC wallets.  It
keeps everything in one SQLite database and pays through the AgentCash CLI.  What
must not go wrong is the money: a call paid twice, paid without consent, paid from
a frozen wallet, or paid and forgotten.  These modules model the part of the
program that decides this, check it with TLC and prove the central facts with
TLAPS.  `PROJECT.json` maps every definition to the lines it models and lists the
runs, the theorems and the hazards.

## Inventory

| Component (source) | State it keeps | Operations | Interacts with | Correct when |
|---|---|---|---|---|
| Skill executor (`agentcash/skillExecutor.ts`) | none of its own: rows of `quotes`, `transactions` | `execute`, `executeApprovedQuote`, `_runApprovedQuote` | locks, policy, database, CLI | a quote is submitted at most once, a success has a ledger row, an unknown outcome is kept for the operator |
| Quote rows (`db/client.ts`) | status, expiry, lease, attempts, review | create, `atomicApproveQuote`, `atomicBeginQuoteExecution`, `transitionQuoteStatus`, `updateQuoteStatus` | executor, buttons, reconciler | the documented status machine |
| Confirm and cancel buttons (`bot.ts`, `discordBot.ts`) | `sessions.state_json` | consume the session, confirm, cancel | executor | one answer per question |
| Reconciler and review (`workers/executionReconciler.ts`, `scripts/`) | `reconciliation_status` | `runOnce`, `markExecutionReviewed` | quote rows | no abandoned execution is lost, none is called a success without evidence |
| Locks (`locks/LockManager.ts`) | map of tokens, expiries, promises; Redis keys | `withLock` | executor, wallets | one holder within the TTL, waiters are woken |
| Policy engine (`policy/PolicyEngine.ts`) | `wallet_policies`, `skill_policies`, `policy_decisions` | `evaluate` | ledger sums | caps, blocks and approvals as configured |
| Freeze controls, `/policy` | `wallets.status`, policies | freeze, unfreeze, caps, skills | executor | a frozen wallet pays nothing |
| Research workflow (`research/`) | quote rows, transactions | plan, confirm | database | the same controls as any other call |
| Wallet provisioning (`wallets/walletManager.ts`), custody (`custody/`) | `wallets`, `key_versions`, `wallet_keys`, key files | get-or-create, capture, rotate | CLI, locks | a key is never replaced or lost |
| Audit outbox (`audit/`) | `audit_events.shipped_at` | ship, retry | sink | every event is shipped |
| Inline payloads (`lib/inlinePayload.ts`) | `inline_payloads.consumed_at` | create, verify, consume | `/start` | one command per preview, and it asks before it pays |
| Gateway and pairing (`gateway/`) | `gateway_pairing_codes` | issue, approve, expire, revoke | bots, operator | only listed actors pass; the newest code alone can be approved; who is revoked stays out |
| Group governance (`commands/groupWallet.ts`, `telegram/adminVerifier.ts`) | `group_members`, `telegram_admin_verifications` | create, verify, sync admins, caps, approve | executor | one owner; caps and over-cap calls are in the hands of the admins the chat has, or had minutes ago |
| Rate limits (`db/client.ts`) | `request_events` | check and record | executor, router | a bounded number of events per window |
| CLI client, router, analytics, config, health, logging | none that outlives a call | | | |

The hard behaviours, each at its line under "hazards" in `PROJECT.json`:

* Handlers interleave at every `await`, and the awaits last as long as a CLI call:
  up to 120 s plus 60 s of polling, while a lock and an execution lease last 120 s.
  So a lock may lapse, and the reconciler may act, while the call they protect runs.
* Two bot processes may share the database over Redis locks; a lock request may
  fail, and so may a release, after a paid call has completed.
* A process may die between the charge and the ledger row, or between the row and
  the status.
* Buttons may be pressed twice, together, late, or by two people of one guild.
* State is read before an await and used after it (the wallet row); caps are
  checked when a quote is made and calls settle later, in any order.
* The platform changes a group's admins when it likes; the bot asks, and uses the answer
  after further awaits, or from a table five minutes later.
* Operators' scripts write the database between any two statements of the bot.

## Modules

| Module | What it is |
|---|---|
| `PaidCall` | the abstract promise: a quote is open, closed unpaid, called once, recorded once |
| `QuoteLifecycle` | the rows, handlers, locks, buttons, reconciler and crashes; implements `PaidCall` |
| `QuoteLifecycleProofs` | its theorems |
| `LeaseLock` | the abstract promise of `withLock`: one holder per key, until it leaves or its TTL passes; who leaves frees a key only as its holder |
| `LocalLock` | `LocalLockManager` turn by turn, promises and nesting included; implements `LeaseLock` |
| `LocalLockProofs` | its theorems, the implementation among them |
| `PolicyEngine` | `evaluate` as a list of rules of which the first that applies decides |
| `SpendControl` | one wallet, its settings and the paid calls from it; extends `PolicyEngine` |
| `SpendControlProofs` | its theorems: types, freezes, approvals and caps |
| `WalletKeys` | one custodial wallet: its row, key versions and `wallet.json`, and the commands that provision, show, rotate and freeze it |
| `WalletKeysProofs` | theorems that keys are neither overwritten nor lost |
| `AuditOutbox` | the rows of `audit_events` and the workers that ship them |
| `AuditOutboxProofs` | its theorems |
| `Gateway` | who is let in: the policy of updates, the allowlist, pairing codes of the bot and the scripts |
| `GatewayProofs` | its theorems |
| `Intake` | how a request comes in: rate limits, commands and the links of inline previews |
| `IntakeProofs` | its theorems |
| `GroupGovernance` | one group: its roles, the platform's admins and what the bot last heard of them |
| `GroupGovernanceProofs` | its theorems |
| `MC*` | the instances for TLC, where a cfg alone does not do |

**QuoteLifecycle and the code.** A *handler* is one invocation of `runSkillCommand`
or of a confirm callback; its `pc` is the await it is suspended at.  SQLite is
synchronous, so the statements between two awaits are one action, except where a
crash could separate two that matter (the transaction row and the status after it);
there the model is finer than one process would be, as another process is free to act
in between.  `row` is the table `quotes`, `ledger` the
quotes with a `transactions` row, `session` the question each actor is asked.
`paid` is no variable of the program: it counts what upstream charged, and a failing
CLI call may have been charged or not.  Locks are lease locks, what `LocalLock`
is shown to be and `SET NX PX` is on Redis, where acquiring may fail at any time, a
release may fail, and the keys of a dead process live out their TTL.  Ownership checks
are the constant `Confirmers`; wallet, balance, price, rate limit and policy are one
action, `PreflightFails`, that may refuse any command.

**LocalLock and the code.** `entry` is the map's token for a key, `resolved` the
promises that were resolved, `awaits` the promise a caller is parked on.
A caller whose promise belongs to a state that was taken over is never woken by
its release, because the tokens differ: `Orphaned`.  The refinement maps who is inside
`withLock` of a key (`Inside`) as well as who has it, so that the release of a call whose
lock was taken over must be a step that leaves the key alone (`LeaveLate`).

**SpendControl and the code.** A *call* is a quote with the command that makes it. A
command reads the wallet row (`Command`), awaits balance and price, and is then
decided (`Deny`, `AskFirst`, `RunAtOnce`) on the old row but the current policy and
ledger.  Confirmed quotes read the row again (`RunConfirmed`).  `before`, `ahead` and
`grace` are history variables that only the properties read.  The phase `recorded` is a
transaction in status submitted or success, as the caps count both; so a research plan
that dies while its report is compiled, which calls nothing outside the process, has
been recorded already.  The actor's lock is left
out: it lapses while a command awaits the CLI, so nothing here may lean on it.  Rule 2
of the policy, `deny_frozen`, can never decide, since the same row has
just been asserted; it is in `Rules` because it is in the code.

**WalletKeys and the code.** `kind` is whose wallet it is, because the code differs: a
user's balance and address provision the wallet first, a group's do not, and
`/groupwallet create` does nothing once the chat has a row.  A *command* is one of
these; its `pc` is the await it is suspended at, `snap` the row it read before.  The
CLI is external: it uses `X402_PRIVATE_KEY` if the bot sets it, else `wallet.json`, else
it makes a key and writes the file, at one moment of the call.  What follows the
call (`captureWallet`, `updateWallet`, `recordWalletKeyIfMissing`) is synchronous and one
action, `Save`, with the places where the process may die in `DiesSaving`; other
statement-level interleavings of two processes are left out.  A lock that cannot be
taken or released is a command that dies (`Dies`) and a lock that lapses (`Lapse`).
`overruns` counts the locks that lapsed under a call, as the 120 s of a lock may under a larger
`AGENTCASH_TIMEOUT_MS`; what is claimed until the first and what after it is in each property.
Encryption is a bijection and left out; an address stands for its key.
`rotateLocalDemoWalletKey` is reached by tests only and modelled as they call it, on a
wallet that has a key.  `published`, `torn` and `overruns` are history variables.
Three things the code does here that no document speaks of: a freeze of a wallet that
has no key yet is undone by provisioning; a chat wallet whose provisioning failed is
never tried again by `/groupwallet create`, so its key stays in `wallet.json`; and a group
balance that races its provisioning can store the address of a key that is only in
`wallet.json`.

**AuditOutbox and the code.** A worker's `batch` is what is left of the `rows` that its
`runOnce` goes through, `pc` whether it awaits the sink or has its answer; `running` is
set exactly while `batch` is not empty.  `born` is the order of `created_at`, taken to be
strict.  The sink may reject any event at any time and rejects those of `Poison`
always; what it stores while the answer is lost, the update throws or the process
dies is in `copies`, which is no variable of the program.  `Dies` is also what the code
does when a statement throws outside a catch: `runOnce` is started with `void`, and its
rejection ends the process.  `ship_attempts` is left out, since nothing reads it.

**Gateway and the code.** `Verdict` is `evaluatePolicy` rule by rule.  The allowlist is
hashed once, when the bot starts (`Restart`), each entry of it whatever it is.  Buttons
pass the policy unasked, so an actor who was taken off the list may still answer the
question that was open.  `issuePairingCode` is two statements, `Issue` and `Insert`, with
the scripts free to run in between; `approve-pairing` is two as well, `LookUp` and
`Approve`.  Revocation ends codes and changes no list.  Discord issues no code: it tells the
stranger to ask for one, which a stranger cannot.  `listed` and `barred` are history variables.

**Intake and the code.** `events` is `request_events`.  All limits count every event of a user in
that one table, whatever its name, so quotes and updates use up the limit of paid
calls; an admitted event and a refused update both prune (`Recent`).  Each message or button
on Telegram is an update first (`Update`, `RefuseUpdate`, `OtherUpdate`); Discord has no
such limit, and the research workflow asks none.  A preview's row goes from open to consumed by one
conditional update (`Consume`), after a lookup and a verification that may be of another time.
A consumed preview runs its command with `forceConfirmation` (`MustAsk`).  Signatures are taken to be sound.

**GroupGovernance and the code.** `status` is what the platform says of a user, `role` the
table `group_members`; `platform` tells Telegram from Discord, whose commands differ.  A user has
one command open at a time; its `job` has the await it is suspended at, and how old (`late`) the
answer is that it holds.  Times are kept as ages: `age` counts the ticks since a user was last an
admin, `fresh` those a verification is still good for.  A sync asks for the list of admins,
promotes those it knows (`Promote`) and demotes the others; on Telegram an owner who is not on the
list is asked about in between and demoted only if gone (`OwnerAnswer`, `Settle`); on Discord
an owner on the list becomes an admin, and no owner is ever demoted.  What the code lets happen here and the properties allow for: two overlapping
syncs may promote again whom the later list no longer has; a sync that fails halfway
leaves the demotions after that point undone; the role is not asked again after the platform has
answered a cap command.  `quiet` is a history variable: the syncs whose list is still what
the platform says and over which no sync with an older list has written.  Syncs with current
lists may overlap, and each of them must end with the platform's roles; what those with older
lists may write is bounded by `RightsAreRecent`.  `/freeze` and `/unfreeze` of a group ask the same question
of the platform, and what they do is `SpendControl`'s.

Left out of all modules, as no property is about it: audit rows, preflight logging,
message texts, hashing, and SQL errors.

## Runs

| Run | Question | Answer |
|---|---|---|
| `quote_telegram` | Two quotes of one user, two processes, Redis: do confirm, cancel and auto-approved runs keep out of each other's way? | `TelegramStatusMachine` and `PaidIsAccounted` hold; cancel checks no status, the session token alone protects it |
| `quote_discord` | A guild quote two people may answer: paid once, recorded, settled? | `PaidOnce`, `LedgerBacked`, `ExecutingSettles` hold and `PaidCall` is implemented |
| `quote_discord_cancel` | Is a canceled quote never a submitted one? | no: Discord keeps the session until the call returns, and cancel overwrites `executing` |
| `local_lock` | Is `LocalLockManager` a lease lock, and who can wait for ever? | yes; only those who wait behind a body that outlives its TTL |
| `spend_control` | How good are the caps, approvals and freezes with calls in flight? | the rolling caps are overshot by no more than what was in flight; over-cap calls are approved by the right person; a freeze stops all but commands that had begun |
| `spend_first` | Are over-cap group calls approved by an admin even with the first-spend rule on? | no: that rule comes first and asks the requester only |
| `wallet_keys` | Three commands, rotations, freezes, failing calls, dying processes, a call that outlives its lock: is the key of every address ever shown kept, does the wallet pay with the key it says, and what is overwritten? | until a call outlives its lock, yes, but for a key whose process dies while storing it; after one such call a provisioning may overwrite a key, which stays a version unless a process died before it was one |
| `gateway` | Two actors, restarts with other lists, scripts between any two statements: who is let in, which codes can be approved? | only listed actors are ever asked about money; only the newest code of an actor that has not expired is approved; who is revoked has no usable code until a new one is issued |
| `gateway_pairing` | Is an actor whose code was approved let in? | no: no rule reads approved codes, and the printed hash is hashed again when put on the list |
| `intake` | Two users open one link, with updates, quotes and paid calls counted in one table: what is bounded? | one command per preview, which always asks; no more paid calls in a window than the limit |
| `group_governance` | Racing creates, overlapping syncs, changes of the caps and over-cap calls while the platform's admins change | one owner, the creator; a sync leaves the platform's list unless that changed or a sync with an older list wrote; rights go only to who was an admin within the delay of an answer; who takes a risk was an admin within the lifetime of a verification and the delay of an answer |
| `audit_outbox` | Two workers, a sink that rejects an event always and others at times, a fault: is what is marked in the sink, how often, and is every other event shipped? | yes; at most once per worker and fault; yes, while fewer events than a round takes are rejected always |

The three runs expected to fail are disagreements of the code with a sentence of its
documentation; "findings" in `PROJECT.json` quotes them.  Five more were met while modelling.
The models do what the code does there, and the properties are stated so as to allow for it:

* A call that outlives its lease and then succeeds leaves its quote `execution_unknown`
  with a successful transaction (`skillExecutor.ts:798`; `docs/execution-reconciliation.md:15` and
  `:64` say that nothing proves the success).
* A command that read the wallet before a freeze still pays (`skillExecutor.ts:384`; `README.md:106`).
  `FreezeStopsAllButPreflight` says that nothing else does.
* The research workflow makes quotes that pass no `PolicyEngine`
  (`ResearchWorkflowService.ts:106`; `README.md:100`).  The properties of `SpendControl` name its calls as exceptions.
* With `AGENTCASH_TIMEOUT_MS` above the lock's TTL, provisioning may overwrite a key, because
  the mismatch check compares with the row read before the call (`walletManager.ts:85`; `docs/security.md:64`).
  `OverwrittenKeyIsVersion` says what becomes of that key.
* `RATE_LIMIT_PAID_EXECUTION_MAX_PER_MINUTE` is used up by updates and quote preflights too (`db/client.ts:1910`;
  `.env.example:65`).  `PaidRateBounded` therefore bounds paid calls and promises no call.

**Bounds.** `QuoteLifecycle`: two handlers are enough for every race of two
answers, an answer and a command, or an answer and the reconciler; two quotes of one
user share its session; `LockTTL = LeaseTTL = 1` and `QuoteTTL = 2` let locks and
leases lapse inside a call and a quote outlive them or expire first; `MaxTime = 3`
covers a quote and its lease (`StartCommand` starts none that the clock would cut
off); one crash.  `LocalLock`: three calls meet at one key with one more nesting
each, `TTL = 2` of `MaxTime = 4`, so bodies are shorter and longer than their TTL
and a key is taken over twice.  `SpendControl`: two commands and a plan; prices 2, 3 and 4
against a per-call cap of 2, a hard cap of 3, a daily cap of 4 or 3, a weekly and a
group cap of 5, so that one call fits, two fit or not depending on what they cost, and
the hard, daily, weekly and group caps, the skill block, the confirmation and the
admin's threshold each decide some command.  The trusted-skill, high-cost and
first-spend rules are off, as by default; the last one is on in `spend_first`.  A day is
one tick and a week two; two changes of settings, so that a wallet is frozen between
changes of caps.
`WalletKeys`: three commands, so that two race while a third shows an address or retries
after a failure; three keys, enough for one in the file, one in the row and one by
rotation, or two rotations; one call outlives its lock, so that two provision at once (a third of
them needs a second overrun, and may overwrite a key that is no version).
`AuditOutbox`: two workers race for one event; three events, one of them rejected always,
with rounds of two, so that it takes a place in every round and there is more than one
round; one fault, so that each kind of fault meets every state (the proofs are for
any number).  `Gateway`: one actor on each platform, as what one does touches no
row of the other but the allowlist; three codes of one tick each in two ticks, so that a code
is replaced, expires, and is issued again after a revocation.  `Intake`: two users whose
links are copies of one, and a third command; a minute is one instant and an hour two ticks, and a call
waits for longer than either; five events of an hour are enough to be refused by each limit.
`GroupGovernance`: two people, since a command touches its caller's role and the admins'; a
verification is good for one tick and an answer one tick old, so that both go stale while
a command waits; both may have a command open.
`CHECK_DEADLOCK FALSE` is set where the clock, the quotes, the commands, the codes or the events
run out; `GroupGovernance` runs for ever, and TLC looks for deadlocks there.

**Fairness.** Weak fairness of the steps a live handler takes by itself
(`Proceed`, `Step`): the CLI runs under `AGENTCASH_TIMEOUT_MS`, and everything else
is the event loop's.  None for users, the operator, crashes or the clock, and none
for the reconciler: nothing in the program schedules it
(`docs/execution-reconciliation.md:89`), so that an abandoned execution is ever
settled is not claimed; that it can always be found is proved (`ExecutingAlwaysRecoverable`).  In `AuditOutbox` the timer
starts rounds, requests end (`fetch` has time limits of its own), the container's
`restart: unless-stopped` starts dead processes again, and the sink is assumed strongly
fair: an event that it is offered again and again, it takes some time, unless it is of
`Poison`.

## Proofs

`QuoteLifecycleProofs` proves, for any sets of quotes, actors, handlers and processes,
any TTLs, either lock provider and any bound on time and crashes: `TypeCorrect`,
`PaidOnceAlways`, `LedgerBackedAlways`, `PromiseKept`, `TelegramFollowsStatusMachine`,
`PaidAlwaysAccounted`, and six theorems that no run states: `ExecutingAlwaysRecoverable`,
`OnlyCancelBreaksStatusMachine`, `ChargedAlwaysFound`, `HandlersAlwaysGoForward`,
`ExecutingAlwaysHandled` and `LocksAlwaysHonoured`.  They assume `QuoteAssumption`
(well-typed constants; lock markers are no handlers) and `TimeAssumption` (TTLs are
positive), no more.

* `TypeInv` adds to the types that a handler past the lock of its quote has one.
* `PaidOnce` is not inductive: a handler about to be charged must be known to be the
  one that submitted.  `MoneyInv` adds `RowInv`, what each status says of attempts,
  charges and ledger, and `FlightInv`, that the handlers in flight for a quote are the
  ones whose charge or row is still due, at most one of them for a quote.  Locks play no part in
  it: exclusion comes from the compare-and-swap of `atomicBeginQuoteExecution` alone,
  which is why lapsed TTLs do no harm.
* `TokenInv` is for Telegram: the right to act on a pending quote is a token that is
  either in the session or with one handler, never both.  From it follow the
  status machine and, with `MoneyInv`, that every charge is accounted for.
* `PromiseKept` maps rows to `PaidCall` by attempts and ledger (`phaseBar`); every step
  moves at most one quote's phase.
* `StatusInv` is what is left of the token argument for Discord, where the session is kept
  during the execution: a handler that may start a quote has seen it leave `pending` for good,
  and nothing writes `failed`.  `StatusMoves` lists how a step may change a status; a cancel
  with the quote still in the session is the only undocumented way.  So the violation that
  `quote_discord_cancel` shows is the whole of what a cancel can do: a charged quote is in
  flight, settled, in the operator's list, or a canceled Discord quote.
* `ExecutingSettles` is liveness and stays with TLC, but what it rests on is proved:
  `HandlersAlwaysGoForward`, that every step of a handler lowers its `Rank`, and
  `ExecutingAlwaysHandled`, that while no process has died an executing quote is in the
  hands of a handler that has yet to settle it or throw.
* `LocksAlwaysHonoured` is about the locks that `PaidOnce` does without: before its TTL
  has passed a key goes from its owner to nobody, and only as the owner's handler ends or dies.

`LocalLockProofs` proves every safety property of `LocalLock` and its refinement, for any
calls, plans of nested keys, TTL and bound on time, from `LockAssumption` (a plan is a
non-empty sequence of keys; the TTL is positive) and `TokenAssumption` (the absence of a
token is no token).

* `LeaseProtects` is inductive given the types: only an expired state is replaced, and
  a release deletes no token but its own.
* `OrphanedOnlyByOverrun` rests on `WaitInv`: what a parked call awaits is resolved, or
  in the map, or expired.
* `IsLeaseLock` rests on `HeldInv`: a token in the map is that of a level its call is
  inside of now, so a call's next token is new and its expiry is no other key's.  `InsideMoves`
  turns a call's step in or out of a level into a change of who is inside one key, or of
  nothing if the level is reentrant; with the comparison of tokens in `release` a step out
  frees the key or, after a takeover, nothing.
* `OrderedNeverCircular` is the safety half of `ServedOrOrphaned`: of calls that all wait,
  one is lost or waits for a call that is not among them and has not ended.  It assumes that
  plans take their keys in one order (`Ordered`), as `actor:` and then `quote:` in
  `executeApprovedQuote` do; with plans that do not, TLC finds a circle.  By `ParkInv` and
  `HeldInv` the holder of the highest key that a set of calls waits for waits for none of them.

`SpendControlProofs` proves, for any sets of calls, actors, prices and caps, also infinite
ones, and any edits of the settings:

* `CapsHoldAlways`, that the rolling caps hold but for overlap, and `GroupCapHolds`, the
  same of a group's own cap.  `Cents` is a fold; that what it computes is a sum (`TotalUnion`,
  `TotalMonotonic`) is proved without induction, from a least set of calls for which it would
  not be (`LeastSubset`, from the well-foundedness of inclusion).  `LedgerInv` has the rest:
  finitely many calls are under way (`PassedInv`), of any calls one has passed last
  (`OrderInv`), and what was in the ledger when a call passed has left its caps room ever
  since, as windows only lose rows (`CapInv`).
* `DearerNeverEasier`: with the rules of `evaluate` in the order they have, a higher price or a
  fuller window never gets an outcome that asks for less, with any settings.
* `FreezeStopsAllButPreflightAlways`, from `FreezeInv`: on a frozen wallet, the commands
  past their first read are the ones of `grace`, which had begun when it was frozen.
* `OverCapApprovedOrFirst`, with any settings: a call over the cap starts with the button of
  whom the cap asks for, or as a trusted skill's, or, in a group with the first-spend rule,
  with its maker's button if the ledger was empty when it was quoted.  `OverCapAlwaysApproved`
  follows under `~Config.firstSpend`, which the run `spend_first` shows to be needed.
  `RuleDecides` says that the outcome is that of a rule that applies, and `OverCapOutcome` that
  for a cost above the per-call cap this is a denial or a question; `ApprovalInv` carries the answer from the quote row to the
  execution, across confirmations, edits of the policy and cancellations.
* `TypeCorrect`, for which `OutcomeType` says that the policy returns one of its outcomes.

`WalletKeysProofs` proves, for any commands, keys and number of overruns, every property of
the run and `VersionsKept`, from `KeyAssumption` (the absence of a key is no key, that of a
holder no command).

* `FlightInv` is the heart of what holds until a call outlives its lock: while the CLI runs
  for a command that provisions, that command has the lock and neither the row nor the
  command's copy of it has a key, so what is captured is the file's.  It needs `RowInv`: a key in the row comes with all
  that `getOrCreate` asks for, so that it never calls the CLI again.
* `SafeInv` strengthens `PublishedIsKept` to everything a command knows, as a command may
  yet publish it; a rotation drops the row's key only because `KeyIsActiveVersion` says
  that a version has it.
* `PrivateInv` carries the row's key through the await of a balance; `Numbered`, that
  versions are numbered 1 to n, makes a rotation's number new.
* `PairInv` is for one overrun: of two commands that provision at once one has the lock and the
  row has no key yet; so the first to store its key writes the first version, and the second is
  then alone (`OverwrittenKeysStayVersions`).
* `VersionsKept` needs no more than the numbers: whatever overruns or dies, the versions of a key are
  a history, none dropped, renumbered or given another key, and only the newest is active.

`AuditOutboxProofs` proves every safety property of `AuditOutbox` from
`OutboxAssumption` (finite sets of events and workers, rounds of at least one row).
`DuplicatesAreExplained` needs `CopiesInv`, which counts the workers that may still write
an event (`WillWrite`) and those that have and are about to mark it (`WillMark`): before
the event is shipped its copies are of faults and of the latter, and since nobody is both,
the former can add no more than there are workers left.  `BornInv`, that no two rows
have one place in the order, is why a worker is at one row.  Of liveness it proves the two facts
that fairness starts from: `RoundsReachTheOthers`, that fewer always-rejected events than a
batch never fill a round while another event waits (the oldest of the others has only rejected
ones before it), and `PlacesAreKept`, that a listed event stays listed until it is shipped.

`GatewayProofs` proves every property of the run `gateway` for any actors, lists, numbers of codes
and lifetimes, from `GatewayAssumption`.  `CodeInv` adds that a code which can still be
approved is its actor's last (`PendingIsLatest`), that rows are issued in order (`RowInv`), and that
the row about to be inserted has no older pending ones beside it (`DraftInv`): `Issue` has
ended them, and a script can end codes but open none.  `ListedInv` carries the lists of
all starts of the bot to the open sessions.

`IntakeProofs` proves every property of `Intake` for any users, commands, previews and limits, from
`IntakeAssumption`.

* `LinkInv`: a preview that was redeemed is consumed, so that a second conditional update misses.
* `AskInv` carries `forceConfirmation` to the session and the press of a button.
* `EventInv`: the event of a paid call is there as long as a window may reach it, since pruning drops
  nothing younger; so the calls of a window inject into the events counted, which are below the
  limit when one more is admitted (`PaidAreEvents`, `RateStep`).

`GroupGovernanceProofs` proves every property of `GroupGovernance` for any people, any number of open
commands and any lifetimes, from `GovernanceAssumption`.

* `OwnerInv`: whoever wins the race of two creates, `owner` is a role of the creator's only.
* `WindowInv` follows the age of the platform's word: an answer held by a command (`AnswerInv`), a list
  held by a sync (`ListInv`) and a row of verifications (`FreshInv`: the age of what it says and the time
  it is still good for add up to no more than `TTL + Lag`).  `OnlyRecentAdminsGetRights` follows from
  it: a role with rights is written from a list or an answer no older than `Lag`.
* `SyncInv`: how far a sync in `quiet` has got (`Progress`): what its list has is promoted, and
  of the others only those still to be asked about can have a right left (`Nearly`), until none
  is left to ask about (`Mirrored`).  Another sync with a current list undoes none of it, since
  their lists agree (`ProgressShared`).

Only model-checked: `ExecutingSettles`, `ServedOrOrphaned` and `EveryEventIsShipped`, as liveness is
beyond the proof system; the safety they rest on is proved.  Every other property of
a passing run is a theorem.

## Not modelled

* Wording, formatting and logging of replies, help, history and status commands, spend
  analytics, errors: they change no state.
* The answer of the router's language model, which is outside the program; what a routed
  text may do is (`forceConfirmation`).
* Argument building and parsing of the CLI's output, and the generated reports: a call is
  charged or not and returns or fails.
* Encryption, signatures and hashes, which are taken to be one-to-one and sound; other signers
  than the local CLI's, which execute nothing here.
* Migrations, the Postgres skeleton, configuration, health checks and start-up: values
  of the environment are constants, and only the allowlist changes with a restart.
* `GLOBAL_PAID_CALL_CONCURRENCY` and `RATE_LIMIT_REPLAY_MAX_PER_HOUR`: the configuration
  reads them and nothing else does, so there is no limit to model.
* The balance check of a call: the balance is the platform's, may change at any time, and
  refuses a call before a quote exists (`PreflightFails`).
* Some hazards have no property, each for a reason given with it in `PROJECT.json`: a quote
  left approved for ever and charges the caps never count are what the code does and nothing promises
  otherwise; audit rows and the statements they report on are not in one transaction;
  a report lost in a crash was charged nowhere.
* Composition: the modules share rows (a quote's status, a wallet's) but not their properties.
  `PaidCall` is the interface of `QuoteLifecycle`, `LeaseLock` that of the locks; `SpendControl` takes the
  life of a quote from the former, `Intake` the confirmation, `GroupGovernance` the
  approved call, each as one or two steps.  A product of them is beyond TLC.
