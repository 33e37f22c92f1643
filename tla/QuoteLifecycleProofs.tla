------------------------- MODULE QuoteLifecycleProofs -------------------------
(* Theorems about QuoteLifecycle, for any number of quotes, users, handlers *)
(* and processes, any TTLs and either lock provider.                        *)
EXTENDS QuoteLifecycle, TLAPS

-----------------------------------------------------------------------------
(* The operators on rows. *)

LEMMA WithStatusType ==
    ASSUME NEW r \in QuoteRow, NEW to \in Status
    PROVE  /\ WithStatus(r, to) \in QuoteRow
           /\ WithStatus(r, to).status = to
           /\ WithStatus(r, to).attempts = r.attempts
           /\ WithStatus(r, to).expires = r.expires
           /\ WithStatus(r, to).lease \in {r.lease, NoLease}
  BY DEF WithStatus, QuoteRow, Status, Review, NoLease

LEMMA UpdateStatusType ==
    ASSUME row \in [Quote -> QuoteRow], NEW q \in Quote, NEW to \in Status
    PROVE  UpdateStatus(q, to) \in [Quote -> QuoteRow]
  BY WithStatusType DEF UpdateStatus

LEMMA TransitionStatusType ==
    ASSUME row \in [Quote -> QuoteRow], NEW q \in Quote,
           NEW from \in Status, NEW to \in Status
    PROVE  TransitionStatus(q, from, to) \in [Quote -> QuoteRow]
  BY UpdateStatusType DEF TransitionStatus

LEMMA ConsumeSessionType ==
    ASSUME session \in [Actor -> Quote \union {NoQuote}], NEW q \in Quote
    PROVE  ConsumeSession(q) \in [Actor -> Quote \union {NoQuote}]
  BY DEF ConsumeSession

LEMMA BegunType ==
    ASSUME NEW r \in QuoteRow, now \in Nat
    PROVE  /\ Begun(r) \in QuoteRow
           /\ Begun(r).status = "executing"
           /\ Begun(r).attempts = r.attempts + 1
           /\ Begun(r).lease = now + LeaseTTL
<1>1. now + LeaseTTL \in Nat /\ r.attempts + 1 \in Nat
  BY TimeAssumption DEF QuoteRow
<1> DEFINE lease == now + LeaseTTL
           attempts == r.attempts + 1
<1>2. Begun(r) = [r EXCEPT !.status = "executing", !.lease = lease,
                           !.attempts = attempts, !.review = "none"]
  BY Zenon DEF Begun
<1>3. lease \in Nat /\ attempts \in Nat
  BY <1>1
<1> HIDE DEF lease, attempts
<1>4. /\ Begun(r) \in QuoteRow
      /\ Begun(r).status = "executing"
      /\ Begun(r).attempts = attempts
      /\ Begun(r).lease = lease
  BY <1>2, <1>3 DEF QuoteRow, Status, Review
<1> QED
  BY <1>4 DEF lease, attempts

LEMMA NewRowType ==
    ASSUME NEW status \in Status, now \in Nat
    PROVE  /\ NewRow(status) \in QuoteRow
           /\ NewRow(status).status = status
           /\ NewRow(status).attempts = 0
<1>1. now + QuoteTTL \in Nat
  BY TimeAssumption
<1> QED
  BY <1>1 DEF NewRow, QuoteRow, Review, NoLease

LEMMA TakeType ==
    ASSUME TypeOK, NEW h \in Handler, NEW k, Take(h, k)
    PROVE  /\ lockOwner' \in [LockKey -> Handler \union {Free, Orphan}]
           /\ lockUntil' \in [LockKey -> Nat]
<1>1. now + LockTTL \in Nat
  BY TimeAssumption DEF TypeOK
<1>2. lockOwner' \in [LockKey -> Handler \union {Free, Orphan}]
  BY DEF Take, TypeOK
<1>3. lockUntil' \in [LockKey -> Nat]
  BY <1>1 DEF Take, TypeOK
<1> QED
  BY <1>2, <1>3

LEMMA ReleaseType ==
    ASSUME TypeOK, NEW freed, NEW orphaned, Release(freed, orphaned)
    PROVE  /\ lockOwner' \in [LockKey -> Handler \union {Free, Orphan}]
           /\ lockUntil' \in [LockKey -> Nat]
  BY DEF Release, TypeOK

-----------------------------------------------------------------------------
(* Type correctness.  A handler that has got past its first lock for a quote *)
(* has a quote; the code passes its id from call to call.                    *)

HasTask == {"lockQuote", "check", "approved", "quoted", "completed"} \union Running

TaskOK ==
    \A h \in Handler : op[h].pc \in HasTask \/ op[h].kind = "confirm" => op[h].task \in Quote

TypeInv == TypeOK /\ TaskOK

LEMMA GotoEffect ==
    ASSUME op \in [Handler -> Op], NEW h \in Handler, NEW pc \in PC, Goto(h, pc)
    PROVE  /\ op' \in [Handler -> Op]
           /\ op'[h].pc = pc
           /\ op'[h].kind = op[h].kind
           /\ op'[h].task = op[h].task
           /\ op'[h].actor = op[h].actor
           /\ \A g \in Handler : g # h => op'[g] = op[g]
<1>1. op' = [op EXCEPT ![h] = [op[h] EXCEPT !.pc = pc]]
  BY DEF Goto
<1>2. op[h] \in Op
  OBVIOUS
<1>3. [op[h] EXCEPT !.pc = pc] \in Op
  BY <1>2 DEF Op
<1>4. /\ [op[h] EXCEPT !.pc = pc].pc = pc
      /\ [op[h] EXCEPT !.pc = pc].kind = op[h].kind
      /\ [op[h] EXCEPT !.pc = pc].task = op[h].task
      /\ [op[h] EXCEPT !.pc = pc].actor = op[h].actor
  BY <1>2 DEF Op
<1> QED
  BY <1>1, <1>3, <1>4

LEMMA GotoType ==
    ASSUME TypeInv, NEW h \in Handler, NEW pc \in PC, Goto(h, pc),
           pc \in HasTask => op[h].task \in Quote
    PROVE  op' \in [Handler -> Op] /\ TaskOK'
<1>1. op \in [Handler -> Op] /\ TaskOK
  BY DEF TypeInv, TypeOK
<1>2. ASSUME NEW g \in Handler, op'[g].pc \in HasTask \/ op'[g].kind = "confirm"
      PROVE  op'[g].task \in Quote
  BY <1>1, <1>2, GotoEffect DEF TaskOK
<1> QED
  BY <1>1, <1>2, GotoEffect DEF TaskOK, HasTask, Running

LEMMA TypeInit == Init => TypeInv
  BY QuoteAssumption
  DEF Init, TypeInv, TypeOK, TaskOK, HasTask, NoRow, Idle, QuoteRow, Status, Review, NoLease, Op, PC,
      Running, Unlocking, LockKey

LEMMA TypeProceed ==
    ASSUME TypeInv, NEW h \in Handler, Proceed(h)
    PROVE  TypeInv'
<1> USE DEF TypeInv, TypeOK, At, PC, Running, Unlocking, HasTask, locks
<1>1. CASE LockActor(h)
  <2>1. op' \in [Handler -> Op] /\ TaskOK'
    BY <1>1, GotoType DEF LockActor, TaskOK, Op
  <2> QED
    BY <1>1, <2>1, TakeType DEF LockActor
<1>2. CASE LockQuote(h)
  <2>1. op' \in [Handler -> Op] /\ TaskOK'
    BY <1>2, GotoType DEF LockQuote, TaskOK
  <2> QED
    BY <1>2, <2>1, TakeType DEF LockQuote
<1>3. CASE LockUnavailable(h)
  BY <1>3, GotoType DEF LockUnavailable
<1>4. CASE PreflightFails(h)
  BY <1>4, GotoType DEF PreflightFails
<1>5. ASSUME NEW q \in Quote, QuoteForConfirmation(h, q) \/ QuoteAutoApproved(h, q)
      PROVE  TypeInv'
  <2>1. PICK status \in {"pending", "approved"}, pc \in {"quoted", "approved"} :
            CreateQuote(h, q, status, pc)
    BY <1>5 DEF QuoteForConfirmation, QuoteAutoApproved
  <2>2. row' \in [Quote -> QuoteRow]
    BY <2>1, NewRowType DEF CreateQuote, Status
  <2>3. op' = [op EXCEPT ![h] = [op[h] EXCEPT !.pc = pc, !.task = q]]
    BY <2>1 DEF CreateQuote
  <2>4. [op[h] EXCEPT !.pc = pc, !.task = q] \in Op /\ [op[h] EXCEPT !.pc = pc, !.task = q].task = q
    BY DEF Op
  <2>5. op' \in [Handler -> Op] /\ TaskOK'
    BY <2>3, <2>4 DEF TaskOK
  <2> QED
    BY <2>1, <2>2, <2>5 DEF CreateQuote
<1>6. CASE RejectReplay(h)
  BY <1>6, GotoType DEF RejectReplay
<1>7. CASE ExpireQuote(h)
  <2>1. op' \in [Handler -> Op] /\ TaskOK' /\ op[h].task \in Quote
    BY <1>7, GotoType DEF ExpireQuote, TaskOK
  <2>2. row' \in [Quote -> QuoteRow]
    BY <1>7, <2>1, UpdateStatusType DEF ExpireQuote, Status
  <2> QED
    BY <1>7, <2>1, <2>2 DEF ExpireQuote
<1>8. CASE ApproveQuote(h)
  <2>1. op' \in [Handler -> Op] /\ TaskOK' /\ op[h].task \in Quote
    BY <1>8, GotoType DEF ApproveQuote, TaskOK
  <2>2. [row[op[h].task] EXCEPT !.status = "approved"] \in QuoteRow
    BY <2>1 DEF QuoteRow, Status
  <2>3. row' \in [Quote -> QuoteRow]
    BY <1>8, <2>2 DEF ApproveQuote
  <2> QED
    BY <1>8, <2>1, <2>3 DEF ApproveQuote
<1>9. CASE RunBlocked(h)
  BY <1>9, GotoType DEF RunBlocked
<1>10. CASE BeginExecution(h)
  <2>1. op' \in [Handler -> Op] /\ TaskOK' /\ op[h].task \in Quote
    BY <1>10, GotoType DEF BeginExecution, TaskOK
  <2>2. row' \in [Quote -> QuoteRow]
    BY <1>10, <2>1, BegunType DEF BeginExecution
  <2> QED
    BY <1>10, <2>1, <2>2 DEF BeginExecution
<1>11. CASE ExecutionAlreadyStarted(h)
  BY <1>11, GotoType DEF ExecutionAlreadyStarted
<1>12. CASE FetchReturns(h)
  <2>1. op' \in [Handler -> Op] /\ TaskOK' /\ op[h].task \in Quote
    BY <1>12, GotoType DEF FetchReturns, TaskOK
  <2>2. paid' \in [Quote -> Nat]
    <3>1. paid[op[h].task] + 1 \in Nat
      BY <2>1
    <3> QED
      BY <1>12, <3>1 DEF FetchReturns
  <2> QED
    BY <1>12, <2>1, <2>2 DEF FetchReturns
<1>13. CASE ExecutionThrows(h)
  <2>1. op' \in [Handler -> Op] /\ TaskOK' /\ op[h].task \in Quote
    BY <1>13, GotoType DEF ExecutionThrows, TaskOK
  <2>2. row' \in [Quote -> QuoteRow]
    BY <1>13, <2>1, TransitionStatusType DEF ExecutionThrows, AfterThrow, Status
  <2>3. paid' \in [Quote -> Nat]
    <3>1. PICK charge \in {0, 1} : paid' = [paid EXCEPT ![op[h].task] = @ + charge]
      BY <1>13 DEF ExecutionThrows
    <3>2. paid[op[h].task] + charge \in Nat
      BY <2>1
    <3> QED
      BY <3>1, <3>2
  <2> QED
    BY <1>13, <2>1, <2>2, <2>3 DEF ExecutionThrows
<1>14. CASE RecordTransaction(h)
  <2>1. op' \in [Handler -> Op] /\ TaskOK' /\ op[h].task \in Quote
    BY <1>14, GotoType DEF RecordTransaction, TaskOK
  <2> QED
    BY <1>14, <2>1 DEF RecordTransaction
<1>15. CASE SettleQuote(h)
  <2>1. op' \in [Handler -> Op] /\ TaskOK' /\ op[h].task \in Quote
    BY <1>15, GotoType DEF SettleQuote, TaskOK
  <2>2. row' \in [Quote -> QuoteRow]
    BY <1>15, <2>1, TransitionStatusType DEF SettleQuote, Status
  <2> QED
    BY <1>15, <2>1, <2>2 DEF SettleQuote
<1>16. CASE Unlock(h)
  <2>1. session' \in [Actor -> Quote \union {NoQuote}]
    BY <1>16, ConsumeSessionType DEF Unlock, SessionAfter, TaskOK, Op
  <2>2. op' \in [Handler -> Op] /\ TaskOK'
    BY <1>16 DEF Unlock, Idle, Op, TaskOK
  <2> QED
    BY <1>16, <2>1, <2>2, ReleaseType DEF Unlock
<1>17. CASE UnlockFails(h)
  <2>1. op' \in [Handler -> Op] /\ TaskOK'
    BY <1>17 DEF UnlockFails, Idle, Op, TaskOK
  <2> QED
    BY <1>17, <2>1, ReleaseType DEF UnlockFails
<1> QED
  BY <1>1, <1>2, <1>3, <1>4, <1>5, <1>6, <1>7, <1>8, <1>9, <1>10, <1>11, <1>12, <1>13, <1>14,
     <1>15, <1>16, <1>17 DEF Proceed

LEMMA TypeStep == TypeInv /\ [Next]_vars => TypeInv'
<1> SUFFICES ASSUME TypeInv, [Next]_vars PROVE TypeInv'
  OBVIOUS
<1> USE DEF TypeInv, TypeOK, TaskOK, HasTask, At, Op, PC, Running, Unlocking, locks
<1>1. ASSUME NEW h \in Handler, Proceed(h) PROVE TypeInv'
  BY <1>1, TypeProceed
<1>2. ASSUME NEW h \in Handler, NEW a \in Actor, StartCommand(h, a) PROVE TypeInv'
  BY <1>2, QuoteAssumption, ZenonT(40) DEF StartCommand, Idle
<1>3. ASSUME NEW h \in Handler, NEW a \in Actor, NEW q \in Quote,
             ConfirmTelegram(h, a, q) \/ ConfirmDiscord(h, a, q)
      PROVE  TypeInv'
  <2>1. PressConfirm(h, a, q) /\ session' \in [Actor -> Quote \union {NoQuote}]
    BY <1>3, ConsumeSessionType DEF ConfirmTelegram, ConfirmDiscord
  <2> QED
    BY <2>1 DEF PressConfirm
<1>4. ASSUME NEW q \in Quote, CancelTelegram(q) \/ CancelDiscord(q) PROVE TypeInv'
  BY <1>4, UpdateStatusType, ConsumeSessionType
  DEF CancelTelegram, CancelDiscord, PressCancel, Status
<1>5. ASSUME NEW q \in Quote, Reconcile(q) PROVE TypeInv'
  BY <1>5, TransitionStatusType DEF Reconcile, Reconciled, Status
<1>6. ASSUME NEW q \in Quote, MarkReviewed(q) PROVE TypeInv'
  <2>1. [row[q] EXCEPT !.review = "reviewed"] \in QuoteRow
    BY DEF QuoteRow, Review
  <2> QED
    BY <1>6, <2>1 DEF MarkReviewed
<1>7. ASSUME NEW hs \in Processes, Crash(hs) PROVE TypeInv'
  BY <1>7, ReleaseType DEF Crash, Idle
<1>8. CASE Tick
  BY <1>8 DEF Tick
<1>9. CASE UNCHANGED vars
  BY <1>9 DEF vars
<1> QED
  BY <1>1, <1>2, <1>3, <1>4, <1>5, <1>6, <1>7, <1>8, <1>9 DEF Next

\* Every behaviour keeps the rows, the sessions, the handlers and the locks
\* within the types of the schema and of the code's unions.
THEOREM TypeCorrect == Spec => []TypeOK
<1>1. Spec => []TypeInv
  BY TypeInit, TypeStep, PTL DEF Spec
<1> QED
  BY <1>1, PTL DEF TypeInv

-----------------------------------------------------------------------------
(* How the two update operators change the table. *)

LEMMA UpdateEffect ==
    ASSUME row \in [Quote -> QuoteRow], NEW q \in Quote, NEW to \in Status,
           row' = UpdateStatus(q, to)
    PROVE  /\ row'[q].status = to
           /\ row'[q].attempts = row[q].attempts
           /\ row'[q].lease \in {row[q].lease, NoLease}
           /\ \A r \in Quote : r # q => row'[r] = row[r]
  BY WithStatusType DEF UpdateStatus

LEMMA TransitionEffect ==
    ASSUME row \in [Quote -> QuoteRow], NEW q \in Quote, NEW from \in Status, NEW to \in Status,
           row' = TransitionStatus(q, from, to)
    PROVE  /\ row'[q].attempts = row[q].attempts
           /\ \/ row'[q] = row[q]
              \/ /\ ValidTransition(from, to)
                 /\ row[q].status = from
                 /\ row'[q].status = to
           /\ \A r \in Quote : r # q => row'[r] = row[r]
  BY UpdateEffect DEF TransitionStatus

-----------------------------------------------------------------------------
(* The money of a quote.  PaidOnce alone is not inductive: what keeps a quote *)
(* from a second submission is that its status never returns to a startable   *)
(* one, and what keeps it from a second charge is that the one handler that    *)
(* has started it is the only one in flight with it.                           *)

Startable == {"none", "pending", "approved", "expired"}

RowInv ==
    \A q \in Quote :
        /\ row[q].attempts <= 1
        /\ row[q].status \in Startable => row[q].attempts = 0
        /\ paid[q] <= row[q].attempts
        /\ q \in ledger => paid[q] = 1
        /\ row[q].status = "succeeded" => q \in ledger
        /\ row[q].status = "executing" => row[q].lease \in (NoLease + 1) .. (now + LeaseTTL)

InFlight(h) == op[h].pc \in Running

FlightInv ==
    \A h \in Handler : InFlight(h) =>
        /\ row[op[h].task].attempts = 1
        /\ paid[op[h].task] = IF At(h, "fetching") THEN 0 ELSE 1
        /\ At(h, "recorded") => op[h].task \in ledger
        /\ \A g \in Handler : InFlight(g) /\ op[g].task = op[h].task => g = h

MoneyInv == TypeInv /\ RowInv /\ FlightInv

\* Steps that submit, charge and record nothing, and let no handler take off.
LEMMA NoMoneyMoves ==
    ASSUME MoneyInv, TypeInv', UNCHANGED <<ledger, paid>>, now' \in {now, now + 1},
           \A h \in Handler : op'[h].pc \in Running => op'[h] = op[h],
           \A q \in Quote :
               /\ row'[q].attempts = row[q].attempts
               /\ row'[q].status \in Startable => row[q].status \in Startable
               /\ row'[q].status = "succeeded" => row[q].status = "succeeded" \/ q \in ledger
               /\ row'[q].status = "executing" =>
                      row[q].status = "executing" /\ row'[q].lease = row[q].lease
    PROVE  MoneyInv'
<1>1. RowInv'
  <2> SUFFICES ASSUME NEW q \in Quote
               PROVE  /\ row'[q].attempts <= 1
                      /\ row'[q].status \in Startable => row'[q].attempts = 0
                      /\ paid'[q] <= row'[q].attempts
                      /\ q \in ledger' => paid'[q] = 1
                      /\ row'[q].status = "succeeded" => q \in ledger'
                      /\ row'[q].status = "executing" =>
                             row'[q].lease \in (NoLease + 1) .. (now' + LeaseTTL)
    BY DEF RowInv
  <2>1. row'[q].status = "executing" => row'[q].lease \in (NoLease + 1) .. (now' + LeaseTTL)
    BY TimeAssumption DEF MoneyInv, RowInv, TypeInv, TypeOK, NoLease
  <2> QED
    BY <2>1 DEF MoneyInv, RowInv
<1>2. FlightInv'
  BY DEF MoneyInv, FlightInv, InFlight, At, TypeInv, TaskOK, HasTask
<1> QED
  BY <1>1, <1>2 DEF MoneyInv

LEMMA MoneyInit == Init => MoneyInv
  BY TypeInit DEF Init, MoneyInv, RowInv, FlightInv, InFlight, NoRow, Idle, Startable, Running

\* A handler's move to a state out of flight disturbs nobody in flight.
LEMMA Landed ==
    ASSUME op \in [Handler -> Op], NEW h \in Handler, NEW pc \in PC \ Running, Goto(h, pc)
    PROVE  \A g \in Handler : op'[g].pc \in Running => op'[g] = op[g]
  BY GotoEffect

LEMMA MoneyProceed ==
    ASSUME MoneyInv, TypeInv', NEW h \in Handler, Proceed(h)
    PROVE  MoneyInv'
<1> USE DEF At, PC, Unlocking, locks
<1>0. TypeInv /\ row \in [Quote -> QuoteRow] /\ op \in [Handler -> Op] /\ now \in Nat
  BY DEF MoneyInv, TypeInv, TypeOK
<1>1. CASE LockActor(h)
  BY <1>0, <1>1, Landed, NoMoneyMoves DEF LockActor, Running
<1>2. CASE LockQuote(h)
  BY <1>0, <1>2, Landed, NoMoneyMoves DEF LockQuote, Running
<1>3. CASE LockUnavailable(h)
  BY <1>0, <1>3, Landed, NoMoneyMoves DEF LockUnavailable, Running
<1>4. CASE PreflightFails(h)
  BY <1>0, <1>4, Landed, NoMoneyMoves DEF PreflightFails, Running
<1>5. ASSUME NEW q \in Quote, QuoteForConfirmation(h, q) \/ QuoteAutoApproved(h, q)
      PROVE  MoneyInv'
  <2>1. PICK status \in {"pending", "approved"}, pc \in {"quoted", "approved"} :
            CreateQuote(h, q, status, pc)
    BY <1>5 DEF QuoteForConfirmation, QuoteAutoApproved
  <2>2. \A g \in Handler : op'[g].pc \in Running => op'[g] = op[g]
    BY <1>0, <2>1 DEF CreateQuote, Running, Op
  <2>3. row[q].status \in Startable /\ row[q].attempts = 0
    BY <2>1 DEF CreateQuote, Startable, MoneyInv, RowInv
  <2>4. row'[q] = NewRow(status) /\ \A r \in Quote : r # q => row'[r] = row[r]
    BY <1>0, <2>1 DEF CreateQuote
  <2>5. row'[q].status = status /\ row'[q].attempts = 0
    BY <1>0, <2>4, NewRowType DEF Status
  <2> QED
    BY <1>0, <2>1, <2>2, <2>3, <2>4, <2>5, NoMoneyMoves DEF CreateQuote
<1>6. CASE RejectReplay(h)
  BY <1>0, <1>6, Landed, NoMoneyMoves DEF RejectReplay, Running
<1>7. CASE ExpireQuote(h)
  <2>1. op[h].task \in Quote
    BY <1>0, <1>7 DEF ExpireQuote, TypeInv, TaskOK, HasTask
  <2>2. row' = UpdateStatus(op[h].task, "expired") /\ "expired" \in Status
    BY <1>7 DEF ExpireQuote, Status
  <2> QED
    BY <1>0, <1>7, <2>1, <2>2, UpdateEffect, Landed, NoMoneyMoves DEF ExpireQuote, Running, Startable
<1>8. CASE ApproveQuote(h)
  <2>1. op[h].task \in Quote
    BY <1>0, <1>8 DEF ApproveQuote, TypeInv, TaskOK, HasTask
  <2>2. /\ row'[op[h].task].status = "approved"
        /\ row'[op[h].task].attempts = row[op[h].task].attempts
        /\ \A r \in Quote : r # op[h].task => row'[r] = row[r]
    BY <1>0, <1>8, <2>1 DEF ApproveQuote, QuoteRow
  <2> QED
    BY <1>0, <1>8, <2>1, <2>2, Landed, NoMoneyMoves DEF ApproveQuote, CanApprove, Running, Startable
<1>9. CASE RunBlocked(h)
  BY <1>0, <1>9, Landed, NoMoneyMoves DEF RunBlocked, Running
<1>11. CASE ExecutionAlreadyStarted(h)
  BY <1>0, <1>11, Landed, NoMoneyMoves DEF ExecutionAlreadyStarted, Running
<1>15. CASE SettleQuote(h)
  <2>1. op[h].task \in Quote /\ op[h].task \in ledger
    BY <1>0, <1>15 DEF SettleQuote, TypeInv, TaskOK, HasTask, MoneyInv, FlightInv, InFlight, Running
  <2>2. row' = TransitionStatus(op[h].task, "executing", "succeeded")
    BY <1>15 DEF SettleQuote
  <2>3. "executing" \in Status /\ "succeeded" \in Status
    BY DEF Status
  <2> QED
    BY <1>0, <1>15, <2>1, <2>2, <2>3, TransitionEffect, Landed, NoMoneyMoves
    DEF SettleQuote, Running, Startable
<1>16. CASE Unlock(h) \/ UnlockFails(h)
  <2>1. \A g \in Handler : op'[g].pc \in Running => op'[g] = op[g]
    BY <1>0, <1>16 DEF Unlock, UnlockFails, Idle, Running
  <2> QED
    BY <1>0, <1>16, <2>1, NoMoneyMoves DEF Unlock, UnlockFails
<1> DEFINE q == op[h].task
<1>10. CASE BeginExecution(h)
  <2>1. q \in Quote /\ CanBegin(q) /\ op[h].pc = "approved"
    BY <1>0, <1>10 DEF BeginExecution, TypeInv, TaskOK, HasTask
  <2>2. row[q].attempts = 0 /\ paid[q] = 0 /\ q \notin ledger
    <3>1. row[q].attempts = 0
      BY <2>1 DEF CanBegin, MoneyInv, RowInv, Startable
    <3>2. paid[q] \in Nat /\ paid[q] <= row[q].attempts /\ (q \in ledger => paid[q] = 1)
      BY <1>0, <2>1 DEF MoneyInv, RowInv, TypeInv, TypeOK
    <3> QED
      BY <3>1, <3>2
  <2>3. \A g \in Handler : InFlight(g) => op[g].task # q
    BY <2>2 DEF MoneyInv, FlightInv
  <2>4. /\ row'[q].status = "executing" /\ row'[q].attempts = 1 /\ row'[q].lease = now + LeaseTTL
        /\ \A r \in Quote : r # q => row'[r] = row[r]
    BY <1>0, <1>10, <2>1, <2>2, BegunType DEF BeginExecution
  <2>5. /\ op'[h].pc = "fetching" /\ op'[h].task = q
        /\ \A g \in Handler : g # h => op'[g] = op[g]
    BY <1>0, <1>10, GotoEffect DEF BeginExecution, Running
  <2>6. UNCHANGED <<ledger, paid, now>>
    BY <1>10 DEF BeginExecution
  <2>7. RowInv'
    <3>1. now + LeaseTTL \in (NoLease + 1) .. (now + LeaseTTL)
      BY <1>0, TimeAssumption DEF NoLease
    <3> QED
      BY <2>1, <2>2, <2>4, <2>6, <3>1 DEF MoneyInv, RowInv, Startable
  <2>8. FlightInv'
    BY <1>0, <2>1, <2>2, <2>3, <2>4, <2>5, <2>6
    DEF MoneyInv, FlightInv, InFlight, Running, TypeInv, TaskOK, HasTask
  <2> QED
    BY <2>7, <2>8 DEF MoneyInv
<1>12. CASE FetchReturns(h)
  <2>1. q \in Quote /\ InFlight(h) /\ op[h].pc = "fetching"
    BY <1>0, <1>12 DEF FetchReturns, TypeInv, TaskOK, HasTask, InFlight, Running
  <2>2. row[q].attempts = 1 /\ paid[q] = 0
    BY <2>1 DEF MoneyInv, FlightInv
  <2>3. \A g \in Handler : InFlight(g) /\ op[g].task = q => g = h
    BY <2>1 DEF MoneyInv, FlightInv
  <2>4. paid'[q] = 1 /\ \A r \in Quote : r # q => paid'[r] = paid[r]
    <3>1. paid \in [Quote -> Nat] /\ paid' = [paid EXCEPT ![q] = paid[q] + 1]
      BY <1>0, <1>12 DEF FetchReturns, TypeInv, TypeOK
    <3> QED
      BY <2>1, <2>2, <3>1
  <2>5. /\ op'[h].pc = "formatting" /\ op'[h].task = q
        /\ \A g \in Handler : g # h => op'[g] = op[g]
    BY <1>0, <1>12, GotoEffect DEF FetchReturns, Running
  <2>6. UNCHANGED <<row, ledger, now>>
    BY <1>12 DEF FetchReturns
  <2>7. RowInv'
    BY <2>1, <2>2, <2>4, <2>6 DEF MoneyInv, RowInv
  <2>8. FlightInv'
    BY <1>0, <2>1, <2>2, <2>3, <2>4, <2>5, <2>6
    DEF MoneyInv, FlightInv, InFlight, Running, TypeInv, TaskOK, HasTask
  <2> QED
    BY <2>7, <2>8 DEF MoneyInv
<1>13. CASE ExecutionThrows(h)
  <2>1. q \in Quote /\ InFlight(h) /\ op[h].pc \in {"fetching", "formatting"}
    BY <1>0, <1>13 DEF ExecutionThrows, TypeInv, TaskOK, HasTask, InFlight, Running
  <2>2. row[q].attempts = 1 /\ paid[q] = IF At(h, "fetching") THEN 0 ELSE 1
    BY <2>1 DEF MoneyInv, FlightInv
  <2>3. \A g \in Handler : InFlight(g) /\ op[g].task = q => g = h
    BY <2>1 DEF MoneyInv, FlightInv
  <2>4. /\ paid'[q] \in {0, 1} /\ (q \in ledger => paid'[q] = 1)
        /\ \A r \in Quote : r # q => paid'[r] = paid[r]
    <3>1. PICK charge \in (IF At(h, "fetching") THEN {0, 1} ELSE {0}) :
              paid' = [paid EXCEPT ![q] = paid[q] + charge]
      BY <1>13 DEF ExecutionThrows
    <3>2. paid \in [Quote -> Nat] /\ (q \in ledger => paid[q] = 1)
      BY <1>0, <2>1 DEF TypeInv, TypeOK, MoneyInv, RowInv
    <3>3. paid'[q] = paid[q] + charge /\ \A r \in Quote : r # q => paid'[r] = paid[r]
      BY <2>1, <3>1, <3>2
    <3> QED
      BY <2>2, <3>1, <3>2, <3>3
  <2>5. /\ op'[h].pc = "failed" /\ op'[h].task = q
        /\ \A g \in Handler : g # h => op'[g] = op[g]
    BY <1>0, <1>13, GotoEffect DEF ExecutionThrows
  <2>6. UNCHANGED <<ledger, now>> /\ row' = TransitionStatus(q, "executing", "execution_unknown")
    BY <1>13 DEF ExecutionThrows, AfterThrow
  <2>7. /\ row'[q].attempts = 1
        /\ row'[q] = row[q] \/ row'[q].status = "execution_unknown"
        /\ \A r \in Quote : r # q => row'[r] = row[r]
    BY <1>0, <2>1, <2>2, <2>6, TransitionEffect DEF Status
  <2>8. RowInv'
    BY <2>1, <2>2, <2>4, <2>6, <2>7 DEF MoneyInv, RowInv, Startable
  <2>9. FlightInv'
    BY <1>0, <2>1, <2>2, <2>3, <2>4, <2>5, <2>6, <2>7
    DEF MoneyInv, FlightInv, InFlight, Running, TypeInv, TaskOK, HasTask
  <2> QED
    BY <2>8, <2>9 DEF MoneyInv
<1>14. CASE RecordTransaction(h)
  <2>1. q \in Quote /\ InFlight(h) /\ op[h].pc = "formatting"
    BY <1>0, <1>14 DEF RecordTransaction, TypeInv, TaskOK, HasTask, InFlight, Running
  <2>2. paid[q] = 1
    BY <2>1 DEF MoneyInv, FlightInv
  <2>3. /\ op'[h].pc = "recorded" /\ op'[h].task = q
        /\ \A g \in Handler : g # h => op'[g] = op[g]
    BY <1>0, <1>14, GotoEffect DEF RecordTransaction, Running
  <2>4. UNCHANGED <<row, paid, now>> /\ ledger' = ledger \union {q}
    BY <1>14 DEF RecordTransaction
  <2>5. RowInv'
    BY <2>1, <2>2, <2>4 DEF MoneyInv, RowInv
  <2>6. FlightInv'
    BY <1>0, <2>1, <2>2, <2>3, <2>4
    DEF MoneyInv, FlightInv, InFlight, Running, TypeInv, TaskOK, HasTask
  <2> QED
    BY <2>5, <2>6 DEF MoneyInv
<1> QED
  BY <1>1, <1>2, <1>3, <1>4, <1>5, <1>6, <1>7, <1>8, <1>9, <1>10, <1>11, <1>12, <1>13, <1>14,
     <1>15, <1>16 DEF Proceed

LEMMA MoneyStep == MoneyInv /\ [Next]_vars => MoneyInv'
<1> SUFFICES ASSUME MoneyInv, [Next]_vars PROVE MoneyInv'
  OBVIOUS
<1> USE DEF At, locks
<1>0. TypeInv /\ TypeInv' /\ row \in [Quote -> QuoteRow] /\ op \in [Handler -> Op]
  BY TypeStep DEF MoneyInv, TypeInv, TypeOK
<1>1. ASSUME NEW h \in Handler, Proceed(h) PROVE MoneyInv'
  BY <1>0, <1>1, MoneyProceed
<1>2. ASSUME NEW h \in Handler, NEW a \in Actor, StartCommand(h, a) PROVE MoneyInv'
  BY <1>0, <1>2, NoMoneyMoves DEF StartCommand, Idle, Running
<1>3. ASSUME NEW h \in Handler, NEW a \in Actor, NEW q \in Quote,
             ConfirmTelegram(h, a, q) \/ ConfirmDiscord(h, a, q)
      PROVE  MoneyInv'
  <2>1. PressConfirm(h, a, q)
    BY <1>3 DEF ConfirmTelegram, ConfirmDiscord
  <2> QED
    BY <1>0, <2>1, NoMoneyMoves DEF PressConfirm, Running
<1>4. ASSUME NEW q \in Quote, CancelTelegram(q) \/ CancelDiscord(q) PROVE MoneyInv'
  <2>1. PressCancel(q) /\ "canceled" \in Status
    BY <1>4 DEF CancelTelegram, CancelDiscord, Status
  <2> QED
    BY <1>0, <2>1, UpdateEffect, NoMoneyMoves DEF PressCancel, Startable
<1>5. ASSUME NEW q \in Quote, Reconcile(q) PROVE MoneyInv'
  <2>1. PICK to \in {"succeeded", "execution_unknown"} :
            /\ row' = TransitionStatus(q, "executing", to)
            /\ to = "succeeded" => q \in ledger
    BY <1>5 DEF Reconcile, Reconciled
  <2>2. to \in Status /\ "executing" \in Status
    BY DEF Status
  <2> QED
    BY <1>0, <1>5, <2>1, <2>2, TransitionEffect, NoMoneyMoves DEF Reconcile, Startable
<1>6. ASSUME NEW q \in Quote, MarkReviewed(q) PROVE MoneyInv'
  <2>1. /\ row'[q].status = row[q].status
        /\ row'[q].attempts = row[q].attempts
        /\ row'[q].lease = row[q].lease
        /\ \A r \in Quote : r # q => row'[r] = row[r]
    BY <1>0, <1>6 DEF MarkReviewed, QuoteRow
  <2> QED
    BY <1>0, <1>6, <2>1, NoMoneyMoves DEF MarkReviewed
<1>7. ASSUME NEW hs \in Processes, Crash(hs) PROVE MoneyInv'
  <2>1. PICK charged \in SUBSET {h \in hs : At(h, "fetching")} :
            paid' = [q \in Quote |->
                        IF \E h \in charged : op[h].task = q THEN paid[q] + 1 ELSE paid[q]]
    BY <1>7 DEF Crash
  <2>2. \A h \in charged : h \in Handler /\ h \in hs /\ InFlight(h) /\ op[h].pc = "fetching"
    BY <2>1, QuoteAssumption DEF InFlight, Running
  <2>3. UNCHANGED <<row, ledger, now>> /\ op' = [h \in Handler |-> IF h \in hs THEN Idle ELSE op[h]]
    BY <1>7 DEF Crash
  <2>4. ASSUME NEW q \in Quote, \E h \in charged : op[h].task = q
        PROVE  paid[q] = 0 /\ paid'[q] = 1 /\ row[q].attempts = 1
    BY <2>1, <2>2, <2>4 DEF MoneyInv, FlightInv
  <2>5. ASSUME NEW q \in Quote, ~\E h \in charged : op[h].task = q
        PROVE  paid'[q] = paid[q]
    BY <2>1, <2>5
  <2>6. RowInv'
    BY <2>3, <2>4, <2>5 DEF MoneyInv, RowInv
  <2>7. ASSUME NEW g \in Handler, op'[g].pc \in Running
        PROVE  /\ g \notin hs /\ op'[g] = op[g] /\ InFlight(g) /\ op[g].task \in Quote
               /\ paid'[op[g].task] = paid[op[g].task]
    <3>1. g \notin hs /\ op'[g] = op[g] /\ InFlight(g) /\ op[g].task \in Quote
      BY <1>0, <2>3, <2>7 DEF Idle, Running, InFlight, TypeInv, TaskOK, HasTask
    <3>2. ~\E h \in charged : op[h].task = op[g].task
      BY <2>2, <3>1 DEF MoneyInv, FlightInv
    <3> QED
      BY <2>5, <3>1, <3>2
  <2>8. FlightInv'
    BY <2>3, <2>7 DEF MoneyInv, FlightInv, InFlight
  <2> QED
    BY <1>0, <2>6, <2>8 DEF MoneyInv
<1>8. CASE Tick
  BY <1>0, <1>8, NoMoneyMoves DEF Tick
<1>9. CASE UNCHANGED vars
  BY <1>0, <1>9, NoMoneyMoves DEF vars
<1> QED
  BY <1>1, <1>2, <1>3, <1>4, <1>5, <1>6, <1>7, <1>8, <1>9 DEF Next

LEMMA MoneyCorrect == Spec => []MoneyInv
  BY MoneyInit, MoneyStep, PTL DEF Spec

\* Whatever double clicks, lapsed locks, failed calls, crashes and the reconciler
\* do, a quote is submitted upstream at most once and charged at most once.
THEOREM PaidOnceAlways == Spec => []PaidOnce
<1>1. MoneyInv => PaidOnce
  BY DEF MoneyInv, RowInv, PaidOnce
<1> QED
  BY <1>1, MoneyCorrect, PTL

\* Neither the settling handler nor the reconciler calls a quote succeeded
\* without a transactions row, and no row is written for a call nobody paid for.
THEOREM LedgerBackedAlways == Spec => []LedgerBacked
<1>1. MoneyInv => LedgerBacked
  BY DEF MoneyInv, RowInv, LedgerBacked
<1> QED
  BY <1>1, MoneyCorrect, PTL

\* An execution a crash abandons carries a lease that will expire, so that
\* listExpiredExecutingQuotes finds it.
THEOREM ExecutingAlwaysRecoverable == Spec => []ExecutingIsRecoverable
<1>1. MoneyInv => ExecutingIsRecoverable
  BY DEF MoneyInv, RowInv, ExecutingIsRecoverable
<1> QED
  BY <1>1, MoneyCorrect, PTL

-----------------------------------------------------------------------------
(* QuoteLifecycle implements PaidCall under phaseBar. *)

Closed == {"expired", "canceled"}

LEMMA PhaseValue ==
    ASSUME NEW q \in Quote
    PROVE  /\ q \in ledger => phaseBar[q] = "recorded"
           /\ q \notin ledger /\ row[q].attempts > 0 => phaseBar[q] = "called"
           /\ q \notin ledger /\ ~(row[q].attempts > 0) =>
                  phaseBar[q] = IF row[q].status \in Closed THEN "closed" ELSE "open"
           /\ q \in ledger' => phaseBar'[q] = "recorded"
           /\ q \notin ledger' /\ row'[q].attempts > 0 => phaseBar'[q] = "called"
           /\ q \notin ledger' /\ ~(row'[q].attempts > 0) =>
                  phaseBar'[q] = IF row'[q].status \in Closed THEN "closed" ELSE "open"
  BY DEF phaseBar, Closed

LEMMA PhaseStutters ==
    ASSUME UNCHANGED ledger,
           \A q \in Quote :
               /\ row'[q].attempts = row[q].attempts
               /\ row'[q].status \in Closed <=> row[q].status \in Closed
    PROVE  UNCHANGED phaseBar
<1>1. \A q \in Quote : phaseBar'[q] = phaseBar[q]
  BY PhaseValue
<1> QED
  BY <1>1 DEF phaseBar

LEMMA PhaseMoves ==
    ASSUME NEW q \in Quote, NEW from, NEW to, phaseBar[q] = from, phaseBar'[q] = to,
           \A r \in Quote : r # q => row'[r] = row[r] /\ (r \in ledger' <=> r \in ledger)
    PROVE  Promise!Move(q, from, to)
<1>1. \A r \in Quote : r # q => phaseBar'[r] = phaseBar[r]
  BY PhaseValue
<1>2. phaseBar' = [phaseBar EXCEPT ![q] = to]
  BY <1>1, ZenonT(40) DEF phaseBar
<1> QED
  BY <1>2 DEF Promise!Move

LEMMA PromiseInit == Init => Promise!Init
<1> SUFFICES ASSUME Init PROVE phaseBar = [q \in Quote |-> "open"]
  BY DEF Promise!Init
<1>1. \A q \in Quote : phaseBar[q] = "open"
  BY PhaseValue DEF Init, NoRow, Closed
<1> QED
  BY <1>1 DEF phaseBar

LEMMA PromiseProceed ==
    ASSUME MoneyInv, NEW h \in Handler, Proceed(h)
    PROVE  [Promise!Next]_phaseBar
<1> DEFINE q == op[h].task
<1>0. TypeInv /\ row \in [Quote -> QuoteRow] /\ op \in [Handler -> Op]
  BY DEF MoneyInv, TypeInv, TypeOK
<1>1. CASE \/ LockActor(h) \/ LockQuote(h) \/ LockUnavailable(h) \/ PreflightFails(h)
           \/ RejectReplay(h) \/ RunBlocked(h) \/ ExecutionAlreadyStarted(h)
           \/ FetchReturns(h) \/ Unlock(h) \/ UnlockFails(h)
  BY <1>1, PhaseStutters
  DEF LockActor, LockQuote, LockUnavailable, PreflightFails, RejectReplay, RunBlocked,
      ExecutionAlreadyStarted, FetchReturns, Unlock, UnlockFails
<1>2. ASSUME NEW p \in Quote, QuoteForConfirmation(h, p) \/ QuoteAutoApproved(h, p)
      PROVE  [Promise!Next]_phaseBar
  <2>1. PICK status \in {"pending", "approved"}, pc \in {"quoted", "approved"} :
            CreateQuote(h, p, status, pc)
    BY <1>2 DEF QuoteForConfirmation, QuoteAutoApproved
  <2>2. row[p].status = "none" /\ row[p].attempts = 0
    BY <2>1 DEF CreateQuote, Startable, MoneyInv, RowInv
  <2>3. row'[p] = NewRow(status) /\ \A r \in Quote : r # p => row'[r] = row[r]
    BY <1>0, <2>1 DEF CreateQuote
  <2>4. row'[p].status = status /\ row'[p].attempts = 0
    BY <2>3 DEF NewRow
  <2> QED
    BY <2>1, <2>2, <2>3, <2>4, PhaseStutters DEF CreateQuote, Closed
<1>3. CASE ExpireQuote(h)
  <2>1. q \in Quote /\ row[q].status = "pending"
    BY <1>0, <1>3 DEF ExpireQuote, TypeInv, TaskOK, HasTask, At
  <2>2. row[q].attempts = 0 /\ q \notin ledger
    BY <1>0, <2>1 DEF MoneyInv, RowInv, Startable, TypeInv, TypeOK
  <2>3. /\ row'[q].status = "expired" /\ row'[q].attempts = 0 /\ ledger' = ledger
        /\ \A r \in Quote : r # q => row'[r] = row[r]
    BY <1>0, <1>3, <2>1, <2>2, UpdateEffect DEF ExpireQuote, Status
  <2>4. phaseBar[q] = "open" /\ phaseBar'[q] = "closed"
    BY <2>1, <2>2, <2>3, PhaseValue DEF Closed
  <2>5. Promise!Close(q)
    BY <2>1, <2>3, <2>4, PhaseMoves DEF Promise!Close
  <2> QED
    BY <2>1, <2>5 DEF Promise!Next
<1>4. CASE ApproveQuote(h)
  <2>1. q \in Quote /\ row[q].status = "pending"
    BY <1>0, <1>4 DEF ApproveQuote, CanApprove, TypeInv, TaskOK, HasTask, At
  <2>2. /\ row'[q].status = "approved" /\ row'[q].attempts = row[q].attempts
        /\ \A r \in Quote : r # q => row'[r] = row[r]
    BY <1>0, <1>4, <2>1 DEF ApproveQuote, QuoteRow
  <2> QED
    BY <1>4, <2>1, <2>2, PhaseStutters DEF ApproveQuote, Closed
<1>5. CASE BeginExecution(h)
  <2>1. q \in Quote /\ CanBegin(q)
    BY <1>0, <1>5 DEF BeginExecution, TypeInv, TaskOK, HasTask, At
  <2>2. row[q].attempts = 0 /\ q \notin ledger
    BY <1>0, <2>1 DEF CanBegin, MoneyInv, RowInv, Startable, TypeInv, TypeOK
  <2>3. /\ row'[q].attempts = 1 /\ ledger' = ledger
        /\ \A r \in Quote : r # q => row'[r] = row[r]
    BY <1>0, <1>5, <2>1, <2>2, BegunType DEF BeginExecution, TypeInv, TypeOK
  <2>4. phaseBar[q] = "open" /\ phaseBar'[q] = "called"
    BY <2>1, <2>2, <2>3, PhaseValue DEF CanBegin, Closed
  <2>5. Promise!Call(q)
    BY <2>1, <2>3, <2>4, PhaseMoves DEF Promise!Call
  <2> QED
    BY <2>1, <2>5 DEF Promise!Next
<1>6. CASE ExecutionThrows(h)
  <2>1. q \in Quote /\ "executing" \in Status /\ "execution_unknown" \in Status
    BY <1>0, <1>6 DEF ExecutionThrows, TypeInv, TaskOK, HasTask, At, Running, Status
  <2> QED
    BY <1>0, <1>6, <2>1, TransitionEffect, PhaseStutters DEF ExecutionThrows, AfterThrow, Closed
<1>7. CASE RecordTransaction(h)
  <2>1. q \in Quote /\ q \notin ledger /\ row[q].attempts = 1
    BY <1>0, <1>7
    DEF RecordTransaction, TypeInv, TaskOK, HasTask, At, Running, MoneyInv, FlightInv, InFlight
  <2>2. row' = row /\ ledger' = ledger \union {q}
    BY <1>7 DEF RecordTransaction
  <2>3. phaseBar[q] = "called" /\ phaseBar'[q] = "recorded"
    BY <2>1, <2>2, PhaseValue
  <2>4. Promise!Record(q)
    BY <2>1, <2>2, <2>3, PhaseMoves DEF Promise!Record
  <2> QED
    BY <2>1, <2>4 DEF Promise!Next
<1>8. CASE SettleQuote(h)
  <2>1. q \in Quote /\ "executing" \in Status /\ "succeeded" \in Status
    BY <1>0, <1>8 DEF SettleQuote, TypeInv, TaskOK, HasTask, At, Running, Status
  <2> QED
    BY <1>0, <1>8, <2>1, TransitionEffect, PhaseStutters DEF SettleQuote, Closed
<1> QED
  BY <1>1, <1>2, <1>3, <1>4, <1>5, <1>6, <1>7, <1>8 DEF Proceed

LEMMA PromiseStep == MoneyInv /\ [Next]_vars => [Promise!Next]_phaseBar
<1> SUFFICES ASSUME MoneyInv, [Next]_vars PROVE [Promise!Next]_phaseBar
  OBVIOUS
<1>0. TypeInv /\ row \in [Quote -> QuoteRow]
  BY DEF MoneyInv, TypeInv, TypeOK
<1>1. ASSUME NEW h \in Handler, Proceed(h) PROVE [Promise!Next]_phaseBar
  BY <1>1, PromiseProceed
<1>2. CASE \/ \E h \in Handler, a \in Actor :
                 \/ StartCommand(h, a)
                 \/ \E q \in Quote : ConfirmTelegram(h, a, q) \/ ConfirmDiscord(h, a, q)
           \/ \E hs \in Processes : Crash(hs)
           \/ Tick
           \/ UNCHANGED vars
  BY <1>2, PhaseStutters
  DEF StartCommand, ConfirmTelegram, ConfirmDiscord, PressConfirm, Crash, Tick, vars
<1>3. ASSUME NEW q \in Quote, CancelTelegram(q) \/ CancelDiscord(q)
      PROVE  [Promise!Next]_phaseBar
  <2>1. /\ row'[q].status = "canceled" /\ row'[q].attempts = row[q].attempts
        /\ ledger' = ledger
        /\ \A r \in Quote : r # q => row'[r] = row[r]
    BY <1>0, <1>3, UpdateEffect DEF CancelTelegram, CancelDiscord, PressCancel, Status
  <2>2. CASE q \in ledger \/ row[q].attempts > 0 \/ row[q].status \in Closed
    <3>1. phaseBar'[q] = phaseBar[q]
      BY <2>1, <2>2, PhaseValue DEF Closed
    <3>2. \A r \in Quote : phaseBar'[r] = phaseBar[r]
      BY <2>1, <3>1, PhaseValue
    <3> QED
      BY <3>2 DEF phaseBar
  <2>3. CASE q \notin ledger /\ ~(row[q].attempts > 0) /\ row[q].status \notin Closed
    <3>1. phaseBar[q] = "open" /\ phaseBar'[q] = "closed"
      BY <2>1, <2>3, PhaseValue DEF Closed
    <3>2. Promise!Close(q)
      BY <2>1, <3>1, PhaseMoves DEF Promise!Close
    <3> QED
      BY <3>2 DEF Promise!Next
  <2> QED
    BY <2>2, <2>3
<1>4. ASSUME NEW q \in Quote, Reconcile(q) PROVE [Promise!Next]_phaseBar
  <2>1. PICK to \in {"succeeded", "execution_unknown"} :
            row' = TransitionStatus(q, "executing", to)
    BY <1>4 DEF Reconcile, Reconciled
  <2>2. to \in Status /\ "executing" \in Status
    BY DEF Status
  <2> QED
    BY <1>0, <1>4, <2>1, <2>2, TransitionEffect, PhaseStutters DEF Reconcile, Closed
<1>5. ASSUME NEW q \in Quote, MarkReviewed(q) PROVE [Promise!Next]_phaseBar
  <2>1. /\ row'[q].status = row[q].status
        /\ row'[q].attempts = row[q].attempts
        /\ \A r \in Quote : r # q => row'[r] = row[r]
    BY <1>0, <1>5 DEF MarkReviewed, QuoteRow
  <2> QED
    BY <1>5, <2>1, PhaseStutters DEF MarkReviewed
<1> QED
  BY <1>1, <1>2, <1>3, <1>4, <1>5 DEF Next

\* The tables, handlers, locks and clocks together keep what PaidCall promises
\* of a quote's money: closed for good or called once, then recorded once.
THEOREM PromiseKept == Spec => PromiseSpec
<1>1. Spec => Promise!Init
  BY PromiseInit DEF Spec
<1> QED
  BY <1>1, PromiseStep, MoneyCorrect, PTL DEF Spec, PromiseSpec, Promise!Spec

-----------------------------------------------------------------------------
(* Telegram quotes.  The right to act on one is a token: it is with the        *)
(* handler that creates the quote, then in the session, then with the one       *)
(* confirmation or cancellation that consumed the session.                      *)

Telegram == Quote \ DiscordQuote

Acting == {"lockActor", "lockQuote", "check", "approved", "quoted"} \union Running

Busy(h, q) == op[h].task = q /\ op[h].pc \in Acting

TokenAt(q) ==
    /\ \A h, g \in Handler : Busy(h, q) /\ Busy(g, q) => h = g
    /\ session[Requester[q]] = q =>
           row[q].status = "pending" /\ \A h \in Handler : ~Busy(h, q)
    /\ row[q].status = "none" => \A h \in Handler : ~Busy(h, q)
    /\ \A h \in Handler : op[h].task = q =>
           /\ op[h].pc = "quoted" => row[q].status = "pending"
           /\ op[h].pc = "approved" => row[q].status = "approved"
    /\ row[q].status = "canceled" => row[q].attempts = 0
    /\ row[q].status # "failed"

TokenInv == MoneyInv /\ \A q \in Telegram : TokenAt(q)

\* The documented machine allows the step's change of q's status.
Documented(q) ==
    row[q].status \notin {"none", row'[q].status} => ValidTransition(row[q].status, row'[q].status)

\* Steps that neither hand the token on nor move the status.
LEMMA TokenKept ==
    ASSUME NEW q \in Telegram, TokenAt(q),
           row'[q].status = row[q].status, row'[q].attempts = row[q].attempts,
           session'[Requester[q]] = q => session[Requester[q]] = q,
           \A h \in Handler :
               \/ op'[h].task # q
               \/ op'[h].pc \notin Acting
               \/ op'[h].pc \notin {"quoted", "approved"} /\ Busy(h, q)
               \/ op'[h] = op[h]
    PROVE  TokenAt(q)' /\ Documented(q)
<1>1. \A h \in Handler : Busy(h, q)' => Busy(h, q)
  BY DEF Busy
<1>2. \A h \in Handler :
         op'[h].task = q /\ op'[h].pc \in {"quoted", "approved"} => op'[h] = op[h]
  BY DEF Acting
<1>3. \A h \in Handler : op'[h].task = q =>
         /\ op'[h].pc = "quoted" => row'[q].status = "pending"
         /\ op'[h].pc = "approved" => row'[q].status = "approved"
  BY <1>2 DEF TokenAt
<1> QED
  BY <1>1, <1>3 DEF TokenAt, Documented

\* Steps of the handler that has the token.
LEMMA TokenMoves ==
    ASSUME NEW q \in Telegram, TokenAt(q), NEW h \in Handler, Busy(h, q), session' = session,
           \A g \in Handler : g # h => op'[g] = op[g],
           op'[h].pc # "quoted",
           op'[h].pc = "approved" => row'[q].status = "approved",
           row'[q].status \notin {"none", "failed", "canceled"}
    PROVE  TokenAt(q)'
<1>1. session'[Requester[q]] # q
  BY DEF TokenAt
<1>2. \A g \in Handler : g # h => ~Busy(g, q)'
  BY DEF TokenAt, Busy
<1>3. \A g \in Handler : op'[g].task = q /\ op'[g].pc \in {"quoted", "approved"} => g = h
  BY <1>2 DEF Busy, Acting
<1> QED
  BY <1>1, <1>2, <1>3 DEF TokenAt

LEMMA ConsumeEffect ==
    ASSUME session \in [Actor -> Quote \union {NoQuote}], NEW p \in Quote, NEW q \in Quote,
           session' = ConsumeSession(p)
    PROVE  /\ session'[Requester[p]] # p
           /\ session'[Requester[q]] = q => session[Requester[q]] = q
  BY QuoteAssumption DEF ConsumeSession

LEMMA TokenInit == Init => TokenInv
<1> SUFFICES ASSUME Init PROVE \A q \in Telegram : TokenAt(q)
  BY MoneyInit DEF TokenInv
<1>1. \A q \in Telegram : Requester[q] \in Actor /\ q # NoQuote /\ q \in Quote
  BY QuoteAssumption DEF Telegram
<1> QED
  BY <1>1 DEF Init, TokenAt, Busy, Idle, NoRow

LEMMA TokenProceed ==
    ASSUME MoneyInv, NEW q \in Telegram, TokenAt(q), NEW h \in Handler, Proceed(h)
    PROVE  TokenAt(q)' /\ Documented(q)
<1> USE DEF At, PC, Unlocking
<1> DEFINE p == op[h].task
<1>0. /\ TypeInv /\ row \in [Quote -> QuoteRow] /\ op \in [Handler -> Op]
      /\ session \in [Actor -> Quote \union {NoQuote}]
      /\ q \in Quote /\ q # NoQuote /\ Requester[q] \in Actor /\ q \notin DiscordQuote
  BY QuoteAssumption DEF MoneyInv, TypeInv, TypeOK, Telegram
<1>1. CASE \/ LockActor(h) \/ LockQuote(h) \/ LockUnavailable(h) \/ PreflightFails(h)
           \/ RejectReplay(h) \/ RunBlocked(h) \/ ExecutionAlreadyStarted(h)
           \/ FetchReturns(h) \/ RecordTransaction(h)
  <2>1. UNCHANGED <<row, session>>
    BY <1>1
    DEF LockActor, LockQuote, LockUnavailable, PreflightFails, RejectReplay, RunBlocked,
        ExecutionAlreadyStarted, FetchReturns, RecordTransaction
  <2>2. PICK pc \in PC :
            /\ Goto(h, pc)
            /\ \/ pc \notin Acting
               \/ pc \in Acting \ {"quoted", "approved"} /\ op[h].pc \in Acting
    BY <1>1
    DEF LockActor, LockQuote, LockUnavailable, PreflightFails, RejectReplay, RunBlocked,
        ExecutionAlreadyStarted, FetchReturns, RecordTransaction, Acting, Running
  <2>3. /\ op'[h].pc = pc /\ op'[h].task = op[h].task
        /\ \A g \in Handler : g # h => op'[g] = op[g]
    BY <1>0, <2>2, GotoEffect
  <2> QED
    BY <2>1, <2>2, <2>3, TokenKept DEF Busy
<1>2. ASSUME NEW r \in Quote, QuoteForConfirmation(h, r) \/ QuoteAutoApproved(h, r)
      PROVE  TokenAt(q)' /\ Documented(q)
  <2>1. PICK status \in {"pending", "approved"}, pc \in {"quoted", "approved"} :
            /\ CreateQuote(h, r, status, pc)
            /\ pc = "quoted" => status = "pending"
            /\ pc = "approved" => status = "approved"
    BY <1>2 DEF QuoteForConfirmation, QuoteAutoApproved
  <2>2. row'[r] = NewRow(status) /\ \A t \in Quote : t # r => row'[t] = row[t]
    BY <1>0, <2>1 DEF CreateQuote
  <2>3. /\ op'[h].task = r /\ op'[h].pc = pc
        /\ \A g \in Handler : g # h => op'[g] = op[g]
    BY <1>0, <2>1 DEF CreateQuote, Op
  <2>4. session' = session /\ row[r].status = "none"
    BY <2>1 DEF CreateQuote
  <2>5. CASE r # q
    BY <1>0, <2>2, <2>3, <2>4, <2>5, TokenKept
  <2>6. CASE r = q
    <3>1. session[Requester[q]] # q /\ \A g \in Handler : ~Busy(g, q)
      BY <2>4, <2>6 DEF TokenAt
    <3>2. row'[q].status = status /\ row'[q].attempts = 0
      BY <2>2, <2>6 DEF NewRow
    <3>3. \A g \in Handler : g # h => ~Busy(g, q)'
      BY <2>3, <3>1 DEF Busy
    <3>4. \A g \in Handler : op'[g].task = q /\ op'[g].pc \in {"quoted", "approved"} => g = h
      BY <3>3 DEF Busy, Acting
    <3> QED
      BY <2>1, <2>3, <2>4, <2>6, <3>1, <3>2, <3>3, <3>4 DEF TokenAt, Documented
  <2> QED
    BY <2>5, <2>6
<1>3. CASE ExpireQuote(h)
  <2>1. p \in Quote /\ row[p].status = "pending" /\ op[h].pc = "check" /\ session' = session
    BY <1>0, <1>3 DEF ExpireQuote, TypeInv, TaskOK, HasTask
  <2>2. row'[p].status = "expired" /\ \A r \in Quote : r # p => row'[r] = row[r]
    BY <1>0, <1>3, <2>1, UpdateEffect DEF ExpireQuote, Status
  <2>3. op'[h].pc = "failed" /\ \A g \in Handler : g # h => op'[g] = op[g]
    BY <1>0, <1>3, GotoEffect DEF ExpireQuote
  <2>4. CASE p # q
    BY <1>0, <2>1, <2>2, <2>3, <2>4, TokenKept DEF Acting, Running
  <2>5. CASE p = q
    BY <2>1, <2>2, <2>3, <2>5, TokenMoves DEF Busy, Acting, Documented, ValidTransition
  <2> QED
    BY <2>4, <2>5
<1>4. CASE ApproveQuote(h)
  <2>1. p \in Quote /\ row[p].status = "pending" /\ op[h].pc = "check" /\ session' = session
    BY <1>0, <1>4 DEF ApproveQuote, CanApprove, TypeInv, TaskOK, HasTask
  <2>2. row'[p].status = "approved" /\ \A r \in Quote : r # p => row'[r] = row[r]
    BY <1>0, <1>4, <2>1 DEF ApproveQuote, QuoteRow
  <2>3. /\ op'[h].pc = "approved" /\ op'[h].task = p
        /\ \A g \in Handler : g # h => op'[g] = op[g]
    BY <1>0, <1>4, GotoEffect DEF ApproveQuote
  <2>4. CASE p # q
    BY <1>0, <2>1, <2>2, <2>3, <2>4, TokenKept
  <2>5. CASE p = q
    BY <2>1, <2>2, <2>3, <2>5, TokenMoves DEF Busy, Acting, Documented, ValidTransition
  <2> QED
    BY <2>4, <2>5
<1>5. CASE BeginExecution(h)
  <2>1. p \in Quote /\ CanBegin(p) /\ op[h].pc = "approved" /\ session' = session
    BY <1>0, <1>5 DEF BeginExecution, TypeInv, TaskOK, HasTask
  <2>2. row'[p].status = "executing" /\ \A r \in Quote : r # p => row'[r] = row[r]
    BY <1>0, <1>5, <2>1, BegunType DEF BeginExecution, TypeInv, TypeOK
  <2>3. /\ op'[h].pc = "fetching" /\ op'[h].task = p
        /\ \A g \in Handler : g # h => op'[g] = op[g]
    BY <1>0, <1>5, GotoEffect DEF BeginExecution, Running
  <2>4. CASE p # q
    BY <1>0, <2>1, <2>2, <2>3, <2>4, TokenKept
  <2>5. CASE p = q
    <3>1. row[q].status = "approved"
      BY <2>1, <2>5 DEF TokenAt
    <3> QED
      BY <2>1, <2>2, <2>3, <2>5, <3>1, TokenMoves DEF Busy, Acting, Documented, ValidTransition
  <2> QED
    BY <2>4, <2>5
<1>6. CASE ExecutionThrows(h) \/ SettleQuote(h)
  <2>1. p \in Quote /\ op[h].pc \in Running /\ session' = session
    BY <1>0, <1>6 DEF ExecutionThrows, SettleQuote, TypeInv, TaskOK, HasTask, Running
  <2>2. PICK to \in {"succeeded", "execution_unknown"} :
            row' = TransitionStatus(p, "executing", to)
    BY <1>6 DEF ExecutionThrows, AfterThrow, SettleQuote
  <2>3. /\ \/ row'[p] = row[p]
           \/ row[p].status = "executing" /\ row'[p].status = to
        /\ \A r \in Quote : r # p => row'[r] = row[r]
    BY <1>0, <2>1, <2>2, TransitionEffect DEF Status
  <2>4. /\ op'[h].pc \in {"failed", "completed"}
        /\ \A g \in Handler : g # h => op'[g] = op[g]
    BY <1>0, <1>6, GotoEffect DEF ExecutionThrows, SettleQuote
  <2>5. CASE p # q \/ row'[p] = row[p]
    BY <1>0, <2>1, <2>3, <2>4, <2>5, TokenKept DEF Acting, Running
  <2>6. CASE p = q /\ row[p].status = "executing" /\ row'[p].status = to
    BY <2>1, <2>4, <2>6, TokenMoves DEF Busy, Acting, Documented, ValidTransition
  <2> QED
    BY <2>3, <2>5, <2>6
<1>7. CASE Unlock(h) \/ UnlockFails(h)
  <2>1. /\ row' = row /\ op'[h].task = NoQuote
        /\ \A g \in Handler : g # h => op'[g] = op[g]
    BY <1>0, <1>7 DEF Unlock, UnlockFails, Idle
  <2>2. CASE session'[Requester[q]] = q => session[Requester[q]] = q
    BY <1>0, <2>1, <2>2, TokenKept
  <2>3. CASE session'[Requester[q]] = q /\ session[Requester[q]] # q
    <3>1. op[h].task = q /\ op[h].pc = "quoted"
      BY <1>0, <1>7, <2>3, ConsumeEffect, QuoteAssumption
      DEF Unlock, UnlockFails, SessionAfter, TypeInv, TaskOK, Op
    <3>2. row[q].status = "pending"
      BY <3>1 DEF TokenAt
    <3>3. \A g \in Handler : ~Busy(g, q)'
      BY <1>0, <2>1, <3>1 DEF TokenAt, Busy, Acting
    <3>4. \A g \in Handler : op'[g].task = q => op'[g].pc \notin {"quoted", "approved"}
      BY <3>3 DEF Busy, Acting
    <3> QED
      BY <2>1, <3>2, <3>3, <3>4 DEF TokenAt, Documented
  <2> QED
    BY <2>2, <2>3
<1> QED
  BY <1>1, <1>2, <1>3, <1>4, <1>5, <1>6, <1>7 DEF Proceed

LEMMA TokenStep ==
    ASSUME MoneyInv, NEW q \in Telegram, TokenAt(q), [Next]_vars
    PROVE  TokenAt(q)' /\ Documented(q)
<1> USE DEF At
<1>0. /\ TypeInv /\ row \in [Quote -> QuoteRow] /\ op \in [Handler -> Op]
      /\ session \in [Actor -> Quote \union {NoQuote}]
      /\ q \in Quote /\ q # NoQuote /\ Requester[q] \in Actor /\ q \notin DiscordQuote
  BY QuoteAssumption DEF MoneyInv, TypeInv, TypeOK, Telegram
<1>1. ASSUME NEW h \in Handler, Proceed(h) PROVE TokenAt(q)' /\ Documented(q)
  BY <1>1, TokenProceed
<1>2. ASSUME NEW h \in Handler, NEW a \in Actor, StartCommand(h, a)
      PROVE  TokenAt(q)' /\ Documented(q)
  <2>1. /\ row' = row /\ op'[h].task = NoQuote
        /\ \A g \in Handler : g # h => op'[g] = op[g]
        /\ session' = [session EXCEPT ![a] = NoQuote]
    BY <1>0, <1>2 DEF StartCommand, Idle
  <2> QED
    BY <1>0, <2>1, TokenKept
<1>3. ASSUME NEW h \in Handler, NEW a \in Actor, NEW p \in Quote,
             ConfirmTelegram(h, a, p) \/ ConfirmDiscord(h, a, p)
      PROVE  TokenAt(q)' /\ Documented(q)
  <2>1. /\ row' = row /\ session[Requester[p]] = p
        /\ op'[h].task = p /\ op'[h].pc = "lockActor"
        /\ \A g \in Handler : g # h => op'[g] = op[g]
    BY <1>0, <1>3 DEF ConfirmTelegram, ConfirmDiscord, PressConfirm
  <2>2. /\ session'[Requester[q]] = q => session[Requester[q]] = q
        /\ p = q => session'[Requester[q]] # q
    BY <1>0, <1>3, ConsumeEffect DEF ConfirmTelegram, ConfirmDiscord
  <2>3. CASE p # q
    BY <1>0, <2>1, <2>2, <2>3, TokenKept
  <2>4. CASE p = q
    <3>1. row[q].status = "pending" /\ \A g \in Handler : ~Busy(g, q)
      BY <2>1, <2>4 DEF TokenAt
    <3>2. \A g \in Handler : g # h => ~Busy(g, q)'
      BY <2>1, <3>1 DEF Busy
    <3>3. \A g \in Handler : op'[g].task = q => op'[g].pc \notin {"quoted", "approved"}
      BY <2>1, <3>2 DEF Busy, Acting
    <3> QED
      BY <2>1, <2>2, <2>4, <3>1, <3>2, <3>3 DEF TokenAt, Documented
  <2> QED
    BY <2>3, <2>4
<1>4. ASSUME NEW p \in Quote, CancelTelegram(p) \/ CancelDiscord(p)
      PROVE  TokenAt(q)' /\ Documented(q)
  <2>1. session[Requester[p]] = p /\ op' = op /\ session' = ConsumeSession(p)
    BY <1>4 DEF CancelTelegram, CancelDiscord, PressCancel
  <2>2. /\ row'[p].status = "canceled" /\ row'[p].attempts = row[p].attempts
        /\ \A r \in Quote : r # p => row'[r] = row[r]
    BY <1>0, <1>4, UpdateEffect DEF CancelTelegram, CancelDiscord, PressCancel, Status
  <2>3. CASE p # q
    BY <1>0, <2>1, <2>2, <2>3, ConsumeEffect, TokenKept
  <2>4. CASE p = q
    <3>1. row[q].status = "pending" /\ \A g \in Handler : ~Busy(g, q)
      BY <2>1, <2>4 DEF TokenAt
    <3>2. row[q].attempts = 0
      BY <1>0, <3>1 DEF MoneyInv, RowInv, Startable
    <3>3. session'[Requester[q]] # q
      BY <1>0, <2>1, <2>4, ConsumeEffect
    <3>4. \A g \in Handler : ~Busy(g, q)' /\ (op'[g].task = q => op'[g].pc \notin {"quoted", "approved"})
      BY <2>1, <3>1 DEF Busy, Acting
    <3> QED
      BY <2>2, <2>4, <3>1, <3>2, <3>3, <3>4 DEF TokenAt, Documented, ValidTransition
  <2> QED
    BY <2>3, <2>4
<1>5. ASSUME NEW p \in Quote, Reconcile(p) PROVE TokenAt(q)' /\ Documented(q)
  <2>1. UNCHANGED <<op, session>>
    BY <1>5 DEF Reconcile
  <2>2. PICK to \in {"succeeded", "execution_unknown"} :
            row' = TransitionStatus(p, "executing", to)
    BY <1>5 DEF Reconcile, Reconciled
  <2>3. /\ row'[p].attempts = row[p].attempts
        /\ \/ row'[p] = row[p]
           \/ row[p].status = "executing" /\ row'[p].status = to
        /\ \A r \in Quote : r # p => row'[r] = row[r]
    BY <1>0, <2>2, TransitionEffect DEF Status
  <2>4. CASE p # q \/ row'[p] = row[p]
    BY <1>0, <2>1, <2>3, <2>4, TokenKept
  <2>5. CASE p = q /\ row[p].status = "executing" /\ row'[p].status = to
    <3>1. session[Requester[q]] # q
      BY <2>5 DEF TokenAt
    <3>2. \A h \in Handler : op[h].task = q => op[h].pc \notin {"quoted", "approved"}
      BY <2>5 DEF TokenAt
    <3>3. \A h, g \in Handler : Busy(h, q)' /\ Busy(g, q)' => h = g
      BY <2>1 DEF TokenAt, Busy
    <3> QED
      BY <2>1, <2>5, <3>1, <3>2, <3>3 DEF TokenAt, Documented, ValidTransition
  <2> QED
    BY <2>3, <2>4, <2>5
<1>6. ASSUME NEW p \in Quote, MarkReviewed(p) PROVE TokenAt(q)' /\ Documented(q)
  <2>1. /\ row'[q].status = row[q].status
        /\ row'[q].attempts = row[q].attempts
    BY <1>0, <1>6 DEF MarkReviewed, QuoteRow
  <2> QED
    BY <1>6, <2>1, TokenKept DEF MarkReviewed
<1>7. ASSUME NEW hs \in Processes, Crash(hs) PROVE TokenAt(q)' /\ Documented(q)
  <2>1. UNCHANGED <<row, session>> /\ \A h \in Handler : op'[h] = op[h] \/ op'[h].task # q
    BY <1>0, <1>7 DEF Crash, Idle
  <2> QED
    BY <2>1, TokenKept
<1>8. CASE Tick \/ UNCHANGED vars
  BY <1>8, TokenKept DEF Tick, vars
<1> QED
  BY <1>1, <1>2, <1>3, <1>4, <1>5, <1>6, <1>7, <1>8 DEF Next

LEMMA TokenCorrect == Spec => []TokenInv
<1>1. TokenInv /\ [Next]_vars => TokenInv'
  BY MoneyStep, TokenStep DEF TokenInv
<1> QED
  BY <1>1, TokenInit, PTL DEF Spec

\* A Telegram quote follows the documented status machine although cancel and
\* expiry write the status without looking at it.
THEOREM TelegramFollowsStatusMachine == Spec => TelegramStatusMachine
<1>1. TokenInv /\ [Next]_vars =>
          [\A q \in Quote \ DiscordQuote :
              row[q].status \notin {"none", row'[q].status}
                  => ValidTransition(row[q].status, row'[q].status)]_row
  BY TokenStep DEF TokenInv, Telegram, Documented
<1> QED
  BY <1>1, TokenCorrect, PTL DEF Spec, TelegramStatusMachine

\* What upstream charged for a Telegram quote never drops out of sight: the quote
\* is in flight, settled, or in the operator's list.
THEOREM PaidAlwaysAccounted == Spec => []PaidIsAccounted
<1>1. TokenInv => PaidIsAccounted
  <2> SUFFICES ASSUME TokenInv, NEW q \in Quote \ DiscordQuote, paid[q] > 0
               PROVE  row[q].status \in {"executing", "succeeded", "execution_unknown"}
    BY DEF PaidIsAccounted
  <2>1. row[q].attempts # 0
    BY DEF TokenInv, MoneyInv, RowInv, TypeInv, TypeOK, QuoteRow
  <2>2. row[q].status \in Status
    BY DEF TokenInv, MoneyInv, TypeInv, TypeOK, QuoteRow
  <2> QED
    BY <2>1, <2>2 DEF TokenInv, MoneyInv, RowInv, TokenAt, Telegram, Startable, Status
<1> QED
  BY <1>1, TokenCorrect, PTL

-----------------------------------------------------------------------------
(* Every quote, Discord's included, where the token argument fails: what a     *)
(* cancel can do to it, and who looks after it while it executes.              *)

\* A handler that may start a quote has seen it leave `pending', where none returns.
PastPending == \A h \in Handler : At(h, "approved") => row[op[h].task].status \notin {"none", "pending"}

\* Nothing writes the status `failed'.
NeverFailed == \A q \in Quote : row[q].status # "failed"

StatusInv == MoneyInv /\ PastPending /\ NeverFailed

CanceledNow(q) ==
    row'[q].status = "canceled" /\ session[Requester[q]] = q /\ session'[Requester[q]] # q

\* How a step may change the status of a quote.
StatusMove(q) ==
    \/ row'[q].status = row[q].status
    \/ row[q].status = "none" /\ row'[q].status \in {"pending", "approved"}
    \/ ValidTransition(row[q].status, row'[q].status) /\ row'[q].status # "failed"
    \/ CanceledNow(q)

LEMMA StatusProceed ==
    ASSUME StatusInv, NEW h \in Handler, Proceed(h), NEW q \in Quote
    PROVE  StatusMove(q)
<1> USE DEF At
<1> DEFINE p == op[h].task
<1>0. TypeInv /\ row \in [Quote -> QuoteRow] /\ (op[h].pc \in HasTask => p \in Quote)
  BY DEF StatusInv, MoneyInv, TypeInv, TypeOK, TaskOK
<1>1. CASE \/ LockActor(h) \/ LockQuote(h) \/ LockUnavailable(h) \/ PreflightFails(h)
           \/ RejectReplay(h) \/ RunBlocked(h) \/ ExecutionAlreadyStarted(h)
           \/ FetchReturns(h) \/ RecordTransaction(h) \/ Unlock(h) \/ UnlockFails(h)
  BY <1>1
  DEF LockActor, LockQuote, LockUnavailable, PreflightFails, RejectReplay, RunBlocked,
      ExecutionAlreadyStarted, FetchReturns, RecordTransaction, Unlock, UnlockFails, StatusMove
<1>2. ASSUME NEW r \in Quote, QuoteForConfirmation(h, r) \/ QuoteAutoApproved(h, r)
      PROVE  StatusMove(q)
  <2>1. PICK status \in {"pending", "approved"} :
            row[r].status = "none" /\ row' = [row EXCEPT ![r] = NewRow(status)]
    BY <1>2 DEF QuoteForConfirmation, QuoteAutoApproved, CreateQuote
  <2> QED
    BY <1>0, <2>1 DEF NewRow, StatusMove
<1>3. CASE ExpireQuote(h)
  <2>1. p \in Quote /\ row[p].status = "pending" /\ row' = UpdateStatus(p, "expired")
    BY <1>0, <1>3 DEF ExpireQuote, HasTask
  <2>2. row'[p].status = "expired" /\ \A r \in Quote : r # p => row'[r] = row[r]
    BY <1>0, <2>1, UpdateEffect DEF Status
  <2> QED
    BY <2>1, <2>2 DEF StatusMove, ValidTransition
<1>4. CASE ApproveQuote(h)
  <2>1. p \in Quote /\ row[p].status = "pending" /\ row' = [row EXCEPT ![p].status = "approved"]
    BY <1>0, <1>4 DEF ApproveQuote, CanApprove, HasTask
  <2>2. row'[p].status = "approved" /\ \A r \in Quote : r # p => row'[r] = row[r]
    BY <1>0, <2>1 DEF QuoteRow
  <2> QED
    BY <2>1, <2>2 DEF StatusMove, ValidTransition
<1>5. CASE BeginExecution(h)
  <2>1. p \in Quote /\ row[p].status = "approved" /\ row' = [row EXCEPT ![p] = Begun(@)]
    BY <1>0, <1>5 DEF BeginExecution, CanBegin, HasTask, StatusInv, PastPending
  <2>2. row'[p].status = "executing" /\ \A r \in Quote : r # p => row'[r] = row[r]
    BY <1>0, <2>1 DEF QuoteRow, Begun
  <2> QED
    BY <2>1, <2>2 DEF StatusMove, ValidTransition
<1>6. CASE ExecutionThrows(h) \/ SettleQuote(h)
  <2>1. PICK to \in {"succeeded", "execution_unknown"} :
            p \in Quote /\ row' = TransitionStatus(p, "executing", to)
    BY <1>0, <1>6 DEF ExecutionThrows, AfterThrow, SettleQuote, HasTask, Running
  <2>2. "executing" \in Status /\ to \in Status
    BY DEF Status
  <2>3. \/ row'[p] = row[p]
        \/ /\ ValidTransition("executing", to) /\ to # "failed"
           /\ row[p].status = "executing" /\ row'[p].status = to
    BY <1>0, <2>1, <2>2, TransitionEffect
  <2>4. \A r \in Quote : r # p => row'[r] = row[r]
    BY <1>0, <2>1, <2>2, TransitionEffect
  <2> QED
    BY <2>3, <2>4 DEF StatusMove
<1> QED
  BY <1>1, <1>2, <1>3, <1>4, <1>5, <1>6 DEF Proceed

LEMMA StatusMoves ==
    ASSUME StatusInv, [Next]_vars, NEW q \in Quote
    PROVE  StatusMove(q)
<1>0. TypeInv /\ row \in [Quote -> QuoteRow] /\ session \in [Actor -> Quote \union {NoQuote}]
  BY DEF StatusInv, MoneyInv, TypeInv, TypeOK
<1>1. ASSUME NEW h \in Handler, Proceed(h) PROVE StatusMove(q)
  BY <1>1, StatusProceed
<1>2. ASSUME NEW r \in Quote, CancelTelegram(r) \/ CancelDiscord(r) PROVE StatusMove(q)
  <2>1. /\ session[Requester[r]] = r /\ session' = ConsumeSession(r)
        /\ row' = UpdateStatus(r, "canceled")
    BY <1>2 DEF CancelTelegram, CancelDiscord, PressCancel
  <2>2. session'[Requester[r]] # r
    BY <1>0, <2>1, ConsumeEffect
  <2>3. row'[r].status = "canceled" /\ \A s \in Quote : s # r => row'[s] = row[s]
    BY <1>0, <2>1, UpdateEffect DEF Status
  <2> QED
    BY <2>1, <2>2, <2>3 DEF StatusMove, CanceledNow
<1>3. ASSUME NEW r \in Quote, Reconcile(r) PROVE StatusMove(q)
  <2>1. PICK to \in {"succeeded", "execution_unknown"} : row' = TransitionStatus(r, "executing", to)
    BY <1>3 DEF Reconcile, Reconciled
  <2> QED
    BY <1>0, <2>1, TransitionEffect DEF StatusMove, Status
<1>4. ASSUME NEW r \in Quote, MarkReviewed(r) PROVE StatusMove(q)
  <2>1. row' = [row EXCEPT ![r].review = "reviewed"]
    BY <1>4 DEF MarkReviewed
  <2>2. row'[q].status = row[q].status
    BY <1>0, <2>1 DEF QuoteRow
  <2> QED
    BY <2>2 DEF StatusMove
<1>5. ASSUME \/ \E h \in Handler, a \in Actor :
                    \/ StartCommand(h, a)
                    \/ \E r \in Quote : ConfirmTelegram(h, a, r) \/ ConfirmDiscord(h, a, r)
             \/ \E hs \in Processes : Crash(hs)
             \/ Tick \/ UNCHANGED vars
      PROVE  StatusMove(q)
  BY <1>5
  DEF StartCommand, ConfirmTelegram, ConfirmDiscord, PressConfirm, Crash, Tick, vars, StatusMove
<1> QED
  BY <1>1, <1>2, <1>3, <1>4, <1>5 DEF Next

\* A handler moves by itself, by the press or command that starts it, or with its
\* process.
LEMMA HandlerMove ==
    ASSUME TypeInv, [Next]_vars, NEW h \in Handler, op'[h] # op[h]
    PROVE  \/ Proceed(h)
           \/ op[h].pc = "idle" /\ op'[h].pc = "lockActor"
           \/ crashes' = crashes + 1 /\ op'[h] = Idle
<1>0. op \in [Handler -> Op] /\ crashes \in Nat
  BY DEF TypeInv, TypeOK
<1>1. ASSUME NEW g \in Handler, g # h, Proceed(g) PROVE FALSE
  <2>1. op' = [op EXCEPT ![g] = op'[g]]
    BY <1>0, <1>1
    DEF Proceed, LockActor, LockQuote, LockUnavailable, PreflightFails, QuoteForConfirmation,
        QuoteAutoApproved, CreateQuote, RejectReplay, ExpireQuote, ApproveQuote, RunBlocked,
        BeginExecution, ExecutionAlreadyStarted, FetchReturns, ExecutionThrows,
        RecordTransaction, SettleQuote, Unlock, UnlockFails, Goto
  <2> QED
    BY <1>0, <1>1, <2>1
<1>2. ASSUME NEW g \in Handler, NEW a \in Actor,
             \/ StartCommand(g, a)
             \/ \E r \in Quote : ConfirmTelegram(g, a, r) \/ ConfirmDiscord(g, a, r)
      PROVE  op[h].pc = "idle" /\ op'[h].pc = "lockActor"
  <2>1. CASE StartCommand(g, a)
    <3>1. At(g, "idle") /\ op' = [op EXCEPT ![g] = [Idle EXCEPT !.pc = "lockActor", !.actor = a]]
      BY <2>1 DEF StartCommand
    <3>2. [Idle EXCEPT !.pc = "lockActor", !.actor = a].pc = "lockActor"
      BY DEF Idle
    <3> QED
      BY <1>0, <3>1, <3>2 DEF At
  <2>2. CASE \E r \in Quote : ConfirmTelegram(g, a, r) \/ ConfirmDiscord(g, a, r)
    <3>1. PICK r \in Quote : PressConfirm(g, a, r)
      BY <2>2 DEF ConfirmTelegram, ConfirmDiscord
    <3> DEFINE pressed == [pc |-> "lockActor", kind |-> "confirm", actor |-> a, task |-> r]
    <3>2. At(g, "idle") /\ op' = [op EXCEPT ![g] = pressed]
      BY <3>1 DEF PressConfirm
    <3>3. pressed.pc = "lockActor"
      OBVIOUS
    <3> QED
      BY <1>0, <3>2, <3>3 DEF At
  <2> QED
    BY <1>2, <2>1, <2>2
<1>3. ASSUME NEW hs \in Processes, Crash(hs) PROVE crashes' = crashes + 1 /\ op'[h] = Idle
  BY <1>0, <1>3 DEF Crash
<1>4. ASSUME \/ \E q \in Quote : \/ CancelTelegram(q) \/ CancelDiscord(q)
                                 \/ Reconcile(q) \/ MarkReviewed(q)
             \/ Tick \/ UNCHANGED vars
      PROVE  FALSE
  BY <1>4 DEF CancelTelegram, CancelDiscord, PressCancel, Reconcile, MarkReviewed, Tick, vars
<1> QED
  BY <1>1, <1>2, <1>3, <1>4 DEF Next

\* A handler that is about to start a quote was so before, or has approved it just now.
LEMMA Approves ==
    ASSUME TypeInv, [Next]_vars, NEW h \in Handler, At(h, "approved")'
    PROVE  \/ At(h, "approved") /\ op'[h].task = op[h].task
           \/ row'[op'[h].task].status = "approved"
<1> USE DEF At, PC, Unlocking, Running
<1>0. /\ row \in [Quote -> QuoteRow] /\ op \in [Handler -> Op]
      /\ \A g \in Handler : op[g].pc \in HasTask => op[g].task \in Quote
  BY DEF TypeInv, TypeOK, TaskOK
<1>1. ASSUME Proceed(h) PROVE row'[op'[h].task].status = "approved"
  <2>1. CASE \E r \in Quote : QuoteAutoApproved(h, r)
    <3>1. PICK r \in Quote : /\ row' = [row EXCEPT ![r] = NewRow("approved")]
                             /\ op' = [op EXCEPT ![h].pc = "approved", ![h].task = r]
      BY <2>1 DEF QuoteAutoApproved, CreateQuote
    <3> QED
      BY <1>0, <3>1 DEF NewRow, Op
  <2>2. CASE ApproveQuote(h)
    <3>1. /\ row' = [row EXCEPT ![op[h].task].status = "approved"] /\ op[h].task \in Quote
          /\ Goto(h, "approved")
      BY <1>0, <2>2 DEF ApproveQuote, HasTask
    <3>2. op'[h].task = op[h].task
      BY <1>0, <3>1, GotoEffect
    <3> QED
      BY <1>0, <3>1, <3>2 DEF QuoteRow
  <2>3. ASSUME NEW pc \in PC \ {"approved"}, Goto(h, pc) PROVE FALSE
    BY <1>0, <2>3, GotoEffect
  <2>4. ~Unlock(h) /\ ~UnlockFails(h)
    BY <1>0 DEF Unlock, UnlockFails, Idle
  <2>5. ASSUME NEW r \in Quote, QuoteForConfirmation(h, r) PROVE FALSE
    BY <1>0, <2>5 DEF QuoteForConfirmation, CreateQuote, Op
  <2> QED
    BY <1>1, <2>1, <2>2, <2>3, <2>4, <2>5
    DEF Proceed, LockActor, LockQuote, LockUnavailable, PreflightFails, RejectReplay, ExpireQuote,
        RunBlocked, BeginExecution, ExecutionAlreadyStarted, FetchReturns, ExecutionThrows,
        RecordTransaction, SettleQuote
<1>2. CASE op'[h] # op[h]
  BY <1>1, <1>2, HandlerMove DEF Idle
<1> QED
  BY <1>2

LEMMA StatusInit == Init => StatusInv
  BY MoneyInit DEF Init, StatusInv, PastPending, NeverFailed, At, Idle, NoRow

LEMMA StatusStep == StatusInv /\ [Next]_vars => StatusInv'
<1> SUFFICES ASSUME StatusInv, [Next]_vars PROVE StatusInv'
  OBVIOUS
<1>1. MoneyInv' /\ TypeInv /\ TypeInv'
  BY MoneyStep DEF StatusInv, MoneyInv
<1>2. \A q \in Quote : StatusMove(q)
  BY StatusMoves
<1>3. NeverFailed'
  BY <1>2 DEF StatusInv, NeverFailed, StatusMove, CanceledNow
<1>4. ASSUME NEW h \in Handler, At(h, "approved")'
      PROVE  row'[op'[h].task].status \notin {"none", "pending"}
  <2>1. CASE At(h, "approved") /\ op'[h].task = op[h].task
    <3>1. op[h].task \in Quote /\ row[op[h].task].status \notin {"none", "pending"}
      BY <1>1, <2>1 DEF TypeInv, TaskOK, HasTask, At, StatusInv, PastPending
    <3> QED
      BY <1>2, <2>1, <3>1 DEF StatusMove, ValidTransition, CanceledNow
  <2> QED
    BY <1>1, <1>4, <2>1, Approves
<1> QED
  BY <1>1, <1>3, <1>4 DEF StatusInv, PastPending

LEMMA StatusCorrect == Spec => []StatusInv
  BY StatusInit, StatusStep, PTL DEF Spec

\* Any quote takes documented transitions but for one: to canceled, from wherever it
\* is, and only while the requester's session still holds it, which the cancel ends.
StatusMachineButForCancel ==
    [][\A q \in Quote :
           row[q].status \notin {"none", row'[q].status} =>
               ValidTransition(row[q].status, row'[q].status) \/ CanceledNow(q)]_vars

\* The cancel button is all that breaks the status machine of updateQuoteStatus's
\* callers; expiry, which checks nothing either, does not.
THEOREM OnlyCancelBreaksStatusMachine == Spec => StatusMachineButForCancel
<1>1. StatusInv /\ [Next]_vars =>
          [\A q \in Quote :
               row[q].status \notin {"none", row'[q].status} =>
                   ValidTransition(row[q].status, row'[q].status) \/ CanceledNow(q)]_vars
  BY StatusMoves DEF StatusMove
<1> QED
  BY <1>1, StatusCorrect, PTL DEF Spec, StatusMachineButForCancel

\* A charged quote of either platform, and where it may be found.
ChargedIsFound ==
    \A q \in Quote :
        paid[q] > 0 =>
            \/ row[q].status \in {"executing", "succeeded", "execution_unknown"}
            \/ q \in DiscordQuote /\ row[q].status = "canceled"

\* Money leaves a trace on Discord too, but for a cancel that comes while the call is
\* paid: with the run quote_discord_cancel, all that cancel can hide.
THEOREM ChargedAlwaysFound == Spec => []ChargedIsFound
<1>1. StatusInv /\ PaidIsAccounted => ChargedIsFound
  <2> SUFFICES ASSUME StatusInv, PaidIsAccounted, NEW q \in Quote, paid[q] > 0
               PROVE  \/ row[q].status \in {"executing", "succeeded", "execution_unknown"}
                      \/ q \in DiscordQuote /\ row[q].status = "canceled"
    BY DEF ChargedIsFound
  <2>1. row[q].attempts \in Nat /\ paid[q] \in Nat /\ row[q].status \in Status
    BY DEF StatusInv, MoneyInv, TypeInv, TypeOK, QuoteRow
  <2>2. row[q].status \notin Startable
    BY <2>1 DEF StatusInv, MoneyInv, RowInv
  <2>3. row[q].status # "failed"
    BY DEF StatusInv, NeverFailed
  <2>4. q \notin DiscordQuote => row[q].status \in {"executing", "succeeded", "execution_unknown"}
    BY DEF PaidIsAccounted
  <2> QED
    BY <2>1, <2>2, <2>3, <2>4 DEF Startable, Status
<1> QED
  BY <1>1, StatusCorrect, PaidAlwaysAccounted, PTL

-----------------------------------------------------------------------------
(* What the liveness of an execution rests on: a handler has only so many steps  *)
(* to take, and what executes has a handler.                                     *)

\* How far a handler is from being idle again.
Rank == [pc \in PC |->
            CASE pc = "lockActor"                      -> 8
              [] pc = "lockQuote"                      -> 7
              [] pc \in {"preflight", "check"}         -> 6
              [] pc = "approved"                       -> 5
              [] pc = "fetching"                       -> 4
              [] pc = "formatting"                     -> 3
              [] pc = "recorded"                       -> 2
              [] pc \in Unlocking                      -> 1
              [] OTHER                                 -> 0]

\* No handler of execute or executeApprovedQuote ever goes back or around: between two
\* requests it takes at most eight steps, whatever the others, crashes and locks do.
HandlersGoForward ==
    [][\A h \in Handler :
           op'[h] # op[h] => op[h].pc = "idle" \/ Rank[op'[h].pc] < Rank[op[h].pc]]_vars

LEMMA RankFalls ==
    ASSUME TypeInv, NEW h \in Handler, Proceed(h)
    PROVE  Rank[op'[h].pc] < Rank[op[h].pc]
<1> USE DEF At, PC, Running, Unlocking, Rank
<1>0. op \in [Handler -> Op]
  BY DEF TypeInv, TypeOK
<1>1. ASSUME NEW pc \in PC, Goto(h, pc) PROVE op'[h].pc = pc
  BY <1>0, <1>1, GotoEffect
<1>2. CASE LockActor(h)
  BY <1>0, <1>1, <1>2 DEF LockActor
<1>3. CASE LockQuote(h) \/ LockUnavailable(h) \/ PreflightFails(h)
  BY <1>0, <1>1, <1>3 DEF LockQuote, LockUnavailable, PreflightFails
<1>4. ASSUME NEW q \in Quote, QuoteForConfirmation(h, q) \/ QuoteAutoApproved(h, q)
      PROVE  Rank[op'[h].pc] < Rank[op[h].pc]
  <2>1. PICK pc \in {"quoted", "approved"} :
            At(h, "preflight") /\ op' = [op EXCEPT ![h].pc = pc, ![h].task = q]
    BY <1>4 DEF QuoteForConfirmation, QuoteAutoApproved, CreateQuote
  <2>2. op'[h].pc = pc
    BY <1>0, <2>1 DEF Op
  <2> QED
    BY <2>1, <2>2
<1>5. CASE RejectReplay(h) \/ ExpireQuote(h) \/ ApproveQuote(h)
  BY <1>0, <1>1, <1>5 DEF RejectReplay, ExpireQuote, ApproveQuote
<1>6. CASE RunBlocked(h) \/ BeginExecution(h) \/ ExecutionAlreadyStarted(h)
  BY <1>0, <1>1, <1>6 DEF RunBlocked, BeginExecution, ExecutionAlreadyStarted
<1>7. CASE \/ FetchReturns(h) \/ ExecutionThrows(h) \/ RecordTransaction(h) \/ SettleQuote(h)
  BY <1>0, <1>1, <1>7 DEF FetchReturns, ExecutionThrows, RecordTransaction, SettleQuote
<1>8. CASE Unlock(h) \/ UnlockFails(h)
  BY <1>0, <1>8 DEF Unlock, UnlockFails, Idle
<1> QED
  BY <1>2, <1>3, <1>4, <1>5, <1>6, <1>7, <1>8 DEF Proceed

\* The safety half of ExecutingSettles for one handler: its steps run out.
THEOREM HandlersAlwaysGoForward == Spec => HandlersGoForward
<1>1. TypeInv /\ [Next]_vars =>
          [\A h \in Handler :
               op'[h] # op[h] => op[h].pc = "idle" \/ Rank[op'[h].pc] < Rank[op[h].pc]]_vars
  <2> SUFFICES ASSUME TypeInv, [Next]_vars, NEW h \in Handler, op'[h] # op[h], op[h].pc # "idle"
               PROVE  Rank[op'[h].pc] < Rank[op[h].pc]
    OBVIOUS
  <2>1. CASE Proceed(h)
    BY <2>1, RankFalls
  <2>2. CASE op'[h] = Idle
    <3>1. op[h].pc \in PC
      BY DEF TypeInv, TypeOK, Op
    <3> QED
      BY <2>2, <3>1 DEF Idle, Rank, PC, Running, Unlocking
  <2> QED
    BY <2>1, <2>2, HandlerMove
<1> QED
  BY <1>1, TypeInit, TypeStep, PTL DEF Spec, HandlersGoForward

\* A quote starts to execute by the handler it was handed to.
LEMMA Starts ==
    ASSUME TypeInv, [Next]_vars, NEW q \in Quote,
           row[q].status # "executing", row'[q].status = "executing"
    PROVE  \E h \in Handler : op'[h].task = q /\ op'[h].pc = "fetching"
<1> USE DEF At
<1>0. /\ row \in [Quote -> QuoteRow] /\ op \in [Handler -> Op]
      /\ \A g \in Handler : op[g].pc \in HasTask => op[g].task \in Quote
  BY DEF TypeInv, TypeOK, TaskOK
<1>1. ASSUME NEW p \in Quote, NEW to \in Status \ {"executing"}, row' = UpdateStatus(p, to)
      PROVE  FALSE
  BY <1>0, <1>1, UpdateEffect
<1>2. ASSUME NEW p \in Quote, NEW to \in Status \ {"executing"},
             row' = TransitionStatus(p, "executing", to)
      PROVE  FALSE
  BY <1>0, <1>1, <1>2 DEF TransitionStatus
<1>3. ASSUME NEW h \in Handler, Proceed(h)
      PROVE  \E g \in Handler : op'[g].task = q /\ op'[g].pc = "fetching"
  <2>1. CASE BeginExecution(h)
    <3>1. Goto(h, "fetching") /\ op[h].task = q
      BY <1>0, <2>1 DEF BeginExecution
    <3> QED
      BY <1>0, <3>1, GotoEffect DEF PC, Running
  <2>2. CASE ExecutionThrows(h) \/ SettleQuote(h)
    BY <1>0, <1>2, <2>2 DEF ExecutionThrows, AfterThrow, SettleQuote, HasTask, Running, Status
  <2>3. CASE ExpireQuote(h)
    BY <1>0, <1>1, <2>3 DEF ExpireQuote, HasTask, Status
  <2>4. CASE ApproveQuote(h)
    BY <1>0, <2>4 DEF ApproveQuote, QuoteRow
  <2>5. ASSUME NEW r \in Quote, QuoteForConfirmation(h, r) \/ QuoteAutoApproved(h, r)
        PROVE  FALSE
    BY <1>0, <2>5 DEF QuoteForConfirmation, QuoteAutoApproved, CreateQuote, NewRow
  <2>6. CASE row' = row
    BY <2>6
  <2> QED
    BY <1>3, <2>1, <2>2, <2>3, <2>4, <2>5, <2>6
    DEF Proceed, LockActor, LockQuote, LockUnavailable, PreflightFails, RejectReplay, RunBlocked,
        ExecutionAlreadyStarted, FetchReturns, RecordTransaction, Unlock, UnlockFails
<1>4. ASSUME NEW p \in Quote, CancelTelegram(p) \/ CancelDiscord(p) PROVE FALSE
  BY <1>1, <1>4 DEF CancelTelegram, CancelDiscord, PressCancel, Status
<1>5. ASSUME NEW p \in Quote, Reconcile(p) PROVE FALSE
  BY <1>2, <1>5 DEF Reconcile, Reconciled, Status
<1>6. ASSUME NEW p \in Quote, MarkReviewed(p) PROVE FALSE
  <2>1. row'[q].status = row[q].status
    BY <1>0, <1>6 DEF MarkReviewed, QuoteRow
  <2> QED
    BY <2>1
<1>7. row' # row
  OBVIOUS
<1> QED
  BY <1>3, <1>4, <1>5, <1>6, <1>7
  DEF Next, StartCommand, ConfirmTelegram, ConfirmDiscord, PressConfirm, Crash, Tick, vars

\* While no process has died, what is executing is in the hands of a handler that
\* will settle it or throw.
ExecutingHasHandler ==
    \A q \in Quote :
        row[q].status = "executing" =>
            crashes > 0 \/ \E h \in Handler : op[h].task = q /\ op[h].pc \in Running

LEMMA HandlerStep ==
    ASSUME TypeInv, ExecutingHasHandler, [Next]_vars
    PROVE  ExecutingHasHandler'
<1> USE DEF At, Running
<1>0. /\ row \in [Quote -> QuoteRow] /\ op \in [Handler -> Op] /\ crashes \in Nat
      /\ \A g \in Handler : op[g].pc \in HasTask => op[g].task \in Quote
  BY DEF TypeInv, TypeOK, TaskOK
<1>1. crashes' \in {crashes, crashes + 1}
  <2>1. ASSUME NEW h \in Handler, Proceed(h) PROVE crashes' = crashes
    BY <2>1
    DEF Proceed, LockActor, LockQuote, LockUnavailable, PreflightFails,
        QuoteForConfirmation, QuoteAutoApproved, CreateQuote, RejectReplay, ExpireQuote,
        ApproveQuote, RunBlocked, BeginExecution, ExecutionAlreadyStarted, FetchReturns,
        ExecutionThrows, RecordTransaction, SettleQuote, Unlock, UnlockFails
  <2> QED
    BY <2>1
    DEF Next, StartCommand, ConfirmTelegram, ConfirmDiscord, PressConfirm, CancelTelegram,
        CancelDiscord, PressCancel, Reconcile, MarkReviewed, Crash, Tick, vars
<1> SUFFICES ASSUME NEW q \in Quote, row'[q].status = "executing", crashes' = 0
             PROVE  \E h \in Handler : op'[h].task = q /\ op'[h].pc \in Running
  BY <1>0, <1>1 DEF ExecutingHasHandler
<1>2. crashes = 0
  BY <1>0, <1>1
<1>3. CASE row[q].status # "executing"
  BY <1>3, Starts
<1>4. CASE row[q].status = "executing"
  <2>1. PICK h \in Handler : op[h].task = q /\ op[h].pc \in Running
    BY <1>0, <1>2, <1>4 DEF ExecutingHasHandler
  <2>2. CASE Proceed(h)
    <3>1. \A to \in {"succeeded", "execution_unknown"} : row' # TransitionStatus(q, "executing", to)
      <4>1. ASSUME NEW to \in {"succeeded", "execution_unknown"},
                   row' = TransitionStatus(q, "executing", to)
            PROVE  FALSE
        <5>1. row' = UpdateStatus(q, to) /\ to \in Status
          BY <1>4, <4>1 DEF TransitionStatus, ValidTransition, Status
        <5>2. row'[q].status = to
          BY <1>0, <5>1, UpdateEffect
        <5> QED
          BY <5>2
      <4> QED
        BY <4>1
    <3>2. ~SettleQuote(h) /\ ~ExecutionThrows(h)
      BY <2>1, <3>1 DEF SettleQuote, ExecutionThrows, AfterThrow
    <3>3. /\ ~LockActor(h) /\ ~LockQuote(h) /\ ~LockUnavailable(h) /\ ~PreflightFails(h)
          /\ \A r \in Quote : ~QuoteForConfirmation(h, r) /\ ~QuoteAutoApproved(h, r)
      BY <2>1
      DEF LockActor, LockQuote, LockUnavailable, PreflightFails, QuoteForConfirmation,
          QuoteAutoApproved, CreateQuote
    <3>4. /\ ~RejectReplay(h) /\ ~ExpireQuote(h) /\ ~ApproveQuote(h) /\ ~RunBlocked(h)
          /\ ~BeginExecution(h) /\ ~ExecutionAlreadyStarted(h) /\ ~Unlock(h) /\ ~UnlockFails(h)
      BY <2>1
      DEF RejectReplay, ExpireQuote, ApproveQuote, RunBlocked, BeginExecution,
          ExecutionAlreadyStarted, Unlock, UnlockFails, Unlocking
    <3>5. Goto(h, "formatting") \/ Goto(h, "recorded")
      BY <2>2, <3>2, <3>3, <3>4 DEF Proceed, FetchReturns, RecordTransaction
    <3> QED
      BY <1>0, <2>1, <3>5, GotoEffect DEF PC
  <2>3. CASE op'[h] = op[h]
    BY <2>1, <2>3
  <2> QED
    BY <1>0, <1>2, <2>1, <2>2, <2>3, HandlerMove
<1> QED
  BY <1>3, <1>4

\* The safety half of ExecutingSettles for the quote: no path out of a handler leaves
\* the status behind, and only a crash leaves a quote to the reconciler.
THEOREM ExecutingAlwaysHandled == Spec => []ExecutingHasHandler
<1>1. Init => ExecutingHasHandler
  BY DEF Init, ExecutingHasHandler, NoRow
<1>2. TypeInv /\ ExecutingHasHandler /\ [Next]_vars => ExecutingHasHandler'
  BY HandlerStep
<1> QED
  BY <1>1, <1>2, TypeInit, TypeStep, PTL DEF Spec

-----------------------------------------------------------------------------
(* The locks of handlers. *)

\* Before its TTL has passed, a key leaves its owner only when the owner's handler ends
\* or dies, and goes to nobody; a key whose token is lost stays lost.
LocksAreHonoured ==
    [][\A k \in LockKey :
           lockOwner[k] # Free /\ lockUntil[k] > now /\ lockOwner'[k] # lockOwner[k] =>
               /\ lockOwner[k] \in Handler
               /\ lockOwner'[k] \in {Free, Orphan}
               /\ op'[lockOwner[k]] = Idle]_vars

\* With either provider, and whatever Redis loses: nested sections, failing releases and
\* deaths of processes hand no lock on before its time.
THEOREM LocksAlwaysHonoured == Spec => LocksAreHonoured
<1>1. ASSUME TypeInv, [Next]_vars, NEW k \in LockKey,
             lockOwner[k] # Free, lockUntil[k] > now, lockOwner'[k] # lockOwner[k]
      PROVE  /\ lockOwner[k] \in Handler
             /\ lockOwner'[k] \in {Free, Orphan}
             /\ op'[lockOwner[k]] = Idle
  <2>0. /\ op \in [Handler -> Op] /\ lockOwner \in [LockKey -> Handler \union {Free, Orphan}]
        /\ lockUntil \in [LockKey -> Nat] /\ now \in Nat
    BY <1>1 DEF TypeInv, TypeOK
  <2>1. ASSUME NEW h \in Handler, NEW j, Take(h, j) PROVE FALSE
    <3>1. lockOwner' = [lockOwner EXCEPT ![j] = h] /\ Available(j)
      BY <2>1 DEF Take
    <3>2. j = k
      BY <1>1, <2>0, <3>1
    <3> QED
      BY <1>1, <2>0, <3>1, <3>2 DEF Available
  <2>2. ASSUME NEW freed, NEW orphaned, Release(freed, orphaned)
        PROVE  k \in freed \union orphaned /\ lockOwner'[k] \in {Free, Orphan}
    BY <1>1, <2>0, <2>2 DEF Release
  <2>3. ASSUME NEW h \in Handler, Unlock(h) \/ UnlockFails(h)
        PROVE  lockOwner[k] = h /\ lockOwner'[k] \in {Free, Orphan} /\ op'[h] = Idle
    <3>1. PICK left \in SUBSET Held(h) : Release(Held(h) \ left, left)
      <4>1. CASE Unlock(h)
        BY <4>1 DEF Unlock
      <4>2. CASE UnlockFails(h)
        BY <4>2 DEF UnlockFails
      <4> QED
        BY <2>3, <4>1, <4>2
    <3>2. k \in Held(h) /\ lockOwner'[k] \in {Free, Orphan}
      BY <2>2, <3>1
    <3>3. op'[h] = Idle
      BY <2>0, <2>3 DEF Unlock, UnlockFails
    <3> QED
      BY <3>2, <3>3 DEF Held
  <2>4. ASSUME NEW hs \in Processes, Crash(hs)
        PROVE  \E h \in Handler :
                   lockOwner[k] = h /\ lockOwner'[k] \in {Free, Orphan} /\ op'[h] = Idle
    <3> DEFINE lost == UNION {Held(h) : h \in hs}
    <3>1. Release({}, lost) \/ Release(lost, {})
      BY <2>4 DEF Crash
    <3>2. k \in lost /\ lockOwner'[k] \in {Free, Orphan}
      <4> HIDE DEF lost
      <4> QED
        BY <2>2, <3>1
    <3>3. PICK h \in hs : lockOwner[k] = h
      BY <3>2 DEF Held
    <3>4. h \in Handler
      BY QuoteAssumption
    <3>5. op'[h] = Idle
      BY <2>4, <3>4 DEF Crash
    <3> QED
      BY <3>2, <3>3, <3>4, <3>5
  <2>5. lockOwner' # lockOwner
    BY <1>1
  <2>6. ASSUME NEW h \in Handler, Proceed(h), ~Unlock(h), ~UnlockFails(h) PROVE FALSE
    BY <2>1, <2>5, <2>6
    DEF Proceed, LockActor, LockQuote, LockUnavailable, PreflightFails, QuoteForConfirmation,
        QuoteAutoApproved, CreateQuote, RejectReplay, ExpireQuote, ApproveQuote, RunBlocked,
        BeginExecution, ExecutionAlreadyStarted, FetchReturns, ExecutionThrows,
        RecordTransaction, SettleQuote, locks
  <2>7. ASSUME ~\E h \in Handler : Proceed(h), ~\E hs \in Processes : Crash(hs) PROVE FALSE
    BY <1>1, <2>5, <2>7
    DEF Next, StartCommand, ConfirmTelegram, ConfirmDiscord, PressConfirm, CancelTelegram,
        CancelDiscord, PressCancel, Reconcile, MarkReviewed, Tick, vars, locks
  <2> QED
    BY <2>3, <2>4, <2>6, <2>7
<1>2. TypeInv /\ [Next]_vars =>
          [\A k \in LockKey :
               lockOwner[k] # Free /\ lockUntil[k] > now /\ lockOwner'[k] # lockOwner[k] =>
                   /\ lockOwner[k] \in Handler
                   /\ lockOwner'[k] \in {Free, Orphan}
                   /\ op'[lockOwner[k]] = Idle]_vars
  BY <1>1
<1> QED
  BY <1>2, TypeInit, TypeStep, PTL DEF Spec, LocksAreHonoured

=============================================================================
