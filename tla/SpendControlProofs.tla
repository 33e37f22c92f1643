------------------------- MODULE SpendControlProofs -------------------------
(***************************************************************************)
(* For any calls, actors, prices, caps and settings: what a freeze stops,  *)
(* whom an over-cap call is approved by, by how much the rolling caps can  *)
(* be exceeded, and the types.                                             *)
(***************************************************************************)
EXTENDS SpendControl, FiniteSetTheorems, WellFoundedInduction, TLAPS

-----------------------------------------------------------------------------
(* Freezing. *)

\* What a frozen wallet's commands may still be waiting for was going on when
\* it was frozen.
FreezeInv ==
    /\ phase \in [Call -> Phase]
    /\ status = "disabled" => \A c \in Call : phase[c] = "preflight" => c \in grace

LEMMA EndFreeze ==
    ASSUME FreezeInv, NEW c \in Call, End(c)
    PROVE  FreezeInv'
  BY DEF FreezeInv, End, Goto, wallet, Phase

\* A call that goes anywhere but to preflight, its wallet left alone.
LEMMA GotoFreeze ==
    ASSUME FreezeInv, NEW c \in Call, NEW p \in Phase, Goto(c, p),
           p = "preflight" => status # "disabled",
           UNCHANGED <<status, grace>>
    PROVE  FreezeInv'
  BY DEF FreezeInv, Goto

LEMMA FreezeInit == Init => FreezeInv
  BY DEF Init, FreezeInv, Phase

LEMMA FreezeStep == FreezeInv /\ [Next]_vars => FreezeInv'
<1> SUFFICES ASSUME FreezeInv, [Next]_vars PROVE FreezeInv'
  OBVIOUS
<1> USE DEF wallet, history
<1>1. ASSUME NEW c \in Call, Command(c) PROVE FreezeInv'
  <2>1. PICK p \in {"preflight", "over"} : Goto(c, p) /\ (p = "preflight" => MaySpend)
    BY <1>1 DEF Command
  <2> QED
    BY <1>1, <2>1, GotoFreeze DEF Command, MaySpend, Phase
<1>2. ASSUME NEW c \in Call,
             \/ PreflightFails(c) \/ RefuseConfirmed(c) \/ Cancel(c) \/ Fail(c)
             \/ RefuseWorkflow(c) \/ ExpireWorkflow(c)
             \/ \E price \in Price : Deny(c, price)
      PROVE  FreezeInv'
  BY <1>2, EndFreeze
  DEF PreflightFails, RefuseConfirmed, Cancel, Fail, RefuseWorkflow, ExpireWorkflow, Deny
<1>3. ASSUME NEW c \in Call, RunConfirmed(c) \/ Record(c) \/ PlanWorkflow(c) \/ ConfirmWorkflow(c)
      PROVE  FreezeInv'
  <2>1. PICK p \in {"executing", "recorded", "planning"} : Goto(c, p)
    BY <1>3 DEF RunConfirmed, Record, PlanWorkflow, ConfirmWorkflow
  <2>2. UNCHANGED <<status, grace>>
    BY <1>3 DEF RunConfirmed, Record, PlanWorkflow, ConfirmWorkflow
  <2> QED
    BY <2>1, <2>2, GotoFreeze DEF Phase
<1>4. ASSUME NEW c \in Call, NEW price \in Price,
             AskFirst(c, price) \/ RunAtOnce(c, price) \/ QuoteWorkflow(c, price)
      PROVE  FreezeInv'
  <2>1. PICK p \in {"pending", "executing"} : Goto(c, p)
    BY <1>4 DEF AskFirst, RunAtOnce, QuoteWorkflow
  <2>2. UNCHANGED <<status, grace>>
    BY <1>4 DEF AskFirst, RunAtOnce, QuoteWorkflow, CreateQuote
  <2> QED
    BY <2>1, <2>2, GotoFreeze DEF Phase
<1>5. ASSUME NEW a \in Actor, NEW c \in Call, Confirm(a, c) PROVE FreezeInv'
  BY <1>5, GotoFreeze DEF Confirm, Phase
<1>6. CASE Freeze
  BY <1>6 DEF Freeze, FreezeInv
<1>7. CASE Unfreeze
  BY <1>7 DEF Unfreeze, FreezeInv
<1>8. CASE SetPolicy \/ Tick \/ UNCHANGED vars
  BY <1>8 DEF SetPolicy, Tick, vars, FreezeInv
<1> QED
  BY <1>1, <1>2, <1>3, <1>4, <1>5, <1>6, <1>7, <1>8 DEF Next

LEMMA FreezeCorrect == Spec => []FreezeInv
  BY FreezeInit, FreezeStep, PTL DEF Spec

\* The phase a step brings a call to.
LEMMA GotoPhase ==
    ASSUME FreezeInv, NEW c \in Call, NEW p, Goto(c, p), NEW d \in Call
    PROVE  phase'[d] = IF d = c THEN p ELSE phase[d]
  BY DEF FreezeInv, Goto

LEMMA EndPhase ==
    ASSUME FreezeInv, NEW c \in Call, End(c), NEW d \in Call, Started(d)'
    PROVE  Started(d)
  BY GotoPhase DEF End, Started

\* Which steps start a paid call.
LEMMA Starting ==
    ASSUME FreezeInv, [Next]_vars, NEW d \in Call, ~Started(d), Started(d)'
    PROVE  \/ \E price \in Price : RunAtOnce(d, price)
           \/ RunConfirmed(d)
           \/ ConfirmWorkflow(d)
<1>1. ASSUME NEW c \in Call,
             \/ PreflightFails(c) \/ RefuseConfirmed(c) \/ Cancel(c) \/ Fail(c)
             \/ RefuseWorkflow(c) \/ ExpireWorkflow(c)
             \/ \E price \in Price : Deny(c, price)
      PROVE  FALSE
  <2>1. End(c)
    BY <1>1
    DEF PreflightFails, RefuseConfirmed, Cancel, Fail, RefuseWorkflow, ExpireWorkflow, Deny
  <2> QED
    BY <2>1, EndPhase
<1>2. ASSUME NEW c \in Call, NEW p, Goto(c, p), p \notin {"executing", "recorded"}
      PROVE  FALSE
  BY <1>2, GotoPhase DEF Started
<1>3. ASSUME NEW c \in Call, Command(c) \/ PlanWorkflow(c) PROVE FALSE
  BY <1>2, <1>3 DEF Command, PlanWorkflow
<1>4. ASSUME NEW c \in Call, NEW price \in Price, AskFirst(c, price) \/ QuoteWorkflow(c, price)
      PROVE  FALSE
  BY <1>2, <1>4 DEF AskFirst, QuoteWorkflow
<1>5. ASSUME NEW a \in Actor, NEW c \in Call, Confirm(a, c) PROVE FALSE
  BY <1>2, <1>5 DEF Confirm
<1>6. ASSUME NEW c \in Call, Record(c) PROVE FALSE
  <2>1. phase[c] = "executing" /\ Goto(c, "recorded")
    BY <1>6 DEF Record
  <2> QED
    BY <2>1, GotoPhase DEF Started
<1>7. ASSUME Freeze \/ Unfreeze \/ SetPolicy \/ Tick \/ UNCHANGED vars PROVE FALSE
  BY <1>7 DEF Freeze, Unfreeze, SetPolicy, Tick, vars, Started
<1>8. ASSUME NEW c \in Call, RunConfirmed(c) \/ ConfirmWorkflow(c) PROVE c = d
  <2>1. PICK p : Goto(c, p)
    BY <1>8 DEF RunConfirmed, ConfirmWorkflow
  <2> QED
    BY <2>1, GotoPhase DEF Started
<1>9. ASSUME NEW c \in Call, NEW price \in Price, RunAtOnce(c, price) PROVE c = d
  <2>1. Goto(c, "executing")
    BY <1>9 DEF RunAtOnce
  <2> QED
    BY <2>1, GotoPhase DEF Started
<1> QED
  BY <1>1, <1>3, <1>4, <1>5, <1>6, <1>7, <1>8, <1>9 DEF Next

\* Whatever is edited, confirmed or awaited at the same time, a freeze stops every
\* paid call but those of commands that had read the wallet row before, and the
\* workflow's, which ask for no status.
THEOREM FreezeStopsAllButPreflightAlways == Spec => FreezeStopsAllButPreflight
<1>1. ASSUME FreezeInv, [Next]_vars
      PROVE  [\A c \in Call :
                  status = "disabled" /\ ~Started(c) /\ Started(c)'
                      => c \in grace \union Workflow]_vars
  <2> SUFFICES ASSUME NEW c \in Call, status = "disabled", ~Started(c), Started(c)'
               PROVE  c \in grace \union Workflow
    OBVIOUS
  <2>1. ASSUME NEW price \in Price, RunAtOnce(c, price) PROVE c \in grace
    BY <1>1, <2>1 DEF RunAtOnce, CreateQuote, FreezeInv
  <2>2. ~RunConfirmed(c)
    BY DEF RunConfirmed, MaySpend
  <2>3. ConfirmWorkflow(c) => c \in Workflow
    BY DEF ConfirmWorkflow
  <2> QED
    BY <1>1, <2>1, <2>2, <2>3, Starting
<1> QED
  BY <1>1, FreezeCorrect, PTL DEF Spec, FreezeStopsAllButPreflight

-----------------------------------------------------------------------------
(* The rules of PolicyEngine. *)

\* Some rule applies, the last one at the latest, and the first such decides.
LEMMA RuleDecides ==
    ASSUME NEW req, NEW pol
    PROVE  \E i \in 1 .. 12 :
               /\ Rules(req, pol)[i][1]
               /\ \A k \in 1 .. (i - 1) : ~Rules(req, pol)[k][1]
               /\ Evaluate(req, pol) = Rules(req, pol)[i][2]
<1> DEFINE rules == Rules(req, pol)
           First(i) == rules[i][1] /\ \A k \in 1 .. (i - 1) : ~rules[k][1]
<1>1. DOMAIN rules = 1 .. 12
  BY DEF Rules
<1>2. rules[12][1]
  BY DEF Rules
<1> HIDE DEF rules
<1>3. \E i \in 1 .. 12 : First(i)
  <2> SUFFICES ASSUME \A i \in 1 .. 12 : ~First(i) PROVE FALSE
    OBVIOUS
  <2>1. ~rules[1][1] /\ ~rules[2][1] /\ ~rules[3][1] /\ ~rules[4][1]
    OBVIOUS
  <2>2. ~rules[5][1] /\ ~rules[6][1] /\ ~rules[7][1] /\ ~rules[8][1]
    BY <2>1
  <2>3. ~rules[9][1] /\ ~rules[10][1] /\ ~rules[11][1]
    BY <2>1, <2>2
  <2> QED
    BY <1>2, <2>1, <2>2, <2>3
<1> QED
  BY <1>1, <1>3 DEF Evaluate, rules

LEMMA OutcomeType ==
    ASSUME NEW req, NEW pol
    PROVE  Evaluate(req, pol) \in Outcome
<1>1. PICK i \in 1 .. 12 : Evaluate(req, pol) = Rules(req, pol)[i][2]
  BY RuleDecides
<1>2. \A j \in 1 .. 12 : Rules(req, pol)[j][2] \in Outcome
  BY DEF Rules, Outcome, DenyOutcome, ConfirmOutcome
<1> QED
  BY <1>1, <1>2

\* How much an outcome asks before the call may start.
Severity(outcome) ==
    CASE outcome \in DenyOutcome                    -> 3
      [] outcome = "require_group_admin_approval"   -> 2
      [] outcome = "require_confirmation"           -> 1
      [] OTHER                                      -> 0

\* The same request of the same wallet, but dearer or after more has been spent.
Dearer(low, high) ==
    /\ {low.cost, high.cost} \subseteq Nat /\ low.cost <= high.cost
    /\ {low.spentDay, high.spentDay} \subseteq Nat /\ low.spentDay <= high.spentDay
    /\ {low.spentWeek, high.spentWeek} \subseteq Nat /\ low.spentWeek <= high.spentWeek
    /\ {low.confirmationCap, low.groupAdminCap} \subseteq Cap
    /\ high.status = low.status
    /\ high.group = low.group
    /\ high.hasSpent = low.hasSpent
    /\ high.confirmationCap = low.confirmationCap
    /\ high.groupAdminCap = low.groupAdminCap

\* An amount that exceeds a cap does so when it grows.
LEMMA ExceedsGrows ==
    ASSUME NEW low \in Nat, NEW high \in Nat, low <= high, NEW cap \in Cap, Exceeds(low, cap)
    PROVE  Exceeds(high, cap)
  BY OffAssumption DEF Exceeds, Cap

\* The twelve early returns of evaluate are in an order that never favours the dearer
\* request: a higher price or a fuller window gets an outcome at least as severe, with
\* whatever caps, thresholds, trusted skills and first-spend rule are configured.
THEOREM DearerNeverEasier ==
    ASSUME NEW low, NEW high, Dearer(low, high),
           NEW pol, {pol.daily, pol.weekly} \subseteq Cap
    PROVE  Severity(Evaluate(low, pol)) <= Severity(Evaluate(high, pol))
<1> DEFINE L == Rules(low, pol)
           H == Rules(high, pol)
<1>1. PICK i \in 1 .. 12 : L[i][1] /\ (\A k \in 1 .. (i - 1) : ~L[k][1]) /\ Evaluate(low, pol) = L[i][2]
  BY RuleDecides
<1>2. PICK j \in 1 .. 12 : H[j][1] /\ (\A k \in 1 .. (j - 1) : ~H[k][1]) /\ Evaluate(high, pol) = H[j][2]
  BY RuleDecides
<1>3. \A k \in 1 .. 12 : L[k][2] = H[k][2]
  BY DEF Rules
<1>4. /\ \A k \in 1 .. 6 : Severity(L[k][2]) = 3
      /\ Severity(L[7][2]) = 0 /\ Severity(L[8][2]) = 1 /\ Severity(L[9][2]) = 2
      /\ Severity(L[10][2]) = 1 /\ Severity(L[11][2]) = 1 /\ Severity(L[12][2]) = 0
  BY DEF Rules, Severity, DenyOutcome
\* A rule that denies or asks by the amount still applies to the higher one, ...
<1>5. \A k \in {1, 2, 3, 4, 5, 6, 8, 9, 10, 11, 12} : L[k][1] => H[k][1]
  <2>1. /\ low.spentDay + low.cost \in Nat /\ high.spentDay + high.cost \in Nat
        /\ low.spentWeek + low.cost \in Nat /\ high.spentWeek + high.cost \in Nat
        /\ low.spentDay + low.cost <= high.spentDay + high.cost
        /\ low.spentWeek + low.cost <= high.spentWeek + high.cost
    BY DEF Dearer
  <2>2. /\ DailyCap(pol) \in Cap /\ WeeklyCap(pol) \in Cap
        /\ Config.groupDailyCap \in Cap /\ Config.highCost \in Cap /\ Config.hardCap \in Nat
    BY ConfigAssumption DEF DailyCap, WeeklyCap, Effective, Cap
  <2>3. L[1][1] => H[1][1]
    BY DEF Rules, Dearer
  <2>4. L[2][1] => H[2][1]
    BY DEF Rules
  <2>5. L[3][1] => H[3][1]
    <3>1. DailyRule(low, pol) => DailyRule(high, pol)
      BY <2>1, <2>2, ExceedsGrows DEF DailyRule
    <3> QED
      BY <3>1 DEF Rules
  <2>6. L[4][1] => H[4][1]
    <3>1. Exceeds(low.spentWeek + low.cost, WeeklyCap(pol)) =>
              Exceeds(high.spentWeek + high.cost, WeeklyCap(pol))
      BY <2>1, <2>2, ExceedsGrows
    <3> QED
      BY <3>1 DEF Rules
  <2>7. L[5][1] => H[5][1]
    <3>1. Exceeds(low.spentDay + low.cost, Config.groupDailyCap) =>
              Exceeds(high.spentDay + high.cost, Config.groupDailyCap)
      BY <2>1, <2>2, ExceedsGrows
    <3>2. high.group = low.group
      BY DEF Dearer
    <3> QED
      BY <3>1, <3>2 DEF Rules
  <2>8. L[6][1] => H[6][1]
    <3>1. low.cost > Config.hardCap => high.cost > Config.hardCap
      BY <2>2 DEF Dearer
    <3> QED
      BY <3>1 DEF Rules
  <2>9. (L[8][1] => H[8][1]) /\ H[12][1]
    BY DEF Rules, Dearer
  <2>10. Exceeds(low.cost, low.confirmationCap) => Exceeds(high.cost, high.confirmationCap)
    BY ExceedsGrows DEF Dearer
  <2>11. AdminThreshold(low) => AdminThreshold(high)
    BY ExceedsGrows DEF Dearer, AdminThreshold
  <2>12. (L[9][1] => H[9][1]) /\ (L[10][1] => H[10][1])
    BY <2>10, <2>11 DEF Rules
  <2>13. L[11][1] => H[11][1]
    <3>1. Exceeds(low.cost, Config.highCost) => Exceeds(high.cost, Config.highCost)
      BY <2>2, ExceedsGrows DEF Dearer
    <3> QED
      BY <3>1 DEF Rules
  <2> QED
    BY <2>3, <2>4, <2>5, <2>6, <2>7, <2>8, <2>9, <2>12, <2>13
\* ... and one that lets a cheap call pass applied to the lower one before.
<1>6. H[7][1] => L[7][1]
  BY ConfigAssumption DEF Rules, Dearer
<1>7. H[8][1] => L[8][1]
  BY DEF Rules, Dearer
<1> HIDE DEF L, H
<1>8. CASE j \in 1 .. 6
  <2>1. Severity(Evaluate(high, pol)) = 3
    BY <1>2, <1>3, <1>4, <1>8
  <2>2. Severity(Evaluate(low, pol)) \in {0, 1, 2, 3}
    BY DEF Severity
  <2> QED
    BY <2>1, <2>2
<1>9. CASE j \notin 1 .. 6
  <2>1. \A k \in 1 .. 6 : ~L[k][1]
    BY <1>2, <1>5, <1>9
  <2>2. i \in {7, 8, 9, 10, 11, 12}
    BY <1>1, <2>1
  <2>3. j \in {7, 8, 9, 10, 11, 12}
    BY <1>9
  <2>4. CASE i \in {7, 12}
    BY <1>1, <1>2, <1>3, <1>4, <2>3, <2>4
  <2>5. CASE i \in {8, 9, 10, 11}
    <3>1. ~L[7][1] /\ ~H[7][1] /\ j # 7
      BY <1>1, <1>2, <1>6, <2>5
    <3>2. j <= i
      BY <1>1, <1>2, <1>5, <2>3, <2>5
    <3>3. i # 8 => j # 8
      BY <1>1, <1>2, <1>7, <2>5
    <3> QED
      BY <1>1, <1>2, <1>3, <1>4, <2>3, <2>5, <3>1, <3>2, <3>3
  <2> QED
    BY <2>2, <2>4, <2>5
<1> QED
  BY <1>8, <1>9

\* What the policy asks for a call over the cap.
Approval(group) == IF group THEN "require_group_admin_approval" ELSE "require_confirmation"

LEMMA OverCapOutcome ==
    ASSUME NEW req, NEW pol,
           pol.skill # "trusted",
           Exceeds(req.cost, req.confirmationCap), req.groupAdminCap = req.confirmationCap,
           Evaluate(req, pol) \notin DenyOutcome
    PROVE  \/ Config.trusted /\ req.cost <= Config.trustedMax
           \/ Evaluate(req, pol) = Approval(req.group)
           \/ Config.firstSpend /\ ~req.hasSpent /\ Evaluate(req, pol) = "require_confirmation"
<1> DEFINE rules == Rules(req, pol)
<1>1. PICK i \in 1 .. 12 :
          /\ rules[i][1]
          /\ \A k \in 1 .. (i - 1) : ~rules[k][1]
          /\ Evaluate(req, pol) = rules[i][2]
  BY RuleDecides
<1>2. i \notin 1 .. 6
  <2>1. \A j \in 1 .. 6 : rules[j][2] \in DenyOutcome
    BY DEF Rules, DenyOutcome
  <2> QED
    BY <1>1, <2>1
<1>3. i <= 10
  <2>1. rules[10][1]
    BY DEF Rules
  <2> QED
    BY <1>1, <2>1
<1>4. /\ rules[8][1] => Config.firstSpend /\ ~req.hasSpent
      /\ rules[8][2] = "require_confirmation"
  BY DEF Rules
<1>5. rules[7][1] => Config.trusted /\ req.cost <= Config.trustedMax
  BY DEF Rules, Trusted
<1>6. /\ rules[9][1] <=> req.group
      /\ rules[9][2] = "require_group_admin_approval"
      /\ rules[10][2] = "require_confirmation"
  BY DEF Rules, AdminThreshold
<1> HIDE DEF rules
<1> QED
  BY <1>1, <1>2, <1>3, <1>4, <1>5, <1>6 DEF Approval

-----------------------------------------------------------------------------
(* Types. *)

LEMMA TypeInit == Init => TypeOK
  BY SpendAssumption
  DEF Init, TypeOK, Phase, Quote, NoQuote, NoRow, Outcome, Cap, SkillStatus

LEMMA QuoteEdit ==
    ASSUME NEW q \in Quote
    PROVE  /\ \A a \in Actor : [q EXCEPT !.presser = a] \in Quote
           /\ \A price \in Nat, time \in Nat :
                  [q EXCEPT !.cost = price, !.expires = time] \in Quote
  BY DEF Quote

\* A session is set to a question or to none.
LEMMA SessionType ==
    ASSUME TypeOK, NEW c \in Call, NEW s \in Call \union {NoCall},
           session' = [session EXCEPT ![Maker[c]] = s]
    PROVE  session' \in [Actor -> Call \union {NoCall}]
  BY SpendAssumption DEF TypeOK

LEMMA EndType ==
    ASSUME TypeOK, NEW c \in Call, End(c),
           session' \in [Actor -> Call \union {NoCall}]
    PROVE  TypeOK'
<1>1. NoQuote \in Quote
  BY DEF NoQuote, Quote, Outcome, Cap
<1>2. phase' \in [Call -> Phase] /\ quote' \in [Call -> Quote]
  BY <1>1 DEF End, Goto, TypeOK, Phase
<1>3. before' \in [Call -> SUBSET Call] /\ ahead' \in [Call -> SUBSET Call]
  BY DEF End, Forget, TypeOK
<1> QED
  BY <1>2, <1>3 DEF End, TypeOK, wallet

LEMMA CreateType ==
    ASSUME TypeOK, NEW c \in Call, NEW price \in Price, CreateQuote(c, price)
    PROVE  /\ quote' \in [Call -> Quote]
           /\ before' \in [Call -> SUBSET Call]
           /\ ahead' \in [Call -> SUBSET Call]
           /\ UNCHANGED <<wallet, row, grace, now>>
<1> DEFINE q == [cost |-> price, outcome |-> Decision(price), presser |-> NoActor,
                 expires |-> now + QuoteTTL,
                 dailyCap |-> DailyCap(policy), weeklyCap |-> WeeklyCap(policy)]
<1>1. Decision(price) \in Outcome
  BY OutcomeType DEF Decision
<1>2. DailyCap(policy) \in Cap /\ WeeklyCap(policy) \in Cap
  BY ConfigAssumption DEF TypeOK, DailyCap, WeeklyCap, Effective
<1>3. price \in Nat /\ now + QuoteTTL \in Nat
  BY SpendAssumption DEF TypeOK
<1>4. q \in Quote
  BY <1>1, <1>2, <1>3 DEF Quote
<1>5. quote' = [quote EXCEPT ![c] = q]
  BY DEF CreateQuote
<1> HIDE DEF q
<1>6. quote' \in [Call -> Quote]
  BY <1>4, <1>5 DEF TypeOK
<1>7. Passed \subseteq Call
  BY DEF Passed
<1> QED
  BY <1>6, <1>7 DEF CreateQuote, TypeOK

LEMMA TypeStep == TypeOK /\ [Next]_vars => TypeOK'
<1> SUFFICES ASSUME TypeOK, [Next]_vars PROVE TypeOK'
  OBVIOUS
<1>1. ASSUME NEW c \in Call,
             \/ PreflightFails(c) \/ RefuseConfirmed(c) \/ Fail(c) \/ RefuseWorkflow(c)
             \/ \E price \in Price : Deny(c, price)
      PROVE  TypeOK'
  <2>1. End(c) /\ UNCHANGED session
    BY <1>1 DEF PreflightFails, RefuseConfirmed, Fail, RefuseWorkflow, Deny
  <2> QED
    BY <2>1, EndType DEF TypeOK
<1>2. ASSUME NEW c \in Call, Cancel(c) \/ ExpireWorkflow(c) PROVE TypeOK'
  <2>1. End(c) /\ session' = [session EXCEPT ![Maker[c]] = NoCall]
    BY <1>2 DEF Cancel, ExpireWorkflow
  <2> QED
    BY <2>1, EndType, SessionType
<1>3. ASSUME NEW c \in Call, Command(c) \/ PlanWorkflow(c) PROVE TypeOK'
  <2>1. session' \in [Actor -> Call \union {NoCall}]
    BY <1>3, SessionType DEF Command, PlanWorkflow
  <2>2. phase' \in [Call -> Phase]
    BY <1>3 DEF Command, PlanWorkflow, Goto, TypeOK, Phase
  <2> QED
    BY <1>3, <2>1, <2>2 DEF Command, PlanWorkflow, TypeOK, wallet, history
<1>4. ASSUME NEW c \in Call, RunConfirmed(c) PROVE TypeOK'
  BY <1>4 DEF RunConfirmed, Goto, TypeOK, Phase, wallet, history
<1>5. ASSUME NEW c \in Call, Record(c) PROVE TypeOK'
  <2>1. session' \in [Actor -> Call \union {NoCall}]
    BY <1>5, SessionType DEF Record, TypeOK
  <2>2. PICK extra \in {0, Surcharge} :
            row' = [row EXCEPT ![c] = [at |-> now, cents |-> quote[c].cost + extra]]
    BY <1>5 DEF Record
  <2>3. now \in Nat /\ quote[c].cost + extra \in Nat
    BY SpendAssumption DEF TypeOK, Quote
  <2>4. row' \in [Call -> [at : Nat, cents : Nat]]
    BY <2>2, <2>3 DEF TypeOK
  <2>5. phase' \in [Call -> Phase]
    BY <1>5 DEF Record, Goto, TypeOK, Phase
  <2> QED
    BY <1>5, <2>1, <2>4, <2>5 DEF Record, TypeOK, wallet, history
<1>6. ASSUME NEW c \in Call, NEW price \in Price, AskFirst(c, price) \/ RunAtOnce(c, price)
      PROVE  TypeOK'
  <2>1. CreateQuote(c, price)
    BY <1>6 DEF AskFirst, RunAtOnce
  <2>2. session' \in [Actor -> Call \union {NoCall}]
    BY <1>6, SessionType DEF AskFirst, RunAtOnce, TypeOK
  <2>3. phase' \in [Call -> Phase]
    BY <1>6 DEF AskFirst, RunAtOnce, Goto, TypeOK, Phase
  <2> QED
    BY <2>1, <2>2, <2>3, CreateType DEF TypeOK, wallet
<1>7. ASSUME NEW c \in Call, NEW price \in Price, QuoteWorkflow(c, price) PROVE TypeOK'
  <2>1. session' \in [Actor -> Call \union {NoCall}]
    BY <1>7, SessionType DEF QuoteWorkflow
  <2>2. price \in Nat /\ now + QuoteTTL \in Nat
    BY SpendAssumption DEF TypeOK
  <2>3. [quote[c] EXCEPT !.cost = price, !.expires = now + QuoteTTL] \in Quote
    BY <2>2, QuoteEdit DEF TypeOK
  <2>4. quote' = [quote EXCEPT ![c] = [quote[c] EXCEPT !.cost = price, !.expires = now + QuoteTTL]]
    BY <1>7 DEF QuoteWorkflow, TypeOK
  <2>5. quote' \in [Call -> Quote]
    BY <2>3, <2>4 DEF TypeOK
  <2>6. phase' \in [Call -> Phase]
    BY <1>7 DEF QuoteWorkflow, Goto, TypeOK, Phase
  <2> QED
    BY <1>7, <2>1, <2>5, <2>6 DEF QuoteWorkflow, TypeOK, wallet, history
<1>8. ASSUME NEW c \in Call, ConfirmWorkflow(c) PROVE TypeOK'
  <2>1. session' \in [Actor -> Call \union {NoCall}]
    BY <1>8, SessionType DEF ConfirmWorkflow
  <2>2. [quote[c] EXCEPT !.presser = Maker[c]] \in Quote
    BY SpendAssumption, QuoteEdit DEF TypeOK
  <2>3. quote' \in [Call -> Quote]
    BY <1>8, <2>2 DEF ConfirmWorkflow, TypeOK
  <2>4. [at |-> now, cents |-> quote[c].cost] \in [at : Nat, cents : Nat]
    BY DEF TypeOK, Quote
  <2>5. row' \in [Call -> [at : Nat, cents : Nat]] /\ phase' \in [Call -> Phase]
    BY <1>8, <2>4 DEF ConfirmWorkflow, Goto, TypeOK, Phase
  <2> QED
    BY <1>8, <2>1, <2>3, <2>5 DEF ConfirmWorkflow, TypeOK, wallet, history
<1>9. ASSUME NEW a \in Actor, NEW c \in Call, Confirm(a, c) PROVE TypeOK'
  <2>1. session' \in [Actor -> Call \union {NoCall}]
    BY <1>9, SessionType DEF Confirm
  <2>2. [quote[c] EXCEPT !.presser = a] \in Quote
    BY QuoteEdit DEF TypeOK
  <2>3. quote' \in [Call -> Quote] /\ phase' \in [Call -> Phase]
    BY <1>9, <2>2 DEF Confirm, Goto, TypeOK, Phase
  <2> QED
    BY <1>9, <2>1, <2>3 DEF Confirm, TypeOK, wallet, history
<1>10. CASE Freeze \/ Unfreeze \/ Tick \/ UNCHANGED vars
  BY <1>10, SpendAssumption DEF Freeze, Unfreeze, Tick, Edit, vars, TypeOK, wallet, history
<1>11. CASE SetPolicy
  <2>1. policy' \in [daily : Cap, weekly : Cap, skill : SkillStatus]
    BY <1>11, SpendAssumption DEF SetPolicy, TypeOK, SkillStatus
  <2> QED
    BY <1>11, <2>1, SpendAssumption DEF SetPolicy, Edit, TypeOK, history
<1> QED
  BY <1>1, <1>2, <1>3, <1>4, <1>5, <1>6, <1>7, <1>8, <1>9, <1>10, <1>11 DEF Next

\* However quotes, edits of the policy, freezes and the clock interleave, the rows hold
\* what their columns may: the policy lets a call pass or denies it, and what is
\* recorded is an amount.
THEOREM TypeCorrect == Spec => []TypeOK
  BY TypeInit, TypeStep, PTL DEF Spec

-----------------------------------------------------------------------------
(* Over-cap calls. *)

Asked == {"pending", "confirming", "executing", "recorded"}

Approver(c) == IF shared THEN Admin ELSE {Maker[c]}

\* Who may press the button, by what the policy asked for.
Pressers(c) == IF quote[c].outcome = "require_confirmation"
               THEN Approver(c) \union {Maker[c]}
               ELSE IF shared THEN Admin ELSE {}

Exempt(c) == Config.trusted /\ quote[c].cost <= Config.trustedMax

\* The calls that were in the ledger when the policy let c pass.
Settled(c) == before[c] \ ahead[c]

\* Asked by the first-spend rule: nothing was in the ledger.
FirstSpend(c) ==
    Config.firstSpend /\ quote[c].outcome = "require_confirmation" /\ Settled(c) = {}

\* An over-cap call carries the demand for the right button from its quote on,
\* and from the button on the one who pressed it.
ApprovedAt(c) ==
    /\ c \in Workflow => phase[c] # "preflight"
    /\ phase[c] \in Asked /\ Exceeds(quote[c].cost, UserCap) =>
           /\ c \notin Workflow
           /\ Exempt(c) \/ quote[c].outcome = Approval(shared) \/ FirstSpend(c)
           /\ Exempt(c) \/ phase[c] = "pending" \/ quote[c].presser \in Pressers(c)

ApprovalInv ==
    /\ TypeOK
    /\ policy.skill # "trusted"
    /\ \A c \in Call : ApprovedAt(c)

\* A step of one call, which leaves the wallet alone and has at most the others forget it.
LEMMA OneCall ==
    ASSUME ApprovalInv, TypeOK', NEW c \in Call, NEW p, Goto(c, p), NEW q,
           quote' = [quote EXCEPT ![c] = q], UNCHANGED wallet,
           \A d \in Call : d # c => Settled(d)' \subseteq Settled(d),
           ApprovedAt(c)'
    PROVE  ApprovalInv'
<1>1. policy' = policy /\ shared' = shared
  BY DEF wallet
<1>2. ASSUME NEW d \in Call, d # c PROVE ApprovedAt(d)'
  <2>1. phase'[d] = phase[d] /\ quote'[d] = quote[d] /\ Settled(d)' \subseteq Settled(d)
    BY <1>2 DEF ApprovalInv, TypeOK, Goto
  <2> QED
    BY <1>1, <2>1 DEF ApprovalInv, ApprovedAt, Exempt, Approver, Pressers, FirstSpend
<1> QED
  BY <1>1, <1>2 DEF ApprovalInv

LEMMA ApprovalInit == Init => ApprovalInv
  BY TypeInit DEF Init, ApprovalInv, ApprovedAt, Asked

LEMMA EndApproval ==
    ASSUME ApprovalInv, TypeOK', NEW c \in Call, End(c)
    PROVE  ApprovalInv'
<1>1. phase'[c] = "over"
  BY DEF End, Goto, ApprovalInv, TypeOK
<1>2. ApprovedAt(c)'
  BY <1>1 DEF ApprovedAt, Asked
<1>3. \A d \in Call : d # c => Settled(d)' \subseteq Settled(d)
  BY DEF End, Forget, Settled
<1> QED
  BY <1>2, <1>3, OneCall DEF End

\* A call whose quote stays as it is.
LEMMA GotoApproval ==
    ASSUME ApprovalInv, TypeOK', NEW c \in Call, NEW p, Goto(c, p),
           UNCHANGED <<wallet, quote, before, ahead>>,
           p \in Asked => phase[c] \in Asked \ {"pending"},
           p = "preflight" => c \notin Workflow
    PROVE  ApprovalInv'
<1>1. phase'[c] = p /\ shared' = shared
  BY DEF Goto, ApprovalInv, TypeOK, wallet
<1>2. \A d \in Call : Settled(d)' = Settled(d)
  BY DEF Settled
<1>3. ApprovedAt(c)'
  BY <1>1, <1>2
  DEF ApprovalInv, ApprovedAt, Exempt, Approver, Pressers, FirstSpend
<1>4. quote' = [quote EXCEPT ![c] = quote[c]]
  BY DEF ApprovalInv, TypeOK
<1> QED
  BY <1>2, <1>3, <1>4, OneCall

LEMMA ConfirmApproval ==
    ASSUME ApprovalInv, TypeOK', NEW a \in Actor, NEW c \in Call, Confirm(a, c)
    PROVE  ApprovalInv'
<1> DEFINE q == [quote[c] EXCEPT !.presser = a]
<1>1. quote' = [quote EXCEPT ![c] = q] /\ quote[c] \in Quote
  BY DEF Confirm, ApprovalInv, TypeOK
<1>2. /\ q.presser = a /\ q.cost = quote[c].cost /\ q.outcome = quote[c].outcome
      /\ phase'[c] = "confirming" /\ quote'[c] = q /\ shared' = shared
  BY <1>1 DEF Confirm, Goto, ApprovalInv, TypeOK, Quote, wallet
<1>3. \A d \in Call : Settled(d)' = Settled(d)
  BY DEF Confirm, history, Settled
<1>4. quote[c].outcome \in {Approval(shared), "require_confirmation"} => a \in Pressers(c)
  BY DEF Confirm, MayConfirm, Approval, Approver, Pressers
<1> HIDE DEF q
<1>5. ApprovedAt(c)'
  <2>1. phase[c] = "pending" /\ phase[c] \in Asked /\ c \notin Workflow
    BY DEF Confirm, Asked
  <2>2. /\ Exempt(c)' <=> Exempt(c)
        /\ FirstSpend(c)' <=> FirstSpend(c)
        /\ Pressers(c)' = Pressers(c)
    BY <1>2, <1>3 DEF Confirm, Exempt, FirstSpend, Approver, Pressers
  <2>3. Exceeds(quote[c].cost, UserCap) =>
            Exempt(c) \/ quote[c].outcome = Approval(shared) \/ FirstSpend(c)
    BY <2>1 DEF ApprovalInv, ApprovedAt
  <2>4. quote'[c].cost = quote[c].cost
    BY <1>2
  <2> QED
    BY <1>2, <1>4, <2>1, <2>2, <2>3, <2>4 DEF ApprovedAt, FirstSpend
<1> QED
  BY <1>1, <1>3, <1>5, OneCall DEF Confirm

\* The quote of a research plan is never over the cap.
LEMMA PlanApproval ==
    ASSUME ApprovalInv, TypeOK', NEW c \in Call, NEW price \in Price, QuoteWorkflow(c, price)
    PROVE  ApprovalInv'
<1> DEFINE q == [quote[c] EXCEPT !.cost = price, !.expires = now + QuoteTTL]
<1>1. quote \in [Call -> Quote] /\ UNCHANGED wallet
  BY DEF ApprovalInv, TypeOK, QuoteWorkflow
<1>2. quote' = [quote EXCEPT ![c] = q] /\ q.cost = price
  BY <1>1 DEF QuoteWorkflow, Quote
<1> HIDE DEF q
<1>3. quote'[c].cost = price
  BY <1>1, <1>2
<1>4. ApprovedAt(c)'
  BY <1>3 DEF QuoteWorkflow, Goto, ApprovalInv, TypeOK, ApprovedAt
<1>5. \A d \in Call : Settled(d)' = Settled(d)
  BY DEF QuoteWorkflow, history, Settled
<1> QED
  BY <1>1, <1>2, <1>4, <1>5, OneCall DEF QuoteWorkflow

LEMMA WorkflowApproval ==
    ASSUME ApprovalInv, TypeOK', NEW c \in Call, ConfirmWorkflow(c)
    PROVE  ApprovalInv'
<1> DEFINE q == [quote[c] EXCEPT !.presser = Maker[c]]
<1>1. quote \in [Call -> Quote] /\ UNCHANGED wallet
  BY DEF ApprovalInv, TypeOK, ConfirmWorkflow
<1>2. quote' = [quote EXCEPT ![c] = q] /\ q.cost = quote[c].cost
  BY <1>1 DEF ConfirmWorkflow, Quote
<1> HIDE DEF q
<1>3. quote'[c].cost = quote[c].cost
  BY <1>1, <1>2
<1>4. ApprovedAt(c)'
  BY <1>3 DEF ConfirmWorkflow, Goto, ApprovalInv, TypeOK, ApprovedAt, Asked
<1>5. \A d \in Call : Settled(d)' = Settled(d)
  BY DEF ConfirmWorkflow, history, Settled
<1> QED
  BY <1>1, <1>2, <1>4, <1>5, OneCall DEF ConfirmWorkflow

\* What the policy asks for a call over the cap that it lets pass.
LEMMA DecisionOverCap ==
    ASSUME policy.skill # "trusted", NEW price, Exceeds(price, UserCap),
           Decision(price) \notin DenyOutcome
    PROVE  \/ Config.trusted /\ price <= Config.trustedMax
           \/ Decision(price) = Approval(shared)
           \/ Config.firstSpend /\ Recorded = {} /\ Decision(price) = "require_confirmation"
<1> DEFINE req == Request(price)
<1>1. /\ req.cost = price /\ req.group = shared /\ req.hasSpent = (Recorded # {})
      /\ req.confirmationCap = UserCap /\ req.groupAdminCap = UserCap
  BY DEF Request
<1> HIDE DEF req
<1>2. Decision(price) = Evaluate(req, policy)
  BY DEF Decision, req
<1> QED
  BY <1>1, <1>2, OverCapOutcome

LEMMA PassApproval ==
    ASSUME ApprovalInv, TypeOK', NEW c \in Call, NEW price \in Price,
           AskFirst(c, price) \/ RunAtOnce(c, price)
    PROVE  ApprovalInv'
<1> DEFINE q == [cost |-> price, outcome |-> Decision(price), presser |-> NoActor,
                 expires |-> now + QuoteTTL,
                 dailyCap |-> DailyCap(policy), weeklyCap |-> WeeklyCap(policy)]
<1>1. CreateQuote(c, price) /\ c \notin Workflow
  BY DEF AskFirst, RunAtOnce, CreateQuote, ApprovalInv, ApprovedAt
<1>2. quote' = [quote EXCEPT ![c] = q] /\ quote'[c] = q
  BY <1>1 DEF CreateQuote, ApprovalInv, TypeOK
<1>3. q.cost = price /\ q.outcome = Decision(price)
  OBVIOUS
<1> HIDE DEF q
<1>4. UNCHANGED wallet /\ shared' = shared
  BY <1>1 DEF CreateQuote, wallet
<1>5. /\ Settled(c)' = Passed \intersect Recorded
      /\ \A d \in Call : d # c => Settled(d)' = Settled(d)
  BY <1>1 DEF CreateQuote, ApprovalInv, TypeOK, Settled
<1>6. Exceeds(price, UserCap) =>
          \/ Config.trusted /\ price <= Config.trustedMax
          \/ Decision(price) = Approval(shared)
          \/ Config.firstSpend /\ Recorded = {} /\ Decision(price) = "require_confirmation"
  BY <1>1, DecisionOverCap DEF CreateQuote, ApprovalInv
<1>7. PICK p \in {"pending", "executing"} :
          /\ Goto(c, p)
          /\ p = "executing" => ~NeedsConfirmation(price)
  BY DEF AskFirst, RunAtOnce
<1>8. phase'[c] = p
  BY <1>7 DEF Goto, ApprovalInv, TypeOK
<1>9. ApprovedAt(c)'
  <2>1. Exceeds(price, UserCap) => Exempt(c)' \/ quote'[c].outcome = Approval(shared)
                                              \/ FirstSpend(c)'
    BY <1>2, <1>3, <1>5, <1>6 DEF Exempt, FirstSpend
  <2>2. Exceeds(price, UserCap) /\ p = "executing" => Exempt(c)'
    BY <1>2, <1>3, <1>6, <1>7
    DEF NeedsConfirmation, ConfirmOutcome, Approval, Exempt
  <2> QED
    BY <1>1, <1>2, <1>3, <1>4, <1>7, <1>8, <2>1, <2>2 DEF ApprovedAt
<1> QED
  BY <1>2, <1>4, <1>5, <1>7, <1>9, OneCall

LEMMA ApprovalStep == ApprovalInv /\ [Next]_vars => ApprovalInv'
<1> SUFFICES ASSUME ApprovalInv, [Next]_vars PROVE ApprovalInv'
  OBVIOUS
<1> USE DEF history
<1>0. TypeOK'
  BY TypeStep DEF ApprovalInv
<1>1. ASSUME NEW c \in Call, Command(c) PROVE ApprovalInv'
  BY <1>0, <1>1, GotoApproval DEF Command, Asked
<1>2. ASSUME NEW c \in Call,
             \/ PreflightFails(c) \/ RefuseConfirmed(c) \/ Cancel(c) \/ Fail(c)
             \/ RefuseWorkflow(c) \/ ExpireWorkflow(c)
             \/ \E price \in Price : Deny(c, price)
      PROVE  ApprovalInv'
  BY <1>0, <1>2, EndApproval
  DEF PreflightFails, RefuseConfirmed, Cancel, Fail, RefuseWorkflow, ExpireWorkflow, Deny
<1>3. ASSUME NEW c \in Call, RunConfirmed(c) \/ Record(c) \/ PlanWorkflow(c) PROVE ApprovalInv'
  BY <1>0, <1>3, GotoApproval DEF RunConfirmed, Record, PlanWorkflow, Asked
<1>4. CASE Freeze \/ Unfreeze \/ SetPolicy \/ Tick \/ UNCHANGED vars
  <2>1. UNCHANGED <<phase, quote, shared, before, ahead>>
    BY <1>4 DEF Freeze, Unfreeze, SetPolicy, Tick, vars, wallet
  <2>2. \A c \in Call : ApprovedAt(c)'
    BY <2>1
    DEF ApprovalInv, ApprovedAt, Exempt, Approver, Pressers, FirstSpend, Settled
  <2>3. policy' = policy \/ policy'.skill = policy.skill \/ policy'.skill \in {"allowed", "blocked"}
    BY <1>4 DEF Freeze, Unfreeze, SetPolicy, Tick, vars, wallet, ApprovalInv, TypeOK
  <2> QED
    BY <1>0, <2>2, <2>3 DEF ApprovalInv
<1> QED
  BY <1>0, <1>1, <1>2, <1>3, <1>4, ConfirmApproval, PlanApproval, PassApproval, WorkflowApproval
  DEF Next

\* With the first-spend rule a member's own button may do in a group, but only for a
\* call that was quoted when nothing was in the ledger.
OverCapIsApprovedOrFirst ==
    \A c \in Call :
        Started(c) /\ Exceeds(quote[c].cost, UserCap) =>
            \/ quote[c].presser \in Approver(c)
            \/ Exempt(c)
            \/ Config.firstSpend /\ shared /\ quote[c].presser = Maker[c] /\ Settled(c) = {}

\* Whatever the configuration, no call over the cap starts without the button of
\* someone who may press it, and where that is not the one the cap asks for, it is
\* the first spend: the extent of what the run spend_first finds.
THEOREM OverCapApprovedOrFirst == Spec => []OverCapIsApprovedOrFirst
<1>1. ASSUME ApprovalInv, NEW c \in Call, Started(c), Exceeds(quote[c].cost, UserCap), ~Exempt(c)
      PROVE  \/ quote[c].presser \in Approver(c)
             \/ Config.firstSpend /\ shared /\ quote[c].presser = Maker[c] /\ Settled(c) = {}
  <2>1. /\ quote[c].presser \in Pressers(c)
        /\ quote[c].outcome = Approval(shared) \/ FirstSpend(c)
    BY <1>1 DEF ApprovalInv, ApprovedAt, Started, Asked
  <2> QED
    BY <2>1 DEF Approval, Pressers, Approver, FirstSpend
<1>2. ApprovalInv => OverCapIsApprovedOrFirst
  BY <1>1 DEF OverCapIsApprovedOrFirst
<1> QED
  BY <1>2, ApprovalInit, ApprovalStep, PTL DEF Spec

\* Unless the first-spend rule asks before the group's threshold is looked at, a call
\* over the cap starts only once the right person pressed the button, for any caps
\* and prices and however calls, edits and freezes interleave.
THEOREM OverCapAlwaysApproved ==
    ASSUME ~Config.firstSpend
    PROVE  Spec => []OverCapIsApproved
<1>1. OverCapIsApprovedOrFirst => OverCapIsApproved
  BY DEF OverCapIsApprovedOrFirst, OverCapIsApproved, Approver, Exempt
<1> QED
  BY <1>1, OverCapApprovedOrFirst, PTL

-----------------------------------------------------------------------------
(* Sums over finite sets.  The recursion is the one of MapThenFoldSet; where the *)
(* set is finite, induction takes a least set for which the claim fails.         *)

\* Of any sets of elements of a finite set, one contains none of the others.
LEMMA LeastSubset ==
    ASSUME NEW S, IsFiniteSet(S), NEW B \in SUBSET (SUBSET S), B # {}
    PROVE  \E T \in B : \A U \in B : U \subseteq T => U = T
<1>1. FiniteSubsetsOf(S) = SUBSET S
  BY FS_FiniteSubsetsOfFinite
<1>2. IsWellFoundedOn(StrictSubsetOrdering(S), SUBSET S)
  BY <1>1, FS_StrictSubsetOrderingWellFounded
<1>3. PICK T \in B : \A U \in B : <<U, T>> \notin StrictSubsetOrdering(S)
  BY <1>2, WFMin
<1>4. ASSUME NEW U \in B, U \subseteq T PROVE U = T
  BY <1>3, <1>4 DEF StrictSubsetOrdering
<1> QED
  BY <1>4

Pick(s) == CHOOSE x \in s : TRUE

LEMMA PickIn == \A s : s # {} => Pick(s) \in s
  BY DEF Pick

\* sum is the recursive function in the definition of MapThenFoldSet.
Adds(sum, amount, S) ==
    sum = [s \in SUBSET S |->
              IF s = {} THEN 0 ELSE amount[Pick(s)].cents + sum[s \ {Pick(s)}]]

SumOver(amount, S) == CHOOSE sum : Adds(sum, amount, S)

Total(amount, S) == SumOver(amount, S)[S]

LEMMA CentsTotal == \A calls : Cents(calls) = Total(row, calls)
  BY DEF Cents, MapThenSumSet, MapThenFoldSet, Total, SumOver, Adds, Pick

LEMMA CentsTotalNext == (\A calls : Cents(calls) = Total(row, calls))'
  BY CentsTotal, PTL

\* Two such functions, also for different sets, agree where both are defined.
LEMMA AddsUnique ==
    ASSUME NEW amount, NEW S, IsFiniteSet(S), NEW T \in SUBSET S,
           NEW f, Adds(f, amount, S), NEW g, Adds(g, amount, T)
    PROVE  f[T] = g[T]
<1> DEFINE Bad == {s \in SUBSET T : f[s] # g[s]}
<1>1. SUFFICES ASSUME Bad # {} PROVE FALSE
  BY DEF Bad
<1>2. IsFiniteSet(T) /\ Bad \in SUBSET (SUBSET T)
  BY FS_Subset
<1>3. PICK s \in Bad : \A u \in Bad : u \subseteq s => u = s
  <2> HIDE DEF Bad
  <2> QED
    BY <1>1, <1>2, LeastSubset
<1>4. /\ f[s] = IF s = {} THEN 0 ELSE amount[Pick(s)].cents + f[s \ {Pick(s)}]
      /\ g[s] = IF s = {} THEN 0 ELSE amount[Pick(s)].cents + g[s \ {Pick(s)}]
  BY <1>3 DEF Adds
<1>5. s # {}
  BY <1>3, <1>4
<1>6. s \ {Pick(s)} \subseteq s /\ s \ {Pick(s)} # s
  BY <1>5, PickIn
<1>7. f[s \ {Pick(s)}] = g[s \ {Pick(s)}]
  BY <1>3, <1>6
<1>8. f[s] = g[s]
  BY <1>4, <1>5, <1>7
<1> QED
  BY <1>3, <1>8

\* There is such a function: the sums over the proper subsets make the one over the set.
LEMMA AddsExists ==
    ASSUME NEW amount, NEW S, IsFiniteSet(S)
    PROVE  Adds(SumOver(amount, S), amount, S)
<1> DEFINE Bad == {s \in SUBSET S : ~ \E sum : Adds(sum, amount, s)}
<1>1. ASSUME Bad # {} PROVE FALSE
  <2>1. PICK T \in Bad : \A u \in Bad : u \subseteq T => u = T
    <3>1. Bad \in SUBSET (SUBSET S)
      OBVIOUS
    <3> HIDE DEF Bad
    <3> QED
      BY <1>1, <3>1, LeastSubset
  <2> DEFINE Step(s) == IF s = {} THEN 0
                        ELSE amount[Pick(s)].cents + Total(amount, s \ {Pick(s)})
             sum == [s \in SUBSET T |-> Step(s)]
  <2>2. ASSUME NEW s \in SUBSET T, s # T PROVE Adds(SumOver(amount, s), amount, s)
    BY <2>1, <2>2 DEF SumOver
  <2>3. ASSUME NEW s \in SUBSET T, s # T PROVE Total(amount, s) = Step(s)
    <3> DEFINE rest == s \ {Pick(s)}
    <3>1. CASE s = {}
      BY <2>2, <2>3, <3>1 DEF Total, Adds
    <3>2. CASE s # {}
      <4>1. rest \in SUBSET s /\ rest \in SUBSET T /\ rest # T /\ IsFiniteSet(s)
        BY <2>1, <3>2, PickIn, FS_Subset
      <4>2. Adds(SumOver(amount, s), amount, s) /\ Adds(SumOver(amount, rest), amount, rest)
        BY <2>2, <2>3, <4>1
      <4>3. SumOver(amount, s)[rest] = Total(amount, rest)
        BY <4>1, <4>2, AddsUnique DEF Total
      <4>4. SumOver(amount, s)[s] = amount[Pick(s)].cents + SumOver(amount, s)[rest]
        BY <3>2, <4>2 DEF Adds
      <4> QED
        BY <3>2, <4>3, <4>4 DEF Total
    <3> QED
      BY <3>1, <3>2
  <2>4. ASSUME NEW s \in SUBSET T, s # {} PROVE sum[s \ {Pick(s)}] = Total(amount, s \ {Pick(s)})
    <3>1. s \ {Pick(s)} \in SUBSET T /\ s \ {Pick(s)} # T
      BY <2>4, PickIn
    <3> HIDE DEF Step
    <3> QED
      BY <2>3, <3>1
  <2>5. Adds(sum, amount, T)
    BY <2>4 DEF Adds
  <2> QED
    BY <2>1, <2>5
<1> QED
  BY <1>1 DEF SumOver

LEMMA TotalEmpty ==
    ASSUME NEW amount
    PROVE  Total(amount, {}) = 0
<1>1. Adds(SumOver(amount, {}), amount, {})
  BY AddsExists, FS_EmptySet
<1> QED
  BY <1>1 DEF Total, Adds

\* The sum over a set is the amount picked first and the sum over the others.
LEMMA TotalPick ==
    ASSUME NEW amount, NEW S, IsFiniteSet(S), S # {}
    PROVE  Total(amount, S) = amount[Pick(S)].cents + Total(amount, S \ {Pick(S)})
<1> DEFINE rest == S \ {Pick(S)}
<1>1. IsFiniteSet(rest) /\ rest \in SUBSET S
  BY FS_Subset
<1>2. Adds(SumOver(amount, S), amount, S) /\ Adds(SumOver(amount, rest), amount, rest)
  BY <1>1, AddsExists
<1>3. SumOver(amount, S)[rest] = Total(amount, rest)
  BY <1>1, <1>2, AddsUnique DEF Total
<1>4. SumOver(amount, S)[S] = amount[Pick(S)].cents + SumOver(amount, S)[rest]
  BY <1>2 DEF Adds
<1> QED
  BY <1>3, <1>4 DEF Total

Amounts(S) == [S -> [at : Nat, cents : Nat]]

LEMMA TotalType ==
    ASSUME NEW S, NEW amount \in Amounts(S), NEW T \in SUBSET S, IsFiniteSet(T)
    PROVE  Total(amount, T) \in Nat
<1> DEFINE Bad == {s \in SUBSET T : Total(amount, s) \notin Nat}
<1>1. SUFFICES ASSUME Bad # {} PROVE FALSE
  BY DEF Bad
<1>2. PICK s \in Bad : \A u \in Bad : u \subseteq s => u = s
  <2>1. Bad \in SUBSET (SUBSET T)
    OBVIOUS
  <2> HIDE DEF Bad
  <2> QED
    BY <1>1, <2>1, LeastSubset
<1>3. s # {}
  BY <1>2, TotalEmpty
<1>4. Pick(s) \in s /\ IsFiniteSet(s)
  BY <1>2, <1>3, PickIn, FS_Subset
<1>5. Total(amount, s) = amount[Pick(s)].cents + Total(amount, s \ {Pick(s)})
  BY <1>3, <1>4, TotalPick
<1>6. Total(amount, s \ {Pick(s)}) \in Nat
  BY <1>2, <1>4
<1>7. amount[Pick(s)].cents \in Nat
  BY <1>2, <1>4 DEF Amounts
<1> QED
  BY <1>2, <1>5, <1>6, <1>7

\* Any element may be taken first.
LEMMA TotalTake ==
    ASSUME NEW S, NEW amount \in Amounts(S), NEW T \in SUBSET S, IsFiniteSet(T), NEW x \in T
    PROVE  Total(amount, T) = amount[x].cents + Total(amount, T \ {x})
<1> DEFINE Bad == {s \in SUBSET T : \E y \in s :
                      Total(amount, s) # amount[y].cents + Total(amount, s \ {y})}
<1>1. SUFFICES ASSUME Bad # {} PROVE FALSE
  BY DEF Bad
<1>2. PICK s \in Bad : \A u \in Bad : u \subseteq s => u = s
  <2>1. Bad \in SUBSET (SUBSET T)
    OBVIOUS
  <2> HIDE DEF Bad
  <2> QED
    BY <1>1, <2>1, LeastSubset
<1>3. PICK y \in s : Total(amount, s) # amount[y].cents + Total(amount, s \ {y})
  BY <1>2
<1> DEFINE z == Pick(s)
<1>4. z \in s /\ IsFiniteSet(s) /\ s \in SUBSET S
  BY <1>2, <1>3, PickIn, FS_Subset
<1>5. Total(amount, s) = amount[z].cents + Total(amount, s \ {z})
  BY <1>4, TotalPick
<1>6. y # z
  BY <1>3, <1>5
<1> HIDE DEF z
<1>7. ASSUME NEW u \in SUBSET s, u # s, NEW v \in u
      PROVE  Total(amount, u) = amount[v].cents + Total(amount, u \ {v})
  <2>1. u \in SUBSET T /\ u \notin Bad
    BY <1>2, <1>7
  <2> QED
    BY <2>1
<1> HIDE DEF Bad
<1>8. Total(amount, s \ {z}) = amount[y].cents + Total(amount, s \ {y, z})
  <2>1. (s \ {z}) \ {y} = s \ {y, z} /\ y \in s \ {z} /\ s \ {z} # s
    BY <1>4, <1>6
  <2> QED
    BY <1>7, <2>1
<1>9. Total(amount, s \ {y}) = amount[z].cents + Total(amount, s \ {y, z})
  <2>1. (s \ {y}) \ {z} = s \ {y, z} /\ z \in s \ {y} /\ s \ {y} # s
    BY <1>4, <1>6
  <2> QED
    BY <1>7, <2>1
<1>10. Total(amount, s \ {y, z}) \in Nat
  BY <1>4, TotalType, FS_Subset
<1>11. amount[y].cents \in Nat /\ amount[z].cents \in Nat
  BY <1>4 DEF Amounts
<1> QED
  BY <1>3, <1>5, <1>8, <1>9, <1>10, <1>11

\* Only the amounts of the elements count.
LEMMA TotalSame ==
    ASSUME NEW S, NEW amount \in Amounts(S), NEW other \in Amounts(S),
           NEW T \in SUBSET S, IsFiniteSet(T), \A x \in T : other[x] = amount[x]
    PROVE  Total(other, T) = Total(amount, T)
<1> DEFINE Bad == {s \in SUBSET T : Total(other, s) # Total(amount, s)}
<1>1. SUFFICES ASSUME Bad # {} PROVE FALSE
  BY DEF Bad
<1>2. PICK s \in Bad : \A u \in Bad : u \subseteq s => u = s
  <2>1. Bad \in SUBSET (SUBSET T)
    OBVIOUS
  <2> HIDE DEF Bad
  <2> QED
    BY <1>1, <2>1, LeastSubset
<1>3. s # {} /\ s \in SUBSET T
  BY <1>2, TotalEmpty
<1> DEFINE z == Pick(s)
<1>4. z \in s /\ IsFiniteSet(s)
  BY <1>3, PickIn, FS_Subset
<1>5. /\ Total(amount, s) = amount[z].cents + Total(amount, s \ {z})
      /\ Total(other, s) = other[z].cents + Total(other, s \ {z})
  BY <1>3, <1>4, TotalPick
<1> HIDE DEF z
<1>6. Total(other, s \ {z}) = Total(amount, s \ {z})
  <2>1. s \ {z} \in SUBSET T /\ s \ {z} \notin Bad
    BY <1>2, <1>3, <1>4
  <2> QED
    BY <2>1
<1>7. other[z] = amount[z]
  BY <1>3, <1>4
<1>8. Total(other, s) # Total(amount, s)
  BY <1>2
<1> QED
  BY <1>5, <1>6, <1>7, <1>8

\* The sums over two disjoint sets.
LEMMA TotalUnion ==
    ASSUME NEW S, NEW amount \in Amounts(S), NEW T \in SUBSET S, IsFiniteSet(T),
           NEW U \in SUBSET T
    PROVE  Total(amount, T) = Total(amount, U) + Total(amount, T \ U)
<1> DEFINE Bad == {s \in SUBSET T :
                      Total(amount, s) # Total(amount, s \intersect U) + Total(amount, s \ U)}
<1>1. SUFFICES ASSUME Bad # {} PROVE FALSE
  <2>1. T \notin Bad => Total(amount, T) = Total(amount, T \intersect U) + Total(amount, T \ U)
    OBVIOUS
  <2>2. T \intersect U = U
    OBVIOUS
  <2> QED
    BY <2>1, <2>2
<1>2. PICK s \in Bad : \A u \in Bad : u \subseteq s => u = s
  <2>1. Bad \in SUBSET (SUBSET T)
    OBVIOUS
  <2> HIDE DEF Bad
  <2> QED
    BY <1>1, <2>1, LeastSubset
<1>3. s \in SUBSET T /\ Total(amount, s) # Total(amount, s \intersect U) + Total(amount, s \ U)
  BY <1>2
<1>4. PICK z : z \in s
  <2>1. s # {}
    <3>1. {} \intersect U = {} /\ {} \ U = {} /\ 0 + 0 = 0
      OBVIOUS
    <3> QED
      BY <1>3, <3>1, TotalEmpty
  <2> QED
    BY <2>1
<1> DEFINE rest == s \ {z}
<1>5. Total(amount, rest) = Total(amount, rest \intersect U) + Total(amount, rest \ U)
  <2>1. rest \in SUBSET T /\ rest \notin Bad
    BY <1>2, <1>3, <1>4
  <2> QED
    BY <2>1
<1> HIDE DEF Bad
<1>6. IsFiniteSet(s) /\ IsFiniteSet(s \intersect U) /\ IsFiniteSet(s \ U)
  BY <1>3, FS_Subset
<1>7. Total(amount, s) = amount[z].cents + Total(amount, rest)
  BY <1>3, <1>4, <1>6, TotalTake
<1>8. amount[z].cents \in Nat
  BY <1>3, <1>4 DEF Amounts
<1>9. Total(amount, rest \intersect U) \in Nat /\ Total(amount, rest \ U) \in Nat
  BY <1>3, FS_Subset, TotalType
<1>10. CASE z \in U
  <2>1. z \in s \intersect U /\ (s \intersect U) \ {z} = rest \intersect U /\ rest \ U = s \ U
    BY <1>4, <1>10
  <2>2. Total(amount, s \intersect U) = amount[z].cents + Total(amount, rest \intersect U)
    BY <1>3, <1>6, <2>1, TotalTake
  <2>3. Total(amount, s \ U) = Total(amount, rest \ U)
    BY <2>1
  <2> HIDE DEF rest
  <2> QED
    BY <1>3, <1>5, <1>7, <1>8, <1>9, <2>2, <2>3
<1>11. CASE z \notin U
  <2>1. z \in s \ U /\ (s \ U) \ {z} = rest \ U /\ rest \intersect U = s \intersect U
    BY <1>4, <1>11
  <2>2. Total(amount, s \ U) = amount[z].cents + Total(amount, rest \ U)
    BY <1>3, <1>6, <2>1, TotalTake
  <2>3. Total(amount, s \intersect U) = Total(amount, rest \intersect U)
    BY <2>1
  <2> HIDE DEF rest
  <2> QED
    BY <1>3, <1>5, <1>7, <1>8, <1>9, <2>2, <2>3
<1> QED
  BY <1>10, <1>11

LEMMA TotalMonotonic ==
    ASSUME NEW S, NEW amount \in Amounts(S), NEW T \in SUBSET S, IsFiniteSet(T),
           NEW U \in SUBSET T
    PROVE  Total(amount, U) <= Total(amount, T)
<1>1. Total(amount, T) = Total(amount, U) + Total(amount, T \ U)
  BY TotalUnion
<1>2. Total(amount, U) \in Nat /\ Total(amount, T \ U) \in Nat
  BY TotalType, FS_Subset
<1> QED
  BY <1>1, <1>2

-----------------------------------------------------------------------------
(* The caps. *)

Busy == {c \in Call : phase[c] # "idle"}

\* The calls that have passed are the commands that are waiting for a button, run or
\* are in the ledger, and these are finitely many.
PassedAt(c) ==
    /\ quote[c].outcome # "none" <=> c \notin Workflow /\ phase[c] \in Asked
    /\ c \in Workflow => phase[c] \notin {"preflight", "confirming", "executing"}
    /\ phase[c] = "planning" => c \in Workflow

PassedInv == IsFiniteSet(Busy) /\ \A c \in Call : PassedAt(c)

\* Those settled when c passed that still count.
Within(c, period) == {d \in Settled(c) : row[d].at + period >= now}

\* A call has not passed before itself, what was in the ledger stays there, and of any
\* calls one has passed last.
OrderInv ==
    /\ \A c \in Call : c \notin before[c] /\ Settled(c) \subseteq Recorded
    /\ \A calls \in SUBSET Passed :
           calls # {} => \E c \in calls : calls \ {c} \subseteq before[c]

\* The caps a call was held against; those of the wallet as they were then.
GroupCap == IF shared THEN Config.groupDailyCap ELSE Off

Limits(c) == {[period |-> Day, cap |-> quote[c].dailyCap],
              [period |-> Week, cap |-> quote[c].weeklyCap],
              [period |-> Day, cap |-> GroupCap]}

\* What was in the ledger when a call passed has left these caps room for its quote ever since.
Fits(c, limit) ==
    limit.cap # Off => Total(row, Within(c, limit.period)) + quote[c].cost <= limit.cap

CapInv == \A c \in Passed : \A limit \in Limits(c) : Fits(c, limit)

LedgerInv == TypeOK /\ PassedInv /\ OrderInv /\ CapInv

LEMMA CapsInit == Init => LedgerInv
<1> SUFFICES ASSUME Init PROVE LedgerInv
  OBVIOUS
<1>1. TypeOK
  BY TypeInit
<1>2. \A c \in Call : phase[c] = "idle" /\ quote[c].outcome = "none" /\ before[c] = {}
  BY DEF Init, NoQuote
<1>3. Busy = {} /\ Passed = {}
  BY <1>2 DEF Busy, Passed
<1>4. PassedInv
  BY <1>2, <1>3, FS_EmptySet DEF PassedInv, PassedAt, Asked
<1>5. OrderInv
  BY <1>2, <1>3 DEF OrderInv, Settled
<1>6. CapInv
  BY <1>3 DEF CapInv
<1> QED
  BY <1>1, <1>4, <1>5, <1>6 DEF LedgerInv

\* The rows and quotes of two states have their types.
LEMMA LedgerTypes ==
    ASSUME TypeOK
    PROVE  /\ row \in Amounts(Call) /\ now \in Nat /\ Day \in Nat /\ Week \in Nat
           /\ before \in [Call -> SUBSET Call] /\ ahead \in [Call -> SUBSET Call]
           /\ \A c \in Call : /\ quote[c].cost \in Nat
                              /\ row[c].at \in Nat /\ row[c].cents \in Nat
                              /\ Limits(c) \subseteq [period : {Day, Week}, cap : Nat \union {Off}]
<1>1. GroupCap \in Nat \union {Off}
  BY ConfigAssumption DEF GroupCap
<1> QED
  BY <1>1, SpendAssumption DEF TypeOK, Quote, Amounts, Cap, Limits

\* A call that moves, its quote the only one to change.
LEMMA MovePassed ==
    ASSUME TypeOK, PassedInv, NEW c \in Call, NEW p \in Phase, Goto(c, p), NEW q,
           quote' = [quote EXCEPT ![c] = q], PassedAt(c)'
    PROVE  PassedInv'
<1>1. \A d \in Call : d # c => phase'[d] = phase[d] /\ quote'[d] = quote[d]
  BY DEF Goto, TypeOK
<1>2. \A d \in Call : PassedAt(d)'
  BY <1>1 DEF PassedInv, PassedAt
<1>3. Busy' \in SUBSET (Busy \union {c})
  BY <1>1 DEF Busy
<1>4. IsFiniteSet(Busy')
  BY <1>3, FS_AddElement, FS_Subset DEF PassedInv
<1> QED
  BY <1>2, <1>4 DEF PassedInv

\* A call that passes no rule and loses none: the outcome of its quote stays.
LEMMA MoveKept ==
    ASSUME TypeOK, PassedInv, NEW c \in Call, NEW p \in Phase, Goto(c, p), NEW q,
           quote' = [quote EXCEPT ![c] = q], q.outcome = quote[c].outcome,
           \/ p = "over" /\ phase[c] = "idle"
           \/ p = "preflight" /\ phase[c] = "idle" /\ c \notin Workflow
           \/ p = "planning" /\ phase[c] = "idle" /\ c \in Workflow
           \/ p = "pending" /\ phase[c] = "planning"
           \/ p \in {"confirming", "executing", "recorded"}
              /\ phase[c] \in {"pending", "confirming", "executing"} /\ c \notin Workflow
           \/ p = "recorded" /\ c \in Workflow
    PROVE  PassedInv' /\ Passed' = Passed
<1>1. /\ phase'[c] = p /\ quote'[c] = q
      /\ \A d \in Call : d # c => quote'[d] = quote[d]
  BY DEF Goto, TypeOK
<1>2. PassedAt(c)
  BY DEF PassedInv
<1>3. PassedAt(c)'
  BY <1>1, <1>2 DEF PassedAt, Asked
<1>4. PassedInv'
  BY <1>3, MovePassed
<1>5. \A d \in Call : quote'[d].outcome = quote[d].outcome
  BY <1>1
<1> QED
  BY <1>4, <1>5 DEF Passed

LEMMA RecordedFinite ==
    ASSUME PassedInv
    PROVE  IsFiniteSet(Recorded)
<1>1. Recorded \in SUBSET Busy
  BY DEF Recorded, Busy
<1> QED
  BY <1>1, FS_Subset DEF PassedInv

\* The sum a call was held against only shrinks: rows stay as they are, and leave the
\* window as time goes by.
LEMMA WithinShrinks ==
    ASSUME TypeOK, TypeOK', PassedInv, OrderInv, NEW c \in Call, NEW period \in Nat,
           Settled(c)' \subseteq Settled(c), now' >= now,
           \A d \in Recorded : row'[d] = row[d]
    PROVE  /\ Total(row', Within(c, period)') <= Total(row, Within(c, period))
           /\ Total(row', Within(c, period)') \in Nat /\ Total(row, Within(c, period)) \in Nat
<1> DEFINE W == Within(c, period)
           V == Within(c, period)'
<1>1. /\ row \in Amounts(Call) /\ row' \in Amounts(Call) /\ now \in Nat /\ now' \in Nat
      /\ \A d \in Call : row[d].at \in Nat /\ row'[d].at \in Nat
  BY LedgerTypes, SpendAssumption DEF TypeOK, Amounts
<1>2. W \in SUBSET Recorded /\ Recorded \in SUBSET Call
  BY DEF OrderInv, Within, Recorded
<1>3. V \subseteq W
  <2> SUFFICES ASSUME NEW d \in Settled(c), row'[d].at + period >= now'
               PROVE  row[d].at + period >= now
    BY DEF Within
  <2>1. d \in Recorded /\ d \in Call
    BY DEF OrderInv, Recorded
  <2> QED
    BY <1>1, <2>1
<1>4. IsFiniteSet(W) /\ W \in SUBSET Call /\ V \in SUBSET W /\ IsFiniteSet(V) /\ V \in SUBSET Call
  <2>1. IsFiniteSet(W)
    BY <1>2, RecordedFinite, FS_Subset
  <2> HIDE DEF W, V
  <2> QED
    BY <1>2, <1>3, <2>1, FS_Subset
<1>5. \A d \in V : row'[d] = row[d]
  BY <1>2, <1>3
<1> HIDE DEF W, V
<1>6. Total(row', V) = Total(row, V)
  BY <1>1, <1>4, <1>5, TotalSame
<1>7. Total(row, V) <= Total(row, W) /\ Total(row, V) \in Nat /\ Total(row, W) \in Nat
  BY <1>1, <1>4, TotalMonotonic, TotalType
<1> QED
  BY <1>6, <1>7 DEF W, V

LEMMA FitsStill ==
    ASSUME TypeOK, TypeOK', PassedInv, OrderInv, NEW c \in Call, NEW limit \in Limits(c),
           Fits(c, limit), Settled(c)' \subseteq Settled(c), now' >= now,
           quote'[c].cost = quote[c].cost, \A d \in Recorded : row'[d] = row[d]
    PROVE  Fits(c, limit)'
<1>1. limit.period \in {Day, Week} /\ limit.cap \in Nat \union {Off} /\ quote[c].cost \in Nat
  BY LedgerTypes
<1>2. limit.period \in Nat
  BY <1>1, SpendAssumption
<1>3. /\ Total(row', Within(c, limit.period)') <= Total(row, Within(c, limit.period))
      /\ Total(row', Within(c, limit.period)') \in Nat /\ Total(row, Within(c, limit.period)) \in Nat
  BY <1>2, WithinShrinks
<1> QED
  BY <1>1, <1>3 DEF Fits

\* A step that leaves the history, the ledger and the quotes that have passed alone.
LEMMA KeptLedger ==
    ASSUME LedgerInv, TypeOK', PassedInv', Passed' = Passed, UNCHANGED <<before, ahead>>,
           now' >= now, \A d \in Recorded : d \in Recorded' /\ row'[d] = row[d],
           \A d \in Passed : quote'[d].cost = quote[d].cost /\ Limits(d)' = Limits(d)
    PROVE  LedgerInv'
<1>1. OrderInv'
  BY DEF LedgerInv, OrderInv, Settled
<1>2. ASSUME NEW c \in Passed, NEW limit \in Limits(c) PROVE Fits(c, limit)'
  <2>1. c \in Call /\ Settled(c)' \subseteq Settled(c)
    BY DEF Passed, Settled
  <2> QED
    BY <2>1, FitsStill DEF LedgerInv, CapInv
<1>3. CapInv'
  BY <1>2 DEF CapInv
<1> QED
  BY <1>1, <1>3 DEF LedgerInv

\* A call that ends has no row; the histories of the others forget it.
LEMMA EndLedger ==
    ASSUME LedgerInv, TypeOK', NEW c \in Call, End(c), phase[c] \notin {"idle", "recorded"}
    PROVE  LedgerInv'
<1>1. /\ \A d \in Call : d # c => /\ quote'[d] = quote[d] /\ phase'[d] = phase[d]
                                  /\ before'[d] = before[d] \ {c} /\ ahead'[d] = ahead[d] \ {c}
      /\ phase'[c] = "over" /\ quote'[c] = NoQuote /\ before'[c] = {} /\ ahead'[c] = {}
  BY DEF End, Goto, Forget, LedgerInv, TypeOK
<1>2. PassedInv'
  <2>1. PassedAt(c)'
    BY <1>1 DEF PassedAt, Asked, NoQuote
  <2> QED
    BY <2>1, MovePassed DEF End, LedgerInv, Phase
<1>3. Passed' = Passed \ {c} /\ Recorded' = Recorded
  BY <1>1 DEF Passed, Recorded, NoQuote
<1>4. \A d \in Call : Settled(d)' \subseteq Settled(d) \ {c}
  BY <1>1 DEF Settled
<1>5. OrderInv'
  <2>1. \A d \in Call : d \notin before'[d] /\ Settled(d)' \subseteq Recorded'
    BY <1>1, <1>3, <1>4 DEF LedgerInv, OrderInv
  <2>2. ASSUME NEW calls \in SUBSET Passed', calls # {}
        PROVE  \E d \in calls : calls \ {d} \subseteq before'[d]
    <3>1. PICK d \in calls : calls \ {d} \subseteq before[d]
      BY <1>3, <2>2 DEF LedgerInv, OrderInv
    <3>2. d \in Call /\ d # c /\ c \notin calls
      BY <1>3 DEF Passed
    <3> QED
      BY <1>1, <3>1, <3>2
  <2> QED
    BY <2>1, <2>2 DEF OrderInv
<1>6. ASSUME NEW d \in Passed', NEW limit \in Limits(d)' PROVE Fits(d, limit)'
  <2>1. d \in Call /\ d # c /\ d \in Passed /\ quote'[d] = quote[d] /\ shared' = shared
    BY <1>1, <1>3 DEF Passed, End, wallet
  <2>2. limit \in Limits(d)
    BY <2>1 DEF Limits, GroupCap
  <2>3. Settled(d)' \subseteq Settled(d) /\ now' >= now /\ row' = row
    BY <1>4, <2>1 DEF End, LedgerInv, TypeOK
  <2> QED
    BY <2>1, <2>2, <2>3, FitsStill DEF LedgerInv, CapInv
<1>7. CapInv'
  BY <1>6 DEF CapInv
<1> QED
  BY <1>2, <1>5, <1>7 DEF LedgerInv

\* What the policy does not deny fits under the wallet's caps.
LEMMA LetPass ==
    ASSUME NEW req, NEW pol, Evaluate(req, pol) \notin DenyOutcome
    PROVE  /\ ~DailyRule(req, pol)
           /\ ~Exceeds(req.spentWeek + req.cost, WeeklyCap(pol))
           /\ req.group => ~Exceeds(req.spentDay + req.cost, Config.groupDailyCap)
<1> DEFINE rules == Rules(req, pol)
<1>1. PICK i \in 1 .. 12 :
          /\ \A k \in 1 .. (i - 1) : ~rules[k][1]
          /\ Evaluate(req, pol) = rules[i][2]
  BY RuleDecides
<1>2. \A j \in 1 .. 6 : rules[j][2] \in DenyOutcome
  BY DEF Rules, DenyOutcome
<1>3. /\ rules[3][1] <=> DailyRule(req, pol)
      /\ rules[4][1] <=> Exceeds(req.spentWeek + req.cost, WeeklyCap(pol))
      /\ rules[5][1] <=> req.group /\ Exceeds(req.spentDay + req.cost, Config.groupDailyCap)
  BY DEF Rules
<1> HIDE DEF rules
<1>4. i \notin 1 .. 6
  BY <1>1, <1>2
<1> QED
  BY <1>1, <1>3, <1>4

LEMMA RoomLeft ==
    ASSUME TypeOK, PassedInv, NEW price \in Price, Decision(price) \notin DenyOutcome
    PROVE  /\ DailyCap(policy) # Off => Total(row, Since(Day)) + price <= DailyCap(policy)
           /\ WeeklyCap(policy) # Off => Total(row, Since(Week)) + price <= WeeklyCap(policy)
           /\ GroupCap # Off => Total(row, Since(Day)) + price <= GroupCap
<1>1. /\ ~Exceeds(Spent(Day) + price, DailyCap(policy))
      /\ ~Exceeds(Spent(Week) + price, WeeklyCap(policy))
      /\ shared => ~Exceeds(Spent(Day) + price, Config.groupDailyCap)
  <2> DEFINE req == Request(price)
  <2>1. /\ req.spentDay = Spent(Day) /\ req.spentWeek = Spent(Week)
        /\ req.cost = price /\ req.group = shared
    BY DEF Request
  <2> HIDE DEF req
  <2>2. Evaluate(req, policy) \notin DenyOutcome
    BY DEF Decision, req
  <2> QED
    BY <2>1, <2>2, LetPass DEF DailyRule
<1>2. Spent(Day) = Total(row, Since(Day)) /\ Spent(Week) = Total(row, Since(Week))
  BY CentsTotal DEF Spent
<1>3. /\ DailyCap(policy) \in Nat \union {Off} /\ WeeklyCap(policy) \in Nat \union {Off}
      /\ Config.groupDailyCap \in Nat
  BY ConfigAssumption DEF TypeOK, DailyCap, WeeklyCap, Effective, Cap
<1>4. ASSUME NEW period \in {Day, Week} PROVE Total(row, Since(period)) \in Nat
  <2>1. Since(period) \in SUBSET Recorded /\ Recorded \in SUBSET Call
    BY DEF Since, Recorded
  <2> QED
    BY <2>1, LedgerTypes, RecordedFinite, FS_Subset, TotalType
<1>5. price \in Nat
  BY SpendAssumption
<1> QED
  BY <1>1, <1>2, <1>3, <1>4, <1>5, OffAssumption DEF Exceeds, GroupCap

\* A call the policy lets pass comes last, and finds room for its quote.
LEMMA CreateLedger ==
    ASSUME LedgerInv, TypeOK', NEW c \in Call, NEW price \in Price, CreateQuote(c, price),
           NEW p \in {"pending", "executing"}, Goto(c, p)
    PROVE  LedgerInv'
<1> DEFINE q == [cost |-> price, outcome |-> Decision(price), presser |-> NoActor,
                 expires |-> now + QuoteTTL,
                 dailyCap |-> DailyCap(policy), weeklyCap |-> WeeklyCap(policy)]
<1>1. /\ \A d \in Call : d # c => /\ quote'[d] = quote[d] /\ phase'[d] = phase[d]
                                  /\ before'[d] = before[d] /\ ahead'[d] = ahead[d]
      /\ phase'[c] = p /\ quote'[c] = q /\ quote' = [quote EXCEPT ![c] = q]
      /\ before'[c] = Passed /\ ahead'[c] = Passed \ Recorded
      /\ row' = row /\ now' = now /\ shared' = shared
  BY DEF CreateQuote, Goto, LedgerInv, TypeOK, wallet
<1>2. q.outcome # "none" /\ q.cost = price
      /\ q.dailyCap = DailyCap(policy) /\ q.weeklyCap = WeeklyCap(policy)
  BY OutcomeType DEF Decision, Outcome, DenyOutcome, ConfirmOutcome
<1> HIDE DEF q
<1>3. phase[c] = "preflight" /\ c \notin Workflow /\ quote[c].outcome = "none"
  BY DEF CreateQuote, LedgerInv, PassedInv, PassedAt, Asked
<1>4. PassedInv'
  <2>1. PassedAt(c)'
    BY <1>1, <1>2, <1>3 DEF PassedAt, Asked
  <2> QED
    BY <1>1, <2>1, MovePassed DEF LedgerInv, Phase
<1>5. Passed' = Passed \union {c} /\ c \notin Passed /\ Recorded' = Recorded
  BY <1>1, <1>2, <1>3 DEF Passed, Recorded
<1>6. \A d \in Call : d # c => Settled(d)' = Settled(d)
  BY <1>1 DEF Settled
<1>7. Settled(c)' = Passed \intersect Recorded
  BY <1>1 DEF Settled
<1>8. OrderInv'
  <2>1. \A d \in Call : d \notin before'[d] /\ Settled(d)' \subseteq Recorded'
    BY <1>1, <1>5, <1>6, <1>7 DEF LedgerInv, OrderInv
  <2>2. ASSUME NEW calls \in SUBSET Passed', calls # {}
        PROVE  \E d \in calls : calls \ {d} \subseteq before'[d]
    <3>1. CASE c \in calls
      BY <1>1, <1>5, <3>1
    <3>2. CASE c \notin calls
      <4>1. PICK d \in calls : calls \ {d} \subseteq before[d]
        BY <1>5, <2>2, <3>2 DEF LedgerInv, OrderInv
      <4>2. d \in Call /\ d # c
        BY <1>5, <3>2 DEF Passed
      <4> QED
        BY <1>1, <4>1, <4>2
    <3> QED
      BY <3>1, <3>2
  <2> QED
    BY <2>1, <2>2 DEF OrderInv
<1>9. ASSUME NEW d \in Passed, NEW limit \in Limits(d)' PROVE Fits(d, limit)'
  <2>1. d \in Call /\ d # c
    BY <1>5 DEF Passed
  <2>2. quote'[d] = quote[d] /\ row' = row /\ limit \in Limits(d)
    BY <1>1, <2>1 DEF Limits, GroupCap
  <2>3. Within(d, limit.period)' = Within(d, limit.period)
    BY <1>1, <1>6, <2>1 DEF Within
  <2>4. Fits(d, limit)
    BY <2>2 DEF LedgerInv, CapInv
  <2> QED
    BY <2>2, <2>3, <2>4 DEF Fits
<1>10. ASSUME NEW limit \in Limits(c)' PROVE Fits(c, limit)'
  <2>1. /\ Recorded \in SUBSET Call /\ IsFiniteSet(Recorded) /\ row \in Amounts(Call)
        /\ price \in Nat
    BY RecordedFinite, LedgerTypes, SpendAssumption DEF LedgerInv, Recorded
  <2>2. limit \in {[period |-> Day, cap |-> DailyCap(policy)],
                  [period |-> Week, cap |-> WeeklyCap(policy)],
                  [period |-> Day, cap |-> GroupCap]}
    BY <1>1, <1>2 DEF Limits, GroupCap
  <2>3. limit.cap \in Nat \union {Off}
    <3>1. DailyCap(policy) \in Nat \union {Off} /\ WeeklyCap(policy) \in Nat \union {Off}
      BY ConfigAssumption DEF LedgerInv, TypeOK, DailyCap, WeeklyCap, Effective, Cap
    <3>2. GroupCap \in Nat \union {Off}
      BY ConfigAssumption DEF GroupCap
    <3> QED
      BY <2>2, <3>1, <3>2
  <2> DEFINE V == Within(c, limit.period)'
             U == Since(limit.period)
  <2>4. V \in SUBSET U /\ U \in SUBSET Recorded
    BY <1>1, <1>7 DEF Within, Since
  <2>5. limit.cap # Off => Total(row, U) + price <= limit.cap
    <3>1. /\ DailyCap(policy) # Off => Total(row, Since(Day)) + price <= DailyCap(policy)
          /\ WeeklyCap(policy) # Off => Total(row, Since(Week)) + price <= WeeklyCap(policy)
          /\ GroupCap # Off => Total(row, Since(Day)) + price <= GroupCap
      BY RoomLeft DEF LedgerInv, CreateQuote
    <3> QED
      BY <2>2, <3>1
  <2> HIDE DEF V, U
  <2>6. IsFiniteSet(U) /\ IsFiniteSet(V)
    BY <2>1, <2>4, FS_Subset
  <2>7. Total(row, V) <= Total(row, U)
    BY <2>1, <2>4, <2>6, TotalMonotonic
  <2>8. Total(row, V) \in Nat /\ Total(row, U) \in Nat
    BY <2>1, <2>4, <2>6, TotalType
  <2>9. limit.cap # Off => Total(row, V) + price <= limit.cap
    BY <2>1, <2>3, <2>5, <2>7, <2>8
  <2> QED
    BY <1>1, <1>2, <2>9 DEF Fits, V
<1>11. CapInv'
  BY <1>5, <1>9, <1>10 DEF CapInv
<1> QED
  BY <1>4, <1>8, <1>11 DEF LedgerInv

LEMMA CapsStep == LedgerInv /\ [Next]_vars => LedgerInv'
<1> SUFFICES ASSUME LedgerInv, [Next]_vars PROVE LedgerInv'
  OBVIOUS
<1> USE DEF wallet, history
<1>1. TypeOK /\ TypeOK' /\ PassedInv /\ now \in Nat
  BY TypeStep DEF LedgerInv, TypeOK
<1>2. \A c \in Call : quote[c] \in Quote
  BY <1>1 DEF TypeOK
\* The call moves; its quote keeps what the history is about.
<1>3. ASSUME PassedInv', Passed' = Passed, UNCHANGED <<before, ahead, now>>, NEW c \in Call,
             \A d \in Call : d # c => row'[d] = row[d] /\ quote'[d] = quote[d],
             c \in Recorded => row'[c] = row[c],
             \A d \in Recorded : d \in Recorded',
             shared' = shared,
             c \in Passed => /\ quote'[c].cost = quote[c].cost
                             /\ quote'[c].dailyCap = quote[c].dailyCap
                             /\ quote'[c].weeklyCap = quote[c].weeklyCap
      PROVE  LedgerInv'
  <2>1. \A d \in Recorded : row'[d] = row[d]
    BY <1>3 DEF Recorded
  <2>2. \A d \in Passed : quote'[d].cost = quote[d].cost /\ Limits(d)' = Limits(d)
    BY <1>3 DEF Passed, Limits, GroupCap
  <2>3. now' >= now
    BY <1>1, <1>3
  <2> QED
    BY <1>1, <1>3, <2>1, <2>2, <2>3, KeptLedger
<1>4. ASSUME NEW c \in Call, NEW p \in Phase, Goto(c, p), p = "recorded" \/ phase[c] # "recorded"
      PROVE  \A d \in Recorded : d \in Recorded'
  BY <1>1, <1>4 DEF Goto, Recorded, TypeOK
<1>5. ASSUME NEW c \in Call, Command(c) \/ PlanWorkflow(c) \/ RunConfirmed(c) PROVE LedgerInv'
  <2>1. UNCHANGED <<shared, quote, row, before, ahead, now>>
    BY <1>5 DEF Command, PlanWorkflow, RunConfirmed
  <2>2. PICK p \in {"preflight", "over", "planning", "executing"} :
            /\ Goto(c, p)
            /\ \/ p \in {"preflight", "over"} /\ phase[c] = "idle" /\ c \notin Workflow
               \/ p = "planning" /\ phase[c] = "idle" /\ c \in Workflow
               \/ p = "executing" /\ phase[c] = "confirming"
    BY <1>5 DEF Command, PlanWorkflow, RunConfirmed
  <2>3. c \in Workflow => phase[c] # "confirming"
    BY <1>1 DEF PassedInv, PassedAt
  <2>4. quote' = [quote EXCEPT ![c] = quote[c]]
    BY <1>1, <2>1 DEF TypeOK
  <2>5. PassedInv' /\ Passed' = Passed
    BY <1>1, <2>2, <2>3, <2>4, MoveKept DEF Phase
  <2>6. \A d \in Recorded : d \in Recorded'
    BY <1>4, <2>2 DEF Phase
  <2> QED
    BY <1>3, <2>1, <2>5, <2>6
<1>6. ASSUME NEW c \in Call,
             \/ PreflightFails(c) \/ RefuseConfirmed(c) \/ Cancel(c) \/ Fail(c)
             \/ RefuseWorkflow(c) \/ ExpireWorkflow(c)
             \/ \E price \in Price : Deny(c, price)
      PROVE  LedgerInv'
  <2>1. End(c) /\ phase[c] \notin {"idle", "recorded"}
    BY <1>6
    DEF PreflightFails, RefuseConfirmed, Cancel, Fail, RefuseWorkflow, ExpireWorkflow, Deny
  <2> QED
    BY <1>1, <2>1, EndLedger
<1>7. ASSUME NEW c \in Call, Record(c) PROVE LedgerInv'
  <2>1. /\ phase[c] = "executing" /\ Goto(c, "recorded")
        /\ UNCHANGED <<shared, quote, before, ahead, now>>
        /\ \A d \in Call : d # c => row'[d] = row[d]
    BY <1>1, <1>7 DEF Record, TypeOK
  <2>2. c \notin Workflow
    BY <1>1, <2>1 DEF PassedInv, PassedAt
  <2>3. quote' = [quote EXCEPT ![c] = quote[c]]
    BY <1>1, <2>1 DEF TypeOK
  <2>4. PassedInv' /\ Passed' = Passed
    BY <1>1, <2>1, <2>2, <2>3, MoveKept DEF Phase
  <2>5. c \notin Recorded /\ \A d \in Recorded : d \in Recorded'
    BY <1>4, <2>1 DEF Recorded, Phase
  <2> QED
    BY <1>3, <2>1, <2>4, <2>5
<1>8. ASSUME NEW c \in Call, NEW price \in Price, AskFirst(c, price) \/ RunAtOnce(c, price)
      PROVE  LedgerInv'
  <2>1. CreateQuote(c, price) /\ \E p \in {"pending", "executing"} : Goto(c, p)
    BY <1>8 DEF AskFirst, RunAtOnce
  <2> QED
    BY <1>1, <2>1, CreateLedger
<1>9. ASSUME NEW c \in Call, NEW price \in Price, QuoteWorkflow(c, price) PROVE LedgerInv'
  <2> DEFINE q == [quote[c] EXCEPT !.cost = price, !.expires = now + QuoteTTL]
  <2>1. /\ phase[c] = "planning" /\ Goto(c, "pending") /\ quote' = [quote EXCEPT ![c] = q]
        /\ UNCHANGED <<shared, row, before, ahead, now>>
        /\ \A d \in Call : d # c => quote'[d] = quote[d]
    BY <1>1, <1>9 DEF QuoteWorkflow, TypeOK
  <2>2. q.outcome = quote[c].outcome
    BY <1>2 DEF Quote
  <2> HIDE DEF q
  <2>3. PassedInv' /\ Passed' = Passed
    BY <1>1, <2>1, <2>2, MoveKept DEF Phase
  <2>4. c \notin Passed /\ \A d \in Recorded : d \in Recorded'
    BY <1>1, <1>4, <2>1 DEF Passed, PassedInv, PassedAt, Phase
  <2> QED
    BY <1>3, <2>1, <2>3, <2>4
<1>10. ASSUME NEW c \in Call, ConfirmWorkflow(c) PROVE LedgerInv'
  <2> DEFINE q == [quote[c] EXCEPT !.presser = Maker[c]]
  <2>1. /\ phase[c] = "pending" /\ c \in Workflow /\ Goto(c, "recorded")
        /\ quote' = [quote EXCEPT ![c] = q]
        /\ UNCHANGED <<shared, before, ahead, now>>
        /\ \A d \in Call : d # c => quote'[d] = quote[d] /\ row'[d] = row[d]
    BY <1>1, <1>10 DEF ConfirmWorkflow, TypeOK
  <2>2. q.outcome = quote[c].outcome
    BY <1>2 DEF Quote
  <2> HIDE DEF q
  <2>3. PassedInv' /\ Passed' = Passed
    BY <1>1, <2>1, <2>2, MoveKept DEF Phase
  <2>4. c \notin Passed /\ c \notin Recorded /\ \A d \in Recorded : d \in Recorded'
    BY <1>1, <1>4, <2>1 DEF Passed, PassedInv, PassedAt, Phase, Recorded
  <2> QED
    BY <1>3, <2>1, <2>3, <2>4
<1>11. ASSUME NEW a \in Actor, NEW c \in Call, Confirm(a, c) PROVE LedgerInv'
  <2> DEFINE q == [quote[c] EXCEPT !.presser = a]
  <2>1. /\ phase[c] = "pending" /\ c \notin Workflow /\ Goto(c, "confirming")
        /\ quote' = [quote EXCEPT ![c] = q]
        /\ UNCHANGED <<shared, row, before, ahead, now>>
        /\ quote'[c] = q
        /\ \A d \in Call : d # c => quote'[d] = quote[d]
    BY <1>1, <1>11 DEF Confirm, TypeOK
  <2>2. /\ q.outcome = quote[c].outcome /\ q.cost = quote[c].cost
        /\ q.dailyCap = quote[c].dailyCap /\ q.weeklyCap = quote[c].weeklyCap
    BY <1>2 DEF Quote
  <2> HIDE DEF q
  <2>3. PassedInv' /\ Passed' = Passed
    BY <1>1, <2>1, <2>2, MoveKept DEF Phase
  <2>4. \A d \in Recorded : d \in Recorded'
    BY <1>4, <2>1 DEF Phase
  <2> QED
    BY <1>3, <2>1, <2>2, <2>3, <2>4
<1>12. CASE Freeze \/ Unfreeze \/ SetPolicy \/ Tick \/ UNCHANGED vars
  <2>1. UNCHANGED <<shared, phase, quote, row, before, ahead>> /\ now' >= now
    BY <1>1, <1>12 DEF Freeze, Unfreeze, SetPolicy, Tick, vars
  <2>2. PassedInv' /\ Passed' = Passed /\ Recorded' = Recorded
    BY <1>1, <2>1 DEF PassedInv, PassedAt, Busy, Passed, Recorded
  <2>3. \A c \in Passed : Limits(c)' = Limits(c)
    BY <2>1 DEF Limits, GroupCap
  <2> QED
    BY <1>1, <2>1, <2>2, <2>3, KeptLedger
<1> QED
  BY <1>5, <1>6, <1>7, <1>8, <1>9, <1>10, <1>11, <1>12 DEF Next

\* Of the calls in the window the last to pass saw the ledger without those ahead of
\* it; their sum and its own charge make the difference.
LEMMA OvershootBound ==
    ASSUME LedgerInv, NEW period \in {Day, Week}
    PROVE  LET calls == {c \in Recorded \ Workflow : row[c].at + period >= now}
               last == LastPassed(calls)
           IN  calls # {} =>
                   /\ last \in Passed /\ last \in Call
                   /\ Cents(calls)
                          <= Total(row, Within(last, period)) + row[last].cents
                             + Cents(calls \intersect ahead[last])
                   /\ Cents(calls) \in Nat /\ Cents(calls \intersect ahead[last]) \in Nat
                   /\ Total(row, Within(last, period)) \in Nat
<1> DEFINE calls == {c \in Recorded \ Workflow : row[c].at + period >= now}
           last == LastPassed(calls)
<1> SUFFICES ASSUME calls # {}
             PROVE  /\ last \in Passed /\ last \in Call
                    /\ Cents(calls)
                           <= Total(row, Within(last, period)) + row[last].cents
                              + Cents(calls \intersect ahead[last])
                    /\ Cents(calls) \in Nat /\ Cents(calls \intersect ahead[last]) \in Nat
                    /\ Total(row, Within(last, period)) \in Nat
  OBVIOUS
<1>1. calls \in SUBSET Recorded /\ Recorded \in SUBSET Call /\ calls \in SUBSET Passed
  BY DEF Recorded, Passed, LedgerInv, PassedInv, PassedAt, Asked
<1>2. \E c \in calls : calls \ {c} \subseteq before[c]
  <2> HIDE DEF calls
  <2> QED
    BY <1>1 DEF LedgerInv, OrderInv
<1>3. last \in calls /\ calls \ {last} \subseteq before[last]
  <2> HIDE DEF calls
  <2> QED
    BY <1>2 DEF LastPassed
<1>4. ASSUME NEW d \in calls, d # last, d \notin ahead[last] PROVE d \in Within(last, period)
  BY <1>3, <1>4 DEF Within, Settled
<1>5. Within(last, period) \in SUBSET Recorded
  <2>1. last \in Call
    BY <1>1, <1>3
  <2> HIDE DEF calls, last
  <2> QED
    BY <2>1 DEF LedgerInv, OrderInv, Within
<1> HIDE DEF calls, last
<1> DEFINE others == calls \ {last}
           late == others \intersect ahead[last]
           W == Within(last, period)
<1>6. /\ row \in Amounts(Call) /\ IsFiniteSet(calls) /\ IsFiniteSet(others) /\ IsFiniteSet(W)
      /\ IsFiniteSet(calls \intersect ahead[last])
      /\ row[last].cents \in Nat
  BY <1>1, <1>3, <1>5, RecordedFinite, LedgerTypes, FS_Subset DEF LedgerInv
<1>7. Total(row, calls) = row[last].cents + Total(row, others)
  BY <1>1, <1>3, <1>6, TotalTake
<1>8. Total(row, others) = Total(row, late) + Total(row, others \ late)
  BY <1>1, <1>6, TotalUnion
<1>9. Total(row, others \ late) <= Total(row, W)
  <2>1. others \ late \in SUBSET W
    BY <1>4
  <2> QED
    BY <1>1, <1>5, <1>6, <2>1, TotalMonotonic
<1>10. Total(row, late) <= Total(row, calls \intersect ahead[last])
  BY <1>1, <1>6, TotalMonotonic
<1>11. /\ Total(row, calls) \in Nat /\ Total(row, late) \in Nat
       /\ Total(row, others \ late) \in Nat /\ Total(row, W) \in Nat
       /\ Total(row, calls \intersect ahead[last]) \in Nat /\ Total(row, others) \in Nat
  <2>1. IsFiniteSet(late) /\ IsFiniteSet(others \ late)
    BY <1>6, FS_Subset
  <2> QED
    BY <1>1, <1>5, <1>6, <2>1, TotalType
<1>12. /\ Cents(calls) = Total(row, calls)
       /\ Cents(calls \intersect ahead[last]) = Total(row, calls \intersect ahead[last])
  BY CentsTotal
<1>13. last \in Passed /\ last \in Call
  BY <1>1, <1>3
<1> HIDE DEF others, late, W
<1>14. Total(row, calls) <= Total(row, W) + row[last].cents + Total(row, calls \intersect ahead[last])
  BY <1>6, <1>7, <1>8, <1>9, <1>10, <1>11
<1> QED
  BY <1>11, <1>12, <1>13, <1>14 DEF W

LEMMA OvershootLimit ==
    ASSUME LedgerInv, NEW period \in {Day, Week}
    PROVE  LET calls == {c \in Recorded \ Workflow : row[c].at + period >= now}
               last == LastPassed(calls)
           IN  \A limit \in Limits(last) :
                   calls # {} /\ limit.period = period /\ limit.cap # Off =>
                       Cents(calls) + quote[last].cost
                           <= limit.cap + row[last].cents + Cents(calls \intersect ahead[last])
<1> DEFINE calls == {c \in Recorded \ Workflow : row[c].at + period >= now}
           last == LastPassed(calls)
<1> SUFFICES ASSUME NEW limit \in Limits(last), calls # {}, limit.period = period, limit.cap # Off
             PROVE  Cents(calls) + quote[last].cost
                        <= limit.cap + row[last].cents + Cents(calls \intersect ahead[last])
  OBVIOUS
<1>1. /\ last \in Passed /\ last \in Call
      /\ Cents(calls) <= Total(row, Within(last, period)) + row[last].cents
                             + Cents(calls \intersect ahead[last])
      /\ Cents(calls) \in Nat /\ Cents(calls \intersect ahead[last]) \in Nat
      /\ Total(row, Within(last, period)) \in Nat
  BY OvershootBound
<1> HIDE DEF calls, last
<1>2. Total(row, Within(last, period)) + quote[last].cost <= limit.cap
  BY <1>1 DEF LedgerInv, CapInv, Fits
<1>3. quote[last].cost \in Nat /\ row[last].cents \in Nat /\ limit.cap \in Nat
  BY <1>1, LedgerTypes DEF LedgerInv
<1> QED
  BY <1>1, <1>2, <1>3

LEMMA CapsCorrect == Spec => []LedgerInv
  BY CapsInit, CapsStep, PTL DEF Spec

\* However calls overlap, are confirmed late, end in any order or are edited around, and
\* whatever the prices and caps, a cap is exceeded by no more than the overlapping calls
\* and the CLI's surcharge.
THEOREM CapsHoldAlways == Spec => []CapsHoldButForOverlap
<1>1. ASSUME LedgerInv PROVE Overshoot(Day, LAMBDA c : quote[c].dailyCap)
  <2> DEFINE last == LastPassed({c \in Recorded \ Workflow : row[c].at + Day >= now})
  <2>1. [period |-> Day, cap |-> quote[last].dailyCap] \in Limits(last)
    BY DEF Limits
  <2> QED
    BY <1>1, <2>1, OvershootLimit DEF Overshoot
<1>2. ASSUME LedgerInv PROVE Overshoot(Week, LAMBDA c : quote[c].weeklyCap)
  <2> DEFINE last == LastPassed({c \in Recorded \ Workflow : row[c].at + Week >= now})
  <2>1. [period |-> Week, cap |-> quote[last].weeklyCap] \in Limits(last)
    BY DEF Limits
  <2> QED
    BY <1>2, <2>1, OvershootLimit DEF Overshoot
<1>3. LedgerInv => CapsHoldButForOverlap
  BY <1>1, <1>2 DEF CapsHoldButForOverlap
<1> QED
  BY <1>3, CapsCorrect, PTL

\* The same of the cap a day that every group has, GROUP_DAILY_CAP_USDC.
GroupCapHoldsButForOverlap == Overshoot(Day, LAMBDA c : GroupCap)

\* A group's daily cap, which no setting of the group can lift, is exceeded by no more
\* than the overlapping calls and the CLI's surcharge either.
THEOREM GroupCapHolds == Spec => []GroupCapHoldsButForOverlap
<1>1. ASSUME LedgerInv PROVE Overshoot(Day, LAMBDA c : GroupCap)
  <2> DEFINE last == LastPassed({c \in Recorded \ Workflow : row[c].at + Day >= now})
  <2>1. [period |-> Day, cap |-> GroupCap] \in Limits(last)
    BY DEF Limits
  <2> QED
    BY <1>1, <2>1, OvershootLimit DEF Overshoot
<1>2. LedgerInv => GroupCapHoldsButForOverlap
  BY <1>1 DEF GroupCapHoldsButForOverlap
<1> QED
  BY <1>2, CapsCorrect, PTL

=============================================================================
