----------------------------- MODULE IntakeProofs -----------------------------
(***************************************************************************)
(* For any users, commands, previews, limits and windows: a preview starts *)
(* one command, is paid for only if confirmed, and paid calls keep to      *)
(* their rate.                                                             *)
(***************************************************************************)
EXTENDS Intake, FiniteSetTheorems, TLAPS

TypeInv == TypeOK /\ IsFiniteSet(events)

\* A preview that has started a command is consumed.
LinkInv ==
    /\ \A p \in Payload : Redeemed(p) # {} => payload[p].status = "consumed"
    /\ OneCommandPerPreview

AskInv ==
    /\ \A c \in Command : phase[c] = "confirming" => c \in pressed
    /\ InlineAlwaysAsks

PaidEvent(c) ==
    [name |-> "paid_execution", about |-> c, user |-> Maker[c], at |-> begun[c]]

\* The event of a paid call is not pruned while a window may reach it.
EventInv ==
    \A c \in Command : phase[c] = "paid" /\ begun[c] + Hour >= now => PaidEvent(c) \in events

RateInv == EventInv /\ PaidRateBounded

-----------------------------------------------------------------------------
(* Types. *)

LEMMA RecordType ==
    ASSUME TypeInv, NEW e, e \in Events, Record(e)
    PROVE  events' \subseteq Events /\ IsFiniteSet(events')
<1>1. Recent \subseteq events /\ IsFiniteSet(events)
  BY DEF Recent, TypeInv
<1>2. IsFiniteSet(Recent) /\ Recent \subseteq Events
  BY <1>1, FS_Subset DEF TypeInv, TypeOK
<1> QED
  BY <1>2, FS_AddElement DEF Record

LEMMA RecentType ==
    ASSUME TypeInv
    PROVE  Recent \subseteq Events /\ IsFiniteSet(Recent)
<1>1. Recent \subseteq events
  BY DEF Recent
<1> QED
  BY <1>1, FS_Subset DEF TypeInv, TypeOK

LEMMA UpdateType ==
    ASSUME TypeInv, NEW u \in User, NEW a, Update(a, u),
           \/ a \in {"ask", "press"} \X Command
           \/ a \in {"preview"} \X Payload
           \/ a \in {"other"} \X Other
    PROVE  events' \subseteq Events /\ IsFiniteSet(events')
<1>1. EventOf("update", a, u) \in Events
  BY DEF EventOf, Events, TypeInv, TypeOK
<1> QED
  BY <1>1, RecordType DEF Update

LEMMA BeginType ==
    ASSUME TypeInv, NEW c \in Command, Begin(c)
    PROVE  /\ events' \subseteq Events /\ IsFiniteSet(events')
           /\ begun' \in [Command -> Nat]
           /\ \E p \in {"paid", "stranded"} : Goto(c, p)
<1>1. EventOf("paid_execution", c, Maker[c]) \in Events
  BY IntakeAssumption DEF EventOf, Events, TypeInv, TypeOK
<1>2. CASE Admits(Maker[c], PaidPerMinute, 12 * PaidPerMinute)
  <2>1. /\ Record(EventOf("paid_execution", c, Maker[c])) /\ Goto(c, "paid")
        /\ begun' = [begun EXCEPT ![c] = now]
    BY <1>2 DEF Begin
  <2> QED
    BY <1>1, <2>1, RecordType DEF TypeInv, TypeOK
<1>3. CASE ~Admits(Maker[c], PaidPerMinute, 12 * PaidPerMinute)
  <2>1. events' = Recent /\ begun' = begun /\ Goto(c, "stranded")
    BY <1>3 DEF Begin
  <2> QED
    BY <2>1, RecentType DEF TypeInv, TypeOK
<1> QED
  BY <1>2, <1>3

\* A command that is not in a session goes on, and sessions change only by
\* being reset.
LEMMA SessionKept ==
    ASSUME TypeInv, NEW c \in Command, NEW p, Goto(c, p), phase[c] # "pending",
           \/ session' = session
           \/ session' = [session EXCEPT ![Maker[c]] = NoCommand]
    PROVE  SessionOK' /\ session' \in [User -> Command \union {NoCommand}]
BY IntakeAssumption DEF TypeInv, TypeOK, SessionOK, Goto

\* A command that is in its session leaves it.
LEMMA SessionLeft ==
    ASSUME TypeInv, NEW c \in Command, NEW p, Goto(c, p),
           session' = [session EXCEPT ![Maker[c]] = NoCommand]
    PROVE  SessionOK' /\ session' \in [User -> Command \union {NoCommand}]
BY IntakeAssumption, ZenonT(40) DEF TypeInv, TypeOK, SessionOK, Goto

LEMMA GotoType ==
    ASSUME TypeInv, NEW c \in Command, NEW p \in Phase, Goto(c, p)
    PROVE  phase' \in [Command -> Phase]
BY DEF TypeInv, TypeOK, Goto

LEMMA TypeStep == TypeInv /\ [Next]_vars => TypeInv'
<1> SUFFICES ASSUME TypeInv, [Next]_vars PROVE TypeInv'
  OBVIOUS
<1>1. ASSUME NEW u \in User, RefuseUpdate(u) PROVE TypeInv'
  BY <1>1, RecentType DEF RefuseUpdate, TypeInv, TypeOK, SessionOK
<1>2. ASSUME NEW u \in User, NEW x \in Other, OtherUpdate(u, x) PROVE TypeInv'
  <2>1. events' \subseteq Events /\ IsFiniteSet(events')
    BY <1>2, UpdateType DEF OtherUpdate
  <2> QED
    BY <1>2, <2>1 DEF OtherUpdate, TypeInv, TypeOK, SessionOK
<1>3. ASSUME NEW u \in User, NEW p \in Payload, Preview(u, p) PROVE TypeInv'
  <2>1. events' \subseteq Events /\ IsFiniteSet(events')
    BY <1>3, UpdateType DEF Preview
  <2>2. payload' \in [Payload -> PayloadRow]
    BY <1>3, IntakeAssumption DEF Preview, TypeInv, TypeOK, PayloadRow
  <2> QED
    BY <1>3, <2>1, <2>2 DEF Preview, TypeInv, TypeOK, SessionOK
<1>4. ASSUME NEW c \in Command, Start(c) PROVE TypeInv'
  <2>1. events' \subseteq Events /\ IsFiniteSet(events')
    BY <1>4, UpdateType, IntakeAssumption DEF Start
  <2>2. PICK p \in {"found", "void"} : Goto(c, p)
    BY <1>4 DEF Start
  <2>3. phase' \in [Command -> Phase]
    BY <2>2, GotoType DEF Phase
  <2>4. SessionOK' /\ session' \in [User -> Command \union {NoCommand}]
    BY <1>4, <2>2, SessionKept DEF Start
  <2> QED
    BY <1>4, <2>1, <2>3, <2>4 DEF Start, TypeInv, TypeOK
<1>5. ASSUME NEW c \in Command, Consume(c) PROVE TypeInv'
  <2>1. PICK p \in {"preflight", "void"} : Goto(c, p)
    BY <1>5 DEF Consume
  <2>2. phase' \in [Command -> Phase]
    BY <2>1, GotoType DEF Phase
  <2>3. payload' \in [Payload -> PayloadRow]
    BY <1>5 DEF Consume, TypeInv, TypeOK, PayloadRow
  <2>4. SessionOK' /\ session' \in [User -> Command \union {NoCommand}]
    BY <1>5, <2>1, SessionKept DEF Consume
  <2> QED
    BY <1>5, <2>2, <2>3, <2>4 DEF Consume, TypeInv, TypeOK
<1>6. ASSUME NEW c \in Command, Ask(c) PROVE TypeInv'
  <2>1. events' \subseteq Events /\ IsFiniteSet(events')
    BY <1>6, UpdateType, IntakeAssumption DEF Ask
  <2>2. phase' \in [Command -> Phase]
    BY <1>6, GotoType DEF Ask, Phase
  <2>3. SessionOK' /\ session' \in [User -> Command \union {NoCommand}]
    BY <1>6, SessionKept DEF Ask
  <2> QED
    BY <1>6, <2>1, <2>2, <2>3 DEF Ask, TypeInv, TypeOK
<1>7. ASSUME NEW c \in Command, Preflight(c) PROVE TypeInv'
  <2>1. EventOf("quote_preflight", c, Maker[c]) \in Events
    BY IntakeAssumption DEF EventOf, Events, TypeInv, TypeOK
  <2>2. events' \subseteq Events /\ IsFiniteSet(events')
    BY <1>7, <2>1, RecordType, RecentType DEF Preflight
  <2>3. PICK p \in {"quoting", "over"} : Goto(c, p)
    BY <1>7 DEF Preflight
  <2>4. phase' \in [Command -> Phase]
    BY <2>3, GotoType DEF Phase
  <2>5. SessionOK' /\ session' \in [User -> Command \union {NoCommand}]
    BY <1>7, <2>3, SessionKept DEF Preflight
  <2> QED
    BY <1>7, <2>2, <2>4, <2>5 DEF Preflight, TypeInv, TypeOK
<1>8. ASSUME NEW c \in Command, Fail(c) PROVE TypeInv'
  <2>1. phase' \in [Command -> Phase]
    BY <1>8, GotoType DEF Fail, Phase
  <2>2. SessionOK' /\ session' \in [User -> Command \union {NoCommand}]
    BY <1>8, SessionKept DEF Fail
  <2> QED
    BY <1>8, <2>1, <2>2 DEF Fail, TypeInv, TypeOK
<1>9. ASSUME NEW c \in Command, AskFirst(c) PROVE TypeInv'
  <2>1. phase' \in [Command -> Phase]
    BY <1>9, GotoType DEF AskFirst, Phase
  <2>2. SessionOK' /\ session' \in [User -> Command \union {NoCommand}]
    BY <1>9, IntakeAssumption, ZenonT(40) DEF AskFirst, TypeInv, TypeOK, SessionOK, Goto
  <2>3. expires' \in [Command -> Nat]
    BY <1>9, IntakeAssumption DEF AskFirst, TypeInv, TypeOK
  <2> QED
    BY <1>9, <2>1, <2>2, <2>3 DEF AskFirst, TypeInv, TypeOK
<1>10. ASSUME NEW c \in Command, RunAtOnce(c) PROVE TypeInv'
  <2>1. /\ events' \subseteq Events /\ IsFiniteSet(events')
        /\ begun' \in [Command -> Nat]
    BY <1>10, BeginType DEF RunAtOnce
  <2>2. PICK p \in {"paid", "stranded"} : Goto(c, p)
    BY <1>10, BeginType DEF RunAtOnce
  <2>3. phase' \in [Command -> Phase]
    BY <2>2, GotoType DEF Phase
  <2>4. SessionOK' /\ session' \in [User -> Command \union {NoCommand}]
    BY <1>10, <2>2, SessionKept DEF RunAtOnce
  <2> QED
    BY <1>10, <2>1, <2>3, <2>4 DEF RunAtOnce, TypeInv, TypeOK
<1>11. ASSUME NEW c \in Command, Press(c) PROVE TypeInv'
  <2>1. events' \subseteq Events /\ IsFiniteSet(events')
    BY <1>11, UpdateType, IntakeAssumption DEF Press
  <2>2. phase' \in [Command -> Phase]
    BY <1>11, GotoType DEF Press, Phase
  <2>3. SessionOK' /\ session' \in [User -> Command \union {NoCommand}]
    BY <1>11, SessionLeft DEF Press
  <2> QED
    BY <1>11, <2>1, <2>2, <2>3 DEF Press, TypeInv, TypeOK
<1>12. ASSUME NEW c \in Command, Cancel(c) PROVE TypeInv'
  <2>1. events' \subseteq Events /\ IsFiniteSet(events')
    BY <1>12, UpdateType, IntakeAssumption DEF Cancel
  <2>2. phase' \in [Command -> Phase]
    BY <1>12, GotoType DEF Cancel, Phase
  <2>3. SessionOK' /\ session' \in [User -> Command \union {NoCommand}]
    BY <1>12, SessionLeft DEF Cancel
  <2> QED
    BY <1>12, <2>1, <2>2, <2>3 DEF Cancel, TypeInv, TypeOK
<1>13. ASSUME NEW c \in Command, RunConfirmed(c) PROVE TypeInv'
  <2>1. /\ events' \subseteq Events /\ IsFiniteSet(events')
        /\ begun' \in [Command -> Nat]
    BY <1>13, BeginType DEF RunConfirmed, TypeInv, TypeOK
  <2>2. PICK p \in {"paid", "stranded", "over"} : Goto(c, p)
    BY <1>13, BeginType DEF RunConfirmed
  <2>3. phase' \in [Command -> Phase]
    BY <2>2, GotoType DEF Phase
  <2>4. SessionOK' /\ session' \in [User -> Command \union {NoCommand}]
    BY <1>13, <2>2, SessionKept DEF RunConfirmed
  <2> QED
    BY <1>13, <2>1, <2>3, <2>4 DEF RunConfirmed, TypeInv, TypeOK
<1>14. CASE Tick
  BY <1>14 DEF Tick, TypeInv, TypeOK, SessionOK
<1>15. CASE UNCHANGED vars
  BY <1>15 DEF vars, TypeInv, TypeOK, SessionOK
<1> QED
  BY <1>1, <1>2, <1>3, <1>4, <1>5, <1>6, <1>7, <1>8, <1>9, <1>10, <1>11, <1>12, <1>13,
     <1>14, <1>15 DEF Next

LEMMA InitType == Init => TypeInv
BY FS_EmptySet, IntakeAssumption
   DEF Init, TypeInv, TypeOK, SessionOK, PayloadRow, Phase

LEMMA Typing == Spec => []TypeInv
BY InitType, TypeStep, PTL DEF Spec

\* Every state is one the tables and the bot can be in.
THEOREM TypeCorrect == Spec => []TypeOK
BY Typing, PTL DEF TypeInv

-----------------------------------------------------------------------------
(* What a step does to the phases. *)

Past == Phase \ {"idle", "found", "void"}

\* A step of the link, the quote or the confirmation; Begin is apart.
LEMMA PhaseSteps ==
    ASSUME TypeInv, [Next]_vars
    PROVE  \/ UNCHANGED <<phase, pressed>> /\ \A p \in Payload :
                 payload[p].status = "consumed" => payload'[p].status = "consumed"
           \/ \E c \in Command : Consume(c)
           \/ \E c \in Command, q \in Phase \ {"confirming", "paid"} :
                 /\ Goto(c, q)
                 /\ UNCHANGED <<payload, pressed>>
                 /\ Link[c] \in Payload => (phase[c] \in Past <=> q \in Past)
           \/ \E c \in Command :
                 /\ Goto(c, "confirming") /\ phase[c] = "pending"
                 /\ pressed' = pressed \union {c} /\ payload' = payload
           \/ \E c \in Command :
                 /\ Goto(c, "paid") /\ phase[c] \in {"quoting", "confirming"}
                 /\ phase[c] = "quoting" => ~MustAsk(c)
                 /\ UNCHANGED <<payload, pressed>>
<1> USE DEF Past, Phase
<1>1. ASSUME NEW u \in User, NEW x \in Other, OtherUpdate(u, x)
      PROVE  UNCHANGED <<phase, pressed, payload>>
  BY <1>1 DEF OtherUpdate
<1>2. ASSUME NEW u \in User, RefuseUpdate(u)
      PROVE  UNCHANGED <<phase, pressed, payload>>
  BY <1>2 DEF RefuseUpdate
<1>3. ASSUME NEW u \in User, NEW p \in Payload, Preview(u, p)
      PROVE  UNCHANGED <<phase, pressed>> /\ \A r \in Payload :
                 payload[r].status = "consumed" => payload'[r].status = "consumed"
  BY <1>3 DEF Preview, TypeInv, TypeOK
<1>4. ASSUME NEW c \in Command, Start(c)
      PROVE  \E q \in {"found", "void"} : Goto(c, q) /\ phase[c] = "idle" /\ UNCHANGED <<payload, pressed>>
  BY <1>4 DEF Start
<1>5. ASSUME NEW c \in Command, Ask(c)
      PROVE  Goto(c, "preflight") /\ Link[c] \notin Payload /\ UNCHANGED <<payload, pressed>>
  BY <1>5, IntakeAssumption DEF Ask
<1>6. ASSUME NEW c \in Command, Preflight(c) \/ Fail(c) \/ AskFirst(c)
      PROVE  \E q \in {"quoting", "over", "pending"} :
                Goto(c, q) /\ phase[c] \in Past /\ UNCHANGED <<payload, pressed>>
  BY <1>6 DEF Preflight, Fail, AskFirst
<1>7. ASSUME NEW c \in Command, Press(c)
      PROVE  /\ Goto(c, "confirming") /\ phase[c] = "pending"
             /\ pressed' = pressed \union {c} /\ payload' = payload
  BY <1>7, IntakeAssumption DEF Press, TypeInv, TypeOK, SessionOK
<1>8. ASSUME NEW c \in Command, Cancel(c)
      PROVE  Goto(c, "over") /\ phase[c] = "pending" /\ UNCHANGED <<payload, pressed>>
  BY <1>8, IntakeAssumption DEF Cancel, TypeInv, TypeOK, SessionOK
<1>9. ASSUME NEW c \in Command, RunAtOnce(c) \/ RunConfirmed(c)
      PROVE  /\ \E q \in {"paid", "stranded", "over"} : Goto(c, q)
             /\ phase[c] \in {"quoting", "confirming"}
             /\ phase[c] = "quoting" => ~MustAsk(c)
             /\ UNCHANGED <<payload, pressed>>
  BY <1>9, BeginType DEF RunAtOnce, RunConfirmed
<1>10. CASE Tick \/ UNCHANGED vars
  BY <1>10 DEF Tick, vars
<1> QED
  BY <1>1, <1>2, <1>3, <1>4, <1>5, <1>6, <1>7, <1>8, <1>9, <1>10 DEF Next

-----------------------------------------------------------------------------
(* One command per preview. *)

LEMMA LinkStep == TypeInv /\ LinkInv /\ [Next]_vars => LinkInv'
<1> SUFFICES ASSUME TypeInv, LinkInv, [Next]_vars PROVE LinkInv'
  OBVIOUS
<1> USE DEF LinkInv, OneCommandPerPreview
<1>1. ASSUME \A p \in Payload : Redeemed(p)' = Redeemed(p),
             \A p \in Payload : payload[p].status = "consumed" => payload'[p].status = "consumed"
      PROVE  LinkInv'
  BY <1>1
<1>2. ASSUME NEW c \in Command, Consume(c) PROVE LinkInv'
  <2>1. CASE ~MayConsume(Link[c])
    <3>1. Goto(c, "void") /\ payload' = payload /\ phase[c] = "found"
      BY <1>2, <2>1 DEF Consume
    <3>2. \A p \in Payload : Redeemed(p)' = Redeemed(p)
      BY <3>1 DEF Redeemed, Goto, TypeInv, TypeOK
    <3> QED
      BY <3>1, <3>2, <1>1
  <2>2. CASE MayConsume(Link[c])
    <3> DEFINE q == Link[c]
    <3>1. /\ payload' = [payload EXCEPT ![q].status = "consumed"]
          /\ Goto(c, "preflight") /\ payload[q].status = "open"
      BY <1>2, <2>2 DEF Consume, MayConsume
    <3>2. \A p \in Payload : /\ p # q => Redeemed(p)' = Redeemed(p) /\ payload'[p] = payload[p]
                             /\ p = q => Redeemed(p) = {} /\ payload'[p].status = "consumed"
      BY <3>1 DEF Redeemed, Goto, TypeInv, TypeOK
    <3>3. Redeemed(q)' \subseteq Redeemed(q) \union {c}
      BY <3>1 DEF Redeemed, Goto, TypeInv, TypeOK
    <3> QED
      BY <3>2, <3>3
  <2> QED
    BY <2>1, <2>2
<1>3. ASSUME NEW c \in Command, NEW q \in Phase, Goto(c, q), payload' = payload,
             Link[c] \in Payload => (phase[c] \in Past <=> q \in Past)
      PROVE  LinkInv'
  <2>1. \A p \in Payload : Redeemed(p)' = Redeemed(p)
    BY <1>3 DEF Redeemed, Goto, Past, TypeInv, TypeOK
  <2> QED
    BY <1>1, <1>3, <2>1
<1>4. ASSUME UNCHANGED phase,
             \A p \in Payload : payload[p].status = "consumed" => payload'[p].status = "consumed"
      PROVE  LinkInv'
  BY <1>1, <1>4 DEF Redeemed
<1> QED
  BY <1>2, <1>3, <1>4, PhaseSteps DEF Past, Phase

\* A preview starts one command at most, for any number of messages with its link.
THEOREM OneCommandPerPreviewAlways == Spec => []OneCommandPerPreview
<1>1. Init => LinkInv
  BY DEF Init, LinkInv, OneCommandPerPreview, Redeemed
<1> QED
  BY <1>1, LinkStep, Typing, PTL DEF Spec, LinkInv

-----------------------------------------------------------------------------
(* Consent. *)

LEMMA AskStep == TypeInv /\ AskInv /\ [Next]_vars => AskInv'
<1> SUFFICES ASSUME TypeInv, AskInv, [Next]_vars PROVE AskInv'
  OBVIOUS
<1> USE DEF AskInv, InlineAlwaysAsks, Goto, TypeInv, TypeOK
<1>1. ASSUME UNCHANGED <<phase, pressed>> PROVE AskInv'
  BY <1>1
<1>2. ASSUME NEW c \in Command, Consume(c) PROVE AskInv'
  BY <1>2 DEF Consume
<1>3. ASSUME NEW c \in Command, NEW q \in Phase \ {"confirming", "paid"}, Goto(c, q), pressed' = pressed
      PROVE  AskInv'
  BY <1>3
<1>4. ASSUME NEW c \in Command, Goto(c, "confirming"), pressed' = pressed \union {c}
      PROVE  AskInv'
  BY <1>4
<1>5. ASSUME NEW c \in Command, Goto(c, "paid"), phase[c] \in {"quoting", "confirming"},
             phase[c] = "quoting" => ~MustAsk(c), pressed' = pressed
      PROVE  AskInv'
  BY <1>5 DEF MustAsk
<1> QED
  BY <1>1, <1>2, <1>3, <1>4, <1>5, PhaseSteps

\* A previewed call is never paid for without a confirmation.
THEOREM InlineAlwaysAsksAlways == Spec => []InlineAlwaysAsks
<1>1. Init => AskInv
  BY DEF Init, AskInv, InlineAlwaysAsks
<1> QED
  BY <1>1, AskStep, Typing, PTL DEF Spec, AskInv

-----------------------------------------------------------------------------
(* The rate of paid calls. *)

\* The paid calls in a window have their events in it.
LEMMA PaidAreEvents ==
    ASSUME TypeInv, EventInv, NEW u \in User, NEW w \in Nat, w <= Hour
    PROVE  /\ IsFiniteSet(PaidSince(u, w)) /\ IsFiniteSet(Since(u, w))
           /\ Cardinality(PaidSince(u, w)) \in Nat /\ Cardinality(Since(u, w)) \in Nat
           /\ Cardinality(PaidSince(u, w)) <= Cardinality(Since(u, w))
<1> DEFINE P == PaidSince(u, w)
           S == Since(u, w)
           f == [c \in P |-> PaidEvent(c)]
<1>1. P \subseteq Command /\ S \subseteq events
  BY DEF PaidSince, Since
<1>2. IsFiniteSet(P) /\ IsFiniteSet(S) /\ Cardinality(P) \in Nat /\ Cardinality(S) \in Nat
  BY <1>1, FS_Subset, FS_CardinalityType, IntakeAssumption DEF TypeInv
<1>3. ASSUME NEW c \in P PROVE PaidEvent(c) \in S
  <2>1. /\ c \in Command /\ phase[c] = "paid" /\ Maker[c] = u
        /\ begun[c] \in Nat /\ now \in Nat /\ begun[c] + w >= now
    BY DEF PaidSince, TypeInv, TypeOK
  <2>2. PaidEvent(c) \in events
    BY <2>1, IntakeAssumption DEF EventInv
  <2> QED
    BY <2>1, <2>2 DEF Since, PaidEvent
<1>4. f \in [P -> S]
  BY <1>3
<1>5. \A c, d \in P : c # d => f[c] # f[d]
  BY DEF PaidEvent
<1>6. ~ (Cardinality(S) < Cardinality(P))
  <2> HIDE DEF f
  <2> QED
    BY <1>2, <1>4, <1>5, FS_PigeonHole
<1> QED
  BY <1>2, <1>6

\* A step but Begin leaves the paid calls alone and prunes no event that a window
\* may reach.
LEMMA EventSteps ==
    ASSUME TypeInv, [Next]_vars
    PROVE  \/ /\ begun' = begun
              /\ now' \in {now, now + 1}
              /\ Recent \subseteq events' /\ (now' # now => events' = events)
              /\ \A c \in Command : phase'[c] = "paid" <=> phase[c] = "paid"
           \/ \E c \in Command :
                 /\ phase[c] # "paid" /\ Goto(c, "paid")
                 /\ Admits(Maker[c], PaidPerMinute, 12 * PaidPerMinute)
                 /\ Record(EventOf("paid_execution", c, Maker[c]))
                 /\ begun' = [begun EXCEPT ![c] = now] /\ now' = now
<1> DEFINE Quiet == /\ begun' = begun
                    /\ now' \in {now, now + 1}
                    /\ Recent \subseteq events' /\ (now' # now => events' = events)
                    /\ \A c \in Command : phase'[c] = "paid" <=> phase[c] = "paid"
<1>0. Recent \subseteq events
  BY DEF Recent
<1>g. ASSUME NEW c \in Command, NEW q \in Phase \ {"paid"}, Goto(c, q), phase[c] # "paid"
      PROVE  \A d \in Command : phase'[d] = "paid" <=> phase[d] = "paid"
  BY <1>g DEF Goto, TypeInv, TypeOK
<1>1. ASSUME NEW u \in User, RefuseUpdate(u) PROVE Quiet
  BY <1>1 DEF RefuseUpdate
<1>2. ASSUME NEW u \in User, NEW x \in Other, OtherUpdate(u, x) PROVE Quiet
  BY <1>2 DEF OtherUpdate, Update, Record
<1>3. ASSUME NEW u \in User, NEW p \in Payload, Preview(u, p) PROVE Quiet
  BY <1>3 DEF Preview, Update, Record
<1>4. ASSUME NEW c \in Command, Start(c) PROVE Quiet
  <2>1. phase[c] = "idle" /\ \E q \in {"found", "void"} : Goto(c, q)
    BY <1>4 DEF Start
  <2> QED
    BY <1>4, <2>1, <1>g DEF Start, Update, Record, Phase
<1>5. ASSUME NEW c \in Command, Consume(c) PROVE Quiet
  <2>1. phase[c] = "found" /\ \E q \in {"preflight", "void"} : Goto(c, q)
    BY <1>5 DEF Consume
  <2> QED
    BY <1>5, <2>1, <1>0, <1>g DEF Consume, Phase
<1>6. ASSUME NEW c \in Command, Ask(c) PROVE Quiet
  BY <1>6, <1>g DEF Ask, Update, Record, Phase
<1>7. ASSUME NEW c \in Command, Preflight(c) PROVE Quiet
  <2>1. phase[c] = "preflight" /\ \E q \in {"quoting", "over"} : Goto(c, q)
    BY <1>7 DEF Preflight
  <2> QED
    BY <1>7, <2>1, <1>g DEF Preflight, Record, Phase
<1>8. ASSUME NEW c \in Command, Fail(c) \/ AskFirst(c) PROVE Quiet
  <2>1. phase[c] # "paid" /\ \E q \in {"pending", "over"} : Goto(c, q)
    BY <1>8 DEF Fail, AskFirst
  <2> QED
    BY <1>8, <2>1, <1>0, <1>g DEF Fail, AskFirst, Phase
<1>9. ASSUME NEW c \in Command, Press(c) \/ Cancel(c) PROVE Quiet
  <2>1. phase[c] = "pending"
    BY <1>9, IntakeAssumption DEF Press, Cancel, TypeInv, TypeOK, SessionOK
  <2>2. \E q \in {"confirming", "over"} : Goto(c, q)
    BY <1>9 DEF Press, Cancel
  <2> QED
    BY <1>9, <2>1, <2>2, <1>g DEF Press, Cancel, Update, Record, Phase
<1>10. ASSUME NEW c \in Command, Begin(c), now' = now, phase[c] \in {"quoting", "confirming"},
              ~Admits(Maker[c], PaidPerMinute, 12 * PaidPerMinute)
       PROVE  Quiet
  BY <1>10, <1>g DEF Begin, Phase
<1>11. ASSUME NEW c \in Command, RunConfirmed(c), ~Begin(c) PROVE Quiet
  BY <1>11, <1>0, <1>g DEF RunConfirmed, Phase
<1>12. ASSUME NEW c \in Command, RunAtOnce(c) \/ RunConfirmed(c)
       PROVE  now' = now /\ phase[c] \in {"quoting", "confirming"}
  BY <1>12 DEF RunAtOnce, RunConfirmed
<1>13. ASSUME NEW c \in Command, RunAtOnce(c) PROVE Begin(c)
  BY <1>13 DEF RunAtOnce
<1>14. ASSUME NEW c \in Command, Begin(c), Admits(Maker[c], PaidPerMinute, 12 * PaidPerMinute)
       PROVE  /\ Goto(c, "paid")
              /\ Record(EventOf("paid_execution", c, Maker[c]))
              /\ begun' = [begun EXCEPT ![c] = now]
  BY <1>14 DEF Begin
<1>15. ASSUME Tick \/ UNCHANGED vars PROVE Quiet
  BY <1>15, <1>0 DEF Tick, vars
<1> HIDE DEF Quiet
<1>r. ASSUME NEW c \in Command, RunAtOnce(c) \/ RunConfirmed(c)
      PROVE  Quiet \/ (Begin(c) /\ Admits(Maker[c], PaidPerMinute, 12 * PaidPerMinute))
  BY <1>r, <1>10, <1>11, <1>12, <1>13
<1>16. Quiet \/ \E c \in Command : (RunAtOnce(c) \/ RunConfirmed(c)) /\ Begin(c)
                     /\ Admits(Maker[c], PaidPerMinute, 12 * PaidPerMinute)
  <2>1. ASSUME NEW u \in User, RefuseUpdate(u) \/ (\E x \in Other : OtherUpdate(u, x))
                                 \/ (\E p \in Payload : Preview(u, p))
        PROVE  Quiet
    <3>1. CASE \E x \in Other : OtherUpdate(u, x)
      BY <1>2, <3>1
    <3>2. CASE \E p \in Payload : Preview(u, p)
      BY <1>3, <3>2
    <3> QED
      BY <2>1, <3>1, <3>2, <1>1
  <2>2. ASSUME NEW c \in Command, \/ Start(c) \/ Consume(c) \/ Ask(c) \/ Preflight(c)
                                   \/ Fail(c) \/ AskFirst(c) \/ Press(c) \/ Cancel(c)
        PROVE  Quiet
    BY <2>2, <1>4, <1>5, <1>6, <1>7, <1>8, <1>9
  <2> QED
    BY <2>1, <2>2, <1>r, <1>15 DEF Next
<1>17. ASSUME NEW c \in Command, phase[c] \in {"quoting", "confirming"} PROVE phase[c] # "paid"
  BY <1>17
<1> QED
  BY <1>12, <1>14, <1>16, <1>17 DEF Quiet

LEMMA RateStep == TypeInv /\ RateInv /\ [Next]_vars => RateInv'
<1> SUFFICES ASSUME TypeInv, RateInv, [Next]_vars PROVE RateInv'
  OBVIOUS
<1> USE DEF RateInv
<1>0. TypeInv'
  BY TypeStep
<1>t. /\ begun \in [Command -> Nat] /\ now \in Nat /\ phase \in [Command -> Phase]
      /\ begun' \in [Command -> Nat] /\ now' \in Nat
  BY <1>0 DEF TypeInv, TypeOK
<1>f. \A u \in User, w \in Nat :
         /\ IsFiniteSet(PaidSince(u, w)) /\ IsFiniteSet(PaidSince(u, w)')
         /\ Cardinality(PaidSince(u, w)) \in Nat /\ Cardinality(PaidSince(u, w)') \in Nat
  <2>1. \A u \in User, w \in Nat : PaidSince(u, w) \subseteq Command /\ PaidSince(u, w)' \subseteq Command
    BY DEF PaidSince
  <2>2. \A u \in User, w \in Nat : IsFiniteSet(PaidSince(u, w)) /\ IsFiniteSet(PaidSince(u, w)')
    BY <2>1, FS_Subset, IntakeAssumption
  <2> QED
    BY <2>2, FS_CardinalityType
<1>1. ASSUME begun' = begun, now' \in {now, now + 1}, Recent \subseteq events',
             now' # now => events' = events,
             \A c \in Command : phase'[c] = "paid" <=> phase[c] = "paid"
      PROVE  RateInv'
  <2>1. EventInv'
    <3> SUFFICES ASSUME NEW c \in Command, phase'[c] = "paid", begun'[c] + Hour >= now'
                 PROVE  PaidEvent(c)' \in events'
      BY DEF EventInv
    <3>1. PaidEvent(c) \in events /\ PaidEvent(c)' = PaidEvent(c)
      BY <1>1, <1>t, IntakeAssumption DEF EventInv, PaidEvent
    <3>2. CASE now' # now
      BY <1>1, <3>1, <3>2
    <3>3. CASE now' = now
      <4>1. PaidEvent(c) \in Recent
        BY <1>1, <1>t, <3>1, <3>3, IntakeAssumption DEF Recent, PaidEvent
      <4> QED
        BY <1>1, <3>1, <4>1
    <3> QED
      BY <3>2, <3>3
  <2>2. \A u \in User, w \in Nat : PaidSince(u, w)' \subseteq PaidSince(u, w)
    BY <1>1, <1>t DEF PaidSince
  <2>3. \A u \in User, w \in Nat : Cardinality(PaidSince(u, w)') <= Cardinality(PaidSince(u, w))
    BY <2>2, <1>f, FS_Subset
  <2>4. PaidRateBounded'
    <3> SUFFICES ASSUME NEW u \in User
                 PROVE  /\ Cardinality(PaidSince(u, Minute)') <= PaidPerMinute
                        /\ Cardinality(PaidSince(u, Hour)') <= 12 * PaidPerMinute
      BY DEF PaidRateBounded
    <3>1. Minute \in Nat /\ Hour \in Nat /\ PaidPerMinute \in Nat
      BY IntakeAssumption
    <3> QED
      BY <2>3, <3>1, <1>f DEF PaidRateBounded
  <2> QED
    BY <2>1, <2>4
<1>2. ASSUME NEW c \in Command, phase[c] # "paid", Goto(c, "paid"),
             Admits(Maker[c], PaidPerMinute, 12 * PaidPerMinute),
             Record(EventOf("paid_execution", c, Maker[c])),
             begun' = [begun EXCEPT ![c] = now], now' = now
      PROVE  RateInv'
  <2>1. \A d \in Command : phase'[d] = IF d = c THEN "paid" ELSE phase[d]
    BY <1>2, <1>t DEF Goto
  <2>2. \A d \in Command : begun'[d] = IF d = c THEN now ELSE begun[d]
    BY <1>2, <1>t
  <2>3. EventInv'
    <3> SUFFICES ASSUME NEW d \in Command, phase'[d] = "paid", begun'[d] + Hour >= now'
                 PROVE  PaidEvent(d)' \in events'
      BY DEF EventInv
    <3>1. CASE d = c
      BY <1>2, <2>2, <3>1 DEF PaidEvent, EventOf, Record
    <3>2. CASE d # c
      <4>1. PaidEvent(d) \in events /\ PaidEvent(d)' = PaidEvent(d)
        BY <1>2, <2>1, <2>2, <3>2 DEF EventInv, PaidEvent
      <4>2. PaidEvent(d) \in Recent
        BY <4>1, <1>2, <1>t, <2>2, <3>2, IntakeAssumption DEF Recent, PaidEvent
      <4> QED
        BY <1>2, <4>1, <4>2 DEF Record
    <3> QED
      BY <3>1, <3>2
  <2>4. ASSUME NEW u \in User, NEW w \in Nat, NEW limit \in Nat, w <= Hour,
               Cardinality(PaidSince(u, w)) <= limit,
               u = Maker[c] => Cardinality(Since(u, w)) < limit
        PROVE  Cardinality(PaidSince(u, w)') <= limit
    <3>1. CASE u # Maker[c]
      <4>1. PaidSince(u, w)' = PaidSince(u, w)
        BY <1>2, <2>1, <2>2, <3>1 DEF PaidSince
      <4> QED
        BY <4>1, <2>4
    <3>2. CASE u = Maker[c]
      <4>1. PaidSince(u, w)' \subseteq PaidSince(u, w) \union {c}
        BY <1>2, <2>1, <2>2 DEF PaidSince
      <4>2. c \notin PaidSince(u, w)
        BY <1>2 DEF PaidSince
      <4>3. Cardinality(PaidSince(u, w)) < limit
        BY <2>4, <3>2, PaidAreEvents
      <4>4. /\ IsFiniteSet(PaidSince(u, w) \union {c})
            /\ Cardinality(PaidSince(u, w) \union {c}) = Cardinality(PaidSince(u, w)) + 1
        BY <4>2, <1>f, FS_AddElement
      <4>5. Cardinality(PaidSince(u, w)') <= Cardinality(PaidSince(u, w) \union {c})
        BY <4>1, <4>4, FS_Subset
      <4> QED
        BY <4>3, <4>4, <4>5, <1>f
    <3> QED
      BY <3>1, <3>2
  <2>5. PaidRateBounded'
    <3> SUFFICES ASSUME NEW u \in User
                 PROVE  /\ Cardinality(PaidSince(u, Minute)') <= PaidPerMinute
                        /\ Cardinality(PaidSince(u, Hour)') <= 12 * PaidPerMinute
      BY DEF PaidRateBounded
    <3>1. /\ Minute \in Nat /\ Hour \in Nat /\ Minute <= Hour
          /\ PaidPerMinute \in Nat /\ 12 * PaidPerMinute \in Nat
      BY IntakeAssumption
    <3> QED
      BY <1>2, <2>4, <3>1 DEF PaidRateBounded, Admits
  <2> QED
    BY <2>3, <2>5
<1> QED
  BY <1>1, <1>2, EventSteps

\* No more paid calls of a user begin in a minute, or an hour, than allowed.
THEOREM PaidRateBoundedAlways == Spec => []PaidRateBounded
<1>1. Init => RateInv
  <2> SUFFICES ASSUME Init PROVE RateInv
    OBVIOUS
  <2>1. \A u \in User, w \in Nat : PaidSince(u, w) = {}
    BY DEF Init, PaidSince
  <2>2. PaidRateBounded
    BY <2>1, FS_EmptySet, IntakeAssumption DEF PaidRateBounded
  <2> QED
    BY <2>2 DEF RateInv, EventInv, Init
<1> QED
  BY <1>1, RateStep, Typing, PTL DEF Spec, RateInv

=============================================================================
