---------------------------- MODULE GatewayProofs ----------------------------
(***************************************************************************)
(* For any actors, either setting of the gateway, any lifetime and number  *)
(* of codes: only listed actors are asked about money, a revoked actor     *)
(* stays out, and only the last code of an actor is ever approved.         *)
(***************************************************************************)
EXTENDS Gateway, TLAPS

\* Rows are inserted one after the other.
RowInv ==
    \A c \in Code : IF c > last THEN codes[c] = NoRow ELSE codes[c].actor \in Actor

\* Between the statements of issuePairingCode the actor has no pending code.
DraftInv ==
    \/ draft = NoRow
    \/ /\ draft.actor \in Actor
       /\ draft.status = "pending"
       /\ last < MaxCodes
       /\ \A c \in Code : codes[c].actor = draft.actor => codes[c].status # "pending"

PendingIsLatest == \A c \in Code : codes[c].status = "pending" => Latest(c)

ListInv == entries \intersect Actor \subseteq listed

CodeInv == TypeOK /\ RowInv /\ DraftInv /\ PendingIsLatest /\ RevokedIsOut

ListedInv == TypeOK /\ ListInv /\ AskedWasListed

-----------------------------------------------------------------------------

LEMMA InitInv == Init => CodeInv /\ ListedInv
<1> SUFFICES ASSUME Init PROVE CodeInv /\ ListedInv
  OBVIOUS
<1>1. NoRow \in Row /\ NoRow.status = "none" /\ NoRow.actor = NoActor
  BY DEF NoRow, Row
<1>2. \A c \in Code : codes[c] = NoRow /\ c > last
  BY DEF Init, Code
<1>3. TypeOK
  BY <1>1, GatewayAssumption DEF Init, TypeOK, Code
<1>4. RowInv /\ DraftInv /\ PendingIsLatest /\ RevokedIsOut
  BY <1>1, <1>2 DEF RowInv, DraftInv, PendingIsLatest, RevokedIsOut, Init
<1>5. ListInv /\ AskedWasListed
  BY DEF Init, ListInv, AskedWasListed
<1> QED
  BY <1>3, <1>4, <1>5 DEF CodeInv, ListedInv

\* No two platform ids have one hash, and no hash is hashed to it.
LEMMA KnownIsListed ==
    ASSUME ListedInv, ~AllowAll, NEW a \in Actor, Known(a)
    PROVE  a \in listed
<1>1. PICK e \in entries : Hash(e) = Hash(a)
  BY DEF Known, AllowedHashes
<1>2. e = a
  BY <1>1 DEF Hash
<1> QED
  BY <1>1, <1>2 DEF ListedInv, ListInv

-----------------------------------------------------------------------------
(* Types. *)

LEMMA ExpireType ==
    ASSUME TypeOK, NEW a \in Actor
    PROVE  ExpireCodes(a) \in [Code -> Row]
<1>1. ASSUME NEW c \in Code PROVE [codes[c] EXCEPT !.status = "expired"] \in Row
  BY DEF TypeOK, Row
<1> QED
  BY <1>1 DEF ExpireCodes, TypeOK

LEMMA TypeStep == TypeOK /\ DraftInv /\ [Next]_vars => TypeOK'
<1> SUFFICES ASSUME TypeOK, DraftInv, [Next]_vars PROVE TypeOK'
  OBVIOUS
<1> USE GatewayAssumption
<1>0. NoRow \in Row
  BY DEF NoRow, Row
<1>i. ASSUME NEW a \in Actor, Issue(a) PROVE TypeOK'
  <2>1. draft' \in Row
    BY <1>i DEF Issue, TypeOK, Row
  <2> QED
    BY <1>i, <2>1, ExpireType DEF Issue, TypeOK
<1>1. ASSUME NEW a \in Actor, NEW r \in RequestOf(a), Handle(a, r) PROVE TypeOK'
  BY <1>1 DEF Handle, TypeOK
<1>2. ASSUME NEW a \in Actor, NEW r \in RequestOf(a), TurnAway(a, r) \/ Pair(a, r) PROVE TypeOK'
  BY <1>i, <1>2 DEF TurnAway, Pair
<1>3. ASSUME NEW p \in Actor, NEW a \in Actor, NEW r \in RequestOf(p), Press(p, a, r) PROVE TypeOK'
  BY <1>3 DEF Press, TypeOK
<1>4. CASE Insert
  <2>1. last' = last + 1 /\ last < MaxCodes
    BY <1>4 DEF Insert, DraftInv
  <2>2. last' \in 0 .. MaxCodes
    BY <2>1 DEF TypeOK
  <2>3. codes' \in [Code -> Row]
    BY <1>4 DEF Insert, TypeOK
  <2> QED
    BY <1>0, <1>4, <2>2, <2>3 DEF Insert, TypeOK
<1>5. CASE Restart
  BY <1>0, <1>5 DEF Restart, TypeOK
<1>6. ASSUME NEW c \in Code, LookUp(c) PROVE TypeOK'
  BY <1>6 DEF LookUp, TypeOK
<1>7. ASSUME NEW c \in Code, Approve(c) PROVE TypeOK'
  <2>1. [codes[c] EXCEPT !.status = "approved"] \in Row
    BY DEF TypeOK, Row
  <2>2. codes' \in [Code -> Row]
    BY <1>7, <2>1 DEF Approve, TypeOK
  <2> QED
    BY <1>7, <2>2 DEF Approve, TypeOK
<1>8. ASSUME NEW a \in Actor, Revoke(a) PROVE TypeOK'
  <2>1. ASSUME NEW c \in Code PROVE [codes[c] EXCEPT !.status = "revoked"] \in Row
    BY DEF TypeOK, Row
  <2>2. codes' \in [Code -> Row]
    BY <1>8, <2>1 DEF Revoke, TypeOK
  <2> QED
    BY <1>8, <2>2 DEF Revoke, TypeOK
<1>9. CASE Tick
  BY <1>9 DEF Tick, TypeOK
<1>10. CASE UNCHANGED vars
  BY <1>10 DEF vars, TypeOK
<1> QED
  BY <1>1, <1>2, <1>3, <1>4, <1>5, <1>6, <1>7, <1>8, <1>9, <1>10 DEF Next

-----------------------------------------------------------------------------
(* The codes. *)

\* A step either leaves the codes, the draft and those barred alone, or is one
\* of these.
LEMMA CodeSteps ==
    ASSUME [Next]_vars
    PROVE  \/ UNCHANGED <<codes, last, draft, barred>>
           \/ UNCHANGED <<codes, last, barred>> /\ draft' = NoRow
           \/ \E a \in Actor : Issue(a)
           \/ Insert
           \/ \E c \in Code : Approve(c)
           \/ \E a \in Actor : Revoke(a)
<1>1. ASSUME NEW a \in Actor, NEW r \in RequestOf(a), Handle(a, r)
      PROVE  UNCHANGED <<codes, last, draft, barred>>
  BY <1>1 DEF Handle
<1>2. ASSUME NEW a \in Actor, NEW r \in RequestOf(a), TurnAway(a, r) \/ Pair(a, r)
      PROVE  Issue(a)
  BY <1>2 DEF TurnAway, Pair
<1>3. ASSUME NEW p \in Actor, NEW a \in Actor, NEW r \in RequestOf(p), Press(p, a, r)
      PROVE  UNCHANGED <<codes, last, draft, barred>>
  BY <1>3 DEF Press
<1>4. CASE Restart
  BY <1>4 DEF Restart
<1>5. ASSUME NEW c \in Code, LookUp(c)
      PROVE  UNCHANGED <<codes, last, draft, barred>>
  BY <1>5 DEF LookUp
<1>6. CASE Tick
  BY <1>6 DEF Tick
<1>7. CASE UNCHANGED vars
  BY <1>7 DEF vars
<1> QED
  BY <1>1, <1>2, <1>3, <1>4, <1>5, <1>6, <1>7 DEF Next

LEMMA CodeStep == CodeInv /\ [Next]_vars => CodeInv'
<1> SUFFICES ASSUME CodeInv, [Next]_vars PROVE CodeInv'
  OBVIOUS
<1> USE DEF CodeInv
<1>0. TypeOK'
  BY TypeStep
<1> DEFINE Rest == RowInv /\ DraftInv /\ PendingIsLatest /\ RevokedIsOut
<1>1. ASSUME UNCHANGED <<codes, last, draft, barred>> PROVE Rest'
  BY <1>1 DEF RowInv, DraftInv, PendingIsLatest, RevokedIsOut, Latest
<1>2. ASSUME UNCHANGED <<codes, last, barred>> /\ draft' = NoRow PROVE Rest'
  BY <1>2 DEF RowInv, DraftInv, PendingIsLatest, RevokedIsOut, Latest
<1>3. ASSUME NEW a \in Actor, Issue(a) PROVE Rest'
  <2>1. \A c \in Code : /\ codes'[c].actor = codes[c].actor
                        /\ codes[c] = NoRow => codes'[c] = NoRow
                        /\ codes'[c].status = "pending"
                              => codes[c].status = "pending" /\ codes[c].actor # a
                        /\ codes'[c].status = "approved" => codes[c].status = "approved"
    BY <1>3 DEF Issue, ExpireCodes, TypeOK, Row, NoRow
  <2>2. /\ draft'.actor = a /\ draft'.status = "pending"
        /\ last' = last /\ last < MaxCodes /\ barred' = barred
    BY <1>3 DEF Issue
  <2>3. RowInv'
    BY <2>1, <2>2 DEF RowInv
  <2>4. DraftInv'
    BY <2>1, <2>2 DEF DraftInv
  <2>5. PendingIsLatest'
    BY <2>1 DEF PendingIsLatest, Latest
  <2>6. RevokedIsOut'
    BY <2>1, <2>2 DEF RevokedIsOut
  <2> QED
    BY <2>3, <2>4, <2>5, <2>6
<1>4. ASSUME Insert PROVE Rest'
  <2>1. /\ draft.actor \in Actor /\ draft.status = "pending"
        /\ \A c \in Code : codes[c].actor = draft.actor => codes[c].status # "pending"
        /\ last' = last + 1 /\ last + 1 \in Code /\ draft' = NoRow
        /\ barred' = barred \ {draft.actor}
    BY <1>4, GatewayAssumption DEF Insert, DraftInv, TypeOK, Code
  <2>2. /\ codes'[last + 1] = draft
        /\ \A c \in Code \ {last + 1} : codes'[c] = codes[c]
    BY <1>4, <2>1 DEF Insert, TypeOK
  <2>3. \A c \in Code : c > last + 1 => codes[c].actor = NoActor /\ c > last
    BY <2>1 DEF RowInv, NoRow, Code, TypeOK
  <2>4. RowInv'
    <3> SUFFICES ASSUME NEW c \in Code
                 PROVE  IF c > last' THEN codes'[c] = NoRow ELSE codes'[c].actor \in Actor
      BY DEF RowInv
    <3>1. CASE c = last + 1
      BY <3>1, <2>1, <2>2 DEF Code, TypeOK
    <3>2. CASE c # last + 1 /\ c > last
      BY <3>2, <2>1, <2>2 DEF RowInv, Code, TypeOK
    <3>3. CASE ~ (c > last)
      BY <3>3, <2>1, <2>2 DEF RowInv, Code, TypeOK
    <3> QED
      BY <3>1, <3>2, <3>3
  <2>5. DraftInv'
    BY <2>1 DEF DraftInv
  <2>6. PendingIsLatest'
    <3> SUFFICES ASSUME NEW c \in Code, codes'[c].status = "pending",
                        NEW d \in Code, d > c
                 PROVE  codes'[d].actor # codes'[c].actor
      BY DEF PendingIsLatest, Latest
    <3>1. CASE c = last + 1
      BY <3>1, <2>1, <2>2, <2>3, GatewayAssumption DEF Code
    <3>2. CASE c # last + 1 /\ d = last + 1
      BY <3>2, <2>1, <2>2
    <3>3. CASE c # last + 1 /\ d # last + 1
      BY <3>3, <2>2 DEF PendingIsLatest, Latest
    <3> QED
      BY <3>1, <3>2, <3>3
  <2>7. RevokedIsOut'
    BY <2>1, <2>2 DEF RevokedIsOut
  <2> QED
    BY <2>4, <2>5, <2>6, <2>7
<1>5. ASSUME NEW c \in Code, Approve(c) PROVE Rest'
  <2>1. \A d \in Code :
           /\ codes'[d].actor = codes[d].actor
           /\ codes[d] = NoRow => codes'[d] = NoRow
           /\ codes'[d].status = "pending" => codes[d].status = "pending"
           /\ codes'[d].status = "approved" => codes[d].status \in {"approved", "pending"}
    BY <1>5 DEF Approve, MayApprove, Live, TypeOK, Row, NoRow
  <2>2. draft' = draft /\ last' = last /\ barred' = barred
    BY <1>5 DEF Approve
  <2>3. RowInv'
    BY <2>1, <2>2 DEF RowInv
  <2>4. DraftInv'
    BY <2>1, <2>2 DEF DraftInv
  <2>5. PendingIsLatest'
    BY <2>1 DEF PendingIsLatest, Latest
  <2>6. RevokedIsOut'
    BY <2>1, <2>2 DEF RevokedIsOut
  <2> QED
    BY <2>3, <2>4, <2>5, <2>6
<1>6. ASSUME NEW a \in Actor, Revoke(a) PROVE Rest'
  <2>1. \A d \in Code :
           /\ codes'[d].actor = codes[d].actor
           /\ codes[d] = NoRow => codes'[d] = NoRow
           /\ codes'[d].status \in {"pending", "approved"}
                 => codes[d].actor # a /\ codes'[d] = codes[d]
    BY <1>6 DEF Revoke, Revocable, TypeOK, Row, NoRow
  <2>2. draft' = draft /\ last' = last /\ barred' = barred \union {a}
    BY <1>6 DEF Revoke
  <2>3. RowInv'
    BY <2>1, <2>2 DEF RowInv
  <2>4. DraftInv'
    BY <2>1, <2>2 DEF DraftInv
  <2>5. PendingIsLatest'
    BY <2>1 DEF PendingIsLatest, Latest
  <2>6. RevokedIsOut'
    BY <2>1, <2>2 DEF RevokedIsOut
  <2> QED
    BY <2>3, <2>4, <2>5, <2>6
<1> QED
  BY <1>0, <1>1, <1>2, <1>3, <1>4, <1>5, <1>6, CodeSteps

LEMMA CodesInvariant == Spec => []CodeInv
<1>1. Init => CodeInv
  BY InitInv
<1> QED
  BY <1>1, CodeStep, PTL DEF Spec

\* Every state is one the database and the bot can be in.
THEOREM TypeCorrect == Spec => []TypeOK
BY CodesInvariant, PTL DEF CodeInv

\* A revoked actor has no live code until the next one is issued, whatever the
\* approving script had looked up.
THEOREM RevokedStaysOut == Spec => []RevokedIsOut
BY CodesInvariant, PTL DEF CodeInv

\* Only an actor's last code, unexpired, is ever approved.
THEOREM ApprovedWasLatest == Spec => OnlyLatestApproved
<1> DEFINE Fresh(c) == (codes[c].status # "approved" /\ codes'[c].status = "approved")
                          => Latest(c) /\ codes[c].expires > now
<1>1. CodeInv /\ [Next]_vars => [\A c \in Code : Fresh(c)]_vars
  <2> SUFFICES ASSUME CodeInv, [Next]_vars, NEW c \in Code,
                      codes[c].status # "approved", codes'[c].status = "approved"
               PROVE  Latest(c) /\ codes[c].expires > now
    OBVIOUS
  <2> USE DEF CodeInv
  <2>1. CASE UNCHANGED codes
    BY <2>1
  <2>2. ASSUME NEW a \in Actor, Issue(a) PROVE FALSE
    BY <2>2 DEF Issue, ExpireCodes, TypeOK, Row
  <2>3. ASSUME Insert PROVE FALSE
    BY <2>3 DEF Insert, DraftInv, TypeOK
  <2>4. ASSUME NEW d \in Code, Approve(d) PROVE codes[c].status = "pending" /\ codes[c].expires > now
    BY <2>4 DEF Approve, MayApprove, Live, TypeOK
  <2>5. ASSUME NEW a \in Actor, Revoke(a) PROVE FALSE
    BY <2>5 DEF Revoke, TypeOK, Row
  <2> QED
    BY <2>1, <2>2, <2>3, <2>4, <2>5, CodeSteps DEF PendingIsLatest
<1> QED
  BY <1>1, CodesInvariant, PTL DEF Spec, OnlyLatestApproved

-----------------------------------------------------------------------------
(* The allowlist. *)

LEMMA ListedStep == ListedInv /\ DraftInv /\ [Next]_vars => ListedInv'
<1> SUFFICES ASSUME ListedInv, DraftInv, [Next]_vars PROVE ListedInv'
  OBVIOUS
<1>0. TypeOK'
  BY TypeStep DEF ListedInv
<1> DEFINE Rest == ListInv /\ AskedWasListed
<1> USE DEF ListedInv, ListInv, AskedWasListed
<1>1. ASSUME NEW a \in Actor, NEW r \in RequestOf(a), Handle(a, r) PROVE Rest'
  <2>1. ~AllowAll => a \in listed
    <3>1. r.kind # "button" /\ Verdict(a, r) = "allow"
      BY <1>1 DEF Handle
    <3>2. ~Known(a) => Stranger(r) = "allow"
      BY <3>1 DEF Verdict
    <3>3. Stranger(r) # "allow"
      BY GatewayAssumption DEF Stranger, RequestOf, Request
    <3> QED
      BY <3>2, <3>3, KnownIsListed
  <2> QED
    BY <1>1, <2>1 DEF Handle
<1>2. ASSUME NEW a \in Actor, NEW r \in RequestOf(a), TurnAway(a, r) \/ Pair(a, r) PROVE Rest'
  BY <1>2 DEF TurnAway, Pair, Issue
<1>3. ASSUME NEW p \in Actor, NEW a \in Actor, NEW r \in RequestOf(p), Press(p, a, r) PROVE Rest'
  BY <1>3 DEF Press
<1>4. ASSUME Insert PROVE Rest'
  BY <1>4 DEF Insert
<1>5. ASSUME Restart PROVE Rest'
  BY <1>5 DEF Restart
<1>6. ASSUME NEW c \in Code, LookUp(c) \/ Approve(c) PROVE Rest'
  BY <1>6 DEF LookUp, Approve
<1>7. ASSUME NEW a \in Actor, Revoke(a) PROVE Rest'
  BY <1>7 DEF Revoke
<1>8. ASSUME Tick \/ UNCHANGED vars PROVE Rest'
  BY <1>8 DEF Tick, vars
<1> QED
  BY <1>0, <1>1, <1>2, <1>3, <1>4, <1>5, <1>6, <1>7, <1>8 DEF Next

\* Whoever is asked about money was on the allowlist of some start of the bot.
THEOREM AskedIsListed == Spec => []AskedWasListed
<1>1. Init => ListedInv
  BY InitInv
<1>2. CodeInv => DraftInv
  BY DEF CodeInv
<1>3. ListedInv => AskedWasListed
  BY DEF ListedInv
<1> QED
  BY <1>1, <1>2, <1>3, ListedStep, CodesInvariant, PTL DEF Spec

=============================================================================
