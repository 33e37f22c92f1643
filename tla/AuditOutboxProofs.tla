-------------------------- MODULE AuditOutboxProofs --------------------------
(***************************************************************************)
(* For any events, workers, batch size and number of faults: what is       *)
(* marked shipped was written, no late error shows on it, and every        *)
(* duplicate is that of a worker that raced or of a fault; and the events  *)
(* that are rejected always crowd no other one out of the rounds.          *)
(***************************************************************************)
EXTENDS AuditOutbox, FiniteSetTheorems, WellFoundedInduction, TLAPS

\* Rows are numbered in their order, and none has the number of another.
BornInv ==
    /\ \A e \in Event : born[e] <= Cardinality(Recorded)
    /\ \A e, f \in Recorded : born[e] = born[f] => e = f

\* A worker that got its answer has the event in the sink.
AcceptedInv ==
    \A w \in Worker, e \in Event : pc[w] = "accepted" /\ At(w, e) => copies[e] > 0

\* Workers that may still write e, and workers that wrote it and have not marked it.
WillWrite(e) ==
    {w \in Worker : e \in batch[w] /\ ~(At(w, e) /\ pc[w] \in {"accepted", "rejected"})}

WillMark(e) == {w \in Worker : At(w, e) /\ pc[w] = "accepted"}

\* Before an event is shipped its copies are those of faults and of workers about to
\* mark it; afterwards only those who listed it before can still write it.
CopiesInv ==
    \A e \in Event :
        IF e \in shipped
        THEN copies[e] + Cardinality(WillWrite(e)) <= Cardinality(Worker) + faults
        ELSE copies[e] <= Cardinality(WillMark(e)) + faults

Inv == TypeOK /\ BornInv
IInv == Inv /\ AcceptedInv /\ ShippedWasWritten /\ NoErrorOnceShipped /\ CopiesInv

-----------------------------------------------------------------------------
(* Types and the order of rows. *)

LEMMA RecordedFinite ==
    /\ IsFiniteSet(Recorded) /\ Cardinality(Recorded) \in Nat
    /\ IsFiniteSet(Event) /\ Cardinality(Event) \in Nat
    /\ Cardinality(Recorded) <= Cardinality(Event)
<1>1. Recorded \in SUBSET Event /\ IsFiniteSet(Event)
  BY OutboxAssumption DEF Recorded
<1> QED
  BY <1>1, FS_Subset, FS_CardinalityType

\* A worker is at one row.
LEMMA AtOne ==
    ASSUME Inv, NEW w \in Worker, NEW e \in Event, NEW f \in Event, At(w, e), At(w, f)
    PROVE  e = f
<1>1. e \in Recorded /\ f \in Recorded /\ born[e] \in Int /\ born[f] \in Int
  BY DEF At, Inv, TypeOK, Recorded
<1>2. ~ (born[e] < born[f]) /\ ~ (born[f] < born[e])
  BY DEF At, Older
<1> QED
  BY <1>1, <1>2 DEF Inv, BornInv

LEMMA InitInv == Init => IInv
<1> SUFFICES ASSUME Init PROVE IInv
  OBVIOUS
<1>1. Recorded = {} /\ Cardinality(Recorded) = 0 /\ 0 \in 0 .. Cardinality(Event)
  BY RecordedFinite, FS_EmptySet DEF Init, Recorded
<1>2. Inv
  BY <1>1, OutboxAssumption DEF Init, Inv, TypeOK, BornInv
<1>3. AcceptedInv /\ ShippedWasWritten /\ NoErrorOnceShipped
  BY DEF Init, AcceptedInv, ShippedWasWritten, NoErrorOnceShipped
<1>4. ASSUME NEW e \in Event PROVE Cardinality(WillMark(e)) = 0
  <2>1. WillMark(e) = {}
    BY DEF Init, WillMark
  <2> QED
    BY <2>1, FS_EmptySet
<1>5. CopiesInv
  BY <1>4 DEF Init, CopiesInv
<1> QED
  BY <1>2, <1>3, <1>5 DEF IInv

\* Only Record writes the order of rows.
LEMMA StepKeepsRows ==
    ASSUME NEW w \in Worker, Step(w)
    PROVE  born' = born
  BY DEF Step, RunOnce, Answer, Reject, Accept, LoseAnswer, Continue, Mark, MarkFailed,
         MarkThrows, Dies, Restart, rows

LEMMA RecordInv ==
    ASSUME Inv, NEW x \in Event, Record(x)
    PROVE  /\ Inv' /\ Recorded' = Recorded \union {x} /\ x \notin Recorded
           /\ \A e \in Recorded : born'[e] = born[e]
<1>1. /\ born[x] = 0 /\ born' = [born EXCEPT ![x] = Cardinality(Recorded) + 1]
      /\ UNCHANGED <<shipped, failed, batch, pc, copies, faults>>
  BY DEF Record
<1>2. born \in [Event -> 0 .. Cardinality(Event)]
  BY DEF Inv, TypeOK
<1>3. x \notin Recorded /\ \A e \in Recorded : born'[e] = born[e] /\ e # x
  BY <1>1, <1>2 DEF Recorded
<1>4. Recorded' = Recorded \union {x}
  BY <1>1, <1>2, RecordedFinite DEF Recorded
<1>5. Cardinality(Recorded') = Cardinality(Recorded) + 1
  BY <1>3, <1>4, RecordedFinite, FS_AddElement
<1>6. Cardinality(Recorded) + 1 <= Cardinality(Event)
  <2>1. Recorded' \in SUBSET Event
    BY <1>4 DEF Recorded
  <2> QED
    BY <1>5, <2>1, RecordedFinite, FS_Subset
<1>7. BornInv'
  <2>1. \A e \in Event : born'[e] <= Cardinality(Recorded')
    BY <1>1, <1>2, <1>5, RecordedFinite DEF Inv, BornInv
  <2>2. ASSUME NEW e \in Recorded', NEW f \in Recorded', born'[e] = born'[f] PROVE e = f
    BY <1>1, <1>2, <1>3, <1>4, <2>2, RecordedFinite DEF Inv, BornInv, Recorded
  <2> QED
    BY <2>1, <2>2 DEF BornInv
<1>8. TypeOK'
  <2>1. born' \in [Event -> 0 .. Cardinality(Event)]
    BY <1>1, <1>2, <1>6, RecordedFinite
  <2> QED
    BY <1>1, <1>4, <2>1 DEF Inv, TypeOK
<1> QED
  BY <1>3, <1>4, <1>7, <1>8 DEF Inv

LEMMA AdvanceType ==
    ASSUME Inv, NEW w \in Worker, NEW e \in Event, Advance(w, e)
    PROVE  /\ batch' \in [Worker -> SUBSET Recorded]
           /\ pc' \in [Worker -> {"idle", "writing", "accepted", "rejected", "down"}]
           /\ \A v \in Worker : batch'[v] = {} <=> pc'[v] \in {"idle", "down"}
           /\ batch'[w] = batch[w] \ {e} /\ pc'[w] \in {"idle", "writing"}
           /\ \A v \in Worker \ {w} : batch'[v] = batch[v] /\ pc'[v] = pc[v]
  BY DEF Advance, Inv, TypeOK

LEMMA StepInv ==
    ASSUME Inv, NEW w \in Worker, Step(w)
    PROVE  Inv'
<1>1. born' = born /\ Recorded' = Recorded
  BY StepKeepsRows DEF Recorded
<1>2. BornInv'
  BY <1>1 DEF Inv, BornInv
<1>3. TypeOK'
  <2>1. CASE RunOnce(w)
    BY <1>1, <2>1 DEF RunOnce, Listed, Unshipped, rows, Inv, TypeOK
  <2>2. CASE Reject(w)
    BY <1>1, <2>2 DEF Reject, Rejected, Answered, rows, Inv, TypeOK
  <2>3. ASSUME NEW e \in Event, Accept(w, e) PROVE TypeOK'
    BY <1>1, <2>3 DEF Accept, Arrives, Answered, rows, Inv, TypeOK
  <2>4. ASSUME NEW e \in Event, LoseAnswer(w, e) PROVE TypeOK'
    BY <1>1, <2>4, OutboxAssumption
       DEF LoseAnswer, Fault, Arrives, Answered, rows, Inv, TypeOK
  <2>5. ASSUME NEW e \in Event, Mark(w, e) PROVE TypeOK'
    <3>1. e \in Recorded
      BY <2>5 DEF Mark, At, Inv, TypeOK
    <3> QED
      BY <1>1, <2>5, <3>1, AdvanceType DEF Mark, Inv, TypeOK
  <2>6. ASSUME NEW e \in Event, MarkFailed(w, e) PROVE TypeOK'
    <3>1. e \in Recorded
      BY <2>6 DEF MarkFailed, At, Inv, TypeOK
    <3> QED
      BY <1>1, <2>6, <3>1, AdvanceType DEF MarkFailed, Noted, Inv, TypeOK
  <2>7. CASE MarkThrows(w)
    BY <1>1, <2>7, OutboxAssumption DEF MarkThrows, Fault, Answered, rows, Inv, TypeOK
  <2>8. CASE Dies(w)
    <3>1. copies' \in [Event -> Nat]
      BY <2>8 DEF Dies, Arrives, Inv, TypeOK
    <3> QED
      BY <1>1, <2>8, <3>1, OutboxAssumption DEF Dies, Fault, rows, Inv, TypeOK
  <2>9. CASE Restart(w)
    BY <1>1, <2>9 DEF Restart, rows, Inv, TypeOK
  <2> QED
    BY <2>1, <2>2, <2>3, <2>4, <2>5, <2>6, <2>7, <2>8, <2>9 DEF Step, Answer, Continue
<1> QED
  BY <1>2, <1>3 DEF Inv

LEMMA NextInv ==
    ASSUME Inv, [Next]_vars
    PROVE  Inv'
<1>1. CASE UNCHANGED vars
  BY <1>1 DEF vars, Inv, TypeOK, BornInv, Recorded
<1> QED
  BY <1>1, RecordInv, StepInv DEF Next

\* Every reachable state is well typed, and a worker is in a round exactly while it has
\* rows left.
THEOREM TypeCorrect == Spec => []TypeOK
<1>1. Init => Inv
  BY InitInv DEF IInv
<1>2. Spec => []Inv
  BY <1>1, NextInv, PTL DEF Spec
<1>3. Inv => TypeOK
  BY DEF Inv
<1> QED
  BY <1>2, <1>3, PTL

-----------------------------------------------------------------------------
(* What a step of one worker does. *)

\* A worker stays at its row while its round stays what it is.
LEMMA AtStays ==
    ASSUME Inv, [Next]_vars, NEW v \in Worker, batch'[v] = batch[v], NEW e \in Event
    PROVE  At(v, e)' <=> At(v, e)
<1>1. batch[v] \subseteq Recorded
  BY DEF Inv, TypeOK
<1>2. \A f \in Recorded : born'[f] = born[f]
  BY RecordInv, StepKeepsRows DEF Next, vars
<1> QED
  BY <1>1, <1>2 DEF At, Older

Idle(v) == batch'[v] = batch[v] /\ pc'[v] = pc[v]

\* A worker's answer arrives, right or wrong.
LEMMA AnswerEffect ==
    ASSUME Inv, NEW w \in Worker, NEW e \in Event, Accept(w, e) \/ LoseAnswer(w, e)
    PROVE  /\ pc[w] = "writing" /\ At(w, e)
           /\ copies' = [copies EXCEPT ![e] = copies[e] + 1]
           /\ UNCHANGED <<born, shipped, failed, batch>>
           /\ \A v \in Worker \ {w} : pc'[v] = pc[v]
           /\ \/ pc'[w] = "accepted" /\ faults' = faults
              \/ pc'[w] = "rejected" /\ faults' = faults + 1
  BY DEF Accept, LoseAnswer, Arrives, Answered, Fault, rows, Inv, TypeOK

LEMMA ContinueEffect ==
    ASSUME Inv, NEW w \in Worker, NEW e \in Event, Mark(w, e) \/ MarkFailed(w, e)
    PROVE  /\ At(w, e) /\ UNCHANGED <<born, copies, faults>>
           /\ batch'[w] = batch[w] \ {e} /\ pc'[w] \in {"idle", "writing"}
           /\ \A v \in Worker \ {w} : Idle(v)
           /\ \/ /\ pc[w] = "accepted" /\ shipped' = shipped \union {e}
                 /\ failed' = IF e \in shipped THEN failed ELSE failed \ {e}
              \/ /\ pc[w] = "rejected" /\ shipped' = shipped
                 /\ failed' = IF e \in shipped THEN failed ELSE failed \union {e}
  BY AdvanceType DEF Mark, MarkFailed, Noted, Idle

\* Every other step writes nothing to the sink and marks nothing, but for a request that
\* arrives after its process died.
LEMMA OtherEffect ==
    ASSUME Inv, NEW w \in Worker,
           RunOnce(w) \/ Reject(w) \/ MarkThrows(w) \/ Dies(w) \/ Restart(w)
    PROVE  /\ UNCHANGED <<born, shipped, failed>>
           /\ \A v \in Worker \ {w} : Idle(v)
           /\ pc'[w] # "accepted"
           /\ \/ batch'[w] = {}
              \/ batch'[w] = batch[w] /\ pc[w] # "rejected" /\ (pc'[w] = pc[w] \/ pc'[w] = "rejected")
              \/ batch'[w] \intersect shipped = {}
           /\ \/ copies' = copies /\ faults' = faults /\ pc[w] # "accepted"
              \/ copies' = copies /\ faults' = faults + 1
              \/ /\ faults' = faults + 1 /\ pc[w] # "accepted"
                 /\ \E e \in Event : copies' = [copies EXCEPT ![e] = copies[e] + 1]
<1>1. CASE RunOnce(w)
  BY <1>1 DEF RunOnce, Listed, Unshipped, Idle, rows, Inv, TypeOK
<1>2. CASE Reject(w)
  BY <1>2 DEF Reject, Rejected, Answered, Idle, rows, Inv, TypeOK
<1>3. CASE MarkThrows(w)
  BY <1>3 DEF MarkThrows, Fault, Answered, Idle, rows, Inv, TypeOK
<1>4. CASE Dies(w)
  BY <1>4 DEF Dies, Fault, Arrives, Idle, rows, Inv, TypeOK
<1>5. CASE Restart(w)
  BY <1>5 DEF Restart, Idle, rows, Inv, TypeOK
<1> QED
  BY <1>1, <1>2, <1>3, <1>4, <1>5

LEMMA ShippedStep ==
    ASSUME IInv, [Next]_vars
    PROVE  AcceptedInv' /\ ShippedWasWritten' /\ NoErrorOnceShipped'
<1>1. Inv /\ copies \in [Event -> Nat] /\ shipped \subseteq Event
  BY DEF IInv, Inv, TypeOK, Recorded
<1>2. CASE UNCHANGED <<shipped, failed, batch, pc, copies>>
  <2>1. AcceptedInv'
    BY <1>1, <1>2, AtStays DEF IInv, AcceptedInv
  <2> QED
    BY <1>2, <2>1 DEF IInv, ShippedWasWritten, NoErrorOnceShipped
<1>3. ASSUME NEW w \in Worker, NEW x \in Event, Accept(w, x) \/ LoseAnswer(w, x)
      PROVE  AcceptedInv' /\ ShippedWasWritten' /\ NoErrorOnceShipped'
  <2>1. \A e \in Event : copies'[e] >= copies[e] /\ (e = x => copies'[e] > 0)
    BY <1>1, <1>3, AnswerEffect
  <2>2. ASSUME NEW v \in Worker, NEW e \in Event, pc'[v] = "accepted", At(v, e)'
        PROVE  copies'[e] > 0
    <3>1. At(v, e)
      BY <1>1, <1>3, <2>2, AnswerEffect, AtStays
    <3>2. v = w => e = x
      BY <1>1, <1>3, <3>1, AnswerEffect, AtOne
    <3>3. v # w => copies[e] > 0
      BY <1>1, <1>3, <2>2, <3>1, AnswerEffect DEF IInv, AcceptedInv
    <3> QED
      BY <1>1, <1>3, <2>1, <3>2, <3>3, AnswerEffect
  <2>3. AcceptedInv'
    BY <2>2 DEF AcceptedInv
  <2> QED
    BY <1>1, <1>3, <2>1, <2>3, AnswerEffect DEF IInv, ShippedWasWritten, NoErrorOnceShipped
<1>4. ASSUME NEW w \in Worker, NEW x \in Event, Mark(w, x) \/ MarkFailed(w, x)
      PROVE  AcceptedInv' /\ ShippedWasWritten' /\ NoErrorOnceShipped'
  <2>1. AcceptedInv'
    BY <1>1, <1>4, ContinueEffect, AtStays DEF IInv, AcceptedInv, Idle
  <2>2. pc[w] = "accepted" => copies[x] > 0
    BY <1>1, <1>4, ContinueEffect DEF IInv, AcceptedInv
  <2> QED
    BY <1>1, <1>4, <2>1, <2>2, ContinueEffect DEF IInv, ShippedWasWritten, NoErrorOnceShipped
<1>5. ASSUME NEW w \in Worker,
             RunOnce(w) \/ Reject(w) \/ MarkThrows(w) \/ Dies(w) \/ Restart(w)
      PROVE  AcceptedInv' /\ ShippedWasWritten' /\ NoErrorOnceShipped'
  <2>1. \A e \in Event : copies'[e] >= copies[e]
    BY <1>1, <1>5, OtherEffect
  <2>2. AcceptedInv'
    BY <1>1, <1>5, <2>1, OtherEffect, AtStays DEF IInv, AcceptedInv, Idle
  <2> QED
    BY <1>1, <1>5, <2>1, <2>2, OtherEffect DEF IInv, ShippedWasWritten, NoErrorOnceShipped
<1>6. ASSUME NEW x \in Event, Record(x) PROVE UNCHANGED <<shipped, failed, batch, pc, copies>>
  BY <1>6 DEF Record
<1> QED
  BY <1>2, <1>3, <1>4, <1>5, <1>6 DEF Next, Step, Answer, Continue, vars

-----------------------------------------------------------------------------
(* Counting copies. *)

LEMMA Counts ==
    ASSUME NEW S, NEW T, S \subseteq Worker, T \subseteq Worker
    PROVE  /\ Cardinality(S) \in Nat /\ Cardinality(T) \in Nat /\ Cardinality(Worker) \in Nat
           /\ S \subseteq T => Cardinality(S) <= Cardinality(T)
           /\ \A w : S \ {w} \subseteq T => Cardinality(S) <= Cardinality(T) + 1
           /\ \A w \in S : T \subseteq S \ {w} => Cardinality(T) + 1 <= Cardinality(S)
           /\ S \intersect T = {} => Cardinality(S) + Cardinality(T) <= Cardinality(Worker)
<1>1. IsFiniteSet(Worker) /\ IsFiniteSet(S) /\ IsFiniteSet(T)
  BY OutboxAssumption, FS_Subset
<1>2. Cardinality(S) \in Nat /\ Cardinality(T) \in Nat /\ Cardinality(Worker) \in Nat
  BY <1>1, FS_CardinalityType
<1>3. S \subseteq T => Cardinality(S) <= Cardinality(T)
  BY <1>1, FS_Subset
<1>4. ASSUME NEW w, S \ {w} \subseteq T PROVE Cardinality(S) <= Cardinality(T) + 1
  <2>1. Cardinality(S \ {w}) <= Cardinality(T)
    BY <1>1, <1>4, FS_Subset
  <2>2. Cardinality(S \ {w}) = IF w \in S THEN Cardinality(S) - 1 ELSE Cardinality(S)
    BY <1>1, FS_RemoveElement
  <2> QED
    BY <1>2, <2>1, <2>2
<1>5. ASSUME NEW w \in S, T \subseteq S \ {w} PROVE Cardinality(T) + 1 <= Cardinality(S)
  <2>1. IsFiniteSet(S \ {w}) /\ Cardinality(S \ {w}) = Cardinality(S) - 1
    BY <1>1, FS_RemoveElement
  <2>2. Cardinality(T) <= Cardinality(S \ {w})
    BY <1>5, <2>1, FS_Subset
  <2> QED
    BY <1>2, <2>1, <2>2
<1>6. ASSUME S \intersect T = {} PROVE Cardinality(S) + Cardinality(T) <= Cardinality(Worker)
  <2>1. Cardinality(S \union T) = Cardinality(S) + Cardinality(T) - Cardinality(S \intersect T)
    BY <1>1, FS_Union
  <2>2. Cardinality(S \intersect T) = 0
    BY <1>6, FS_EmptySet
  <2>3. Cardinality(S \union T) <= Cardinality(Worker)
    <3>1. S \union T \in SUBSET Worker
      OBVIOUS
    <3> QED
      BY <1>1, <3>1, FS_Subset
  <2> QED
    BY <1>2, <2>1, <2>2, <2>3
<1> QED
  BY <1>2, <1>3, <1>4, <1>5, <1>6

\* A worker that does nothing is counted as before.
LEMMA IdleCounted ==
    ASSUME Inv, [Next]_vars, NEW v \in Worker, Idle(v), NEW e \in Event
    PROVE  /\ v \in WillWrite(e)' <=> v \in WillWrite(e)
           /\ v \in WillMark(e)' <=> v \in WillMark(e)
<1>1. At(v, e)' <=> At(v, e)
  BY AtStays DEF Idle
<1> QED
  BY <1>1 DEF Idle, WillWrite, WillMark

LEMMA WorkersOnly ==
    ASSUME NEW e \in Event
    PROVE  /\ WillWrite(e) \subseteq Worker /\ WillMark(e) \subseteq Worker
           /\ WillWrite(e)' \subseteq Worker /\ WillMark(e)' \subseteq Worker
  BY DEF WillWrite, WillMark

CopiesOf(e) ==
    IF e \in shipped
    THEN copies[e] + Cardinality(WillWrite(e)) <= Cardinality(Worker) + faults
    ELSE copies[e] <= Cardinality(WillMark(e)) + faults

LEMMA CopiesStep ==
    ASSUME IInv, [Next]_vars
    PROVE  CopiesInv'
<1> SUFFICES ASSUME NEW e \in Event PROVE CopiesOf(e)'
  BY DEF CopiesInv, CopiesOf
<1>1. Inv /\ copies \in [Event -> Nat] /\ faults \in Nat /\ CopiesOf(e)
  BY OutboxAssumption DEF IInv, Inv, TypeOK, CopiesInv, CopiesOf
<1> DEFINE ww == Cardinality(WillWrite(e))
           wm == Cardinality(WillMark(e))
           W == Cardinality(Worker)
<1>2. /\ ww \in Nat /\ wm \in Nat /\ ww' \in Nat /\ wm' \in Nat /\ W \in Nat
      /\ WillWrite(e)' \subseteq WillWrite(e) => ww' <= ww
      /\ WillMark(e) \subseteq WillMark(e)' => wm <= wm'
      /\ \A w : WillMark(e) \ {w} \subseteq WillMark(e)' => wm <= wm' + 1
      /\ \A w \in WillWrite(e) : WillWrite(e)' \subseteq WillWrite(e) \ {w} => ww' + 1 <= ww
      /\ \A w \in WillMark(e)' : WillMark(e) \subseteq WillMark(e)' \ {w} => wm + 1 <= wm'
      /\ WillMark(e) \intersect WillWrite(e)' = {} => wm + ww' <= W
  BY WorkersOnly, Counts
<1>3. ASSUME UNCHANGED <<shipped, copies, faults>>, \A v \in Worker : Idle(v)
      PROVE  CopiesOf(e)'
  <2>1. WillWrite(e)' = WillWrite(e) /\ WillMark(e)' = WillMark(e)
    BY <1>1, <1>3, IdleCounted, WorkersOnly
  <2> QED
    BY <1>1, <1>3, <2>1 DEF CopiesOf
<1>4. ASSUME NEW w \in Worker, NEW x \in Event, Accept(w, x) \/ LoseAnswer(w, x)
      PROVE  CopiesOf(e)'
  <2>1. /\ pc[w] = "writing" /\ At(w, x) /\ batch'[w] = batch[w] /\ shipped' = shipped
        /\ \/ pc'[w] = "accepted" /\ faults' = faults
           \/ pc'[w] = "rejected" /\ faults' = faults + 1
        /\ copies'[e] = IF e = x THEN copies[e] + 1 ELSE copies[e]
        /\ \A v \in Worker \ {w} : Idle(v)
    BY <1>1, <1>4, AnswerEffect DEF Idle
  <2>2. \A v \in Worker \ {w} : /\ v \in WillWrite(e)' <=> v \in WillWrite(e)
                                /\ v \in WillMark(e)' <=> v \in WillMark(e)
    BY <1>1, <2>1, IdleCounted
  <2>3. At(w, e) => e = x
    BY <1>1, <2>1, AtOne
  <2>4. At(w, e)' <=> At(w, e)
    BY <1>1, <2>1, AtStays
  <2>5. w \notin WillMark(e) /\ (w \in WillWrite(e)' => w \in WillWrite(e))
    BY <2>1, <2>4 DEF WillMark, WillWrite
  <2>6. WillWrite(e)' \subseteq WillWrite(e) /\ WillMark(e) \subseteq WillMark(e)'
    BY <2>2, <2>5, WorkersOnly
  <2>7. CASE e # x
    BY <1>1, <1>2, <2>1, <2>6, <2>7 DEF CopiesOf
  <2>8. CASE e = x /\ pc'[w] = "rejected"
    BY <1>1, <1>2, <2>1, <2>6, <2>8 DEF CopiesOf
  <2>9. CASE e = x /\ pc'[w] = "accepted"
    <3>1. w \in WillWrite(e) /\ w \notin WillWrite(e)' /\ w \in WillMark(e)'
      BY <2>1, <2>4, <2>9 DEF WillWrite, WillMark, At
    <3>2. ww' + 1 <= ww /\ wm + 1 <= wm'
      BY <1>2, <2>5, <2>6, <3>1
    <3> QED
      BY <1>1, <1>2, <2>1, <2>9, <3>2 DEF CopiesOf
  <2> QED
    BY <2>1, <2>7, <2>8, <2>9
<1>5. ASSUME NEW w \in Worker, NEW x \in Event, Mark(w, x) \/ MarkFailed(w, x)
      PROVE  CopiesOf(e)'
  <2>1. /\ At(w, x) /\ batch'[w] = batch[w] \ {x} /\ pc'[w] \in {"idle", "writing"}
        /\ \A v \in Worker \ {w} : Idle(v)
        /\ UNCHANGED <<copies, faults>>
        /\ \/ pc[w] = "accepted" /\ shipped' = shipped \union {x}
           \/ pc[w] = "rejected" /\ shipped' = shipped
    BY <1>1, <1>5, ContinueEffect
  <2>2. \A v \in Worker \ {w} : /\ v \in WillWrite(e)' <=> v \in WillWrite(e)
                                /\ v \in WillMark(e)' <=> v \in WillMark(e)
    BY <1>1, <2>1, IdleCounted
  <2>3. At(w, e) => e = x
    BY <1>1, <2>1, AtOne
  <2>4. w \in WillWrite(e)' => e # x /\ w \in WillWrite(e)
    BY <2>1, <2>3 DEF WillWrite
  <2>5. WillWrite(e)' \subseteq WillWrite(e)
    BY <2>2, <2>4, WorkersOnly
  <2>6. CASE e \in shipped
    BY <1>1, <1>2, <2>1, <2>5, <2>6 DEF CopiesOf
  <2>7. CASE e \notin shipped /\ e = x /\ pc[w] = "accepted"
    <3>1. WillMark(e) \intersect WillWrite(e)' = {}
      <4>1. ASSUME NEW v \in WillWrite(e)' PROVE v \in WillWrite(e) /\ v \notin WillMark(e)
        BY <2>5, <4>1 DEF WillWrite, WillMark
      <4> QED
        BY <4>1
    <3> QED
      BY <1>1, <1>2, <2>1, <2>7, <3>1 DEF CopiesOf
  <2>8. CASE e \notin shipped /\ ~(e = x /\ pc[w] = "accepted")
    <3>1. w \notin WillMark(e)
      BY <2>3, <2>8 DEF WillMark
    <3>2. WillMark(e) \subseteq WillMark(e)'
      BY <2>2, <3>1, WorkersOnly
    <3>3. e \notin shipped'
      BY <2>1, <2>8
    <3> QED
      BY <1>1, <1>2, <2>1, <2>8, <3>2, <3>3 DEF CopiesOf
  <2> QED
    BY <2>6, <2>7, <2>8
<1>6. ASSUME NEW w \in Worker,
             RunOnce(w) \/ Reject(w) \/ MarkThrows(w) \/ Dies(w) \/ Restart(w)
      PROVE  CopiesOf(e)'
  <2>1. /\ shipped' = shipped
        /\ \A v \in Worker \ {w} : Idle(v)
        /\ \/ batch'[w] = {}
           \/ batch'[w] = batch[w] /\ pc[w] # "rejected" /\ (pc'[w] = pc[w] \/ pc'[w] = "rejected")
           \/ batch'[w] \intersect shipped = {}
    BY <1>1, <1>6, OtherEffect
  <2>2. \/ copies'[e] = copies[e] /\ faults' = faults /\ pc[w] # "accepted"
        \/ copies'[e] = copies[e] /\ faults' = faults + 1
        \/ faults' = faults + 1 /\ pc[w] # "accepted" /\ copies'[e] \in {copies[e], copies[e] + 1}
    BY <1>1, <1>6, OtherEffect
  <2>3. \A v \in Worker \ {w} : /\ v \in WillWrite(e)' <=> v \in WillWrite(e)
                                /\ v \in WillMark(e)' <=> v \in WillMark(e)
    BY <1>1, <2>1, IdleCounted
  <2>4. CASE e \in shipped
    <3>1. w \in WillWrite(e)' => w \in WillWrite(e)
      <4>1. CASE batch'[w] = batch[w]
        BY <1>1, <2>1, <2>4, <4>1, AtStays DEF WillWrite
      <4>2. CASE batch'[w] # batch[w]
        BY <2>1, <2>4, <4>2 DEF WillWrite
      <4> QED
        BY <4>1, <4>2
    <3>2. WillWrite(e)' \subseteq WillWrite(e)
      BY <2>3, <3>1, WorkersOnly
    <3> QED
      BY <1>1, <1>2, <2>1, <2>2, <2>4, <3>2 DEF CopiesOf
  <2>5. CASE e \notin shipped
    <3>1. WillMark(e) \ {w} \subseteq WillMark(e)'
      BY <2>3, WorkersOnly
    <3>2. pc[w] # "accepted" => WillMark(e) \subseteq WillMark(e)'
      BY <3>1 DEF WillMark
    <3> QED
      BY <1>1, <1>2, <2>1, <2>2, <2>5, <3>1, <3>2 DEF CopiesOf
  <2> QED
    BY <2>4, <2>5
<1>7. ASSUME NEW x \in Event, Record(x) PROVE CopiesOf(e)'
  BY <1>3, <1>7 DEF Record, Idle
<1>8. CASE UNCHANGED vars
  BY <1>3, <1>8 DEF vars, Idle
<1> QED
  BY <1>4, <1>5, <1>6, <1>7, <1>8 DEF Next, Step, Answer, Continue

LEMMA Inductive == Spec => []IInv
<1>1. ASSUME IInv, [Next]_vars PROVE IInv'
  BY <1>1, NextInv, ShippedStep, CopiesStep DEF IInv
<1> QED
  BY <1>1, InitInv, PTL DEF Spec

\* What is marked shipped is in the sink, through races, lost answers and deaths.
THEOREM ShippedAlwaysWritten == Spec => []ShippedWasWritten
<1>1. IInv => ShippedWasWritten
  BY DEF IInv
<1> QED
  BY <1>1, Inductive, PTL

\* No shipped row shows the error of a worker that came late.
THEOREM NoLateErrors == Spec => []NoErrorOnceShipped
<1>1. IInv => NoErrorOnceShipped
  BY DEF IInv
<1> QED
  BY <1>1, Inductive, PTL

\* For any number of workers and faults, an event is in the sink at most once for each
\* of them.
THEOREM DuplicatesAlwaysExplained == Spec => []DuplicatesAreExplained
<1>1. ASSUME IInv PROVE DuplicatesAreExplained
  <2>1. SUFFICES ASSUME NEW e \in Event PROVE copies[e] <= Cardinality(Worker) + faults
    BY DEF DuplicatesAreExplained
  <2>2. copies[e] \in Nat /\ faults \in Nat
    BY <1>1, OutboxAssumption DEF IInv, Inv, TypeOK
  <2>3. /\ Cardinality(WillWrite(e)) \in Nat /\ Cardinality(Worker) \in Nat
        /\ Cardinality(WillMark(e)) \in Nat /\ Cardinality(WillMark(e)) <= Cardinality(Worker)
    BY WorkersOnly, Counts
  <2> QED
    BY <1>1, <2>2, <2>3 DEF IInv, CopiesInv
<1> QED
  BY <1>1, Inductive, PTL

-----------------------------------------------------------------------------
(* What a round lists. *)

\* listUnshippedAuditEvents takes rows in the order of created_at, and rejected ones come
\* again: if they are fewer than a batch, a round reaches a row that can be shipped whenever
\* there is one.
PoisonLeavesRoom ==
    Cardinality(Poison) < BatchSize /\ ~ (Unshipped \subseteq Poison) => ~ (Listed \subseteq Poison)

\* A row that is listed is listed in every later round until it is shipped: no row that
\* is recorded, rejected or shipped meanwhile takes its place.
KeepsItsPlace == \A e \in Listed : e \in Listed' \/ e \in shipped'

\* A nonempty set of rows has an oldest one.
LEMMA OldestRow ==
    ASSUME Inv, NEW S, S \subseteq Event, S # {}
    PROVE  \E e \in S : Older(e, S) = {}
<1> DEFINE T == {born[e] : e \in S}
<1>1. \A e \in Event : born[e] \in Nat
  BY RecordedFinite DEF Inv, TypeOK
<1>2. T \subseteq Nat /\ T # {}
  BY <1>1
<1> DEFINE less == OpToRel(<, Nat)
<1>3. IsWellFoundedOn(less, Nat) /\ \A x, y \in Nat : y < x => <<y, x>> \in less
  BY NatLessThanWellFounded DEF OpToRel
<1>4. PICK x \in T : \A y \in T : ~ (y < x)
  <2> HIDE DEF T, less
  <2>1. PICK x \in T : \A y \in T : <<y, x>> \notin less
    BY <1>2, <1>3, WFMin
  <2>2. \A y \in T : ~ (y < x)
    BY <1>2, <1>3, <2>1
  <2> QED
    BY <2>2
<1>5. PICK e \in S : x = born[e]
  BY <1>4
<1>6. \A f \in S : ~ (born[f] < born[e])
  BY <1>4, <1>5
<1> QED
  BY <1>6 DEF Older

LEMMA RoomInRound ==
    ASSUME Inv
    PROVE  PoisonLeavesRoom
<1> SUFFICES ASSUME Cardinality(Poison) < BatchSize, ~ (Unshipped \subseteq Poison)
             PROVE  ~ (Listed \subseteq Poison)
  BY DEF PoisonLeavesRoom
<1>1. Unshipped \subseteq Event
  BY DEF Unshipped, Recorded
<1>2. PICK e \in Unshipped \ Poison : Older(e, Unshipped \ Poison) = {}
  BY <1>1, OldestRow
<1>3. Older(e, Unshipped) \subseteq Poison
  BY <1>2 DEF Older
<1>4. Cardinality(Older(e, Unshipped)) < BatchSize
  <2>1. IsFiniteSet(Poison) /\ IsFiniteSet(Older(e, Unshipped))
    BY <1>3, OutboxAssumption, FS_Subset
  <2>2. /\ Cardinality(Older(e, Unshipped)) \in Nat /\ Cardinality(Poison) \in Nat
        /\ Cardinality(Older(e, Unshipped)) <= Cardinality(Poison)
    BY <1>3, <2>1, FS_Subset, FS_CardinalityType
  <2> QED
    BY <2>2, OutboxAssumption
<1> QED
  BY <1>2, <1>4 DEF Listed

\* Rows that come later come behind: what is older than a recorded row only shrinks.
LEMMA OlderShrinks ==
    ASSUME Inv, [Next]_vars, NEW e \in Recorded
    PROVE  e \in Recorded' /\ Older(e, Unshipped)' \subseteq Older(e, Unshipped)
<1>1. CASE born' = born /\ shipped \subseteq shipped'
  BY <1>1 DEF Recorded, Unshipped, Older
<1>2. ASSUME NEW x \in Event, Record(x)
      PROVE  e \in Recorded' /\ Older(e, Unshipped)' \subseteq Older(e, Unshipped)
  <2>1. /\ Recorded' = Recorded \union {x} /\ x \notin Recorded
        /\ \A f \in Recorded : born'[f] = born[f]
    BY <1>2, RecordInv
  <2>2. shipped' = shipped /\ born'[x] = Cardinality(Recorded) + 1
    BY <1>2 DEF Record, Inv, TypeOK
  <2>3. born[e] \in Nat /\ born[e] <= Cardinality(Recorded) /\ Cardinality(Recorded) \in Nat
    BY RecordedFinite DEF Inv, TypeOK, BornInv, Recorded
  <2>4. ~ (born'[x] < born'[e])
    BY <2>1, <2>2, <2>3
  <2> QED
    BY <2>1, <2>2, <2>4 DEF Unshipped, Older
<1>3. ASSUME NEW w \in Worker, Step(w) PROVE born' = born /\ shipped \subseteq shipped'
  BY <1>3, StepKeepsRows
     DEF Step, RunOnce, Answer, Reject, Accept, LoseAnswer, Continue, Mark, MarkFailed,
         MarkThrows, Dies, Restart, rows
<1>4. CASE UNCHANGED vars
  BY <1>1, <1>4 DEF vars
<1> QED
  BY <1>1, <1>2, <1>3, <1>4 DEF Next

LEMMA PlaceKept ==
    ASSUME Inv, [Next]_vars
    PROVE  KeepsItsPlace
<1> SUFFICES ASSUME NEW e \in Listed, e \notin shipped' PROVE e \in Listed'
  BY DEF KeepsItsPlace
<1>1. e \in Recorded /\ e \in Event /\ Cardinality(Older(e, Unshipped)) < BatchSize
  BY DEF Listed, Unshipped, Recorded
<1>2. e \in Recorded' /\ Older(e, Unshipped)' \subseteq Older(e, Unshipped)
  BY <1>1, OlderShrinks
<1>3. IsFiniteSet(Older(e, Unshipped))
  <2>1. Older(e, Unshipped) \subseteq Event /\ IsFiniteSet(Event)
    BY OutboxAssumption DEF Older, Unshipped, Recorded
  <2> QED
    BY <2>1, FS_Subset
<1>4. /\ Cardinality(Older(e, Unshipped)) \in Nat
      /\ Cardinality(Older(e, Unshipped)') \in Nat
      /\ Cardinality(Older(e, Unshipped)') <= Cardinality(Older(e, Unshipped))
  BY <1>2, <1>3, FS_Subset, FS_CardinalityType
<1>5. Cardinality(Older(e, Unshipped)') < BatchSize
  BY <1>1, <1>4, OutboxAssumption
<1>6. e \in Unshipped'
  BY <1>2 DEF Unshipped
<1> QED
  BY <1>5, <1>6 DEF Listed

\* Events that the sink always rejects, fewer than a batch, never fill a round while one
\* that can be shipped waits.
THEOREM RoundsReachTheOthers == Spec => []PoisonLeavesRoom
<1>1. IInv => PoisonLeavesRoom
  BY RoomInRound DEF IInv
<1> QED
  BY <1>1, Inductive, PTL

\* Through new rows, races and faults a listed event stays in the next round's rows until
\* it is shipped.
THEOREM PlacesAreKept == Spec => [][KeepsItsPlace]_vars
<1>1. IInv /\ [Next]_vars => [KeepsItsPlace]_vars
  BY PlaceKept DEF IInv
<1> QED
  BY <1>1, Inductive, PTL DEF Spec

=============================================================================
