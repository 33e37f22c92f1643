----------------------------- MODULE AuditOutbox -----------------------------
(***************************************************************************)
(* The rows of `audit_events' and the workers, one in each process, that   *)
(* ship them to a file or over HTTP: each round takes the oldest unshipped *)
(* rows and awaits the sink for one after the other.                       *)
(***************************************************************************)
EXTENDS Integers, FiniteSets

CONSTANTS
    Event,          \* the audit events, each recorded once
    Poison,         \* those that the sink always rejects
    Worker,         \* the processes that poll one database
    BatchSize,
    MaxFaults       \* bound: deaths, lost answers and failing statements

ASSUME OutboxAssumption ==
    /\ IsFiniteSet(Event) /\ IsFiniteSet(Worker)
    /\ Poison \subseteq Event
    /\ BatchSize \in Nat \ {0}
    /\ MaxFaults \in Nat

VARIABLES
    born,           \* created_at: the rows in their order, 0 if there is none yet
    shipped,        \* rows with shipped_at
    failed,         \* rows with last_ship_error
    batch,          \* the rows that are left of a worker's round
    pc,
    copies,         \* how often the sink has each event
    faults

vars == <<born, shipped, failed, batch, pc, copies, faults>>
rows == <<born, shipped, failed>>

Init ==
    /\ born = [e \in Event |-> 0]
    /\ shipped = {}
    /\ failed = {}
    /\ batch = [w \in Worker |-> {}]
    /\ pc = [w \in Worker |-> "idle"]
    /\ copies = [e \in Event |-> 0]
    /\ faults = 0

Recorded == {e \in Event : born[e] > 0}

Older(e, S) == {f \in S : born[f] < born[e]}

\* createAuditEvent.
Record(e) ==
    /\ born[e] = 0
    /\ born' = [born EXCEPT ![e] = Cardinality(Recorded) + 1]
    /\ UNCHANGED <<shipped, failed, batch, pc, copies, faults>>

-----------------------------------------------------------------------------
(* A round. *)

\* Mutant: rows are listed whether or not they were shipped.
UnshippedMutant == Recorded

Unshipped == Recorded \ shipped

\* listUnshippedAuditEvents.
Listed == {e \in Unshipped : Cardinality(Older(e, Unshipped)) < BatchSize}

\* runOnce, by start and by the timer, while no round of this worker runs.
RunOnce(w) ==
    /\ pc[w] = "idle"
    /\ Listed # {}
    /\ batch' = [batch EXCEPT ![w] = Listed]
    /\ pc' = [pc EXCEPT ![w] = "writing"]
    /\ UNCHANGED <<rows, copies, faults>>

\* The row of its round that a worker is at.
At(w, e) == e \in batch[w] /\ Older(e, batch[w]) = {}

\* Mutant: a row that fails ends the round.
AdvanceMutant(w, e) ==
    LET rest == IF pc[w] = "rejected" THEN {} ELSE batch[w] \ {e} IN
    /\ batch' = [batch EXCEPT ![w] = rest]
    /\ pc' = [pc EXCEPT ![w] = IF rest = {} THEN "idle" ELSE "writing"]

\* Mutant: the round goes on after its last row.
EndlessMutant(w, e) ==
    /\ batch' = [batch EXCEPT ![w] = @ \ {e}]
    /\ pc' = [pc EXCEPT ![w] = "writing"]

\* On to the next row of the round.
Advance(w, e) ==
    LET rest == batch[w] \ {e} IN
    /\ batch' = [batch EXCEPT ![w] = rest]
    /\ pc' = [pc EXCEPT ![w] = IF rest = {} THEN "idle" ELSE "writing"]

\* markAuditEventShipped, unless another worker was first.
Mark(w, e) ==
    /\ pc[w] = "accepted" /\ At(w, e)
    /\ shipped' = shipped \union {e}
    /\ failed' = IF e \in shipped THEN failed ELSE failed \ {e}
    /\ Advance(w, e)
    /\ UNCHANGED <<born, copies, faults>>

\* Mutant: an error is recorded whether or not the row was shipped meanwhile.
NotedMutant(e) == failed \union {e}

Noted(e) == IF e \in shipped THEN failed ELSE failed \union {e}

\* markAuditEventShipFailed, in the catch of shipRow.
MarkFailed(w, e) ==
    /\ pc[w] = "rejected" /\ At(w, e)
    /\ failed' = Noted(e)
    /\ Advance(w, e)
    /\ UNCHANGED <<born, shipped, copies, faults>>

-----------------------------------------------------------------------------
(* The sink, and what can go wrong. *)

Answered(w, answer) == pc' = [pc EXCEPT ![w] = answer]

\* Mutant: an answer is taken for a success whatever its status is.
RejectedMutant == "accepted"

Rejected == "rejected"

Arrives(w, e) ==
    /\ pc[w] = "writing" /\ At(w, e)
    /\ e \notin Poison
    /\ copies' = [copies EXCEPT ![e] = @ + 1]

Accept(w, e) ==
    /\ Arrives(w, e)
    /\ Answered(w, "accepted")
    /\ UNCHANGED <<rows, batch, faults>>

Reject(w) ==
    /\ pc[w] = "writing"
    /\ Answered(w, Rejected)
    /\ UNCHANGED <<rows, batch, copies, faults>>

Fault == faults < MaxFaults /\ faults' = faults + 1

\* The event arrives and the answer does not.
LoseAnswer(w, e) ==
    /\ Fault
    /\ Arrives(w, e)
    /\ Answered(w, "rejected")
    /\ UNCHANGED <<rows, batch>>

\* The update throws, and its catch takes the row for one that failed.
MarkThrows(w) ==
    /\ Fault
    /\ pc[w] = "accepted"
    /\ Answered(w, "rejected")
    /\ UNCHANGED <<rows, batch, copies>>

\* The process is stopped or killed, or a statement throws outside of any catch; a
\* request that is under way may still arrive.
Dies(w) ==
    /\ Fault
    /\ pc[w] # "down"
    /\ UNCHANGED copies \/ \E e \in Event : Arrives(w, e)
    /\ batch' = [batch EXCEPT ![w] = {}]
    /\ pc' = [pc EXCEPT ![w] = "down"]
    /\ UNCHANGED rows

Restart(w) ==
    /\ pc[w] = "down"
    /\ pc' = [pc EXCEPT ![w] = "idle"]
    /\ UNCHANGED <<rows, batch, copies, faults>>

Answer(w) == Reject(w) \/ \E e \in Event : Accept(w, e) \/ LoseAnswer(w, e)

Continue(w) == \E e \in Event : Mark(w, e) \/ MarkFailed(w, e)

Step(w) == RunOnce(w) \/ Answer(w) \/ Continue(w) \/ MarkThrows(w) \/ Dies(w) \/ Restart(w)

Next == (\E e \in Event : Record(e)) \/ (\E w \in Worker : Step(w))

Spec == Init /\ [][Next]_vars

\* The timer, the event loop and whoever restarts processes go on; requests end; and
\* a sink that is asked for an event again and again takes it some time.
Fairness ==
    \A w \in Worker :
        /\ WF_vars(RunOnce(w)) /\ WF_vars(Answer(w)) /\ WF_vars(Continue(w)) /\ WF_vars(Restart(w))
        /\ \A e \in Event : SF_vars(Accept(w, e))

FairSpec == Spec /\ Fairness

-----------------------------------------------------------------------------

\* Types, and that the worker's running flag is down exactly between its rounds.
TypeOK ==
    /\ born \in [Event -> 0 .. Cardinality(Event)]
    /\ shipped \subseteq Recorded
    /\ failed \subseteq Recorded
    /\ batch \in [Worker -> SUBSET Recorded]
    /\ pc \in [Worker -> {"idle", "writing", "accepted", "rejected", "down"}]
    /\ copies \in [Event -> Nat]
    /\ faults \in 0 .. MaxFaults
    /\ \A w \in Worker : batch[w] = {} <=> pc[w] \in {"idle", "down"}

\* docs/audit.md: shipped_at is set when the sink accepts the event, also when another
\* worker, a lost answer or a death comes between.
ShippedWasWritten == \A e \in shipped : copies[e] > 0

\* The sink has an event at most once for every worker that raced for it and every
\* fault: nothing else ships an event twice.
DuplicatesAreExplained == \A e \in Event : copies[e] <= Cardinality(Worker) + faults

\* The error of a worker that comes late does not show on a row that was shipped.
NoErrorOnceShipped == failed \intersect shipped = {}

\* Every event that the sink does not always reject is shipped, if fewer than a batch
\* are rejected always: those fill a part of each round and never all of it.
EveryEventIsShipped ==
    Cardinality(Poison) < BatchSize =>
        \A e \in Event \ Poison : born[e] > 0 ~> e \in shipped

=============================================================================
