------------------------------ MODULE LeaseLock ------------------------------
(***************************************************************************)
(* What withLock(key, ttl, fn) of one process promises: a key has one      *)
(* holder, whoever is inside withLock gives up the key only as its holder, *)
(* and nobody else takes it before the holder leaves or the time to live   *)
(* has passed.  A body that runs longer stays inside when the key has      *)
(* passed on, and its leaving then takes nothing from the new holder.      *)
(***************************************************************************)
EXTENDS Naturals

CONSTANTS Key, Lease, Nobody, TTL

VARIABLES holder,       \* who has each key
          ends,         \* until when
          open,         \* who is inside withLock of each key, holder or not
          now

Init ==
    /\ holder = [k \in Key |-> Nobody]
    /\ ends = [k \in Key |-> 0]
    /\ open = [k \in Key |-> {}]
    /\ now = 0

\* A lease is taken once: nobody enters who is inside.
Acquire(k, l) ==
    /\ holder[k] = Nobody \/ ends[k] <= now
    /\ \A j \in Key : l \notin open[j]
    /\ holder' = [holder EXCEPT ![k] = l]
    /\ ends' = [ends EXCEPT ![k] = now + TTL]
    /\ open' = [open EXCEPT ![k] = @ \union {l}]
    /\ UNCHANGED now

\* The holder leaves and the key is free.
Release(k, l) ==
    /\ l \in open[k]
    /\ holder[k] = l
    /\ holder' = [holder EXCEPT ![k] = Nobody]
    /\ ends' = [ends EXCEPT ![k] = 0]
    /\ open' = [open EXCEPT ![k] = @ \ {l}]
    /\ UNCHANGED now

\* One whose time passed, and whose key was taken over, leaves.
LeaveLate(k, l) ==
    /\ l \in open[k]
    /\ holder[k] # l
    /\ open' = [open EXCEPT ![k] = @ \ {l}]
    /\ UNCHANGED <<holder, ends, now>>

Tick == now' = now + 1 /\ UNCHANGED <<holder, ends, open>>

Next ==
    \/ \E k \in Key, l \in Lease : Acquire(k, l) \/ Release(k, l) \/ LeaveLate(k, l)
    \/ Tick

Spec == Init /\ [][Next]_<<holder, ends, open, now>>

=============================================================================
