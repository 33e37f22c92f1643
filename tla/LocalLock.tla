------------------------------ MODULE LocalLock ------------------------------
(***************************************************************************)
(* LocalLockManager: a map from keys to lock states in one Node process,   *)
(* each state with a token, an expiry time and a promise that its release  *)
(* resolves.  Each process here is one asynchronous call that takes the    *)
(* keys of its plan one inside the other (withLock nested in withLock,     *)
(* as executeApprovedQuote nests `quote:' in `actor:'), runs its body and  *)
(* unwinds.                                                                *)
(***************************************************************************)
EXTENDS Naturals, Sequences

CONSTANTS
    Proc,           \* the asynchronous calls
    Key,            \* lock keys
    Plan,           \* [Proc -> Seq(Key)]: the keys a call nests, outermost first
    MaxDepth,       \* bound: the longest plan
    TTL,            \* ttlMs, in ticks
    MaxTime,        \* bound: the clock stops here
    NoToken

ASSUME LockAssumption ==
    /\ Plan \in [Proc -> Seq(Key)]
    /\ \A p \in Proc : Len(Plan[p]) \in 1 .. MaxDepth
    /\ MaxDepth \in Nat
    /\ TTL \in Nat \ {0}
    /\ MaxTime \in Nat

\* The token of the state a call installs for the i-th key of its plan; a call
\* acquires each level once, so the pair is as unique as randomUUID.
Token == Proc \X (1 .. MaxDepth)

ASSUME TokenAssumption == NoToken \notin Token

VARIABLES
    entry,          \* this.locks: the token of each key's current state
    expiresAt,      \* of the state with this token
    resolved,       \* the tokens whose `released' promise is resolved
    depth,          \* how many keys of its plan a call is inside of
    pc,
    awaits,         \* the token whose promise a parked call awaits
    now

vars == <<entry, expiresAt, resolved, depth, pc, awaits, now>>

Init ==
    /\ entry = [k \in Key |-> NoToken]
    /\ expiresAt = [t \in Token |-> 0]
    /\ resolved = {}
    /\ depth = [p \in Proc |-> 0]
    /\ pc = [p \in Proc |-> "acquire"]
    /\ awaits = [p \in Proc |-> NoToken]
    /\ now = 0

-----------------------------------------------------------------------------

NextKey(p) == Plan[p][depth[p] + 1]

\* Mutant: the AsyncLocalStorage set is not consulted.
ReentrantMutant(p, i) == FALSE

\* heldLocks.getStore() of the i-th withLock of p: the keys around it.
Reentrant(p, i) == \E j \in 1 .. (i - 1) : Plan[p][j] = Plan[p][i]

\* Mutant: the state is taken over a tick before it expires.
AvailableMutant(k) == entry[k] # NoToken => expiresAt[entry[k]] <= now + 1

Available(k) == entry[k] # NoToken => expiresAt[entry[k]] <= now

\* Mutant: the body starts a level too late.
EnterMutant(p) ==
    /\ depth' = [depth EXCEPT ![p] = @ + 1]
    /\ pc' = [pc EXCEPT ![p] = IF depth[p] = Len(Plan[p]) THEN "body" ELSE "acquire"]

\* One level deeper: to the next withLock, or to the body.
Enter(p) ==
    /\ depth' = [depth EXCEPT ![p] = @ + 1]
    /\ pc' = [pc EXCEPT ![p] = IF depth[p] + 1 = Len(Plan[p]) THEN "body" ELSE "acquire"]

\* withLock of a key this call is already inside of just runs fn.
Reenter(p) ==
    /\ pc[p] = "acquire"
    /\ Reentrant(p, depth[p] + 1)
    /\ Enter(p)
    /\ UNCHANGED <<entry, expiresAt, resolved, awaits, now>>

\* The turn of acquire's loop that installs a new state, possibly over an
\* expired one, whose promise then has nobody left to resolve it.
Acquire(p) ==
    LET t == <<p, depth[p] + 1>> IN
    /\ pc[p] = "acquire"
    /\ ~Reentrant(p, depth[p] + 1)
    /\ Available(NextKey(p))
    /\ entry' = [entry EXCEPT ![NextKey(p)] = t]
    /\ expiresAt' = [expiresAt EXCEPT ![t] = now + TTL]
    /\ Enter(p)
    /\ UNCHANGED <<resolved, awaits, now>>

\* The turn that awaits the promise of the state it found.
Park(p) ==
    /\ pc[p] = "acquire"
    /\ ~Reentrant(p, depth[p] + 1)
    /\ ~Available(NextKey(p))
    /\ pc' = [pc EXCEPT ![p] = "parked"]
    /\ awaits' = [awaits EXCEPT ![p] = entry[NextKey(p)]]
    /\ UNCHANGED <<entry, expiresAt, resolved, depth, now>>

Wake(p) ==
    /\ pc[p] = "parked"
    /\ awaits[p] \in resolved
    /\ pc' = [pc EXCEPT ![p] = "acquire"]
    /\ awaits' = [awaits EXCEPT ![p] = NoToken]
    /\ UNCHANGED <<entry, expiresAt, resolved, depth, now>>

BodyEnds(p) ==
    /\ pc[p] = "body"
    /\ pc' = [pc EXCEPT ![p] = "unwind"]
    /\ UNCHANGED <<entry, expiresAt, resolved, depth, awaits, now>>

\* Mutant: release deletes whatever state the key has.
OwnsMutant(p, i) == ~Reentrant(p, i)

\* release compares the token of the key's state with the handle's.
Owns(p, i) == ~Reentrant(p, i) /\ entry[Plan[p][i]] = <<p, i>>

\* Mutant: the state is deleted and its promise forgotten.
ResolvedByMutant(p, i) == resolved

ResolvedBy(p, i) == IF Owns(p, i) THEN resolved \union {<<p, i>>} ELSE resolved

\* The finally block of the innermost withLock that is still open.
Release(p) ==
    LET i == depth[p] IN
    /\ pc[p] = "unwind"
    /\ resolved' = ResolvedBy(p, i)
    /\ entry' = IF Owns(p, i) THEN [entry EXCEPT ![Plan[p][i]] = NoToken] ELSE entry
    /\ depth' = [depth EXCEPT ![p] = i - 1]
    /\ pc' = [pc EXCEPT ![p] = IF i = 1 THEN "done" ELSE "unwind"]
    /\ UNCHANGED <<expiresAt, awaits, now>>

Tick ==
    /\ now < MaxTime
    /\ now' = now + 1
    /\ UNCHANGED <<entry, expiresAt, resolved, depth, pc, awaits>>

Step(p) == Reenter(p) \/ Acquire(p) \/ Park(p) \/ Wake(p) \/ BodyEnds(p) \/ Release(p)

Next == (\E p \in Proc : Step(p)) \/ Tick

Spec == Init /\ [][Next]_vars

\* Promise reactions run, and every body ends: the CLI has a timeout.
FairSpec == Spec /\ \A p \in Proc : WF_vars(Step(p))

-----------------------------------------------------------------------------

\* Types, and that a call is nowhere outside its plan.
TypeOK ==
    /\ entry \in [Key -> Token \union {NoToken}]
    /\ expiresAt \in [Token -> Nat]
    /\ resolved \subseteq Token
    /\ depth \in [Proc -> 0 .. MaxDepth]
    /\ pc \in [Proc -> {"acquire", "parked", "body", "unwind", "done"}]
    /\ awaits \in [Proc -> Token \union {NoToken}]
    /\ now \in Nat
    /\ \A p \in Proc :
           /\ pc[p] \in {"acquire", "parked"} => depth[p] < Len(Plan[p])
           /\ pc[p] \in {"body", "unwind"} => depth[p] \in 1 .. Len(Plan[p])

\* Until its TTL passes, a call that is inside withLock(k) is the only one that
\* holds k, although others release, expire and take over around it.
LeaseProtects ==
    \A p \in Proc : \A i \in 1 .. depth[p] :
        ~Reentrant(p, i) /\ expiresAt[<<p, i>>] > now => entry[Plan[p][i]] = <<p, i>>

\* A parked call whose state left the map without its promise being resolved.
\* Its holder's own release will not resolve it either: the tokens differ.
Orphaned(p) ==
    pc[p] = "parked" /\ awaits[p] \notin resolved /\ \A k \in Key : entry[k] # awaits[p]

\* The only way to lose a waiter is a body that outlives its TTL: another call
\* then replaces the state, and with it the promise the waiter awaits.
OrphanedOnlyByOverrun == \A p \in Proc : Orphaned(p) => expiresAt[awaits[p]] <= now

\* Otherwise everyone gets through: nested and reentrant plans do not deadlock,
\* and a release wakes those who wait.
ServedOrOrphaned == \A p \in Proc : <>(pc[p] = "done" \/ \E r \in Proc : Orphaned(r))

\* The tokens of the calls inside withLock(k), those whose time passed included.
Inside(k) ==
    {t \in Token : /\ t[2] <= depth[t[1]]
                   /\ Plan[t[1]][t[2]] = k
                   /\ ~Reentrant(t[1], t[2])}

\* The map, promises aside, behaves as a lease lock: only the call that has a key
\* frees it, and one that leaves after its key was taken over frees nothing.
Leases == INSTANCE LeaseLock WITH
              Lease <- Token, Nobody <- NoToken,
              holder <- entry,
              ends <- [k \in Key |-> IF entry[k] = NoToken THEN 0 ELSE expiresAt[entry[k]]],
              open <- [k \in Key |-> Inside(k)]

LeaseLockSpec == Leases!Spec

=============================================================================
