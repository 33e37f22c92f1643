--------------------------- MODULE LocalLockProofs ---------------------------
(***************************************************************************)
(* For any calls, plans, TTL and time: LocalLockManager keeps its types,   *)
(* protects a lease until its TTL passes, loses only those who wait behind *)
(* an overrun, behaves as a lease lock, and lets no callers that nest keys *)
(* in one order wait for each other.                                       *)
(***************************************************************************)
EXTENDS LocalLock, WellFoundedInduction, TLAPS

-----------------------------------------------------------------------------
(* Types. *)

\* Where a call that is about to take its next key is in its plan.
LEMMA NextLevel ==
    ASSUME TypeOK, NEW p \in Proc, pc[p] \in {"acquire", "parked"}
    PROVE  /\ depth[p] \in Nat /\ depth[p] + 1 \in 1 .. Len(Plan[p])
           /\ depth[p] + 1 \in 1 .. MaxDepth
           /\ <<p, depth[p] + 1>> \in Token
           /\ NextKey(p) \in Key
  BY LockAssumption DEF TypeOK, Token, NextKey

LEMMA OpenLevel ==
    ASSUME TypeOK, NEW p \in Proc, pc[p] \in {"body", "unwind"}
    PROVE  /\ depth[p] \in 1 .. Len(Plan[p]) /\ depth[p] \in 1 .. MaxDepth
           /\ <<p, depth[p]>> \in Token
           /\ Plan[p][depth[p]] \in Key
  BY LockAssumption DEF TypeOK, Token

LEMMA EnterType ==
    ASSUME TypeOK, NEW p \in Proc, pc[p] = "acquire", Enter(p)
    PROVE  /\ depth' \in [Proc -> 0 .. MaxDepth]
           /\ pc' \in [Proc -> {"acquire", "parked", "body", "unwind", "done"}]
           /\ \A q \in Proc :
                  /\ pc'[q] \in {"acquire", "parked"} => depth'[q] < Len(Plan[q])
                  /\ pc'[q] \in {"body", "unwind"} => depth'[q] \in 1 .. Len(Plan[q])
<1>1. depth[p] + 1 \in 1 .. MaxDepth /\ depth[p] + 1 \in 1 .. Len(Plan[p])
  BY NextLevel
<1>2. Len(Plan[p]) \in Nat
  BY LockAssumption
<1> QED
  BY <1>1, <1>2 DEF Enter, TypeOK

LEMMA TypeInit == Init => TypeOK
  BY LockAssumption DEF Init, TypeOK

LEMMA TypeStep == TypeOK /\ [Next]_vars => TypeOK'
<1> SUFFICES ASSUME TypeOK, [Next]_vars PROVE TypeOK'
  OBVIOUS
<1>1. ASSUME NEW p \in Proc, Reenter(p) PROVE TypeOK'
  BY <1>1, EnterType DEF Reenter, TypeOK
<1>2. ASSUME NEW p \in Proc, Acquire(p) PROVE TypeOK'
  <2>1. <<p, depth[p] + 1>> \in Token /\ NextKey(p) \in Key
    BY <1>2, NextLevel DEF Acquire
  <2>2. now + TTL \in Nat
    BY LockAssumption DEF TypeOK
  <2>3. entry' \in [Key -> Token \union {NoToken}] /\ expiresAt' \in [Token -> Nat]
    BY <1>2, <2>1, <2>2 DEF Acquire, TypeOK
  <2> QED
    BY <1>2, <2>3, EnterType DEF Acquire, TypeOK
<1>3. ASSUME NEW p \in Proc, Park(p) PROVE TypeOK'
  <2>1. entry[NextKey(p)] \in Token \union {NoToken}
    BY <1>3, NextLevel DEF Park, TypeOK
  <2> QED
    BY <1>3, <2>1 DEF Park, TypeOK
<1>4. ASSUME NEW p \in Proc, Wake(p) PROVE TypeOK'
  BY <1>4 DEF Wake, TypeOK
<1>5. ASSUME NEW p \in Proc, BodyEnds(p) PROVE TypeOK'
  BY <1>5 DEF BodyEnds, TypeOK
<1>6. ASSUME NEW p \in Proc, Release(p) PROVE TypeOK'
  <2>1. /\ depth[p] \in 1 .. MaxDepth /\ depth[p] \in 1 .. Len(Plan[p])
        /\ <<p, depth[p]>> \in Token /\ Len(Plan[p]) \in Nat
    BY <1>6, OpenLevel, LockAssumption DEF Release
  <2>2. entry' \in [Key -> Token \union {NoToken}]
    BY <1>6 DEF Release, TypeOK
  <2>3. resolved' \subseteq Token
    BY <1>6, <2>1 DEF Release, ResolvedBy, TypeOK
  <2> QED
    BY <1>6, <2>1, <2>2, <2>3, LockAssumption DEF Release, TypeOK
<1>7. CASE Tick
  BY <1>7 DEF Tick, TypeOK
<1>8. CASE UNCHANGED vars
  BY <1>8 DEF vars, TypeOK
<1> QED
  BY <1>1, <1>2, <1>3, <1>4, <1>5, <1>6, <1>7, <1>8 DEF Next, Step

\* The map, promises and calls stay within their types, and no call leaves its plan.
THEOREM TypeCorrect == Spec => []TypeOK
  BY TypeInit, TypeStep, PTL DEF Spec

-----------------------------------------------------------------------------
(* A lease protects. *)

\* No token is the absence of one.
LEMMA TokensAreTokens ==
    ASSUME NEW p \in Proc, NEW i \in 1 .. MaxDepth
    PROVE  <<p, i>> \in Token /\ <<p, i>> # NoToken
  BY TokenAssumption DEF Token

LEMMA LeaseInit == Init => LeaseProtects
  BY LockAssumption DEF Init, LeaseProtects

LEMMA LeaseAcquire ==
    ASSUME TypeOK, LeaseProtects, NEW p \in Proc, Acquire(p)
    PROVE  LeaseProtects'
<1> DEFINE t == <<p, depth[p] + 1>>
<1>1. pc[p] = "acquire" /\ Available(NextKey(p)) /\ Enter(p)
  BY DEF Acquire
<1>2. depth[p] \in Nat /\ t \in Token /\ NextKey(p) \in Key
  BY <1>1, NextLevel
<1>3. entry' = [entry EXCEPT ![NextKey(p)] = t]
  BY DEF Acquire
<1>4. expiresAt' = [expiresAt EXCEPT ![t] = now + TTL] /\ now' = now
  BY DEF Acquire
<1>5. depth' = [depth EXCEPT ![p] = @ + 1]
  BY <1>1 DEF Enter
<1> SUFFICES ASSUME NEW q \in Proc, NEW i \in 1 .. depth'[q],
                    ~Reentrant(q, i), expiresAt'[<<q, i>>] > now
             PROVE  entry'[Plan[q][i]] = <<q, i>>
  BY <1>4 DEF LeaseProtects, Reentrant
<1>6. CASE <<q, i>> = t
  BY <1>2, <1>3, <1>6 DEF TypeOK, NextKey
<1>7. CASE <<q, i>> # t
  <2>1. i \in 1 .. depth[q]
    BY <1>2, <1>5, <1>7 DEF TypeOK
  <2>2. i \in 1 .. MaxDepth
    BY <2>1, LockAssumption DEF TypeOK
  <2>3. <<q, i>> \in Token /\ <<q, i>> # NoToken
    BY <2>2, TokensAreTokens
  <2>4. expiresAt[<<q, i>>] > now
    BY <1>4, <1>7, <2>3 DEF TypeOK
  <2>5. entry[Plan[q][i]] = <<q, i>>
    BY <2>1, <2>4 DEF LeaseProtects
  <2>6. ~(expiresAt[<<q, i>>] <= now)
    BY <2>3, <2>4 DEF TypeOK
  <2>7. Plan[q][i] # NextKey(p)
    BY <1>1, <2>3, <2>5, <2>6 DEF Available
  <2> QED
    BY <1>3, <2>5, <2>7 DEF TypeOK
<1> QED
  BY <1>6, <1>7

LEMMA LeaseRelease ==
    ASSUME TypeOK, LeaseProtects, NEW p \in Proc, Release(p)
    PROVE  LeaseProtects'
<1>1. depth[p] \in 1 .. MaxDepth /\ Plan[p][depth[p]] \in Key
  BY OpenLevel DEF Release
<1>2. depth' = [depth EXCEPT ![p] = depth[p] - 1] /\ expiresAt' = expiresAt /\ now' = now
  BY DEF Release
<1> SUFFICES ASSUME NEW q \in Proc, NEW i \in 1 .. depth'[q],
                    ~Reentrant(q, i), expiresAt[<<q, i>>] > now
             PROVE  entry'[Plan[q][i]] = <<q, i>>
  BY <1>2 DEF LeaseProtects, Reentrant
<1>3. i \in 1 .. depth[q] /\ <<q, i>> # <<p, depth[p]>>
  BY <1>1, <1>2 DEF TypeOK
<1>4. entry[Plan[q][i]] = <<q, i>>
  BY <1>3 DEF LeaseProtects
<1>5. CASE Owns(p, depth[p])
  <2>1. Plan[q][i] # Plan[p][depth[p]]
    BY <1>3, <1>4, <1>5 DEF Owns
  <2>2. entry' = [entry EXCEPT ![Plan[p][depth[p]]] = NoToken]
    BY <1>5 DEF Release
  <2> QED
    BY <1>4, <2>1, <2>2 DEF TypeOK
<1>6. CASE ~Owns(p, depth[p])
  BY <1>4, <1>6 DEF Release
<1> QED
  BY <1>5, <1>6

LEMMA LeaseStep == TypeOK /\ LeaseProtects /\ [Next]_vars => LeaseProtects'
<1> SUFFICES ASSUME TypeOK, LeaseProtects, [Next]_vars PROVE LeaseProtects'
  OBVIOUS
<1>1. ASSUME NEW p \in Proc, Reenter(p) PROVE LeaseProtects'
  <2>1. depth' = [depth EXCEPT ![p] = @ + 1] /\ Reentrant(p, depth[p] + 1)
    BY <1>1 DEF Reenter, Enter
  <2>2. UNCHANGED <<entry, expiresAt, now>>
    BY <1>1 DEF Reenter
  <2> SUFFICES ASSUME NEW q \in Proc, NEW i \in 1 .. depth'[q],
                      ~Reentrant(q, i), expiresAt[<<q, i>>] > now
               PROVE  entry[Plan[q][i]] = <<q, i>>
    BY <2>2 DEF LeaseProtects, Reentrant
  <2>3. i \in 1 .. depth[q]
    <3>1. ~(q = p /\ i = depth[p] + 1)
      BY <2>1
    <3> QED
      BY <2>1, <3>1 DEF TypeOK
  <2> QED
    BY <2>3 DEF LeaseProtects
<1>2. ASSUME NEW p \in Proc, Park(p) \/ Wake(p) \/ BodyEnds(p) PROVE LeaseProtects'
  <2>1. UNCHANGED <<entry, expiresAt, depth, now>>
    BY <1>2 DEF Park, Wake, BodyEnds
  <2> QED
    BY <2>1 DEF LeaseProtects, Reentrant
<1>3. CASE Tick
  <2>1. UNCHANGED <<entry, expiresAt, depth>> /\ now' = now + 1
    BY <1>3 DEF Tick
  <2> SUFFICES ASSUME NEW q \in Proc, NEW i \in 1 .. depth[q],
                      ~Reentrant(q, i), expiresAt[<<q, i>>] > now + 1
               PROVE  entry[Plan[q][i]] = <<q, i>>
    BY <2>1 DEF LeaseProtects, Reentrant
  <2>2. i \in 1 .. MaxDepth
    BY LockAssumption DEF TypeOK
  <2>3. expiresAt[<<q, i>>] > now
    BY <2>2, TokensAreTokens DEF TypeOK
  <2> QED
    BY <2>3 DEF LeaseProtects
<1>4. CASE UNCHANGED vars
  BY <1>4 DEF vars, LeaseProtects, Reentrant
<1> QED
  BY <1>1, <1>2, <1>3, <1>4, LeaseAcquire, LeaseRelease DEF Next, Step

\* Until its TTL passes, whoever is inside withLock(k) is alone in holding k.
THEOREM LeaseAlwaysProtects == Spec => []LeaseProtects
  BY TypeInit, TypeStep, LeaseInit, LeaseStep, PTL DEF Spec

-----------------------------------------------------------------------------
(* Who is lost. *)

\* The promise a parked call awaits is resolved, or still that of a state in
\* the map, or that of a body that outlived its TTL.
WaitInv ==
    \A p \in Proc : pc[p] = "parked" =>
        /\ awaits[p] \in Token
        /\ \/ awaits[p] \in resolved
           \/ \E k \in Key : entry[k] = awaits[p]
           \/ expiresAt[awaits[p]] <= now

LEMMA WaitInit == Init => WaitInv
  BY DEF Init, WaitInv

\* An expired state may be taken over; any other stays where its waiters see it.
LEMMA WaitAcquire ==
    ASSUME TypeOK, WaitInv, NEW p \in Proc, Acquire(p)
    PROVE  WaitInv'
<1> DEFINE t == <<p, depth[p] + 1>>
           k == NextKey(p)
<1>1. pc[p] = "acquire" /\ Available(k) /\ UNCHANGED <<resolved, awaits, now>>
  BY DEF Acquire
<1>2. t \in Token /\ k \in Key
  BY <1>1, NextLevel
<1>3. entry' = [entry EXCEPT ![k] = t] /\ expiresAt' = [expiresAt EXCEPT ![t] = now + TTL]
  BY DEF Acquire
<1>4. pc' = [pc EXCEPT ![p] = IF depth[p] + 1 = Len(Plan[p]) THEN "body" ELSE "acquire"]
  BY DEF Acquire, Enter
<1>5. entry'[k] = t
  BY <1>2, <1>3 DEF TypeOK
<1> HIDE DEF t, k
<1> SUFFICES ASSUME NEW q \in Proc, pc'[q] = "parked"
             PROVE  /\ awaits[q] \in Token
                    /\ \/ awaits[q] \in resolved
                       \/ \E j \in Key : entry'[j] = awaits[q]
                       \/ expiresAt'[awaits[q]] <= now
  BY <1>1 DEF WaitInv
<1>6. pc[q] = "parked"
  BY <1>4 DEF TypeOK
<1>7. awaits[q] \in Token
  BY <1>6 DEF WaitInv
<1>8. CASE awaits[q] = t
  BY <1>2, <1>5, <1>7, <1>8
<1>9. CASE awaits[q] # t
  <2>1. expiresAt'[awaits[q]] = expiresAt[awaits[q]]
    BY <1>3, <1>7, <1>9 DEF TypeOK
  <2>2. ASSUME NEW j \in Key, entry[j] = awaits[q], j # k
        PROVE  entry'[j] = awaits[q]
    BY <1>3, <2>2 DEF TypeOK
  <2>3. ASSUME entry[k] = awaits[q]
        PROVE  expiresAt[awaits[q]] <= now
    BY <1>1, <1>7, <2>3, TokenAssumption DEF Available
  <2> QED
    BY <1>6, <1>7, <2>1, <2>2, <2>3 DEF WaitInv
<1> QED
  BY <1>8, <1>9

\* Whoever takes a state out of the map resolves its promise.
LEMMA WaitRelease ==
    ASSUME TypeOK, WaitInv, NEW p \in Proc, Release(p)
    PROVE  WaitInv'
<1> DEFINE k == Plan[p][depth[p]]
<1>1. k \in Key
  BY OpenLevel DEF Release
<1>2. UNCHANGED <<expiresAt, awaits, now>>
  BY DEF Release
<1>3. \A q \in Proc : pc'[q] = "parked" => pc[q] = "parked"
  BY DEF Release, TypeOK
<1>4. CASE Owns(p, depth[p])
  <2>1. entry' = [entry EXCEPT ![k] = NoToken]
    BY <1>4 DEF Release
  <2>2. resolved' = resolved \union {<<p, depth[p]>>}
    BY <1>4 DEF Release, ResolvedBy
  <2>3. entry[k] = <<p, depth[p]>>
    BY <1>4 DEF Owns
  <2>4. ASSUME NEW j \in Key PROVE entry[j] \in resolved' \/ entry'[j] = entry[j]
    BY <2>1, <2>2, <2>3 DEF TypeOK
  <2> HIDE DEF k
  <2> QED
    BY <1>2, <1>3, <2>2, <2>4 DEF WaitInv
<1>5. CASE ~Owns(p, depth[p])
  <2>1. entry' = entry /\ resolved' = resolved
    BY <1>5 DEF Release, ResolvedBy
  <2> QED
    BY <1>2, <1>3, <2>1 DEF WaitInv
<1> QED
  BY <1>4, <1>5

LEMMA WaitPark ==
    ASSUME TypeOK, WaitInv, NEW p \in Proc, Park(p)
    PROVE  WaitInv'
<1>1. pc[p] = "acquire" /\ ~Available(NextKey(p))
  BY DEF Park
<1>2. NextKey(p) \in Key
  BY <1>1, NextLevel
<1>3. entry[NextKey(p)] \in Token
  BY <1>1, <1>2 DEF Available, TypeOK
<1>4. awaits' = [awaits EXCEPT ![p] = entry[NextKey(p)]]
  BY DEF Park
<1>5. pc' = [pc EXCEPT ![p] = "parked"] /\ UNCHANGED <<entry, expiresAt, resolved, now>>
  BY DEF Park
<1> SUFFICES ASSUME NEW q \in Proc, pc'[q] = "parked"
             PROVE  /\ awaits'[q] \in Token
                    /\ \/ awaits'[q] \in resolved
                       \/ \E j \in Key : entry[j] = awaits'[q]
                       \/ expiresAt[awaits'[q]] <= now
  BY <1>5 DEF WaitInv
<1>6. CASE q = p
  BY <1>2, <1>3, <1>4, <1>6 DEF TypeOK
<1>7. CASE q # p
  <2>1. awaits'[q] = awaits[q] /\ pc[q] = "parked"
    BY <1>4, <1>5, <1>7 DEF TypeOK
  <2> QED
    BY <2>1 DEF WaitInv
<1> QED
  BY <1>6, <1>7

LEMMA WaitStep == TypeOK /\ WaitInv /\ [Next]_vars => WaitInv'
<1> SUFFICES ASSUME TypeOK, WaitInv, [Next]_vars PROVE WaitInv'
  OBVIOUS
<1>1. ASSUME NEW p \in Proc, Reenter(p) \/ BodyEnds(p) PROVE WaitInv'
  <2>1. UNCHANGED <<entry, expiresAt, resolved, awaits, now>>
    BY <1>1 DEF Reenter, BodyEnds
  <2>2. \A q \in Proc : pc'[q] = "parked" => pc[q] = "parked"
    BY <1>1 DEF Reenter, BodyEnds, Enter, TypeOK
  <2> QED
    BY <2>1, <2>2 DEF WaitInv
<1>2. ASSUME NEW p \in Proc, Wake(p) PROVE WaitInv'
  <2>1. UNCHANGED <<entry, expiresAt, resolved, now>>
    BY <1>2 DEF Wake
  <2>2. \A q \in Proc : pc'[q] = "parked" => pc[q] = "parked" /\ awaits'[q] = awaits[q]
    BY <1>2 DEF Wake, TypeOK
  <2> QED
    BY <2>1, <2>2 DEF WaitInv
<1>3. CASE Tick
  <2>1. UNCHANGED <<entry, expiresAt, resolved, pc, awaits>> /\ now' = now + 1
    BY <1>3 DEF Tick
  <2>2. \A t \in Token : expiresAt[t] <= now => expiresAt[t] <= now + 1
    BY DEF TypeOK
  <2> QED
    BY <2>1, <2>2 DEF WaitInv
<1>4. CASE UNCHANGED vars
  BY <1>4 DEF vars, WaitInv
<1> QED
  BY <1>1, <1>2, <1>3, <1>4, WaitAcquire, WaitPark, WaitRelease DEF Next, Step

\* A caller waits for ever only behind a body that outlived its TTL.
THEOREM OnlyOverrunOrphans == Spec => []OrphanedOnlyByOverrun
<1>1. WaitInv => OrphanedOnlyByOverrun
  BY DEF WaitInv, OrphanedOnlyByOverrun, Orphaned
<1> QED
  BY <1>1, TypeInit, TypeStep, WaitInit, WaitStep, PTL DEF Spec

-----------------------------------------------------------------------------
(* The map is a lease lock. *)

\* A state in the map was put there by a call that is inside that level now.
HeldInv ==
    \A k \in Key, p \in Proc, i \in 1 .. MaxDepth :
        entry[k] = <<p, i>> => i <= depth[p] /\ Plan[p][i] = k /\ ~Reentrant(p, i)

LEMMA HeldInit == Init => HeldInv
<1> SUFFICES ASSUME Init, NEW k \in Key, NEW p \in Proc, NEW i \in 1 .. MaxDepth,
                    entry[k] = <<p, i>>
             PROVE  FALSE
  BY DEF HeldInv
<1> QED
  BY TokensAreTokens DEF Init

LEMMA HeldAcquire ==
    ASSUME TypeOK, HeldInv, NEW p \in Proc, Acquire(p)
    PROVE  HeldInv'
<1> DEFINE t == <<p, depth[p] + 1>>
<1>1. pc[p] = "acquire" /\ ~Reentrant(p, depth[p] + 1)
  BY DEF Acquire
<1>2. entry' = [entry EXCEPT ![NextKey(p)] = t] /\ depth' = [depth EXCEPT ![p] = @ + 1]
  BY DEF Acquire, Enter
<1>3. depth[p] \in Nat /\ NextKey(p) \in Key
  BY <1>1, NextLevel
<1> SUFFICES ASSUME NEW k \in Key, NEW q \in Proc, NEW i \in 1 .. MaxDepth,
                    entry'[k] = <<q, i>>
             PROVE  i <= depth'[q] /\ Plan[q][i] = k /\ ~Reentrant(q, i)
  BY DEF HeldInv, Reentrant
<1>4. CASE k = NextKey(p)
  <2>1. q = p /\ i = depth[p] + 1
    BY <1>2, <1>3, <1>4 DEF TypeOK
  <2> QED
    BY <1>1, <1>2, <1>3, <1>4, <2>1 DEF TypeOK, NextKey
<1>5. CASE k # NextKey(p)
  <2>1. entry[k] = <<q, i>>
    BY <1>2, <1>5 DEF TypeOK
  <2>2. i <= depth[q] /\ Plan[q][i] = k /\ ~Reentrant(q, i)
    BY <2>1 DEF HeldInv
  <2>3. depth'[q] >= depth[q] /\ depth[q] \in Nat
    BY <1>2 DEF TypeOK
  <2> QED
    BY <1>2, <2>2, <2>3 DEF TypeOK
<1> QED
  BY <1>4, <1>5

LEMMA HeldRelease ==
    ASSUME TypeOK, HeldInv, NEW p \in Proc, Release(p)
    PROVE  HeldInv'
<1>1. depth[p] \in 1 .. MaxDepth /\ Plan[p][depth[p]] \in Key
  BY OpenLevel DEF Release
<1>2. depth' = [depth EXCEPT ![p] = depth[p] - 1]
  BY DEF Release
<1>3. entry' = IF Owns(p, depth[p]) THEN [entry EXCEPT ![Plan[p][depth[p]]] = NoToken] ELSE entry
  BY DEF Release
<1> SUFFICES ASSUME NEW k \in Key, NEW q \in Proc, NEW i \in 1 .. MaxDepth,
                    entry'[k] = <<q, i>>
             PROVE  i <= depth'[q] /\ Plan[q][i] = k /\ ~Reentrant(q, i)
  BY DEF HeldInv, Reentrant
<1>4. <<q, i>> # NoToken
  BY TokensAreTokens
<1>5. entry[k] = <<q, i>>
  BY <1>1, <1>3, <1>4 DEF TypeOK
<1>6. i <= depth[q] /\ Plan[q][i] = k /\ ~Reentrant(q, i)
  BY <1>5 DEF HeldInv
<1>7. CASE q = p /\ i = depth[p]
  <2>1. Owns(p, depth[p])
    BY <1>5, <1>6, <1>7 DEF Owns
  <2>2. entry'[k] = NoToken
    BY <1>1, <1>3, <1>6, <1>7, <2>1 DEF TypeOK
  <2> QED
    BY <1>4, <2>2
<1>8. CASE ~(q = p /\ i = depth[p])
  BY <1>1, <1>2, <1>6, <1>8 DEF TypeOK
<1> QED
  BY <1>7, <1>8

LEMMA HeldStep == TypeOK /\ HeldInv /\ [Next]_vars => HeldInv'
<1> SUFFICES ASSUME TypeOK, HeldInv, [Next]_vars PROVE HeldInv'
  OBVIOUS
<1>1. ASSUME NEW p \in Proc, Reenter(p) PROVE HeldInv'
  <2>1. entry' = entry /\ depth' = [depth EXCEPT ![p] = @ + 1]
    BY <1>1 DEF Reenter, Enter
  <2>2. \A q \in Proc : depth'[q] \in Nat /\ depth[q] \in Nat /\ depth[q] <= depth'[q]
    BY <2>1 DEF TypeOK
  <2> SUFFICES ASSUME NEW k \in Key, NEW q \in Proc, NEW i \in 1 .. MaxDepth,
                      entry[k] = <<q, i>>
               PROVE  i <= depth'[q] /\ Plan[q][i] = k /\ ~Reentrant(q, i)
    BY <2>1 DEF HeldInv, Reentrant
  <2>3. i <= depth[q] /\ Plan[q][i] = k /\ ~Reentrant(q, i)
    BY DEF HeldInv
  <2> QED
    BY <2>2, <2>3
<1>2. CASE \/ \E p \in Proc : Park(p) \/ Wake(p) \/ BodyEnds(p)
           \/ Tick \/ UNCHANGED vars
  <2>1. entry' = entry /\ depth' = depth
    BY <1>2 DEF Park, Wake, BodyEnds, Tick, vars
  <2> QED
    BY <2>1 DEF HeldInv, Reentrant
<1> QED
  BY <1>1, <1>2, HeldAcquire, HeldRelease DEF Next, Step

\* LeaseLock's `ends' and `open'.
endsBar == [k \in Key |-> IF entry[k] = NoToken THEN 0 ELSE expiresAt[entry[k]]]

openBar == [k \in Key |-> Inside(k)]

\* What one call does at one level moves that level's token in or out of its key,
\* and leaves every other token where it was.
LEMMA InsideMoves ==
    ASSUME TypeOK, NEW p \in Proc, NEW i \in 1 .. MaxDepth,
           \A q \in Proc, j \in 1 .. MaxDepth :
               <<q, j>> # <<p, i>> => (j <= depth'[q] <=> j <= depth[q])
    PROVE  /\ i <= depth'[p] /\ ~Reentrant(p, i) =>
                  openBar' = [openBar EXCEPT ![Plan[p][i]] = @ \union {<<p, i>>}]
           /\ ~(i <= depth'[p]) /\ ~Reentrant(p, i) =>
                  openBar' = [openBar EXCEPT ![Plan[p][i]] = @ \ {<<p, i>>}]
           /\ Reentrant(p, i) => openBar' = openBar
<1>1. ASSUME NEW k \in Key, NEW q \in Proc, NEW j \in 1 .. MaxDepth
      PROVE  /\ <<q, j>> \in Inside(k) <=>
                    j <= depth[q] /\ Plan[q][j] = k /\ ~Reentrant(q, j)
             /\ <<q, j>> \in Inside(k)' <=>
                    j <= depth'[q] /\ Plan[q][j] = k /\ ~Reentrant(q, j)
  BY DEF Inside, Token, Reentrant
<1>2. \A k \in Key : Inside(k) \subseteq Token /\ Inside(k)' \subseteq Token
  BY DEF Inside
<1>3. \A t \in Token : \E q \in Proc, j \in 1 .. MaxDepth : t = <<q, j>>
  BY DEF Token
<1>4. ASSUME i <= depth'[p], ~Reentrant(p, i), NEW k \in Key
      PROVE  Inside(k)' = IF k = Plan[p][i] THEN Inside(k) \union {<<p, i>>} ELSE Inside(k)
  <2>1. <<p, i>> \in Token
    BY TokensAreTokens
  <2>2. ASSUME NEW q \in Proc, NEW j \in 1 .. MaxDepth
        PROVE  <<q, j>> \in Inside(k)' <=>
                   <<q, j>> \in Inside(k) \/ (k = Plan[p][i] /\ <<q, j>> = <<p, i>>)
    BY <1>1, <1>4
  <2>3. \A t \in Token : t \in Inside(k)' <=> t \in Inside(k) \/ (k = Plan[p][i] /\ t = <<p, i>>)
    BY <1>3, <2>2
  <2> QED
    BY <1>2, <2>1, <2>3
<1>5. ASSUME ~(i <= depth'[p]), ~Reentrant(p, i), NEW k \in Key
      PROVE  Inside(k)' = IF k = Plan[p][i] THEN Inside(k) \ {<<p, i>>} ELSE Inside(k)
  <2>1. ASSUME NEW q \in Proc, NEW j \in 1 .. MaxDepth
        PROVE  <<q, j>> \in Inside(k)' <=>
                   <<q, j>> \in Inside(k) /\ ~(k = Plan[p][i] /\ <<q, j>> = <<p, i>>)
    BY <1>1, <1>5
  <2>2. \A t \in Token : t \in Inside(k)' <=> t \in Inside(k) /\ ~(k = Plan[p][i] /\ t = <<p, i>>)
    BY <1>3, <2>1
  <2>3. CASE k = Plan[p][i]
    BY <1>2, <2>2, <2>3
  <2>4. CASE k # Plan[p][i]
    BY <1>2, <2>2, <2>4
  <2> QED
    BY <2>3, <2>4
<1>6. ASSUME Reentrant(p, i), NEW k \in Key
      PROVE  Inside(k)' = Inside(k)
  <2>1. ASSUME NEW q \in Proc, NEW j \in 1 .. MaxDepth
        PROVE  <<q, j>> \in Inside(k)' <=> <<q, j>> \in Inside(k)
    BY <1>1, <1>6
  <2>2. \A t \in Token : t \in Inside(k)' <=> t \in Inside(k)
    BY <1>3, <2>1
  <2> QED
    BY <1>2, <2>2
<1> QED
  BY <1>4, <1>5, <1>6 DEF openBar

\* The token is new to the map, so its expiry changes no other key's, and new to
\* withLock, since its call is not yet that deep.
LEMMA AcquireImplements ==
    ASSUME TypeOK, HeldInv, NEW p \in Proc, Acquire(p)
    PROVE  Leases!Next
<1> PICK k \in Key, t \in Token : k = NextKey(p) /\ t = <<p, depth[p] + 1>>
  BY NextLevel DEF Acquire
<1>1. pc[p] = "acquire" /\ Available(k) /\ now' = now /\ ~Reentrant(p, depth[p] + 1)
  BY DEF Acquire
<1>2. t \in Token /\ k \in Key /\ depth[p] \in Nat /\ depth[p] + 1 \in 1 .. MaxDepth
  BY <1>1, NextLevel
<1>3. entry' = [entry EXCEPT ![k] = t] /\ expiresAt' = [expiresAt EXCEPT ![t] = now + TTL]
  BY DEF Acquire
<1>4. \A j \in Key : entry[j] # t
  BY <1>2 DEF HeldInv
<1>5. t # NoToken
  BY <1>2, TokenAssumption
<1>6. entry[k] = NoToken \/ endsBar[k] <= now
  BY <1>1, <1>2 DEF Available, endsBar
<1>7. endsBar' = [endsBar EXCEPT ![k] = now + TTL]
  <2>1. ASSUME NEW j \in Key
        PROVE  (IF entry'[j] = NoToken THEN 0 ELSE expiresAt'[entry'[j]])
                   = IF j = k THEN now + TTL ELSE endsBar[j]
    <3>1. CASE j = k
      BY <1>2, <1>3, <1>5, <3>1 DEF TypeOK
    <3>2. CASE j # k
      BY <1>3, <1>4, <3>2 DEF TypeOK, endsBar
    <3> QED
      BY <3>1, <3>2
  <2> QED
    BY <1>2, <2>1 DEF endsBar
<1>8. \A j \in Key : t \notin openBar[j]
  BY <1>2 DEF openBar, Inside
<1>9. openBar' = [openBar EXCEPT ![k] = @ \union {t}]
  <2>1. depth' = [depth EXCEPT ![p] = depth[p] + 1]
    BY DEF Acquire, Enter
  <2>2. depth'[p] = depth[p] + 1 /\ \A q \in Proc \ {p} : depth'[q] = depth[q]
    BY <2>1 DEF TypeOK
  <2>3. \A q \in Proc, j \in 1 .. MaxDepth :
            <<q, j>> # <<p, depth[p] + 1>> => (j <= depth'[q] <=> j <= depth[q])
    BY <1>2, <2>2
  <2>4. depth[p] + 1 <= depth'[p]
    BY <1>2, <2>2
  <2> QED
    BY <1>1, <1>2, <2>3, <2>4, InsideMoves DEF NextKey
<1>10. Leases!Acquire(k, t)
  BY <1>1, <1>3, <1>6, <1>7, <1>8, <1>9 DEF Leases!Acquire, endsBar, openBar
<1> QED
  BY <1>2, <1>10 DEF Leases!Next

\* A call that owns its key frees it; one that does not, because another has taken
\* the key over, only leaves; a level that was reentered was never inside by itself.
LEMMA ReleaseImplements ==
    ASSUME TypeOK, NEW p \in Proc, Release(p)
    PROVE  Leases!Next \/ UNCHANGED <<entry, endsBar, openBar, now>>
<1> PICK k \in Key, t \in Token : k = Plan[p][depth[p]] /\ t = <<p, depth[p]>>
  BY OpenLevel DEF Release
<1>1. UNCHANGED <<expiresAt, now>> /\ depth[p] \in 1 .. MaxDepth
  BY OpenLevel DEF Release
<1>2. entry' = IF Owns(p, depth[p]) THEN [entry EXCEPT ![k] = NoToken] ELSE entry
  BY DEF Release
<1>3. /\ ~Reentrant(p, depth[p]) => openBar' = [openBar EXCEPT ![k] = @ \ {t}]
      /\ Reentrant(p, depth[p]) => openBar' = openBar
  <2>1. depth' = [depth EXCEPT ![p] = depth[p] - 1]
    BY DEF Release
  <2>2. depth'[p] = depth[p] - 1 /\ \A q \in Proc \ {p} : depth'[q] = depth[q]
    BY <2>1 DEF TypeOK
  <2>3. \A q \in Proc, j \in 1 .. MaxDepth :
            <<q, j>> # <<p, depth[p]>> => (j <= depth'[q] <=> j <= depth[q])
    BY <1>1, <2>2
  <2>4. ~(depth[p] <= depth'[p])
    BY <1>1, <2>2
  <2> QED
    BY <1>1, <2>3, <2>4, InsideMoves
<1>4. ~Reentrant(p, depth[p]) => t \in openBar[k]
  BY <1>1 DEF openBar, Inside
<1>5. CASE Owns(p, depth[p])
  <2>1. entry' = [entry EXCEPT ![k] = NoToken]
    BY <1>2, <1>5
  <2>2. endsBar' = [endsBar EXCEPT ![k] = 0]
    BY <1>1, <2>1 DEF TypeOK, endsBar
  <2>3. ~Reentrant(p, depth[p]) /\ entry[k] = t
    BY <1>5 DEF Owns
  <2>4. Leases!Release(k, t)
    BY <1>1, <1>3, <1>4, <2>1, <2>2, <2>3 DEF Leases!Release, endsBar, openBar
  <2> QED
    BY <2>4 DEF Leases!Next
<1>6. CASE ~Owns(p, depth[p]) /\ ~Reentrant(p, depth[p])
  <2>1. entry' = entry /\ endsBar' = endsBar
    BY <1>1, <1>2, <1>6 DEF endsBar
  <2>2. entry[k] # t
    BY <1>6 DEF Owns
  <2>3. Leases!LeaveLate(k, t)
    BY <1>1, <1>3, <1>4, <1>6, <2>1, <2>2 DEF Leases!LeaveLate, endsBar, openBar
  <2> QED
    BY <2>3 DEF Leases!Next
<1>7. CASE ~Owns(p, depth[p]) /\ Reentrant(p, depth[p])
  BY <1>1, <1>2, <1>3, <1>7 DEF endsBar
<1> QED
  BY <1>5, <1>6, <1>7

\* A reentered level adds nobody: its key is that of a level around it.
LEMMA ReenterImplements ==
    ASSUME TypeOK, NEW p \in Proc, Reenter(p)
    PROVE  UNCHANGED <<entry, endsBar, openBar, now>>
<1>1. UNCHANGED <<entry, expiresAt, now>> /\ Reentrant(p, depth[p] + 1) /\ pc[p] = "acquire"
  BY DEF Reenter
<1>2. depth' = [depth EXCEPT ![p] = depth[p] + 1]
  BY DEF Reenter, Enter
<1>3. depth[p] \in Nat /\ depth[p] + 1 \in 1 .. MaxDepth
  BY <1>1, NextLevel
<1>4. depth'[p] = depth[p] + 1 /\ \A q \in Proc \ {p} : depth'[q] = depth[q]
  BY <1>2 DEF TypeOK
<1>5. \A q \in Proc, j \in 1 .. MaxDepth :
          <<q, j>> # <<p, depth[p] + 1>> => (j <= depth'[q] <=> j <= depth[q])
  BY <1>3, <1>4
<1>6. openBar' = openBar
  BY <1>1, <1>3, <1>5, InsideMoves
<1> QED
  BY <1>1, <1>6 DEF endsBar

\* Every step of the calls is a step of the lease lock, or none of its business: a
\* key is freed by the call that has it, before its time passes as after.
THEOREM IsLeaseLock == Spec => LeaseLockSpec
<1>1. Init => Leases!Init
  <2>1. Init => endsBar = [k \in Key |-> 0]
    BY DEF Init, endsBar
  <2>2. Init => openBar = [k \in Key |-> {}]
    BY DEF Init, openBar, Inside, Token
  <2> QED
    BY <2>1, <2>2 DEF Init, Leases!Init, endsBar, openBar
<1>2. TypeOK /\ HeldInv /\ [Next]_vars => [Leases!Next]_<<entry, endsBar, openBar, now>>
  <2> SUFFICES ASSUME TypeOK, HeldInv, [Next]_vars
               PROVE  Leases!Next \/ UNCHANGED <<entry, endsBar, openBar, now>>
    OBVIOUS
  <2>1. ASSUME NEW p \in Proc, Park(p) \/ Wake(p) \/ BodyEnds(p)
        PROVE  UNCHANGED <<entry, endsBar, openBar, now>>
    <3>1. UNCHANGED <<entry, expiresAt, depth, now>>
      BY <2>1 DEF Park, Wake, BodyEnds
    <3> QED
      BY <3>1 DEF endsBar, openBar, Inside, Reentrant
  <2>2. CASE Tick
    <3>1. UNCHANGED <<entry, expiresAt, depth>> /\ now' = now + 1
      BY <2>2 DEF Tick
    <3>2. endsBar' = endsBar /\ openBar' = openBar
      BY <3>1 DEF endsBar, openBar, Inside, Reentrant
    <3> QED
      BY <3>1, <3>2 DEF Leases!Tick, Leases!Next, endsBar, openBar
  <2>3. CASE UNCHANGED vars
    BY <2>3 DEF vars, endsBar, openBar, Inside, Reentrant
  <2> QED
    BY <2>1, <2>2, <2>3, AcquireImplements, ReleaseImplements, ReenterImplements DEF Next, Step
<1>3. [Leases!Next]_<<entry, endsBar, openBar, now>>
          <=> [Leases!Next]_<<entry, [k \in Key |-> IF entry[k] = NoToken THEN 0
                                                    ELSE expiresAt[entry[k]]],
                              [k \in Key |-> Inside(k)], now>>
  BY DEF endsBar, openBar
<1> QED
  BY <1>1, <1>2, <1>3, TypeInit, TypeStep, HeldInit, HeldStep, PTL
     DEF Spec, LeaseLockSpec, Leases!Spec

-----------------------------------------------------------------------------
(* Who waits for whom. *)

Waiting(p) == pc[p] = "parked" /\ awaits[p] \notin resolved

\* The call whose state p found in the map.
Holder(p) == awaits[p][1]

\* Nested locks are taken in an order: outside a key that a plan does take, and not
\* just reenters, are lower ones only.
Ordered(order) ==
    \A p \in Proc : \A j \in 1 .. Len(Plan[p]) : \A i \in 1 .. (j - 1) :
        ~Reentrant(p, j) => order[Plan[p][i]] < order[Plan[p][j]]

\* Of calls that all wait, one waits for a call that is none of them and has not
\* ended, unless one of them is lost.
NoCircularWait ==
    \A waiters \in (SUBSET Proc) \ {{}} :
        (\A p \in waiters : Waiting(p)) =>
            \E p \in waiters :
                \/ Orphaned(p)
                \/ Holder(p) \in Proc \ waiters /\ pc[Holder(p)] # "done"

\* A parked call takes the key it waits for, and does not just reenter it; what it
\* awaits is a state of that key.  A call that has ended is inside of nothing.
ParkInv ==
    /\ \A p \in Proc : pc[p] = "parked" =>
           /\ ~Reentrant(p, depth[p] + 1)
           /\ Plan[awaits[p][1]][awaits[p][2]] = NextKey(p)
    /\ \A p \in Proc : pc[p] = "done" => depth[p] = 0

LEMMA ParkInit == Init => ParkInv
  BY DEF Init, ParkInv

LEMMA ParkStep == TypeOK /\ HeldInv /\ ParkInv /\ [Next]_vars => ParkInv'
<1> SUFFICES ASSUME TypeOK, HeldInv, ParkInv, [Next]_vars PROVE ParkInv'
  OBVIOUS
\* Who does not park now is at the level where it parked, and awaits what it did.
<1>1. ASSUME \A q \in Proc : pc'[q] = "parked" =>
                 pc[q] = "parked" /\ depth'[q] = depth[q] /\ awaits'[q] = awaits[q],
             \A q \in Proc : pc'[q] = "done" => depth'[q] = 0
      PROVE  ParkInv'
  BY <1>1 DEF ParkInv, Reentrant, NextKey
<1>2. ASSUME NEW p \in Proc, Reenter(p) \/ Acquire(p) PROVE ParkInv'
  <2>1. awaits' = awaits /\ Enter(p)
    BY <1>2 DEF Reenter, Acquire
  <2>2. pc'[p] \in {"body", "acquire"}
    BY <2>1 DEF Enter, TypeOK
  <2>3. \A q \in Proc \ {p} : pc'[q] = pc[q] /\ depth'[q] = depth[q]
    BY <2>1 DEF Enter, TypeOK
  <2> QED
    BY <1>1, <2>1, <2>2, <2>3 DEF ParkInv
<1>3. ASSUME NEW p \in Proc, Park(p) PROVE ParkInv'
  <2>1. /\ pc[p] = "acquire" /\ ~Reentrant(p, depth[p] + 1) /\ ~Available(NextKey(p))
        /\ pc' = [pc EXCEPT ![p] = "parked"]
        /\ awaits' = [awaits EXCEPT ![p] = entry[NextKey(p)]]
        /\ depth' = depth
    BY <1>3 DEF Park
  <2>2. NextKey(p) \in Key /\ entry[NextKey(p)] \in Token
    BY <2>1, NextLevel DEF Available, TypeOK
  <2>3. PICK q \in Proc, i \in 1 .. MaxDepth : entry[NextKey(p)] = <<q, i>>
    BY <2>2 DEF Token
  <2>4. Plan[q][i] = NextKey(p)
    BY <2>2, <2>3 DEF HeldInv
  <2>5. awaits'[p] = <<q, i>>
    BY <2>1, <2>3 DEF TypeOK
  <2>6. \A r \in Proc \ {p} : pc'[r] = pc[r] /\ awaits'[r] = awaits[r]
    BY <2>1 DEF TypeOK
  <2>7. pc'[p] = "parked"
    BY <2>1 DEF TypeOK
  <2>8. \A r \in Proc : NextKey(r)' = NextKey(r) /\ (Reentrant(r, depth[r] + 1)' <=> Reentrant(r, depth[r] + 1))
    BY <2>1 DEF NextKey, Reentrant
  <2>9. <<q, i>>[1] = q /\ <<q, i>>[2] = i
    OBVIOUS
  <2>10. Plan[awaits'[p][1]][awaits'[p][2]] = NextKey(p)
    BY <2>4, <2>5, <2>9
  <2>11. \A r \in Proc : pc'[r] = "parked" =>
             ~Reentrant(r, depth[r] + 1) /\ Plan[awaits'[r][1]][awaits'[r][2]] = NextKey(r)
    BY <2>1, <2>6, <2>10 DEF ParkInv
  <2>12. \A r \in Proc : pc'[r] = "done" => depth'[r] = 0
    BY <2>1, <2>6, <2>7 DEF ParkInv
  <2> QED
    BY <2>8, <2>11, <2>12 DEF ParkInv
<1>4. ASSUME NEW p \in Proc, Wake(p) \/ BodyEnds(p) PROVE ParkInv'
  BY <1>1, <1>4 DEF Wake, BodyEnds, ParkInv, TypeOK
<1>5. ASSUME NEW p \in Proc, Release(p) PROVE ParkInv'
  <2>1. /\ depth' = [depth EXCEPT ![p] = depth[p] - 1]
        /\ pc' = [pc EXCEPT ![p] = IF depth[p] = 1 THEN "done" ELSE "unwind"]
        /\ awaits' = awaits
    BY <1>5 DEF Release
  <2>2. pc'[p] # "parked" /\ (pc'[p] = "done" => depth'[p] = 0)
    BY <2>1 DEF TypeOK
  <2>3. \A q \in Proc \ {p} : pc'[q] = pc[q] /\ depth'[q] = depth[q]
    BY <2>1 DEF TypeOK
  <2> QED
    BY <1>1, <2>1, <2>2, <2>3 DEF ParkInv
<1>6. CASE Tick \/ UNCHANGED vars
  BY <1>6 DEF Tick, vars, ParkInv, Reentrant, NextKey
<1> QED
  BY <1>2, <1>3, <1>4, <1>5, <1>6 DEF Next, Step

\* Of the calls in a set, one is about to take a highest key.
LEMMA HighestKey ==
    ASSUME NEW order, NEW top \in Nat, order \in [Key -> 0 .. top],
           NEW waiters, waiters # {}, \A p \in waiters : NextKey(p) \in Key
    PROVE  \E p \in waiters : \A q \in waiters : order[NextKey(q)] <= order[NextKey(p)]
<1> DEFINE Below(p) == top - order[NextKey(p)]
           T == {Below(p) : p \in waiters}
<1>1. \A p \in waiters : Below(p) \in Nat /\ order[NextKey(p)] \in Nat
  OBVIOUS
<1>2. T \subseteq Nat /\ T # {}
  BY <1>1
<1> DEFINE less == OpToRel(<, Nat)
<1>3. IsWellFoundedOn(less, Nat) /\ \A x, y \in Nat : y < x => <<y, x>> \in less
  BY NatLessThanWellFounded DEF OpToRel
<1>4. PICK x \in T : \A y \in T : x <= y
  <2> HIDE DEF T, less
  <2>1. PICK x \in T : \A y \in T : <<y, x>> \notin less
    BY <1>2, <1>3, WFMin
  <2>2. ASSUME NEW y \in T PROVE x <= y
    <3>1. x \in Nat /\ y \in Nat /\ <<y, x>> \notin less
      BY <1>2, <2>1
    <3>2. ~(y < x)
      BY <1>3, <3>1
    <3> QED
      BY <3>1, <3>2
  <2> QED
    BY <2>2
<1>5. PICK p \in waiters : x = Below(p)
  BY <1>4
<1>6. \A q \in waiters : Below(p) <= Below(q)
  BY <1>4, <1>5
<1> QED
  BY <1>1, <1>6

\* Calls that take their keys in one order, as actor: comes before quote: in
\* executeApprovedQuote, never wait for each other in a circle: an expired lock that
\* was taken over, a release that does not own its key and reentrant levels included.
THEOREM OrderedNeverCircular ==
    ASSUME NEW order, NEW top \in Nat, order \in [Key -> 0 .. top], Ordered(order)
    PROVE  Spec => []NoCircularWait
<1>1. ASSUME TypeOK, WaitInv, HeldInv, ParkInv PROVE NoCircularWait
  <2> SUFFICES ASSUME NEW waiters \in (SUBSET Proc) \ {{}},
                      \A p \in waiters : Waiting(p),
                      \A p \in waiters : ~Orphaned(p)
               PROVE  \E p \in waiters : Holder(p) \in Proc \ waiters /\ pc[Holder(p)] # "done"
    BY DEF NoCircularWait
  <2>1. \A p \in waiters : p \in Proc /\ pc[p] = "parked"
    BY DEF Waiting
  <2>2. PICK p \in waiters : \A q \in waiters : order[NextKey(q)] <= order[NextKey(p)]
    BY <1>1, <2>1, NextLevel, HighestKey
  <2>3. PICK k \in Key : entry[k] = awaits[p]
    BY <2>1 DEF Orphaned, Waiting
  <2>4. PICK r \in Proc, i \in 1 .. MaxDepth : awaits[p] = <<r, i>>
    BY <1>1, <2>1 DEF WaitInv, Token
  <2>5. i <= depth[r] /\ Plan[r][i] = k
    BY <1>1, <2>3, <2>4 DEF HeldInv
  <2>6. k = NextKey(p)
    BY <1>1, <2>1, <2>4, <2>5 DEF ParkInv
  <2>7. pc[r] # "done"
    BY <1>1, <2>5 DEF ParkInv, TypeOK
  <2>8. ASSUME r \in waiters PROVE FALSE
    <3>1. /\ depth[r] \in Nat /\ depth[r] + 1 \in 1 .. Len(Plan[r])
          /\ ~Reentrant(r, depth[r] + 1)
          /\ NextKey(r) = Plan[r][depth[r] + 1]
      BY <1>1, <2>1, <2>8, NextLevel DEF ParkInv, NextKey
    <3>2. order[Plan[r][i]] < order[NextKey(r)]
      BY <2>5, <3>1 DEF Ordered
    <3>3. order[NextKey(r)] <= order[NextKey(p)]
      BY <2>2, <2>8
    <3>4. NextKey(r) \in Key /\ NextKey(p) \in Key
      BY <1>1, <2>1, <2>8, NextLevel
    <3> QED
      BY <2>5, <2>6, <3>2, <3>3, <3>4
  <2> QED
    BY <2>4, <2>7, <2>8 DEF Holder
<1>2. TypeOK /\ WaitInv /\ HeldInv /\ ParkInv => NoCircularWait
  BY <1>1
<1> QED
  BY <1>2, TypeInit, TypeStep, WaitInit, WaitStep, HeldInit, HeldStep, ParkInit, ParkStep, PTL DEF Spec

=============================================================================
