--------------------------- MODULE WalletKeysProofs ---------------------------
(***************************************************************************)
(* For any commands and keys, until a CLI call outlives its lock: no key   *)
(* is overwritten, none whose address was shown is lost unless a process   *)
(* died while it stored it, and a freeze of a wallet with a key lasts.     *)
(* When one call did, a key may be overwritten but stays a version.  In    *)
(* any case, the versions of the key are a history.                        *)
(***************************************************************************)
EXTENDS WalletKeys, TLAPS

-----------------------------------------------------------------------------
(* The invariant. *)

\* A key comes with everything getOrCreate asks for, and no version before it.
RowInv ==
    /\ row.key # NoKey => Ready(row)
    /\ row.key = NoKey => versions = {}
    /\ versions = {} => row.version = 0

\* Until a call outlives its lock: while the CLI runs for a command that provisions, the
\* wallet has no key but that in the file, and the address reported is that key's.
FlightInv ==
    \A h \in Handler : pc[h] \in {"spawned", "ran"} =>
        /\ holder = h
        /\ row.key = NoKey /\ snap[h].key = NoKey
        /\ pc[h] = "ran" => told[h] \in {NoKey, file}

Safe == Kept \union torn

\* Every key a command knows, and every address that was shown, is safe.
SafeInv ==
    /\ published \subseteq Safe
    /\ row.address \in Safe \union {NoKey}
    /\ \A h \in Handler : {snap[h].key, snap[h].address, told[h]} \subseteq Safe \union {NoKey}

NeverRotated == \A v \in versions : v.no = 1

\* Commands that show a user's address work on a row with its key.
PrivateInv ==
    kind = "private" /\ NeverRotated =>
        /\ row.key # NoKey => row.address = row.key
        /\ \A h \in Handler : pc[h] \in {"asking", "answered"} =>
               /\ row.key # NoKey
               /\ snap[h].key = row.key /\ snap[h].address = row.key
               /\ pc[h] = "answered" => told[h] \in {NoKey, row.key}

ActiveInv ==
    row.key # NoKey /\ row.key \notin torn /\ versions # {} =>
        \E v \in versions :
            /\ v.key = row.key
            /\ row.version \in {0, v.no}
            /\ \A w \in versions : w.active <=> w = v

InFlight(h) == pc[h] \in {"spawned", "ran"}

\* The row's key is among the versions, or was when a process died.
Backed == row.key = NoKey \/ versions = {} \/ row.key \in {v.key : v \in versions} \union torn

\* When one call outlived its lock, it and whoever took the lock may provision at once;
\* once either has stored its key, the other is alone, and that key is backed.
PairInv ==
    /\ \A g, h \in Handler :
           InFlight(g) /\ InFlight(h) /\ g # h => row.key = NoKey /\ holder \in {g, h}
    /\ \A h \in Handler : InFlight(h) => Backed

\* The versions are numbered 1 to n.
Numbered == \E n \in Nat : {v.no : v \in versions} = 1 .. n

-----------------------------------------------------------------------------
(* Types. *)

CommandTypes ==
    /\ pc \in [Handler -> {"idle", "waiting", "spawned", "ran", "asking", "answered",
                           "orphan", "done"}]
    /\ wants \in [Handler -> {"wallet", "address"}]
    /\ snap \in [Handler -> Row]
    /\ told \in [Handler -> Key \union {NoKey}]

\* A version's number is one that arithmetic knows.
NextNo == Max({v.no : v \in Retired \union {FirstVersion(NoKey)}}) + 1

CalmInv == FlightInv /\ SafeInv /\ ActiveInv /\ PrivateInv

IInv ==
    /\ TypeOK /\ Numbered /\ RowInv
    /\ overruns = 0 => CalmInv
    /\ overruns <= 1 => PairInv

LEMMA NoRowType == NoRow \in Row /\ NoRow.key = NoKey /\ NoRow.address = NoKey
                   /\ NoRow.status = "none" /\ NoRow.version = 0
  BY DEF NoRow, Row

LEMMA LeaveTypes ==
    ASSUME TypeOK, NEW h \in Handler, Leave(h)
    PROVE  CommandTypes' /\ pc' = [pc EXCEPT ![h] = "done"]
  BY NoRowType DEF Leave, Goto, TypeOK, CommandTypes

LEMMA ServedTypes ==
    ASSUME TypeOK, NEW h \in Handler, NEW r \in Row, Served(h, r)
    PROVE  CommandTypes' /\ pc' \in {[pc EXCEPT ![h] = "done"], [pc EXCEPT ![h] = "asking"]}
  BY LeaveTypes DEF Served, Goto, TypeOK, CommandTypes

\* A step after which h, if anyone, no longer provisions.
LEMMA OneLeavesTypes ==
    ASSUME TypeOK, NEW h \in Handler, NEW place \in {"waiting", "asking", "answered", "orphan", "done"},
           CommandTypes', pc' = [pc EXCEPT ![h] = place],
           holder' \in {holder, Unlocked(h)}, kind' = kind,
           row' \in Row, versions' \subseteq Version, file' \in Key \union {NoKey},
           generated' \subseteq Key, published' \subseteq Key, torn' \subseteq Key, overruns' = overruns
    PROVE  TypeOK'
<1>1. holder' \in Handler \union {NoHandler}
  BY DEF TypeOK, Unlocked
<1>2. ASSUME NEW g \in Handler, pc'[g] \in {"spawned", "ran"} PROVE overruns' > 0 \/ holder' = g
  BY <1>2, KeyAssumption DEF TypeOK, Unlocked
<1> QED
  BY <1>1, <1>2 DEF TypeOK, CommandTypes

LEMMA CliUsesTypes ==
    ASSUME TypeOK, NEW h \in Handler, NEW k \in Key, CliUses(h, k)
    PROVE  /\ file' \in Key \union {NoKey} /\ generated' \subseteq Key
           /\ \/ k = snap[h].key /\ file' = file
              \/ snap[h].key = NoKey /\ k = file /\ file' = file
              \/ snap[h].key = NoKey /\ file = NoKey /\ file' = k
  BY KeyAssumption DEF CliUses, TypeOK

LEMMA ProvisionedType ==
    ASSUME TypeOK, NEW h \in Handler, CanCapture(h)
    PROVE  /\ Captured(h) \in Key
           /\ Provisioned(h) \in Row
           /\ Provisioned(h).status = "active"
           /\ Provisioned(h).key = Captured(h)
           /\ Provisioned(h).version = row.version
           /\ Provisioned(h).address \in Key
           /\ Provisioned(h).address = Reported(h)
<1>1. Captured(h) \in Key
  BY DEF CanCapture, Captured, TypeOK, Row
<1>2. Reported(h) \in Key
  BY DEF CanCapture, Reported, TypeOK, Row
<1> QED
  BY <1>1, <1>2 DEF Provisioned, TypeOK, Row

LEMMA FirstVersionType ==
    ASSUME NEW k \in Key \union {NoKey}
    PROVE  /\ FirstVersion(k) \in Version /\ FirstVersion(k).no = 1
           /\ FirstVersion(k).key = k /\ FirstVersion(k).active = TRUE
  BY DEF FirstVersion, Version

\* What a rotation leaves behind is what was there, or the first version, unused.
LEMMA RetiredType ==
    ASSUME TypeOK, Numbered
    PROVE  /\ Retired \subseteq Version
           /\ \A w \in Retired : w.active = FALSE
           /\ versions = {} => {w.key : w \in Retired} = {row.key}
           /\ versions # {} => {w.key : w \in Retired} = {v.key : v \in versions}
           /\ \E n \in Nat \ {0} : {w.no : w \in Retired} = 1 .. n
<1>1. CASE versions = {}
  <2>1. row.key \in Key \union {NoKey}
    BY DEF TypeOK, Row
  <2> DEFINE w == [FirstVersion(row.key) EXCEPT !.active = FALSE]
  <2>2. w \in Version /\ w.no = 1 /\ w.key = row.key /\ w.active = FALSE
    BY <2>1, FirstVersionType DEF FirstVersion, Version
  <2>3. Retired = {w}
    BY <1>1 DEF Retired
  <2> HIDE DEF w
  <2>4. {x.no : x \in Retired} = {1} /\ {x.key : x \in Retired} = {row.key}
    BY <2>2, <2>3
  <2>5. 1 .. 1 = {1}
    OBVIOUS
  <2>6. \E n \in Nat \ {0} : {x.no : x \in Retired} = 1 .. n
    BY <2>4, <2>5
  <2> QED
    BY <1>1, <2>2, <2>3, <2>4, <2>6
<1>2. CASE versions # {}
  <2>1. Retired = {[v EXCEPT !.active = FALSE] : v \in versions}
    BY <1>2 DEF Retired
  <2>2. \A v \in versions : /\ [v EXCEPT !.active = FALSE] \in Version
                            /\ [v EXCEPT !.active = FALSE].no = v.no
                            /\ [v EXCEPT !.active = FALSE].key = v.key
                            /\ [v EXCEPT !.active = FALSE].active = FALSE
    BY DEF TypeOK, Version
  <2>3. {w.no : w \in Retired} = {v.no : v \in versions}
    BY <2>1, <2>2, ZenonT(40)
  <2>4. {w.key : w \in Retired} = {v.key : v \in versions}
    BY <2>1, <2>2, ZenonT(40)
  <2>5. PICK n \in Nat : {v.no : v \in versions} = 1 .. n
    BY DEF Numbered
  <2>6. n # 0
    BY <1>2, <2>5
  <2> QED
    BY <1>2, <2>1, <2>2, <2>3, <2>4, <2>5, <2>6
<1> QED
  BY <1>1, <1>2

\* Numbers 1 to n are followed by n + 1.
LEMMA NextNumber ==
    ASSUME TypeOK, Numbered, NEW n \in Nat \ {0}, {w.no : w \in Retired} = 1 .. n
    PROVE  NextNo = n + 1
<1> DEFINE S == {v.no : v \in Retired \union {FirstVersion(NoKey)}}
<1>0. S = {w.no : w \in Retired} \union {FirstVersion(NoKey).no}
  OBVIOUS
<1>1. S = 1 .. n
  <2>1. FirstVersion(NoKey).no = 1
    BY DEF FirstVersion
  <2>2. 1 \in 1 .. n
    OBVIOUS
  <2> QED
    BY <1>0, <2>1, <2>2
<1>2. n \in 1 .. n /\ \A m \in 1 .. n : n >= m
  OBVIOUS
<1>3. Max(1 .. n) = n
  <2>1. ASSUME NEW x \in 1 .. n, \A y \in 1 .. n : x >= y PROVE x = n
    BY <1>2, <2>1
  <2> QED
    BY <1>2, <2>1 DEF Max
<1> QED
  BY <1>1, <1>3 DEF NextNo

\* A new version is Key's, and has the next number.
LEMMA RotateTypes ==
    ASSUME TypeOK, Numbered, Rotate
    PROVE  TypeOK' /\ Numbered'
<1>1. PICK n \in Nat \ {0} : {w.no : w \in Retired} = 1 .. n
  BY RetiredType
<1>2. NextNo = n + 1
  BY <1>1, NextNumber
<1>3. PICK k \in Key \ generated, given \in BOOLEAN :
          /\ generated' = generated \union {k}
          /\ versions' = Retired \union {[no |-> NextNo, key |-> k, active |-> TRUE]}
          /\ row' = [row EXCEPT !.key = k, !.version = NextNo, !.address = IF given THEN k ELSE @]
          /\ published' = IF given THEN published \union {k} ELSE published
  BY DEF Rotate, NextNo
<1> DEFINE new == [no |-> NextNo, key |-> k, active |-> TRUE]
<1>4. new \in Version /\ new.no = n + 1
  BY <1>2 DEF Version
<1>5. versions' \subseteq Version
  BY <1>3, <1>4, RetiredType
<1>6. row' \in Row
  <2>1. row \in Row /\ NextNo \in Nat
    BY <1>2 DEF TypeOK
  <2>2. (IF given THEN k ELSE row.address) \in Key \union {NoKey}
    BY <2>1 DEF Row
  <2>3. row' = [row EXCEPT !.key = k, !.version = NextNo,
                           !.address = IF given THEN k ELSE row.address]
    BY <1>3, <2>1 DEF Row
  <2> HIDE DEF new
  <2> QED
    BY <2>1, <2>2, <2>3 DEF Row
<1>7. Numbered'
  <2> HIDE DEF new
  <2>1. {v.no : v \in versions'} = {w.no : w \in Retired} \union {new.no}
    BY <1>3 DEF new
  <2>2. {v.no : v \in versions'} = 1 .. (n + 1)
    BY <1>1, <1>4, <2>1
  <2> QED
    BY <2>2 DEF Numbered
<1>8. UNCHANGED <<kind, file, holder, pc, wants, snap, told, torn, overruns>>
  BY DEF Rotate
<1> QED
  BY <1>3, <1>5, <1>6, <1>7, <1>8 DEF TypeOK

LEMMA FirstNumbered ==
    ASSUME NEW k \in Key \union {NoKey}, versions' = {FirstVersion(k)}
    PROVE  versions' \subseteq Version /\ Numbered'
<1>1. FirstVersion(k) \in Version /\ FirstVersion(k).no = 1
  BY FirstVersionType
<1>2. {v.no : v \in versions'} = {1}
  BY <1>1
<1>3. 1 .. 1 = {1}
  OBVIOUS
<1> QED
  BY <1>1, <1>2, <1>3 DEF Numbered

LEMMA TypeInit == Init => TypeOK /\ Numbered
<1> SUFFICES ASSUME Init PROVE TypeOK /\ Numbered
  OBVIOUS
<1>1. {v.no : v \in versions} = 1 .. 0
  BY DEF Init
<1> QED
  BY <1>1, NoRowType DEF Init, TypeOK, Numbered

\* The row that getOrCreate finds or inserts.
Found == IF Exists THEN row ELSE [NoRow EXCEPT !.status = "pending"]

LEMMA FoundType ==
    ASSUME TypeOK
    PROVE  /\ Found \in Row /\ Found.status # "none"
           /\ Exists => Found = row
           /\ ~Exists => Found.key = NoKey /\ Found.address = NoKey /\ Found.version = 0
  BY NoRowType DEF Found, Exists, TypeOK, Row

LEMMA ProvisionTypes ==
    ASSUME TypeOK, NEW h \in Handler, Provision(h)
    PROVE  TypeOK'
<1>1. /\ pc[h] = "waiting" /\ holder = NoHandler /\ row' = Found
      /\ UNCHANGED <<kind, versions, file, generated, published, torn, overruns>>
  BY DEF Provision, LockFree, Found, history
<1>2. row' \in Row
  BY <1>1, FoundType
<1>3. CASE Ready(Found)
  <2>1. Served(h, Found) /\ holder' = holder
    BY <1>3 DEF Provision, Found
  <2> QED
    BY <1>1, <1>2, <2>1, FoundType, ServedTypes, OneLeavesTypes DEF TypeOK
<1>4. CASE ~Ready(Found)
  <2>1. /\ pc' = [pc EXCEPT ![h] = "spawned"] /\ holder' = h
        /\ snap' = [snap EXCEPT ![h] = Found] /\ wants' = wants /\ told' = told
    BY <1>4 DEF Provision, Found, Goto
  <2>2. CommandTypes'
    BY <2>1, FoundType DEF TypeOK, CommandTypes
  <2>3. ASSUME NEW g \in Handler, pc'[g] \in {"spawned", "ran"} PROVE overruns' > 0 \/ holder' = g
    BY <1>1, <2>1, <2>3, KeyAssumption DEF TypeOK
  <2> QED
    BY <1>1, <1>2, <2>1, <2>2, <2>3 DEF TypeOK, CommandTypes
<1> QED
  BY <1>3, <1>4

LEMMA CliRunsTypes ==
    ASSUME TypeOK, NEW h \in Handler, CliRuns(h)
    PROVE  TypeOK'
<1>1. PICK k \in Key, t \in Key \union {NoKey} :
          CliUses(h, k) /\ told' = [told EXCEPT ![h] = t]
  BY DEF CliRuns
<1>2. /\ pc[h] \in {"spawned", "asking"}
      /\ UNCHANGED <<kind, holder, wants, snap, row, versions, published, torn, overruns>>
      /\ pc' = [pc EXCEPT ![h] = IF pc[h] = "spawned" THEN "ran" ELSE "answered"]
  BY DEF CliRuns, database, Goto
<1>3. file' \in Key \union {NoKey} /\ generated' \subseteq Key
  BY <1>1, CliUsesTypes
<1>4. CommandTypes'
  BY <1>1, <1>2 DEF TypeOK, CommandTypes
<1>5. ASSUME NEW g \in Handler, pc'[g] \in {"spawned", "ran"} PROVE overruns' > 0 \/ holder' = g
  BY <1>2, <1>5 DEF TypeOK
<1> QED
  BY <1>2, <1>3, <1>4, <1>5 DEF TypeOK, CommandTypes

LEMMA SaveTypes ==
    ASSUME TypeOK, Numbered, NEW h \in Handler, Save(h)
    PROVE  TypeOK' /\ Numbered'
<1> DEFINE r == Provisioned(h)
<1>1. r \in Row /\ r.key \in Key /\ r.address \in Key
  BY ProvisionedType DEF Save
<1>2. versions' = IF versions = {} THEN {FirstVersion(r.key)} ELSE versions
  BY DEF Save, Recorded
<1>3. row' = IF versions = {} THEN [r EXCEPT !.version = 1] ELSE r
  BY DEF Save
<1>4. /\ file' = NoKey /\ published' = published \union {r.address} /\ holder' = Unlocked(h)
      /\ Served(h, r) /\ UNCHANGED <<kind, generated, torn, overruns>>
  BY DEF Save
<1> HIDE DEF r
<1>5. versions' \subseteq Version /\ Numbered'
  <2>1. CASE versions = {}
    BY <1>1, <1>2, <2>1, FirstNumbered
  <2>2. CASE versions # {}
    BY <1>2, <2>2 DEF TypeOK, Numbered
  <2> QED
    BY <2>1, <2>2
<1>6. row' \in Row
  BY <1>1, <1>3 DEF Row
<1> QED
  BY <1>1, <1>4, <1>5, <1>6, ServedTypes, OneLeavesTypes DEF TypeOK

LEMMA DiesSavingTypes ==
    ASSUME TypeOK, Numbered, NEW h \in Handler, DiesSaving(h)
    PROVE  TypeOK' /\ Numbered'
<1> DEFINE r == Provisioned(h)
<1>1. r \in Row /\ r.key \in Key /\ r.address \in Key /\ Captured(h) \in Key
  BY ProvisionedType DEF DiesSaving
<1>2. file' = NoKey /\ Leave(h) /\ UNCHANGED <<kind, holder, generated, overruns>>
  BY DEF DiesSaving
<1>3. /\ row' \in {row, r}
      /\ published' \in {published, published \union {r.address}}
      /\ torn' \in {torn, torn \union {Captured(h)}, torn \union {r.key}}
      /\ versions' \in {versions, {FirstVersion(NoKey)}, {FirstVersion(r.key)}}
  BY DEF DiesSaving, database
<1> HIDE DEF r
<1>4. row' \in Row /\ published' \subseteq Key /\ torn' \subseteq Key
  BY <1>1, <1>3 DEF TypeOK
<1>5. versions' \subseteq Version /\ Numbered'
  <2>1. CASE versions' = versions
    BY <2>1 DEF TypeOK, Numbered
  <2>2. CASE versions' # versions
    BY <1>1, <1>3, <2>2, FirstNumbered
  <2> QED
    BY <2>1, <2>2
<1> QED
  BY <1>2, <1>4, <1>5, LeaveTypes, OneLeavesTypes DEF TypeOK

LEMMA RefreshTypes ==
    ASSUME TypeOK, NEW h \in Handler, Refresh(h)
    PROVE  TypeOK'
<1> DEFINE address == IF told[h] # NoKey THEN told[h] ELSE snap[h].address
<1>1. address \in Key \union {NoKey}
  BY DEF TypeOK, Row
<1>2. \/ UNCHANGED <<row, published>>
      \/ /\ address # NoKey
         /\ row' = [row EXCEPT !.address = address]
         /\ published' = published \union {address}
  BY DEF Refresh
<1>3. Leave(h) /\ UNCHANGED <<kind, versions, file, holder, generated, torn, overruns>>
  BY DEF Refresh
<1> HIDE DEF address
<1>4. row' \in Row /\ published' \subseteq Key
  BY <1>1, <1>2 DEF TypeOK, Row
<1> QED
  BY <1>3, <1>4, LeaveTypes, OneLeavesTypes DEF TypeOK

LEMMA CommandTypesStep ==
    ASSUME TypeOK, Numbered, NEW h \in Handler, Step(h)
    PROVE  TypeOK' /\ Numbered'
<1>1. CASE Create(h)
  <2>1. /\ UNCHANGED <<kind, row, versions, file, holder, wants, snap, told, generated>>
        /\ UNCHANGED <<published, torn, overruns>> /\ pc' = [pc EXCEPT ![h] = "waiting"]
    BY <1>1 DEF Create, Goto, history
  <2>2. CommandTypes'
    BY <2>1 DEF CommandTypes, TypeOK
  <2> QED
    BY <2>1, <2>2, OneLeavesTypes DEF TypeOK, Numbered
<1>2. CASE Show(h)
  <2>1. /\ UNCHANGED <<kind, row, versions, file, holder, told, generated, published, torn, overruns>>
        /\ wants' = [wants EXCEPT ![h] = "address"] /\ snap' = [snap EXCEPT ![h] = row]
        /\ \/ pc' = [pc EXCEPT ![h] = "waiting"]
           \/ pc' = [pc EXCEPT ![h] = "asking"]
    BY <1>2 DEF Show, Goto, history
  <2>2. CommandTypes'
    BY <2>1 DEF CommandTypes, TypeOK
  <2> QED
    BY <2>1, <2>2, OneLeavesTypes DEF TypeOK, Numbered
<1>3. CASE Provision(h)
  BY <1>3, ProvisionTypes DEF Provision, Numbered
<1>4. CASE CliRuns(h)
  BY <1>4, CliRunsTypes DEF CliRuns, database, Numbered
<1>5. CASE CommandFails(h)
  <2>1. /\ UNCHANGED <<kind, row, versions, file, generated, published, torn, overruns>>
        /\ Leave(h) /\ holder' = Unlocked(h)
    BY <1>5 DEF CommandFails, database
  <2> QED
    BY <2>1, LeaveTypes, OneLeavesTypes DEF TypeOK, Numbered
<1>6. CASE Save(h)
  BY <1>6, SaveTypes
<1>7. CASE Refresh(h)
  BY <1>7, RefreshTypes DEF Refresh, Numbered
<1>8. CASE Dies(h)
  <2>1. /\ UNCHANGED <<kind, row, versions, file, holder, generated, published, torn, overruns>>
        /\ \/ pc' = [pc EXCEPT ![h] = "orphan"] /\ UNCHANGED <<wants, snap, told>>
           \/ Leave(h)
    BY <1>8 DEF Dies, database, Goto
  <2>2. CommandTypes' /\ \/ pc' = [pc EXCEPT ![h] = "orphan"]
                         \/ pc' = [pc EXCEPT ![h] = "done"]
    BY <2>1, LeaveTypes DEF CommandTypes, TypeOK
  <2> QED
    BY <2>1, <2>2, OneLeavesTypes DEF TypeOK, Numbered
<1>9. CASE OrphanRuns(h)
  <2>1. PICK k \in Key : CliUses(h, k)
    BY <1>9 DEF OrphanRuns
  <2>2. Leave(h) /\ UNCHANGED <<kind, holder, row, versions, published, torn, overruns>>
    BY <1>9 DEF OrphanRuns, database
  <2> QED
    BY <2>1, <2>2, CliUsesTypes, LeaveTypes, OneLeavesTypes DEF TypeOK, Numbered
<1>10. CASE DiesSaving(h)
  BY <1>10, DiesSavingTypes
<1> QED
  BY <1>1, <1>2, <1>3, <1>4, <1>5, <1>6, <1>7, <1>8, <1>9, <1>10 DEF Step

LEMMA TypeStep ==
    ASSUME TypeOK, Numbered, [Next]_vars
    PROVE  TypeOK' /\ Numbered'
<1>1. CASE Freeze
  BY <1>1 DEF Freeze, TypeOK, Numbered, Row, history
<1>2. CASE Unfreeze
  BY <1>2 DEF Unfreeze, TypeOK, Numbered, Row, history
<1>3. CASE Lapse
  BY <1>3 DEF Lapse, TypeOK, Numbered, history
<1>4. CASE UNCHANGED vars
  BY <1>4 DEF vars, TypeOK, Numbered
<1> QED
  BY <1>1, <1>2, <1>3, <1>4, RotateTypes, CommandTypesStep DEF Next

\* Every reachable state is well typed, and whoever provisions has the lock unless
\* locks may lapse under a running call.
THEOREM TypeCorrect == Spec => []TypeOK
<1>1. Spec => [](TypeOK /\ Numbered)
  BY TypeInit, TypeStep, PTL DEF Spec
<1> QED
  BY <1>1, PTL

-----------------------------------------------------------------------------
(* What the steps that write the row do to it, while calls end before their *)
(* locks do.                                                                *)

\* A key in the row is one that getOrCreate takes as it is.
LEMMA FoundEffect ==
    ASSUME TypeOK, RowInv
    PROVE  /\ Found.key = row.key /\ Found.version = row.version
           /\ Found.address \in {row.address, NoKey}
           /\ Found.key # NoKey => Found = row
           /\ Ready(Found) => Found = row /\ row.key # NoKey /\ row.address # NoKey
  <1>1. CASE Exists
    BY <1>1, FoundType DEF Ready
  <1>2. CASE ~Exists
    BY <1>2, FoundType DEF Ready, RowInv, Exists
  <1> QED
    BY <1>1, <1>2

\* Provisioning stores the key of the file in a row without a key.
LEMMA CaptureEffect ==
    ASSUME TypeOK, RowInv, FlightInv, NEW h \in Handler, CanCapture(h)
    PROVE  /\ pc[h] = "ran" /\ holder = h /\ \A g \in Handler : pc[g] \in {"spawned", "ran"} => g = h
           /\ row.key = NoKey /\ versions = {} /\ row.version = 0
           /\ file \in Key /\ file # NoKey /\ Captured(h) = file /\ told[h] \in {NoKey, file}
           /\ Provisioned(h) \in Row
           /\ Provisioned(h).key = file /\ Provisioned(h).address = file
           /\ Provisioned(h).status = "active" /\ Provisioned(h).version = 0
<1>1. pc[h] = "ran" /\ Captured(h) # NoKey
  BY DEF CanCapture
<1>2. Captured(h) = file /\ file # NoKey
  BY <1>1 DEF Captured, FlightInv
<1>3. Reported(h) = file
  BY <1>1, <1>2 DEF Reported, FlightInv
<1> QED
  BY <1>1, <1>2, <1>3, ProvisionedType DEF FlightInv, RowInv, TypeOK

\* What storing a key does, also when calls outlived their locks.
LEMMA StoreEffect ==
    ASSUME TypeOK, NEW h \in Handler, Save(h) \/ DiesSaving(h)
    PROVE  /\ pc[h] = "ran" /\ pc'[h] \in {"asking", "done"}
           /\ \A g \in Handler \ {h} : pc'[g] = pc[g]
           /\ holder' \in {holder, Unlocked(h)} /\ torn \subseteq torn'
           /\ \/ UNCHANGED <<row, versions>>
              \/ /\ row'.key \in Key /\ row'.address \in Key /\ row'.status = "active"
                 /\ versions # {} => versions' = versions
                 /\ versions' = {} => row'.version = row.version
                 /\ versions = {} => versions' = {} \/ row'.key \in {v.key : v \in versions'} \union torn'
<1> DEFINE r == Provisioned(h)
<1>1. r \in Row /\ r.key \in Key /\ r.address \in Key /\ r.status = "active" /\ r.version = row.version
  BY ProvisionedType DEF Save, DiesSaving
<1>2. \A k \in Key \union {NoKey} : FirstVersion(k).key = k
  BY FirstVersionType
<1>3. CASE Save(h)
  <2>1. /\ row' = IF versions = {} THEN [r EXCEPT !.version = 1] ELSE r
        /\ versions' = IF versions = {} THEN {FirstVersion(r.key)} ELSE versions
        /\ holder' = Unlocked(h) /\ Served(h, r) /\ torn' = torn /\ pc[h] = "ran"
    BY <1>3 DEF Save, Recorded, CanCapture
  <2> HIDE DEF r
  <2>2. row'.key = r.key /\ row'.address = r.address /\ row'.status = r.status
    BY <1>1, <2>1 DEF Row
  <2>3. versions = {} => versions' # {} /\ row'.key \in {v.key : v \in versions'}
    BY <1>1, <1>2, <2>1, <2>2
  <2>4. versions' = {} => row' = r
    BY <2>1, <2>3
  <2>5. pc'[h] \in {"asking", "done"} /\ \A g \in Handler \ {h} : pc'[g] = pc[g]
    BY <2>1 DEF Served, Leave, Goto, TypeOK
  <2> QED
    BY <1>1, <2>1, <2>2, <2>3, <2>4, <2>5
<1>4. CASE DiesSaving(h)
  <2>1. /\ Leave(h) /\ holder' = holder /\ pc[h] = "ran"
        /\ \/ torn \subseteq torn' /\ UNCHANGED <<row, versions>>
           \/ /\ row' = r
              /\ \/ UNCHANGED <<versions, torn>>
                 \/ versions = {} /\ versions' = {FirstVersion(NoKey)} /\ torn' = torn \union {row'.key}
                 \/ versions = {} /\ versions' = {FirstVersion(row'.key)} /\ UNCHANGED torn
    BY <1>4 DEF DiesSaving, database, CanCapture
  <2> HIDE DEF r
  <2>2. pc'[h] = "done" /\ \A g \in Handler \ {h} : pc'[g] = pc[g]
    BY <2>1 DEF Leave, Goto, TypeOK
  <2> QED
    BY <1>1, <1>2, <2>1, <2>2
<1> QED
  BY <1>3, <1>4

LEMMA SaveEffect ==
    ASSUME TypeOK, RowInv, FlightInv, NEW h \in Handler, Save(h)
    PROVE  /\ row' \in Row
           /\ row'.key = file /\ row'.address = file /\ row'.status = "active" /\ row'.version = 1
           /\ versions' = {FirstVersion(file)} /\ published' = published \union {file}
           /\ file' = NoKey /\ holder' = NoHandler /\ UNCHANGED <<kind, torn>>
           /\ Served(h, Provisioned(h))
<1>1. CanCapture(h)
  BY DEF Save
<1> DEFINE r == Provisioned(h)
<1>2. r \in Row /\ r.key = file /\ r.address = file /\ r.status = "active" /\ versions = {} /\ holder = h
  BY <1>1, CaptureEffect
<1>3. /\ row' = IF versions = {} THEN [r EXCEPT !.version = 1] ELSE r
      /\ versions' = IF versions = {} THEN {FirstVersion(r.key)} ELSE versions
      /\ published' = published \union {r.address}
      /\ file' = NoKey /\ holder' = Unlocked(h) /\ Served(h, r) /\ UNCHANGED <<kind, torn>>
  BY DEF Save, Recorded
<1> HIDE DEF r
<1>4. row' = [r EXCEPT !.version = 1] /\ versions' = {FirstVersion(file)}
  BY <1>2, <1>3
<1>5. row' \in Row /\ row'.key = file /\ row'.address = file /\ row'.status = "active" /\ row'.version = 1
  BY <1>2, <1>4 DEF Row
<1> QED
  BY <1>2, <1>3, <1>4, <1>5 DEF Unlocked, r

\* A process that dies leaves the key in the row or nowhere, and versions that do not
\* contradict the row.
LEMMA DiesSavingEffect ==
    ASSUME TypeOK, RowInv, FlightInv, NEW h \in Handler, DiesSaving(h)
    PROVE  /\ file' = NoKey /\ Leave(h) /\ UNCHANGED <<kind, holder>>
           /\ torn \subseteq torn'
           /\ \/ file \in torn' /\ UNCHANGED <<row, versions, published>>
              \/ /\ row' \in Row /\ row'.key = file /\ row'.address = file
                 /\ row'.status = "active" /\ row'.version = 0
                 /\ published' = published \union {file}
                 /\ \/ versions' \in {{}, {FirstVersion(file)}}
                    \/ versions' = {FirstVersion(NoKey)} /\ file \in torn'
<1>1. CanCapture(h)
  BY DEF DiesSaving
<1> DEFINE r == Provisioned(h)
<1>2. /\ r \in Row /\ r.key = file /\ r.address = file /\ r.status = "active" /\ r.version = 0
      /\ versions = {} /\ Captured(h) = file
  BY <1>1, CaptureEffect
<1>3. file' = NoKey /\ Leave(h) /\ UNCHANGED <<kind, holder>>
  BY DEF DiesSaving
<1>4. \/ torn' = torn \union {Captured(h)} /\ UNCHANGED <<row, versions, published>>
      \/ /\ row' = r /\ published' = published \union {row'.address}
         /\ \/ UNCHANGED <<versions, torn>>
            \/ versions' = {FirstVersion(NoKey)} /\ torn' = torn \union {row'.key}
            \/ versions' = {FirstVersion(row'.key)} /\ UNCHANGED torn
  BY DEF DiesSaving, database
<1> HIDE DEF r
<1> QED
  BY <1>2, <1>3, <1>4

LEMMA RefreshEffect ==
    ASSUME TypeOK, NEW h \in Handler, Refresh(h)
    PROVE  /\ pc[h] = "answered" /\ Leave(h)
           /\ UNCHANGED <<kind, versions, file, holder, torn>>
           /\ row'.key = row.key /\ row'.version = row.version /\ row'.status = row.status
           /\ \/ UNCHANGED <<row, published>>
              \/ /\ row'.address \in {told[h], snap[h].address} \ {NoKey}
                 /\ told[h] # NoKey => row'.address = told[h]
                 /\ published' = published \union {row'.address}
<1> DEFINE address == IF told[h] # NoKey THEN told[h] ELSE snap[h].address
<1>1. \/ UNCHANGED <<row, published>>
      \/ /\ address # NoKey
         /\ row' = [row EXCEPT !.address = address]
         /\ published' = published \union {address}
  BY DEF Refresh
<1>2. address \in {told[h], snap[h].address} /\ (told[h] # NoKey => address = told[h])
  OBVIOUS
<1>3. pc[h] = "answered" /\ Leave(h) /\ UNCHANGED <<kind, versions, file, holder, torn>>
  BY DEF Refresh
<1> HIDE DEF address
<1> QED
  BY <1>1, <1>2, <1>3 DEF TypeOK, Row

\* A rotation keeps the numbers of the versions, and every key but the row's.
LEMMA RotateEffect ==
    ASSUME TypeOK, Numbered, Rotate
    PROVE  /\ row.key # NoKey /\ UNCHANGED <<kind, file, holder, pc, wants, snap, told, torn>>
           /\ \E new \in versions' :
                 /\ new.no > 1 /\ new.active = TRUE /\ new.key \in Key
                 /\ row'.key = new.key /\ row'.version = new.no /\ row'.status = row.status
                 /\ \/ row'.address = row.address /\ published' = published
                    \/ row'.address = new.key /\ published' = published \union {new.key}
                 /\ \A w \in versions' : w = new \/ w.active = FALSE
           /\ \A v \in versions : v.key \in {w.key : w \in versions'}
           /\ versions = {} => row.key \in {w.key : w \in versions'}
<1>1. PICK n \in Nat \ {0} : {w.no : w \in Retired} = 1 .. n
  BY RetiredType
<1>2. NextNo = n + 1
  BY <1>1, NextNumber
<1>3. PICK k \in Key \ generated, given \in BOOLEAN :
          /\ versions' = Retired \union {[no |-> NextNo, key |-> k, active |-> TRUE]}
          /\ row' = [row EXCEPT !.key = k, !.version = NextNo, !.address = IF given THEN k ELSE @]
          /\ published' = IF given THEN published \union {k} ELSE published
  BY DEF Rotate, NextNo
<1> DEFINE new == [no |-> NextNo, key |-> k, active |-> TRUE]
<1>4. new \in versions' /\ new.no > 1 /\ new.active = TRUE /\ new.key = k /\ new.no = NextNo
  BY <1>2, <1>3
<1>5. /\ row'.key = k /\ row'.version = NextNo /\ row'.status = row.status
      /\ row'.address = IF given THEN k ELSE row.address
  BY <1>3 DEF TypeOK, Row
<1>6. row.key # NoKey /\ UNCHANGED <<kind, file, holder, pc, wants, snap, told, torn>>
  BY DEF Rotate
<1>7. \A w \in versions' : w \in Retired \/ w = new
  BY <1>3
<1>8. Retired \subseteq versions'
  BY <1>3
<1> HIDE DEF new
<1>9. \A w \in versions' : w = new \/ w.active = FALSE
  BY <1>7, RetiredType
<1>10. /\ \A v \in versions : v.key \in {w.key : w \in versions'}
       /\ versions = {} => row.key \in {w.key : w \in versions'}
  <2>1. {w.key : w \in Retired} \subseteq {w.key : w \in versions'}
    BY <1>8
  <2>2. versions = {} => row.key \in {w.key : w \in Retired}
    BY RetiredType
  <2>3. ASSUME NEW v \in versions PROVE v.key \in {w.key : w \in Retired}
    BY <2>3, RetiredType
  <2> QED
    BY <2>1, <2>2, <2>3
<1> QED
  BY <1>3, <1>4, <1>5, <1>6, <1>9, <1>10

-----------------------------------------------------------------------------
(* The invariant is inductive. *)

\* Only these steps write the row, its versions or what was torn.
RowWrite(h) == Provision(h) \/ Save(h) \/ DiesSaving(h) \/ Refresh(h)

LEMMA RowSteps ==
    ASSUME [Next]_vars
    PROVE  \/ UNCHANGED <<row, versions, torn>>
           \/ \E h \in Handler : RowWrite(h)
           \/ Freeze \/ Unfreeze \/ Rotate
<1>1. CASE UNCHANGED vars
  BY <1>1 DEF vars
<1>2. CASE Lapse
  BY <1>2 DEF Lapse, history
<1>3. ASSUME NEW h \in Handler, Step(h)
      PROVE  UNCHANGED <<row, versions, torn>> \/ RowWrite(h)
  BY <1>3 DEF Step, RowWrite, Create, Show, CliRuns, CommandFails, Dies, OrphanRuns,
              history, database
<1> QED
  BY <1>1, <1>2, <1>3 DEF Next

LEMMA RowStep ==
    ASSUME TypeOK, Numbered, RowInv, [Next]_vars
    PROVE  RowInv'
<1>1. CASE UNCHANGED <<row, versions, torn>>
  BY <1>1 DEF RowInv, Ready
<1>2. ASSUME NEW h \in Handler, Provision(h) PROVE RowInv'
  <2>1. row' = Found /\ versions' = versions
    BY <1>2 DEF Provision, Found
  <2> QED
    BY <2>1, FoundEffect DEF RowInv, Ready
<1>3. ASSUME NEW h \in Handler, Save(h) \/ DiesSaving(h) PROVE RowInv'
  BY <1>3, StoreEffect, KeyAssumption DEF RowInv, Ready
<1>5. ASSUME NEW h \in Handler, Refresh(h) PROVE RowInv'
  BY <1>5, RefreshEffect DEF RowInv, Ready
<1>6. CASE Freeze
  BY <1>6 DEF Freeze, RowInv, Ready, TypeOK, Row
<1>7. CASE Unfreeze
  BY <1>7 DEF Unfreeze, RowInv, Ready, TypeOK, Row
<1>8. CASE Rotate
  BY <1>8, RotateEffect, KeyAssumption DEF RowInv, Ready
<1> QED
  BY <1>1, <1>2, <1>3, <1>5, <1>6, <1>7, <1>8, RowSteps DEF RowWrite

LEMMA ActiveStep ==
    ASSUME TypeOK, Numbered, RowInv, FlightInv, ActiveInv, [Next]_vars
    PROVE  ActiveInv'
<1>1. CASE UNCHANGED <<row, versions, torn>>
  BY <1>1 DEF ActiveInv
<1>2. ASSUME NEW h \in Handler, Provision(h) PROVE ActiveInv'
  <2>1. row' = Found /\ versions' = versions /\ torn' = torn
    BY <1>2 DEF Provision, Found, history
  <2> QED
    BY <2>1, FoundEffect DEF ActiveInv
<1>3. ASSUME NEW h \in Handler, Save(h) PROVE ActiveInv'
  <2>1. file \in Key /\ FirstVersion(file).key = file /\ FirstVersion(file).active = TRUE /\ FirstVersion(file).no = 1
    BY <1>3, CaptureEffect, FirstVersionType DEF Save
  <2> QED
    BY <1>3, <2>1, SaveEffect DEF ActiveInv
<1>4. ASSUME NEW h \in Handler, DiesSaving(h) PROVE ActiveInv'
  <2>1. file \in Key /\ row.key = NoKey /\ FirstVersion(file).key = file /\ FirstVersion(file).active = TRUE
    BY <1>4, CaptureEffect, FirstVersionType DEF DiesSaving
  <2> QED
    BY <1>4, <2>1, DiesSavingEffect DEF ActiveInv
<1>5. ASSUME NEW h \in Handler, Refresh(h) PROVE ActiveInv'
  BY <1>5, RefreshEffect DEF ActiveInv
<1>6. CASE Freeze \/ Unfreeze
  BY <1>6 DEF Freeze, Unfreeze, ActiveInv, TypeOK, Row, history
<1>7. CASE Rotate
  BY <1>7, RotateEffect DEF ActiveInv
<1> QED
  BY <1>1, <1>2, <1>3, <1>4, <1>5, <1>6, <1>7, RowSteps DEF RowWrite

Untouched(g) == pc'[g] = pc[g] /\ snap'[g] = snap[g] /\ told'[g] = told[g]

LEMMA LeaveEffect ==
    ASSUME TypeOK, NEW h \in Handler, Leave(h)
    PROVE  /\ \A g \in Handler \ {h} : Untouched(g)
           /\ pc'[h] = "done" /\ snap'[h] = NoRow /\ told'[h] = NoKey
  BY DEF Leave, Goto, TypeOK, Untouched

LEMMA ServedEffect ==
    ASSUME TypeOK, NEW h \in Handler, NEW r, Served(h, r)
    PROVE  /\ \A g \in Handler \ {h} : Untouched(g)
           /\ told'[h] = NoKey
           /\ \/ pc'[h] = "done" /\ snap'[h] = NoRow
              \/ pc'[h] = "asking" /\ snap'[h] = r
  BY LeaveEffect DEF Served, Goto, TypeOK, Untouched

\* What a command does that neither writes the row nor uses the CLI.
LEMMA QuietEffect ==
    ASSUME TypeOK, NEW h \in Handler, Create(h) \/ Show(h) \/ CommandFails(h) \/ Dies(h)
    PROVE  /\ \A g \in Handler \ {h} : Untouched(g)
           /\ holder' \in {holder, Unlocked(h)}
           /\ UNCHANGED <<kind, row, versions, file, published, torn>>
           /\ \/ pc'[h] \in {"waiting", "orphan"} /\ snap'[h] \in {snap[h], row} /\ told'[h] = told[h]
              \/ pc'[h] = "done" /\ snap'[h] = NoRow /\ told'[h] = NoKey
              \/ pc'[h] = "asking" /\ snap'[h] = row /\ told'[h] = told[h] /\ kind # "private"
<1>1. CASE Create(h)
  BY <1>1 DEF Create, Goto, TypeOK, Untouched, history
<1>2. CASE Show(h)
  BY <1>2 DEF Show, Goto, TypeOK, Untouched, history, ProvisionsFirst
<1>3. CASE CommandFails(h)
  BY <1>3, LeaveEffect DEF CommandFails, database
<1>4. CASE Dies(h)
  <2>1. UNCHANGED <<kind, holder, row, versions, file, published, torn>>
    BY <1>4 DEF Dies, database
  <2>2. CASE Leave(h)
    BY <2>1, <2>2, LeaveEffect
  <2>3. CASE Goto(h, "orphan") /\ UNCHANGED <<wants, snap, told>>
    BY <2>1, <2>3 DEF Goto, TypeOK, Untouched
  <2> QED
    BY <1>4, <2>2, <2>3 DEF Dies
<1> QED
  BY <1>1, <1>2, <1>3, <1>4

\* A CLI call uses the key it is given, else leaves in the file the one it uses.
LEMMA CliEffect ==
    ASSUME TypeOK, NEW h \in Handler, CliRuns(h) \/ OrphanRuns(h)
    PROVE  /\ \A g \in Handler \ {h} : Untouched(g)
           /\ UNCHANGED <<kind, row, versions, holder, published, torn>>
           /\ file' = file \/ file = NoKey
           /\ \/ pc'[h] = "done" /\ snap'[h] = NoRow /\ told'[h] = NoKey
              \/ /\ \/ pc[h] = "spawned" /\ pc'[h] = "ran"
                    \/ pc[h] = "asking" /\ pc'[h] = "answered"
                 /\ snap'[h] = snap[h]
                 /\ told'[h] \in {NoKey, snap[h].key, file'}
                 /\ snap[h].key # NoKey => told'[h] \in {NoKey, snap[h].key}
                 /\ snap[h].key = NoKey => told'[h] \in {NoKey, file'}
<1>1. CASE CliRuns(h)
  <2>1. PICK k \in Key, t \in Key \union {NoKey} :
            CliUses(h, k) /\ t \in {k, NoKey} /\ told' = [told EXCEPT ![h] = t]
    BY <1>1 DEF CliRuns
  <2>2. /\ pc[h] \in {"spawned", "asking"}
        /\ UNCHANGED <<kind, holder, snap, row, versions, published, torn>>
        /\ pc' = [pc EXCEPT ![h] = IF pc[h] = "spawned" THEN "ran" ELSE "answered"]
    BY <1>1 DEF CliRuns, database, Goto
  <2>3. told'[h] \in {k, NoKey} /\ \A g \in Handler \ {h} : Untouched(g)
    BY <2>1, <2>2 DEF TypeOK, Untouched
  <2>4. \/ k = snap[h].key /\ snap[h].key # NoKey /\ file' = file
        \/ snap[h].key = NoKey /\ k = file' /\ (file' = file \/ file = NoKey)
    BY <2>1, CliUsesTypes, KeyAssumption
  <2>5. \/ pc[h] = "spawned" /\ pc'[h] = "ran"
        \/ pc[h] = "asking" /\ pc'[h] = "answered"
    BY <2>2 DEF TypeOK
  <2> QED
    BY <2>2, <2>3, <2>4, <2>5
<1>2. CASE OrphanRuns(h)
  <2>1. PICK k \in Key : CliUses(h, k)
    BY <1>2 DEF OrphanRuns
  <2>2. Leave(h) /\ UNCHANGED <<kind, holder, row, versions, published, torn>>
    BY <1>2 DEF OrphanRuns, database
  <2> QED
    BY <2>1, <2>2, CliUsesTypes, LeaveEffect
<1> QED
  BY <1>1, <1>2

LEMMA ProvisionEffect ==
    ASSUME TypeOK, NEW h \in Handler, Provision(h)
    PROVE  /\ pc[h] = "waiting" /\ holder = NoHandler
           /\ \A g \in Handler \ {h} : Untouched(g)
           /\ row' = Found /\ UNCHANGED <<kind, versions, file, published, torn>>
           /\ \/ Served(h, Found) /\ Ready(Found) /\ holder' = holder
              \/ /\ ~Ready(Found) /\ holder' = h
                 /\ pc'[h] = "spawned" /\ snap'[h] = Found /\ told'[h] = told[h]
<1>1. /\ pc[h] = "waiting" /\ holder = NoHandler /\ row' = Found
      /\ UNCHANGED <<kind, versions, file, published, torn>>
  BY DEF Provision, LockFree, Found, history
<1>2. CASE Ready(Found)
  <2>1. Served(h, Found) /\ holder' = holder
    BY <1>2 DEF Provision, Found
  <2> QED
    BY <1>1, <1>2, <2>1, ServedEffect
<1>3. CASE ~Ready(Found)
  BY <1>1, <1>3 DEF Provision, Found, Goto, TypeOK, Untouched
<1> QED
  BY <1>2, <1>3

\* Whoever is in flight stays so alone.
LEMMA FlightStep ==
    ASSUME TypeOK, Numbered, RowInv, FlightInv, overruns' = 0, [Next]_vars
    PROVE  FlightInv'
<1>1. SUFFICES ASSUME NEW g \in Handler, pc'[g] \in {"spawned", "ran"}
               PROVE  /\ holder' = g
                      /\ row'.key = NoKey /\ snap'[g].key = NoKey
                      /\ pc'[g] = "ran" => told'[g] \in {NoKey, file'}
  BY DEF FlightInv
<1> DEFINE Goal == /\ holder' = g
                   /\ row'.key = NoKey /\ snap'[g].key = NoKey
                   /\ pc'[g] = "ran" => told'[g] \in {NoKey, file'}
<1>2. ASSUME NEW h \in Handler, Create(h) \/ Show(h) \/ CommandFails(h) \/ Dies(h) PROVE Goal
  <2>1. g # h /\ Untouched(g)
    BY <1>1, <1>2, QuietEffect
  <2> QED
    BY <1>1, <1>2, <2>1, QuietEffect DEF FlightInv, Untouched, Unlocked
<1>3. ASSUME NEW h \in Handler, Provision(h) PROVE Goal
  <2>1. CASE g # h
    BY <1>1, <1>3, <2>1, ProvisionEffect, KeyAssumption DEF FlightInv, Untouched
  <2>2. CASE g = h
    <3>1. ~Ready(Found) /\ holder' = h /\ pc'[h] = "spawned" /\ snap'[h] = Found
      BY <1>1, <1>3, <2>2, ProvisionEffect, ServedEffect
    <3>2. Found.key = NoKey
      BY <3>1, FoundEffect DEF RowInv
    <3> QED
      BY <1>3, <2>2, <3>1, <3>2, ProvisionEffect
  <2> QED
    BY <2>1, <2>2
<1>4. ASSUME NEW h \in Handler, CliRuns(h) \/ OrphanRuns(h) PROVE Goal
  <2>1. CASE g # h
    BY <1>1, <1>4, <2>1, CliEffect DEF FlightInv, Untouched
  <2>2. CASE g = h
    BY <1>1, <1>4, <2>2, CliEffect DEF FlightInv
  <2> QED
    BY <2>1, <2>2
<1>5. ASSUME NEW h \in Handler, Save(h) \/ DiesSaving(h) PROVE Goal
  <2>1. CanCapture(h)
    BY <1>5 DEF Save, DiesSaving
  <2>2. \A f \in Handler \ {h} : Untouched(f)
    BY <1>5, SaveEffect, ServedEffect, DiesSavingEffect, LeaveEffect
  <2>3. pc'[h] \notin {"spawned", "ran"}
    BY <1>5, SaveEffect, ServedEffect, DiesSavingEffect, LeaveEffect
  <2> QED
    BY <1>1, <2>1, <2>2, <2>3, CaptureEffect DEF Untouched
<1>6. ASSUME NEW h \in Handler, Refresh(h) PROVE Goal
  BY <1>1, <1>6, RefreshEffect, LeaveEffect DEF FlightInv, Untouched
<1>7. CASE Freeze \/ Unfreeze
  BY <1>1, <1>7 DEF Freeze, Unfreeze, FlightInv, TypeOK, Row, history
<1>8. CASE Rotate
  BY <1>1, <1>8, RotateEffect DEF FlightInv
<1>9. CASE Lapse
  BY <1>1, <1>9 DEF Lapse, FlightInv, TypeOK
<1>10. CASE UNCHANGED vars
  BY <1>1, <1>10 DEF vars, FlightInv
<1> QED
  BY <1>2, <1>3, <1>4, <1>5, <1>6, <1>7, <1>8, <1>9, <1>10 DEF Next, Step

LEMMA PrivateStep ==
    ASSUME TypeOK, Numbered, RowInv, FlightInv, PrivateInv, [Next]_vars
    PROVE  PrivateInv'
<1>1. SUFFICES ASSUME kind' = "private", NeverRotated'
               PROVE  /\ row'.key # NoKey => row'.address = row'.key
                      /\ \A h \in Handler : pc'[h] \in {"asking", "answered"} =>
                             /\ row'.key # NoKey
                             /\ snap'[h].key = row'.key /\ snap'[h].address = row'.key
                             /\ pc'[h] = "answered" => told'[h] \in {NoKey, row'.key}
  BY DEF PrivateInv
<1> DEFINE Asks(g) == /\ row.key # NoKey
                      /\ snap[g].key = row.key /\ snap[g].address = row.key
                      /\ pc[g] = "answered" => told[g] \in {NoKey, row.key}
<1> DEFINE Own == row.key # NoKey => row.address = row.key
<1> DEFINE All == \A g \in Handler : pc[g] \in {"asking", "answered"} => Asks(g)
<1> SUFFICES (Own /\ All)'
  BY <1>1
<1>2. ASSUME kind = "private", NeverRotated PROVE Own /\ All
  BY <1>2 DEF PrivateInv
<1>3. ASSUME NEW h \in Handler, Create(h) \/ Show(h) \/ CommandFails(h) \/ Dies(h)
      PROVE  (Own /\ All)'
  <2>1. Own /\ All
    BY <1>1, <1>2, <1>3, QuietEffect DEF NeverRotated
  <2>2. pc'[h] \notin {"asking", "answered"}
    BY <1>1, <1>3, QuietEffect
  <2> QED
    BY <1>3, <2>1, <2>2, QuietEffect DEF Untouched
<1>4. ASSUME NEW h \in Handler, Provision(h) PROVE (Own /\ All)'
  <2>1. Own /\ All
    BY <1>1, <1>2, <1>4, ProvisionEffect DEF NeverRotated
  <2>2. row' = Found /\ row'.key = row.key /\ (Found.key # NoKey => Found = row)
    BY <1>4, ProvisionEffect, FoundEffect
  <2>3. pc'[h] \in {"asking", "answered"} => Asks(h)'
    BY <1>4, <2>1, <2>2, ProvisionEffect, ServedEffect, FoundEffect
  <2> QED
    BY <1>4, <2>1, <2>2, <2>3, ProvisionEffect DEF Untouched
<1>5. ASSUME NEW h \in Handler, CliRuns(h) \/ OrphanRuns(h) PROVE (Own /\ All)'
  <2>1. Own /\ All
    BY <1>1, <1>2, <1>5, CliEffect DEF NeverRotated
  <2> QED
    BY <1>5, <2>1, CliEffect DEF Untouched
<1>6. ASSUME NEW h \in Handler, Save(h) \/ DiesSaving(h) PROVE (Own /\ All)'
  <2>1. CanCapture(h)
    BY <1>6 DEF Save, DiesSaving
  <2>2. row.key = NoKey /\ NeverRotated
    BY <2>1, CaptureEffect DEF NeverRotated
  <2>3. Own /\ All
    BY <1>1, <1>2, <1>6, <2>2, SaveEffect, DiesSavingEffect
  <2>4. \A g \in Handler : pc[g] \notin {"asking", "answered"}
    BY <2>2, <2>3
  <2>5. CASE Save(h)
    <3>1. /\ Served(h, Provisioned(h)) /\ row'.key = file /\ row'.address = file
          /\ file # NoKey /\ Provisioned(h).key = file /\ Provisioned(h).address = file
      BY <2>1, <2>5, SaveEffect, CaptureEffect
    <3> QED
      BY <2>4, <3>1, ServedEffect DEF Untouched
  <2>6. CASE DiesSaving(h)
    <3>1. Leave(h) /\ (row' = row \/ row'.address = row'.key)
      BY <2>1, <2>6, DiesSavingEffect, CaptureEffect
    <3> QED
      BY <2>2, <2>4, <3>1, LeaveEffect DEF Untouched
  <2> QED
    BY <1>6, <2>5, <2>6
<1>7. ASSUME NEW h \in Handler, Refresh(h) PROVE (Own /\ All)'
  <2>1. Own /\ All
    BY <1>1, <1>2, <1>7, RefreshEffect DEF NeverRotated
  <2> QED
    BY <1>7, <2>1, RefreshEffect, LeaveEffect DEF Untouched
<1>8. CASE Freeze \/ Unfreeze
  BY <1>1, <1>2, <1>8 DEF Freeze, Unfreeze, TypeOK, Row, history, NeverRotated
<1>9. CASE Rotate
  <2>1. PICK new \in versions' : new.no > 1
    BY <1>9, RotateEffect
  <2> QED
    BY <1>1, <2>1 DEF NeverRotated
<1>10. CASE Lapse
  BY <1>1, <1>2, <1>10 DEF Lapse, NeverRotated
<1>11. CASE UNCHANGED vars
  BY <1>1, <1>2, <1>11 DEF vars, NeverRotated
<1> QED
  BY <1>3, <1>4, <1>5, <1>6, <1>7, <1>8, <1>9, <1>10, <1>11 DEF Next, Step

SafeOrNone == Safe \union {NoKey}

\* Where a key may be while it is safe.
LEMMA SafeIs ==
    /\ \A k : k \in Safe <=> k \in {v.key : v \in versions} \/ k \in torn \/ k = file \/ k = row.key
    /\ \A k : k \in Safe' <=>
           k \in {v.key : v \in versions'} \/ k \in torn' \/ k = file' \/ k = row'.key
  BY DEF Safe, Kept

\* No step makes a safe key unsafe.
LEMMA SafeGrows ==
    ASSUME TypeOK, Numbered, RowInv, FlightInv, ActiveInv, [Next]_vars
    PROVE  Safe \subseteq SafeOrNone'
<1> SUFFICES ASSUME NEW k, k \in Safe, k # NoKey PROVE k \in Safe'
  BY DEF SafeOrNone
<1>1. \/ \E v \in versions : v.key = k
      \/ k \in torn \/ k = file \/ k = row.key
  BY SafeIs
<1>2. ASSUME UNCHANGED <<versions, torn>>, row'.key = row.key, file' = file \/ file = NoKey
      PROVE  k \in Safe'
  BY <1>1, <1>2, SafeIs
<1>3. ASSUME NEW h \in Handler, Create(h) \/ Show(h) \/ CommandFails(h) \/ Dies(h)
      PROVE  k \in Safe'
  BY <1>2, <1>3, QuietEffect
<1>4. ASSUME NEW h \in Handler, Provision(h) PROVE k \in Safe'
  BY <1>2, <1>4, ProvisionEffect, FoundEffect
<1>5. ASSUME NEW h \in Handler, CliRuns(h) \/ OrphanRuns(h) PROVE k \in Safe'
  BY <1>2, <1>5, CliEffect
<1>6. ASSUME NEW h \in Handler, Save(h) \/ DiesSaving(h) PROVE k \in Safe'
  <2>1. row.key = NoKey /\ versions = {}
    BY <1>6, CaptureEffect DEF Save, DiesSaving
  <2>2. k \in torn \/ k = file
    BY <1>1, <2>1
  <2>3. torn \subseteq torn' /\ (file \in torn' \/ file = row'.key)
    BY <1>6, SaveEffect, DiesSavingEffect
  <2> QED
    BY <2>2, <2>3, SafeIs
<1>7. ASSUME NEW h \in Handler, Refresh(h) PROVE k \in Safe'
  BY <1>2, <1>7, RefreshEffect
<1>8. CASE Freeze \/ Unfreeze
  <2>1. row'.key = row.key /\ UNCHANGED <<versions, torn, file>>
    BY <1>8 DEF Freeze, Unfreeze, TypeOK, Row, history
  <2> QED
    BY <1>2, <2>1
<1>9. CASE Rotate
  <2>1. CASE k = row.key /\ k \notin torn
    <3>1. versions = {} \/ \E v \in versions : v.key = k
      BY <2>1 DEF ActiveInv
    <3> QED
      BY <1>9, <2>1, <3>1, RotateEffect, SafeIs
  <2>2. CASE k # row.key \/ k \in torn
    BY <1>1, <1>9, <2>2, RotateEffect, SafeIs
  <2> QED
    BY <2>1, <2>2
<1>10. CASE Lapse
  BY <1>2, <1>10 DEF Lapse, history
<1>11. CASE UNCHANGED vars
  BY <1>2, <1>11 DEF vars
<1> QED
  BY <1>3, <1>4, <1>5, <1>6, <1>7, <1>8, <1>9, <1>10, <1>11 DEF Next, Step

\* Neither do a command or the row come to know a key that is not safe.
LEMMA SafeStep ==
    ASSUME TypeOK, Numbered, RowInv, FlightInv, SafeInv, ActiveInv, [Next]_vars
    PROVE  SafeInv'
<1> DEFINE Now == SafeOrNone
<1> DEFINE Then == SafeOrNone'
<1> DEFINE Knows(g) == snap[g].key \in Now /\ snap[g].address \in Now /\ told[g] \in Now
<1> DEFINE Knew(g) == snap'[g].key \in Then /\ snap'[g].address \in Then /\ told'[g] \in Then
<1>1. Now \subseteq Then /\ NoKey \in Then
  BY SafeGrows DEF SafeOrNone
<1>2. /\ published \subseteq Then /\ row.address \in Then /\ row.key \in Then
      /\ \A g \in Handler : snap[g].key \in Then /\ snap[g].address \in Then /\ told[g] \in Then
  BY <1>1 DEF SafeInv, SafeOrNone, Safe, Kept
<1>3. row'.key \in Then /\ file' \in Then /\ torn' \subseteq Then
  BY SafeIs DEF SafeOrNone
<1>4. SUFFICES /\ published' \subseteq Then
               /\ row'.address \in Then
               /\ \A g \in Handler : Knew(g)
  <2>1. TypeOK'
    BY TypeStep
  <2> QED
    BY <1>4, <2>1, KeyAssumption DEF SafeInv, SafeOrNone, TypeOK
<1>5. \A g \in Handler : Untouched(g) => Knew(g)
  BY <1>2 DEF Untouched
<1>6. NoRow.key = NoKey /\ NoRow.address = NoKey
  BY NoRowType
<1> HIDE DEF Then, Now
<1>7. ASSUME NEW h \in Handler, Create(h) \/ Show(h) \/ CommandFails(h) \/ Dies(h)
      PROVE  published' \subseteq Then /\ row'.address \in Then /\ Knew(h)
  BY <1>1, <1>2, <1>6, <1>7, QuietEffect
<1>8. ASSUME NEW h \in Handler, Provision(h)
      PROVE  published' \subseteq Then /\ row'.address \in Then /\ Knew(h)
  BY <1>1, <1>2, <1>6, <1>8, ProvisionEffect, ServedEffect, FoundEffect
<1>9. ASSUME NEW h \in Handler, CliRuns(h) \/ OrphanRuns(h)
      PROVE  published' \subseteq Then /\ row'.address \in Then /\ Knew(h)
  BY <1>1, <1>2, <1>3, <1>6, <1>9, CliEffect
<1>10. ASSUME NEW h \in Handler, Save(h) \/ DiesSaving(h)
      PROVE  published' \subseteq Then /\ row'.address \in Then /\ Knew(h)
  <2>1. CanCapture(h)
    BY <1>10 DEF Save, DiesSaving
  <2>2. CASE Save(h)
    BY <1>1, <1>2, <1>3, <1>6, <2>1, <2>2, SaveEffect, ServedEffect, CaptureEffect
  <2>3. CASE DiesSaving(h)
    BY <1>1, <1>2, <1>3, <1>6, <2>1, <2>3, DiesSavingEffect, LeaveEffect
  <2> QED
    BY <1>10, <2>2, <2>3
<1>11. ASSUME NEW h \in Handler, Refresh(h)
      PROVE  published' \subseteq Then /\ row'.address \in Then /\ Knew(h)
  BY <1>1, <1>2, <1>6, <1>11, RefreshEffect, LeaveEffect
<1>12. ASSUME NEW h \in Handler, Step(h) PROVE \A g \in Handler \ {h} : Untouched(g)
  BY <1>12, QuietEffect, ProvisionEffect, CliEffect, SaveEffect, ServedEffect,
     DiesSavingEffect, RefreshEffect, LeaveEffect DEF Step
<1>13. CASE Freeze \/ Unfreeze
  <2>1. row'.address = row.address /\ UNCHANGED <<published, snap, told>>
    BY <1>13 DEF Freeze, Unfreeze, TypeOK, Row, history
  <2> QED
    BY <1>2, <2>1
<1>14. CASE Rotate
  BY <1>2, <1>3, <1>14, RotateEffect
<1>15. CASE Lapse \/ UNCHANGED vars
  BY <1>2, <1>15 DEF Lapse, vars, history
<1> QED
  BY <1>5, <1>7, <1>8, <1>9, <1>10, <1>11, <1>12, <1>13, <1>14, <1>15 DEF Next, Step

\* A step in which h, if anyone, stops provisioning, and the row's key stays.
LEMMA PairLeaves ==
    ASSUME TypeOK, PairInv, NEW h \in Handler, holder' \in {holder, Unlocked(h)},
           \A g \in Handler \ {h} : pc'[g] = pc[g], InFlight(h)' => InFlight(h),
           holder' # holder => ~InFlight(h)',
           row'.key = row.key, UNCHANGED <<versions, torn>>
    PROVE  PairInv'
<1>1. \A g \in Handler : InFlight(g)' => InFlight(g)
  BY DEF InFlight
<1>2. ASSUME NEW f \in Handler, NEW g \in Handler, InFlight(f)', InFlight(g)', f # g
      PROVE  row'.key = NoKey /\ holder' \in {f, g}
  <2>1. row.key = NoKey /\ holder \in {f, g}
    BY <1>1, <1>2 DEF PairInv
  <2> QED
    BY <1>2, <2>1 DEF Unlocked
<1>3. Backed => Backed'
  BY DEF Backed
<1> QED
  BY <1>1, <1>2, <1>3 DEF PairInv

LEMMA PairStep ==
    ASSUME TypeOK, Numbered, RowInv, overruns = 0 => FlightInv, PairInv, overruns' <= 1, [Next]_vars
    PROVE  PairInv'
<1>1. ASSUME NEW h \in Handler, Create(h) \/ Show(h) \/ CommandFails(h) \/ Dies(h) PROVE PairInv'
  BY <1>1, QuietEffect, PairLeaves DEF Untouched, InFlight
<1>2. ASSUME NEW h \in Handler, Provision(h) PROVE PairInv'
  <2>1. /\ pc[h] = "waiting" /\ holder = NoHandler /\ row' = Found /\ Found.key = row.key
        /\ UNCHANGED <<versions, torn>> /\ \A g \in Handler \ {h} : pc'[g] = pc[g]
    BY <1>2, ProvisionEffect, FoundEffect DEF Untouched
  <2>2. ASSUME NEW f \in Handler, NEW g \in Handler, InFlight(f), InFlight(g) PROVE f = g
    BY <2>1, <2>2, KeyAssumption DEF PairInv
  <2>3. CASE Served(h, Found) /\ holder' = holder
    BY <2>1, <2>3, ServedEffect, PairLeaves DEF InFlight
  <2>4. CASE ~Ready(Found) /\ holder' = h
    <3>1. row'.key = NoKey
      BY <2>1, <2>4, FoundEffect DEF RowInv
    <3>2. \A f, g \in Handler : InFlight(f)' /\ InFlight(g)' /\ f # g => h \in {f, g}
      BY <2>1, <2>2 DEF InFlight
    <3> QED
      BY <2>4, <3>1, <3>2 DEF PairInv, Backed
  <2> QED
    BY <1>2, <2>3, <2>4, ProvisionEffect
<1>3. ASSUME NEW h \in Handler, CliRuns(h) \/ OrphanRuns(h) PROVE PairInv'
  BY <1>3, CliEffect, PairLeaves DEF Untouched, InFlight
<1>4. ASSUME NEW h \in Handler, Save(h) \/ DiesSaving(h) PROVE PairInv'
  <2>1. /\ InFlight(h) /\ ~InFlight(h)' /\ torn \subseteq torn'
        /\ \A g \in Handler \ {h} : InFlight(g)' <=> InFlight(g)
    BY <1>4, StoreEffect DEF InFlight
  <2>2. ASSUME NEW f \in Handler, NEW g \in Handler, InFlight(f)', InFlight(g)' PROVE f = g
    <3>1. f # h /\ g # h /\ InFlight(f) /\ InFlight(g)
      BY <2>1, <2>2
    <3> QED
      BY <2>1, <3>1 DEF PairInv
  <2>3. ASSUME NEW g \in Handler, InFlight(g)' PROVE Backed'
    <3>1. g # h /\ InFlight(g)
      BY <2>1, <2>3
    <3>2. row.key = NoKey
      BY <2>1, <3>1 DEF PairInv
    <3>3. versions = {}
      BY <3>2 DEF RowInv
    <3> QED
      BY <1>4, <3>2, <3>3, StoreEffect DEF Backed
  <2> QED
    BY <2>2, <2>3 DEF PairInv
<1>5. ASSUME NEW h \in Handler, Refresh(h) PROVE PairInv'
  BY <1>5, RefreshEffect, LeaveEffect, PairLeaves DEF Untouched, InFlight
<1>6. CASE Freeze \/ Unfreeze
  <2>1. row'.key = row.key /\ UNCHANGED <<versions, torn, holder, pc>>
    BY <1>6 DEF Freeze, Unfreeze, TypeOK, Row, history
  <2> QED
    BY <2>1 DEF PairInv, InFlight, Backed
<1>7. CASE Rotate
  <2>1. row.key # NoKey /\ UNCHANGED pc /\ row'.key \in {v.key : v \in versions'}
    BY <1>7, RotateEffect
  <2> QED
    BY <2>1 DEF PairInv, InFlight, Backed
<1>8. CASE Lapse
  <2>1. UNCHANGED <<row, versions, torn, pc>> /\ holder' = NoHandler /\ holder # NoHandler
    BY <1>8 DEF Lapse
  <2>2. ASSUME NEW f \in Handler, NEW g \in Handler, InFlight(f), InFlight(g) PROVE f = g
    <3>1. CASE pc[holder] \in {"done", "orphan"}
      BY <2>2, <3>1 DEF PairInv, InFlight
    <3>2. CASE overruns' = overruns + 1
      <4>1. overruns = 0
        BY <3>2 DEF TypeOK
      <4> QED
        BY <2>2, <4>1 DEF FlightInv, InFlight
    <3> QED
      BY <1>8, <3>1, <3>2 DEF Lapse
  <2> QED
    BY <2>1, <2>2 DEF PairInv, InFlight, Backed
<1>9. CASE UNCHANGED vars
  BY <1>9 DEF vars, PairInv, InFlight, Backed
<1> QED
  BY <1>1, <1>2, <1>3, <1>4, <1>5, <1>6, <1>7, <1>8, <1>9 DEF Next, Step

LEMMA InitInv == Init => IInv
<1> SUFFICES ASSUME Init PROVE IInv
  OBVIOUS
<1>1. TypeOK /\ Numbered
  BY TypeInit
<1>2. RowInv /\ FlightInv /\ SafeInv /\ ActiveInv /\ PrivateInv
  BY NoRowType DEF Init, RowInv, FlightInv, SafeInv, ActiveInv, PrivateInv
<1>3. PairInv
  BY DEF Init, PairInv, InFlight
<1> QED
  BY <1>1, <1>2, <1>3 DEF IInv, CalmInv

\* Overruns are counted and never forgotten.
LEMMA OverrunsGrow ==
    ASSUME TypeOK, [Next]_vars
    PROVE  overruns \in Nat /\ overruns' \in {overruns, overruns + 1}
<1>1. overruns \in Nat
  BY DEF TypeOK
<1>2. ASSUME NEW h \in Handler, Step(h) PROVE overruns' = overruns
  BY <1>2 DEF Step, Create, Show, Provision, CliRuns, CommandFails, Save, Refresh, Dies,
              OrphanRuns, DiesSaving, history
<1>3. ASSUME Freeze \/ Unfreeze \/ Rotate \/ UNCHANGED vars PROVE overruns' = overruns
  BY <1>3 DEF Freeze, Unfreeze, Rotate, vars, history
<1>4. CASE Lapse
  BY <1>1, <1>4 DEF Lapse
<1> QED
  BY <1>1, <1>2, <1>3, <1>4 DEF Next

LEMMA Inductive ==
    ASSUME IInv, [Next]_vars
    PROVE  IInv'
<1>1. TypeOK /\ Numbered /\ RowInv
  BY DEF IInv
<1>2. TypeOK' /\ Numbered' /\ RowInv'
  BY <1>1, TypeStep, RowStep
<1>3. overruns \in Nat /\ overruns' \in {overruns, overruns + 1}
  BY <1>1, OverrunsGrow
<1>4. ASSUME overruns' = 0 PROVE CalmInv'
  <2>1. CalmInv
    BY <1>3, <1>4 DEF IInv
  <2> QED
    BY <1>1, <1>4, <2>1, FlightStep, ActiveStep, SafeStep, PrivateStep DEF CalmInv
<1>5. ASSUME overruns' <= 1 PROVE PairInv'
  <2>1. PairInv /\ (overruns = 0 => FlightInv)
    BY <1>3, <1>5 DEF IInv, CalmInv
  <2> QED
    BY <1>1, <1>5, <2>1, PairStep
<1> QED
  BY <1>2, <1>4, <1>5 DEF IInv

LEMMA Always == Spec => []IInv
  BY InitInv, Inductive, PTL DEF Spec

\* Until a call outlives its lock, the key of every address ever shown is kept, but
\* for the one whose process died while it stored it.
THEOREM PublishedKeysKept == Spec => []PublishedIsKept
<1>1. IInv => PublishedIsKept
  BY DEF IInv, CalmInv, SafeInv, Safe, PublishedIsKept
<1> QED
  BY <1>1, Always, PTL

\* Until a call outlives its lock, the row's key is that of the one active version.
THEOREM RowAgreesWithVersions == Spec => []KeyIsActiveVersion
<1>1. IInv => KeyIsActiveVersion
  BY DEF IInv, CalmInv, ActiveInv, KeyIsActiveVersion
<1> QED
  BY <1>1, Always, PTL

\* Until a call outlives its lock, the address a user sees is of the key that pays.
THEOREM UserAddressIsOfKey == Spec => []PrivateAddressIsOfKey
<1>1. IInv => PrivateAddressIsOfKey
  BY DEF IInv, CalmInv, PrivateInv, NeverRotated, PrivateAddressIsOfKey
<1> QED
  BY <1>1, Always, PTL

Overwrites ==
    row.key # NoKey /\ row'.key # row.key =>
        \/ Rotate
        \/ /\ overruns = 1
           /\ versions # {} => row.key \in {v.key : v \in versions'} \union torn
        \/ overruns > 1

\* Until a call outlives its lock, only a rotation replaces a key; when one has, what a
\* provisioning overwrites stays a version, or a process died while it was stored.
THEOREM OverwrittenKeysStayVersions == Spec => OverwrittenKeyIsVersion
<1>1. ASSUME IInv, [Next]_vars PROVE Overwrites
  <2>1. ASSUME NEW h \in Handler, Save(h) \/ DiesSaving(h) PROVE Overwrites
    <3>1. TypeOK /\ InFlight(h) /\ overruns \in Nat
      BY <1>1, <2>1, StoreEffect DEF IInv, InFlight, TypeOK
    <3>2. CASE overruns = 0
      BY <1>1, <3>1, <3>2 DEF IInv, CalmInv, FlightInv, InFlight, Overwrites
    <3>3. CASE overruns = 1
      <4>1. Backed
        BY <1>1, <3>1, <3>3 DEF IInv, PairInv
      <4>2. row' = row \/ (versions # {} => versions' = versions)
        BY <2>1, <3>1, StoreEffect
      <4> QED
        BY <3>3, <4>1, <4>2 DEF Overwrites, Backed
    <3> QED
      BY <3>1, <3>2, <3>3 DEF Overwrites
  <2>2. ASSUME NEW h \in Handler, Provision(h) \/ Refresh(h) PROVE row'.key = row.key
    BY <1>1, <2>2, ProvisionEffect, FoundEffect, RefreshEffect DEF IInv
  <2>3. ASSUME Freeze \/ Unfreeze PROVE row'.key = row.key
    BY <1>1, <2>3 DEF Freeze, Unfreeze, IInv, TypeOK, Row
  <2> QED
    BY <1>1, <2>1, <2>2, <2>3, RowSteps DEF RowWrite, Overwrites
<1>2. IInv /\ [Next]_vars => [Overwrites]_vars
  BY <1>1
<1>3. Spec => [][Overwrites]_vars
  BY <1>2, Always, PTL DEF Spec
<1> QED
  BY <1>3, PTL DEF OverwrittenKeyIsVersion, Overwrites

\* Until a call outlives its lock, only an unfreeze undoes the freeze of a wallet that
\* has its key.
THEOREM FreezeOfProvisionedLasts == Spec => ProvisionedStaysFrozen
<1>1. ASSUME IInv, [Next]_vars
      PROVE  overruns = 0 /\ row.key # NoKey /\ row.status = "disabled" /\ row'.status # "disabled" => Unfreeze
  <2> SUFFICES ASSUME overruns = 0
               PROVE  row.key # NoKey /\ row.status = "disabled" /\ row'.status # "disabled" => Unfreeze
    OBVIOUS
  <2>1. ASSUME NEW h \in Handler, RowWrite(h) PROVE row.key = NoKey \/ row'.status = row.status
    BY <1>1, <2>1, ProvisionEffect, FoundEffect, CaptureEffect, RefreshEffect
       DEF RowWrite, IInv, CalmInv, Save, DiesSaving
  <2>2. ASSUME Freeze PROVE row.status # "disabled"
    BY <2>2 DEF Freeze
  <2>3. ASSUME Rotate PROVE row'.status = row.status
    BY <1>1, <2>3, RotateEffect DEF IInv
  <2> QED
    BY <1>1, <2>1, <2>2, <2>3, RowSteps
<1> QED
  BY <1>1, Always, PTL DEF Spec, ProvisionedStaysFrozen

-----------------------------------------------------------------------------
(* What holds even when CLI calls outlive their locks. *)

\* A number is given once; a wallet with versions has one active, the newest.
OneActive ==
    /\ \A v, w \in versions : v.no = w.no => v = w
    /\ \A v, w \in versions : v.active => w.no <= v.no
    /\ versions # {} => \E v \in versions : v.active = TRUE

\* A version is never dropped, renumbered or given another key.
VersionsAreHistory ==
    [][\A v \in versions : \E w \in versions' : w.no = v.no /\ w.key = v.key]_vars

\* Only a rotation writes versions, once there are any.
LEMMA VersionWrites ==
    ASSUME [Next]_vars
    PROVE  \/ versions' = versions
           \/ versions = {} /\ \E k : versions' = {FirstVersion(k)}
           \/ Rotate
<1>1. ASSUME NEW h \in Handler, Step(h), versions' # versions
      PROVE  versions = {} /\ \E k : versions' = {FirstVersion(k)}
  <2>1. Save(h) \/ DiesSaving(h)
    BY <1>1
    DEF Step, Create, Show, Provision, CliRuns, CommandFails, Refresh, Dies, OrphanRuns, database
  <2>2. CASE Save(h)
    BY <1>1, <2>2 DEF Save, Recorded
  <2>3. CASE DiesSaving(h)
    BY <1>1, <2>3 DEF DiesSaving, database
  <2> QED
    BY <2>1, <2>2, <2>3
<1> QED
  BY <1>1 DEF Next, Freeze, Unfreeze, Lapse, vars

LEMMA RetiredHistory ==
    ASSUME TypeOK, OneActive
    PROVE  /\ \A v \in versions : \E w \in Retired : w.no = v.no /\ w.key = v.key
           /\ \A v, w \in Retired : v.no = w.no => v = w
<1>1. CASE versions = {}
  BY <1>1 DEF Retired
<1>2. CASE versions # {}
  <2> DEFINE Off(v) == [v EXCEPT !.active = FALSE]
  <2>1. Retired = {Off(v) : v \in versions}
    BY <1>2 DEF Retired
  <2>2. \A v \in versions : Off(v).no = v.no /\ Off(v).key = v.key
    BY DEF TypeOK, Version
  <2> HIDE DEF Off
  <2> QED
    BY <2>1, <2>2 DEF OneActive
<1> QED
  BY <1>1, <1>2

\* What a rotation adds is newer than all that it retires.
LEMMA RotateHistory ==
    ASSUME TypeOK, Numbered, OneActive, Rotate
    PROVE  /\ OneActive'
           /\ \A v \in versions : \E w \in versions' : w.no = v.no /\ w.key = v.key
<1>1. PICK n \in Nat \ {0} : {w.no : w \in Retired} = 1 .. n
  BY RetiredType
<1>2. PICK new : /\ versions' = Retired \union {new}
                 /\ new.no = n + 1 /\ new.active = TRUE
  <2>1. PICK k : versions' = Retired \union {[no |-> NextNo, key |-> k, active |-> TRUE]}
    BY DEF Rotate, NextNo
  <2> DEFINE added == [no |-> NextNo, key |-> k, active |-> TRUE]
  <2>2. added.no = n + 1 /\ added.active = TRUE
    BY <1>1, NextNumber
  <2> QED
    BY <2>1, <2>2
<1>3. \A w \in Retired : w.no \in 1 .. n /\ w.active = FALSE
  BY <1>1, RetiredType
<1>4. \A v, w \in versions' : v.no = w.no => v = w
  BY <1>2, <1>3, RetiredHistory
<1>5. \A v, w \in versions' : v.active => w.no <= v.no
  BY <1>2, <1>3
<1> QED
  BY <1>2, <1>4, <1>5, RetiredHistory DEF OneActive

\* Lapsed locks, overrunning calls, deaths in the middle of storing a key and any number
\* of rotations leave the table of versions a history with its newest entry in use.
THEOREM VersionsKept == Spec => []OneActive /\ VersionsAreHistory
<1>1. Init => OneActive
  BY DEF Init, OneActive
<1>2. ASSUME TypeOK, Numbered, OneActive, [Next]_vars
      PROVE  /\ OneActive'
             /\ \A v \in versions : \E w \in versions' : w.no = v.no /\ w.key = v.key
  <2>1. CASE versions' = versions
    BY <1>2, <2>1 DEF OneActive
  <2>2. CASE versions = {} /\ \E k : versions' = {FirstVersion(k)}
    <3>1. PICK k : versions' = {FirstVersion(k)}
      BY <2>2
    <3>2. FirstVersion(k).no = 1 /\ FirstVersion(k).active = TRUE
      BY DEF FirstVersion
    <3>3. \A v \in versions' : v = FirstVersion(k)
      BY <3>1
    <3>4. \A v, w \in versions' : v.active => w.no <= v.no
      BY <3>2, <3>3
    <3>5. FirstVersion(k) \in versions'
      BY <3>1
    <3> QED
      BY <2>2, <3>2, <3>3, <3>4, <3>5 DEF OneActive
  <2> QED
    BY <1>2, <2>1, <2>2, VersionWrites, RotateHistory
<1>3. TypeOK /\ Numbered /\ OneActive /\ [Next]_vars => OneActive'
  BY <1>2
<1>4. TypeOK /\ Numbered /\ OneActive /\ [Next]_vars =>
          [\A v \in versions : \E w \in versions' : w.no = v.no /\ w.key = v.key]_vars
  BY <1>2
<1> QED
  BY <1>1, <1>3, <1>4, TypeInit, TypeStep, PTL DEF Spec, VersionsAreHistory

=============================================================================
