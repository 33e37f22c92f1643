----------------------- MODULE GroupGovernanceProofs -----------------------
(***************************************************************************)
(* For any users, any freshness of a verification and any lag of the       *)
(* platform's answers: types, the one owner, what a complete sync leaves,  *)
(* and who changes caps and approves.                                      *)
(***************************************************************************)
EXTENDS GroupGovernance, TLAPS

-----------------------------------------------------------------------------
(* Types. *)

LEMMA NewJobType ==
    ASSUME NEW o \in Op, NEW p \in Phase
    PROVE  NewJob(o, p) \in Job
BY GovernanceAssumption DEF NewJob, Job

LEMMA GotoType ==
    ASSUME TypeOK, NEW u \in User, NEW p \in Phase, Goto(u, p)
    PROVE  job' \in [User -> Job]
<1>1. job' = [v \in User |-> IF v = u THEN [job[u] EXCEPT !.phase = p] ELSE job[v]]
  BY DEF TypeOK, Goto
<1>2. \A j \in Job : [j EXCEPT !.phase = p] \in Job
  BY DEF Job
<1> QED
  BY <1>1, <1>2 DEF TypeOK

LEMMA PromotedType ==
    ASSUME TypeOK, NEW list
    PROVE  Promoted(list) \in [User -> Role]
BY DEF TypeOK, Promoted, Role, Rights

LEMMA DemotedType ==
    ASSUME NEW r \in [User -> Role], NEW vs
    PROVE  Demoted(r, vs) \in [User -> Role]
BY DEF Demoted, Role

LEMMA RecordType ==
    ASSUME TypeOK, NEW us, Record(us)
    PROVE  fresh' \in [User -> 0 .. TTL]
BY GovernanceAssumption DEF TypeOK, Record

LEMMA IdleType == Idle \in Job
BY GovernanceAssumption DEF Idle, NewJob, Job, Phase

LEMMA TypeStep == TypeOK /\ [Next]_vars => TypeOK'
<1> SUFFICES ASSUME TypeOK, [Next]_vars PROVE TypeOK'
  OBVIOUS
<1> USE GovernanceAssumption, IdleType
<1>1. ASSUME NEW u \in User, Visit(u) PROVE TypeOK'
  BY <1>1 DEF Visit, TypeOK, Enter, Unsettle, Op, Phase, Role, Rights
<1>2. ASSUME NEW u \in User, Meet(u) PROVE TypeOK'
  BY <1>2 DEF Meet, TypeOK, Unsettle, Op, Phase, Role, Rights
<1>3. ASSUME NEW u \in User, BeginCreate(u) PROVE TypeOK'
  BY <1>3, NewJobType DEF BeginCreate, TypeOK, Unsettle, Op, Phase, Role, Rights
<1>4. ASSUME NEW u \in User, BeginSync(u) PROVE TypeOK'
  BY <1>4, NewJobType DEF BeginSync, TypeOK, Enter, Unsettle, Op, Phase, Role,
     Rights
<1>5. ASSUME NEW u \in User, BeginCap(u) PROVE TypeOK'
  BY <1>5, NewJobType DEF BeginCap, TypeOK, Enter, Unsettle, Op, Phase, Role, Rights
<1>6. ASSUME NEW u \in User, BeginApprove(u) PROVE TypeOK'
  BY <1>6, NewJobType DEF BeginApprove, TypeOK, Unsettle, Op, Phase, Role, Rights
<1>7. ASSUME NEW u \in User, Answer(u) PROVE TypeOK'
  BY <1>7, GotoType DEF Answer, TypeOK, Phase
<1>8. ASSUME NEW u \in User, Refuse(u) PROVE TypeOK'
  BY <1>8, NewJobType DEF Refuse, TypeOK, Close, Op, Phase, Role, Rights
<1>9. ASSUME NEW u \in User, CreateAgain(u) PROVE TypeOK'
  BY <1>9, NewJobType DEF CreateAgain, TypeOK, Enter, Record, Op, Phase, Role,
     Rights
<1>10. ASSUME NEW u \in User, CreateNew(u) PROVE TypeOK'
  BY <1>10, GotoType DEF CreateNew, TypeOK, Phase
<1>11. ASSUME NEW u \in User, Found(u) PROVE TypeOK'
  <2>1. job' \in [User -> Job]
    BY <1>11, GotoType DEF Found, Phase
  <2>2. role' \in [User -> Role]
    BY <1>11 DEF Found, FoundRole, TypeOK, Role, Rights
  <2> QED
    BY <1>11, <2>1, <2>2 DEF Found, TypeOK, Unsettle
<1>12. ASSUME NEW u \in User, Provisioned(u) PROVE TypeOK'
  BY <1>12, NewJobType DEF Provisioned, TypeOK, Close, Record, Op, Phase, Role,
     Rights
<1>13. ASSUME NEW u \in User, ProvisionFails(u) PROVE TypeOK'
  BY <1>13, NewJobType DEF ProvisionFails, TypeOK, Close, Op, Phase, Role, Rights
<1>14. ASSUME NEW u \in User, SyncAsks(u) PROVE TypeOK'
  BY <1>14, NewJobType DEF SyncAsks, TypeOK, Record, Op, Phase, Role, Rights
<1>15. ASSUME NEW u \in User, ListAnswer(u) PROVE TypeOK'
  <2>1. [NewJob("sync", "listed") EXCEPT !.list = {v \in User : status[v] = "admin"}] \in Job
    BY NewJobType DEF Job, Op, Phase
  <2> QED
    BY <1>15, <2>1 DEF ListAnswer, TypeOK
<1>16. ASSUME NEW u \in User, Promote(u) PROVE TypeOK'
  <2>1. Demoted(Promoted(job[u].list), Dropped(job[u].list)) \in [User -> Role]
    BY PromotedType, DemotedType
  <2>2. \A first : Demoted(Promoted(job[u].list), first) \in [User -> Role]
    BY PromotedType, DemotedType
  <2>3. Dropped(job[u].list) \subseteq User
    BY DEF Dropped
  <2>4. \A first :
          [NewJob("sync", "checking") EXCEPT !.todo = Dropped(job[u].list) \ first] \in Job
    BY <2>3, NewJobType DEF Job, Op, Phase
  <2>5. NewJob("sync", "done") \in Job
    BY NewJobType DEF Op, Phase
  <2>6. fresh' \in [User -> 0 .. TTL]
    BY <1>16, RecordType DEF Promote, TypeOK
  <2>7. role' \in [User -> Role]
    BY <1>16, <2>1, <2>2 DEF Promote
  <2>8. job' \in [User -> Job]
    BY <1>16, <2>4, <2>5 DEF Promote, TypeOK
  <2> QED
    BY <1>16, <2>6, <2>7, <2>8 DEF Promote, TypeOK, UnsettleOthers
<1>17. ASSUME NEW u \in User, OwnerAnswer(u) PROVE TypeOK'
  <2>1. \E p \in {"gone", "present"} : Goto(u, p)
    BY <1>17 DEF OwnerAnswer
  <2>2. job' \in [User -> Job]
    BY <2>1, GotoType DEF Phase
  <2> QED
    BY <1>17, <2>2 DEF OwnerAnswer, TypeOK
<1>18. ASSUME NEW u \in User, Settle(u) PROVE TypeOK'
  <2>1. NewJob("sync", "done") \in Job
    BY NewJobType DEF Op, Phase
  <2>2. role' \in [User -> Role]
    BY <1>18, DemotedType DEF Settle, TypeOK
  <2> QED
    BY <1>18, <2>1, <2>2 DEF Settle, TypeOK, UnsettleOthers
<1>19. ASSUME NEW u \in User, CapResumes(u) PROVE TypeOK'
  BY <1>19, NewJobType DEF CapResumes, TypeOK, Record, Op, Phase, Role, Rights
<1>20. ASSUME NEW u \in User, ApproveResumes(u) PROVE TypeOK'
  BY <1>20, NewJobType DEF ApproveResumes, TypeOK, Close, Record, Op, Phase, Role,
     Rights
<1>21. ASSUME NEW u \in User, Execute(u) PROVE TypeOK'
  BY <1>21, GotoType DEF Execute, TypeOK, Phase
<1>22. ASSUME NEW u \in User, RunRefused(u) PROVE TypeOK'
  BY <1>22, NewJobType DEF RunRefused, TypeOK, Close, Op, Phase, Role, Rights
<1>23. ASSUME NEW u \in User, Return(u) PROVE TypeOK'
  BY <1>23, NewJobType DEF Return, TypeOK, Close, Op, Phase, Role, Rights
<1>24. ASSUME NEW u \in User, NEW s \in Status, ChangeStatus(u, s) PROVE TypeOK'
  BY <1>24 DEF ChangeStatus, TypeOK, Never
<1>25. CASE Tick
  <2> HIDE GovernanceAssumption, IdleType
  <2>0. TTL \in Nat /\ Lag \in Nat /\ Never \in Nat
    BY GovernanceAssumption DEF Never
  <2>1. age' \in [User -> 0 .. Never]
    <3>1. \A n \in 0 .. Never : n # Never => n + 1 \in 0 .. Never
      BY <2>0
    <3> QED
      BY <1>25, <3>1 DEF Tick, TypeOK
  <2>2. fresh' \in [User -> 0 .. TTL]
    <3>1. 0 \in 0 .. TTL /\ \A n \in 0 .. TTL : n # 0 => n - 1 \in 0 .. TTL
      BY <2>0
    <3> QED
      BY <1>25, <3>1 DEF Tick, TypeOK
  <2>3. \A j \in Job : j.late < Lag => [j EXCEPT !.late = @ + 1] \in Job
    BY <2>0 DEF Job
  <2>4. job' \in [User -> Job]
    BY <1>25, <2>3 DEF Tick, TypeOK
  <2> QED
    BY <1>25, <2>1, <2>2, <2>4 DEF Tick, TypeOK
<1>26. CASE Restart
  BY <1>26 DEF Restart, TypeOK
<1>27. CASE UNCHANGED vars
  BY <1>27 DEF vars, TypeOK
<1> QED
  BY <1>1, <1>2, <1>3, <1>4, <1>5, <1>6, <1>7, <1>8, <1>9, <1>10, <1>11, <1>12,
     <1>13, <1>14, <1>15, <1>16, <1>17, <1>18, <1>19, <1>20, <1>21, <1>22, <1>23,
     <1>24, <1>25, <1>26, <1>27 DEF Next

LEMMA TypeInit == Init => TypeOK
BY GovernanceAssumption, IdleType DEF Init, TypeOK, Role, Never

\* Every variable keeps its type.
THEOREM TypeCorrect == Spec => []TypeOK
BY TypeInit, TypeStep, PTL DEF Spec

-----------------------------------------------------------------------------
(* The owner. *)

OwnerInv == TypeOK /\ OwnerIsCreator

LEMMA PromotedOwner ==
    ASSUME OwnerInv, NEW list, NEW v \in User, Promoted(list)[v] = "owner"
    PROVE  v = creator
BY DEF OwnerInv, TypeOK, OwnerIsCreator, Promoted

LEMMA DemotedOwner ==
    ASSUME NEW r, NEW vs, NEW v \in User, Demoted(r, vs)[v] = "owner"
    PROVE  r[v] = "owner"
BY DEF Demoted

\* An owner is made only of the creator.
LEMMA OwnerStep == OwnerInv /\ [Next]_vars => OwnerIsCreator'
<1> SUFFICES ASSUME OwnerInv, [Next]_vars PROVE OwnerIsCreator'
  OBVIOUS
<1>1. ASSUME NEW u \in User, Visit(u) PROVE OwnerIsCreator'
  BY <1>1 DEF Visit, Enter, OwnerInv, TypeOK, OwnerIsCreator
<1>2. ASSUME NEW u \in User, Meet(u) PROVE OwnerIsCreator'
  BY <1>2 DEF Meet, OwnerInv, TypeOK, OwnerIsCreator
<1>3. ASSUME NEW u \in User, BeginCreate(u) PROVE OwnerIsCreator'
  BY <1>3 DEF BeginCreate, OwnerInv, TypeOK, OwnerIsCreator
<1>4. ASSUME NEW u \in User, BeginSync(u) PROVE OwnerIsCreator'
  BY <1>4 DEF BeginSync, Enter, OwnerInv, TypeOK, OwnerIsCreator
<1>5. ASSUME NEW u \in User, BeginCap(u) PROVE OwnerIsCreator'
  BY <1>5 DEF BeginCap, Enter, OwnerInv, TypeOK, OwnerIsCreator
<1>6. ASSUME NEW u \in User, BeginApprove(u) PROVE OwnerIsCreator'
  BY <1>6 DEF BeginApprove, OwnerInv, TypeOK, OwnerIsCreator
<1>7. ASSUME NEW u \in User, Answer(u) PROVE OwnerIsCreator'
  BY <1>7 DEF Answer, OwnerInv, TypeOK, OwnerIsCreator
<1>8. ASSUME NEW u \in User, Refuse(u) PROVE OwnerIsCreator'
  BY <1>8 DEF Refuse, OwnerInv, TypeOK, OwnerIsCreator
<1>9. ASSUME NEW u \in User, CreateAgain(u) PROVE OwnerIsCreator'
  BY <1>9 DEF CreateAgain, Enter, OwnerInv, TypeOK, OwnerIsCreator
<1>10. ASSUME NEW u \in User, CreateNew(u) PROVE OwnerIsCreator'
  BY <1>10 DEF CreateNew, OwnerInv, TypeOK, OwnerIsCreator
<1>11. ASSUME NEW u \in User, Found(u) PROVE OwnerIsCreator'
  BY <1>11, GovernanceAssumption DEF Found, FoundRole, Exists, OwnerInv, TypeOK,
     OwnerIsCreator
<1>12. ASSUME NEW u \in User, Provisioned(u) PROVE OwnerIsCreator'
  BY <1>12 DEF Provisioned, OwnerInv, TypeOK, OwnerIsCreator
<1>13. ASSUME NEW u \in User, ProvisionFails(u) PROVE OwnerIsCreator'
  BY <1>13 DEF ProvisionFails, OwnerInv, TypeOK, OwnerIsCreator
<1>14. ASSUME NEW u \in User, SyncAsks(u) PROVE OwnerIsCreator'
  BY <1>14 DEF SyncAsks, OwnerInv, TypeOK, OwnerIsCreator
<1>15. ASSUME NEW u \in User, ListAnswer(u) PROVE OwnerIsCreator'
  BY <1>15 DEF ListAnswer, OwnerInv, TypeOK, OwnerIsCreator
<1>16. ASSUME NEW u \in User, Promote(u) PROVE OwnerIsCreator'
  <2>1. PICK vs : role' = Demoted(Promoted(job[u].list), vs)
    BY <1>16 DEF Promote
  <2> QED
    BY <1>16, <2>1, PromotedOwner, DemotedOwner DEF Promote, OwnerIsCreator
<1>17. ASSUME NEW u \in User, OwnerAnswer(u) PROVE OwnerIsCreator'
  BY <1>17 DEF OwnerAnswer, OwnerInv, TypeOK, OwnerIsCreator
<1>18. ASSUME NEW u \in User, Settle(u) PROVE OwnerIsCreator'
  BY <1>18, DemotedOwner DEF Settle, OwnerInv, OwnerIsCreator
<1>19. ASSUME NEW u \in User, CapResumes(u) PROVE OwnerIsCreator'
  BY <1>19 DEF CapResumes, OwnerInv, TypeOK, OwnerIsCreator
<1>20. ASSUME NEW u \in User, ApproveResumes(u) PROVE OwnerIsCreator'
  BY <1>20 DEF ApproveResumes, OwnerInv, TypeOK, OwnerIsCreator
<1>21. ASSUME NEW u \in User, Execute(u) PROVE OwnerIsCreator'
  BY <1>21 DEF Execute, OwnerInv, TypeOK, OwnerIsCreator
<1>22. ASSUME NEW u \in User, RunRefused(u) PROVE OwnerIsCreator'
  BY <1>22 DEF RunRefused, OwnerInv, TypeOK, OwnerIsCreator
<1>23. ASSUME NEW u \in User, Return(u) PROVE OwnerIsCreator'
  BY <1>23 DEF Return, OwnerInv, TypeOK, OwnerIsCreator
<1>24. ASSUME NEW u \in User, NEW s \in Status, ChangeStatus(u, s) PROVE OwnerIsCreator'
  BY <1>24 DEF ChangeStatus, OwnerInv, TypeOK, OwnerIsCreator
<1>25. CASE Tick
  BY <1>25 DEF Tick, OwnerInv, TypeOK, OwnerIsCreator
<1>26. CASE Restart
  BY <1>26 DEF Restart, OwnerInv, TypeOK, OwnerIsCreator
<1>27. CASE UNCHANGED vars
  BY <1>27 DEF vars, Enter, OwnerInv, TypeOK, OwnerIsCreator
<1> QED
  BY <1>1, <1>2, <1>3, <1>4, <1>5, <1>6, <1>7, <1>8, <1>9, <1>10, <1>11, <1>12,
     <1>13, <1>14, <1>15, <1>16, <1>17, <1>18, <1>19, <1>20, <1>21, <1>22, <1>23,
     <1>24, <1>25, <1>26, <1>27 DEF Next

LEMMA OwnerAlways == Spec => []OwnerInv
<1>1. Init => OwnerInv
  BY TypeInit DEF Init, OwnerInv, OwnerIsCreator
<1>2. OwnerInv /\ [Next]_vars => OwnerInv'
  BY TypeStep, OwnerStep DEF OwnerInv
<1> QED
  BY <1>1, <1>2, PTL DEF Spec

\* The one owner is the user who created the group.
THEOREM OneOwner == Spec => []OwnerIsCreator
BY OwnerAlways, PTL DEF OwnerInv

-----------------------------------------------------------------------------
(* Who was an admin, and when. *)

AgeInv == \A u \in User : status[u] = "admin" => age[u] = 0

\* An answer about the caller is no older than the ticks counted since.
AnswerInv ==
    \A u \in User : job[u].phase \in {"answered", "locking", "provisioning"}
                       => age[u] <= job[u].late

\* Nor is a list.
ListInv ==
    \A u \in User : job[u].phase = "listed" => \A v \in job[u].list : age[v] <= job[u].late

\* While a verification is fresh its user was an admin not long ago.
FreshInv == \A u \in User : fresh[u] > 0 => age[u] + fresh[u] <= Never

WindowInv == TypeOK /\ AgeInv /\ AnswerInv /\ ListInv /\ FreshInv

LEMMA Numbers ==
    /\ TTL \in Nat /\ Lag \in Nat /\ Never = TTL + Lag
    /\ TypeOK => \A u \in User : /\ age[u] \in Nat /\ age[u] <= Never
                                  /\ fresh[u] \in Nat /\ fresh[u] <= TTL
                                  /\ job[u].late \in Nat /\ job[u].late <= Lag
                                  /\ job[u].list \subseteq User
<1>1. TTL \in Nat /\ Lag \in Nat /\ Never = TTL + Lag /\ Never \in Nat
  BY GovernanceAssumption DEF Never
<1>2. \A j \in Job : j.late \in Nat /\ j.late <= Lag /\ j.list \subseteq User
  BY <1>1 DEF Job
<1>3. \A n : /\ n \in 0 .. Never => n \in Nat /\ n <= Never
            /\ n \in 0 .. TTL => n \in Nat /\ n <= TTL
  BY <1>1
<1> QED
  BY <1>1, <1>2, <1>3 DEF TypeOK

LEMMA AgeStep == WindowInv /\ [Next]_vars => AgeInv'
<1> SUFFICES ASSUME WindowInv, [Next]_vars PROVE AgeInv'
  OBVIOUS
<1>1. ASSUME NEW u \in User, Visit(u) PROVE AgeInv'
  BY <1>1 DEF Visit, WindowInv, AgeInv
<1>2. ASSUME NEW u \in User, Meet(u) PROVE AgeInv'
  BY <1>2 DEF Meet, WindowInv, AgeInv
<1>3. ASSUME NEW u \in User, BeginCreate(u) PROVE AgeInv'
  BY <1>3 DEF BeginCreate, WindowInv, AgeInv
<1>4. ASSUME NEW u \in User, BeginSync(u) PROVE AgeInv'
  BY <1>4 DEF BeginSync, WindowInv, AgeInv
<1>5. ASSUME NEW u \in User, BeginCap(u) PROVE AgeInv'
  BY <1>5 DEF BeginCap, WindowInv, AgeInv
<1>6. ASSUME NEW u \in User, BeginApprove(u) PROVE AgeInv'
  BY <1>6 DEF BeginApprove, WindowInv, AgeInv
<1>7. ASSUME NEW u \in User, Answer(u) PROVE AgeInv'
  BY <1>7 DEF Answer, WindowInv, AgeInv
<1>8. ASSUME NEW u \in User, Refuse(u) PROVE AgeInv'
  BY <1>8 DEF Refuse, WindowInv, AgeInv
<1>9. ASSUME NEW u \in User, CreateAgain(u) PROVE AgeInv'
  BY <1>9 DEF CreateAgain, WindowInv, AgeInv
<1>10. ASSUME NEW u \in User, CreateNew(u) PROVE AgeInv'
  BY <1>10 DEF CreateNew, WindowInv, AgeInv
<1>11. ASSUME NEW u \in User, Found(u) PROVE AgeInv'
  BY <1>11 DEF Found, WindowInv, AgeInv
<1>12. ASSUME NEW u \in User, Provisioned(u) PROVE AgeInv'
  BY <1>12 DEF Provisioned, WindowInv, AgeInv
<1>13. ASSUME NEW u \in User, ProvisionFails(u) PROVE AgeInv'
  BY <1>13 DEF ProvisionFails, WindowInv, AgeInv
<1>14. ASSUME NEW u \in User, SyncAsks(u) PROVE AgeInv'
  BY <1>14 DEF SyncAsks, WindowInv, AgeInv
<1>15. ASSUME NEW u \in User, ListAnswer(u) PROVE AgeInv'
  BY <1>15 DEF ListAnswer, WindowInv, AgeInv
<1>16. ASSUME NEW u \in User, Promote(u) PROVE AgeInv'
  BY <1>16 DEF Promote, WindowInv, AgeInv
<1>17. ASSUME NEW u \in User, OwnerAnswer(u) PROVE AgeInv'
  BY <1>17 DEF OwnerAnswer, WindowInv, AgeInv
<1>18. ASSUME NEW u \in User, Settle(u) PROVE AgeInv'
  BY <1>18 DEF Settle, WindowInv, AgeInv
<1>19. ASSUME NEW u \in User, CapResumes(u) PROVE AgeInv'
  BY <1>19 DEF CapResumes, WindowInv, AgeInv
<1>20. ASSUME NEW u \in User, ApproveResumes(u) PROVE AgeInv'
  BY <1>20 DEF ApproveResumes, WindowInv, AgeInv
<1>21. ASSUME NEW u \in User, Execute(u) PROVE AgeInv'
  BY <1>21 DEF Execute, WindowInv, AgeInv
<1>22. ASSUME NEW u \in User, RunRefused(u) PROVE AgeInv'
  BY <1>22 DEF RunRefused, WindowInv, AgeInv
<1>23. ASSUME NEW u \in User, Return(u) PROVE AgeInv'
  BY <1>23 DEF Return, WindowInv, AgeInv
<1>24. ASSUME NEW u \in User, NEW s \in Status, ChangeStatus(u, s) PROVE AgeInv'
  BY <1>24 DEF ChangeStatus, WindowInv, TypeOK, AgeInv
<1>25. CASE Tick
  BY <1>25 DEF Tick, WindowInv, TypeOK, AgeInv
<1>26. CASE Restart
  BY <1>26 DEF Restart, WindowInv, AgeInv
<1>27. CASE UNCHANGED vars
  BY <1>27 DEF vars, WindowInv, AgeInv
<1> QED
  BY <1>1, <1>2, <1>3, <1>4, <1>5, <1>6, <1>7, <1>8, <1>9, <1>10, <1>11, <1>12,
     <1>13, <1>14, <1>15, <1>16, <1>17, <1>18, <1>19, <1>20, <1>21, <1>22, <1>23,
     <1>24, <1>25, <1>26, <1>27 DEF Next

LEMMA AnswerStep == WindowInv /\ [Next]_vars => AnswerInv'
<1> SUFFICES ASSUME WindowInv, [Next]_vars PROVE AnswerInv'
  OBVIOUS
<1>1. ASSUME NEW u \in User, Visit(u) PROVE AnswerInv'
  BY <1>1, Numbers DEF Visit, WindowInv, TypeOK, AgeInv, AnswerInv, At
<1>2. ASSUME NEW u \in User, Meet(u) PROVE AnswerInv'
  BY <1>2, Numbers DEF Meet, WindowInv, TypeOK, AgeInv, AnswerInv, At
<1>3. ASSUME NEW u \in User, BeginCreate(u) PROVE AnswerInv'
  BY <1>3, Numbers DEF BeginCreate, WindowInv, TypeOK, AgeInv, AnswerInv, At, NewJob
<1>4. ASSUME NEW u \in User, BeginSync(u) PROVE AnswerInv'
  BY <1>4, Numbers DEF BeginSync, WindowInv, TypeOK, AgeInv, AnswerInv, At, NewJob
<1>5. ASSUME NEW u \in User, BeginCap(u) PROVE AnswerInv'
  BY <1>5, Numbers DEF BeginCap, WindowInv, TypeOK, AgeInv, AnswerInv, At, NewJob
<1>6. ASSUME NEW u \in User, BeginApprove(u) PROVE AnswerInv'
  BY <1>6, Numbers DEF BeginApprove, WindowInv, TypeOK, AgeInv, AnswerInv, At,
     NewJob
<1>7. ASSUME NEW u \in User, Answer(u) PROVE AnswerInv'
  BY <1>7, Numbers DEF Answer, WindowInv, TypeOK, AgeInv, AnswerInv, Goto, At
<1>8. ASSUME NEW u \in User, Refuse(u) PROVE AnswerInv'
  BY <1>8, Numbers DEF Refuse, WindowInv, TypeOK, AgeInv, AnswerInv, Close, At,
     NewJob, Idle
<1>9. ASSUME NEW u \in User, CreateAgain(u) PROVE AnswerInv'
  BY <1>9, Numbers DEF CreateAgain, WindowInv, TypeOK, AgeInv, AnswerInv, At,
     NewJob, Idle
<1>10. ASSUME NEW u \in User, CreateNew(u) PROVE AnswerInv'
  BY <1>10, Numbers DEF CreateNew, WindowInv, TypeOK, AgeInv, AnswerInv, Goto, At
<1>11. ASSUME NEW u \in User, Found(u) PROVE AnswerInv'
  BY <1>11, Numbers DEF Found, WindowInv, TypeOK, AgeInv, AnswerInv, Goto, At
<1>12. ASSUME NEW u \in User, Provisioned(u) PROVE AnswerInv'
  BY <1>12, Numbers DEF Provisioned, WindowInv, TypeOK, AgeInv, AnswerInv, Close,
     At, NewJob, Idle
<1>13. ASSUME NEW u \in User, ProvisionFails(u) PROVE AnswerInv'
  BY <1>13, Numbers DEF ProvisionFails, WindowInv, TypeOK, AgeInv, AnswerInv, Close,
     At, NewJob, Idle
<1>14. ASSUME NEW u \in User, SyncAsks(u) PROVE AnswerInv'
  BY <1>14, Numbers DEF SyncAsks, WindowInv, TypeOK, AgeInv, AnswerInv, At, NewJob
<1>15. ASSUME NEW u \in User, ListAnswer(u) PROVE AnswerInv'
  BY <1>15, Numbers DEF ListAnswer, WindowInv, TypeOK, AgeInv, AnswerInv, At, NewJob
<1>16. ASSUME NEW u \in User, Promote(u) PROVE AnswerInv'
  BY <1>16, Numbers DEF Promote, WindowInv, TypeOK, AgeInv, AnswerInv, At, NewJob
<1>17. ASSUME NEW u \in User, OwnerAnswer(u) PROVE AnswerInv'
  BY <1>17, Numbers DEF OwnerAnswer, WindowInv, TypeOK, AgeInv, AnswerInv, Goto, At
<1>18. ASSUME NEW u \in User, Settle(u) PROVE AnswerInv'
  BY <1>18, Numbers DEF Settle, WindowInv, TypeOK, AgeInv, AnswerInv, At, NewJob
<1>19. ASSUME NEW u \in User, CapResumes(u) PROVE AnswerInv'
  BY <1>19, Numbers DEF CapResumes, WindowInv, TypeOK, AgeInv, AnswerInv, At, NewJob
<1>20. ASSUME NEW u \in User, ApproveResumes(u) PROVE AnswerInv'
  BY <1>20, Numbers DEF ApproveResumes, WindowInv, TypeOK, AgeInv, AnswerInv, Close,
     At, NewJob, Idle
<1>21. ASSUME NEW u \in User, Execute(u) PROVE AnswerInv'
  BY <1>21, Numbers DEF Execute, WindowInv, TypeOK, AgeInv, AnswerInv, Goto, At
<1>22. ASSUME NEW u \in User, RunRefused(u) PROVE AnswerInv'
  BY <1>22, Numbers DEF RunRefused, WindowInv, TypeOK, AgeInv, AnswerInv, Close, At,
     NewJob, Idle
<1>23. ASSUME NEW u \in User, Return(u) PROVE AnswerInv'
  BY <1>23, Numbers DEF Return, WindowInv, TypeOK, AgeInv, AnswerInv, Close, At,
     NewJob, Idle
<1>24. ASSUME NEW u \in User, NEW s \in Status, ChangeStatus(u, s) PROVE AnswerInv'
  BY <1>24, Numbers DEF ChangeStatus, WindowInv, TypeOK, AnswerInv
<1>25. CASE Tick
  <2> SUFFICES ASSUME NEW u \in User, job'[u].phase \in {"answered", "locking", "provisioning"}
             PROVE  age'[u] <= job'[u].late
    BY DEF AnswerInv
  <2>1. job'[u].phase = job[u].phase /\ job'[u].late = job[u].late + 1
    BY <1>25 DEF Tick, WindowInv, TypeOK, Job, Holding
  <2>2. age'[u] = age[u] \/ age'[u] = age[u] + 1
    BY <1>25 DEF Tick
  <2> QED
    BY <2>1, <2>2, Numbers DEF WindowInv, AnswerInv
<1>26. CASE Restart
  BY <1>26, Numbers DEF Restart, WindowInv, TypeOK, AgeInv, AnswerInv, At, NewJob,
     Idle
<1>27. CASE UNCHANGED vars
  BY <1>27, Numbers DEF vars, WindowInv, TypeOK, AgeInv, AnswerInv, Goto, Close, At,
     NewJob, Idle
<1> QED
  BY <1>1, <1>2, <1>3, <1>4, <1>5, <1>6, <1>7, <1>8, <1>9, <1>10, <1>11, <1>12,
     <1>13, <1>14, <1>15, <1>16, <1>17, <1>18, <1>19, <1>20, <1>21, <1>22, <1>23,
     <1>24, <1>25, <1>26, <1>27 DEF Next

LEMMA ListStep == WindowInv /\ [Next]_vars => ListInv'
<1> SUFFICES ASSUME WindowInv, [Next]_vars PROVE ListInv'
  OBVIOUS
<1>1. ASSUME NEW u \in User, Visit(u) PROVE ListInv'
  BY <1>1, Numbers DEF Visit, WindowInv, TypeOK, AgeInv, ListInv, At
<1>2. ASSUME NEW u \in User, Meet(u) PROVE ListInv'
  BY <1>2, Numbers DEF Meet, WindowInv, TypeOK, AgeInv, ListInv, At
<1>3. ASSUME NEW u \in User, BeginCreate(u) PROVE ListInv'
  BY <1>3, Numbers DEF BeginCreate, WindowInv, TypeOK, AgeInv, ListInv, At, NewJob
<1>4. ASSUME NEW u \in User, BeginSync(u) PROVE ListInv'
  BY <1>4, Numbers DEF BeginSync, WindowInv, TypeOK, AgeInv, ListInv, At, NewJob
<1>5. ASSUME NEW u \in User, BeginCap(u) PROVE ListInv'
  BY <1>5, Numbers DEF BeginCap, WindowInv, TypeOK, AgeInv, ListInv, At, NewJob
<1>6. ASSUME NEW u \in User, BeginApprove(u) PROVE ListInv'
  BY <1>6, Numbers DEF BeginApprove, WindowInv, TypeOK, AgeInv, ListInv, At, NewJob
<1>7. ASSUME NEW u \in User, Answer(u) PROVE ListInv'
  BY <1>7, Numbers DEF Answer, WindowInv, TypeOK, AgeInv, ListInv, Goto, At
<1>8. ASSUME NEW u \in User, Refuse(u) PROVE ListInv'
  BY <1>8, Numbers DEF Refuse, WindowInv, TypeOK, AgeInv, ListInv, Close, At,
     NewJob, Idle
<1>9. ASSUME NEW u \in User, CreateAgain(u) PROVE ListInv'
  BY <1>9, Numbers DEF CreateAgain, WindowInv, TypeOK, AgeInv, ListInv, At, NewJob,
     Idle
<1>10. ASSUME NEW u \in User, CreateNew(u) PROVE ListInv'
  BY <1>10, Numbers DEF CreateNew, WindowInv, TypeOK, AgeInv, ListInv, Goto, At
<1>11. ASSUME NEW u \in User, Found(u) PROVE ListInv'
  BY <1>11, Numbers DEF Found, WindowInv, TypeOK, AgeInv, ListInv, Goto, At
<1>12. ASSUME NEW u \in User, Provisioned(u) PROVE ListInv'
  BY <1>12, Numbers DEF Provisioned, WindowInv, TypeOK, AgeInv, ListInv, Close, At,
     NewJob, Idle
<1>13. ASSUME NEW u \in User, ProvisionFails(u) PROVE ListInv'
  BY <1>13, Numbers DEF ProvisionFails, WindowInv, TypeOK, AgeInv, ListInv, Close,
     At, NewJob, Idle
<1>14. ASSUME NEW u \in User, SyncAsks(u) PROVE ListInv'
  BY <1>14, Numbers DEF SyncAsks, WindowInv, TypeOK, AgeInv, ListInv, At, NewJob
<1>15. ASSUME NEW u \in User, ListAnswer(u) PROVE ListInv'
  BY <1>15, Numbers DEF ListAnswer, WindowInv, TypeOK, AgeInv, ListInv, At, NewJob
<1>16. ASSUME NEW u \in User, Promote(u) PROVE ListInv'
  BY <1>16, Numbers DEF Promote, WindowInv, TypeOK, AgeInv, ListInv, At, NewJob
<1>17. ASSUME NEW u \in User, OwnerAnswer(u) PROVE ListInv'
  BY <1>17, Numbers DEF OwnerAnswer, WindowInv, TypeOK, AgeInv, ListInv, Goto, At
<1>18. ASSUME NEW u \in User, Settle(u) PROVE ListInv'
  BY <1>18, Numbers DEF Settle, WindowInv, TypeOK, AgeInv, ListInv, At, NewJob
<1>19. ASSUME NEW u \in User, CapResumes(u) PROVE ListInv'
  BY <1>19, Numbers DEF CapResumes, WindowInv, TypeOK, AgeInv, ListInv, At, NewJob
<1>20. ASSUME NEW u \in User, ApproveResumes(u) PROVE ListInv'
  BY <1>20, Numbers DEF ApproveResumes, WindowInv, TypeOK, AgeInv, ListInv, Close,
     At, NewJob, Idle
<1>21. ASSUME NEW u \in User, Execute(u) PROVE ListInv'
  BY <1>21, Numbers DEF Execute, WindowInv, TypeOK, AgeInv, ListInv, Goto, At
<1>22. ASSUME NEW u \in User, RunRefused(u) PROVE ListInv'
  BY <1>22, Numbers DEF RunRefused, WindowInv, TypeOK, AgeInv, ListInv, Close, At,
     NewJob, Idle
<1>23. ASSUME NEW u \in User, Return(u) PROVE ListInv'
  BY <1>23, Numbers DEF Return, WindowInv, TypeOK, AgeInv, ListInv, Close, At,
     NewJob, Idle
<1>24. ASSUME NEW u \in User, NEW s \in Status, ChangeStatus(u, s) PROVE ListInv'
  BY <1>24, Numbers DEF ChangeStatus, WindowInv, TypeOK, ListInv
<1>25. CASE Tick
  <2> SUFFICES ASSUME NEW u \in User, job'[u].phase = "listed", NEW v \in job'[u].list
             PROVE  age'[v] <= job'[u].late
    BY DEF ListInv
  <2>1. /\ job'[u].phase = job[u].phase /\ job'[u].late = job[u].late + 1
        /\ job'[u].list = job[u].list
    BY <1>25 DEF Tick, WindowInv, TypeOK, Job, Holding
  <2>2. v \in User
    BY <2>1, Numbers DEF WindowInv
  <2>3. age'[v] = age[v] \/ age'[v] = age[v] + 1
    BY <1>25, <2>2 DEF Tick
  <2> QED
    BY <2>1, <2>2, <2>3, Numbers DEF WindowInv, ListInv
<1>26. CASE Restart
  BY <1>26, Numbers DEF Restart, WindowInv, TypeOK, AgeInv, ListInv, At, NewJob,
     Idle
<1>27. CASE UNCHANGED vars
  BY <1>27, Numbers DEF vars, WindowInv, TypeOK, AgeInv, ListInv, Goto, Close, At,
     NewJob, Idle
<1> QED
  BY <1>1, <1>2, <1>3, <1>4, <1>5, <1>6, <1>7, <1>8, <1>9, <1>10, <1>11, <1>12,
     <1>13, <1>14, <1>15, <1>16, <1>17, <1>18, <1>19, <1>20, <1>21, <1>22, <1>23,
     <1>24, <1>25, <1>26, <1>27 DEF Next

LEMMA RecordFresh ==
    ASSUME WindowInv, NEW us, Record(us), age' = age,
           \A u \in us \intersect User : age[u] <= Lag
    PROVE  FreshInv'
BY Numbers DEF WindowInv, TypeOK, FreshInv, Record, Never

LEMMA FreshStep == WindowInv /\ [Next]_vars => FreshInv'
<1> SUFFICES ASSUME WindowInv, [Next]_vars PROVE FreshInv'
  OBVIOUS
<1>1. ASSUME NEW u \in User, Visit(u) PROVE FreshInv'
  BY <1>1 DEF Visit, WindowInv, FreshInv, Never
<1>2. ASSUME NEW u \in User, Meet(u) PROVE FreshInv'
  BY <1>2 DEF Meet, WindowInv, FreshInv, Never
<1>3. ASSUME NEW u \in User, BeginCreate(u) PROVE FreshInv'
  BY <1>3 DEF BeginCreate, WindowInv, FreshInv, Never
<1>4. ASSUME NEW u \in User, BeginSync(u) PROVE FreshInv'
  BY <1>4 DEF BeginSync, WindowInv, FreshInv, Never
<1>5. ASSUME NEW u \in User, BeginCap(u) PROVE FreshInv'
  BY <1>5 DEF BeginCap, WindowInv, FreshInv, Never
<1>6. ASSUME NEW u \in User, BeginApprove(u) PROVE FreshInv'
  BY <1>6 DEF BeginApprove, WindowInv, FreshInv, Never
<1>7. ASSUME NEW u \in User, Answer(u) PROVE FreshInv'
  BY <1>7 DEF Answer, WindowInv, FreshInv, Never
<1>8. ASSUME NEW u \in User, Refuse(u) PROVE FreshInv'
  BY <1>8 DEF Refuse, WindowInv, FreshInv, Never
<1>9. ASSUME NEW u \in User, CreateAgain(u) PROVE FreshInv'
  <2>1. age[u] <= Lag
    BY <1>9, Numbers DEF CreateAgain, At, WindowInv, AnswerInv
  <2> QED
    BY <1>9, <2>1, RecordFresh DEF CreateAgain
<1>10. ASSUME NEW u \in User, CreateNew(u) PROVE FreshInv'
  BY <1>10 DEF CreateNew, WindowInv, FreshInv, Never
<1>11. ASSUME NEW u \in User, Found(u) PROVE FreshInv'
  BY <1>11 DEF Found, WindowInv, FreshInv, Never
<1>12. ASSUME NEW u \in User, Provisioned(u) PROVE FreshInv'
  <2>1. age[u] <= Lag
    BY <1>12, Numbers DEF Provisioned, At, WindowInv, AnswerInv
  <2> QED
    BY <1>12, <2>1, RecordFresh DEF Provisioned
<1>13. ASSUME NEW u \in User, ProvisionFails(u) PROVE FreshInv'
  BY <1>13 DEF ProvisionFails, WindowInv, FreshInv, Never
<1>14. ASSUME NEW u \in User, SyncAsks(u) PROVE FreshInv'
  <2>1. age[u] <= Lag
    BY <1>14, Numbers DEF SyncAsks, At, WindowInv, AnswerInv
  <2> QED
    BY <1>14, <2>1, RecordFresh DEF SyncAsks
<1>15. ASSUME NEW u \in User, ListAnswer(u) PROVE FreshInv'
  BY <1>15 DEF ListAnswer, WindowInv, FreshInv, Never
<1>16. ASSUME NEW u \in User, Promote(u) PROVE FreshInv'
  <2>1. \A v \in job[u].list : age[v] <= Lag
    BY <1>16, Numbers DEF Promote, At, WindowInv, ListInv
  <2>2. CASE platform = "telegram"
    BY <1>16, <2>1, <2>2, RecordFresh DEF Promote
  <2>3. CASE platform # "telegram"
    BY <1>16, <2>3 DEF Promote, WindowInv, FreshInv, Never
  <2> QED
    BY <2>2, <2>3
<1>17. ASSUME NEW u \in User, OwnerAnswer(u) PROVE FreshInv'
  BY <1>17 DEF OwnerAnswer, WindowInv, FreshInv, Never
<1>18. ASSUME NEW u \in User, Settle(u) PROVE FreshInv'
  BY <1>18 DEF Settle, WindowInv, FreshInv, Never
<1>19. ASSUME NEW u \in User, CapResumes(u) PROVE FreshInv'
  <2>1. age[u] <= Lag
    BY <1>19, Numbers DEF CapResumes, At, WindowInv, AnswerInv
  <2> QED
    BY <1>19, <2>1, RecordFresh DEF CapResumes
<1>20. ASSUME NEW u \in User, ApproveResumes(u) PROVE FreshInv'
  <2>1. age[u] <= Lag
    BY <1>20, Numbers DEF ApproveResumes, At, WindowInv, AnswerInv
  <2> QED
    BY <1>20, <2>1, RecordFresh DEF ApproveResumes
<1>21. ASSUME NEW u \in User, Execute(u) PROVE FreshInv'
  BY <1>21 DEF Execute, WindowInv, FreshInv, Never
<1>22. ASSUME NEW u \in User, RunRefused(u) PROVE FreshInv'
  BY <1>22 DEF RunRefused, WindowInv, FreshInv, Never
<1>23. ASSUME NEW u \in User, Return(u) PROVE FreshInv'
  BY <1>23 DEF Return, WindowInv, FreshInv, Never
<1>24. ASSUME NEW u \in User, NEW s \in Status, ChangeStatus(u, s) PROVE FreshInv'
  BY <1>24, Numbers DEF ChangeStatus, WindowInv, TypeOK, FreshInv
<1>25. CASE Tick
  <2> SUFFICES ASSUME NEW u \in User, fresh'[u] > 0
             PROVE  age'[u] + fresh'[u] <= Never
    BY DEF FreshInv, Never
  <2>1. fresh[u] > 0 /\ fresh'[u] = fresh[u] - 1
    BY <1>25, Numbers DEF Tick, WindowInv
  <2>2. age'[u] = age[u] \/ age'[u] = age[u] + 1
    BY <1>25 DEF Tick
  <2> QED
    BY <2>1, <2>2, Numbers DEF WindowInv, FreshInv
<1>26. CASE Restart
  BY <1>26 DEF Restart, WindowInv, FreshInv, Never
<1>27. CASE UNCHANGED vars
  BY <1>27 DEF vars, WindowInv, FreshInv, Never
<1> QED
  BY <1>1, <1>2, <1>3, <1>4, <1>5, <1>6, <1>7, <1>8, <1>9, <1>10, <1>11, <1>12,
     <1>13, <1>14, <1>15, <1>16, <1>17, <1>18, <1>19, <1>20, <1>21, <1>22, <1>23,
     <1>24, <1>25, <1>26, <1>27 DEF Next

LEMMA WindowAlways == Spec => []WindowInv
<1>1. Init => WindowInv
  BY TypeInit, Numbers DEF Init, WindowInv, AgeInv, AnswerInv, ListInv, FreshInv,
     Idle, NewJob
<1>2. WindowInv /\ [Next]_vars => WindowInv'
  BY TypeStep, AgeStep, AnswerStep, ListStep, FreshStep DEF WindowInv
<1> QED
  BY <1>1, <1>2, PTL DEF Spec

Risk ==
    \A u \in User :
        /\ ~At(u, "cap", "done") /\ At(u, "cap", "done")' => age[u] <= Lag
        /\ job[u].phase # "paying" /\ job'[u].phase = "paying"
               => role[u] \in Rights /\ age[u] < TTL + Lag

\* A step that opens, closes or replaces one job.
LEMMA JobRisk ==
    ASSUME TypeOK, NEW u \in User, NEW j, job' = [job EXCEPT ![u] = j],
           j.phase # "paying", j.op = "cap" => j.phase # "done"
    PROVE  Risk
  BY DEF Risk, At, TypeOK

LEMMA GotoRisk ==
    ASSUME TypeOK, NEW u \in User, NEW p \in Phase \ {"paying", "done"}, Goto(u, p)
    PROVE  Risk
<1>1. \A v \in User : job'[v].phase = IF v = u THEN p ELSE job[v].phase
  BY DEF Goto, TypeOK, Job
<1>2. \A v \in User : job'[v].op = job[v].op
  BY DEF Goto, TypeOK, Job
<1> QED
  BY <1>1, <1>2 DEF Risk, At

LEMMA CloseRisk ==
    ASSUME TypeOK, NEW u \in User, job' = [job EXCEPT ![u] = Idle]
    PROVE  Risk
<1>1. Idle.phase = "idle"
  BY DEF Idle, NewJob
<1> QED
  BY <1>1, JobRisk DEF Idle, NewJob

LEMMA OpenRisk ==
    ASSUME TypeOK, NEW u \in User, NEW o \in Op, NEW p \in Phase \ {"paying"},
           o = "cap" => p # "done",
           job' = [job EXCEPT ![u] = NewJob(o, p)]
    PROVE  Risk
<1>1. NewJob(o, p).op = o /\ NewJob(o, p).phase = p
  BY DEF NewJob
<1> QED
  BY <1>1, JobRisk

LEMMA RiskStep == WindowInv /\ [Next]_vars => Risk
<1> SUFFICES ASSUME WindowInv, [Next]_vars PROVE Risk
  OBVIOUS
<1> TypeOK
  BY DEF WindowInv
<1>1. CASE job' = job
  BY <1>1 DEF Risk, At
<1>2. ASSUME NEW u \in User,
             \/ BeginCreate(u) \/ BeginSync(u) \/ BeginCap(u) \/ BeginApprove(u)
             \/ SyncAsks(u) \/ Settle(u)
      PROVE  Risk
  <2>1. PICK o \in Op, p \in {"asking", "answered", "listing", "done"} :
            /\ job' = [job EXCEPT ![u] = NewJob(o, p)]
            /\ o = "cap" => p # "done"
    BY <1>2 DEF BeginCreate, BeginSync, BeginCap, BeginApprove, SyncAsks, Settle, Op
  <2> QED
    BY <2>1, OpenRisk DEF Phase
<1>3. ASSUME NEW u \in User,
             \/ Answer(u) \/ CreateNew(u) \/ Found(u) \/ OwnerAnswer(u)
      PROVE  Risk
  <2>1. PICK p \in {"answered", "locking", "provisioning", "gone", "present"} : Goto(u, p)
    BY <1>3 DEF Answer, CreateNew, Found, OwnerAnswer
  <2> QED
    BY <2>1, GotoRisk DEF Phase
<1>4. ASSUME NEW u \in User,
             \/ Refuse(u) \/ CreateAgain(u) \/ Provisioned(u) \/ ProvisionFails(u)
             \/ RunRefused(u) \/ Return(u)
      PROVE  Risk
  BY <1>4, CloseRisk
  DEF Refuse, CreateAgain, Provisioned, ProvisionFails, RunRefused, Return, Close
<1>5. ASSUME NEW u \in User, CapResumes(u) PROVE Risk
  <2>1. age[u] <= Lag
    BY <1>5, Numbers DEF CapResumes, At, WindowInv, AnswerInv
  <2>2. /\ \A v \in User \ {u} : job'[v] = job[v]
        /\ job'[u].phase = "done"
    BY <1>5 DEF CapResumes, WindowInv, TypeOK, NewJob
  <2> QED
    BY <2>1, <2>2 DEF Risk, At
<1>6. ASSUME NEW u \in User, Execute(u) PROVE Risk
  <2>1. role[u] \in Rights /\ age[u] < TTL + Lag
    BY <1>6, Numbers DEF Execute, Allowed, HasFresh, WindowInv, FreshInv
  <2>2. /\ \A v \in User \ {u} : job'[v] = job[v]
        /\ job'[u].phase = "paying"
    BY <1>6 DEF Execute, Goto, WindowInv, TypeOK, Job
  <2> QED
    BY <2>1, <2>2 DEF Risk, At
<1>7. ASSUME NEW u \in User, ApproveResumes(u) PROVE Risk
  <2>1. CASE job' = [job EXCEPT ![u] = NewJob("approve", "running")]
    BY <2>1, OpenRisk DEF Op, Phase
  <2>2. CASE Close(u)
    BY <2>2, CloseRisk DEF Close
  <2> QED
    BY <1>7, <2>1, <2>2 DEF ApproveResumes
<1>8. ASSUME NEW u \in User, ListAnswer(u) \/ Promote(u) PROVE Risk
  <2>1. ASSUME NEW p \in {"listed", "checking"}, NEW list, NEW todo,
               job' = [job EXCEPT ![u] = [NewJob("sync", p) EXCEPT !.list = list]]
            \/ job' = [job EXCEPT ![u] = [NewJob("sync", p) EXCEPT !.todo = todo]]
        PROVE  Risk
    <3>1. \A j \in {[NewJob("sync", p) EXCEPT !.list = list],
                    [NewJob("sync", p) EXCEPT !.todo = todo]} : j.op = "sync" /\ j.phase = p
      BY DEF NewJob
    <3>2. PICK j \in {[NewJob("sync", p) EXCEPT !.list = list],
                     [NewJob("sync", p) EXCEPT !.todo = todo]} :
              job' = [job EXCEPT ![u] = j]
      BY <2>1
    <3> QED
      BY <3>1, <3>2, JobRisk
  <2>2. CASE ListAnswer(u)
    BY <2>1, <2>2 DEF ListAnswer
  <2>3. CASE job' = [job EXCEPT ![u] = NewJob("sync", "done")]
    BY <2>3, OpenRisk DEF Op, Phase
  <2> QED
    BY <1>8, <2>1, <2>2, <2>3 DEF Promote
<1>9. CASE Tick
  <2>1. \A v \in User : job'[v].phase = job[v].phase /\ job'[v].op = job[v].op
    BY <1>9 DEF Tick, TypeOK, Job
  <2> QED
    BY <2>1 DEF Risk, At
<1>10. CASE Restart
  BY <1>10 DEF Restart, Risk, At, NewJob, Idle
<1>11. CASE UNCHANGED vars \/ \E u \in User : Visit(u) \/ Meet(u) \/ \E s \in Status : ChangeStatus(u, s)
  BY <1>1, <1>11 DEF vars, Visit, Meet, ChangeStatus
<1> QED
  BY <1>2, <1>3, <1>4, <1>5, <1>6, <1>7, <1>8, <1>9, <1>10, <1>11 DEF Next

\* Caps are changed, and over-cap quotes run, by people who were admins of the
\* platform within the time the code allows.
THEOREM OnlyAdminsTakeRisks == Spec => RiskTakenByAdmins
<1>1. WindowInv /\ [Next]_vars => [Risk]_vars
  BY RiskStep
<1>2. Spec => [][Risk]_vars
  BY <1>1, WindowAlways, PTL DEF Spec
<1> QED
  BY <1>2 DEF RiskTakenByAdmins, Risk

-----------------------------------------------------------------------------
(* Who is given rights. *)

Recent == \A u \in User : role[u] \notin Rights /\ role'[u] \in Rights => age[u] <= Lag

\* A group is created by somebody whose answer is held, and a list is held when it is
\* written; no other step makes an owner or an admin.
LEMMA RecentStep == WindowInv /\ [Next]_vars => Recent
<1> SUFFICES ASSUME WindowInv, [Next]_vars PROVE Recent
  OBVIOUS
<1>1. CASE \A v \in User : role'[v] \in {role[v], "none", "member"}
  BY <1>1 DEF Recent, Rights
<1>2. ASSUME NEW u \in User, Found(u) PROVE Recent
  <2>1. age[u] <= Lag
    BY <1>2, Numbers DEF Found, At, WindowInv, AnswerInv
  <2>2. \A v \in User \ {u} : role'[v] = role[v]
    BY <1>2 DEF Found, FoundRole, WindowInv, TypeOK
  <2> QED
    BY <2>1, <2>2 DEF Recent
<1>3. ASSUME NEW u \in User, Promote(u) PROVE Recent
  <2>1. \A v \in job[u].list : age[v] <= Lag
    BY <1>3, Numbers DEF Promote, At, WindowInv, ListInv
  <2>2. PICK vs : role' = Demoted(Promoted(job[u].list), vs)
    BY <1>3 DEF Promote
  <2>3. \A v \in User \ job[u].list : role'[v] \in {role[v], "member"}
    BY <2>2 DEF Demoted, Promoted
  <2> QED
    BY <2>1, <2>3 DEF Recent, Rights
<1>4. ASSUME NEW u \in User,
             \/ Visit(u) \/ BeginSync(u) \/ BeginCap(u) \/ CreateAgain(u) \/ Settle(u)
      PROVE  \A v \in User : role'[v] \in {role[v], "none", "member"}
  BY <1>4 DEF Visit, BeginSync, BeginCap, CreateAgain, Settle, Enter, Demoted, WindowInv, TypeOK
<1>5. ASSUME NEW u \in User,
             \/ Meet(u) \/ BeginCreate(u) \/ BeginApprove(u) \/ Answer(u) \/ Refuse(u)
             \/ CreateNew(u) \/ Provisioned(u) \/ ProvisionFails(u) \/ SyncAsks(u)
             \/ ListAnswer(u) \/ OwnerAnswer(u) \/ CapResumes(u) \/ ApproveResumes(u)
             \/ Execute(u) \/ RunRefused(u) \/ Return(u)
             \/ \E s \in Status : ChangeStatus(u, s)
      PROVE  role' = role
  BY <1>5 DEF Meet, BeginCreate, BeginApprove, Answer, Refuse, CreateNew, Provisioned,
     ProvisionFails, SyncAsks, ListAnswer, OwnerAnswer, CapResumes, ApproveResumes,
     Execute, RunRefused, Return, ChangeStatus
<1>6. CASE Tick \/ Restart \/ UNCHANGED vars
  BY <1>1, <1>6 DEF Tick, Restart, vars
<1> QED
  BY <1>1, <1>2, <1>3, <1>4, <1>5, <1>6 DEF Next

\* Rights are given only on a recent word of the platform, however syncs overlap.
THEOREM OnlyRecentAdminsGetRights == Spec => RightsAreRecent
<1>1. WindowInv /\ [Next]_vars => [Recent]_vars
  BY RecentStep
<1>2. Spec => [][Recent]_vars
  BY <1>1, WindowAlways, PTL DEF Spec
<1> QED
  BY <1>2 DEF RightsAreRecent, Recent

-----------------------------------------------------------------------------
(* What a complete sync leaves. *)

\* The roles of a sync that has still to demote todo, on Telegram also to ask
\* about the owner.
Nearly(todo) ==
    \A u \in User : /\ u \in known /\ status[u] = "admin" => role[u] \in Rights
                    /\ role[u] \in Rights /\ status[u] # "admin" => u \in todo \/ role[u] = "owner"

Mirrored ==
    \A u \in User : /\ u \in known /\ status[u] = "admin" => role[u] \in Rights
                    /\ role[u] \in Rights /\ status[u] # "admin" =>
                           /\ role[u] = "owner"
                           /\ platform = "telegram" => status[u] # "left"

\* How far an undisturbed sync has come.
Progress(s) ==
    /\ job[s].op = "sync"
    /\ job[s].phase \in {"listed", "checking", "present", "gone", "done"}
    /\ job[s].phase = "listed" => job[s].list = {v \in User : status[v] = "admin"}
    /\ job[s].phase \in {"checking", "present", "gone"} =>
           /\ platform = "telegram"
           /\ Nearly(job[s].todo)
           /\ \A u \in job[s].todo : status[u] # "admin"
    /\ job[s].phase = "present" => status[creator] # "left"
    /\ job[s].phase = "gone" => status[creator] = "left"
    /\ job[s].phase = "done" => Mirrored

SyncExists == \A u \in User : job[u].op = "sync" => Exists

QuietInv == \A s \in quiet : Progress(s)

SyncInv == OwnerInv /\ SyncExists /\ QuietInv

LEMMA SyncExistsStep == SyncInv /\ [Next]_vars => SyncExists'
<1> SUFFICES ASSUME SyncInv, [Next]_vars PROVE SyncExists'
  OBVIOUS
<1>1. ASSUME NEW u \in User, Visit(u) PROVE SyncExists'
  BY <1>1 DEF Visit, SyncInv, OwnerInv, TypeOK, SyncExists, Exists, At
<1>2. ASSUME NEW u \in User, Meet(u) PROVE SyncExists'
  BY <1>2 DEF Meet, SyncInv, OwnerInv, TypeOK, SyncExists, Exists, At
<1>3. ASSUME NEW u \in User, BeginCreate(u) PROVE SyncExists'
  BY <1>3 DEF BeginCreate, SyncInv, OwnerInv, TypeOK, SyncExists, Exists, At, NewJob
<1>4. ASSUME NEW u \in User, BeginSync(u) PROVE SyncExists'
  BY <1>4 DEF BeginSync, SyncInv, OwnerInv, TypeOK, SyncExists, Exists, At, NewJob
<1>5. ASSUME NEW u \in User, BeginCap(u) PROVE SyncExists'
  BY <1>5 DEF BeginCap, SyncInv, OwnerInv, TypeOK, SyncExists, Exists, At, NewJob
<1>6. ASSUME NEW u \in User, BeginApprove(u) PROVE SyncExists'
  BY <1>6 DEF BeginApprove, SyncInv, OwnerInv, TypeOK, SyncExists, Exists, At,
     NewJob
<1>7. ASSUME NEW u \in User, Answer(u) PROVE SyncExists'
  BY <1>7 DEF Answer, SyncInv, OwnerInv, TypeOK, SyncExists, Exists, At, Goto
<1>8. ASSUME NEW u \in User, Refuse(u) PROVE SyncExists'
  BY <1>8 DEF Refuse, SyncInv, OwnerInv, TypeOK, SyncExists, Exists, At, Close,
     NewJob, Idle
<1>9. ASSUME NEW u \in User, CreateAgain(u) PROVE SyncExists'
  BY <1>9 DEF CreateAgain, SyncInv, OwnerInv, TypeOK, SyncExists, Exists, At,
     NewJob, Idle
<1>10. ASSUME NEW u \in User, CreateNew(u) PROVE SyncExists'
  BY <1>10 DEF CreateNew, SyncInv, OwnerInv, TypeOK, SyncExists, Exists, At, Goto
<1>11. ASSUME NEW u \in User, Found(u) PROVE SyncExists'
  BY <1>11, GovernanceAssumption DEF Found, SyncInv, OwnerInv, TypeOK, SyncExists,
     Exists, Goto
<1>12. ASSUME NEW u \in User, Provisioned(u) PROVE SyncExists'
  BY <1>12 DEF Provisioned, SyncInv, OwnerInv, TypeOK, SyncExists, Exists, At,
     Close, NewJob, Idle
<1>13. ASSUME NEW u \in User, ProvisionFails(u) PROVE SyncExists'
  BY <1>13 DEF ProvisionFails, SyncInv, OwnerInv, TypeOK, SyncExists, Exists, At,
     Close, NewJob, Idle
<1>14. ASSUME NEW u \in User, SyncAsks(u) PROVE SyncExists'
  BY <1>14 DEF SyncAsks, SyncInv, OwnerInv, TypeOK, SyncExists, Exists, At, NewJob
<1>15. ASSUME NEW u \in User, ListAnswer(u) PROVE SyncExists'
  BY <1>15 DEF ListAnswer, SyncInv, OwnerInv, TypeOK, SyncExists, Exists, At, NewJob
<1>16. ASSUME NEW u \in User, Promote(u) PROVE SyncExists'
  BY <1>16 DEF Promote, SyncInv, OwnerInv, TypeOK, SyncExists, Exists, At, NewJob
<1>17. ASSUME NEW u \in User, OwnerAnswer(u) PROVE SyncExists'
  BY <1>17 DEF OwnerAnswer, SyncInv, OwnerInv, TypeOK, SyncExists, Exists, At, Goto
<1>18. ASSUME NEW u \in User, Settle(u) PROVE SyncExists'
  BY <1>18 DEF Settle, SyncInv, OwnerInv, TypeOK, SyncExists, Exists, At, NewJob
<1>19. ASSUME NEW u \in User, CapResumes(u) PROVE SyncExists'
  BY <1>19 DEF CapResumes, SyncInv, OwnerInv, TypeOK, SyncExists, Exists, At, NewJob
<1>20. ASSUME NEW u \in User, ApproveResumes(u) PROVE SyncExists'
  BY <1>20 DEF ApproveResumes, SyncInv, OwnerInv, TypeOK, SyncExists, Exists, At,
     Close, NewJob, Idle
<1>21. ASSUME NEW u \in User, Execute(u) PROVE SyncExists'
  BY <1>21 DEF Execute, SyncInv, OwnerInv, TypeOK, SyncExists, Exists, At, Goto
<1>22. ASSUME NEW u \in User, RunRefused(u) PROVE SyncExists'
  BY <1>22 DEF RunRefused, SyncInv, OwnerInv, TypeOK, SyncExists, Exists, At, Close,
     NewJob, Idle
<1>23. ASSUME NEW u \in User, Return(u) PROVE SyncExists'
  BY <1>23 DEF Return, SyncInv, OwnerInv, TypeOK, SyncExists, Exists, At, Close,
     NewJob, Idle
<1>24. ASSUME NEW u \in User, NEW s \in Status, ChangeStatus(u, s) PROVE SyncExists'
  BY <1>24 DEF ChangeStatus, SyncInv, OwnerInv, TypeOK, SyncExists, Exists, At
<1>25. CASE Tick
  <2>1. \A v \in User : job'[v].op = job[v].op
    BY <1>25 DEF Tick, SyncInv, OwnerInv, TypeOK, Job
  <2> QED
    BY <1>25, <2>1 DEF Tick, SyncInv, SyncExists, Exists
<1>26. CASE Restart
  BY <1>26 DEF Restart, SyncInv, OwnerInv, TypeOK, SyncExists, Exists, At, NewJob,
     Idle
<1>27. CASE UNCHANGED vars
  BY <1>27 DEF vars, SyncInv, OwnerInv, TypeOK, SyncExists, Exists, At, Goto, Close,
     NewJob, Idle
<1> QED
  BY <1>1, <1>2, <1>3, <1>4, <1>5, <1>6, <1>7, <1>8, <1>9, <1>10, <1>11, <1>12,
     <1>13, <1>14, <1>15, <1>16, <1>17, <1>18, <1>19, <1>20, <1>21, <1>22, <1>23,
     <1>24, <1>25, <1>26, <1>27 DEF Next

\* Nothing but a status, a new user and a sync with an old list disturbs a sync.
LEMMA ProgressKept ==
    ASSUME SyncInv, NEW s \in User, Progress(s),
           platform' = platform, status' = status, creator' = creator, known' = known,
           \A v \in User : role'[v] = role[v] \/ (role[v] = "none" /\ role'[v] = "member"),
           job'[s].op = job[s].op, job'[s].phase = job[s].phase,
           job'[s].list = job[s].list, job'[s].todo = job[s].todo
    PROVE  Progress(s)'
<1>1. \A v \in User : role'[v] \in Rights <=> role[v] \in Rights
  BY DEF Rights
<1>2. \A v \in User : role'[v] = "owner" <=> role[v] = "owner"
  OBVIOUS
<1>3. Mirrored => Mirrored'
  BY <1>1, <1>2 DEF Mirrored, Rights
<1>4. Nearly(job[s].todo) => Nearly(job[s].todo)'
  BY <1>1, <1>2 DEF Nearly, Rights
<1> QED
  BY <1>3, <1>4 DEF Progress, Nearly

\* Another sync whose list is current gives rights to admins and takes them from
\* others, as this one does.
LEMMA ProgressShared ==
    ASSUME SyncInv, NEW s \in User, Progress(s),
           platform' = platform, status' = status, creator' = creator, known' = known,
           \A v \in known : status[v] = "admin" => role'[v] \in Rights,
           \A v \in User : role'[v] \in Rights /\ status[v] # "admin" => role'[v] = role[v],
           job'[s] = job[s]
    PROVE  Progress(s)'
<1>1. Mirrored => Mirrored'
  BY DEF Mirrored
<1>2. Nearly(job[s].todo) => Nearly(job[s].todo)'
  BY DEF Nearly
<1> QED
  BY <1>1, <1>2 DEF Progress, Nearly

\* A step of somebody who is in no undisturbed sync, or leaves it.
LEMMA QuietKept ==
    ASSUME SyncInv, NEW u \in User,
           platform' = platform, status' = status, creator' = creator, known' = known,
           \A v \in User : role'[v] = role[v] \/ (role[v] = "none" /\ role'[v] = "member"),
           quiet' \subseteq quiet \ {u},
           \A v \in User \ {u} : job'[v] = job[v]
    PROVE  QuietInv'
<1> SUFFICES ASSUME NEW s \in quiet' PROVE Progress(s)'
  BY DEF QuietInv
<1>1. s \in User /\ s # u /\ Progress(s)
  BY DEF SyncInv, OwnerInv, TypeOK, QuietInv
<1> QED
  BY <1>1, ProgressKept

LEMMA QuietStep == SyncInv /\ [Next]_vars => QuietInv'
<1> SUFFICES ASSUME SyncInv, [Next]_vars PROVE QuietInv'
  OBVIOUS
<1>0. \A u \in quiet : Progress(u) /\ u \in User
  BY DEF SyncInv, OwnerInv, TypeOK, QuietInv
<1> USE DEF SyncInv, OwnerInv, TypeOK
<1>1. ASSUME NEW u \in User, Visit(u) PROVE QuietInv'
  <2>1. CASE u \notin known
    BY <1>1, <2>1 DEF Visit, Unsettle, QuietInv
  <2>2. CASE u \in known
    <3>1. quiet' \subseteq quiet \ {u} /\ \A v \in User \ {u} : job'[v] = job[v]
      BY <1>1, <2>2, <1>0 DEF Visit, Unsettle, Progress, At
    <3>2. known' = known
      BY <1>1, <2>2 DEF Visit, Enter
    <3>3. \A v \in User : role'[v] = role[v] \/ (role[v] = "none" /\ role'[v] = "member")
      BY <1>1 DEF Visit, Enter
    <3> QED
      BY <1>1, <3>1, <3>2, <3>3, QuietKept DEF Visit
  <2> QED
    BY <2>1, <2>2
<1>2. ASSUME NEW u \in User, Meet(u) PROVE QuietInv'
  <2>1. CASE u \notin known
    BY <1>2, <2>1 DEF Meet, Unsettle, QuietInv
  <2>2. CASE u \in known
    <3>1. known' = known /\ quiet' = quiet
      BY <1>2, <2>2 DEF Meet, Unsettle
    <3> QED
      BY <1>2, <3>1, <1>0, ProgressKept DEF Meet, QuietInv
  <2> QED
    BY <2>1, <2>2
<1>3. ASSUME NEW u \in User, BeginCreate(u) PROVE QuietInv'
  <2>1. CASE quiet' = {}
    BY <2>1 DEF QuietInv
  <2>2. CASE quiet' = quiet /\ known' = known
    <3>1. quiet' \subseteq quiet \ {u} /\ \A v \in User \ {u} : job'[v] = job[v]
      BY <1>3, <2>2, <1>0 DEF BeginCreate, Progress, At, MayOpen
    <3> QED
      BY <1>3, <2>2, <3>1, QuietKept DEF BeginCreate
  <2> QED
    BY <1>3, <2>1, <2>2 DEF BeginCreate, Unsettle
<1>4. ASSUME NEW u \in User, BeginSync(u) PROVE QuietInv'
  <2>1. CASE u \notin known
    BY <1>4, <2>1 DEF BeginSync, Unsettle, QuietInv
  <2>2. CASE u \in known
    <3>1. quiet' \subseteq quiet \ {u} /\ \A v \in User \ {u} : job'[v] = job[v]
      BY <1>4, <2>2, <1>0 DEF BeginSync, Unsettle, Progress, At, MayOpen
    <3>2. known' = known
      BY <1>4, <2>2 DEF BeginSync, Enter
    <3>3. \A v \in User : role'[v] = role[v] \/ (role[v] = "none" /\ role'[v] = "member")
      BY <1>4 DEF BeginSync, Enter
    <3> QED
      BY <1>4, <3>1, <3>2, <3>3, QuietKept DEF BeginSync
  <2> QED
    BY <2>1, <2>2
<1>5. ASSUME NEW u \in User, BeginCap(u) PROVE QuietInv'
  <2>1. CASE u \notin known
    BY <1>5, <2>1 DEF BeginCap, Unsettle, QuietInv
  <2>2. CASE u \in known
    <3>1. quiet' \subseteq quiet \ {u} /\ \A v \in User \ {u} : job'[v] = job[v]
      BY <1>5, <2>2, <1>0 DEF BeginCap, Unsettle, Progress, At, MayOpen
    <3>2. known' = known
      BY <1>5, <2>2 DEF BeginCap, Enter
    <3>3. \A v \in User : role'[v] = role[v] \/ (role[v] = "none" /\ role'[v] = "member")
      BY <1>5 DEF BeginCap, Enter
    <3> QED
      BY <1>5, <3>1, <3>2, <3>3, QuietKept DEF BeginCap
  <2> QED
    BY <2>1, <2>2
<1>6. ASSUME NEW u \in User, BeginApprove(u) PROVE QuietInv'
  <2>1. CASE u \notin known
    BY <1>6, <2>1 DEF BeginApprove, Unsettle, QuietInv
  <2>2. CASE u \in known
    <3>1. quiet' \subseteq quiet \ {u} /\ \A v \in User \ {u} : job'[v] = job[v]
      BY <1>6, <2>2, <1>0 DEF BeginApprove, Unsettle, Progress, At, MayOpen
    <3>2. known' = known
      BY <1>6, <2>2 DEF BeginApprove
    <3>3. \A v \in User : role'[v] = role[v] \/ (role[v] = "none" /\ role'[v] = "member")
      BY <1>6 DEF BeginApprove
    <3> QED
      BY <1>6, <3>1, <3>2, <3>3, QuietKept DEF BeginApprove
  <2> QED
    BY <2>1, <2>2
<1>7. ASSUME NEW u \in User, Answer(u) PROVE QuietInv'
  <2>1. quiet' \subseteq quiet \ {u} /\ \A v \in User \ {u} : job'[v] = job[v]
    BY <1>7, <1>0 DEF Answer, Progress, At, Goto
  <2> QED
    BY <1>7, <2>1, QuietKept DEF Answer
<1>8. ASSUME NEW u \in User, Refuse(u) PROVE QuietInv'
  <2>1. quiet' \subseteq quiet \ {u} /\ \A v \in User \ {u} : job'[v] = job[v]
    BY <1>8, <1>0 DEF Refuse, Progress, At, Close
  <2> QED
    BY <1>8, <2>1, QuietKept DEF Refuse
<1>9. ASSUME NEW u \in User, CreateAgain(u) PROVE QuietInv'
  <2>1. CASE u \notin known
    BY <1>9, <2>1 DEF CreateAgain, QuietInv
  <2>2. CASE u \in known
    <3>1. quiet' \subseteq quiet \ {u} /\ \A v \in User \ {u} : job'[v] = job[v]
      BY <1>9, <2>2, <1>0 DEF CreateAgain, Progress, At
    <3>2. known' = known
      BY <1>9, <2>2 DEF CreateAgain, Enter
    <3>3. \A v \in User : role'[v] = role[v] \/ (role[v] = "none" /\ role'[v] = "member")
      BY <1>9 DEF CreateAgain, Enter
    <3> QED
      BY <1>9, <3>1, <3>2, <3>3, QuietKept DEF CreateAgain
  <2> QED
    BY <2>1, <2>2
<1>10. ASSUME NEW u \in User, CreateNew(u) PROVE QuietInv'
  <2>1. quiet' \subseteq quiet \ {u} /\ \A v \in User \ {u} : job'[v] = job[v]
    BY <1>10, <1>0 DEF CreateNew, Progress, At, Goto
  <2> QED
    BY <1>10, <2>1, QuietKept DEF CreateNew
<1>11. ASSUME NEW u \in User, Found(u) PROVE QuietInv'
  <2>1. CASE u \notin known
    BY <1>11, <2>1 DEF Found, Unsettle, QuietInv
  <2>2. CASE ~Exists
    <3>1. quiet = {}
      BY <2>2, <1>0 DEF Progress, SyncExists
    <3> QED
      BY <1>11, <3>1 DEF Found, Unsettle, QuietInv
  <2>3. CASE u \in known /\ Exists
    <3>1. quiet' \subseteq quiet \ {u} /\ \A v \in User \ {u} : job'[v] = job[v]
      BY <1>11, <2>3, <1>0 DEF Found, Unsettle, Progress, At, Goto
    <3>2. known' = known /\ creator' = creator
      BY <1>11, <2>3 DEF Found
    <3>3. \A v \in User : role'[v] = role[v] \/ (role[v] = "none" /\ role'[v] = "member")
      BY <1>11, <2>3 DEF Found, FoundRole
    <3> QED
      BY <1>11, <3>1, <3>2, <3>3, QuietKept DEF Found
  <2> QED
    BY <2>1, <2>2, <2>3
<1>12. ASSUME NEW u \in User, Provisioned(u) PROVE QuietInv'
  <2>1. quiet' \subseteq quiet \ {u} /\ \A v \in User \ {u} : job'[v] = job[v]
    BY <1>12, <1>0 DEF Provisioned, Progress, At, Close
  <2> QED
    BY <1>12, <2>1, QuietKept DEF Provisioned
<1>13. ASSUME NEW u \in User, ProvisionFails(u) PROVE QuietInv'
  <2>1. quiet' \subseteq quiet \ {u} /\ \A v \in User \ {u} : job'[v] = job[v]
    BY <1>13, <1>0 DEF ProvisionFails, Progress, At, Close
  <2> QED
    BY <1>13, <2>1, QuietKept DEF ProvisionFails
<1>14. ASSUME NEW u \in User, SyncAsks(u) PROVE QuietInv'
  <2>1. quiet' \subseteq quiet \ {u} /\ \A v \in User \ {u} : job'[v] = job[v]
    BY <1>14, <1>0 DEF SyncAsks, Progress, At
  <2> QED
    BY <1>14, <2>1, QuietKept DEF SyncAsks
<1>15. ASSUME NEW u \in User, ListAnswer(u) PROVE QuietInv'
  <2> SUFFICES ASSUME NEW s \in quiet' PROVE Progress(s)'
    BY DEF QuietInv
  <2>1. CASE s = u
    BY <1>15, <2>1 DEF ListAnswer, NewJob, Progress
  <2>2. CASE s # u
    BY <1>15, <2>2, <1>0, ProgressKept DEF ListAnswer
  <2> QED
    BY <2>1, <2>2
<1>16. ASSUME NEW u \in User, Promote(u) PROVE QuietInv'
  <2> DEFINE list == job[u].list
  <2> SUFFICES ASSUME u \in quiet, NEW s \in quiet PROVE Progress(s)'
    BY <1>16 DEF Promote, UnsettleOthers, QuietInv
  <2>1. list = {v \in User : status[v] = "admin"} /\ Exists
    BY <1>16, <1>0 DEF Promote, Progress, At, SyncExists
  <2>2. creator \in User
    BY <2>1 DEF Exists
  <2>3. \A v \in User : v \in known /\ status[v] = "admin" => Promoted(list)[v] \in Rights
    BY <2>1 DEF Promoted, Rights
  <2>4. \A v \in Dropped(list) : v \in User /\ status[v] # "admin"
    BY <2>1 DEF Dropped
  <2>5. \A v \in User : Promoted(list)[v] \in Rights /\ status[v] # "admin"
                         => v \in Dropped(list) \/ Promoted(list)[v] = "owner"
    BY <2>1 DEF Dropped
  <2>6. \A v \in User : Promoted(list)[v] = "owner" => v = creator
    BY PromotedOwner
  <2> HIDE DEF list
  <2>7. CASE s # u
    <3>1. PICK vs \in SUBSET Dropped(list) : role' = Demoted(Promoted(list), vs)
      BY <1>16 DEF Promote, list
    <3>2. \A v \in known : status[v] = "admin" => role'[v] \in Rights
      BY <2>3, <2>4, <3>1 DEF Demoted
    <3>3. \A v \in User : status[v] # "admin" => Promoted(list)[v] = role[v]
      BY <2>1 DEF Promoted
    <3>4. \A v \in User : role'[v] \in Rights /\ status[v] # "admin" => role'[v] = role[v]
      BY <3>1, <3>3 DEF Demoted, Rights
    <3>5. job'[s] = job[s]
      BY <1>16, <2>7 DEF Promote
    <3> QED
      BY <1>0, <1>16, <3>2, <3>4, <3>5, ProgressShared DEF Promote
  <2>8. CASE s = u /\ ~OwnerToCheck(list)
    <3>1. /\ role' = Demoted(Promoted(list), Dropped(list))
          /\ job' = [job EXCEPT ![u] = NewJob("sync", "done")]
      BY <1>16, <2>8 DEF Promote, list
    <3>2. Mirrored'
      <4> SUFFICES ASSUME NEW v \in User
                   PROVE  /\ v \in known /\ status[v] = "admin" => role'[v] \in Rights
                          /\ role'[v] \in Rights /\ status[v] # "admin" =>
                                 /\ role'[v] = "owner"
                                 /\ platform = "telegram" => status[v] # "left"
        BY <1>16 DEF Promote, Mirrored
      <4>1. CASE v \in Dropped(list)
        BY <3>1, <4>1, <2>4 DEF Demoted, Rights
      <4>2. CASE v \notin Dropped(list)
        BY <3>1, <4>2, <2>3, <2>5, <2>6, <2>8 DEF Demoted, OwnerToCheck
      <4> QED
        BY <4>1, <4>2
    <3> QED
      BY <2>8, <3>1, <3>2 DEF Progress, NewJob
  <2>9. CASE s = u /\ OwnerToCheck(list)
    <3>1. PICK first \in SUBSET Dropped(list) :
             /\ role' = Demoted(Promoted(list), first)
             /\ job' = [job EXCEPT ![u] = [NewJob("sync", "checking") EXCEPT
                                                 !.todo = Dropped(list) \ first]]
      BY <1>16, <2>9 DEF Promote, list
    <3>2. PICK todo : todo = Dropped(list) \ first
      OBVIOUS
    <3>3. Nearly(todo)'
      <4> SUFFICES ASSUME NEW v \in User
                   PROVE  /\ v \in known /\ status[v] = "admin" => role'[v] \in Rights
                          /\ role'[v] \in Rights /\ status[v] # "admin" =>
                                 v \in todo \/ role'[v] = "owner"
        BY <1>16 DEF Promote, Nearly
      <4> QED
        BY <3>1, <3>2, <2>3, <2>4, <2>5 DEF Demoted, Rights
    <3>4. job'[u] = [NewJob("sync", "checking") EXCEPT !.todo = todo]
      BY <3>1, <3>2
    <3> QED
      BY <1>16, <3>2, <3>3, <3>4, <2>4, <2>9 DEF Promote, Progress, NewJob,
         OwnerToCheck, Nearly
  <2> QED
    BY <2>7, <2>8, <2>9
<1>17. ASSUME NEW u \in User, OwnerAnswer(u) PROVE QuietInv'
  <2> SUFFICES ASSUME NEW s \in quiet' PROVE Progress(s)'
    BY DEF QuietInv
  <2>1. s \in quiet /\ s \in User /\ Progress(s)
    BY <1>17, <1>0 DEF OwnerAnswer
  <2>2. CASE s = u
    <3>1. /\ job'[u].op = job[u].op /\ job'[u].todo = job[u].todo
          /\ job'[u].phase = IF status[creator] = "left" THEN "gone" ELSE "present"
      BY <1>17 DEF OwnerAnswer, Goto, Job
    <3>2. Nearly(job[u].todo) => Nearly(job[u].todo)'
      BY <1>17, <3>1 DEF OwnerAnswer, Nearly
    <3> QED
      BY <1>17, <2>1, <2>2, <3>1, <3>2 DEF OwnerAnswer, At, Progress, Nearly
  <2>3. CASE s # u
    BY <1>17, <2>1, <2>3, ProgressKept DEF OwnerAnswer, Goto
  <2> QED
    BY <2>2, <2>3
<1>18. ASSUME NEW u \in User, Settle(u) PROVE QuietInv'
  <2> SUFFICES ASSUME u \in quiet, NEW s \in quiet PROVE Progress(s)'
    BY <1>18 DEF Settle, UnsettleOthers, QuietInv
  <2>1. /\ Progress(u) /\ Nearly(job[u].todo) /\ creator \in User
        /\ \A v \in job[u].todo : status[v] # "admin"
        /\ job[u].phase = "present" => status[creator] # "left"
        /\ job[u].phase = "gone" => status[creator] = "left"
    BY <1>18, <1>0 DEF Settle, Progress, SyncExists, Exists
  <2>2. \A v \in Rest(u) : status[v] # "admin"
    BY <1>18, <2>1 DEF Rest
  <2>3. role' = Demoted(role, Rest(u)) /\ job'[u] = NewJob("sync", "done")
    BY <1>18 DEF Settle
  <2>4. Mirrored'
    <3> SUFFICES ASSUME NEW v \in User
                 PROVE  /\ v \in known /\ status[v] = "admin" => role'[v] \in Rights
                        /\ role'[v] \in Rights /\ status[v] # "admin" =>
                               /\ role'[v] = "owner"
                               /\ platform = "telegram" => status[v] # "left"
      BY <1>18 DEF Settle, Mirrored
    <3>1. CASE v \in Rest(u)
      BY <2>2, <2>3, <3>1 DEF Demoted, Rights
    <3>2. CASE v \notin Rest(u)
      <4>1. role'[v] = role[v] /\ v \notin job[u].todo
        BY <2>3, <3>2 DEF Demoted, Rest
      <4>2. role[v] = "owner" => v = creator
        BY DEF OwnerIsCreator
      <4>3. v = creator => status[creator] # "left"
        BY <1>18, <2>1, <3>2 DEF Settle, Rest
      <4> QED
        BY <2>1, <4>1, <4>2, <4>3 DEF Nearly
    <3> QED
      BY <3>1, <3>2
  <2>5. CASE s # u
    <3>1. \A v \in known : status[v] = "admin" => role'[v] \in Rights
      BY <2>1, <2>2, <2>3 DEF Nearly, Demoted
    <3>2. \A v \in User : role'[v] \in Rights => role'[v] = role[v]
      BY <2>3 DEF Demoted, Rights
    <3>3. job'[s] = job[s]
      BY <1>18, <2>5 DEF Settle
    <3> QED
      BY <1>0, <1>18, <3>1, <3>2, <3>3, ProgressShared DEF Settle
  <2> QED
    BY <2>3, <2>4, <2>5 DEF Progress, NewJob
<1>19. ASSUME NEW u \in User, CapResumes(u) PROVE QuietInv'
  <2>1. quiet' \subseteq quiet \ {u} /\ \A v \in User \ {u} : job'[v] = job[v]
    BY <1>19, <1>0 DEF CapResumes, Progress, At
  <2> QED
    BY <1>19, <2>1, QuietKept DEF CapResumes
<1>20. ASSUME NEW u \in User, ApproveResumes(u) PROVE QuietInv'
  <2>1. quiet' \subseteq quiet \ {u} /\ \A v \in User \ {u} : job'[v] = job[v]
    BY <1>20, <1>0 DEF ApproveResumes, Progress, At, Close
  <2> QED
    BY <1>20, <2>1, QuietKept DEF ApproveResumes
<1>21. ASSUME NEW u \in User, Execute(u) PROVE QuietInv'
  <2>1. quiet' \subseteq quiet \ {u} /\ \A v \in User \ {u} : job'[v] = job[v]
    BY <1>21, <1>0 DEF Execute, Progress, At, Goto
  <2> QED
    BY <1>21, <2>1, QuietKept DEF Execute
<1>22. ASSUME NEW u \in User, RunRefused(u) PROVE QuietInv'
  <2>1. quiet' \subseteq quiet \ {u} /\ \A v \in User \ {u} : job'[v] = job[v]
    BY <1>22, <1>0 DEF RunRefused, Progress, At, Close
  <2> QED
    BY <1>22, <2>1, QuietKept DEF RunRefused
<1>23. ASSUME NEW u \in User, Return(u) PROVE QuietInv'
  <2>1. quiet' \subseteq quiet \ {u} /\ \A v \in User \ {u} : job'[v] = job[v]
    BY <1>23, <1>0 DEF Return, Progress, At, Close
  <2> QED
    BY <1>23, <2>1, QuietKept DEF Return
<1>24. ASSUME NEW u \in User, NEW s \in Status, ChangeStatus(u, s) PROVE QuietInv'
  BY <1>24 DEF ChangeStatus, QuietInv
<1>25. CASE Tick
  <2>1. \A v \in User : /\ job'[v].op = job[v].op /\ job'[v].phase = job[v].phase
                         /\ job'[v].list = job[v].list /\ job'[v].todo = job[v].todo
    BY <1>25 DEF Tick, Job
  <2> QED
    BY <1>25, <2>1, <1>0, ProgressKept DEF Tick, QuietInv
<1>26. CASE Restart
  BY <1>26 DEF Restart, QuietInv
<1>27. CASE UNCHANGED vars
  BY <1>27, <1>0, ProgressKept DEF vars, QuietInv
<1> QED
  BY <1>1, <1>2, <1>3, <1>4, <1>5, <1>6, <1>7, <1>8, <1>9, <1>10, <1>11, <1>12,
     <1>13, <1>14, <1>15, <1>16, <1>17, <1>18, <1>19, <1>20, <1>21, <1>22, <1>23,
     <1>24, <1>25, <1>26, <1>27 DEF Next

LEMMA SyncAlways == Spec => []SyncInv
<1>1. Init => SyncInv
  BY TypeInit DEF Init, SyncInv, OwnerInv, OwnerIsCreator, SyncExists, QuietInv,
     Idle, NewJob
<1>2. SyncInv /\ [Next]_vars => SyncInv'
  BY TypeStep, OwnerStep, SyncExistsStep, QuietStep DEF SyncInv, OwnerInv
<1> QED
  BY <1>1, <1>2, PTL DEF Spec

\* A sync that nothing disturbed leaves the roles that the platform's admins ask
\* for.
THEOREM SyncMirrorsAlways == Spec => []SyncMirrors
<1>1. SyncInv => SyncMirrors
  BY DEF SyncInv, QuietInv, SyncMirrors, Progress, Mirrored, At
<1> QED
  BY <1>1, SyncAlways, PTL

=============================================================================
