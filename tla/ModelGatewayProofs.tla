------------------------- MODULE ModelGatewayProofs -------------------------
(***************************************************************************)
(* Proofs about ModelGateway, for any set of branches, any limits and any  *)
(* number of resumes and crashes: the type invariant, that parallel        *)
(* branches respect the role limits, and how far they overshoot the budget.*)
(***************************************************************************)
EXTENDS ModelGateway, FiniteSetTheorems, WellFoundedInduction, TLAPS

\* A branch without a call, and one whose node is over, hold a well formed call.
LEMMA IdleType ==
    /\ Idle \in Calls /\ Idle.pc = "idle"
    /\ [Idle EXCEPT !.pc = "dead"] \in Calls
    /\ [Idle EXCEPT !.pc = "dead"].pc = "dead"
<1>1. 0 \in 0..MaxRetries
      BY ModelGatewayAssumption
<1>2. [est |-> 0, act |-> 0] \in [est : Nat, act : Nat]
      OBVIOUS
<1>3. QED BY <1>1, <1>2 DEF Idle, Calls, NoRole

\* The two outcomes of Leave keep the calls well formed.
LEMMA LeaveType ==
    ASSUME TypeOK, NEW b \in Branches, Leave(b)
    PROVE  /\ call' \in [Branches -> Calls]
           /\ raised' \in BOOLEAN
           /\ \A c \in Branches : call'[c].pc \in {"ask", "check", "call", "record"}
                                     => call'[c].role \in Roles
BY IdleType DEF TypeOK, Leave, Set

\* Every step keeps the types, and the recorded usage within the budget.
LEMMA TypeStep == TypeOK /\ [Next]_vars => TypeOK'
<1> SUFFICES ASSUME TypeOK, [Next]_vars PROVE TypeOK'
    OBVIOUS
<1> USE ModelGatewayAssumption
<1>1. ASSUME NEW b \in Branches, NEW role \in Roles, NEW use \in Usages, Ask(b, role, use)
      PROVE  TypeOK'
  <2> DEFINE c == [Idle EXCEPT !.pc = "ask", !.role = role, !.use = use, !.seen = calls]
  <2>1. c \in Calls /\ c.role \in Roles
        BY 0 \in 0..MaxRetries DEF Idle, Calls, TypeOK
  <2> HIDE DEF c
  <2>2. call' = [call EXCEPT ![b] = c]
        BY <1>1 DEF Ask, Set, c
  <2>3. QED BY <1>1, <2>1, <2>2 DEF Ask, TypeOK, governor, budget, history
<1>2. ASSUME NEW b \in Branches, Reserve(b) PROVE TypeOK'
      BY <1>2 DEF Reserve, At, Set, TypeOK, Calls, budget, history
<1>3. ASSUME NEW b \in Branches, Stop(b) PROVE TypeOK'
      BY <1>3, LeaveType DEF Stop, TypeOK, governor, budget, history
<1>4. ASSUME NEW b \in Branches, Check(b) PROVE TypeOK'
  <2>1. CASE CanCall(call[b].use.est) /\ Set(b, [call[b] EXCEPT !.pc = "call"])
              /\ asked' = [asked EXCEPT ![call[b].role] = @ + 1] /\ UNCHANGED raised
        BY <1>4, <2>1 DEF Check, At, Set, TypeOK, Calls, governor, budget
  <2>2. CASE Leave(b) /\ UNCHANGED asked
        BY <1>4, <2>2, LeaveType DEF Check, TypeOK, governor, budget
  <2>3. QED BY <1>4, <2>1, <2>2 DEF Check
<1>5. ASSUME NEW b \in Branches, Answer(b) PROVE TypeOK'
      BY <1>5 DEF Answer, At, Set, TypeOK, Calls, governor, budget
<1>6. ASSUME NEW b \in Branches, ProviderFails(b) PROVE TypeOK'
  <2>1. CASE call[b].attempt < MaxRetries /\ Set(b, [call[b] EXCEPT !.attempt = @ + 1])
              /\ UNCHANGED raised
        BY <1>6, <2>1 DEF ProviderFails, At, Set, TypeOK, Calls, governor, budget, history
  <2>2. CASE Leave(b)
        BY <1>6, <2>2, LeaveType DEF ProviderFails, TypeOK, governor, budget, history
  <2>3. QED BY <1>6, <2>1, <2>2 DEF ProviderFails
<1>7. ASSUME NEW b \in Branches, Record(b) PROVE TypeOK'
  <2>1. CASE used + call[b].use.act <= Budget
    <3>1. call[b].use.act \in Nat
          BY DEF TypeOK, Calls
    <3>2. QED BY <1>7, <2>1, <3>1, IdleType DEF Record, Set, TypeOK, governor, budget, history
  <2>2. CASE ~(used + call[b].use.act <= Budget)
        BY <1>7, <2>2, IdleType DEF Record, Set, TypeOK, governor, budget, history
  <2>3. QED BY <2>1, <2>2
<1>8. CASE End
      BY <1>8 DEF End, TypeOK, governor, budget, history
<1>9. CASE Resume
      BY <1>9, IdleType DEF Resume, TypeOK
<1>10. CASE Crash
  <2>1. run' \in {"lost", "paused"} /\ crashes' \in 0..MaxCrashes
        BY <1>10 DEF Crash, TypeOK
  <2>2. call' = [b \in Branches |-> Idle] /\ raised' = FALSE
        BY <1>10 DEF Crash
  <2>3. call' \in [Branches -> Calls] /\ \A b \in Branches : call'[b].pc = "idle"
        BY <2>2, IdleType
  <2>4. UNCHANGED <<used, calls, saved, roleCalls, reserved, paid, answered, asked, resumes>>
        BY <1>10 DEF Crash, governor, budget
  <2>5. QED BY <2>1, <2>2, <2>3, <2>4 DEF TypeOK
<1>11. CASE UNCHANGED vars
      BY <1>11 DEF TypeOK, vars, governor, budget, history
<1>12. QED
      BY <1>1, <1>2, <1>3, <1>4, <1>5, <1>6, <1>7, <1>8, <1>9, <1>10, <1>11
      DEF Next, Generate

LEMMA TypeInit == Init => TypeOK
<1> SUFFICES ASSUME Init PROVE TypeOK
    OBVIOUS
<1>1. call \in [Branches -> Calls] /\ \A b \in Branches : call[b].pc = "idle"
      BY IdleType DEF Init
<1>2. 0 \in 0..Budget /\ 0 \in 0..MaxResumes /\ 0 \in 0..MaxCrashes
      BY ModelGatewayAssumption
<1>3. saved \in [used : 0..Budget, calls : Nat]
      BY <1>2 DEF Init
<1>4. roleCalls \in [Roles -> Nat] /\ asked \in [Roles -> Nat]
      BY DEF Init
<1>5. QED BY <1>1, <1>2, <1>3, <1>4 DEF Init, TypeOK

\* Type correctness: in every reachable state the budgets, the checkpoint, the
\* governor and the calls in flight have their shape, and the usage that record
\* has let in, and a pause has saved, is within the budget.
THEOREM TypeCorrect == Spec => []TypeOK
BY TypeInit, TypeStep, PTL DEF Spec
----------------------------------------------------------------------------
\* Branches that hold a reservation for role r they have not used yet.
Holding(r) == {b \in Branches : call[b].pc = "check" /\ call[b].role = r}

\* Every request of a role, made or still held, has a reservation of its own, and
\* a task that is not complex reserves no more than the limit.
Covered ==
    \A r \in Roles :
        /\ asked[r] + Cardinality(Holding(r)) <= roleCalls[r]
        /\ Complex \/ roleCalls[r] <= RoleLimit[r]

IInv == TypeOK /\ Covered

LEMMA HoldingFinite ==
    ASSUME NEW r PROVE IsFiniteSet(Holding(r)) /\ Cardinality(Holding(r)) \in Nat
<1>1. IsFiniteSet(Holding(r))
      BY ModelGatewayAssumption, FS_Subset DEF Holding
<1>2. QED BY <1>1, FS_CardinalityType

\* A step that gives nobody a new reservation to hold leaves at most the old ones.
LEMMA HoldingShrinks ==
    ASSUME NEW r, Holding(r)' \subseteq Holding(r)
    PROVE  Cardinality(Holding(r)') \in Nat /\ Cardinality(Holding(r)') <= Cardinality(Holding(r))
BY HoldingFinite, FS_Subset, FS_CardinalityType

\* A step that changes neither the governor nor the requests, and lets no branch
\* enter "check", keeps every request covered.
LEMMA CoveredKept ==
    ASSUME IInv, UNCHANGED <<roleCalls, asked>>,
           \A r \in Roles : Holding(r)' \subseteq Holding(r)
    PROVE  Covered'
<1> SUFFICES ASSUME NEW r \in Roles
             PROVE  /\ asked[r] + Cardinality(Holding(r)') <= roleCalls[r]
                    /\ Complex \/ roleCalls[r] <= RoleLimit[r]
    BY DEF Covered
<1>1. Cardinality(Holding(r)') \in Nat /\ Cardinality(Holding(r)') <= Cardinality(Holding(r))
      BY HoldingShrinks
<1>2. Cardinality(Holding(r)) \in Nat
      BY HoldingFinite
<1>3. asked[r] \in Nat /\ roleCalls[r] \in Nat
      BY DEF IInv, TypeOK
<1>4. QED BY <1>1, <1>2, <1>3 DEF IInv, Covered

\* Leaving generate gives up whatever the branch held.
LEMMA LeaveShrinks ==
    ASSUME TypeOK, NEW b \in Branches, Leave(b), NEW r
    PROVE  Holding(r)' \subseteq Holding(r)
BY DEF TypeOK, Leave, Set, Idle, Holding

\* Every step keeps the requests covered: Reserve adds a reservation with the one
\* that holds it, Check turns one that is held into a request, Resume starts again
\* from nothing, and every other step lets go of reservations at most.
LEMMA CoveredStep == IInv /\ [Next]_vars => Covered'
<1> SUFFICES ASSUME IInv, [Next]_vars PROVE Covered'
    OBVIOUS
<1> USE DEF IInv
<1>1. ASSUME NEW b \in Branches, NEW role \in Roles, NEW use \in Usages, Ask(b, role, use)
      PROVE  Covered'
  <2>1. \A r \in Roles : Holding(r)' \subseteq Holding(r)
        BY <1>1 DEF Ask, Set, Idle, Holding, TypeOK
  <2>2. QED BY <1>1, <2>1, CoveredKept DEF Ask, governor, history
<1>2. ASSUME NEW b \in Branches, Reserve(b) PROVE Covered'
  <2>0. PICK role \in Roles : role = call[b].role
        BY <1>2 DEF Reserve, At, TypeOK
  <2>1. b \notin Holding(role)
        BY <1>2 DEF Reserve, At, TypeOK, Holding
  <2>2. Holding(role)' = Holding(role) \cup {b}
        BY <1>2, <2>0 DEF Reserve, At, Set, TypeOK, Calls, Holding
  <2>3. Cardinality(Holding(role)') = Cardinality(Holding(role)) + 1
        BY <2>1, <2>2, HoldingFinite, FS_AddElement
  <2>4. ASSUME NEW r \in Roles, r # role PROVE Holding(r)' = Holding(r)
        BY <1>2, <2>0, <2>4 DEF Reserve, At, Set, TypeOK, Calls, Holding
  <2>5. roleCalls' = [roleCalls EXCEPT ![role] = @ + 1] /\ asked' = asked
        BY <1>2, <2>0 DEF Reserve, history
  <2>6. Complex \/ roleCalls[role] < RoleLimit[role]
        BY <1>2, <2>0 DEF Reserve, Allowed
  <2>7. roleCalls \in [Roles -> Nat] /\ asked \in [Roles -> Nat] /\ RoleLimit \in [Roles -> Nat]
        BY ModelGatewayAssumption DEF TypeOK
  <2>8. SUFFICES ASSUME NEW r \in Roles
                 PROVE  /\ asked'[r] + Cardinality(Holding(r)') <= roleCalls'[r]
                        /\ Complex \/ roleCalls'[r] <= RoleLimit[r]
        BY DEF Covered
  <2>9. CASE r = role
    <3>1. asked[r] \in Nat /\ roleCalls[r] \in Nat /\ RoleLimit[r] \in Nat
          BY <2>7
    <3>2. roleCalls'[r] = roleCalls[r] + 1 /\ asked'[r] = asked[r]
          BY <2>5, <2>7, <2>9
    <3>3. Cardinality(Holding(r)) \in Nat
          BY HoldingFinite
    <3>4. asked[r] + Cardinality(Holding(r)) <= roleCalls[r]
          BY DEF Covered
    <3>5. Holding(r)' = Holding(role)'
          BY <2>9
    <3>6. Cardinality(Holding(r)') = Cardinality(Holding(r)) + 1
          BY <2>3, <2>9, <3>5
    <3>7. QED BY <2>6, <2>9, <3>1, <3>2, <3>3, <3>4, <3>6 DEF Covered
  <2>10. CASE r # role
         BY <2>4, <2>5, <2>7, <2>10 DEF Covered
  <2>11. QED BY <2>9, <2>10
<1>3. ASSUME NEW b \in Branches, Stop(b) PROVE Covered'
      BY <1>3, LeaveShrinks, CoveredKept DEF Stop, governor, history
<1>4. ASSUME NEW b \in Branches, Check(b) PROVE Covered'
  <2>1. CASE Set(b, [call[b] EXCEPT !.pc = "call"])
              /\ asked' = [asked EXCEPT ![call[b].role] = @ + 1]
    <3>0. PICK role \in Roles : role = call[b].role
          BY <1>4 DEF Check, At, TypeOK
    <3>1. b \in Holding(role)
          BY <1>4, <3>0 DEF Check, At, Holding
    <3>2. Holding(role)' = Holding(role) \ {b}
          BY <2>1, <3>0 DEF Set, TypeOK, Calls, Holding
    <3>3. Cardinality(Holding(role)') = Cardinality(Holding(role)) - 1
          BY <3>1, <3>2, HoldingFinite, FS_RemoveElement
    <3>4. ASSUME NEW r \in Roles, r # role PROVE Holding(r)' = Holding(r)
          BY <1>4, <2>1, <3>0, <3>4 DEF Check, At, Set, TypeOK, Calls, Holding
    <3>5. roleCalls' = roleCalls
          BY <1>4 DEF Check, governor
    <3>6. roleCalls \in [Roles -> Nat] /\ asked \in [Roles -> Nat]
          BY DEF TypeOK
    <3>7. asked' = [asked EXCEPT ![role] = @ + 1]
          BY <2>1, <3>0
    <3>8. SUFFICES ASSUME NEW r \in Roles
                   PROVE  /\ asked'[r] + Cardinality(Holding(r)') <= roleCalls'[r]
                          /\ Complex \/ roleCalls'[r] <= RoleLimit[r]
          BY DEF Covered
    <3>9. CASE r = role
      <4>1. Cardinality(Holding(r)) \in Nat
            BY HoldingFinite
      <4>2. Holding(r)' = Holding(role)'
            BY <3>9
      <4>3. Cardinality(Holding(r)') = Cardinality(Holding(r)) - 1
            BY <3>3, <3>9, <4>2
      <4>4. asked[r] \in Nat /\ roleCalls[r] \in Nat /\ asked'[r] = asked[r] + 1
            BY <3>6, <3>7, <3>9
      <4>5. QED BY <3>5, <4>1, <4>3, <4>4 DEF Covered
    <3>10. CASE r # role
           BY <3>4, <3>5, <3>6, <3>7, <3>10 DEF Covered
    <3>11. QED BY <3>9, <3>10
  <2>2. CASE Leave(b) /\ UNCHANGED asked
        BY <1>4, <2>2, LeaveShrinks, CoveredKept DEF Check, governor
  <2>3. QED BY <1>4, <2>1, <2>2 DEF Check
<1>5. ASSUME NEW b \in Branches, Answer(b) PROVE Covered'
  <2>1. \A r \in Roles : Holding(r)' \subseteq Holding(r)
        BY <1>5 DEF Answer, Set, Holding, TypeOK, Calls
  <2>2. QED BY <1>5, <2>1, CoveredKept DEF Answer, governor
<1>6. ASSUME NEW b \in Branches, ProviderFails(b) PROVE Covered'
  <2>1. CASE Set(b, [call[b] EXCEPT !.attempt = @ + 1])
    <3>1. \A r \in Roles : Holding(r)' \subseteq Holding(r)
          BY <2>1 DEF Set, Holding, TypeOK, Calls
    <3>2. QED BY <1>6, <3>1, CoveredKept DEF ProviderFails, governor, history
  <2>2. CASE Leave(b)
        BY <1>6, <2>2, LeaveShrinks, CoveredKept DEF ProviderFails, governor, history
  <2>3. QED BY <1>6, <2>1, <2>2 DEF ProviderFails
<1>7. ASSUME NEW b \in Branches, Record(b) PROVE Covered'
  <2>1. \A r \in Roles : Holding(r)' \subseteq Holding(r)
        BY <1>7, IdleType DEF Record, Set, Holding, TypeOK
  <2>2. QED BY <1>7, <2>1, CoveredKept DEF Record, governor, history
<1>8. CASE End
  <2>1. \A r \in Roles : Holding(r)' = Holding(r)
        BY <1>8 DEF End, Holding
  <2>2. QED BY <1>8, <2>1, CoveredKept DEF End, governor, history
<1>9. CASE Resume
  <2>1. \A r \in Roles : Holding(r)' = {}
        BY <1>9, IdleType DEF Resume, Holding
  <2>2. \A r \in Roles : Cardinality(Holding(r)') = 0
        BY <2>1, FS_EmptySet
  <2>3. \A r \in Roles : asked'[r] = 0 /\ roleCalls'[r] = 0 /\ 0 <= RoleLimit[r]
        BY <1>9, ModelGatewayAssumption DEF Resume
  <2>4. QED BY <2>2, <2>3 DEF Covered
<1>10. CASE Crash
  <2>1. \A r \in Roles : Holding(r)' \subseteq Holding(r)
        BY <1>10, IdleType DEF Crash, Holding
  <2>2. QED BY <1>10, <2>1, CoveredKept DEF Crash, governor
<1>11. CASE UNCHANGED vars
  <2>1. \A r \in Roles : Holding(r)' = Holding(r)
        BY <1>11 DEF vars, Holding
  <2>2. QED BY <1>11, <2>1, CoveredKept DEF vars, governor, history
<1>12. QED
      BY <1>1, <1>2, <1>3, <1>4, <1>5, <1>6, <1>7, <1>8, <1>9, <1>10, <1>11
      DEF Next, Generate

LEMMA CoveredInit == Init => Covered
<1> SUFFICES ASSUME Init PROVE Covered
    OBVIOUS
<1>1. \A r \in Roles : Holding(r) = {}
      BY IdleType DEF Init, Holding
<1>2. \A r \in Roles : Cardinality(Holding(r)) = 0
      BY <1>1, FS_EmptySet
<1>3. \A r \in Roles : asked[r] = 0 /\ roleCalls[r] = 0 /\ 0 <= RoleLimit[r]
      BY ModelGatewayAssumption DEF Init
<1>4. QED BY <1>2, <1>3 DEF Covered

\* IInv holds in every reachable state, whatever branches, resumes and crashes do.
THEOREM Inductive == Spec => []IInv
<1>1. Init => IInv
      BY TypeInit, CoveredInit DEF IInv
<1>2. IInv /\ [Next]_vars => IInv'
      BY TypeStep, CoveredStep DEF IInv
<1>3. QED BY <1>1, <1>2, PTL DEF Spec

\* Role limits hold under any interleaving of any number of branches: the
\* reservation the governor makes under its lock is what bounds the requests, so
\* the test against the number of recorded calls need not be atomic with them.
THEOREM RoleLimitsRespected == Spec => []RoleLimitsHold
<1>1. IInv => RoleLimitsHold
  <2> SUFFICES ASSUME IInv, ~Complex, NEW r \in Roles
               PROVE  asked[r] <= RoleLimit[r]
      BY ModelGatewayAssumption DEF RoleLimitsHold
  <2>1. Cardinality(Holding(r)) \in Nat
        BY HoldingFinite
  <2>2. asked[r] \in Nat /\ roleCalls[r] \in Nat /\ RoleLimit[r] \in Nat
        BY ModelGatewayAssumption DEF IInv, TypeOK
  <2>3. QED BY <2>1, <2>2 DEF IInv, Covered
<1>2. QED BY <1>1, Inductive, PTL
----------------------------------------------------------------------------
(***************************************************************************)
(* The budget.  What the providers have been paid is what was recorded and *)
(* what branches have still to record: a sum over branches, which the      *)
(* proofs handle as an additive measure of sets of branches.               *)
(***************************************************************************)

\* m gives every set of branches the sum of the weights w of its members.
Sums(m, w) ==
    /\ m[{}] = 0
    /\ \A T \in SUBSET Branches : \A b \in Branches \ T : m[T \cup {b}] = m[T] + w[b]

\* The weights of all branches add up to t.
AddUp(w, t) == \E m \in [SUBSET Branches -> Nat] : Sums(m, w) /\ m[Branches] = t

\* A nonempty set of subsets of a finite set has a minimal element.
LEMMA Minimal ==
    ASSUME NEW S, IsFiniteSet(S), NEW C \in SUBSET SUBSET S, C # {}
    PROVE  \E T \in C : \A U \in C : U \subseteq T => U = T
<1>1. IsWellFoundedOn(StrictSubsetOrdering(S), FiniteSubsetsOf(S))
      BY FS_StrictSubsetOrderingWellFounded
<1>2. C \subseteq FiniteSubsetsOf(S)
      BY FS_FiniteSubsetsOfFinite
<1>3. \E x \in C : \A y \in C : ~(<<y, x>> \in StrictSubsetOrdering(S))
      BY <1>1, <1>2, WFMin
<1>4. \A x, y \in C : y \subseteq x /\ y # x => <<y, x>> \in StrictSubsetOrdering(S)
      BY DEF StrictSubsetOrdering
<1>5. QED BY <1>3, <1>4

\* No weights add up to zero, and to nothing else.
LEMMA NoWeight ==
    ASSUME NEW w \in [Branches -> Nat], \A b \in Branches : w[b] = 0
    PROVE  AddUp(w, 0) /\ \A t : AddUp(w, t) => t = 0
<1>1. AddUp(w, 0)
  <2> DEFINE m == [T \in SUBSET Branches |-> 0]
  <2>1. m \in [SUBSET Branches -> Nat] /\ m[Branches] = 0 /\ m[{}] = 0
        OBVIOUS
  <2>2. \A T \in SUBSET Branches : \A b \in Branches \ T : m[T \cup {b}] = m[T] + w[b]
        OBVIOUS
  <2>3. QED BY <2>1, <2>2 DEF AddUp, Sums
<1>2. ASSUME NEW t, AddUp(w, t) PROVE t = 0
  <2>1. PICK m \in [SUBSET Branches -> Nat] : Sums(m, w) /\ m[Branches] = t
        BY <1>2 DEF AddUp
  <2> DEFINE C == {T \in SUBSET Branches : m[T] # 0}
  <2>2. SUFFICES ASSUME C # {} PROVE FALSE
        BY <2>1
  <2>3. C \in SUBSET SUBSET Branches /\ IsFiniteSet(Branches)
        BY ModelGatewayAssumption
  <2>4. \A T \in SUBSET Branches : T \in C <=> m[T] # 0
        OBVIOUS
  <2> HIDE DEF C
  <2>5. PICK T \in C : \A U \in C : U \subseteq T => U = T
        BY <2>2, <2>3, Minimal
  <2>6. PICK b \in T : TRUE
        BY <2>1, <2>3, <2>4 DEF Sums
  <2>7. T \in SUBSET Branches
        BY <2>3
  <2>8. T \ {b} \in SUBSET Branches /\ b \in Branches \ (T \ {b}) /\ (T \ {b}) \cup {b} = T
        BY <2>7
  <2>9. m[T] = m[T \ {b}] + 0
    <3>1. m[(T \ {b}) \cup {b}] = m[T \ {b}] + w[b]
          BY <2>1, <2>8 DEF Sums
    <3>2. QED BY <2>8, <3>1
  <2>10. m[T \ {b}] = 0
        BY <2>5, <2>6, <2>4, <2>8
  <2>11. QED BY <2>5, <2>7, <2>9, <2>10, <2>4
<1>3. QED BY <1>1, <1>2

\* A new weight of one branch takes the place of its old one in the sum.
LEMMA Reweigh ==
    ASSUME NEW w \in [Branches -> Nat], NEW x \in [Branches -> Nat], NEW b \in Branches,
           \A c \in Branches \ {b} : x[c] = w[c],
           NEW t \in Nat, AddUp(w, t)
    PROVE  \E u \in Nat : AddUp(x, u) /\ u + w[b] = t + x[b]
<1>1. PICK m \in [SUBSET Branches -> Nat] : Sums(m, w) /\ m[Branches] = t
      BY DEF AddUp
<1> DEFINE v == x[b]
           n == [T \in SUBSET Branches |-> IF b \in T THEN m[T \ {b}] + v ELSE m[T]]
           r == m[Branches \ {b}]
<1>2. \A T \in SUBSET Branches : \A c \in Branches \ T : m[T \cup {c}] = m[T] + w[c]
      BY <1>1 DEF Sums
<1>3. r \in Nat /\ t = r + w[b]
  <2>1. (Branches \ {b}) \cup {b} = Branches /\ b \in Branches \ (Branches \ {b})
        OBVIOUS
  <2>2. m[(Branches \ {b}) \cup {b}] = r + w[b]
        BY <1>2, <2>1
  <2>3. QED BY <1>1, <2>1, <2>2
<1>4. \A T \in SUBSET Branches : n[T] = IF b \in T THEN m[T \ {b}] + v ELSE m[T]
      OBVIOUS
<1>5. n \in [SUBSET Branches -> Nat]
  <2>1. \A T \in SUBSET Branches : m[T] \in Nat /\ m[T \ {b}] \in Nat /\ v \in Nat
        BY <1>1
  <2>2. \A T \in SUBSET Branches : (IF b \in T THEN m[T \ {b}] + v ELSE m[T]) \in Nat
        BY <2>1
  <2>3. QED BY <2>2
<1>6. n[{}] = 0 /\ n[Branches] = r + v
      BY <1>1 DEF Sums
<1>7. v \in Nat /\ x[b] = v
      OBVIOUS
<1> HIDE DEF n, v
<1>8. ASSUME NEW T \in SUBSET Branches, NEW c \in Branches \ T PROVE n[T \cup {c}] = n[T] + x[c]
  <2>1. CASE c = b
    <3>1. (T \cup {c}) \ {b} = T
          BY <2>1
    <3>2. QED BY <1>4, <1>7, <2>1, <3>1
  <2>2. CASE c # b /\ b \notin T
        BY <1>2, <1>4, <1>7, <2>2
  <2>3. CASE c # b /\ b \in T
    <3>1. (T \cup {c}) \ {b} = (T \ {b}) \cup {c} /\ c \in Branches \ (T \ {b})
          BY <2>3
    <3>2. m[(T \ {b}) \cup {c}] = m[T \ {b}] + w[c]
          BY <1>2, <3>1
    <3>3. n[T \cup {c}] = m[(T \ {b}) \cup {c}] + v /\ n[T] = m[T \ {b}] + v
          BY <1>4, <2>3, <3>1
    <3>4. m[T \ {b}] \in Nat /\ w[c] \in Nat /\ x[c] = w[c]
          BY <1>1, <1>7, <2>3
    <3>5. QED BY <1>7, <3>2, <3>3, <3>4
  <2>4. QED BY <2>1, <2>2, <2>3
<1>9. AddUp(x, r + v)
      BY <1>5, <1>6, <1>8 DEF AddUp, Sums
<1>10. w[b] \in Nat
      OBVIOUS
<1>11. QED BY <1>3, <1>7, <1>9, <1>10
----------------------------------------------------------------------------
\* Branches whose call may still be answered, those with an answer to record, and
\* those whose node is over, the answer perhaps not recorded.
Pending == {b \in Branches : call[b].pc = "call"}
Recording == {b \in Branches : call[b].pc = "record"}
Dead == {b \in Branches : call[b].pc = "dead"}

\* What each branch has still to record.
Owes == [b \in Branches |-> IF call[b].pc = "record" THEN call[b].use.act ELSE 0]

\* The usage of the largest request.
Largest == Max({u.act : u \in Usages})

LEMMA LargestRequest == Largest \in Nat /\ \A u \in Usages : u.act \in Nat /\ u.act <= Largest
<1> DEFINE S == {u.act : u \in Usages}
<1>1. \A u \in Usages : u.act \in Nat
      BY ModelGatewayAssumption
<1>2. PICK u \in Usages : \A v \in Usages : v.act <= u.act
      BY ModelGatewayAssumption
<1>3. u.act \in S /\ \A y \in S : u.act >= y
      BY <1>1, <1>2
<1>4. Max(S) \in S /\ \A y \in S : Max(S) >= y
      BY <1>3 DEF Max
<1>5. QED BY <1>1, <1>4 DEF Largest

LEMMA Times ==
    ASSUME NEW k \in Nat, NEW m \in Nat
    PROVE  /\ Largest * k \in Nat
           /\ Largest * (k + 1) = Largest * k + Largest
           /\ Largest * (k + m) = Largest * k + Largest * m
           /\ k <= m => Largest * k <= Largest * m
BY LargestRequest

\* Sets of branches and their sizes.
LEMMA Sizes ==
    /\ Cardinality(Branches) \in Nat \ {0}
    /\ \A S \in SUBSET Branches : IsFiniteSet(S) /\ Cardinality(S) \in Nat
    /\ \A S, T \in SUBSET Branches : S \subseteq T => Cardinality(S) <= Cardinality(T)
    /\ \A S \in SUBSET Branches : \A b \in Branches \ S : Cardinality(S \cup {b}) = Cardinality(S) + 1
    /\ \A S \in SUBSET Branches : \A b \in S : Cardinality(S \ {b}) = Cardinality(S) - 1
<1>1. \A S \in SUBSET Branches : IsFiniteSet(S) /\ Cardinality(S) \in Nat
      BY ModelGatewayAssumption, FS_Subset, FS_CardinalityType
<1>2. \A S, T \in SUBSET Branches : S \subseteq T => Cardinality(S) <= Cardinality(T)
      BY <1>1, FS_Subset
<1>3. \A S \in SUBSET Branches : \A b \in Branches \ S : Cardinality(S \cup {b}) = Cardinality(S) + 1
      BY <1>1, FS_AddElement
<1>4. \A S \in SUBSET Branches : \A b \in S : Cardinality(S \ {b}) = Cardinality(S) - 1
      BY <1>1, FS_RemoveElement
<1>5. Cardinality(Branches) # 0
      BY ModelGatewayAssumption, FS_EmptySet
<1>6. QED BY <1>1, <1>2, <1>3, <1>4, <1>5

\* A step of one branch moves only that branch between these sets.
LEMMA OneBranch ==
    ASSUME TypeOK, NEW b \in Branches, NEW c \in Calls, Set(b, c)
    PROVE  /\ call'[b] = c /\ \A d \in Branches \ {b} : call'[d] = call[d]
           /\ Pending' = IF c.pc = "call" THEN Pending \cup {b} ELSE Pending \ {b}
           /\ Recording' = IF c.pc = "record" THEN Recording \cup {b} ELSE Recording \ {b}
           /\ Dead' = IF c.pc = "dead" THEN Dead \cup {b} ELSE Dead \ {b}
           /\ Owes \in [Branches -> Nat] /\ Owes' \in [Branches -> Nat]
           /\ \A d \in Branches \ {b} : Owes'[d] = Owes[d]
           /\ Owes[b] = IF call[b].pc = "record" THEN call[b].use.act ELSE 0
           /\ Owes'[b] = IF c.pc = "record" THEN c.use.act ELSE 0
<1>1. call'[b] = c /\ \A d \in Branches \ {b} : call'[d] = call[d]
      BY DEF Set, TypeOK
<1>2. Pending' = IF c.pc = "call" THEN Pending \cup {b} ELSE Pending \ {b}
      BY <1>1 DEF Pending
<1>3. Recording' = IF c.pc = "record" THEN Recording \cup {b} ELSE Recording \ {b}
      BY <1>1 DEF Recording
<1>4. Dead' = IF c.pc = "dead" THEN Dead \cup {b} ELSE Dead \ {b}
      BY <1>1 DEF Dead
<1>5. Owes \in [Branches -> Nat]
      BY DEF Owes, TypeOK, Calls
<1>6. Owes'[b] = IF c.pc = "record" THEN c.use.act ELSE 0
      BY <1>1 DEF Owes
<1>7. \A d \in Branches \ {b} : Owes'[d] = Owes[d]
      BY <1>1 DEF Owes
<1>8. Owes' \in [Branches -> Nat]
  <2>1. \A d \in Branches : Owes'[d] \in Nat
        BY <1>5, <1>6, <1>7 DEF Calls
  <2>2. Owes' = [d \in Branches |-> Owes'[d]]
        BY DEF Owes
  <2>3. QED BY <2>1, <2>2
<1>9. Owes[b] = IF call[b].pc = "record" THEN call[b].use.act ELSE 0
      BY DEF Owes
<1>10. QED BY <1>1, <1>2, <1>3, <1>4, <1>5, <1>6, <1>7, <1>8, <1>9

\* The requests in flight are requests.
Requested ==
    \A b \in Branches : call[b].pc \in {"ask", "check", "call", "record"} => call[b].use \in Usages

\* Of the branches whose node is over, lost is what was answered and not recorded, and
\* gone how many answers that are; t is what others have still to record.  While no
\* exception was raised nothing is lost.
Ledger(t, lost, gone) ==
    /\ AddUp(Owes, t)
    /\ paid = used + t + lost /\ lost <= Largest * Cardinality(Dead)
    /\ answered = calls + Cardinality(Recording) + gone /\ gone <= Cardinality(Dead)
    /\ ~raised => lost = 0 /\ gone = 0

\* What was paid for is what was recorded, what branches have still to record and what
\* was lost; a run that pauses or completes has saved all of it.
Accounted ==
    crashes = 0 =>
        /\ run = "running" => \E t, lost, gone \in Nat : Ledger(t, lost, gone)
        /\ run \in {"paused", "completed"} => saved = [used |-> paid, calls |-> answered]

BInv == TypeOK /\ Requested /\ Accounted

\* A step of a branch with nothing to record that leaves it with nothing to record.
LEMMA LedgerKept ==
    ASSUME BInv, run = "running", NEW b \in Branches, NEW c \in Calls, Set(b, c),
           call[b].pc \notin {"record", "dead"}, c.pc # "record",
           c.pc \in {"ask", "check", "call"} => c.use \in Usages,
           UNCHANGED <<run, used, calls, paid, answered, crashes>>, raised => raised'
    PROVE  Requested' /\ Accounted'
<1>0. TypeOK
      BY DEF BInv
<1>1. Recording' = Recording
      BY <1>0, OneBranch DEF Recording
<1>2. Owes' = Owes
  <2>1. \A d \in Branches : Owes'[d] = Owes[d]
        BY <1>0, OneBranch
  <2>2. QED BY <1>0, <2>1, OneBranch
<1>3. Cardinality(Dead) <= Cardinality(Dead') /\ Cardinality(Dead) \in Nat /\ Cardinality(Dead') \in Nat
  <2>1. Dead \subseteq Dead' /\ Dead \subseteq Branches /\ Dead' \subseteq Branches
        BY <1>0, OneBranch DEF Dead
  <2>2. QED BY <2>1, Sizes
<1>4. Requested'
      BY <1>0, OneBranch DEF BInv, Requested
<1>5. ASSUME NEW t \in Nat, NEW lost \in Nat, NEW gone \in Nat, Ledger(t, lost, gone)
      PROVE  Ledger(t, lost, gone)'
  <2>1. lost <= Largest * Cardinality(Dead') /\ gone <= Cardinality(Dead')
    <3>1. Largest * Cardinality(Dead) <= Largest * Cardinality(Dead')
          BY <1>3, Times
    <3>2. Largest * Cardinality(Dead) \in Nat /\ Largest * Cardinality(Dead') \in Nat
          BY <1>3, Times
    <3>3. QED BY <1>3, <1>5, <3>1, <3>2 DEF Ledger
  <2>2. QED BY <1>1, <1>2, <1>5, <2>1 DEF Ledger
<1>6. Accounted'
      BY <1>5 DEF Accounted, BInv
<1>7. QED BY <1>4, <1>6

\* The call a branch has when it leaves generate.
LEMMA LeaveCall ==
    ASSUME TypeOK, NEW b \in Branches, Leave(b)
    PROVE  \E c \in Calls : /\ Set(b, c) /\ c.pc \in {"idle", "dead"}
                            /\ raised => raised'
<1>1. CASE Set(b, Idle) /\ UNCHANGED raised
      BY <1>1, IdleType
<1>2. CASE Set(b, [Idle EXCEPT !.pc = "dead"]) /\ raised' = TRUE
  <2> DEFINE c == [Idle EXCEPT !.pc = "dead"]
  <2>1. c \in Calls /\ c.pc = "dead" /\ Set(b, c)
        BY <1>2, IdleType
  <2> HIDE DEF c
  <2>2. QED BY <1>2, <2>1
<1>3. QED BY <1>1, <1>2 DEF Leave

\* The owed usage of one branch changes.
LEMMA OwesChanges ==
    ASSUME TypeOK, NEW b \in Branches, NEW c \in Calls, Set(b, c), NEW t \in Nat, AddUp(Owes, t)
    PROVE  \E u \in Nat : AddUp(Owes', u) /\ u + Owes[b] = t + Owes'[b]
<1>1. /\ Owes \in [Branches -> Nat] /\ Owes' \in [Branches -> Nat]
      /\ \A d \in Branches \ {b} : Owes'[d] = Owes[d]
      BY OneBranch
<1>2. QED BY ONLY <1>1, t \in Nat, b \in Branches, AddUp(Owes, t), Reweigh

\* Every step keeps the books: an answer adds to what is owed, a record moves it to what
\* is used or lost, a pause saves what is used and a resume takes it from there.
LEMMA AccountedStep == BInv /\ [Next]_vars => Requested' /\ Accounted'
<1> SUFFICES ASSUME BInv, [Next]_vars PROVE Requested' /\ Accounted'
    OBVIOUS
<1>0. TypeOK /\ Requested /\ Accounted
      BY DEF BInv
<1>a. /\ \A b \in Branches : call[b].use.act \in Nat
      /\ used \in Nat /\ calls \in Nat /\ paid \in Nat /\ answered \in Nat
      BY <1>0 DEF TypeOK, Calls
<1>1. ASSUME NEW b \in Branches, NEW role \in Roles, NEW use \in Usages, Ask(b, role, use)
      PROVE  Requested' /\ Accounted'
  <2> DEFINE c == [Idle EXCEPT !.pc = "ask", !.role = role, !.use = use, !.seen = calls]
  <2>1. 0 \in 0..MaxRetries
        BY ModelGatewayAssumption
  <2>2. c \in Calls /\ c.pc = "ask" /\ c.use = use
        BY <1>0, <2>1, ModelGatewayAssumption DEF Idle, Calls, TypeOK
  <2>3. Set(b, c)
        BY <1>1 DEF Ask
  <2> HIDE DEF c
  <2>4. QED BY <1>1, <2>2, <2>3, LedgerKept DEF Ask, At, budget, history
<1>2. ASSUME NEW b \in Branches, Reserve(b) PROVE Requested' /\ Accounted'
  <2> DEFINE c == [call[b] EXCEPT !.pc = "check"]
  <2>1. c \in Calls /\ c.pc = "check" /\ c.use = call[b].use
        BY <1>0 DEF TypeOK, Calls
  <2>2. Set(b, c) /\ call[b].use \in Usages
        BY <1>0, <1>2 DEF Reserve, At, Requested
  <2> HIDE DEF c
  <2>3. QED BY <1>2, <2>1, <2>2, LedgerKept DEF Reserve, At, budget, history
<1>3. ASSUME NEW b \in Branches, Leave(b), run = "running", call[b].pc \notin {"record", "dead"},
             UNCHANGED <<run, used, calls, paid, answered, crashes>>
      PROVE  Requested' /\ Accounted'
      BY <1>0, <1>3, LeaveCall, LedgerKept
<1>4. ASSUME NEW b \in Branches, Stop(b) PROVE Requested' /\ Accounted'
      BY <1>3, <1>4 DEF Stop, At, budget, history
<1>5. ASSUME NEW b \in Branches, Check(b) PROVE Requested' /\ Accounted'
  <2> DEFINE c == [call[b] EXCEPT !.pc = "call"]
  <2>1. c \in Calls /\ c.pc = "call" /\ c.use = call[b].use
        BY <1>0 DEF TypeOK, Calls
  <2>2. (Set(b, c) /\ UNCHANGED raised) \/ Leave(b)
        BY <1>5 DEF Check
  <2> HIDE DEF c
  <2>3. /\ run = "running" /\ call[b].pc = "check" /\ call[b].use \in Usages
        /\ UNCHANGED <<run, used, calls, paid, answered, crashes>>
        BY <1>0, <1>5 DEF Check, At, budget, Requested
  <2>4. QED BY <1>3, <2>1, <2>2, <2>3, LedgerKept
<1>6. ASSUME NEW b \in Branches, Answer(b) PROVE Requested' /\ Accounted'
  <2> DEFINE c == [call[b] EXCEPT !.pc = "record"]
  <2>1. c \in Calls /\ c.pc = "record" /\ c.use = call[b].use
        BY <1>0 DEF TypeOK, Calls
  <2>2. /\ Set(b, c) /\ run = "running" /\ call[b].pc = "call"
        /\ paid' = paid + call[b].use.act /\ answered' = answered + 1
        /\ UNCHANGED <<run, raised, used, calls, crashes>>
        BY <1>6 DEF Answer, At, budget
  <2> HIDE DEF c
  <2>3. Requested'
    <3>1. /\ call'[b] = c /\ call[b].use \in Usages
          /\ \A d \in Branches \ {b} : call'[d] = call[d]
          BY <1>0, <2>1, <2>2, OneBranch DEF Requested
    <3>2. QED BY <1>0, <2>1, <3>1 DEF Requested
  <2>4. /\ Recording' = Recording \cup {b} /\ b \in Branches \ Recording /\ Dead' = Dead
        /\ Owes[b] = 0 /\ Owes'[b] = call[b].use.act
    <3>1. /\ Recording' = Recording \cup {b} /\ Dead' = Dead \ {b}
          /\ Owes[b] = 0 /\ Owes'[b] = call[b].use.act
          BY <1>0, <2>1, <2>2, OneBranch
    <3>2. b \in Branches \ Recording /\ b \notin Dead
          BY <2>2 DEF Recording, Dead
    <3>3. QED BY <3>1, <3>2
  <2>5. Cardinality(Recording') = Cardinality(Recording) + 1 /\ Cardinality(Recording) \in Nat
        BY <2>4, Sizes DEF Recording
  <2>6. ASSUME NEW t \in Nat, NEW lost \in Nat, NEW gone \in Nat, Ledger(t, lost, gone)
        PROVE  \E u \in Nat : Ledger(u, lost, gone)'
    <3>1. PICK u \in Nat : AddUp(Owes', u) /\ u + Owes[b] = t + Owes'[b]
          BY <1>0, <2>1, <2>2, <2>6, OwesChanges DEF Ledger
    <3>2. u = t + call[b].use.act
          BY <1>a, <2>4, <3>1
    <3>3. paid' = used' + u + lost
          BY <1>a, <2>2, <2>6, <3>2 DEF Ledger
    <3>4. answered' = calls' + Cardinality(Recording') + gone
          BY <1>a, <2>2, <2>5, <2>6 DEF Ledger
    <3>5. QED BY <2>2, <2>4, <2>6, <3>1, <3>3, <3>4 DEF Ledger
  <2>7. QED BY <1>0, <2>2, <2>3, <2>6 DEF Accounted
<1>7. ASSUME NEW b \in Branches, ProviderFails(b) PROVE Requested' /\ Accounted'
  <2>1. /\ run = "running" /\ call[b].pc = "call" /\ call[b].use \in Usages
        /\ UNCHANGED <<run, used, calls, paid, answered, crashes>>
        BY <1>0, <1>7 DEF ProviderFails, At, budget, history, Requested
  <2>2. CASE call[b].attempt < MaxRetries /\ Set(b, [call[b] EXCEPT !.attempt = @ + 1])
              /\ UNCHANGED raised
    <3> DEFINE c == [call[b] EXCEPT !.attempt = @ + 1]
    <3>1. c \in Calls /\ c.pc = "call" /\ c.use = call[b].use
          BY <1>0, <2>1, <2>2, ModelGatewayAssumption DEF TypeOK, Calls
    <3>2. Set(b, c)
          BY <2>2
    <3> HIDE DEF c
    <3>3. QED BY <2>1, <2>2, <3>1, <3>2, LedgerKept
  <2>3. CASE Leave(b)
        BY <1>3, <2>1, <2>3
  <2>4. QED BY <1>7, <2>2, <2>3 DEF ProviderFails
<1>8. ASSUME NEW b \in Branches, Record(b) PROVE Requested' /\ Accounted'
  <2>1. /\ run = "running" /\ call[b].pc = "record" /\ call[b].use \in Usages
        /\ UNCHANGED <<run, paid, answered, crashes>>
        BY <1>0, <1>8 DEF Record, At, history, Requested
  <2> DEFINE fits == used + call[b].use.act <= Budget
             c == IF fits THEN Idle ELSE [Idle EXCEPT !.pc = "dead"]
  <2>2. c \in Calls /\ c.pc = IF fits THEN "idle" ELSE "dead"
        BY IdleType
  <2>3. /\ Set(b, c)
        /\ fits => used' = used + call[b].use.act /\ calls' = calls + 1 /\ raised' = raised
        /\ ~fits => used' = used /\ calls' = calls /\ raised'
        BY <1>8 DEF Record, budget
  <2> HIDE DEF fits, c
  <2>4. Requested'
        BY <1>0, <2>2, <2>3, OneBranch DEF Requested
  <2>5. /\ Recording' = Recording \ {b} /\ b \in Recording
        /\ Dead' = (IF fits THEN Dead ELSE Dead \cup {b}) /\ b \in Branches \ Dead
        /\ Owes[b] = call[b].use.act /\ Owes'[b] = 0
        BY <1>0, <2>1, <2>2, <2>3, OneBranch DEF Recording, Dead
  <2>6. /\ Cardinality(Recording') = Cardinality(Recording) - 1 /\ Cardinality(Recording) \in Nat
        /\ Cardinality(Dead') = (IF fits THEN Cardinality(Dead) ELSE Cardinality(Dead) + 1)
        /\ Cardinality(Dead) \in Nat
    <3>1. Recording \in SUBSET Branches /\ Dead \in SUBSET Branches
          BY DEF Recording, Dead
    <3>2. Cardinality(Recording \ {b}) = Cardinality(Recording) - 1
          BY <2>5, <3>1, Sizes
    <3>3. Cardinality(Dead \cup {b}) = Cardinality(Dead) + 1
          BY <2>5, <3>1, Sizes
    <3>4. Cardinality(Recording) \in Nat /\ Cardinality(Dead) \in Nat
          BY <3>1, Sizes
    <3>5. QED BY <2>5, <3>2, <3>3, <3>4
  <2>7. ASSUME NEW t \in Nat, NEW lost \in Nat, NEW gone \in Nat, Ledger(t, lost, gone)
        PROVE  \E u, more, others \in Nat : Ledger(u, more, others)'
    <3>1. PICK u \in Nat : AddUp(Owes', u) /\ u + Owes[b] = t + Owes'[b]
          BY <1>0, <2>2, <2>3, <2>7, OwesChanges DEF Ledger
    <3>2. t = u + call[b].use.act
          BY <1>a, <2>5, <3>1
    <3>3. CASE fits
      <4>1. paid' = used' + u + lost
            BY <1>a, <2>1, <2>3, <2>7, <3>2, <3>3 DEF Ledger
      <4>2. answered' = calls' + Cardinality(Recording') + gone
            BY <1>a, <2>1, <2>3, <2>6, <2>7, <3>3 DEF Ledger
      <4>3. Ledger(u, lost, gone)'
            BY <2>3, <2>5, <2>7, <3>1, <3>3, <4>1, <4>2 DEF Ledger
      <4>4. QED BY <4>3
    <3>4. CASE ~fits
      <4>0. PICK l \in Nat, g \in Nat : l = lost + call[b].use.act /\ g = gone + 1
            BY <1>a
      <4>1. paid' = used' + u + l
            BY <1>a, <2>1, <2>3, <2>7, <3>2, <3>4, <4>0 DEF Ledger
      <4>2. answered' = calls' + Cardinality(Recording') + g
            BY <1>a, <2>1, <2>3, <2>6, <2>7, <3>4, <4>0 DEF Ledger
      <4>3. l <= Largest * Cardinality(Dead')
        <5>1. Largest * Cardinality(Dead') = Largest * Cardinality(Dead) + Largest
              BY <2>6, <3>4, Times
        <5>2. call[b].use.act <= Largest /\ lost <= Largest * Cardinality(Dead)
              BY <2>1, <2>7, LargestRequest DEF Ledger
        <5>3. Largest * Cardinality(Dead) \in Nat /\ Largest \in Nat
              BY <2>6, Times, LargestRequest
        <5>4. QED BY <1>a, <4>0, <5>1, <5>2, <5>3
      <4>4. g <= Cardinality(Dead')
            BY <2>6, <2>7, <3>4, <4>0 DEF Ledger
      <4>5. raised' /\ AddUp(Owes', u)
            BY <2>3, <3>1, <3>4
      <4>6. Ledger(u, l, g)'
            BY ONLY <4>1, <4>2, <4>3, <4>4, <4>5 DEF Ledger
      <4>7. QED BY <4>6
    <3>5. QED BY <3>3, <3>4
  <2>8. QED BY <1>0, <2>1, <2>4, <2>7 DEF Accounted
<1>9. CASE End
  <2>1. /\ run = "running" /\ UNCHANGED <<paid, answered, crashes, used, calls, call>>
        /\ run' \in IF raised THEN {"failed"} ELSE {"paused", "completed", "failed"}
        /\ saved' = [used |-> used, calls |-> calls]
        /\ \A b \in Branches : call[b].pc \in {"idle", "dead"}
        BY <1>9 DEF End, budget, history
  <2>2. Requested'
        BY <1>0, <2>1 DEF Requested
  <2>3. SUFFICES ASSUME crashes = 0, ~raised PROVE used = paid /\ calls = answered
        BY <2>1, <2>2 DEF Accounted
  <2>4. PICK t, lost, gone \in Nat : Ledger(t, lost, gone)
        BY <1>0, <2>1, <2>3 DEF Accounted
  <2>5. Owes \in [Branches -> Nat] /\ \A b \in Branches : Owes[b] = 0
        BY <2>1 DEF Owes
  <2>6. t = 0
        BY <2>4, <2>5, NoWeight DEF Ledger
  <2>7. Cardinality(Recording) = 0
    <3>1. Recording = {}
          BY <2>1 DEF Recording
    <3>2. QED BY <3>1, FS_EmptySet
  <2>8. QED BY <1>a, <2>3, <2>4, <2>6, <2>7 DEF Ledger
<1>10. CASE Resume
  <2>1. /\ run = "paused" /\ run' = "running" /\ UNCHANGED <<paid, answered, crashes>>
        /\ used' = saved.used /\ calls' = saved.calls
        /\ call' = [b \in Branches |-> Idle]
        BY <1>10 DEF Resume
  <2>2. \A b \in Branches : call'[b].pc = "idle"
        BY <2>1, IdleType
  <2>3. Requested'
        BY <2>2 DEF Requested
  <2>4. SUFFICES ASSUME crashes = 0 PROVE Ledger(0, 0, 0)'
        BY <2>1, <2>3 DEF Accounted
  <2>5. used' = paid /\ calls' = answered
        BY <1>0, <2>1, <2>4 DEF Accounted
  <2>6. Owes' \in [Branches -> Nat] /\ \A b \in Branches : Owes'[b] = 0
        BY <2>2 DEF Owes
  <2>7. AddUp(Owes', 0)
        BY <2>6, NoWeight
  <2>8. Cardinality(Recording') = 0 /\ Cardinality(Dead') = 0
    <3>1. Recording' = {} /\ Dead' = {}
          BY <2>2 DEF Recording, Dead
    <3>2. QED BY <3>1, FS_EmptySet
  <2>9. Largest * 0 = 0
        BY LargestRequest
  <2>10. QED BY <1>a, <2>1, <2>5, <2>7, <2>8, <2>9 DEF Ledger
<1>11. CASE Crash
  <2>1. crashes' = crashes + 1 /\ call' = [b \in Branches |-> Idle]
        BY <1>11 DEF Crash
  <2>2. crashes' # 0
        BY <1>0, <2>1, ModelGatewayAssumption DEF TypeOK
  <2>3. Requested'
        BY <2>1, IdleType DEF Requested
  <2>4. QED BY <2>2, <2>3 DEF Accounted
<1>12. CASE UNCHANGED vars
  <2>1. UNCHANGED <<run, raised, used, calls, saved, call, paid, answered, crashes>>
        BY <1>12 DEF vars, budget, governor, history
  <2>2. Owes' = Owes /\ Recording' = Recording /\ Dead' = Dead
        BY <2>1 DEF Owes, Recording, Dead
  <2>3. QED BY <1>0, <2>1, <2>2 DEF Accounted, Requested, Ledger
<1>13. QED
      BY <1>1, <1>2, <1>4, <1>5, <1>6, <1>7, <1>8, <1>9, <1>10, <1>11, <1>12 DEF Next, Generate
----------------------------------------------------------------------------
\* Weights that only branches of S have, none of them above the largest request.
LEMMA AddUpBound ==
    ASSUME NEW w \in [Branches -> Nat], NEW S \in SUBSET Branches,
           \A b \in S : w[b] <= Largest, \A b \in Branches \ S : w[b] = 0,
           NEW t \in Nat, AddUp(w, t)
    PROVE  t <= Largest * Cardinality(S)
<1>1. PICK m \in [SUBSET Branches -> Nat] : Sums(m, w) /\ m[Branches] = t
      BY DEF AddUp
<1> DEFINE Low(T) == m[T] <= Largest * Cardinality(T \cap S)
           C == {T \in SUBSET Branches : ~Low(T)}
<1>2. SUFFICES ASSUME C # {} PROVE FALSE
  <2>1. Low(Branches)
        BY <1>2
  <2>2. Branches \cap S = S
        OBVIOUS
  <2>3. QED BY <1>1, <2>1, <2>2
<1>3. C \in SUBSET SUBSET Branches /\ IsFiniteSet(Branches)
      BY ModelGatewayAssumption
<1>4. \A T \in SUBSET Branches : T \in C <=> ~Low(T)
      OBVIOUS
<1> HIDE DEF C
<1>5. PICK T \in C : \A U \in C : U \subseteq T => U = T
      BY <1>2, <1>3, Minimal
<1>6. T \in SUBSET Branches /\ ~Low(T)
      BY <1>3, <1>4
<1>7. T # {}
  <2>1. SUFFICES ASSUME T = {} PROVE FALSE
        OBVIOUS
  <2>2. T \cap S = {} /\ m[T] = 0
        BY <1>1, <2>1 DEF Sums
  <2>3. Cardinality(T \cap S) = 0
        BY <2>2, FS_EmptySet
  <2>4. Largest * Cardinality(T \cap S) = 0
        BY <2>3, LargestRequest
  <2>5. QED BY <1>6, <2>2, <2>4
<1>8. PICK b \in T : TRUE
      BY <1>7
<1> DEFINE U == T \ {b}
<1>9. U \in SUBSET Branches /\ b \in Branches \ U /\ U \cup {b} = T /\ U \subseteq T /\ U # T
      BY <1>6, <1>8
<1>10. m[T] = m[U] + w[b]
  <2>1. m[U \cup {b}] = m[U] + w[b]
        BY <1>1, <1>9 DEF Sums
  <2>2. QED BY <1>9, <2>1
<1>11. m[U] <= Largest * Cardinality(U \cap S)
      BY <1>4, <1>5, <1>9
<1>12. m[T] \in Nat /\ m[U] \in Nat /\ w[b] \in Nat
      BY <1>1, <1>6, <1>9
<1>13. CASE b \in S
  <2>1. T \cap S \in SUBSET Branches /\ b \in T \cap S /\ U \cap S = (T \cap S) \ {b}
        BY <1>6, <1>8, <1>13
  <2> DEFINE k == Cardinality(U \cap S)
  <2>2. k \in Nat /\ Cardinality(T \cap S) = k + 1
    <3>1. Cardinality((T \cap S) \ {b}) = Cardinality(T \cap S) - 1
          BY <2>1, Sizes
    <3>2. Cardinality(T \cap S) \in Nat /\ Cardinality((T \cap S) \ {b}) \in Nat
          BY <2>1, Sizes
    <3>3. k = Cardinality((T \cap S) \ {b})
          BY <2>1
    <3> HIDE DEF k
    <3>4. QED BY <3>1, <3>2, <3>3
  <2> HIDE DEF k, U
  <2>3. Largest * (k + 1) = Largest * k + Largest /\ Largest * k \in Nat /\ Largest \in Nat
        BY <2>2, Times, LargestRequest
  <2>4. w[b] <= Largest
        BY <1>13
  <2>5. m[U] <= Largest * k
        BY <1>11 DEF k
  <2>6. m[T] <= Largest * (k + 1)
        BY <1>10, <1>12, <2>3, <2>4, <2>5
  <2>7. QED BY <1>6, <2>2, <2>6
<1>14. CASE b \notin S
  <2>1. U \cap S = T \cap S /\ w[b] = 0
        BY <1>9, <1>14
  <2>2. m[T] = m[U]
        BY <1>10, <1>12, <2>1
  <2>3. QED BY <1>6, <1>11, <2>1, <2>2
<1>15. QED BY <1>13, <1>14

\* Estimates cover what requests use.
Estimated == \A u \in Usages : u.act <= u.est

\* The most that is paid once the requests in flight are answered, b's at its own
\* usage and the others at the largest.
Bill(b) == paid + Largest * Cardinality(Pending \ {b})
           + (IF b \in Pending THEN call[b].use.act ELSE 0)

\* However the requests in flight are answered, the overshoot is bounded: b is the
\* branch that passed the check last.
Exposed ==
    crashes = 0 =>
        /\ answered + Cardinality(Pending) <= MaxCalls + Cardinality(Branches) - 1
        /\ Estimated => \E b \in Branches : Bill(b) <= Budget + (Cardinality(Branches) - 1) * Largest

\* The bound on the overshoot is a number, whatever the sets are.
LEMMA Overshoot ==
    /\ (Cardinality(Branches) - 1) * Largest \in Nat
    /\ (Cardinality(Branches) - 1) * Largest = Largest * (Cardinality(Branches) - 1)
<1>1. Cardinality(Branches) - 1 \in Nat /\ Largest \in Nat
      BY Sizes, LargestRequest
<1>2. QED BY <1>1, SMT

LEMMA BillType ==
    ASSUME TypeOK, NEW b \in Branches
    PROVE  Bill(b) \in Nat /\ Largest * Cardinality(Pending \ {b}) \in Nat /\ Pending \in SUBSET Branches
<1>1. Pending \in SUBSET Branches /\ Pending \ {b} \in SUBSET Branches
      BY DEF Pending
<1>2. Cardinality(Pending \ {b}) \in Nat
      BY <1>1, Sizes
<1>3. Largest * Cardinality(Pending \ {b}) \in Nat
      BY <1>2, Times
<1>4. paid \in Nat /\ call[b].use.act \in Nat
      BY DEF TypeOK, Calls
<1>5. QED BY <1>1, <1>3, <1>4 DEF Bill

\* A step that starts no request and pays for none.
LEMMA ExposedShrinks ==
    ASSUME TypeOK, TypeOK', Exposed, UNCHANGED <<paid, answered, crashes>>, Pending' \subseteq Pending,
           \A b \in Pending' : call'[b].use = call[b].use
    PROVE  Exposed'
<1>1. SUFFICES ASSUME crashes = 0 PROVE Exposed'
      BY DEF Exposed
<1>2. Pending \in SUBSET Branches /\ Pending' \in SUBSET Branches
      BY DEF Pending
<1>3. /\ Cardinality(Pending') <= Cardinality(Pending)
      /\ Cardinality(Pending') \in Nat /\ Cardinality(Pending) \in Nat
      BY <1>2, Sizes
<1>4. answered' + Cardinality(Pending') <= MaxCalls + Cardinality(Branches) - 1
      BY <1>1, <1>3, Sizes, ModelGatewayAssumption DEF Exposed, TypeOK
<1>5. ASSUME NEW b \in Branches, Bill(b) <= Budget + (Cardinality(Branches) - 1) * Largest
      PROVE  Bill(b)' <= Budget + (Cardinality(Branches) - 1) * Largest
  <2>1. Cardinality(Pending' \ {b}) <= Cardinality(Pending \ {b})
        /\ Cardinality(Pending' \ {b}) \in Nat /\ Cardinality(Pending \ {b}) \in Nat
    <3>1. Pending' \ {b} \subseteq Pending \ {b} /\ Pending' \ {b} \in SUBSET Branches
          /\ Pending \ {b} \in SUBSET Branches
          BY <1>2
    <3>2. QED BY <3>1, Sizes
  <2>2. Largest * Cardinality(Pending' \ {b}) <= Largest * Cardinality(Pending \ {b})
        /\ Largest * Cardinality(Pending' \ {b}) \in Nat
        /\ Largest * Cardinality(Pending \ {b}) \in Nat
        BY <2>1, Times
  <2>3. paid \in Nat /\ paid' = paid /\ call[b].use.act \in Nat /\ call'[b].use.act \in Nat
        BY DEF TypeOK, Calls
  <2>4. (IF b \in Pending' THEN call'[b].use.act ELSE 0) <= (IF b \in Pending THEN call[b].use.act ELSE 0)
        BY <2>3
  <2>5. Bill(b)' <= Bill(b)
        BY <2>2, <2>3, <2>4 DEF Bill
  <2>6. Bill(b) \in Nat /\ (Cardinality(Branches) - 1) * Largest \in Nat /\ Budget \in Nat
        BY BillType, Overshoot, ModelGatewayAssumption
  <2>7. Bill(b)' \in Nat
        BY <2>2, <2>3 DEF Bill
  <2>8. QED BY <1>5, <2>5, <2>6, <2>7
<1>6. QED BY <1>1, <1>4, <1>5 DEF Exposed, Estimated

\* A branch that is about to start a request, and those that owe, are over or have
\* requests in flight, are different branches.
LEMMA Room ==
    ASSUME NEW b \in Branches, call[b].pc = "check"
    PROVE  Cardinality(Recording) + Cardinality(Dead) + Cardinality(Pending) + 1 <= Cardinality(Branches)
<1> DEFINE A == Recording \cup Dead
           B == A \cup Pending
<1>1. /\ Recording \in SUBSET Branches /\ Dead \in SUBSET Branches /\ Pending \in SUBSET Branches
      /\ Recording \cap Dead = {} /\ A \cap Pending = {} /\ b \notin B
      /\ A \in SUBSET Branches /\ B \in SUBSET Branches
      BY DEF Recording, Dead, Pending
<1>2. /\ IsFiniteSet(Recording) /\ IsFiniteSet(Dead) /\ IsFiniteSet(Pending) /\ IsFiniteSet(A)
      /\ Cardinality(Recording) \in Nat /\ Cardinality(Dead) \in Nat /\ Cardinality(Pending) \in Nat
      /\ Cardinality(A) \in Nat /\ Cardinality(B) \in Nat
      BY <1>1, Sizes
<1>3. Cardinality(A) = Cardinality(Recording) + Cardinality(Dead)
  <2>1. Cardinality(A) = Cardinality(Recording) + Cardinality(Dead) - Cardinality(Recording \cap Dead)
        BY <1>2, FS_Union
  <2>2. Cardinality(Recording \cap Dead) = 0
        BY <1>1, FS_EmptySet
  <2>3. QED BY <1>2, <2>1, <2>2
<1>4. Cardinality(B) = Cardinality(A) + Cardinality(Pending)
  <2>1. Cardinality(B) = Cardinality(A) + Cardinality(Pending) - Cardinality(A \cap Pending)
        BY <1>2, FS_Union
  <2>2. Cardinality(A \cap Pending) = 0
        BY <1>1, FS_EmptySet
  <2>3. QED BY <1>2, <2>1, <2>2
<1>5. Cardinality(B \cup {b}) = Cardinality(B) + 1 /\ Cardinality(B \cup {b}) <= Cardinality(Branches)
      BY <1>1, Sizes
<1>6. Cardinality(Branches) \in Nat
      BY Sizes
<1>7. QED BY <1>2, <1>3, <1>4, <1>5, <1>6

\* A request that passes can_call: what is recorded leaves room for it, and what is not
\* recorded is at most the largest request of each other branch.
LEMMA ExposedCheck ==
    ASSUME BInv, Exposed, run = "running", crashes = 0, NEW b \in Branches, call[b].pc = "check",
           CanCall(call[b].use.est), NEW c \in Calls, Set(b, c), c.pc = "call", c.use = call[b].use,
           UNCHANGED <<paid, answered, crashes>>
    PROVE  Exposed'
<1> DEFINE n == Cardinality(Branches)
           P == Cardinality(Pending)
           R == Cardinality(Recording)
           D == Cardinality(Dead)
<1>0. TypeOK /\ Requested /\ Accounted
      BY DEF BInv
<1>1. P \in Nat /\ R \in Nat /\ D \in Nat /\ n \in Nat /\ R + D + P + 1 <= n
  <2>1. Recording \in SUBSET Branches /\ Dead \in SUBSET Branches /\ Pending \in SUBSET Branches
        BY DEF Recording, Dead, Pending
  <2>2. QED BY <2>1, Sizes, Room
<1>2. PICK t, lost, gone \in Nat : Ledger(t, lost, gone)
      BY <1>0 DEF Accounted
<1>3. Pending' = Pending \cup {b} /\ b \in Branches \ Pending /\ call'[b] = c
  <2>1. Pending' = Pending \cup {b} /\ call'[b] = c
        BY <1>0, OneBranch
  <2>2. QED BY <2>1 DEF Pending
<1>4. Cardinality(Pending') = P + 1 /\ Pending' \ {b} = Pending
  <2>1. Pending \in SUBSET Branches
        BY DEF Pending
  <2>2. Cardinality(Pending \cup {b}) = P + 1
        BY <1>3, <2>1, Sizes
  <2>3. QED BY <1>3, <2>2
<1>5. answered + P + 1 <= MaxCalls + n - 1
  <2>1. calls < MaxCalls /\ answered = calls + R + gone /\ gone <= D
        BY <1>2 DEF CanCall, Ledger
  <2>2. calls \in Nat /\ MaxCalls \in Nat
        BY <1>0, ModelGatewayAssumption DEF TypeOK
  <2> HIDE DEF n, P, R, D
  <2>3. QED BY <1>1, <2>1, <2>2
<1>6. ASSUME Estimated
      PROVE  paid + Largest * P + call[b].use.act <= Budget + (n - 1) * Largest
  <2>1. t <= Largest * R
    <3>1. Owes \in [Branches -> Nat] /\ Recording \in SUBSET Branches
          BY <1>0, OneBranch DEF Recording
    <3>2. \A d \in Recording : Owes[d] <= Largest
      <4>1. \A d \in Recording : Owes[d] = call[d].use.act /\ call[d].use \in Usages
            BY <1>0 DEF Recording, Owes, Requested
      <4>2. QED BY <4>1, LargestRequest
    <3>3. \A d \in Branches \ Recording : Owes[d] = 0
          BY DEF Recording, Owes
    <3>4. QED BY <1>2, <3>1, <3>2, <3>3, AddUpBound DEF Ledger
  <2>2. used + call[b].use.act <= Budget /\ used \in Nat /\ call[b].use.act \in Nat /\ Budget \in Nat
    <3>1. call[b].use \in Usages
          BY <1>0 DEF Requested
    <3>2. call[b].use.act <= call[b].use.est /\ call[b].use.act \in Nat /\ call[b].use.est \in Nat
          BY <1>6, <3>1, ModelGatewayAssumption DEF Estimated
    <3>3. used \in Nat /\ used + call[b].use.est <= Budget
          BY <1>0 DEF CanCall, TypeOK
    <3>4. QED BY <3>2, <3>3, ModelGatewayAssumption
  <2>3. paid = used + t + lost /\ lost <= Largest * D
        BY <1>2 DEF Ledger
  <2>4. (n - 1) * Largest = Largest * (n - 1)
        BY Overshoot
  <2> HIDE DEF n, P, R, D
  <2>5. /\ Largest * R \in Nat /\ Largest * D \in Nat /\ Largest * P \in Nat /\ Largest * (n - 1) \in Nat
        /\ Largest * R + Largest * D + Largest * P <= Largest * (n - 1)
    <3>1. R + D \in Nat /\ R + D + P \in Nat /\ n - 1 \in Nat /\ R + D + P <= n - 1
          BY <1>1
    <3>2. Largest * (R + D) = Largest * R + Largest * D
          /\ Largest * (R + D + P) = Largest * (R + D) + Largest * P
          BY <1>1, <3>1, Times
    <3>3. Largest * (R + D + P) <= Largest * (n - 1)
          BY <3>1, Times
    <3>4. /\ Largest * R \in Nat /\ Largest * D \in Nat /\ Largest * P \in Nat /\ Largest * (n - 1) \in Nat
          BY <1>1, <3>1, Times
    <3>5. QED BY <3>2, <3>3, <3>4
  <2>6. paid + Largest * P + call[b].use.act <= Budget + Largest * (n - 1)
        BY <1>2, <2>1, <2>2, <2>3, <2>5
  <2>7. QED BY <2>4, <2>6
<1>7. Bill(b)' = paid + Largest * P + call[b].use.act
      BY <1>3, <1>4 DEF Bill
<1>8. answered' + Cardinality(Pending') <= MaxCalls + Cardinality(Branches) - 1
  <2>1. answered + (P + 1) <= MaxCalls + n - 1
        BY <1>0, <1>1, <1>5, ModelGatewayAssumption DEF TypeOK
  <2>2. QED BY <1>4, <2>1
<1>9. Estimated => Bill(b)' <= Budget + (Cardinality(Branches) - 1) * Largest
      BY <1>6, <1>7
<1>10. QED BY <1>8, <1>9 DEF Exposed, Estimated

\* An answer is one of the requests in flight, no larger than the largest.
LEMMA ExposedAnswer ==
    ASSUME BInv, Exposed, NEW d \in Branches, call[d].pc = "call", NEW c \in Calls, Set(d, c),
           c.pc = "record", paid' = paid + call[d].use.act, answered' = answered + 1,
           crashes' = crashes
    PROVE  Exposed'
<1>0. TypeOK /\ Requested
      BY DEF BInv
<1>1. /\ Pending' = Pending \ {d} /\ d \in Pending /\ Pending \in SUBSET Branches
      /\ \A b \in Branches \ {d} : call'[b] = call[b]
  <2>1. Pending' = Pending \ {d} /\ \A b \in Branches \ {d} : call'[b] = call[b]
        BY <1>0, OneBranch
  <2>2. QED BY <2>1 DEF Pending
<1>2. SUFFICES ASSUME crashes = 0 PROVE Exposed'
      BY DEF Exposed
<1>3. answered' + Cardinality(Pending') <= MaxCalls + Cardinality(Branches) - 1
  <2>1. Cardinality(Pending') = Cardinality(Pending) - 1 /\ Cardinality(Pending) \in Nat
        BY <1>1, Sizes
  <2>2. QED BY <1>0, <1>2, <2>1, Sizes, ModelGatewayAssumption DEF Exposed, TypeOK
<1>4. ASSUME NEW b \in Branches PROVE Bill(b)' <= Bill(b)
  <2>1. paid \in Nat /\ call[d].use.act \in Nat /\ call[d].use.act <= Largest /\ call[b].use.act \in Nat
        BY <1>0, LargestRequest DEF Requested, TypeOK, Calls
  <2>2. CASE b = d
    <3>1. Pending' \ {b} = Pending \ {b} /\ b \notin Pending' /\ b \in Pending
          BY <1>1, <2>2
    <3>2. Largest * Cardinality(Pending \ {b}) \in Nat
          BY <1>0, BillType
    <3>3. Bill(b) = paid + Largest * Cardinality(Pending \ {b}) + call[d].use.act
          BY <2>2, <3>1 DEF Bill
    <3>4. Bill(b)' = paid + call[d].use.act + Largest * Cardinality(Pending \ {b}) + 0
          BY <3>1 DEF Bill
    <3>5. QED BY <2>1, <3>2, <3>3, <3>4
  <2>3. CASE b # d
    <3> DEFINE k == Cardinality(Pending' \ {b})
               x == IF b \in Pending THEN call[b].use.act ELSE 0
    <3>1. Pending' \ {b} = (Pending \ {b}) \ {d} /\ d \in Pending \ {b} /\ Pending \ {b} \in SUBSET Branches
          /\ (b \in Pending' <=> b \in Pending) /\ call'[b] = call[b]
          BY <1>1, <2>3
    <3>2. k \in Nat /\ Cardinality(Pending \ {b}) = k + 1
      <4>1. Cardinality((Pending \ {b}) \ {d}) = Cardinality(Pending \ {b}) - 1
            /\ Cardinality(Pending \ {b}) \in Nat /\ Cardinality((Pending \ {b}) \ {d}) \in Nat
            BY <3>1, Sizes
      <4>2. k = Cardinality((Pending \ {b}) \ {d})
            BY <3>1
      <4> HIDE DEF k
      <4>3. QED BY <4>1, <4>2
    <3>3. x \in Nat /\ Bill(b)' = paid + call[d].use.act + Largest * k + x
          BY <2>1, <3>1 DEF Bill
    <3>4. Bill(b) = paid + Largest * (k + 1) + x
          BY <3>2 DEF Bill
    <3> HIDE DEF k, x
    <3>5. Largest * (k + 1) = Largest * k + Largest /\ Largest * k \in Nat /\ Largest \in Nat
          BY <3>2, Times, LargestRequest
    <3>6. QED BY <2>1, <3>3, <3>4, <3>5
  <2>4. QED BY <2>2, <2>3
<1>5. ASSUME NEW b \in Branches, Bill(b) <= Budget + (Cardinality(Branches) - 1) * Largest
      PROVE  Bill(b)' <= Budget + (Cardinality(Branches) - 1) * Largest
  <2>1. Bill(b)' <= Bill(b)
        BY <1>4
  <2>2. Bill(b) \in Nat /\ (Cardinality(Branches) - 1) * Largest \in Nat /\ Budget \in Nat
        BY <1>0, BillType, Overshoot, ModelGatewayAssumption
  <2>3. Bill(b)' \in Int
    <3>1. Pending' \ {b} \in SUBSET Branches
          BY <1>1
    <3>2. Largest * Cardinality(Pending' \ {b}) \in Nat
          BY <3>1, Sizes, Times
    <3>3. paid \in Nat /\ call[d].use.act \in Nat
          BY <1>0 DEF TypeOK, Calls
    <3>4. b \in Pending' => call'[b] = call[b] /\ call[b].use.act \in Nat
          BY <1>0, <1>1 DEF TypeOK, Calls
    <3>5. QED BY <3>2, <3>3, <3>4 DEF Bill
  <2>4. QED BY <1>5, <2>1, <2>2, <2>3
<1>6. QED BY <1>2, <1>3, <1>5 DEF Exposed, Estimated

\* The call of a branch moves on, or is retried.
LEMMA CallMoves ==
    ASSUME TypeOK, NEW b \in Branches, NEW pc \in {"check", "call", "record"}
    PROVE  /\ [call[b] EXCEPT !.pc = pc] \in Calls
           /\ [call[b] EXCEPT !.pc = pc].pc = pc
           /\ [call[b] EXCEPT !.pc = pc].use = call[b].use
<1>1. call[b] \in Calls
      BY DEF TypeOK
<1>2. QED BY <1>1 DEF Calls

LEMMA CallRetried ==
    ASSUME TypeOK, NEW b \in Branches, call[b].attempt < MaxRetries
    PROVE  /\ [call[b] EXCEPT !.attempt = @ + 1] \in Calls
           /\ [call[b] EXCEPT !.attempt = @ + 1].pc = call[b].pc
           /\ [call[b] EXCEPT !.attempt = @ + 1].use = call[b].use
<1>1. call[b] \in Calls
      BY DEF TypeOK
<1>2. call[b].attempt + 1 \in 0..MaxRetries
      BY <1>1, ModelGatewayAssumption DEF Calls
<1>3. QED BY <1>1, <1>2 DEF Calls

\* Every other step starts no request and pays for none.
LEMMA ExposedStep == BInv /\ TypeOK' /\ Exposed /\ [Next]_vars => Exposed'
<1> SUFFICES ASSUME BInv, TypeOK', Exposed, [Next]_vars PROVE Exposed'
    OBVIOUS
<1>0. TypeOK /\ Requested
      BY DEF BInv
<1>1. ASSUME NEW b \in Branches, NEW c \in Calls, Set(b, c), c.pc = "call" => call[b].pc = "call",
             c.pc = "call" => c.use = call[b].use, UNCHANGED <<paid, answered, crashes>>
      PROVE  Exposed'
  <2>1. /\ Pending' = (IF c.pc = "call" THEN Pending \cup {b} ELSE Pending \ {b})
        /\ call'[b] = c /\ \A d \in Branches \ {b} : call'[d] = call[d]
        BY <1>0, <1>1, OneBranch
  <2>2. Pending' \subseteq Pending
        BY <1>1, <2>1 DEF Pending
  <2>3. \A d \in Pending' : call'[d].use = call[d].use
    <3>1. Pending' \subseteq Branches /\ (b \in Pending' => c.pc = "call")
          BY <2>1 DEF Pending
    <3>2. QED BY <1>1, <2>1, <3>1
  <2>4. QED BY <1>0, <1>1, <2>2, <2>3, ExposedShrinks
<1>2. ASSUME NEW b \in Branches, Leave(b), UNCHANGED <<paid, answered, crashes>>
      PROVE  Exposed'
  <2>1. PICK c \in Calls : Set(b, c) /\ c.pc \in {"idle", "dead"}
        BY <1>0, <1>2, LeaveCall
  <2>2. QED BY <1>1, <1>2, <2>1
<1>3. ASSUME NEW b \in Branches, NEW role \in Roles, NEW use \in Usages, Ask(b, role, use)
      PROVE  Exposed'
  <2> DEFINE c == [Idle EXCEPT !.pc = "ask", !.role = role, !.use = use, !.seen = calls]
  <2>1. 0 \in 0..MaxRetries
        BY ModelGatewayAssumption
  <2>2. c \in Calls /\ c.pc = "ask"
        BY <1>0, <2>1, ModelGatewayAssumption DEF Idle, Calls, TypeOK
  <2>3. Set(b, c) /\ UNCHANGED <<paid, answered, crashes>>
        BY <1>3 DEF Ask, history
  <2> HIDE DEF c
  <2>4. QED BY <1>1, <2>2, <2>3
<1>4. ASSUME NEW b \in Branches, Reserve(b) PROVE Exposed'
  <2> DEFINE c == [call[b] EXCEPT !.pc = "check"]
  <2>1. c \in Calls /\ c.pc = "check"
        BY <1>0, CallMoves
  <2>2. Set(b, c) /\ UNCHANGED <<paid, answered, crashes>>
        BY <1>4 DEF Reserve, history
  <2> HIDE DEF c
  <2>3. QED BY <1>1, <2>1, <2>2
<1>5. ASSUME NEW b \in Branches, Stop(b) PROVE Exposed'
      BY <1>2, <1>5 DEF Stop, history
<1>6. ASSUME NEW b \in Branches, Check(b) PROVE Exposed'
  <2> DEFINE c == [call[b] EXCEPT !.pc = "call"]
  <2>1. c \in Calls /\ c.pc = "call" /\ c.use = call[b].use
        BY <1>0, CallMoves
  <2>2. run = "running" /\ call[b].pc = "check" /\ UNCHANGED <<paid, answered, crashes>>
        BY <1>6 DEF Check, At
  <2>3. (CanCall(call[b].use.est) /\ Set(b, c)) \/ Leave(b)
        BY <1>6 DEF Check
  <2> HIDE DEF c
  <2>4. CASE crashes = 0 /\ CanCall(call[b].use.est) /\ Set(b, c)
        BY <2>1, <2>2, <2>4, ExposedCheck
  <2>5. CASE crashes # 0
        BY <2>2, <2>5 DEF Exposed
  <2>6. QED BY <1>2, <2>2, <2>3, <2>4, <2>5
<1>7. ASSUME NEW b \in Branches, Answer(b) PROVE Exposed'
  <2> DEFINE c == [call[b] EXCEPT !.pc = "record"]
  <2>1. c \in Calls /\ c.pc = "record"
        BY <1>0, CallMoves
  <2>2. /\ Set(b, c) /\ call[b].pc = "call" /\ crashes' = crashes
        /\ paid' = paid + call[b].use.act /\ answered' = answered + 1
        BY <1>7 DEF Answer, At
  <2> HIDE DEF c
  <2>3. QED BY <2>1, <2>2, ExposedAnswer
<1>8. ASSUME NEW b \in Branches, ProviderFails(b) PROVE Exposed'
  <2>1. call[b].pc = "call" /\ UNCHANGED <<paid, answered, crashes>>
        BY <1>8 DEF ProviderFails, At, history
  <2>2. CASE call[b].attempt < MaxRetries /\ Set(b, [call[b] EXCEPT !.attempt = @ + 1])
    <3> DEFINE c == [call[b] EXCEPT !.attempt = @ + 1]
    <3>1. c \in Calls /\ c.pc = "call" /\ c.use = call[b].use
          BY <1>0, <2>1, <2>2, CallRetried
    <3>2. Set(b, c)
          BY <2>2
    <3> HIDE DEF c
    <3>3. QED BY <1>1, <2>1, <3>1, <3>2
  <2>3. CASE Leave(b)
        BY <1>2, <2>1, <2>3
  <2>4. QED BY <1>8, <2>2, <2>3 DEF ProviderFails
<1>9. ASSUME NEW b \in Branches, Record(b) PROVE Exposed'
  <2>1. PICK c \in {Idle, [Idle EXCEPT !.pc = "dead"]} : Set(b, c)
        BY <1>9 DEF Record
  <2>2. c \in Calls /\ c.pc # "call"
        BY IdleType
  <2>3. UNCHANGED <<paid, answered, crashes>>
        BY <1>9 DEF Record, history
  <2>4. QED BY <1>1, <2>1, <2>2, <2>3
<1>10. CASE End
      BY <1>0, <1>10, ExposedShrinks DEF End, history, Pending
<1>11. CASE Resume
  <2>1. UNCHANGED <<paid, answered, crashes>> /\ call' = [b \in Branches |-> Idle]
        BY <1>11 DEF Resume
  <2>2. Pending' = {}
        BY <2>1, IdleType DEF Pending
  <2>3. QED BY <1>0, <2>1, <2>2, ExposedShrinks
<1>12. CASE Crash
  <2>1. crashes' = crashes + 1 /\ crashes \in Nat
        BY <1>0, <1>12, ModelGatewayAssumption DEF Crash, TypeOK
  <2>2. QED BY <2>1 DEF Exposed
<1>13. CASE UNCHANGED vars
      BY <1>0, <1>13, ExposedShrinks DEF vars, history, Pending
<1>14. QED
      BY <1>3, <1>4, <1>5, <1>6, <1>7, <1>8, <1>9, <1>10, <1>11, <1>12, <1>13 DEF Next, Generate

LEMMA BudgetInit == Init => BInv /\ Exposed
<1> SUFFICES ASSUME Init PROVE BInv /\ Exposed
    OBVIOUS
<1>1. /\ run = "running" /\ used = 0 /\ calls = 0 /\ paid = 0 /\ answered = 0
      /\ \A b \in Branches : call[b].pc = "idle"
      BY IdleType DEF Init
<1>2. TypeOK
      BY TypeInit
<1>3. Requested
      BY <1>1 DEF Requested
<1>4. /\ Pending = {} /\ Recording = {} /\ Dead = {}
      /\ Owes \in [Branches -> Nat] /\ \A b \in Branches : Owes[b] = 0
      BY <1>1 DEF Pending, Recording, Dead, Owes
<1>5. Cardinality({}) = 0 /\ Largest * 0 = 0
      BY FS_EmptySet, LargestRequest
<1>6. Ledger(0, 0, 0)
  <2>1. AddUp(Owes, 0)
        BY <1>4, NoWeight
  <2>2. QED BY <1>1, <1>4, <1>5, <2>1 DEF Ledger
<1>7. Accounted
      BY <1>1, <1>6 DEF Accounted
<1>8. Exposed
  <2>1. answered + Cardinality(Pending) <= MaxCalls + Cardinality(Branches) - 1
        BY <1>1, <1>4, <1>5, Sizes, ModelGatewayAssumption
  <2>2. PICK b \in Branches : TRUE
        BY ModelGatewayAssumption
  <2>3. Bill(b) = 0
    <3>1. Pending \ {b} = {} /\ b \notin Pending
          BY <1>4
    <3>2. Largest * Cardinality(Pending \ {b}) = 0
          BY <1>5, <3>1
    <3>3. QED BY <1>1, <3>1, <3>2 DEF Bill
  <2>4. Bill(b) <= Budget + (Cardinality(Branches) - 1) * Largest
        BY <2>3, Overshoot, ModelGatewayAssumption
  <2>5. QED BY <2>1, <2>4 DEF Exposed
<1>9. QED BY <1>2, <1>3, <1>7, <1>8 DEF BInv

\* Any number of branches, whatever they ask for, overshoot the budget by at most one
\* request each but one, and the checkpoint of a run that stopped holds all that was
\* paid: what each step does to the books of the branches together.
THEOREM BudgetRespected == Spec => []BudgetHolds
<1> DEFINE Inv == BInv /\ Exposed
<1>1. Inv /\ [Next]_vars => Inv'
      BY TypeStep, AccountedStep, ExposedStep DEF BInv
<1>2. Inv => BudgetHolds
  <2> SUFFICES ASSUME Inv PROVE BudgetHolds
      OBVIOUS
  <2>0. TypeOK /\ Accounted /\ Exposed
        BY DEF BInv
  <2>1. SavedIsPaidWithoutCrash
        BY <2>0 DEF Accounted, SavedIsPaidWithoutCrash
  <2>2. ASSUME crashes = 0 PROVE answered <= MaxCalls + Cardinality(Branches) - 1
    <3>1. Pending \in SUBSET Branches
          BY DEF Pending
    <3>2. Cardinality(Pending) \in Nat /\ Cardinality(Branches) \in Nat
          BY <3>1, Sizes
    <3>3. QED BY <2>0, <2>2, <3>2, ModelGatewayAssumption DEF Exposed, TypeOK
  <2>3. ASSUME crashes = 0, Estimated
        PROVE  paid <= Budget + (Cardinality(Branches) - 1) * Largest
    <3>1. PICK b \in Branches : Bill(b) <= Budget + (Cardinality(Branches) - 1) * Largest
          BY <2>0, <2>3 DEF Exposed
    <3>2. /\ Largest * Cardinality(Pending \ {b}) \in Nat /\ paid \in Nat
          /\ (Cardinality(Branches) - 1) * Largest \in Nat
          /\ call[b].use.act \in Nat
          BY <2>0, BillType, Overshoot DEF TypeOK, Calls
    <3>3. paid <= Bill(b)
          BY <3>2 DEF Bill
    <3>4. QED BY <2>0, <3>1, <3>2, <3>3, BillType, ModelGatewayAssumption
  <2>4. OvershootBounded
        BY <2>2, <2>3 DEF OvershootBounded, Estimated, Largest
  <2>5. QED BY <2>1, <2>4 DEF BudgetHolds
<1>3. Init => Inv
      BY BudgetInit
<1>4. QED BY <1>1, <1>2, <1>3, PTL DEF Spec
=============================================================================
