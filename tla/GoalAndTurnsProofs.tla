------------------------- MODULE GoalAndTurnsProofs -------------------------
(***************************************************************************)
(* What is proved of a Goal's plan graph and token ledger, of the session  *)
(* event log and of the turn engine, and of the four together in           *)
(* MCGoalAndTurns.                                                         *)
(***************************************************************************)
EXTENDS MCGoalAndTurns, DataProofs, FiniteSetTheorems, SequenceTheorems

(***************************************************************************)
(* For every set of node ids and every depends_on: what validate_plan      *)
(* accepts is a closed acyclic graph, topological_order orders it, and a   *)
(* cycle is reported only where there is one.                              *)
(*                                                                         *)
(* The strengthening: a pending node waits exactly for those of its        *)
(* dependencies that are not ordered yet, a node of the batch for none,    *)
(* and no member of a knot is ever ordered.                                *)
(***************************************************************************)

Waiting == \A n \in DOMAIN waiting : waiting[n] = deps[n] \ Emitted
BatchFree == \A n \in ready : waiting[n] = {}
KnotsUntouched == \A C \in SUBSET Ids : Knot(C) => C \cap Emitted = {}
Verdict ==
  /\ outcome = "ordered" => Legal /\ DOMAIN waiting = {}
  /\ outcome = "cycle" => Legal /\ DOMAIN waiting # {} /\ Free = {}

GraphInv ==
  /\ GraphTypeOK
  /\ Waiting
  /\ BatchFree
  /\ OrderRespectsDeps
  /\ KnotsUntouched
  /\ Verdict

(* Before the loop starts nothing is ordered and every node waits for all   *)
(* its dependencies.                                                        *)
LEMMA GraphInvHolds == GraphInit => GraphInv
<1> SUFFICES ASSUME GraphInit PROVE GraphInv OBVIOUS
<1>1. /\ order = <<>> /\ ready = {} /\ outcome = "" /\ waiting = deps
      /\ deps \in [Ids -> SUBSET Names]
  BY DEF GraphInit
<1>2. DOMAIN order = {}
  <2>1. <<>> \in Seq(Ids) /\ Len(<<>>) = 0 BY EmptySeq
  <2>2. order \in Seq(Ids) /\ Len(order) = 0 BY <1>1, <2>1
  <2>3. DOMAIN order = 1 .. Len(order) BY <2>2
  <2> QED BY <2>2, <2>3
<1>3. Emitted = {} BY <1>2 DEF Emitted
<1>4. order \in Seq(Ids) BY <1>1, EmptySeq
<1>5. DOMAIN waiting = Ids \ Emitted /\ \A n \in DOMAIN waiting : waiting[n] \subseteq Names
  BY <1>1, <1>3
<1>6. GraphTypeOK BY <1>1, <1>4, <1>5 DEF GraphTypeOK
<1>7. Waiting /\ BatchFree /\ KnotsUntouched /\ Verdict
  BY <1>1, <1>3 DEF Waiting, BatchFree, KnotsUntouched, Verdict
<1>8. OrderRespectsDeps BY <1>2 DEF OrderRespectsDeps
<1> QED BY <1>6, <1>7, <1>8 DEF GraphInv

(* Appending a node of the batch: it joins the ordered ones and leaves the  *)
(* pending ones.                                                            *)
LEMMA EmitStep ==
  ASSUME GraphInv, NEW n \in Ids, Emit(n)
  PROVE  GraphInv'
<1>1. /\ n \in ready /\ n \in DOMAIN waiting /\ waiting[n] = {}
      /\ order' = Append(order, n) /\ outcome = ""
      /\ waiting' = [m \in DOMAIN waiting \ {n} |-> waiting[m] \ {n}]
      /\ ready' = ready \ {n} /\ deps' = deps /\ outcome' = outcome
  BY DEF Emit, Rest, GraphInv, GraphTypeOK, BatchFree
<1>2. order \in Seq(Ids) /\ Len(order) \in Nat /\ DOMAIN order = 1 .. Len(order)
  <2>1. order \in Seq(Ids) BY DEF GraphInv, GraphTypeOK
  <2> QED BY <2>1
<1>3. /\ order' \in Seq(Ids) /\ DOMAIN order' = 1 .. Len(order) + 1
      /\ order'[Len(order) + 1] = n
      /\ \A i \in 1 .. Len(order) : order'[i] = order[i]
  <2>1. order' = Append(order, n) BY <1>1
  <2> QED BY <2>1, <1>2
<1>4. Emitted' = Emitted \cup {n}
  BY <1>2, <1>3 DEF Emitted
<1>5. n \notin Emitted /\ deps[n] \subseteq Emitted
  BY <1>1 DEF GraphInv, GraphTypeOK, Waiting
<1>6. DOMAIN waiting' = Ids \ Emitted'
  BY <1>1, <1>4 DEF GraphInv, GraphTypeOK
<1>7. GraphTypeOK'
  <2>1. \A m \in DOMAIN waiting' : waiting'[m] \subseteq Names
    BY <1>1 DEF GraphInv, GraphTypeOK
  <2>2. ready' \subseteq DOMAIN waiting'
    BY <1>1 DEF GraphInv, GraphTypeOK
  <2> QED BY <1>1, <1>3, <1>6, <2>1, <2>2 DEF GraphInv, GraphTypeOK
<1>8. Waiting'
  BY <1>1, <1>4 DEF GraphInv, Waiting
<1>9. BatchFree'
  BY <1>1 DEF GraphInv, GraphTypeOK, BatchFree
<1>10. OrderRespectsDeps'
  <2> SUFFICES ASSUME NEW i \in 1 .. Len(order) + 1
               PROVE  /\ deps[order'[i]] \subseteq {order'[j] : j \in 1 .. i - 1}
                      /\ \A j \in 1 .. i - 1 : order'[j] # order'[i]
    BY <1>1, <1>3 DEF OrderRespectsDeps
  <2>1. CASE i \in 1 .. Len(order)
    <3>1. /\ deps[order[i]] \subseteq {order[j] : j \in 1 .. i - 1}
          /\ \A j \in 1 .. i - 1 : order[j] # order[i]
      BY <2>1, <1>2 DEF GraphInv, OrderRespectsDeps
    <3>2. \A j \in 1 .. i : order'[j] = order[j] BY <2>1, <1>2, <1>3
    <3>3. {order'[j] : j \in 1 .. i - 1} = {order[j] : j \in 1 .. i - 1}
      BY <3>2
    <3> QED BY <3>1, <3>2, <3>3, <2>1
  <2>2. CASE i = Len(order) + 1
    <3>1. {order'[j] : j \in 1 .. i - 1} = Emitted
      BY <2>2, <1>2, <1>3 DEF Emitted
    <3>2. order'[i] = n BY <2>2, <1>3
    <3>3. \A j \in 1 .. i - 1 : order'[j] \in Emitted BY <3>1
    <3> QED BY <3>1, <3>2, <3>3, <1>5
  <2> QED BY <2>1, <2>2, <1>2
<1>11. KnotsUntouched'
  <2> SUFFICES ASSUME NEW C \in SUBSET Ids, Knot(C)', n \in C
               PROVE  FALSE
    BY <1>1, <1>4 DEF KnotsUntouched, Knot, GraphInv
  <2>1. Knot(C) BY <1>1 DEF Knot
  <2>2. deps[n] \cap C # {} BY <2>1 DEF Knot
  <2>3. C \cap Emitted = {} BY <2>1 DEF GraphInv, KnotsUntouched
  <2> QED BY <2>2, <2>3, <1>5
<1>12. Verdict' BY <1>1 DEF Verdict
<1> QED BY <1>7, <1>8, <1>9, <1>10, <1>11, <1>12 DEF GraphInv

(* The other steps leave the graph and the order alone.                     *)
LEMMA Unmoved ==
  ASSUME GraphInv, UNCHANGED <<deps, waiting, order>>,
         ready' \subseteq DOMAIN waiting, \A n \in ready' : waiting[n] = {},
         outcome' \in {"", "ordered", "cycle", "invalid"}, Verdict'
  PROVE  GraphInv'
<1>1. deps' = deps /\ waiting' = waiting /\ order' = order OBVIOUS
<1>2. Emitted' = Emitted BY <1>1 DEF Emitted
<1>3. GraphTypeOK' BY <1>1, <1>2 DEF GraphInv, GraphTypeOK
<1>4. Waiting' /\ BatchFree' BY <1>1, <1>2 DEF GraphInv, Waiting, BatchFree
<1>5. OrderRespectsDeps'
  <2>1. OrderRespectsDeps BY DEF GraphInv
  <2> SUFFICES ASSUME NEW i \in DOMAIN order'
               PROVE  /\ deps'[order'[i]] \subseteq {order'[j] : j \in 1 .. i - 1}
                      /\ \A j \in 1 .. i - 1 : order'[j] # order'[i]
    BY DEF OrderRespectsDeps
  <2>2. {order'[j] : j \in 1 .. i - 1} = {order[j] : j \in 1 .. i - 1} BY <1>1
  <2> QED BY <1>1, <2>1, <2>2 DEF OrderRespectsDeps
<1>6. KnotsUntouched' BY <1>1, <1>2 DEF GraphInv, KnotsUntouched, Knot
<1> QED BY <1>3, <1>4, <1>5, <1>6 DEF GraphInv

(* Every batch, and every ending, keeps the invariant. *)
LEMMA GraphInvStep == GraphInv /\ [GraphNext]_graphVars => GraphInv'
<1> SUFFICES ASSUME GraphInv, [GraphNext]_graphVars PROVE GraphInv' OBVIOUS
<1>0. /\ ready \subseteq DOMAIN waiting /\ \A n \in ready : waiting[n] = {}
      /\ outcome \in {"", "ordered", "cycle", "invalid"}
  BY DEF GraphInv, GraphTypeOK, BatchFree
<1>1. CASE Reject
  <2>1. UNCHANGED <<deps, waiting, ready, order>> /\ outcome' = "invalid" BY <1>1 DEF Reject
  <2>2. Verdict' BY <2>1 DEF Verdict
  <2> QED BY <1>0, <2>1, <2>2, Unmoved
<1>2. CASE Batch
  <2>1. /\ UNCHANGED <<deps, waiting, order, outcome>> /\ outcome = ""
        /\ ready' = {n \in DOMAIN waiting : waiting[n] = {}}
    BY <1>2 DEF Batch, Free
  <2>2. Verdict' BY <2>1 DEF Verdict
  <2> QED BY <1>0, <2>1, <2>2, Unmoved
<1>3. ASSUME NEW n \in Ids, Emit(n) PROVE GraphInv' BY <1>3, EmitStep
<1>4. CASE EndOrder
  <2>1. /\ UNCHANGED <<deps, waiting, ready, order>> /\ Legal /\ Free = {}
        /\ outcome' = IF DOMAIN waiting = {} THEN "ordered" ELSE "cycle"
    BY <1>4 DEF EndOrder
  <2>2. Legal' /\ Free' = {} BY <2>1 DEF Legal, Free
  <2>3. Verdict' BY <2>1, <2>2 DEF Verdict
  <2> QED BY <1>0, <2>1, <2>3, Unmoved
<1>5. CASE UNCHANGED graphVars
  <2>1. UNCHANGED <<deps, waiting, ready, order, outcome>> BY <1>5 DEF graphVars
  <2>2. (Legal <=> Legal') /\ Free' = Free BY <2>1 DEF Legal, Free
  <2>3. Verdict' BY <2>1, <2>2 DEF GraphInv, Verdict
  <2> QED BY <1>0, <2>1, <2>3, Unmoved
<1> QED BY <1>1, <1>2, <1>3, <1>4, <1>5 DEF GraphNext

(* The strengthened invariant of the ordering loop holds throughout.        *)
THEOREM GraphInvAlways == GraphSpec => []GraphInv
<1> QED BY GraphInvHolds, GraphInvStep, PTL DEF GraphSpec

(* pending and the order always split the plan's nodes between them.        *)
THEOREM GraphTypesCorrect == GraphSpec => []GraphTypeOK
<1>1. GraphInv => GraphTypeOK BY DEF GraphInv
<1> QED BY <1>1, GraphInvAlways, PTL

(* A node is listed after everything it depends on, and once.               *)
THEOREM Ordered == GraphSpec => []OrderRespectsDeps
<1>1. GraphInv => OrderRespectsDeps BY DEF GraphInv
<1> QED BY <1>1, GraphInvAlways, PTL

(* Every accepted plan is closed, acyclic and ordered in full: what GoalRun *)
(* assumes of its plans.                                                    *)
THEOREM Accepted == GraphSpec => []AcceptedIsWellFormed
<1>1. GraphInv => AcceptedIsWellFormed
  <2> SUFFICES ASSUME GraphInv, outcome = "ordered"
               PROVE  Emitted = Ids /\ (\A n \in Ids : deps[n] \subseteq Ids) /\ ~Cyclic
    BY DEF AcceptedIsWellFormed
  <2>1. Legal /\ DOMAIN waiting = {} BY DEF GraphInv, Verdict
  <2>2. Emitted = Ids
    <3>1. Emitted \subseteq Ids BY DEF GraphInv, GraphTypeOK, Emitted
    <3> QED BY <2>1, <3>1 DEF GraphInv, GraphTypeOK
  <2>3. ~Cyclic BY <2>2 DEF GraphInv, KnotsUntouched, Cyclic
  <2> QED BY <2>1, <2>2, <2>3 DEF Legal
<1> QED BY <1>1, GraphInvAlways, PTL

(* "plan contains a dependency cycle" is raised only of a cyclic plan: the  *)
(* nodes still pending are a knot.                                          *)
THEOREM CyclesAreReal == GraphSpec => []CycleIsReal
<1>1. GraphInv => CycleIsReal
  <2> SUFFICES ASSUME GraphInv, outcome = "cycle" PROVE Cyclic BY DEF CycleIsReal
  <2>1. Legal /\ DOMAIN waiting # {} /\ \A n \in DOMAIN waiting : waiting[n] # {}
    BY DEF GraphInv, Verdict, Free
  <2>2. DOMAIN waiting = Ids \ Emitted /\ \A n \in DOMAIN waiting : waiting[n] = deps[n] \ Emitted
    BY DEF GraphInv, GraphTypeOK, Waiting
  <2>3. \A n \in DOMAIN waiting : deps[n] \cap DOMAIN waiting # {}
    BY <2>1, <2>2 DEF Legal
  <2>4. DOMAIN waiting \in SUBSET Ids BY <2>2
  <2> QED BY <2>1, <2>3, <2>4 DEF Cyclic, Knot
<1> QED BY <1>1, GraphInvAlways, PTL

(* topological_order and validate_plan together: every prefix of the order  *)
(* is sound, and so is either verdict.                                      *)
THEOREM OrderSound == GraphSpec => []OrderIsSound
<1> QED BY Ordered, Accepted, CyclesAreReal, PTL DEF OrderIsSound

-----------------------------------------------------------------------------
(***************************************************************************)
(* Proofs about GoalBudget for every set of roles, every number of         *)
(* concurrent calls and every size of budget, request and bill.            *)
(*                                                                         *)
(* SpendBound is not inductive: between a provider's answer and its        *)
(* recording the bill is in nobody's books.  The inductive invariant       *)
(* therefore counts each call at its exposure, the larger of what it       *)
(* reserved and what it was billed, and, for DurablyAccounted, at what its *)
(* reservation covers of the bill.                                         *)
(***************************************************************************)

Tokens(u) == [c \in Calls |-> u.pending[c].tokens]
TokensOf(u, r) ==
  [c \in Calls |-> IF u.pending[c].role = r THEN u.pending[c].tokens ELSE 0]

Larger(a, b) == IF a > b THEN a ELSE b
Smaller(a, b) == IF a < b THEN a ELSE b

Exposed(u, k) == [c \in Calls |-> Larger(k[c].billed, u.pending[c].tokens)]
ExposedOf(u, k, r) ==
  [c \in Calls |-> IF u.pending[c].role = r
                     THEN Larger(k[c].billed, u.pending[c].tokens) ELSE 0]
Covered(u, k, alive) ==
  [c \in Calls |-> IF alive THEN Smaller(k[c].billed, u.pending[c].tokens)
                   ELSE u.pending[c].tokens]

(* A slot is busy exactly while its reservation is on the books, and is     *)
(* billed only once its provider has answered.                              *)
SlotsOK ==
  \A c \in Calls :
    /\ call[c].phase # "answered" => call[c].billed = 0
    /\ usage.pending[c].role = NoRole => usage.pending[c].tokens = 0
    /\ up => (call[c].phase = "idle" <=> usage.pending[c].role = NoRole)
    /\ ~up => call[c].phase = "idle"

ExposureBound ==
  usage.total + SumTo(Exposed(usage, call), NumCalls) <= usage.max + overrun

RoleExposureBound ==
  \A r \in Roles :
    usage.byRole[r] + SumTo(ExposedOf(usage, call, r), NumCalls)
      <= RoleLimit(r, usage.max) + overrun

(* What is in flight exceeds its reservations by no more than overrun.       *)
InFlightExcess ==
  /\ SumTo(Exposed(usage, call), NumCalls) <= PendingTokens(usage) + overrun
  /\ \A r \in Roles : SumTo(ExposedOf(usage, call, r), NumCalls)
                        <= PendingTokensOf(usage, r) + overrun

CoverBound ==
  spent <= usage.total + SumTo(Covered(usage, call, up), NumCalls) + overrun + waived

BudgetInv ==
  /\ BudgetTypeOK
  /\ disk = usage
  /\ SlotsOK
  /\ ReservedMatchesPending
  /\ ExposureBound
  /\ RoleExposureBound
  /\ InFlightExcess
  /\ CoverBound

-----------------------------------------------------------------------------
(* A role's limit is a natural number, and a larger budget never lowers it. *)
LEMMA RoleLimitNat ==
  ASSUME NEW r \in Roles, NEW max \in Nat
  PROVE  RoleLimit(r, max) \in Nat
<1>1. SharePct[r] \in 0 .. 100 BY BudgetAssumptions
<1>2. max * SharePct[r] \in Nat BY <1>1
<1>3. (max * SharePct[r] + 99) \div 100 \in Nat BY <1>2
<1> QED BY <1>3 DEF RoleLimit

(* A larger budget never shrinks a role's share. *)
LEMMA RoleLimitMonotone ==
  ASSUME NEW r \in Roles, NEW m \in Nat, NEW n \in Nat, m <= n
  PROVE  RoleLimit(r, m) <= RoleLimit(r, n)
<1>1. SharePct[r] \in 0 .. 100 BY BudgetAssumptions
<1> DEFINE p == SharePct[r]
           a == m * p
           b == n * p
<1>2. a \in Nat /\ b \in Nat /\ a <= b
  <2>1. p \in Nat BY <1>1
  <2> HIDE DEF p
  <2>2. \A i, j, k \in Nat : i <= j => i * k <= j * k BY SMT
  <2> QED BY <2>1, <2>2
<1>3. RoleLimit(r, m) = (IF (a + 99) \div 100 < 1 THEN 1 ELSE (a + 99) \div 100)
  BY DEF RoleLimit
<1>4. RoleLimit(r, n) = (IF (b + 99) \div 100 < 1 THEN 1 ELSE (b + 99) \div 100)
  BY DEF RoleLimit
<1> HIDE DEF a, b
<1>5. (a + 99) \div 100 <= (b + 99) \div 100
      /\ (a + 99) \div 100 \in Nat /\ (b + 99) \div 100 \in Nat
  BY <1>2, SMT
<1> QED BY <1>3, <1>4, <1>5

(* The tables the ledger sums are tables of naturals, one entry per slot.   *)
LEMMA Tables ==
  ASSUME NEW u \in Usage, NEW k \in [Calls -> CallState], NEW alive \in BOOLEAN
  PROVE  /\ NumCalls \in Nat
         /\ Tokens(u) \in [1 .. NumCalls -> Nat]
         /\ Exposed(u, k) \in [1 .. NumCalls -> Nat]
         /\ Covered(u, k, alive) \in [1 .. NumCalls -> Nat]
         /\ \A r \in Roles : /\ TokensOf(u, r) \in [1 .. NumCalls -> Nat]
                             /\ ExposedOf(u, k, r) \in [1 .. NumCalls -> Nat]
<1>1. NumCalls \in Nat BY BudgetAssumptions
<1>2. \A c \in Calls : u.pending[c].tokens \in Nat /\ k[c].billed \in Nat
  BY DEF Usage, Reservation, CallState
<1> QED
  BY <1>1, <1>2 DEF Calls, Tokens, TokensOf, Exposed, ExposedOf, Covered, Larger, Smaller

(* Updating one entry of a per-role table keeps it a table of naturals,     *)
(* whether or not the entry names a role.                                   *)
LEMMA RoleTableUpdate ==
  ASSUME NEW f \in [Roles -> Nat], NEW q \in Roles \cup {NoRole}, NEW v,
         q \in Roles => v \in Nat
  PROVE  [f EXCEPT ![q] = v] \in [Roles -> Nat]
OBVIOUS

(* Storing or clearing one reservation keeps the table's type. *)
LEMMA PendingUpdate ==
  ASSUME NEW f \in [Calls -> Reservation], NEW c \in Calls, NEW v \in Reservation
  PROVE  [f EXCEPT ![c] = v] \in [Calls -> Reservation]
OBVIOUS

(* The empty slot has the type of a reservation. *)
LEMMA NoReservationOK == NoReservation \in Reservation
BY DEF NoReservation, Reservation

(* _remove_reservation keeps the in-memory counters natural. *)
LEMMA UnreserveType ==
  ASSUME BudgetTypeOK, NEW c \in Calls, Unreserve(c)
  PROVE  reserved' \in Nat /\ reservedBy' \in [Roles -> Nat]
<1> DEFINE p == usage.pending[c]
<1>1. p.role \in Roles \cup {NoRole} /\ p.tokens \in Nat
  BY DEF BudgetTypeOK, Usage, Reservation
<1>2. \A a, b \in Nat : Less(a, b) \in Nat BY DEF Less
<1>3. reserved' \in Nat BY <1>1, <1>2 DEF BudgetTypeOK, Unreserve
<1>4. reservedBy' = [reservedBy EXCEPT ![p.role] = Less(reservedBy[p.role], p.tokens)]
  BY DEF Unreserve
<1>5. reservedBy' \in [Roles -> Nat]
  BY <1>1, <1>2, <1>4, RoleTableUpdate DEF BudgetTypeOK
<1> QED BY <1>3, <1>5

(* Every operation of the ledger keeps its types. *)
LEMMA BudgetTypeStep == BudgetTypeOK /\ [BudgetNext]_budgetVars => BudgetTypeOK'
<1> SUFFICES ASSUME BudgetTypeOK, [BudgetNext]_budgetVars PROVE BudgetTypeOK'
  OBVIOUS
<1> USE DEF BudgetTypeOK
<1>1. CASE Open
  <2>1. PICK max \in Budgets :
          LET raised == [disk EXCEPT !.max = IF max > @ THEN max ELSE @]
              opened == Reopened(ChargeUncertain(raised))
          IN  usage' = opened /\ disk' = opened /\ blocked' = (opened.total >= opened.max)
    BY <1>1 DEF Open
  <2> DEFINE raised == [disk EXCEPT !.max = IF max > @ THEN max ELSE @]
             charged == ChargeUncertain(raised)
             opened == Reopened(charged)
  <2>2. raised \in Usage BY BudgetAssumptions DEF Usage
  <2>3. PendingTokens(raised) \in Nat
        /\ \A r \in Roles : PendingTokensOf(raised, r) \in Nat
    <3> HIDE DEF raised
    <3>1. NumCalls \in 0 .. NumCalls BY BudgetAssumptions
    <3> QED BY <2>2, <3>1, Tables, SumToRecursion
            DEF PendingTokens, PendingTokensOf, Tokens, TokensOf
  <2>4. charged \in Usage
    <3> HIDE DEF raised
    <3> DEFINE byRole == [r \in Roles |-> raised.byRole[r] + PendingTokensOf(raised, r)]
               pending == [c \in Calls |-> NoReservation]
    <3>1. byRole \in [Roles -> Nat] BY <2>2, <2>3 DEF Usage
    <3>2. pending \in [Calls -> Reservation] BY NoReservationOK
    <3>3. charged = [raised EXCEPT !.total = @ + PendingTokens(raised),
                                   !.byRole = byRole, !.pending = pending]
      BY DEF ChargeUncertain
    <3> HIDE DEF byRole, pending, charged
    <3>4. raised.total + PendingTokens(raised) \in Nat BY <2>2, <2>3 DEF Usage
    <3> QED BY <2>2, <3>1, <3>2, <3>3, <3>4 DEF Usage
  <2>5. opened \in Usage
    <3> HIDE DEF charged
    <3> QED BY <2>4 DEF Reopened, Usage, Reasons
  <2>6. usage' = opened /\ disk' = opened /\ blocked' \in BOOLEAN BY <2>1
  <2> HIDE DEF opened
  <2> QED BY <1>1, <2>5, <2>6 DEF Open, history
<1>2. ASSUME NEW c \in Calls, NEW r \in Roles, NEW n \in Amounts, Reserve(c, r, n)
      PROVE  BudgetTypeOK'
  <2> DEFINE v == [role |-> r, tokens |-> n]
  <2>1. n \in Nat /\ v \in Reservation BY BudgetAssumptions DEF Reservation
  <2>2. [usage.pending EXCEPT ![c] = v] \in [Calls -> Reservation]
    BY <2>1, PendingUpdate DEF Usage
  <2>3. usage' = [usage EXCEPT !.pending = [usage.pending EXCEPT ![c] = v]]
    BY <1>2 DEF Reserve
  <2>4. usage' \in Usage
    <3> HIDE DEF v
    <3> QED BY <2>2, <2>3 DEF Usage
  <2>5. reservedBy' \in [Roles -> Nat] BY <1>2, <2>1 DEF Reserve
  <2> QED BY <1>2, <2>1, <2>4, <2>5 DEF Reserve, CallState, history
<1>3. ASSUME NEW c \in Calls, NEW r \in Roles, NEW n \in Amounts, Refuse(c, r, n)
      PROVE  BudgetTypeOK'
  BY <1>3, BudgetAssumptions DEF Refuse, Usage, Reasons, history
<1>4. ASSUME NEW c \in Calls, NEW b \in Bills, Answer(c, b)
      PROVE  BudgetTypeOK'
  BY <1>4, BudgetAssumptions
  DEF Answer, Usage, Reservation, CallState, Excess, memory
<1>5. ASSUME NEW c \in Calls, RecordUsage(c)
      PROVE  BudgetTypeOK'
  <2> DEFINE p == usage.pending[c]
             u == Charged(c)
  <2>1. u \in Usage
    <3> DEFINE byRole == [usage.byRole EXCEPT ![p.role] = @ + call[c].billed]
               pending == [usage.pending EXCEPT ![c] = NoReservation]
    <3>1. p.role \in Roles \cup {NoRole} /\ call[c].billed \in Nat
      BY DEF Usage, Reservation, CallState
    <3>2. byRole \in [Roles -> Nat]
      BY <3>1, RoleTableUpdate DEF Usage
    <3>3. pending \in [Calls -> Reservation]
      BY NoReservationOK, PendingUpdate DEF Usage
    <3>4. u = [usage EXCEPT !.total = usage.total + call[c].billed,
                            !.byRole = byRole, !.pending = pending]
      BY DEF Charged
    <3>5. usage.total + call[c].billed \in Nat BY <3>1 DEF Usage
    <3> HIDE DEF byRole, pending, u
    <3> QED BY <3>2, <3>3, <3>4, <3>5 DEF Usage
  <2>2. usage' \in Usage /\ disk' = usage' /\ blocked' \in BOOLEAN
    <3>1. \/ usage' = u
          \/ \E reason \in Reasons : usage' = [u EXCEPT !.exhausted = TRUE,
                                                        !.reason = reason, !.by = p.role]
      BY <1>5 DEF RecordUsage, Reasons
    <3>2. p.role \in Roles \cup {NoRole} BY DEF Usage, Reservation
    <3>3. disk' = usage' /\ blocked' \in BOOLEAN BY <1>5 DEF RecordUsage
    <3> HIDE DEF u, p
    <3> QED BY <2>1, <3>1, <3>2, <3>3 DEF Usage
  <2>3. reserved' \in Nat /\ reservedBy' \in [Roles -> Nat]
    BY <1>5, UnreserveType DEF RecordUsage
  <2> QED BY <1>5, <2>2, <2>3 DEF RecordUsage, IdleCall, CallState, history
<1>6. ASSUME NEW c \in Calls, Release(c)
      PROVE  BudgetTypeOK'
  <2>1. reserved' \in Nat /\ reservedBy' \in [Roles -> Nat]
    BY <1>6, UnreserveType DEF Release
  <2>2. [usage.pending EXCEPT ![c] = NoReservation] \in [Calls -> Reservation]
    BY NoReservationOK, PendingUpdate DEF Usage
  <2>3. usage' = [usage EXCEPT !.pending = [usage.pending EXCEPT ![c] = NoReservation]]
    BY <1>6 DEF Release
  <2>4. usage' \in Usage BY <2>2, <2>3 DEF Usage
  <2> QED BY <1>6, <2>1, <2>4 DEF Release, IdleCall, CallState
<1>7. CASE Crash
  BY <1>7 DEF Crash, IdleCall, CallState, memory, history
<1>8. CASE UNCHANGED budgetVars
  BY <1>8 DEF budgetVars
<1> QED BY <1>1, <1>2, <1>3, <1>4, <1>5, <1>6, <1>7, <1>8 DEF BudgetNext
-----------------------------------------------------------------------------
TokensIn(u, r, c) == IF u.pending[c].role = r THEN u.pending[c].tokens ELSE 0
Exposure(u, k, c) == Larger(k[c].billed, u.pending[c].tokens)
ExposureIn(u, k, r, c) == IF u.pending[c].role = r THEN Exposure(u, k, c) ELSE 0
Cover(u, k, c) == Smaller(k[c].billed, u.pending[c].tokens)

(* When a step changes one slot, every sum over the slots changes by what   *)
(* that slot's entry changes.                                               *)
LEMMA OneSlot ==
  ASSUME NEW u \in Usage, NEW v \in Usage,
         NEW k \in [Calls -> CallState], NEW l \in [Calls -> CallState],
         NEW c \in Calls,
         \A d \in Calls : d # c => u.pending[d] = v.pending[d] /\ k[d] = l[d]
  PROVE  /\ PendingTokens(v) + u.pending[c].tokens = PendingTokens(u) + v.pending[c].tokens
         /\ \A r \in Roles :
              PendingTokensOf(v, r) + TokensIn(u, r, c) = PendingTokensOf(u, r) + TokensIn(v, r, c)
         /\ SumTo(Exposed(v, l), NumCalls) + Exposure(u, k, c)
              = SumTo(Exposed(u, k), NumCalls) + Exposure(v, l, c)
         /\ \A r \in Roles :
              SumTo(ExposedOf(v, l, r), NumCalls) + ExposureIn(u, k, r, c)
                = SumTo(ExposedOf(u, k, r), NumCalls) + ExposureIn(v, l, r, c)
         /\ SumTo(Covered(v, l, TRUE), NumCalls) + Cover(u, k, c)
              = SumTo(Covered(u, k, TRUE), NumCalls) + Cover(v, l, c)
<1> USE DEF Calls
<1>0. TRUE \in BOOLEAN /\ NumCalls \in Nat BY BudgetAssumptions
<1>1. PendingTokens(v) + u.pending[c].tokens = PendingTokens(u) + v.pending[c].tokens
  <2>1. \A d \in 1 .. NumCalls : d # c => Tokens(u)[d] = Tokens(v)[d] BY DEF Tokens
  <2>2. Tokens(u)[c] = u.pending[c].tokens /\ Tokens(v)[c] = v.pending[c].tokens BY DEF Tokens
  <2>3. Tokens(u) \in [1 .. NumCalls -> Nat] /\ Tokens(v) \in [1 .. NumCalls -> Nat]
    BY <1>0, Tables
  <2>4. SumTo(Tokens(v), NumCalls) + Tokens(u)[c] = SumTo(Tokens(u), NumCalls) + Tokens(v)[c]
    BY <1>0, <2>1, <2>3, SumChange
  <2>5. PendingTokens(u) = SumTo(Tokens(u), NumCalls) /\ PendingTokens(v) = SumTo(Tokens(v), NumCalls)
    BY DEF PendingTokens, Tokens
  <2> QED BY <2>2, <2>4, <2>5
<1>2. ASSUME NEW r \in Roles
      PROVE  PendingTokensOf(v, r) + TokensIn(u, r, c) = PendingTokensOf(u, r) + TokensIn(v, r, c)
  <2>1. \A d \in 1 .. NumCalls : d # c => TokensOf(u, r)[d] = TokensOf(v, r)[d] BY DEF TokensOf
  <2>2. TokensOf(u, r)[c] = TokensIn(u, r, c) /\ TokensOf(v, r)[c] = TokensIn(v, r, c)
    BY DEF TokensOf, TokensIn
  <2>3. TokensOf(u, r) \in [1 .. NumCalls -> Nat] /\ TokensOf(v, r) \in [1 .. NumCalls -> Nat]
    BY <1>0, Tables
  <2>4. SumTo(TokensOf(v, r), NumCalls) + TokensOf(u, r)[c]
          = SumTo(TokensOf(u, r), NumCalls) + TokensOf(v, r)[c]
    BY <1>0, <2>1, <2>3, SumChange
  <2>5. PendingTokensOf(u, r) = SumTo(TokensOf(u, r), NumCalls)
        /\ PendingTokensOf(v, r) = SumTo(TokensOf(v, r), NumCalls)
    BY DEF PendingTokensOf, TokensOf
  <2> QED BY <2>2, <2>4, <2>5
<1>3. SumTo(Exposed(v, l), NumCalls) + Exposure(u, k, c)
        = SumTo(Exposed(u, k), NumCalls) + Exposure(v, l, c)
  <2>1. \A d \in 1 .. NumCalls : d # c => Exposed(u, k)[d] = Exposed(v, l)[d] BY DEF Exposed
  <2>2. Exposed(u, k)[c] = Exposure(u, k, c) /\ Exposed(v, l)[c] = Exposure(v, l, c)
    BY DEF Exposed, Exposure
  <2>3. Exposed(u, k) \in [1 .. NumCalls -> Nat] /\ Exposed(v, l) \in [1 .. NumCalls -> Nat]
    BY <1>0, Tables
  <2>4. SumTo(Exposed(v, l), NumCalls) + Exposed(u, k)[c]
          = SumTo(Exposed(u, k), NumCalls) + Exposed(v, l)[c]
    BY <1>0, <2>1, <2>3, SumChange
  <2> QED BY <2>2, <2>4
<1>4. ASSUME NEW r \in Roles
      PROVE  SumTo(ExposedOf(v, l, r), NumCalls) + ExposureIn(u, k, r, c)
               = SumTo(ExposedOf(u, k, r), NumCalls) + ExposureIn(v, l, r, c)
  <2>1. \A d \in 1 .. NumCalls : d # c => ExposedOf(u, k, r)[d] = ExposedOf(v, l, r)[d]
    BY DEF ExposedOf
  <2>2. ExposedOf(u, k, r)[c] = ExposureIn(u, k, r, c)
        /\ ExposedOf(v, l, r)[c] = ExposureIn(v, l, r, c)
    BY DEF ExposedOf, ExposureIn, Exposure
  <2>3. ExposedOf(u, k, r) \in [1 .. NumCalls -> Nat]
        /\ ExposedOf(v, l, r) \in [1 .. NumCalls -> Nat]
    BY <1>0, Tables
  <2>4. SumTo(ExposedOf(v, l, r), NumCalls) + ExposedOf(u, k, r)[c]
          = SumTo(ExposedOf(u, k, r), NumCalls) + ExposedOf(v, l, r)[c]
    BY <1>0, <2>1, <2>3, SumChange
  <2> QED BY <2>2, <2>4
<1>5. SumTo(Covered(v, l, TRUE), NumCalls) + Cover(u, k, c)
        = SumTo(Covered(u, k, TRUE), NumCalls) + Cover(v, l, c)
  <2>1. \A d \in 1 .. NumCalls : d # c => Covered(u, k, TRUE)[d] = Covered(v, l, TRUE)[d]
    BY DEF Covered
  <2>2. Covered(u, k, TRUE)[c] = Cover(u, k, c) /\ Covered(v, l, TRUE)[c] = Cover(v, l, c)
    BY DEF Covered, Cover
  <2>3. Covered(u, k, TRUE) \in [1 .. NumCalls -> Nat]
        /\ Covered(v, l, TRUE) \in [1 .. NumCalls -> Nat]
    BY <1>0, Tables
  <2>4. SumTo(Covered(v, l, TRUE), NumCalls) + Covered(u, k, TRUE)[c]
          = SumTo(Covered(u, k, TRUE), NumCalls) + Covered(v, l, TRUE)[c]
    BY <1>0, <2>1, <2>3, SumChange
  <2> QED BY <2>2, <2>4
<1> QED BY <1>1, <1>2, <1>3, <1>4, <1>5

(* Every sum of the ledger is a natural number at least as large as any of  *)
(* its entries; a slot's own entries are naturals.                          *)
LEMMA SumsAreNat ==
  ASSUME NEW u \in Usage, NEW k \in [Calls -> CallState], NEW c \in Calls
  PROVE  /\ PendingTokens(u) \in Nat /\ u.pending[c].tokens <= PendingTokens(u)
         /\ \A r \in Roles : PendingTokensOf(u, r) \in Nat
                              /\ TokensIn(u, r, c) <= PendingTokensOf(u, r)
         /\ SumTo(Exposed(u, k), NumCalls) \in Nat
         /\ \A r \in Roles : SumTo(ExposedOf(u, k, r), NumCalls) \in Nat
         /\ \A alive \in BOOLEAN : SumTo(Covered(u, k, alive), NumCalls) \in Nat
         /\ u.pending[c].tokens \in Nat /\ k[c].billed \in Nat
         /\ Exposure(u, k, c) \in Nat /\ Cover(u, k, c) \in Nat
         /\ \A r \in Roles : TokensIn(u, r, c) \in Nat /\ ExposureIn(u, k, r, c) \in Nat
<1> USE DEF Calls
<1>0. TRUE \in BOOLEAN /\ NumCalls \in Nat /\ NumCalls \in 0 .. NumCalls
  BY BudgetAssumptions
<1>1. PendingTokens(u) = SumTo(Tokens(u), NumCalls) BY DEF PendingTokens, Tokens
<1>2. \A r \in Roles : PendingTokensOf(u, r) = SumTo(TokensOf(u, r), NumCalls)
  BY DEF PendingTokensOf, TokensOf
<1>3. u.pending[c].tokens \in Nat /\ k[c].billed \in Nat
  BY DEF Usage, Reservation, CallState
<1>4. Tokens(u)[c] = u.pending[c].tokens
      /\ \A r \in Roles : TokensOf(u, r)[c] = TokensIn(u, r, c)
  BY DEF Tokens, TokensOf, TokensIn
<1>5. SumTo(Tokens(u), NumCalls) \in Nat /\ Tokens(u)[c] <= SumTo(Tokens(u), NumCalls)
  BY <1>0, Tables, SumChange
<1>6. \A r \in Roles : SumTo(TokensOf(u, r), NumCalls) \in Nat
                       /\ TokensOf(u, r)[c] <= SumTo(TokensOf(u, r), NumCalls)
  BY <1>0, Tables, SumChange
<1>7. SumTo(Exposed(u, k), NumCalls) \in Nat
  BY <1>0, Tables, SumToRecursion
<1>8. \A r \in Roles : SumTo(ExposedOf(u, k, r), NumCalls) \in Nat
  BY <1>0, Tables, SumToRecursion
<1>9. \A alive \in BOOLEAN : SumTo(Covered(u, k, alive), NumCalls) \in Nat
  BY <1>0, Tables, SumToRecursion
<1>10. Exposure(u, k, c) \in Nat /\ Cover(u, k, c) \in Nat
       /\ \A r \in Roles : TokensIn(u, r, c) \in Nat /\ ExposureIn(u, k, r, c) \in Nat
  BY <1>3 DEF Exposure, Cover, TokensIn, ExposureIn, Larger, Smaller
<1> QED BY <1>1, <1>2, <1>3, <1>4, <1>5, <1>6, <1>7, <1>8, <1>9, <1>10

-----------------------------------------------------------------------------
(* When no slot holds a reservation, nothing is pending or exposed.         *)
LEMMA NothingPending ==
  ASSUME NEW u \in Usage, NEW k \in [Calls -> CallState], NEW alive \in BOOLEAN,
         \A c \in Calls : u.pending[c].tokens = 0 /\ k[c].billed = 0
  PROVE  /\ PendingTokens(u) = 0
         /\ \A r \in Roles : PendingTokensOf(u, r) = 0
         /\ SumTo(Exposed(u, k), NumCalls) = 0
         /\ \A r \in Roles : SumTo(ExposedOf(u, k, r), NumCalls) = 0
         /\ SumTo(Covered(u, k, alive), NumCalls) = 0
<1> USE DEF Calls
<1>1. \A i \in 1 .. NumCalls :
        /\ Tokens(u)[i] = 0 /\ Exposed(u, k)[i] = 0 /\ Covered(u, k, alive)[i] = 0
        /\ \A r \in Roles : TokensOf(u, r)[i] = 0 /\ ExposedOf(u, k, r)[i] = 0
  BY DEF Tokens, TokensOf, Exposed, ExposedOf, Covered, Larger, Smaller
<1>2. PendingTokens(u) = SumTo(Tokens(u), NumCalls)
      /\ \A r \in Roles : PendingTokensOf(u, r) = SumTo(TokensOf(u, r), NumCalls)
  BY DEF PendingTokens, PendingTokensOf, Tokens, TokensOf
<1>3. NumCalls \in Nat BY BudgetAssumptions
<1>4. SumTo(Tokens(u), NumCalls) = 0 BY <1>1, <1>3, Tables, SumOfZeros
<1>5. SumTo(Exposed(u, k), NumCalls) = 0 BY <1>1, <1>3, Tables, SumOfZeros
<1>6. SumTo(Covered(u, k, alive), NumCalls) = 0 BY <1>1, <1>3, Tables, SumOfZeros
<1>7. \A r \in Roles : SumTo(TokensOf(u, r), NumCalls) = 0
  BY <1>1, <1>3, Tables, SumOfZeros
<1>8. \A r \in Roles : SumTo(ExposedOf(u, k, r), NumCalls) = 0
  BY <1>1, <1>3, Tables, SumOfZeros
<1> QED BY <1>2, <1>4, <1>5, <1>6, <1>7, <1>8

(* Reservations are never more than exposure, and cover no more than they   *)
(* hold; a dead process's bills are covered by whole reservations.          *)
LEMMA SumsOrdered ==
  ASSUME NEW u \in Usage, NEW k \in [Calls -> CallState]
  PROVE  /\ PendingTokens(u) <= SumTo(Exposed(u, k), NumCalls)
         /\ \A r \in Roles : PendingTokensOf(u, r) <= SumTo(ExposedOf(u, k, r), NumCalls)
         /\ SumTo(Covered(u, k, TRUE), NumCalls) <= PendingTokens(u)
         /\ SumTo(Covered(u, k, FALSE), NumCalls) = PendingTokens(u)
<1> USE DEF Calls
<1>0. NumCalls \in Nat BY BudgetAssumptions
<1>1. PendingTokens(u) = SumTo(Tokens(u), NumCalls)
      /\ \A r \in Roles : PendingTokensOf(u, r) = SumTo(TokensOf(u, r), NumCalls)
  BY DEF PendingTokens, PendingTokensOf, Tokens, TokensOf
<1>2. \A i \in 1 .. NumCalls : u.pending[i].tokens \in Nat /\ k[i].billed \in Nat
  BY DEF Usage, Reservation, CallState
<1>3. \A i \in 1 .. NumCalls :
        /\ Tokens(u)[i] <= Exposed(u, k)[i]
        /\ Covered(u, k, TRUE)[i] <= Tokens(u)[i]
        /\ \A r \in Roles : TokensOf(u, r)[i] <= ExposedOf(u, k, r)[i]
  BY <1>2 DEF Tokens, TokensOf, Exposed, ExposedOf, Covered, Larger, Smaller
<1>4. SumTo(Tokens(u), NumCalls) <= SumTo(Exposed(u, k), NumCalls)
  BY <1>0, <1>3, Tables, SumMonotone
<1>5. SumTo(Covered(u, k, TRUE), NumCalls) <= SumTo(Tokens(u), NumCalls)
  BY <1>0, <1>3, Tables, SumMonotone
<1>6. \A r \in Roles : SumTo(TokensOf(u, r), NumCalls) <= SumTo(ExposedOf(u, k, r), NumCalls)
  BY <1>0, <1>3, Tables, SumMonotone
<1>7. Covered(u, k, FALSE) = Tokens(u) BY DEF Covered, Tokens
<1> QED BY <1>1, <1>4, <1>5, <1>6, <1>7

-----------------------------------------------------------------------------
(* The invariant holds when the first Goal is started. *)
LEMMA BudgetInvHolds == BudgetInit => BudgetInv
<1> SUFFICES ASSUME BudgetInit PROVE BudgetInv
  OBVIOUS
<1>1. PICK max \in Budgets : usage = Fresh(max) /\ disk = usage BY DEF BudgetInit
<1>2. max \in Nat BY BudgetAssumptions
<1>3. usage \in Usage
  BY <1>1, <1>2 DEF Fresh, Usage, NoReservation, Reservation, Reasons
<1>4. call \in [Calls -> CallState] BY DEF BudgetInit, IdleCall, CallState
<1>5. BudgetTypeOK BY <1>1, <1>3, <1>4 DEF BudgetInit, BudgetTypeOK
<1>6. \A c \in Calls : usage.pending[c] = NoReservation /\ call[c] = IdleCall
  <2>1. \A c \in Calls : usage.pending[c] = NoReservation BY <1>1 DEF Fresh
  <2>2. \A c \in Calls : call[c] = IdleCall BY DEF BudgetInit
  <2> QED BY <2>1, <2>2
<1>7. SlotsOK BY <1>6 DEF BudgetInit, SlotsOK, NoReservation, IdleCall
<1>8. \A c \in Calls : usage.pending[c].tokens = 0 /\ call[c].billed = 0
  BY <1>6 DEF NoReservation, IdleCall
<1>9. up = FALSE /\ spent = 0 /\ overrun = 0 /\ waived = 0
      /\ usage.max = max /\ usage.total = 0 /\ \A r \in Roles : usage.byRole[r] = 0
  <2>1. up = FALSE /\ spent = 0 /\ overrun = 0 /\ waived = 0 BY DEF BudgetInit
  <2>2. usage.max = max /\ usage.total = 0 /\ \A r \in Roles : usage.byRole[r] = 0
    BY <1>1 DEF Fresh
  <2> QED BY <2>1, <2>2
<1>a. SumTo(Exposed(usage, call), NumCalls) = 0 /\ PendingTokens(usage) = 0
      /\ \A r \in Roles : /\ SumTo(ExposedOf(usage, call, r), NumCalls) = 0
                          /\ PendingTokensOf(usage, r) = 0
  <2>1. TRUE \in BOOLEAN OBVIOUS
  <2> QED BY <1>3, <1>4, <1>8, <2>1, NothingPending
<1>10. ReservedMatchesPending BY <1>9 DEF ReservedMatchesPending
<1>11. ExposureBound BY <1>2, <1>9, <1>a DEF ExposureBound
<1>12. RoleExposureBound
  BY <1>2, <1>9, <1>a, RoleLimitNat DEF RoleExposureBound
<1>13. InFlightExcess BY <1>9, <1>a DEF InFlightExcess
<1>14. CoverBound
  <2>1. SumTo(Covered(usage, call, up), NumCalls) = 0
    BY <1>3, <1>4, <1>8, <1>9, NothingPending
  <2> QED BY <1>9, <2>1 DEF CoverBound
<1> QED BY <1>1, <1>5, <1>7, <1>10, <1>11, <1>12, <1>13, <1>14 DEF BudgetInv

(* A crash only drops memory: what is on disk still covers the calls. *)
LEMMA CrashStep == BudgetInv /\ BudgetTypeOK' /\ Crash => BudgetInv'
<1> SUFFICES ASSUME BudgetInv, BudgetTypeOK', Crash PROVE BudgetInv'
  OBVIOUS
<1>1. usage \in Usage /\ call \in [Calls -> CallState] /\ call' \in [Calls -> CallState]
  BY DEF BudgetInv, BudgetTypeOK
<1>2. usage' = usage /\ disk' = disk /\ up = TRUE /\ up' = FALSE
      /\ spent' = spent /\ overrun' = overrun /\ waived' = waived
      /\ \A c \in Calls : call'[c] = IdleCall
  BY DEF Crash, history, BudgetInv, BudgetTypeOK
<1>3. Exposed(usage, call') = Tokens(usage)
  <2>1. \A c \in Calls : usage.pending[c].tokens \in Nat
    BY <1>1 DEF Usage, Reservation
  <2> QED BY <1>2, <2>1 DEF Exposed, Tokens, Larger, IdleCall
<1>4. \A r \in Roles : ExposedOf(usage, call', r) = TokensOf(usage, r)
  <2>1. \A c \in Calls : usage.pending[c].tokens \in Nat
    BY <1>1 DEF Usage, Reservation
  <2> QED BY <1>2, <2>1 DEF ExposedOf, TokensOf, Larger, IdleCall
<1>5. SumTo(Exposed(usage', call'), NumCalls) = PendingTokens(usage)
  BY <1>2, <1>3 DEF PendingTokens, Tokens
<1>6. \A r \in Roles : SumTo(ExposedOf(usage', call', r), NumCalls) = PendingTokensOf(usage, r)
  BY <1>2, <1>4 DEF PendingTokensOf, TokensOf
<1>7. SlotsOK' BY <1>2 DEF BudgetInv, SlotsOK, IdleCall
<1>8. ReservedMatchesPending' BY <1>2 DEF ReservedMatchesPending
<1> DEFINE E == SumTo(Exposed(usage, call), NumCalls)
           EO(r) == SumTo(ExposedOf(usage, call, r), NumCalls)
<1>9. E \in Nat /\ PendingTokens(usage) \in Nat /\ PendingTokens(usage) <= E
      /\ overrun \in Nat /\ usage.total \in Nat /\ usage.max \in Nat
  <2>1. NumCalls \in Nat /\ NumCalls \in 0 .. NumCalls BY BudgetAssumptions
  <2>2. E \in Nat BY <1>1, <2>1, Tables, SumToRecursion
  <2>3. PendingTokens(usage) \in Nat
    BY <1>1, <2>1, Tables, SumToRecursion DEF PendingTokens, Tokens
  <2> QED BY <1>1, <2>2, <2>3, SumsOrdered DEF BudgetInv, BudgetTypeOK, Usage
<1>10. ASSUME NEW r \in Roles
       PROVE  EO(r) \in Nat /\ PendingTokensOf(usage, r) \in Nat
              /\ PendingTokensOf(usage, r) <= EO(r)
              /\ usage.byRole[r] \in Nat /\ RoleLimit(r, usage.max) \in Nat
  <2>1. NumCalls \in Nat /\ NumCalls \in 0 .. NumCalls BY BudgetAssumptions
  <2>2. EO(r) \in Nat BY <1>1, <2>1, Tables, SumToRecursion
  <2>3. PendingTokensOf(usage, r) \in Nat
    BY <1>1, <2>1, Tables, SumToRecursion DEF PendingTokensOf, TokensOf
  <2> QED BY <1>1, <1>9, <2>2, <2>3, SumsOrdered, RoleLimitNat DEF Usage
<1>11. usage.total + E <= usage.max + overrun BY DEF BudgetInv, ExposureBound
<1>12. \A r \in Roles : usage.byRole[r] + EO(r) <= RoleLimit(r, usage.max) + overrun
  BY DEF BudgetInv, RoleExposureBound
<1> HIDE DEF E, EO
<1>13. ExposureBound' BY <1>2, <1>5, <1>9, <1>11 DEF ExposureBound
<1>14. RoleExposureBound'
  <2> SUFFICES ASSUME NEW r \in Roles
               PROVE  usage.byRole[r] + PendingTokensOf(usage, r)
                        <= RoleLimit(r, usage.max) + overrun
    BY <1>2, <1>6 DEF RoleExposureBound
  <2> QED BY <1>9, <1>10, <1>12
<1>15. InFlightExcess'
  BY <1>2, <1>5, <1>6, <1>9, <1>10 DEF InFlightExcess
<1>16. CoverBound'
  <2>1. SumTo(Covered(usage, call', FALSE), NumCalls) = PendingTokens(usage)
    BY <1>1, SumsOrdered
  <2>2. SumTo(Covered(usage, call, TRUE), NumCalls) <= PendingTokens(usage)
    BY <1>1, SumsOrdered
  <2> DEFINE C == SumTo(Covered(usage, call, TRUE), NumCalls)
  <2>3. C \in Nat
    <3>1. NumCalls \in Nat /\ NumCalls \in 0 .. NumCalls /\ TRUE \in BOOLEAN
      BY BudgetAssumptions
    <3> QED BY <1>1, <3>1, Tables, SumToRecursion
  <2>4. spent <= usage.total + C + overrun + waived BY <1>2 DEF BudgetInv, CoverBound
  <2>5. spent \in Nat /\ waived \in Nat BY DEF BudgetInv, BudgetTypeOK
  <2>6. spent' = spent /\ waived' = waived /\ overrun' = overrun /\ usage' = usage
        /\ SumTo(Covered(usage', call', up'), NumCalls) = PendingTokens(usage)
    BY <1>2, <2>1
  <2> HIDE DEF C
  <2>7. spent <= usage.total + PendingTokens(usage) + overrun + waived
    <3>1. C <= PendingTokens(usage) BY <2>2 DEF C
    <3> QED BY <1>9, <2>3, <2>4, <2>5, <3>1
  <2> QED BY <2>6, <2>7 DEF CoverBound
<1> QED
  BY <1>2, <1>7, <1>8, <1>13, <1>14, <1>15, <1>16 DEF BudgetInv

-----------------------------------------------------------------------------
(* The four sums of a ledger and one slot's share of each, by short names.  *)
PT == PendingTokens(usage)
PO(r) == PendingTokensOf(usage, r)
EX == SumTo(Exposed(usage, call), NumCalls)
EO(r) == SumTo(ExposedOf(usage, call, r), NumCalls)
CV == SumTo(Covered(usage, call, TRUE), NumCalls)
tk(c) == usage.pending[c].tokens
bl(c) == call[c].billed
tkIn(r, c) == TokensIn(usage, r, c)
exIn(r, c) == ExposureIn(usage, call, r, c)

(* The invariant of a live ledger, in those names.                          *)
Numbers ==
  /\ reserved = PT
  /\ usage.total + EX <= usage.max + overrun
  /\ EX <= PT + overrun
  /\ spent <= usage.total + CV + overrun + waived

NumbersOf(r) ==
  /\ reservedBy[r] = PO(r)
  /\ usage.byRole[r] + EO(r) <= RoleLimit(r, usage.max) + overrun
  /\ EO(r) <= PO(r) + overrun

(* While the process runs the invariant is about the numbers above. *)
LEMMA LiveInvariant ==
  /\ up /\ BudgetInv => Numbers /\ \A r \in Roles : NumbersOf(r)
  /\ up' /\ BudgetTypeOK' /\ disk' = usage' /\ SlotsOK' /\ Numbers' /\ (\A r \in Roles : NumbersOf(r)')
       => BudgetInv'
BY DEF BudgetInv, Numbers, NumbersOf, ReservedMatchesPending, ExposureBound, RoleExposureBound,
       InFlightExcess, CoverBound, PT, PO, EX, EO, CV

(* All the sums and entries the steps compare are natural numbers. *)
LEMMA NumbersAreNat ==
  ASSUME BudgetTypeOK, NEW c \in Calls
  PROVE  /\ PT \in Nat /\ EX \in Nat /\ CV \in Nat /\ tk(c) \in Nat /\ bl(c) \in Nat
         /\ tk(c) <= PT
         /\ usage.total \in Nat /\ usage.max \in Nat /\ overrun \in Nat /\ spent \in Nat
         /\ waived \in Nat /\ reserved \in Nat
         /\ \A r \in Roles : /\ PO(r) \in Nat /\ EO(r) \in Nat /\ tkIn(r, c) \in Nat
                             /\ exIn(r, c) \in Nat /\ tkIn(r, c) <= PO(r)
                             /\ usage.byRole[r] \in Nat /\ reservedBy[r] \in Nat
                             /\ RoleLimit(r, usage.max) \in Nat
<1>1. usage \in Usage /\ call \in [Calls -> CallState] BY DEF BudgetTypeOK
<1>2. usage.total \in Nat /\ usage.max \in Nat /\ \A r \in Roles : usage.byRole[r] \in Nat
  BY <1>1 DEF Usage
<1>3. \A r \in Roles : RoleLimit(r, usage.max) \in Nat BY <1>2, RoleLimitNat
<1>4. TRUE \in BOOLEAN OBVIOUS
<1>5. PT \in Nat /\ EX \in Nat /\ CV \in Nat /\ tk(c) \in Nat /\ bl(c) \in Nat /\ tk(c) <= PT
  BY <1>1, <1>4, SumsAreNat DEF PT, EX, CV, tk, bl
<1>6. \A r \in Roles : /\ PO(r) \in Nat /\ EO(r) \in Nat /\ tkIn(r, c) \in Nat
                       /\ exIn(r, c) \in Nat /\ tkIn(r, c) <= PO(r)
  BY <1>1, SumsAreNat DEF PO, EO, tkIn, exIn
<1> QED BY <1>2, <1>3, <1>5, <1>6 DEF BudgetTypeOK

(* A step that touches slot c alone moves every sum by that slot's share.   *)
LEMMA SlotMoves ==
  ASSUME BudgetTypeOK, BudgetTypeOK', NEW c \in Calls,
         \A d \in Calls : d # c => usage.pending[d] = usage'.pending[d] /\ call[d] = call'[d]
  PROVE  /\ PT' + tk(c) = PT + tk(c)'
         /\ EX' + Larger(bl(c), tk(c)) = EX + Larger(bl(c)', tk(c)')
         /\ CV' + Smaller(bl(c), tk(c)) = CV + Smaller(bl(c)', tk(c)')
         /\ \A r \in Roles : /\ PO(r)' + tkIn(r, c) = PO(r) + tkIn(r, c)'
                             /\ EO(r)' + exIn(r, c) = EO(r) + exIn(r, c)'
         /\ PT' \in Nat /\ EX' \in Nat /\ CV' \in Nat
         /\ \A r \in Roles : PO(r)' \in Nat /\ EO(r)' \in Nat
<1>1. usage \in Usage /\ call \in [Calls -> CallState]
      /\ usage' \in Usage /\ call' \in [Calls -> CallState] BY DEF BudgetTypeOK
<1> DEFINE u == usage
           v == usage'
           k == call
           l == call'
<1>2. u \in Usage /\ v \in Usage /\ k \in [Calls -> CallState] /\ l \in [Calls -> CallState]
      /\ \A d \in Calls : d # c => u.pending[d] = v.pending[d] /\ k[d] = l[d]
  BY <1>1
<1> HIDE DEF u, v, k, l
<1>3. /\ PendingTokens(v) + u.pending[c].tokens = PendingTokens(u) + v.pending[c].tokens
      /\ \A r \in Roles :
           PendingTokensOf(v, r) + TokensIn(u, r, c) = PendingTokensOf(u, r) + TokensIn(v, r, c)
      /\ SumTo(Exposed(v, l), NumCalls) + Exposure(u, k, c)
           = SumTo(Exposed(u, k), NumCalls) + Exposure(v, l, c)
      /\ \A r \in Roles :
           SumTo(ExposedOf(v, l, r), NumCalls) + ExposureIn(u, k, r, c)
             = SumTo(ExposedOf(u, k, r), NumCalls) + ExposureIn(v, l, r, c)
      /\ SumTo(Covered(v, l, TRUE), NumCalls) + Cover(u, k, c)
           = SumTo(Covered(u, k, TRUE), NumCalls) + Cover(v, l, c)
  BY <1>2, OneSlot
<1>4. /\ PendingTokens(v) \in Nat /\ SumTo(Exposed(v, l), NumCalls) \in Nat
      /\ SumTo(Covered(v, l, TRUE), NumCalls) \in Nat
      /\ \A r \in Roles : PendingTokensOf(v, r) \in Nat
                          /\ SumTo(ExposedOf(v, l, r), NumCalls) \in Nat
  <2>1. TRUE \in BOOLEAN OBVIOUS
  <2> QED BY <1>2, <2>1, SumsAreNat
<1> QED BY <1>3, <1>4 DEF u, v, k, l, PT, PO, EX, EO, CV, tk, bl, tkIn, exIn, Exposure, Cover

-----------------------------------------------------------------------------
(* reserve() admits only what still fits, and saves it. *)
LEMMA ReserveStep ==
  ASSUME BudgetInv, BudgetTypeOK', NEW c \in Calls, NEW r \in Roles, NEW n \in Amounts, Reserve(c, r, n)
  PROVE  BudgetInv'
<1> DEFINE p == [role |-> r, tokens |-> n]
<1>1. BudgetTypeOK /\ n \in Nat /\ r # NoRole BY BudgetAssumptions DEF BudgetInv
<1>2. usage' = [usage EXCEPT !.pending = [usage.pending EXCEPT ![c] = p]]
      /\ call' = [call EXCEPT ![c] = [phase |-> "asking", billed |-> 0]]
      /\ up /\ up' /\ disk' = usage' /\ call[c].phase = "idle"
      /\ reserved' = reserved + n /\ reservedBy' = [reservedBy EXCEPT ![r] = reservedBy[r] + n]
      /\ spent' = spent /\ overrun' = overrun /\ waived' = waived
  BY DEF Reserve, history
<1>3. usage'.total = usage.total /\ usage'.max = usage.max /\ usage'.byRole = usage.byRole
      /\ usage'.pending = [usage.pending EXCEPT ![c] = p]
  BY <1>1, <1>2 DEF BudgetTypeOK, Usage
<1>4. usage'.pending[c] = p /\ call'[c] = [phase |-> "asking", billed |-> 0]
      /\ \A d \in Calls : d # c => usage.pending[d] = usage'.pending[d] /\ call[d] = call'[d]
  BY <1>1, <1>2, <1>3 DEF BudgetTypeOK, Usage
<1>5. usage.pending[c].role = NoRole /\ tk(c) = 0 /\ bl(c) = 0
      /\ tk(c)' = n /\ bl(c)' = 0
  BY <1>2, <1>4 DEF BudgetInv, SlotsOK, tk, bl
<1>6. \A q \in Roles : tkIn(q, c) = 0 /\ exIn(q, c) = 0
                       /\ tkIn(q, c)' = (IF q = r THEN n ELSE 0)
                       /\ exIn(q, c)' = (IF q = r THEN n ELSE 0)
  BY <1>1, <1>4, <1>5, BudgetAssumptions
  DEF tkIn, exIn, TokensIn, ExposureIn, Exposure, Larger
<1>7. PT' = PT + n /\ EX' = EX + n /\ CV' = CV
      /\ \A q \in Roles : PO(q)' = PO(q) + tkIn(q, c)' /\ EO(q)' = EO(q) + exIn(q, c)'
  BY <1>1, <1>4, <1>5, <1>6, SlotMoves, NumbersAreNat DEF Larger, Smaller
<1>8. Numbers /\ \A q \in Roles : NumbersOf(q) BY <1>2, LiveInvariant
<1>9. usage.total + reserved + n <= usage.max
      /\ usage.byRole[r] + reservedBy[r] + n <= RoleLimit(r, usage.max)
  BY DEF Reserve, Fits
<1>10. Numbers'
  BY <1>1, <1>2, <1>3, <1>7, <1>8, <1>9, NumbersAreNat DEF Numbers
<1>11. ASSUME NEW q \in Roles PROVE NumbersOf(q)'
  <2>1. reservedBy'[q] = (IF q = r THEN reservedBy[q] + n ELSE reservedBy[q])
    BY <1>1, <1>2 DEF BudgetTypeOK
  <2> QED BY <1>1, <1>2, <1>3, <1>6, <1>7, <1>8, <1>9, <2>1, NumbersAreNat DEF NumbersOf
<1>12. SlotsOK' BY <1>1, <1>2, <1>4 DEF BudgetInv, SlotsOK
<1> QED BY <1>2, <1>10, <1>11, <1>12, LiveInvariant

(* A refusal moves no tokens. *)
LEMMA RefuseStep ==
  ASSUME BudgetInv, BudgetTypeOK', NEW c \in Calls, NEW r \in Roles, NEW n \in Amounts, Refuse(c, r, n)
  PROVE  BudgetInv'
<1>1. usage'.total = usage.total /\ usage'.max = usage.max /\ usage'.byRole = usage.byRole
      /\ usage'.pending = usage.pending
  BY DEF Refuse, BudgetInv, BudgetTypeOK, Usage
<1>2. up' = up /\ call' = call /\ reserved' = reserved /\ reservedBy' = reservedBy
      /\ disk' = usage' /\ spent' = spent /\ overrun' = overrun /\ waived' = waived
  BY DEF Refuse, history
<1>3. /\ Exposed(usage', call') = Exposed(usage, call)
      /\ Covered(usage', call', up') = Covered(usage, call, up)
      /\ PendingTokens(usage') = PendingTokens(usage)
      /\ \A q \in Roles : /\ ExposedOf(usage', call', q) = ExposedOf(usage, call, q)
                          /\ PendingTokensOf(usage', q) = PendingTokensOf(usage, q)
  BY <1>1, <1>2 DEF Exposed, ExposedOf, Covered, PendingTokens, PendingTokensOf
<1> QED
  BY <1>1, <1>2, <1>3
  DEF BudgetInv, SlotsOK, ReservedMatchesPending, ExposureBound, RoleExposureBound,
      InFlightExcess, CoverBound

(* A provider's answer is covered by its reservation, but for the overrun. *)
LEMMA AnswerStep ==
  ASSUME BudgetInv, BudgetTypeOK', NEW c \in Calls, NEW b \in Bills, Answer(c, b)
  PROVE  BudgetInv'
<1>1. BudgetTypeOK /\ b \in Nat BY BudgetAssumptions DEF BudgetInv
<1>2. usage' = usage /\ disk' = disk /\ up /\ up' /\ waived' = waived
      /\ reserved' = reserved /\ reservedBy' = reservedBy
      /\ spent' = spent + b /\ overrun' = overrun + Excess(b, tk(c))
      /\ call[c].phase = "asking"
      /\ call' = [call EXCEPT ![c] = [phase |-> "answered", billed |-> b]]
  BY DEF Answer, memory, tk
<1>3. call'[c] = [phase |-> "answered", billed |-> b]
      /\ \A d \in Calls : d # c => usage.pending[d] = usage'.pending[d] /\ call[d] = call'[d]
  BY <1>1, <1>2 DEF BudgetTypeOK
<1>4. bl(c) = 0 /\ bl(c)' = b /\ tk(c)' = tk(c)
  BY <1>2, <1>3 DEF BudgetInv, SlotsOK, bl, tk
<1> DEFINE x == Excess(b, tk(c))
<1>5. x \in Nat /\ Larger(b, tk(c)) = tk(c) + x /\ b = Smaller(b, tk(c)) + x
      /\ Larger(0, tk(c)) = tk(c) /\ Smaller(0, tk(c)) = 0 /\ Smaller(b, tk(c)) \in Nat
  BY <1>1, NumbersAreNat DEF Excess, Larger, Smaller
<1>6. \A q \in Roles : tkIn(q, c)' = tkIn(q, c)
                       /\ (exIn(q, c)' = exIn(q, c) + x \/ exIn(q, c)' = exIn(q, c))
  <2>1. Exposure(usage, call, c) = Larger(bl(c), tk(c))
        /\ Exposure(usage', call', c) = Larger(bl(c)', tk(c)')
    BY DEF Exposure, bl, tk
  <2>2. Exposure(usage', call', c) = Exposure(usage, call, c) + x
    BY <1>4, <1>5, <2>1
  <2> QED BY <1>2, <2>2 DEF tkIn, exIn, TokensIn, ExposureIn
<1>7. PT' = PT /\ EX' = EX + x /\ CV' = CV + Smaller(b, tk(c))
      /\ \A q \in Roles : PO(q)' = PO(q) /\ (EO(q)' = EO(q) + x \/ EO(q)' = EO(q))
  <2> HIDE DEF x
  <2>1. PT' + tk(c) = PT + tk(c) BY <1>1, <1>3, <1>4, SlotMoves
  <2>2. EX' + tk(c) = EX + (tk(c) + x) BY <1>1, <1>3, <1>4, <1>5, SlotMoves
  <2>3. CV' + 0 = CV + Smaller(b, tk(c)) BY <1>1, <1>3, <1>4, <1>5, SlotMoves
  <2>4. \A q \in Roles : /\ PO(q)' + tkIn(q, c) = PO(q) + tkIn(q, c)
                         /\ EO(q)' + exIn(q, c) = EO(q) + exIn(q, c)'
    BY <1>1, <1>3, <1>6, SlotMoves
  <2>5. PT' \in Nat /\ EX' \in Nat /\ CV' \in Nat
        /\ \A q \in Roles : PO(q)' \in Nat /\ EO(q)' \in Nat
    BY <1>1, <1>3, SlotMoves
  <2> QED BY <1>1, <1>5, <1>6, <2>1, <2>2, <2>3, <2>4, <2>5, NumbersAreNat
<1>8. Numbers /\ \A q \in Roles : NumbersOf(q) BY <1>2, LiveInvariant
<1> HIDE DEF x
<1>9. overrun' = overrun + x BY <1>2 DEF x
<1>10. Numbers'
  <2> DEFINE s == Smaller(b, tk(c))
  <2>1. s \in Nat /\ b = s + x /\ CV' = CV + s BY <1>5, <1>7
  <2> HIDE DEF s
  <2> QED BY <1>1, <1>2, <1>5, <1>7, <1>8, <1>9, <2>1, NumbersAreNat DEF Numbers
<1>11. ASSUME NEW q \in Roles PROVE NumbersOf(q)'
  BY <1>1, <1>2, <1>5, <1>7, <1>8, <1>9, NumbersAreNat DEF NumbersOf
<1>12. SlotsOK' BY <1>1, <1>2, <1>3 DEF BudgetInv, SlotsOK
<1>13. disk' = usage' BY <1>2 DEF BudgetInv
<1> QED BY <1>2, <1>10, <1>11, <1>12, <1>13, LiveInvariant

(* Settling a busy slot (record or release): its reservation leaves every   *)
(* book it is in.                                                           *)
LEMMA SettledSlot ==
  ASSUME BudgetInv, BudgetTypeOK', NEW c \in Calls, up, call[c].phase # "idle",
         usage'.pending = [usage.pending EXCEPT ![c] = NoReservation],
         call' = [call EXCEPT ![c] = IdleCall], Unreserve(c)
  PROVE  /\ usage.pending[c].role \in Roles
         /\ PT' + tk(c) = PT
         /\ EX' + Larger(bl(c), tk(c)) = EX
         /\ CV' + Smaller(bl(c), tk(c)) = CV
         /\ PT' \in Nat /\ EX' \in Nat /\ CV' \in Nat
         /\ \A q \in Roles :
              /\ PO(q)' + tkIn(q, c) = PO(q) /\ EO(q)' + exIn(q, c) = EO(q)
              /\ PO(q)' \in Nat /\ EO(q)' \in Nat
              /\ reservedBy'[q] = reservedBy[q] - tkIn(q, c)
              /\ tkIn(q, c) <= exIn(q, c)
         /\ reserved' = reserved - tk(c)
<1>1. BudgetTypeOK /\ usage.pending[c].role \in Roles
      /\ Numbers /\ \A q \in Roles : NumbersOf(q)
  BY LiveInvariant DEF BudgetInv, SlotsOK, BudgetTypeOK, Usage, Reservation
<1>2. usage'.pending[c] = NoReservation /\ call'[c] = IdleCall
      /\ \A d \in Calls : d # c => usage.pending[d] = usage'.pending[d] /\ call[d] = call'[d]
  BY <1>1 DEF BudgetTypeOK, Usage
<1>3. tk(c)' = 0 /\ bl(c)' = 0 /\ Larger(0, 0) = 0 /\ Smaller(0, 0) = 0
  BY <1>2 DEF tk, bl, NoReservation, IdleCall, Larger, Smaller
<1>4. \A q \in Roles : tkIn(q, c)' = 0 /\ exIn(q, c)' = 0 /\ tkIn(q, c) <= exIn(q, c)
  <2>1. \A q \in Roles : tkIn(q, c)' = 0 /\ exIn(q, c)' = 0
    BY <1>2, BudgetAssumptions DEF tkIn, exIn, TokensIn, ExposureIn, NoReservation
  <2>2. tk(c) \in Nat /\ bl(c) \in Nat BY <1>1, NumbersAreNat
  <2>3. \A q \in Roles : tkIn(q, c) <= exIn(q, c)
    BY <2>2 DEF tkIn, exIn, TokensIn, ExposureIn, Exposure, Larger, tk, bl
  <2> QED BY <2>1, <2>3
<1>5. reserved' = reserved - tk(c)
  BY <1>1, NumbersAreNat DEF Unreserve, Less, Numbers, tk
<1>6. ASSUME NEW q \in Roles PROVE reservedBy'[q] = reservedBy[q] - tkIn(q, c)
  <2>1. reservedBy' = [reservedBy EXCEPT ![usage.pending[c].role]
                         = Less(reservedBy[usage.pending[c].role], tk(c))]
    BY DEF Unreserve, tk
  <2>2. reservedBy'[q] = IF q = usage.pending[c].role THEN Less(reservedBy[q], tk(c))
                         ELSE reservedBy[q]
    BY <1>1, <2>1 DEF BudgetTypeOK
  <2>3. tkIn(q, c) = IF usage.pending[c].role = q THEN tk(c) ELSE 0
    BY DEF tkIn, TokensIn, tk
  <2>4. reservedBy[q] = PO(q) BY <1>1 DEF NumbersOf
  <2>5. tkIn(q, c) <= PO(q) /\ PO(q) \in Nat /\ tk(c) \in Nat BY <1>1, NumbersAreNat
  <2> QED BY <2>2, <2>3, <2>4, <2>5 DEF Less
<1>7. PT' + tk(c) = PT + 0 /\ PT' \in Nat BY <1>1, <1>2, <1>3, SlotMoves
<1>8. EX' + Larger(bl(c), tk(c)) = EX + 0 /\ EX' \in Nat BY <1>1, <1>2, <1>3, SlotMoves
<1>9. CV' + Smaller(bl(c), tk(c)) = CV + 0 /\ CV' \in Nat BY <1>1, <1>2, <1>3, SlotMoves
<1>10. \A q \in Roles : /\ PO(q)' + tkIn(q, c) = PO(q) + 0 /\ EO(q)' + exIn(q, c) = EO(q) + 0
                        /\ PO(q)' \in Nat /\ EO(q)' \in Nat
  BY <1>1, <1>2, <1>4, SlotMoves
<1> QED BY <1>1, <1>4, <1>5, <1>6, <1>7, <1>8, <1>9, <1>10, NumbersAreNat

(* A settled call leaves an empty slot and an idle caller. *)
LEMMA SettledSlotsOK ==
  ASSUME BudgetInv, NEW c \in Calls, up, up',
         usage'.pending = [usage.pending EXCEPT ![c] = NoReservation],
         call' = [call EXCEPT ![c] = IdleCall]
  PROVE  SlotsOK'
BY DEF BudgetInv, BudgetTypeOK, Usage, SlotsOK, NoReservation, IdleCall

(* record() replaces a reservation by what was billed. *)
LEMMA RecordStep ==
  ASSUME BudgetInv, BudgetTypeOK', NEW c \in Calls, RecordUsage(c)
  PROVE  BudgetInv'
<1> DEFINE r == usage.pending[c].role
           u == Charged(c)
<1>1. BudgetTypeOK /\ up /\ up' /\ call[c].phase # "idle" /\ Unreserve(c)
      /\ call' = [call EXCEPT ![c] = IdleCall] /\ disk' = usage'
      /\ spent' = spent /\ overrun' = overrun /\ waived' = waived
  BY DEF RecordUsage, BudgetInv, history
<1>2. u.total = usage.total + bl(c) /\ u.max = usage.max
      /\ u.byRole = [usage.byRole EXCEPT ![r] = usage.byRole[r] + bl(c)]
      /\ u.pending = [usage.pending EXCEPT ![c] = NoReservation]
  BY <1>1 DEF Charged, BudgetTypeOK, Usage, bl
<1>3. usage'.total = u.total /\ usage'.max = u.max /\ usage'.byRole = u.byRole
      /\ usage'.pending = u.pending
  <2>1. \/ usage' = u
        \/ \E reason \in Reasons : usage' = [u EXCEPT !.exhausted = TRUE,
                                                      !.reason = reason, !.by = r]
    BY DEF RecordUsage, Reasons
  <2>2. u = [usage EXCEPT !.total = u.total, !.byRole = u.byRole, !.pending = u.pending]
    BY <1>1 DEF Charged, BudgetTypeOK, Usage
  <2>3. u \in [max : {u.max}, total : {u.total}, byRole : {u.byRole},
               pending : {u.pending}, exhausted : BOOLEAN, reason : Reasons,
               by : Roles \cup {NoRole}]
    <3> HIDE DEF r
    <3>1. usage \in Usage BY <1>1 DEF BudgetTypeOK
    <3> HIDE DEF u
    <3> QED BY <2>2, <3>1 DEF Usage
  <2> HIDE DEF u, r
  <2> QED BY <2>1, <2>3
<1>4. usage'.pending = [usage.pending EXCEPT ![c] = NoReservation] BY <1>2, <1>3
<1>5. Numbers /\ \A q \in Roles : NumbersOf(q) BY <1>1, LiveInvariant
<1>6. tk(c) \in Nat /\ bl(c) \in Nat BY <1>1, NumbersAreNat
<1>7. Numbers'
  <2>1. usage'.total = usage.total + bl(c) /\ usage'.max = usage.max BY <1>2, <1>3
  <2> HIDE DEF u, r
  <2>2. /\ PT' + tk(c) = PT /\ EX' + Larger(bl(c), tk(c)) = EX
        /\ CV' + Smaller(bl(c), tk(c)) = CV
        /\ PT' \in Nat /\ EX' \in Nat /\ CV' \in Nat
        /\ reserved' = reserved - tk(c)
    BY <1>1, <1>4, SettledSlot
  <2> QED BY <1>1, <1>5, <1>6, <2>1, <2>2, NumbersAreNat DEF Numbers, Larger, Smaller
<1>8. ASSUME NEW q \in Roles PROVE NumbersOf(q)'
  <2>1. usage.byRole \in [Roles -> Nat] BY <1>1 DEF BudgetTypeOK, Usage
  <2>2. usage'.byRole[q] = (IF q = r THEN usage.byRole[q] + bl(c) ELSE usage.byRole[q])
        /\ usage'.max = usage.max
    BY <1>2, <1>3, <2>1
  <2>3. exIn(q, c) = (IF q = r THEN Larger(bl(c), tk(c)) ELSE 0)
        /\ tkIn(q, c) = (IF q = r THEN tk(c) ELSE 0)
    BY DEF exIn, tkIn, ExposureIn, TokensIn, Exposure, bl, tk
  <2> HIDE DEF u, r
  <2>4. /\ PO(q)' + tkIn(q, c) = PO(q) /\ EO(q)' + exIn(q, c) = EO(q)
        /\ PO(q)' \in Nat /\ EO(q)' \in Nat
        /\ reservedBy'[q] = reservedBy[q] - tkIn(q, c)
    BY <1>1, <1>4, SettledSlot
  <2> QED BY <1>1, <1>5, <1>6, <2>2, <2>3, <2>4, NumbersAreNat DEF NumbersOf, Larger
<1>9. SlotsOK' BY <1>1, <1>4, SettledSlotsOK
<1> QED BY <1>1, <1>7, <1>8, <1>9, LiveInvariant

(* release() gives a reservation back. *)
LEMMA ReleaseStep ==
  ASSUME BudgetInv, BudgetTypeOK', NEW c \in Calls, Release(c)
  PROVE  BudgetInv'
<1>1. BudgetTypeOK /\ up /\ up' /\ call[c].phase # "idle" /\ Unreserve(c)
      /\ call' = [call EXCEPT ![c] = IdleCall] /\ disk' = usage'
      /\ spent' = spent /\ overrun' = overrun /\ waived' = waived + bl(c)
  BY DEF Release, BudgetInv, bl
<1>2. usage'.total = usage.total /\ usage'.max = usage.max /\ usage'.byRole = usage.byRole
      /\ usage'.pending = [usage.pending EXCEPT ![c] = NoReservation]
  BY <1>1 DEF Release, BudgetTypeOK, Usage
<1>3. Numbers /\ \A q \in Roles : NumbersOf(q) BY <1>1, LiveInvariant
<1>4. tk(c) \in Nat /\ bl(c) \in Nat BY <1>1, NumbersAreNat
<1>5. Numbers'
  <2>1. /\ PT' + tk(c) = PT /\ EX' + Larger(bl(c), tk(c)) = EX
        /\ CV' + Smaller(bl(c), tk(c)) = CV
        /\ PT' \in Nat /\ EX' \in Nat /\ CV' \in Nat
        /\ reserved' = reserved - tk(c)
    BY <1>1, <1>2, SettledSlot
  <2> QED BY <1>1, <1>2, <1>3, <1>4, <2>1, NumbersAreNat DEF Numbers, Larger, Smaller
<1>6. ASSUME NEW q \in Roles PROVE NumbersOf(q)'
  <2>1. /\ PO(q)' + tkIn(q, c) = PO(q) /\ EO(q)' + exIn(q, c) = EO(q)
        /\ PO(q)' \in Nat /\ EO(q)' \in Nat /\ tkIn(q, c) <= exIn(q, c)
        /\ reservedBy'[q] = reservedBy[q] - tkIn(q, c)
    BY <1>1, <1>2, SettledSlot
  <2> QED BY <1>1, <1>2, <1>3, <2>1, NumbersAreNat DEF NumbersOf
<1>7. SlotsOK' BY <1>1, <1>2, SettledSlotsOK
<1> QED BY <1>1, <1>5, <1>6, <1>7, LiveInvariant

(* Reopening charges every reservation that is still on disk. *)
LEMMA OpenStep ==
  ASSUME BudgetInv, BudgetTypeOK', Open
  PROVE  BudgetInv'
<1>1. PICK max \in Budgets :
        LET raised == [disk EXCEPT !.max = IF max > @ THEN max ELSE @]
            opened == Reopened(ChargeUncertain(raised))
        IN  usage' = opened /\ disk' = opened
  BY DEF Open
<1> DEFINE m == IF max > usage.max THEN max ELSE usage.max
           raised == [usage EXCEPT !.max = m]
           charged == ChargeUncertain(raised)
<1>2. BudgetTypeOK /\ usage \in Usage /\ disk = usage /\ call \in [Calls -> CallState]
      /\ usage' \in Usage /\ call' \in [Calls -> CallState]
  BY DEF BudgetInv, BudgetTypeOK
<1>3. ~up /\ up' /\ call' = call /\ reserved' = 0 /\ reservedBy' = [q \in Roles |-> 0]
      /\ spent' = spent /\ overrun' = overrun /\ waived' = waived
  BY DEF Open, history
<1>4. max \in Nat /\ usage.max \in Nat /\ m \in Nat /\ usage.max <= m
  BY <1>2, BudgetAssumptions DEF Usage
<1>5. usage' = Reopened(charged) /\ disk' = usage' BY <1>1, <1>2
<1>6. raised.max = m /\ raised.total = usage.total /\ raised.byRole = usage.byRole
      /\ raised.pending = usage.pending
  <2> HIDE DEF m
  <2> QED BY <1>2 DEF Usage
<1>7. PendingTokens(raised) = PT /\ \A q \in Roles : PendingTokensOf(raised, q) = PO(q)
  <2> HIDE DEF raised
  <2> QED BY <1>6 DEF PT, PO, PendingTokens, PendingTokensOf
<1>8. charged.max = m /\ charged.total = usage.total + PT
      /\ charged.byRole = [q \in Roles |-> usage.byRole[q] + PO(q)]
      /\ charged.pending = [c \in Calls |-> NoReservation]
  <2>1. raised \in [max : {m}, total : Nat, byRole : [Roles -> Nat],
                    pending : [Calls -> Reservation], exhausted : BOOLEAN,
                    reason : Reasons, by : Roles \cup {NoRole}]
    <3> HIDE DEF m
    <3> QED BY <1>2 DEF Usage
  <2> HIDE DEF raised
  <2> QED BY <1>6, <1>7, <2>1 DEF ChargeUncertain
<1>9. usage'.max = m /\ usage'.total = usage.total + PT
      /\ usage'.byRole = [q \in Roles |-> usage.byRole[q] + PO(q)]
      /\ usage'.pending = [c \in Calls |-> NoReservation]
  <2>1. DOMAIN charged = {"max", "total", "byRole", "pending", "exhausted", "reason", "by"}
    <3>1. DOMAIN usage = {"max", "total", "byRole", "pending", "exhausted", "reason", "by"}
      BY <1>2 DEF Usage
    <3> HIDE DEF m
    <3> QED BY <3>1 DEF ChargeUncertain
  <2> HIDE DEF charged, m
  <2> QED BY <1>5, <1>8, <2>1 DEF Reopened
<1>10. \A c \in Calls : usage'.pending[c].tokens = 0 /\ call'[c].billed = 0
  BY <1>3, <1>9 DEF BudgetInv, SlotsOK, NoReservation
<1>11. PT' = 0 /\ EX' = 0 /\ CV' = 0 /\ \A q \in Roles : PO(q)' = 0 /\ EO(q)' = 0
  <2> DEFINE v == usage'
             l == call'
  <2>1. TRUE \in BOOLEAN /\ v \in Usage /\ l \in [Calls -> CallState]
        /\ \A c \in Calls : v.pending[c].tokens = 0 /\ l[c].billed = 0
    BY <1>2, <1>10
  <2> HIDE DEF v, l
  <2>2. /\ PendingTokens(v) = 0
        /\ \A r \in Roles : PendingTokensOf(v, r) = 0
        /\ SumTo(Exposed(v, l), NumCalls) = 0
        /\ \A r \in Roles : SumTo(ExposedOf(v, l, r), NumCalls) = 0
        /\ SumTo(Covered(v, l, TRUE), NumCalls) = 0
    BY <2>1, NothingPending
  <2> QED BY <2>2 DEF v, l, PT, PO, EX, EO, CV
<1>12. PT \in Nat /\ EX \in Nat /\ PT <= EX
       /\ usage.total \in Nat /\ overrun \in Nat /\ spent \in Nat /\ waived \in Nat
       /\ usage.total + EX <= usage.max + overrun
       /\ spent <= usage.total + PT + overrun + waived
  <2>1. NumCalls \in Nat /\ NumCalls \in 0 .. NumCalls BY BudgetAssumptions
  <2>2. PT \in Nat /\ EX \in Nat
    BY <1>2, <2>1, Tables, SumToRecursion DEF PT, PendingTokens, Tokens, EX
  <2>3. PT <= EX /\ SumTo(Covered(usage, call, FALSE), NumCalls) = PT
    BY <1>2, SumsOrdered DEF PT, EX
  <2>4. up = FALSE BY <1>2, <1>3 DEF BudgetTypeOK
  <2>5. usage.total + EX <= usage.max + overrun BY DEF BudgetInv, ExposureBound, EX
  <2>6. spent <= usage.total + PT + overrun + waived BY <2>3, <2>4 DEF BudgetInv, CoverBound
  <2> QED BY <1>2, <2>2, <2>3, <2>5, <2>6 DEF BudgetTypeOK, Usage
<1>13. ASSUME NEW q \in Roles
       PROVE  PO(q) \in Nat /\ EO(q) \in Nat /\ PO(q) <= EO(q)
              /\ usage.byRole[q] \in Nat /\ RoleLimit(q, usage.max) \in Nat
              /\ RoleLimit(q, m) \in Nat /\ RoleLimit(q, usage.max) <= RoleLimit(q, m)
              /\ usage.byRole[q] + EO(q) <= RoleLimit(q, usage.max) + overrun
  <2>1. NumCalls \in Nat /\ NumCalls \in 0 .. NumCalls BY BudgetAssumptions
  <2>2. PO(q) \in Nat /\ EO(q) \in Nat
    BY <1>2, <2>1, Tables, SumToRecursion DEF PO, PendingTokensOf, TokensOf, EO
  <2>3. PO(q) <= EO(q) BY <1>2, SumsOrdered DEF PO, EO
  <2>4. usage.byRole[q] + EO(q) <= RoleLimit(q, usage.max) + overrun
    BY DEF BudgetInv, RoleExposureBound, EO
  <2>5. RoleLimit(q, usage.max) \in Nat /\ RoleLimit(q, m) \in Nat
        /\ RoleLimit(q, usage.max) <= RoleLimit(q, m)
    <3> HIDE DEF m
    <3> QED BY <1>4, RoleLimitNat, RoleLimitMonotone
  <2> QED BY <1>2, <2>2, <2>3, <2>4, <2>5 DEF Usage
<1> HIDE DEF m
<1>14. Numbers' BY <1>3, <1>4, <1>9, <1>11, <1>12 DEF Numbers
<1>15. ASSUME NEW q \in Roles PROVE NumbersOf(q)'
  <2>1. usage'.byRole[q] = usage.byRole[q] + PO(q) /\ reservedBy'[q] = 0 BY <1>3, <1>9
  <2> QED BY <1>3, <1>4, <1>9, <1>11, <1>12, <1>13, <2>1 DEF NumbersOf
<1>16. SlotsOK' BY <1>3, <1>9 DEF BudgetInv, SlotsOK, NoReservation
<1> QED BY <1>3, <1>5, <1>14, <1>15, <1>16, LiveInvariant

(* Every step keeps the invariant. *)
LEMMA BudgetInvStep == BudgetInv /\ [BudgetNext]_budgetVars => BudgetInv'
<1> SUFFICES ASSUME BudgetInv, [BudgetNext]_budgetVars PROVE BudgetInv'
  OBVIOUS
<1>1. BudgetTypeOK' BY BudgetTypeStep DEF BudgetInv
<1>2. CASE Open BY <1>1, <1>2, OpenStep
<1>3. ASSUME NEW c \in Calls, NEW r \in Roles, NEW n \in Amounts, Reserve(c, r, n)
      PROVE  BudgetInv'
  BY <1>1, <1>3, ReserveStep
<1>4. ASSUME NEW c \in Calls, NEW r \in Roles, NEW n \in Amounts, Refuse(c, r, n)
      PROVE  BudgetInv'
  BY <1>1, <1>4, RefuseStep
<1>5. ASSUME NEW c \in Calls, NEW b \in Bills, Answer(c, b) PROVE BudgetInv'
  BY <1>1, <1>5, AnswerStep
<1>6. ASSUME NEW c \in Calls, RecordUsage(c) PROVE BudgetInv'
  BY <1>1, <1>6, RecordStep
<1>7. ASSUME NEW c \in Calls, Release(c) PROVE BudgetInv'
  BY <1>1, <1>7, ReleaseStep
<1>8. CASE Crash BY <1>1, <1>8, CrashStep
<1>9. CASE UNCHANGED budgetVars
  BY <1>9 DEF budgetVars, memory, history, BudgetInv, BudgetTypeOK, SlotsOK, ReservedMatchesPending,
              ExposureBound, RoleExposureBound, InFlightExcess, CoverBound,
              Exposed, ExposedOf, Covered, PendingTokens, PendingTokensOf
<1> QED BY <1>2, <1>3, <1>4, <1>5, <1>6, <1>7, <1>8, <1>9 DEF BudgetNext

-----------------------------------------------------------------------------
(* The ledger's invariant holds at every instant, crashes included. *)
THEOREM BudgetInvAlways == BudgetSpec => []BudgetInv
<1> QED BY BudgetInvHolds, BudgetInvStep, PTL DEF BudgetSpec

(* The ledger's variables always have the types goal.json is read back      *)
(* with, whatever the order of calls, crashes and reopenings.               *)
THEOREM BudgetTypesCorrect == BudgetSpec => []BudgetTypeOK
<1>1. BudgetInv => BudgetTypeOK BY DEF BudgetInv
<1> QED BY <1>1, BudgetInvAlways, PTL

(* The counters of goal_budget.py:42-55 equal the persisted reservations    *)
(* for any number of concurrent calls.                                      *)
THEOREM ReservedInStep == BudgetSpec => []ReservedMatchesPending
<1>1. BudgetInv => ReservedMatchesPending BY DEF BudgetInv
<1> QED BY <1>1, BudgetInvAlways, PTL

(* Admission control is enough: max_total_tokens is overshot by no more     *)
(* than providers billed beyond their reservations.                         *)
THEOREM SpendBounded == BudgetSpec => []SpendBound
<1>1. BudgetInv => SpendBound
  <2> SUFFICES ASSUME BudgetInv PROVE SpendBound
    OBVIOUS
  <2>1. NumCalls \in Nat /\ NumCalls \in 0 .. NumCalls BY BudgetAssumptions
  <2>2. usage \in Usage /\ call \in [Calls -> CallState] BY DEF BudgetInv, BudgetTypeOK
  <2>3. PT \in Nat /\ EX \in Nat
    BY <2>1, <2>2, Tables, SumToRecursion DEF PT, PendingTokens, Tokens, EX
  <2>4. PT <= EX BY <2>2, SumsOrdered DEF PT, EX
  <2>5. usage.total + EX <= usage.max + overrun BY DEF BudgetInv, ExposureBound, EX
  <2>6. up => reserved = PT BY DEF BudgetInv, ReservedMatchesPending, PT
  <2>7. usage.total \in Nat /\ usage.max \in Nat /\ overrun \in Nat
    BY <2>2 DEF BudgetInv, BudgetTypeOK, Usage
  <2> QED BY <2>3, <2>4, <2>5, <2>6, <2>7 DEF SpendBound
<1> QED BY <1>1, BudgetInvAlways, PTL

(* The same for each role's share of the budget.                            *)
THEOREM RoleSpendBounded == BudgetSpec => []RoleSpendBound
<1>1. BudgetInv => RoleSpendBound
  <2> SUFFICES ASSUME BudgetInv, NEW r \in Roles
               PROVE  usage.byRole[r] + (IF up THEN reservedBy[r] ELSE 0)
                        <= RoleLimit(r, usage.max) + overrun
    BY DEF RoleSpendBound
  <2>1. NumCalls \in Nat /\ NumCalls \in 0 .. NumCalls BY BudgetAssumptions
  <2>2. usage \in Usage /\ call \in [Calls -> CallState] BY DEF BudgetInv, BudgetTypeOK
  <2>3. PO(r) \in Nat /\ EO(r) \in Nat
    BY <2>1, <2>2, Tables, SumToRecursion DEF PO, PendingTokensOf, TokensOf, EO
  <2>4. PO(r) <= EO(r) BY <2>2, SumsOrdered DEF PO, EO
  <2>5. usage.byRole[r] + EO(r) <= RoleLimit(r, usage.max) + overrun
    BY DEF BudgetInv, RoleExposureBound, EO
  <2>6. up => reservedBy[r] = PO(r) BY DEF BudgetInv, ReservedMatchesPending, PO
  <2>7. usage.byRole[r] \in Nat /\ usage.max \in Nat /\ overrun \in Nat
    BY <2>2 DEF BudgetInv, BudgetTypeOK, Usage
  <2>8. RoleLimit(r, usage.max) \in Nat BY <2>7, RoleLimitNat
  <2> QED BY <2>3, <2>4, <2>5, <2>6, <2>7, <2>8
<1> QED BY <1>1, BudgetInvAlways, PTL

(* Counters, budget and shares hold together at every instant.             *)
THEOREM BudgetsAreHeld == BudgetSpec => []BudgetsHold
<1> QED BY ReservedInStep, SpendBounded, RoleSpendBounded, PTL DEF BudgetsHold

(* goal.json accounts for every billed token at every instant, except what  *)
(* was billed beyond a reservation or to a deliberately released call.      *)
THEOREM SpendingIsDurable == BudgetSpec => []DurablyAccounted
<1>1. BudgetInv => DurablyAccounted
  <2> SUFFICES ASSUME BudgetInv PROVE DurablyAccounted
    OBVIOUS
  <2>1. NumCalls \in Nat /\ NumCalls \in 0 .. NumCalls BY BudgetAssumptions
  <2>2. usage \in Usage /\ call \in [Calls -> CallState] /\ up \in BOOLEAN
        /\ disk = usage BY DEF BudgetInv, BudgetTypeOK
  <2> DEFINE C == SumTo(Covered(usage, call, up), NumCalls)
             P == PendingTokens(usage)
  <2>3. C \in Nat BY <2>1, <2>2, Tables, SumToRecursion
  <2>4. P \in Nat BY <2>1, <2>2, Tables, SumToRecursion DEF PendingTokens, Tokens
  <2>5. C <= P
    <3>1. SumTo(Covered(usage, call, TRUE), NumCalls) <= P
          /\ SumTo(Covered(usage, call, FALSE), NumCalls) = P
      BY <2>2, SumsOrdered
    <3>2. up = TRUE \/ up = FALSE BY <2>2
    <3>3. CASE up = TRUE BY <3>1, <3>3
    <3>4. CASE up = FALSE
      <4>1. C = P BY <3>1, <3>4
      <4> HIDE DEF C, P
      <4> QED BY <2>4, <4>1
    <3> QED BY <3>2, <3>3, <3>4
  <2>6. spent <= usage.total + C + overrun + waived BY DEF BudgetInv, CoverBound
  <2>7. usage.total \in Nat /\ overrun \in Nat /\ waived \in Nat /\ spent \in Nat
    BY <2>2 DEF BudgetInv, BudgetTypeOK, Usage
  <2> HIDE DEF C, P
  <2>8. spent <= usage.total + P + overrun + waived BY <2>3, <2>4, <2>5, <2>6, <2>7
  <2> QED BY <2>2, <2>8 DEF DurablyAccounted, P
<1> QED BY <1>1, BudgetInvAlways, PTL

-----------------------------------------------------------------------------
(* A live ledger that is blocked has said so in goal.json.                  *)
BlockIsSaved == up /\ blocked => usage.exhausted

(* Record keeps the exhausted flag it finds, or sets it.                    *)
LEMMA RecordedExhaustion ==
  ASSUME BudgetTypeOK, NEW c \in Calls, RecordUsage(c), blocked => usage.exhausted
  PROVE  blocked' => usage'.exhausted
<1> DEFINE u == Charged(c)
<1>1. usage \in Usage BY DEF BudgetTypeOK
<1>2. u.exhausted = usage.exhausted
      /\ "exhausted" \in DOMAIN u
  BY <1>1 DEF Charged, Usage
<1>3. \/ usage' = u /\ blocked' = blocked
      \/ \E reason \in Reasons, r \in Roles \cup {NoRole} :
           usage' = [u EXCEPT !.exhausted = TRUE, !.reason = reason, !.by = r]
  <2>1. usage.pending[c].role \in Roles \cup {NoRole} BY <1>1 DEF Usage, Reservation
  <2> QED BY <2>1 DEF RecordUsage, Reasons, BudgetTypeOK
<1> HIDE DEF u
<1> QED BY <1>2, <1>3

(* A block is written to disk with the refusal and outlives every step. *)
LEMMA BlockStep ==
  ASSUME BudgetInv, BudgetTypeOK', [BudgetNext]_budgetVars, BlockIsSaved
  PROVE  BlockIsSaved' /\ (blocked /\ up /\ up' => blocked' /\ usage'.exhausted)
<1>1. BudgetTypeOK /\ usage \in Usage BY DEF BudgetInv, BudgetTypeOK
<1>2. CASE Open
  <2>1. PICK max \in Budgets :
          LET raised == [disk EXCEPT !.max = IF max > @ THEN max ELSE @]
              opened == Reopened(ChargeUncertain(raised))
          IN  usage' = opened /\ blocked' = (opened.total >= opened.max)
    BY <1>2 DEF Open
  <2> DEFINE charged == ChargeUncertain([disk EXCEPT !.max = IF max > @ THEN max ELSE @])
  <2>2. DOMAIN charged = {"max", "total", "byRole", "pending", "exhausted", "reason", "by"}
    <3>1. disk \in Usage BY <1>1 DEF BudgetTypeOK
    <3>2. DOMAIN disk = {"max", "total", "byRole", "pending", "exhausted", "reason", "by"}
      BY <3>1 DEF Usage
    <3> QED BY <3>2 DEF ChargeUncertain
  <2>3. usage' = Reopened(charged)
        /\ blocked' = (Reopened(charged).total >= Reopened(charged).max)
    BY <2>1
  <2> HIDE DEF charged
  <2>4. Reopened(charged).total = charged.total /\ Reopened(charged).max = charged.max
        /\ (charged.total >= charged.max => Reopened(charged).exhausted)
    BY <2>2 DEF Reopened
  <2> QED BY <1>2, <2>3, <2>4 DEF Open, BlockIsSaved
<1>3. ASSUME NEW c \in Calls, NEW r \in Roles, NEW n \in Amounts, Reserve(c, r, n)
      PROVE  BlockIsSaved' /\ ~blocked
  BY <1>1, <1>3 DEF Reserve, BlockIsSaved
<1>4. ASSUME NEW c \in Calls, NEW r \in Roles, NEW n \in Amounts, Refuse(c, r, n)
      PROVE  blocked' /\ usage'.exhausted
  BY <1>1, <1>4 DEF Refuse, Usage
<1>5. ASSUME NEW c \in Calls, NEW b \in Bills, Answer(c, b)
      PROVE  up /\ blocked' = blocked /\ usage' = usage
  BY <1>5 DEF Answer, memory
<1>6. ASSUME NEW c \in Calls, RecordUsage(c)
      PROVE  (blocked => blocked') /\ (blocked' => usage'.exhausted)
  BY <1>1, <1>6, RecordedExhaustion DEF RecordUsage, BlockIsSaved
<1>7. ASSUME NEW c \in Calls, Release(c)
      PROVE  up /\ blocked' = blocked /\ usage'.exhausted = usage.exhausted
  BY <1>1, <1>7 DEF Release, Usage
<1>8. CASE Crash BY <1>8 DEF Crash, BlockIsSaved
<1>9. CASE UNCHANGED budgetVars BY <1>9 DEF budgetVars, memory, BlockIsSaved
<1> QED BY <1>2, <1>3, <1>4, <1>5, <1>6, <1>7, <1>8, <1>9 DEF BudgetNext, BlockIsSaved

(* Once a call was refused or the budget was reached, no step of any        *)
(* concurrent call unblocks the Goal or clears the persisted exhausted flag *)
(* while the process lives.                                                 *)
THEOREM ExhaustionSticks == BudgetSpec => ExhaustedIsSticky
<1>1. BudgetInit => BlockIsSaved BY DEF BudgetInit, BlockIsSaved
<1>2. BudgetInv /\ BlockIsSaved /\ [BudgetNext]_budgetVars => BlockIsSaved'
  BY BudgetTypeStep, BlockStep DEF BudgetInv
<1>3. BudgetInv /\ BudgetInv' /\ BlockIsSaved /\ [BudgetNext]_budgetVars
        => [blocked /\ up /\ up' => blocked' /\ disk'.exhausted]_budgetVars
  <2> SUFFICES ASSUME BudgetInv, BudgetInv', BlockIsSaved, [BudgetNext]_budgetVars
               PROVE  blocked /\ up /\ up' => blocked' /\ disk'.exhausted
    OBVIOUS
  <2>1. BudgetTypeOK' /\ disk' = usage' BY DEF BudgetInv
  <2> QED BY <2>1, BlockStep
<1> QED BY <1>1, <1>2, <1>3, BudgetInvAlways, PTL DEF BudgetSpec, ExhaustedIsSticky

-----------------------------------------------------------------------------
(***************************************************************************)
(* For any number of events, subscribers and lost records: the log         *)
(* announces its gaps, and consumers are given records in order.  Both     *)
(* need the numbers to be kept as invariants too: the pending gap reaches  *)
(* to the last number given out, and what a subscriber still has to replay *)
(* lies above what it was given and below its high water mark.  That a     *)
(* consumer misses nothing while appends succeed needs more: where its     *)
(* queue begins, and that what it read reaches there.                      *)
(***************************************************************************)

(* A pending gap reaches to the last number; no hole goes unannounced.      *)
GapReachesLast == gap # <<>> => gap[1] <= last /\ gap[2] = last
LogInv == LogOK /\ GapReachesLast /\ GapsAreAnnounced

(* A record gets the next number, or the one after its marker's. *)
LEMMA NumberIsNext ==
  ASSUME LogOK
  PROVE  /\ Number \in Nat
         /\ gap = <<>> => Number = last + 1
         /\ gap # <<>> => Number = last + 2
  BY DEF Number, LogOK

(* What an append that succeeds adds to a file that ends in a whole line.   *)
LEMMA AllWritten ==
  ASSUME NEW kind \in Kinds, ~torn
  PROVE  /\ gap = <<>> => Written(Lines(kind), Len(Lines(kind))) = {Rec(Number, kind)}
         /\ gap # <<>> => Written(Lines(kind), Len(Lines(kind)))
                            = {Marker(last + 1), Rec(Number, kind)}
<1>1. CASE gap = <<>>
  <2>1. Lines(kind) = <<Rec(Number, kind)>> /\ Len(Lines(kind)) = 1
    BY <1>1 DEF Lines
  <2> QED  BY <1>1, <2>1 DEF Written
<1>2. CASE gap # <<>>
  <2>1. /\ Lines(kind) = <<Marker(last + 1), Rec(Number, kind)>>
        /\ Len(Lines(kind)) = 2
    BY <1>2 DEF Lines
  <2> QED  BY <1>2, <2>1 DEF Written
<1> QED  BY <1>1, <1>2

(* Whatever part of the lines is written, only records are.                 *)
LEMMA WrittenRecords ==
  ASSUME LogOK, NEW kind \in Kinds, NEW k \in 0 .. Len(Lines(kind))
  PROVE  Written(Lines(kind), k) \subseteq Records
<1>1. Rec(Number, kind) \in Records
  BY NumberIsNext DEF Rec, Records
<1>2. gap # <<>> => Marker(last + 1) \in Records
  BY DEF Marker, Records, LogOK
<1>3. CASE gap = <<>>
  <2>1. Lines(kind) = <<Rec(Number, kind)>> /\ Len(Lines(kind)) = 1
    BY <1>3 DEF Lines
  <2> QED  BY <1>1, <2>1 DEF Written
<1>4. CASE gap # <<>>
  <2>1. /\ Lines(kind) = <<Marker(last + 1), Rec(Number, kind)>>
        /\ Len(Lines(kind)) = 2
    BY <1>4 DEF Lines
  <2> QED  BY <1>1, <1>2, <1>4, <2>1 DEF Written
<1> QED  BY <1>3, <1>4

(* A record that is written closes the gap: the marker covers it.           *)
LEMMA RecordedStep ==
  ASSUME LogInv, NEW kind \in Kinds, RecordEvent(kind)
  PROVE  LogInv'
<1> USE DEF LogInv
<1>1. LogOK'
  <2>1. file' \subseteq Records
    <3>1. Len(Lines(kind)) \in 0 .. Len(Lines(kind))
      BY DEF Lines
    <3> QED  BY <3>1, WrittenRecords DEF RecordEvent, LogOK
  <2> QED  BY <2>1, NumberIsNext DEF RecordEvent, LogOK
<1>2. GapReachesLast'
  BY DEF RecordEvent, GapReachesLast
<1>3. GapsAreAnnounced'
  <2> SUFFICES ASSUME ~spoiled', NEW n \in 1 .. last' PROVE Announced(n)'
    BY DEF GapsAreAnnounced
  <2>1. ~torn /\ ~spoiled /\ last \in Nat /\ last' = Number
    BY DEF RecordEvent, LogOK
  <2>2. CASE gap = <<>>
    <3>1. file' = file \cup {Rec(last + 1, kind)} /\ last' = last + 1
      BY <2>1, <2>2, AllWritten, NumberIsNext DEF RecordEvent
    <3>2. CASE n = last + 1
      <4>1. Rec(last + 1, kind) \in file' /\ Rec(last + 1, kind).seq = n
        BY <3>1, <3>2 DEF Rec
      <4> QED  BY <4>1 DEF Announced, Seqs
    <3>3. CASE n \in 1 .. last
      BY <2>1, <2>2, <3>1, <3>3 DEF Announced, Seqs, GapsAreAnnounced
    <3> QED  BY <2>1, <3>1, <3>2, <3>3
  <2>3. CASE gap # <<>>
    <3>1. /\ file' = file \cup {Marker(last + 1), Rec(last + 2, kind)}
          /\ last' = last + 2
      BY <2>1, <2>3, AllWritten, NumberIsNext DEF RecordEvent
    <3>2. CASE n \in {last + 1, last + 2}
      <4>1. /\ Marker(last + 1) \in file' /\ Marker(last + 1).seq = last + 1
            /\ Rec(last + 2, kind) \in file' /\ Rec(last + 2, kind).seq = last + 2
        BY <3>1 DEF Marker, Rec
      <4>2. \E r \in file' : r.seq = n
        BY <3>2, <4>1
      <4> QED  BY <4>2 DEF Announced, Seqs
    <3>3. CASE n \in 1 .. last
      <4>1. CASE gap[1] <= n /\ n <= gap[2]
        <5>1. /\ Marker(last + 1) \in file'
              /\ Marker(last + 1).event = "event_log_gap"
              /\ Marker(last + 1).from = gap[1] /\ Marker(last + 1).to = gap[2]
          BY <3>1 DEF Marker
        <5> QED  BY <4>1, <5>1 DEF Announced
      <4>2. CASE ~(gap[1] <= n /\ n <= gap[2])
        BY <2>1, <3>1, <3>3, <4>2 DEF Announced, Seqs, GapsAreAnnounced
      <4> QED  BY <4>1, <4>2
    <3> QED  BY <2>1, <3>1, <3>2, <3>3
  <2> QED  BY <2>2, <2>3
<1> QED  BY <1>1, <1>2, <1>3

(* A record that is not written widens the gap to its number.               *)
LEMMA RecordFailsStep ==
  ASSUME LogInv, NEW kind \in Kinds, RecordFails(kind)
  PROVE  LogInv'
<1> USE DEF LogInv
<1>0. Number \in Nat /\ last \in Nat /\ last' = Number /\ last < Number
  BY NumberIsNext DEF RecordFails, LogOK
<1>1. LogOK'
  <2>1. file' \subseteq Records /\ torn' \in BOOLEAN /\ spoiled' \in BOOLEAN
    BY WrittenRecords DEF RecordFails, LogOK
  <2>2. volatile' \subseteq Records
    BY NumberIsNext DEF RecordFails, Kept, Rec, Records, LogOK
  <2>3. gap' \in Nat \X Nat
    BY <1>0 DEF RecordFails, Widened, LogOK
  <2> QED  BY <1>0, <2>1, <2>2, <2>3 DEF RecordFails, LogOK
<1>2. gap' = <<IF gap = <<>> THEN Number ELSE gap[1], Number>> /\ gap' # <<>>
  BY DEF RecordFails, Widened
<1>3. GapReachesLast'
  BY <1>0, <1>2 DEF GapReachesLast, LogOK
<1>4. GapsAreAnnounced'
  <2> SUFFICES ASSUME ~spoiled', NEW n \in 1 .. last' PROVE Announced(n)'
    BY DEF GapsAreAnnounced
  <2>1. ~spoiled /\ file \subseteq file'
    BY DEF RecordFails
  <2>2. CASE n \in 1 .. last
    <3>1. Announced(n)
      BY <2>1, <2>2 DEF GapsAreAnnounced
    <3>2. CASE gap # <<>> /\ gap[1] <= n /\ n <= gap[2]
      BY <1>0, <1>2, <3>2 DEF Announced, GapReachesLast, LogOK
    <3>3. CASE ~(gap # <<>> /\ gap[1] <= n /\ n <= gap[2])
      BY <2>1, <3>1, <3>3 DEF Announced, Seqs
    <3> QED  BY <3>2, <3>3
  <2>3. CASE last < n
    <3>1. CASE gap = <<>>
      <4>1. n = Number
        BY <1>0, <2>3, <3>1, NumberIsNext
      <4> QED  BY <1>0, <1>2, <3>1, <4>1 DEF Announced
    <3>2. CASE gap # <<>>
      BY <1>0, <1>2, <2>3, <3>2 DEF Announced, GapReachesLast, LogOK
    <3> QED  BY <3>1, <3>2
  <2> QED  BY <1>0, <2>2, <2>3
<1> QED  BY <1>1, <1>3, <1>4

(* Nothing else writes the log.                                             *)
LEMMA LogUnchanged == LogInv /\ UNCHANGED log => LogInv'
  BY DEF log, LogInv, LogOK, GapReachesLast, GapsAreAnnounced, Announced

(* The log announces its gaps: every sequence number that cannot be read is *)
(* covered by a marker, or will be by the next append.                      *)
THEOREM GapsAnnounced == EventsSpec => []GapsAreAnnounced
<1>1. EventsInit => LogInv
  <2> SUFFICES ASSUME EventsInit PROVE LogInv
    OBVIOUS
  <2>1. LogOK /\ GapReachesLast
    BY DEF EventsInit, LogOK, GapReachesLast
  <2>2. 1 .. last = {}
    BY DEF EventsInit
  <2> QED  BY <2>1, <2>2 DEF LogInv, GapsAreAnnounced
<1>2. LogInv /\ [EventsNext]_eventVars => LogInv'
  <2> SUFFICES ASSUME LogInv, [EventsNext]_eventVars PROVE LogInv'
    OBVIOUS
  <2>1. \/ \E kind \in Kinds : RecordEvent(kind) \/ RecordFails(kind)
        \/ UNCHANGED log
    BY DEF EventsNext, Writer, Consume, Publish, Read, Subscribe, Merge, YieldReplayed,
           Follow, TakeQueued, Close, eventVars
  <2> QED  BY <2>1, RecordedStep, RecordFailsStep, LogUnchanged
<1>3. LogInv => GapsAreAnnounced
  BY DEF LogInv
<1> QED  BY <1>1, <1>2, <1>3, PTL DEF EventsSpec
-----------------------------------------------------------------------------
(* What a subscriber was given stays below what it may still be given.      *)
SeenSorted(x) == \A i, j \in DOMAIN x.seen : i < j => x.seen[i] < x.seen[j]
GivenUpTo(x, n) == \A i \in DOMAIN x.seen : x.seen[i] <= n
SubRecords ==
  [at : Stages, cursor : Nat, replay : SUBSET Records, high : Nat,
   queue : Seq(Records), seen : Seq(Nat), replays : Nat]
Ahead(x) ==
  /\ x \in SubRecords
  /\ SeenSorted(x)
  /\ x.at \in {"asked", "read"} => GivenUpTo(x, x.cursor)
  /\ x.at = "read" => \A r \in x.replay : x.cursor < r.seq
  /\ x.at \in {"replaying", "live"} => GivenUpTo(x, x.high)
  /\ x.at = "replaying" =>
       \A r \in x.replay :
         r.seq <= x.high /\ \A i \in DOMAIN x.seen : x.seen[i] < r.seq
SubInv == sub \in [Subscribers -> SubRecords] /\ \A s \in Subscribers : Ahead(sub[s])

(* Giving a record that is above all given ones keeps the order.            *)
LEMMA GivenSorted ==
  ASSUME NEW x, NEW y, x.seen \in Seq(Nat), SeenSorted(x), NEW n \in Nat,
         \A i \in DOMAIN x.seen : x.seen[i] < n,
         y.seen = Append(x.seen, n)
  PROVE  y.seen \in Seq(Nat) /\ SeenSorted(y) /\ GivenUpTo(y, n)
<1>1. /\ Len(x.seen) \in Nat /\ DOMAIN x.seen = 1 .. Len(x.seen)
      /\ y.seen \in Seq(Nat) /\ DOMAIN y.seen = 1 .. Len(x.seen) + 1
      /\ y.seen[Len(x.seen) + 1] = n
      /\ \A i \in 1 .. Len(x.seen) : y.seen[i] = x.seen[i]
  BY AppendProperties
<1>2. \A i \in DOMAIN x.seen : x.seen[i] \in Nat
  OBVIOUS
<1>3. ASSUME NEW i \in DOMAIN y.seen, NEW j \in DOMAIN y.seen, i < j
      PROVE  y.seen[i] < y.seen[j]
  <2>1. CASE j = Len(x.seen) + 1
    BY <1>1, <1>3, <2>1
  <2>2. CASE j \in 1 .. Len(x.seen)
    BY <1>1, <1>3, <2>2 DEF SeenSorted
  <2> QED  BY <1>1, <2>1, <2>2
<1>4. ASSUME NEW i \in DOMAIN y.seen PROVE y.seen[i] <= n
  <2>1. CASE i = Len(x.seen) + 1
    BY <1>1, <2>1
  <2>2. CASE i \in 1 .. Len(x.seen)
    BY <1>1, <1>2, <2>2
  <2> QED  BY <1>1, <2>1, <2>2
<1> QED  BY <1>1, <1>3, <1>4 DEF SeenSorted, GivenUpTo

(* A step that changes one subscriber only.                                 *)
LEMMA OneSubscriber ==
  ASSUME SubInv, NEW s \in Subscribers, NEW x, Ahead(x), sub' = [sub EXCEPT ![s] = x]
  PROVE  SubInv'
<1>1. sub' \in [Subscribers -> SubRecords]
  BY DEF SubInv, Ahead
<1>2. \A u \in Subscribers : sub'[u] = IF u = s THEN x ELSE sub[u]
  BY DEF SubInv
<1>3. \A u \in Subscribers : Ahead(sub'[u])
  BY <1>2 DEF SubInv
<1> QED  BY <1>1, <1>3 DEF SubInv

(* Records are queued for those who are subscribed; nothing else changes.   *)
LEMMA DispatchStep ==
  ASSUME SubInv, NEW records \in Seq(Records), Dispatch(records)
  PROVE  SubInv'
<1>1. ASSUME NEW s \in Subscribers PROVE Ahead(sub'[s])
  <2> DEFINE x == sub[s]
  <2>1. Ahead(x)
    BY DEF SubInv
  <2>2. CASE Subscribed(s)
    <3> DEFINE y == [x EXCEPT !.queue = @ \o records]
    <3>1. sub'[s] = y
      BY <2>2 DEF Dispatch
    <3>2. x.queue \o records \in Seq(Records)
      BY <2>1, ConcatProperties DEF Ahead, SubRecords
    <3>3. /\ y \in SubRecords /\ y.at = x.at /\ y.cursor = x.cursor
          /\ y.replay = x.replay /\ y.high = x.high /\ y.seen = x.seen
      BY <2>1, <3>2 DEF Ahead, SubRecords
    <3> HIDE DEF x, y
    <3>4. Ahead(y)
      BY <2>1, <3>3 DEF Ahead, SeenSorted, GivenUpTo
    <3> QED  BY <3>1, <3>4
  <2>3. CASE ~Subscribed(s)
    BY <2>1, <2>3 DEF Dispatch
  <2> QED  BY <2>2, <2>3
<1>2. sub' \in [Subscribers -> SubRecords]
  BY <1>1 DEF Dispatch, Ahead
<1> QED  BY <1>1, <1>2 DEF SubInv

(* The lines of an append are records.                                      *)
LEMMA LinesAreRecords ==
  ASSUME LogOK, NEW kind \in Kinds
  PROVE  Lines(kind) \in Seq(Records) /\ <<Rec(Number, kind)>> \in Seq(Records)
<1>1. Rec(Number, kind) \in Records
  BY NumberIsNext DEF Rec, Records
<1>2. gap # <<>> => Marker(last + 1) \in Records
  BY DEF Marker, Records, LogOK
<1> QED  BY <1>1, <1>2 DEF Lines

(* A consumer resumes above everything it was given.                        *)
LEMMA SubscribeStep ==
  ASSUME SubInv, NEW s \in Subscribers, Subscribe(s)
  PROVE  SubInv'
<1> DEFINE x == sub[s]
           c == IF x.seen = <<>> THEN 0 ELSE x.seen[Len(x.seen)]
           q == <<>>
           m == x.replays + 1
           y == [x EXCEPT !.at = "asked", !.queue = q, !.replays = m, !.cursor = c]
<1>1. Ahead(x) /\ x \in SubRecords
  BY DEF SubInv, Ahead
<1>2. sub' = [sub EXCEPT ![s] = y]
  BY <1>1 DEF Subscribe
<1>3. x.seen \in Seq(Nat) /\ Len(x.seen) \in Nat /\ DOMAIN x.seen = 1 .. Len(x.seen)
  BY <1>1 DEF SubRecords
<1>4. c \in Nat
  BY <1>3
<1>5. \A i \in DOMAIN x.seen : x.seen[i] <= c
  <2> SUFFICES ASSUME NEW i \in DOMAIN x.seen PROVE x.seen[i] <= c
    OBVIOUS
  <2>1. x.seen # <<>> /\ c = x.seen[Len(x.seen)] /\ x.seen[i] \in Nat
    BY <1>3
  <2>2. i = Len(x.seen) \/ (i < Len(x.seen) /\ Len(x.seen) \in DOMAIN x.seen)
    BY <1>3
  <2> QED  BY <1>1, <1>4, <2>1, <2>2 DEF Ahead, SeenSorted
<1>6. q \in Seq(Records) /\ m \in Nat /\ "asked" \in Stages
  BY <1>1 DEF SubRecords, Stages
<1>7. y \in SubRecords /\ y.seen = x.seen /\ y.at = "asked" /\ y.cursor = c
  <2> HIDE DEF c, x, q, m
  <2> QED  BY <1>1, <1>4, <1>6 DEF SubRecords
<1> HIDE DEF y, c, x
<1>8. Ahead(y)
  BY <1>1, <1>5, <1>7 DEF Ahead, SeenSorted, GivenUpTo
<1> QED  BY <1>2, <1>8, OneSubscriber

(* What is read lies above the cursor.                                      *)
LEMMA ReadStep ==
  ASSUME LogOK, SubInv, Read
  PROVE  SubInv'
<1> DEFINE s == Head(jobs).for
           x == sub[s]
           y == [x EXCEPT !.at = "read", !.replay = After(file, x.cursor)]
<1>1. CASE sub' = sub
  BY <1>1 DEF SubInv
<1>2. CASE sub' # sub
  <2>1. s \in Subscribers /\ x.at = "asked" /\ sub' = [sub EXCEPT ![s] = y]
    BY <1>2 DEF Read, SubInv
  <2>2. Ahead(x) /\ x \in SubRecords
    BY <2>1 DEF SubInv, Ahead
  <2>3. After(file, x.cursor) \subseteq Records
    BY DEF After, LogOK
  <2>4. /\ y \in SubRecords /\ y.seen = x.seen /\ y.at = "read" /\ y.cursor = x.cursor
        /\ y.replay = After(file, x.cursor)
    BY <2>2, <2>3 DEF SubRecords, Stages
  <2>5. x.cursor \in Nat
    BY <2>2 DEF SubRecords
  <2> HIDE DEF x, y
  <2>6. Ahead(y)
    BY <2>1, <2>2, <2>3, <2>4, <2>5 DEF Ahead, SeenSorted, GivenUpTo, After, Records
  <2>7. s \in Subscribers /\ sub' = [sub EXCEPT ![s] = y]
    BY <2>1
  <2> HIDE DEF s
  <2> QED  BY <2>6, <2>7, OneSubscriber
<1> QED  BY <1>1, <1>2

(* The high water mark is above the cursor and all that is replayed.        *)
LEMMA MergeStep ==
  ASSUME LogOK, SubInv, NEW s \in Subscribers, Merge(s)
  PROVE  SubInv'
<1> DEFINE x == sub[s]
<1>1. PICK n \in 0 .. last :
        /\ HighWater(s, n)
        /\ sub' = [sub EXCEPT ![s].at = "replaying", ![s].replay = Merged(s), ![s].high = n]
  BY DEF Merge
<1> DEFINE y == [x EXCEPT !.at = "replaying", !.replay = Merged(s), !.high = n]
<1>2. Ahead(x) /\ x \in SubRecords /\ x.at = "read"
  BY DEF SubInv, Ahead, Merge
<1>3. sub' = [sub EXCEPT ![s] = y]
  BY <1>1
<1>4. n \in Nat /\ x.cursor \in Nat
  BY <1>2 DEF LogOK, SubRecords
<1>5. Merged(s) \subseteq Records /\ \A r \in Merged(s) : x.cursor < r.seq
  BY <1>2, <1>4 DEF Merged, After, LogOK, SubRecords, Ahead, Records
<1>6. x.cursor <= n /\ \A r \in Merged(s) : r.seq <= n
  BY <1>1 DEF HighWater, Seqs
<1>7. /\ y \in SubRecords /\ y.seen = x.seen /\ y.at = "replaying"
      /\ y.replay = Merged(s) /\ y.high = n
  BY <1>2, <1>4, <1>5 DEF SubRecords, Stages
<1>8. \A i \in DOMAIN x.seen : x.seen[i] \in Nat /\ x.seen[i] <= x.cursor
  BY <1>2 DEF Ahead, GivenUpTo, SubRecords
<1>9. \A r \in Merged(s) : r.seq \in Nat
  BY <1>5 DEF Records
<1> HIDE DEF x, y
<1>10. GivenUpTo(y, y.high)
  BY <1>4, <1>6, <1>7, <1>8 DEF GivenUpTo
<1>11. \A r \in y.replay : r.seq <= y.high /\ \A i \in DOMAIN y.seen : y.seen[i] < r.seq
  BY <1>4, <1>5, <1>6, <1>7, <1>8, <1>9
<1>12. SeenSorted(y)
  BY <1>2, <1>7 DEF Ahead, SeenSorted
<1>13. Ahead(y)
  BY <1>7, <1>10, <1>11, <1>12 DEF Ahead
<1> QED  BY <1>3, <1>13, OneSubscriber

(* Giving record r: what is left to give must lie above it.                 *)
LEMMA GivenShape ==
  ASSUME SubInv, NEW s \in Subscribers, NEW r \in Records
  PROVE  /\ Given(s, r) \in SubRecords
         /\ Given(s, r).seen = Append(sub[s].seen, r.seq)
         /\ Given(s, r).at \in {sub[s].at, "ended"}
         /\ Given(s, r).replay = sub[s].replay
         /\ Given(s, r).high = sub[s].high
         /\ Given(s, r).queue = sub[s].queue
         /\ Given(s, r).cursor = sub[s].cursor
<1> DEFINE x == sub[s]
           place == IF r.event = "turn_finished" THEN "ended" ELSE x.at
           given == Append(x.seen, r.seq)
           y == [x EXCEPT !.seen = given, !.at = place]
<1>1. x \in SubRecords
  BY DEF SubInv
<1>2. Given(s, r) = y
  BY <1>1 DEF Given, SubRecords
<1>3. place \in Stages /\ place \in {x.at, "ended"}
  BY <1>1 DEF SubRecords, Stages
<1>4. given \in Seq(Nat)
  BY <1>1, AppendProperties DEF SubRecords, Records
<1> HIDE DEF x, place, given
<1>5. /\ y \in SubRecords /\ y.seen = given /\ y.at = place
      /\ y.replay = x.replay /\ y.high = x.high /\ y.queue = x.queue /\ y.cursor = x.cursor
  BY <1>1, <1>3, <1>4 DEF SubRecords
<1> QED  BY <1>2, <1>3, <1>5 DEF x, given

(* Yielding a replayed record keeps the invariant. *)
LEMMA YieldStep ==
  ASSUME SubInv, NEW s \in Subscribers, YieldReplayed(s)
  PROVE  SubInv'
<1> DEFINE x == sub[s]
<1>1. Ahead(x) /\ x \in SubRecords /\ x.at = "replaying"
  BY DEF SubInv, Ahead, YieldReplayed
<1>2. PICK r \in x.replay :
        /\ \A q \in x.replay : r.seq <= q.seq
        /\ sub' = [sub EXCEPT ![s] = [Given(s, r) EXCEPT
                     !.replay = {q \in @ : q.seq # r.seq}]]
  BY DEF YieldReplayed
<1> DEFINE g == Given(s, r)
           left == {q \in x.replay : q.seq # r.seq}
           y == [g EXCEPT !.replay = left]
<1>3. r \in Records /\ r.seq \in Nat /\ x.seen \in Seq(Nat) /\ x.high \in Nat
  BY <1>1 DEF SubRecords, Records
<1>4. /\ g \in SubRecords /\ g.seen = Append(x.seen, r.seq) /\ g.at \in {"replaying", "ended"}
      /\ g.replay = x.replay /\ g.high = x.high
  BY <1>1, <1>3, GivenShape
<1>5. sub' = [sub EXCEPT ![s] = y]
  BY <1>2, <1>4
<1>6. left \subseteq Records
  BY <1>1 DEF SubRecords
<1> HIDE DEF g
<1>7. /\ y \in SubRecords /\ y.seen = Append(x.seen, r.seq)
      /\ y.at \in {"replaying", "ended"} /\ y.replay = left /\ y.high = x.high
  BY <1>4, <1>6 DEF SubRecords
<1>8. \A i \in DOMAIN x.seen : x.seen[i] < r.seq
  BY <1>1, <1>2 DEF Ahead
<1>9. \A q \in left : r.seq < q.seq /\ q.seq <= x.high
  <2> SUFFICES ASSUME NEW q \in left PROVE r.seq < q.seq /\ q.seq <= x.high
    OBVIOUS
  <2>1. q.seq \in Nat /\ r.seq <= q.seq /\ q.seq # r.seq
    BY <1>2, <1>6 DEF Records
  <2> QED  BY <1>1, <1>3, <2>1 DEF Ahead
<1>10. r.seq <= x.high
  BY <1>1 DEF Ahead
<1> HIDE DEF x, y, left
<1>11. SeenSorted(x)
  BY <1>1 DEF Ahead
<1>12. SeenSorted(y) /\ GivenUpTo(y, r.seq) /\ y.seen \in Seq(Nat)
  BY <1>3, <1>7, <1>8, <1>11, GivenSorted
<1>13. \A i \in DOMAIN y.seen : y.seen[i] \in Nat /\ y.seen[i] <= r.seq
  BY <1>12 DEF GivenUpTo
<1>14. GivenUpTo(y, y.high)
  BY <1>3, <1>7, <1>10, <1>13 DEF GivenUpTo
<1>15. \A q \in y.replay : q.seq <= y.high /\ \A i \in DOMAIN y.seen : y.seen[i] < q.seq
  <2> SUFFICES ASSUME NEW q \in y.replay
               PROVE  q.seq <= y.high /\ \A i \in DOMAIN y.seen : y.seen[i] < q.seq
    OBVIOUS
  <2>1. q.seq \in Nat
    BY <1>6, <1>7 DEF Records
  <2> QED  BY <1>3, <1>7, <1>9, <1>13, <2>1
<1>16. Ahead(y)
  BY <1>7, <1>12, <1>14, <1>15 DEF Ahead
<1> QED  BY <1>5, <1>16, OneSubscriber

(* The end of a replay keeps the invariant. *)
LEMMA FollowStep ==
  ASSUME SubInv, NEW s \in Subscribers, Follow(s)
  PROVE  SubInv'
<1> DEFINE x == sub[s]
           place == IF completed THEN "ended" ELSE "live"
           y == [x EXCEPT !.at = place]
<1>1. Ahead(x) /\ x \in SubRecords /\ x.at = "replaying" /\ sub' = [sub EXCEPT ![s] = y]
  BY DEF SubInv, Ahead, Follow
<1>2. place \in {"ended", "live"}
  OBVIOUS
<1> HIDE DEF place
<1>3. /\ y \in SubRecords /\ y.seen = x.seen /\ y.at \in {"ended", "live"} /\ y.high = x.high
  BY <1>1, <1>2 DEF SubRecords, Stages
<1> HIDE DEF x, y
<1>4. Ahead(y)
  BY <1>1, <1>3 DEF Ahead, SeenSorted, GivenUpTo
<1> QED  BY <1>1, <1>4, OneSubscriber

(* Only a record above the high water mark is given.                        *)
LEMMA TakeStep ==
  ASSUME SubInv, NEW s \in Subscribers, TakeQueued(s)
  PROVE  SubInv'
<1> DEFINE x == sub[s]
           r == Head(x.queue)
           rest == Tail(x.queue)
<1>1. Ahead(x) /\ x \in SubRecords /\ x.at = "live" /\ x.queue # <<>>
  BY DEF SubInv, Ahead, TakeQueued
<1>2. r \in Records /\ rest \in Seq(Records) /\ x.high \in Nat /\ x.seen \in Seq(Nat)
  BY <1>1, HeadTailProperties DEF SubRecords
<1>3. r.seq \in Nat
  BY <1>2 DEF Records
<1>4. CASE r.seq > x.high
  <2> DEFINE g == Given(s, r)
             h == r.seq
             y == [g EXCEPT !.queue = rest, !.high = h]
  <2>1. /\ g \in SubRecords /\ g.seen = Append(x.seen, r.seq) /\ g.at \in {"live", "ended"}
        /\ g.queue = x.queue
    BY <1>1, <1>2, GivenShape
  <2>2. sub' = [sub EXCEPT ![s] = y]
    BY <1>4, <2>1 DEF TakeQueued
  <2>3. \A i \in DOMAIN x.seen : x.seen[i] < r.seq
    <3>1. \A i \in DOMAIN x.seen : x.seen[i] \in Nat /\ x.seen[i] <= x.high
      BY <1>1, <1>2 DEF Ahead, GivenUpTo
    <3> QED  BY <1>2, <1>3, <1>4, <3>1
  <2>4. h \in Nat /\ h = r.seq
    BY <1>3
  <2> HIDE DEF g, rest, h
  <2>5. /\ y \in SubRecords /\ y.seen = Append(x.seen, h) /\ y.high = h
        /\ y.at \in {"live", "ended"}
    BY <1>2, <2>1, <2>4 DEF SubRecords
  <2> HIDE DEF x, y, r
  <2>6. SeenSorted(x) /\ \A i \in DOMAIN x.seen : x.seen[i] < h
    BY <1>1, <2>3, <2>4 DEF Ahead
  <2>7. SeenSorted(y) /\ GivenUpTo(y, h)
    BY <1>2, <2>4, <2>5, <2>6, GivenSorted
  <2>8. Ahead(y)
    BY <2>5, <2>7 DEF Ahead
  <2> QED  BY <2>2, <2>8, OneSubscriber
<1>5. CASE ~(r.seq > x.high)
  <2> DEFINE y == [x EXCEPT !.queue = rest]
  <2>1. sub' = [sub EXCEPT ![s] = y]
    BY <1>5 DEF TakeQueued
  <2> HIDE DEF rest
  <2>2. /\ y \in SubRecords /\ y.seen = x.seen /\ y.high = x.high /\ y.at = "live"
    BY <1>1, <1>2 DEF SubRecords
  <2> HIDE DEF x, y, r
  <2>3. Ahead(y)
    BY <1>1, <2>2 DEF Ahead, SeenSorted, GivenUpTo
  <2> QED  BY <2>1, <2>3, OneSubscriber
<1> QED  BY <1>4, <1>5

(* Leaving a subscription keeps the invariant. *)
LEMMA CloseStep ==
  ASSUME SubInv, NEW s \in Subscribers, Close(s)
  PROVE  SubInv'
<1> DEFINE x == sub[s]
           given == x.seen
           n == x.replays
           y == [Outside EXCEPT !.at = "closed", !.seen = given, !.replays = n]
<1>1. Ahead(x) /\ x \in SubRecords /\ sub' = [sub EXCEPT ![s] = y]
  BY DEF SubInv, Ahead, Close
<1>2. given \in Seq(Nat) /\ n \in Nat /\ <<>> \in Seq(Records)
  BY <1>1 DEF SubRecords
<1>3. SeenSorted(x) /\ given = x.seen
  BY <1>1 DEF Ahead
<1> HIDE DEF given, n
<1>4. /\ y \in SubRecords /\ y.seen = given /\ y.at = "closed"
  BY <1>2 DEF SubRecords, Stages, Outside
<1> HIDE DEF x, y
<1>5. Ahead(y)
  BY <1>3, <1>4 DEF Ahead, SeenSorted
<1> QED  BY <1>1, <1>5, OneSubscriber

(* Consumers are given records in order, and none twice, however often they *)
(* detach and resume and whatever appends fail.                             *)
THEOREM InOrder == EventsSpec => []GivenInOrder
<1> DEFINE I == LogInv /\ SubInv
<1>1. EventsInit => I
  <2> SUFFICES ASSUME EventsInit PROVE I
    OBVIOUS
  <2>1. LogOK /\ GapReachesLast
    BY DEF EventsInit, LogOK, GapReachesLast
  <2>2. 1 .. last = {}
    BY DEF EventsInit
  <2>3. Outside \in SubRecords /\ Outside.seen = <<>> /\ Outside.at = "outside"
    BY DEF Outside, SubRecords, Stages
  <2>4. Ahead(Outside)
    BY <2>3 DEF Ahead, SeenSorted
  <2>5. SubInv
    BY <2>3, <2>4 DEF EventsInit, SubInv
  <2> QED  BY <2>1, <2>2, <2>5 DEF LogInv, GapsAreAnnounced
<1>2. I /\ [EventsNext]_eventVars => I'
  <2> SUFFICES ASSUME I, [EventsNext]_eventVars PROVE I'
    OBVIOUS
  <2>1. ASSUME NEW kind \in Kinds, RecordEvent(kind) \/ RecordFails(kind) PROVE I'
    <3>1. LogInv'
      BY <2>1, RecordedStep, RecordFailsStep
    <3>2. SubInv'
      BY <2>1, LinesAreRecords, DispatchStep DEF RecordEvent, RecordFails, LogInv
    <3> QED  BY <3>1, <3>2
  <2>2. ASSUME UNCHANGED log, SubInv' PROVE I'
    BY <2>2, LogUnchanged
  <2>3. ASSUME NEW kind \in Kinds, Publish(kind) PROVE I'
    BY <2>2, <2>3 DEF Publish, SubInv
  <2>4. CASE Read
    BY <2>2, <2>4, ReadStep DEF Read, LogInv
  <2>5. ASSUME NEW s \in Subscribers, Subscribe(s) \/ Consume(s) \/ Close(s) PROVE I'
    <3>1. SubInv'
      BY <2>5, SubscribeStep, MergeStep, YieldStep, FollowStep, TakeStep, CloseStep
         DEF Consume, LogInv
    <3>2. UNCHANGED log
      BY <2>5 DEF Subscribe, Consume, Merge, YieldReplayed, Follow, TakeQueued, Close
    <3> QED  BY <2>2, <3>1, <3>2
  <2>6. CASE UNCHANGED eventVars
    <3>1. SubInv'
      BY <2>6 DEF eventVars, SubInv
    <3> QED  BY <2>2, <2>6, <3>1 DEF eventVars
  <2> QED  BY <2>1, <2>3, <2>4, <2>5, <2>6 DEF EventsNext, Writer
<1>3. I => GivenInOrder
  BY DEF SubInv, Ahead, SeenSorted, GivenInOrder
<1> QED  BY <1>1, <1>2, <1>3, PTL DEF EventsSpec

(* Each consumer is given records in their order, and every number that the *)
(* file has no line for is announced, whatever fails and whoever comes.     *)
THEOREM DeliverySound == EventsSpec => []DeliveryIsSound
<1>1. GivenInOrder /\ GapsAreAnnounced => DeliveryIsSound
  BY DEF DeliveryIsSound
<1>2. QED
  BY <1>1, InOrder, GapsAnnounced, PTL
-----------------------------------------------------------------------------
(* The numbers of a subscription are numbers given out.                     *)
Within(x, n) ==
  /\ x.cursor \in 0 .. n /\ x.high \in 0 .. n
  /\ \A i \in DOMAIN x.seen : x.seen[i] \in 1 .. n
  /\ \A r \in x.replay : r.seq \in 1 .. n
  /\ \A i \in DOMAIN x.queue : x.queue[i].seq \in 1 .. n

(* What makes replaying and following meet without a hole: the queue ends   *)
(* with the last number and has none missing; what was read reaches to the  *)
(* queue, and so does the high water mark of a consumer that follows.       *)
Filled(x) == \A n \in x.cursor + 1 .. x.high : n \in Range(x.seen) \cup Seqs(x.replay)
Joined(x, n) ==
  /\ x.at \in {"asked", "read", "replaying", "live"} =>
       \A i \in DOMAIN x.queue : x.queue[i].seq = n - Len(x.queue) + i
  /\ x.at = "read" =>
       /\ \A m \in x.cursor + 1 .. n - Len(x.queue) : m \in Seqs(x.replay)
       /\ \A m \in Seqs(x.replay) : \A k \in x.cursor + 1 .. m : k \in Seqs(x.replay)
  /\ x.at \in {"replaying", "live"} => Filled(x) /\ n - Len(x.queue) <= x.high

(* An empty deque, no gap and every number in the file, until an append     *)
(* fails.                                                                   *)
LogBounds == IsFiniteSet(volatile) /\ Cardinality(volatile) <= MaxVolatile
             /\ \A r \in file \cup volatile : r.seq \in 1 .. last
LogWhole == volatile = {} /\ gap = <<>> /\ ~torn /\ 1 .. last \subseteq Seqs(file)
StreamInv ==
  /\ LogBounds
  /\ ~failed => LogWhole
  /\ \A s \in Subscribers :
       Within(sub[s], last) /\ (~failed => Joined(sub[s], last))
EventsInv == LogInv /\ SubInv /\ StreamInv

(* The deque drops its oldest record when it is full.                       *)
LEMMA KeptIsBounded ==
  ASSUME LogOK, LogBounds, NEW r \in Records
  PROVE  IsFiniteSet(Kept(r)) /\ Cardinality(Kept(r)) <= MaxVolatile
         /\ Kept(r) \subseteq volatile \cup {r}
<1> DEFINE all == volatile \cup {r}
<1>1. /\ IsFiniteSet(all) /\ Cardinality(all) \in Nat /\ MaxVolatile \in Nat
      /\ Cardinality(all) <= MaxVolatile + 1
  <2>1. /\ IsFiniteSet(all) /\ Cardinality(volatile) \in Nat /\ Cardinality(all) \in Nat
        /\ Cardinality(all) = Cardinality(volatile)
           \/ Cardinality(all) = Cardinality(volatile) + 1
    BY FS_AddElement, FS_CardinalityType DEF LogBounds
  <2>2. MaxVolatile \in Nat /\ Cardinality(volatile) <= MaxVolatile
    BY EventAssumptions DEF LogBounds
  <2> QED BY <2>1, <2>2
<1>2. CASE Cardinality(all) <= MaxVolatile
  BY <1>1, <1>2 DEF Kept
<1>3. CASE ~(Cardinality(all) <= MaxVolatile)
  <2> DEFINE kept == {v \in all : \E u \in all : u.seq < v.seq}
             N == {u.seq : u \in all}
  <2>1. N \subseteq Nat /\ N # {}
    BY DEF LogOK, Records
  <2>2. PICK m \in N : \A k \in N : m <= k
    <3> HIDE DEF N
    <3> QED BY <2>1, SmallestMember
  <2>3. PICK w \in all : w.seq = m
    OBVIOUS
  <2>4. w \notin kept
    <3>1. \A u \in all : u.seq \in N /\ w.seq <= u.seq
      BY <2>2, <2>3
    <3>2. \A u \in all : u.seq \in Nat
      BY <2>1, <3>1
    <3> QED BY <3>1, <3>2
  <2>5. kept \subseteq all \ {w}
    BY <2>4
  <2>6. Kept(r) = kept
    BY <1>3 DEF Kept
  <2> HIDE DEF kept, N, all
  <2>7. IsFiniteSet(all \ {w}) /\ Cardinality(all \ {w}) = Cardinality(all) - 1
    BY <1>1, <2>3, FS_RemoveElement
  <2>8. IsFiniteSet(kept) /\ Cardinality(kept) <= Cardinality(all \ {w})
        /\ Cardinality(kept) \in Nat
    BY <2>5, <2>7, FS_Subset, FS_CardinalityType
  <2>9. Cardinality(kept) <= MaxVolatile
    BY <1>1, <2>7, <2>8
  <2>10. kept \subseteq all
    BY <2>5
  <2> QED BY <2>6, <2>8, <2>9, <2>10 DEF all
<1> QED BY <1>2, <1>3

(* A step that changes one subscriber only.                                 *)
LEMMA OneFollows ==
  ASSUME StreamInv, SubInv, UNCHANGED log, NEW s \in Subscribers, NEW x,
         Within(x, last), ~failed => Joined(x, last), sub' = [sub EXCEPT ![s] = x]
  PROVE  StreamInv'
<1>1. \A u \in Subscribers : sub'[u] = IF u = s THEN x ELSE sub[u]
  BY DEF SubInv
<1>2. LogBounds' /\ (~failed' => LogWhole') /\ last' = last /\ failed' = failed
  BY DEF log, StreamInv, LogBounds, LogWhole
<1>3. ASSUME NEW u \in Subscribers
      PROVE  Within(sub'[u], last) /\ (~failed => Joined(sub'[u], last))
  <2>1. CASE u = s
    BY <1>1, <2>1
  <2>2. CASE u # s
    BY <1>1, <2>2 DEF StreamInv
  <2> QED BY <2>1, <2>2
<1> QED BY <1>2, <1>3 DEF StreamInv

(* The records dispatched are all those written, unless an append fails.    *)
LEMMA DispatchFollows ==
  ASSUME LogOK, SubInv, StreamInv, NEW records \in Seq(Records), Dispatch(records),
         last' \in Nat, last <= last', \A i \in DOMAIN records : records[i].seq \in 1 .. last',
         ~failed' => ~failed /\ last' = last + 1 /\ Len(records) = 1 /\ records[1].seq = last + 1
  PROVE  \A s \in Subscribers :
           Within(sub'[s], last') /\ (~failed' => Joined(sub'[s], last'))
<1> SUFFICES ASSUME NEW s \in Subscribers
             PROVE  Within(sub'[s], last') /\ (~failed' => Joined(sub'[s], last'))
  OBVIOUS
<1> DEFINE x == sub[s]
           n == last
           m == last'
<1>1. x \in SubRecords /\ Within(x, n) /\ (~failed => Joined(x, n))
  BY DEF SubInv, StreamInv
<1>2. n \in Nat /\ m \in Nat /\ n <= m
  BY DEF LogOK
<1>3. CASE ~Subscribed(s)
  <2>1. sub'[s] = x /\ x.at \notin {"asked", "read", "replaying", "live"}
    BY <1>3 DEF Dispatch, Subscribed
  <2> HIDE DEF x, n, m
  <2>2. Within(x, m) /\ Joined(x, m)
    BY <1>1, <1>2, <2>1 DEF Within, Joined
  <2> QED BY <2>1, <2>2 DEF m
<1>4. CASE Subscribed(s)
  <2> DEFINE q == x.queue \o records
             y == [x EXCEPT !.queue = q]
             l == Len(x.queue)
             h == Len(records)
  <2>1. sub'[s] = y
    BY <1>4 DEF Dispatch
  <2>2. x.queue \in Seq(Records)
    BY <1>1 DEF SubRecords
  <2>3. /\ q \in Seq(Records) /\ l \in Nat /\ h \in Nat /\ Len(q) = l + h
        /\ DOMAIN q = 1 .. (l + h) /\ DOMAIN x.queue = 1 .. l /\ DOMAIN records = 1 .. h
        /\ \A i \in 1 .. l : q[i] = x.queue[i]
        /\ \A i \in (l + 1) .. (l + h) : i - l \in 1 .. h /\ q[i] = records[i - l]
    BY <2>2, ConcatIs
  <2> HIDE DEF q, l, h
  <2>4. /\ y.at = x.at /\ y.cursor = x.cursor /\ y.replay = x.replay /\ y.high = x.high
        /\ y.seen = x.seen /\ y.queue = q
    BY <1>1, <2>3 DEF SubRecords
  <2> HIDE DEF x, y, n, m
  <2>5. \A i \in DOMAIN q : i \in 1 .. l \/ i \in (l + 1) .. (l + h)
    BY <2>3
  <2>6. \A i \in DOMAIN q : q[i].seq \in 1 .. m
    <3>1. \A i \in 1 .. l : q[i].seq \in 1 .. m
      <4>1. ASSUME NEW i \in 1 .. l PROVE q[i].seq \in 1 .. n
        BY <1>1, <2>3, <4>1 DEF Within
      <4>2. 1 .. n \subseteq 1 .. m
        BY <1>2
      <4> QED BY <4>1, <4>2
    <3>2. \A i \in (l + 1) .. (l + h) : q[i].seq \in 1 .. m
      BY <2>3 DEF m
    <3> QED BY <2>5, <3>1, <3>2
  <2>7. Within(y, m)
    BY <1>1, <1>2, <2>4, <2>6 DEF Within
  <2>8. ASSUME ~failed' PROVE Joined(y, m)
    <3>1. /\ Joined(x, n) /\ m = n + 1 /\ h = 1 /\ records[1].seq = m
      BY <1>1, <2>8 DEF n, m, h
    <3>2. m - Len(q) = n - l /\ Len(x.queue) = l
      BY <1>2, <2>3, <3>1 DEF l
    <3>3. x.at \in {"asked", "read", "replaying", "live"}
      BY <1>4 DEF Subscribed, x
    <3>4. \A i \in DOMAIN q : q[i].seq = m - Len(q) + i
      <4>1. \A i \in 1 .. l : q[i].seq = n - l + i
        BY <2>3, <3>1, <3>2, <3>3 DEF Joined
      <4>2. q[l + 1].seq = n - l + (l + 1)
        <5>1. l + 1 \in (l + 1) .. (l + h) /\ (l + 1) - l = 1
          BY <2>3, <3>1
        <5> QED BY <1>2, <2>3, <3>1, <5>1
      <4>3. \A i \in DOMAIN q : i \in 1 .. l \/ i = l + 1
        BY <2>3, <2>5, <3>1
      <4> QED BY <3>2, <4>1, <4>2, <4>3
    <3> QED BY <2>4, <3>1, <3>2, <3>4 DEF Joined, Filled
  <2> QED BY <2>1, <2>7, <2>8 DEF m
<1> QED BY <1>3, <1>4

(* An append that succeeds, and one that fails.                             *)
LEMMA RecordFollows ==
  ASSUME EventsInv, NEW kind \in Kinds, RecordEvent(kind) \/ RecordFails(kind)
  PROVE  StreamInv'
<1>1. LogOK /\ SubInv /\ StreamInv /\ LogBounds
  BY DEF EventsInv, LogInv, StreamInv
<1>2. /\ last \in Nat /\ Number \in Nat /\ last' = Number /\ last < Number /\ last' \in Nat
      /\ gap = <<>> => Number = last + 1
      /\ gap # <<>> => Number = last + 2
  BY <1>1, NumberIsNext DEF RecordEvent, RecordFails, LogOK
<1>3. /\ Rec(Number, kind) \in Records /\ Rec(Number, kind).seq = Number
      /\ Marker(last + 1).seq = last + 1
  BY <1>2 DEF Rec, Records, Marker
<1>4. /\ gap = <<>> => Lines(kind) = <<Rec(Number, kind)>>
      /\ gap # <<>> => Lines(kind) = <<Marker(last + 1), Rec(Number, kind)>>
  BY DEF Lines
<1>5. \A i \in DOMAIN Lines(kind) : Lines(kind)[i].seq \in 1 .. last'
  BY <1>2, <1>3, <1>4
<1>6. \A i \in DOMAIN <<Rec(Number, kind)>> : <<Rec(Number, kind)>>[i].seq \in 1 .. last'
  BY <1>2, <1>3
<1>7. ASSUME NEW k \in 0 .. Len(Lines(kind)), file' = file \cup Written(Lines(kind), k),
             IsFiniteSet(volatile'), Cardinality(volatile') <= MaxVolatile,
             volatile' \subseteq volatile \cup {Rec(Number, kind)}
      PROVE  LogBounds'
  <2>1. \A i \in (IF torn THEN 2 ELSE 1) .. k : i \in DOMAIN Lines(kind)
    BY <1>4, <1>7
  <2>2. \A r \in Written(Lines(kind), k) : r.seq \in 1 .. last'
    BY <1>5, <2>1 DEF Written
  <2>3. \A r \in file \cup volatile : r.seq \in 1 .. last'
    BY <1>1, <1>2 DEF LogBounds
  <2>4. Rec(Number, kind).seq \in 1 .. last'
    BY <1>2, <1>3
  <2>5. \A r \in file' \cup volatile' : r.seq \in 1 .. last'
    BY <1>7, <2>2, <2>3, <2>4
  <2> QED BY <1>7, <2>5 DEF LogBounds
<1>8. CASE RecordEvent(kind)
  <2>1. Len(Lines(kind)) \in 0 .. Len(Lines(kind))
    BY <1>4
  <2>2. LogBounds'
    <3>1. file' = file \cup Written(Lines(kind), Len(Lines(kind))) /\ volatile' = volatile
      BY <1>8 DEF RecordEvent
    <3> QED BY <1>1, <1>7, <2>1, <3>1 DEF LogBounds
  <2>3. failed' = failed
    BY <1>8 DEF RecordEvent
  <2>4. ASSUME ~failed
        PROVE  /\ LogWhole' /\ last' = last + 1 /\ Len(Lines(kind)) = 1
               /\ Lines(kind)[1].seq = last + 1
    <3>1. gap = <<>> /\ ~torn /\ volatile = {} /\ 1 .. last \subseteq Seqs(file)
      BY <2>4 DEF StreamInv, LogWhole, EventsInv
    <3>2. /\ file' = file \cup {Rec(Number, kind)} /\ ~torn' /\ gap' = <<>> /\ volatile' = {}
          /\ last' = last + 1
      BY <1>2, <1>8, <3>1, AllWritten DEF RecordEvent
    <3>3. 1 .. last' \subseteq Seqs(file')
      <4>1. \A i \in 1 .. last' : i \in 1 .. last \/ i = Number
        BY <1>2, <3>1
      <4>2. Seqs(file) \subseteq Seqs(file') /\ Number \in Seqs(file')
        BY <1>3, <3>2 DEF Seqs
      <4> QED BY <3>1, <4>1, <4>2
    <3>4. LogWhole'
      BY <3>2, <3>3 DEF LogWhole
    <3>5. Len(Lines(kind)) = 1 /\ Lines(kind)[1].seq = last + 1
      BY <1>2, <1>3, <1>4, <3>1
    <3> QED BY <3>2, <3>4, <3>5
  <2>5. Dispatch(Lines(kind))
    BY <1>8 DEF RecordEvent
  <2>6. \A s \in Subscribers : Within(sub'[s], last') /\ (~failed' => Joined(sub'[s], last'))
    BY <1>1, <1>2, <1>5, <2>3, <2>4, <2>5, LinesAreRecords, DispatchFollows
  <2> QED BY <2>2, <2>3, <2>4, <2>6 DEF StreamInv
<1>9. CASE RecordFails(kind)
  <2>1. failed' /\ volatile' = Kept(Rec(Number, kind)) /\ Dispatch(<<Rec(Number, kind)>>)
    BY <1>9 DEF RecordFails
  <2>2. PICK k \in 0 .. Len(Lines(kind)) : file' = file \cup Written(Lines(kind), k)
    BY <1>9 DEF RecordFails
  <2>3. LogBounds'
    BY <1>1, <1>3, <1>7, <2>1, <2>2, KeptIsBounded
  <2>4. \A s \in Subscribers : Within(sub'[s], last') /\ (~failed' => Joined(sub'[s], last'))
    <3> DEFINE one == <<Rec(Number, kind)>>
    <3>1. /\ one \in Seq(Records) /\ Dispatch(one)
          /\ \A i \in DOMAIN one : one[i].seq \in 1 .. last'
      BY <1>1, <1>6, <2>1, LinesAreRecords
    <3> HIDE DEF one
    <3>2. last' \in Nat /\ last <= last'
      BY <1>2
    <3> QED BY <1>1, <2>1, <3>1, <3>2, DispatchFollows
  <2> QED BY <2>1, <2>3, <2>4 DEF StreamInv
<1> QED BY <1>8, <1>9

(* A consumer resumes at a number it was given, with an empty queue.        *)
LEMMA SubscribeFollows ==
  ASSUME EventsInv, NEW s \in Subscribers, Subscribe(s)
  PROVE  StreamInv'
<1> DEFINE x == sub[s]
           c == IF x.seen = <<>> THEN 0 ELSE x.seen[Len(x.seen)]
           q == <<>>
           m == x.replays + 1
           y == [x EXCEPT !.at = "asked", !.queue = q, !.replays = m, !.cursor = c]
<1>1. /\ x \in SubRecords /\ SubInv /\ StreamInv /\ LogOK /\ Within(x, last)
  BY DEF EventsInv, SubInv, StreamInv, LogInv
<1>2. sub' = [sub EXCEPT ![s] = y] /\ UNCHANGED log
  BY <1>1 DEF Subscribe
<1>3. x.seen \in Seq(Nat) /\ Len(x.seen) \in Nat /\ DOMAIN x.seen = 1 .. Len(x.seen)
      /\ last \in Nat
  BY <1>1 DEF SubRecords, LogOK
<1>4. c \in 0 .. last
  BY <1>1, <1>3 DEF Within
<1>5. c \in Nat /\ q \in Seq(Records) /\ m \in Nat /\ "asked" \in Stages
  BY <1>1, <1>3, <1>4 DEF SubRecords, Stages
<1>6. DOMAIN q = {}
  OBVIOUS
<1>7. /\ y.seen = x.seen /\ y.at = "asked" /\ y.cursor = c /\ y.high = x.high
      /\ y.replay = x.replay /\ y.queue = q
  <2> HIDE DEF c, x, q, m
  <2> QED BY <1>1, <1>5 DEF SubRecords
<1> HIDE DEF y, c, x, q
<1>8. Within(y, last)
  BY <1>1, <1>4, <1>6, <1>7 DEF Within
<1>9. Joined(y, last)
  BY <1>6, <1>7 DEF Joined
<1> QED BY <1>1, <1>2, <1>8, <1>9, OneFollows

(* What is read of a whole file has all numbers after the cursor.           *)
LEMMA ReadFollows ==
  ASSUME EventsInv, Read
  PROVE  StreamInv'
<1> DEFINE s == Head(jobs).for
           x == sub[s]
           a == After(file, x.cursor)
           y == [x EXCEPT !.at = "read", !.replay = a]
<1>0. SubInv /\ StreamInv /\ LogOK /\ LogBounds /\ last \in Nat /\ UNCHANGED log
  BY DEF EventsInv, LogInv, StreamInv, Read, LogOK
<1>1. CASE sub' = sub
  BY <1>0, <1>1 DEF StreamInv, LogBounds, LogWhole, log
<1>2. CASE sub' # sub
  <2>1. s \in Subscribers /\ x.at = "asked" /\ sub' = [sub EXCEPT ![s] = y]
    BY <1>2 DEF Read, EventsInv, SubInv
  <2>2. x \in SubRecords /\ Within(x, last) /\ (~failed => Joined(x, last))
    BY <2>1 DEF EventsInv, SubInv, StreamInv
  <2>3. a \subseteq Records /\ \A r \in a : r.seq \in 1 .. last
    BY <1>0 DEF After, LogOK, LogBounds
  <2>4. x.cursor \in Nat /\ \A i \in Seqs(a) : i \in 1 .. last
    BY <2>2, <2>3 DEF SubRecords, Seqs
  <2>5. ASSUME ~failed, NEW i \in 1 .. last, x.cursor < i PROVE i \in Seqs(a)
    <3>1. PICK r \in file : r.seq = i
      BY <1>0, <2>5 DEF StreamInv, LogWhole, Seqs
    <3>2. r \in a
      BY <2>5, <3>1 DEF After
    <3> QED BY <3>1, <3>2 DEF Seqs
  <2> HIDE DEF a
  <2>6. /\ y.seen = x.seen /\ y.at = "read" /\ y.cursor = x.cursor /\ y.high = x.high
        /\ y.replay = a /\ y.queue = x.queue /\ Len(x.queue) \in Nat
    BY <2>2, <2>3 DEF SubRecords, Stages
  <2>7. s \in Subscribers /\ sub' = [sub EXCEPT ![s] = y]
    BY <2>1
  <2> HIDE DEF x, y, s
  <2>8. Within(y, last)
    BY <2>2, <2>3, <2>6 DEF Within
  <2>9. ASSUME ~failed PROVE Joined(y, last)
    <3>1. \A i \in x.cursor + 1 .. last - Len(x.queue) : i \in Seqs(a)
      BY <1>0, <2>4, <2>5, <2>6, <2>9
    <3>2. ASSUME NEW i \in Seqs(a), NEW k \in x.cursor + 1 .. i PROVE k \in Seqs(a)
      BY <1>0, <2>4, <2>5, <2>9, <3>2
    <3> QED BY <2>1, <2>2, <2>6, <2>9, <3>1, <3>2 DEF Joined, Filled
  <2> QED BY <1>0, <2>7, <2>8, <2>9, OneFollows
<1> QED BY <1>1, <1>2

(* The high water mark is the last number after the cursor that was read,   *)
(* or the cursor: what was read reaches to the queue, so does the mark.     *)
LEMMA MergeFollows ==
  ASSUME EventsInv, NEW s \in Subscribers, Merge(s)
  PROVE  StreamInv'
<1> DEFINE x == sub[s]
           a == Merged(s)
<1>1. PICK n \in 0 .. last :
        /\ HighWater(s, n)
        /\ sub' = [sub EXCEPT ![s].at = "replaying", ![s].replay = a, ![s].high = n]
  BY DEF Merge
<1> DEFINE y == [x EXCEPT !.at = "replaying", !.replay = a, !.high = n]
<1>2. /\ SubInv /\ StreamInv /\ LogOK /\ LogBounds /\ last \in Nat /\ UNCHANGED log
      /\ x \in SubRecords /\ x.at = "read" /\ Within(x, last) /\ (~failed => Joined(x, last))
      /\ sub' = [sub EXCEPT ![s] = y]
  BY <1>1 DEF EventsInv, LogInv, SubInv, StreamInv, Merge, LogOK
<1>3. a \subseteq Records /\ \A r \in a : r.seq \in 1 .. last
  BY <1>2 DEF Merged, After, LogOK, LogBounds, SubRecords, Within
<1>4. ~failed => a = x.replay
  <2> SUFFICES ASSUME ~failed PROVE a = x.replay
    OBVIOUS
  <2>1. volatile = {}
    BY <1>2 DEF StreamInv, LogWhole
  <2> QED BY <2>1 DEF Merged, After
<1>5. /\ x.cursor \in 0 .. last /\ n \in 0 .. last /\ x.cursor <= n
      /\ n = x.cursor \/ n \in Seqs(a)
      /\ \A m \in Seqs(a) : m <= n
  BY <1>1, <1>2 DEF HighWater, Within
<1>6. n \in Nat /\ x.cursor \in Nat /\ x.queue \in Seq(Records) /\ Len(x.queue) \in Nat
  BY <1>2, <1>5 DEF SubRecords
<1> HIDE DEF a
<1>7. /\ y.seen = x.seen /\ y.at = "replaying" /\ y.cursor = x.cursor /\ y.high = n
      /\ y.replay = a /\ y.queue = x.queue
  BY <1>2, <1>3, <1>6 DEF SubRecords, Stages
<1> HIDE DEF x, y
<1>8. Within(y, last)
  BY <1>2, <1>3, <1>5, <1>7 DEF Within
<1>9. ASSUME ~failed PROVE Joined(y, last)
  <2>1. /\ \A m \in x.cursor + 1 .. last - Len(x.queue) : m \in Seqs(a)
        /\ \A m \in Seqs(a) : \A k \in x.cursor + 1 .. m : k \in Seqs(a)
        /\ \A i \in DOMAIN x.queue : x.queue[i].seq = last - Len(x.queue) + i
    BY <1>2, <1>4, <1>9 DEF Joined
  <2>2. \A m \in x.cursor + 1 .. n : m \in Seqs(a)
    BY <1>5, <1>6, <2>1
  <2>3. last - Len(x.queue) <= n
    <3>1. CASE last - Len(x.queue) <= x.cursor
      BY <1>2, <1>5, <1>6, <3>1
    <3>2. CASE ~(last - Len(x.queue) <= x.cursor)
      <4>1. last - Len(x.queue) \in x.cursor + 1 .. last - Len(x.queue)
        BY <1>2, <1>6, <3>2
      <4> QED BY <1>5, <2>1, <4>1
    <3> QED BY <3>1, <3>2
  <2>4. Filled(y)
    BY <1>7, <2>2 DEF Filled
  <2> QED BY <1>7, <2>1, <2>3, <2>4 DEF Joined
<1> QED BY <1>2, <1>8, <1>9, OneFollows

(* What is given is not missing: it goes from what is to be replayed, or    *)
(* from the queue, to what was seen.                                        *)
LEMMA GivenIsSeen ==
  ASSUME NEW s \in Seq(Nat), NEW n \in Nat
  PROVE  /\ Range(Append(s, n)) = Range(s) \cup {n}
         /\ \A i \in DOMAIN Append(s, n) : Append(s, n)[i] \in Range(s) \cup {n}
<1> DEFINE t == Append(s, n)
           l == Len(s)
<1>1. /\ t \in Seq(Nat) /\ l \in Nat /\ DOMAIN s = 1 .. l /\ DOMAIN t = 1 .. (l + 1)
      /\ \A i \in 1 .. l : t[i] = s[i]
      /\ t[l + 1] = n
  BY AppendProperties
<1> HIDE DEF t, l
<1>2. /\ \A i \in DOMAIN t : i \in 1 .. l \/ i = l + 1
      /\ \A i \in 1 .. l : i \in DOMAIN t
      /\ l + 1 \in DOMAIN t
  BY <1>1
<1>3. Range(t) = Range(s) \cup {n}
  BY <1>1, <1>2 DEF Range
<1> QED BY <1>3 DEF Range, t

(* A replayed record that is given.                                         *)
LEMMA YieldFollows ==
  ASSUME EventsInv, NEW s \in Subscribers, YieldReplayed(s)
  PROVE  StreamInv'
<1> DEFINE x == sub[s]
<1>1. /\ SubInv /\ StreamInv /\ last \in Nat /\ UNCHANGED log
      /\ x \in SubRecords /\ x.at = "replaying" /\ Within(x, last)
      /\ ~failed => Joined(x, last)
  BY DEF EventsInv, LogInv, SubInv, StreamInv, YieldReplayed, LogOK
<1>2. PICK r \in x.replay :
        sub' = [sub EXCEPT ![s] = [Given(s, r) EXCEPT !.replay = {q \in @ : q.seq # r.seq}]]
  BY DEF YieldReplayed
<1> DEFINE g == Given(s, r)
           left == {q \in x.replay : q.seq # r.seq}
           y == [g EXCEPT !.replay = left]
           seen == Append(x.seen, r.seq)
<1>3. r \in Records /\ r.seq \in Nat /\ r.seq \in 1 .. last /\ x.seen \in Seq(Nat)
  BY <1>1 DEF SubRecords, Records, Within
<1>4. /\ g \in SubRecords /\ g.seen = seen /\ g.at \in {"replaying", "ended"}
      /\ g.replay = x.replay /\ g.high = x.high /\ g.queue = x.queue /\ g.cursor = x.cursor
  BY <1>1, <1>3, GivenShape
<1>5. sub' = [sub EXCEPT ![s] = y]
  BY <1>2, <1>4
<1>6. left \subseteq Records
  BY <1>1 DEF SubRecords
<1>7. /\ Range(seen) = Range(x.seen) \cup {r.seq}
      /\ \A i \in DOMAIN seen : seen[i] \in Range(x.seen) \cup {r.seq}
  BY <1>3, GivenIsSeen
<1>8. Seqs(x.replay) \subseteq Seqs(left) \cup {r.seq}
  BY DEF Seqs
<1>9. \A q \in left : q \in x.replay
  OBVIOUS
<1> HIDE DEF g, left, seen
<1>10. /\ y.seen = seen /\ y.at \in {"replaying", "ended"} /\ y.replay = left
       /\ y.high = x.high /\ y.queue = x.queue /\ y.cursor = x.cursor
  BY <1>4, <1>6 DEF SubRecords
<1> HIDE DEF x, y
<1>11. Within(y, last)
  <2>1. \A i \in DOMAIN seen : seen[i] \in 1 .. last
    BY <1>1, <1>3, <1>7 DEF Within, Range
  <2> QED BY <1>1, <1>9, <1>10, <2>1 DEF Within
<1>12. ASSUME ~failed PROVE Joined(y, last)
  <2>1. Filled(y)
    BY <1>1, <1>7, <1>8, <1>10, <1>12 DEF Joined, Filled
  <2> QED BY <1>1, <1>10, <1>12, <2>1 DEF Joined
<1> QED BY <1>1, <1>5, <1>11, <1>12, OneFollows

(* The end of a replay.                                                     *)
LEMMA FollowFollows ==
  ASSUME EventsInv, NEW s \in Subscribers, Follow(s)
  PROVE  StreamInv'
<1> DEFINE x == sub[s]
           place == IF completed THEN "ended" ELSE "live"
           y == [x EXCEPT !.at = place]
<1>1. /\ SubInv /\ StreamInv /\ UNCHANGED log /\ sub' = [sub EXCEPT ![s] = y]
      /\ x \in SubRecords /\ x.at = "replaying" /\ Within(x, last)
      /\ ~failed => Joined(x, last)
  BY DEF EventsInv, SubInv, StreamInv, Follow
<1>2. place \in {"ended", "live"}
  OBVIOUS
<1> HIDE DEF place
<1>3. /\ y.seen = x.seen /\ y.at \in {"ended", "live"} /\ y.replay = x.replay
      /\ y.high = x.high /\ y.queue = x.queue /\ y.cursor = x.cursor
  BY <1>1, <1>2 DEF SubRecords, Stages
<1> HIDE DEF x, y
<1>4. Within(y, last)
  BY <1>1, <1>3 DEF Within
<1>5. ASSUME ~failed PROVE Joined(y, last)
  BY <1>1, <1>3, <1>5 DEF Joined, Filled
<1> QED BY <1>1, <1>4, <1>5, OneFollows

(* The queue begins at the number after the mark, or before: what is taken  *)
(* is the next one, or was given already.                                   *)
LEMMA TakeFollows ==
  ASSUME EventsInv, NEW s \in Subscribers, TakeQueued(s)
  PROVE  StreamInv'
<1> DEFINE x == sub[s]
           r == Head(x.queue)
           rest == Tail(x.queue)
<1>1. /\ SubInv /\ StreamInv /\ last \in Nat /\ UNCHANGED log
      /\ x \in SubRecords /\ x.at = "live" /\ x.queue # <<>> /\ Within(x, last)
      /\ ~failed => Joined(x, last)
  BY DEF EventsInv, LogInv, SubInv, StreamInv, TakeQueued, LogOK
<1>2. x.queue \in Seq(Records) /\ x.seen \in Seq(Nat) /\ x.high \in Nat /\ x.cursor \in Nat
  BY <1>1 DEF SubRecords
<1>3. /\ r \in Records /\ rest \in Seq(Records) /\ r = x.queue[1] /\ 1 \in DOMAIN x.queue
      /\ Len(x.queue) \in Nat /\ Len(rest) = Len(x.queue) - 1 /\ Len(rest) \in Nat
      /\ \A i \in DOMAIN rest : i \in Nat /\ i + 1 \in DOMAIN x.queue /\ rest[i] = x.queue[i + 1]
  BY <1>1, <1>2
<1>4. r.seq \in Nat /\ r.seq \in 1 .. last
  BY <1>1, <1>3 DEF Records, Within
<1>5. \A i \in DOMAIN rest : rest[i].seq \in 1 .. last
  BY <1>1, <1>3 DEF Within
<1>6. ASSUME ~failed
      PROVE  /\ r.seq = last - Len(rest) /\ r.seq <= x.high + 1 /\ Filled(x)
             /\ \A i \in DOMAIN rest : rest[i].seq = last - Len(rest) + i
  <2>1. \A i \in DOMAIN x.queue : x.queue[i].seq = last - Len(x.queue) + i
    BY <1>1, <1>6 DEF Joined
  <2>2. last - Len(x.queue) <= x.high /\ Filled(x)
    BY <1>1, <1>6 DEF Joined
  <2>3. r.seq = last - Len(x.queue) + 1
    BY <1>3, <2>1
  <2>4. \A i \in DOMAIN rest : rest[i].seq = last - Len(x.queue) + (i + 1)
    BY <1>3, <2>1
  <2> DEFINE l == Len(x.queue)
             k == Len(rest)
             a == last - l
             b == last - k
  <2>5. l \in Nat /\ k = l - 1 /\ last \in Nat
    BY <1>1, <1>3
  <2>6. \A i \in DOMAIN rest : i \in Nat
    BY <1>3
  <2>7. a \in Int /\ b = a + 1
    <3> HIDE DEF l, k
    <3> QED BY <2>5
  <2>8. r.seq = b
    BY <2>3, <2>7
  <2>9. r.seq <= x.high + 1
    <3> HIDE DEF x, r, rest
    <3> QED BY <1>2, <2>2, <2>3, <2>7
  <2>10. \A i \in DOMAIN rest : rest[i].seq = b + i
    <3> HIDE DEF b, x, r, rest
    <3> QED BY <2>4, <2>6, <2>7
  <2> QED BY <2>2, <2>8, <2>9, <2>10
<1>7. CASE r.seq > x.high
  <2> DEFINE g == Given(s, r)
             h == r.seq
             seen == Append(x.seen, r.seq)
             y == [g EXCEPT !.queue = rest, !.high = h]
  <2>1. /\ g \in SubRecords /\ g.seen = seen /\ g.at \in {"live", "ended"}
        /\ g.queue = x.queue /\ g.cursor = x.cursor /\ g.replay = x.replay
    BY <1>1, <1>3, GivenShape
  <2>2. sub' = [sub EXCEPT ![s] = y]
    BY <1>7, <2>1 DEF TakeQueued
  <2>3. /\ Range(seen) = Range(x.seen) \cup {h}
        /\ \A i \in DOMAIN seen : seen[i] \in Range(x.seen) \cup {h}
    BY <1>2, <1>4, GivenIsSeen
  <2>4. h \in Nat /\ h = r.seq
    BY <1>4
  <2> HIDE DEF g, rest, h, seen
  <2>5. /\ y.seen = seen /\ y.high = h /\ y.at \in {"live", "ended"} /\ y.queue = rest
        /\ y.cursor = x.cursor /\ y.replay = x.replay
    BY <1>3, <2>1, <2>4 DEF SubRecords
  <2> HIDE DEF x, y, r
  <2>6. Within(y, last)
    <3>1. \A i \in DOMAIN seen : seen[i] \in 1 .. last
      BY <1>1, <1>4, <2>3, <2>4 DEF Within, Range
    <3>2. h \in 0 .. last
      BY <1>4, <2>4
    <3> QED BY <1>1, <1>5, <2>5, <3>1, <3>2 DEF Within
  <2>7. ASSUME ~failed PROVE Joined(y, last)
    <3>1. h = x.high + 1 /\ h = last - Len(rest)
      BY <1>2, <1>6, <1>7, <2>4, <2>7
    <3>2. \A i \in x.cursor + 1 .. h : i \in x.cursor + 1 .. x.high \/ i = h
      BY <1>2, <2>4, <3>1
    <3>3. Filled(y)
      BY <1>6, <2>3, <2>5, <2>7, <3>2 DEF Filled
    <3>4. last - Len(rest) <= h
      BY <1>4, <2>4, <3>1
    <3> QED BY <1>6, <2>5, <2>7, <3>3, <3>4 DEF Joined
  <2> QED BY <1>1, <2>2, <2>6, <2>7, OneFollows
<1>8. CASE ~(r.seq > x.high)
  <2> DEFINE y == [x EXCEPT !.queue = rest]
  <2>1. sub' = [sub EXCEPT ![s] = y]
    BY <1>8 DEF TakeQueued
  <2> HIDE DEF rest
  <2>2. /\ y.seen = x.seen /\ y.high = x.high /\ y.at = "live" /\ y.queue = rest
        /\ y.cursor = x.cursor /\ y.replay = x.replay
    BY <1>1, <1>3 DEF SubRecords
  <2>3. r.seq <= x.high
    BY <1>2, <1>4, <1>8
  <2> HIDE DEF x, y, r
  <2>4. Within(y, last)
    BY <1>1, <1>5, <2>2 DEF Within
  <2>5. ASSUME ~failed PROVE Joined(y, last)
    <3>1. last - Len(rest) <= x.high
      BY <1>6, <2>3, <2>5
    <3> QED BY <1>6, <2>2, <2>5, <3>1 DEF Joined, Filled
  <2> QED BY <1>1, <2>1, <2>4, <2>5, OneFollows
<1> QED BY <1>7, <1>8

(* Leaving a subscription.                                                  *)
LEMMA CloseFollows ==
  ASSUME EventsInv, NEW s \in Subscribers, Close(s)
  PROVE  StreamInv'
<1> DEFINE x == sub[s]
           given == x.seen
           n == x.replays
           y == [Outside EXCEPT !.at = "closed", !.seen = given, !.replays = n]
<1>1. /\ SubInv /\ StreamInv /\ last \in Nat /\ UNCHANGED log /\ sub' = [sub EXCEPT ![s] = y]
      /\ x \in SubRecords /\ Within(x, last)
  BY DEF EventsInv, LogInv, SubInv, StreamInv, Close, LogOK
<1>2. given \in Seq(Nat) /\ n \in Nat
  BY <1>1 DEF SubRecords
<1>3. \A i \in DOMAIN given : given[i] \in 1 .. last
  BY <1>1 DEF Within
<1> HIDE DEF given, n
<1>4. /\ y.seen = given /\ y.at = "closed" /\ y.cursor = 0 /\ y.high = 0 /\ y.replay = {}
      /\ y.queue = <<>>
  BY <1>2 DEF Outside
<1> HIDE DEF x, y
<1>5. 0 \in 0 .. last /\ DOMAIN <<>> = {}
  BY <1>1
<1>6. Within(y, last) /\ Joined(y, last)
  BY <1>3, <1>4, <1>5 DEF Within, Joined
<1> QED BY <1>1, <1>6, OneFollows

(* EventsInv holds at the beginning, and every step keeps it.               *)
LEMMA EventsInvHolds == EventsInit => EventsInv
<1> SUFFICES ASSUME EventsInit PROVE EventsInv
  OBVIOUS
<1>1. LogOK /\ GapReachesLast
  BY DEF EventsInit, LogOK, GapReachesLast
<1>2. 1 .. last = {} /\ last = 0 /\ 0 \in 0 .. 0 /\ DOMAIN <<>> = {}
  BY DEF EventsInit
<1>3. Outside \in SubRecords /\ Outside.seen = <<>> /\ Outside.at = "outside"
      /\ Outside.cursor = 0 /\ Outside.high = 0 /\ Outside.replay = {} /\ Outside.queue = <<>>
  BY DEF Outside, SubRecords, Stages
<1>4. Ahead(Outside)
  BY <1>3 DEF Ahead, SeenSorted
<1>5. SubInv
  BY <1>3, <1>4 DEF EventsInit, SubInv
<1>6. Within(Outside, last) /\ Joined(Outside, last)
  BY <1>2, <1>3 DEF Within, Joined
<1>7. LogBounds
  <2>1. IsFiniteSet({}) /\ Cardinality({}) = 0 /\ 0 <= MaxVolatile
    BY FS_EmptySet, EventAssumptions
  <2> QED BY <2>1 DEF EventsInit, LogBounds
<1>8. LogWhole
  BY <1>2 DEF EventsInit, LogWhole
<1>9. StreamInv
  BY <1>6, <1>7, <1>8 DEF StreamInv, EventsInit
<1> QED BY <1>1, <1>2, <1>5, <1>9 DEF EventsInv, LogInv, GapsAreAnnounced

(* Every step keeps it.                                                     *)
LEMMA EventsInvStep == EventsInv /\ [EventsNext]_eventVars => EventsInv'
<1> SUFFICES ASSUME EventsInv, [EventsNext]_eventVars PROVE EventsInv'
  OBVIOUS
<1> USE DEF EventsInv
<1>1. ASSUME NEW kind \in Kinds, RecordEvent(kind) \/ RecordFails(kind) PROVE EventsInv'
  <2>1. LogInv'
    BY <1>1, RecordedStep, RecordFailsStep
  <2>2. Lines(kind) \in Seq(Records) /\ <<Rec(Number, kind)>> \in Seq(Records)
    BY LinesAreRecords DEF LogInv
  <2>3. Dispatch(Lines(kind)) \/ Dispatch(<<Rec(Number, kind)>>)
    BY <1>1 DEF RecordEvent, RecordFails
  <2>4. SubInv'
    BY <2>2, <2>3, DispatchStep
  <2> QED BY <1>1, <2>1, <2>4, RecordFollows
<1>2. ASSUME UNCHANGED log, SubInv', StreamInv' PROVE EventsInv'
  BY <1>2, LogUnchanged
<1>3. ASSUME UNCHANGED <<log, sub>> PROVE EventsInv'
  <2>1. SubInv' /\ StreamInv'
    BY <1>3 DEF log, SubInv, StreamInv, LogBounds, LogWhole
  <2> QED BY <1>2, <1>3, <2>1
<1>4. ASSUME NEW kind \in Kinds, Publish(kind) PROVE EventsInv'
  BY <1>3, <1>4 DEF Publish
<1>5. CASE Read
  BY <1>2, <1>5, ReadStep, ReadFollows DEF Read, LogInv
<1>6. ASSUME NEW s \in Subscribers, Subscribe(s) \/ Consume(s) \/ Close(s) PROVE EventsInv'
  <2>1. SubInv'
    BY <1>6, SubscribeStep, MergeStep, YieldStep, FollowStep, TakeStep, CloseStep
       DEF Consume, LogInv
  <2>2. StreamInv'
    BY <1>6, SubscribeFollows, MergeFollows, YieldFollows, FollowFollows, TakeFollows,
       CloseFollows DEF Consume
  <2>3. UNCHANGED log
    BY <1>6 DEF Subscribe, Consume, Merge, YieldReplayed, Follow, TakeQueued, Close
  <2> QED BY <1>2, <2>1, <2>2, <2>3
<1>7. CASE UNCHANGED eventVars
  BY <1>3, <1>7 DEF eventVars
<1> QED BY <1>1, <1>4, <1>5, <1>6, <1>7 DEF EventsNext, Writer

(* So it always holds.                                                      *)
LEMMA EventsInvAlways == EventsSpec => []EventsInv
<1> QED BY EventsInvHolds, EventsInvStep, PTL DEF EventsSpec

(* The log and the subscriptions keep their types: no number is beyond the  *)
(* last, and the deque of records that could not be written keeps its bound.*)
THEOREM EventsTypesCorrect == EventsSpec => []EventsTypeOK
<1>1. EventsInv => EventsTypeOK
  <2> SUFFICES ASSUME EventsInv PROVE EventsTypeOK
    OBVIOUS
  <2>1. LogOK /\ LogBounds
    BY DEF EventsInv, LogInv, StreamInv
  <2>2. ASSUME NEW s \in Subscribers
        PROVE  /\ sub[s].at \in Stages /\ sub[s].replay \subseteq Records
               /\ Range(sub[s].queue) \subseteq Records
               /\ {sub[s].cursor, sub[s].high} \subseteq 0 .. last
               /\ Range(sub[s].seen) \subseteq 1 .. last
    <3>1. sub[s] \in SubRecords /\ Within(sub[s], last)
      BY DEF EventsInv, SubInv, StreamInv
    <3>2. sub[s].queue \in Seq(Records) /\ sub[s].at \in Stages /\ sub[s].replay \subseteq Records
      BY <3>1 DEF SubRecords
    <3>3. \A i \in DOMAIN sub[s].queue : sub[s].queue[i] \in Records
      BY <3>2
    <3> QED BY <3>1, <3>2, <3>3 DEF Within, Range
  <2> QED BY <2>1, <2>2 DEF EventsTypeOK, LogBounds
<1> QED BY <1>1, EventsInvAlways, PTL

-----------------------------------------------------------------------------
(* How a stream ends.  turn_finished is the last event that is published,   *)
(* and the writer takes the events in their order: once it is recorded the  *)
(* last number stays, so a queue that reached to it still does.             *)
Jobs ==
  {[do |-> kind] : kind \in Kinds} \cup
  {[do |-> "read", for |-> s, nth |-> n] : s \in Subscribers, n \in Nat}
JobsInv ==
  /\ jobs \in Seq(Jobs)
  /\ \A i \in DOMAIN jobs : jobs[i].do = "turn_finished" =>
       events = MaxEvents /\ \A j \in DOMAIN jobs : i < j => jobs[j].do = "read"
  /\ completed => events = MaxEvents /\ \A i \in DOMAIN jobs : jobs[i].do = "read"

(* A record of turn_finished, wherever it is, is the last of a completed    *)
(* Run.                                                                     *)
Final(r, done, n) == r.event = "turn_finished" => done /\ r.seq = n
AllGiven(x, n) ==
  \A m \in x.cursor + 1 .. n : m \in Range(x.seen) \cup Seqs(Range(x.queue))
EndOf(x, done, n, broken) ==
  /\ \A r \in x.replay : Final(r, done, n)
  /\ \A i \in DOMAIN x.queue : Final(x.queue[i], done, n)
  /\ x.at = "live" => x.replay = {}
  /\ x.at = "ended" => done /\ (~broken => AllGiven(x, n))
EndInv ==
  /\ JobsInv
  /\ \A r \in file \cup volatile : Final(r, completed, last)
  /\ \A s \in Subscribers : EndOf(sub[s], completed, last, failed)

(* What the writer has to do is an event or a read.                         *)
LEMMA JobIs ==
  ASSUME NEW j \in Jobs
  PROVE  j.do \in Kinds \cup {"read"}
BY DEF Jobs

(* The first job is taken.                                                  *)
LEMMA JobTaken ==
  ASSUME JobsInv, jobs # <<>>, jobs' = Tail(jobs), events' = events,
         completed' <=> completed \/ Head(jobs).do = "turn_finished"
  PROVE  JobsInv'
<1>1. /\ jobs \in Seq(Jobs) /\ jobs' \in Seq(Jobs) /\ Len(jobs) \in Nat /\ Head(jobs) = jobs[1]
      /\ 1 \in DOMAIN jobs /\ DOMAIN jobs = 1 .. Len(jobs)
      /\ \A i \in DOMAIN jobs' : i \in Nat /\ 1 <= i /\ i + 1 \in DOMAIN jobs
                                 /\ jobs'[i] = jobs[i + 1]
  BY DEF JobsInv
<1>2. ASSUME NEW i \in DOMAIN jobs', jobs'[i].do = "turn_finished"
      PROVE  events' = MaxEvents /\ \A j \in DOMAIN jobs' : i < j => jobs'[j].do = "read"
  <2>1. events = MaxEvents /\ \A j \in DOMAIN jobs : i + 1 < j => jobs[j].do = "read"
    BY <1>1, <1>2 DEF JobsInv
  <2> QED BY <1>1, <2>1
<1>3. CASE completed
  BY <1>1, <1>2, <1>3 DEF JobsInv
<1>4. CASE ~completed /\ Head(jobs).do = "turn_finished"
  <2>1. events = MaxEvents /\ \A j \in DOMAIN jobs : 1 < j => jobs[j].do = "read"
    BY <1>1, <1>4 DEF JobsInv
  <2>2. \A i \in DOMAIN jobs' : jobs'[i].do = "read"
    BY <1>1, <2>1
  <2> QED BY <1>1, <1>2, <2>1, <2>2 DEF JobsInv
<1>5. CASE ~completed /\ Head(jobs).do # "turn_finished"
  BY <1>1, <1>2, <1>5 DEF JobsInv
<1> QED BY <1>3, <1>4, <1>5

(* One job more: a read, or the next event.                                 *)
LEMMA JobAdded ==
  ASSUME JobsInv, NEW j \in Jobs, jobs' = Append(jobs, j), completed' = completed,
         \/ j.do = "read" /\ events' = events
         \/ /\ events < MaxEvents /\ events' = events + 1
            /\ j.do = "turn_finished" => events + 1 = MaxEvents
  PROVE  JobsInv'
<1>1. /\ jobs \in Seq(Jobs) /\ jobs' \in Seq(Jobs) /\ Len(jobs) \in Nat
      /\ DOMAIN jobs = 1 .. Len(jobs) /\ DOMAIN jobs' = 1 .. Len(jobs) + 1
      /\ jobs'[Len(jobs) + 1] = j
      /\ \A i \in 1 .. Len(jobs) : jobs'[i] = jobs[i]
  BY AppendProperties DEF JobsInv
<1>2. \A i \in DOMAIN jobs' : i \in 1 .. Len(jobs) \/ i = Len(jobs) + 1
  BY <1>1
<1>3. CASE j.do = "read" /\ events' = events
  <2>1. ASSUME NEW i \in DOMAIN jobs', jobs'[i].do = "turn_finished"
        PROVE  events' = MaxEvents /\ \A k \in DOMAIN jobs' : i < k => jobs'[k].do = "read"
    <3>1. i \in DOMAIN jobs /\ jobs[i].do = "turn_finished"
      BY <1>1, <1>2, <1>3, <2>1
    <3>2. events = MaxEvents /\ \A k \in DOMAIN jobs : i < k => jobs[k].do = "read"
      BY <3>1 DEF JobsInv
    <3> QED BY <1>1, <1>2, <1>3, <3>2
  <2>2. completed => events' = MaxEvents /\ \A i \in DOMAIN jobs' : jobs'[i].do = "read"
    BY <1>1, <1>2, <1>3 DEF JobsInv
  <2> QED BY <1>1, <2>1, <2>2 DEF JobsInv
<1>4. CASE /\ events < MaxEvents /\ events' = events + 1
           /\ j.do = "turn_finished" => events + 1 = MaxEvents
  <2>1. events # MaxEvents
    BY <1>4, EventAssumptions
  <2>2. ~completed /\ \A i \in DOMAIN jobs : jobs[i].do # "turn_finished"
    BY <2>1 DEF JobsInv
  <2>3. ASSUME NEW i \in DOMAIN jobs', jobs'[i].do = "turn_finished"
        PROVE  events' = MaxEvents /\ \A k \in DOMAIN jobs' : i < k => jobs'[k].do = "read"
    <3>1. i = Len(jobs) + 1 /\ j.do = "turn_finished"
      BY <1>1, <1>2, <2>2, <2>3
    <3> QED BY <1>1, <1>4, <3>1
  <2> QED BY <1>1, <2>2, <2>3 DEF JobsInv
<1> QED BY <1>3, <1>4

(* What one append writes is of the event, or the marker before it.         *)
LEMMA LinesAreFinal ==
  ASSUME LogOK, NEW kind \in Kinds
  PROVE  /\ \A i \in DOMAIN Lines(kind) :
              Final(Lines(kind)[i], kind = "turn_finished", Number)
         /\ Final(Rec(Number, kind), kind = "turn_finished", Number)
         /\ \A k \in 0 .. Len(Lines(kind)) : \A r \in Written(Lines(kind), k) :
              Final(r, kind = "turn_finished", Number)
<1>1. Final(Rec(Number, kind), kind = "turn_finished", Number)
  BY DEF Final, Rec
<1>2. Final(Marker(last + 1), kind = "turn_finished", Number)
  BY DEF Final, Marker
<1>3. CASE gap = <<>>
  <2>1. Lines(kind) = <<Rec(Number, kind)>> /\ Len(Lines(kind)) = 1
        /\ DOMAIN Lines(kind) = 1 .. 1
    BY <1>3 DEF Lines
  <2> QED BY <1>1, <2>1 DEF Written
<1>4. CASE gap # <<>>
  <2>1. Lines(kind) = <<Marker(last + 1), Rec(Number, kind)>> /\ Len(Lines(kind)) = 2
        /\ DOMAIN Lines(kind) = 1 .. 2
    BY <1>4 DEF Lines
  <2> QED BY <1>1, <1>2, <2>1 DEF Written
<1> QED BY <1>3, <1>4

(* While an event waits to be recorded the Run is not completed: no stream  *)
(* has ended and no record is the final one.                                *)
LEMMA NoneIsFinal ==
  ASSUME EndInv, NEW kind \in Kinds, HeadIs(kind)
  PROVE  /\ ~completed
         /\ \A r \in file \cup volatile : r.event # "turn_finished"
         /\ \A s \in Subscribers :
              /\ sub[s].at # "ended"
              /\ \A r \in sub[s].replay : r.event # "turn_finished"
              /\ \A i \in DOMAIN sub[s].queue : sub[s].queue[i].event # "turn_finished"
<1>1. jobs \in Seq(Jobs) /\ jobs # <<>> /\ Head(jobs) = jobs[1] /\ 1 \in DOMAIN jobs
  BY DEF EndInv, JobsInv, HeadIs
<1>2. ~completed
  BY <1>1 DEF EndInv, JobsInv, HeadIs, Kinds
<1> QED BY <1>2 DEF EndInv, EndOf, Final

(* An event is recorded.                                                    *)
LEMMA RecordEnds ==
  ASSUME EndInv, EventsInv, NEW kind \in Kinds, RecordEvent(kind) \/ RecordFails(kind)
  PROVE  EndInv'
<1> DEFINE done == kind = "turn_finished"
<1>0. LogOK /\ SubInv /\ LogBounds
  BY DEF EventsInv, LogInv, StreamInv
<1>1. /\ HeadIs(kind) /\ jobs' = Tail(jobs) /\ events' = events /\ last' = Number
      /\ completed' = (completed \/ done)
  BY DEF RecordEvent, RecordFails
<1>2. JobsInv'
  <2>1. Head(jobs).do = kind /\ jobs # <<>>
    BY <1>1 DEF HeadIs
  <2>2. completed' <=> completed \/ Head(jobs).do = "turn_finished"
    BY <1>1, <2>1
  <2> QED BY <1>1, <2>1, <2>2, JobTaken DEF EndInv
<1>3. completed' = done /\ last' = Number
  BY <1>1, NoneIsFinal
<1>4. \A r \in file' \cup volatile' : Final(r, done, Number)
  <2>1. \A r \in file \cup volatile : Final(r, done, Number)
    BY <1>1, NoneIsFinal DEF Final
  <2>2. CASE RecordEvent(kind)
    <3>1. file' = file \cup Written(Lines(kind), Len(Lines(kind))) /\ volatile' = volatile
      BY <2>2 DEF RecordEvent
    <3>2. Len(Lines(kind)) \in 0 .. Len(Lines(kind))
      BY <1>0, LinesAreRecords
    <3> QED BY <1>0, <2>1, <3>1, <3>2, LinesAreFinal
  <2>3. CASE RecordFails(kind)
    <3>1. PICK k \in 0 .. Len(Lines(kind)) : file' = file \cup Written(Lines(kind), k)
      BY <2>3 DEF RecordFails
    <3>2. volatile' = Kept(Rec(Number, kind))
      BY <2>3 DEF RecordFails
    <3>a. Rec(Number, kind) \in Records
      BY <1>0, NumberIsNext DEF Rec, Records
    <3>3. Kept(Rec(Number, kind)) \subseteq volatile \cup {Rec(Number, kind)}
      BY <1>0, <3>a, KeptIsBounded
    <3> QED BY <1>0, <2>1, <3>1, <3>2, <3>3, LinesAreFinal
  <2> QED BY <2>2, <2>3
<1>5. PICK records \in Seq(Records) :
        /\ Dispatch(records)
        /\ \A i \in DOMAIN records : Final(records[i], done, Number)
  <2>1. CASE RecordEvent(kind)
    BY <1>0, <2>1, LinesAreRecords, LinesAreFinal DEF RecordEvent
  <2>2. CASE RecordFails(kind)
    <3>1. Dispatch(<<Rec(Number, kind)>>) /\ <<Rec(Number, kind)>> \in Seq(Records)
      BY <1>0, <2>2, LinesAreRecords DEF RecordFails
    <3>2. \A i \in DOMAIN <<Rec(Number, kind)>> :
            Final(<<Rec(Number, kind)>>[i], done, Number)
      BY <1>0, LinesAreFinal
    <3> QED BY <3>1, <3>2
  <2> QED BY <2>1, <2>2
<1> HIDE DEF done
<1>6. ASSUME NEW s \in Subscribers
      PROVE  EndOf(sub'[s], done, Number, failed')
  <2> DEFINE x == sub[s]
             more == x.queue \o records
  <2>1. /\ x \in SubRecords /\ x.at # "ended"
        /\ \A r \in x.replay : Final(r, done, Number)
        /\ \A i \in DOMAIN x.queue : Final(x.queue[i], done, Number)
        /\ x.at = "live" => x.replay = {}
    BY <1>0, <1>1, NoneIsFinal DEF SubInv, EndInv, EndOf, Final
  <2>2. sub'[s] = IF Subscribed(s) THEN [x EXCEPT !.queue = more] ELSE x
    BY <1>5 DEF Dispatch
  <2>3. /\ x.queue \in Seq(Records) /\ more \in Seq(Records)
        /\ \A i \in DOMAIN more :
             \/ i \in DOMAIN x.queue /\ more[i] = x.queue[i]
             \/ i - Len(x.queue) \in DOMAIN records /\ more[i] = records[i - Len(x.queue)]
    BY <1>5, <2>1 DEF SubRecords
  <2>4. \A i \in DOMAIN more : Final(more[i], done, Number)
    <3> HIDE DEF more, x
    <3> QED BY <1>5, <2>1, <2>3
  <2> HIDE DEF more
  <2>5. CASE Subscribed(s)
    <3> DEFINE y == [x EXCEPT !.queue = more]
    <3>1. y.queue = more /\ y.at = x.at /\ y.replay = x.replay
      BY <2>1, <2>3 DEF SubRecords
    <3>2. sub'[s] = y
      BY <2>2, <2>5
    <3> HIDE DEF y, x
    <3> QED BY <2>1, <2>4, <3>1, <3>2 DEF EndOf
  <2>6. CASE ~Subscribed(s)
    <3> HIDE DEF x
    <3> QED BY <2>1, <2>2, <2>6 DEF EndOf
  <2> QED BY <2>5, <2>6
<1> QED BY <1>2, <1>3, <1>4, <1>6 DEF EndInv

(* A step of one subscriber.                                                *)
LEMMA OneEnds ==
  ASSUME EndInv, SubInv, UNCHANGED log, JobsInv', NEW s \in Subscribers, NEW x,
         EndOf(x, completed, last, failed), sub' = [sub EXCEPT ![s] = x]
  PROVE  EndInv'
<1>1. \A u \in Subscribers : sub'[u] = IF u = s THEN x ELSE sub[u]
  BY DEF SubInv
<1>2. /\ completed' = completed /\ last' = last /\ failed' = failed
      /\ file' = file /\ volatile' = volatile
  BY DEF log
<1>3. \A u \in Subscribers : EndOf(sub'[u], completed, last, failed)
  BY <1>1 DEF EndInv
<1>4. \A u \in Subscribers : EndOf(sub'[u], completed', last', failed')
  BY <1>2, <1>3
<1>5. \A r \in file' \cup volatile' : Final(r, completed', last')
  BY <1>2 DEF EndInv
<1> QED BY <1>4, <1>5 DEF EndInv

(* What is published next is the next job, and so is a read.                *)
LEMMA PublishEnds ==
  ASSUME EndInv, NEW kind \in Kinds, Publish(kind)
  PROVE  EndInv'
<1>1. /\ events < MaxEvents /\ events' = events + 1 /\ jobs' = Append(jobs, [do |-> kind])
      /\ kind = "turn_finished" => events + 1 = MaxEvents
      /\ sub' = sub /\ UNCHANGED log
  BY DEF Publish
<1>2. [do |-> kind] \in Jobs /\ [do |-> kind].do = kind
  BY DEF Jobs
<1>3. completed' = completed
  BY <1>1 DEF log
<1>4. JobsInv'
  BY <1>1, <1>2, <1>3, JobAdded DEF EndInv
<1> QED BY <1>1, <1>4 DEF EndInv, log

(* A new stream has a job of its own and an empty queue.                    *)
LEMMA SubscribeEnds ==
  ASSUME EndInv, SubInv, NEW s \in Subscribers, Subscribe(s)
  PROVE  EndInv'
<1> DEFINE x == sub[s]
           c == IF x.seen = <<>> THEN 0 ELSE x.seen[Len(x.seen)]
           m == x.replays + 1
           y == [x EXCEPT !.at = "asked", !.queue = <<>>, !.replays = m, !.cursor = c]
           j == [do |-> "read", for |-> s, nth |-> m]
<1>1. x \in SubRecords /\ UNCHANGED <<events, log>> /\ jobs' = Append(jobs, j)
  BY DEF SubInv, Subscribe
<1>2. sub' = [sub EXCEPT ![s] = y]
  BY <1>1 DEF Subscribe
<1>3. m \in Nat
  BY <1>1 DEF SubRecords
<1>4. j \in Jobs /\ j.do = "read"
  <2> HIDE DEF m
  <2> QED BY <1>3 DEF Jobs
<1>5. completed' = completed
  BY <1>1 DEF log
<1> HIDE DEF j, c, m
<1>6. y.at = "asked" /\ y.replay = x.replay /\ y.queue = <<>>
  BY <1>1 DEF SubRecords
<1>7. DOMAIN <<>> = {}
  OBVIOUS
<1>8. EndOf(x, completed, last, failed)
  BY DEF EndInv
<1> HIDE DEF y, x
<1>9. EndOf(y, completed, last, failed)
  BY <1>6, <1>7, <1>8 DEF EndOf
<1>10. JobsInv'
  BY <1>1, <1>4, <1>5, JobAdded DEF EndInv
<1> QED BY <1>1, <1>2, <1>9, <1>10, OneEnds

(* The read of a replay changes no stream that has ended.                   *)
LEMMA ReadEnds ==
  ASSUME EndInv, SubInv, Read
  PROVE  EndInv'
<1> DEFINE s == Head(jobs).for
           x == sub[s]
           a == After(file, x.cursor)
           y == [x EXCEPT !.at = "read", !.replay = a]
<1>1. /\ jobs # <<>> /\ Head(jobs).do = "read" /\ jobs' = Tail(jobs)
      /\ UNCHANGED <<events, log>>
  BY DEF Read, HeadIs
<1>2. completed' <=> completed \/ Head(jobs).do = "turn_finished"
  BY <1>1 DEF log
<1>3. JobsInv'
  BY <1>1, <1>2, JobTaken DEF EndInv
<1>4. CASE sub' = sub
  BY <1>1, <1>3, <1>4 DEF EndInv, log
<1>5. CASE sub' # sub
  <2>1. s \in Subscribers /\ sub' = [sub EXCEPT ![s] = y]
    BY <1>5 DEF Read, SubInv
  <2>2. x \in SubRecords /\ EndOf(x, completed, last, failed)
    BY <2>1 DEF EndInv, SubInv
  <2>3. \A r \in a : Final(r, completed, last)
    BY DEF EndInv, After
  <2> HIDE DEF a
  <2>4. y.at = "read" /\ y.replay = a /\ y.queue = x.queue
    BY <2>2 DEF SubRecords
  <2> HIDE DEF x, y, s
  <2>5. EndOf(y, completed, last, failed)
    BY <2>2, <2>3, <2>4 DEF EndOf
  <2> QED BY <1>1, <1>3, <2>1, <2>5, OneEnds
<1> QED BY <1>4, <1>5

(* Merging goes on with a replay; it ends nothing.                          *)
LEMMA MergeEnds ==
  ASSUME EndInv, SubInv, NEW s \in Subscribers, Merge(s)
  PROVE  EndInv'
<1> DEFINE x == sub[s]
           a == Merged(s)
<1>1. x \in SubRecords /\ EndOf(x, completed, last, failed) /\ JobsInv
  BY DEF EndInv, SubInv
<1>2. PICK n \in 0 .. last :
        sub' = [sub EXCEPT ![s] = [x EXCEPT !.at = "replaying", !.replay = a, !.high = n]]
  BY <1>1 DEF Merge, SubRecords
<1>3. UNCHANGED <<jobs, events, log>>
  BY DEF Merge
<1>4. \A r \in a : Final(r, completed, last)
  BY <1>1 DEF Merged, After, EndOf, EndInv
<1> DEFINE y == [x EXCEPT !.at = "replaying", !.replay = a, !.high = n]
<1>5. sub' = [sub EXCEPT ![s] = y]
  BY <1>2
<1> HIDE DEF a
<1>6. y.at = "replaying" /\ y.replay = a /\ y.queue = x.queue
  BY <1>1 DEF SubRecords
<1> HIDE DEF x, y
<1>7. EndOf(y, completed, last, failed)
  BY <1>1, <1>4, <1>6 DEF EndOf
<1>8. JobsInv'
  BY <1>1, <1>3 DEF JobsInv, log
<1> QED BY <1>3, <1>5, <1>7, <1>8, OneEnds

(* The queue has the numbers from the high water mark on.                   *)
LEMMA QueueCovers ==
  ASSUME EventsInv, ~failed, NEW s \in Subscribers, sub[s].at \in {"replaying", "live"},
         NEW m \in sub[s].high + 1 .. last
  PROVE  m \in Seqs(Range(sub[s].queue))
<1> DEFINE q == sub[s].queue
           l == Len(q)
           i == m - (last - l)
<1>1. Joined(sub[s], last) /\ q \in Seq(Records) /\ sub[s].high \in Nat /\ last \in Nat
  BY DEF EventsInv, LogInv, LogOK, SubInv, StreamInv, SubRecords
<1>2. /\ \A k \in DOMAIN q : q[k].seq = last - l + k
      /\ last - l <= sub[s].high
  BY <1>1 DEF Joined
<1>3. l \in Nat /\ DOMAIN q = 1 .. l
  BY <1>1
<1>4. i \in 1 .. l /\ last - l + i = m
  <2> HIDE DEF l
  <2> QED BY <1>1, <1>2, <1>3
<1>5. q[i].seq = m /\ q[i] \in Range(q)
  BY <1>2, <1>3, <1>4 DEF Range
<1> QED BY <1>5 DEF Seqs

(* A consumer that follows, or is given its replay, has been told of all up *)
(* to the mark.                                                             *)
LEMMA StreamFilled ==
  ASSUME EventsInv, ~failed, NEW s \in Subscribers, sub[s].at \in {"replaying", "live"}
  PROVE  Filled(sub[s])
BY DEF EventsInv, StreamInv, Joined

(* A stream ends with the turn_finished it gives, and with nothing else.    *)
LEMMA GivenPlace ==
  ASSUME SubInv, NEW s \in Subscribers, NEW r \in Records
  PROVE  Given(s, r).at = IF r.event = "turn_finished" THEN "ended" ELSE sub[s].at
<1> DEFINE x == sub[s]
           place == IF r.event = "turn_finished" THEN "ended" ELSE x.at
           given == Append(x.seen, r.seq)
           y == [x EXCEPT !.seen = given, !.at = place]
<1>1. x \in SubRecords
  BY DEF SubInv
<1>2. Given(s, r) = y
  BY <1>1 DEF Given, SubRecords
<1> HIDE DEF x, place, given
<1>3. y.at = place
  BY <1>1 DEF SubRecords
<1> QED BY <1>2, <1>3 DEF place, x

(* Replaying ends the stream of a run that was completed when it            *)
(* subscribed.                                                              *)
LEMMA FollowEnds ==
  ASSUME EndInv, EventsInv, NEW s \in Subscribers, Follow(s)
  PROVE  EndInv'
<1> DEFINE x == sub[s]
           place == IF completed THEN "ended" ELSE "live"
           y == [x EXCEPT !.at = place]
<1>1. /\ x \in SubRecords /\ EndOf(x, completed, last, failed) /\ JobsInv /\ SubInv
      /\ x.at = "replaying" /\ x.replay = {}
      /\ last \in Nat /\ x.high \in Nat /\ x.cursor \in Nat
  BY DEF EndInv, EventsInv, LogInv, LogOK, SubInv, StreamInv, SubRecords, Follow
<1>2. sub' = [sub EXCEPT ![s] = y] /\ UNCHANGED <<jobs, events, log>>
  BY DEF Follow
<1>3. ASSUME ~failed PROVE AllGiven(x, last)
  <2> SUFFICES ASSUME NEW m \in x.cursor + 1 .. last
               PROVE  m \in Range(x.seen) \cup Seqs(Range(x.queue))
    BY DEF AllGiven
  <2>1. CASE m <= x.high
    <3>1. Filled(x)
      BY <1>1, <1>3, StreamFilled
    <3> QED BY <1>1, <2>1, <3>1 DEF Filled, Seqs
  <2>2. CASE ~(m <= x.high)
    <3>1. m \in x.high + 1 .. last
      BY <1>1, <2>2
    <3> QED BY <1>1, <1>3, <3>1, QueueCovers
  <2> QED BY <2>1, <2>2
<1> HIDE DEF place
<1>4. /\ y.seen = x.seen /\ y.at = place /\ y.replay = x.replay
      /\ y.queue = x.queue /\ y.cursor = x.cursor
  BY <1>1 DEF SubRecords
<1> HIDE DEF x, y
<1>5. EndOf(y, completed, last, failed)
  BY <1>1, <1>3, <1>4 DEF EndOf, AllGiven, place
<1>6. JobsInv'
  BY <1>1, <1>2 DEF JobsInv, log
<1> QED BY <1>1, <1>2, <1>5, <1>6, OneEnds

(* Giving a replayed record keeps what an ended stream still holds.         *)
LEMMA YieldEnds ==
  ASSUME EndInv, EventsInv, NEW s \in Subscribers, YieldReplayed(s)
  PROVE  EndInv'
<1> DEFINE x == sub[s]
<1>1. /\ x \in SubRecords /\ EndOf(x, completed, last, failed) /\ JobsInv /\ SubInv
      /\ x.at = "replaying" /\ Within(x, last)
      /\ last \in Nat /\ x.high \in Nat /\ x.cursor \in Nat
      /\ UNCHANGED <<jobs, events, log>>
  BY DEF EndInv, EventsInv, LogInv, LogOK, SubInv, StreamInv, SubRecords, YieldReplayed
<1>2. PICK r \in x.replay :
        /\ \A q \in x.replay : r.seq <= q.seq
        /\ sub' = [sub EXCEPT ![s] = [Given(s, r) EXCEPT !.replay = {q \in @ : q.seq # r.seq}]]
  BY DEF YieldReplayed
<1> DEFINE g == Given(s, r)
           left == {q \in x.replay : q.seq # r.seq}
           y == [g EXCEPT !.replay = left]
           seen == Append(x.seen, r.seq)
<1>3. r \in Records /\ r.seq \in Nat /\ r.seq \in 1 .. last /\ x.seen \in Seq(Nat)
  BY <1>1 DEF SubRecords, Records, Within
<1>4. /\ g \in SubRecords /\ g.seen = seen
      /\ g.replay = x.replay /\ g.queue = x.queue /\ g.cursor = x.cursor
  BY <1>1, <1>3, GivenShape
<1>5. g.at = IF r.event = "turn_finished" THEN "ended" ELSE x.at
  BY <1>1, <1>3, GivenPlace
<1>6. sub' = [sub EXCEPT ![s] = y]
  BY <1>2, <1>4
<1>7. Range(seen) = Range(x.seen) \cup {r.seq}
  BY <1>3, GivenIsSeen
<1>8. \A q \in left : q \in x.replay
  OBVIOUS
<1>9. r.event = "turn_finished" => completed /\ r.seq = last
  BY <1>1 DEF EndOf, Final
<1>10. ASSUME ~failed, r.seq = last, NEW m \in x.cursor + 1 .. last
       PROVE  m \in Range(seen) \cup Seqs(Range(x.queue))
  <2>1. CASE m <= x.high
    <3>1. m \in Range(x.seen) \cup Seqs(x.replay)
      BY <1>1, <1>10, <2>1, StreamFilled DEF Filled
    <3>2. \A q \in x.replay : q.seq = last
      <4>1. \A q \in x.replay : q.seq \in 1 .. last /\ last <= q.seq
        BY <1>1, <1>2, <1>10 DEF Within
      <4> QED BY <1>1, <4>1
    <3> QED BY <1>7, <1>10, <3>1, <3>2 DEF Seqs
  <2>2. CASE ~(m <= x.high)
    <3>1. m \in x.high + 1 .. last
      BY <1>1, <2>2
    <3> QED BY <1>1, <1>10, <3>1, QueueCovers
  <2> QED BY <2>1, <2>2
<1> HIDE DEF g, left, seen
<1>11. /\ y.seen = seen /\ y.at = g.at /\ y.replay = left
       /\ y.queue = x.queue /\ y.cursor = x.cursor
  BY <1>4 DEF SubRecords
<1> HIDE DEF x, y
<1>12. EndOf(y, completed, last, failed)
  BY <1>1, <1>5, <1>8, <1>9, <1>10, <1>11 DEF EndOf, AllGiven
<1>13. JobsInv'
  BY <1>1 DEF JobsInv, log
<1> QED BY <1>1, <1>6, <1>12, <1>13, OneEnds

(* A turn_finished taken from the queue is the last record there is.        *)
LEMMA TakeEnds ==
  ASSUME EndInv, EventsInv, NEW s \in Subscribers, TakeQueued(s)
  PROVE  EndInv'
<1> DEFINE x == sub[s]
           r == Head(x.queue)
           rest == Tail(x.queue)
           g == Given(s, r)
           y == IF r.seq > x.high THEN [g EXCEPT !.queue = rest, !.high = r.seq]
                ELSE [x EXCEPT !.queue = rest]
           seen == Append(x.seen, r.seq)
<1>1. /\ x \in SubRecords /\ EndOf(x, completed, last, failed) /\ JobsInv /\ SubInv
      /\ x.at = "live" /\ x.queue # <<>> /\ x.replay = {}
      /\ last \in Nat /\ x.high \in Nat /\ x.cursor \in Nat
      /\ UNCHANGED <<jobs, events, log>>
  BY DEF EndInv, EventsInv, LogInv, LogOK, SubInv, SubRecords, TakeQueued, EndOf
<1>2. x.queue \in Seq(Records) /\ x.seen \in Seq(Nat)
  BY <1>1 DEF SubRecords
<1>3. /\ r \in Records /\ rest \in Seq(Records) /\ r = x.queue[1] /\ 1 \in DOMAIN x.queue
      /\ Len(x.queue) \in Nat /\ x.queue[1] \in Records
      /\ \A i \in DOMAIN rest : i + 1 \in DOMAIN x.queue /\ rest[i] = x.queue[i + 1]
  BY <1>1, <1>2
<1>4. r.seq \in Nat
  BY <1>3 DEF Records
<1>5. /\ g \in SubRecords /\ g.seen = seen
      /\ g.replay = x.replay /\ g.queue = x.queue /\ g.cursor = x.cursor
  BY <1>1, <1>3, GivenShape
<1>6. sub' = [sub EXCEPT ![s] = y]
  BY <1>1, <1>5 DEF TakeQueued, SubRecords
<1>7. g.at = IF r.event = "turn_finished" THEN "ended" ELSE x.at
  BY <1>1, <1>3, GivenPlace
<1>8. Range(seen) = Range(x.seen) \cup {r.seq}
  BY <1>2, <1>4, GivenIsSeen
<1>9. r.event = "turn_finished" => completed /\ r.seq = last
  BY <1>1, <1>3 DEF EndOf, Final
<1>10. \A i \in DOMAIN rest : Final(rest[i], completed, last)
  BY <1>1, <1>3 DEF EndOf
(* The last record was taken: all before it were given.                     *)
<1>11. ASSUME ~failed, r.seq = last, NEW m \in x.cursor + 1 .. last
       PROVE  m \in Range(seen)
  <2>1. last - Len(x.queue) <= x.high /\ \A i \in DOMAIN x.queue : x.queue[i].seq = last - Len(x.queue) + i
    BY <1>1, <1>11 DEF EventsInv, StreamInv, Joined
  <2>2. last - Len(x.queue) + 1 = last
    BY <1>3, <1>11, <2>1
  <2>3. last - 1 <= x.high
    <3> HIDE DEF x
    <3> QED BY <1>1, <1>3, <2>1, <2>2
  <2>4. CASE m = last
    BY <1>8, <1>11, <2>4
  <2>5. CASE m # last
    <3>1. m \in x.cursor + 1 .. x.high
      BY <1>1, <2>3, <2>5
    <3>2. m \in Range(x.seen) \cup Seqs(x.replay)
      BY <1>1, <1>11, <3>1, StreamFilled DEF Filled
    <3> QED BY <1>1, <1>8, <3>2 DEF Seqs
  <2> QED BY <2>4, <2>5
<1>12. EndOf(y, completed, last, failed)
  <2> HIDE DEF g, seen, rest, r
  <2>1. CASE r.seq > x.high
    <3> DEFINE z == [g EXCEPT !.queue = rest, !.high = r.seq]
    <3>1. /\ z.seen = seen /\ z.at = g.at /\ z.replay = x.replay
          /\ z.queue = rest /\ z.cursor = x.cursor
      BY <1>5 DEF SubRecords
    <3>2. y = z
      BY <2>1
    <3> HIDE DEF z, x, y
    <3>3. EndOf(z, completed, last, failed)
      BY <1>1, <1>7, <1>9, <1>10, <1>11, <3>1 DEF EndOf, AllGiven
    <3> QED BY <3>2, <3>3
  <2>2. CASE ~(r.seq > x.high)
    <3> DEFINE z == [x EXCEPT !.queue = rest]
    <3>1. z.at = x.at /\ z.replay = x.replay /\ z.queue = rest
      BY <1>1 DEF SubRecords
    <3>2. y = z
      BY <2>2
    <3> HIDE DEF z, x, y
    <3>3. EndOf(z, completed, last, failed)
      BY <1>1, <1>10, <3>1 DEF EndOf
    <3> QED BY <3>2, <3>3
  <2> QED BY <2>1, <2>2
<1>13. JobsInv'
  BY <1>1 DEF JobsInv, log
<1> HIDE DEF y
<1> QED BY <1>1, <1>6, <1>12, <1>13, OneEnds

(* A stream that is closed has not ended by itself.                         *)
LEMMA CloseEnds ==
  ASSUME EndInv, SubInv, NEW s \in Subscribers, Close(s)
  PROVE  EndInv'
<1> DEFINE given == sub[s].seen
           n == sub[s].replays
           y == [Outside EXCEPT !.at = "closed", !.seen = given, !.replays = n]
<1>1. sub' = [sub EXCEPT ![s] = y] /\ UNCHANGED <<jobs, events, log>>
  BY DEF Close
<1> HIDE DEF given, n
<1>2. y.at = "closed" /\ y.replay = {} /\ y.queue = <<>>
  BY DEF Outside
<1>3. DOMAIN <<>> = {}
  OBVIOUS
<1> HIDE DEF y
<1>4. EndOf(y, completed, last, failed)
  BY <1>2, <1>3 DEF EndOf
<1>5. JobsInv'
  BY <1>1 DEF EndInv, JobsInv, log
<1> QED BY <1>1, <1>4, <1>5, OneEnds

(* EndInv holds at the beginning, and every step keeps it.                  *)
LEMMA EndInvHolds == EventsInit => EndInv
<1> SUFFICES ASSUME EventsInit PROVE EndInv
  OBVIOUS
<1>1. Outside.at = "outside" /\ Outside.replay = {} /\ Outside.queue = <<>>
  BY DEF Outside
<1>2. DOMAIN <<>> = {} /\ <<>> \in Seq(Jobs)
  OBVIOUS
<1>3. JobsInv
  BY <1>2 DEF EventsInit, JobsInv
<1>4. EndOf(Outside, completed, last, failed)
  BY <1>1, <1>2 DEF EndOf
<1> QED BY <1>3, <1>4 DEF EventsInit, EndInv

(* Every step keeps what is known of ended streams.                         *)
LEMMA EndInvStep == EventsInv /\ EndInv /\ [EventsNext]_eventVars => EndInv'
<1> SUFFICES ASSUME EventsInv, EndInv, [EventsNext]_eventVars PROVE EndInv'
  OBVIOUS
<1>0. SubInv
  BY DEF EventsInv
<1>1. ASSUME NEW kind \in Kinds, RecordEvent(kind) \/ RecordFails(kind) PROVE EndInv'
  BY <1>1, RecordEnds
<1>2. ASSUME NEW kind \in Kinds, Publish(kind) PROVE EndInv'
  BY <1>2, PublishEnds
<1>3. CASE Read
  BY <1>0, <1>3, ReadEnds
<1>4. ASSUME NEW s \in Subscribers, Subscribe(s) \/ Consume(s) \/ Close(s) PROVE EndInv'
  BY <1>0, <1>4, SubscribeEnds, MergeEnds, YieldEnds, FollowEnds, TakeEnds, CloseEnds
     DEF Consume
<1>5. CASE UNCHANGED eventVars
  BY <1>5 DEF eventVars, log, EndInv, JobsInv
<1> QED BY <1>1, <1>2, <1>3, <1>4, <1>5 DEF EventsNext, Writer

(* As long as every append succeeds, replaying and following leave no hole, *)
(* and a stream that ended has given all but what is still in its queue.    *)
THEOREM StreamHasNoHole == EventsSpec => []NothingSkipped
<1>1. EventsInit => EventsInv /\ EndInv
  BY EventsInvHolds, EndInvHolds
<1>2. EventsInv /\ EndInv /\ [EventsNext]_eventVars => (EventsInv /\ EndInv)'
  BY EventsInvStep, EndInvStep
<1>3. EventsInv /\ EndInv => NothingSkipped
  <2> SUFFICES ASSUME EventsInv, EndInv, ~failed, NEW s \in Subscribers
               PROVE  /\ sub[s].at \in {"replaying", "live"} => Filled(sub[s])
                      /\ sub[s].at = "ended" => AllGiven(sub[s], last)
    BY DEF NothingSkipped, Filled, AllGiven
  <2> QED BY StreamFilled DEF EndInv, EndOf
<1> QED BY <1>1, <1>2, <1>3, PTL DEF EventsSpec

-----------------------------------------------------------------------------
(***************************************************************************)
(* What the engine's loop guarantees for every step budget, every size of  *)
(* a batch and every number of inputs: how a run ends, that the history is *)
(* paired, and where the user's messages are.                              *)
(***************************************************************************)

(* Where the run has not ended *)
Working ==
  {"started", "top", "building", "model", "flushing", "answered", "calls", "batch",
   "tool", "reads", "gathering", "retry", "final", "limit", "broken"}
Ending == {"closing", "stopping", "failing"}

(* The run's place in the code tells how far its end has come: this is what *)
(* the guard of the timeout handler (status = "running") relies on.         *)
Lifecycle ==
  /\ pc \in Working =>
       status = "running" /\ terminals = 0 /\ announced = 0
  /\ pc \in Ending =>
       status \notin {"none", "running"} /\ terminals = 1 /\ announced = 0
  /\ pc \in {"idle", "unwinding"} =>
       \/ status = "none" /\ terminals = 0 /\ announced = 0
       \/ status \notin {"none", "running"} /\ terminals = 1 /\ announced \in {0, 1}
  /\ pc \in Working \cup Ending \cup {"idle", "unwinding"}

(* Calls are owed a result from their recording to the end of their batch, *)
(* or for ever when the run is stopped in between.                         *)
Paired ==
  /\ pc \in {"started", "top", "building", "model", "flushing", "answered", "retry", "final"} =>
       owed = 0
  /\ status = "completed" => owed = 0

TurnInv == Lifecycle /\ Paired

(* The invariant holds before the first turn. *)
LEMMA TurnInvHolds == TurnInit => TurnInv
  BY DEF TurnInit, TurnInv, Lifecycle, Paired, Working, Ending

(* Every step keeps the run's lifecycle. *)
LEMMA LifecycleStep == ASSUME Lifecycle, [TurnNext]_turnVars PROVE Lifecycle'
<1> USE DEF Lifecycle, Working, Ending
<1>1. CASE UNCHANGED turnVars
  BY <1>1 DEF turnVars, run
<1>2. CASE Start
  BY <1>2 DEF Start, Begin
<1>3. CASE \E kind \in {"steer", "queue", "cancel"} : Submit(kind)
  BY <1>3 DEF Submit, run
<1>4. CASE Put \/ TakeControl
  BY <1>4 DEF Put, TakeControl, run
<1>5. CASE Expires
  BY <1>5 DEF Expires, InTurn
<1>6. CASE Break
  BY <1>6 DEF Break, run
<1>7. CASE Hear \/ ReachLimit \/ FinishLimited \/ Request
  BY <1>7 DEF Hear, ReachLimit, FinishLimited, Request, Stop, EndRun, run
<1>8. CASE Iterate
  BY <1>8 DEF Iterate, Try, Stop, EndRun, run
<1>9. CASE HandleQueue \/ InterruptStream \/ Complete \/ Flush \/ StreamFails
  BY <1>9 DEF HandleQueue, InterruptStream, Complete, Flush, StreamFails, Stop, EndRun, run
<1>10. CASE Answered
  BY <1>10 DEF Answered, Stop, EndRun, run
<1>11. CASE Retry \/ Remind \/ Block
  BY <1>11 DEF Retry, Remind, Block, Stop, EndRun, run
<1>12. CASE Call
  BY <1>12 DEF Call, Stop, EndRun, run
<1>13. CASE NextCall
  BY <1>13 DEF NextCall, SkipAll, run
<1>14. CASE ToolReturns \/ InterruptReads \/ ReadsReturn \/ Gather
  BY <1>14 DEF ToolReturns, InterruptReads, ReadsReturn, Gather, run
<1>15. CASE EndBatch
  BY <1>15 DEF EndBatch, Stop, EndRun, run
<1>16. CASE Accept
  BY <1>16 DEF Accept, Stop, EndRun, run
<1>17. CASE Announce
  BY <1>17 DEF Announce
<1>18. CASE Unwind
  BY <1>18 DEF Unwind, Begin, run
<1>19. CASE Recover
  BY <1>19 DEF Recover
<1>20. QED
  BY <1>1, <1>2, <1>3, <1>4, <1>5, <1>6, <1>7, <1>8, <1>9, <1>10, <1>11, <1>12, <1>13,
     <1>14, <1>15, <1>16, <1>17, <1>18, <1>19 DEF TurnNext, Producer

(* Every step keeps the calls paired. *)
LEMMA PairedStep == ASSUME Lifecycle, Paired, [TurnNext]_turnVars PROVE Paired'
<1> USE DEF Lifecycle, Paired, Working, Ending
<1>1. CASE UNCHANGED turnVars
  BY <1>1 DEF turnVars, run, work
<1>2. CASE Start
  BY <1>2 DEF Start, Begin
<1>3. CASE \E kind \in {"steer", "queue", "cancel"} : Submit(kind)
  BY <1>3 DEF Submit, run, work
<1>4. CASE Put \/ TakeControl
  BY <1>4 DEF Put, TakeControl, run, work
<1>5. CASE Expires
  BY <1>5 DEF Expires, InTurn, work
<1>6. CASE Break
  BY <1>6 DEF Break, run, work
<1>7. CASE Hear \/ ReachLimit \/ FinishLimited \/ Request
  BY <1>7 DEF Hear, ReachLimit, FinishLimited, Request, Stop, EndRun, run, work
<1>8. CASE Iterate
  BY <1>8 DEF Iterate, Try, Stop, EndRun, run
<1>9. CASE HandleQueue \/ InterruptStream \/ Complete \/ Flush \/ StreamFails
  BY <1>9 DEF HandleQueue, InterruptStream, Complete, Flush, StreamFails, Stop, EndRun, run, work
<1>10. CASE Answered
  BY <1>10 DEF Answered, Stop, EndRun, run
<1>11. CASE Retry \/ Remind \/ Block
  BY <1>11 DEF Retry, Remind, Block, Stop, EndRun, run, work
<1>12. CASE Call
  BY <1>12 DEF Call, Stop, EndRun, run, work
<1>13. CASE NextCall
  BY <1>13 DEF NextCall, SkipAll, SkipOne, run
<1>14. CASE ToolReturns \/ InterruptReads \/ ReadsReturn \/ Gather
  BY <1>14 DEF ToolReturns, InterruptReads, ReadsReturn, Gather, run, work
<1>15. CASE EndBatch
  BY <1>15 DEF EndBatch, Stop, EndRun, run, work
<1>16. CASE Accept
  BY <1>16 DEF Accept, Stop, EndRun, run, work
<1>17. CASE Announce
  BY <1>17 DEF Announce, work
<1>18. CASE Unwind
  BY <1>18 DEF Unwind, Begin, run, work
<1>19. CASE Recover
  BY <1>19 DEF Recover, work
<1>20. QED
  BY <1>1, <1>2, <1>3, <1>4, <1>5, <1>6, <1>7, <1>8, <1>9, <1>10, <1>11, <1>12, <1>13,
     <1>14, <1>15, <1>16, <1>17, <1>18, <1>19 DEF TurnNext, Producer

(* The run's lifecycle and the pairing of its calls are invariants. *)
THEOREM TurnInvAlways == TurnSpec => []TurnInv
<1>1. TurnInit => TurnInv
  BY TurnInvHolds
<1>2. TurnInv /\ [TurnNext]_turnVars => TurnInv'
  BY LifecycleStep, PairedStep DEF TurnInv
<1>3. QED
  BY <1>1, <1>2, PTL DEF TurnSpec

(* A run has one terminal transition and at most one turn_finished, however *)
(* limits, controls, timeouts and errors race its end.                      *)
THEOREM OneEnd == TurnSpec => []EndsOnce
<1>1. TurnInv => EndsOnce
  BY DEF TurnInv, Lifecycle, Working, Ending, EndsOnce
<1>2. QED
  BY <1>1, TurnInvAlways, PTL

(* No request leaves and no answer is accepted with an unpaired tool call   *)
(* of the run in the history.                                               *)
THEOREM HistoryIsPaired == TurnSpec => []CallsArePaired
<1>1. TurnInv => CallsArePaired
  BY DEF TurnInv, Paired, CallsArePaired
<1>2. QED
  BY <1>1, TurnInvAlways, PTL

(* Both hold of every run: one end, and every call of it answered.          *)
THEOREM RunsAreSound == TurnSpec => []RunIsSound
<1>1. EndsOnce /\ CallsArePaired => RunIsSound
  BY DEF RunIsSound
<1>2. QED
  BY <1>1, OneEnd, HistoryIsPaired, PTL

(* The only gap in the end of a turn is the one before turn_finished: while *)
(* no timeout falls between the two events of an end, turn_finished is      *)
(* published once, as engine.py:161 has it, however the turn ends.          *)
ClosingIsUndisturbed == [][pc = "closing" => ~Expires]_turnVars

ClosedIsAnnounced ==
  /\ TurnInv
  /\ pc \in {"idle", "unwinding"} /\ status # "none" => announced = 1

(* A step keeps that, unless it is the timeout while the run is closing.    *)
LEMMA AnnouncedStep ==
  ASSUME ClosedIsAnnounced, [TurnNext]_turnVars, pc = "closing" => ~Expires
  PROVE  ClosedIsAnnounced'
<1>1. TurnInv'
  BY LifecycleStep, PairedStep DEF ClosedIsAnnounced, TurnInv
<1>2. Lifecycle
  BY DEF ClosedIsAnnounced, TurnInv
<1>3. CASE UNCHANGED <<pc, status, announced>>
  BY <1>1, <1>3 DEF ClosedIsAnnounced
(* Into "idle" and "unwinding" leads what publishes turn_finished, or a     *)
(* timeout, which finds the run ended only while it is closing.             *)
<1>4. CASE Announce
  <2>1. announced = 0 /\ announced' = announced + 1
    BY <1>2, <1>4 DEF Announce, Lifecycle, Ending
  <2> QED BY <1>1, <2>1 DEF ClosedIsAnnounced
<1>5. CASE Expires
  <2>1. pc \in Working /\ status = "running"
    BY <1>2, <1>5 DEF Expires, InTurn, Lifecycle, Working
  <2>2. pc' = "stopping"
    BY <1>5, <2>1 DEF Expires
  <2> QED BY <1>1, <2>2 DEF ClosedIsAnnounced
<1>6. CASE Unwind
  BY <1>1, <1>6 DEF Unwind, Begin, run, ClosedIsAnnounced
<1>7. CASE pc' \notin {"idle", "unwinding"}
  BY <1>1, <1>7 DEF ClosedIsAnnounced
<1>8. \/ UNCHANGED <<pc, status, announced>> \/ Announce \/ Expires \/ Unwind
      \/ pc' \notin {"idle", "unwinding"}
  <2>1. CASE UNCHANGED turnVars
    BY <2>1 DEF turnVars, run
  <2>2. CASE \E kind \in {"steer", "queue", "cancel"} : Submit(kind)
    BY <2>2 DEF Submit, run
  <2>3. CASE Put \/ TakeControl
    BY <2>3 DEF Put, TakeControl, run
  <2>4. CASE Start \/ Break
    BY <2>4 DEF Start, Begin, Break
  <2>5. CASE Hear \/ ReachLimit \/ FinishLimited \/ Request \/ Iterate
    BY <2>5 DEF Hear, ReachLimit, FinishLimited, Request, Iterate, Try, Stop, EndRun
  <2>6. CASE HandleQueue \/ InterruptStream \/ Complete \/ Flush \/ StreamFails
    BY <2>6 DEF HandleQueue, InterruptStream, Complete, Flush, StreamFails, Stop, EndRun, run
  <2>7. CASE Answered \/ Retry \/ Remind \/ Block \/ Accept
    BY <2>7 DEF Answered, Retry, Remind, Block, Accept, Stop, EndRun
  <2>8. CASE Call \/ NextCall \/ EndBatch
    BY <2>8 DEF Call, NextCall, SkipAll, EndBatch, Stop, EndRun
  <2>9. CASE ToolReturns \/ InterruptReads \/ ReadsReturn \/ Gather \/ Recover
    BY <2>9 DEF ToolReturns, InterruptReads, ReadsReturn, Gather, Recover
  <2> QED BY <2>1, <2>2, <2>3, <2>4, <2>5, <2>6, <2>7, <2>8, <2>9 DEF TurnNext, Producer
<1> QED BY <1>3, <1>4, <1>5, <1>6, <1>7, <1>8

(* So turn_finished is published for every run whose end is not disturbed.  *)
THEOREM UndisturbedEndsArePublished ==
  TurnSpec /\ ClosingIsUndisturbed => []TerminalIsPublished
<1>1. TurnInit => ClosedIsAnnounced
  BY TurnInvHolds DEF TurnInit, ClosedIsAnnounced
<1>2. ClosedIsAnnounced /\ [TurnNext]_turnVars /\ [pc = "closing" => ~Expires]_turnVars
        => ClosedIsAnnounced'
  <2>1. CASE UNCHANGED turnVars
    BY <2>1, LifecycleStep, PairedStep DEF ClosedIsAnnounced, TurnInv, turnVars, run
  <2>2. CASE pc = "closing" => ~Expires
    BY <2>2, AnnouncedStep
  <2> QED BY <2>1, <2>2
<1>3. ClosedIsAnnounced => TerminalIsPublished
  BY DEF ClosedIsAnnounced, TerminalIsPublished
<1> QED BY <1>1, <1>2, <1>3, PTL DEF TurnSpec, ClosingIsUndisturbed

-----------------------------------------------------------------------------
(* Where the user's messages are: a sequence of them is of distinct ones,   *)
(* and grows by others.                                                     *)
LEMMA AppendDistinct ==
  ASSUME NEW S, NEW s \in Seq(S), NEW e \in S, IsInjective(s), e \notin Range(s)
  PROVE  /\ Append(s, e) \in Seq(S) /\ IsInjective(Append(s, e))
         /\ Range(Append(s, e)) = Range(s) \cup {e}
<1> DEFINE t == Append(s, e)
           l == Len(s)
<1>1. /\ t \in Seq(S) /\ l \in Nat /\ DOMAIN s = 1 .. l /\ DOMAIN t = 1 .. (l + 1)
      /\ \A i \in 1 .. l : t[i] = s[i]
      /\ t[l + 1] = e
  BY AppendProperties
<1> HIDE DEF t, l
<1>2. \A i \in DOMAIN t : i \in 1 .. l \/ i = l + 1
  BY <1>1
<1>3. \A i \in 1 .. l : i \in DOMAIN t
  BY <1>1
<1>4. l + 1 \in DOMAIN t
  BY <1>1
<1>5. \A i \in 1 .. l : s[i] # e
  BY <1>1 DEF Range
<1>6. IsInjective(t)
  BY <1>1, <1>2, <1>5 DEF IsInjective
<1>7. Range(t) = Range(s) \cup {e}
  BY <1>1, <1>2, <1>3, <1>4 DEF Range
<1> QED BY <1>1, <1>6, <1>7 DEF t

(* Two sequences of distinct elements, of different ones, joined.           *)
LEMMA ConcatDistinct ==
  ASSUME NEW S, NEW s \in Seq(S), NEW t \in Seq(S), IsInjective(s), IsInjective(t),
         Range(s) \cap Range(t) = {}
  PROVE  /\ s \o t \in Seq(S) /\ IsInjective(s \o t)
         /\ Range(s \o t) \subseteq Range(s) \cup Range(t)
<1> DEFINE c == s \o t
           l == Len(s)
           m == Len(t)
<1>1. /\ c \in Seq(S) /\ l \in Nat /\ m \in Nat /\ DOMAIN c = 1 .. (l + m)
      /\ DOMAIN s = 1 .. l /\ DOMAIN t = 1 .. m
      /\ \A i \in 1 .. l : c[i] = s[i]
      /\ \A i \in (l + 1) .. (l + m) : i - l \in 1 .. m /\ c[i] = t[i - l]
  BY ConcatIs
<1> HIDE DEF c, l, m
<1>2. \A i \in DOMAIN c : i \in 1 .. l \/ i \in (l + 1) .. (l + m)
  BY <1>1
<1>3. \A i \in 1 .. l : c[i] \in Range(s)
  BY <1>1 DEF Range
<1>4. \A i \in (l + 1) .. (l + m) : c[i] \in Range(t)
  BY <1>1 DEF Range
<1>5. ASSUME NEW i \in DOMAIN c, NEW j \in DOMAIN c, c[i] = c[j] PROVE i = j
  <2>1. CASE i \in 1 .. l /\ j \in 1 .. l
    BY <1>1, <1>5, <2>1 DEF IsInjective
  <2>2. CASE i \in (l + 1) .. (l + m) /\ j \in (l + 1) .. (l + m)
    <3>1. i - l \in DOMAIN t /\ j - l \in DOMAIN t /\ t[i - l] = t[j - l]
      BY <1>1, <1>5, <2>2
    <3>2. i - l = j - l
      BY <3>1 DEF IsInjective
    <3> QED BY <1>1, <2>2, <3>2
  <2> QED BY <1>2, <1>3, <1>4, <1>5, <2>1, <2>2
<1>6. IsInjective(c)
  BY <1>5 DEF IsInjective
<1>7. Range(c) \subseteq Range(s) \cup Range(t)
  BY <1>2, <1>3, <1>4 DEF Range
<1> QED BY <1>1, <1>6, <1>7 DEF c

(* What is left of such a sequence without its first element.               *)
LEMMA TailDistinct ==
  ASSUME NEW S, NEW s \in Seq(S), s # <<>>, IsInjective(s)
  PROVE  /\ Head(s) \in S /\ Head(s) \in Range(s)
         /\ Tail(s) \in Seq(S) /\ IsInjective(Tail(s))
         /\ Range(Tail(s)) \subseteq Range(s) \ {Head(s)}
<1> DEFINE t == Tail(s)
<1>1. /\ Len(s) \in Nat \ {0} /\ DOMAIN s = 1 .. Len(s) /\ 1 \in DOMAIN s
      /\ Head(s) = s[1] /\ s[1] \in S
  OBVIOUS
<1>2. /\ t \in Seq(S) /\ \A i \in DOMAIN t : i \in Nat \ {0} /\ i + 1 \in DOMAIN s /\ t[i] = s[i + 1]
  OBVIOUS
<1> HIDE DEF t
<1>3. ASSUME NEW i \in DOMAIN t, NEW j \in DOMAIN t, t[i] = t[j] PROVE i = j
  <2>1. i + 1 = j + 1
    BY <1>2, <1>3 DEF IsInjective
  <2> QED BY <1>2, <2>1
<1>4. \A i \in DOMAIN t : t[i] \in Range(s) /\ t[i] # Head(s)
  <2> SUFFICES ASSUME NEW i \in DOMAIN t PROVE t[i] \in Range(s) /\ t[i] # Head(s)
    OBVIOUS
  <2>1. i + 1 # 1
    BY <1>2
  <2> QED BY <1>1, <1>2, <2>1 DEF IsInjective, Range
<1> QED BY <1>1, <1>2, <1>3, <1>4 DEF IsInjective, Range, t

(* The contents of a sequence of controls, and that they are distinct.      *)
Held(s) == {s[i].content : i \in DOMAIN s}
Once(s) == \A i, j \in DOMAIN s : s[i].content = s[j].content => i = j

(* A new control at the end of the queue keeps its contents distinct.       *)
LEMMA AppendOnce ==
  ASSUME NEW s \in Seq(Controls), NEW e \in Controls, Once(s), e.content \notin Held(s)
  PROVE  /\ Append(s, e) \in Seq(Controls) /\ Once(Append(s, e))
         /\ Held(Append(s, e)) = Held(s) \cup {e.content}
<1> DEFINE t == Append(s, e)
           l == Len(s)
<1>1. /\ t \in Seq(Controls) /\ l \in Nat /\ DOMAIN s = 1 .. l /\ DOMAIN t = 1 .. (l + 1)
      /\ \A i \in 1 .. l : t[i] = s[i]
      /\ t[l + 1] = e
  BY AppendProperties
<1> HIDE DEF t, l
<1>2. \A i \in DOMAIN t : i \in 1 .. l \/ i = l + 1
  BY <1>1
<1>3. \A i \in 1 .. l : i \in DOMAIN t
  BY <1>1
<1>4. l + 1 \in DOMAIN t
  BY <1>1
<1>5. \A i \in 1 .. l : s[i].content # e.content
  BY <1>1 DEF Held
<1>6. Once(t)
  BY <1>1, <1>2, <1>5 DEF Once
<1>7. Held(t) = Held(s) \cup {e.content}
  BY <1>1, <1>2, <1>3, <1>4 DEF Held
<1> QED BY <1>1, <1>6, <1>7 DEF t

(* The control taken from the front is not among the rest.                  *)
LEMMA TailOnce ==
  ASSUME NEW s \in Seq(Controls), s # <<>>, Once(s)
  PROVE  /\ Head(s) \in Controls /\ Head(s).content \in Held(s)
         /\ Tail(s) \in Seq(Controls) /\ Once(Tail(s))
         /\ Held(Tail(s)) \subseteq Held(s) \ {Head(s).content}
<1> DEFINE t == Tail(s)
<1>1. /\ Len(s) \in Nat \ {0} /\ DOMAIN s = 1 .. Len(s) /\ 1 \in DOMAIN s
      /\ Head(s) = s[1] /\ s[1] \in Controls
  OBVIOUS
<1>2. /\ t \in Seq(Controls)
      /\ \A i \in DOMAIN t : i \in Nat \ {0} /\ i + 1 \in DOMAIN s /\ t[i] = s[i + 1]
  OBVIOUS
<1> HIDE DEF t
<1>3. ASSUME NEW i \in DOMAIN t, NEW j \in DOMAIN t, t[i].content = t[j].content PROVE i = j
  <2>1. i + 1 = j + 1
    BY <1>2, <1>3 DEF Once
  <2> QED BY <1>2, <2>1
<1>4. \A i \in DOMAIN t : t[i].content \in Held(s) /\ t[i].content # Head(s).content
  <2> SUFFICES ASSUME NEW i \in DOMAIN t
               PROVE  t[i].content \in Held(s) /\ t[i].content # Head(s).content
    OBVIOUS
  <2>1. i + 1 # 1
    BY <1>2
  <2> QED BY <1>1, <1>2, <2>1 DEF Once, Held
<1> QED BY <1>1, <1>2, <1>3, <1>4 DEF Once, Held, t

(* What is drained of the control queue is of the kinds asked for, and all  *)
(* of them.                                                                 *)
LEMMA ContentsAre ==
  ASSUME ctl \in Seq(Controls), Once(ctl), NEW kinds
  PROVE  /\ Contents(kinds) \in Seq(Inputs) /\ IsInjective(Contents(kinds))
         /\ \A x \in Range(Contents(kinds)) :
              \E i \in DOMAIN ctl : ctl[i].type \in kinds /\ ctl[i].content = x
         /\ Contents(kinds) = <<>> => \A i \in DOMAIN ctl : ctl[i].type \notin kinds
<1> DEFINE K == {c \in Range(ctl) : c.type \in kinds}
           cs == Only(ctl, K)
           w == [i \in DOMAIN cs |-> cs[i].content]
<1>1. Contents(kinds) = w
  BY DEF Contents
<1>2. cs \in Seq(Controls) /\ \E at : Picks(ctl, K, Len(ctl), cs, at)
  BY OnlyPicks
<1>3. PICK at : Picks(ctl, K, Len(ctl), cs, at)
  BY <1>2
<1> HIDE DEF cs, K
<1>4. /\ Len(cs) \in Nat /\ DOMAIN cs = 1 .. Len(cs) /\ \A i \in DOMAIN cs : cs[i] \in Controls
      /\ Len(ctl) \in Nat /\ DOMAIN ctl = 1 .. Len(ctl)
      /\ \A i \in DOMAIN ctl : ctl[i] \in Controls
  BY <1>2
<1>5. /\ at \in [1 .. Len(cs) -> 1 .. Len(ctl)]
      /\ \A i, j \in 1 .. Len(cs) : i < j => at[i] < at[j]
      /\ \A i \in 1 .. Len(cs) : cs[i] = ctl[at[i]] /\ ctl[at[i]] \in K
      /\ \A j \in 1 .. Len(ctl) : ctl[j] \in K => \E i \in 1 .. Len(cs) : at[i] = j
  BY <1>3 DEF Picks
<1>6. w \in [1 .. Len(cs) -> Inputs]
  BY <1>4 DEF Controls
<1>7. w \in Seq(Inputs) /\ Len(w) = Len(cs)
  <2> HIDE DEF w
  <2>1. w \in Seq(Inputs)
    BY <1>4, <1>6, IsASeq
  <2> QED BY <1>4, <1>6, <2>1, LenProperties
<1>8. \A i \in DOMAIN w : i \in 1 .. Len(cs) /\ w[i] = ctl[at[i]].content
  BY <1>4, <1>5
<1>9. ASSUME NEW i \in DOMAIN w, NEW j \in DOMAIN w, w[i] = w[j] PROVE i = j
  <2>1. at[i] \in DOMAIN ctl /\ at[j] \in DOMAIN ctl /\ ctl[at[i]].content = ctl[at[j]].content
    BY <1>4, <1>5, <1>8, <1>9
  <2>2. at[i] = at[j]
    BY <2>1 DEF Once
  <2>3. i \in Nat /\ j \in Nat /\ at[i] \in Nat
    BY <1>4, <1>8, <2>1
  <2> QED BY <1>5, <1>8, <2>2, <2>3
<1>10. ASSUME NEW x \in Range(w)
       PROVE  \E i \in DOMAIN ctl : ctl[i].type \in kinds /\ ctl[i].content = x
  <2>1. PICK i \in DOMAIN w : w[i] = x
    BY DEF Range
  <2>2. at[i] \in DOMAIN ctl /\ ctl[at[i]] \in K /\ ctl[at[i]].content = x
    BY <1>4, <1>5, <1>8, <2>1
  <2> QED BY <2>2 DEF K
<1>11. ASSUME w = <<>>, NEW j \in DOMAIN ctl PROVE ctl[j].type \notin kinds
  <2>1. Len(cs) = 0
    BY <1>7, <1>11
  <2>2. ctl[j] \notin K
    BY <1>4, <1>5, <2>1
  <2> QED BY <2>2 DEF K, Range
<1> HIDE DEF w
<1> QED BY <1>1, <1>7, <1>9, <1>10, <1>11 DEF IsInjective

(* Every message is in one place: heard, of the turn that begins, steering, *)
(* queued, or a control that was read, waits in the queue or is to be put   *)
(* there.                                                                   *)
Apart(H, M, P, Q, T, C, S, n) ==
  /\ H \cap (M \cup P \cup Q \cup T \cup C \cup S) = {}
  /\ M \cap (P \cup Q \cup T \cup C \cup S) = {}
  /\ P \cap (Q \cup T \cup C \cup S) = {}
  /\ Q \cap (T \cup C \cup S) = {}
  /\ T \cap (C \cup S) = {}
  /\ C \cap S = {}
  /\ H \cup M \cup P \cup Q \cup T \cup C \cup S \subseteq 1 .. n
Just(m) == {m} \ {None}
Placed(h, m, p, q, t, c, s, n) ==
  /\ n \in 0 .. MaxInputs
  /\ h \in Seq(Inputs) /\ q \in Seq(Inputs) /\ IsInjective(h) /\ IsInjective(q)
  /\ {m, p} \subseteq Inputs \cup {None}
  /\ t \in Seq(Controls) /\ Len(t) <= 1
  /\ c \in Seq(Controls) /\ s \in Seq(Controls) /\ Once(c) /\ Once(s)
  /\ Apart(Range(h), Just(m), Just(p), Range(q), Held(t), Held(c), Held(s), n)

(* Of the empty sequences.                                                  *)
LEMMA NothingHeld == /\ <<>> \in Seq(Controls) /\ Len(<<>>) = 0 /\ Once(<<>>) /\ Held(<<>>) = {}
                     /\ Range(<<>>) = {} /\ Just(None) = {}
  BY DEF Once, Held, Range, Just

(* Messages may be given up.                                                *)
LEMMA PlacedLess ==
  ASSUME NEW h, NEW m, NEW p, NEW q, NEW t, NEW c, NEW s, NEW n,
         Placed(h, m, p, q, t, c, s, n),
         NEW n1 \in {m, None}, NEW t1 \in {t, <<>>}, NEW c1 \in {c, <<>>}, NEW s1 \in {s, <<>>}
  PROVE  Placed(h, n1, p, q, t1, c1, s1, n)
<1>1. /\ Just(n1) \subseteq Just(m) /\ Held(t1) \subseteq Held(t) /\ Held(c1) \subseteq Held(c)
      /\ Held(s1) \subseteq Held(s)
  BY NothingHeld DEF Just
<1>2. Apart(Range(h), Just(n1), Just(p), Range(q), Held(t1), Held(c1), Held(s1), n)
  BY <1>1 DEF Placed, Apart
<1>3. t1 \in Seq(Controls) /\ Len(t1) <= 1
  <2>1. t \in Seq(Controls) /\ Len(t) <= 1
    BY DEF Placed
  <2>2. <<>> \in Seq(Controls) /\ Len(<<>>) <= 1
    BY NothingHeld
  <2> QED BY <2>1, <2>2, t1 = t \/ t1 = <<>>
<1>4. c1 \in Seq(Controls) /\ Once(c1) /\ s1 \in Seq(Controls) /\ Once(s1)
  <2>1. c \in Seq(Controls) /\ Once(c) /\ s \in Seq(Controls) /\ Once(s)
    BY DEF Placed
  <2> QED BY <2>1, NothingHeld
<1>5. {n1, p} \subseteq Inputs \cup {None}
  BY DEF Placed
<1> QED BY <1>2, <1>3, <1>4, <1>5 DEF Placed

(* The message of a turn, or a steer, is heard.                             *)
LEMMA PlacedHeard ==
  ASSUME NEW h, NEW m, NEW p, NEW q, NEW t, NEW c, NEW s, NEW n,
         Placed(h, m, p, q, t, c, s, n)
  PROVE  /\ m # None => Placed(Append(h, m), None, p, q, t, c, s, n)
         /\ p # None => Placed(Append(h, p), m, None, q, t, c, s, n)
<1>0. /\ h \in Seq(Inputs) /\ IsInjective(h)
      /\ Apart(Range(h), Just(m), Just(p), Range(q), Held(t), Held(c), Held(s), n)
  BY DEF Placed
<1>1. ASSUME m # None PROVE Placed(Append(h, m), None, p, q, t, c, s, n)
  <2>1. m \in Inputs /\ m \notin Range(h) /\ Just(m) = {m}
    BY <1>0, <1>1 DEF Placed, Apart, Just
  <2> DEFINE g == Append(h, m)
  <2>2. g \in Seq(Inputs) /\ IsInjective(g) /\ Range(g) = Range(h) \cup {m}
    BY <1>0, <2>1, AppendDistinct
  <2> HIDE DEF g
  <2>3. Apart(Range(g), Just(None), Just(p), Range(q), Held(t), Held(c), Held(s), n)
    BY <1>0, <2>1, <2>2, NothingHeld DEF Apart
  <2>4. Placed(g, None, p, q, t, c, s, n)
    BY <2>2, <2>3 DEF Placed
  <2> QED BY <2>4 DEF g
<1>2. ASSUME p # None PROVE Placed(Append(h, p), m, None, q, t, c, s, n)
  <2>1. p \in Inputs /\ p \notin Range(h) /\ Just(p) = {p}
    BY <1>0, <1>2 DEF Placed, Apart, Just
  <2> DEFINE g == Append(h, p)
  <2>2. g \in Seq(Inputs) /\ IsInjective(g) /\ Range(g) = Range(h) \cup {p}
    BY <1>0, <2>1, AppendDistinct
  <2> HIDE DEF g
  <2>3. Apart(Range(g), Just(m), Just(None), Range(q), Held(t), Held(c), Held(s), n)
    BY <1>0, <2>1, <2>2, NothingHeld DEF Apart
  <2>4. Placed(g, m, None, q, t, c, s, n)
    BY <2>2, <2>3 DEF Placed
  <2> QED BY <2>4 DEF g
<1> QED BY <1>1, <1>2

(* A new message begins a turn, is queued, or is submitted.                 *)
LEMMA PlacedNew ==
  ASSUME NEW h, NEW m, NEW p, NEW q, NEW t, NEW c, NEW s, NEW n,
         Placed(h, m, p, q, t, c, s, n), n < MaxInputs
  PROVE  /\ m = None => Placed(h, n + 1, p, q, t, c, s, n + 1)
         /\ Placed(h, m, p, Append(q, n + 1), t, c, s, n + 1)
         /\ \A kind \in {"steer", "queue", "cancel"} :
              Placed(h, m, p, q, t, c, Append(s, [type |-> kind, content |-> n + 1]), n + 1)
<1> DEFINE k == n + 1
<1>1. /\ k \in Inputs /\ k \in 0 .. MaxInputs /\ k \notin 1 .. n /\ k \in 1 .. k
      /\ 1 .. n \subseteq 1 .. k /\ k # None
  BY TurnAssumptions DEF Placed, Inputs, None
<1>2. Apart(Range(h), Just(m), Just(p), Range(q), Held(t), Held(c), Held(s), n)
  BY DEF Placed
<1>3. k \notin Range(q) /\ k \notin Held(s)
  BY <1>1, <1>2 DEF Apart
<1> HIDE DEF k
<1>4. ASSUME m = None PROVE Placed(h, k, p, q, t, c, s, k)
  <2>1. Just(m) = {} /\ Just(k) = {k}
    BY <1>1, <1>4 DEF Just
  <2>2. Apart(Range(h), Just(k), Just(p), Range(q), Held(t), Held(c), Held(s), k)
    BY <1>1, <1>2, <2>1 DEF Apart
  <2> QED BY <1>1, <2>2 DEF Placed
<1>5. Placed(h, m, p, Append(q, k), t, c, s, k)
  <2> DEFINE r == Append(q, k)
  <2>1. r \in Seq(Inputs) /\ IsInjective(r) /\ Range(r) = Range(q) \cup {k}
    BY <1>1, <1>3, AppendDistinct DEF Placed
  <2> HIDE DEF r
  <2>2. Apart(Range(h), Just(m), Just(p), Range(r), Held(t), Held(c), Held(s), k)
    BY <1>1, <1>2, <2>1 DEF Apart
  <2>3. Placed(h, m, p, r, t, c, s, k)
    BY <1>1, <2>1, <2>2 DEF Placed
  <2> QED BY <2>3 DEF r
<1>6. ASSUME NEW kind \in {"steer", "queue", "cancel"}
      PROVE  Placed(h, m, p, q, t, c, Append(s, [type |-> kind, content |-> k]), k)
  <2> DEFINE e == [type |-> kind, content |-> k]
             r == Append(s, e)
  <2>1. e \in Controls /\ e.content = k
    BY <1>1 DEF Controls
  <2> HIDE DEF e
  <2>2. r \in Seq(Controls) /\ Once(r) /\ Held(r) = Held(s) \cup {k}
    BY <1>3, <2>1, AppendOnce DEF Placed
  <2> HIDE DEF r
  <2>3. Apart(Range(h), Just(m), Just(p), Range(q), Held(t), Held(c), Held(r), k)
    BY <1>1, <1>2, <2>2 DEF Apart
  <2>4. Placed(h, m, p, q, t, c, r, k)
    BY <1>1, <2>2, <2>3 DEF Placed
  <2> QED BY <2>4 DEF r, e
<1> QED BY <1>4, <1>5, <1>6 DEF k

(* A control is put into the queue, is read there, and is told to queue or  *)
(* to steer.                                                                *)
LEMMA PlacedPut ==
  ASSUME NEW h, NEW m, NEW p, NEW q, NEW t, NEW c, NEW s, NEW n,
         Placed(h, m, p, q, t, c, s, n), s # <<>>
  PROVE  Placed(h, m, p, q, t, Append(c, Head(s)), Tail(s), n)
<1>0. Apart(Range(h), Just(m), Just(p), Range(q), Held(t), Held(c), Held(s), n)
  BY DEF Placed
<1> DEFINE e == Head(s)
           r == Tail(s)
           d == Append(c, e)
<1>1. /\ e \in Controls /\ e.content \in Held(s) /\ r \in Seq(Controls) /\ Once(r)
      /\ Held(r) \subseteq Held(s) \ {e.content}
  BY TailOnce DEF Placed
<1> HIDE DEF e, r
<1>2. d \in Seq(Controls) /\ Once(d) /\ Held(d) = Held(c) \cup {e.content}
  BY <1>0, <1>1, AppendOnce DEF Placed, Apart
<1> HIDE DEF d
<1>3. Apart(Range(h), Just(m), Just(p), Range(q), Held(t), Held(d), Held(r), n)
  BY <1>0, <1>1, <1>2 DEF Apart
<1>4. Placed(h, m, p, q, t, d, r, n)
  BY <1>1, <1>2, <1>3 DEF Placed
<1> QED BY <1>4 DEF d, e, r

(* A control that is read waits no more.                                    *)
LEMMA PlacedTaken ==
  ASSUME NEW h, NEW m, NEW p, NEW q, NEW c, NEW s, NEW n,
         Placed(h, m, p, q, <<>>, c, s, n), c # <<>>
  PROVE  Placed(h, m, p, q, <<Head(c)>>, Tail(c), s, n)
<1>0. Apart(Range(h), Just(m), Just(p), Range(q), Held(<<>>), Held(c), Held(s), n)
  BY DEF Placed
<1> DEFINE e == Head(c)
           r == Tail(c)
           t == <<e>>
<1>1. /\ e \in Controls /\ e.content \in Held(c) /\ r \in Seq(Controls) /\ Once(r)
      /\ Held(r) \subseteq Held(c) \ {e.content}
  BY TailOnce DEF Placed
<1> HIDE DEF e, r
<1>2. t \in Seq(Controls) /\ Len(t) = 1 /\ DOMAIN t = {1} /\ t[1] = e
  BY <1>1
<1>3. Held(t) = {e.content}
  BY <1>2 DEF Held
<1> HIDE DEF t
<1>4. Apart(Range(h), Just(m), Just(p), Range(q), Held(t), Held(r), Held(s), n)
  BY <1>0, <1>1, <1>3 DEF Apart
<1>5. Placed(h, m, p, q, t, r, s, n)
  BY <1>1, <1>2, <1>4 DEF Placed
<1> QED BY <1>5 DEF t, e, r

(* A control that was read is queued, or steers.                            *)
LEMMA PlacedTold ==
  ASSUME NEW h, NEW m, NEW p, NEW q, NEW t, NEW c, NEW s, NEW n,
         Placed(h, m, p, q, t, c, s, n), t # <<>>
  PROVE  /\ Placed(h, m, p, Append(q, t[1].content), <<>>, c, s, n)
         /\ Placed(h, m, t[1].content, q, <<>>, c, s, n)
<1> DEFINE x == t[1].content
<1>0. Apart(Range(h), Just(m), Just(p), Range(q), Held(t), Held(c), Held(s), n)
  BY DEF Placed
<1>1. t \in Seq(Controls) /\ 1 \in DOMAIN t /\ t[1] \in Controls
  BY DEF Placed
<1>2. x \in Inputs /\ x \in Held(t) /\ Just(x) = {x}
  BY <1>1 DEF Controls, Held, Just, Inputs, None
<1> HIDE DEF x
<1>3. Placed(h, m, p, Append(q, x), <<>>, c, s, n)
  <2> DEFINE r == Append(q, x)
  <2>1. r \in Seq(Inputs) /\ IsInjective(r) /\ Range(r) = Range(q) \cup {x}
    BY <1>0, <1>2, AppendDistinct DEF Placed, Apart
  <2> HIDE DEF r
  <2>2. Apart(Range(h), Just(m), Just(p), Range(r), Held(<<>>), Held(c), Held(s), n)
    BY <1>0, <1>2, <2>1, NothingHeld DEF Apart
  <2>3. Placed(h, m, p, r, <<>>, c, s, n)
    BY <2>1, <2>2, NothingHeld DEF Placed
  <2> QED BY <2>3 DEF r
<1>4. Placed(h, m, x, q, <<>>, c, s, n)
  <2>1. Apart(Range(h), Just(m), Just(x), Range(q), Held(<<>>), Held(c), Held(s), n)
    BY <1>0, <1>2, NothingHeld DEF Apart
  <2> QED BY <1>2, <2>1, NothingHeld DEF Placed
<1> QED BY <1>3, <1>4 DEF x

(* The next queued turn begins.                                             *)
LEMMA PlacedNext ==
  ASSUME NEW h, NEW p, NEW q, NEW t, NEW c, NEW s, NEW n,
         Placed(h, None, p, q, t, c, s, n), q # <<>>
  PROVE  Placed(h, Head(q), p, Tail(q), t, c, s, n)
<1>0. Apart(Range(h), Just(None), Just(p), Range(q), Held(t), Held(c), Held(s), n)
  BY DEF Placed
<1> DEFINE e == Head(q)
           r == Tail(q)
<1>1. /\ e \in Inputs /\ e \in Range(q) /\ r \in Seq(Inputs) /\ IsInjective(r)
      /\ Range(r) \subseteq Range(q) \ {e}
  BY TailDistinct DEF Placed
<1> HIDE DEF e, r
<1>2. Just(e) = {e}
  BY <1>1 DEF Just, Inputs, None
<1>3. Apart(Range(h), Just(e), Just(p), Range(r), Held(t), Held(c), Held(s), n)
  BY <1>0, <1>1, <1>2 DEF Apart
<1>4. Placed(h, e, p, r, t, c, s, n)
  BY <1>1, <1>3 DEF Placed
<1> QED BY <1>4 DEF e, r

(* The control queue is emptied.                                            *)
LEMMA PlacedDrained ==
  ASSUME NEW h, NEW m, NEW t, NEW s, NEW n,
         Placed(h, m, pendingSteer, queued, t, ctl, s, n)
  PROVE  /\ Placed(h, m, Drained.pending, Drained.queued, t, <<>>, s, n)
         /\ Drained.pending = None => pendingSteer = None
         /\ status # "running" => Drained.pending = pendingSteer
<1>0. /\ Apart(Range(h), Just(m), Just(pendingSteer), Range(queued), Held(t), Held(ctl),
               Held(s), n)
      /\ ctl \in Seq(Controls) /\ Once(ctl) /\ queued \in Seq(Inputs) /\ IsInjective(queued)
      /\ pendingSteer \in Inputs \cup {None}
  BY DEF Placed
<1> DEFINE running == status = "running"
           steers == Contents({"steer"})
           kinds == IF running THEN {"queue"} ELSE {"queue", "steer"}
           more == Contents(kinds)
           q == queued \o more
           p == IF running /\ steers # <<>> THEN steers[Len(steers)] ELSE pendingSteer
<1>1. Drained.queued = q /\ Drained.pending = p
  <2>1. Drained.queued = queued \o Contents(kinds)
    BY DEF Drained
  <2> QED BY <2>1 DEF Drained
<1>2. /\ more \in Seq(Inputs) /\ IsInjective(more)
      /\ \A x \in Range(more) :
           \E i \in DOMAIN ctl : ctl[i].type \in kinds /\ ctl[i].content = x
  BY <1>0, ContentsAre
<1>3. /\ steers \in Seq(Inputs)
      /\ \A x \in Range(steers) :
           \E i \in DOMAIN ctl : ctl[i].type \in {"steer"} /\ ctl[i].content = x
  BY <1>0, ContentsAre
<1> HIDE DEF more, steers
<1>4. Range(more) \subseteq Held(ctl)
  BY <1>2 DEF Held
<1>5. q \in Seq(Inputs) /\ IsInjective(q) /\ Range(q) \subseteq Range(queued) \cup Range(more)
  <2>1. Range(queued) \cap Range(more) = {}
    BY <1>0, <1>4 DEF Apart
  <2> QED BY <1>0, <1>2, <2>1, ConcatDistinct
<1>6. ASSUME running, steers # <<>>
      PROVE  p \in Inputs /\ p \in Held(ctl) /\ p \notin Range(more)
  <2>1. p = steers[Len(steers)] /\ Len(steers) \in DOMAIN steers
    BY <1>3, <1>6
  <2>2. p \in Inputs /\ p \in Range(steers)
    BY <1>3, <2>1 DEF Range
  <2>3. PICK i \in DOMAIN ctl : ctl[i].type = "steer" /\ ctl[i].content = p
    BY <1>3, <2>2
  <2>4. p \in Held(ctl)
    BY <2>3 DEF Held
  <2>5. p \notin Range(more)
    <3>1. "steer" \notin kinds
      BY <1>6
    <3> HIDE DEF kinds, p
    <3>2. ASSUME p \in Range(more) PROVE FALSE
      <4>1. PICK j \in DOMAIN ctl : ctl[j].type \in kinds /\ ctl[j].content = p
        BY <1>2, <3>2
      <4>2. i = j
        BY <1>0, <2>3, <4>1 DEF Once
      <4> QED BY <2>3, <3>1, <4>1, <4>2
    <3> QED BY <3>2
  <2> QED BY <2>2, <2>4, <2>5
<1>7. p = pendingSteer \/ (p \in Inputs /\ p \in Held(ctl) /\ p \notin Range(more))
  BY <1>6
<1>10. status # "running" => p = pendingSteer
  OBVIOUS
<1> HIDE DEF p, q
<1>11. p = None => pendingSteer = None
  BY <1>7 DEF Inputs, None
<1>8. Apart(Range(h), Just(m), Just(p), Range(q), Held(t), Held(<<>>), Held(s), n)
  <2>1. CASE p = pendingSteer
    BY <1>0, <1>4, <1>5, <2>1, NothingHeld DEF Apart
  <2>2. CASE p \in Held(ctl) /\ p \notin Range(more)
    <3>1. Just(p) \subseteq Held(ctl) /\ Just(p) \cap Range(more) = {}
      BY <2>2 DEF Just
    <3> QED BY <1>0, <1>4, <1>5, <3>1, NothingHeld DEF Apart
  <2> QED BY <1>7, <2>1, <2>2
<1>9. Placed(h, m, p, q, t, <<>>, s, n)
  BY <1>0, <1>5, <1>7, <1>8, NothingHeld DEF Placed
<1> QED BY <1>1, <1>9, <1>10, <1>11

-----------------------------------------------------------------------------
(* The message of a turn that begins is heard in its next step.             *)
Unheard == IF pc = "started" THEN msg ELSE None
EachInOnePlace == Placed(heard, Unheard, pendingSteer, queued, taken, ctl, soon, sent)

(* Steps that only give messages up.                                        *)
LEMMA QuietStep ==
  ASSUME EachInOnePlace, Unheard' \in {Unheard, None}, UNCHANGED <<heard, pendingSteer, queued, sent>>,
         taken' \in {taken, <<>>}, ctl' \in {ctl, <<>>}, soon' \in {soon, <<>>}
  PROVE  EachInOnePlace'
<1> DEFINE P(h, m, p, q, t, c, s, n) == Placed(h, m, p, q, t, c, s, n)
<1>1. P(heard, Unheard', pendingSteer, queued, taken', ctl', soon', sent)
  BY PlacedLess DEF EachInOnePlace
<1> QED BY <1>1 DEF EachInOnePlace

(* Steps that empty the control queue.                                      *)
LEMMA DrainStep ==
  ASSUME EachInOnePlace, Unheard' \in {Unheard, None}, UNCHANGED <<heard, sent>>,
         queued' = Drained.queued,
         pendingSteer' = Drained.pending \/ (pendingSteer' = pendingSteer /\ Drained.pending = None),
         ctl' = <<>>, taken' \in {taken, <<>>}, soon' \in {soon, <<>>}
  PROVE  EachInOnePlace'
<1>1. Placed(heard, Unheard, Drained.pending, Drained.queued, taken, <<>>, soon, sent)
  BY PlacedDrained DEF EachInOnePlace
<1>2. pendingSteer' = Drained.pending
  BY PlacedDrained DEF EachInOnePlace
<1>3. Placed(heard, Unheard', Drained.pending, Drained.queued, taken', <<>>, soon', sent)
  BY <1>1, PlacedLess
<1> QED BY <1>2, <1>3 DEF EachInOnePlace

(* A steer that was found there, or before, becomes the user message.       *)
LEMMA RedirectStep ==
  ASSUME EachInOnePlace, pc # "started", pc' # "started", UNCHANGED <<sent, taken, soon>>,
         queued' = Drained.queued, ctl' = <<>>,
         Drained.pending # None, Redirect(Drained.pending)
  PROVE  EachInOnePlace'
<1>1. Placed(heard, Unheard, Drained.pending, Drained.queued, taken, <<>>, soon, sent)
  BY PlacedDrained DEF EachInOnePlace
<1>2. Placed(Append(heard, Drained.pending), Unheard, None, Drained.queued, taken, <<>>, soon, sent)
  BY <1>1, PlacedHeard
<1>3. heard' = Append(heard, Drained.pending) /\ pendingSteer' = None /\ Unheard = None /\ Unheard' = None
  BY DEF Redirect, Unheard
<1> QED BY <1>2, <1>3 DEF EachInOnePlace

(* A control that was read is told.                                         *)
LEMMA InterruptStep ==
  ASSUME EachInOnePlace, Interrupt, pc # "started", pc' # "started",
         UNCHANGED <<heard, queued, ctl, soon, sent>>
  PROVE  EachInOnePlace'
<1>1. Unheard' = Unheard /\ taken # <<>> /\ taken' = <<>>
  BY DEF Unheard, Interrupt, Disarm
<1>2. CASE taken[1].type = "steer"
  <2>1. Placed(heard, Unheard, taken[1].content, queued, <<>>, ctl, soon, sent)
    BY <1>1, PlacedTold DEF EachInOnePlace
  <2>2. pendingSteer' = taken[1].content
    BY <1>2 DEF Interrupt
  <2> QED BY <1>1, <2>1, <2>2 DEF EachInOnePlace
<1>3. CASE taken[1].type # "steer"
  <2>1. pendingSteer' = pendingSteer
    BY <1>3 DEF Interrupt
  <2> QED BY <1>1, <2>1, QuietStep
<1> QED BY <1>2, <1>3

(* The user's steps.                                                        *)
LEMMA UserSteps ==
  ASSUME EachInOnePlace,
         Start \/ (\E kind \in {"steer", "queue", "cancel"} : Submit(kind)) \/ Put \/ TakeControl
  PROVE  EachInOnePlace'
<1>1. CASE Start
  <2>1. /\ Unheard = None /\ Unheard' = sent + 1 /\ sent' = sent + 1 /\ sent < MaxInputs
        /\ taken' = <<>> /\ ctl' = <<>> /\ soon' = <<>>
        /\ UNCHANGED <<heard, pendingSteer, queued>>
    BY <1>1 DEF Start, Begin, Disarm, Unheard
  <2>2. Placed(heard, sent + 1, pendingSteer, queued, taken, ctl, soon, sent + 1)
    BY <2>1, PlacedNew DEF EachInOnePlace
  <2>3. Placed(heard, sent + 1, pendingSteer, queued, <<>>, <<>>, <<>>, sent + 1)
    BY <2>2, PlacedLess
  <2> QED BY <2>1, <2>3 DEF EachInOnePlace
<1>2. ASSUME NEW kind \in {"steer", "queue", "cancel"}, Submit(kind) PROVE EachInOnePlace'
  <2>1. /\ sent' = sent + 1 /\ sent < MaxInputs /\ Unheard' = Unheard
        /\ UNCHANGED <<heard, pendingSteer, taken, ctl>>
        /\ \/ queued' = queued /\ soon' = Append(soon, [type |-> kind, content |-> sent + 1])
           \/ soon' = soon /\ queued' = Append(queued, sent + 1)
    BY <1>2 DEF Submit, Unheard
  <2>2. /\ Placed(heard, Unheard, pendingSteer, Append(queued, sent + 1), taken, ctl, soon, sent + 1)
        /\ Placed(heard, Unheard, pendingSteer, queued, taken, ctl,
                  Append(soon, [type |-> kind, content |-> sent + 1]), sent + 1)
    BY <2>1, PlacedNew DEF EachInOnePlace
  <2> QED BY <2>1, <2>2 DEF EachInOnePlace
<1>3. CASE Put
  <2>1. /\ soon # <<>> /\ ctl' = Append(ctl, Head(soon)) /\ soon' = Tail(soon) /\ Unheard' = Unheard
        /\ UNCHANGED <<heard, pendingSteer, queued, taken, sent>>
    BY <1>3 DEF Put, talk, Unheard
  <2>2. Placed(heard, Unheard, pendingSteer, queued, taken, Append(ctl, Head(soon)), Tail(soon), sent)
    BY <2>1, PlacedPut DEF EachInOnePlace
  <2> QED BY <2>1, <2>2 DEF EachInOnePlace
<1>4. CASE TakeControl
  <2>1. /\ taken = <<>> /\ ctl # <<>> /\ taken' = <<Head(ctl)>> /\ ctl' = Tail(ctl)
        /\ Unheard' = Unheard /\ UNCHANGED <<heard, pendingSteer, queued, soon, sent>>
    BY <1>4 DEF TakeControl, talk, Unheard
  <2>2. Placed(heard, Unheard, pendingSteer, queued, <<Head(ctl)>>, Tail(ctl), soon, sent)
    BY <2>1, PlacedTaken DEF EachInOnePlace
  <2> QED BY <2>1, <2>2 DEF EachInOnePlace
<1> QED BY <1>1, <1>2, <1>3, <1>4

(* Every step leaves each message in one place.                             *)
LEMMA PlacesStep ==
  ASSUME EachInOnePlace, Lifecycle, pc = "started" => msg # None, [TurnNext]_turnVars
  PROVE  EachInOnePlace'
<1>1. CASE UNCHANGED turnVars
  BY <1>1, QuietStep DEF turnVars, box, talk, Unheard
<1>2. CASE Start \/ (\E kind \in {"steer", "queue", "cancel"} : Submit(kind)) \/ Put \/ TakeControl
  BY <1>2, UserSteps
<1>3. CASE \/ ReachLimit \/ FinishLimited \/ Request \/ Complete \/ Flush \/ StreamFails \/ Retry
           \/ Call \/ ReadsReturn \/ Gather \/ EndBatch \/ Remind \/ Block \/ Announce \/ Expires
           \/ Recover
  <2>1. pc' # "started"
    BY <1>3 DEF ReachLimit, FinishLimited, Request, Complete, Flush, StreamFails, Retry, Call,
                ReadsReturn, Gather, EndBatch, Remind, Block, Announce, Expires, Recover,
                Stop, EndRun
  <2>2. UNCHANGED <<heard, pendingSteer, queued, sent, ctl, soon>>
    BY <1>3 DEF ReachLimit, FinishLimited, Request, Complete, Flush, StreamFails, Retry, Call,
                ReadsReturn, Gather, EndBatch, Remind, Block, Announce, Expires, Recover,
                box, talk
  <2>3. taken' \in {taken, <<>>}
    BY <1>3 DEF ReachLimit, FinishLimited, Request, Complete, Flush, StreamFails, Retry, Call,
                ReadsReturn, Gather, EndBatch, Remind, Block, Announce, Expires, Recover,
                box, Disarm
  <2> QED BY <2>1, <2>2, <2>3, QuietStep DEF Unheard
<1>4. CASE Hear
  <2>1. /\ Unheard = msg /\ Unheard' = None /\ heard' = Append(heard, msg) /\ msg # None
        /\ UNCHANGED <<pendingSteer, queued, taken, ctl, soon, sent>>
    BY <1>4 DEF Hear, Unheard, box
  <2>2. Placed(Append(heard, msg), None, pendingSteer, queued, taken, ctl, soon, sent)
    BY <2>1, PlacedHeard DEF EachInOnePlace
  <2> QED BY <2>1, <2>2 DEF EachInOnePlace
<1>5. CASE HandleQueue
  <2>1. /\ taken # <<>> /\ queued' = Append(queued, taken[1].content) /\ taken' = <<>>
        /\ Unheard' = Unheard /\ UNCHANGED <<heard, pendingSteer, ctl, soon, sent>>
    BY <1>5 DEF HandleQueue, Unheard
  <2>2. Placed(heard, Unheard, pendingSteer, Append(queued, taken[1].content), <<>>, ctl, soon, sent)
    BY <2>1, PlacedTold DEF EachInOnePlace
  <2> QED BY <2>1, <2>2 DEF EachInOnePlace
<1>6. CASE InterruptStream \/ InterruptReads
  BY <1>6, InterruptStep DEF InterruptStream, InterruptReads
<1>7. CASE Iterate \/ Answered \/ Accept
  <2>1. /\ pc # "started" /\ pc' # "started" /\ queued' = Drained.queued /\ ctl' = <<>>
        /\ UNCHANGED <<soon, taken, sent>>
    BY <1>7 DEF Iterate, Answered, Accept, Try, Stop, EndRun
  <2>2. CASE Drained.pending # None /\ Redirect(Drained.pending)
    BY <2>1, <2>2, RedirectStep
  <2>3. CASE UNCHANGED heard /\ (pendingSteer' = Drained.pending
                                   \/ (pendingSteer' = pendingSteer /\ Drained.pending = None))
    BY <2>1, <2>3, DrainStep DEF Unheard
  <2>4. CASE Iterate
    BY <2>2, <2>3, <2>4 DEF Iterate
  <2>5. CASE Answered
    BY <2>2, <2>3, <2>5 DEF Answered
  <2>6. CASE Accept
    BY <2>2, <2>3, <2>6 DEF Accept
  <2> QED BY <1>7, <2>4, <2>5, <2>6
<1>8. CASE NextCall \/ ToolReturns \/ Break
  <2>1. /\ pc' # "started" /\ queued' = Drained.queued /\ pendingSteer' = Drained.pending
        /\ ctl' = <<>> /\ soon' \in {soon, <<>>} /\ UNCHANGED <<heard, taken, sent>>
    BY <1>8 DEF NextCall, ToolReturns, Break, SkipAll
  <2> QED BY <2>1, DrainStep DEF Unheard
<1>9. CASE Unwind
  <2>1. pc = "unwinding" /\ status # "running" /\ Unheard = None
    BY <1>9 DEF Unwind, Lifecycle, Unheard
  <2>2. Drained.pending = pendingSteer
    BY <2>1, PlacedDrained DEF EachInOnePlace
  <2>3. CASE Drained.queued = <<>>
    <3>1. /\ pc' = "idle" /\ queued' = Drained.queued /\ taken' = <<>> /\ ctl' = <<>> /\ soon' = <<>>
          /\ UNCHANGED <<heard, pendingSteer, sent>>
      BY <1>9, <2>3 DEF Unwind, Disarm
    <3> QED BY <2>2, <3>1, DrainStep DEF Unheard
  <2>4. CASE Drained.queued # <<>>
    <3>1. /\ Unheard' = Head(Drained.queued) /\ queued' = Tail(Drained.queued)
          /\ taken' = <<>> /\ ctl' = <<>> /\ soon' = <<>>
          /\ UNCHANGED <<heard, pendingSteer, sent>>
      BY <1>9, <2>4 DEF Unwind, Begin, Disarm, Unheard
    <3>2. Placed(heard, None, pendingSteer, Drained.queued, taken, <<>>, soon, sent)
      BY <2>1, <2>2, PlacedDrained DEF EachInOnePlace
    <3>3. Placed(heard, Head(Drained.queued), pendingSteer, Tail(Drained.queued), taken, <<>>, soon, sent)
      BY <2>4, <3>2, PlacedNext
    <3>4. Placed(heard, Head(Drained.queued), pendingSteer, Tail(Drained.queued), <<>>, <<>>, <<>>, sent)
      BY <3>3, PlacedLess
    <3> QED BY <3>1, <3>4 DEF EachInOnePlace
  <2> QED BY <2>3, <2>4
<1> QED BY <1>1, <1>2, <1>3, <1>4, <1>5, <1>6, <1>7, <1>8, <1>9 DEF TurnNext, Producer

(* The other variables, and what the budget of steps leaves to a batch.     *)
TurnBounds ==
  /\ msg \in Inputs \cup {None} /\ (pc = "started" => msg # None)
  /\ open \in BOOLEAN /\ armed \in BOOLEAN /\ abort \in BOOLEAN /\ retried \in BOOLEAN
  /\ status \in Refused \cup {"none", "running", "completed"}
  /\ steps \in 0 .. MaxSteps /\ attempts \in 0 .. (MaxSteps + 2) /\ owed \in 0 .. MaxCalls
  /\ pc = "tool" => owed > 0 /\ steps < MaxSteps
  /\ pc \in {"reads", "gathering"} => steps + owed <= MaxSteps

(* What is drained is for the user message to become.                       *)
LEMMA DrainedIs ==
  ASSUME EachInOnePlace
  PROVE  /\ Drained.abort \in BOOLEAN /\ Drained.pending \in Inputs \cup {None}
         /\ Drained.queued # <<>> => Head(Drained.queued) \in Inputs
<1>1. Placed(heard, Unheard, Drained.pending, Drained.queued, taken, <<>>, soon, sent)
  BY PlacedDrained DEF EachInOnePlace
<1>2. Drained.queued \in Seq(Inputs) /\ Drained.pending \in Inputs \cup {None}
  BY <1>1 DEF Placed
<1>3. Drained.abort \in BOOLEAN
  BY DEF Drained
<1> QED BY <1>2, <1>3

(* Every step keeps the bounds.                                             *)
LEMMA BoundsStep ==
  ASSUME EachInOnePlace, TurnBounds, Lifecycle, [TurnNext]_turnVars
  PROVE  TurnBounds'
<1> USE DEF TurnBounds
<1>0. /\ MaxSteps \in Nat /\ MaxCalls \in Nat /\ MaxInputs \in Nat
      /\ 0 \in 0 .. MaxSteps /\ 0 \in 0 .. (MaxSteps + 2) /\ 0 \in 0 .. MaxCalls
  BY TurnAssumptions
<1>b. /\ steps \in 0 .. MaxSteps /\ attempts \in 0 .. (MaxSteps + 2) /\ owed \in 0 .. MaxCalls
      /\ steps \in Int /\ attempts \in Int /\ owed \in Int
  BY <1>0
<1> USE <1>0, <1>b
<1>d. /\ Drained.abort \in BOOLEAN /\ Drained.pending \in Inputs \cup {None}
      /\ Drained.queued # <<>> => Head(Drained.queued) \in Inputs /\ Head(Drained.queued) # None
  BY DrainedIs DEF Inputs, None
<1>e. "aborted" \in Refused /\ "timeout" \in Refused /\ "budget" \in Refused
      /\ "idle_timeout" \in Refused /\ "model_error" \in Refused /\ "blocked" \in Refused
      /\ "step_limit" \in Refused /\ "retry_limit" \in Refused /\ "runtime_error" \in Refused
  BY DEF Refused
<1>1. CASE UNCHANGED turnVars
  BY <1>1 DEF turnVars, run, work, box, talk
<1>2. CASE Start
  <2>1. sent + 1 \in Inputs /\ sent + 1 # None
    <3>1. sent \in 0 .. MaxInputs /\ sent < MaxInputs
      BY <1>2 DEF Start, EachInOnePlace, Placed
    <3> QED BY <3>1 DEF Inputs, None
  <2>2. /\ msg' = sent + 1 /\ pc' = "started" /\ open' = TRUE /\ armed' = FALSE /\ abort' = FALSE
        /\ retried' = FALSE /\ status' = "running" /\ steps' = 0 /\ attempts' = 0 /\ owed' = 0
    BY <1>2 DEF Start, Begin, Disarm
  <2> QED BY <1>0, <2>1, <2>2
<1>3. CASE \E kind \in {"steer", "queue", "cancel"} : Submit(kind)
  BY <1>3 DEF Submit, run, work
<1>4. CASE Put \/ TakeControl
  BY <1>4 DEF Put, TakeControl, run, work, talk
<1>5. CASE Expires
  BY <1>5, <1>e DEF Expires, InTurn, work, talk
<1>6. CASE Break
  BY <1>6, <1>d DEF Break, run, work
<1>7. CASE Hear \/ ReachLimit \/ FinishLimited \/ Request
  BY <1>7, <1>e DEF Hear, ReachLimit, FinishLimited, Request, Stop, EndRun, run, box, work, talk
<1>8. CASE Iterate
  <2>1. msg' \in Inputs \cup {None} /\ pc' \in {"building", "closing"} /\ abort' \in BOOLEAN
        /\ status' \in {status, "aborted"} /\ attempts' \in {attempts, attempts + 1}
    BY <1>8, <1>d DEF Iterate, Try, Stop, EndRun, run, Redirect
  <2>2. attempts < MaxSteps + 2 /\ UNCHANGED <<open, armed, retried, steps, owed>>
    BY <1>8 DEF Iterate, MayTry
  <2> QED BY <2>1, <2>2, <1>e
<1>9. CASE HandleQueue \/ Complete \/ Flush
  BY <1>9 DEF HandleQueue, Complete, Flush, Disarm, run, work, talk
<1>10. CASE InterruptStream
  BY <1>10 DEF InterruptStream, Interrupt, Disarm, run, work
<1>11. CASE StreamFails
  BY <1>11, <1>e DEF StreamFails, Disarm, Stop, EndRun, run, talk
<1>12. CASE Answered
  <2>1. msg' \in Inputs \cup {None} /\ pc' \in {"top", "closing", "calls", "retry", "final"}
        /\ abort' \in BOOLEAN /\ status' \in {status, "aborted"} /\ owed' \in {owed} \cup 1 .. MaxCalls
    BY <1>12, <1>d DEF Answered, Stop, EndRun, run, Redirect
  <2>2. UNCHANGED <<open, armed, retried, steps, attempts>>
    BY <1>12 DEF Answered
  <2>3. owed' \in 0 .. MaxCalls
    BY <2>1
  <2>4. pc' \notin {"started", "tool", "reads", "gathering"}
    BY <2>1
  <2> QED BY <2>1, <2>2, <2>3, <2>4, <1>e
<1>13. CASE Retry \/ Remind \/ Block
  BY <1>13, <1>e DEF Retry, Remind, Block, Stop, EndRun, run, work, box, talk
<1>14. CASE Call
  <2>1. /\ pc' \in {"closing", "batch", "reads"} /\ armed' \in {armed, TRUE}
        /\ abort' \in {abort, FALSE} /\ status' \in {status, "budget"}
        /\ pc' = "reads" => owed \in 2 .. (MaxSteps - steps)
    BY <1>14 DEF Call, Stop, EndRun, run
  <2>2. UNCHANGED <<msg, open, retried, steps, attempts, owed>>
    BY <1>14 DEF Call, work, talk
  <2>3. pc' = "reads" => steps + owed <= MaxSteps
    BY <1>0, <1>b, <2>1
  <2> QED BY <1>e, <2>1, <2>2, <2>3
<1>15. CASE NextCall
  <2>1. /\ pc' \in {"batch", "tool"} /\ owed' \in {0, owed - 1, owed} /\ owed > 0
        /\ pc' = "tool" => owed' = owed /\ steps < MaxSteps
    BY <1>15 DEF NextCall, SkipAll, SkipOne, BudgetSpent
  <2>2. abort' \in BOOLEAN /\ UNCHANGED <<msg, status, open, armed, retried, steps, attempts>>
    BY <1>15, <1>d DEF NextCall, run
  <2>3. owed' \in 0 .. MaxCalls /\ (owed' = owed => owed' > 0)
    BY <2>1
  <2>4. pc' \notin {"started", "reads", "gathering"}
    BY <2>1
  <2> QED BY <2>1, <2>2, <2>3, <2>4
<1>16. CASE ToolReturns
  BY <1>16, <1>d DEF ToolReturns, run
<1>17. CASE InterruptReads \/ ReadsReturn \/ Gather
  <2>1. pc \in {"reads", "gathering"} /\ steps + owed \in 0 .. MaxSteps
    BY <1>0, <1>b, <1>17 DEF InterruptReads, ReadsReturn, Gather
  <2>2. UNCHANGED <<msg, open, retried, status, attempts>>
    BY <1>17 DEF InterruptReads, ReadsReturn, Gather, run, work, box, talk
  <2>3. armed' \in BOOLEAN /\ abort' \in BOOLEAN
    BY <1>17 DEF InterruptReads, ReadsReturn, Gather, Interrupt, Disarm, box
  <2>4. CASE InterruptReads
    <3>1. PICK k \in 0 .. owed : steps' = steps + k
      BY <2>4 DEF InterruptReads
    <3>2. steps' \in 0 .. MaxSteps
      BY <1>0, <1>b, <2>1, <3>1
    <3> QED BY <1>0, <2>2, <2>3, <2>4, <3>2 DEF InterruptReads
  <2>5. CASE ReadsReturn
    BY <2>2, <2>3, <2>5 DEF ReadsReturn, work
  <2>6. CASE Gather
    BY <1>0, <2>1, <2>2, <2>3, <2>6 DEF Gather
  <2> QED BY <1>17, <2>4, <2>5, <2>6
<1>18. CASE EndBatch
  BY <1>18, <1>e DEF EndBatch, Stop, EndRun, run, work, box, talk
<1>19. CASE Accept
  <2>1. msg' \in Inputs \cup {None} /\ pc' \in {"top", "closing"} /\ abort' \in BOOLEAN
        /\ status' \in {status, "aborted", "completed"}
    BY <1>19, <1>d DEF Accept, Stop, EndRun, run, Redirect
  <2>2. UNCHANGED <<open, armed, retried, steps, attempts, owed>>
    BY <1>19 DEF Accept, work
  <2> QED BY <2>1, <2>2, <1>e
<1>20. CASE Announce
  BY <1>20 DEF Announce, work, box, talk
<1>21. CASE Unwind
  <2>1. CASE Drained.queued = <<>>
    <3>1. /\ pc' = "idle" /\ abort' = Drained.abort /\ open' = FALSE /\ armed' = FALSE
          /\ UNCHANGED <<run, work, msg>>
      BY <1>21, <2>1 DEF Unwind, Disarm
    <3> QED BY <1>d, <3>1 DEF run, work
  <2>2. CASE Drained.queued # <<>>
    <3>1. /\ msg' = Head(Drained.queued) /\ pc' = "started" /\ open' = TRUE /\ armed' = FALSE
          /\ abort' = FALSE /\ retried' = FALSE /\ status' = "running" /\ steps' = 0
          /\ attempts' = 0 /\ owed' = 0
      BY <1>21, <2>2 DEF Unwind, Begin, Disarm
    <3> QED BY <1>0, <1>d, <2>2, <3>1
  <2> QED BY <2>1, <2>2
<1>22. CASE Recover
  BY <1>22, <1>e DEF Recover, work, box, talk
<1> QED
  BY <1>1, <1>2, <1>3, <1>4, <1>5, <1>6, <1>7, <1>8, <1>9, <1>10, <1>11, <1>12, <1>13, <1>14,
     <1>15, <1>16, <1>17, <1>18, <1>19, <1>20, <1>21, <1>22 DEF TurnNext, Producer

HeardInv == TurnInv /\ EachInOnePlace /\ TurnBounds

(* HeardInv, which says where the messages are and how far the run is,      *)
(* holds at the beginning, is kept by every step, and implies the types.    *)
LEMMA HeardInvHolds == TurnInit => HeardInv
<1> SUFFICES ASSUME TurnInit PROVE HeardInv
  OBVIOUS
<1>1. <<>> \in Seq(Inputs) /\ IsInjective(<<>>)
  BY DEF IsInjective
<1>2. Unheard = None
  BY DEF TurnInit, Unheard
<1>3. Apart({}, {}, {}, {}, {}, {}, {}, 0)
  BY DEF Apart
<1>7. /\ MaxSteps \in Nat /\ MaxCalls \in Nat /\ MaxInputs \in Nat
      /\ 0 \in 0 .. MaxSteps /\ 0 \in 0 .. (MaxSteps + 2) /\ 0 \in 0 .. MaxCalls
  BY TurnAssumptions
<1>4. Placed(<<>>, None, None, <<>>, <<>>, <<>>, <<>>, 0)
  <2>1. 0 \in 0 .. MaxInputs /\ {None, None} \subseteq Inputs \cup {None}
    BY <1>7
  <2>2. Len(<<>>) <= 1
    BY NothingHeld
  <2>3. Apart(Range(<<>>), Just(None), Just(None), Range(<<>>), Held(<<>>), Held(<<>>),
              Held(<<>>), 0)
    BY <1>3, NothingHeld
  <2> QED BY <1>1, <2>1, <2>2, <2>3, NothingHeld DEF Placed
<1>5. EachInOnePlace
  BY <1>2, <1>4 DEF TurnInit, EachInOnePlace
<1>6. TurnBounds
  BY <1>7 DEF TurnInit, TurnBounds
<1> QED BY <1>5, <1>6, TurnInvHolds DEF HeardInv

(* Every step keeps it.                                                     *)
LEMMA HeardInvStep == HeardInv /\ [TurnNext]_turnVars => HeardInv'
<1> SUFFICES ASSUME HeardInv, [TurnNext]_turnVars PROVE HeardInv'
  OBVIOUS
<1>1. TurnInv' /\ Lifecycle
  BY LifecycleStep, PairedStep DEF HeardInv, TurnInv
<1>2. EachInOnePlace'
  BY <1>1, PlacesStep DEF HeardInv, TurnBounds
<1>3. TurnBounds'
  BY <1>1, BoundsStep DEF HeardInv
<1> QED BY <1>1, <1>2, <1>3 DEF HeardInv

(* So it always holds.                                                      *)
LEMMA HeardInvAlways == TurnSpec => []HeardInv
<1> QED BY HeardInvHolds, HeardInvStep, PTL DEF TurnSpec

(* It implies the types.                                                    *)
LEMMA HeardInvType == HeardInv => TurnTypeOK
<1> SUFFICES ASSUME HeardInv PROVE TurnTypeOK
  OBVIOUS
<1>1. /\ soon \in Seq(Controls) /\ ctl \in Seq(Controls) /\ taken \in Seq(Controls)
      /\ queued \in Seq(Inputs) /\ pendingSteer \in Inputs \cup {None}
      /\ heard \in Seq(Inputs) /\ sent \in 0 .. MaxInputs
  BY DEF HeardInv, EachInOnePlace, Placed
<1>2. /\ pc \in InTurn \cup {"idle", "stopping", "unwinding", "broken", "failing"}
      /\ terminals \in Nat /\ announced \in Nat
  BY DEF HeardInv, TurnInv, Lifecycle, Working, Ending, InTurn
<1> QED BY <1>1, <1>2 DEF HeardInv, TurnBounds, TurnTypeOK

(* The variables of the engine keep their types, and the steps and attempts *)
(* of a turn within its budgets, whatever a batch or a steer adds.          *)
THEOREM TurnTypesCorrect == TurnSpec => []TurnTypeOK
<1> QED BY HeardInvAlways, HeardInvType, PTL

(* No message of the user enters the history twice, on whatever way it      *)
(* comes there: it is always in one place only.                             *)
THEOREM MessagesAreHeardOnce == TurnSpec => []HeardOnce
<1>1. HeardInv => HeardOnce
  BY DEF HeardInv, EachInOnePlace, Placed, HeardOnce
<1> QED BY <1>1, HeardInvAlways, PTL

(* A turn that reports success had looked at everything that had reached    *)
(* its queue: no cancel and no steer was left there.                        *)
THEOREM SuccessWasUpToDate == TurnSpec => SuccessIsUpToDate
<1> DEFINE UpToDate ==
             status = "running" /\ status' = "completed" =>
               /\ ~abort /\ pendingSteer = None
               /\ \A i \in DOMAIN ctl : ctl[i].type = "queue"
<1>1. ASSUME HeardInv, [TurnNext]_turnVars, status = "running", status' = "completed"
      PROVE  /\ ~abort /\ pendingSteer = None
             /\ \A i \in DOMAIN ctl : ctl[i].type = "queue"
  <2>1. Accept
    BY <1>1 DEF TurnNext, Producer, turnVars, run, Start, Begin, Submit, Put, TakeControl, Expires,
       Break, Hear, ReachLimit, FinishLimited, Request, Iterate, Try, HandleQueue, InterruptStream,
       Complete, Flush, StreamFails, Answered, Retry, Remind, Block, Call, NextCall, SkipAll,
       ToolReturns, InterruptReads, ReadsReturn, Gather, EndBatch, Announce, Unwind, Recover,
       Stop, EndRun
  <2>2. ~Drained.abort /\ Drained.pending = None
    BY <1>1, <2>1 DEF Accept, Stop, EndRun, run
  <2>3. /\ EachInOnePlace /\ ctl \in Seq(Controls) /\ Once(ctl)
        /\ Placed(heard, Unheard, pendingSteer, queued, taken, ctl, soon, sent)
    BY <1>1 DEF HeardInv, EachInOnePlace, Placed
  <2>4. pendingSteer = None
    BY <2>2, <2>3, PlacedDrained
  <2>5. ~abort /\ Contents({"cancel"}) = <<>>
    BY <2>2 DEF Drained
  <2>6. Contents({"steer"}) = <<>>
    <3> DEFINE steers == Contents({"steer"})
    <3>1. steers \in Seq(Inputs)
      BY <2>3, ContentsAre
    <3>2. steers # <<>> => Drained.pending = steers[Len(steers)]
      BY <1>1 DEF Drained
    <3> HIDE DEF steers
    <3>3. steers # <<>> => steers[Len(steers)] \in Inputs
      BY <3>1
    <3>4. steers = <<>>
      BY <2>2, <3>2, <3>3 DEF Inputs, None
    <3> QED BY <3>4 DEF steers
  <2>7. ASSUME NEW i \in DOMAIN ctl PROVE ctl[i].type = "queue"
    <3>1. ctl[i].type \notin {"cancel"} /\ ctl[i].type \notin {"steer"}
      BY <2>3, <2>5, <2>6, ContentsAre
    <3>2. ctl[i] \in Controls
      BY <2>3
    <3> QED BY <3>1, <3>2 DEF Controls
  <2> QED BY <2>4, <2>5, <2>7
<1>2. HeardInv /\ [TurnNext]_turnVars => [UpToDate]_turnVars
  BY <1>1
<1> QED BY <1>2, HeardInvAlways, PTL DEF TurnSpec, SuccessIsUpToDate

-----------------------------------------------------------------------------
(* The four parts in one specification: each of its steps is one of each    *)
(* part's, or leaves it alone, so what is proved of the parts holds of it.  *)

(* The plan graph's steps.                                                  *)
LEMMA GraphIsPart == Spec => GraphSpec
<1>1. Init => GraphInit
  BY DEF Init
<1>2. [Next]_vars => [GraphNext]_graphVars
  BY DEF Next, vars, GraphMoves, BudgetMoves, EventsMove, TurnMoves, budgetRest, eventRest, turnRest
<1> QED BY <1>1, <1>2, PTL DEF Spec, GraphSpec

(* The ledger's.                                                            *)
LEMMA BudgetIsPart == Spec => BudgetSpec
<1>1. Init => BudgetInit
  BY DEF Init
<1>2. [Next]_vars => [BudgetNext]_budgetVars
  BY DEF Next, vars, GraphMoves, BudgetMoves, EventsMove, TurnMoves, graphRest, eventRest, turnRest
<1> QED BY <1>1, <1>2, PTL DEF Spec, BudgetSpec

(* The event log's.                                                         *)
LEMMA EventsArePart == Spec => EventsSpec
<1>1. Init => EventsInit
  BY DEF Init
<1>2. [Next]_vars => [EventsNext]_eventVars
  BY DEF Next, vars, GraphMoves, BudgetMoves, EventsMove, TurnMoves, graphRest, budgetRest, turnRest
<1> QED BY <1>1, <1>2, PTL DEF Spec, EventsSpec

(* The turn's.                                                              *)
LEMMA TurnIsPart == Spec => TurnSpec
<1>1. Init => TurnInit
  BY DEF Init
<1>2. [Next]_vars => [TurnNext]_turnVars
  BY DEF Next, vars, GraphMoves, BudgetMoves, EventsMove, TurnMoves, graphRest, budgetRest, eventRest
<1> QED BY <1>1, <1>2, PTL DEF Spec, TurnSpec

(* The variables of the plan graph, the ledger, the event log and the turn  *)
(* keep their types and bounds, for every value of the constants.           *)
THEOREM AllTypesCorrect == Spec => []TypesOK
<1>1. GraphTypeOK /\ BudgetTypeOK /\ EventsTypeOK /\ TurnTypeOK => TypesOK
  BY DEF TypesOK
<1> QED
  BY <1>1, GraphIsPart, BudgetIsPart, EventsArePart, TurnIsPart, GraphTypesCorrect,
     BudgetTypesCorrect, EventsTypesCorrect, TurnTypesCorrect, PTL
=============================================================================
