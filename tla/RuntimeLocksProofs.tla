-------------------------- MODULE RuntimeLocksProofs --------------------------
(***************************************************************************)
(* For any tasks, processes, sessions and workspaces: leases stay with     *)
(* their live holders, and turns that run together are compatible.  The    *)
(* inductive invariant adds to the checked properties that the rows are    *)
(* compatible with each other, and that a task whose lease is being        *)
(* released has turned its back on it (a task acquires each lease once, so *)
(* a late _release never hits a lease that is held again).                 *)
(***************************************************************************)
EXTENDS RuntimeLocks, TLAPS

RowsCompatible == \A r, s \in rows : ~Conflict(r, s)

ReleasingIsOver ==
  \A r \in releasing :
    \/ pc[r[1]] = "releasing" /\ lease[r[1]] <= r[2]
    \/ pc[r[1]] = "stopping" /\ lease[r[1]] < r[2]
    \/ pc[r[1]] = "ended"

(* Held, lease by lease, and the two checked properties in these terms.     *)
HeldBy(r) ==
  \/ r[2] < lease[r[1]]
  \/ r[2] = lease[r[1]] /\ pc[r[1]] \in {"got", "running", "stopping"}
Kept == \A r \in Leases : Alive(r[1]) /\ HeldBy(r) => r \in rows
Owned ==
  \A r \in rows :
    proc[Home[r[1]]] = "up" => HeldBy(r) \/ r \in releasing \cup lost

RunningHasBoth == \A t \in Tasks : pc[t] = "running" => lease[t] = 2

IInv ==
  TypeOK /\ Kept /\ RowsCompatible /\ ReleasingIsOver /\ Owned /\ RunningHasBoth

(* Every lease is the session lease or the workspace lease of a task.       *)
LEMMA LeaseShape ==
  ASSUME NEW r \in Leases
  PROVE  /\ r[1] \in Tasks /\ r[2] \in {1, 2} /\ r = <<r[1], r[2]>>
         /\ \A t \in Tasks, i \in {1, 2} : r = <<t, i>> <=> r[1] = t /\ r[2] = i
  BY DEF Leases

(* What a task holds is what HeldBy says.                                   *)
LEMMA HeldShape ==
  ASSUME TypeOK, NEW t \in Tasks, NEW r
  PROVE  r \in Held(t) <=> r \in Leases /\ r[1] = t /\ HeldBy(r)
<1>1. lease[t] \in {0, 1, 2}
  BY DEF TypeOK
<1>2. lease[t] = 0 => pc[t] \in {"idle", "ended"}
  BY DEF TypeOK
<1>3. \A i \in 1 .. lease[t] - 1 : i \in {1, 2} /\ i < lease[t]
  BY <1>1
<1>4. \A i \in {1, 2} : i < lease[t] => i \in 1 .. lease[t] - 1
  BY <1>1
<1> QED  BY <1>1, <1>2, <1>3, <1>4, LeaseShape DEF Held, HeldBy, Leases

(* The invariant holds of the empty table. *)
LEMMA InitIInv == Init => IInv
<1> SUFFICES ASSUME Init PROVE IInv
  OBVIOUS
<1>1. TypeOK
  BY DEF Init, TypeOK, Places
<1>2. Kept
  BY LeaseShape DEF Init, Kept, HeldBy
<1> QED
  BY <1>1, <1>2 DEF Init, IInv, RowsCompatible, ReleasingIsOver, Owned, RunningHasBoth

(* Every step keeps the types.                                              *)
LEMMA TypeStep == TypeOK /\ [Next]_vars => TypeOK'
<1> SUFFICES ASSUME TypeOK, [Next]_vars PROVE TypeOK'
  OBVIOUS
<1> USE DEF TypeOK, Places, Goto, Leave
<1>1. ASSUME NEW t \in Tasks, Begin(t) PROVE TypeOK'
  BY <1>1 DEF Begin
<1>2. ASSUME NEW t \in Tasks, Try(t) PROVE TypeOK'
  <2>1. <<t, lease[t]>> \in Leases
    BY <1>2 DEF Try, Leases
  <2>2. rows' \subseteq Leases /\ stale' \subseteq rows'
    BY <1>2, <2>1 DEF Try
  <2> QED  BY <1>2, <2>2 DEF Try
<1>3. ASSUME NEW t \in Tasks, TryFails(t) PROVE TypeOK'
  BY <1>3 DEF TryFails
<1>4. ASSUME NEW t \in Tasks, Got(t) PROVE TypeOK'
  <2>1. <<t, lease[t]>> \in Leases
    BY <1>4 DEF Got, Leases
  <2> QED  BY <1>4, <2>1 DEF Got
<1>5. ASSUME NEW t \in Tasks, GiveUp(t) PROVE TypeOK'
  BY <1>5 DEF GiveUp
<1>6. ASSUME NEW t \in Tasks, EndTurn(t) PROVE TypeOK'
  BY <1>6 DEF EndTurn
<1>7. ASSUME NEW t \in Tasks, Stopped(t) PROVE TypeOK'
  <2>1. <<t, lease[t]>> \in Leases
    BY <1>7 DEF Stopped, Leases
  <2> QED  BY <1>7, <2>1 DEF Stopped
<1>8. ASSUME NEW t \in Tasks, Cancel(t) PROVE TypeOK'
  <2>1. CASE pc[t] \in {"stopping", "releasing"}
    BY <1>8, <2>1 DEF Cancel
  <2>2. CASE pc[t] \notin {"stopping", "releasing"}
    BY <1>8, <2>2 DEF Cancel
  <2> QED  BY <2>1, <2>2
<1>9. ASSUME NEW r \in Leases, Release(r) \/ ReleaseFails(r) PROVE TypeOK'
  <2>1. /\ pc' \in [Tasks -> Places] /\ lease' \in [Tasks -> 0 .. 2]
        /\ \A t \in Tasks : (lease'[t] = 0 <=> pc'[t] \in {"idle", "ended"})
    BY <1>9, LeaseShape DEF Release, ReleaseFails, Released
  <2> QED  BY <1>9, <2>1 DEF Release, ReleaseFails
<1>10. ASSUME NEW r \in Leases, Renew(r) \/ Age(r) PROVE TypeOK'
  BY <1>10 DEF Renew, Age
<1>11. ASSUME NEW p \in Processes, Shutdown(p) \/ Exit(p) \/ Kill(p) PROVE TypeOK'
  BY <1>11 DEF Shutdown, Exit, Kill
<1>12. CASE UNCHANGED vars
  BY <1>12 DEF vars
<1> QED
  BY <1>1, <1>2, <1>3, <1>4, <1>5, <1>6, <1>7, <1>8, <1>9, <1>10, <1>11, <1>12
     DEF Next, TaskStep, Thread

(* No step takes a live holder's row away.                                  *)
LEMMA KeptStep == IInv /\ [Next]_vars => Kept'
<1> SUFFICES ASSUME IInv, [Next]_vars PROVE Kept'
  OBVIOUS
<1> USE LockAssumptions DEF IInv, Kept, RunningHasBoth, Goto, Leave, TypeOK, Places, HeldBy, Alive
<1>1. ASSUME NEW t \in Tasks, Begin(t) PROVE Kept'
  BY <1>1, LeaseShape DEF Begin
<1>2. ASSUME NEW t \in Tasks, Try(t) PROVE Kept'
  <2> DEFINE me == <<t, lease[t]>>
  <2>1. \A r \in Leases : Alive(r[1]) => r \notin Reaped(me)
    BY DEF Reaped
  <2>2. rows \ Reaped(me) \subseteq rows'
    BY <1>2 DEF Try
  <2>3. ASSUME NEW r \in Leases, Alive(r[1]), HeldBy(r) PROVE r \in rows'
    BY <2>1, <2>2, <2>3
  <2>4. ASSUME NEW r \in Leases, HeldBy(r)', ~HeldBy(r) PROVE r \in rows'
    <3>1. r = me /\ pc'[t] = "got"
      BY <1>2, <2>4, LeaseShape DEF Try
    <3> QED  BY <1>2, <3>1 DEF Try
  <2>5. proc' = proc
    BY <1>2 DEF Try
  <2> QED  BY <2>3, <2>4, <2>5
<1>3. ASSUME NEW t \in Tasks, TryFails(t) PROVE Kept'
  BY <1>3, LeaseShape DEF TryFails
<1>4. ASSUME NEW t \in Tasks, Got(t) PROVE Kept'
  BY <1>4, LeaseShape DEF Got
<1>5. ASSUME NEW t \in Tasks, GiveUp(t) PROVE Kept'
  BY <1>5, LeaseShape DEF GiveUp
<1>6. ASSUME NEW t \in Tasks, EndTurn(t) PROVE Kept'
  BY <1>6, LeaseShape DEF EndTurn
<1>7. ASSUME NEW t \in Tasks, Stopped(t) PROVE Kept'
  BY <1>7, LeaseShape DEF Stopped
<1>8. ASSUME NEW t \in Tasks, Cancel(t) PROVE Kept'
  BY <1>8, LeaseShape DEF Cancel
<1>9. ASSUME NEW r \in Leases, Release(r) PROVE Kept'
  <2>1. ~HeldBy(r)'
    <3>1. CASE pc[r[1]] = "releasing" /\ lease[r[1]] = r[2]
      BY <1>9, <3>1, LeaseShape DEF Release, Released
    <3>2. CASE ~(pc[r[1]] = "releasing" /\ lease[r[1]] = r[2])
      BY <1>9, <3>2, LeaseShape DEF Release, Released, ReleasingIsOver
    <3> QED  BY <3>1, <3>2
  <2>2. \A s \in Leases : HeldBy(s)' => HeldBy(s)
    BY <1>9, LeaseShape DEF Release, Released
  <2>3. rows' = rows \ {r} /\ proc' = proc
    BY <1>9 DEF Release
  <2> QED  BY <2>1, <2>2, <2>3
<1>10. ASSUME NEW r \in Leases, ReleaseFails(r) PROVE Kept'
  BY <1>10, LeaseShape DEF ReleaseFails, Released
<1>11. ASSUME NEW r \in Leases, Renew(r) \/ Age(r) PROVE Kept'
  BY <1>11, LeaseShape DEF Renew, Age
<1>12. ASSUME NEW p \in Processes, Shutdown(p) \/ Exit(p) \/ Kill(p) PROVE Kept'
  BY <1>12, LeaseShape DEF Shutdown, Exit, Kill
<1>13. CASE UNCHANGED vars
  BY <1>13 DEF vars
<1> QED
  BY <1>1, <1>2, <1>3, <1>4, <1>5, <1>6, <1>7, <1>8, <1>9, <1>10, <1>11, <1>12, <1>13
     DEF Next, TaskStep, Thread


(* Only an allowed row is inserted.                                         *)
LEMMA CompatibleStep == IInv /\ [Next]_vars => RowsCompatible'
<1> SUFFICES ASSUME IInv, [Next]_vars PROVE RowsCompatible'
  OBVIOUS
<1> USE LockAssumptions DEF IInv, RowsCompatible, Goto, Leave, TypeOK, Places
<1>1. ASSUME NEW t \in Tasks, Begin(t) PROVE RowsCompatible'
  BY <1>1, LeaseShape DEF Begin
<1>2. ASSUME NEW t \in Tasks, Try(t) PROVE RowsCompatible'
  <2> DEFINE me == <<t, lease[t]>>
             left == rows \ Reaped(me)
  <2>1. CASE Allowed(me, left)
    <3>1. rows' = left \cup {me}
      BY <1>2, <2>1 DEF Try
    <3>2. \A s \in left : ~Conflict(me, s) /\ ~Conflict(s, me)
      BY <2>1 DEF Allowed, Conflict
    <3>3. ~Conflict(me, me)
      BY DEF Conflict
    <3>4. \A r, s \in left : ~Conflict(r, s)
      OBVIOUS
    <3>5. \A r, s \in rows' : ~Conflict(r, s)
      BY <3>1, <3>2, <3>3, <3>4
    <3> QED  BY <3>5 DEF Conflict, Key, Mode
  <2>2. CASE ~Allowed(me, left)
    BY <1>2, <2>2 DEF Try
  <2> QED  BY <2>1, <2>2
<1>3. ASSUME NEW t \in Tasks, TryFails(t) PROVE RowsCompatible'
  BY <1>3, LeaseShape DEF TryFails
<1>4. ASSUME NEW t \in Tasks, Got(t) PROVE RowsCompatible'
  BY <1>4, LeaseShape DEF Got
<1>5. ASSUME NEW t \in Tasks, GiveUp(t) PROVE RowsCompatible'
  BY <1>5, LeaseShape DEF GiveUp
<1>6. ASSUME NEW t \in Tasks, EndTurn(t) PROVE RowsCompatible'
  BY <1>6, LeaseShape DEF EndTurn
<1>7. ASSUME NEW t \in Tasks, Stopped(t) PROVE RowsCompatible'
  BY <1>7, LeaseShape DEF Stopped
<1>8. ASSUME NEW t \in Tasks, Cancel(t) PROVE RowsCompatible'
  BY <1>8, LeaseShape DEF Cancel
<1>9. ASSUME NEW r \in Leases, Release(r) PROVE RowsCompatible'
  BY <1>9, LeaseShape DEF Release, Released
<1>10. ASSUME NEW r \in Leases, ReleaseFails(r) PROVE RowsCompatible'
  BY <1>10, LeaseShape DEF ReleaseFails, Released
<1>11. ASSUME NEW r \in Leases, Renew(r) \/ Age(r) PROVE RowsCompatible'
  BY <1>11, LeaseShape DEF Renew, Age
<1>12. ASSUME NEW p \in Processes, Shutdown(p) \/ Exit(p) \/ Kill(p) PROVE RowsCompatible'
  BY <1>12, LeaseShape DEF Shutdown, Exit, Kill
<1>13. CASE UNCHANGED vars
  BY <1>13 DEF vars
<1> QED
  BY <1>1, <1>2, <1>3, <1>4, <1>5, <1>6, <1>7, <1>8, <1>9, <1>10, <1>11, <1>12, <1>13
     DEF Next, TaskStep, Thread


(* Only a task with both leases runs.                                       *)
LEMMA RunningStep == IInv /\ [Next]_vars => RunningHasBoth'
<1> SUFFICES ASSUME IInv, [Next]_vars PROVE RunningHasBoth'
  OBVIOUS
<1> USE LockAssumptions DEF IInv, RunningHasBoth, Goto, Leave, TypeOK, Places
<1>1. ASSUME NEW t \in Tasks, Begin(t) PROVE RunningHasBoth'
  BY <1>1, LeaseShape DEF Begin
<1>2. ASSUME NEW t \in Tasks, Try(t) PROVE RunningHasBoth'
  BY <1>2, LeaseShape DEF Try
<1>3. ASSUME NEW t \in Tasks, TryFails(t) PROVE RunningHasBoth'
  BY <1>3, LeaseShape DEF TryFails
<1>4. ASSUME NEW t \in Tasks, Got(t) PROVE RunningHasBoth'
  BY <1>4, LeaseShape DEF Got
<1>5. ASSUME NEW t \in Tasks, GiveUp(t) PROVE RunningHasBoth'
  BY <1>5, LeaseShape DEF GiveUp
<1>6. ASSUME NEW t \in Tasks, EndTurn(t) PROVE RunningHasBoth'
  BY <1>6, LeaseShape DEF EndTurn
<1>7. ASSUME NEW t \in Tasks, Stopped(t) PROVE RunningHasBoth'
  BY <1>7, LeaseShape DEF Stopped
<1>8. ASSUME NEW t \in Tasks, Cancel(t) PROVE RunningHasBoth'
  BY <1>8, LeaseShape DEF Cancel
<1>9. ASSUME NEW r \in Leases, Release(r) PROVE RunningHasBoth'
  BY <1>9, LeaseShape DEF Release, Released
<1>10. ASSUME NEW r \in Leases, ReleaseFails(r) PROVE RunningHasBoth'
  BY <1>10, LeaseShape DEF ReleaseFails, Released
<1>11. ASSUME NEW r \in Leases, Renew(r) \/ Age(r) PROVE RunningHasBoth'
  BY <1>11, LeaseShape DEF Renew, Age
<1>12. ASSUME NEW p \in Processes, Shutdown(p) \/ Exit(p) \/ Kill(p) PROVE RunningHasBoth'
  BY <1>12, LeaseShape DEF Shutdown, Exit, Kill
<1>13. CASE UNCHANGED vars
  BY <1>13 DEF vars
<1> QED
  BY <1>1, <1>2, <1>3, <1>4, <1>5, <1>6, <1>7, <1>8, <1>9, <1>10, <1>11, <1>12, <1>13
     DEF Next, TaskStep, Thread


(* A lease being released is not acquired again.                            *)
LEMMA ReleasingStep == IInv /\ [Next]_vars => ReleasingIsOver'
<1> SUFFICES ASSUME IInv, [Next]_vars PROVE ReleasingIsOver'
  OBVIOUS
<1> USE LockAssumptions DEF IInv, ReleasingIsOver, Goto, Leave, TypeOK, Places
<1>1. ASSUME NEW t \in Tasks, Begin(t) PROVE ReleasingIsOver'
  BY <1>1, LeaseShape DEF Begin
<1>2. ASSUME NEW t \in Tasks, Try(t) PROVE ReleasingIsOver'
  BY <1>2, LeaseShape DEF Try
<1>3. ASSUME NEW t \in Tasks, TryFails(t) PROVE ReleasingIsOver'
  BY <1>3, LeaseShape DEF TryFails
<1>4. ASSUME NEW t \in Tasks, Got(t) PROVE ReleasingIsOver'
  BY <1>4, LeaseShape DEF Got
<1>5. ASSUME NEW t \in Tasks, GiveUp(t) PROVE ReleasingIsOver'
  BY <1>5, LeaseShape DEF GiveUp
<1>6. ASSUME NEW t \in Tasks, EndTurn(t) PROVE ReleasingIsOver'
  BY <1>6, LeaseShape DEF EndTurn
<1>7. ASSUME NEW t \in Tasks, Stopped(t) PROVE ReleasingIsOver'
  BY <1>7, LeaseShape DEF Stopped
<1>8. ASSUME NEW t \in Tasks, Cancel(t) PROVE ReleasingIsOver'
  BY <1>8, LeaseShape DEF Cancel
<1>9. ASSUME NEW r \in Leases, Release(r) PROVE ReleasingIsOver'
  BY <1>9, LeaseShape DEF Release, Released
<1>10. ASSUME NEW r \in Leases, ReleaseFails(r) PROVE ReleasingIsOver'
  BY <1>10, LeaseShape DEF ReleaseFails, Released
<1>11. ASSUME NEW r \in Leases, Renew(r) \/ Age(r) PROVE ReleasingIsOver'
  BY <1>11, LeaseShape DEF Renew, Age
<1>12. ASSUME NEW p \in Processes, Shutdown(p) \/ Exit(p) \/ Kill(p) PROVE ReleasingIsOver'
  BY <1>12, LeaseShape DEF Shutdown, Exit, Kill
<1>13. CASE UNCHANGED vars
  BY <1>13 DEF vars
<1> QED
  BY <1>1, <1>2, <1>3, <1>4, <1>5, <1>6, <1>7, <1>8, <1>9, <1>10, <1>11, <1>12, <1>13
     DEF Next, TaskStep, Thread


(* No step leaves a row behind in a process that goes on.                   *)
LEMMA OwnedStep == IInv /\ [Next]_vars => Owned'
<1> SUFFICES ASSUME IInv, [Next]_vars PROVE Owned'
  OBVIOUS
<1> USE LockAssumptions DEF IInv, Owned, RunningHasBoth, Goto, Leave, TypeOK, Places, HeldBy, Alive
<1>1. ASSUME NEW t \in Tasks, Begin(t) PROVE Owned'
  BY <1>1, LeaseShape DEF Begin
<1>2. ASSUME NEW t \in Tasks, Try(t) PROVE Owned'
  BY <1>2, LeaseShape DEF Try
<1>3. ASSUME NEW t \in Tasks, TryFails(t) PROVE Owned'
  BY <1>3, LeaseShape DEF TryFails
<1>4. ASSUME NEW t \in Tasks, Got(t) PROVE Owned'
  BY <1>4, LeaseShape DEF Got
<1>5. ASSUME NEW t \in Tasks, GiveUp(t) PROVE Owned'
  BY <1>5, LeaseShape DEF GiveUp
<1>6. ASSUME NEW t \in Tasks, EndTurn(t) PROVE Owned'
  BY <1>6, LeaseShape DEF EndTurn
<1>7. ASSUME NEW t \in Tasks, Stopped(t) PROVE Owned'
  BY <1>7, LeaseShape DEF Stopped
<1>8. ASSUME NEW t \in Tasks, Cancel(t) PROVE Owned'
  BY <1>8, LeaseShape DEF Cancel
<1>9. ASSUME NEW r \in Leases, Release(r) PROVE Owned'
  BY <1>9, LeaseShape DEF Release, Released
<1>10. ASSUME NEW r \in Leases, ReleaseFails(r) PROVE Owned'
  BY <1>10, LeaseShape DEF ReleaseFails, Released
<1>11. ASSUME NEW r \in Leases, Renew(r) \/ Age(r) PROVE Owned'
  BY <1>11, LeaseShape DEF Renew, Age
<1>12. ASSUME NEW p \in Processes, Shutdown(p) \/ Exit(p) \/ Kill(p) PROVE Owned'
  <2>1. \A q \in Processes : proc'[q] = "up" => proc[q] = "up" /\ (q = p => ~Kill(p))
    BY <1>12 DEF Shutdown, Exit, Kill
  <2>2. CASE Shutdown(p) \/ Exit(p)
    BY <2>1, <2>2, LeaseShape DEF Shutdown, Exit
  <2>3. CASE Kill(p)
    <3> SUFFICES ASSUME NEW r \in rows, proc'[Home[r[1]]] = "up"
                 PROVE  HeldBy(r)' \/ r \in releasing' \cup lost'
      BY <2>3 DEF Kill
    <3>1. r[1] \in Tasks /\ Home[r[1]] # p /\ proc[Home[r[1]]] = "up"
      BY <2>1, <2>3, LeaseShape
    <3>2. pc'[r[1]] = pc[r[1]] /\ lease'[r[1]] = lease[r[1]]
      BY <2>3, <3>1 DEF Kill
    <3>3. r \in releasing => r \in releasing'
      BY <2>3, <3>1 DEF Kill, Mine
    <3> QED  BY <2>3, <3>1, <3>2, <3>3 DEF Kill
  <2> QED  BY <1>12, <2>2, <2>3
<1>13. CASE UNCHANGED vars
  BY <1>13 DEF vars
<1> QED
  BY <1>1, <1>2, <1>3, <1>4, <1>5, <1>6, <1>7, <1>8, <1>9, <1>10, <1>11, <1>12, <1>13
     DEF Next, TaskStep, Thread

-----------------------------------------------------------------------------
(* The strengthening that all the results below rest on.                    *)
THEOREM Invariance == Spec => []IInv
<1>1. IInv /\ [Next]_vars => IInv'
  BY TypeStep, KeptStep, CompatibleStep, ReleasingStep, OwnedStep, RunningStep DEF IInv
<1> QED  BY InitIInv, <1>1, PTL DEF Spec

(* Type correctness.                                                        *)
THEOREM TypeCorrect == Spec => []TypeOK
<1>1. IInv => TypeOK
  BY DEF IInv
<1> QED  BY Invariance, <1>1, PTL

(* A live task never loses a lease it has not given back (_try_acquire's    *)
(* clean-up only deletes rows of dead processes).                           *)
THEOREM LeasesAreKept == Spec => []HoldersKeepRows
<1>1. IInv => HoldersKeepRows
  BY HeldShape DEF IInv, Kept, HoldersKeepRows
<1> QED  BY Invariance, <1>1, PTL

(* Two turns that run share no session, and a workspace only as readers.    *)
THEOREM TurnsCompatible == Spec => []TurnsAreCompatible
<1>1. IInv => TurnsAreCompatible
  <2> SUFFICES ASSUME IInv, NEW t \in Tasks, NEW u \in Tasks, t # u, InTurn(t), InTurn(u)
               PROVE  /\ Session[t] # Session[u]
                      /\ Workspace[t] = Workspace[u] => {t, u} \subseteq ReadOnly
    BY DEF TurnsAreCompatible
  <2>1. \A v \in {t, u}, i \in {1, 2} : <<v, i>> \in rows
    <3> SUFFICES ASSUME NEW v \in {t, u}, NEW i \in {1, 2} PROVE <<v, i>> \in rows
      OBVIOUS
    <3>1. <<v, i>> \in Leases
      BY DEF Leases
    <3>2. pc[v] = "running" /\ Alive(v) /\ lease[v] = 2
      BY DEF InTurn, IInv, RunningHasBoth
    <3>3. HeldBy(<<v, i>>)
      BY <3>2 DEF HeldBy
    <3> QED  BY <3>1, <3>2, <3>3 DEF IInv, Kept
  <2>2. \A i \in {1, 2} : ~Conflict(<<t, i>>, <<u, i>>)
    BY <2>1 DEF IInv, RowsCompatible
  <2>3. Session[t] # Session[u]
    BY <2>2 DEF Conflict, Key, Mode
  <2>4. ASSUME Workspace[t] = Workspace[u] PROVE t \in ReadOnly /\ u \in ReadOnly
    BY <2>2, <2>4 DEF Conflict, Key, Mode
  <2> QED  BY <2>3, <2>4
<1> QED  BY Invariance, <1>1, PTL

(* A process that goes on leaks no lease, except when SQLite refuses a      *)
(* deletion.                                                                *)
THEOREM NothingLeaks == Spec => []RowsHaveOwners
<1>1. IInv => RowsHaveOwners
  <2> SUFFICES ASSUME IInv, NEW r \in rows, proc[Home[r[1]]] = "up"
               PROVE  r \in Held(r[1]) \cup releasing \cup lost
    BY DEF RowsHaveOwners
  <2>1. r \in Leases /\ r[1] \in Tasks
    BY LeaseShape DEF IInv, TypeOK
  <2>2. HeldBy(r) \/ r \in releasing \cup lost
    BY DEF IInv, Owned
  <2> QED  BY <2>1, <2>2, HeldShape DEF IInv
<1> QED  BY Invariance, <1>1, PTL
==============================================================================
