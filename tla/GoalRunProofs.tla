--------------------------- MODULE GoalRunProofs ----------------------------
(***************************************************************************)
(* What is proved of a Goal's run, GoalRun, for any nodes, plans, bounds   *)
(* and number of detached turns: the types, that what is reported completed*)
(* is, that what is dispatched may be, and that who waits has a question.  *)
(*                                                                         *)
(* None of these is inductive.  RunInv, which implies them and is, says of *)
(* - every record, wherever it is kept (RecordInv): its completed nodes are*)
(*   merged under their contracts, its attempts are based on a head that   *)
(*   has their prerequisites, and the attempts of a node are no more than  *)
(*   its count and the plans before it allow;                              *)
(* - every Worker of the wave, by what it does (WorkerInv): which attempt  *)
(*   and which query are its own, and that they are of its node;           *)
(* - the record and the history, by where the task is (StageInv): a task   *)
(*   that verifies has all nodes completed, one that asks the Critic has the*)
(*   head the verifiers passed, and a record a run holds is never a success*)
(*   already, so what a detached turn writes back is none either.          *)
(* Most steps only change the status of something: Alike says what such    *)
(* a change keeps, and AlikeRecordInv that it keeps RecordInv.             *)
(***************************************************************************)
EXTENDS GoalRun, DataProofs, FiniteSetTheorems

(***************************************************************************)
(* GoalRun, for any nodes, plans, bounds and number of detached turns.     *)
(***************************************************************************)

(* The records that can be in memory, on disk or with a detached turn.      *)
NodeTables == {t \in UNION {[S -> NodeRecord] : S \in SUBSET Nodes} : IsFiniteSet(DOMAIN t)}
GoalRecord ==
  [status : GoalStatus, nodes : NodeTables, attempts : Seq(AttemptRecord),
   queries : Seq(QueryRecord), replans : 0 .. MaxReplans, critics : Nat,
   opened : BOOLEAN, windows : Nat]
LogRecord == [node : Nodes, att : Nat, spec : Contracts, base : Nat]

(* the contract is based on a prefix of the log that has its prerequisites  *)
Based(spec, base, l) ==
  /\ base <= Len(l)
  /\ \A d \in spec.deps : \E j \in 1 .. base : l[j].node = d
IsMerged(n, spec, l) == \E i \in 1 .. Len(l) : l[i].node = n /\ l[i].spec = spec

Used(g, n) == IF n \in DOMAIN g.nodes THEN g.nodes[n].used ELSE 0
Allowed(g, n) == MaxAttempts * g.replans + Used(g, n)

(* What every record says of the log, wherever it is kept.                  *)
RecordInv(g, l) ==
  /\ g \in GoalRecord
  /\ \A n \in Completed(g) : IsMerged(n, g.nodes[n].spec, l)
  /\ \A a \in 1 .. Len(g.attempts) : Based(g.attempts[a].spec, g.attempts[a].base, l)
  /\ \A n \in Nodes : Cardinality(AttemptsOf(g, n)) <= Allowed(g, n)
  /\ DOMAIN g.nodes = {} => g.attempts = <<>>
  /\ Impacts = {} => g.queries = <<>>

HasAttempt(n, a, g) ==
  /\ a \in 1 .. Len(g.attempts)
  /\ g.attempts[a].node = n /\ g.attempts[a].spec = g.nodes[n].spec
HasQuery(n, q, g, status) ==
  q \in 1 .. Len(g.queries) /\ g.queries[q].node = n /\ g.queries[q].status = status

(* What the task knows of a Worker, by what it does.                        *)
QueuedInv(n, g) ==
  /\ g.nodes[n].used < MaxAttempts
  /\ g.nodes[n].status \in {"pending", "failed"}
  /\ g.nodes[n].spec.deps \subseteq Completed(g)
AtWorkInv(n, a, g, l, ts) ==
  /\ HasAttempt(n, a, g)
  /\ g.attempts[a].status = "running" /\ g.attempts[a].base = Len(l)
  /\ <<n, g.attempts[a].num>> \in ts
WorkerInv(n, w, g, l, ts, at) ==
  /\ n \in DOMAIN g.nodes
  /\ \/ w.at = "queued" /\ QueuedInv(n, g) /\ at = "wave"
     \/ w.at = "asking" /\ AtWorkInv(n, w.att, g, l, ts) /\ at = "wave"
     \/ /\ w.at = "resolving" /\ AtWorkInv(n, w.att, g, l, ts) /\ at = "wave"
        /\ HasQuery(n, w.query, g, "resolving")
     \/ /\ w.at = "returned" /\ HasAttempt(n, w.att, g)
        /\ w.result = "waiting_for_parent" => HasQuery(n, w.query, g, "waiting_for_parent")
     \/ w.at = "raised"

WaveInv ==
  run.at \in {"wave", "collecting"} =>
    /\ IsFiniteSet(DOMAIN run.worker)
    /\ \A n \in DOMAIN run.worker : WorkerInv(n, run.worker[n], goal, log, trees, run.at)
    /\ run.wave \in Seq(DOMAIN run.worker)
    /\ run.at = "wave" => Cardinality(Busy) <= Concurrency
    /\ run.at = "collecting" => run.todo \in Seq(DOMAIN run.worker)

Over == {"completed", "waiting_for_parent"}
(* Where the task is tells what the record and the history are.             *)
StageInv ==
  /\ run.at # "idle" => goal.status \notin Over /\ disk.status \notin Over
  /\ run.at = "planning" /\ run.why = "initial plan" => DOMAIN goal.nodes = {}
  /\ run.at = "planning" /\ run.why # "initial plan" => goal.replans < MaxReplans
  /\ run.at \in {"verifying", "reviewing"} => AllCompleted(goal)
  /\ run.at = "reviewing" => review.verified = Len(log)
  /\ run.at = "idle" /\ disk.status = "completed" =>
       AllCompleted(disk) /\ review.verified = Len(log) /\ review.approved = Len(log)
  /\ run.at = "idle" /\ disk.status = "waiting_for_parent" => WaitingQueries(disk) # {}

RunFields == {"at", "why", "wave", "worker", "todo", "broke", "asked"}
PlaceInv ==
  /\ run.at \in Stages /\ DOMAIN run = RunFields
  /\ log \in Seq(LogRecord)
  /\ \A i \in 1 .. Len(log) : Based(log[i].spec, log[i].base, log)
  /\ trees \subseteq Nodes \X Nat /\ branch \in BOOLEAN
  /\ review.verified \in -1 .. Len(log) /\ review.approved \in -1 .. Len(log)
  /\ DOMAIN review = {"verified", "approved"}

RunInv ==
  /\ PlaceInv
  /\ RecordInv(goal, log) /\ RecordInv(disk, log)
  /\ \A old \in detached : RecordInv(old, log) /\ old.status \notin Over
  /\ StageInv
  /\ WaveInv

-----------------------------------------------------------------------------
(* What is in a record.                                                     *)
LEMMA RecordIs ==
  ASSUME NEW g \in GoalRecord
  PROVE  /\ g.status \in GoalStatus
         /\ g.nodes \in [DOMAIN g.nodes -> NodeRecord]
         /\ DOMAIN g.nodes \in SUBSET Nodes /\ IsFiniteSet(DOMAIN g.nodes)
         /\ g.attempts \in Seq(AttemptRecord) /\ g.queries \in Seq(QueryRecord)
         /\ g.replans \in 0 .. MaxReplans /\ g.critics \in Nat
         /\ g.opened \in BOOLEAN /\ g.windows \in Nat
         /\ Len(g.attempts) \in Nat /\ DOMAIN g.attempts = 1 .. Len(g.attempts)
         /\ Len(g.queries) \in Nat /\ DOMAIN g.queries = 1 .. Len(g.queries)
         /\ \A n \in DOMAIN g.nodes :
              /\ g.nodes[n].spec \in Contracts /\ g.nodes[n].status \in NodeStatus
              /\ g.nodes[n].used \in 0 .. MaxAttempts
<1>1. /\ g.nodes \in NodeTables
      /\ g.attempts \in Seq(AttemptRecord) /\ g.queries \in Seq(QueryRecord)
  BY DEF GoalRecord
<1>2. PICK S \in SUBSET Nodes : g.nodes \in [S -> NodeRecord]
  BY <1>1 DEF NodeTables
<1>3. DOMAIN g.nodes = S /\ IsFiniteSet(DOMAIN g.nodes)
  BY <1>1, <1>2 DEF NodeTables
<1>4. \A n \in S : g.nodes[n] \in NodeRecord
  BY <1>2
<1>5. \A r \in NodeRecord : r.spec \in Contracts /\ r.status \in NodeStatus /\ r.used \in 0 .. MaxAttempts
  BY DEF NodeRecord
<1>6. /\ Len(g.attempts) \in Nat /\ DOMAIN g.attempts = 1 .. Len(g.attempts)
      /\ Len(g.queries) \in Nat /\ DOMAIN g.queries = 1 .. Len(g.queries)
  BY <1>1
<1>7. /\ g.status \in GoalStatus /\ g.replans \in 0 .. MaxReplans /\ g.critics \in Nat
      /\ g.opened \in BOOLEAN /\ g.windows \in Nat
  BY DEF GoalRecord
<1> QED BY <1>1, <1>2, <1>3, <1>4, <1>5, <1>6, <1>7

(* h is g with other statuses: the contracts, the attempts used up and what *)
(* was written down of the attempts are the same.                           *)
Alike(g, h) ==
  /\ h \in GoalRecord
  /\ DOMAIN h.nodes = DOMAIN g.nodes
  /\ \A n \in DOMAIN g.nodes :
       /\ h.nodes[n].spec = g.nodes[n].spec /\ h.nodes[n].used >= g.nodes[n].used
       /\ h.nodes[n].status = "completed" => g.nodes[n].status = "completed"
  /\ Len(h.attempts) = Len(g.attempts)
  /\ \A a \in 1 .. Len(g.attempts) :
       /\ h.attempts[a].node = g.attempts[a].node /\ h.attempts[a].spec = g.attempts[a].spec
       /\ h.attempts[a].base = g.attempts[a].base /\ h.attempts[a].num = g.attempts[a].num
  /\ h.replans = g.replans
  /\ Impacts = {} /\ g.queries = <<>> => h.queries = <<>>

(* A record is alike itself.                                                *)
LEMMA AlikeRefl ==
  ASSUME NEW g \in GoalRecord
  PROVE  Alike(g, g)
BY RecordIs DEF Alike

(* Changes of status add up to one.                                         *)
LEMMA AlikeTrans ==
  ASSUME NEW g \in GoalRecord, NEW h, NEW k, Alike(g, h), Alike(h, k)
  PROVE  Alike(g, k)
<1>1. \A n \in DOMAIN g.nodes : k.nodes[n].used >= g.nodes[n].used
  <2> TAKE n \in DOMAIN g.nodes
  <2>1. n \in DOMAIN h.nodes /\ n \in DOMAIN k.nodes /\ h \in GoalRecord /\ k \in GoalRecord
    BY DEF Alike
  <2>2. g.nodes[n].used \in Nat /\ h.nodes[n].used \in Nat /\ k.nodes[n].used \in Nat
    BY <2>1, RecordIs
  <2>3. h.nodes[n].used >= g.nodes[n].used /\ k.nodes[n].used >= h.nodes[n].used
    BY <2>1 DEF Alike
  <2> QED BY <2>2, <2>3
<1>2. Len(g.attempts) \in Nat /\ Len(h.attempts) = Len(g.attempts)
  BY RecordIs DEF Alike
<1> QED BY <1>1, <1>2 DEF Alike

(* What the log says of a record it says of one that is alike.              *)
LEMMA AlikeRecordInv ==
  ASSUME NEW g, NEW h, NEW l, RecordInv(g, l), Alike(g, h)
  PROVE  RecordInv(h, l)
<1>1. g \in GoalRecord /\ h \in GoalRecord
  BY DEF RecordInv, Alike
<1>2. ASSUME NEW n \in Completed(h) PROVE IsMerged(n, h.nodes[n].spec, l)
  <2>1. n \in DOMAIN h.nodes /\ h.nodes[n].status = "completed"
    BY DEF Completed
  <2>2. n \in Completed(g) /\ h.nodes[n].spec = g.nodes[n].spec
    BY <2>1 DEF Alike, Completed
  <2> QED BY <2>2 DEF RecordInv
<1>3. \A a \in 1 .. Len(h.attempts) : Based(h.attempts[a].spec, h.attempts[a].base, l)
  BY DEF RecordInv, Alike
<1>4. ASSUME NEW n \in Nodes PROVE Cardinality(AttemptsOf(h, n)) <= Allowed(h, n)
  <2>1. AttemptsOf(h, n) = AttemptsOf(g, n)
    BY <1>1, RecordIs DEF AttemptsOf, Alike
  <2>2. Cardinality(AttemptsOf(g, n)) <= Allowed(g, n)
    BY DEF RecordInv
  <2>3. Used(g, n) \in Nat /\ Used(h, n) \in Nat /\ Used(g, n) <= Used(h, n)
    BY <1>1, RecordIs DEF Alike, Used
  <2>4. MaxAttempts \in Nat /\ g.replans \in Nat /\ h.replans = g.replans
    BY <1>1, RecordIs, GoalAssumptions DEF Alike
  <2>5. Cardinality(AttemptsOf(g, n)) \in Nat
    <3>1. AttemptsOf(g, n) \subseteq 1 .. Len(g.attempts) /\ Len(g.attempts) \in Nat
      BY <1>1, RecordIs DEF AttemptsOf
    <3>2. IsFiniteSet(1 .. Len(g.attempts))
      BY <3>1, FS_Interval
    <3> QED BY <3>1, <3>2, FS_Subset, FS_CardinalityType
  <2>6. MaxAttempts * g.replans \in Nat
    BY <2>4
  <2>7. Allowed(g, n) = MaxAttempts * g.replans + Used(g, n)
        /\ Allowed(h, n) = MaxAttempts * g.replans + Used(h, n)
    BY <2>4 DEF Allowed
  <2>8. \A x, y, u, v \in Nat : x <= y + u /\ u <= v => x <= y + v
    OBVIOUS
  <2> QED BY <2>1, <2>2, <2>3, <2>5, <2>6, <2>7, <2>8
<1>5. DOMAIN h.nodes = {} => h.attempts = <<>>
  <2>1. ASSUME DOMAIN h.nodes = {} PROVE h.attempts = <<>>
    <3>1. g.attempts = <<>>
      BY <2>1 DEF Alike, RecordInv
    <3>2. Len(h.attempts) = 0
      BY <3>1 DEF Alike
    <3>3. h.attempts \in Seq(AttemptRecord)
      BY <1>1, RecordIs
    <3> QED BY <3>2, <3>3, EmptySeq
  <2> QED BY <2>1
<1>6. Impacts = {} => h.queries = <<>>
  BY DEF RecordInv, Alike
<1> QED BY <1>1, <1>2, <1>3, <1>4, <1>5, <1>6 DEF RecordInv

-----------------------------------------------------------------------------
(* A record with one field changed.                                         *)
Keeping(g, h) ==
  /\ h.status = g.status /\ h.nodes = g.nodes /\ h.attempts = g.attempts
  /\ h.queries = g.queries /\ h.replans = g.replans /\ h.critics = g.critics
  /\ h.opened = g.opened /\ h.windows = g.windows

(* A record with another value in one field is a record, and the other      *)
(* fields are as they were.                                                 *)
LEMMA FieldChange ==
  ASSUME NEW g \in GoalRecord
  PROVE  /\ \A t \in NodeTables :
              LET h == [g EXCEPT !.nodes = t]
              IN  h \in GoalRecord /\ h.nodes = t /\ Keeping([g EXCEPT !.nodes = t], h)
                  /\ h.status = g.status /\ h.attempts = g.attempts /\ h.queries = g.queries
                  /\ h.replans = g.replans
         /\ \A s \in Seq(AttemptRecord) :
              LET h == [g EXCEPT !.attempts = s]
              IN  h \in GoalRecord /\ h.attempts = s
                  /\ h.status = g.status /\ h.nodes = g.nodes /\ h.queries = g.queries
                  /\ h.replans = g.replans
         /\ \A s \in Seq(QueryRecord) :
              LET h == [g EXCEPT !.queries = s]
              IN  h \in GoalRecord /\ h.queries = s
                  /\ h.status = g.status /\ h.nodes = g.nodes /\ h.attempts = g.attempts
                  /\ h.replans = g.replans
BY DEF GoalRecord, Keeping

(* Another status, one Critic round or window more, the branch opened.      *)
LEMMA OuterAlike ==
  ASSUME NEW g \in GoalRecord
  PROVE  /\ \A s \in GoalStatus :
              LET h == [g EXCEPT !.status = s]
              IN  /\ Alike(g, h) /\ h.status = s /\ h.nodes = g.nodes
                  /\ h.queries = g.queries /\ h.attempts = g.attempts
         /\ LET h == [g EXCEPT !.critics = @ + 1]
            IN  /\ Alike(g, h) /\ h.status = g.status /\ h.nodes = g.nodes
                /\ h.queries = g.queries /\ h.attempts = g.attempts
         /\ LET h == [g EXCEPT !.windows = @ + 1, !.status = "running"]
            IN  Alike(g, h) /\ h.status = "running" /\ h.nodes = g.nodes
         /\ LET h == [g EXCEPT !.opened = TRUE, !.status = "running"]
            IN  Alike(g, h) /\ h.status = "running" /\ h.nodes = g.nodes
<1>1. \A h \in GoalRecord :
        /\ h.nodes = g.nodes /\ h.attempts = g.attempts /\ h.queries = g.queries
        /\ h.replans = g.replans
        => Alike(g, h)
  BY AlikeRefl DEF Alike
<1>2. g.critics + 1 \in Nat /\ g.windows + 1 \in Nat
  BY RecordIs
<1>3. ASSUME NEW s \in GoalStatus
      PROVE  LET h == [g EXCEPT !.status = s]
             IN  /\ h \in GoalRecord /\ h.status = s /\ h.nodes = g.nodes /\ h.attempts = g.attempts
                 /\ h.queries = g.queries /\ h.replans = g.replans
  BY DEF GoalRecord
<1>4. LET h == [g EXCEPT !.critics = @ + 1]
      IN  /\ h \in GoalRecord /\ h.status = g.status /\ h.nodes = g.nodes /\ h.attempts = g.attempts
          /\ h.queries = g.queries /\ h.replans = g.replans
  BY <1>2 DEF GoalRecord
<1>5. LET h == [g EXCEPT !.windows = @ + 1, !.status = "running"]
      IN  /\ h \in GoalRecord /\ h.status = "running" /\ h.nodes = g.nodes /\ h.attempts = g.attempts
          /\ h.queries = g.queries /\ h.replans = g.replans
  BY <1>2 DEF GoalRecord, GoalStatus
<1>6. LET h == [g EXCEPT !.opened = TRUE, !.status = "running"]
      IN  /\ h \in GoalRecord /\ h.status = "running" /\ h.nodes = g.nodes /\ h.attempts = g.attempts
          /\ h.queries = g.queries /\ h.replans = g.replans
  BY DEF GoalRecord, GoalStatus
<1> QED BY <1>1, <1>3, <1>4, <1>5, <1>6

(* A table of nodes with other statuses, and attempts used up.              *)
LEMMA NodesAlike ==
  ASSUME NEW g \in GoalRecord, NEW t, DOMAIN t = DOMAIN g.nodes,
         t = [n \in DOMAIN t |-> t[n]],
         \A n \in DOMAIN g.nodes :
           /\ t[n] \in NodeRecord
           /\ t[n].spec = g.nodes[n].spec /\ t[n].used >= g.nodes[n].used
           /\ t[n].status = "completed" => g.nodes[n].status = "completed"
  PROVE  LET h == [g EXCEPT !.nodes = t]
         IN  /\ Alike(g, h) /\ h.nodes = t /\ h.status = g.status
             /\ h.queries = g.queries /\ h.attempts = g.attempts
<1>1. t \in NodeTables
  <2>1. t \in [DOMAIN g.nodes -> NodeRecord]
    OBVIOUS
  <2> QED BY <2>1, RecordIs DEF NodeTables
<1>2. LET h == [g EXCEPT !.nodes = t]
      IN  /\ h \in GoalRecord /\ h.nodes = t /\ h.status = g.status /\ h.attempts = g.attempts
          /\ h.queries = g.queries /\ h.replans = g.replans
  BY <1>1, FieldChange
<1> QED BY <1>2 DEF Alike

(* A node is given a status other than "completed".                         *)
LEMMA WithNodeAlike ==
  ASSUME NEW g \in GoalRecord, NEW n \in DOMAIN g.nodes, NEW s \in NodeStatus, s # "completed"
  PROVE  LET h == WithNode(g, n, s)
         IN  /\ Alike(g, h) /\ h.status = g.status
             /\ h.queries = g.queries /\ h.attempts = g.attempts
             /\ h.nodes = [g.nodes EXCEPT ![n].status = s]
<1> DEFINE t == [g.nodes EXCEPT ![n].status = s]
<1>1. \A m \in DOMAIN g.nodes : g.nodes[m] \in NodeRecord
  BY RecordIs
<1>2. \A r \in NodeRecord :
        /\ [r EXCEPT !.status = s] \in NodeRecord
        /\ [r EXCEPT !.status = s].spec = r.spec /\ [r EXCEPT !.status = s].used = r.used
        /\ [r EXCEPT !.status = s].status = s /\ r.used \in Int
  BY DEF NodeRecord
<1>3. DOMAIN t = DOMAIN g.nodes /\ t = [m \in DOMAIN t |-> t[m]]
  OBVIOUS
<1>4. \A m \in DOMAIN g.nodes : t[m] = IF m = n THEN [g.nodes[m] EXCEPT !.status = s] ELSE g.nodes[m]
  OBVIOUS
<1>5. \A m \in DOMAIN g.nodes :
           /\ t[m] \in NodeRecord
           /\ t[m].spec = g.nodes[m].spec /\ t[m].used >= g.nodes[m].used
           /\ t[m].status = "completed" => g.nodes[m].status = "completed"
  <2> HIDE DEF t
  <2> TAKE m \in DOMAIN g.nodes
  <2> DEFINE r == g.nodes[m]
  <2>1. r \in NodeRecord
    BY <1>1
  <2>2. CASE m = n
    <3> DEFINE q == [r EXCEPT !.status = s]
    <3>1. t[m] = q
      BY <1>4, <2>2
    <3>2. q \in NodeRecord /\ q.spec = r.spec /\ q.used >= r.used /\ q.status # "completed"
      BY <1>2, <2>1, <2>2
    <3> HIDE DEF q
    <3> QED BY <3>1, <3>2
  <2>3. CASE m # n
    <3>1. t[m] = r
      BY <1>4, <2>3
    <3>2. r.used \in Int
      BY <1>2, <2>1
    <3>3. r.used >= r.used
      BY <3>2
    <3> QED BY <2>1, <3>1, <3>3
  <2> QED BY <2>2, <2>3
<1>6. WithNode(g, n, s) = [g EXCEPT !.nodes = t]
  BY DEF WithNode
<1> HIDE DEF t
<1>7. LET h == [g EXCEPT !.nodes = t]
         IN  /\ Alike(g, h) /\ h.nodes = t /\ h.status = g.status
             /\ h.queries = g.queries /\ h.attempts = g.attempts
  BY <1>3, <1>5, NodesAlike
<1> QED BY <1>6, <1>7 DEF t

(* A node whose attempt came to nothing is pending or failed.               *)
LEMMA GiveUpAlike ==
  ASSUME NEW g \in GoalRecord, NEW n \in DOMAIN g.nodes
  PROVE  LET h == GiveUp(g, n)
         IN  /\ Alike(g, h) /\ h.status = g.status
             /\ h.queries = g.queries /\ h.attempts = g.attempts
<1>1. CASE g.nodes[n].used >= MaxAttempts
  BY <1>1, WithNodeAlike DEF GiveUp, NodeStatus
<1>2. CASE ~ (g.nodes[n].used >= MaxAttempts)
  BY <1>2, WithNodeAlike DEF GiveUp, NodeStatus
<1> QED BY <1>1, <1>2

(* An attempt of a node is used up (create_worker failed).                  *)
LEMMA UsedUpAlike ==
  ASSUME NEW g \in GoalRecord, NEW n \in DOMAIN g.nodes, g.nodes[n].used < MaxAttempts
  PROVE  LET h == [g EXCEPT !.nodes[n].used = @ + 1]
         IN  /\ Alike(g, h) /\ h.status = g.status
             /\ h.queries = g.queries /\ h.attempts = g.attempts
             /\ h.nodes = [g.nodes EXCEPT ![n].used = @ + 1]
<1> DEFINE t == [g.nodes EXCEPT ![n].used = @ + 1]
<1>1. \A m \in DOMAIN g.nodes : g.nodes[m] \in NodeRecord
  BY RecordIs
<1>2. \A r \in NodeRecord :
        /\ r.used < MaxAttempts => [r EXCEPT !.used = @ + 1] \in NodeRecord
        /\ LET q == [r EXCEPT !.used = @ + 1]
           IN  q.spec = r.spec /\ q.used = r.used + 1 /\ q.status = r.status
        /\ r.used \in Int
  <2> TAKE r \in NodeRecord
  <2>1. r.used \in 0 .. MaxAttempts /\ MaxAttempts \in Nat
    BY GoalAssumptions DEF NodeRecord
  <2>2. r.used < MaxAttempts => r.used + 1 \in 0 .. MaxAttempts
    BY <2>1
  <2>3. r.used \in Int
    BY <2>1
  <2> QED BY <2>2, <2>3 DEF NodeRecord
<1>3. DOMAIN t = DOMAIN g.nodes /\ t = [m \in DOMAIN t |-> t[m]]
  OBVIOUS
<1>4. \A m \in DOMAIN g.nodes : t[m] = IF m = n THEN [g.nodes[m] EXCEPT !.used = @ + 1] ELSE g.nodes[m]
  OBVIOUS
<1>5. \A m \in DOMAIN g.nodes :
           /\ t[m] \in NodeRecord
           /\ t[m].spec = g.nodes[m].spec /\ t[m].used >= g.nodes[m].used
           /\ t[m].status = "completed" => g.nodes[m].status = "completed"
  <2> HIDE DEF t
  <2> TAKE m \in DOMAIN g.nodes
  <2> DEFINE r == g.nodes[m]
  <2>1. r \in NodeRecord
    BY <1>1
  <2>2. CASE m = n
    <3> DEFINE q == [r EXCEPT !.used = @ + 1]
    <3>1. t[m] = q
      BY <1>4, <2>2
    <3>2. q \in NodeRecord /\ q.spec = r.spec /\ q.used >= r.used /\ q.status = r.status
      BY <1>2, <2>1, <2>2
    <3> HIDE DEF q
    <3> QED BY <3>1, <3>2
  <2>3. CASE m # n
    <3>1. t[m] = r
      BY <1>4, <2>3
    <3>2. r.used \in Int
      BY <1>2, <2>1
    <3>3. r.used >= r.used
      BY <3>2
    <3> QED BY <2>1, <3>1, <3>3
  <2> QED BY <2>2, <2>3
<1>6. [g EXCEPT !.nodes[n].used = @ + 1] = [g EXCEPT !.nodes = t]
  OBVIOUS
<1> HIDE DEF t
<1>7. LET h == [g EXCEPT !.nodes = t]
         IN  /\ Alike(g, h) /\ h.nodes = t /\ h.status = g.status
             /\ h.queries = g.queries /\ h.attempts = g.attempts
  BY <1>3, <1>5, NodesAlike
<1> QED BY <1>6, <1>7 DEF t

(* A list of attempts that differ in their status only.                     *)
LEMMA AttemptsAlike ==
  ASSUME NEW g \in GoalRecord, NEW s, DOMAIN s = DOMAIN g.attempts,
         s = [a \in DOMAIN s |-> s[a]],
         \A a \in DOMAIN g.attempts :
           /\ s[a] \in AttemptRecord
           /\ s[a].node = g.attempts[a].node /\ s[a].spec = g.attempts[a].spec
           /\ s[a].base = g.attempts[a].base /\ s[a].num = g.attempts[a].num
  PROVE  LET h == [g EXCEPT !.attempts = s]
         IN  /\ Alike(g, h) /\ h.attempts = s /\ h.status = g.status
             /\ h.queries = g.queries /\ h.nodes = g.nodes
<1>1. s \in Seq(AttemptRecord) /\ Len(s) = Len(g.attempts) /\ DOMAIN g.attempts = 1 .. Len(g.attempts)
  <2>1. Len(g.attempts) \in Nat /\ DOMAIN g.attempts = 1 .. Len(g.attempts)
    BY RecordIs
  <2>2. s \in [1 .. Len(g.attempts) -> AttemptRecord]
    BY <2>1
  <2>3. s \in Seq(AttemptRecord)
    BY <2>1, <2>2, SeqDef
  <2> QED BY <2>1, <2>2, <2>3
<1>2. LET h == [g EXCEPT !.attempts = s]
      IN  /\ h \in GoalRecord /\ h.nodes = g.nodes /\ h.status = g.status /\ h.attempts = s
          /\ h.queries = g.queries /\ h.replans = g.replans
  BY <1>1, FieldChange
<1>3. \A n \in DOMAIN g.nodes : g.nodes[n].used >= g.nodes[n].used
  BY RecordIs
<1> QED BY <1>1, <1>2, <1>3 DEF Alike

(* An attempt with another status keeps its node, contract, base and        *)
(* number.                                                                  *)
LEMMA AttemptStatusIs ==
  ASSUME NEW r \in AttemptRecord, NEW s \in AttemptStatus
  PROVE  LET q == [r EXCEPT !.status = s]
         IN  q \in AttemptRecord /\ q.status = s /\ q.node = r.node /\ q.spec = r.spec
             /\ q.base = r.base /\ q.num = r.num
BY DEF AttemptRecord

(* An attempt is given a status.                                            *)
LEMMA WithAttemptAlike ==
  ASSUME NEW g \in GoalRecord, NEW a, NEW s \in AttemptStatus
  PROVE  LET h == WithAttempt(g, a, s)
         IN  /\ Alike(g, h) /\ h.status = g.status
             /\ h.queries = g.queries /\ h.nodes = g.nodes
             /\ h.attempts = [g.attempts EXCEPT ![a].status = s]
<1> DEFINE t == [g.attempts EXCEPT ![a].status = s]
<1>1. \A b \in DOMAIN g.attempts : g.attempts[b] \in AttemptRecord
  BY RecordIs
<1>3. DOMAIN t = DOMAIN g.attempts /\ t = [b \in DOMAIN t |-> t[b]]
  OBVIOUS
<1>4. \A b \in DOMAIN g.attempts : t[b] = IF b = a THEN [g.attempts[b] EXCEPT !.status = s] ELSE g.attempts[b]
  OBVIOUS
<1>5. \A b \in DOMAIN g.attempts :
           /\ t[b] \in AttemptRecord
           /\ t[b].node = g.attempts[b].node /\ t[b].spec = g.attempts[b].spec
           /\ t[b].base = g.attempts[b].base /\ t[b].num = g.attempts[b].num
  <2> HIDE DEF t
  <2> TAKE b \in DOMAIN g.attempts
  <2> DEFINE r == g.attempts[b]
             q == [r EXCEPT !.status = s]
  <2>1. r \in AttemptRecord
    BY <1>1
  <2>2. CASE b = a
    <3>1. t[b] = q
      BY <1>4, <2>2
    <3> HIDE DEF r
    <3>2. q \in AttemptRecord /\ q.node = r.node /\ q.spec = r.spec /\ q.base = r.base /\ q.num = r.num
      BY <2>1, AttemptStatusIs
    <3> HIDE DEF q
    <3> QED BY <3>1, <3>2 DEF r
  <2>3. CASE b # a
    <3>1. t[b] = r
      BY <1>4, <2>3
    <3> QED BY <2>1, <3>1
  <2> QED BY <2>2, <2>3
<1>6. WithAttempt(g, a, s) = [g EXCEPT !.attempts = t]
  BY DEF WithAttempt
<1> HIDE DEF t
<1>7. LET h == [g EXCEPT !.attempts = t]
         IN  /\ Alike(g, h) /\ h.attempts = t /\ h.status = g.status
             /\ h.queries = g.queries /\ h.nodes = g.nodes
  BY <1>3, <1>5, AttemptsAlike
<1> QED BY <1>6, <1>7 DEF t

(* The queries are other ones.                                              *)
LEMMA QueriesAlike ==
  ASSUME NEW g \in GoalRecord, NEW s \in Seq(QueryRecord),
         Impacts = {} /\ g.queries = <<>> => s = <<>>
  PROVE  LET h == [g EXCEPT !.queries = s]
         IN  /\ Alike(g, h) /\ h.queries = s /\ h.status = g.status
             /\ h.attempts = g.attempts /\ h.nodes = g.nodes
<1>2. LET h == [g EXCEPT !.queries = s]
      IN  /\ h \in GoalRecord /\ h.nodes = g.nodes /\ h.status = g.status /\ h.attempts = g.attempts
          /\ h.queries = s /\ h.replans = g.replans
  BY FieldChange
<1>3. \A n \in DOMAIN g.nodes : g.nodes[n].used >= g.nodes[n].used
  BY RecordIs
<1> QED BY <1>2, <1>3 DEF Alike

(* A query is given a status.                                               *)
LEMMA WithQueryAlike ==
  ASSUME NEW g \in GoalRecord, NEW q, NEW s \in QueryStatus
  PROVE  LET h == WithQuery(g, q, s)
         IN  /\ Alike(g, h) /\ h.status = g.status
             /\ h.attempts = g.attempts /\ h.nodes = g.nodes
             /\ h.queries = [g.queries EXCEPT ![q].status = s]
<1> DEFINE t == [g.queries EXCEPT ![q].status = s]
<1>1. \A b \in DOMAIN g.queries : g.queries[b] \in QueryRecord
  BY RecordIs
<1>2. \A r \in QueryRecord : [r EXCEPT !.status = s] \in QueryRecord
  BY DEF QueryRecord
<1>4. \A b \in DOMAIN g.queries : t[b] = IF b = q THEN [g.queries[b] EXCEPT !.status = s] ELSE g.queries[b]
  OBVIOUS
<1>5. t \in [1 .. Len(g.queries) -> QueryRecord] /\ Len(g.queries) \in Nat
  <2>1. t \in [DOMAIN g.queries -> QueryRecord]
    BY <1>1, <1>2, <1>4
  <2> HIDE DEF t
  <2> QED BY <2>1, RecordIs
<1>6. WithQuery(g, q, s) = [g EXCEPT !.queries = t]
  BY DEF WithQuery
<1> HIDE DEF t
<1>7. t \in Seq(QueryRecord) /\ Len(t) = Len(g.queries)
  BY <1>5, SeqDef
<1>8. g.queries = <<>> => t = <<>>
  <2>1. g.queries = <<>> => Len(t) = 0
    BY <1>7
  <2> QED BY <2>1, <1>7, EmptySeq
<1>9. LET h == [g EXCEPT !.queries = t]
         IN  /\ Alike(g, h) /\ h.queries = t /\ h.status = g.status
             /\ h.attempts = g.attempts /\ h.nodes = g.nodes
  BY <1>7, <1>8, QueriesAlike
<1> QED BY <1>6, <1>9 DEF t

(* The words the code writes are among those the record can hold.           *)
LEMMA Words ==
  /\ "pending" \in NodeStatus /\ "running" \in NodeStatus /\ "failed" \in NodeStatus
  /\ "waiting_for_parent" \in NodeStatus /\ "completed" \in NodeStatus
  /\ "interrupted" \in AttemptStatus /\ "completed" \in AttemptStatus
  /\ "failed" \in AttemptStatus /\ "budget_exhausted" \in AttemptStatus
  /\ "waiting_for_parent" \in AttemptStatus /\ "stale_result" \in AttemptStatus
  /\ "merge_failed" \in AttemptStatus /\ "integrated" \in AttemptStatus
  /\ "cancelled" \in AttemptStatus /\ "running" \in AttemptStatus
  /\ "answered" \in QueryStatus /\ "replanned" \in QueryStatus
  /\ "resolving" \in QueryStatus /\ "waiting_for_parent" \in QueryStatus
  /\ "replan_requested" \in QueryStatus
  /\ "running" \in GoalStatus /\ "blocked" \in GoalStatus /\ "cancelled" \in GoalStatus
  /\ "completed" \in GoalStatus /\ "budget_exhausted" \in GoalStatus
  /\ "waiting_for_parent" \in GoalStatus /\ "planning" \in GoalStatus
BY DEF NodeStatus, AttemptStatus, QueryStatus, GoalStatus

(* What is alike a record is one, with the same nodes.                      *)
LEMMA AlikeIsRecord ==
  ASSUME NEW g, NEW h, Alike(g, h)
  PROVE  h \in GoalRecord /\ DOMAIN h.nodes = DOMAIN g.nodes
BY DEF Alike

(* A node with another status keeps its contract and its count.             *)
LEMMA NodeStatusIs ==
  ASSUME NEW r \in NodeRecord, NEW s \in NodeStatus
  PROVE  LET q == [r EXCEPT !.status = s]
         IN  q \in NodeRecord /\ q.status = s /\ q.spec = r.spec /\ q.used = r.used
BY DEF NodeRecord

(* The nodes of a set take a status that is not "completed".                *)
LEMMA SomeNodesAlike ==
  ASSUME NEW g \in GoalRecord, NEW S, NEW s \in NodeStatus, s # "completed"
  PROVE  LET t == [n \in DOMAIN g.nodes |-> IF n \in S THEN [g.nodes[n] EXCEPT !.status = s]
                                            ELSE g.nodes[n]]
             h == [g EXCEPT !.nodes = t]
         IN  /\ Alike(g, h) /\ h.nodes = t /\ h.status = g.status
             /\ h.queries = g.queries /\ h.attempts = g.attempts
<1> DEFINE t == [n \in DOMAIN g.nodes |-> IF n \in S THEN [g.nodes[n] EXCEPT !.status = s]
                                          ELSE g.nodes[n]]
<1>1. DOMAIN t = DOMAIN g.nodes /\ t = [n \in DOMAIN t |-> t[n]]
  OBVIOUS
<1>2. ASSUME NEW n \in DOMAIN g.nodes
      PROVE  /\ t[n] \in NodeRecord
             /\ t[n].spec = g.nodes[n].spec /\ t[n].used >= g.nodes[n].used
             /\ t[n].status = "completed" => g.nodes[n].status = "completed"
  <2> DEFINE r == g.nodes[n]
             q == [r EXCEPT !.status = s]
  <2>1. r \in NodeRecord /\ r.used \in Int
    BY RecordIs
  <2>2. r.used >= r.used
    BY <2>1
  <2>3. CASE n \in S
    <3>1. t[n] = q
      BY <2>3
    <3>2. q \in NodeRecord /\ q.status = s /\ q.spec = r.spec /\ q.used = r.used
      BY <2>1, NodeStatusIs
    <3> HIDE DEF q, t
    <3> QED BY <2>2, <3>1, <3>2
  <2>4. CASE n \notin S
    <3>1. t[n] = r
      BY <2>4
    <3> HIDE DEF t
    <3> QED BY <2>1, <2>2, <3>1
  <2> QED BY <2>3, <2>4
<1> HIDE DEF t
<1>3. LET h == [g EXCEPT !.nodes = t]
         IN  /\ Alike(g, h) /\ h.nodes = t /\ h.status = g.status
             /\ h.queries = g.queries /\ h.attempts = g.attempts
  BY <1>1, <1>2, NodesAlike
<1> QED BY <1>3 DEF t

(* _ready_nodes marks spent nodes failed.                                   *)
LEMMA MarkedAlike ==
  ASSUME NEW g \in GoalRecord
  PROVE  LET h == Marked(g)
         IN  /\ Alike(g, h) /\ h.status = g.status
             /\ h.queries = g.queries /\ h.attempts = g.attempts
             /\ h.nodes = [n \in DOMAIN g.nodes |->
                             IF n \in Spent(g) THEN [g.nodes[n] EXCEPT !.status = "failed"]
                             ELSE g.nodes[n]]
<1> DEFINE t == [n \in DOMAIN g.nodes |-> IF n \in Spent(g)
                   THEN [g.nodes[n] EXCEPT !.status = "failed"] ELSE g.nodes[n]]
           h == [g EXCEPT !.nodes = t]
<1>1. "failed" \in NodeStatus /\ "failed" # "completed"
  BY Words
<1>2. /\ Alike(g, h) /\ h.nodes = t /\ h.status = g.status
      /\ h.queries = g.queries /\ h.attempts = g.attempts
  <2> DEFINE S == Spent(g)
  <2>1. LET u == [n \in DOMAIN g.nodes |-> IF n \in S THEN [g.nodes[n] EXCEPT !.status = "failed"]
                                            ELSE g.nodes[n]]
            k == [g EXCEPT !.nodes = u]
        IN  /\ Alike(g, k) /\ k.nodes = u /\ k.status = g.status
            /\ k.queries = g.queries /\ k.attempts = g.attempts
    <3> HIDE DEF S
    <3> QED BY <1>1, SomeNodesAlike
  <2> QED BY <2>1
<1>3. Marked(g) = h
  BY DEF Marked
<1> QED BY <1>2, <1>3

(* The attempts of a set take a status.                                     *)
LEMMA SomeAttemptsAlike ==
  ASSUME NEW g \in GoalRecord, NEW S, NEW s \in AttemptStatus
  PROVE  LET t == [a \in DOMAIN g.attempts |->
                     IF a \in S THEN [g.attempts[a] EXCEPT !.status = s] ELSE g.attempts[a]]
             h == [g EXCEPT !.attempts = t]
         IN  /\ Alike(g, h) /\ h.attempts = t /\ h.status = g.status
             /\ h.queries = g.queries /\ h.nodes = g.nodes
<1> DEFINE t == [a \in DOMAIN g.attempts |->
                     IF a \in S THEN [g.attempts[a] EXCEPT !.status = s] ELSE g.attempts[a]]
<1>1. DOMAIN t = DOMAIN g.attempts /\ t = [a \in DOMAIN t |-> t[a]]
  OBVIOUS
<1>2. ASSUME NEW a \in DOMAIN g.attempts
      PROVE  /\ t[a] \in AttemptRecord
             /\ t[a].node = g.attempts[a].node /\ t[a].spec = g.attempts[a].spec
             /\ t[a].base = g.attempts[a].base /\ t[a].num = g.attempts[a].num
  <2> DEFINE r == g.attempts[a]
             q == [r EXCEPT !.status = s]
  <2>1. r \in AttemptRecord
    BY RecordIs
  <2>3. CASE a \in S
    <3>1. t[a] = q
      BY <2>3
    <3>2. /\ q \in AttemptRecord /\ q.node = r.node /\ q.spec = r.spec
          /\ q.base = r.base /\ q.num = r.num
      BY <2>1, AttemptStatusIs
    <3> HIDE DEF q, t
    <3> QED BY <3>1, <3>2
  <2>4. CASE a \notin S
    <3>1. t[a] = r
      BY <2>4
    <3> HIDE DEF t
    <3> QED BY <2>1, <3>1
  <2> QED BY <2>3, <2>4
<1> HIDE DEF t
<1>3. LET h == [g EXCEPT !.attempts = t]
         IN  /\ Alike(g, h) /\ h.attempts = t /\ h.status = g.status
             /\ h.queries = g.queries /\ h.nodes = g.nodes
  BY <1>1, <1>2, AttemptsAlike
<1> QED BY <1>3 DEF t

(* Recovery interrupts attempts and makes their nodes pending.              *)
LEMMA RecoveredAlike ==
  ASSUME NEW g \in GoalRecord
  PROVE  LET h == Recovered(g)
         IN  /\ Alike(g, h) /\ h.status = g.status /\ h.queries = g.queries
<1> DEFINE s == [a \in DOMAIN g.attempts |-> IF a \in RunningAttempts(g)
                   THEN [g.attempts[a] EXCEPT !.status = "interrupted"] ELSE g.attempts[a]]
           k == [g EXCEPT !.attempts = s]
           hit == {g.attempts[a].node : a \in RunningAttempts(g)}
           t == [n \in DOMAIN k.nodes |->
                   IF n \in hit THEN [k.nodes[n] EXCEPT !.status = "pending"] ELSE k.nodes[n]]
<1>1. Alike(g, k) /\ k.status = g.status /\ k.queries = g.queries /\ k.nodes = g.nodes
  <2> DEFINE S == RunningAttempts(g)
  <2>1. LET u == [a \in DOMAIN g.attempts |->
                     IF a \in S THEN [g.attempts[a] EXCEPT !.status = "interrupted"]
                     ELSE g.attempts[a]]
            h == [g EXCEPT !.attempts = u]
        IN  Alike(g, h) /\ h.status = g.status /\ h.queries = g.queries /\ h.nodes = g.nodes
    <3>1. "interrupted" \in AttemptStatus
      BY Words
    <3> HIDE DEF S
    <3> QED BY <3>1, SomeAttemptsAlike
  <2> QED BY <2>1
<1>2. k \in GoalRecord
  BY <1>1, AlikeIsRecord
<1>3. s = [a \in DOMAIN g.attempts |-> IF g.attempts[a].status = "running"
             THEN [g.attempts[a] EXCEPT !.status = "interrupted"] ELSE g.attempts[a]]
  BY DEF RunningAttempts
<1>4. Recovered(g) = [g EXCEPT !.attempts = s,
         !.nodes = [n \in DOMAIN g.nodes |->
            IF n \in hit THEN [g.nodes[n] EXCEPT !.status = "pending"] ELSE g.nodes[n]]]
  BY <1>3 DEF Recovered
<1>5. Recovered(g) = [k EXCEPT !.nodes = t]
  <2> HIDE DEF s, hit
  <2>1. t = [n \in DOMAIN g.nodes |->
              IF n \in hit THEN [g.nodes[n] EXCEPT !.status = "pending"] ELSE g.nodes[n]]
    BY <1>1
  <2> HIDE DEF t
  <2> QED BY <1>4, <2>1
<1> HIDE DEF k, hit
<1>6. LET h == [k EXCEPT !.nodes = t]
      IN  Alike(k, h) /\ h.status = k.status /\ h.queries = k.queries
  <2>1. "pending" \in NodeStatus /\ "pending" # "completed"
    BY Words
  <2> QED BY <1>2, <2>1, SomeNodesAlike
<1> HIDE DEF t
<1> QED BY <1>1, <1>5, <1>6, AlikeTrans

(* A question is added, once there are questions at all.                    *)
LEMMA AskedAlike ==
  ASSUME NEW g \in GoalRecord, NEW n \in Nodes, NEW s \in QueryStatus, Impacts # {}
  PROVE  LET h == [g EXCEPT !.queries = Append(@, Query(n, s))]
         IN  /\ Alike(g, h) /\ h.status = g.status
             /\ h.attempts = g.attempts /\ h.nodes = g.nodes
             /\ Len(h.queries) = Len(g.queries) + 1
             /\ \A q \in 1 .. Len(g.queries) : h.queries[q] = g.queries[q]
             /\ HasQuery(n, Len(g.queries) + 1, h, s)
<1>1. Query(n, s) \in QueryRecord /\ Query(n, s).node = n /\ Query(n, s).status = s
  BY DEF Query, QueryRecord
<1> DEFINE t == Append(g.queries, Query(n, s))
<1>2. g.queries \in Seq(QueryRecord) /\ Len(g.queries) \in Nat
  BY RecordIs
<1>3. /\ t \in Seq(QueryRecord) /\ Len(t) = Len(g.queries) + 1
      /\ \A q \in 1 .. Len(g.queries) : t[q] = g.queries[q]
      /\ t[Len(g.queries) + 1] = Query(n, s)
  BY <1>1, <1>2, AppendProperties
<1> HIDE DEF t
<1>4. LET h == [g EXCEPT !.queries = t]
      IN  /\ Alike(g, h) /\ h.status = g.status /\ h.queries = t
          /\ h.attempts = g.attempts /\ h.nodes = g.nodes
  BY <1>3, QueriesAlike
<1>5. Len(g.queries) + 1 \in 1 .. Len(t)
  BY <1>2, <1>3
<1> DEFINE h == [g EXCEPT !.queries = t]
<1>6. /\ Alike(g, h) /\ h.status = g.status /\ h.queries = t
      /\ h.attempts = g.attempts /\ h.nodes = g.nodes
  BY <1>4
<1>7. HasQuery(n, Len(g.queries) + 1, h, s)
  <2> HIDE DEF h
  <2> QED BY <1>1, <1>3, <1>5, <1>6 DEF HasQuery
<1>8. h = [g EXCEPT !.queries = Append(@, Query(n, s))]
  BY DEF t
<1> HIDE DEF h
<1> QED BY <1>3, <1>6, <1>7, <1>8

(* An answer closes a query, opens its node and reschedules the Goal.       *)
LEMMA AnsweredAlike ==
  ASSUME NEW g \in GoalRecord, NEW q
  PROVE  Alike(g, Answered(g, q)) /\ Answered(g, q).status = "running"
<1> DEFINE h == WithQuery(g, q, "answered")
           n == g.queries[q].node
           k == IF n \in DOMAIN g.nodes /\ g.nodes[n].status = "waiting_for_parent"
                  THEN WithNode(h, n, "pending") ELSE h
<1>1. Alike(g, h) /\ h \in GoalRecord
  <2>1. Alike(g, h)
    BY Words, WithQueryAlike
  <2> QED BY <2>1, AlikeIsRecord
<1>2. DOMAIN h.nodes = DOMAIN g.nodes
  BY <1>1 DEF Alike
<1>3. Answered(g, q) = Renewed(k)
  BY DEF Answered
<1>4. Alike(h, k)
  <2> HIDE DEF h
  <2>1. CASE n \in DOMAIN g.nodes /\ g.nodes[n].status = "waiting_for_parent"
    BY <1>1, <1>2, <2>1, WithNodeAlike DEF NodeStatus
  <2>2. CASE ~ (n \in DOMAIN g.nodes /\ g.nodes[n].status = "waiting_for_parent")
    BY <1>1, <2>2, AlikeRefl
  <2> QED BY <2>1, <2>2
<1> HIDE DEF h, k
<1>5. Alike(g, k) /\ k \in GoalRecord
  BY <1>1, <1>4, AlikeTrans DEF Alike
<1>6. Alike(k, Renewed(k)) /\ Renewed(k).status = "running"
  BY <1>5, OuterAlike DEF Renewed
<1> QED BY <1>3, <1>5, <1>6, AlikeTrans

-----------------------------------------------------------------------------
Grown(l, k) ==
  /\ Len(l) \in Nat /\ Len(k) \in Nat /\ Len(l) <= Len(k)
  /\ \A i \in 1 .. Len(l) : k[i] = l[i]

(* What a contract is based on stays in a log that only grows.              *)
LEMMA GrownBased ==
  ASSUME NEW spec, NEW base \in Nat, NEW l, NEW k, Grown(l, k), Based(spec, base, l)
  PROVE  Based(spec, base, k)
<1>1. base <= Len(k)
  BY DEF Grown, Based
<1>2. ASSUME NEW d \in spec.deps PROVE \E j \in 1 .. base : k[j].node = d
  <2>1. PICK j \in 1 .. base : l[j].node = d
    BY DEF Based
  <2>2. j \in 1 .. Len(l)
    BY DEF Based, Grown
  <2>3. k[j] = l[j]
    BY <2>2 DEF Grown
  <2> QED BY <2>1, <2>3
<1> QED BY <1>1, <1>2 DEF Based

(* What is merged stays merged in a log that only grows.                    *)
LEMMA GrownMerged ==
  ASSUME NEW n, NEW spec, NEW l, NEW k, Grown(l, k), IsMerged(n, spec, l)
  PROVE  IsMerged(n, spec, k)
<1>1. PICK i \in 1 .. Len(l) : l[i].node = n /\ l[i].spec = spec
  BY DEF IsMerged
<1>2. k[i] = l[i] /\ i \in 1 .. Len(k)
  BY DEF Grown
<1> QED BY <1>1, <1>2 DEF IsMerged

(* What the log says of a record it still says when it has grown.           *)
LEMMA GrownRecordInv ==
  ASSUME NEW g, NEW l, NEW k, RecordInv(g, l), Grown(l, k)
  PROVE  RecordInv(g, k)
<1>1. g \in GoalRecord
  BY DEF RecordInv
<1>2. \A a \in 1 .. Len(g.attempts) : g.attempts[a].base \in Nat
  <2>1. \A a \in 1 .. Len(g.attempts) : g.attempts[a] \in AttemptRecord
    BY <1>1, RecordIs
  <2> QED BY <2>1 DEF AttemptRecord
<1>3. \A n \in Completed(g) : IsMerged(n, g.nodes[n].spec, k)
  BY GrownMerged DEF RecordInv
<1>4. \A a \in 1 .. Len(g.attempts) : Based(g.attempts[a].spec, g.attempts[a].base, k)
  BY <1>2, GrownBased DEF RecordInv
<1> QED BY <1>3, <1>4 DEF RecordInv

(* A merge of an attempt that was based on the log.                         *)
LEMMA LogGrows ==
  ASSUME NEW l \in Seq(LogRecord), NEW e \in LogRecord, Based(e.spec, e.base, l),
         \A i \in 1 .. Len(l) : Based(l[i].spec, l[i].base, l)
  PROVE  LET k == Append(l, e)
         IN  /\ k \in Seq(LogRecord) /\ Grown(l, k) /\ Len(k) = Len(l) + 1
             /\ \A i \in 1 .. Len(k) : Based(k[i].spec, k[i].base, k)
             /\ IsMerged(e.node, e.spec, k)
<1> DEFINE k == Append(l, e)
<1>1. /\ k \in Seq(LogRecord) /\ Len(k) = Len(l) + 1 /\ Len(l) \in Nat
      /\ \A i \in 1 .. Len(l) : k[i] = l[i]
      /\ k[Len(l) + 1] = e
      /\ \A i \in 1 .. Len(l) : l[i] \in LogRecord
  BY AppendProperties
<1> HIDE DEF k
<1>2. Grown(l, k)
  BY <1>1 DEF Grown
<1>3. \A r \in LogRecord : r.base \in Nat
  BY DEF LogRecord
<1>4. ASSUME NEW i \in 1 .. Len(k) PROVE Based(k[i].spec, k[i].base, k)
  <2>1. CASE i \in 1 .. Len(l)
    BY <1>1, <1>2, <1>3, <2>1, GrownBased
  <2>2. CASE i = Len(l) + 1
    BY <1>1, <1>2, <1>3, <2>2, GrownBased
  <2> QED BY <1>1, <2>1, <2>2
<1>5. IsMerged(e.node, e.spec, k)
  <2>1. Len(l) + 1 \in 1 .. Len(k)
    BY <1>1
  <2> QED BY <1>1, <2>1 DEF IsMerged
<1> QED BY <1>1, <1>2, <1>4, <1>5 DEF k

(* A node is completed under the contract that was merged.                  *)
LEMMA CompletedInv ==
  ASSUME NEW g, NEW l, RecordInv(g, l), NEW n \in DOMAIN g.nodes,
         IsMerged(n, g.nodes[n].spec, l)
  PROVE  LET h == WithNode(g, n, "completed")
         IN  /\ RecordInv(h, l) /\ h \in GoalRecord /\ h.status = g.status
             /\ h.queries = g.queries /\ h.attempts = g.attempts /\ h.replans = g.replans
             /\ DOMAIN h.nodes = DOMAIN g.nodes
             /\ \A m \in DOMAIN g.nodes :
                  h.nodes[m].spec = g.nodes[m].spec /\ h.nodes[m].used = g.nodes[m].used
<1> DEFINE t == [g.nodes EXCEPT ![n].status = "completed"]
           h == [g EXCEPT !.nodes = t]
<1>1. g \in GoalRecord
  BY DEF RecordInv
<1>2. DOMAIN t = DOMAIN g.nodes
  OBVIOUS
<1>3. ASSUME NEW m \in DOMAIN g.nodes
      PROVE  /\ t[m] \in NodeRecord
             /\ t[m].spec = g.nodes[m].spec /\ t[m].used = g.nodes[m].used
             /\ m # n => t[m].status = g.nodes[m].status
  <2> DEFINE r == g.nodes[m]
             q == [r EXCEPT !.status = "completed"]
  <2>1. r \in NodeRecord /\ "completed" \in NodeStatus
    BY <1>1, RecordIs, Words
  <2>2. CASE m = n
    <3>1. t[m] = q
      BY <2>2
    <3>2. q \in NodeRecord /\ q.spec = r.spec /\ q.used = r.used
      BY <2>1, NodeStatusIs
    <3> HIDE DEF q, t
    <3> QED BY <2>2, <3>1, <3>2
  <2>3. CASE m # n
    <3>1. t[m] = r
      BY <2>3
    <3> HIDE DEF t
    <3> QED BY <2>1, <3>1
  <2> QED BY <2>2, <2>3
<1>4. t \in NodeTables
  <2>1. t \in [DOMAIN g.nodes -> NodeRecord]
    <3>1. t = [m \in DOMAIN g.nodes |-> t[m]]
      OBVIOUS
    <3> HIDE DEF t
    <3> QED BY <1>3, <3>1
  <2> HIDE DEF t
  <2> QED BY <1>1, <2>1, RecordIs DEF NodeTables
<1>5. WithNode(g, n, "completed") = h
  BY DEF WithNode
<1> HIDE DEF t
<1>6. /\ h \in GoalRecord /\ h.nodes = t /\ h.status = g.status
      /\ h.queries = g.queries /\ h.attempts = g.attempts /\ h.replans = g.replans
  BY <1>1, <1>4, FieldChange
<1> HIDE DEF h
<1>7. RecordInv(h, l)
  <2>1. ASSUME NEW m \in Completed(h) PROVE IsMerged(m, h.nodes[m].spec, l)
    <3>1. m \in DOMAIN g.nodes /\ (m = n \/ m \in Completed(g))
      BY <1>2, <1>3, <1>6 DEF Completed
    <3>2. h.nodes[m].spec = g.nodes[m].spec
      BY <1>3, <1>6, <3>1
    <3> QED BY <3>1, <3>2 DEF RecordInv
  <2>2. \A m \in Nodes : AttemptsOf(h, m) = AttemptsOf(g, m) /\ Allowed(h, m) = Allowed(g, m)
    BY <1>2, <1>3, <1>6 DEF AttemptsOf, Allowed, Used
  <2> QED BY <1>2, <1>6, <2>1, <2>2 DEF RecordInv
<1> QED BY <1>2, <1>3, <1>5, <1>6, <1>7

(* A node has finitely many attempts.                                       *)
LEMMA AttemptsFinite ==
  ASSUME NEW g \in GoalRecord, NEW n
  PROVE  IsFiniteSet(AttemptsOf(g, n)) /\ Cardinality(AttemptsOf(g, n)) \in Nat
<1>1. AttemptsOf(g, n) \subseteq 1 .. Len(g.attempts) /\ Len(g.attempts) \in Nat
  BY RecordIs DEF AttemptsOf
<1>2. IsFiniteSet(1 .. Len(g.attempts))
  BY <1>1, FS_Interval
<1> QED BY <1>1, <1>2, FS_Subset, FS_CardinalityType

(* Admission writes down one attempt more and uses one up.                  *)
LEMMA DispatchedInv ==
  ASSUME NEW g, RecordInv(g, log), NEW n \in DOMAIN g.nodes, QueuedInv(n, g),
         Len(log) \in Nat
  PROVE  LET h == Dispatched(g, n)
             a == Len(g.attempts) + 1
         IN  /\ RecordInv(h, log) /\ h.status = g.status /\ h.queries = g.queries
             /\ h.replans = g.replans
             /\ DOMAIN h.nodes = DOMAIN g.nodes
             /\ \A m \in DOMAIN g.nodes :
                  h.nodes[m].spec = g.nodes[m].spec /\ (m # n => h.nodes[m] = g.nodes[m])
             /\ h.nodes[n].status = "running"
             /\ Len(h.attempts) = a
             /\ \A b \in 1 .. Len(g.attempts) : h.attempts[b] = g.attempts[b]
             /\ HasAttempt(n, a, h) /\ h.attempts[a].status = "running"
             /\ h.attempts[a].base = Len(log) /\ h.attempts[a].num = NextNumber(g, n)
<1> DEFINE r == [node |-> n, num |-> NextNumber(g, n), spec |-> g.nodes[n].spec,
                 base |-> Len(log), status |-> "running"]
           t == [g.nodes EXCEPT ![n].used = @ + 1, ![n].status = "running"]
           s == Append(g.attempts, r)
           k == [g EXCEPT !.nodes = t]
           h == [k EXCEPT !.attempts = s]
           l == Len(g.attempts)
<1>1. g \in GoalRecord
  BY DEF RecordInv
<1>2. Dispatched(g, n) = h
  BY DEF Dispatched, Head0
<1>3. ASSUME NEW m \in DOMAIN g.nodes
      PROVE  /\ t[m] \in NodeRecord /\ t[m].spec = g.nodes[m].spec
             /\ m # n => t[m] = g.nodes[m]
             /\ m = n => t[m].status = "running" /\ t[m].used = g.nodes[m].used + 1
  <2> DEFINE u == g.nodes[m]
             v == [u EXCEPT !.used = @ + 1, !.status = "running"]
  <2>1. u \in NodeRecord /\ "running" \in NodeStatus /\ u.used \in 0 .. MaxAttempts
    BY <1>1, RecordIs, Words
  <2>2. CASE m = n
    <3>1. t[m] = v
      BY <2>2
    <3>2. u.used + 1 \in 0 .. MaxAttempts
      BY <2>1, <2>2, GoalAssumptions DEF QueuedInv
    <3>3. v \in NodeRecord /\ v.spec = u.spec /\ v.used = u.used + 1 /\ v.status = "running"
      <4> HIDE DEF u
      <4> QED BY <2>1, <3>2 DEF NodeRecord
    <3> HIDE DEF v, t
    <3> QED BY <2>2, <3>1, <3>3
  <2>3. CASE m # n
    <3>1. t[m] = u
      BY <2>3
    <3> HIDE DEF t
    <3> QED BY <2>1, <2>3, <3>1
  <2> QED BY <2>2, <2>3
<1>4. DOMAIN t = DOMAIN g.nodes /\ t = [m \in DOMAIN g.nodes |-> t[m]]
  OBVIOUS
<1> HIDE DEF t
<1>5. t \in NodeTables
  <2>1. t \in [DOMAIN g.nodes -> NodeRecord]
    BY <1>3, <1>4
  <2> QED BY <1>1, <2>1, RecordIs DEF NodeTables
<1>6. r \in AttemptRecord
  <2>1. n \in Nodes /\ g.nodes[n].spec \in Contracts
    BY <1>1, RecordIs
  <2>2. NextNumber(g, n) \in Nat
    BY <1>1, AttemptsFinite DEF NextNumber
  <2> QED BY <2>1, <2>2, Words DEF AttemptRecord
<1>7. /\ r.node = n /\ r.num = NextNumber(g, n) /\ r.spec = g.nodes[n].spec
      /\ r.base = Len(log) /\ r.status = "running"
  OBVIOUS
<1> HIDE DEF r
<1>8. /\ s \in Seq(AttemptRecord) /\ Len(s) = l + 1 /\ l \in Nat
      /\ \A b \in 1 .. l : s[b] = g.attempts[b]
      /\ s[l + 1] = r /\ DOMAIN s = 1 .. l + 1
  BY <1>1, <1>6, RecordIs, AppendProperties
<1> HIDE DEF s
<1>9. /\ k \in GoalRecord /\ k.nodes = t /\ k.status = g.status
      /\ k.queries = g.queries /\ k.attempts = g.attempts /\ k.replans = g.replans
  BY <1>1, <1>5, FieldChange
<1> HIDE DEF k
<1>10. /\ h \in GoalRecord /\ h.nodes = t /\ h.status = g.status
       /\ h.queries = g.queries /\ h.attempts = s /\ h.replans = g.replans
  BY <1>8, <1>9, FieldChange
<1> HIDE DEF h
<1>11. HasAttempt(n, l + 1, h)
  <2>1. l + 1 \in 1 .. Len(s)
    BY <1>8
  <2> QED BY <1>3, <1>7, <1>8, <1>10, <2>1 DEF HasAttempt
<1>12. \A m \in Completed(h) : IsMerged(m, h.nodes[m].spec, log)
  <2> TAKE m \in Completed(h)
  <2>1. m \in DOMAIN g.nodes /\ h.nodes[m].status = "completed"
    BY <1>4, <1>10 DEF Completed
  <2>2. m # n
    BY <1>3, <1>10, <2>1
  <2>3. m \in Completed(g) /\ h.nodes[m].spec = g.nodes[m].spec
    BY <1>3, <1>10, <2>1, <2>2 DEF Completed
  <2> QED BY <2>3 DEF RecordInv
<1>13. Based(r.spec, r.base, log)
  <2>1. ASSUME NEW d \in r.spec.deps PROVE \E j \in 1 .. r.base : log[j].node = d
    <3>1. d \in Completed(g)
      BY <1>7 DEF QueuedInv
    <3>2. IsMerged(d, g.nodes[d].spec, log)
      BY <3>1 DEF RecordInv
    <3> QED BY <1>7, <3>2 DEF IsMerged
  <2>2. r.base <= Len(log)
    BY <1>7
  <2> QED BY <2>1, <2>2 DEF Based
<1>14. \A b \in 1 .. Len(h.attempts) : Based(h.attempts[b].spec, h.attempts[b].base, log)
  <2> TAKE b \in 1 .. Len(h.attempts)
  <2>1. CASE b \in 1 .. l
    BY <1>8, <1>10, <2>1 DEF RecordInv
  <2>2. CASE b = l + 1
    BY <1>8, <1>10, <1>13, <2>2
  <2> QED BY <1>8, <1>10, <2>1, <2>2
<1>15. ASSUME NEW m \in Nodes PROVE Cardinality(AttemptsOf(h, m)) <= Allowed(h, m)
  <2> DEFINE c == Cardinality(AttemptsOf(g, m))
             b == MaxAttempts * g.replans
  <2>1. c <= Allowed(g, m) /\ c \in Nat /\ IsFiniteSet(AttemptsOf(g, m))
    BY <1>1, AttemptsFinite DEF RecordInv
  <2>2. CASE m # n
    <3>1. AttemptsOf(h, m) = AttemptsOf(g, m)
      <4>1. DOMAIN g.attempts = 1 .. l /\ DOMAIN h.attempts = 1 .. l + 1
        BY <1>1, <1>8, <1>10, RecordIs
      <4>2. /\ \A a \in 1 .. l : a \in 1 .. l + 1 /\ h.attempts[a] = g.attempts[a]
            /\ \A a \in 1 .. l + 1 : a \in 1 .. l \/ a = l + 1
        BY <1>8, <1>10
      <4>3. h.attempts[l + 1].node = n
        BY <1>7, <1>8, <1>10
      <4> HIDE DEF l
      <4> QED BY <2>2, <4>1, <4>2, <4>3 DEF AttemptsOf
    <3>2. Allowed(h, m) = Allowed(g, m)
      BY <1>3, <1>4, <1>10, <2>2 DEF Allowed, Used
    <3> QED BY <2>1, <3>1, <3>2
  <2>3. CASE m = n
    <3>1. AttemptsOf(h, m) = AttemptsOf(g, m) \cup {l + 1}
      <4>1. DOMAIN h.attempts = (DOMAIN g.attempts) \cup {l + 1} /\ DOMAIN g.attempts = 1 .. l
        <5>1. DOMAIN g.attempts = 1 .. l /\ DOMAIN h.attempts = 1 .. l + 1
          BY <1>1, <1>8, <1>10, RecordIs
        <5>2. 1 .. l + 1 = (1 .. l) \cup {l + 1}
          BY <1>8
        <5> QED BY <5>1, <5>2
      <4>2. h.attempts[l + 1].node = n /\ \A d \in DOMAIN g.attempts : h.attempts[d] = g.attempts[d]
        BY <1>7, <1>8, <1>10, <4>1
      <4> HIDE DEF l
      <4> QED BY <2>3, <4>1, <4>2 DEF AttemptsOf
    <3>2. l + 1 \notin AttemptsOf(g, m)
      BY <1>1, <1>8, RecordIs DEF AttemptsOf
    <3>3. Cardinality(AttemptsOf(h, m)) = c + 1
      BY <2>1, <3>1, <3>2, FS_AddElement
    <3>4. g.nodes[n].used \in Nat /\ b \in Nat
      <4>1. g.nodes[n].used \in 0 .. MaxAttempts /\ g.replans \in Nat /\ MaxAttempts \in Nat
        BY <1>1, RecordIs, GoalAssumptions
      <4> QED BY <4>1
    <3>5. Allowed(g, m) = b + g.nodes[n].used
      BY <2>3 DEF Allowed, Used
    <3>6. Allowed(h, m) = b + (g.nodes[n].used + 1)
      BY <1>3, <1>4, <1>10, <2>3 DEF Allowed, Used
    <3>7. \A x, y, z \in Nat : x <= y + z => x + 1 <= y + (z + 1)
      OBVIOUS
    <3> HIDE DEF b, c
    <3> QED BY <2>1, <3>3, <3>4, <3>5, <3>6, <3>7
  <2> QED BY <2>2, <2>3
<1>16. RecordInv(h, log)
  <2>1. DOMAIN h.nodes # {}
    BY <1>4, <1>10
  <2>2. Impacts = {} => h.queries = <<>>
    BY <1>10 DEF RecordInv
  <2> QED BY <1>10, <1>12, <1>14, <1>15, <2>1, <2>2 DEF RecordInv
<1> QED BY <1>2, <1>3, <1>4, <1>7, <1>8, <1>10, <1>11, <1>16, ZenonT(40)

-----------------------------------------------------------------------------
(* What a plan of the planner is.                                           *)
LEMMA PlanIs ==
  ASSUME NEW p \in Plans
  PROVE  /\ DOMAIN p \in SUBSET Nodes /\ DOMAIN p # {} /\ IsFiniteSet(DOMAIN p)
         /\ \A n \in DOMAIN p : p[n] \in Contracts
<1>1. WellFormed(p)
  BY GoalAssumptions
<1>2. \A n \in DOMAIN p : p[n] \in Contracts
  BY DEF Contracts
<1> QED BY <1>1, <1>2 DEF WellFormed, Subsets

(* A plan takes over the nodes whose contract it keeps.                     *)
LEMMA AppliedIs ==
  ASSUME NEW g \in GoalRecord, NEW p \in Plans
  PROVE  LET h == Applied(g, p)
         IN  /\ h \in GoalRecord /\ h.status = g.status /\ h.attempts = g.attempts
             /\ h.queries = g.queries /\ h.replans = g.replans
             /\ DOMAIN h.nodes = DOMAIN p
             /\ \A n \in DOMAIN p :
                  /\ h.nodes[n].spec = p[n]
                  /\ \/ n \in DOMAIN g.nodes /\ h.nodes[n] = g.nodes[n]
                     \/ h.nodes[n].status = "pending" /\ h.nodes[n].used = 0
<1> DEFINE t == [n \in DOMAIN p |->
                   IF n \in DOMAIN g.nodes /\ g.nodes[n].spec = p[n] THEN g.nodes[n]
                   ELSE NewNode(p[n])]
<1>1. ASSUME NEW n \in DOMAIN p
      PROVE  /\ t[n] \in NodeRecord /\ t[n].spec = p[n]
             /\ \/ n \in DOMAIN g.nodes /\ t[n] = g.nodes[n]
                \/ t[n].status = "pending" /\ t[n].used = 0
  <2>1. CASE n \in DOMAIN g.nodes /\ g.nodes[n].spec = p[n]
    <3>1. t[n] = g.nodes[n]
      BY <2>1
    <3> HIDE DEF t
    <3> QED BY <2>1, <3>1, RecordIs
  <2>2. CASE ~ (n \in DOMAIN g.nodes /\ g.nodes[n].spec = p[n])
    <3>1. t[n] = NewNode(p[n])
      BY <2>2
    <3>2. 0 \in 0 .. MaxAttempts /\ p[n] \in Contracts
      BY GoalAssumptions, PlanIs
    <3>3. /\ NewNode(p[n]) \in NodeRecord /\ NewNode(p[n]).spec = p[n]
          /\ NewNode(p[n]).status = "pending" /\ NewNode(p[n]).used = 0
      BY <3>2, Words DEF NewNode, NodeRecord
    <3> HIDE DEF t
    <3> QED BY <3>1, <3>3
  <2> QED BY <2>1, <2>2
<1>2. DOMAIN t = DOMAIN p /\ t = [n \in DOMAIN p |-> t[n]]
  OBVIOUS
<1>3. Applied(g, p) = [g EXCEPT !.nodes = t]
  BY DEF Applied
<1> HIDE DEF t
<1>4. t \in NodeTables
  <2>1. t \in [DOMAIN p -> NodeRecord]
    BY <1>1, <1>2
  <2> QED BY <1>2, <2>1, PlanIs DEF NodeTables
<1> QED BY <1>1, <1>2, <1>3, <1>4, FieldChange

(* The log says of a record with a plan what it said before: a completed    *)
(* node is there under its old contract, or it is not completed.            *)
LEMMA AppliedCompleted ==
  ASSUME NEW g, NEW l, RecordInv(g, l), NEW p \in Plans, NEW h,
         h.nodes = Applied(g, p).nodes, NEW n \in Completed(h)
  PROVE  IsMerged(n, h.nodes[n].spec, l)
<1> DEFINE k == Applied(g, p)
<1>1. g \in GoalRecord
  BY DEF RecordInv
<1>2. /\ DOMAIN k.nodes = DOMAIN p
      /\ \A m \in DOMAIN p :
           \/ m \in DOMAIN g.nodes /\ k.nodes[m] = g.nodes[m]
           \/ k.nodes[m].status = "pending"
  BY <1>1, AppliedIs
<1>3. n \in DOMAIN p /\ k.nodes[n].status = "completed"
  BY <1>2 DEF Completed
<1>4. n \in DOMAIN g.nodes /\ h.nodes[n] = g.nodes[n]
  <2> HIDE DEF k
  <2>1. h.nodes[n] = k.nodes[n]
    BY DEF k
  <2> QED BY <1>2, <1>3, <2>1
<1>5. n \in Completed(g)
  <2> HIDE DEF k
  <2>1. h.nodes[n] = k.nodes[n]
    BY DEF k
  <2> QED BY <1>3, <1>4, <2>1 DEF Completed
<1> QED BY <1>4, <1>5 DEF RecordInv

(* The first plan of a record that had none.                                *)
LEMMA FirstPlanInv ==
  ASSUME NEW g, NEW l, RecordInv(g, l), NEW p \in Plans, DOMAIN g.nodes = {}
  PROVE  RecordInv(Applied(g, p), l) /\ Applied(g, p).status = g.status
<1> DEFINE h == Applied(g, p)
<1>1. g \in GoalRecord /\ g.attempts = <<>>
  BY DEF RecordInv
<1>2. /\ h \in GoalRecord /\ h.status = g.status /\ h.attempts = g.attempts
      /\ h.queries = g.queries /\ h.replans = g.replans
      /\ DOMAIN h.nodes = DOMAIN p
  BY <1>1, AppliedIs
<1>3. \A n \in Completed(h) : IsMerged(n, h.nodes[n].spec, l)
  BY AppliedCompleted
<1> HIDE DEF h
<1>4. ASSUME NEW n \in Nodes PROVE Cardinality(AttemptsOf(h, n)) <= Allowed(h, n)
  <2>1. AttemptsOf(h, n) = {}
    BY <1>1, <1>2 DEF AttemptsOf
  <2>2. Cardinality(AttemptsOf(h, n)) = 0
    BY <2>1, FS_EmptySet
  <2>3. Used(h, n) \in Nat
    BY <1>2, RecordIs DEF Used
  <2>4. MaxAttempts \in Nat /\ h.replans \in Nat
    BY <1>2, RecordIs, GoalAssumptions
  <2>5. \A x, y, z \in Nat : 0 <= x * y + z
    OBVIOUS
  <2> QED BY <2>2, <2>3, <2>4, <2>5 DEF Allowed
<1>5. DOMAIN h.nodes # {} /\ Len(h.attempts) = 0
  BY <1>1, <1>2, PlanIs
<1>6. Impacts = {} => h.queries = <<>>
  BY <1>2 DEF RecordInv
<1>7. RecordInv(h, l)
  BY <1>1, <1>2, <1>3, <1>4, <1>5, <1>6 DEF RecordInv
<1> QED BY <1>2, <1>7 DEF h

(* A replacement plan, which counts as one more.                            *)
LEMMA NextPlanInv ==
  ASSUME NEW g, NEW l, RecordInv(g, l), NEW p \in Plans, g.replans < MaxReplans
  PROVE  LET h == [Applied(g, p) EXCEPT !.replans = @ + 1]
         IN  RecordInv(h, l) /\ h.status = g.status /\ h.queries = g.queries
<1> DEFINE k == Applied(g, p)
           h == [k EXCEPT !.replans = @ + 1]
<1>1. g \in GoalRecord
  BY DEF RecordInv
<1>2. /\ k \in GoalRecord /\ k.status = g.status /\ k.attempts = g.attempts
      /\ k.queries = g.queries /\ k.replans = g.replans
      /\ DOMAIN k.nodes = DOMAIN p
      /\ \A n \in DOMAIN p :
           \/ n \in DOMAIN g.nodes /\ k.nodes[n] = g.nodes[n]
           \/ k.nodes[n].used = 0
  BY <1>1, AppliedIs
<1>3. \A f : f.nodes = k.nodes => \A n \in Completed(f) : IsMerged(n, f.nodes[n].spec, l)
  BY AppliedCompleted
<1> HIDE DEF k
<1>4. g.replans \in Nat /\ MaxReplans \in Nat /\ MaxAttempts \in Nat
  BY <1>1, RecordIs, GoalAssumptions
<1>5. k.replans + 1 \in 0 .. MaxReplans
  BY <1>2, <1>4
<1>6. /\ h \in GoalRecord /\ h.status = k.status /\ h.attempts = k.attempts /\ h.nodes = k.nodes
      /\ h.queries = k.queries /\ h.replans = k.replans + 1
  BY <1>2, <1>5 DEF GoalRecord
<1> HIDE DEF h
<1>7. ASSUME NEW n \in Nodes PROVE Cardinality(AttemptsOf(h, n)) <= Allowed(h, n)
  <2> DEFINE c == Cardinality(AttemptsOf(g, n))
  <2>1. AttemptsOf(h, n) = AttemptsOf(g, n)
    BY <1>2, <1>6 DEF AttemptsOf
  <2>2. c <= MaxAttempts * g.replans + Used(g, n) /\ c \in Nat
    BY <1>1, AttemptsFinite DEF RecordInv, Allowed
  <2>3. Used(g, n) \in 0 .. MaxAttempts /\ Used(h, n) \in 0 .. MaxAttempts
    BY <1>1, <1>4, <1>6, RecordIs DEF Used
  <2>4. Allowed(h, n) = MaxAttempts * (g.replans + 1) + Used(h, n)
    BY <1>2, <1>6 DEF Allowed
  <2>5. MaxAttempts * (g.replans + 1) = MaxAttempts * g.replans + MaxAttempts
        /\ MaxAttempts * g.replans \in Nat
    BY <1>4
  <2>6. \A x, y, m \in Nat : \A u, v \in 0 .. m : x <= y + u => x <= (y + m) + v
    OBVIOUS
  <2> HIDE DEF c
  <2>7. c <= Allowed(h, n)
    BY <1>4, <2>2, <2>3, <2>4, <2>5, <2>6
  <2> QED BY <2>1, <2>7 DEF c
<1>8. DOMAIN h.nodes # {}
  BY <1>2, <1>6, PlanIs
<1>9. \A a \in 1 .. Len(h.attempts) : Based(h.attempts[a].spec, h.attempts[a].base, l)
  BY <1>2, <1>6 DEF RecordInv
<1>10. RecordInv(h, l)
  BY <1>2, <1>3, <1>6, <1>7, <1>8, <1>9 DEF RecordInv
<1> QED BY <1>2, <1>6, <1>10 DEF h, k

-----------------------------------------------------------------------------
(* The places the task can be at, outside a wave.                           *)
LEMMA AtIs ==
  ASSUME NEW s
  PROVE  /\ At(s).at = s /\ At(s).why = "" /\ DOMAIN At(s) = RunFields
         /\ \A why, asked :
              LET r == [At(s) EXCEPT !.why = why, !.asked = asked]
              IN  r.at = s /\ r.why = why /\ DOMAIN r = RunFields
         /\ \A why :
              LET r == [At(s) EXCEPT !.why = why]
              IN  r.at = s /\ r.why = why /\ DOMAIN r = RunFields
BY DEF At, IdleRun, RunFields

(* A run that has ended is idle.                                            *)
LEMMA IdleIs == IdleRun.at = "idle" /\ DOMAIN IdleRun = RunFields
BY DEF IdleRun, RunFields

(* The stages of a run.                                                     *)
LEMMA Wording ==
  /\ Over = {"completed", "waiting_for_parent"}
  /\ "idle" \in Stages /\ "loading" \in Stages /\ "planning" \in Stages
  /\ "opening" \in Stages /\ "looping" \in Stages /\ "wave" \in Stages
  /\ "collecting" \in Stages /\ "verifying" \in Stages /\ "reviewing" \in Stages
BY DEF Over, Stages

(* The record is saved, or not, and the task goes on outside a wave.        *)
LEMMA OutsideInv ==
  ASSUME RunInv,
         RecordInv(goal', log), RecordInv(disk', log),
         UNCHANGED <<detached, log, review>>,
         trees' \subseteq trees, branch' \in BOOLEAN,
         run'.at \in Stages \ {"wave", "collecting"}, DOMAIN run' = RunFields,
         StageInv'
  PROVE  RunInv'
<1>1. PlaceInv'
  BY DEF RunInv, PlaceInv
<1>2. RecordInv(goal', log') /\ RecordInv(disk', log')
  OBVIOUS
<1>3. \A old \in detached' : RecordInv(old, log') /\ old.status \notin Over
  BY DEF RunInv
<1>4. WaveInv'
  BY DEF WaveInv
<1> QED BY <1>1, <1>2, <1>3, <1>4 DEF RunInv

(* The run ends in a state that is neither a success nor a question.        *)
LEMMA FinishInv ==
  ASSUME RunInv, NEW g, RecordInv(g, log), NEW s \in GoalStatus, s \notin Over,
         Finish(g, s), UNCHANGED <<git, review>>,
         \/ UNCHANGED detached
         \/ detached' \subseteq detached \cup {goal'}
  PROVE  RunInv'
<1> DEFINE h == [g EXCEPT !.status = s]
<1>1. g \in GoalRecord
  BY DEF RecordInv
<1>2. Alike(g, h) /\ h.status = s
  BY <1>1, OuterAlike
<1>3. RecordInv(h, log)
  <2> HIDE DEF h
  <2> QED BY <1>2, AlikeRecordInv
<1>4. goal' = h /\ disk' = h /\ run' = IdleRun
  BY DEF Finish, Save
<1> HIDE DEF h
<1>5. PlaceInv'
  BY <1>4, IdleIs, Wording DEF RunInv, PlaceInv, git
<1>6. StageInv'
  BY <1>2, <1>4, IdleIs, Wording DEF StageInv
<1>7. WaveInv'
  BY <1>4, IdleIs DEF WaveInv
<1>8. \A old \in detached' : RecordInv(old, log') /\ old.status \notin Over
  BY <1>2, <1>3, <1>4 DEF RunInv, git
<1> QED BY <1>3, <1>4, <1>5, <1>6, <1>7, <1>8 DEF RunInv, git

(* The record is loaded; a record without nodes has no attempts, so its     *)
(* first plan is an initial one.                                            *)
LEMMA LoadInv ==
  ASSUME RunInv, Load
  PROVE  RunInv'
<1>1. run.at = "loading" /\ goal' = disk /\ disk' = disk /\ disk.status \notin Over
  BY DEF Load, Save, RunInv, StageInv
<1>2. \/ disk.nodes = <<>> /\ run' = [At("planning") EXCEPT !.why = "initial plan"]
      \/ run' = At("opening")
  BY DEF Load
<1>3. disk.nodes = <<>> => DOMAIN disk.nodes = {}
  OBVIOUS
<1>4. /\ run'.at \in {"planning", "opening"} /\ DOMAIN run' = RunFields
      /\ run'.at = "planning" => run'.why = "initial plan" /\ DOMAIN disk.nodes = {}
  BY <1>2, <1>3 DEF At, IdleRun, RunFields
<1>5. /\ run'.at \notin {"idle", "verifying", "reviewing"}
      /\ run'.at = "planning" => run'.why = "initial plan"
  BY <1>4
<1>6. StageInv'
  BY <1>1, <1>4, <1>5 DEF StageInv
<1> QED BY <1>1, <1>4, <1>6, Wording, OutsideInv DEF RunInv, PlaceInv, Load, git

(* A replan that is not refused leaves the counter within its bound.        *)
LEMMA ReplansLeft ==
  ASSUME NEW g \in GoalRecord, ~ (g.replans >= MaxReplans)
  PROVE  g.replans < MaxReplans
<1>1. g.replans \in 0 .. MaxReplans /\ MaxReplans \in Nat
  BY RecordIs, GoalAssumptions
<1> QED BY <1>1

(* A replan is asked for, or there have been enough.                        *)
LEMMA ReplanInv ==
  ASSUME RunInv, NEW g, RecordInv(g, log), g.status \notin Over, run.at # "idle",
         NEW reason, reason # "initial plan", NEW who,
         Replan(g, reason, who), UNCHANGED <<detached, git, review>>
  PROVE  RunInv'
<1>1. CASE g.replans >= MaxReplans
  BY <1>1, Words, Wording, FinishInv DEF Replan
<1>2. CASE ~ (g.replans >= MaxReplans)
  <2>1. g.replans < MaxReplans
    <3>1. g \in GoalRecord
      BY DEF RecordInv
    <3> QED BY <1>2, <3>1, ReplansLeft
  <2>2. goal' = g /\ disk' = disk /\ run' = [At("planning") EXCEPT !.why = reason, !.asked = who]
    BY <1>2 DEF Replan
  <2>3. run'.at = "planning" /\ run'.why = reason /\ DOMAIN run' = RunFields
    BY <2>2 DEF At, IdleRun, RunFields
  <2>4. disk.status \notin Over
    BY DEF RunInv, StageInv
  <2>5. StageInv'
    BY <2>1, <2>2, <2>3, <2>4 DEF StageInv
  <2> QED BY <2>2, <2>3, <2>5, Wording, OutsideInv DEF RunInv, PlaceInv, git
<1> QED BY <1>1, <1>2

(* The first plan is applied to a record without nodes.                     *)
LEMMA PlanInitiallyInv ==
  ASSUME RunInv, NEW p \in Plans, PlanInitially(p)
  PROVE  RunInv'
<1> DEFINE h == Applied(goal, p)
<1>1. /\ run.at = "planning" /\ run.why = "initial plan" /\ goal' = h /\ disk' = h
      /\ run' = At("opening") /\ UNCHANGED <<detached, git, review>>
  BY DEF PlanInitially, Save
<1>2. DOMAIN goal.nodes = {} /\ goal.status \notin Over /\ RecordInv(goal, log)
  BY <1>1 DEF RunInv, StageInv
<1>3. RecordInv(h, log) /\ h.status = goal.status
  BY <1>2, FirstPlanInv
<1> HIDE DEF h
<1>4. run'.at = "opening" /\ DOMAIN run' = RunFields
  BY <1>1, AtIs
<1>5. StageInv'
  BY <1>1, <1>2, <1>3, <1>4 DEF StageInv
<1> QED BY <1>1, <1>3, <1>4, <1>5, Wording, OutsideInv DEF RunInv, PlaceInv, git

(* The queries a plan answers are closed.                                   *)
LEMMA ReplannedAlike ==
  ASSUME NEW g \in GoalRecord, NEW asked
  PROVE  LET h == [g EXCEPT !.queries = [q \in DOMAIN @ |->
                     IF q \in asked THEN [@[q] EXCEPT !.status = "replanned"] ELSE @[q]]]
         IN  Alike(g, h) /\ h.status = g.status
<1> DEFINE t == [q \in DOMAIN g.queries |->
                   IF q \in asked THEN [g.queries[q] EXCEPT !.status = "replanned"]
                   ELSE g.queries[q]]
<1>1. \A q \in DOMAIN g.queries : g.queries[q] \in QueryRecord
  BY RecordIs
<1>2. \A r \in QueryRecord : [r EXCEPT !.status = "replanned"] \in QueryRecord
  BY Words DEF QueryRecord
<1>3. \A q \in DOMAIN g.queries : t[q] \in QueryRecord
  BY <1>1, <1>2
<1>4. t \in [1 .. Len(g.queries) -> QueryRecord] /\ Len(g.queries) \in Nat
  <2>1. t \in [DOMAIN g.queries -> QueryRecord]
    BY <1>3
  <2> HIDE DEF t
  <2> QED BY <2>1, RecordIs
<1> HIDE DEF t
<1>5. t \in Seq(QueryRecord) /\ Len(t) = Len(g.queries)
  BY <1>4, SeqDef
<1>6. g.queries = <<>> => t = <<>>
  <2>1. g.queries = <<>> => Len(t) = 0
    BY <1>5
  <2> QED BY <2>1, <1>5, EmptySeq
<1>7. LET h == [g EXCEPT !.queries = t]
      IN  Alike(g, h) /\ h.status = g.status
  BY <1>5, <1>6, QueriesAlike
<1> QED BY <1>7 DEF t

(* A replacement plan keeps the completed nodes it repeats.                 *)
LEMMA PlanAgainInv ==
  ASSUME RunInv, NEW p \in Plans, PlanAgain(p)
  PROVE  RunInv'
<1> DEFINE g == [Applied(goal, p) EXCEPT !.replans = @ + 1]
           h == [g EXCEPT !.queries = [q \in DOMAIN @ |->
                   IF q \in run.asked THEN [@[q] EXCEPT !.status = "replanned"] ELSE @[q]]]
<1>1. /\ run.at = "planning" /\ run.why # "initial plan" /\ goal' = h /\ disk' = h
      /\ run' = At("looping") /\ UNCHANGED <<detached, git, review>>
  BY DEF PlanAgain, Save
<1>2. goal.replans < MaxReplans /\ goal.status \notin Over /\ RecordInv(goal, log)
  BY <1>1 DEF RunInv, StageInv
<1>3. RecordInv(g, log) /\ g.status = goal.status
  BY <1>2, NextPlanInv
<1> HIDE DEF g
<1>4. Alike(g, h) /\ h.status = g.status
  BY <1>3, ReplannedAlike DEF RecordInv
<1> HIDE DEF h
<1>5. RecordInv(h, log)
  BY <1>3, <1>4, AlikeRecordInv
<1>6. run'.at = "looping" /\ DOMAIN run' = RunFields
  BY <1>1, AtIs
<1>7. StageInv'
  BY <1>1, <1>2, <1>3, <1>4, <1>6 DEF StageInv
<1> QED BY <1>1, <1>5, <1>6, <1>7, Wording, OutsideInv DEF RunInv, PlaceInv, git

(* A rejected plan ends the run.                                            *)
LEMMA PlanFailsInv ==
  ASSUME RunInv, PlanFails
  PROVE  RunInv'
<1>1. PICK s \in {"blocked", "budget_exhausted"} : Finish(goal, s)
  BY DEF PlanFails
<1>2. s \in GoalStatus /\ s \notin Over
  BY Words, Wording
<1> QED BY <1>1, <1>2, FinishInv DEF PlanFails, RunInv

(* The integration branch is opened.                                        *)
LEMMA OpenInv ==
  ASSUME RunInv, Open
  PROVE  RunInv'
<1> DEFINE h == [goal EXCEPT !.opened = TRUE, !.status = "running"]
<1>1. /\ goal' = h /\ disk' = h /\ run' = At("looping") /\ branch' = TRUE
      /\ UNCHANGED <<detached, log, trees, review>>
  BY DEF Open, Save
<1>2. goal \in GoalRecord /\ RecordInv(goal, log)
  BY DEF RunInv, RecordInv
<1>3. Alike(goal, h) /\ h.status = "running"
  BY <1>2, OuterAlike
<1> HIDE DEF h
<1>4. RecordInv(h, log)
  BY <1>2, <1>3, AlikeRecordInv
<1>5. run'.at = "looping" /\ DOMAIN run' = RunFields
  BY <1>1, AtIs
<1>6. StageInv'
  BY <1>1, <1>3, <1>5, Wording DEF StageInv
<1> QED BY <1>1, <1>4, <1>5, <1>6, Wording, OutsideInv

(* The integration worktree is in the way.                                  *)
LEMMA OpenFailsInv ==
  ASSUME RunInv, OpenFails
  PROVE  RunInv'
BY Words, Wording, FinishInv DEF OpenFails, RunInv

-----------------------------------------------------------------------------
(* A table of the Workers, all of them queued.                              *)
LEMMA QueuedTable ==
  ASSUME NEW S
  PROVE  LET t == [n \in S |-> [at |-> "queued"]]
         IN  DOMAIN t = S /\ \A n \in S : t[n].at = "queued"
OBVIOUS

(* A ready node can be queued: it has attempts left and its prerequisites   *)
(* are completed.                                                           *)
LEMMA ReadyIsQueued ==
  ASSUME NEW g \in GoalRecord, NEW n \in Ready(g)
  PROVE  n \in DOMAIN Marked(g).nodes /\ QueuedInv(n, Marked(g))
<1> DEFINE h == Marked(g)
<1>1. /\ n \in DOMAIN g.nodes /\ n \notin Spent(g)
      /\ g.nodes[n].status \in {"pending", "failed"}
      /\ g.nodes[n].spec.deps \subseteq Completed(g)
  BY DEF Ready
<1>2. g.nodes[n].used < MaxAttempts
  <2> DEFINE u == g.nodes[n].used
  <2>1. ~ (u >= MaxAttempts)
    BY <1>1 DEF Spent
  <2>2. u \in 0 .. MaxAttempts /\ MaxAttempts \in Nat
    BY <1>1, RecordIs, GoalAssumptions
  <2> HIDE DEF u
  <2>3. u < MaxAttempts
    BY <2>1, <2>2
  <2> QED BY <2>3 DEF u
<1>3. h.nodes = [m \in DOMAIN g.nodes |->
                   IF m \in Spent(g) THEN [g.nodes[m] EXCEPT !.status = "failed"]
                   ELSE g.nodes[m]]
  BY MarkedAlike
<1> HIDE DEF h
<1>4. h.nodes[n] = g.nodes[n] /\ n \in DOMAIN h.nodes
  BY <1>1, <1>3
<1>5. \A m \in Completed(g) : m \in Completed(h)
  <2> TAKE m \in Completed(g)
  <2>1. m \in DOMAIN g.nodes /\ g.nodes[m].status = "completed" /\ m \notin Spent(g)
    BY DEF Completed, Spent
  <2>2. h.nodes[m] = g.nodes[m] /\ m \in DOMAIN h.nodes
    BY <1>3, <2>1
  <2> QED BY <2>1, <2>2 DEF Completed
<1>6. QueuedInv(n, h)
  BY <1>1, <1>2, <1>4, <1>5 DEF QueuedInv
<1> QED BY <1>4, <1>6 DEF h

(* The ready nodes are finitely many, and an order of them is a sequence.   *)
LEMMA OrderIs ==
  ASSUME NEW g \in GoalRecord, NEW w \in Orders(Ready(g))
  PROVE  IsFiniteSet(Ready(g)) /\ w \in Seq(Ready(g))
<1>1. Ready(g) \subseteq DOMAIN g.nodes
  BY DEF Ready
<1>2. IsFiniteSet(Ready(g))
  BY <1>1, RecordIs, FS_Subset
<1>3. Cardinality(Ready(g)) \in Nat
  BY <1>2, FS_CardinalityType
<1>4. w \in [1 .. Cardinality(Ready(g)) -> Ready(g)]
  BY DEF Orders
<1> QED BY <1>2, <1>3, <1>4, SeqDef

(* A wave begins: nobody is at work, and everybody in it may be.            *)
LEMMA WaveInvBegins ==
  ASSUME RunInv, run.at = "looping", goal' = Marked(goal), NEW w \in Orders(Ready(goal)),
         run' = [At("wave") EXCEPT !.wave = w,
                   !.worker = [n \in Ready(goal) |-> [at |-> "queued"]]]
  PROVE  run'.at = "wave" /\ DOMAIN run' = RunFields /\ WaveInv'
<1> DEFINE S == Ready(goal)
           t == [n \in S |-> [at |-> "queued"]]
<1>1. goal \in GoalRecord
  BY DEF RunInv, RecordInv
<1>2. IsFiniteSet(S) /\ w \in Seq(S)
  BY <1>1, OrderIs
<1>3. /\ run'.at = "wave" /\ DOMAIN run' = RunFields /\ run'.wave = w
      /\ run'.worker = t
  BY DEF At, IdleRun, RunFields
<1>4. \A n \in S : n \in DOMAIN goal'.nodes /\ QueuedInv(n, goal')
  BY <1>1, ReadyIsQueued
<1> HIDE DEF S
<1>5. DOMAIN t = S /\ \A n \in S : t[n].at = "queued"
  BY QueuedTable
<1> HIDE DEF t
<1>6. \A n \in S : WorkerInv(n, t[n], goal', log', trees', "wave")
  BY <1>4, <1>5 DEF WorkerInv
<1>7. Busy' = {}
  BY <1>3, <1>5 DEF Busy, Worker
<1>8. Cardinality(Busy') <= Concurrency
  <2>1. Cardinality({}) = 0 /\ Concurrency \in Nat
    BY FS_EmptySet, GoalAssumptions
  <2>2. Cardinality(Busy') = 0
    BY <1>7, <2>1
  <2> QED BY <2>1, <2>2
<1>9. WaveInv'
  BY <1>2, <1>3, <1>5, <1>6, <1>8 DEF WaveInv
<1> QED BY <1>3, <1>9

(* The top of the loop verifies, begins a wave or replans.                  *)
LEMMA IterateInv ==
  ASSUME RunInv, Iterate
  PROVE  RunInv'
<1>1. /\ run.at = "looping" /\ UNCHANGED <<detached, git, review>>
      /\ goal.status \notin Over /\ disk.status \notin Over
      /\ RecordInv(goal, log) /\ RecordInv(disk, log) /\ goal \in GoalRecord
  BY DEF Iterate, RunInv, StageInv, RecordInv
<1>2. CASE AllCompleted(goal) /\ run' = At("verifying") /\ UNCHANGED <<goal, disk>>
  <2>1. run'.at = "verifying" /\ DOMAIN run' = RunFields
    BY <1>2, AtIs
  <2>2. AllCompleted(goal)'
    BY <1>2 DEF AllCompleted, Completed
  <2>3. StageInv'
    BY <1>1, <1>2, <2>1, <2>2 DEF StageInv
  <2> QED BY <1>1, <1>2, <2>1, <2>3, Wording, OutsideInv DEF RunInv, PlaceInv, git
<1> DEFINE h == Marked(goal)
<1>3. Alike(goal, h) /\ h.status = goal.status
  BY <1>1, MarkedAlike
<1>4. RecordInv(h, log)
  <2> HIDE DEF h
  <2> QED BY <1>1, <1>3, AlikeRecordInv
<1>5. ASSUME goal' = h, UNCHANGED disk, NEW w \in Orders(Ready(goal)),
             run' = [At("wave") EXCEPT !.wave = w,
                       !.worker = [n \in Ready(goal) |-> [at |-> "queued"]]]
      PROVE  RunInv'
  <2>1. run'.at = "wave" /\ DOMAIN run' = RunFields /\ WaveInv'
    BY <1>1, <1>5, WaveInvBegins
  <2> HIDE DEF h
  <2>2. StageInv'
    BY <1>1, <1>3, <1>5, <2>1 DEF StageInv
  <2>3. PlaceInv'
    BY <1>1, <2>1, Wording DEF RunInv, PlaceInv, git
  <2> QED BY <1>1, <1>4, <1>5, <2>1, <2>2, <2>3 DEF RunInv, git
<1>6. ASSUME Replan(h, "DAG has no runnable node", {}) PROVE RunInv'
  <2> HIDE DEF h
  <2> QED BY <1>1, <1>3, <1>4, <1>6, ReplanInv
<1> QED BY <1>1, <1>2, <1>5, <1>6 DEF Iterate

(* The results are all read.                                                *)
LEMMA SettleInv ==
  ASSUME RunInv, Settle
  PROVE  RunInv'
<1>1. /\ run.at = "collecting" /\ UNCHANGED <<detached, git, review>>
      /\ goal.status \notin Over /\ disk.status \notin Over
      /\ RecordInv(goal, log) /\ RecordInv(disk, log)
  BY DEF Settle, RunInv, StageInv
<1>2. CASE Finish(goal, "budget_exhausted")
  BY <1>1, <1>2, Words, Wording, FinishInv
<1>3. CASE Replan(goal, "Worker query changes the DAG", run.asked)
  BY <1>1, <1>3, ReplanInv
<1>4. CASE Replan(goal, "Worker exhausted its attempts", {})
  BY <1>1, <1>4, ReplanInv
<1>5. CASE run' = At("looping") /\ UNCHANGED <<goal, disk>>
  <2>1. run'.at = "looping" /\ DOMAIN run' = RunFields
    BY <1>5, AtIs
  <2>2. StageInv'
    BY <1>1, <1>5, <2>1 DEF StageInv
  <2> QED BY <1>1, <1>5, <2>1, <2>2, Wording, OutsideInv DEF RunInv, PlaceInv, git
<1> QED BY <1>2, <1>3, <1>4, <1>5 DEF Settle

(* The verifiers pass the head.                                             *)
LEMMA VerifiersPassInv ==
  ASSUME RunInv, VerifiersPass
  PROVE  RunInv'
<1>1. /\ run.at = "verifying" /\ goal' = goal /\ disk' = goal /\ run' = At("reviewing")
      /\ review' = [review EXCEPT !.verified = Len(log)] /\ UNCHANGED <<detached, git>>
  BY DEF VerifiersPass, Save, Head0
<1>2. AllCompleted(goal) /\ goal.status \notin Over /\ RecordInv(goal, log)
  BY <1>1 DEF RunInv, StageInv
<1>3. run'.at = "reviewing" /\ DOMAIN run' = RunFields
  BY <1>1, AtIs
<1>4. /\ DOMAIN review = {"verified", "approved"} /\ review.approved \in -1 .. Len(log)
      /\ log \in Seq(LogRecord)
  BY DEF RunInv, PlaceInv
<1>5. /\ review'.verified = Len(log) /\ review'.approved = review.approved
      /\ DOMAIN review' = {"verified", "approved"}
  BY <1>1, <1>4
<1>6. Len(log) \in -1 .. Len(log)
  <2>1. Len(log) \in Nat
    BY <1>4
  <2> QED BY <2>1
<1>7. PlaceInv'
  BY <1>1, <1>3, <1>4, <1>5, <1>6, Wording DEF RunInv, PlaceInv, git
<1>8. AllCompleted(goal)'
  BY <1>1, <1>2 DEF AllCompleted, Completed
<1>9. StageInv'
  BY <1>1, <1>2, <1>3, <1>5, <1>8 DEF StageInv, git
<1>10. WaveInv'
  BY <1>3 DEF WaveInv
<1> QED BY <1>1, <1>2, <1>7, <1>9, <1>10 DEF RunInv, git

(* The task plans again because of what the verifiers or the Critic found.  *)
LEMMA RejectedInv ==
  ASSUME RunInv, run.at # "idle", NEW g, RecordInv(g, log), g.status \notin Over,
         ~ (g.replans >= MaxReplans), NEW reason, reason # "initial plan",
         goal' = g, disk' = g, run' = [At("planning") EXCEPT !.why = reason],
         UNCHANGED <<detached, git, review>>
  PROVE  RunInv'
<1>1. g.replans < MaxReplans
  BY ReplansLeft DEF RecordInv
<1>2. run'.at = "planning" /\ run'.why = reason /\ DOMAIN run' = RunFields
  BY DEF At, IdleRun, RunFields
<1>3. StageInv'
  BY <1>1, <1>2 DEF StageInv
<1> QED BY <1>2, <1>3, Wording, OutsideInv DEF RunInv, PlaceInv, git

(* The verifiers fail the head, or do not run.                              *)
LEMMA VerifiersFailInv ==
  ASSUME RunInv, VerifiersFail
  PROVE  RunInv'
<1>1. /\ run.at = "verifying" /\ UNCHANGED <<detached, git, review>>
      /\ goal.status \notin Over /\ RecordInv(goal, log)
  BY DEF VerifiersFail, RunInv, StageInv
<1>2. CASE goal.replans >= MaxReplans /\ Finish(goal, "blocked")
  BY <1>1, <1>2, Words, Wording, FinishInv
<1>3. CASE /\ ~ (goal.replans >= MaxReplans) /\ Save(goal)
           /\ run' = [At("planning") EXCEPT !.why = "post-merge verifier failed"]
  <2>1. goal' = goal /\ disk' = goal /\ run.at # "idle"
    BY <1>1, <1>3 DEF Save
  <2>2. "post-merge verifier failed" # "initial plan"
    OBVIOUS
  <2> QED BY <1>1, <1>3, <2>1, <2>2, RejectedInv
<1>4. ASSUME NEW s \in {"blocked", "budget_exhausted"}, Finish(goal, s) PROVE RunInv'
  BY <1>1, <1>4, Words, Wording, FinishInv
<1> QED BY <1>2, <1>3, <1>4 DEF VerifiersFail

(* The Critic passes the head the verifiers passed: the Goal is completed.  *)
LEMMA CriticPassesInv ==
  ASSUME RunInv, CriticPasses
  PROVE  RunInv'
<1> DEFINE g == [goal EXCEPT !.critics = @ + 1]
           h == [g EXCEPT !.status = "completed"]
<1>1. /\ run.at = "reviewing" /\ goal' = h /\ disk' = h /\ run' = IdleRun
      /\ review' = [review EXCEPT !.approved = Len(log)]
      /\ UNCHANGED <<detached, log, branch>>
  BY DEF CriticPasses, Finish, Save, Head0
<1>2. trees' \subseteq trees
  BY DEF CriticPasses
<1>3. AllCompleted(goal) /\ RecordInv(goal, log) /\ review.verified = Len(log)
  BY <1>1 DEF RunInv, StageInv
<1>4. Alike(goal, g) /\ g.nodes = goal.nodes /\ g \in GoalRecord
  BY <1>3, OuterAlike, AlikeIsRecord DEF RecordInv
<1>5. Alike(g, h) /\ h.nodes = g.nodes /\ h.status = "completed"
  BY <1>4, Words, OuterAlike
<1> HIDE DEF h
<1> HIDE DEF g
<1>6. RecordInv(h, log)
  BY <1>3, <1>4, <1>5, AlikeRecordInv
<1>7. AllCompleted(h)
  BY <1>3, <1>4, <1>5 DEF AllCompleted, Completed
<1>8. /\ DOMAIN review = {"verified", "approved"} /\ log \in Seq(LogRecord)
  BY DEF RunInv, PlaceInv
<1>9. /\ review'.approved = Len(log) /\ review'.verified = Len(log)
      /\ DOMAIN review' = {"verified", "approved"}
  BY <1>1, <1>3, <1>8
<1>10. Len(log) \in -1 .. Len(log)
  <2>1. Len(log) \in Nat
    BY <1>8
  <2> QED BY <2>1
<1>11. PlaceInv'
  BY <1>1, <1>2, <1>8, <1>9, <1>10, Wording, IdleIs DEF RunInv, PlaceInv
<1>12. AllCompleted(disk)'
  BY <1>1, <1>7 DEF AllCompleted, Completed
<1>13. StageInv'
  BY <1>1, <1>5, <1>9, <1>12, IdleIs DEF StageInv
<1>14. WaveInv'
  BY <1>1, IdleIs DEF WaveInv
<1> QED BY <1>1, <1>6, <1>11, <1>13, <1>14 DEF RunInv

(* The Critic has findings.                                                 *)
LEMMA CriticRevisesInv ==
  ASSUME RunInv, CriticRevises
  PROVE  RunInv'
<1> DEFINE g == [goal EXCEPT !.critics = @ + 1]
<1>1. /\ run.at = "reviewing" /\ UNCHANGED <<detached, git, review>>
      /\ goal.status \notin Over /\ RecordInv(goal, log)
  BY DEF CriticRevises, RunInv, StageInv
<1>2. Alike(goal, g) /\ g.status = goal.status
  BY <1>1, OuterAlike DEF RecordInv
<1>3. \/ Finish(g, "blocked")
      \/ /\ ~ (g.replans >= MaxReplans) /\ Save(g)
         /\ run' = [At("planning") EXCEPT !.why = "Critic requested changes"]
  BY DEF CriticRevises
<1> HIDE DEF g
<1>4. RecordInv(g, log)
  BY <1>1, <1>2, AlikeRecordInv
<1>5. CASE Finish(g, "blocked")
  BY <1>1, <1>4, <1>5, Words, Wording, FinishInv
<1>6. CASE /\ ~ (g.replans >= MaxReplans) /\ Save(g)
           /\ run' = [At("planning") EXCEPT !.why = "Critic requested changes"]
  <2>1. goal' = g /\ disk' = g /\ run.at # "idle" /\ g.status \notin Over
    BY <1>1, <1>2, <1>6 DEF Save
  <2>2. "Critic requested changes" # "initial plan"
    OBVIOUS
  <2> QED BY <1>1, <1>4, <1>6, <2>1, <2>2, RejectedInv
<1> QED BY <1>3, <1>5, <1>6

(* The Critic gives no verdict.                                             *)
LEMMA CriticFailsInv ==
  ASSUME RunInv, CriticFails
  PROVE  RunInv'
<1>1. PICK s \in {"blocked", "budget_exhausted"} : Finish(goal, s)
  BY DEF CriticFails
<1> QED BY <1>1, Words, Wording, FinishInv DEF CriticFails, RunInv

-----------------------------------------------------------------------------
(* A run is interrupted at an await; its child turns may keep its record.   *)
LEMMA InterruptInv ==
  ASSUME RunInv, NEW s \in {"cancelled", "budget_exhausted"}, Interrupt(s)
  PROVE  RunInv'
<1> DEFINE hit == IF run.at = "wave" THEN {Worker(n).att : n \in Busy} ELSE {}
           h == [goal EXCEPT !.attempts = [a \in DOMAIN goal.attempts |->
                   IF a \in hit THEN [goal.attempts[a] EXCEPT !.status = "cancelled"]
                   ELSE goal.attempts[a]]]
<1>1. RecordInv(goal, log) /\ goal \in GoalRecord /\ "cancelled" \in AttemptStatus
  BY Words DEF RunInv, RecordInv
<1>2. Interrupted = h
  BY DEF Interrupted
<1>3. Alike(goal, h)
  <2> HIDE DEF hit
  <2> QED BY <1>1, SomeAttemptsAlike, ZenonT(40)
<1> HIDE DEF h
<1>4. RecordInv(h, log)
  BY <1>1, <1>3, AlikeRecordInv
<1>5. /\ Finish(h, s) /\ UNCHANGED <<git, review>>
      /\ UNCHANGED detached \/ detached' \subseteq detached \cup {goal'}
  BY <1>2 DEF Interrupt
<1>6. s \in GoalStatus /\ s \notin Over
  BY Words, Wording
<1> QED BY <1>4, <1>5, <1>6, FinishInv

(* A task is cancelled before it starts.                                    *)
LEMMA CancelUnstartedInv ==
  ASSUME RunInv, CancelUnstarted
  PROVE  RunInv'
BY Words, Wording, FinishInv DEF CancelUnstarted, RunInv

(* Only the file and the detached turns change.                             *)
LEMMA FileInv ==
  ASSUME RunInv, run.at # "idle", UNCHANGED <<goal, run, review, git>>,
         RecordInv(disk', log), disk'.status \notin Over,
         detached' \subseteq detached
  PROVE  RunInv'
<1>1. PlaceInv'
  BY DEF RunInv, PlaceInv, git
<1>2. WaveInv'
  BY DEF RunInv, WaveInv, git, Busy, Worker
<1>3. AllCompleted(goal)' = AllCompleted(goal)
  BY DEF AllCompleted, Completed
<1>4. StageInv /\ goal.status \notin Over
  BY DEF RunInv, StageInv
<1>5. StageInv'
  BY <1>3, <1>4 DEF StageInv, git
<1>6. RecordInv(goal', log') /\ \A old \in detached' : RecordInv(old, log') /\ old.status \notin Over
  BY DEF RunInv, git
<1> QED BY <1>1, <1>2, <1>5, <1>6 DEF RunInv, git

(* A record that no task is working on is written.                          *)
LEMMA IdleInv ==
  ASSUME RunInv, run.at = "idle", UNCHANGED <<run, review, git, detached>>,
         RecordInv(disk', log), disk'.status \notin Over, goal' = disk'
  PROVE  RunInv'
<1>1. PlaceInv'
  BY DEF RunInv, PlaceInv, git
<1>2. WaveInv'
  BY DEF WaveInv
<1>3. StageInv'
  BY Wording DEF StageInv
<1>4. RecordInv(goal', log') /\ RecordInv(disk', log')
  BY DEF git
<1>5. \A old \in detached' : RecordInv(old, log') /\ old.status \notin Over
  BY DEF RunInv, git
<1> QED BY <1>1, <1>2, <1>3, <1>4, <1>5 DEF RunInv

(* A detached turn writes back a record that was never a success.           *)
LEMMA DetachedSaveInv ==
  ASSUME RunInv, DetachedSave
  PROVE  RunInv'
<1>1. PICK old \in detached : disk' = old /\ goal' = IF run.at = "idle" THEN old ELSE goal
  BY DEF DetachedSave
<1>2. RecordInv(old, log) /\ old.status \notin Over /\ UNCHANGED <<detached, git, run, review>>
  BY DEF RunInv, DetachedSave
<1>3. CASE run.at = "idle"
  BY <1>1, <1>2, <1>3, IdleInv
<1>4. CASE run.at # "idle"
  BY <1>1, <1>2, <1>4, FileInv
<1> QED BY <1>3, <1>4

(* A detached turn ends.                                                    *)
LEMMA DetachedEndsInv ==
  ASSUME RunInv, DetachedEnds
  PROVE  RunInv'
<1>1. detached' \subseteq detached /\ UNCHANGED <<goal, disk, git, run, review>>
  BY DEF DetachedEnds
<1>2. PlaceInv'
  BY <1>1 DEF RunInv, PlaceInv, git
<1>3. WaveInv'
  BY <1>1 DEF RunInv, WaveInv, git, Busy, Worker
<1>4. /\ AllCompleted(goal)' = AllCompleted(goal) /\ AllCompleted(disk)' = AllCompleted(disk)
      /\ WaitingQueries(disk)' = WaitingQueries(disk)
  BY <1>1 DEF AllCompleted, Completed, WaitingQueries
<1>5. StageInv
  BY DEF RunInv
<1>6. StageInv'
  BY <1>1, <1>4, <1>5 DEF StageInv, git
<1>7. /\ RecordInv(goal', log') /\ RecordInv(disk', log')
      /\ \A old \in detached' : RecordInv(old, log') /\ old.status \notin Over
  BY <1>1 DEF RunInv, git
<1> QED BY <1>2, <1>3, <1>6, <1>7 DEF RunInv

(* A model call saves what the record holds.                                *)
LEMMA BudgetSaveInv ==
  ASSUME RunInv, BudgetSave
  PROVE  RunInv'
<1>1. /\ run.at # "idle" /\ goal' = goal /\ disk' = goal
      /\ UNCHANGED <<detached, git, run, review>>
  BY DEF BudgetSave, Save, Awaiting
<1>2. RecordInv(goal, log) /\ goal.status \notin Over
  BY <1>1 DEF RunInv, StageInv
<1> QED BY <1>1, <1>2, FileInv

(* The process dies; the log may have grown by the merge that was running.  *)
LEMMA DiesInv ==
  ASSUME RunInv, run.at # "idle", Dies,
         log' \in Seq(LogRecord), Grown(log, log'),
         \A i \in 1 .. Len(log') : Based(log'[i].spec, log'[i].base, log'),
         trees' \subseteq Nodes \X Nat, branch' \in BOOLEAN
  PROVE  RunInv'
<1>1. run' = IdleRun /\ detached' = {} /\ goal' = disk /\ disk' = disk /\ review' = review
  BY DEF Dies
<1>2. /\ review.verified \in -1 .. Len(log) /\ review.approved \in -1 .. Len(log)
      /\ DOMAIN review = {"verified", "approved"}
  BY DEF RunInv, PlaceInv
<1>3. Len(log) \in Nat /\ Len(log') \in Nat /\ Len(log) <= Len(log')
  BY DEF Grown
<1>4. \A i \in -1 .. Len(log) : i \in -1 .. Len(log')
  BY <1>3
<1>5. PlaceInv'
  BY <1>1, <1>2, <1>4, IdleIs, Wording DEF PlaceInv
<1>6. RecordInv(disk, log) /\ disk.status \notin Over
  BY DEF RunInv, StageInv
<1>7. RecordInv(disk, log')
  BY <1>6, GrownRecordInv
<1>8. StageInv'
  BY <1>1, <1>6, IdleIs, Wording DEF StageInv
<1>9. WaveInv'
  BY <1>1, IdleIs DEF WaveInv
<1> QED BY <1>1, <1>5, <1>7, <1>8, <1>9 DEF RunInv

(* What is known of a log that stays as it is.                              *)
LEMMA SameLog ==
  ASSUME RunInv
  PROVE  /\ log \in Seq(LogRecord) /\ Grown(log, log) /\ Len(log) \in Nat
         /\ \A i \in 1 .. Len(log) : Based(log[i].spec, log[i].base, log)
         /\ trees \subseteq Nodes \X Nat /\ branch \in BOOLEAN
BY DEF RunInv, PlaceInv, Grown

(* The process dies: goal.json and the repository remain.                   *)
LEMMA CrashInv ==
  ASSUME RunInv, Crash
  PROVE  RunInv'
<1>1. run.at # "idle" /\ Dies /\ log' = log /\ trees' = trees /\ branch' = branch
  BY DEF Crash, git
<1> QED BY <1>1, SameLog, DiesInv

(* It dies with the integration branch created and not recorded.            *)
LEMMA CrashAfterBranchInv ==
  ASSUME RunInv, CrashAfterBranch
  PROVE  RunInv'
<1>1. run.at # "idle" /\ Dies /\ log' = log /\ trees' = trees /\ branch' = TRUE
  BY DEF CrashAfterBranch
<1> QED BY <1>1, SameLog, DiesInv

(* The worktree of an admitted Worker gets a name of its own.               *)
LEMMA WorktreeIs ==
  ASSUME RunInv, NEW n \in Nodes
  PROVE  trees \cup {<<n, NextNumber(goal, n)>>} \subseteq Nodes \X Nat
<1>1. goal \in GoalRecord
  BY DEF RunInv, RecordInv
<1>2. NextNumber(goal, n) \in Nat
  BY <1>1, AttemptsFinite DEF NextNumber
<1> QED BY <1>2, SameLog

(* It dies with a worktree created and not recorded.                        *)
LEMMA CrashAfterWorktreeInv ==
  ASSUME RunInv, NEW n \in Nodes, CrashAfterWorktree(n)
  PROVE  RunInv'
<1>1. /\ run.at # "idle" /\ Dies /\ log' = log /\ branch' = branch
      /\ trees' = trees \cup {<<n, NextNumber(goal, n)>>}
  BY DEF CrashAfterWorktree, Admitted
<1> QED BY <1>1, SameLog, WorktreeIs, DiesInv

(* What a merge adds to the log.                                            *)
LEMMA MergedIs ==
  ASSUME RunInv, NEW n, Collecting(n), Result(n, "completed"), log' = Merged(n)
  PROVE  /\ n \in DOMAIN goal.nodes /\ log' \in Seq(LogRecord) /\ Grown(log, log')
         /\ \A i \in 1 .. Len(log') : Based(log'[i].spec, log'[i].base, log')
         /\ IsMerged(n, goal.nodes[n].spec, log')
         /\ log' = Append(log, [node |-> n, att |-> Worker(n).att,
                                spec |-> goal.nodes[n].spec,
                                base |-> goal.attempts[Worker(n).att].base])
         /\ goal.nodes[n].spec \in Contracts /\ n \in Nodes
<1> DEFINE a == Worker(n).att
           r == goal.attempts[a]
           e == [node |-> n, att |-> a, spec |-> r.spec, base |-> r.base]
<1>1. n \in DOMAIN run.worker
  <2>1. run.at = "collecting" /\ run.todo # <<>> /\ Head(run.todo) = n
    BY DEF Collecting
  <2>2. run.todo \in Seq(DOMAIN run.worker)
    BY <2>1 DEF RunInv, WaveInv
  <2> QED BY <2>1, <2>2
<1>2. WorkerInv(n, Worker(n), goal, log, trees, "collecting")
  BY <1>1 DEF RunInv, WaveInv, Collecting, Worker
<1>3. n \in DOMAIN goal.nodes /\ HasAttempt(n, a, goal)
  BY <1>2 DEF WorkerInv, Result
<1>4. goal \in GoalRecord /\ RecordInv(goal, log)
  BY DEF RunInv, RecordInv
<1>5. /\ r \in AttemptRecord /\ r.spec = goal.nodes[n].spec /\ a \in 1 .. Len(goal.attempts)
      /\ Based(r.spec, r.base, log)
  BY <1>3, <1>4, RecordIs DEF HasAttempt, RecordInv
<1>6. /\ n \in Nodes /\ a \in Nat /\ r.spec \in Contracts /\ r.base \in Nat
  <2>1. Len(goal.attempts) \in Nat /\ DOMAIN goal.nodes \in SUBSET Nodes
    BY <1>4, RecordIs
  <2> QED BY <1>3, <1>5, <2>1 DEF AttemptRecord
<1>7. log' = Append(log, e)
  BY DEF Merged
<1> HIDE DEF a, r
<1>8. e \in LogRecord /\ e.node = n /\ e.spec = r.spec /\ e.base = r.base
  BY <1>6 DEF LogRecord
<1>9. e = [node |-> n, att |-> a, spec |-> goal.nodes[n].spec, base |-> r.base]
  BY <1>5
<1> HIDE DEF e
<1>10. /\ log' \in Seq(LogRecord) /\ Grown(log, log')
       /\ \A i \in 1 .. Len(log') : Based(log'[i].spec, log'[i].base, log')
       /\ IsMerged(n, r.spec, log')
  BY <1>5, <1>7, <1>8, SameLog, LogGrows
<1> QED BY <1>3, <1>5, <1>6, <1>7, <1>9, <1>10 DEF a, r

(* It dies with a merge done and not recorded.                              *)
LEMMA CrashAfterMergeInv ==
  ASSUME RunInv, NEW n \in Nodes, CrashAfterMerge(n)
  PROVE  RunInv'
<1>1. /\ run.at # "idle" /\ Dies /\ trees' = trees /\ branch' = branch
      /\ Collecting(n) /\ Result(n, "completed") /\ log' = Merged(n)
  BY DEF CrashAfterMerge, Collecting
<1> QED BY <1>1, SameLog, MergedIs, DiesInv

-----------------------------------------------------------------------------
(* A task is scheduled on a record that was saved as "running".             *)
LEMMA ScheduledInv ==
  ASSUME RunInv, NEW h, RecordInv(h, log), h.status = "running",
         goal' = h, disk' = h, run' = At("loading"), UNCHANGED <<detached, git, review>>
  PROVE  RunInv'
<1>1. run'.at = "loading" /\ DOMAIN run' = RunFields
  BY AtIs
<1>2. StageInv'
  BY <1>1, Wording DEF StageInv
<1> QED BY <1>1, <1>2, Wording, OutsideInv DEF RunInv, PlaceInv, git

(* /goal resume.                                                            *)
LEMMA ResumeInv ==
  ASSUME RunInv, Resume
  PROVE  RunInv'
<1> DEFINE g == Recovered(disk)
           h == Renewed(g)
<1>1. /\ goal' = h /\ disk' = h /\ run' = At("loading") /\ UNCHANGED <<detached, git, review>>
  BY DEF Resume, Save
<1>2. RecordInv(disk, log) /\ disk \in GoalRecord
  BY DEF RunInv, RecordInv
<1>3. Alike(disk, g) /\ g \in GoalRecord
  <2>1. Alike(disk, g)
    BY <1>2, RecoveredAlike
  <2> QED BY <2>1, AlikeIsRecord
<1> HIDE DEF g
<1>4. Alike(g, h) /\ h.status = "running"
  BY <1>3, OuterAlike DEF Renewed
<1> HIDE DEF h
<1>5. RecordInv(h, log)
  BY <1>2, <1>3, <1>4, AlikeRecordInv
<1> QED BY <1>1, <1>4, <1>5, ScheduledInv

(* /goal cancel of a Goal that does not run.                                *)
LEMMA CancelIdleInv ==
  ASSUME RunInv, CancelIdle
  PROVE  RunInv'
<1> DEFINE h == [disk EXCEPT !.status = "cancelled"]
<1>1. /\ run.at = "idle" /\ goal' = h /\ disk' = h /\ UNCHANGED <<detached, git, run, review>>
  BY DEF CancelIdle, Save
<1>2. RecordInv(disk, log) /\ disk \in GoalRecord /\ "cancelled" \in GoalStatus
  BY Words DEF RunInv, RecordInv
<1>3. Alike(disk, h) /\ h.status = "cancelled"
  BY <1>2, OuterAlike
<1> HIDE DEF h
<1>4. RecordInv(h, log) /\ h.status \notin Over
  BY <1>2, <1>3, Wording, AlikeRecordInv
<1> QED BY <1>1, <1>4, IdleInv

(* /goal answer, to an idle Goal or into the file of one that runs.         *)
LEMMA AnswerInv ==
  ASSUME RunInv, NEW q, Answer(q)
  PROVE  RunInv'
<1> DEFINE h == Answered(disk, q)
<1>1. \/ run.at = "idle" /\ goal' = h /\ disk' = h /\ run' = At("loading")
      \/ run.at # "idle" /\ disk' = h /\ UNCHANGED <<goal, run>>
  BY DEF Answer, Save, Awaiting
<1>2. UNCHANGED <<detached, git, review>>
  BY DEF Answer
<1>3. RecordInv(disk, log) /\ disk \in GoalRecord
  BY DEF RunInv, RecordInv
<1>4. Alike(disk, h) /\ h.status = "running"
  BY <1>3, AnsweredAlike
<1> HIDE DEF h
<1>5. RecordInv(h, log) /\ h.status \notin Over
  BY <1>3, <1>4, Wording, AlikeRecordInv
<1>6. CASE goal' = h /\ disk' = h /\ run' = At("loading")
  BY <1>2, <1>4, <1>5, <1>6, ScheduledInv
<1>7. CASE run.at # "idle" /\ disk' = h /\ UNCHANGED <<goal, run>>
  BY <1>2, <1>5, <1>7, FileInv
<1> QED BY <1>1, <1>6, <1>7

-----------------------------------------------------------------------------
(* What a step of one Worker leaves alone of another's node n.              *)
Untouched(n, g, h) ==
  /\ n \in DOMAIN h.nodes /\ h.nodes[n] = g.nodes[n]
  /\ \A m \in Completed(g) : m \in Completed(h)
  /\ \A a \in 1 .. Len(g.attempts) :
       g.attempts[a].node = n => a \in 1 .. Len(h.attempts) /\ h.attempts[a] = g.attempts[a]
  /\ \A q \in 1 .. Len(g.queries) :
       g.queries[q].node = n => q \in 1 .. Len(h.queries) /\ h.queries[q] = g.queries[q]

(* Two changes that leave a Worker alone do so together.                    *)
LEMMA UntouchedTrans ==
  ASSUME NEW n, NEW g, NEW h, NEW k, Untouched(n, g, h), Untouched(n, h, k)
  PROVE  Untouched(n, g, k)
BY DEF Untouched

(* What is known of a Worker stays known when what is its own is left       *)
(* alone.                                                                   *)
LEMMA UntouchedWorker ==
  ASSUME NEW n, NEW w, NEW g, NEW h, NEW l, NEW ts, NEW us, NEW at,
         WorkerInv(n, w, g, l, ts, at), Untouched(n, g, h), ts \subseteq us
  PROVE  WorkerInv(n, w, h, l, us, at)
<1>1. \A a : HasAttempt(n, a, g) => HasAttempt(n, a, h) /\ h.attempts[a] = g.attempts[a]
  BY DEF HasAttempt, Untouched
<1>2. \A a : AtWorkInv(n, a, g, l, ts) => AtWorkInv(n, a, h, l, us)
  BY <1>1 DEF AtWorkInv
<1>3. \A q, s : HasQuery(n, q, g, s) => HasQuery(n, q, h, s)
  BY DEF HasQuery, Untouched
<1>4. QueuedInv(n, g) => QueuedInv(n, h)
  BY DEF QueuedInv, Untouched
<1>5. n \in DOMAIN h.nodes
  BY DEF Untouched
<1> QED BY <1>1, <1>2, <1>3, <1>4, <1>5 DEF WorkerInv

(* A change to the status of an attempt of another node.                    *)
LEMMA AttemptUntouched ==
  ASSUME NEW g \in GoalRecord, NEW a \in 1 .. Len(g.attempts), NEW s \in AttemptStatus,
         NEW m \in DOMAIN g.nodes, g.attempts[a].node # m
  PROVE  Untouched(m, g, WithAttempt(g, a, s))
<1> DEFINE h == WithAttempt(g, a, s)
           t == [g.attempts EXCEPT ![a].status = s]
<1>1. h.queries = g.queries /\ h.nodes = g.nodes /\ h.attempts = t /\ Alike(g, h)
  BY WithAttemptAlike
<1>2. \A b \in 1 .. Len(g.attempts) : b # a => t[b] = g.attempts[b]
  BY RecordIs
<1> HIDE DEF h, t
<1>3. Len(h.attempts) = Len(g.attempts)
  BY <1>1 DEF Alike
<1>4. ASSUME NEW b \in 1 .. Len(g.attempts), g.attempts[b].node = m
      PROVE  b \in 1 .. Len(h.attempts) /\ h.attempts[b] = g.attempts[b]
  BY <1>1, <1>2, <1>3, <1>4
<1>5. Untouched(m, g, h)
  BY <1>1, <1>4 DEF Untouched, Completed
<1> QED BY <1>5 DEF h

(* A change to another Worker's query.                                      *)
LEMMA QueryUntouched ==
  ASSUME NEW g \in GoalRecord, NEW q \in 1 .. Len(g.queries), NEW s \in QueryStatus,
         NEW m \in DOMAIN g.nodes, g.queries[q].node # m
  PROVE  Untouched(m, g, WithQuery(g, q, s))
<1> DEFINE h == WithQuery(g, q, s)
           t == [g.queries EXCEPT ![q].status = s]
<1>1. h.attempts = g.attempts /\ h.nodes = g.nodes /\ h.queries = t /\ h \in GoalRecord
  BY WithQueryAlike, AlikeIsRecord
<1>2. \A b \in 1 .. Len(g.queries) : b # q => t[b] = g.queries[b]
  BY RecordIs
<1>3. Len(h.queries) = Len(g.queries)
  <2>1. DOMAIN t = DOMAIN g.queries
    OBVIOUS
  <2>2. DOMAIN t = 1 .. Len(h.queries) /\ Len(h.queries) \in Nat
    BY <1>1, RecordIs
  <2>3. DOMAIN g.queries = 1 .. Len(g.queries) /\ Len(g.queries) \in Nat
    BY RecordIs
  <2> QED BY <2>1, <2>2, <2>3
<1> HIDE DEF h, t
<1>4. ASSUME NEW b \in 1 .. Len(g.queries), g.queries[b].node = m
      PROVE  b \in 1 .. Len(h.queries) /\ h.queries[b] = g.queries[b]
  BY <1>1, <1>2, <1>3, <1>4
<1>5. Untouched(m, g, h)
  BY <1>1, <1>4 DEF Untouched, Completed
<1> QED BY <1>5 DEF h

(* A new query, added at the end.                                           *)
LEMMA AskedUntouched ==
  ASSUME NEW g \in GoalRecord, NEW n \in Nodes, NEW s \in QueryStatus, Impacts # {},
         NEW m \in DOMAIN g.nodes
  PROVE  Untouched(m, g, [g EXCEPT !.queries = Append(@, Query(n, s))])
<1> DEFINE h == [g EXCEPT !.queries = Append(@, Query(n, s))]
<1>1. /\ h.attempts = g.attempts /\ h.nodes = g.nodes
      /\ Len(h.queries) = Len(g.queries) + 1
      /\ \A q \in 1 .. Len(g.queries) : h.queries[q] = g.queries[q]
  BY AskedAlike
<1>2. Len(g.queries) \in Nat
  BY RecordIs
<1>3. \A q \in 1 .. Len(g.queries) : q \in 1 .. Len(g.queries) + 1
  BY <1>2
<1> HIDE DEF h
<1> QED BY <1>1, <1>3 DEF Untouched, Completed

(* The attempt and the query of a Worker, with another status.              *)
LEMMA OwnAttempt ==
  ASSUME NEW g \in GoalRecord, NEW n, NEW a, HasAttempt(n, a, g), NEW s \in AttemptStatus
  PROVE  HasAttempt(n, a, WithAttempt(g, a, s))
<1> DEFINE h == WithAttempt(g, a, s)
<1>1. h = [g EXCEPT !.attempts[a].status = s]
  BY DEF WithAttempt
<1>2. Alike(g, h)
  BY WithAttemptAlike
<1>3. h.nodes = g.nodes
  BY <1>1 DEF GoalRecord
<1> HIDE DEF h
<1>4. HasAttempt(n, a, h)
  BY <1>2, <1>3 DEF HasAttempt, Alike
<1> QED BY <1>4 DEF h

(* The Worker's own query is found with its new status.                     *)
LEMMA OwnQuery ==
  ASSUME NEW g \in GoalRecord, NEW n, NEW q, NEW old, HasQuery(n, q, g, old), NEW s \in QueryStatus
  PROVE  HasQuery(n, q, WithQuery(g, q, s), s)
<1> DEFINE h == WithQuery(g, q, s)
           t == [g.queries EXCEPT ![q].status = s]
           r == g.queries[q]
           p == [r EXCEPT !.status = s]
<1>1. h.queries = t /\ h \in GoalRecord
  BY WithQueryAlike, AlikeIsRecord
<1>2. /\ q \in DOMAIN g.queries /\ r \in QueryRecord /\ r.node = n
      /\ DOMAIN t = DOMAIN g.queries
  BY RecordIs DEF HasQuery
<1>3. t[q] = p
  BY <1>2
<1>4. p.node = r.node /\ p.status = s
  BY <1>2 DEF QueryRecord
<1>5. q \in 1 .. Len(h.queries)
  <2>1. DOMAIN t = 1 .. Len(h.queries)
    BY <1>1, RecordIs
  <2> QED BY <1>2, <2>1
<1> HIDE DEF h, t, p, r
<1>6. HasQuery(n, q, h, s)
  BY <1>1, <1>2, <1>3, <1>4, <1>5 DEF HasQuery
<1> QED BY <1>6 DEF h

-----------------------------------------------------------------------------
Working(w) == w.at \in {"asking", "resolving"}
BusyOf(t) == {n \in DOMAIN t : Working(t[n])}

(* One Worker starts only when fewer than Concurrency are busy.             *)
LEMMA BusyGrows ==
  ASSUME NEW t, IsFiniteSet(DOMAIN t), NEW n \in DOMAIN t, NEW w,
         Cardinality(BusyOf(t)) <= Concurrency,
         Working(w) => Working(t[n]) \/ Cardinality(BusyOf(t)) < Concurrency
  PROVE  Cardinality(BusyOf([t EXCEPT ![n] = w])) <= Concurrency
<1> DEFINE u == [t EXCEPT ![n] = w]
           B == BusyOf(t)
           C == BusyOf(u)
<1>1. DOMAIN u = DOMAIN t /\ \A m \in DOMAIN t : u[m] = IF m = n THEN w ELSE t[m]
  OBVIOUS
<1> HIDE DEF u
<1>2. B \subseteq DOMAIN t /\ C \subseteq DOMAIN t
  BY <1>1 DEF BusyOf
<1>3. /\ IsFiniteSet(B) /\ IsFiniteSet(C)
      /\ Cardinality(B) \in Nat /\ Cardinality(C) \in Nat /\ Concurrency \in Nat
  BY <1>2, FS_Subset, FS_CardinalityType, GoalAssumptions
<1>4. CASE Working(w) => Working(t[n])
  <2>1. C \subseteq B
    BY <1>1, <1>4 DEF BusyOf
  <2>2. Cardinality(C) <= Cardinality(B)
    BY <1>3, <2>1, FS_Subset
  <2> HIDE DEF B, C
  <2>3. Cardinality(B) <= Concurrency
    BY DEF B
  <2> QED BY <1>3, <2>2, <2>3 DEF C, u
<1>5. CASE Cardinality(BusyOf(t)) < Concurrency
  <2>1. C \subseteq B \cup {n}
    BY <1>1 DEF BusyOf
  <2>2. /\ IsFiniteSet(B \cup {n})
        /\ Cardinality(B \cup {n}) = IF n \in B THEN Cardinality(B) ELSE Cardinality(B) + 1
    BY <1>3, FS_AddElement
  <2>3. Cardinality(C) <= Cardinality(B \cup {n})
    BY <2>1, <2>2, FS_Subset
  <2>4. Cardinality(B) < Concurrency
    BY <1>5
  <2>5. Cardinality(B \cup {n}) <= Cardinality(B) + 1 /\ Cardinality(B \cup {n}) \in Nat
    BY <1>3, <2>2
  <2> HIDE DEF B, C
  <2> QED BY <1>3, <2>3, <2>4, <2>5 DEF C, u
<1> QED BY <1>4, <1>5

(* A step of one Worker.                                                    *)
LEMMA WorkerStepInv ==
  ASSUME RunInv, run.at = "wave", NEW n \in DOMAIN run.worker, NEW w,
         Becomes(n, w), WorkerInv(n, w, goal', log, trees', "wave"),
         Working(w) => Working(Worker(n)) \/ Cardinality(Busy) < Concurrency,
         RecordInv(goal', log), goal'.status = goal.status,
         RecordInv(disk', log), disk'.status \notin Over,
         \A m \in DOMAIN run.worker : m # n => Untouched(m, goal, goal'),
         trees \subseteq trees', trees' \subseteq Nodes \X Nat,
         UNCHANGED <<detached, log, branch, review>>
  PROVE  RunInv'
<1> DEFINE t == run.worker
           u == [t EXCEPT ![n] = w]
<1>1. run' = [run EXCEPT !.worker = u]
  BY DEF Becomes
<1>2. /\ run'.at = "wave" /\ DOMAIN run' = RunFields /\ run'.worker = u
      /\ run'.wave = run.wave
  BY <1>1 DEF RunInv, PlaceInv, RunFields
<1>3. DOMAIN u = DOMAIN t /\ \A m \in DOMAIN t : u[m] = IF m = n THEN w ELSE t[m]
  OBVIOUS
<1>4. /\ IsFiniteSet(DOMAIN t) /\ run.wave \in Seq(DOMAIN t)
      /\ \A m \in DOMAIN t : WorkerInv(m, t[m], goal, log, trees, "wave")
      /\ Cardinality(Busy) <= Concurrency
  BY DEF RunInv, WaveInv
<1>5. Busy = BusyOf(t) /\ Worker(n) = t[n]
  BY DEF Busy, Worker, BusyOf, Working
<1>6. Cardinality(BusyOf(u)) <= Concurrency
  BY <1>4, <1>5, BusyGrows
<1> HIDE DEF u
<1>7. Busy' = BusyOf(u)
  BY <1>2 DEF Busy, Worker, BusyOf, Working
<1>8. \A m \in DOMAIN u : WorkerInv(m, u[m], goal', log, trees', "wave")
  <2> TAKE m \in DOMAIN u
  <2>1. CASE m = n
    BY <1>3, <2>1
  <2>2. CASE m # n
    BY <1>3, <1>4, <2>2, UntouchedWorker
  <2> QED BY <2>1, <2>2
<1>9. WaveInv'
  <2>1. Cardinality(Busy') <= Concurrency
    BY <1>6, <1>7
  <2> QED BY <1>2, <1>3, <1>4, <1>8, <2>1 DEF WaveInv
<1>10. StageInv'
  <2>1. goal.status \notin Over
    BY DEF RunInv, StageInv
  <2> QED BY <1>2, <2>1 DEF StageInv
<1>11. PlaceInv'
  BY <1>2, Wording DEF RunInv, PlaceInv
<1>12. \A old \in detached' : RecordInv(old, log') /\ old.status \notin Over
  BY DEF RunInv
<1> QED BY <1>9, <1>10, <1>11, <1>12 DEF RunInv

-----------------------------------------------------------------------------
(* No change leaves every Worker alone.                                     *)
LEMMA UntouchedRefl ==
  ASSUME NEW g, NEW m \in DOMAIN g.nodes
  PROVE  Untouched(m, g, g)
BY DEF Untouched

(* What the invariant says while a wave runs.                               *)
LEMMA AtWave ==
  ASSUME RunInv, run.at = "wave"
  PROVE  /\ \A m \in DOMAIN run.worker :
              WorkerInv(m, Worker(m), goal, log, trees, "wave") /\ m \in DOMAIN goal.nodes
         /\ goal \in GoalRecord /\ RecordInv(goal, log) /\ RecordInv(disk, log)
         /\ goal.status \notin Over /\ disk.status \notin Over
         /\ trees \subseteq Nodes \X Nat /\ Len(log) \in Nat /\ DOMAIN goal.nodes \subseteq Nodes
<1>1. WaveInv /\ StageInv /\ RecordInv(goal, log) /\ RecordInv(disk, log) /\ PlaceInv
  BY DEF RunInv
<1>2. goal \in GoalRecord
  BY <1>1 DEF RecordInv
<1>3. DOMAIN goal.nodes \subseteq Nodes
  BY <1>2, RecordIs
<1>4. goal.status \notin Over /\ disk.status \notin Over
  BY <1>1 DEF StageInv
<1>5. trees \subseteq Nodes \X Nat /\ Len(log) \in Nat
  BY <1>1 DEF PlaceInv
<1>6. \A m \in DOMAIN run.worker : WorkerInv(m, Worker(m), goal, log, trees, "wave")
  BY <1>1 DEF WaveInv, Worker
<1>7. \A m \in DOMAIN run.worker : m \in DOMAIN goal.nodes
  BY <1>6 DEF WorkerInv
<1> QED BY <1>1, <1>2, <1>3, <1>4, <1>5, <1>6, <1>7

(* A Worker at work has an attempt that runs, and one whose question is     *)
(* resolved has the question.                                               *)
LEMMA AtWorkIs ==
  ASSUME NEW n, NEW w, NEW g, NEW l, NEW ts, NEW at, WorkerInv(n, w, g, l, ts, at),
         Working(w)
  PROVE  /\ AtWorkInv(n, w.att, g, l, ts) /\ HasAttempt(n, w.att, g)
         /\ w.at = "resolving" => HasQuery(n, w.query, g, "resolving")
BY DEF WorkerInv, Working, AtWorkInv

(* A Worker returns, its attempt given a status in a record g in which the  *)
(* other Workers find what is theirs.                                       *)
LEMMA ReturnsInv ==
  ASSUME RunInv, run.at = "wave", NEW n \in DOMAIN run.worker, NEW g,
         RecordInv(g, log), g.status = goal.status, n \in DOMAIN g.nodes,
         HasAttempt(n, Worker(n).att, g),
         \A m \in DOMAIN run.worker : m # n => Untouched(m, goal, g),
         NEW result, NEW q, NEW s \in AttemptStatus,
         result = "waiting_for_parent" => HasQuery(n, q, g, "waiting_for_parent"),
         Save(WithAttempt(g, Worker(n).att, s)), Returns(n, result, q),
         UNCHANGED <<detached, git, review>>
  PROVE  RunInv'
<1> DEFINE a == Worker(n).att
           h == WithAttempt(g, a, s)
           w == [at |-> "returned", att |-> a, result |-> result, query |-> q]
<1>0. g \in GoalRecord
  BY DEF RecordInv
<1>1. Alike(g, h) /\ h.status = g.status /\ h.queries = g.queries
  <2>1. Alike(g, h)
    BY <1>0, WithAttemptAlike
  <2>2. h = [g EXCEPT !.attempts[a].status = s]
    BY DEF WithAttempt
  <2>3. h.status = g.status /\ h.queries = g.queries
    BY <1>0, <2>2 DEF GoalRecord
  <2> QED BY <2>1, <2>3
<1>2. HasAttempt(n, a, h)
  BY <1>0, OwnAttempt
<1>3. RecordInv(h, log)
  BY <1>1, AlikeRecordInv
<1>4. ASSUME NEW m \in DOMAIN run.worker, m # n
      PROVE  Untouched(m, goal, h)
  <2>1. Untouched(m, goal, g)
    BY <1>4
  <2>2. m \in DOMAIN g.nodes
    BY <2>1 DEF Untouched
  <2>3. a \in 1 .. Len(g.attempts) /\ g.attempts[a].node # m
    BY <1>4 DEF HasAttempt
  <2>4. Untouched(m, g, h)
    BY <1>0, <2>2, <2>3, AttemptUntouched
  <2> HIDE DEF h
  <2> QED BY <2>1, <2>4, UntouchedTrans
<1>5. goal' = h /\ disk' = h /\ Becomes(n, w)
  BY DEF Save, Returns
<1> HIDE DEF h
<1>6. result = "waiting_for_parent" => HasQuery(n, q, h, "waiting_for_parent")
  BY <1>1 DEF HasQuery
<1>7. n \in DOMAIN h.nodes
  BY <1>1 DEF Alike
<1>8. w.at = "returned" /\ w.att = a /\ w.result = result /\ w.query = q
  OBVIOUS
<1> HIDE DEF w
<1>9. WorkerInv(n, w, h, log, trees, "wave")
  BY <1>2, <1>6, <1>7, <1>8 DEF WorkerInv
<1>10. ~ Working(w)
  BY <1>8 DEF Working
<1>11. trees' = trees /\ RecordInv(goal', log) /\ RecordInv(disk', log)
  BY <1>3, <1>5 DEF git
<1>12. goal'.status = goal.status /\ disk'.status \notin Over
  BY <1>1, <1>5, AtWave
<1>13. \A m \in DOMAIN run.worker : m # n => Untouched(m, goal, goal')
  BY <1>4, <1>5
<1>14. trees' \subseteq Nodes \X Nat /\ UNCHANGED <<detached, log, branch, review>>
  BY <1>11, AtWave DEF git
<1>15. WorkerInv(n, w, goal', log, trees', "wave")
  BY <1>5, <1>9, <1>11
<1> QED BY <1>5, <1>10, <1>11, <1>12, <1>13, <1>14, <1>15, WorkerStepInv

(* A Worker completes its attempt.                                          *)
LEMMA WorkerCompletesInv ==
  ASSUME RunInv, NEW n \in Nodes, WorkerCompletes(n)
  PROVE  RunInv'
<1>1. /\ run.at = "wave" /\ n \in DOMAIN run.worker /\ Worker(n).at = "asking"
      /\ Save(WithAttempt(goal, Worker(n).att, "completed")) /\ Returns(n, "completed", 0)
      /\ UNCHANGED <<detached, git, review>>
  BY DEF WorkerCompletes, InFlight
<1>2. Working(Worker(n))
  BY <1>1 DEF Working
<1>3. /\ WorkerInv(n, Worker(n), goal, log, trees, "wave") /\ RecordInv(goal, log)
      /\ \A m \in DOMAIN run.worker : m \in DOMAIN goal.nodes
  BY <1>1, AtWave
<1>4. HasAttempt(n, Worker(n).att, goal)
  BY <1>2, <1>3, AtWorkIs
<1>5. \A m \in DOMAIN run.worker : m # n => Untouched(m, goal, goal)
  BY <1>3, UntouchedRefl
<1>6. "completed" \in AttemptStatus /\ "completed" # "waiting_for_parent"
  BY Words
<1> QED BY <1>1, <1>3, <1>4, <1>5, <1>6, ReturnsInv

(* A Worker fails or runs out of tokens.                                    *)
LEMMA WorkerFailsInv ==
  ASSUME RunInv, NEW n \in Nodes, WorkerFails(n)
  PROVE  RunInv'
<1>1. PICK result \in {"failed", "budget_exhausted"} :
        Save(WithAttempt(goal, Worker(n).att, result)) /\ Returns(n, result, 0)
  BY DEF WorkerFails
<1>2. /\ run.at = "wave" /\ n \in DOMAIN run.worker
      /\ Worker(n).at = "asking" \/ Worker(n).at = "resolving"
      /\ UNCHANGED <<detached, git, review>>
  BY DEF WorkerFails, InFlight, Resolving
<1>3. Working(Worker(n))
  BY <1>2 DEF Working
<1>4. /\ WorkerInv(n, Worker(n), goal, log, trees, "wave") /\ RecordInv(goal, log)
      /\ \A m \in DOMAIN run.worker : m \in DOMAIN goal.nodes
  BY <1>2, AtWave
<1>5. HasAttempt(n, Worker(n).att, goal)
  BY <1>3, <1>4, AtWorkIs
<1>6. \A m \in DOMAIN run.worker : m # n => Untouched(m, goal, goal)
  BY <1>4, UntouchedRefl
<1>7. "failed" \in AttemptStatus /\ "budget_exhausted" \in AttemptStatus
  BY Words
<1>8. result \in AttemptStatus /\ result # "waiting_for_parent"
  BY <1>7
<1> QED BY <1>1, <1>2, <1>4, <1>5, <1>6, <1>8, ReturnsInv

(* The record is left as it is.                                             *)
LEMMA WorkerStopsInv ==
  ASSUME RunInv, NEW n \in Nodes, WorkerStops(n)
  PROVE  RunInv'
<1> DEFINE w == [at |-> "returned", att |-> Worker(n).att, result |-> "failed", query |-> 0]
<1>1. /\ run.at = "wave" /\ n \in DOMAIN run.worker /\ Worker(n).at = "asking"
      /\ Becomes(n, w) /\ UNCHANGED <<goal, disk, detached, git, review>>
  BY DEF WorkerStops, InFlight, Returns
<1>2. Working(Worker(n))
  BY <1>1 DEF Working
<1>3. /\ WorkerInv(n, Worker(n), goal, log, trees, "wave") /\ RecordInv(goal, log)
      /\ \A m \in DOMAIN run.worker : m \in DOMAIN goal.nodes
      /\ RecordInv(disk, log) /\ disk.status \notin Over /\ trees \subseteq Nodes \X Nat
  BY <1>1, AtWave
<1>4. HasAttempt(n, Worker(n).att, goal)
  BY <1>2, <1>3, AtWorkIs
<1>5. \A m \in DOMAIN run.worker : m # n => Untouched(m, goal, goal)
  BY <1>3, UntouchedRefl
<1>6. w.at = "returned" /\ w.att = Worker(n).att /\ w.result # "waiting_for_parent"
  OBVIOUS
<1> HIDE DEF w
<1>7. WorkerInv(n, w, goal, log, trees, "wave")
  BY <1>1, <1>3, <1>4, <1>6 DEF WorkerInv
<1>8. ~ Working(w)
  BY <1>6 DEF Working
<1>9. goal' = goal /\ disk' = disk /\ trees' = trees /\ UNCHANGED <<detached, log, branch, review>>
  BY <1>1 DEF git
<1>10. WorkerInv(n, w, goal', log, trees', "wave") /\ RecordInv(goal', log) /\ RecordInv(disk', log)
  BY <1>3, <1>7, <1>9
<1>11. \A m \in DOMAIN run.worker : m # n => Untouched(m, goal, goal')
  BY <1>5, <1>9
<1> QED BY <1>1, <1>3, <1>8, <1>9, <1>10, <1>11, WorkerStepInv

(* A question of a Worker adds to the end of the record.                    *)
LEMMA AskedInv ==
  ASSUME RunInv, run.at = "wave", NEW n \in DOMAIN run.worker, Impacts # {},
         NEW s \in QueryStatus
  PROVE  LET h == [goal EXCEPT !.queries = Append(@, Query(n, s))]
             q == Len(goal.queries) + 1
         IN  /\ RecordInv(h, log) /\ h.status = goal.status /\ n \in DOMAIN h.nodes
             /\ HasQuery(n, q, h, s)
             /\ \A a : HasAttempt(n, a, goal) => HasAttempt(n, a, h)
             /\ \A a : AtWorkInv(n, a, goal, log, trees) => AtWorkInv(n, a, h, log, trees)
             /\ \A m \in DOMAIN run.worker : m # n => Untouched(m, goal, h)
<1> DEFINE h == [goal EXCEPT !.queries = Append(@, Query(n, s))]
           q == Len(goal.queries) + 1
<1>1. /\ goal \in GoalRecord /\ RecordInv(goal, log) /\ n \in Nodes
      /\ n \in DOMAIN goal.nodes
      /\ \A m \in DOMAIN run.worker : m \in DOMAIN goal.nodes
  BY AtWave
<1>2. /\ Alike(goal, h) /\ h.status = goal.status
      /\ h.attempts = goal.attempts /\ h.nodes = goal.nodes
      /\ HasQuery(n, q, h, s)
  BY <1>1, AskedAlike
<1>3. RecordInv(h, log)
  BY <1>1, <1>2, AlikeRecordInv
<1>4. \A m \in DOMAIN run.worker : m # n => Untouched(m, goal, h)
  BY <1>1, AskedUntouched
<1> HIDE DEF h
<1>5. \A a : HasAttempt(n, a, goal) => HasAttempt(n, a, h)
  BY <1>2 DEF HasAttempt
<1>6. \A a : AtWorkInv(n, a, goal, log, trees) => AtWorkInv(n, a, h, log, trees)
  BY <1>2, <1>5 DEF AtWorkInv
<1>7. /\ RecordInv(h, log) /\ h.status = goal.status /\ n \in DOMAIN h.nodes
      /\ HasQuery(n, q, h, s)
  BY <1>1, <1>2, <1>3
<1> QED BY <1>4, <1>5, <1>6, <1>7 DEF h

(* A Worker asks: its question waits, is resolved or asks for a replan.     *)
LEMMA WorkerAsksInv ==
  ASSUME RunInv, NEW n \in Nodes, NEW impact \in Impacts, WorkerAsks(n, impact)
  PROVE  RunInv'
<1> DEFINE q == Len(goal.queries) + 1
           Asks(s) == [goal EXCEPT !.queries = Append(@, Query(n, s))]
           a == Worker(n).att
<1>1. /\ run.at = "wave" /\ n \in DOMAIN run.worker /\ Worker(n).at = "asking"
      /\ UNCHANGED <<detached, git, review>>
  BY DEF WorkerAsks, InFlight
<1>2. Working(Worker(n)) /\ Impacts # {}
  BY <1>1 DEF Working
<1>3. /\ WorkerInv(n, Worker(n), goal, log, trees, "wave")
      /\ disk.status \notin Over /\ trees \subseteq Nodes \X Nat
      /\ goal.status \notin Over
  BY <1>1, AtWave
<1>4. HasAttempt(n, a, goal) /\ AtWorkInv(n, a, goal, log, trees)
  BY <1>2, <1>3, AtWorkIs
<1>5. \A s \in QueryStatus :
        LET h == Asks(s)
        IN  /\ RecordInv(h, log) /\ h.status = goal.status /\ n \in DOMAIN h.nodes
            /\ HasQuery(n, q, h, s)
            /\ HasAttempt(n, a, h) /\ AtWorkInv(n, a, h, log, trees)
            /\ \A m \in DOMAIN run.worker : m # n => Untouched(m, goal, h)
  BY <1>1, <1>2, <1>4, AskedInv
<1>6. \/ WaitForParent(n, Asks("waiting_for_parent"), q)
      \/ /\ goal' = Asks("replan_requested") /\ disk' = Asks("resolving")
         /\ Returns(n, "replan_requested", q)
      \/ /\ Save(Asks("resolving"))
         /\ Becomes(n, [at |-> "resolving", att |-> a,
                        rounds |-> Worker(n).rounds + 1, query |-> q])
  BY DEF WorkerAsks
<1>7. CASE WaitForParent(n, Asks("waiting_for_parent"), q)
  <2> DEFINE h == Asks("waiting_for_parent")
  <2>1. Save(WithAttempt(h, a, "waiting_for_parent")) /\ Returns(n, "waiting_for_parent", q)
    BY <1>7 DEF WaitForParent
  <2>2. "waiting_for_parent" \in AttemptStatus /\ "waiting_for_parent" \in QueryStatus
    BY Words
  <2>3. /\ RecordInv(h, log) /\ h.status = goal.status /\ n \in DOMAIN h.nodes
        /\ HasQuery(n, q, h, "waiting_for_parent") /\ HasAttempt(n, a, h)
        /\ \A m \in DOMAIN run.worker : m # n => Untouched(m, goal, h)
    BY <1>5, <2>2
  <2> HIDE DEF h
  <2> QED BY <1>1, <2>1, <2>2, <2>3, ReturnsInv
<1>8. CASE /\ goal' = Asks("replan_requested") /\ disk' = Asks("resolving")
           /\ Returns(n, "replan_requested", q)
  <2> DEFINE w == [at |-> "returned", att |-> a, result |-> "replan_requested", query |-> q]
             h == Asks("replan_requested")
             k == Asks("resolving")
  <2>1. goal' = h /\ disk' = k /\ Becomes(n, w)
    BY <1>8 DEF Returns
  <2>2. "replan_requested" \in QueryStatus /\ "resolving" \in QueryStatus
    BY Words
  <2>3. /\ RecordInv(h, log) /\ h.status = goal.status /\ n \in DOMAIN h.nodes
        /\ HasAttempt(n, a, h)
        /\ \A m \in DOMAIN run.worker : m # n => Untouched(m, goal, h)
    BY <1>5, <2>2
  <2>4. RecordInv(k, log) /\ k.status = goal.status
    BY <1>5, <2>2
  <2>5. w.at = "returned" /\ w.att = a /\ w.result # "waiting_for_parent"
    OBVIOUS
  <2> HIDE DEF h, k, w
  <2>6. WorkerInv(n, w, h, log, trees, "wave")
    BY <2>3, <2>5 DEF WorkerInv
  <2>7. ~ Working(w)
    BY <2>5 DEF Working
  <2>8. trees' = trees /\ UNCHANGED <<detached, log, branch, review>>
    BY <1>1 DEF git
  <2>9. /\ WorkerInv(n, w, goal', log, trees', "wave")
        /\ RecordInv(goal', log) /\ RecordInv(disk', log)
        /\ goal'.status = goal.status /\ disk'.status \notin Over
        /\ \A m \in DOMAIN run.worker : m # n => Untouched(m, goal, goal')
    BY <1>3, <2>1, <2>3, <2>4, <2>6, <2>8
  <2>10. trees \subseteq trees' /\ trees' \subseteq Nodes \X Nat
    BY <1>3, <2>8
  <2> QED BY <1>1, <2>1, <2>7, <2>8, <2>9, <2>10, WorkerStepInv
<1>9. CASE /\ Save(Asks("resolving"))
           /\ Becomes(n, [at |-> "resolving", att |-> a,
                          rounds |-> Worker(n).rounds + 1, query |-> q])
  <2> DEFINE w == [at |-> "resolving", att |-> a, rounds |-> Worker(n).rounds + 1, query |-> q]
             h == Asks("resolving")
  <2>1. goal' = h /\ disk' = h /\ Becomes(n, w)
    BY <1>9 DEF Save
  <2>2. "resolving" \in QueryStatus
    BY Words
  <2>3. /\ RecordInv(h, log) /\ h.status = goal.status /\ n \in DOMAIN h.nodes
        /\ HasQuery(n, q, h, "resolving") /\ AtWorkInv(n, a, h, log, trees)
        /\ \A m \in DOMAIN run.worker : m # n => Untouched(m, goal, h)
    BY <1>5, <2>2
  <2>4. w.at = "resolving" /\ w.att = a /\ w.query = q
    OBVIOUS
  <2> HIDE DEF h, w
  <2>5. WorkerInv(n, w, h, log, trees, "wave")
    BY <2>3, <2>4 DEF WorkerInv
  <2>6. trees' = trees /\ UNCHANGED <<detached, log, branch, review>>
    BY <1>1 DEF git
  <2>7. /\ WorkerInv(n, w, goal', log, trees', "wave")
        /\ RecordInv(goal', log) /\ RecordInv(disk', log)
        /\ goal'.status = goal.status /\ disk'.status \notin Over
        /\ \A m \in DOMAIN run.worker : m # n => Untouched(m, goal, goal')
    BY <1>3, <2>1, <2>3, <2>5, <2>6
  <2>8. trees \subseteq trees' /\ trees' \subseteq Nodes \X Nat
    BY <1>3, <2>6
  <2> QED BY <1>1, <1>2, <2>1, <2>6, <2>7, <2>8, WorkerStepInv
<1> QED BY <1>6, <1>7, <1>8, <1>9

(* The resolver answers the question of a Worker or passes it on.           *)
LEMMA ResolveInv ==
  ASSUME RunInv, NEW n \in Nodes, Resolve(n)
  PROVE  RunInv'
<1> DEFINE q == Worker(n).query
           a == Worker(n).att
<1>1. /\ run.at = "wave" /\ n \in DOMAIN run.worker /\ Worker(n).at = "resolving"
      /\ UNCHANGED <<detached, git, review>>
  BY DEF Resolve, Resolving
<1>2. Working(Worker(n))
  BY <1>1 DEF Working
<1>3. /\ WorkerInv(n, Worker(n), goal, log, trees, "wave")
      /\ RecordInv(goal, log) /\ goal \in GoalRecord
      /\ goal.status \notin Over /\ trees \subseteq Nodes \X Nat
      /\ \A m \in DOMAIN run.worker : m \in DOMAIN goal.nodes
  BY <1>1, AtWave
<1>4. /\ HasAttempt(n, a, goal) /\ AtWorkInv(n, a, goal, log, trees)
      /\ HasQuery(n, q, goal, "resolving")
  BY <1>1, <1>2, <1>3, AtWorkIs
<1>5. ASSUME NEW s \in QueryStatus
      PROVE  LET h == WithQuery(goal, q, s)
             IN  /\ RecordInv(h, log) /\ h.status = goal.status /\ n \in DOMAIN h.nodes
                 /\ HasQuery(n, q, h, s)
                 /\ HasAttempt(n, a, h) /\ AtWorkInv(n, a, h, log, trees)
                 /\ \A m \in DOMAIN run.worker : m # n => Untouched(m, goal, h)
  <2> DEFINE h == WithQuery(goal, q, s)
  <2>1. Alike(goal, h)
    BY <1>3, WithQueryAlike
  <2>2. h.status = goal.status /\ h.attempts = goal.attempts /\ h.nodes = goal.nodes
    <3>1. h = [goal EXCEPT !.queries[q].status = s]
      BY DEF WithQuery
    <3> QED BY <1>3, <3>1 DEF GoalRecord
  <2>3. HasQuery(n, q, h, s)
    BY <1>3, <1>4, OwnQuery
  <2>4. q \in 1 .. Len(goal.queries) /\ goal.queries[q].node = n
    BY <1>4 DEF HasQuery
  <2>5. \A m \in DOMAIN run.worker : m # n => Untouched(m, goal, h)
    BY <1>3, <2>4, QueryUntouched
  <2>6. RecordInv(h, log)
    BY <1>3, <2>1, AlikeRecordInv
  <2> HIDE DEF h
  <2>7. HasAttempt(n, a, h) /\ AtWorkInv(n, a, h, log, trees) /\ n \in DOMAIN h.nodes
    BY <1>1, <1>3, <1>4, <2>2 DEF HasAttempt, AtWorkInv
  <2> QED BY <2>2, <2>3, <2>5, <2>6, <2>7 DEF h
<1>6. CASE WaitForParent(n, WithQuery(goal, q, "waiting_for_parent"), q)
  <2> DEFINE h == WithQuery(goal, q, "waiting_for_parent")
  <2>1. Save(WithAttempt(h, a, "waiting_for_parent")) /\ Returns(n, "waiting_for_parent", q)
    BY <1>6 DEF WaitForParent
  <2>2. "waiting_for_parent" \in AttemptStatus /\ "waiting_for_parent" \in QueryStatus
    BY Words
  <2>3. /\ RecordInv(h, log) /\ h.status = goal.status /\ n \in DOMAIN h.nodes
        /\ HasQuery(n, q, h, "waiting_for_parent") /\ HasAttempt(n, a, h)
        /\ \A m \in DOMAIN run.worker : m # n => Untouched(m, goal, h)
    BY <1>5, <2>2
  <2> HIDE DEF h
  <2> QED BY <1>1, <2>1, <2>2, <2>3, ReturnsInv
<1>7. CASE /\ Save(WithQuery(goal, q, "answered"))
           /\ Becomes(n, Asking(n, a, Worker(n).rounds))
  <2> DEFINE w == Asking(n, a, Worker(n).rounds)
             h == WithQuery(goal, q, "answered")
  <2>1. goal' = h /\ disk' = h /\ Becomes(n, w)
    BY <1>7 DEF Save
  <2>2. "answered" \in QueryStatus
    BY Words
  <2>3. /\ RecordInv(h, log) /\ h.status = goal.status /\ n \in DOMAIN h.nodes
        /\ AtWorkInv(n, a, h, log, trees)
        /\ \A m \in DOMAIN run.worker : m # n => Untouched(m, goal, h)
    BY <1>5, <2>2
  <2>4. w.at = "asking" /\ w.att = a
    BY DEF Asking
  <2> HIDE DEF h, w
  <2>5. WorkerInv(n, w, h, log, trees, "wave")
    BY <2>3, <2>4 DEF WorkerInv
  <2>6. trees' = trees /\ UNCHANGED <<detached, log, branch, review>>
    BY <1>1 DEF git
  <2>7. /\ WorkerInv(n, w, goal', log, trees', "wave")
        /\ RecordInv(goal', log) /\ RecordInv(disk', log)
        /\ goal'.status = goal.status /\ disk'.status \notin Over
        /\ \A m \in DOMAIN run.worker : m # n => Untouched(m, goal, goal')
    BY <1>3, <2>1, <2>3, <2>5, <2>6
  <2>8. trees \subseteq trees' /\ trees' \subseteq Nodes \X Nat
    BY <1>3, <2>6
  <2> QED BY <1>1, <1>2, <2>1, <2>6, <2>7, <2>8, WorkerStepInv
<1> QED BY <1>6, <1>7 DEF Resolve

-----------------------------------------------------------------------------
(* A Worker the semaphore admits has attempts left.                         *)
LEMMA AdmittedIs ==
  ASSUME RunInv, NEW n, Admitted(n)
  PROVE  /\ run.at = "wave" /\ n \in DOMAIN run.worker
         /\ n \in DOMAIN goal.nodes /\ QueuedInv(n, goal)
         /\ goal.nodes[n].used < MaxAttempts /\ n \notin Completed(goal)
         /\ Cardinality(Busy) < Concurrency
<1>1. /\ run.at = "wave" /\ n \in DOMAIN run.worker /\ Worker(n).at = "queued"
      /\ Cardinality(Busy) < Concurrency
  BY DEF Admitted
<1>2. WorkerInv(n, Worker(n), goal, log, trees, "wave") /\ n \in DOMAIN goal.nodes
  BY <1>1, AtWave
<1>3. QueuedInv(n, goal)
  BY <1>1, <1>2 DEF WorkerInv
<1>4. goal.nodes[n].used < MaxAttempts /\ n \notin Completed(goal)
  BY <1>3 DEF QueuedInv, Completed
<1> QED BY <1>1, <1>2, <1>3, <1>4

(* A Worker is dispatched at the integration head.                          *)
LEMMA DispatchInv ==
  ASSUME RunInv, NEW n \in Nodes, Dispatch(n)
  PROVE  RunInv'
<1> DEFINE h == Dispatched(goal, n)
           a == Len(goal.attempts) + 1
           k == NextNumber(goal, n)
<1>1. /\ run.at = "wave" /\ n \in DOMAIN run.worker /\ n \in DOMAIN goal.nodes
      /\ QueuedInv(n, goal) /\ n \notin Completed(goal)
      /\ Cardinality(Busy) < Concurrency
  BY AdmittedIs DEF Dispatch
<1>2. /\ RecordInv(goal, log) /\ goal \in GoalRecord /\ Len(log) \in Nat
      /\ goal.status \notin Over /\ trees \subseteq Nodes \X Nat
      /\ \A m \in DOMAIN run.worker : m \in DOMAIN goal.nodes
  BY <1>1, AtWave
<1>3. /\ goal' = h /\ disk' = h /\ trees' = trees \cup {<<n, k>>}
      /\ UNCHANGED <<detached, log, branch, review>>
  BY DEF Dispatch, Save
<1>4. /\ RecordInv(h, log) /\ h.status = goal.status /\ h.queries = goal.queries
      /\ DOMAIN h.nodes = DOMAIN goal.nodes
      /\ \A m \in DOMAIN goal.nodes : m # n => h.nodes[m] = goal.nodes[m]
      /\ Len(h.attempts) = a
      /\ \A b \in 1 .. Len(goal.attempts) : h.attempts[b] = goal.attempts[b]
      /\ HasAttempt(n, a, h) /\ h.attempts[a].status = "running"
      /\ h.attempts[a].base = Len(log) /\ h.attempts[a].num = k
  BY <1>1, <1>2, DispatchedInv
<1>5. Len(goal.attempts) \in Nat
  BY <1>2, RecordIs
<1>6. \A b \in 1 .. Len(goal.attempts) : b \in 1 .. a
  BY <1>5
<1> HIDE DEF h, a, k
<1>7. ASSUME NEW m \in DOMAIN run.worker, m # n
      PROVE  Untouched(m, goal, goal')
  <2>1. m \in DOMAIN h.nodes /\ h.nodes[m] = goal.nodes[m]
    BY <1>2, <1>4, <1>7
  <2>2. \A c \in Completed(goal) : c \in Completed(h)
    BY <1>1, <1>4 DEF Completed
  <2> QED BY <1>3, <1>4, <1>6, <2>1, <2>2 DEF Untouched
<1>8. AtWorkInv(n, a, h, log, trees')
  BY <1>3, <1>4 DEF AtWorkInv
<1>9. trees \subseteq trees' /\ trees' \subseteq Nodes \X Nat
  BY <1>3, WorktreeIs DEF k
<1>10. ASSUME NEW w, Becomes(n, w), WorkerInv(n, w, h, log, trees', "wave")
       PROVE  RunInv'
  <2>1. /\ WorkerInv(n, w, goal', log, trees', "wave")
        /\ RecordInv(goal', log) /\ RecordInv(disk', log)
        /\ goal'.status = goal.status /\ disk'.status \notin Over
    BY <1>2, <1>3, <1>4, <1>10
  <2> QED BY <1>1, <1>3, <1>7, <1>9, <1>10, <2>1, WorkerStepInv
<1>11. CASE Becomes(n, Asking(n, a, 0))
  <2>1. Asking(n, a, 0).at = "asking" /\ Asking(n, a, 0).att = a
    BY DEF Asking
  <2>2. WorkerInv(n, Asking(n, a, 0), h, log, trees', "wave")
    BY <1>1, <1>4, <1>8, <2>1 DEF WorkerInv
  <2> QED BY <1>10, <1>11, <2>2
<1>12. CASE Becomes(n, Raised)
  <2>1. Raised.at = "raised"
    BY DEF Raised
  <2>2. WorkerInv(n, Raised, h, log, trees', "wave")
    BY <1>1, <1>4, <2>1 DEF WorkerInv
  <2> QED BY <1>10, <1>12, <2>2
<1> QED BY <1>11, <1>12 DEF Dispatch, a

(* The worktree of a Worker cannot be made.                                 *)
LEMMA DispatchFailsInv ==
  ASSUME RunInv, NEW n \in Nodes, DispatchFails(n)
  PROVE  RunInv'
<1> DEFINE h == [goal EXCEPT !.nodes[n].used = @ + 1]
           t == [goal.nodes EXCEPT ![n].used = @ + 1]
<1>1. /\ run.at = "wave" /\ n \in DOMAIN run.worker /\ n \in DOMAIN goal.nodes
      /\ goal.nodes[n].used < MaxAttempts /\ n \notin Completed(goal)
  BY AdmittedIs DEF DispatchFails
<1>2. /\ RecordInv(goal, log) /\ goal \in GoalRecord /\ RecordInv(disk, log)
      /\ disk.status \notin Over /\ trees \subseteq Nodes \X Nat
      /\ \A m \in DOMAIN run.worker : m \in DOMAIN goal.nodes
  BY <1>1, AtWave
<1>3. /\ goal' = h /\ disk' = disk /\ trees' = trees /\ Becomes(n, Raised)
      /\ UNCHANGED <<detached, log, branch, review>>
  BY DEF DispatchFails, git
<1>4. /\ Alike(goal, h) /\ h.status = goal.status
      /\ h.queries = goal.queries /\ h.attempts = goal.attempts /\ h.nodes = t
  BY <1>1, <1>2, UsedUpAlike
<1>5. RecordInv(h, log)
  BY <1>2, <1>4, AlikeRecordInv
<1>6. DOMAIN t = DOMAIN goal.nodes /\ \A m \in DOMAIN goal.nodes : m # n => t[m] = goal.nodes[m]
  OBVIOUS
<1> HIDE DEF h, t
<1>7. ASSUME NEW m \in DOMAIN run.worker, m # n
      PROVE  Untouched(m, goal, goal')
  <2>1. m \in DOMAIN h.nodes /\ h.nodes[m] = goal.nodes[m]
    BY <1>2, <1>4, <1>6, <1>7
  <2>2. \A c \in Completed(goal) : c \in Completed(h)
    BY <1>1, <1>4, <1>6 DEF Completed
  <2> QED BY <1>3, <1>4, <2>1, <2>2 DEF Untouched
<1>8. Raised.at = "raised"
  BY DEF Raised
<1>9. ~ Working(Raised)
  BY <1>8 DEF Working
<1>10. WorkerInv(n, Raised, goal', log, trees', "wave")
  BY <1>1, <1>3, <1>4, <1>6, <1>8 DEF WorkerInv
<1>11. /\ RecordInv(goal', log) /\ RecordInv(disk', log)
       /\ goal'.status = goal.status /\ disk'.status \notin Over
       /\ trees \subseteq trees' /\ trees' \subseteq Nodes \X Nat
  BY <1>2, <1>3, <1>4, <1>5
<1> QED BY <1>1, <1>3, <1>7, <1>9, <1>10, <1>11, WorkerStepInv

(* Any step of a Worker.                                                    *)
LEMMA WorkerStepsInv ==
  ASSUME RunInv, NEW n \in Nodes, WorkerStep(n)
  PROVE  RunInv'
BY DispatchInv, DispatchFailsInv, WorkerCompletesInv, WorkerStopsInv, WorkerFailsInv,
   WorkerAsksInv, ResolveInv DEF WorkerStep

-----------------------------------------------------------------------------
(* All Workers are done; what is known of a Worker that is done is known    *)
(* wherever the task is.                                                    *)
LEMMA GatherInv ==
  ASSUME RunInv, Gather
  PROVE  RunInv'
<1> DEFINE D == DOMAIN run.worker
           In(stage) == Only(run.wave, {n \in D : Worker(n).at = stage})
           todo == In("raised") \o In("returned")
<1>1. /\ run.at = "wave" /\ \A n \in D : Worker(n).at \in {"returned", "raised"}
      /\ run' = [run EXCEPT !.at = "collecting", !.todo = todo]
      /\ UNCHANGED <<goal, disk, detached, log, trees, branch, review>>
  BY DEF Gather, git
<1>2. PlaceInv /\ StageInv /\ WaveInv
  BY DEF RunInv
<1>3. run.wave \in Seq(D)
  BY <1>1, <1>2 DEF WaveInv
<1>4. todo \in Seq(D)
  <2>1. In("raised") \in Seq(D) /\ In("returned") \in Seq(D)
    BY <1>3, OnlyMembers
  <2> HIDE DEF In
  <2> QED BY <2>1
<1> HIDE DEF todo
<1>5. /\ run'.at = "collecting" /\ DOMAIN run' = RunFields /\ run'.worker = run.worker
      /\ run'.wave = run.wave /\ run'.todo = todo
  BY <1>1, <1>2 DEF PlaceInv, RunFields
<1>6. \A n \in D : WorkerInv(n, run.worker[n], goal, log, trees, "collecting")
  <2> TAKE n \in D
  <2>1. WorkerInv(n, run.worker[n], goal, log, trees, "wave")
    BY <1>1, <1>2 DEF WaveInv
  <2>2. run.worker[n].at \in {"returned", "raised"}
    BY <1>1 DEF Worker
  <2> QED BY <2>1, <2>2 DEF WorkerInv
<1>7. WaveInv'
  BY <1>1, <1>2, <1>3, <1>4, <1>5, <1>6 DEF WaveInv
<1>8. StageInv'
  BY <1>1, <1>2, <1>5 DEF StageInv
<1>9. PlaceInv'
  BY <1>1, <1>2, <1>5, Wording DEF PlaceInv
<1> QED BY <1>1, <1>7, <1>8, <1>9 DEF RunInv

(* What the main loop may do to the record while it reads the results.      *)
SameFrame(g, h) ==
  /\ h \in GoalRecord /\ DOMAIN h.nodes = DOMAIN g.nodes
  /\ \A n \in DOMAIN g.nodes : h.nodes[n].spec = g.nodes[n].spec
  /\ Len(h.attempts) = Len(g.attempts)
  /\ \A a \in 1 .. Len(g.attempts) :
       h.attempts[a].node = g.attempts[a].node /\ h.attempts[a].spec = g.attempts[a].spec
  /\ h.queries = g.queries
  /\ h.status = g.status

(* Two changes of the main loop are one.                                    *)
LEMMA SameFrameTrans ==
  ASSUME NEW g, NEW h, NEW k, SameFrame(g, h), SameFrame(h, k)
  PROVE  SameFrame(g, k)
BY DEF SameFrame

(* A change of status that leaves the queries is one the main loop may      *)
(* make.                                                                    *)
LEMMA AlikeFrame ==
  ASSUME NEW g, NEW h, Alike(g, h), h.queries = g.queries, h.status = g.status
  PROVE  SameFrame(g, h)
BY DEF SameFrame, Alike

(* What is known of a Worker that is done survives what the main loop does. *)
LEMMA FrameWorker ==
  ASSUME NEW n, NEW w, NEW g, NEW h, NEW l, NEW k, NEW ts,
         WorkerInv(n, w, g, l, ts, "collecting"), SameFrame(g, h)
  PROVE  WorkerInv(n, w, h, k, ts, "collecting")
<1>1. n \in DOMAIN g.nodes /\ n \in DOMAIN h.nodes
  BY DEF WorkerInv, SameFrame
<1>2. \A a : HasAttempt(n, a, g) => HasAttempt(n, a, h)
  BY <1>1 DEF HasAttempt, SameFrame
<1>3. \A q, s : HasQuery(n, q, g, s) => HasQuery(n, q, h, s)
  BY DEF HasQuery, SameFrame
<1> QED BY <1>1, <1>2, <1>3 DEF WorkerInv

(* One result has been read.                                                *)
LEMMA ReadInv ==
  ASSUME RunInv, run.at = "collecting", run.todo # <<>>,
         run'.at = "collecting", DOMAIN run' = RunFields,
         run'.worker = run.worker, run'.wave = run.wave, run'.todo = Tail(run.todo),
         SameFrame(goal, goal'), RecordInv(goal', log'),
         RecordInv(disk', log'), disk'.status \notin Over,
         log' \in Seq(LogRecord), Grown(log, log'),
         \A i \in 1 .. Len(log') : Based(log'[i].spec, log'[i].base, log'),
         UNCHANGED <<detached, trees, branch, review>>
  PROVE  RunInv'
<1>1. PlaceInv /\ StageInv /\ WaveInv
  BY DEF RunInv
<1>2. /\ run.todo \in Seq(DOMAIN run.worker) /\ run.wave \in Seq(DOMAIN run.worker)
      /\ IsFiniteSet(DOMAIN run.worker)
      /\ \A n \in DOMAIN run.worker : WorkerInv(n, run.worker[n], goal, log, trees, "collecting")
  BY <1>1 DEF WaveInv
<1>3. Tail(run.todo) \in Seq(DOMAIN run.worker)
  <2>1. \A T : \A s \in Seq(T) : s # <<>> => Tail(s) \in Seq(T)
    OBVIOUS
  <2> QED BY <1>2, <2>1
<1>4. \A n \in DOMAIN run.worker :
        WorkerInv(n, run.worker[n], goal', log', trees', "collecting")
  BY <1>2, FrameWorker
<1>5. WaveInv'
  BY <1>2, <1>3, <1>4 DEF WaveInv
<1>6. StageInv'
  <2>1. goal.status \notin Over /\ goal'.status = goal.status
    BY <1>1 DEF StageInv, SameFrame
  <2> QED BY <2>1 DEF StageInv
<1>7. PlaceInv'
  <2>1. review'.verified \in -1 .. Len(log') /\ review'.approved \in -1 .. Len(log')
    BY <1>1 DEF PlaceInv, Grown
  <2> QED BY <1>1, <2>1, Wording DEF PlaceInv
<1>8. \A old \in detached' : RecordInv(old, log') /\ old.status \notin Over
  BY GrownRecordInv DEF RunInv
<1> QED BY <1>5, <1>6, <1>7, <1>8 DEF RunInv

(* What the invariant says while results are read.                          *)
LEMMA AtCollecting ==
  ASSUME RunInv, NEW n, Collecting(n)
  PROVE  /\ run.at = "collecting" /\ run.todo # <<>>
         /\ n \in DOMAIN goal.nodes
         /\ WorkerInv(n, Worker(n), goal, log, trees, "collecting")
         /\ goal \in GoalRecord /\ RecordInv(goal, log) /\ RecordInv(disk, log)
         /\ goal.status \notin Over /\ disk.status \notin Over
         /\ DOMAIN run = RunFields
<1>1. run.at = "collecting" /\ run.todo # <<>> /\ Head(run.todo) = n
  BY DEF Collecting
<1>2. PlaceInv /\ StageInv /\ WaveInv /\ RecordInv(goal, log) /\ RecordInv(disk, log)
  BY DEF RunInv
<1>3. run.todo \in Seq(DOMAIN run.worker)
  BY <1>1, <1>2 DEF WaveInv
<1>4. n \in DOMAIN run.worker
  BY <1>1, <1>3
<1>5. WorkerInv(n, Worker(n), goal, log, trees, "collecting")
  BY <1>1, <1>2, <1>4 DEF WaveInv, Worker
<1>6. n \in DOMAIN goal.nodes
  BY <1>5 DEF WorkerInv
<1>7. goal \in GoalRecord
  BY <1>2 DEF RecordInv
<1>8. goal.status \notin Over /\ disk.status \notin Over
  BY <1>1, <1>2 DEF StageInv
<1> QED BY <1>1, <1>2, <1>5, <1>6, <1>7, <1>8 DEF PlaceInv

(* The run after one more result.                                           *)
LEMMA CollectedIs ==
  ASSUME DOMAIN run = RunFields
  PROVE  LET r == [run EXCEPT !.todo = Tail(@)]
         IN  /\ Collected = r
             /\ DOMAIN r = RunFields /\ r.at = run.at
             /\ r.worker = run.worker /\ r.wave = run.wave /\ r.todo = Tail(run.todo)
             /\ \A asked :
                  LET t == [r EXCEPT !.asked = asked]
                  IN  /\ DOMAIN t = RunFields /\ t.at = run.at /\ t.worker = run.worker
                      /\ t.wave = run.wave /\ t.todo = Tail(run.todo)
             /\ LET t == [r EXCEPT !.broke = TRUE]
                IN  /\ DOMAIN t = RunFields /\ t.at = run.at /\ t.worker = run.worker
                    /\ t.wave = run.wave /\ t.todo = Tail(run.todo)
BY DEF Collected, RunFields

(* A result is read that leaves the integration branch as it is.            *)
LEMMA ReadOnlyInv ==
  ASSUME RunInv, NEW n, Collecting(n), NEW h, Alike(goal, h),
         h.queries = goal.queries, h.status = goal.status,
         goal' = h, disk' = h \/ disk' = disk,
         run'.at = run.at, DOMAIN run' = RunFields,
         run'.worker = run.worker, run'.wave = run.wave, run'.todo = Tail(run.todo),
         UNCHANGED <<detached, git, review>>
  PROVE  RunInv'
<1>1. /\ run.at = "collecting" /\ run.todo # <<>> /\ RecordInv(goal, log) /\ RecordInv(disk, log)
      /\ goal.status \notin Over /\ disk.status \notin Over
  BY AtCollecting
<1>2. RecordInv(h, log)
  BY <1>1, AlikeRecordInv
<1>3. SameFrame(goal, goal')
  BY AlikeFrame
<1>4. UNCHANGED <<detached, trees, branch, review>> /\ log' = log
  BY DEF git
<1>5. /\ log' \in Seq(LogRecord) /\ Grown(log, log')
      /\ \A i \in 1 .. Len(log') : Based(log'[i].spec, log'[i].base, log')
  BY <1>4, SameLog
<1>6. RecordInv(goal', log') /\ RecordInv(disk', log') /\ disk'.status \notin Over
  BY <1>1, <1>2, <1>4
<1> QED BY <1>1, <1>3, <1>4, <1>5, <1>6, ReadInv

(* An attempt given a status leaves the queries and the Goal alone.         *)
LEMMA AttemptKeeps ==
  ASSUME NEW g \in GoalRecord, NEW a, NEW s \in AttemptStatus
  PROVE  /\ Alike(g, WithAttempt(g, a, s)) /\ WithAttempt(g, a, s).queries = g.queries
         /\ WithAttempt(g, a, s).status = g.status
<1> DEFINE h == WithAttempt(g, a, s)
<1>1. Alike(g, h)
  BY WithAttemptAlike
<1>2. h = [g EXCEPT !.attempts[a].status = s]
  BY DEF WithAttempt
<1>3. h.status = g.status /\ h.queries = g.queries
  BY <1>2 DEF GoalRecord
<1> HIDE DEF h
<1> QED BY <1>1, <1>3 DEF h

(* An attempt is given its final status after other changes.                *)
LEMMA FinalAttempt ==
  ASSUME NEW g \in GoalRecord, NEW n \in DOMAIN g.nodes, NEW h, Alike(g, h),
         h.queries = g.queries, h.status = g.status, NEW a, NEW s \in AttemptStatus
  PROVE  LET k == WithAttempt(h, a, s)
         IN  Alike(g, k) /\ k.queries = g.queries /\ k.status = g.status
<1>1. h \in GoalRecord
  BY DEF Alike
<1> DEFINE k == WithAttempt(h, a, s)
<1>2. Alike(h, k) /\ k.queries = h.queries /\ k.status = h.status
  BY <1>1, AttemptKeeps
<1> HIDE DEF k
<1>3. Alike(g, k)
  BY <1>2, AlikeTrans
<1> QED BY <1>2, <1>3 DEF k

(* A Worker that raised gives its node up, and the attempt it left running. *)
LEMMA CollectRaisedInv ==
  ASSUME RunInv, NEW n \in Nodes, CollectRaised(n)
  PROVE  RunInv'
<1> DEFINE g == GiveUp(goal, n)
<1>1. PICK left :
        Save(IF left = {} THEN g
             ELSE WithAttempt(g, CHOOSE a \in left : \A b \in left : b <= a, "failed"))
  BY DEF CollectRaised
<1>2. Collecting(n) /\ run' = Collected /\ UNCHANGED <<detached, git, review>>
  BY DEF CollectRaised
<1>3. goal \in GoalRecord /\ n \in DOMAIN goal.nodes /\ DOMAIN run = RunFields
  BY <1>2, AtCollecting
<1>4. Alike(goal, g) /\ g.queries = goal.queries /\ g.status = goal.status
  BY <1>3, GiveUpAlike
<1> HIDE DEF g
<1>5. PICK h : /\ Alike(goal, h) /\ h.queries = goal.queries /\ h.status = goal.status
               /\ Save(h)
  <2>1. CASE left = {}
    BY <1>1, <1>4, <2>1
  <2>2. CASE left # {}
    <3> DEFINE c == CHOOSE a \in left : \A b \in left : b <= a
               k == WithAttempt(g, c, "failed")
    <3>1. Save(k)
      BY <1>1, <2>2
    <3>2. "failed" \in AttemptStatus
      BY Words
    <3> HIDE DEF c
    <3>3. Alike(goal, k) /\ k.queries = goal.queries /\ k.status = goal.status
      BY <1>3, <1>4, <3>2, FinalAttempt
    <3> HIDE DEF k
    <3> QED BY <3>1, <3>3
  <2> QED BY <2>1, <2>2
<1>6. goal' = h /\ disk' = h
  BY <1>5 DEF Save
<1>7. /\ run'.at = run.at /\ DOMAIN run' = RunFields
      /\ run'.worker = run.worker /\ run'.wave = run.wave /\ run'.todo = Tail(run.todo)
  BY <1>2, <1>3, CollectedIs
<1> QED BY <1>2, <1>5, <1>6, <1>7, ReadOnlyInv

(* The result of a Worker that asked for a replan is stale.                 *)
LEMMA CollectReplanInv ==
  ASSUME RunInv, NEW n \in Nodes, CollectReplan(n)
  PROVE  RunInv'
<1> DEFINE g == WithNode(goal, n, "pending")
           h == WithAttempt(g, Worker(n).att, "stale_result")
<1>1. /\ Collecting(n) /\ Save(h) /\ UNCHANGED <<detached, git, review>>
      /\ run' = [Collected EXCEPT !.asked = @ \cup {Worker(n).query}]
  BY DEF CollectReplan
<1>2. goal \in GoalRecord /\ n \in DOMAIN goal.nodes /\ DOMAIN run = RunFields
  BY <1>1, AtCollecting
<1>3. "pending" \in NodeStatus /\ "pending" # "completed" /\ "stale_result" \in AttemptStatus
  BY Words
<1>4. Alike(goal, g) /\ g.queries = goal.queries /\ g.status = goal.status
  BY <1>2, <1>3, WithNodeAlike
<1>5. goal' = h /\ disk' = h
  BY <1>1 DEF Save
<1> HIDE DEF g
<1>6. Alike(goal, h) /\ h.queries = goal.queries /\ h.status = goal.status
  BY <1>2, <1>3, <1>4, FinalAttempt
<1> HIDE DEF h
<1>7. PICK asked : run' = [Collected EXCEPT !.asked = asked]
  BY <1>1
<1>8. /\ run'.at = run.at /\ DOMAIN run' = RunFields
      /\ run'.worker = run.worker /\ run'.wave = run.wave /\ run'.todo = Tail(run.todo)
  BY <1>2, <1>7, CollectedIs
<1> QED BY <1>1, <1>5, <1>6, <1>8, ReadOnlyInv

(* A Worker ran out of tokens.                                              *)
LEMMA CollectBrokeInv ==
  ASSUME RunInv, NEW n \in Nodes, CollectBroke(n)
  PROVE  RunInv'
<1> DEFINE g == GiveUp(goal, n)
           h == WithAttempt(g, Worker(n).att, "budget_exhausted")
<1>1. /\ Collecting(n) /\ goal' = h /\ disk' = disk /\ UNCHANGED <<detached, git, review>>
      /\ run' = [Collected EXCEPT !.broke = TRUE]
  BY DEF CollectBroke
<1>2. goal \in GoalRecord /\ n \in DOMAIN goal.nodes /\ DOMAIN run = RunFields
  BY <1>1, AtCollecting
<1>3. "budget_exhausted" \in AttemptStatus
  BY Words
<1>4. Alike(goal, g) /\ g.queries = goal.queries /\ g.status = goal.status
  BY <1>2, GiveUpAlike
<1> HIDE DEF g
<1>5. Alike(goal, h) /\ h.queries = goal.queries /\ h.status = goal.status
  BY <1>2, <1>3, <1>4, FinalAttempt
<1> HIDE DEF h
<1>6. /\ run'.at = run.at /\ DOMAIN run' = RunFields
      /\ run'.worker = run.worker /\ run'.wave = run.wave /\ run'.todo = Tail(run.todo)
  BY <1>1, <1>2, CollectedIs
<1> QED BY <1>1, <1>5, <1>6, ReadOnlyInv

(* A Worker failed, changed nothing or conflicts.                           *)
LEMMA CollectFailedInv ==
  ASSUME RunInv, NEW n \in Nodes, CollectFailed(n)
  PROVE  RunInv'
<1> DEFINE g == GiveUp(goal, n)
<1>1. PICK why \in {"failed", "merge_failed"} : Save(WithAttempt(g, Worker(n).att, why))
  BY DEF CollectFailed
<1> DEFINE h == WithAttempt(g, Worker(n).att, why)
<1>2. Collecting(n) /\ run' = Collected /\ UNCHANGED <<detached, git, review>>
  BY DEF CollectFailed
<1>3. goal \in GoalRecord /\ n \in DOMAIN goal.nodes /\ DOMAIN run = RunFields
  BY <1>2, AtCollecting
<1>4. why \in AttemptStatus
  BY Words
<1>5. Alike(goal, g) /\ g.queries = goal.queries /\ g.status = goal.status
  BY <1>3, GiveUpAlike
<1>6. goal' = h /\ disk' = h
  BY <1>1 DEF Save
<1> HIDE DEF g
<1>7. Alike(goal, h) /\ h.queries = goal.queries /\ h.status = goal.status
  BY <1>3, <1>4, <1>5, FinalAttempt
<1> HIDE DEF h
<1>8. /\ run'.at = run.at /\ DOMAIN run' = RunFields
      /\ run'.worker = run.worker /\ run'.wave = run.wave /\ run'.todo = Tail(run.todo)
  BY <1>2, <1>3, CollectedIs
<1> QED BY <1>2, <1>6, <1>7, <1>8, ReadOnlyInv

(* A Worker waits for the user: its question is in the record that is       *)
(* saved.                                                                   *)
LEMMA CollectWaitingInv ==
  ASSUME RunInv, NEW n \in Nodes, CollectWaiting(n)
  PROVE  RunInv'
<1> DEFINE g == WithNode(goal, n, "waiting_for_parent")
           h == [g EXCEPT !.status = "waiting_for_parent"]
           q == Worker(n).query
<1>1. /\ Collecting(n) /\ Result(n, "waiting_for_parent")
      /\ goal' = h /\ disk' = h /\ run' = IdleRun /\ UNCHANGED <<detached, git, review>>
  BY DEF CollectWaiting, Finish, Save
<1>2. /\ goal \in GoalRecord /\ n \in DOMAIN goal.nodes /\ RecordInv(goal, log)
      /\ WorkerInv(n, Worker(n), goal, log, trees, "collecting")
  BY <1>1, AtCollecting
<1>3. HasQuery(n, q, goal, "waiting_for_parent")
  BY <1>1, <1>2 DEF WorkerInv, Result
<1>4. /\ "waiting_for_parent" \in NodeStatus /\ "waiting_for_parent" # "completed"
      /\ "waiting_for_parent" \in GoalStatus
  BY Words
<1>5. Alike(goal, g) /\ g.queries = goal.queries /\ g \in GoalRecord
  <2>1. Alike(goal, g)
    BY <1>2, <1>4, WithNodeAlike
  <2>2. g = [goal EXCEPT !.nodes[n].status = "waiting_for_parent"]
    BY DEF WithNode
  <2>3. g.queries = goal.queries
    BY <1>2, <2>2 DEF GoalRecord
  <2>4. g \in GoalRecord
    BY <2>1 DEF Alike
  <2> QED BY <2>1, <2>3, <2>4
<1> HIDE DEF g
<1>6. Alike(g, h) /\ h.status = "waiting_for_parent" /\ h.queries = g.queries
  BY <1>4, <1>5, OuterAlike
<1> HIDE DEF h
<1>7. RecordInv(h, log) /\ h \in GoalRecord
  BY <1>2, <1>5, <1>6, AlikeRecordInv, AlikeIsRecord
<1>8. q \in WaitingQueries(h)
  <2>1. h.queries = goal.queries
    BY <1>5, <1>6
  <2>2. DOMAIN goal.queries = 1 .. Len(goal.queries)
    BY <1>2, RecordIs
  <2> QED BY <1>3, <2>1, <2>2 DEF WaitingQueries, HasQuery
<1>9. StageInv'
  BY <1>1, <1>6, <1>8, IdleIs DEF StageInv
<1>10. /\ run'.at \in Stages \ {"wave", "collecting"} /\ DOMAIN run' = RunFields
  BY <1>1, IdleIs, Wording
<1>11. /\ RecordInv(goal', log) /\ RecordInv(disk', log) /\ trees' \subseteq trees
       /\ branch' \in BOOLEAN /\ UNCHANGED <<detached, log, review>>
  BY <1>1, <1>7, SameLog DEF git
<1> QED BY <1>9, <1>10, <1>11, OutsideInv

(* The commit of a Worker is merged, and its node completed.                *)
LEMMA MergeInv ==
  ASSUME RunInv, NEW n \in Nodes, Merge(n)
  PROVE  RunInv'
<1> DEFINE g == WithNode(goal, n, "completed")
           h == WithAttempt(g, Worker(n).att, "integrated")
<1>1. /\ Collecting(n) /\ Result(n, "completed") /\ log' = Merged(n) /\ run' = Collected
      /\ goal' = h /\ disk' = h /\ UNCHANGED <<detached, trees, branch, review>>
  BY DEF Merge, Save
<1>2. /\ run.at = "collecting" /\ run.todo # <<>> /\ n \in DOMAIN goal.nodes
      /\ goal \in GoalRecord /\ RecordInv(goal, log) /\ goal.status \notin Over
      /\ DOMAIN run = RunFields
  BY <1>1, AtCollecting
<1>3. /\ log' \in Seq(LogRecord) /\ Grown(log, log')
      /\ \A i \in 1 .. Len(log') : Based(log'[i].spec, log'[i].base, log')
      /\ IsMerged(n, goal.nodes[n].spec, log')
  BY <1>1, MergedIs
<1>4. RecordInv(goal, log')
  BY <1>2, <1>3, GrownRecordInv
<1>5. /\ RecordInv(g, log') /\ g \in GoalRecord /\ g.status = goal.status
      /\ g.queries = goal.queries /\ g.attempts = goal.attempts
      /\ DOMAIN g.nodes = DOMAIN goal.nodes
      /\ \A m \in DOMAIN goal.nodes : g.nodes[m].spec = goal.nodes[m].spec
  BY <1>2, <1>3, <1>4, CompletedInv
<1> HIDE DEF g
<1>6. SameFrame(goal, g)
  BY <1>5 DEF SameFrame
<1>7. "integrated" \in AttemptStatus
  BY Words
<1>8. Alike(g, h) /\ h.queries = g.queries /\ h.status = g.status
  BY <1>5, <1>7, AttemptKeeps
<1> HIDE DEF h
<1>9. SameFrame(goal, h)
  BY <1>6, <1>8, AlikeFrame, SameFrameTrans
<1>10. RecordInv(h, log')
  BY <1>5, <1>8, AlikeRecordInv
<1>11. /\ run'.at = "collecting" /\ DOMAIN run' = RunFields
       /\ run'.worker = run.worker /\ run'.wave = run.wave /\ run'.todo = Tail(run.todo)
  BY <1>1, <1>2, CollectedIs
<1>12. /\ SameFrame(goal, goal') /\ RecordInv(goal', log') /\ RecordInv(disk', log')
       /\ disk'.status \notin Over
  BY <1>1, <1>2, <1>5, <1>8, <1>9, <1>10
<1> QED BY <1>1, <1>2, <1>3, <1>11, <1>12, ReadInv

(* Any reading of a result.                                                 *)
LEMMA CollectStepsInv ==
  ASSUME RunInv, NEW n \in Nodes, CollectStep(n)
  PROVE  RunInv'
BY CollectRaisedInv, CollectWaitingInv, CollectReplanInv, CollectBrokeInv,
   CollectFailedInv, MergeInv DEF CollectStep

-----------------------------------------------------------------------------
(* The record start() saves.                                                *)
LEMMA NewGoalInv == RecordInv(NewGoal, <<>>) /\ NewGoal.status = "planning"
<1> DEFINE g == NewGoal
<1>1. /\ g.status = "planning" /\ g.nodes = <<>> /\ g.attempts = <<>> /\ g.queries = <<>>
      /\ g.replans = 0 /\ g.critics = 0 /\ g.opened = FALSE /\ g.windows = 1
      /\ g = [status |-> "planning", nodes |-> <<>>, attempts |-> <<>>, queries |-> <<>>,
              replans |-> 0, critics |-> 0, opened |-> FALSE, windows |-> 1]
  BY DEF NewGoal
<1>2. <<>> \in NodeTables
  <2>1. <<>> \in [{} -> NodeRecord] /\ DOMAIN <<>> = {}
    OBVIOUS
  <2>2. {} \in SUBSET Nodes
    OBVIOUS
  <2>3. <<>> \in UNION {[S -> NodeRecord] : S \in SUBSET Nodes}
    BY <2>1, <2>2
  <2>4. IsFiniteSet({})
    BY FS_EmptySet
  <2> QED BY <2>1, <2>3, <2>4 DEF NodeTables
<1>3. 0 \in 0 .. MaxReplans
  BY GoalAssumptions
<1>4. "planning" \in GoalStatus
  BY Words
<1>5. <<>> \in Seq(AttemptRecord) /\ <<>> \in Seq(QueryRecord)
  OBVIOUS
<1>6. g \in GoalRecord
  BY <1>1, <1>2, <1>3, <1>4, <1>5 DEF GoalRecord
<1> HIDE DEF g
<1>7. DOMAIN g.nodes = {} /\ Completed(g) = {} /\ Len(g.attempts) = 0
  BY <1>1 DEF Completed
<1>8. ASSUME NEW n \in Nodes PROVE Cardinality(AttemptsOf(g, n)) <= Allowed(g, n)
  <2>1. AttemptsOf(g, n) = {}
    BY <1>1 DEF AttemptsOf
  <2>2. Cardinality({}) = 0
    BY FS_EmptySet
  <2>3. Allowed(g, n) = 0
    BY <1>1, <1>7, GoalAssumptions DEF Allowed, Used
  <2> QED BY <2>1, <2>2, <2>3
<1>9. RecordInv(g, <<>>)
  BY <1>1, <1>6, <1>7, <1>8 DEF RecordInv
<1> QED BY <1>1, <1>9 DEF g

(* The invariant holds when a task is first scheduled.                      *)
LEMMA RunInvHolds == Init => RunInv
<1> SUFFICES ASSUME Init PROVE RunInv
  OBVIOUS
<1>1. /\ goal = NewGoal /\ disk = NewGoal /\ detached = {} /\ log = <<>> /\ trees = {}
      /\ branch = FALSE /\ run = At("loading") /\ review = [verified |-> -1, approved |-> -1]
  BY DEF Init
<1>2. run.at = "loading" /\ DOMAIN run = RunFields
  BY <1>1, AtIs
<1>3. PlaceInv
  <2>1. log \in Seq(LogRecord) /\ Len(log) = 0
    BY <1>1
  <2>2. DOMAIN review = {"verified", "approved"} /\ review.verified = -1 /\ review.approved = -1
    BY <1>1
  <2>3. review.verified \in -1 .. Len(log) /\ review.approved \in -1 .. Len(log)
    BY <2>1, <2>2
  <2>4. \A i \in 1 .. Len(log) : Based(log[i].spec, log[i].base, log)
    BY <2>1
  <2>5. trees \subseteq Nodes \X Nat /\ branch \in BOOLEAN
    BY <1>1
  <2> QED BY <1>2, <2>1, <2>2, <2>3, <2>4, <2>5, Wording DEF PlaceInv
<1>4. RecordInv(goal, log) /\ RecordInv(disk, log) /\ goal.status = "planning"
  BY <1>1, NewGoalInv
<1>5. StageInv
  BY <1>1, <1>2, <1>4 DEF StageInv, Over
<1>6. WaveInv
  BY <1>2 DEF WaveInv
<1> QED BY <1>1, <1>3, <1>4, <1>5, <1>6 DEF RunInv

(* Every step keeps the invariant.                                          *)
LEMMA RunInvIsInductive == RunInv /\ [Next]_vars => RunInv'
<1> SUFFICES ASSUME RunInv, [Next]_vars PROVE RunInv'
  OBVIOUS
<1>1. CASE RunStep
  <2>1. CASE \E p \in Plans : PlanInitially(p) \/ PlanAgain(p)
    BY <2>1, PlanInitiallyInv, PlanAgainInv
  <2>2. CASE Load \/ PlanFails \/ Open \/ OpenFails \/ Iterate
    BY <2>2, LoadInv, PlanFailsInv, OpenInv, OpenFailsInv, IterateInv
  <2>3. CASE \E n \in Nodes : WorkerStep(n)
    BY <2>3, WorkerStepsInv
  <2>4. CASE Gather \/ Settle
    BY <2>4, GatherInv, SettleInv
  <2>5. CASE \E n \in Nodes : CollectStep(n)
    BY <2>5, CollectStepsInv
  <2>6. CASE VerifiersPass \/ VerifiersFail \/ CriticPasses \/ CriticRevises \/ CriticFails
    BY <2>6, VerifiersPassInv, VerifiersFailInv, CriticPassesInv, CriticRevisesInv, CriticFailsInv
  <2> QED BY <1>1, <2>1, <2>2, <2>3, <2>4, <2>5, <2>6 DEF RunStep
<1>2. CASE Environment
  <2>1. CASE \E s \in {"cancelled", "budget_exhausted"} : Interrupt(s)
    BY <2>1, InterruptInv
  <2>2. CASE CancelUnstarted \/ DetachedSave \/ DetachedEnds \/ BudgetSave
    BY <2>2, CancelUnstartedInv, DetachedSaveInv, DetachedEndsInv, BudgetSaveInv
  <2>3. CASE Crash \/ CrashAfterBranch
    BY <2>3, CrashInv, CrashAfterBranchInv
  <2>4. CASE \E n \in Nodes : CrashAfterWorktree(n) \/ CrashAfterMerge(n)
    BY <2>4, CrashAfterWorktreeInv, CrashAfterMergeInv
  <2> QED BY <1>2, <2>1, <2>2, <2>3, <2>4 DEF Environment
<1>3. CASE Commands
  BY <1>3, ResumeInv, CancelIdleInv, AnswerInv DEF Commands
<1>4. CASE UNCHANGED vars
  BY <1>4 DEF RunInv, PlaceInv, StageInv, WaveInv, Worker, Busy, vars, git
<1> QED BY <1>1, <1>2, <1>3, <1>4 DEF Next

(* The invariant holds always.                                              *)
LEMMA RunInvAlways == Spec => []RunInv
<1>1. Init => RunInv
  BY RunInvHolds
<1>2. RunInv /\ [Next]_vars => RunInv'
  BY RunInvIsInductive
<1> QED BY <1>1, <1>2, PTL DEF Spec

-----------------------------------------------------------------------------
(* A record of the invariant has its type.                                  *)
LEMMA RecordIsOK ==
  ASSUME NEW g, NEW l, RecordInv(g, l)
  PROVE  GoalOK(g)
<1>1. g \in GoalRecord
  BY DEF RecordInv
<1>2. DOMAIN g = DOMAIN NewGoal
  BY <1>1 DEF GoalRecord, NewGoal
<1>3. \A n \in DOMAIN g.nodes : g.nodes[n] \in NodeRecord
  BY <1>1, RecordIs
<1>4. \A a \in DOMAIN g.attempts : g.attempts[a] \in AttemptRecord
  BY <1>1, RecordIs
<1>5. \A q \in DOMAIN g.queries : g.queries[q] \in QueryRecord
  BY <1>1, RecordIs
<1>6. /\ g.status \in GoalStatus /\ DOMAIN g.nodes \subseteq Nodes
      /\ g.replans \in 0 .. MaxReplans
      /\ g.critics \in Nat /\ g.windows \in Nat /\ g.opened \in BOOLEAN
  BY <1>1, RecordIs
<1> QED BY <1>2, <1>3, <1>4, <1>5, <1>6 DEF GoalOK

(* The invariant gives the types.                                           *)
LEMMA RunInvType == RunInv => TypeOK
<1> SUFFICES ASSUME RunInv PROVE TypeOK
  OBVIOUS
<1>1. GoalOK(goal) /\ GoalOK(disk) /\ \A old \in detached : GoalOK(old)
  BY RecordIsOK DEF RunInv
<1>2. PlaceInv
  BY DEF RunInv
<1> QED BY <1>1, <1>2 DEF TypeOK, PlaceInv

(* The invariant gives that what is reported completed is.                  *)
LEMMA RunInvCompleted == RunInv => CompletedIsSound
<1> SUFFICES ASSUME RunInv PROVE CompletedIsReviewed /\ CompletedIsMerged
  BY DEF CompletedIsSound
<1>1. PlaceInv /\ StageInv /\ RecordInv(disk, log)
  BY DEF RunInv
<1>2. CompletedIsReviewed
  <2> SUFFICES ASSUME disk.status = "completed"
               PROVE  /\ AllCompleted(disk)
                      /\ review.verified = Len(log) /\ review.approved = Len(log)
    BY DEF CompletedIsReviewed, AllCompleted, Completed
  <2>1. run.at = "idle"
    BY <1>1 DEF StageInv, Over
  <2> QED BY <1>1, <2>1 DEF StageInv
<1>3. CompletedIsMerged
  <2>1. DOMAIN log = 1 .. Len(log)
    BY <1>1 DEF PlaceInv
  <2>2. \A n \in Completed(disk) : IsMerged(n, disk.nodes[n].spec, log)
    BY <1>1 DEF RecordInv
  <2> QED BY <2>1, <2>2 DEF CompletedIsMerged, IsMerged
<1> QED BY <1>2, <1>3

(* The count of attempts, for each version of the plan.                     *)
LEMMA PerVersion ==
  ASSUME NEW c \in Nat, NEW m \in Nat, NEW r \in Nat, NEW u \in Nat, u <= m, c <= m * r + u
  PROVE  c <= m * (r + 1)
<1>1. m * (r + 1) = m * r + m /\ m * r \in Nat
  OBVIOUS
<1> DEFINE x == m * r
<1> HIDE DEF x
<1> QED BY <1>1 DEF x

(* The invariant gives that dispatches are sound.                           *)
LEMMA RunInvDispatch == RunInv => DispatchIsSound
<1> SUFFICES ASSUME RunInv PROVE PrerequisitesInBase /\ AttemptsBounded /\ WorkersIsolated
  BY DEF DispatchIsSound
<1>1. PlaceInv /\ WaveInv /\ RecordInv(disk, log) /\ disk \in GoalRecord
  BY DEF RunInv, RecordInv
<1>2. PrerequisitesInBase
  <2>1. DOMAIN log = 1 .. Len(log) /\ \A i \in 1 .. Len(log) : Based(log[i].spec, log[i].base, log)
    BY <1>1 DEF PlaceInv
  <2> QED BY <2>1 DEF PrerequisitesInBase, Based
<1>3. AttemptsBounded
  <2> SUFFICES ASSUME NEW n \in Nodes
               PROVE  Cardinality(AttemptsOf(disk, n)) <= MaxAttempts * (disk.replans + 1)
    BY DEF AttemptsBounded
  <2>1. Cardinality(AttemptsOf(disk, n)) <= MaxAttempts * disk.replans + Used(disk, n)
    BY <1>1 DEF RecordInv, Allowed
  <2>2. Cardinality(AttemptsOf(disk, n)) \in Nat /\ MaxAttempts \in Nat
    BY <1>1, AttemptsFinite, GoalAssumptions
  <2>3. disk.replans \in Nat
    BY <1>1, RecordIs, GoalAssumptions
  <2>4. Used(disk, n) \in Nat /\ Used(disk, n) <= MaxAttempts
    <3>1. \A m \in DOMAIN disk.nodes : disk.nodes[m].used \in 0 .. MaxAttempts
      BY <1>1, RecordIs DEF NodeRecord
    <3> QED BY <2>2, <3>1 DEF Used
  <2> QED BY <2>1, <2>2, <2>3, <2>4, PerVersion
<1>4. WorkersIsolated
  <2> SUFFICES ASSUME run.at = "wave"
               PROVE  /\ Cardinality(Busy) <= Concurrency
                      /\ \A m, n \in Busy : m # n => Worker(m).att # Worker(n).att
                      /\ \A n \in Busy :
                           LET a == goal.attempts[Worker(n).att]
                           IN  a.node = n /\ a.status = "running" /\ a.base = Len(log)
                               /\ <<n, a.num>> \in trees
    BY DEF WorkersIsolated
  <2>1. Cardinality(Busy) <= Concurrency
    BY <1>1 DEF WaveInv
  <2>2. ASSUME NEW n \in Busy PROVE AtWorkInv(n, Worker(n).att, goal, log, trees)
    <3>1. n \in DOMAIN run.worker /\ Working(Worker(n))
      BY DEF Busy, Working
    <3>2. WorkerInv(n, Worker(n), goal, log, trees, "wave")
      BY <3>1, AtWave
    <3> QED BY <3>1, <3>2, AtWorkIs
  <2>3. ASSUME NEW n \in Busy
        PROVE  LET a == goal.attempts[Worker(n).att]
               IN  a.node = n /\ a.status = "running" /\ a.base = Len(log)
                   /\ <<n, a.num>> \in trees
    BY <2>2 DEF AtWorkInv, HasAttempt
  <2>4. \A m, n \in Busy : m # n => Worker(m).att # Worker(n).att
    <3>1. \A n \in Busy : goal.attempts[Worker(n).att].node = n
      BY <2>3
    <3> TAKE m, n \in Busy
    <3>2. goal.attempts[Worker(m).att].node = m /\ goal.attempts[Worker(n).att].node = n
      BY <3>1
    <3> QED BY <3>2
  <2> QED BY <2>1, <2>3, <2>4
<1> QED BY <1>2, <1>3, <1>4

(* The invariant gives that a waiting Goal has a question.                  *)
LEMMA RunInvWaiting == RunInv => WaitingHasQuestion
BY DEF RunInv, StageInv, WaitingHasQuestion

-----------------------------------------------------------------------------
(* Every record, in memory, in goal.json or with a detached turn, is one a  *)
(* Goal can have, wherever the run is and however often it was interrupted, *)
(* resumed, answered or killed.                                             *)
THEOREM RunTypesCorrect == Spec => []TypeOK
<1>1. RunInv => TypeOK
  BY RunInvType
<1> QED BY <1>1, RunInvAlways, PTL

(* A Goal reported as completed is the candidate that passed the verifiers  *)
(* and then the Critic, with all its nodes merged under the contracts they  *)
(* have (CriticPasses is the only way to "completed", and nothing that runs *)
(* afterwards, a detached turn's save included, moves the branch).          *)
THEOREM CompletedWasReviewed == Spec => []CompletedIsSound
<1>1. RunInv => CompletedIsSound
  BY RunInvCompleted
<1> QED BY <1>1, RunInvAlways, PTL

(* Whoever was dispatched had its prerequisites in the head it started      *)
(* from, in a worktree of its own, at most MaxAttempts times for each       *)
(* version of the plan, with no more than Concurrency at a time.            *)
THEOREM DispatchWasSound == Spec => []DispatchIsSound
<1>1. RunInv => DispatchIsSound
  BY RunInvDispatch
<1> QED BY <1>1, RunInvAlways, PTL

(* A Goal that stopped to wait for the user has a question that /goal       *)
(* answer can take.                                                         *)
THEOREM WaitingCanBeAnswered == Spec => []WaitingHasQuestion
<1>1. RunInv => WaitingHasQuestion
  BY RunInvWaiting
<1> QED BY <1>1, RunInvAlways, PTL

-----------------------------------------------------------------------------
(* What ends a Goal.  Where no child turn outlives its run, the record that *)
(* a run works on has not ended, and neither has its file.                  *)
EndStatuses == {"completed", "cancelled"}
GoesOn ==
  /\ detached = {}
  /\ run.at # "idle" => goal.status \notin EndStatuses /\ disk.status \notin EndStatuses
StepGoesOn ==
  /\ detached' = {}
  /\ run'.at = "idle" \/ (goal'.status \notin EndStatuses /\ disk'.status \notin EndStatuses)

(* The task works on; a record is written that has not ended either.        *)
LEMMA TaskWorksOn ==
  ASSUME GoesOn, run.at # "idle", UNCHANGED detached,
         goal'.status \in {goal.status, disk.status, "running"},
         disk'.status \in {goal.status, disk.status, "running"}
  PROVE  StepGoesOn
BY DEF GoesOn, StepGoesOn, EndStatuses

(* The run ends.                                                            *)
LEMMA FinishGoesOn ==
  ASSUME GoesOn, UNCHANGED detached, NEW g, NEW s, Finish(g, s)
  PROVE  StepGoesOn
BY IdleIs DEF GoesOn, StepGoesOn, Finish

(* A replan makes the record neither completed nor cancelled, be it the     *)
(* last.                                                                    *)
LEMMA ReplanGoesOn ==
  ASSUME GoesOn, run.at # "idle", UNCHANGED detached, NEW g, g.status = goal.status,
         NEW why, NEW asked, Replan(g, why, asked)
  PROVE  StepGoesOn
<1>1. CASE g.replans >= MaxReplans
  BY <1>1, FinishGoesOn DEF Replan
<1>2. CASE ~(g.replans >= MaxReplans)
  BY <1>2, TaskWorksOn DEF Replan
<1> QED BY <1>1, <1>2

(* No change of a part of a record is one of its status.                    *)
LEMMA StatusStays ==
  ASSUME NEW g \in GoalRecord
  PROVE  /\ \A t : [g EXCEPT !.nodes = t].status = g.status
         /\ \A t : [g EXCEPT !.attempts = t].status = g.status
         /\ \A t : [g EXCEPT !.queries = t].status = g.status
         /\ \A t : [g EXCEPT !.critics = t].status = g.status
         /\ \A t, u : [g EXCEPT !.replans = t, !.nodes = u].status = g.status
BY DEF GoalRecord

(* The steps of the run before and between its Workers keep a record that   *)
(* has not ended.                                                           *)
LEMMA PlannerGoesOn ==
  ASSUME GoesOn, goal \in GoalRecord, disk \in GoalRecord,
         \/ Load \/ PlanFails \/ Open \/ OpenFails \/ Iterate \/ Settle \/ Gather
         \/ \E p \in Plans : PlanInitially(p) \/ PlanAgain(p)
  PROVE  StepGoesOn
<1>1. CASE Load
  <2>1. goal' = disk /\ disk' = disk /\ run.at # "idle" /\ UNCHANGED detached
    BY <1>1 DEF Load, Save
  <2> QED BY <2>1, TaskWorksOn
<1>2. CASE PlanFails \/ OpenFails
  BY <1>2, FinishGoesOn DEF PlanFails, OpenFails
<1>3. CASE Open
  <2> DEFINE h == [goal EXCEPT !.opened = TRUE, !.status = "running"]
  <2>1. goal' = h /\ disk' = h /\ run.at # "idle" /\ UNCHANGED detached
    BY <1>3 DEF Open, Save
  <2>2. h.status = "running"
    BY OuterAlike
  <2> HIDE DEF h
  <2> QED BY <2>1, <2>2, TaskWorksOn
<1>4. CASE Iterate
  <2> DEFINE h == Marked(goal)
  <2>1. h.status = goal.status
    BY StatusStays DEF Marked
  <2>2. run.at # "idle" /\ UNCHANGED detached
    BY <1>4 DEF Iterate
  <2>3. \/ UNCHANGED <<goal, disk>>
        \/ goal' = h /\ disk' = disk
        \/ Replan(h, "DAG has no runnable node", {})
    BY <1>4 DEF Iterate
  <2> HIDE DEF h
  <2> QED BY <2>1, <2>2, <2>3, TaskWorksOn, ReplanGoesOn
<1>5. CASE Settle
  <2>1. run.at # "idle" /\ UNCHANGED detached
    BY <1>5 DEF Settle
  <2>2. \/ Finish(goal, "budget_exhausted")
        \/ Replan(goal, "Worker query changes the DAG", run.asked)
        \/ Replan(goal, "Worker exhausted its attempts", {})
        \/ UNCHANGED <<goal, disk>>
    BY <1>5 DEF Settle
  <2> QED BY <2>1, <2>2, FinishGoesOn, ReplanGoesOn, TaskWorksOn
<1>6. CASE Gather
  <2>1. run.at # "idle" /\ UNCHANGED <<goal, disk, detached>>
    BY <1>6 DEF Gather
  <2> QED BY <2>1, TaskWorksOn
<1>7. ASSUME NEW p \in Plans, PlanInitially(p) PROVE StepGoesOn
  <2> DEFINE h == Applied(goal, p)
  <2>1. goal' = h /\ disk' = h /\ run.at # "idle" /\ UNCHANGED detached
    BY <1>7 DEF PlanInitially, Save
  <2>2. h.status = goal.status
    BY StatusStays DEF Applied
  <2> HIDE DEF h
  <2> QED BY <2>1, <2>2, TaskWorksOn
<1>8. ASSUME NEW p \in Plans, PlanAgain(p) PROVE StepGoesOn
  <2> DEFINE g == [Applied(goal, p) EXCEPT !.replans = @ + 1]
             h == [g EXCEPT !.queries = [q \in DOMAIN @ |->
                     IF q \in run.asked THEN [@[q] EXCEPT !.status = "replanned"] ELSE @[q]]]
  <2>1. goal' = h /\ disk' = h /\ run.at # "idle" /\ UNCHANGED detached
    BY <1>8 DEF PlanAgain, Save
  <2>2. h.status = goal.status
    BY DEF Applied, GoalRecord
  <2> HIDE DEF h
  <2> QED BY <2>1, <2>2, TaskWorksOn
<1> QED BY <1>1, <1>2, <1>3, <1>4, <1>5, <1>6, <1>7, <1>8

(* So do the Workers.                                                       *)
LEMMA WorkersGoOn ==
  ASSUME GoesOn, goal \in GoalRecord, NEW n \in Nodes, WorkerStep(n)
  PROVE  StepGoesOn
<1>1. run.at # "idle" /\ UNCHANGED detached
  BY DEF WorkerStep, Dispatch, DispatchFails, WorkerCompletes, WorkerStops, WorkerFails,
         WorkerAsks, Resolve, Admitted, InFlight, Resolving
<1>2. \A a, s : WithAttempt(goal, a, s).status = goal.status
  BY DEF WithAttempt, GoalRecord
<1>3. \A q, s : WithQuery(goal, q, s).status = goal.status
  BY DEF WithQuery, GoalRecord
<1>4. \A a, s, q, r : WithAttempt(WithQuery(goal, q, r), a, s).status = goal.status
  BY DEF WithAttempt, WithQuery, GoalRecord
<1>5. CASE Dispatch(n)
  <2>1. goal' = Dispatched(goal, n) /\ disk' = Dispatched(goal, n)
    BY <1>5 DEF Dispatch, Save
  <2>2. Dispatched(goal, n).status = goal.status
    BY DEF Dispatched, GoalRecord
  <2> QED BY <1>1, <2>1, <2>2, TaskWorksOn
<1>6. CASE DispatchFails(n)
  <2> DEFINE h == [goal EXCEPT !.nodes[n].used = @ + 1]
  <2>1. goal' = h /\ disk' = disk
    BY <1>6 DEF DispatchFails
  <2>2. h.status = goal.status
    BY DEF GoalRecord
  <2> HIDE DEF h
  <2> QED BY <1>1, <2>1, <2>2, TaskWorksOn
<1>7. CASE WorkerCompletes(n) \/ WorkerStops(n) \/ WorkerFails(n)
  BY <1>1, <1>2, <1>7, TaskWorksOn DEF WorkerCompletes, WorkerStops, WorkerFails, Save
<1>8. ASSUME NEW impact \in Impacts, WorkerAsks(n, impact) PROVE StepGoesOn
  <2> DEFINE Asks(status) == [goal EXCEPT !.queries = Append(@, Query(n, status))]
  <2>1. /\ \A s : Asks(s).status = goal.status
        /\ \A s, a, t : WithAttempt(Asks(s), a, t).status = goal.status
    BY DEF WithAttempt, GoalRecord
  <2>2. \/ \E a, s, t : goal' = WithAttempt(Asks(s), a, t) /\ disk' = WithAttempt(Asks(s), a, t)
        \/ \E s, t : goal' = Asks(s) /\ disk' = Asks(t)
    BY <1>8 DEF WorkerAsks, WaitForParent, Save
  <2> HIDE DEF Asks
  <2> QED BY <1>1, <2>1, <2>2, TaskWorksOn
<1>9. CASE Resolve(n)
  BY <1>1, <1>3, <1>4, <1>9, TaskWorksOn DEF Resolve, WaitForParent, Save
<1> QED BY <1>5, <1>6, <1>7, <1>8, <1>9 DEF WorkerStep

(* So does the collection of their results.                                 *)
LEMMA CollectingGoesOn ==
  ASSUME GoesOn, goal \in GoalRecord, NEW n \in Nodes, CollectStep(n)
  PROVE  StepGoesOn
<1>1. run.at # "idle" /\ UNCHANGED detached
  BY DEF CollectStep, CollectRaised, CollectWaiting, CollectReplan, CollectBroke,
         CollectFailed, Merge, Collecting
<1>2. \A s : WithNode(goal, n, s).status = goal.status
  BY DEF WithNode, GoalRecord
<1>3. \A a, r, s : WithAttempt(WithNode(goal, n, r), a, s).status = goal.status
  BY DEF WithNode, WithAttempt, GoalRecord
<1>4. CASE CollectRaised(n)
  <2> DEFINE g == GiveUp(goal, n)
             left == RunningAttempts(g) \cap AttemptsOf(g, n)
             c == CHOOSE a \in left : \A b \in left : b <= a
  <2>1. goal' = (IF left = {} THEN g ELSE WithAttempt(g, c, "failed"))
    BY <1>4 DEF CollectRaised, Save
  <2>2. disk' = goal'
    BY <1>4 DEF CollectRaised, Save
  <2>3. g.status = goal.status
    BY <1>2 DEF GiveUp
  <2>4. WithAttempt(g, c, "failed").status = goal.status
    BY <1>3 DEF GiveUp
  <2> HIDE DEF g, left, c
  <2> QED BY <1>1, <2>1, <2>2, <2>3, <2>4, TaskWorksOn
<1>5. CASE CollectWaiting(n)
  BY <1>1, <1>5, FinishGoesOn DEF CollectWaiting
<1>6. CASE CollectReplan(n) \/ Merge(n)
  BY <1>1, <1>3, <1>6, TaskWorksOn DEF CollectReplan, Merge, Save
<1>7. CASE CollectBroke(n) \/ CollectFailed(n)
  <2>1. \E r, a, s : goal' = WithAttempt(WithNode(goal, n, r), a, s) /\ disk' \in {disk, goal'}
    BY <1>7 DEF CollectBroke, CollectFailed, GiveUp, Save
  <2> QED BY <1>1, <1>3, <2>1, TaskWorksOn
<1> QED BY <1>4, <1>5, <1>6, <1>7 DEF CollectStep

(* A review that ends the Goal ends the run with it.                        *)
LEMMA ReviewGoesOn ==
  ASSUME GoesOn, goal \in GoalRecord,
         VerifiersPass \/ VerifiersFail \/ CriticPasses \/ CriticRevises \/ CriticFails
  PROVE  StepGoesOn
<1>1. run.at # "idle" /\ UNCHANGED detached
  BY DEF VerifiersPass, VerifiersFail, CriticPasses, CriticRevises, CriticFails
<1>2. CASE VerifiersPass
  BY <1>1, <1>2, TaskWorksOn DEF VerifiersPass, Save
<1>3. CASE VerifiersFail
  BY <1>1, <1>3, FinishGoesOn, TaskWorksOn DEF VerifiersFail, Save
<1>4. CASE CriticPasses \/ CriticFails
  BY <1>1, <1>4, FinishGoesOn DEF CriticPasses, CriticFails
<1>5. CASE CriticRevises
  <2> DEFINE g == [goal EXCEPT !.critics = @ + 1]
  <2>1. g.status = goal.status
    BY DEF GoalRecord
  <2>2. Finish(g, "blocked") \/ (goal' = g /\ disk' = g)
    BY <1>5 DEF CriticRevises, Save
  <2> HIDE DEF g
  <2> QED BY <1>1, <2>1, <2>2, FinishGoesOn, TaskWorksOn
<1> QED BY <1>2, <1>3, <1>4, <1>5

(* The others: who interrupts, whatever dies, and the commands.             *)
LEMMA OthersGoOn ==
  ASSUME GoesOn, MaxDetached = 0, goal \in GoalRecord, disk \in GoalRecord,
         Environment \/ Commands \/ UNCHANGED vars
  PROVE  GoesOn'
<1>1. CASE \E s \in {"cancelled", "budget_exhausted"} : Interrupt(s)
  <2>1. (run' = IdleRun /\ UNCHANGED detached) \/ Cardinality(detached) < 0
    BY <1>1 DEF Interrupt, Finish
  <2>2. Cardinality(detached) = 0
    BY FS_EmptySet DEF GoesOn
  <2> QED BY <2>1, <2>2, IdleIs DEF GoesOn
<1>2. CASE CancelUnstarted \/ Crash \/ CrashAfterBranch
           \/ \E n \in Nodes : CrashAfterWorktree(n) \/ CrashAfterMerge(n)
  BY <1>2, IdleIs DEF CancelUnstarted, Finish, Crash, CrashAfterBranch, CrashAfterWorktree,
                      CrashAfterMerge, Dies, GoesOn
<1>3. CASE DetachedSave \/ DetachedEnds
  BY <1>3 DEF DetachedSave, DetachedEnds, GoesOn
<1>4. CASE BudgetSave
  BY <1>4 DEF BudgetSave, Save, GoesOn
<1>5. \A q : Answered(disk, q).status = "running"
  BY DEF Answered, Renewed, WithNode, WithQuery, GoalRecord
<1>6. Renewed(Recovered(disk)).status = "running"
  BY DEF Renewed, Recovered, GoalRecord
<1>7. "running" \notin EndStatuses
  BY DEF EndStatuses
<1>8. CASE Resume
  BY <1>6, <1>7, <1>8 DEF Resume, Save, GoesOn
<1>9. CASE CancelIdle
  BY <1>9 DEF CancelIdle, GoesOn
<1>10. CASE \E q \in DOMAIN disk.queries : Answer(q)
  BY <1>5, <1>7, <1>10 DEF Answer, Save, GoesOn
<1>11. CASE UNCHANGED vars
  BY <1>11 DEF vars, git, GoesOn
<1> QED BY <1>1, <1>2, <1>3, <1>4, <1>8, <1>9, <1>10, <1>11 DEF Environment, Commands

(* A step of anybody keeps a run working on a Goal that has not ended.      *)
LEMMA GoesOnStep ==
  ASSUME RunInv, GoesOn, MaxDetached = 0, [Next]_vars
  PROVE  GoesOn'
<1>1. goal \in GoalRecord /\ disk \in GoalRecord
  BY DEF RunInv, RecordInv
<1>2. StepGoesOn => GoesOn'
  BY DEF StepGoesOn, GoesOn
<1>3. CASE RunStep
  <2>1. CASE \E n \in Nodes : WorkerStep(n)
    BY <1>1, <1>2, <2>1, WorkersGoOn
  <2>2. CASE \E n \in Nodes : CollectStep(n)
    BY <1>1, <1>2, <2>2, CollectingGoesOn
  <2>3. CASE VerifiersPass \/ VerifiersFail \/ CriticPasses \/ CriticRevises \/ CriticFails
    BY <1>1, <1>2, <2>3, ReviewGoesOn
  <2>4. CASE \/ Load \/ PlanFails \/ Open \/ OpenFails \/ Iterate \/ Settle \/ Gather
             \/ \E p \in Plans : PlanInitially(p) \/ PlanAgain(p)
    BY <1>1, <1>2, <2>4, PlannerGoesOn
  <2> QED BY <1>3, <2>1, <2>2, <2>3, <2>4 DEF RunStep
<1>4. CASE ~RunStep
  BY <1>1, <1>4, OthersGoOn DEF Next
<1> QED BY <1>3, <1>4

(* No step but an answer changes the status of a Goal that has ended.       *)
OnlyAnswersRevive ==
  [][disk.status \in EndStatuses /\ disk'.status # disk.status
       => \E q \in DOMAIN disk.queries : Answer(q)]_vars

(* On a Goal that has ended nobody works, and of the commands only /goal    *)
(* answer writes its status.                                                *)
LEMMA EndedStays ==
  ASSUME GoesOn, [Next]_vars, disk.status \in EndStatuses, disk'.status # disk.status
  PROVE  \E q \in DOMAIN disk.queries : Answer(q)
<1>1. run.at = "idle" /\ detached = {}
  BY DEF GoesOn
<1>2. ~RunStep
  BY <1>1 DEF RunStep, Load, PlanInitially, PlanAgain, PlanFails, Open, OpenFails, Iterate,
     WorkerStep, Dispatch, DispatchFails, WorkerCompletes, WorkerStops, WorkerFails,
     WorkerAsks, Resolve, Admitted, InFlight, Resolving, Gather, CollectStep, CollectRaised,
     CollectWaiting, CollectReplan, CollectBroke, CollectFailed, Merge, Collecting, Settle,
     VerifiersPass, VerifiersFail, CriticPasses, CriticRevises, CriticFails
<1>3. ~Environment
  BY <1>1 DEF Environment, Interrupt, Awaiting, CancelUnstarted, DetachedSave, DetachedEnds,
     BudgetSave, Crash, CrashAfterBranch, CrashAfterWorktree, CrashAfterMerge, Admitted,
     Collecting
<1>4. ~Resume /\ ~CancelIdle /\ ~UNCHANGED vars
  BY DEF Resume, CancelIdle, vars, EndStatuses
<1> QED BY <1>2, <1>3, <1>4 DEF Next, Commands

(* Where no child turn outlives its run, completed and cancelled are final, *)
(* as goal_manager.py:150-151 has it, for everybody but /goal answer: a     *)
(* query that was left open is what can revive the Goal.                    *)
THEOREM EndedGoalsWaitForAnswers == MaxDetached = 0 => (Spec => OnlyAnswersRevive)
<1> SUFFICES ASSUME MaxDetached = 0 PROVE Spec => OnlyAnswersRevive
  OBVIOUS
<1>1. Init => GoesOn
  <2>1. At("loading").at = "loading" /\ NewGoal.status = "planning"
    BY AtIs, NewGoalInv DEF Stages
  <2> QED BY <2>1 DEF Init, GoesOn, EndStatuses
<1>2. RunInv /\ GoesOn /\ [Next]_vars => GoesOn'
  BY GoesOnStep
<1>3. GoesOn /\ [Next]_vars =>
        [disk.status \in EndStatuses /\ disk'.status # disk.status
           => \E q \in DOMAIN disk.queries : Answer(q)]_vars
  BY EndedStays
<1> QED BY <1>1, <1>2, <1>3, RunInvAlways, PTL DEF Spec, OnlyAnswersRevive
=============================================================================
