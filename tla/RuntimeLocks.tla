----------------------------- MODULE RuntimeLocks -----------------------------
(***************************************************************************)
(* The leases of gencode/core/runtime/session/runtime_locks.py as the turn *)
(* producer of engine.py takes them: the session for writing, then the     *)
(* workspace for reading or writing, both released when the turn is over.  *)
(* The leases are rows of an SQLite table that all processes share.  The   *)
(* SQL runs in threads, which a cancelled task stops waiting for but which *)
(* run to their end.  Time is left out: a row's heartbeat is recent, or    *)
(* more than 30 seconds old (stale).  Definitions marked faulty are changes *)
(* to the code under which a property fails; nothing else uses them.       *)
(***************************************************************************)
EXTENDS Integers, FiniteSets

CONSTANTS
  Tasks,      \* turn producers, each driving one turn
  Processes,
  Home,       \* task |-> its process
  Session,    \* task |-> its session id
  Workspace,  \* task |-> its normalized workspace root
  ReadOnly,   \* tasks whose runtime is read-only
  MaxLost     \* bound: releases that SQLite refuses

ASSUME LockAssumptions ==
  /\ Home \in [Tasks -> Processes]
  /\ DOMAIN Session = Tasks /\ DOMAIN Workspace = Tasks
  /\ ReadOnly \subseteq Tasks
  /\ MaxLost \in Nat

VARIABLES
  rows,       \* the table: leases <<task, 1>> (session), <<task, 2>> (workspace)
  stale,      \* rows whose heartbeat is more than 30 seconds old
  pc,         \* where a task is
  lease,      \* the lease a task is acquiring or giving back
  cancelled,  \* tasks that were cancelled
  releasing,  \* leases whose _release runs in a thread
  lost,       \* history: leases whose _release failed
  proc        \* processes: up, closing (asyncio.run shuts down), dead

vars == <<rows, stale, pc, lease, cancelled, releasing, lost, proc>>

Leases == Tasks \X {1, 2}
Key(r) == IF r[2] = 1 THEN <<"session", Session[r[1]]>>
          ELSE <<"workspace", Workspace[r[1]]>>
Mode(r) == IF r[2] = 2 /\ r[1] \in ReadOnly THEN "read" ELSE "write"
Alive(t) == proc[Home[t]] # "dead"
Conflict(r, s) ==
  r # s /\ Key(r) = Key(s) /\ "write" \in {Mode(r), Mode(s)}

Init ==
  /\ rows = {} /\ stale = {}
  /\ pc = [t \in Tasks |-> "idle"]
  /\ lease = [t \in Tasks |-> 0]
  /\ cancelled = {}
  /\ releasing = {} /\ lost = {}
  /\ proc = [p \in Processes |-> "up"]

Goto(t, place, k) ==
  /\ pc' = [pc EXCEPT ![t] = place]
  /\ lease' = [lease EXCEPT ![t] = k]

(* The exit stack goes on with lease k, or the turn is over.                *)
Leave(t, k) == IF k = 0 THEN Goto(t, "ended", 0) ELSE Goto(t, "stopping", k)

-----------------------------------------------------------------------------
Begin(t) ==
  /\ pc[t] = "idle" /\ proc[Home[t]] = "up"
  /\ Goto(t, "trying", 1)
  /\ UNCHANGED <<rows, stale, cancelled, releasing, lost, proc>>

(* _try_acquire, one IMMEDIATE transaction: rows of the key that are stale  *)
(* and whose process is dead are deleted, then the own row is inserted if   *)
(* nothing that is left forbids it; if not, acquire tries again.            *)
ReapedNever(r) == {s \in {} : Key(s) = Key(r)}                    \* faulty
Reaped(r) == {s \in stale : Key(s) = Key(r) /\ ~Alive(s[1])}
AllowedToRead(r, left) ==                                         \* faulty
  \A s \in left : Key(s) = Key(r) => Mode(r) = "read" \/ Mode(s) = "read"
Allowed(r, left) ==
  \A s \in left : Key(s) = Key(r) => Mode(r) = "read" /\ Mode(s) = "read"

Try(t) ==
  LET r == <<t, lease[t]>>
      left == rows \ Reaped(r)
  IN  /\ pc[t] = "trying"
      /\ rows' = IF Allowed(r, left) THEN left \cup {r} ELSE left
      /\ stale' = stale \ Reaped(r)
      /\ Goto(t, IF Allowed(r, left) THEN "got" ELSE "trying", lease[t])
      /\ UNCHANGED <<cancelled, releasing, lost, proc>>

(* The database stays locked for SQLite's 10 seconds: the turn fails.       *)
TryFails(t) ==
  /\ pc[t] = "trying"
  /\ Leave(t, lease[t] - 1)
  /\ UNCHANGED <<rows, stale, cancelled, releasing, lost, proc>>

(* acquire returns the lease; a task cancelled meanwhile gives it back.     *)
Got(t) ==
  /\ pc[t] = "got"
  /\ IF t \in cancelled
       THEN /\ Goto(t, "releasing", lease[t])
            /\ releasing' = releasing \cup {<<t, lease[t]>>}
       ELSE /\ IF lease[t] = 1 THEN Goto(t, "trying", 2) ELSE Goto(t, "running", 2)
            /\ UNCHANGED releasing
  /\ UNCHANGED <<rows, stale, cancelled, lost, proc>>

(* Cancelled while the attempt was refused, or asleep before the next one.  *)
GiveUp(t) ==
  /\ pc[t] = "trying" /\ t \in cancelled
  /\ Leave(t, lease[t] - 1)
  /\ UNCHANGED <<rows, stale, cancelled, releasing, lost, proc>>

EndTurn(t) ==
  /\ pc[t] = "running"
  /\ Goto(t, "stopping", 2)
  /\ UNCHANGED <<rows, stale, cancelled, releasing, lost, proc>>

(* __aexit__: the heartbeat task has ended, the release thread is started.  *)
Stopped(t) ==
  /\ pc[t] = "stopping"
  /\ Goto(t, "releasing", lease[t])
  /\ releasing' = releasing \cup {<<t, lease[t]>>}
  /\ UNCHANGED <<rows, stale, cancelled, lost, proc>>

(* The task goes on when the thread it awaits has ended.                    *)
Released(r) ==
  IF pc[r[1]] = "releasing" /\ lease[r[1]] = r[2] THEN Leave(r[1], r[2] - 1)
  ELSE UNCHANGED <<pc, lease>>

Release(r) ==
  /\ r \in releasing
  /\ rows' = rows \ {r} /\ stale' = stale \ {r}
  /\ releasing' = releasing \ {r}
  /\ Released(r)
  /\ UNCHANGED <<cancelled, lost, proc>>

ReleaseFails(r) ==
  /\ r \in releasing /\ Cardinality(lost) < MaxLost
  /\ releasing' = releasing \ {r}
  /\ lost' = lost \cup {r}
  /\ Released(r)
  /\ UNCHANGED <<rows, stale, cancelled, proc>>

-----------------------------------------------------------------------------
(* The leases a task believes to hold                                       *)
Held(t) == {<<t, i>> : i \in 1 .. lease[t] - 1}
             \cup (IF pc[t] \in {"got", "running", "stopping"}
                   THEN {<<t, lease[t]>>} ELSE {})

(* The heartbeat of a lease that was entered; its last one, started before  *)
(* __aexit__, may be written after the release has begun.                   *)
RenewByInsert(r) ==                                               \* faulty
  /\ Alive(r[1]) /\ pc[r[1]] \notin {"idle", "trying", "got"}
  /\ stale' = stale \ {r} /\ rows' = rows \cup {r}
  /\ UNCHANGED <<pc, lease, cancelled, releasing, lost, proc>>

Renew(r) ==
  /\ r \in Held(r[1]) \cup releasing
  /\ Alive(r[1]) /\ <<pc[r[1]], lease[r[1]]>> # <<"got", r[2]>>
  /\ stale' = stale \ {r}
  /\ UNCHANGED <<rows, pc, lease, cancelled, releasing, lost, proc>>

(* 30 seconds without a heartbeat: the process is dead, suspended or busy.  *)
Age(r) ==
  /\ r \in rows \ stale
  /\ stale' = stale \cup {r}
  /\ UNCHANGED <<rows, pc, lease, cancelled, releasing, lost, proc>>

Shutdown(p) ==
  /\ proc[p] = "up"
  /\ proc' = [proc EXCEPT ![p] = "closing"]
  /\ UNCHANGED <<rows, stale, pc, lease, cancelled, releasing, lost>>

(* asyncio.run cancels each task once.  A lease whose __aexit__ is waiting  *)
(* for the heartbeat is never released, one being released is.              *)
Cancel(t) ==
  /\ proc[Home[t]] = "closing"
  /\ t \notin cancelled /\ pc[t] \notin {"idle", "ended"}
  /\ cancelled' = cancelled \cup {t}
  /\ IF pc[t] \in {"stopping", "releasing"} THEN Leave(t, lease[t] - 1)
     ELSE UNCHANGED <<pc, lease>>
  /\ UNCHANGED <<rows, stale, releasing, lost, proc>>

Mine(p, S) == {r \in S : Home[r[1]] = p}

(* The interpreter waits for its threads.                                   *)
Exit(p) ==
  /\ proc[p] = "closing"
  /\ \A t \in Tasks : Home[t] = p => pc[t] \in {"idle", "ended"}
  /\ Mine(p, releasing) = {}
  /\ proc' = [proc EXCEPT ![p] = "dead"]
  /\ UNCHANGED <<rows, stale, pc, lease, cancelled, releasing, lost>>

Kill(p) ==
  /\ proc[p] # "dead"
  /\ proc' = [proc EXCEPT ![p] = "dead"]
  /\ pc' = [t \in Tasks |-> IF Home[t] = p THEN "ended" ELSE pc[t]]
  /\ lease' = [t \in Tasks |-> IF Home[t] = p THEN 0 ELSE lease[t]]
  /\ releasing' = releasing \ Mine(p, releasing)
  /\ UNCHANGED <<rows, stale, cancelled, lost>>

-----------------------------------------------------------------------------
TaskStep(t) ==
  Begin(t) \/ Try(t) \/ Got(t) \/ GiveUp(t) \/ EndTurn(t) \/ Stopped(t)
Thread(r) == Release(r) \/ ReleaseFails(r)

Next ==
  \/ \E t \in Tasks : TaskStep(t) \/ TryFails(t) \/ Cancel(t)
  \/ \E r \in Leases : Thread(r) \/ Renew(r) \/ Age(r)
  \/ \E p \in Processes : Shutdown(p) \/ Exit(p) \/ Kill(p)

Spec == Init /\ [][Next]_vars
(* Turns have a timeout, threads end, a process that shuts down cancels its *)
(* tasks and exits, and the heartbeat of a dead process gets old.           *)
FairSpec ==
  /\ Spec
  /\ \A t \in Tasks : WF_vars(TaskStep(t)) /\ WF_vars(Cancel(t))
  /\ \A r \in Leases : WF_vars(Thread(r)) /\ WF_vars(~Alive(r[1]) /\ Age(r))
  /\ \A p \in Processes : WF_vars(Exit(p))

-----------------------------------------------------------------------------
Places == {"idle", "trying", "got", "running", "stopping",
           "releasing", "ended"}
TypeOK ==
  /\ rows \subseteq Leases /\ stale \subseteq rows
  /\ pc \in [Tasks -> Places]
  /\ lease \in [Tasks -> 0 .. 2]
  /\ \A t \in Tasks : lease[t] = 0 <=> pc[t] \in {"idle", "ended"}
  /\ cancelled \subseteq Tasks
  /\ releasing \subseteq Leases /\ lost \subseteq Leases
  /\ proc \in [Processes -> {"up", "closing", "dead"}]

(* A lease is not taken away from a live task: however long its heartbeat   *)
(* is overdue, and whoever else tries, is cancelled, releases or dies, the  *)
(* leases a task believes to hold are in the table.                         *)
HoldersKeepRows == \A t \in Tasks : Alive(t) => Held(t) \subseteq rows

(* Turns that run at the same time, in whatever processes, share no session *)
(* and share a workspace only if all of them are read-only.                 *)
InTurn(t) == pc[t] = "running" /\ Alive(t)
TurnsAreCompatible ==
  \A t, u \in Tasks :
    t # u /\ InTurn(t) /\ InTurn(u) =>
      /\ Session[t] # Session[u]
      /\ Workspace[t] = Workspace[u] => {t, u} \subseteq ReadOnly

(* No lease leaks while its process goes on: a row of a process that is not *)
(* shutting down belongs to a task that holds it or is giving it back, or   *)
(* SQLite refused to delete it.                                             *)
RowsHaveOwners ==
  \A r \in rows :
    proc[Home[r[1]]] = "up" => r \in Held(r[1]) \cup releasing \cup lost

(* Nobody waits for ever, neither on a lease of a dead process nor on each  *)
(* other: a turn that asks for its locks runs or fails, unless SQLite       *)
(* refused to delete somebody's row.                                        *)
NobodyWaitsForever ==
  \A t \in Tasks :
    pc[t] = "trying" ~> pc[t] \in {"running", "ended"} \/ lost # {}
=============================================================================
