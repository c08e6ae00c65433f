------------------------------- MODULE Dream --------------------------------
(***************************************************************************)
(* Dream (gencode/features/dream.py): after a turn, or when a person asks  *)
(* for it, a runtime hands the conversations of the workspace to a second, *)
(* restricted runtime that proposes knowledge.  Processes share the lock   *)
(* file, the state file and the saved sessions.  The lock is a file that   *)
(* is created exclusively, taken for abandoned after an hour, and removed  *)
(* by name: whose it is nobody asks.  What a Dream proposes is Knowledge's *)
(* Propose.  Definitions marked faulty are changes to the code under which *)
(* a property fails; nothing else uses them.                               *)
(***************************************************************************)
EXTENDS Integers, FiniteSets

CONSTANTS
  Dreamers,    \* processes, each with one runtime
  Talks,       \* conversations of the workspace
  MinTalks,    \* dream_min_sessions
  MaxHours,    \* bound: times an hour passes
  MaxTalks,    \* bound: times a conversation goes on
  MaxDeaths    \* bound: processes that die in a Dream

ASSUME DreamAssumptions ==
  /\ Dreamers \cap Talks = {} /\ Talks # {}
  /\ {MinTalks, MaxHours, MaxTalks, MaxDeaths} \subseteq Nat

VARIABLES
  lockFile,   \* .dream.lock: "free", "fresh", or "old"
  stage,      \* where each process is
  chosen,     \* the sessions its Dream is about
  auto,       \* whether a turn began it: it then has the lock from the start
  fresh,      \* sessions saved after last_success_at
  marked,     \* sessions saved as a Dream's
  lately,     \* last_success_at is within dream_interval_hours
  hours, talked, deadDreams
dreamVars == <<lockFile, stage, chosen, auto, fresh, marked, lately, hours, talked,
               deadDreams>>

Bounds == <<hours, talked, deadDreams>>

(* A Dream's own session is a file among the others; it bears the name of  *)
(* the process.                                                            *)
AllSessions == Talks \cup Dreamers

DreamInit ==
  /\ lockFile = "free" /\ stage = [p \in Dreamers |-> "idle"]
  /\ chosen = [p \in Dreamers |-> {}] /\ auto = [p \in Dreamers |-> FALSE]
  /\ fresh = {} /\ marked = {} /\ lately = FALSE
  /\ hours = 0 /\ talked = 0 /\ deadDreams = 0

Goes(p, s) == stage' = [stage EXCEPT ![p] = s]

(* _eligible_sessions                                                      *)
Eligible == fresh \ marked

-----------------------------------------------------------------------------
(* maintain_after_turn: the gates are passed before the lock is asked for. *)
PassGates(p) ==
  /\ stage[p] = "idle" /\ ~lately
  /\ Cardinality(Eligible) >= MinTalks
  /\ chosen' = [chosen EXCEPT ![p] = Eligible] /\ auto' = [auto EXCEPT ![p] = TRUE]
  /\ Goes(p, "locking")
  /\ UNCHANGED <<lockFile, fresh, marked, lately, Bounds>>

(* run_dream for a person: no gate; without new sessions, the current one. *)
AskForDream(p) ==
  /\ stage[p] = "idle"
  /\ \E s \in Talks :
       chosen' = [chosen EXCEPT ![p] = IF Eligible = {} THEN {s} ELSE Eligible]
  /\ auto' = [auto EXCEPT ![p] = FALSE]
  /\ Goes(p, "reading")
  /\ UNCHANGED <<lockFile, fresh, marked, lately, Bounds>>

Locked(p) == IF auto[p] THEN "reading" ELSE "opening"

(* _acquire_lock: O_CREAT with O_EXCL, once more when the lock was stale.  *)
Create(p, from) ==
  /\ stage[p] = from
  /\ IF lockFile = "free" THEN lockFile' = "fresh" /\ Goes(p, Locked(p))
     ELSE UNCHANGED lockFile /\ Goes(p, IF from = "locking" /\ lockFile = "old"
                                        THEN "stale" ELSE "idle")
  /\ UNCHANGED <<chosen, auto, fresh, marked, lately, Bounds>>

AcquireLock(p) == Create(p, "locking")
AcquireAgain(p) == Create(p, "unlinked")

(* The lock was old when it was looked at: what is there now goes.         *)
UnlinkStale(p) ==
  /\ stage[p] = "stale"
  /\ Goes(p, IF lockFile = "free" THEN "idle" ELSE "unlinked") /\ lockFile' = "free"
  /\ UNCHANGED <<chosen, auto, fresh, marked, lately, Bounds>>

(* read_session_evidence, of what fits and has prose; a Dream about nothing *)
(* gives back the lock it was handed.                                      *)
Readable(sessions) == sessions \ marked

ReadEvidence(p) ==
  /\ stage[p] = "reading"
  /\ \E read \in SUBSET Readable(chosen[p]) :
       /\ chosen' = [chosen EXCEPT ![p] = read]
       /\ IF read = {}
          THEN /\ Goes(p, IF auto[p] THEN "leaving" ELSE "idle")
               /\ lockFile' = IF auto[p] THEN "free" ELSE lockFile
          ELSE /\ Goes(p, IF auto[p] THEN "opening" ELSE "locking")
               /\ UNCHANGED lockFile
  /\ UNCHANGED <<auto, fresh, marked, lately, Bounds>>

(* The second runtime: its session is saved, empty, then saved as a        *)
(* Dream's before anything is said in it.                                  *)
OpenDream(p) ==
  /\ stage[p] = "opening" /\ Goes(p, "mining")
  /\ marked' = marked \cup {p}
  /\ UNCHANGED <<lockFile, chosen, auto, fresh, lately, Bounds>>

(* Its conversation ends with an answer: every session saved so far counts *)
(* as done; or in any other way, and none does.                            *)
DreamSucceeds(p) ==
  /\ stage[p] = "mining" /\ Goes(p, "releasing")
  /\ fresh' = {} /\ lately' = TRUE
  /\ UNCHANGED <<lockFile, chosen, auto, marked, Bounds>>

DreamFails(p) ==
  /\ stage[p] = "mining" /\ Goes(p, "releasing")
  /\ fresh' = fresh \cup {p}
  /\ UNCHANGED <<lockFile, chosen, auto, marked, lately, Bounds>>

(* run_dream's finally, then that of _run_background_dream.                *)
LockAfterHandedOver(p) == IF auto[p] THEN "free" ELSE lockFile      \* faulty
LockAfter(p) == "free"

ReleaseLock(p) ==
  /\ stage[p] = "releasing" /\ Goes(p, IF auto[p] THEN "leaving" ELSE "idle")
  /\ lockFile' = LockAfter(p)
  /\ UNCHANGED <<chosen, auto, fresh, marked, lately, Bounds>>

ReleaseAgain(p) ==
  /\ stage[p] = "leaving" /\ Goes(p, "idle")
  /\ lockFile' = "free"
  /\ UNCHANGED <<chosen, auto, fresh, marked, lately, Bounds>>

-----------------------------------------------------------------------------
(* A conversation goes on, and is saved.                                   *)
Talk ==
  /\ talked < MaxTalks /\ talked' = talked + 1
  /\ \E s \in Talks : fresh' = fresh \cup {s}
  /\ UNCHANGED <<lockFile, stage, chosen, auto, marked, lately, hours, deadDreams>>

(* Time: the lock grows old, the last Dream's interval ends.               *)
Hour ==
  /\ hours < MaxHours /\ hours' = hours + 1
  /\ lockFile' = IF lockFile = "free" THEN "free" ELSE "old"
  /\ lately' \in {FALSE, lately}
  /\ UNCHANGED <<stage, chosen, auto, fresh, marked, talked, deadDreams>>

DieDreaming(p) ==
  /\ stage[p] # "idle" /\ Goes(p, "idle")
  /\ deadDreams < MaxDeaths /\ deadDreams' = deadDreams + 1
  /\ fresh' = IF stage[p] = "mining" THEN fresh \cup {p} ELSE fresh
  /\ UNCHANGED <<lockFile, chosen, auto, marked, lately, hours, talked>>

DreamNext ==
  \/ Talk \/ Hour
  \/ \E p \in Dreamers :
       \/ PassGates(p) \/ AskForDream(p) \/ AcquireLock(p) \/ UnlinkStale(p)
       \/ AcquireAgain(p) \/ ReadEvidence(p) \/ OpenDream(p) \/ DreamSucceeds(p)
       \/ DreamFails(p) \/ ReleaseLock(p) \/ ReleaseAgain(p) \/ DieDreaming(p)

DreamSpec == DreamInit /\ [][DreamNext]_dreamVars

-----------------------------------------------------------------------------
(* Every variable has its type.                                            *)
DreamTypeOK ==
  /\ lockFile \in {"free", "fresh", "old"}
  /\ stage \in [Dreamers -> {"idle", "locking", "stale", "unlinked", "reading",
                             "opening", "mining", "releasing", "leaving"}]
  /\ chosen \in [Dreamers -> SUBSET AllSessions] /\ auto \in [Dreamers -> BOOLEAN]
  /\ fresh \subseteq AllSessions /\ marked \subseteq AllSessions
  /\ lately \in BOOLEAN
  /\ hours \in 0..MaxHours /\ talked \in 0..MaxTalks /\ deadDreams \in 0..MaxDeaths

(* The lock never outlives the Dreams: unless a process died in one, it is *)
(* there only while somebody is between taking it and giving it back, on   *)
(* every path (nothing to read, failure, success, a lock taken for stale). *)
LockFreed ==
  deadDreams = 0 /\ (\A p \in Dreamers : stage[p] = "idle") => lockFile = "free"

(* Dreams do not feed on Dreams: no Dream has another's conversation among *)
(* its evidence, whichever of them failed or died.                         *)
NoDreamOfDreams ==
  \A p \in Dreamers : stage[p] \in {"opening", "mining"} =>
    chosen[p] \cap Dreamers = {}

(* Dreams end, and are about conversations.                                *)
DreamsAreSound == LockFreed /\ NoDreamOfDreams
=============================================================================
