---------------------------- MODULE SessionEvents ----------------------------
(***************************************************************************)
(* The event stream of one Run in the SessionEventBus                      *)
(* (gencode/core/runtime/session/session_events.py).  Publishers put       *)
(* records into the queue of a single writer thread, which numbers them,   *)
(* appends them to events.jsonl and hands them to the subscribers.  An     *)
(* append may fail: the record is then kept in memory, and the next append *)
(* that succeeds is preceded by an event_log_gap marker.  A subscriber     *)
(* first replays, through the same writer thread, then follows its queue.  *)
(* The file and the bounded deque are sets of numbered records, as replay  *)
(* sorts them; contents are left out.  Definitions marked faulty are       *)
(* changes to the code under which a property fails; nothing else uses     *)
(* them.                                                                   *)
(***************************************************************************)
EXTENDS Integers, Sequences, FiniteSets, Functions

CONSTANTS
  Subscribers,
  MaxVolatile,  \* maxlen of the deque of records that could not be written
  MaxEvents,    \* bound: events published, turn_finished being the last
  MaxReplays    \* bound: subscriptions of one consumer

ASSUME EventAssumptions ==
  {MaxVolatile, MaxEvents, MaxReplays} \subseteq Nat \ {0}

VARIABLES
  jobs,      \* the writer's queue: events to record, subscribers to read for
  events,    \* number of events published
  last,      \* _run_sequences[run_id]
  file,      \* readable records of events.jsonl
  torn,      \* events.jsonl ends in half a line
  gap,       \* _gaps[run_id]: <<missing_from, missing_to>>, or <<>>
  volatile,  \* _volatile_events[run_id]
  completed, \* run_id is in _completed_runs
  sub,       \* the subscriptions
  failed,    \* history: some append failed
  spoiled    \* history: a line was appended to half a line

log == <<last, file, torn, gap, volatile, completed, failed, spoiled>>
eventVars == <<jobs, events, sub, log>>

Kinds == {"event", "turn_finished"}
Rec(n, kind) == [seq |-> n, event |-> kind, from |-> 0, to |-> 0]
Marker(n) == [seq |-> n, event |-> "event_log_gap", from |-> gap[1], to |-> gap[2]]
Seqs(records) == {r.seq : r \in records}
After(records, n) == {r \in records : r.seq > n}

Outside == [at |-> "outside", cursor |-> 0, replay |-> {}, high |-> 0,
            queue |-> <<>>, seen |-> <<>>, replays |-> 0]
Subscribed(s) == sub[s].at \in {"asked", "read", "replaying", "live"}

EventsInit ==
  /\ jobs = <<>> /\ events = 0
  /\ last = 0 /\ file = {} /\ torn = FALSE /\ gap = <<>> /\ volatile = {}
  /\ completed = FALSE /\ failed = FALSE /\ spoiled = FALSE
  /\ sub = [s \in Subscribers |-> Outside]

-----------------------------------------------------------------------------
(* emit and publish; the Run's last event is turn_finished.                 *)
Publish(kind) ==
  /\ events < MaxEvents
  /\ kind = "turn_finished" <=> events + 1 = MaxEvents
  /\ events' = events + 1
  /\ jobs' = Append(jobs, [do |-> kind])
  /\ UNCHANGED <<sub, log>>

HeadIs(kind) == jobs # <<>> /\ Head(jobs).do = kind

(* What one append writes: the record, after a marker if a gap is pending.  *)
Number == IF gap = <<>> THEN last + 1 ELSE last + 2
Lines(kind) ==
  IF gap = <<>> THEN <<Rec(Number, kind)>>
  ELSE <<Marker(last + 1), Rec(Number, kind)>>
(* Of k whole lines appended to half a line the first is unreadable.        *)
Written(lines, k) == {lines[i] : i \in (IF torn THEN 2 ELSE 1) .. k}

Dispatch(records) ==
  sub' = [s \in Subscribers |-> IF Subscribed(s)
            THEN [sub[s] EXCEPT !.queue = @ \o records] ELSE sub[s]]

RecordEvent(kind) ==
  /\ HeadIs(kind)
  /\ jobs' = Tail(jobs)
  /\ last' = Number
  /\ file' = file \cup Written(Lines(kind), Len(Lines(kind)))
  /\ torn' = FALSE /\ spoiled' = (spoiled \/ torn)
  /\ gap' = <<>>
  /\ completed' = (completed \/ kind = "turn_finished")
  /\ Dispatch(Lines(kind))
  /\ UNCHANGED <<events, volatile, failed>>

(* OSError: the gap now reaches to this record, which is kept in the deque. *)
(* Part of the text, up to k whole lines and a half, may be in the file.    *)
Widened == <<IF gap = <<>> THEN Number ELSE gap[1], Number>>
Kept(r) ==
  LET all == volatile \cup {r}
  IN  IF Cardinality(all) <= MaxVolatile THEN all
      ELSE {v \in all : \E u \in all : u.seq < v.seq}

RecordFails(kind) ==
  /\ HeadIs(kind)
  /\ jobs' = Tail(jobs)
  /\ last' = Number
  /\ \E k \in 0 .. Len(Lines(kind)), half \in BOOLEAN :
       /\ k = Len(Lines(kind)) => ~half
       /\ file' = file \cup Written(Lines(kind), k)
       /\ torn' = (half \/ (torn /\ k = 0))
       /\ spoiled' = (spoiled \/ (torn /\ k > 0))
  /\ gap' = Widened
  /\ volatile' = Kept(Rec(Number, kind))
  /\ completed' = (completed \/ kind = "turn_finished")
  /\ failed' = TRUE
  /\ Dispatch(<<Rec(Number, kind)>>)
  /\ UNCHANGED events

-----------------------------------------------------------------------------
(* subscribe(run_id, after_seq): the queue is in place before the writer is *)
(* asked to read.  A consumer resumes from the last record it was given.    *)
Subscribe(s) ==
  /\ ~Subscribed(s)
  /\ sub[s].replays < MaxReplays
  /\ sub' = [sub EXCEPT ![s].at = "asked", ![s].queue = <<>>,
                        ![s].replays = @ + 1,
                        ![s].cursor = IF sub[s].seen = <<>> THEN 0
                                      ELSE sub[s].seen[Len(sub[s].seen)]]
  /\ jobs' = Append(jobs, [do |-> "read", for |-> s, nth |-> sub[s].replays + 1])
  /\ UNCHANGED <<events, log>>

(* What is read for a subscription that was closed meanwhile is dropped.    *)
Read ==
  /\ HeadIs("read")
  /\ jobs' = Tail(jobs)
  /\ LET s == Head(jobs).for
     IN  sub' = IF sub[s].at = "asked" /\ sub[s].replays = Head(jobs).nth
                  THEN [sub EXCEPT ![s].at = "read",
                                   ![s].replay = After(file, sub[s].cursor)]
                  ELSE sub
  /\ UNCHANGED <<events, log>>

(* Back on the loop: records that could not be written are merged in.       *)
Merged(s) == sub[s].replay \cup After(volatile, sub[s].cursor)
HighWater(s, n) ==
  LET seqs == {sub[s].cursor} \cup Seqs(Merged(s))
  IN  n \in seqs /\ \A m \in seqs : m <= n
MergeLate(s) ==                                                   \* faulty
  /\ sub[s].at = "read"
  /\ \E n \in 0 .. last :
       /\ HighWater(s, n)
       /\ sub' = [sub EXCEPT ![s].at = "replaying", ![s].replay = Merged(s),
                             ![s].high = n, ![s].queue = <<>>]
  /\ UNCHANGED <<jobs, events, log>>
Merge(s) ==
  /\ sub[s].at = "read"
  /\ \E n \in 0 .. last :
       /\ HighWater(s, n)
       /\ sub' = [sub EXCEPT ![s].at = "replaying", ![s].replay = Merged(s),
                             ![s].high = n]
  /\ UNCHANGED <<jobs, events, log>>

Given(s, r) == [sub[s] EXCEPT !.seen = Append(@, r.seq),
                              !.at = IF r.event = "turn_finished" THEN "ended" ELSE @]

YieldReplayed(s) ==
  /\ sub[s].at = "replaying"
  /\ \E r \in sub[s].replay :
       /\ \A q \in sub[s].replay : r.seq <= q.seq
       /\ sub' = [sub EXCEPT ![s] = [Given(s, r) EXCEPT
                    !.replay = {q \in @ : q.seq # r.seq}]]
  /\ UNCHANGED <<jobs, events, log>>

(* The replay is over: a completed Run is not followed.                     *)
FollowAlways(s) ==                                                \* faulty
  /\ sub[s].at = "replaying" /\ sub[s].replay = {}
  /\ sub' = [sub EXCEPT ![s].at = "live"]
  /\ UNCHANGED <<jobs, events, log>>
Follow(s) ==
  /\ sub[s].at = "replaying" /\ sub[s].replay = {}
  /\ sub' = [sub EXCEPT ![s].at = IF completed THEN "ended" ELSE "live"]
  /\ UNCHANGED <<jobs, events, log>>

(* The next record of the queue, unless it was already replayed.            *)
TakeAny(s) ==                                                     \* faulty
  /\ sub[s].at = "live" /\ sub[s].queue # <<>>
  /\ sub' = [sub EXCEPT ![s] = [Given(s, Head(sub[s].queue)) EXCEPT
                !.queue = Tail(@), !.high = Head(sub[s].queue).seq]]
  /\ UNCHANGED <<jobs, events, log>>
TakeQueued(s) ==
  /\ sub[s].at = "live" /\ sub[s].queue # <<>>
  /\ LET r == Head(sub[s].queue)
     IN  sub' = [sub EXCEPT ![s] =
                  IF r.seq > sub[s].high
                    THEN [Given(s, r) EXCEPT !.queue = Tail(@), !.high = r.seq]
                    ELSE [sub[s] EXCEPT !.queue = Tail(@)]]
  /\ UNCHANGED <<jobs, events, log>>

(* The consumer closes the generator or is cancelled, wherever it waits.    *)
Close(s) ==
  /\ Subscribed(s)
  /\ sub' = [sub EXCEPT ![s] = [Outside EXCEPT !.at = "closed",
                                  !.seen = sub[s].seen, !.replays = sub[s].replays]]
  /\ UNCHANGED <<jobs, events, log>>

-----------------------------------------------------------------------------
Writer == Read \/ \E kind \in Kinds : RecordEvent(kind) \/ RecordFails(kind)
Consume(s) == Merge(s) \/ YieldReplayed(s) \/ Follow(s) \/ TakeQueued(s)
EventsNext ==
  \/ \E kind \in Kinds : Publish(kind)
  \/ Writer
  \/ \E s \in Subscribers : Subscribe(s) \/ Consume(s) \/ Close(s)

EventsSpec == EventsInit /\ [][EventsNext]_eventVars
(* The Run publishes its end (its turn has a timeout), the writer thread    *)
(* works its queue off, and the consumers ask for their next record.        *)
EventsFairSpec ==
  /\ EventsSpec
  /\ WF_eventVars(\E kind \in Kinds : Publish(kind)) /\ WF_eventVars(Writer)
  /\ \A s \in Subscribers : WF_eventVars(Consume(s))

-----------------------------------------------------------------------------
Records == [seq : Nat, event : Kinds \cup {"event_log_gap"}, from : Nat, to : Nat]
Stages == {"outside", "asked", "read", "replaying", "live", "ended", "closed"}
LogOK ==
  /\ last \in Nat /\ torn \in BOOLEAN /\ completed \in BOOLEAN
  /\ failed \in BOOLEAN /\ spoiled \in BOOLEAN
  /\ file \subseteq Records /\ volatile \subseteq Records
  /\ gap = <<>> \/ gap \in Nat \X Nat
EventsTypeOK ==
  /\ LogOK
  /\ \A r \in file \cup volatile : r.seq \in 1 .. last
  /\ Cardinality(volatile) <= MaxVolatile
  /\ \A s \in Subscribers :
       /\ sub[s].at \in Stages
       /\ sub[s].replay \subseteq Records
       /\ Range(sub[s].queue) \subseteq Records
       /\ {sub[s].cursor, sub[s].high} \subseteq 0 .. last
       /\ Range(sub[s].seen) \subseteq 1 .. last

(* However often a consumer detaches and resumes, and however appends fail, *)
(* it is given records in the order of their run_seq and none twice.        *)
GivenInOrder ==
  \A s \in Subscribers : \A i, j \in DOMAIN sub[s].seen :
    i < j => sub[s].seen[i] < sub[s].seen[j]

(* The file owns up to what it misses: a number that is in no readable line *)
(* is covered by an event_log_gap marker, or by the gap that the next       *)
(* append will announce.  Only a marker glued to half a line is lost.       *)
Announced(n) ==
  \/ n \in Seqs(file)
  \/ \E r \in file : r.event = "event_log_gap" /\ r.from <= n /\ n <= r.to
  \/ gap # <<>> /\ gap[1] <= n /\ n <= gap[2]
GapsAreAnnounced == ~spoiled => \A n \in 1 .. last : Announced(n)

(* Records reach each consumer in their order, and the file announces the   *)
(* ones it never got.                                                       *)
DeliveryIsSound == GivenInOrder /\ GapsAreAnnounced

(* As long as every append has succeeded, replaying and following leave no  *)
(* hole: a consumer has been given, or has at hand, every record after its  *)
(* cursor up to the last one it has come to; and what a stream that ended   *)
(* by itself has not given is in its queue, nowhere else.                   *)
NothingSkipped ==
  ~failed =>
    \A s \in Subscribers :
      /\ sub[s].at \in {"replaying", "live"} =>
           \A n \in sub[s].cursor + 1 .. sub[s].high :
             n \in Range(sub[s].seen) \cup Seqs(sub[s].replay)
      /\ sub[s].at = "ended" =>
           \A n \in sub[s].cursor + 1 .. last :
             n \in Range(sub[s].seen) \cup Seqs(Range(sub[s].queue))

(* No consumer hangs: a subscription ends, or is closed, whenever the Run   *)
(* completes relative to the subscription, the read and the replay.         *)
StreamEnds == \A s \in Subscribers : Subscribed(s) ~> ~Subscribed(s)

(* engine.py:141 "stream its persisted events to this consumer": a stream   *)
(* that ended by itself has delivered everything in the file after its      *)
(* cursor, even if no append has ever failed.                               *)
StreamIsComplete ==
  ~failed =>
    \A s \in Subscribers :
      sub[s].at = "ended" =>
        \A r \in After(file, sub[s].cursor) : r.seq \in Range(sub[s].seen)
=============================================================================
