----------------------------- MODULE ChatHistory -----------------------------
(***************************************************************************)
(* The history of a session: what the turns append to it, how compaction   *)
(* replaces all but the latest turns by a summary (compact.py,             *)
(* compact_async.py), and what of it a model with native tool calling is   *)
(* sent (native_messages.py, clients.py).  A turn may end between a tool   *)
(* call and its result - by cancellation, a token budget or a crash - and  *)
(* the next one goes on with the history as it is.  Of a summary's text    *)
(* the model has the events it was written from.  Definitions marked       *)
(* faulty are changes to the code under which a property fails; nothing    *)
(* else uses them.                                                         *)
(***************************************************************************)
EXTENDS Integers, Sequences, FiniteSets, SequencesExt, Lists

CONSTANTS
  Window,      \* max_history_items
  Keep,        \* keep_recent_turns
  TooShort,    \* a history of so many items is not compacted automatically
  NamesCalls,  \* the provider gives every tool call an id of its own
  MaxCalls,    \* bound: calls of one reply
  MaxEvents,   \* bound: items recorded in a session
  MaxCompacts  \* bound: compactions

ASSUME ChatHistoryAssumptions ==
  /\ {Window, Keep, MaxCalls} \subseteq Nat \ {0}
  /\ {TooShort, MaxEvents, MaxCompacts} \subseteq Nat
  /\ NamesCalls \in BOOLEAN

VARIABLES
  history,   \* session["history"]
  eventSeq,  \* session["_event_seq"]
  turnNow,   \* current_turn_id, 0 between turns
  turnSeq,   \* turns so far
  batch,     \* ids of the calls whose results are still to be recorded
  anchor,    \* context_summary.summary_event_id, 0 if there is none
  compacts,  \* compactions so far
  spoken     \* history variable: events recorded by the turns

chatVars == <<history, eventSeq, turnNow, turnSeq, batch, anchor, compacts,
              spoken>>

NoId == <<0, 0>>   \* a call without an id

(* TurnHistoryBuilder.enrich.  ids: of the calls, or the call of a result. *)
Item(kind, ids) ==
  [kind |-> kind, turn |-> turnNow, event |-> eventSeq + 1, ids |-> ids,
   given |-> {}]

ChatHistoryInit ==
  /\ history = <<>> /\ eventSeq = 0 /\ turnNow = 0 /\ turnSeq = 0
  /\ batch = <<>> /\ anchor = 0 /\ compacts = 0
  /\ spoken = {}

(* GenCode.record: every item is saved with the session at once.           *)
Record(item) ==
  /\ eventSeq < MaxEvents
  /\ history' = Append(history, item)
  /\ eventSeq' = eventSeq + 1
  /\ spoken' = spoken \cup {eventSeq + 1}
  /\ UNCHANGED <<anchor, compacts>>

-----------------------------------------------------------------------------
TurnStarts ==
  /\ turnNow = 0
  /\ turnNow' = turnSeq + 1 /\ turnSeq' = turnSeq + 1
  /\ Record([Item("user", <<>>) EXCEPT !.turn = turnSeq + 1])
  /\ UNCHANGED batch

Thinking == turnNow # 0 /\ batch = <<>>

(* The reply of the model is recorded before its calls are run.            *)
ModelCallsTools ==
  /\ Thinking
  /\ \E n \in 1..MaxCalls :
       \E ids \in {[i \in 1..n |-> <<eventSeq + 1, i>>]}
                  \cup (IF NamesCalls THEN {} ELSE {[i \in 1..n |-> NoId]}) :
         Record(Item("calls", ids)) /\ batch' = ids
  /\ UNCHANGED <<turnNow, turnSeq>>

(* A call that was run, refused or skipped: each leaves a result.          *)
ResultRecorded ==
  /\ batch # <<>>
  /\ Record(Item("result", <<Head(batch)>>)) /\ batch' = Tail(batch)
  /\ UNCHANGED <<turnNow, turnSeq>>

(* A retry notice, a runtime notice or a message of the user that steers.  *)
GoesOn ==
  /\ Thinking
  /\ \E kind \in {"text", "user"} : Record(Item(kind, <<>>))
  /\ UNCHANGED <<turnNow, turnSeq, batch>>

(* The final answer, or the notice a stopped run leaves; what a turn still *)
(* owed its calls is not recorded any more.                                *)
TurnEnds ==
  /\ turnNow # 0
  /\ turnNow' = 0 /\ batch' = <<>>
  /\ Record(Item("text", <<>>))
  /\ UNCHANGED turnSeq

(* The process ends in a turn; a new one opens the session.                *)
TurnLost ==
  /\ turnNow # 0
  /\ turnNow' = 0 /\ batch' = <<>>
  /\ UNCHANGED <<history, eventSeq, turnSeq, anchor, compacts, spoken>>

-----------------------------------------------------------------------------
(* CompactManager._select: the latest groups of one turn id each stay.     *)
Groups == {history[i].turn : i \in DOMAIN history}
FirstOf(t) == CHOOSE i \in DOMAIN history :
  history[i].turn = t /\ \A j \in 1..i - 1 : history[j].turn # t
ProtectedTurns == {t \in Groups : Cardinality({u \in Groups : FirstOf(u) > FirstOf(t)}) < Keep}
Kept  == Only(history, {item \in ToSet(history) : item.turn \in ProtectedTurns})
NewItems == {item \in ToSet(history) : item.turn \notin ProtectedTurns /\ item.kind # "summary"}

Summaries == Only(history, {item \in ToSet(history) : item.kind = "summary"})
Nothing == [given |-> {}]
NoPrior == Nothing                                                  \* faulty
PriorSummary ==
  LET named == Only(Summaries, {item \in ToSet(Summaries) : item.event = anchor}) IN
  IF named # <<>> THEN Head(named)
  ELSE IF Summaries # <<>> THEN Last(Summaries) ELSE Nothing

EventsOf(items) == {item.event : item \in items}

(* The earlier summary is part of what the new one is written from, by a   *)
(* model or, if its handoff fails or lacks a goal, by rules.               *)
CompactHistory(trigger) ==
  /\ batch = <<>> /\ NewItems # {} /\ compacts < MaxCompacts /\ eventSeq < MaxEvents
  /\ trigger = "manual" => turnNow = 0
  /\ trigger = "auto" => turnNow # 0 /\ Len(history) > TooShort
  /\ LET summary == [kind |-> "summary", turn |-> 0, event |-> eventSeq + 1,
                     ids |-> <<>>, given |-> PriorSummary.given \cup EventsOf(NewItems)]
     IN history' = <<summary>> \o Kept
  /\ anchor' = eventSeq + 1
  /\ eventSeq' = eventSeq + 1 /\ compacts' = compacts + 1
  /\ UNCHANGED <<turnNow, turnSeq, batch, spoken>>

-----------------------------------------------------------------------------
(* _native_history_tail: where the window begins ...                       *)
Start(h) ==
  LET begin == IF Len(h) > Window THEN Len(h) - Window + 1 ELSE 1
      owner == {i \in 1..begin : i = 1 \/ h[i].kind # "result"}
  IN CHOOSE i \in owner : \A j \in owner : j <= i

(* ... and what is sent of the items in it: of the calls those that have a  *)
(* result, of the results those whose call is there too.                   *)
Sent(item, answered) ==
  IF item.kind # "calls" THEN item
  ELSE LET ids == Only(item.ids, answered \cup {NoId})
       IN IF ids # <<>> THEN [item EXCEPT !.ids = ids] ELSE [item EXCEPT !.kind = "text"]

NativeTail(h) ==
  LET source == SubSeq(h, Start(h), Len(h))
      ids(kind) == UNION {ToSet(source[i].ids) :
                            i \in {j \in DOMAIN source : source[j].kind = kind}}
      asked == ids("calls") \ {NoId}
      sent == Only(source, {item \in ToSet(source) :
                              item.kind = "result" => item.ids[1] \in asked})
  IN [i \in DOMAIN sent |-> Sent(sent[i], ids("result") \ {NoId})]

(* build_native_messages: the message that is being answered is sent last; *)
(* system items leave the sequence when a provider's request is made.      *)
Earlier == IF history # <<>> /\ Last(history).kind = "user"
           THEN Front(history) ELSE history
SendHistory == Only(NativeTail(Earlier), {item \in ToSet(NativeTail(Earlier)) :
                                            item.kind # "summary"})
TranscriptSent == Len(Earlier) > Len(NativeTail(Earlier))

-----------------------------------------------------------------------------
ChatHistoryNext ==
  \/ TurnStarts \/ ModelCallsTools \/ ResultRecorded \/ GoesOn \/ TurnEnds
  \/ TurnLost \/ \E trigger \in {"auto", "manual"} : CompactHistory(trigger)

ChatHistorySpec == ChatHistoryInit /\ [][ChatHistoryNext]_chatVars

ChatHistoryTypeOK ==
  /\ \A i \in DOMAIN history :
       /\ history[i].kind \in {"user", "text", "calls", "result", "summary"}
       /\ history[i].event \in 1..eventSeq /\ history[i].turn \in 0..turnSeq
       /\ \A j \in 1..i - 1 : history[j].event # history[i].event
  /\ turnNow \in {0, turnSeq}

(* What a provider demands of every request: the calls of a message are    *)
(* answered, each once, by the results right after it, and no result       *)
(* answers anything else - wherever the window begins, however the turns   *)
(* before ended and whatever was compacted.                                *)
Answers(r, i) ==
  {j \in i + 1..Len(r) : \A k \in i + 1..j : r[k].kind = "result"}
Paired(r) ==
  \A i \in DOMAIN r :
    /\ r[i].kind = "calls" =>
         /\ {r[j].ids[1] : j \in Answers(r, i)} = ToSet(r[i].ids)
         /\ Cardinality(Answers(r, i)) = Len(r[i].ids)
    /\ r[i].kind = "result" =>
         \E j \in 1..i - 1 : r[j].kind = "calls" /\ i \in Answers(r, j)
RequestsPaired == Thinking => Paired(SendHistory)

(* Nothing a turn recorded is forgotten: it is in the history or was given *)
(* to the summary at its head, directly or through an earlier summary.     *)
NothingForgotten ==
  \A e \in spoken : \/ \E i \in DOMAIN history : history[i].event = e
                    \/ Summaries # <<>> /\ e \in Head(Summaries).given

(* The turn in progress is never cut out of the history by a compaction    *)
(* its own prompt asked for, and no summary stands behind a turn's item.   *)
CompactionKeepsTurn ==
  /\ \A i \in DOMAIN history : history[i].kind = "summary" => i = 1
  /\ turnNow # 0 => \E i \in DOMAIN history :
                      history[i].kind = "user" /\ history[i].turn = turnNow

(* Compaction loses nothing: neither what was recorded nor the turn that    *)
(* goes on.                                                                *)
HistoryKept == NothingForgotten /\ CompactionKeepsTurn

(* The history a request is built of is whole, and the request asks no     *)
(* call without its result and gives no result without its call.           *)
HistoryIsSound == HistoryKept /\ RequestsPaired
=============================================================================
