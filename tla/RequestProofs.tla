--------------------------- MODULE RequestProofs ----------------------------
(***************************************************************************)
(* What is proved of a request to a model and of its answer: the history,  *)
(* the prompt, the settings, the stream of the reply, and what must stand  *)
(* behind an answer that claims success; and, together with RetrievalProofs,*)
(* of the nine parts of MCPrompts.                                         *)
(***************************************************************************)
EXTENDS MCPrompts, RetrievalProofs

(***************************************************************************)
(* ChatHistory, for any window, any number of turns and of calls, and any  *)
(* compactions: nothing a turn recorded is forgotten and the turn that     *)
(* goes on is not cut out; and, of a provider that names its calls, every  *)
(* request has the results of a message's calls right behind it, each      *)
(* once, and no others. Of what is sent the proof needs where the results  *)
(* stand: those of a message are the first of its calls, in a row,         *)
(* wherever the turn ended, so what the window leaves of them is a stretch *)
(* of the history.                                                         *)
(***************************************************************************)

(* The items of a history and the ids of its calls.                         *)
CallIds == Seq(Nat \X Nat)
ChatItems == [kind : {"user", "text", "calls", "result", "summary"}, turn : Nat, event : Nat,
          ids : CallIds, given : SUBSET Nat]

(* Turns follow each other and a summary, which is of no turn, comes first; *)
(* no event is there twice.                                                 *)
TurnsInOrder(h) ==
  /\ \A i \in DOMAIN h : h[i].kind = "summary" <=> h[i].turn = 0
  /\ \A i, j \in DOMAIN h : i < j => h[i].turn <= h[j].turn /\ h[j].kind # "summary"
  /\ \A i, j \in DOMAIN h : i # j => h[i].event # h[j].event

(* Of whom the record speaks: events up to now, turns up to now, and an     *)
(* earlier turn's items are never mistaken for a summary.                   *)
Dated ==
  /\ \A i \in DOMAIN history : history[i].event \in 1..eventSeq /\ history[i].turn \in 0..turnSeq
  /\ \A i \in DOMAIN history : history[i].kind = "summary" => history[i].event \notin spoken
  /\ spoken \subseteq 1..eventSeq

(* What was said is in the history or in the summary, and the turn that     *)
(* goes on has the message it began with.                                   *)
Remembered ==
  /\ \A e \in spoken : \E i \in DOMAIN history :
       history[i].event = e \/ (history[i].kind = "summary" /\ e \in history[i].given)
  /\ turnNow # 0 => \E i \in DOMAIN history :
                      history[i].kind = "user" /\ history[i].turn = turnNow

ChatTypes ==
  /\ history \in Seq(ChatItems) /\ batch \in CallIds
  /\ {eventSeq, turnSeq, turnNow, anchor, compacts} \subseteq Nat /\ turnNow \in {0, turnSeq}
  /\ batch # <<>> => turnNow # 0

KeptInv == ChatTypes /\ TurnsInOrder(history) /\ Dated /\ Remembered

(* The results from the i-th item on to the j-th are of the calls there, in *)
(* their order and their turn.                                              *)
Owns(h, i, j) ==
  /\ h[i].kind = "calls" /\ j - i <= Len(h[i].ids)
  /\ \A k \in i + 1..j : h[k].kind = "result" /\ h[k].turn = h[i].turn
                         /\ h[k].ids = <<h[i].ids[k - i]>>

(* The ids of calls are their own, and every result follows its call.       *)
Grouped(h) ==
  /\ \A i \in DOMAIN h : h[i].kind = "calls" =>
       \A k \in DOMAIN h[i].ids : h[i].ids[k] = <<h[i].event, k>>
  /\ \A j \in DOMAIN h : h[j].kind = "result" => \E i \in 1..j - 1 : Owns(h, i, j)

(* The calls whose results are still to come are the last ones.             *)
BatchOwed ==
  batch # <<>> => \E i \in DOMAIN history :
    /\ Owns(history, i, Len(history)) /\ history[i].turn = turnNow
    /\ Len(history[i].ids) = Len(history) - i + Len(batch)
    /\ \A k \in DOMAIN batch : batch[k] = history[i].ids[Len(history) - i + k]

PairInv == Grouped(history) /\ BatchOwed

(* An item of a turn is recorded behind all others.                         *)
LEMMA RecordedIs ==
  ASSUME NEW h \in Seq(ChatItems), NEW item \in ChatItems
  PROVE  /\ Append(h, item) \in Seq(ChatItems) /\ Len(h) \in Nat
         /\ DOMAIN h = 1..Len(h) /\ DOMAIN Append(h, item) = 1..(Len(h) + 1)
         /\ \A i \in 1..Len(h) : Append(h, item)[i] = h[i] /\ h[i] \in ChatItems
         /\ Append(h, item)[Len(h) + 1] = item
         /\ \A i \in 1..(Len(h) + 1) : i \in 1..Len(h) \/ i = Len(h) + 1
<1>1. Len(h) \in Nat /\ DOMAIN h = 1..Len(h) /\ \A i \in 1..Len(h) : h[i] \in ChatItems
  OBVIOUS
<1>2. /\ Append(h, item) \in Seq(ChatItems) /\ Len(Append(h, item)) = Len(h) + 1
      /\ \A i \in 1..Len(h) : Append(h, item)[i] = h[i]
      /\ Append(h, item)[Len(h) + 1] = item
  BY AppendProperties
<1>3. DOMAIN Append(h, item) = 1..(Len(h) + 1)
  BY <1>2
<1> QED BY <1>1, <1>2, <1>3

(* What enrich makes of an item.                                            *)
LEMMA ItemIs ==
  ASSUME NEW kind \in {"user", "text", "calls", "result"}, NEW ids \in CallIds,
         turnNow \in Nat, eventSeq \in Nat
  PROVE  /\ Item(kind, ids) \in ChatItems
         /\ Item(kind, ids).kind = kind /\ Item(kind, ids).turn = turnNow
         /\ Item(kind, ids).event = eventSeq + 1 /\ Item(kind, ids).ids = ids
<1> QED BY DEF Item, ChatItems

(* What a step of a turn records.                                           *)
Records(item) ==
  /\ Record(item) /\ item \in ChatItems /\ item.kind # "summary"
  /\ item.event = eventSeq + 1 /\ item.turn = turnSeq'
  /\ turnSeq' \in Nat \ {0} /\ turnSeq' >= turnSeq
  /\ batch' \in CallIds /\ (batch' # <<>> => turnNow' # 0)
  /\ turnNow' = 0 \/ (turnNow' = turnSeq' /\ (turnNow' = turnNow \/ item.kind = "user"))

(* Such a step keeps what a compaction relies on.                           *)
LEMMA RecordKept ==
  ASSUME KeptInv, NEW item, Records(item)
  PROVE  KeptInv'
<1>0. /\ Record(item) /\ item \in ChatItems /\ item.kind # "summary"
      /\ item.event = eventSeq + 1 /\ item.turn = turnSeq'
      /\ turnSeq' \in Nat \ {0} /\ turnSeq' >= turnSeq
      /\ batch' \in CallIds /\ (batch' # <<>> => turnNow' # 0)
      /\ turnNow' = 0 \/ (turnNow' = turnSeq' /\ (turnNow' = turnNow \/ item.kind = "user"))
  BY DEF Records
<1> DEFINE n == Len(history)
           g == Append(history, item)
<1>1. /\ history' = g /\ eventSeq' = eventSeq + 1 /\ spoken' = spoken \cup {eventSeq + 1}
      /\ anchor' = anchor /\ compacts' = compacts
  BY <1>0 DEF Record
<1>2. /\ history \in Seq(ChatItems) /\ eventSeq \in Nat /\ turnSeq \in Nat /\ turnNow \in Nat
      /\ anchor \in Nat /\ compacts \in Nat
  BY DEF KeptInv, ChatTypes
<1>3. /\ g \in Seq(ChatItems) /\ n \in Nat /\ DOMAIN history = 1..n /\ DOMAIN g = 1..(n + 1)
      /\ \A i \in 1..n : g[i] = history[i]
      /\ g[n + 1] = item
      /\ \A i \in 1..(n + 1) : i \in 1..n \/ i = n + 1
  BY <1>0, <1>2, RecordedIs
<1>4. /\ item.turn # 0
      /\ \A i \in 1..n : history[i].turn <= item.turn /\ history[i].event # item.event
  <2>1. \A i \in 1..n : history[i].event \in 1..eventSeq /\ history[i].turn \in 0..turnSeq
    BY <1>3 DEF KeptInv, Dated
  <2> QED BY <1>0, <1>2, <2>1
<1> HIDE DEF n, g
<1>5. ChatTypes'
  BY <1>0, <1>1, <1>2, <1>3 DEF ChatTypes
<1>6. TurnsInOrder(g)
  <2>1. \A i \in 1..n : history[i].kind = "summary" <=> history[i].turn = 0
    BY <1>0, <1>3 DEF KeptInv, TurnsInOrder
  <2>2. \A i \in DOMAIN g : g[i].kind = "summary" <=> g[i].turn = 0
    BY <1>0, <1>3, <1>4, <2>1
  <2>3. ASSUME NEW i \in DOMAIN g, NEW j \in DOMAIN g, i < j
        PROVE  g[i].turn <= g[j].turn /\ g[j].kind # "summary"
    <3>1. i \in 1..n
      BY <1>0, <1>3, <2>3
    <3>2. CASE j = n + 1
      BY <1>0, <1>3, <1>4, <3>1, <3>2
    <3>3. CASE j \in 1..n
      BY <1>0, <1>3, <2>3, <3>1, <3>3 DEF KeptInv, TurnsInOrder
    <3> QED BY <1>0, <1>3, <3>2, <3>3
  <2>4. ASSUME NEW i \in DOMAIN g, NEW j \in DOMAIN g, i # j
        PROVE  g[i].event # g[j].event
    <3>1. CASE i \in 1..n /\ j \in 1..n
      BY <1>0, <1>3, <2>4, <3>1 DEF KeptInv, TurnsInOrder
    <3>2. CASE i = n + 1 /\ j \in 1..n
      BY <1>0, <1>3, <1>4, <3>2
    <3>3. CASE j = n + 1 /\ i \in 1..n
      BY <1>0, <1>3, <1>4, <3>3
    <3> QED BY <1>0, <1>3, <2>4, <3>1, <3>2, <3>3
  <2> QED BY <1>0, <2>2, <2>3, <2>4 DEF TurnsInOrder
<1>7. Dated'
  <2>1. ASSUME NEW i \in DOMAIN g
        PROVE  /\ g[i].event \in 1..(eventSeq + 1) /\ g[i].turn \in 0..turnSeq'
               /\ g[i].kind = "summary" => g[i].event \notin spoken \cup {eventSeq + 1}
    <3>1. CASE i \in 1..n
      <4>1. /\ history[i].event \in 1..eventSeq /\ history[i].turn \in 0..turnSeq
            /\ history[i].kind = "summary" => history[i].event \notin spoken
        BY <1>0, <1>3, <3>1 DEF KeptInv, Dated
      <4> QED BY <1>0, <1>2, <1>3, <3>1, <4>1
    <3>2. CASE i = n + 1
      BY <1>0, <1>2, <1>3, <3>2
    <3> QED BY <1>0, <1>3, <3>1, <3>2
  <2>2. spoken \cup {eventSeq + 1} \subseteq 1..(eventSeq + 1)
    <3>1. spoken \subseteq 1..eventSeq
      BY DEF KeptInv, Dated
    <3> QED BY <1>2, <3>1
  <2> QED BY <1>0, <1>1, <2>1, <2>2 DEF Dated
<1>8. Remembered'
  <2>1. ASSUME NEW e \in spoken \cup {eventSeq + 1}
        PROVE  \E i \in DOMAIN g : g[i].event = e \/ (g[i].kind = "summary" /\ e \in g[i].given)
    <3>1. CASE e = eventSeq + 1
      <4>1. n + 1 \in DOMAIN g
        BY <1>0, <1>3
      <4> QED BY <1>0, <1>3, <3>1, <4>1
    <3>2. CASE e \in spoken
      <4>1. PICK i \in 1..n : history[i].event = e
                              \/ (history[i].kind = "summary" /\ e \in history[i].given)
        BY <1>0, <1>3, <3>2 DEF KeptInv, Remembered
      <4>2. i \in DOMAIN g
        BY <1>0, <1>3
      <4> QED BY <1>0, <1>3, <4>1, <4>2
    <3> QED BY <1>0, <3>1, <3>2
  <2>2. ASSUME turnNow' # 0 PROVE \E i \in DOMAIN g : g[i].kind = "user" /\ g[i].turn = turnNow'
    <3>1. CASE item.kind = "user"
      <4>1. n + 1 \in DOMAIN g
        BY <1>0, <1>3
      <4> QED BY <1>0, <1>3, <2>2, <3>1, <4>1
    <3>2. CASE item.kind # "user"
      <4>1. turnNow' = turnNow
        BY <1>0, <2>2, <3>2
      <4>2. PICK i \in 1..n : history[i].kind = "user" /\ history[i].turn = turnNow
        BY <1>0, <1>3, <2>2, <4>1 DEF KeptInv, Remembered
      <4>3. i \in DOMAIN g
        BY <1>0, <1>3
      <4> QED BY <1>0, <1>3, <4>1, <4>2, <4>3
    <3> QED BY <1>0, <3>1, <3>2
  <2> QED BY <1>0, <1>1, <2>1, <2>2 DEF Remembered
<1> QED BY <1>0, <1>1, <1>5, <1>6, <1>7, <1>8 DEF KeptInv

-----------------------------------------------------------------------------
(* Where a turn begins in the history.                                      *)
LEMMA FirstOfIs ==
  ASSUME history \in Seq(ChatItems), NEW t \in Groups
  PROVE  /\ FirstOf(t) \in 1..Len(history) /\ history[FirstOf(t)].turn = t
         /\ \A j \in 1..Len(history) : history[j].turn = t => FirstOf(t) <= j
<1>1. Len(history) \in Nat /\ DOMAIN history = 1..Len(history)
  OBVIOUS
<1> DEFINE S == {i \in 1..Len(history) : history[i].turn = t}
<1>2. S \in SUBSET Nat /\ S # {}
  BY <1>1 DEF Groups
<1>3. PICK x \in S : \A y \in S : x <= y
  <2> HIDE DEF S
  <2> QED BY <1>2, SmallestMember
<1>4. \A j \in 1..x - 1 : history[j].turn # t
  <2> SUFFICES ASSUME NEW j \in 1..x - 1, history[j].turn = t PROVE FALSE
    OBVIOUS
  <2>1. x \in 1..Len(history)
    BY <1>3
  <2>2. j \in 1..Len(history) /\ ~ (x <= j)
    BY <1>1, <2>1
  <2> QED BY <1>3, <2>2
<1>5. /\ FirstOf(t) \in DOMAIN history /\ history[FirstOf(t)].turn = t
      /\ \A j \in 1..FirstOf(t) - 1 : history[j].turn # t
  BY <1>1, <1>3, <1>4 DEF FirstOf
<1> HIDE DEF S
<1>6. \A j \in 1..Len(history) : history[j].turn = t => FirstOf(t) <= j
  <2> SUFFICES ASSUME NEW j \in 1..Len(history), history[j].turn = t, ~ (FirstOf(t) <= j) PROVE FALSE
    OBVIOUS
  <2>1. j \in 1..FirstOf(t) - 1
    BY <1>1, <1>5
  <2> QED BY <1>5, <2>1
<1> QED BY <1>1, <1>5, <1>6

(* The turns stand in their order, so that what is protected are the last   *)
(* turns: with one all later ones are, and the turn in progress is.         *)
LEMMA LateIsProtected ==
  ASSUME KeptInv, NEW t \in Groups, NEW u \in Groups, t <= u, t \in ProtectedTurns
  PROVE  u \in ProtectedTurns
<1>1. /\ history \in Seq(ChatItems) /\ TurnsInOrder(history) /\ turnSeq \in Nat
      /\ \A i \in 1..Len(history) : history[i].turn \in 0..turnSeq
      /\ DOMAIN history = 1..Len(history) /\ Len(history) \in Nat
  <2>1. history \in Seq(ChatItems) /\ turnSeq \in Nat
    BY DEF KeptInv, ChatTypes
  <2>2. DOMAIN history = 1..Len(history) /\ Len(history) \in Nat
    BY <2>1
  <2> QED BY <2>1, <2>2 DEF KeptInv, Dated
<1> DEFINE Later(v) == {w \in Groups : FirstOf(w) > FirstOf(v)}
<1>2. Groups \subseteq 0..turnSeq
  BY <1>1 DEF Groups
<1>3. FirstOf(t) <= FirstOf(u)
  <2>1. /\ FirstOf(t) \in 1..Len(history) /\ history[FirstOf(t)].turn = t
        /\ \A j \in 1..Len(history) : history[j].turn = t => FirstOf(t) <= j
    BY <1>1, FirstOfIs
  <2>2. FirstOf(u) \in 1..Len(history) /\ history[FirstOf(u)].turn = u
    BY <1>1, FirstOfIs
  <2> SUFFICES ASSUME FirstOf(u) < FirstOf(t) PROVE FALSE
    BY <1>1, <2>1, <2>2
  <2>3. u <= t
    BY <1>1, <2>1, <2>2 DEF TurnsInOrder
  <2>4. u = t
    BY <1>2, <2>3
  <2> QED BY <1>1, <2>1, <2>2, <2>4
<1>4. Later(u) \subseteq Later(t)
  <2> SUFFICES ASSUME NEW w \in Groups, FirstOf(w) > FirstOf(u) PROVE FirstOf(w) > FirstOf(t)
    OBVIOUS
  <2>1. FirstOf(w) \in Nat /\ FirstOf(t) \in Nat /\ FirstOf(u) \in Nat
    <3>1. \A v \in Groups : FirstOf(v) \in 1..Len(history)
      BY <1>1, FirstOfIs
    <3> QED BY <1>1, <3>1
  <2> QED BY <1>3, <2>1
<1>5. IsFiniteSet(Later(t))
  <2>1. IsFiniteSet(0..turnSeq)
    BY <1>1, FS_Interval
  <2>2. Later(t) \in SUBSET (0..turnSeq)
    BY <1>2
  <2> HIDE DEF Later
  <2> QED BY <2>1, <2>2, FS_Subset
<1>6. /\ Cardinality(Later(u)) <= Cardinality(Later(t))
      /\ Cardinality(Later(u)) \in Nat /\ Cardinality(Later(t)) \in Nat
  <2>1. Later(u) \in SUBSET Later(t)
    BY <1>4
  <2> HIDE DEF Later
  <2>2. IsFiniteSet(Later(u)) /\ Cardinality(Later(u)) <= Cardinality(Later(t))
    BY <1>5, <2>1, FS_Subset
  <2> QED BY <1>5, <2>2, FS_CardinalityType
<1>7. Cardinality(Later(t)) < Keep /\ Keep \in Nat
  BY ChatHistoryAssumptions DEF ProtectedTurns
<1>8. Cardinality(Later(u)) < Keep
  <2> HIDE DEF Later
  <2> QED BY <1>6, <1>7
<1> QED BY <1>8 DEF ProtectedTurns

(* The turn that goes on has the last place, and keeps it.                  *)
LEMMA NowIsProtected ==
  ASSUME KeptInv, turnNow # 0
  PROVE  turnNow \in Groups /\ turnNow \in ProtectedTurns
<1>1. /\ history \in Seq(ChatItems) /\ TurnsInOrder(history) /\ turnSeq \in Nat /\ turnNow = turnSeq
      /\ \A i \in 1..Len(history) : history[i].turn \in 0..turnSeq
      /\ DOMAIN history = 1..Len(history) /\ Len(history) \in Nat
  <2>1. history \in Seq(ChatItems) /\ turnSeq \in Nat /\ turnNow = turnSeq
    BY DEF KeptInv, ChatTypes
  <2>2. DOMAIN history = 1..Len(history) /\ Len(history) \in Nat
    BY <2>1
  <2> QED BY <2>1, <2>2 DEF KeptInv, Dated
<1>2. turnNow \in Groups
  BY DEF KeptInv, Remembered, Groups
<1>3. {w \in Groups : FirstOf(w) > FirstOf(turnNow)} = {}
  <2> SUFFICES ASSUME NEW w \in Groups, FirstOf(w) > FirstOf(turnNow) PROVE FALSE
    OBVIOUS
  <2>1. FirstOf(turnNow) \in 1..Len(history) /\ history[FirstOf(turnNow)].turn = turnNow
    BY <1>1, <1>2, FirstOfIs
  <2>2. /\ FirstOf(w) \in 1..Len(history) /\ history[FirstOf(w)].turn = w
        /\ \A j \in 1..Len(history) : history[j].turn = w => FirstOf(w) <= j
    BY <1>1, FirstOfIs
  <2>3. turnNow <= w
    BY <1>1, <2>1, <2>2 DEF TurnsInOrder
  <2>4. w \in 0..turnSeq
    BY <1>1, <2>2
  <2>5. w = turnNow
    BY <1>1, <2>3, <2>4
  <2> QED BY <1>1, <2>1, <2>2, <2>5
<1>4. 0 < Keep
  BY ChatHistoryAssumptions
<1>5. Cardinality({w \in Groups : FirstOf(w) > FirstOf(turnNow)}) = 0
  BY <1>3, FS_EmptySet
<1> QED BY <1>2, <1>4, <1>5 DEF ProtectedTurns

(* What a compaction leaves: a summary, and the items from the m-th on,     *)
(* which are the whole of the last turns.                                   *)
Compacted(m, s) ==
  /\ s \in ChatItems /\ s.kind = "summary" /\ s.turn = 0 /\ s.event = eventSeq + 1
  /\ history' \in Seq(ChatItems) /\ Len(history') = Len(history) + 2 - m
  /\ history'[1] = s /\ \A i \in 2..Len(history') : history'[i] = history[m + i - 2]
  /\ \A i \in m..Len(history) : history[i].kind # "summary"
  /\ \A i \in 1..m - 1 : /\ history[i].turn # turnNow \/ turnNow = 0
                         /\ \A j \in m..Len(history) : history[i].turn # history[j].turn
                         /\ IF history[i].kind = "summary" THEN history[i].given \subseteq s.given
                            ELSE history[i].event \in s.given

(* The summary there was goes into the new one.                             *)
LEMMA PriorIs ==
  ASSUME KeptInv
  PROVE  /\ PriorSummary.given \subseteq Nat
         /\ \A i \in DOMAIN history : history[i].kind = "summary" => PriorSummary = history[i]
<1>1. history \in Seq(ChatItems) /\ DOMAIN history = 1..Len(history) /\ Len(history) \in Nat
  <2>1. history \in Seq(ChatItems)
    BY DEF KeptInv, ChatTypes
  <2> QED BY <2>1
<1> DEFINE S == {item \in ToSet(history) : item.kind = "summary"}
           q == Summaries
           named == Only(q, {item \in ToSet(q) : item.event = anchor})
<1>2. /\ q \in Seq(ChatItems) /\ Len(q) \in Nat /\ DOMAIN q = 1..Len(q)
      /\ \A i \in 1..Len(q) : q[i].kind = "summary" /\ \E j \in DOMAIN history : q[i] = history[j]
      /\ \A j \in DOMAIN history : history[j].kind = "summary" => \E i \in 1..Len(q) : q[i] = history[j]
  <2>1. q = Only(history, S)
    BY DEF Summaries
  <2>2. \A j \in DOMAIN history : history[j] \in S <=> history[j].kind = "summary"
    BY DEF ToSet
  <2>3. \A x \in S : x.kind = "summary"
    OBVIOUS
  <2> HIDE DEF S, q
  <2>4. /\ Only(history, S) \in Seq(ChatItems) /\ Len(Only(history, S)) \in Nat
        /\ DOMAIN Only(history, S) = 1..Len(Only(history, S))
        /\ \A i \in DOMAIN Only(history, S) :
             Only(history, S)[i] \in S /\ \E j \in DOMAIN history : Only(history, S)[i] = history[j]
        /\ \A j \in DOMAIN history : history[j] \in S =>
             \E i \in DOMAIN Only(history, S) : Only(history, S)[i] = history[j]
    <3>1. history \in Seq(ChatItems)
      BY <1>1
    <3> QED BY <3>1, OnlyMembers
  <2> QED BY <2>1, <2>2, <2>3, <2>4
<1>3. /\ named \in Seq(ChatItems) /\ Len(named) \in Nat /\ DOMAIN named = 1..Len(named)
      /\ \A i \in 1..Len(named) : \E j \in 1..Len(q) : named[i] = q[j]
  <2> DEFINE A == {item \in ToSet(q) : item.event = anchor}
  <2>1. q \in Seq(ChatItems)
    BY <1>2
  <2> HIDE DEF q, A
  <2>2. /\ Only(q, A) \in Seq(ChatItems) /\ Len(Only(q, A)) \in Nat
        /\ DOMAIN Only(q, A) = 1..Len(Only(q, A))
        /\ \A i \in DOMAIN Only(q, A) : \E j \in DOMAIN q : Only(q, A)[i] = q[j]
    BY <2>1, OnlyMembers
  <2>3. named = Only(q, A)
    BY DEF A
  <2> HIDE DEF named
  <2> QED BY <1>2, <2>2, <2>3
<1>4. PriorSummary = IF named # <<>> THEN Head(named) ELSE IF q # <<>> THEN Last(q) ELSE Nothing
  BY DEF PriorSummary
<1> HIDE DEF S, q, named
<1>5. CASE q = <<>>
  <2>1. \A j \in DOMAIN history : history[j].kind # "summary"
    BY <1>2, <1>5
  <2>2. named = <<>>
    <3>1. \A i \in 1..Len(named) : FALSE
      BY <1>3, <1>5
    <3> QED BY <1>3, <3>1
  <2> QED BY <1>4, <1>5, <2>1, <2>2 DEF Nothing
<1>6. CASE q # <<>>
  <2>1. PICK k \in 1..Len(q) : PriorSummary = q[k]
    <3>1. CASE named # <<>>
      <4>1. 1 \in 1..Len(named) /\ Head(named) = named[1]
        BY <1>3, <3>1
      <4> QED BY <1>3, <1>4, <3>1, <4>1
    <3>2. CASE named = <<>>
      <4>1. Len(q) \in 1..Len(q) /\ Last(q) = q[Len(q)]
        BY <1>2, <1>6 DEF Last
      <4> QED BY <1>4, <1>6, <3>2, <4>1
    <3> QED BY <3>1, <3>2
  <2>2. PICK j \in DOMAIN history : q[k] = history[j] /\ history[j].kind = "summary"
    BY <1>2, <2>1
  <2>3. history[j].given \subseteq Nat
    <3>1. history[j] \in ChatItems
      BY <1>1
    <3> QED BY <3>1 DEF ChatItems
  <2>4. \A i \in DOMAIN history : history[i].kind = "summary" => i = j
    <3>1. \A i, l \in DOMAIN history : i < l => history[l].kind # "summary"
      BY DEF KeptInv, TurnsInOrder
    <3> QED BY <1>1, <2>2, <3>1
  <2> QED BY <2>1, <2>2, <2>3, <2>4
<1> QED BY <1>5, <1>6

(* What a compaction leaves: the new summary, which has what the old one    *)
(* had and what is cut out, and then what is kept.                          *)
LEMMA CompactionIs ==
  ASSUME KeptInv, NEW trigger, CompactHistory(trigger)
  PROVE  \E m \in 1..(Len(history) + 1), s \in ChatItems : Compacted(m, s)
<1>1. /\ history \in Seq(ChatItems) /\ DOMAIN history = 1..Len(history) /\ Len(history) \in Nat
      /\ eventSeq \in Nat /\ turnNow \in Nat
      /\ \A i \in 1..Len(history) : history[i] \in ChatItems /\ history[i].turn \in Nat
                                    /\ history[i].turn \in Groups
  <2>1. history \in Seq(ChatItems) /\ eventSeq \in Nat /\ turnNow \in Nat
    BY DEF KeptInv, ChatTypes
  <2>2. /\ DOMAIN history = 1..Len(history) /\ Len(history) \in Nat
        /\ \A i \in 1..Len(history) : history[i] \in ChatItems
    BY <2>1
  <2> QED BY <2>1, <2>2 DEF ChatItems, Groups
<1> DEFINE N == Len(history)
           P == {i \in 1..N : history[i].turn \in ProtectedTurns}
<1>2. \A i, j \in 1..N : i \in P /\ i <= j => j \in P
  <2> SUFFICES ASSUME NEW i \in P, NEW j \in 1..N, i <= j PROVE history[j].turn \in ProtectedTurns
    OBVIOUS
  <2>1. history[i].turn <= history[j].turn
    <3>1. CASE i = j
      BY <1>1, <3>1
    <3>2. CASE i < j
      BY <1>1, <3>2 DEF KeptInv, TurnsInOrder
    <3> QED BY <1>1, <3>1, <3>2
  <2> QED BY <1>1, <2>1, LateIsProtected
<1>3. PICK m \in 1..(N + 1) : \A i \in 1..N : i \in P <=> i >= m
  <2>1. CASE P = {}
    <3>1. N + 1 \in 1..(N + 1) /\ \A i \in 1..N : ~ (i >= N + 1)
      BY <1>1
    <3> HIDE DEF P, N
    <3> QED BY <2>1, <3>1
  <2>2. CASE P # {}
    <3>1. P \in SUBSET Nat /\ P \subseteq 1..N
      BY <1>1
    <3>2. PICK x \in P : \A y \in P : x <= y
      <4> HIDE DEF P
      <4> QED BY <2>2, <3>1, SmallestMember
    <3>3. x \in 1..(N + 1) /\ x \in 1..N
      BY <1>1, <3>1, <3>2
    <3> HIDE DEF P, N
    <3> QED BY <1>2, <3>1, <3>2, <3>3
  <2> QED BY <2>1, <2>2
<1>4. \A i \in 1..N : history[i].turn \in ProtectedTurns <=> i >= m
  BY <1>3
<1> HIDE DEF P
<1>5. PICK w \in 1..N : w < m /\ history[w].kind # "summary"
  <2>1. PICK item \in ToSet(history) : item.turn \notin ProtectedTurns /\ item.kind # "summary"
    BY DEF CompactHistory, NewItems
  <2>2. PICK w \in 1..N : item = history[w]
    BY <1>1, <2>1 DEF ToSet
  <2>3. ~ (w >= m)
    BY <1>4, <2>1, <2>2
  <2> QED BY <1>1, <1>3, <2>1, <2>2, <2>3
<1>6. \A i \in m..N : history[i].kind # "summary"
  <2> SUFFICES ASSUME NEW i \in m..N PROVE history[i].kind # "summary"
    OBVIOUS
  <2>1. i \in DOMAIN history /\ w \in DOMAIN history /\ w < i
    BY <1>1, <1>5
  <2> QED BY <2>1 DEF KeptInv, TurnsInOrder
<1> DEFINE K == {item \in ToSet(history) : item.turn \in ProtectedTurns}
<1>7. /\ Kept \in Seq(ChatItems) /\ Len(Kept) = N + 1 - m
      /\ \A i \in 1..(N + 1 - m) : Kept[i] = history[m + i - 1]
  <2>1. \A i \in 1..N : history[i] \in K <=> m <= i /\ i <= N
    <3>1. \A i \in 1..N : history[i] \in ToSet(history)
      BY <1>1 DEF ToSet
    <3> QED BY <1>1, <1>4, <3>1
  <2>2. N \in 0..N /\ m <= N + 1
    BY <1>1, <1>3
  <2>3. Kept = Only(history, K)
    BY DEF Kept
  <2> HIDE DEF K
  <2>4. /\ Only(history, K) \in Seq(ChatItems) /\ Len(Only(history, K)) = N + 1 - m
        /\ \A i \in 1..(N + 1 - m) : Only(history, K)[i] = history[m + i - 1]
    <3>1. history \in Seq(ChatItems)
      BY <1>1
    <3> QED BY <1>3, <2>1, <2>2, <3>1, OnlyStretch
  <2> QED BY <2>3, <2>4
<1> DEFINE s == [kind |-> "summary", turn |-> 0, event |-> eventSeq + 1, ids |-> <<>>,
                 given |-> PriorSummary.given \cup EventsOf(NewItems)]
<1>8. s \in ChatItems /\ s.kind = "summary" /\ s.turn = 0 /\ s.event = eventSeq + 1
      /\ s.given = PriorSummary.given \cup EventsOf(NewItems)
  <2>1. EventsOf(NewItems) \subseteq Nat
    <3>1. \A item \in NewItems : item \in ChatItems
      BY <1>1 DEF NewItems, ToSet
    <3> QED BY <3>1 DEF EventsOf, ChatItems
  <2>2. <<>> \in CallIds
    BY DEF CallIds
  <2> QED BY <1>1, <2>1, <2>2, PriorIs DEF ChatItems
<1>9. history' = <<s>> \o Kept
  BY DEF CompactHistory
<1> HIDE DEF s, K
<1>10. /\ history' \in Seq(ChatItems) /\ Len(history') = N + 2 - m
       /\ history'[1] = s /\ \A i \in 2..Len(history') : history'[i] = history[m + i - 2]
  <2> DEFINE one == <<s>>
  <2>1. one \in Seq(ChatItems) /\ Len(one) = 1 /\ one[1] = s
    BY <1>8
  <2>2. history' = one \o Kept
    BY <1>9
  <2> HIDE DEF one
  <2>3. /\ history' \in Seq(ChatItems) /\ Len(history') = 1 + Len(Kept)
        /\ \A i \in 1..1 : history'[i] = one[i]
        /\ \A i \in 2..(1 + Len(Kept)) : i - 1 \in 1..Len(Kept) /\ history'[i] = Kept[i - 1]
    <3>1. /\ one \o Kept \in Seq(ChatItems) /\ Len(one \o Kept) = Len(one) + Len(Kept)
          /\ \A i \in 1..Len(one) : (one \o Kept)[i] = one[i]
          /\ \A i \in (Len(one) + 1)..(Len(one) + Len(Kept)) :
               i - Len(one) \in 1..Len(Kept) /\ (one \o Kept)[i] = Kept[i - Len(one)]
      BY <1>7, <2>1, ConcatIs
    <3>2. Len(one) + 1 = 2
      BY <2>1
    <3> QED BY <2>1, <2>2, <3>1, <3>2
  <2>4. 1 + Len(Kept) = N + 2 - m
    BY <1>1, <1>3, <1>7
  <2>5. history'[1] = s
    BY <2>1, <2>3
  <2>6. ASSUME NEW i \in 2..(N + 2 - m) PROVE history'[i] = history[m + i - 2]
    <3>1. i - 1 \in 1..Len(Kept) /\ history'[i] = Kept[i - 1]
      BY <2>3, <2>4
    <3>2. Kept[i - 1] = history[m + (i - 1) - 1]
      BY <1>7, <3>1
    <3>3. m + (i - 1) - 1 = m + i - 2
      BY <1>1, <1>3
    <3> QED BY <3>1, <3>2, <3>3
  <2> QED BY <2>3, <2>4, <2>5, <2>6
<1>11. ASSUME NEW i \in 1..m - 1
       PROVE  /\ history[i].turn # turnNow \/ turnNow = 0
              /\ \A j \in m..N : history[i].turn # history[j].turn
              /\ IF history[i].kind = "summary" THEN history[i].given \subseteq s.given
                 ELSE history[i].event \in s.given
  <2>1. i \in 1..N /\ ~ (i >= m)
    BY <1>1, <1>3
  <2>2. history[i].turn \notin ProtectedTurns
    BY <1>4, <2>1
  <2>3. history[i].turn # turnNow \/ turnNow = 0
    BY <2>2, NowIsProtected
  <2>4. \A j \in m..N : history[i].turn # history[j].turn
    <3>1. \A j \in m..N : j \in 1..N /\ j >= m
      BY <1>1, <1>3
    <3> QED BY <1>4, <2>2, <3>1
  <2>5. history[i].kind = "summary" => history[i].given \subseteq s.given
    <3>1. history[i].kind = "summary" => PriorSummary = history[i]
      BY <1>1, <2>1, PriorIs
    <3> QED BY <1>8, <3>1
  <2>6. history[i].kind # "summary" => history[i].event \in s.given
    <3> SUFFICES ASSUME history[i].kind # "summary" PROVE history[i].event \in EventsOf(NewItems)
      BY <1>8
    <3>1. history[i] \in NewItems
      BY <1>1, <2>1, <2>2 DEF NewItems, ToSet
    <3> QED BY <3>1 DEF EventsOf
  <2> QED BY <2>3, <2>4, <2>5, <2>6
<1>12. Compacted(m, s)
  BY <1>6, <1>8, <1>10, <1>11 DEF Compacted
<1> QED BY <1>3, <1>8, <1>12

(* A compaction keeps what was said and the turn in progress.               *)
LEMMA CompactionKept ==
  ASSUME KeptInv, NEW trigger, CompactHistory(trigger)
  PROVE  KeptInv'
<1>1. PICK m \in 1..(Len(history) + 1), s \in ChatItems : Compacted(m, s)
  BY CompactionIs
<1> DEFINE N == Len(history)
           M == Len(history')
<1>2. /\ history \in Seq(ChatItems) /\ DOMAIN history = 1..N /\ N \in Nat
      /\ eventSeq \in Nat /\ turnNow \in Nat /\ turnSeq \in Nat /\ anchor \in Nat /\ compacts \in Nat
      /\ batch \in CallIds
  <2>1. /\ history \in Seq(ChatItems) /\ eventSeq \in Nat /\ turnNow \in Nat
        /\ turnSeq \in Nat /\ anchor \in Nat /\ compacts \in Nat /\ batch \in CallIds
    BY DEF KeptInv, ChatTypes
  <2> QED BY <2>1
<1>3. /\ anchor' = eventSeq + 1 /\ eventSeq' = eventSeq + 1 /\ compacts' = compacts + 1
      /\ turnNow' = turnNow /\ turnSeq' = turnSeq /\ batch' = batch /\ spoken' = spoken
  BY DEF CompactHistory
<1>4. /\ history' \in Seq(ChatItems) /\ M = N + 2 - m /\ M \in Nat /\ DOMAIN history' = 1..M /\ 1 \in 1..M
      /\ history'[1] = s
      /\ \A i \in 2..M : m + i - 2 \in m..N /\ m + i - 2 \in 1..N /\ history'[i] = history[m + i - 2]
      /\ \A k \in m..N : k + 2 - m \in 2..M /\ k + 2 - m \in 1..M /\ history'[k + 2 - m] = history[k]
  <2>1. /\ history' \in Seq(ChatItems) /\ M = N + 2 - m /\ history'[1] = s
        /\ \A i \in 2..M : history'[i] = history[m + i - 2]
    BY <1>1 DEF Compacted
  <2>2. M \in Nat /\ DOMAIN history' = 1..M
    BY <2>1
  <2> HIDE DEF N, M
  <2>3. 1 \in 1..M
    BY <1>2, <2>1
  <2>4. \A i \in 2..M : m + i - 2 \in m..N /\ m + i - 2 \in 1..N
    BY <1>2, <2>1
  <2>5. \A k \in m..N : k + 2 - m \in 2..M /\ k + 2 - m \in 1..M /\ m + (k + 2 - m) - 2 = k
    BY <1>2, <2>1
  <2> QED BY <2>1, <2>2, <2>3, <2>4, <2>5
<1>5. /\ s.kind = "summary" /\ s.turn = 0 /\ s.event = eventSeq + 1
      /\ \A i \in m..N : history[i].kind # "summary"
      /\ \A i \in 1..m - 1 : /\ history[i].turn # turnNow \/ turnNow = 0
                             /\ \A j \in m..N : history[i].turn # history[j].turn
                             /\ IF history[i].kind = "summary" THEN history[i].given \subseteq s.given
                                ELSE history[i].event \in s.given
  BY <1>1 DEF Compacted
<1>6. \A i \in 1..M : i = 1 \/ i \in 2..M
  BY <1>4
<1>7. \A i \in 1..N : i \in 1..m - 1 \/ i \in m..N
  BY <1>2
<1>8. \A i \in 1..N : history[i].event \in 1..eventSeq /\ history[i].turn \in 0..turnSeq
  BY <1>2 DEF KeptInv, Dated
<1>9. /\ \A i \in 1..N : history[i].kind = "summary" <=> history[i].turn = 0
      /\ \A i, j \in 1..N : i < j => history[i].turn <= history[j].turn /\ history[j].kind # "summary"
      /\ \A i, j \in 1..N : i # j => history[i].event # history[j].event
  BY <1>2 DEF KeptInv, TurnsInOrder
<1> HIDE DEF N, M
<1>10. ChatTypes'
  <2>1. batch = <<>>
    BY DEF CompactHistory
  <2> QED BY <1>2, <1>3, <1>4, <2>1 DEF ChatTypes, KeptInv
<1>11. TurnsInOrder(history')
  <2>1. \A i \in 1..M : history'[i].kind = "summary" <=> history'[i].turn = 0
    BY <1>4, <1>5, <1>6, <1>9
  <2>2. ASSUME NEW i \in 1..M, NEW j \in 1..M, i < j
        PROVE  history'[i].turn <= history'[j].turn /\ history'[j].kind # "summary"
    <3>1. j \in 2..M
      BY <1>4, <2>2
    <3>2. history'[j] = history[m + j - 2] /\ m + j - 2 \in m..N /\ m + j - 2 \in 1..N
      BY <1>4, <3>1
    <3>3. CASE i = 1
      BY <1>2, <1>4, <1>5, <1>8, <3>2, <3>3
    <3>4. CASE i \in 2..M
      <4> DEFINE a == m + i - 2
                 c == m + j - 2
      <4>1. history'[i] = history[a] /\ a \in 1..N /\ a < c
        <5>1. history'[i] = history[m + i - 2] /\ m + i - 2 \in 1..N
          BY <1>4, <3>4
        <5>2. i \in Int /\ j \in Int /\ m \in Int
          OBVIOUS
        <5>3. m + i - 2 < m + j - 2
          BY <2>2, <5>2
        <5> QED BY <5>1, <5>3
      <4>2. history'[j] = history[c] /\ c \in 1..N
        BY <3>2
      <4> HIDE DEF a, c
      <4> QED BY <1>9, <4>1, <4>2
    <3> QED BY <1>6, <3>3, <3>4
  <2>3. ASSUME NEW i \in 1..M, NEW j \in 1..M, i # j
        PROVE  history'[i].event # history'[j].event
    <3>1. CASE i = 1
      <4>1. j \in 2..M
        BY <1>6, <2>3, <3>1
      <4>2. history'[j].event \in 1..eventSeq
        BY <1>4, <1>8, <4>1
      <4> QED BY <1>2, <1>4, <1>5, <3>1, <4>2
    <3>2. CASE j = 1
      <4>1. i \in 2..M
        BY <1>6, <2>3, <3>2
      <4>2. history'[i].event \in 1..eventSeq
        BY <1>4, <1>8, <4>1
      <4> QED BY <1>2, <1>4, <1>5, <3>2, <4>2
    <3>3. CASE i \in 2..M /\ j \in 2..M
      <4>1. m + i - 2 # m + j - 2
        BY <2>3
      <4> QED BY <1>4, <1>9, <3>3, <4>1
    <3> QED BY <1>6, <3>1, <3>2, <3>3
  <2> QED BY <1>4, <2>1, <2>2, <2>3 DEF TurnsInOrder
<1>12. Dated'
  <2>1. spoken \subseteq 1..eventSeq
    BY DEF KeptInv, Dated
  <2>2. ASSUME NEW i \in 1..M
        PROVE  /\ history'[i].event \in 1..(eventSeq + 1) /\ history'[i].turn \in 0..turnSeq
               /\ history'[i].kind = "summary" => history'[i].event \notin spoken
    <3>1. CASE i = 1
      <4>1. s.event \notin spoken
        BY <1>2, <1>5, <2>1
      <4> QED BY <1>2, <1>4, <1>5, <3>1, <4>1
    <3>2. CASE i \in 2..M
      <4>1. history'[i].event \in 1..eventSeq /\ history'[i].turn \in 0..turnSeq
            /\ history'[i].kind # "summary"
        BY <1>4, <1>5, <1>8, <3>2
      <4> QED BY <1>2, <4>1
    <3> QED BY <1>6, <3>1, <3>2
  <2>3. spoken \subseteq 1..(eventSeq + 1)
    BY <1>2, <2>1
  <2> QED BY <1>3, <1>4, <2>2, <2>3 DEF Dated
<1>13. Remembered'
  <2>1. ASSUME NEW e \in spoken
        PROVE  \E i \in 1..M : history'[i].event = e
                               \/ (history'[i].kind = "summary" /\ e \in history'[i].given)
    <3>1. PICK k \in 1..N : history[k].event = e \/ (history[k].kind = "summary" /\ e \in history[k].given)
      BY <1>2 DEF KeptInv, Remembered
    <3>2. CASE k \in 1..m - 1
      <4>1. e \in s.given
        <5>1. CASE history[k].kind = "summary"
          <6>1. history[k].event \notin spoken
            BY <1>2, <5>1 DEF KeptInv, Dated
          <6>2. e \in history[k].given
            BY <3>1, <6>1
          <6> QED BY <1>5, <3>2, <5>1, <6>2
        <5>2. CASE history[k].kind # "summary"
          BY <1>5, <3>1, <3>2, <5>2
        <5> QED BY <5>1, <5>2
      <4> QED BY <1>4, <1>5, <4>1
    <3>3. CASE k \in m..N
      <4>1. k + 2 - m \in 1..M /\ history'[k + 2 - m] = history[k]
        BY <1>4, <3>3
      <4> QED BY <3>1, <4>1
    <3> QED BY <1>7, <3>2, <3>3
  <2>2. ASSUME turnNow # 0
        PROVE  \E i \in 1..M : history'[i].kind = "user" /\ history'[i].turn = turnNow
    <3>1. PICK k \in 1..N : history[k].kind = "user" /\ history[k].turn = turnNow
      BY <1>2, <2>2 DEF KeptInv, Remembered
    <3>2. k \in m..N
      BY <1>5, <1>7, <2>2, <3>1
    <3>3. k + 2 - m \in 1..M /\ history'[k + 2 - m] = history[k]
      BY <1>4, <3>2
    <3> QED BY <3>1, <3>3
  <2> QED BY <1>3, <1>4, <2>1, <2>2 DEF Remembered
<1> QED BY <1>10, <1>11, <1>12, <1>13 DEF KeptInv

(* A new session remembers all that was said in it.                         *)
LEMMA KeptInitInv == ChatHistoryInit => KeptInv
<1> SUFFICES ASSUME ChatHistoryInit PROVE KeptInv
  OBVIOUS
<1>1. /\ history = <<>> /\ batch = <<>> /\ eventSeq = 0 /\ turnNow = 0 /\ turnSeq = 0
      /\ anchor = 0 /\ compacts = 0 /\ spoken = {}
  BY DEF ChatHistoryInit
<1>2. DOMAIN history = {}
  BY <1>1
<1>3. history \in Seq(ChatItems) /\ batch \in CallIds
  BY <1>1 DEF CallIds
<1> QED BY <1>1, <1>2, <1>3 DEF KeptInv, ChatTypes, TurnsInOrder, Dated, Remembered

(* The first id is a pair, whatever else.                                   *)
LEMMA IdsAre ==
  ASSUME batch \in CallIds
  PROVE  /\ <<>> \in CallIds
         /\ batch # <<>> => <<Head(batch)>> \in CallIds /\ Tail(batch) \in CallIds
         /\ eventSeq \in Nat => \A n \in Nat : [i \in 1..n |-> <<eventSeq + 1, i>>] \in CallIds
         /\ \A n \in Nat : [i \in 1..n |-> NoId] \in CallIds
<1>1. <<>> \in CallIds
  BY DEF CallIds
<1>2. ASSUME batch # <<>> PROVE <<Head(batch)>> \in CallIds /\ Tail(batch) \in CallIds
  <2>1. batch \in Seq(Nat \X Nat)
    BY DEF CallIds
  <2>2. Head(batch) \in Nat \X Nat /\ Tail(batch) \in Seq(Nat \X Nat)
    BY <1>2, <2>1, HeadTailProperties
  <2> QED BY <2>2 DEF CallIds
<1>3. ASSUME eventSeq \in Nat, NEW n \in Nat PROVE [i \in 1..n |-> <<eventSeq + 1, i>>] \in CallIds
  <2>1. \A i \in 1..n : <<eventSeq + 1, i>> \in Nat \X Nat
    BY <1>3
  <2> QED BY <2>1 DEF CallIds
<1>4. ASSUME NEW n \in Nat PROVE [i \in 1..n |-> NoId] \in CallIds
  <2>1. NoId \in Nat \X Nat
    BY DEF NoId
  <2> QED BY <2>1 DEF CallIds
<1> QED BY <1>1, <1>2, <1>3, <1>4

(* Each step of a turn but its loss records one item.                       *)
LEMMA TurnStartsRecords ==
  ASSUME ChatTypes, TurnStarts
  PROVE  \E item : /\ Records(item) /\ item.kind = "user" /\ batch' = batch
                   /\ turnNow' = turnSeq'
<1> DEFINE item == [Item("user", <<>>) EXCEPT !.turn = turnSeq + 1]
<1>1. /\ turnSeq \in Nat /\ eventSeq \in Nat /\ turnNow \in Nat /\ batch \in CallIds
      /\ <<>> \in CallIds
  BY IdsAre DEF ChatTypes
<1>2. /\ item \in ChatItems /\ item.kind = "user" /\ item.event = eventSeq + 1
      /\ item.turn = turnSeq + 1
  BY <1>1 DEF Item, ChatItems
<1>3. /\ Record(item) /\ batch' = batch /\ turnSeq' = turnSeq + 1 /\ turnNow' = turnSeq + 1
  BY DEF TurnStarts
<1> HIDE DEF item
<1>4. turnSeq' \in Nat \ {0} /\ turnSeq' >= turnSeq
  BY <1>1, <1>3
<1> QED BY <1>1, <1>2, <1>3, <1>4 DEF Records

(* A reply with calls is recorded by its turn.                              *)
LEMMA CallsAreRecorded ==
  ASSUME ChatTypes, ModelCallsTools
  PROVE  \E n \in 1..MaxCalls : \E item :
           /\ Records(item) /\ item.kind = "calls" /\ batch = <<>> /\ turnNow' = turnNow
           /\ turnNow # 0 /\ item.ids = batch'
           /\ NamesCalls => item.ids = [i \in 1..n |-> <<eventSeq + 1, i>>]
<1>1. /\ turnSeq \in Nat /\ eventSeq \in Nat /\ turnNow \in Nat /\ batch \in CallIds
      /\ turnNow \in {0, turnSeq}
  BY DEF ChatTypes
<1>2. PICK n \in 1..MaxCalls :
        \E ids \in {[i \in 1..n |-> <<eventSeq + 1, i>>]}
                   \cup (IF NamesCalls THEN {} ELSE {[i \in 1..n |-> NoId]}) :
          Record(Item("calls", ids)) /\ batch' = ids
  BY DEF ModelCallsTools
<1>3. PICK ids : /\ ids = [i \in 1..n |-> <<eventSeq + 1, i>>]
                    \/ (~ NamesCalls /\ ids = [i \in 1..n |-> NoId])
                 /\ Record(Item("calls", ids)) /\ batch' = ids
  BY <1>2
<1>4. n \in Nat
  BY ChatHistoryAssumptions
<1>5. ids \in CallIds
  BY <1>1, <1>3, <1>4, IdsAre
<1> DEFINE item == Item("calls", ids)
<1>6. /\ item \in ChatItems /\ item.kind = "calls" /\ item.turn = turnNow
      /\ item.event = eventSeq + 1 /\ item.ids = ids
  BY <1>1, <1>5, ItemIs
<1>7. Record(item)
  BY <1>3
<1> HIDE DEF item
<1>8. turnNow # 0 /\ batch = <<>> /\ turnNow' = turnNow /\ turnSeq' = turnSeq
  BY DEF ModelCallsTools, Thinking
<1>9. Records(item)
  BY <1>1, <1>3, <1>5, <1>6, <1>7, <1>8 DEF Records
<1> QED BY <1>3, <1>6, <1>8, <1>9

(* So is the result of a call,                                              *)
LEMMA ResultIsRecorded ==
  ASSUME ChatTypes, ResultRecorded
  PROVE  \E item : /\ Records(item) /\ item.kind = "result" /\ turnNow' = turnNow
                   /\ batch # <<>> /\ item.ids = <<Head(batch)>> /\ batch' = Tail(batch)
<1>1. /\ turnSeq \in Nat /\ eventSeq \in Nat /\ turnNow \in Nat /\ batch \in CallIds
      /\ turnNow \in {0, turnSeq}
  BY DEF ChatTypes
<1> DEFINE item == Item("result", <<Head(batch)>>)
<1>2. /\ batch # <<>> /\ Record(item) /\ batch' = Tail(batch)
      /\ turnNow' = turnNow /\ turnSeq' = turnSeq
  BY DEF ResultRecorded
<1>3. <<Head(batch)>> \in CallIds /\ Tail(batch) \in CallIds
  BY <1>1, <1>2, IdsAre
<1>4. /\ item \in ChatItems /\ item.kind = "result" /\ item.turn = turnNow
      /\ item.event = eventSeq + 1 /\ item.ids = <<Head(batch)>>
  BY <1>1, <1>3, ItemIs
<1> HIDE DEF item
<1>5. turnNow # 0
  BY <1>2 DEF ChatTypes
<1>6. Records(item)
  BY <1>1, <1>2, <1>3, <1>4, <1>5 DEF Records
<1> QED BY <1>2, <1>4, <1>6

(* a notice or a message that steers,                                       *)
LEMMA NoticeIsRecorded ==
  ASSUME ChatTypes, GoesOn
  PROVE  \E item : /\ Records(item) /\ item.kind \in {"text", "user"} /\ batch = <<>>
                   /\ turnNow' = turnNow /\ batch' = batch
<1>1. /\ turnSeq \in Nat /\ eventSeq \in Nat /\ turnNow \in Nat /\ batch \in CallIds
      /\ turnNow \in {0, turnSeq} /\ <<>> \in CallIds
  BY IdsAre DEF ChatTypes
<1>2. PICK kind \in {"text", "user"} : Record(Item(kind, <<>>))
  BY DEF GoesOn
<1> DEFINE item == Item(kind, <<>>)
<1>3. /\ item \in ChatItems /\ item.kind = kind /\ item.turn = turnNow
      /\ item.event = eventSeq + 1
  BY <1>1, ItemIs
<1>4. Record(item)
  BY <1>2
<1> HIDE DEF item
<1>5. turnNow # 0 /\ batch = <<>> /\ turnNow' = turnNow /\ turnSeq' = turnSeq /\ batch' = batch
  BY DEF GoesOn, Thinking
<1>6. Records(item)
  BY <1>1, <1>3, <1>4, <1>5 DEF Records
<1> QED BY <1>3, <1>5, <1>6

(* and what ends the turn.                                                  *)
LEMMA EndIsRecorded ==
  ASSUME ChatTypes, TurnEnds
  PROVE  \E item : /\ Records(item) /\ item.kind = "text" /\ batch' = <<>> /\ turnNow' = 0
<1>1. /\ turnSeq \in Nat /\ eventSeq \in Nat /\ turnNow \in Nat /\ batch \in CallIds
      /\ turnNow \in {0, turnSeq} /\ <<>> \in CallIds
  BY IdsAre DEF ChatTypes
<1> DEFINE item == Item("text", <<>>)
<1>3. /\ item \in ChatItems /\ item.kind = "text" /\ item.turn = turnNow
      /\ item.event = eventSeq + 1
  BY <1>1, ItemIs
<1>5. turnNow # 0 /\ batch' = <<>> /\ turnNow' = 0 /\ turnSeq' = turnSeq /\ Record(item)
  BY DEF TurnEnds
<1> HIDE DEF item
<1>6. Records(item)
  BY <1>1, <1>3, <1>5 DEF Records
<1> QED BY <1>3, <1>5, <1>6

(* No step forgets what was said, or the turn in progress.                  *)
LEMMA KeptStep == KeptInv /\ [ChatHistoryNext]_chatVars => KeptInv'
<1> SUFFICES ASSUME KeptInv, [ChatHistoryNext]_chatVars PROVE KeptInv'
  OBVIOUS
<1>0. ChatTypes
  BY DEF KeptInv
<1>1. CASE TurnStarts
  BY <1>0, <1>1, TurnStartsRecords, RecordKept
<1>2. CASE ModelCallsTools
  BY <1>0, <1>2, CallsAreRecorded, RecordKept
<1>3. CASE ResultRecorded
  BY <1>0, <1>3, ResultIsRecorded, RecordKept
<1>4. CASE GoesOn
  BY <1>0, <1>4, NoticeIsRecorded, RecordKept
<1>5. CASE TurnEnds
  BY <1>0, <1>5, EndIsRecorded, RecordKept
<1>6. CASE TurnLost
  <2>1. /\ turnNow' = 0 /\ batch' = <<>>
        /\ UNCHANGED <<history, eventSeq, turnSeq, anchor, compacts, spoken>>
    BY <1>6 DEF TurnLost
  <2>2. ChatTypes'
    BY <1>0, <2>1, IdsAre DEF ChatTypes
  <2> QED BY <2>1, <2>2 DEF KeptInv, TurnsInOrder, Dated, Remembered
<1>7. ASSUME NEW trigger \in {"auto", "manual"}, CompactHistory(trigger) PROVE KeptInv'
  BY <1>7, CompactionKept
<1>8. CASE UNCHANGED chatVars
  BY <1>8 DEF chatVars, KeptInv, ChatTypes, TurnsInOrder, Dated, Remembered
<1> QED BY <1>1, <1>2, <1>3, <1>4, <1>5, <1>6, <1>7, <1>8 DEF ChatHistoryNext

(* What is remembered is kept.                                              *)
LEMMA KeptIsKept == KeptInv => HistoryKept
<1> SUFFICES ASSUME KeptInv PROVE HistoryKept
  OBVIOUS
<1>1. history \in Seq(ChatItems)
  BY DEF KeptInv, ChatTypes
<1>2. NothingForgotten
  <2> SUFFICES ASSUME NEW e \in spoken
               PROVE  \/ \E i \in DOMAIN history : history[i].event = e
                      \/ Summaries # <<>> /\ e \in Head(Summaries).given
    BY DEF NothingForgotten
  <2>1. PICK i \in DOMAIN history :
          history[i].event = e \/ (history[i].kind = "summary" /\ e \in history[i].given)
    BY DEF KeptInv, Remembered
  <2>2. CASE history[i].event = e
    BY <2>2
  <2>3. CASE history[i].kind = "summary" /\ e \in history[i].given
    <3> DEFINE S == {item \in ToSet(history) : item.kind = "summary"}
    <3>1. \A x \in S : x.kind = "summary"
      OBVIOUS
    <3>2. history[i] \in S /\ Summaries = Only(history, S)
      BY <2>3 DEF ToSet, Summaries
    <3> HIDE DEF S
    <3>3. /\ Only(history, S) \in Seq(ChatItems) /\ Len(Only(history, S)) \in Nat
          /\ DOMAIN Only(history, S) = 1..Len(Only(history, S))
          /\ \A k \in DOMAIN Only(history, S) :
               Only(history, S)[k] \in S /\ \E j \in DOMAIN history : Only(history, S)[k] = history[j]
          /\ \A j \in DOMAIN history : history[j] \in S =>
               \E k \in DOMAIN Only(history, S) : Only(history, S)[k] = history[j]
      BY <1>1, OnlyMembers
    <3>4. Summaries # <<>> /\ Head(Summaries) = Summaries[1] /\ 1 \in DOMAIN Summaries
      <4>1. PICK k \in 1..Len(Summaries) : TRUE
        BY <3>2, <3>3
      <4>2. Summaries \in Seq(ChatItems) /\ Summaries # <<>> /\ 1 \in 1..Len(Summaries)
        BY <3>2, <3>3, <4>1
      <4> QED BY <3>2, <3>3, <4>2
    <3>5. PICK j \in DOMAIN history : Summaries[1] = history[j] /\ history[j].kind = "summary"
      BY <3>1, <3>2, <3>3, <3>4
    <3>6. i = j
      <4>1. DOMAIN history = 1..Len(history) /\ Len(history) \in Nat
        BY <1>1
      <4>2. \A k, l \in DOMAIN history : k < l => history[l].kind # "summary"
        BY DEF KeptInv, TurnsInOrder
      <4> QED BY <2>3, <3>5, <4>1, <4>2
    <3> QED BY <2>3, <3>4, <3>5, <3>6
  <2> QED BY <2>1, <2>2, <2>3
<1>3. CompactionKeepsTurn
  <2>1. ASSUME NEW i \in DOMAIN history, history[i].kind = "summary" PROVE i = 1
    <3>1. DOMAIN history = 1..Len(history) /\ Len(history) \in Nat
      BY <1>1
    <3>2. \A k, l \in DOMAIN history : k < l => history[l].kind # "summary"
      BY DEF KeptInv, TurnsInOrder
    <3>3. 1 \in DOMAIN history /\ (i = 1 \/ 1 < i)
      BY <3>1
    <3> QED BY <2>1, <3>2, <3>3
  <2> QED BY <2>1 DEF CompactionKeepsTurn, KeptInv, Remembered
<1> QED BY <1>2, <1>3 DEF HistoryKept

(* Compaction loses nothing: what a turn recorded is in the history or was  *)
(* given to the summary at its head, and the turn that goes on is there.    *)
THEOREM CompactionForgetsNothing == ChatHistorySpec => []HistoryKept
<1>1. ChatHistorySpec => []KeptInv
  BY KeptInitInv, KeptStep, PTL DEF ChatHistorySpec
<1> QED BY <1>1, KeptIsKept, PTL

-----------------------------------------------------------------------------
(* Where the same items stand, d places further to the left, they are of    *)
(* the same calls.                                                          *)
LEMMA OwnsMoved ==
  ASSUME NEW h, NEW g, NEW i \in Nat, NEW j \in Nat, NEW d \in Int, i <= j,
         \A k \in i..j : g[k - d] = h[k], Owns(h, i, j)
  PROVE  Owns(g, i - d, j - d)
<1>1. g[i - d] = h[i] /\ (j - d) - (i - d) = j - i
  OBVIOUS
<1>2. ASSUME NEW k \in (i - d) + 1..j - d
      PROVE  /\ g[k].kind = "result" /\ g[k].turn = g[i - d].turn
             /\ g[k].ids = <<g[i - d].ids[k - (i - d)]>>
  <2>1. k + d \in i + 1..j /\ k + d \in i..j /\ (k + d) - d = k /\ (k + d) - i = k - (i - d)
    OBVIOUS
  <2>2. g[k] = h[k + d]
    BY <2>1
  <2>3. /\ h[k + d].kind = "result" /\ h[k + d].turn = h[i].turn
        /\ h[k + d].ids = <<h[i].ids[(k + d) - i]>>
    BY <2>1 DEF Owns
  <2> QED BY <1>1, <2>1, <2>2, <2>3
<1> QED BY <1>1, <1>2 DEF Owns

(* A history with one more item.                                            *)
LEMMA GroupedMore ==
  ASSUME NEW h \in Seq(ChatItems), NEW item \in ChatItems, Grouped(h),
         item.kind = "calls" => \A k \in DOMAIN item.ids : item.ids[k] = <<item.event, k>>,
         item.kind = "result" => \E i \in 1..Len(h) :
           /\ Owns(h, i, Len(h)) /\ Len(h) + 1 - i <= Len(h[i].ids)
           /\ item.turn = h[i].turn /\ item.ids = <<h[i].ids[Len(h) + 1 - i]>>
  PROVE  /\ Grouped(Append(h, item))
         /\ \A i \in 1..Len(h) : Owns(h, i, Len(h)) => Owns(Append(h, item), i, Len(h))
<1> DEFINE n == Len(h)
           g == Append(h, item)
<1>1. /\ n \in Nat /\ DOMAIN h = 1..n /\ DOMAIN g = 1..(n + 1)
      /\ \A i \in 1..n : g[i] = h[i]
      /\ g[n + 1] = item
      /\ \A i \in 1..(n + 1) : i \in 1..n \/ i = n + 1
  BY RecordedIs
<1> HIDE DEF n, g
<1>2. ASSUME NEW i \in 1..n, NEW j \in i..n, Owns(h, i, j) PROVE Owns(g, i, j)
  <2>1. \A k \in i..j : k \in 1..n /\ k - 0 = k
    BY <1>1
  <2>2. i - 0 = i /\ j - 0 = j /\ i \in Nat /\ j \in Nat /\ i <= j /\ 0 \in Int
    BY <1>1
  <2>3. \A k \in i..j : g[k - 0] = h[k]
    BY <1>1, <2>1
  <2>4. Owns(g, i - 0, j - 0)
    BY <1>2, <2>2, <2>3, OwnsMoved
  <2> QED BY <2>2, <2>4
<1>3. ASSUME NEW i \in 1..(n + 1), g[i].kind = "calls", NEW k \in DOMAIN g[i].ids
      PROVE  g[i].ids[k] = <<g[i].event, k>>
  <2>1. CASE i \in 1..n
    BY <1>1, <1>3, <2>1 DEF Grouped
  <2>2. CASE i = n + 1
    BY <1>1, <1>3, <2>2
  <2> QED BY <1>1, <2>1, <2>2
<1>4. ASSUME NEW j \in 1..(n + 1), g[j].kind = "result"
      PROVE  \E i \in 1..j - 1 : Owns(g, i, j)
  <2>1. CASE j \in 1..n
    <3>1. h[j].kind = "result"
      BY <1>1, <1>4, <2>1
    <3>2. PICK i \in 1..j - 1 : Owns(h, i, j)
      BY <1>1, <2>1, <3>1 DEF Grouped
    <3>3. i \in 1..n /\ j \in i..n
      BY <1>1, <2>1
    <3> QED BY <1>2, <3>2, <3>3
  <2>2. CASE j = n + 1
    <3>1. PICK i \in 1..n : /\ Owns(h, i, n) /\ n + 1 - i <= Len(h[i].ids)
                            /\ item.turn = h[i].turn /\ item.ids = <<h[i].ids[n + 1 - i]>>
      BY <1>1, <1>4, <2>2 DEF n
    <3>2. n \in i..n /\ i \in 1..j - 1
      BY <1>1, <2>2
    <3>3. Owns(g, i, n)
      BY <1>2, <3>1, <3>2
    <3>4. g[i] = h[i] /\ g[j] = item
      BY <1>1, <2>2
    <3>5. \A k \in i + 1..j : k \in i + 1..n \/ k = j
      BY <1>1, <2>2
    <3>6. ASSUME NEW k \in i + 1..j
          PROVE  g[k].kind = "result" /\ g[k].turn = g[i].turn /\ g[k].ids = <<g[i].ids[k - i]>>
      <4>1. CASE k \in i + 1..n
        BY <3>3, <4>1 DEF Owns
      <4>2. CASE k = j
        BY <1>1, <1>4, <2>2, <3>1, <3>4, <4>2
      <4> QED BY <3>5, <4>1, <4>2
    <3>7. g[i].kind = "calls" /\ j - i <= Len(g[i].ids)
      BY <1>1, <2>2, <3>1, <3>4 DEF Owns
    <3> QED BY <3>2, <3>6, <3>7 DEF Owns
  <2> QED BY <1>1, <2>1, <2>2
<1>5. Grouped(g)
  BY <1>1, <1>3, <1>4 DEF Grouped
<1>6. \A i \in 1..n : n \in i..n
  BY <1>1
<1> QED BY <1>2, <1>5, <1>6 DEF n, g

(* A step of a turn that records neither calls nor a result.                *)
LEMMA NoticePaired ==
  ASSUME KeptInv, PairInv, NEW item, Records(item), item.kind \in {"text", "user"}, batch' = <<>>
  PROVE  PairInv'
<1>1. /\ history \in Seq(ChatItems) /\ item \in ChatItems /\ history' = Append(history, item)
  BY DEF KeptInv, ChatTypes, Records, Record
<1>2. Grouped(Append(history, item))
  BY <1>1, GroupedMore DEF PairInv
<1> QED BY <1>1, <1>2 DEF PairInv, BatchOwed

(* The calls of a reply.                                                    *)
LEMMA CallsPaired ==
  ASSUME NamesCalls, KeptInv, PairInv, ModelCallsTools
  PROVE  PairInv'
<1>1. PICK n \in 1..MaxCalls : \E item :
        /\ Records(item) /\ item.kind = "calls" /\ item.ids = batch'
        /\ item.ids = [i \in 1..n |-> <<eventSeq + 1, i>>]
        /\ turnNow' = turnNow /\ turnNow # 0
  BY CallsAreRecorded DEF KeptInv
<1>0. PICK item :
        /\ Records(item) /\ item.kind = "calls" /\ item.ids = batch'
        /\ item.ids = [i \in 1..n |-> <<eventSeq + 1, i>>]
        /\ turnNow' = turnNow /\ turnNow # 0
  BY <1>1
<1>2. /\ history \in Seq(ChatItems) /\ item \in ChatItems /\ history' = Append(history, item)
      /\ item.event = eventSeq + 1 /\ item.turn = turnNow'
  BY <1>0 DEF KeptInv, ChatTypes, Records, Record
<1>3. \A k \in DOMAIN item.ids : item.ids[k] = <<item.event, k>>
  BY <1>0, <1>2
<1>4. Grouped(history')
  <2>1. item.kind # "result"
    BY <1>0
  <2> QED BY <1>2, <1>3, <2>1, GroupedMore DEF PairInv
<1> DEFINE N == Len(history)
<1>5. /\ N \in Nat /\ DOMAIN history' = 1..(N + 1) /\ history'[N + 1] = item /\ N + 1 \in 1..(N + 1)
      /\ Len(history') = N + 1
  <2>1. N \in Nat /\ DOMAIN Append(history, item) = 1..(N + 1) /\ Append(history, item)[N + 1] = item
    BY <1>2, RecordedIs
  <2>2. Len(Append(history, item)) = N + 1
    BY <1>2, AppendProperties
  <2> QED BY <1>2, <2>1, <2>2
<1>6. Len(batch') \in Nat
  BY <1>0 DEF Records, CallIds
<1> HIDE DEF N
<1>7. /\ Owns(history', N + 1, N + 1)
  <2>1. \A k \in (N + 1) + 1..N + 1 : FALSE
    BY <1>5
  <2>2. (N + 1) - (N + 1) <= Len(item.ids)
    BY <1>0, <1>5, <1>6
  <2> QED BY <1>0, <1>5, <2>1, <2>2 DEF Owns
<1>8. Len(item.ids) = (N + 1) - (N + 1) + Len(batch') /\ \A k \in DOMAIN batch' : (N + 1) - (N + 1) + k = k
  <2>1. DOMAIN batch' = 1..n
    BY <1>0
  <2>2. item.ids = batch'
    BY <1>0
  <2>3. N \in Nat /\ Len(batch') \in Nat
    BY <1>5, <1>6
  <2> DEFINE m == Len(batch')
  <2> HIDE DEF m
  <2>4. (N + 1) - (N + 1) + m = m /\ \A k \in 1..n : (N + 1) - (N + 1) + k = k
    BY <2>3 DEF m
  <2> QED BY <2>1, <2>2, <2>4 DEF m
<1>9. BatchOwed'
  <2>1. /\ N + 1 \in DOMAIN history' /\ Len(history') = N + 1 /\ history'[N + 1] = item
        /\ Owns(history', N + 1, Len(history'))
    BY <1>5, <1>7
  <2>2. item.turn = turnNow' /\ item.ids = batch'
    BY <1>0, <1>2
  <2>3. Len(history'[N + 1].ids) = Len(history') - (N + 1) + Len(batch')
    BY <1>8, <2>1
  <2>4. \A k \in DOMAIN batch' : batch'[k] = history'[N + 1].ids[Len(history') - (N + 1) + k]
    BY <1>8, <2>1, <2>2
  <2>5. \E i \in DOMAIN history' :
          /\ Owns(history', i, Len(history')) /\ history'[i].turn = turnNow'
          /\ Len(history'[i].ids) = Len(history') - i + Len(batch')
          /\ \A k \in DOMAIN batch' : batch'[k] = history'[i].ids[Len(history') - i + k]
    BY <2>1, <2>2, <2>3, <2>4
  <2> QED BY <2>5 DEF BatchOwed
<1> QED BY <1>4, <1>9 DEF PairInv

(* The result of the first call that has none.                              *)
LEMMA ResultPaired ==
  ASSUME KeptInv, PairInv, ResultRecorded
  PROVE  PairInv'
<1>1. PICK item : /\ Records(item) /\ item.kind = "result" /\ turnNow' = turnNow
                  /\ batch # <<>> /\ item.ids = <<Head(batch)>> /\ batch' = Tail(batch)
  BY ResultIsRecorded DEF KeptInv
<1>2. /\ history \in Seq(ChatItems) /\ item \in ChatItems /\ history' = Append(history, item)
      /\ item.turn = turnNow /\ batch \in CallIds /\ turnNow # 0
  BY <1>1 DEF KeptInv, ChatTypes, Records, Record
<1> DEFINE N == Len(history)
           L == Len(batch)
<1>3. /\ N \in Nat /\ DOMAIN history = 1..N /\ DOMAIN history' = 1..(N + 1) /\ history'[N + 1] = item
      /\ Len(history') = N + 1 /\ \A i \in 1..N : history'[i] = history[i]
  <2>1. /\ N \in Nat /\ DOMAIN history = 1..N /\ DOMAIN Append(history, item) = 1..(N + 1)
        /\ Append(history, item)[N + 1] = item /\ \A i \in 1..N : Append(history, item)[i] = history[i]
    BY <1>2, RecordedIs
  <2>2. Len(Append(history, item)) = N + 1
    BY <1>2, AppendProperties
  <2> QED BY <1>2, <2>1, <2>2
<1>4. /\ L \in Nat \ {0} /\ Head(batch) = batch[1] /\ Len(Tail(batch)) = L - 1
      /\ DOMAIN batch = 1..L /\ DOMAIN Tail(batch) = 1..L - 1
      /\ \A k \in 1..L - 1 : Tail(batch)[k] = batch[k + 1]
  <2>1. batch \in Seq(Nat \X Nat)
    BY <1>2 DEF CallIds
  <2> QED BY <1>1, <2>1
<1> HIDE DEF N, L
<1>5. PICK i \in 1..N : /\ Owns(history, i, N) /\ history[i].turn = turnNow
                        /\ Len(history[i].ids) = N - i + L
                        /\ \A k \in 1..L : batch[k] = history[i].ids[N - i + k]
  BY <1>1, <1>3, <1>4 DEF PairInv, BatchOwed, N, L
<1>6. /\ N + 1 - i <= Len(history[i].ids) /\ item.ids = <<history[i].ids[N + 1 - i]>>
  <2>1. batch[1] = history[i].ids[N - i + 1] /\ N - i + 1 = N + 1 - i
    <3>1. 1 \in 1..L /\ N - i + 1 = N + 1 - i
      BY <1>3, <1>4
    <3> QED BY <1>5, <3>1
  <2>2. N + 1 - i <= N - i + L
    BY <1>3, <1>4
  <2> QED BY <1>1, <1>4, <1>5, <2>1, <2>2
<1>7. /\ Grouped(history')
      /\ \A k \in 1..N : Owns(history, k, N) => Owns(history', k, N)
  <2>1. \E k \in 1..Len(history) :
          /\ Owns(history, k, Len(history)) /\ Len(history) + 1 - k <= Len(history[k].ids)
          /\ item.turn = history[k].turn /\ item.ids = <<history[k].ids[Len(history) + 1 - k]>>
    BY <1>2, <1>5, <1>6 DEF N
  <2>2. item.kind # "calls" /\ Grouped(history)
    BY <1>1 DEF PairInv
  <2>3. /\ Grouped(Append(history, item))
        /\ \A k \in 1..Len(history) :
             Owns(history, k, Len(history)) => Owns(Append(history, item), k, Len(history))
    BY <1>2, <2>1, <2>2, GroupedMore
  <2> QED BY <1>2, <2>3 DEF N
<1>8. Owns(history', i, N + 1)
  <2>1. Owns(history', i, N) /\ history'[i] = history[i]
    BY <1>3, <1>5, <1>7
  <2>2. \A k \in i + 1..N + 1 : k \in i + 1..N \/ k = N + 1
    BY <1>3
  <2>3. ASSUME NEW k \in i + 1..N + 1
        PROVE  /\ history'[k].kind = "result" /\ history'[k].turn = history'[i].turn
               /\ history'[k].ids = <<history'[i].ids[k - i]>>
    <3>1. CASE k \in i + 1..N
      BY <2>1, <3>1 DEF Owns
    <3>2. CASE k = N + 1
      BY <1>1, <1>2, <1>3, <1>5, <1>6, <2>1, <3>2
    <3> QED BY <2>2, <3>1, <3>2
  <2>4. history'[i].kind = "calls" /\ (N + 1) - i <= Len(history'[i].ids)
    BY <1>3, <1>6, <2>1 DEF Owns
  <2> QED BY <2>3, <2>4 DEF Owns
<1>9. /\ Len(history'[i].ids) = (N + 1) - i + Len(batch')
      /\ \A k \in DOMAIN batch' : batch'[k] = history'[i].ids[(N + 1) - i + k]
  <2>1. N - i + L = (N + 1) - i + (L - 1)
    BY <1>3, <1>4
  <2>2. \A k \in 1..L - 1 : k + 1 \in 1..L /\ N - i + (k + 1) = (N + 1) - i + k
    BY <1>3, <1>4
  <2> QED BY <1>1, <1>3, <1>4, <1>5, <2>1, <2>2
<1>10. BatchOwed'
  <2>1. i \in DOMAIN history' /\ history'[i].turn = turnNow' /\ Len(history') = N + 1
    BY <1>1, <1>3, <1>5
  <2> QED BY <1>8, <1>9, <2>1 DEF BatchOwed
<1> QED BY <1>7, <1>10 DEF PairInv

(* Turns are compacted as a whole, so no call goes without its results.     *)
LEMMA CompactionPaired ==
  ASSUME KeptInv, PairInv, NEW trigger, CompactHistory(trigger)
  PROVE  PairInv'
<1>1. PICK m \in 1..(Len(history) + 1), s \in ChatItems : Compacted(m, s)
  BY CompactionIs
<1> DEFINE N == Len(history)
           M == Len(history')
<1>2. history \in Seq(ChatItems) /\ DOMAIN history = 1..N /\ N \in Nat /\ m \in 1..N + 1
  <2>1. history \in Seq(ChatItems)
    BY DEF KeptInv, ChatTypes
  <2> QED BY <2>1
<1>3. /\ history' \in Seq(ChatItems) /\ M = N + 2 - m /\ M \in Nat /\ DOMAIN history' = 1..M
      /\ history'[1] = s /\ s.kind = "summary"
      /\ \A i \in 2..M : history'[i] = history[m + i - 2]
      /\ \A i \in 1..m - 1 : \A j \in m..N : history[i].turn # history[j].turn
  <2>1. /\ history' \in Seq(ChatItems) /\ M = N + 2 - m
        /\ history'[1] = s /\ s.kind = "summary"
        /\ \A i \in 2..M : history'[i] = history[m + i - 2]
        /\ \A i \in 1..m - 1 : \A j \in m..N : history[i].turn # history[j].turn
    BY <1>1 DEF Compacted
  <2>2. M \in Nat /\ DOMAIN history' = 1..M
    BY <2>1
  <2> QED BY <2>1, <2>2
<1> HIDE DEF N, M
<1>4. \A i \in 2..M : m + i - 2 \in m..N /\ m + i - 2 \in 1..N
  BY <1>2, <1>3
<1>5. \A i \in 1..M : i = 1 \/ i \in 2..M
  BY <1>3
<1>6. ASSUME NEW i \in 1..M, history'[i].kind = "calls", NEW k \in DOMAIN history'[i].ids
      PROVE  history'[i].ids[k] = <<history'[i].event, k>>
  <2>1. i \in 2..M
    BY <1>3, <1>5, <1>6
  <2>2. history'[i] = history[m + i - 2] /\ m + i - 2 \in DOMAIN history
    BY <1>2, <1>3, <1>4, <2>1
  <2> QED BY <1>6, <2>2 DEF PairInv, Grouped
<1>7. ASSUME NEW j \in 1..M, history'[j].kind = "result"
      PROVE  \E i \in 1..j - 1 : Owns(history', i, j)
  <2>1. j \in 2..M
    BY <1>3, <1>5, <1>7
  <2> DEFINE k == m + j - 2
             d == m - 2
  <2>2. k \in m..N /\ k \in 1..N /\ history'[j] = history[k]
    BY <1>3, <1>4, <2>1
  <2>3. PICK i \in 1..k - 1 : Owns(history, i, k)
    BY <1>2, <1>7, <2>2 DEF PairInv, Grouped
  <2>4. i \in m..N
    <3>1. history[k].turn = history[i].turn
      <4>1. k \in i + 1..k
        BY <1>2, <2>2
      <4> QED BY <2>3, <4>1 DEF Owns
    <3>2. i \in 1..m - 1 \/ i \in m..N
      BY <1>2, <2>2
    <3> QED BY <1>3, <2>2, <3>1, <3>2
  <2>5. /\ i \in Nat /\ k \in Nat /\ d \in Int /\ i <= k
        /\ i - d \in 1..j - 1 /\ k - d = j
    BY <1>2, <2>1, <2>2, <2>4
  <2>6. \A l \in i..k : history'[l - d] = history[l]
    <3> SUFFICES ASSUME NEW l \in i..k PROVE history'[l - d] = history[l]
      OBVIOUS
    <3>1. l - d \in 2..M /\ m + (l - d) - 2 = l
      BY <1>2, <1>3, <2>1, <2>4
    <3> QED BY <1>3, <3>1
  <2> HIDE DEF k, d
  <2>7. Owns(history', i - d, k - d)
    BY <2>3, <2>5, <2>6, OwnsMoved
  <2> QED BY <2>5, <2>7
<1>8. Grouped(history')
  BY <1>3, <1>6, <1>7 DEF Grouped
<1>9. batch' = <<>>
  BY DEF CompactHistory
<1> QED BY <1>8, <1>9 DEF PairInv, BatchOwed

(* Of calls that are named, every step keeps results with their calls.      *)
LEMMA PairStep ==
  ASSUME NamesCalls, KeptInv, PairInv, [ChatHistoryNext]_chatVars
  PROVE  PairInv'
<1>0. ChatTypes
  BY DEF KeptInv
<1>1. CASE TurnStarts
  <2>1. batch = <<>>
    BY <1>0, <1>1 DEF TurnStarts, ChatTypes
  <2>2. PICK item : Records(item) /\ item.kind = "user" /\ batch' = batch
    BY <1>0, <1>1, TurnStartsRecords
  <2> QED BY <2>1, <2>2, NoticePaired
<1>2. CASE ModelCallsTools
  BY <1>2, CallsPaired
<1>3. CASE ResultRecorded
  BY <1>3, ResultPaired
<1>4. CASE GoesOn
  <2>1. PICK item : Records(item) /\ item.kind \in {"text", "user"} /\ batch' = batch /\ batch = <<>>
    BY <1>0, <1>4, NoticeIsRecorded
  <2> QED BY <2>1, NoticePaired
<1>5. CASE TurnEnds
  <2>1. PICK item : Records(item) /\ item.kind = "text" /\ batch' = <<>>
    BY <1>0, <1>5, EndIsRecorded
  <2> QED BY <2>1, NoticePaired
<1>6. CASE TurnLost
  <2>1. batch' = <<>> /\ history' = history
    BY <1>6 DEF TurnLost
  <2> QED BY <2>1 DEF PairInv, BatchOwed
<1>7. ASSUME NEW trigger \in {"auto", "manual"}, CompactHistory(trigger) PROVE PairInv'
  BY <1>7, CompactionPaired
<1>8. CASE UNCHANGED chatVars
  BY <1>8 DEF chatVars, PairInv, BatchOwed
<1> QED BY <1>1, <1>2, <1>3, <1>4, <1>5, <1>6, <1>7, <1>8 DEF ChatHistoryNext

-----------------------------------------------------------------------------
(* What the request lemmas need of a history.                               *)
Sound(h) ==
  /\ h \in Seq(ChatItems) /\ Grouped(h)
  /\ \A i, j \in DOMAIN h : i < j => h[j].kind # "summary"
  /\ \A i, j \in DOMAIN h : i # j => h[i].event # h[j].event
  /\ \A i \in DOMAIN h : h[i].event # 0

(* The window begins with no result.                                        *)
LEMMA StartIs ==
  ASSUME NEW h, Sound(h)
  PROVE  /\ Start(h) \in 1..(Len(h) + 1) /\ Len(h) \in Nat
         /\ Start(h) \in 1..Len(h) => h[Start(h)].kind # "result"
<1>1. h \in Seq(ChatItems) /\ DOMAIN h = 1..Len(h) /\ Len(h) \in Nat
  <2>1. h \in Seq(ChatItems)
    BY DEF Sound
  <2> QED BY <2>1
<1> DEFINE begin == IF Len(h) > Window THEN Len(h) - Window + 1 ELSE 1
           owner == {i \in 1..begin : i = 1 \/ h[i].kind # "result"}
<1>2. begin \in Nat /\ 1 <= begin /\ begin <= Len(h) + 1
  BY <1>1, ChatHistoryAssumptions
<1>3. Start(h) = CHOOSE i \in owner : \A j \in owner : j <= i
  BY DEF Start
<1> HIDE DEF begin
<1>4. owner \in SUBSET Nat /\ 1 \in owner /\ \A x \in owner : x <= begin
  BY <1>2
<1>5. \E x \in owner : \A y \in owner : x >= y
  <2>1. owner # {}
    BY <1>4
  <2> HIDE DEF owner
  <2> QED BY <1>2, <1>4, <2>1, GreatestMember
<1>6. \E x \in owner : \A y \in owner : y <= x
  BY <1>4, <1>5
<1>7. Start(h) \in owner
  <2> HIDE DEF owner
  <2> QED BY <1>3, <1>6
<1>8. Start(h) \in 1..begin /\ (Start(h) = 1 \/ h[Start(h)].kind # "result")
  BY <1>7
<1>9. 1 \in 1..Len(h) => h[1].kind # "result"
  <2>1. \A i \in 1..1 - 1 : FALSE
    OBVIOUS
  <2> QED BY <1>1, <2>1 DEF Sound, Grouped
<1> QED BY <1>1, <1>2, <1>8, <1>9

(* What is sent of an item keeps its kind, but for calls without an answer. *)
LEMMA SentIs ==
  ASSUME NEW item \in ChatItems, NEW answered
  PROVE  /\ item.kind # "calls" => Sent(item, answered) = item
         /\ item.kind = "calls" /\ Only(item.ids, answered \cup {NoId}) = <<>> =>
              Sent(item, answered).kind = "text"
         /\ item.kind = "calls" /\ Only(item.ids, answered \cup {NoId}) # <<>> =>
              /\ Sent(item, answered).kind = "calls"
              /\ Sent(item, answered).ids = Only(item.ids, answered \cup {NoId})
<1> DEFINE ids == Only(item.ids, answered \cup {NoId})
<1>1. /\ item.kind # "calls" => Sent(item, answered) = item
      /\ item.kind = "calls" /\ ids = <<>> => Sent(item, answered) = [item EXCEPT !.kind = "text"]
      /\ item.kind = "calls" /\ ids # <<>> => Sent(item, answered) = [item EXCEPT !.ids = ids]
  BY DEF Sent
<1> HIDE DEF ids
<1>2. /\ [item EXCEPT !.kind = "text"].kind = "text"
      /\ [item EXCEPT !.ids = ids].ids = ids /\ [item EXCEPT !.ids = ids].kind = item.kind
  BY DEF ChatItems
<1>3. /\ item.kind # "calls" => Sent(item, answered) = item
      /\ item.kind = "calls" /\ ids = <<>> => Sent(item, answered).kind = "text"
      /\ item.kind = "calls" /\ ids # <<>> => /\ Sent(item, answered).kind = "calls"
                                              /\ Sent(item, answered).ids = ids
  BY <1>1, <1>2
<1> QED BY <1>3 DEF ids

(* The kind of what is sent tells the kind of what it is sent for.          *)
LEMMA SentKinds ==
  ASSUME NEW item \in ChatItems, NEW answered
  PROVE  /\ Sent(item, answered).kind = "result" <=> item.kind = "result"
         /\ item.kind = "result" => Sent(item, answered) = item
         /\ Sent(item, answered).kind = "summary" <=> item.kind = "summary"
         /\ Sent(item, answered).kind = "calls" => item.kind = "calls"
<1>1. CASE item.kind # "calls"
  <2>1. Sent(item, answered) = item
    BY <1>1, SentIs
  <2> QED BY <1>1, <2>1
<1>2. CASE item.kind = "calls"
  <2>1. Sent(item, answered).kind \in {"text", "calls"}
    BY <1>2, SentIs, Zenon
  <2> QED BY <1>2, <2>1
<1> QED BY <1>1, <1>2

(* The request: the items of the history behind the b-th, of whose calls    *)
(* those are sent that have a result there.                                 *)
RequestOf(h, b, answered, r) ==
  /\ b \in 0..Len(h) /\ Len(h) \in Nat
  /\ DOMAIN r = 1..(Len(h) - b) /\ Len(r) = Len(h) - b
  /\ \A i \in 1..(Len(h) - b) : r[i] = Sent(h[b + i], answered)
  /\ \A j \in (b + 1)..Len(h) : \A i \in 1..j - 1 : Owns(h, i, j) => i \in (b + 1)..(j - 1)
  /\ \A x : x \in answered <=> /\ x # NoId
                               /\ \E j \in (b + 1)..Len(h) : /\ h[j].kind = "result"
                                                            /\ x \in ToSet(h[j].ids)

(* The call of a result.                                                    *)
LEMMA OwnerIs ==
  ASSUME NEW h, Sound(h), NEW j \in 1..Len(h), h[j].kind = "result"
  PROVE  \E i \in 1..(j - 1) :
           /\ Owns(h, i, j) /\ h[i].kind = "calls" /\ j - i \in DOMAIN h[i].ids
           /\ h[j].ids[1] = h[i].ids[j - i] /\ h[j].ids[1] = <<h[i].event, j - i>>
           /\ h[j].ids = <<h[i].ids[j - i]>> /\ h[j].ids[1] # NoId
<1>1. h \in Seq(ChatItems) /\ DOMAIN h = 1..Len(h) /\ Len(h) \in Nat
  <2>1. h \in Seq(ChatItems)
    BY DEF Sound
  <2> QED BY <2>1
<1>3. PICK i \in 1..j - 1 : Owns(h, i, j)
  BY <1>1 DEF Sound, Grouped
<1>5. j \in i + 1..j /\ i \in 1..Len(h) /\ i \in 1..(j - 1)
  BY <1>1
<1>6. /\ h[i].kind = "calls" /\ j - i <= Len(h[i].ids)
      /\ h[j].ids = <<h[i].ids[j - i]>>
  BY <1>3, <1>5 DEF Owns
<1>7. h[i].ids \in Seq(Nat \X Nat)
  <2>1. h[i] \in ChatItems
    BY <1>1, <1>5
  <2> QED BY <2>1 DEF ChatItems, CallIds
<1>8. j - i \in DOMAIN h[i].ids
  <2>1. DOMAIN h[i].ids = 1..Len(h[i].ids) /\ Len(h[i].ids) \in Nat
    BY <1>7, LenProperties
  <2>2. j - i \in Nat \ {0}
    BY <1>5
  <2> QED BY <1>6, <2>1, <2>2
<1>9. h[i].ids[j - i] = <<h[i].event, j - i>> /\ h[i].event # 0
  BY <1>1, <1>5, <1>6, <1>8 DEF Sound, Grouped
<1>10. <<h[i].event, j - i>> # NoId
  BY <1>9 DEF NoId
<1>11. h[j].ids[1] = h[i].ids[j - i]
  BY <1>6
<1> QED BY <1>3, <1>5, <1>6, <1>8, <1>9, <1>10, <1>11

(* Where a result stands behind the beginning of the window, so does its    *)
(* call.                                                                    *)
LEMMA OwnerInWindow ==
  ASSUME NEW h, Sound(h), NEW st \in 1..(Len(h) + 1),
         st \in 1..Len(h) => h[st].kind # "result",
         NEW j \in st..Len(h), h[j].kind = "result"
  PROVE  \E i \in st..(j - 1) :
           /\ h[i].kind = "calls" /\ j - i \in DOMAIN h[i].ids
           /\ h[j].ids[1] = h[i].ids[j - i] /\ h[j].ids[1] # NoId
<1>1. Len(h) \in Nat
  BY DEF Sound
<1>2. PICK i \in 1..(j - 1) :
        /\ Owns(h, i, j) /\ h[i].kind = "calls" /\ j - i \in DOMAIN h[i].ids
        /\ h[j].ids[1] = h[i].ids[j - i] /\ h[j].ids[1] # NoId
  <2>1. j \in 1..Len(h)
    BY <1>1
  <2> QED BY <2>1, OwnerIs
<1>3. i >= st
  <2> SUFFICES ASSUME ~ (i >= st) PROVE FALSE
    OBVIOUS
  <2>1. st \in i + 1..j /\ st \in 1..Len(h)
    BY <1>1
  <2> QED BY <1>2, <2>1 DEF Owns
<1> QED BY <1>2, <1>3

(* The request that is built of a sound history.                            *)
LEMMA RequestIs ==
  ASSUME NEW h, Sound(h)
  PROVE  \E b, answered :
           RequestOf(h, b, answered, Only(NativeTail(h), {item \in ToSet(NativeTail(h)) :
                                                          item.kind # "summary"}))
<1>1. h \in Seq(ChatItems) /\ DOMAIN h = 1..Len(h) /\ Len(h) \in Nat
  <2>1. h \in Seq(ChatItems)
    BY DEF Sound
  <2> QED BY <2>1
<1> DEFINE st == Start(h)
           N == Len(h)
           L == N + 1 - st
           source == SubSeq(h, st, N)
           ids(kind) == UNION {ToSet(source[i].ids) :
                                 i \in {j \in DOMAIN source : source[j].kind = kind}}
           wanted == ids("calls") \ {NoId}
           answered == ids("result") \ {NoId}
           A == {item \in ToSet(source) : item.kind = "result" => item.ids[1] \in wanted}
           sent == Only(source, A)
           r0 == NativeTail(h)
           B == {item \in ToSet(r0) : item.kind # "summary"}
<1>2. r0 = [i \in DOMAIN sent |-> Sent(sent[i], answered)]
  BY DEF NativeTail
<1> HIDE DEF r0
<1>3. st \in 1..(N + 1) /\ N \in Nat /\ (st \in 1..N => h[st].kind # "result")
  BY StartIs
<1>4. L \in Nat
  BY <1>3
<1> HIDE DEF st, N
<1>5. /\ source \in Seq(ChatItems) /\ Len(source) = L /\ DOMAIN source = 1..L
      /\ \A i \in 1..L : source[i] = h[st + i - 1] /\ st + i - 1 \in 1..N /\ st + i - 1 \in st..N
      /\ \A j \in st..N : j + 1 - st \in 1..L /\ source[j + 1 - st] = h[j]
  <2>1. \A i \in st..N : h[i] \in ChatItems
    <3>1. \A i \in st..N : i \in 1..N
      BY <1>3
    <3> QED BY <1>1, <3>1 DEF N
  <2>2. /\ source \in Seq(ChatItems)
        /\ Len(source) = (IF st <= N THEN N - st + 1 ELSE 0)
        /\ \A i \in 1..(N - st + 1) : source[i] = h[st + i - 1]
    BY <1>3, <2>1, SubSeqProperties
  <2>3. N - st + 1 = L /\ (IF st <= N THEN N - st + 1 ELSE 0) = L
    BY <1>3
  <2>4. \A i \in 1..L : st + i - 1 \in 1..N /\ st + i - 1 \in st..N
    BY <1>3
  <2>5. \A j \in st..N : j + 1 - st \in 1..L /\ st + (j + 1 - st) - 1 = j
    BY <1>3
  <2>6. DOMAIN source = 1..L
    <3> HIDE DEF source, L
    <3> QED BY <2>2, <2>3
  <2> HIDE DEF source, L
  <2> QED BY <2>2, <2>3, <2>4, <2>5, <2>6
<1> HIDE DEF source, L
<1>6. \A x, kind : x \in ids(kind) <=> \E j \in st..N : h[j].kind = kind /\ x \in ToSet(h[j].ids)
  <2> SUFFICES ASSUME NEW x, NEW kind
               PROVE  x \in ids(kind) <=> \E j \in st..N : h[j].kind = kind /\ x \in ToSet(h[j].ids)
    OBVIOUS
  <2>1. x \in ids(kind) <=> \E i \in 1..L : source[i].kind = kind /\ x \in ToSet(source[i].ids)
    BY <1>5
  <2> QED BY <1>5, <2>1
<1>7. \A x : x \in wanted <=> x # NoId /\ \E j \in st..N : h[j].kind = "calls" /\ x \in ToSet(h[j].ids)
  BY <1>6
<1>8. \A x : x \in answered <=> x # NoId /\ \E j \in st..N : h[j].kind = "result" /\ x \in ToSet(h[j].ids)
  BY <1>6
<1> HIDE DEF ids, wanted, answered
<1>9. \A i \in 1..L : source[i] \in A
  <2> SUFFICES ASSUME NEW i \in 1..L, source[i].kind = "result" PROVE source[i].ids[1] \in wanted
    BY <1>5 DEF ToSet
  <2> DEFINE j == st + i - 1
  <2>1. j \in st..N /\ source[i] = h[j] /\ h[j].kind = "result"
    BY <1>5
  <2> HIDE DEF j
  <2>2. PICK o \in st..(j - 1) : /\ h[o].kind = "calls" /\ j - o \in DOMAIN h[o].ids
                                 /\ h[j].ids[1] = h[o].ids[j - o] /\ h[j].ids[1] # NoId
    BY <1>3, <2>1, OwnerInWindow DEF N
  <2>3. o \in st..N
    BY <1>3, <2>1
  <2>4. h[j].ids[1] \in ToSet(h[o].ids)
    BY <2>2 DEF ToSet
  <2> QED BY <1>7, <2>1, <2>2, <2>3, <2>4
<1>10. /\ sent \in Seq(ChatItems) /\ Len(sent) = L /\ DOMAIN sent = 1..L
       /\ \A i \in 1..L : sent[i] = source[i]
  <2> HIDE DEF A
  <2>1. 1 \in 1..(Len(source) + 1) /\ L \in 0..Len(source) /\ 1 <= L + 1
    BY <1>4, <1>5
  <2>2. \A i \in 1..Len(source) : source[i] \in A <=> 1 <= i /\ i <= L
    BY <1>4, <1>5, <1>9
  <2>3. source \in Seq(ChatItems)
    BY <1>5
  <2>4. /\ Only(source, A) \in Seq(ChatItems) /\ Len(Only(source, A)) = L + 1 - 1
        /\ \A i \in 1..(L + 1 - 1) : Only(source, A)[i] = source[1 + i - 1]
    BY <2>1, <2>2, <2>3, OnlyStretch
  <2>5. L + 1 - 1 = L /\ \A i \in 1..L : 1 + i - 1 = i
    BY <1>4
  <2>6. sent \in Seq(ChatItems) /\ Len(sent) = L /\ \A i \in 1..L : sent[i] = source[i]
    BY <2>4, <2>5
  <2> HIDE DEF sent
  <2> QED BY <2>6
<1> HIDE DEF sent
<1>11. DOMAIN r0 = 1..L /\ \A i \in 1..L : r0[i] = Sent(h[st + i - 1], answered)
  BY <1>2, <1>5, <1>10
<1> DEFINE T == {r0[i] : i \in 1..L}
<1>12. r0 \in Seq(T) /\ Len(r0) = L
  <2>1. r0 = [i \in 1..L |-> r0[i]]
    BY <1>2, <1>10
  <2>2. \A i \in 1..L : r0[i] \in T
    OBVIOUS
  <2> HIDE DEF T
  <2>3. r0 \in [1..L -> T]
    BY <2>1, <2>2
  <2> QED BY <1>4, <2>3
<1> HIDE DEF T
<1>13. \A i \in 1..L : r0[i] \in B <=> h[st + i - 1].kind # "summary"
  <2> SUFFICES ASSUME NEW i \in 1..L PROVE r0[i].kind # "summary" <=> h[st + i - 1].kind # "summary"
    BY <1>11 DEF ToSet
  <2>1. h[st + i - 1] \in ChatItems
    <3>1. st + i - 1 \in 1..N
      BY <1>5
    <3> QED BY <1>1, <3>1 DEF N
  <2>2. r0[i] = Sent(h[st + i - 1], answered)
    BY <1>11
  <2> QED BY <2>1, <2>2, SentKinds
<1> DEFINE r == Only(r0, B)
<1> HIDE DEF B
<1>14. PICK m \in {1, 2} : /\ m <= L + 1 /\ \A i \in 1..L : r0[i] \in B <=> m <= i
                           /\ \A i \in 1..L : i < m => h[st + i - 1].kind = "summary"
  <2>1. \A i \in 2..L : r0[i] \in B
    <3> SUFFICES ASSUME NEW i \in 2..L PROVE h[st + i - 1].kind # "summary"
      BY <1>13
    <3>1. st \in DOMAIN h /\ st + i - 1 \in DOMAIN h /\ st < st + i - 1
      <4>1. i \in 1..L
        OBVIOUS
      <4>2. st + i - 1 \in 1..N
        BY <1>5, <4>1
      <4> QED BY <1>1, <1>3, <4>2 DEF N
    <3> QED BY <3>1 DEF Sound
  <2>2. CASE 1 \in 1..L /\ r0[1] \notin B
    <3>1. \A i \in 1..L : r0[i] \in B <=> 2 <= i
      <4>1. \A i \in 1..L : i = 1 \/ i \in 2..L
        BY <1>4
      <4> QED BY <2>1, <2>2, <4>1
    <3>2. \A i \in 1..L : i < 2 => h[st + i - 1].kind = "summary"
      <4>1. \A i \in 1..L : i < 2 => i = 1
        BY <1>4
      <4> QED BY <1>13, <2>2, <4>1
    <3>3. 2 <= L + 1
      BY <1>4, <2>2
    <3> QED BY <3>1, <3>2, <3>3
  <2>3. CASE ~ (1 \in 1..L /\ r0[1] \notin B)
    <3>1. \A i \in 1..L : i = 1 \/ i \in 2..L
      BY <1>4
    <3>2. \A i \in 1..L : r0[i] \in B <=> 1 <= i
      BY <2>1, <2>3, <3>1
    <3>3. \A i \in 1..L : ~ (i < 1)
      BY <1>4
    <3>4. 1 <= L + 1
      BY <1>4
    <3> QED BY <3>2, <3>3, <3>4
  <2> QED BY <2>2, <2>3
<1>15. /\ r \in Seq(T) /\ Len(r) = L + 1 - m /\ \A i \in 1..(L + 1 - m) : r[i] = r0[m + i - 1]
  <2>1. m \in 1..(Len(r0) + 1) /\ L \in 0..Len(r0) /\ m <= L + 1
    BY <1>4, <1>12, <1>14
  <2>2. \A i \in 1..Len(r0) : r0[i] \in B <=> m <= i /\ i <= L
    BY <1>4, <1>12, <1>14
  <2>3. r0 \in Seq(T)
    BY <1>12
  <2>4. /\ Only(r0, B) \in Seq(T) /\ Len(Only(r0, B)) = L + 1 - m
        /\ \A i \in 1..(L + 1 - m) : Only(r0, B)[i] = r0[m + i - 1]
    <3> HIDE DEF r, A, T, B
    <3>1. /\ m \in 1..(Len(r0) + 1) /\ L \in 0..Len(r0) /\ m <= L + 1 /\ r0 \in Seq(T)
          /\ \A i \in 1..Len(r0) : r0[i] \in B <=> m <= i /\ i <= L
      BY <2>1, <2>2, <2>3
    <3>2. Stretch(r0, B, m, L)
      BY <3>1 DEF Stretch
    <3>3. IsStretch(Only(r0, B), r0, m, L, T)
      BY <3>1, <3>2, OnlyIsStretch
    <3> QED BY <3>3 DEF IsStretch
  <2> QED BY <2>4
<1>16. DOMAIN r = 1..(L + 1 - m)
  BY <1>15, LenProperties
<1> DEFINE b == st + m - 2
<1>17. b \in 0..N /\ L + 1 - m = N - b
  BY <1>3, <1>4, <1>14 DEF L
<1>18. ASSUME NEW i \in 1..(N - b) PROVE r[i] = Sent(h[b + i], answered)
  <2>1. i \in 1..(L + 1 - m) /\ m + i - 1 \in 1..L /\ st + (m + i - 1) - 1 = b + i
    BY <1>3, <1>4, <1>14, <1>17
  <2>2. r[i] = r0[m + i - 1]
    BY <1>15, <2>1
  <2>3. r0[m + i - 1] = Sent(h[st + (m + i - 1) - 1], answered)
    BY <1>11, <2>1
  <2> QED BY <2>1, <2>2, <2>3
<1>19. \A j \in st..N : j \in (b + 1)..N \/ (j = st /\ h[j].kind = "summary")
  <2> SUFFICES ASSUME NEW j \in st..N, ~ (j \in (b + 1)..N) PROVE j = st /\ h[j].kind = "summary"
    OBVIOUS
  <2>1. j + 1 - st \in 1..L
    BY <1>5
  <2>2. j = st /\ m = 2
    BY <1>3, <1>14
  <2>3. 1 \in 1..L /\ 1 < m /\ st + 1 - 1 = st
    BY <1>3, <2>1, <2>2
  <2>4. h[st + 1 - 1].kind = "summary"
    BY <1>14, <2>3
  <2> QED BY <2>2, <2>3, <2>4
<1>20. \A j \in (b + 1)..N : j \in st..N
  BY <1>3, <1>14
<1>21. ASSUME NEW j \in (b + 1)..N, NEW i \in 1..j - 1, Owns(h, i, j) PROVE i \in (b + 1)..(j - 1)
  <2>1. h[i].kind = "calls" /\ \A k \in i + 1..j : h[k].kind = "result"
    BY <1>21 DEF Owns
  <2>2. i >= st
    <3> SUFFICES ASSUME ~ (i >= st) PROVE FALSE
      OBVIOUS
    <3>1. st \in i + 1..j /\ st \in 1..N
      BY <1>3, <1>20
    <3> QED BY <1>3, <2>1, <3>1
  <2>3. i \in st..N
    BY <1>3, <2>2
  <2>4. i \in (b + 1)..N
    BY <1>19, <2>1, <2>3
  <2> QED BY <2>4
<1>22. \A x : x \in answered <=> x # NoId /\ \E j \in (b + 1)..N : /\ h[j].kind = "result"
                                                                  /\ x \in ToSet(h[j].ids)
  BY <1>8, <1>19, <1>20
<1> HIDE DEF r, b
<1>23. RequestOf(h, b, answered, r)
  BY <1>3, <1>15, <1>16, <1>17, <1>18, <1>21, <1>22 DEF RequestOf, N
<1> QED BY <1>23 DEF r, r0, B

(* The results right behind an item are p, and no more.                     *)
ResultsBehind(h, q, p) ==
  /\ p \in 0..(Len(h) - q)
  /\ \A k \in q + 1..q + p : h[k].kind = "result"
  /\ \A n \in 0..(Len(h) - q) : (\A k \in q + 1..q + n : h[k].kind = "result") => n <= p

(* Which of its calls a request asks: the first p, if p results follow them *)
(* in the window.                                                           *)
LEMMA AnsweredAre ==
  ASSUME NEW h, Sound(h), NEW b, NEW answered, NEW r, RequestOf(h, b, answered, r),
         NEW q \in (b + 1)..Len(h), h[q].kind = "calls", NEW p, ResultsBehind(h, q, p)
  PROVE  /\ p \in 0..Len(h[q].ids)
         /\ \A k \in 1..Len(h[q].ids) : h[q].ids[k] \in answered \cup {NoId} <=> k <= p
         /\ \A k \in 1..p : h[q + k].ids[1] = h[q].ids[k]
<1>1. h \in Seq(ChatItems) /\ DOMAIN h = 1..Len(h) /\ Len(h) \in Nat
  <2>1. h \in Seq(ChatItems)
    BY DEF Sound
  <2> QED BY <2>1
<1>2. /\ b \in 0..Len(h)
      /\ \A x : x \in answered <=> /\ x # NoId
                                   /\ \E j \in (b + 1)..Len(h) : /\ h[j].kind = "result"
                                                                /\ x \in ToSet(h[j].ids)
  BY DEF RequestOf
<1>0. /\ p \in 0..(Len(h) - q)
      /\ \A k \in q + 1..q + p : h[k].kind = "result"
      /\ \A n \in 0..(Len(h) - q) : (\A k \in q + 1..q + n : h[k].kind = "result") => n <= p
  BY DEF ResultsBehind
<1>3. q \in 1..Len(h) /\ q \in Nat /\ p \in Nat /\ b \in Nat
  BY <1>0, <1>1, <1>2
<1> DEFINE ids == h[q].ids
<1>4. ids \in CallIds /\ Len(ids) \in Nat /\ DOMAIN ids = 1..Len(ids)
  <2>1. h[q] \in ChatItems
    BY <1>1, <1>3
  <2>2. ids \in Seq(Nat \X Nat)
    BY <2>1 DEF ChatItems, CallIds
  <2> QED BY <2>2, LenProperties DEF CallIds
<1> HIDE DEF ids
<1>5. \A k \in 1..Len(ids) : ids[k] = <<h[q].event, k>> /\ ids[k] # NoId
  <2>1. \A k \in 1..Len(ids) : ids[k] = <<h[q].event, k>>
    BY <1>1, <1>3, <1>4 DEF Sound, Grouped, ids
  <2>2. h[q].event # 0
    BY <1>1, <1>3 DEF Sound
  <2> QED BY <2>1, <2>2 DEF NoId
<1>6. ASSUME NEW k \in 1..p
      PROVE  /\ k \in 1..Len(ids) /\ h[q + k].ids = <<ids[k]>> /\ h[q + k].ids[1] = ids[k]
             /\ q + k \in (b + 1)..Len(h) /\ h[q + k].kind = "result"
  <2>1. /\ q + k \in 1..Len(h) /\ q + k \in (b + 1)..Len(h) /\ q + k \in q + 1..q + p
        /\ q + k - 1 \in Nat /\ k \in Nat
    <3>1. p <= Len(h) - q
      BY <1>0
    <3> QED BY <1>1, <1>3, <3>1
  <2>2. h[q + k].kind = "result"
    BY <1>0, <2>1
  <2>3. PICK o \in 1..((q + k) - 1) :
          /\ Owns(h, o, q + k) /\ h[o].kind = "calls" /\ (q + k) - o \in DOMAIN h[o].ids
          /\ h[q + k].ids[1] = h[o].ids[(q + k) - o]
          /\ h[q + k].ids = <<h[o].ids[(q + k) - o]>>
    BY <2>1, <2>2, OwnerIs
  <2>4. ~ (o > q)
    <3> SUFFICES ASSUME o > q PROVE FALSE
      OBVIOUS
    <3>1. o \in q + 1..q + p
      BY <1>3, <2>1
    <3> QED BY <1>0, <2>3, <3>1
  <2>5. ~ (o < q)
    <3> SUFFICES ASSUME o < q PROVE FALSE
      OBVIOUS
    <3>1. q \in o + 1..q + k
      BY <1>3, <2>1
    <3> QED BY <2>3, <3>1 DEF Owns
  <2>6. o = q /\ (q + k) - q = k
    BY <1>3, <2>1, <2>4, <2>5
  <2> QED BY <1>4, <2>1, <2>2, <2>3, <2>6 DEF ids
<1>7. p \in 0..Len(ids)
  <2>1. CASE p = 0
    BY <1>4, <2>1
  <2>2. CASE p # 0
    <3>1. p \in 1..p
      BY <1>3, <2>2
    <3> QED BY <1>3, <1>4, <1>6, <3>1
  <2> QED BY <2>1, <2>2
<1>8. ASSUME NEW k \in 1..Len(ids), k <= p PROVE ids[k] \in answered
  <2>1. k \in 1..p
    BY <1>3, <1>8
  <2>2. ids[k] \in ToSet(h[q + k].ids)
    <3>1. h[q + k].ids = <<ids[k]>>
      BY <1>6, <2>1
    <3> QED BY <3>1 DEF ToSet
  <2> QED BY <1>2, <1>5, <1>6, <2>1, <2>2
<1>9. ASSUME NEW k \in 1..Len(ids), ids[k] \in answered \cup {NoId} PROVE k <= p
  <2>1. PICK j \in (b + 1)..Len(h) : h[j].kind = "result" /\ ids[k] \in ToSet(h[j].ids)
    BY <1>2, <1>5, <1>9
  <2>2. j \in 1..Len(h)
    BY <1>1, <1>3
  <2>3. PICK o \in 1..(j - 1) :
          /\ Owns(h, o, j) /\ h[o].kind = "calls"
          /\ h[j].ids[1] = <<h[o].event, j - o>> /\ h[j].ids = <<h[o].ids[j - o]>>
    BY <2>1, <2>2, OwnerIs
  <2>4. ids[k] = h[j].ids[1]
    <3> DEFINE x == h[o].ids[j - o]
    <3>1. h[j].ids = <<x>>
      BY <2>3
    <3> HIDE DEF x
    <3>2. ToSet(h[j].ids) = {x} /\ h[j].ids[1] = x
      BY <3>1 DEF ToSet
    <3> QED BY <2>1, <3>2
  <2>5. h[o].event = h[q].event /\ j - o = k
    BY <1>5, <2>3, <2>4
  <2>6. o = q
    <3>1. o \in 1..Len(h)
      BY <2>2
    <3> QED BY <1>1, <1>3, <2>5, <3>1 DEF Sound
  <2>7. j = q + k /\ k \in 0..(Len(h) - q)
    BY <1>1, <1>3, <2>2, <2>5, <2>6
  <2>8. \A x \in q + 1..q + k : h[x].kind = "result"
    BY <2>3, <2>6, <2>7 DEF Owns
  <2> QED BY <1>0, <2>7, <2>8
<1> QED BY <1>6, <1>7, <1>8, <1>9 DEF ids

(* The calls of a message and the results behind it answer each other.      *)
EachAnswered(r, i) ==
  /\ {r[j].ids[1] : j \in Answers(r, i)} = ToSet(r[i].ids)
  /\ Cardinality(Answers(r, i)) = Len(r[i].ids)

(* So they do in a request of a sound history.                              *)
LEMMA CallsAreAnswered ==
  ASSUME NEW h, Sound(h), NEW b, NEW answered, NEW r, RequestOf(h, b, answered, r),
         NEW i \in DOMAIN r, r[i].kind = "calls"
  PROVE  EachAnswered(r, i)
<1>1. h \in Seq(ChatItems) /\ DOMAIN h = 1..Len(h) /\ Len(h) \in Nat
  <2>1. h \in Seq(ChatItems)
    BY DEF Sound
  <2> QED BY <2>1
<1> DEFINE R == Len(h) - b
           q == b + i
           ids == h[q].ids
           wanted == Only(ids, answered \cup {NoId})
<1>2. /\ b \in 0..Len(h) /\ DOMAIN r = 1..R /\ Len(r) = R
      /\ \A k \in 1..R : r[k] = Sent(h[b + k], answered)
  BY DEF RequestOf
<1>3. /\ R \in Nat /\ b \in Nat /\ i \in 1..R /\ q \in (b + 1)..Len(h) /\ R - i \in Nat
      /\ Len(h) - q = R - i
      /\ \A k \in 1..R : b + k \in 1..Len(h) /\ h[b + k] \in ChatItems
  <2>1. \A k \in 1..R : b + k \in 1..Len(h)
    BY <1>1, <1>2
  <2> QED BY <1>1, <1>2, <2>1
<1> HIDE DEF R
<1>4. \A k \in 1..R : /\ r[k].kind = "result" <=> h[b + k].kind = "result"
                      /\ r[k].kind = "result" => r[k] = h[b + k]
  <2> SUFFICES ASSUME NEW k \in 1..R
               PROVE  /\ r[k].kind = "result" <=> h[b + k].kind = "result"
                      /\ r[k].kind = "result" => r[k] = h[b + k]
    OBVIOUS
  <2>1. h[b + k] \in ChatItems /\ r[k] = Sent(h[b + k], answered)
    BY <1>2, <1>3
  <2> QED BY <2>1, SentKinds
<1>5. h[q].kind = "calls" /\ r[i].ids = wanted
  <2>1. h[q] \in ChatItems /\ r[i] = Sent(h[q], answered)
    BY <1>2, <1>3
  <2> HIDE DEF q
  <2>2. h[q].kind = "calls"
    <3>1. r[i].kind = "calls"
      OBVIOUS
    <3> QED BY <2>1, <3>1, SentKinds
  <2> DEFINE item == h[q]
  <2>3. item \in ChatItems /\ r[i] = Sent(item, answered) /\ item.kind = "calls" /\ r[i].kind = "calls"
    BY <2>1, <2>2
  <2> HIDE DEF item
  <2>4. Only(item.ids, answered \cup {NoId}) # <<>>
    <3>1. Only(item.ids, answered \cup {NoId}) = <<>> => Sent(item, answered).kind = "text"
      BY <2>3, SentIs, Zenon
    <3>2. Sent(item, answered).kind = "calls"
      BY <2>3
    <3> HIDE DEF wanted, ids
    <3> QED BY <3>1, <3>2
  <2>5. Sent(item, answered).ids = Only(item.ids, answered \cup {NoId})
    BY <2>3, <2>4, SentIs, Zenon
  <2> QED BY <2>2, <2>3, <2>5 DEF item
<1> HIDE DEF wanted
<1> DEFINE D == {n \in 0..(R - i) : \A k \in q + 1..q + n : h[k].kind = "result"}
<1>6. PICK p \in D : \A n \in D : p >= n
  <2>1. D \in SUBSET Nat /\ \A n \in D : n <= R - i
    BY <1>3
  <2>2. 0 \in D
    <3>1. \A k \in q + 1..q + 0 : FALSE
      BY <1>3
    <3> QED BY <1>3, <3>1
  <2> HIDE DEF D
  <2> QED BY <1>3, <2>1, <2>2, GreatestMember
<1>7. /\ p \in 0..(R - i) /\ p \in Nat /\ \A k \in q + 1..q + p : h[k].kind = "result"
      /\ \A n \in 0..(R - i) : (\A k \in q + 1..q + n : h[k].kind = "result") => n <= p
  BY <1>3, <1>6
<1> HIDE DEF D
<1>num. /\ p \in Nat /\ p <= R - i /\ i \in Nat /\ 1 <= i /\ i <= R /\ R \in Nat /\ b \in Nat
        /\ q = b + i
  <2>1. p \in 0..(R - i) /\ R \in Nat /\ i \in 1..R /\ b \in Nat
    BY <1>3, <1>7
  <2> QED BY <2>1
<1>8. /\ p \in 0..Len(ids)
      /\ \A k \in 1..Len(ids) : ids[k] \in answered \cup {NoId} <=> k <= p
      /\ \A k \in 1..p : h[q + k].ids[1] = ids[k]
  <2> HIDE DEF q
  <2>1. q \in (b + 1)..Len(h) /\ h[q].kind = "calls" /\ ResultsBehind(h, q, p)
    BY <1>3, <1>5, <1>7 DEF ResultsBehind
  <2>2. /\ p \in 0..Len(h[q].ids)
        /\ \A k \in 1..Len(h[q].ids) : h[q].ids[k] \in answered \cup {NoId} <=> k <= p
        /\ \A k \in 1..p : h[q + k].ids[1] = h[q].ids[k]
    BY <2>1, AnsweredAre, SMTT(90)
  <2> QED BY <2>2 DEF ids
<1>9. ids \in CallIds /\ Len(ids) \in Nat
  <2>1. h[q] \in ChatItems
    BY <1>3
  <2>2. ids \in Seq(Nat \X Nat)
    BY <2>1 DEF ChatItems, CallIds
  <2> QED BY <2>2, LenProperties DEF CallIds
<1> HIDE DEF ids
<1>10. Len(wanted) = p /\ DOMAIN wanted = 1..p /\ \A k \in 1..p : wanted[k] = ids[k]
  <2> DEFINE S == answered \cup {NoId}
             T == Nat \X Nat
  <2>1. /\ ids \in Seq(T) /\ 1 \in 1..(Len(ids) + 1) /\ p \in 0..Len(ids) /\ 1 <= p + 1
        /\ \A k \in 1..Len(ids) : ids[k] \in S <=> 1 <= k /\ k <= p
    BY <1>7, <1>8, <1>9 DEF CallIds
  <2> HIDE DEF S, T
  <2>2. /\ Only(ids, S) \in Seq(T) /\ Len(Only(ids, S)) = p + 1 - 1
        /\ \A k \in 1..(p + 1 - 1) : Only(ids, S)[k] = ids[1 + k - 1]
    <3>1. Stretch(ids, S, 1, p)
      BY <2>1 DEF Stretch
    <3>2. IsStretch(Only(ids, S), ids, 1, p, T)
      BY <2>1, <3>1, OnlyIsStretch
    <3> QED BY <3>2 DEF IsStretch
  <2>3. p + 1 - 1 = p /\ \A k \in 1..p : 1 + k - 1 = k
    BY <1>7
  <2>4. wanted = Only(ids, S)
    BY DEF wanted, S
  <2>5. wanted \in Seq(T) /\ Len(wanted) = p /\ \A k \in 1..p : wanted[k] = ids[k]
    BY <2>2, <2>3, <2>4
  <2> QED BY <2>5, LenProperties
<1>11. Answers(r, i) = i + 1..i + p
  <2>1. ASSUME NEW j \in Answers(r, i) PROVE j \in i + 1..i + p
    <3>1. j \in i + 1..R /\ \A k \in i + 1..j : r[k].kind = "result"
      BY <1>2 DEF Answers
    <3>2. j - i \in 0..(R - i)
      BY <1>3, <3>1
    <3>3. ASSUME NEW k \in q + 1..q + (j - i) PROVE h[k].kind = "result"
      <4>1. k - b \in i + 1..j /\ k - b \in 1..R /\ b + (k - b) = k
        <5>1. j \in i + 1..R
          BY <3>1
        <5> HIDE DEF q
        <5> QED BY <1>num, <5>1
      <4> QED BY <1>4, <3>1, <4>1
    <3>4. j - i <= p
      BY <1>7, <3>2, <3>3
    <3> QED BY <1>3, <1>7, <3>1, <3>4
  <2>2. ASSUME NEW j \in i + 1..i + p PROVE j \in Answers(r, i)
    <3>1. j \in i + 1..R
      BY <1>num
    <3>2. ASSUME NEW k \in i + 1..j PROVE r[k].kind = "result"
      <4>1. b + k \in q + 1..q + p /\ k \in 1..R
        <5> HIDE DEF q
        <5> QED BY <1>num
      <4> QED BY <1>4, <1>7, <4>1
    <3> QED BY <1>2, <3>1, <3>2 DEF Answers
  <2> QED BY <2>1, <2>2
<1>12. Cardinality(i + 1..i + p) = p
  <2>0. i \in Nat /\ p \in Nat
    BY <1>num
  <2>1. i + 1 \in Int /\ i + p \in Int /\ (i + p) - (i + 1) + 1 = p /\ (i + 1 > i + p => p = 0)
    BY <2>0
  <2> QED BY <2>1, FS_Interval
<1>13. ASSUME NEW k \in 1..p PROVE i + k \in i + 1..i + p /\ r[i + k].ids[1] = ids[k]
  <2>1. i + k \in 1..R /\ b + (i + k) = q + k /\ q + k \in q + 1..q + p /\ i + k \in i + 1..i + p
    <3> HIDE DEF q
    <3> QED BY <1>num
  <2>2. r[i + k] = h[q + k]
    BY <1>4, <1>7, <2>1
  <2> QED BY <1>8, <2>1, <2>2
<1>14. {r[j].ids[1] : j \in i + 1..i + p} = {ids[k] : k \in 1..p}
  <2>1. \A j \in i + 1..i + p : j - i \in 1..p /\ i + (j - i) = j
    BY <1>num
  <2> QED BY <1>13, <2>1
<1>15. ToSet(wanted) = {ids[k] : k \in 1..p}
  BY <1>10 DEF ToSet
<1> QED BY <1>5, <1>10, <1>11, <1>12, <1>14, <1>15 DEF EachAnswered

(* A result of the request stands behind its call.                          *)
LEMMA ResultIsAsked ==
  ASSUME NEW h, Sound(h), NEW b, NEW answered, NEW r, RequestOf(h, b, answered, r),
         NEW i \in DOMAIN r, r[i].kind = "result"
  PROVE  \E j \in 1..i - 1 : r[j].kind = "calls" /\ i \in Answers(r, j)
<1>1. h \in Seq(ChatItems) /\ DOMAIN h = 1..Len(h) /\ Len(h) \in Nat
  <2>1. h \in Seq(ChatItems)
    BY DEF Sound
  <2> QED BY <2>1
<1> DEFINE R == Len(h) - b
           q == b + i
<1>2. /\ b \in 0..Len(h) /\ DOMAIN r = 1..R /\ Len(r) = R
      /\ \A k \in 1..R : r[k] = Sent(h[b + k], answered)
      /\ \A j \in (b + 1)..Len(h) : \A o \in 1..j - 1 : Owns(h, o, j) => o \in (b + 1)..(j - 1)
      /\ \A x : x \in answered <=> /\ x # NoId
                                   /\ \E j \in (b + 1)..Len(h) : /\ h[j].kind = "result"
                                                                /\ x \in ToSet(h[j].ids)
  BY DEF RequestOf
<1>3. /\ R \in Nat /\ b \in Nat /\ i \in 1..R /\ q \in (b + 1)..Len(h) /\ q \in 1..Len(h)
      /\ \A k \in 1..R : b + k \in 1..Len(h) /\ h[b + k] \in ChatItems
  <2>1. \A k \in 1..R : b + k \in 1..Len(h)
    BY <1>1, <1>2
  <2> QED BY <1>1, <1>2, <2>1
<1> HIDE DEF R
<1>4. \A k \in 1..R : /\ h[b + k] \in ChatItems /\ r[k] = Sent(h[b + k], answered)
                      /\ h[b + k].kind = "result" <=> r[k].kind = "result"
  <2> SUFFICES ASSUME NEW k \in 1..R
               PROVE  /\ h[b + k] \in ChatItems /\ r[k] = Sent(h[b + k], answered)
                      /\ h[b + k].kind = "result" <=> r[k].kind = "result"
    OBVIOUS
  <2>1. h[b + k] \in ChatItems /\ r[k] = Sent(h[b + k], answered)
    BY <1>2, <1>3
  <2> QED BY <2>1, SentKinds
<1>5. h[q].kind = "result"
  BY <1>3, <1>4
<1> HIDE DEF q
<1>6. PICK o \in 1..(q - 1) :
        /\ Owns(h, o, q) /\ h[o].kind = "calls" /\ q - o \in DOMAIN h[o].ids
  BY <1>3, <1>5, OwnerIs
<1>7. o \in (b + 1)..(q - 1)
  BY <1>2, <1>3, <1>6
<1> DEFINE p == o - b
<1>8. p \in 1..R /\ p \in 1..i - 1 /\ b + p = o /\ o + 1 \in o + 1..q /\ o + 1 \in (b + 1)..Len(h)
      /\ o \in 1..Len(h) /\ (o + 1) - o = 1
  <2>1. /\ b \in Nat /\ R \in Nat /\ i \in 1..R /\ q = b + i /\ q <= Len(h) /\ Len(h) \in Nat
        /\ o \in (b + 1)..(q - 1)
    BY <1>1, <1>3, <1>7 DEF q
  <2>2. q \in Nat /\ o \in Nat /\ o >= b + 1 /\ o <= q - 1
    BY <2>1
  <2>3. p \in 1..R /\ p \in 1..i - 1 /\ b + p = o
    BY <2>1, <2>2
  <2>4. o + 1 \in o + 1..q /\ o + 1 \in (b + 1)..Len(h)
    BY <2>1, <2>2
  <2>5. o \in 1..Len(h) /\ (o + 1) - o = 1
    BY <2>1, <2>2
  <2> QED BY <2>3, <2>4, <2>5
<1> HIDE DEF p
<1>9. /\ h[o + 1].kind = "result" /\ h[o + 1].ids = <<h[o].ids[1]>>
      /\ \A k \in o + 1..q : h[k].kind = "result"
  BY <1>6, <1>8 DEF Owns
<1>10. h[o].ids \in CallIds /\ 1 \in DOMAIN h[o].ids
  <2>1. h[o] \in ChatItems
    BY <1>4, <1>8
  <2>2. h[o].ids \in Seq(Nat \X Nat)
    BY <2>1 DEF ChatItems, CallIds
  <2>3. DOMAIN h[o].ids = 1..Len(h[o].ids) /\ Len(h[o].ids) \in Nat
    BY <2>2, LenProperties
  <2>4. q - o \in Nat \ {0}
    BY <1>3, <1>7
  <2> QED BY <1>6, <2>2, <2>3, <2>4 DEF CallIds
<1> DEFINE x == h[o].ids[1]
<1>11. x \in answered
  <2>1. h[o].ids[1] = <<h[o].event, 1>> /\ h[o].event # 0
    BY <1>1, <1>6, <1>8, <1>10 DEF Sound, Grouped
  <2>2. x # NoId
    BY <2>1 DEF NoId
  <2> HIDE DEF x
  <2>3. h[o + 1].ids = <<x>>
    BY <1>9 DEF x
  <2>4. x \in ToSet(h[o + 1].ids)
    BY <2>3 DEF ToSet
  <2> QED BY <1>2, <1>8, <1>9, <2>2, <2>4
<1>12. Only(h[o].ids, answered \cup {NoId}) # <<>>
  <2> DEFINE s == h[o].ids
             S == answered \cup {NoId}
             T == Nat \X Nat
  <2>1. s \in Seq(T) /\ 1 \in DOMAIN s /\ s[1] \in S
    BY <1>10, <1>11 DEF CallIds
  <2> HIDE DEF s, S, T
  <2> HIDE DEF x
  <2>2. s \in Seq(T)
    BY <2>1
  <2>3. /\ Only(s, S) \in Seq(T) /\ Len(Only(s, S)) \in Nat
        /\ DOMAIN Only(s, S) = 1..Len(Only(s, S))
        /\ \A k \in DOMAIN Only(s, S) :
             Only(s, S)[k] \in S /\ \E j \in DOMAIN s : Only(s, S)[k] = s[j]
        /\ \A j \in DOMAIN s : s[j] \in S => \E k \in DOMAIN Only(s, S) : Only(s, S)[k] = s[j]
    BY <2>2, OnlyMembers
  <2>4. \E k \in DOMAIN Only(s, S) : Only(s, S)[k] = s[1]
    BY <2>1, <2>3
  <2>5. DOMAIN Only(s, S) # {}
    BY <2>4
  <2>6. Only(s, S) # <<>>
    BY <2>5
  <2> QED BY <2>6 DEF s, S
<1>13. r[p].kind = "calls"
  <2>1. h[o] \in ChatItems /\ r[p] = Sent(h[o], answered)
    BY <1>4, <1>8
  <2> DEFINE item == h[o]
  <2>2. item \in ChatItems /\ item.kind = "calls" /\ Only(item.ids, answered \cup {NoId}) # <<>>
    BY <1>6, <1>12, <2>1
  <2> HIDE DEF item
  <2>3. Sent(item, answered).kind = "calls"
    BY <2>2, SentIs, Zenon
  <2> QED BY <2>1, <2>3 DEF item
<1>14. i \in Answers(r, p)
  <2>1. i \in p + 1..Len(r)
    BY <1>2, <1>3, <1>8
  <2>2. ASSUME NEW k \in p + 1..i PROVE r[k].kind = "result"
    <3>1. b \in Nat /\ R \in Nat /\ i \in 1..R /\ q = b + i /\ p \in 1..i - 1 /\ b + p = o
      BY <1>3, <1>8 DEF q
    <3>2. b + k \in o + 1..q /\ k \in 1..R
      BY <3>1
    <3> QED BY <1>4, <1>9, <3>2
  <2> QED BY <2>1, <2>2 DEF Answers
<1> QED BY <1>8, <1>13, <1>14

(* What a provider demands holds of the request of every sound history.     *)
LEMMA RequestPaired ==
  ASSUME NEW h, Sound(h), NEW b, NEW answered, NEW r, RequestOf(h, b, answered, r)
  PROVE  Paired(r)
<1>1. ASSUME NEW i \in DOMAIN r, r[i].kind = "calls"
      PROVE  EachAnswered(r, i)
  BY <1>1, CallsAreAnswered
<1>2. ASSUME NEW i \in DOMAIN r, r[i].kind = "result"
      PROVE  \E j \in 1..i - 1 : r[j].kind = "calls" /\ i \in Answers(r, j)
  BY <1>2, ResultIsAsked
<1> QED BY <1>1, <1>2 DEF Paired, EachAnswered

(* A history without its last item is as sound.                             *)
LEMMA FrontSound ==
  ASSUME NEW h, Sound(h), h # <<>>
  PROVE  Sound(Front(h))
<1>1. h \in Seq(ChatItems) /\ DOMAIN h = 1..Len(h) /\ Len(h) \in Nat \ {0}
  <2>1. h \in Seq(ChatItems)
    BY DEF Sound
  <2> QED BY <2>1
<1> DEFINE f == Front(h)
           n == Len(h) - 1
<1>2. f \in Seq(ChatItems) /\ Len(f) = n /\ \A i \in 1..n : f[i] = h[i]
  <2>1. \A i \in 1..n : h[i] \in ChatItems
    BY <1>1
  <2>2. /\ SubSeq(h, 1, n) \in Seq(ChatItems) /\ Len(SubSeq(h, 1, n)) = IF 1 <= n THEN n - 1 + 1 ELSE 0
        /\ \A i \in 1..(n - 1 + 1) : SubSeq(h, 1, n)[i] = h[1 + i - 1]
    BY <1>1, <2>1, SubSeqProperties
  <2>3. /\ n - 1 + 1 = n /\ (IF 1 <= n THEN n - 1 + 1 ELSE 0) = n
        /\ \A i \in 1..n : 1 + i - 1 = i
    BY <1>1
  <2>4. f = SubSeq(h, 1, n)
    BY DEF Front
  <2> QED BY <2>2, <2>3, <2>4
<1> HIDE DEF f
<1>3. /\ DOMAIN f = 1..n /\ n \in Nat
      /\ \A i \in 1..n : i \in 1..Len(h) /\ i \in DOMAIN h /\ f[i] = h[i]
  BY <1>1, <1>2
<1> HIDE DEF n
<1>4. \A i \in DOMAIN f : f[i].kind = "calls" =>
        \A k \in DOMAIN f[i].ids : f[i].ids[k] = <<f[i].event, k>>
  BY <1>3 DEF Sound, Grouped
<1>5. ASSUME NEW j \in DOMAIN f, f[j].kind = "result" PROVE \E i \in 1..j - 1 : Owns(f, i, j)
  <2>1. PICK i \in 1..j - 1 : Owns(h, i, j)
    BY <1>3, <1>5 DEF Sound, Grouped
  <2>2. \A k \in i..j : k \in 1..n
    BY <1>3
  <2>3. i \in i..j /\ \A k \in i + 1..j : k \in i..j
    BY <1>3
  <2> QED BY <1>3, <2>1, <2>2, <2>3 DEF Owns
<1>6. Grouped(f)
  BY <1>4, <1>5 DEF Grouped
<1>7. /\ \A i, j \in DOMAIN f : i < j => f[j].kind # "summary"
      /\ \A i, j \in DOMAIN f : i # j => f[i].event # f[j].event
      /\ \A i \in DOMAIN f : f[i].event # 0
  BY <1>3 DEF Sound
<1> QED BY <1>2, <1>6, <1>7 DEF Sound, f

(* The invariants say that what is sent next is sound.                      *)
LEMMA PairIsPaired == KeptInv /\ PairInv => RequestsPaired
<1> SUFFICES ASSUME KeptInv, PairInv PROVE Paired(SendHistory)
  BY DEF RequestsPaired
<1>1. Sound(history)
  <2>1. history \in Seq(ChatItems)
    BY DEF KeptInv, ChatTypes
  <2>2. \A i \in DOMAIN history : history[i].event # 0
    <3>1. \A i \in DOMAIN history : history[i].event \in 1..eventSeq
      BY DEF KeptInv, Dated
    <3> QED BY <3>1
  <2> QED BY <2>1, <2>2 DEF Sound, KeptInv, TurnsInOrder, PairInv
<1>2. Sound(Earlier)
  BY <1>1, FrontSound DEF Earlier
<1> DEFINE h == Earlier
<1>3. SendHistory = Only(NativeTail(h), {item \in ToSet(NativeTail(h)) : item.kind # "summary"})
  BY DEF SendHistory
<1> HIDE DEF h
<1>4. PICK b, answered : RequestOf(h, b, answered, SendHistory)
  BY <1>2, <1>3, RequestIs DEF h
<1> QED BY <1>2, <1>4, RequestPaired DEF h

(* At first there is nothing to send.                                       *)
LEMMA PairInit == ChatHistoryInit => PairInv
<1> SUFFICES ASSUME ChatHistoryInit PROVE PairInv
  OBVIOUS
<1>1. history = <<>> /\ batch = <<>> /\ DOMAIN history = {}
  BY DEF ChatHistoryInit
<1> QED BY <1>1 DEF PairInv, Grouped, BatchOwed

(* Of a provider that names its calls: the history is whole, and every      *)
(* request sent of it asks no call without its result and gives no result   *)
(* without its call - wherever the window begins, however the turns before  *)
(* ended and whatever was compacted.                                        *)
THEOREM RequestsAreWhole ==
  ASSUME NamesCalls
  PROVE  ChatHistorySpec => []HistoryIsSound
<1>1. KeptInv /\ PairInv /\ [ChatHistoryNext]_chatVars => (KeptInv /\ PairInv)'
  BY KeptStep, PairStep
<1>2. ChatHistoryInit => KeptInv /\ PairInv
  BY KeptInitInv, PairInit
<1>3. KeptInv /\ PairInv => HistoryIsSound
  BY KeptIsKept, PairIsPaired DEF HistoryIsSound
<1> QED BY <1>1, <1>2, <1>3, PTL DEF ChatHistorySpec

(* Of what is recorded: its kinds, and that no number is given twice.       *)
LEMMA ChatHistoryTypes == KeptInv => ChatHistoryTypeOK
<1> SUFFICES ASSUME KeptInv PROVE ChatHistoryTypeOK
  OBVIOUS
<1>1. Len(history) \in Nat /\ DOMAIN history = 1..Len(history)
      /\ \A i \in DOMAIN history : history[i] \in ChatItems
  BY DEF KeptInv, ChatTypes
<1>2. \A i \in DOMAIN history : history[i].kind \in {"user", "text", "calls", "result", "summary"}
  BY <1>1 DEF ChatItems
<1>3. \A i \in DOMAIN history : history[i].event \in 1..eventSeq /\ history[i].turn \in 0..turnSeq
  BY DEF KeptInv, Dated
<1>4. ASSUME NEW i \in DOMAIN history, NEW j \in 1..i - 1 PROVE history[j].event # history[i].event
  <2>1. j \in DOMAIN history /\ j # i
    BY <1>1
  <2> QED BY <2>1 DEF KeptInv, TurnsInOrder
<1>5. turnNow \in {0, turnSeq}
  BY DEF KeptInv, ChatTypes
<1> QED BY <1>2, <1>3, <1>4, <1>5 DEF ChatHistoryTypeOK

-----------------------------------------------------------------------------
(***************************************************************************)
(* PromptBudget, for any lengths and limits and any history: a prompt fits *)
(* its budget or exceeds it by no more than the message and the least the  *)
(* sections must have, what is bound to the task stands in it whole, and   *)
(* the rounds that cut it down come to an end. The invariant keeps that    *)
(* the budgets of a build never leave their bounds, the memory's not below *)
(* the Specs and those of the notes and of the history not at nothing, at  *)
(* which the code would not clip them at all; the lengths of the texts are *)
(* natural numbers because the loops over turns and lines stay in sets     *)
(* (LoopEndsIn).                                                           *)
(***************************************************************************)

(* An item with its number.                                                 *)
Logged == [kind : ItemKinds, path : Paths, ok : BOOLEAN, changed : BOOLEAN, size : Nat, id : Nat]

(* The greater and the smaller of two.                                      *)
LEMMA MostLeast ==
  ASSUME NEW a \in Int, NEW b \in Int
  PROVE  /\ Most(a, b) \in {a, b} /\ Most(a, b) >= a /\ Most(a, b) >= b
         /\ Least(a, b) \in {a, b} /\ Least(a, b) <= a /\ Least(a, b) <= b
BY DEF Most, Least

(* What is clipped fits.                                                    *)
LEMMA ClipIs ==
  ASSUME NEW n \in Nat, NEW limit \in Int
  PROVE  Clip(n, limit) \in Nat /\ Clip(n, limit) <= n /\ (limit >= 0 => Clip(n, limit) <= limit)
BY DEF Clip, Least

(* The budget and its first shares are natural numbers.                     *)
LEMMA SharesAreNat ==
  /\ TotalBudget \in Nat /\ FirstBudget \in [Sections -> Nat]
  /\ MinBudget \in [Sections -> Nat]
<1>1. {ContextWindow, Reserve, MinChars, MaxChars} \subseteq Nat
  BY PromptBudgetAssumptions
<1>2. Ratio \in [Sections -> Nat] /\ MinBudget \in [Sections -> Nat]
  BY PromptBudgetAssumptions
<1>3. TotalBudget \in Nat
  <2> DEFINE usable == IF ContextWindow > Reserve THEN ContextWindow - Reserve ELSE ContextWindow
  <2>1. usable \in Nat
    BY <1>1
  <2>2. TotalBudget = Most(Least(MinChars, 4 * ContextWindow), Least(MaxChars, 2 * usable))
    BY DEF TotalBudget
  <2> HIDE DEF usable
  <2>3. Least(MinChars, 4 * ContextWindow) \in Nat /\ Least(MaxChars, 2 * usable) \in Nat
    BY <1>1, <2>1 DEF Least
  <2> QED BY <2>2, <2>3 DEF Most
<1>4. ASSUME NEW s \in Sections
      PROVE  FirstBudget[s] \in Nat
  <2> DEFINE b == TotalBudget
             share == (b * Ratio[s]) \div 100
  <2>1. FirstBudget[s] = IF b < Total(MinBudget) THEN share ELSE Most(MinBudget[s], share)
    BY DEF FirstBudget
  <2>2. b \in Nat /\ Ratio[s] \in Nat /\ MinBudget[s] \in Nat
    BY <1>2, <1>3
  <2> HIDE DEF b
  <2>3. b * Ratio[s] \in Nat
    BY <2>2
  <2>4. share \in Nat
    BY <2>3
  <2> HIDE DEF share
  <2> QED BY <2>1, <2>2, <2>4 DEF Most
<1>5. FirstBudget = [s \in Sections |-> FirstBudget[s]]
  BY DEF FirstBudget
<1> QED BY <1>2, <1>3, <1>4, <1>5

-----------------------------------------------------------------------------
(* The sum of a sequence of natural numbers is one.                         *)
LEMMA SumIsNat ==
  ASSUME NEW N \in Nat, NEW f \in [1 .. N -> Nat]
  PROVE  Sum(f) \in Nat
<1>1. Len(f) = N
  BY LenProperties
<1>2. SumTo(f, N) \in Nat
  BY SumToRecursion
<1> QED BY <1>1, <1>2 DEF Sum

(* The notes keep to their budget; without notes there is their header.     *)
LEMMA NotesFit ==
  ASSUME NEW ns \in Seq(Nat), NEW b \in Nat
  PROVE  /\ NotesLength(ns, b) \in Nat
         /\ b > 0 => NotesLength(ns, b) <= Most(Header, b)
         /\ b > 0 /\ ns # <<>> => NotesLength(ns, b) <= b
<1>1. Header \in Nat
  BY PromptBudgetAssumptions
<1>2. CASE ns = <<>>
  BY <1>1, <1>2 DEF NotesLength, Most
<1>3. CASE ns # <<>>
  <2> DEFINE N == Len(ns)
             each == Most(1, (b - Header - 3 * Len(ns)) \div Len(ns))
             f == [i \in DOMAIN ns |-> 3 + Clip(ns[i], each)]
             length == NotesAt(ns, each)
  <2>1. N \in Nat /\ N > 0 /\ DOMAIN ns = 1 .. N /\ \A i \in 1 .. N : ns[i] \in Nat
    BY <1>3
  <2>2. each \in Int
    <3>1. (b - Header - 3 * Len(ns)) \div Len(ns) \in Int
      <4> DEFINE x == b - Header - 3 * N
      <4>1. x \in Int
        BY <1>1, <2>1
      <4> HIDE DEF x, N
      <4>2. x \div N \in Int
        BY <2>1, <4>1
      <4> QED BY <4>2 DEF x, N
    <3> QED BY <3>1 DEF Most
  <2>3. NotesLength(ns, b) = IF length > b /\ b > 0 THEN b ELSE length
    BY <1>3 DEF NotesLength
  <2>4. length = Header + Sum(f)
    BY DEF NotesAt
  <2> HIDE DEF each
  <2>5. f \in [1 .. N -> Nat]
    <3>1. ASSUME NEW i \in 1 .. N PROVE 3 + Clip(ns[i], each) \in Nat
      <4>1. ns[i] \in Nat
        BY <2>1
      <4>2. Clip(ns[i], each) \in Nat
        BY <2>2, <4>1, ClipIs
      <4> QED BY <4>2
    <3> QED BY <2>1, <3>1
  <2> HIDE DEF f, N
  <2>6. Sum(f) \in Nat
    BY <2>1, <2>5, SumIsNat
  <2>7. length \in Nat
    BY <1>1, <2>4, <2>6
  <2> HIDE DEF length
  <2>8. /\ NotesLength(ns, b) \in Nat
        /\ b > 0 => NotesLength(ns, b) <= b
    BY <2>3, <2>7
  <2> QED BY <1>1, <2>8 DEF Most
<1> QED BY <1>2, <1>3

(* The memory keeps to its budget, unless the Specs alone exceed it.        *)
LEMMA MemoryFits ==
  ASSUME NEW r \in Requests, NEW b \in Nat
  PROVE  MemoryLength(r, b) \in Nat /\ MemoryLength(r, b) <= Most(r.spec, b)
<1>1. r.memory \in Nat /\ r.spec \in Nat /\ Separator \in Nat
  BY PromptBudgetAssumptions DEF Requests
<1>2. CASE r.spec = 0
  <2>1. MemoryLength(r, b) = Clip(r.memory, b)
    BY <1>2 DEF MemoryLength
  <2> QED BY <1>1, <1>2, <2>1, ClipIs DEF Most
<1>3. CASE r.spec # 0
  <2> DEFINE c == Clip(r.memory, b - r.spec - Separator)
             rest == IF b <= r.spec THEN 0 ELSE c
  <2>1. MemoryLength(r, b) = rest + (IF rest > 0 THEN Separator ELSE 0) + r.spec
    BY <1>3 DEF MemoryLength, MemoryShown
  <2>2. /\ c \in Nat
        /\ b - r.spec - Separator >= 0 => c <= b - r.spec - Separator
        /\ b - r.spec - Separator <= 0 => c = 0
    <3>1. b - r.spec - Separator \in Int
      BY <1>1
    <3>2. b - r.spec - Separator <= 0 => c = 0
      BY <1>1, <3>1 DEF Clip
    <3> HIDE DEF c
    <3>3. c = Clip(r.memory, b - r.spec - Separator)
      BY DEF c
    <3> QED BY <1>1, <3>1, <3>2, <3>3, ClipIs
  <2> HIDE DEF c
  <2> QED BY <1>1, <2>1, <2>2 DEF Most
<1> QED BY <1>2, <1>3

-----------------------------------------------------------------------------
(* An item is shown as lines, each with its length.                         *)
LEMMA ItemIsLines ==
  ASSUME NEW h, NEW item \in Logged, NEW recent \in BOOLEAN, NEW t \in 0 .. 3
  PROVE  ItemLines(h, item, recent, t) \in Seq(Nat)
<1>1. /\ item.size \in Nat /\ Header \in Nat /\ Stub \in Nat /\ FullLine \in Nat
      /\ OldLine(t) \in Nat
  <2>1. Header \in Nat /\ Stub \in Nat /\ FullLine \in Nat /\ LineLimits \in [1..4 -> Nat]
    BY PromptBudgetAssumptions
  <2>2. t + 1 \in 1 .. 4
    OBVIOUS
  <2> QED BY <2>1, <2>2 DEF OldLine, Logged
<1>2. \A n \in Nat : Least(item.size, n) \in Nat
  BY <1>1 DEF Least
<1> DEFINE limit == IF recent THEN FullLine ELSE OldLine(t)
<1>3. limit \in Nat
  BY <1>1
<1>4. \/ ItemLines(h, item, recent, t) = <<item.size>>
      \/ ItemLines(h, item, recent, t) = <<Header, Least(item.size, FullLine)>>
      \/ ItemLines(h, item, recent, t) = <<Stub>>
      \/ ItemLines(h, item, recent, t) = <<Least(item.size, limit)>>
  BY DEF ItemLines
<1> HIDE DEF limit
<1>5. Least(item.size, FullLine) \in Nat /\ Least(item.size, limit) \in Nat
  BY <1>1, <1>2, <1>3
<1>6. \A a, c \in Nat : <<a>> \in Seq(Nat) /\ <<a, c>> \in Seq(Nat)
  OBVIOUS
<1>7. /\ <<item.size>> \in Seq(Nat) /\ <<Stub>> \in Seq(Nat)
      /\ <<Header, Least(item.size, FullLine)>> \in Seq(Nat)
      /\ <<Least(item.size, limit)>> \in Seq(Nat)
  BY <1>1, <1>5, <1>6
<1> QED BY <1>4, <1>7

(* A turn is shown as lines.                                                *)
LEMMA TurnIsLines ==
  ASSUME NEW h \in Seq(Seq(Logged)), NEW t \in 0 .. 3, NEW k \in DOMAIN h
  PROVE  Lines(h, k, t) \in Seq(Nat)
<1> DEFINE N == Len(h[k])
           recent == IsRecent(h, k, t)
           D == Seq(Nat)
           round == [i \in DOMAIN h[k] |->
                       [lines \in D |-> lines \o ItemLines(h, h[k][i], recent, t)]]
<1>1. Lines(h, k, t) = Loop(<<Header>>, round, N)
  BY DEF Lines
<1>2. N \in Nat /\ DOMAIN h[k] = 1 .. N /\ \A i \in 1 .. N : h[k][i] \in Logged
  <2>1. h[k] \in Seq(Logged)
    OBVIOUS
  <2> QED BY <2>1
<1>3. recent \in BOOLEAN
  BY DEF IsRecent
<1>4. <<Header>> \in D
  BY PromptBudgetAssumptions
<1> HIDE DEF N, recent
<1>5. ASSUME NEW i \in 1 .. N
      PROVE  [lines \in D |-> lines \o ItemLines(h, h[k][i], recent, t)] \in [D -> D]
  <2> DEFINE lns == ItemLines(h, h[k][i], recent, t)
  <2>1. lns \in Seq(Nat)
    BY <1>2, <1>3, ItemIsLines
  <2> HIDE DEF lns
  <2>2. \A lines \in Seq(Nat) : lines \o lns \in Seq(Nat)
    BY <2>1
  <2>3. [lines \in D |-> lines \o lns] \in [D -> D]
    BY <2>2
  <2> QED BY <2>3 DEF lns
<1>6. round \in [1 .. N -> [D -> D]]
  BY <1>2, <1>5
<1> HIDE DEF round, D
<1>7. N \in Nat
  BY <1>2
<1>8. Loop(<<Header>>, round, N) \in D
  BY <1>4, <1>6, <1>7, LoopEndsIn
<1> QED BY <1>1, <1>8 DEF D

(* What lines take, and what they take when each is clipped.                *)
LEMMA WidthIsNat ==
  ASSUME NEW lines \in Seq(Nat), NEW b \in Nat
  PROVE  Width(lines) \in Nat /\ ClippedWidth(lines, b) \in Nat
<1>1. ASSUME NEW ls, NEW M \in Nat, ls \in [1 .. M -> Nat]
      PROVE  Width(ls) \in Nat
  <2>1. Len(ls) = M /\ Sum(ls) \in Nat
    BY <1>1, SumIsNat, LenProperties
  <2> QED BY <2>1 DEF Width
<1> DEFINE N == Len(lines)
           limit == Most(LeastLine, b \div N)
           cut == [i \in DOMAIN lines |-> Clip(lines[i], limit)]
<1>2. N \in Nat /\ DOMAIN lines = 1 .. N /\ \A i \in 1 .. N : lines[i] \in Nat
  OBVIOUS
<1>3. lines \in [1 .. N -> Nat]
  BY <1>2
<1> HIDE DEF N
<1>4. N > 0 => limit \in Int
  <2>1. LeastLine \in Nat
    BY PromptBudgetAssumptions
  <2>2. N > 0 => b \div N \in Int
    BY <1>2
  <2> QED BY <2>1, <2>2 DEF Most
<1> HIDE DEF limit
<1>5. cut \in [1 .. N -> Nat]
  <2>1. ASSUME NEW i \in 1 .. N PROVE Clip(lines[i], limit) \in Nat
    <3>1. lines[i] \in Nat /\ N > 0
      BY <1>2
    <3> QED BY <1>4, <3>1, ClipIs
  <2> QED BY <1>2, <2>1
<1>6. ClippedWidth(lines, b) = Width(cut)
  BY DEF ClippedWidth, limit, N
<1> HIDE DEF cut
<1> QED BY <1>1, <1>2, <1>3, <1>5, <1>6

(* The history keeps to its budget.                                         *)
LEMMA HistoryFits ==
  ASSUME NEW h \in Seq(Seq(Logged)), NEW t \in 0 .. 3, NEW b \in Nat
  PROVE  HistoryLength(h, t, b) \in Nat /\ (b > 0 => HistoryLength(h, t, b) <= b)
<1> DEFINE N == Len(h)
           newest(n) == Len(h) + 1 - n
           round == [n \in DOMAIN h |->
              [used \in Nat |->
                 Filled(used, Lines(h, newest(n), t), IsRecent(h, newest(n), t), b)]]
<1>1. Used(h, t, b) = Loop(Header, round, N)
  BY DEF Used
<1>2. N \in Nat /\ DOMAIN h = 1 .. N
  OBVIOUS
<1>3. Header \in Nat
  BY PromptBudgetAssumptions
<1>4. ASSUME NEW n \in 1 .. N, NEW used \in Nat
      PROVE  Filled(used, Lines(h, newest(n), t), IsRecent(h, newest(n), t), b) \in Nat
  <2> DEFINE k == newest(n)
             ls == Lines(h, k, t)
  <2>1. k \in DOMAIN h
    BY <1>2
  <2> HIDE DEF k
  <2>2. ls \in Seq(Nat)
    BY <2>1, TurnIsLines
  <2> HIDE DEF ls
  <2>3. Width(ls) \in Nat /\ ClippedWidth(ls, b) \in Nat
    BY <2>2, WidthIsNat
  <2>4. Filled(used, ls, IsRecent(h, k, t), b) \in Nat
    BY <2>3 DEF Filled
  <2> QED BY <2>4 DEF ls, k
<1> HIDE DEF N, newest
<1>5. round \in [1 .. N -> [Nat -> Nat]]
  BY <1>2, <1>4
<1> HIDE DEF round
<1>6. N \in Nat
  BY <1>2
<1>7. Loop(Header, round, N) \in Nat
  BY <1>3, <1>5, <1>6, LoopEndsIn
<1>8. Used(h, t, b) \in Nat
  BY <1>1, <1>7
<1> QED BY <1>8 DEF HistoryLength

-----------------------------------------------------------------------------
(* Every section has a length, and all but the memory and an empty list of  *)
(* notes keep to their budgets.                                             *)
LEMMA SectionFits ==
  ASSUME NEW h \in Seq(Seq(Logged)), NEW r \in Requests, NEW s \in Sections,
         NEW t \in 0 .. 3, NEW b \in Nat
  PROVE  /\ SectionLength(h, r, s, t, b) \in Nat
         /\ s = "memory" => SectionLength(h, r, s, t, b) <= Most(r.spec, b)
         /\ s = "relevant_memory" /\ b > 0 => SectionLength(h, r, s, t, b) <= Most(Header, b)
         /\ s \notin {"memory", "relevant_memory"} /\ b > 0 => SectionLength(h, r, s, t, b) <= b
         /\ s \notin {"memory", "relevant_memory", "history"} => SectionLength(h, r, s, t, b) <= b
<1>1. r.notes \in Seq(Nat) /\ r.texts[s] \in Nat
  BY DEF Requests
<1>2. CASE s = "memory"
  <2>1. SectionLength(h, r, s, t, b) = MemoryLength(r, b)
    BY <1>2 DEF SectionLength
  <2> QED BY <1>2, <2>1, MemoryFits
<1>3. CASE s = "relevant_memory"
  <2>1. SectionLength(h, r, s, t, b) = NotesLength(r.notes, b)
    BY <1>3 DEF SectionLength
  <2> QED BY <1>1, <1>3, <2>1, NotesFit
<1>4. CASE s = "history"
  <2>1. SectionLength(h, r, s, t, b) = HistoryLength(h, t, b)
    BY <1>4 DEF SectionLength
  <2> QED BY <1>4, <2>1, HistoryFits
<1>5. CASE s \notin {"memory", "relevant_memory", "history"}
  <2>1. SectionLength(h, r, s, t, b) = Clip(r.texts[s], b)
    BY <1>5 DEF SectionLength
  <2>2. b \in Int /\ b >= 0
    OBVIOUS
  <2>3. Clip(r.texts[s], b) \in Nat /\ Clip(r.texts[s], b) <= b
    BY <1>1, <2>2, ClipIs
  <2> QED BY <1>5, <2>1, <2>3
<1> QED BY <1>2, <1>3, <1>4, <1>5

(* The six sections.                                                        *)
LEMMA TotalIsNat ==
  ASSUME NEW f \in [Sections -> Nat]
  PROVE  Total(f) \in Nat
BY DEF Total, Sections

(* One total is at most another.                                            *)
LEMMA TotalGrows ==
  ASSUME NEW f \in [Sections -> Nat], NEW g \in [Sections -> Nat],
         \A s \in Sections : f[s] <= g[s]
  PROVE  Total(f) <= Total(g)
BY DEF Total, Sections

(* A total less than another.                                               *)
LEMMA TotalDescends ==
  ASSUME NEW f, NEW g, \A u \in Sections : f[u] \in Nat /\ g[u] \in Nat /\ f[u] <= g[u],
         NEW s \in Sections, f[s] < g[s]
  PROVE  Total(f) < Total(g)
<1>1. /\ f["prefix"] \in Nat /\ g["prefix"] \in Nat /\ f["prefix"] <= g["prefix"]
      /\ f["memory"] \in Nat /\ g["memory"] \in Nat /\ f["memory"] <= g["memory"]
      /\ f["skills"] \in Nat /\ g["skills"] \in Nat /\ f["skills"] <= g["skills"]
      /\ f["relevant_memory"] \in Nat /\ g["relevant_memory"] \in Nat
      /\ f["relevant_memory"] <= g["relevant_memory"]
      /\ f["repo_map"] \in Nat /\ g["repo_map"] \in Nat /\ f["repo_map"] <= g["repo_map"]
      /\ f["history"] \in Nat /\ g["history"] \in Nat /\ f["history"] <= g["history"]
  BY DEF Sections
<1>2. \/ f["prefix"] < g["prefix"] \/ f["memory"] < g["memory"] \/ f["skills"] < g["skills"]
      \/ f["relevant_memory"] < g["relevant_memory"] \/ f["repo_map"] < g["repo_map"]
      \/ f["history"] < g["history"]
  BY DEF Sections
<1> QED BY <1>1, <1>2 DEF Total

(* A prompt has a length: that of its sections, the message and what        *)
(* separates them.                                                          *)
LEMMA PromptIs ==
  ASSUME NEW h \in Seq(Seq(Logged)), NEW r \in Requests, NEW t \in 0 .. 3,
         NEW bs \in [Sections -> Nat]
  PROVE  LET length == [s \in Sections |-> SectionLength(h, r, s, t, bs[s])]
         IN  /\ length \in [Sections -> Nat]
             /\ PromptLength(h, r, t, bs) \in Nat
             /\ PromptLength(h, r, t, bs) <= Total(length) + r.message + 6 * Separator
<1> DEFINE length == [s \in Sections |-> SectionLength(h, r, s, t, bs[s])]
<1>1. length \in [Sections -> Nat]
  BY SectionFits
<1>2. PromptLength(h, r, t, bs) =
        Total(length) + r.message + Separator * (IF length["repo_map"] = 0 THEN 5 ELSE 6)
  BY DEF PromptLength
<1> HIDE DEF length
<1>3. Total(length) \in Nat
  BY <1>1, TotalIsNat
<1>4. r.message \in Nat /\ Separator \in Nat
  BY PromptBudgetAssumptions DEF Requests
<1>5. PromptLength(h, r, t, bs) = Total(length) + r.message + Separator * 5
      \/ PromptLength(h, r, t, bs) = Total(length) + r.message + Separator * 6
  BY <1>2
<1>6. /\ PromptLength(h, r, t, bs) \in Nat
      /\ PromptLength(h, r, t, bs) <= Total(length) + r.message + 6 * Separator
  BY <1>3, <1>4, <1>5
<1> QED BY <1>1, <1>6 DEF length

-----------------------------------------------------------------------------
PromptTypes ==
  /\ turns \in Seq(Seq(Logged)) /\ items \in Nat /\ asked \in Nat /\ compacted \in BOOLEAN
  /\ request \in Requests /\ budgets \in [Sections -> Nat] /\ prompt \in Nat /\ tier \in 0 .. 3
  /\ builder \in {"idle", "fitting", "built", "rebuild"}

(* The items have the numbers up to the last, and only they have stubs.     *)
Counted ==
  /\ ledger \subseteq 1 .. items
  /\ \A k \in DOMAIN turns : \A i \in DOMAIN turns[k] : turns[k][i].id \in 1 .. items

(* The budgets of a build: a section has no more than at first, or than the *)
(* notes have at least; the memory gives up nothing of the Specs; the notes *)
(* and the history keep some room.                                          *)
Ceiling(s) == IF s = "relevant_memory" THEN Most(LeastNotes, FirstBudget[s]) ELSE FirstBudget[s]
Bounded(bs, r) ==
  /\ \A s \in Sections : bs[s] <= Ceiling(s)
  /\ bs["memory"] < FirstBudget["memory"] => bs["memory"] >= r.spec
  /\ bs["relevant_memory"] > 0 /\ bs["history"] > 0

(* A prompt is what its budgets make of the request, and finished when it   *)
(* fits or no section can give way.                                         *)
Fitted ==
  /\ builder \in {"fitting", "built"} =>
       prompt = PromptLength(turns, request, tier, budgets) /\ Bounded(budgets, request)
  /\ builder = "built" => prompt <= TotalBudget \/ \A s \in Sections : ~Reducible(s)

PromptInv == PromptTypes /\ Counted /\ Fitted

(* Pressure leaves budgets within their bounds.                             *)
LEMMA PressureBounded ==
  ASSUME NEW t \in 0 .. 3, NEW r \in Requests
  PROVE  Adjusted(FirstBudget, t) \in [Sections -> Nat] /\ Bounded(Adjusted(FirstBudget, t), r)
<1> DEFINE F == FirstBudget
           B == Adjusted(F, t)
<1>1. /\ F \in [Sections -> Nat] /\ LeastNotes \in Nat /\ LeastNotes > 0
      /\ F["relevant_memory"] > 0 /\ F["history"] > 0
  <2>1. Header \in 1 .. LeastNotes /\ LeastNotes \in Nat
    BY PromptBudgetAssumptions
  <2>2. \A s \in {"relevant_memory", "history"} : FirstBudget[s] > 0
    BY PromptBudgetAssumptions
  <2> QED BY <2>1, <2>2, SharesAreNat
<1> HIDE DEF F
<1>2. \A s \in Sections : B[s] = IF s = "relevant_memory" /\ t \in {1, 2}
                                 THEN Most(LeastNotes, (F[s] * 7) \div 10)
                                 ELSE IF s = "skills" /\ t = 2 THEN F[s] \div 2 ELSE F[s]
  BY DEF Adjusted
<1>3. B = [s \in Sections |-> B[s]]
  BY DEF Adjusted
<1> HIDE DEF B
<1>4. \A n \in Nat : (n * 7) \div 10 \in Nat /\ (n * 7) \div 10 <= n
                     /\ n \div 2 \in Nat /\ n \div 2 <= n
  OBVIOUS
<1>5. ASSUME NEW s \in Sections
      PROVE  /\ B[s] \in Nat
             /\ B[s] <= IF s = "relevant_memory" THEN Most(LeastNotes, F[s]) ELSE F[s]
             /\ s \notin {"relevant_memory", "skills"} => B[s] = F[s]
             /\ s = "relevant_memory" => B[s] > 0
  <2>1. F[s] \in Nat /\ (s = "relevant_memory" => F[s] > 0)
    BY <1>1
  <2>2. (F[s] * 7) \div 10 \in Nat /\ (F[s] * 7) \div 10 <= F[s] /\ F[s] \div 2 \in Nat /\ F[s] \div 2 <= F[s]
    BY <1>4, <2>1
  <2>3. CASE s = "relevant_memory" /\ t \in {1, 2}
    BY <1>1, <1>2, <2>1, <2>2, <2>3 DEF Most
  <2>4. CASE ~(s = "relevant_memory" /\ t \in {1, 2})
    BY <1>1, <1>2, <2>1, <2>2, <2>4 DEF Most
  <2> QED BY <2>3, <2>4
<1>6. B \in [Sections -> Nat]
  BY <1>3, <1>5
<1>7. "memory" \in Sections /\ "relevant_memory" \in Sections /\ "history" \in Sections
  BY DEF Sections
<1>8. B["memory"] = F["memory"] /\ B["history"] = F["history"] /\ B["relevant_memory"] > 0
  BY <1>5, <1>7
<1>9. Bounded(B, r)
  BY <1>1, <1>5, <1>7, <1>8 DEF Bounded, Ceiling, F
<1> QED BY <1>6, <1>9 DEF B, F

(* A rendered prompt is of its request, at its pressure and its budgets.    *)
LEMMA RenderIs ==
  ASSUME turns \in Seq(Seq(Logged)), NEW r \in Requests, Render(r)
  PROVE  /\ request' = r /\ tier' \in 0 .. 3 /\ budgets' \in [Sections -> Nat]
         /\ prompt' = PromptLength(turns, r, tier', budgets') /\ prompt' \in Nat
         /\ Bounded(budgets', r)
<1>1. PICK t \in {TierOf(PromptLength(turns, r, 0, FirstBudget), TotalBudget)} :
        \E bs \in {Adjusted(FirstBudget, t)} :
          request' = r /\ tier' = t /\ budgets' = bs /\ prompt' = PromptLength(turns, r, t, bs)
  BY DEF Render
<1> DEFINE bs == Adjusted(FirstBudget, t)
<1>2. request' = r /\ tier' = t /\ budgets' = bs /\ prompt' = PromptLength(turns, r, t, bs)
  BY <1>1
<1>3. t \in 0 .. 3
  BY <1>1 DEF TierOf
<1>4. bs \in [Sections -> Nat] /\ Bounded(bs, r)
  BY <1>3, PressureBounded
<1> HIDE DEF bs
<1>5. PromptLength(turns, r, t, bs) \in Nat
  BY <1>3, <1>4, PromptIs
<1> QED BY <1>2, <1>3, <1>4, <1>5

-----------------------------------------------------------------------------
(* A round lowers the budget of one section, and not below its floor.       *)
LEMMA RoundIs ==
  ASSUME PromptInv, Reduce
  PROVE  \E s \in Sections :
           /\ Reducible(s) /\ Lowered(s) \in Nat /\ Lowered(s) < budgets[s] /\ Lowered(s) >= Floor(s)
           /\ budgets' = [budgets EXCEPT ![s] = Lowered(s)]
           /\ prompt' = PromptLength(turns, request, tier, budgets')
<1>1. PICK k \in DOMAIN ReductionOrder :
        /\ Reducible(ReductionOrder[k])
        /\ budgets' = [budgets EXCEPT ![ReductionOrder[k]] = Lowered(ReductionOrder[k])]
        /\ prompt' = PromptLength(turns, request, tier, budgets')
  BY DEF Reduce
<1> DEFINE s == ReductionOrder[k]
<1>2. s \in Sections
  BY DEF ReductionOrder, Sections
<1>3. /\ budgets[s] \in Nat /\ prompt \in Nat /\ TotalBudget \in Nat /\ prompt > TotalBudget
      /\ Floor(s) \in Nat
  <2>1. budgets \in [Sections -> Nat] /\ prompt \in Nat /\ request.spec \in Nat
    BY DEF PromptInv, PromptTypes, Requests
  <2>2. prompt > TotalBudget
    BY DEF Reduce
  <2> HIDE DEF s
  <2>3. MinBudget[s] \in Nat /\ TotalBudget \in Nat
    BY <1>2, SharesAreNat
  <2> QED BY <1>2, <2>1, <2>2, <2>3 DEF Floor, Most
<1> HIDE DEF s
<1>4. budgets[s] > Floor(s)
  BY <1>1 DEF Reducible, s
<1>5. Lowered(s) \in Nat /\ Lowered(s) < budgets[s] /\ Lowered(s) >= Floor(s)
  BY <1>3, <1>4 DEF Lowered, Most
<1> QED BY <1>1, <1>2, <1>5 DEF s

(* It leaves the budgets within their bounds, and less of them.             *)
LEMMA RoundKept ==
  ASSUME PromptInv, Reduce
  PROVE  /\ budgets' \in [Sections -> Nat] /\ Bounded(budgets', request)
         /\ prompt' \in Nat /\ prompt' = PromptLength(turns, request, tier, budgets')
         /\ Total(budgets') < Total(budgets)
<1>1. PICK s \in Sections :
        /\ Reducible(s) /\ Lowered(s) \in Nat /\ Lowered(s) < budgets[s] /\ Lowered(s) >= Floor(s)
        /\ budgets' = [budgets EXCEPT ![s] = Lowered(s)]
        /\ prompt' = PromptLength(turns, request, tier, budgets')
  BY RoundIs
<1> DEFINE n == Lowered(s)
           B == budgets'
<1>2. /\ budgets \in [Sections -> Nat] /\ turns \in Seq(Seq(Logged)) /\ request \in Requests
      /\ tier \in 0 .. 3
  BY DEF PromptInv, PromptTypes
<1>3. /\ n \in Nat /\ n < budgets[s] /\ n >= Floor(s)
      /\ B = [budgets EXCEPT ![s] = n]
  BY <1>1
<1> HIDE DEF n, B
<1>4. B \in [Sections -> Nat] /\ B[s] = n /\ \A u \in Sections : u # s => B[u] = budgets[u]
  BY <1>2, <1>3
<1>5. prompt' = PromptLength(turns, request, tier, B) /\ prompt' \in Nat
  <2>1. PromptLength(turns, request, tier, B) \in Nat
    BY <1>2, <1>4, PromptIs
  <2> QED BY <1>1, <2>1 DEF B
<1>6. "memory" \in Sections /\ "relevant_memory" \in Sections /\ "history" \in Sections
  BY DEF Sections
<1>7. Bounded(budgets, request)
  BY DEF PromptInv, Fitted, Reduce
<1>8. Bounded(B, request)
  <2>1. ASSUME NEW u \in Sections PROVE B[u] <= Ceiling(u)
    <3>1. budgets[u] <= Ceiling(u) /\ Ceiling(u) \in Nat
      <4>1. FirstBudget[u] \in Nat /\ LeastNotes \in Nat
        BY SharesAreNat, PromptBudgetAssumptions
      <4> QED BY <1>7, <4>1 DEF Bounded, Ceiling, Most
    <3>2. budgets[u] \in Nat /\ B[u] \in Nat /\ B[u] <= budgets[u]
      BY <1>2, <1>3, <1>4
    <3> QED BY <3>1, <3>2
  <2>2. B["memory"] < FirstBudget["memory"] => B["memory"] >= request.spec
    <3>1. CASE s = "memory"
      <4>1. request.spec \in Nat /\ MinBudget["memory"] \in Nat
        BY <1>2, <1>6, SharesAreNat DEF Requests
      <4>2. Floor(s) = Most(MinBudget["memory"], request.spec)
        BY <3>1 DEF Floor
      <4>3. Floor(s) >= request.spec /\ Floor(s) \in Nat
        BY <4>1, <4>2 DEF Most
      <4> QED BY <1>3, <1>4, <3>1, <4>1, <4>3
    <3>2. CASE s # "memory"
      <4>1. B["memory"] = budgets["memory"]
        BY <1>4, <1>6, <3>2
      <4> QED BY <1>7, <4>1 DEF Bounded
    <3> QED BY <3>1, <3>2
  <2>3. ASSUME NEW u \in {"relevant_memory", "history"} PROVE B[u] > 0
    <3>1. MinBudget[u] > 0 /\ MinBudget[u] \in Nat
      BY SharesAreNat, PromptBudgetAssumptions DEF Sections
    <3>2. CASE s = u
      <4>1. Floor(s) = MinBudget[u]
        BY <3>2 DEF Floor
      <4> QED BY <1>3, <1>4, <3>1, <3>2, <4>1
    <3>3. CASE s # u
      <4>1. B[u] = budgets[u]
        BY <1>4, <1>6, <3>3
      <4> QED BY <1>7, <4>1 DEF Bounded
    <3> QED BY <3>2, <3>3
  <2> QED BY <2>1, <2>2, <2>3 DEF Bounded
<1>9. Total(B) < Total(budgets)
  <2>1. \A u \in Sections : B[u] \in Nat /\ budgets[u] \in Nat /\ B[u] <= budgets[u]
    BY <1>2, <1>3, <1>4
  <2>2. B[s] < budgets[s]
    BY <1>3, <1>4
  <2> QED BY <2>1, <2>2, TotalDescends
<1> QED BY <1>1, <1>4, <1>5, <1>8, <1>9 DEF B

-----------------------------------------------------------------------------
(* It holds at the start.                                                   *)
LEMMA PromptStarts ==
  ASSUME PromptBudgetInit
  PROVE  PromptInv
<1>1. NoRequest \in Requests
  <2>1. <<>> \in Seq(Nat) /\ [s \in Sections |-> 0] \in [Sections -> Nat]
    OBVIOUS
  <2> QED BY <2>1 DEF NoRequest, Requests
<1>2. FirstBudget \in [Sections -> Nat]
  BY SharesAreNat
<1>3. turns \in Seq(Seq(Logged)) /\ DOMAIN turns = {}
  BY DEF PromptBudgetInit
<1>4. PromptTypes
  <2>1. items \in Nat /\ asked \in Nat /\ prompt \in Nat /\ tier \in 0 .. 3
    BY DEF PromptBudgetInit
  <2>3. compacted \in BOOLEAN
    BY DEF PromptBudgetInit
  <2>4. builder = "idle"
    BY DEF PromptBudgetInit
  <2>2. request \in Requests /\ budgets \in [Sections -> Nat]
    BY <1>1, <1>2 DEF PromptBudgetInit
  <2> QED BY <1>3, <2>1, <2>2, <2>3, <2>4 DEF PromptTypes
<1>5. Counted
  BY <1>3 DEF PromptBudgetInit, Counted
<1>6. Fitted
  BY DEF PromptBudgetInit, Fitted
<1> QED BY <1>4, <1>5, <1>6 DEF PromptInv

(* The numbered item is an item with its number.                            *)
LEMMA NumberedIs ==
  ASSUME NEW item \in Items, NEW n \in Nat
  PROVE  Numbered(item, n) \in Logged /\ Numbered(item, n).id = n
BY DEF Items, Numbered, Logged

(* A turn, with numbers that follow the last.                               *)
LEMMA TurnKept ==
  ASSUME PromptInv, TurnRecorded
  PROVE  PromptInv'
<1>1. PICK turn \in Turns :
        /\ turns' = Append(turns, [i \in DOMAIN turn |-> Numbered(turn[i], items + i)])
        /\ items' = items + Len(turn)
  BY DEF TurnRecorded
<1> DEFINE N == Len(turn)
           new == [i \in DOMAIN turn |-> Numbered(turn[i], items + i)]
           M == Len(turns)
<1>2. /\ turns \in Seq(Seq(Logged)) /\ items \in Nat /\ ledger \subseteq 1 .. items
      /\ \A k \in DOMAIN turns : \A i \in DOMAIN turns[k] : turns[k][i].id \in 1 .. items
      /\ M \in Nat /\ DOMAIN turns = 1 .. M
  BY DEF PromptInv, PromptTypes, Counted
<1>3. N \in Nat /\ DOMAIN turn = 1 .. N /\ \A i \in 1 .. N : turn[i] \in Items
  <2>1. turn \in Seq(Items)
    BY PromptBudgetAssumptions
  <2> QED BY <2>1
<1>4. items' = items + N /\ items' \in Nat
  BY <1>1, <1>2, <1>3
<1> HIDE DEF N
<1>5. ASSUME NEW i \in 1 .. N
      PROVE  Numbered(turn[i], items + i) \in Logged /\ Numbered(turn[i], items + i).id \in 1 .. items'
  <2>1. items + i \in Nat /\ items + i \in 1 .. items'
    BY <1>2, <1>3, <1>4
  <2> QED BY <1>3, <2>1, NumberedIs
<1>6. new \in Seq(Logged) /\ DOMAIN new = 1 .. N /\ \A i \in 1 .. N : new[i].id \in 1 .. items'
  <2>1. new = [i \in 1 .. N |-> Numbered(turn[i], items + i)]
    BY <1>3
  <2> QED BY <1>3, <1>5, <2>1
<1>7. turns' = Append(turns, new)
  BY <1>1
<1> HIDE DEF new, M
<1>8. /\ turns' \in Seq(Seq(Logged)) /\ DOMAIN turns' = 1 .. M + 1 /\ turns'[M + 1] = new
      /\ \A k \in 1 .. M : turns'[k] = turns[k]
  BY <1>2, <1>6, <1>7, AppendProperties DEF M
<1>9. PromptTypes'
  <2>1. /\ request' = request /\ budgets' = budgets /\ prompt' = prompt /\ tier' = tier
        /\ builder' = builder /\ compacted' = compacted /\ asked' = 0
    BY DEF TurnRecorded
  <2> QED BY <1>4, <1>8, <2>1 DEF PromptInv, PromptTypes
<1>10. Counted'
  <2>1. ledger' \subseteq 1 .. items'
    <3>1. ledger' = ledger
      BY DEF TurnRecorded
    <3> QED BY <1>2, <1>3, <1>4, <3>1
  <2>2. ASSUME NEW k \in DOMAIN turns', NEW i \in DOMAIN turns'[k]
        PROVE  turns'[k][i].id \in 1 .. items'
    <3>1. CASE k \in 1 .. M
      <4>1. turns[k][i].id \in 1 .. items /\ turns'[k] = turns[k]
        BY <1>2, <1>8, <3>1
      <4> QED BY <1>2, <1>3, <1>4, <4>1
    <3>2. CASE k = M + 1
      BY <1>6, <1>8, <3>2
    <3> QED BY <1>2, <1>8, <3>1, <3>2
  <2> QED BY <2>1, <2>2 DEF Counted
<1>11. Fitted'
  BY DEF TurnRecorded, Fitted
<1> QED BY <1>9, <1>10, <1>11 DEF PromptInv

(* A result, with the next number.                                          *)
LEMMA ResultKept ==
  ASSUME PromptInv, ResultAdded
  PROVE  PromptInv'
<1>1. PICK item \in {i \in PastItems : IsTool(i)} :
        turns' = [turns EXCEPT ![Len(turns)] = Append(@, Numbered(item, items + 1))]
  BY DEF ResultAdded
<1> DEFINE M == Len(turns)
           new == Numbered(item, items + 1)
<1>2. /\ turns \in Seq(Seq(Logged)) /\ items \in Nat /\ ledger \subseteq 1 .. items
      /\ \A k \in DOMAIN turns : \A i \in DOMAIN turns[k] : turns[k][i].id \in 1 .. items
      /\ M \in Nat /\ DOMAIN turns = 1 .. M
  BY DEF PromptInv, PromptTypes, Counted
<1>3. items' = items + 1 /\ items' \in Nat /\ 1 .. items \subseteq 1 .. items' /\ items' \in 1 .. items'
  <2>1. items' = items + 1
    BY DEF ResultAdded
  <2> QED BY <1>2, <2>1
<1>4. item \in Items
  <2>1. PICK turn \in Turns : item \in ToSet(turn)
    BY <1>1 DEF PastItems
  <2>2. turn \in Seq(Items)
    BY PromptBudgetAssumptions
  <2> QED BY <2>1, <2>2 DEF ToSet
<1>5. new \in Logged /\ new.id = items'
  BY <1>2, <1>3, <1>4, NumberedIs
<1> HIDE DEF new
<1>6. ASSUME NEW k \in 1 .. M
      PROVE  /\ turns'[k] \in Seq(Logged)
             /\ \A i \in DOMAIN turns'[k] : turns'[k][i].id \in 1 .. items'
  <2>1. turns[k] \in Seq(Logged) /\ \A i \in DOMAIN turns[k] : turns[k][i].id \in 1 .. items'
    BY <1>2, <1>3
  <2>2. CASE k = M
    <3>1. turns'[k] = Append(turns[k], new)
      BY <1>1, <1>2, <2>2 DEF new
    <3> QED BY <1>3, <1>5, <2>1, <3>1, AppendProperties
  <2>3. CASE k # M
    <3>1. turns'[k] = turns[k]
      BY <1>1, <1>2, <2>3
    <3> QED BY <2>1, <3>1
  <2> QED BY <2>2, <2>3
<1>7. turns' \in Seq(Seq(Logged)) /\ DOMAIN turns' = 1 .. M
  <2> DEFINE f == turns'
  <2>1. f = [k \in 1 .. M |-> f[k]]
    BY <1>1, <1>2
  <2>2. \A k \in 1 .. M : f[k] \in Seq(Logged)
    BY <1>6
  <2> HIDE DEF M, f
  <2>4. M \in Nat
    BY <1>2
  <2>5. f \in [1 .. M -> Seq(Logged)]
    BY <2>1, <2>2
  <2>3. f \in Seq(Seq(Logged)) /\ DOMAIN f = 1 .. M
    BY <2>4, <2>5
  <2> QED BY <2>3 DEF f
<1>8. PromptTypes'
  <2>1. /\ request' = request /\ budgets' = budgets /\ prompt' = prompt /\ tier' = tier
        /\ builder' = builder /\ compacted' = compacted /\ asked' = asked
    BY DEF ResultAdded
  <2> QED BY <1>3, <1>7, <2>1 DEF PromptInv, PromptTypes
<1>9. Counted'
  <2>1. ledger' = ledger
    BY DEF ResultAdded
  <2> QED BY <1>2, <1>3, <1>6, <1>7, <2>1 DEF Counted
<1>10. Fitted'
  BY DEF ResultAdded, Fitted
<1> QED BY <1>8, <1>9, <1>10 DEF PromptInv

(* A request is rendered.                                                   *)
LEMMA BuildKept ==
  ASSUME PromptInv, Build
  PROVE  PromptInv'
<1>1. turns \in Seq(Seq(Logged)) /\ request \in Requests /\ asked \in Nat
  BY DEF PromptInv, PromptTypes
<1>2. PICK r \in Requests : Render(r)
  <2>1. CASE \E r \in Inputs : Render(r)
    BY <2>1, PromptBudgetAssumptions
  <2>2. CASE Render(request)
    BY <1>1, <2>2
  <2> QED BY <2>1, <2>2 DEF Build
<1>3. /\ request' = r /\ tier' \in 0 .. 3 /\ budgets' \in [Sections -> Nat]
      /\ prompt' = PromptLength(turns, r, tier', budgets') /\ prompt' \in Nat
      /\ Bounded(budgets', r)
  BY <1>1, <1>2, RenderIs
<1>4. /\ turns' = turns /\ ledger' = ledger /\ items' = items /\ builder' = "fitting"
      /\ asked' \in Nat /\ compacted' \in BOOLEAN
  <2>1. turns' = turns /\ ledger' = ledger /\ items' = items /\ builder' = "fitting"
    BY DEF Build
  <2>2. \/ compacted' = FALSE /\ asked' = asked + 1
        \/ compacted' = compacted /\ asked' = asked
    BY DEF Build
  <2>3. compacted \in BOOLEAN
    BY DEF PromptInv, PromptTypes
  <2>4. compacted' \in BOOLEAN
    BY <2>2, <2>3
  <2>5. asked' \in Nat
    BY <1>1, <2>2
  <2> QED BY <2>1, <2>4, <2>5
<1>5. PromptTypes'
  BY <1>3, <1>4 DEF PromptInv, PromptTypes
<1>6. Counted'
  BY <1>4 DEF PromptInv, Counted
<1>8. Bounded(budgets, request)'
  BY <1>3 DEF Bounded
<1>9. Fitted'
  BY <1>3, <1>4, <1>8 DEF Fitted
<1> QED BY <1>5, <1>6, <1>9 DEF PromptInv

(* A round of the loop.                                                     *)
LEMMA ReduceKept ==
  ASSUME PromptInv, Reduce
  PROVE  PromptInv'
<1>1. /\ budgets' \in [Sections -> Nat] /\ Bounded(budgets', request)
      /\ prompt' \in Nat /\ prompt' = PromptLength(turns, request, tier, budgets')
  BY RoundKept
<1>2. /\ turns' = turns /\ ledger' = ledger /\ request' = request /\ tier' = tier
      /\ builder' = builder /\ compacted' = compacted /\ asked' = asked /\ items' = items
      /\ builder = "fitting"
  BY DEF Reduce
<1>3. PromptTypes'
  BY <1>1, <1>2 DEF PromptInv, PromptTypes
<1>4. Counted'
  BY <1>2 DEF PromptInv, Counted
<1>5. Bounded(budgets, request)'
  BY <1>1, <1>2 DEF Bounded
<1>6. Fitted'
  BY <1>1, <1>2, <1>5 DEF Fitted
<1> QED BY <1>3, <1>4, <1>6 DEF PromptInv

(* The loop is done.                                                        *)
LEMMA BuiltKept ==
  ASSUME PromptInv, Built
  PROVE  PromptInv'
<1>1. /\ turns' = turns /\ ledger' = ledger /\ request' = request /\ tier' = tier
      /\ builder' = "built" /\ compacted' = compacted /\ asked' = asked /\ items' = items
      /\ budgets' = budgets /\ prompt' = prompt /\ builder = "fitting"
  BY DEF Built
<1>2. PromptTypes'
  BY <1>1 DEF PromptInv, PromptTypes
<1>3. Counted'
  BY <1>1 DEF PromptInv, Counted
<1>4. prompt' = PromptLength(turns', request', tier', budgets') /\ Bounded(budgets, request)
  BY <1>1 DEF PromptInv, Fitted
<1>5. Bounded(budgets, request)'
  BY <1>1, <1>4 DEF Bounded
<1>6. prompt' <= TotalBudget \/ \A s \in Sections : ~Reducible(s)'
  <2>1. prompt <= TotalBudget \/ \A s \in Sections : ~Reducible(s)
    BY DEF Built
  <2> QED BY <1>1, <2>1 DEF Reducible, Floor
<1>7. Fitted'
  BY <1>1, <1>4, <1>5, <1>6 DEF Fitted
<1> QED BY <1>2, <1>3, <1>7 DEF PromptInv

(* A compaction: the summary and the last two turns.                        *)
LEMMA CompactKept ==
  ASSUME PromptInv, Compact
  PROVE  PromptInv'
<1> DEFINE N == Len(turns)
           new == [kind |-> "summary", path |-> "", ok |-> TRUE, changed |-> FALSE,
                   size |-> SummaryLength, id |-> items + 1]
           first == <<<<new>>>>
           rest == SubSeq(turns, N - 1, N)
<1>1. /\ turns \in Seq(Seq(Logged)) /\ items \in Nat /\ ledger \subseteq 1 .. items
      /\ \A k \in DOMAIN turns : \A i \in DOMAIN turns[k] : turns[k][i].id \in 1 .. items
      /\ N \in Nat /\ DOMAIN turns = 1 .. N
  BY DEF PromptInv, PromptTypes, Counted
<1>2. /\ turns' = first \o rest /\ items' = items + 1 /\ builder' = "rebuild" /\ compacted' = TRUE
      /\ ledger' = ledger /\ request' = request /\ budgets' = budgets /\ prompt' = prompt
      /\ tier' = tier /\ asked' = asked
  BY DEF Compact
<1>3. N >= 3
  <2>1. PICK k \in 1 .. N - 2 : TRUE
    BY DEF Compact, Delta
  <2> HIDE DEF N
  <2> QED BY <1>1, <2>1
<1>4. items' \in Nat /\ 1 .. items \subseteq 1 .. items' /\ items + 1 \in 1 .. items'
  <2>1. items \in Nat /\ items' = items + 1
    BY <1>1, <1>2
  <2> HIDE DEF new, first, rest, N
  <2> QED BY <2>1
<1>5. new \in Logged /\ new.id = items + 1
  <2>1. items + 1 \in Nat /\ SummaryLength \in Nat
    <3>1. SummaryLength \in Nat
      BY PromptBudgetAssumptions
    <3>2. items \in Nat
      BY <1>1
    <3> QED BY <3>1, <3>2
  <2>2. new.id = items + 1
    OBVIOUS
  <2>3. \A k \in ItemKinds : \A p \in Paths : \A o, c \in BOOLEAN : \A m, n \in Nat :
          [kind |-> k, path |-> p, ok |-> o, changed |-> c, size |-> m, id |-> n] \in Logged
    BY DEF Logged
  <2>4. "summary" \in ItemKinds /\ "" \in Paths
    BY DEF ItemKinds, Paths
  <2>5. TRUE \in BOOLEAN /\ FALSE \in BOOLEAN
    OBVIOUS
  <2>6. new \in Logged
    BY <2>1, <2>3, <2>4, <2>5, Zenon
  <2> QED BY <2>2, <2>6
<1> HIDE DEF new
<1>6. /\ first \in Seq(Seq(Logged)) /\ Len(first) = 1
      /\ first[1] \in Seq(Logged)
      /\ \A i \in DOMAIN first[1] : first[1][i].id \in 1 .. items'
  BY <1>4, <1>5
<1> HIDE DEF first
<1>7. /\ rest \in Seq(Seq(Logged)) /\ Len(rest) = 2
      /\ \A k \in 1 .. 2 : /\ rest[k] \in Seq(Logged)
                           /\ \A i \in DOMAIN rest[k] : rest[k][i].id \in 1 .. items'
  <2>1. N - 1 \in 1 .. N + 1 /\ N \in (N - 1) - 1 .. N /\ N - (N - 1) + 1 = 2
    BY <1>1, <1>3
  <2>2. /\ rest \in Seq(Seq(Logged)) /\ Len(rest) = 2
        /\ \A k \in 1 .. 2 : rest[k] = turns[(N - 1) + k - 1]
    BY <1>1, <2>1, SubSeqProperties
  <2> HIDE DEF rest, N
  <2>3. \A k \in 1 .. 2 : (N - 1) + k - 1 \in 1 .. N
    BY <1>1, <1>3
  <2>4. ASSUME NEW k \in 1 .. 2
        PROVE  /\ rest[k] \in Seq(Logged)
               /\ \A i \in DOMAIN rest[k] : rest[k][i].id \in 1 .. items'
    <3> DEFINE j == (N - 1) + k - 1
    <3>1. j \in DOMAIN turns /\ rest[k] = turns[j]
      BY <1>1, <2>2, <2>3
    <3> HIDE DEF j
    <3> QED BY <1>1, <1>4, <3>1
  <2> QED BY <2>2, <2>4
<1> HIDE DEF rest
<1>8. /\ turns' \in Seq(Seq(Logged)) /\ DOMAIN turns' = 1 .. 3
      /\ turns'[1] = first[1] /\ turns'[2] = rest[1] /\ turns'[3] = rest[2]
  <2>1. /\ first \o rest \in Seq(Seq(Logged)) /\ Len(first \o rest) = 3
        /\ (first \o rest)[1] = first[1]
        /\ (first \o rest)[2] = rest[1] /\ (first \o rest)[3] = rest[2]
    <3>1. first \in Seq(Seq(Logged)) /\ rest \in Seq(Seq(Logged)) /\ Len(first) = 1 /\ Len(rest) = 2
      BY <1>6, <1>7
    <3>2. /\ first \o rest \in Seq(Seq(Logged)) /\ Len(first \o rest) = Len(first) + Len(rest)
          /\ \A k \in 1 .. Len(first) + Len(rest) :
               (first \o rest)[k] = IF k <= Len(first) THEN first[k] ELSE rest[k - Len(first)]
      BY <3>1, ConcatProperties
    <3>3. 1 \in 1 .. 3 /\ 2 \in 1 .. 3 /\ 3 \in 1 .. 3 /\ 1 + 2 = 3 /\ 2 - 1 = 1 /\ 3 - 1 = 2
      OBVIOUS
    <3> QED BY <3>1, <3>2, <3>3
  <2> DEFINE both == first \o rest
  <2>2. turns' = both
    BY <1>2
  <2> HIDE DEF both
  <2>3. both \in Seq(Seq(Logged)) /\ Len(both) = 3 /\ both[1] = first[1] /\ both[2] = rest[1] /\ both[3] = rest[2]
    BY <2>1 DEF both
  <2>4. DOMAIN both = 1 .. 3
    BY <2>3
  <2> QED BY <2>2, <2>3, <2>4
<1>9. ASSUME NEW k \in DOMAIN turns', NEW i \in DOMAIN turns'[k]
      PROVE  turns'[k][i].id \in 1 .. items'
  <2>1. k = 1 \/ k = 2 \/ k = 3
    BY <1>8
  <2>2. CASE k = 1
    BY <1>6, <1>8, <2>2
  <2>3. CASE k # 1
    BY <1>7, <1>8, <2>1, <2>3
  <2> QED BY <2>2, <2>3
<1>10. Counted'
  BY <1>1, <1>2, <1>4, <1>9 DEF Counted
<1>11. PromptTypes'
  <2>1. compacted' \in BOOLEAN
    BY <1>2
  <2>2. /\ request' = request /\ budgets' = budgets /\ prompt' = prompt
        /\ tier' = tier /\ asked' = asked /\ builder' = "rebuild"
    BY <1>2
  <2> QED BY <1>4, <1>8, <2>1, <2>2 DEF PromptInv, PromptTypes
<1>12. Fitted'
  BY <1>2 DEF Fitted
<1> QED BY <1>10, <1>11, <1>12 DEF PromptInv

(* The prompt goes, and the stubs it showed are in the ledger.              *)
LEMMA SendKept ==
  ASSUME PromptInv, Send
  PROVE  PromptInv'
<1>1. /\ turns' = turns /\ ledger' = ledger \cup Proposed(tier) /\ builder' = "idle"
      /\ request' = NoRequest /\ compacted' = FALSE /\ budgets' = FirstBudget
      /\ prompt' = 0 /\ tier' = 0 /\ asked' = asked /\ items' = items
  BY DEF Send
<1>2. Proposed(tier) \subseteq 1 .. items
  BY DEF Proposed, Stubbed, PromptInv, Counted
<1>3. NoRequest \in Requests
  <2>1. <<>> \in Seq(Nat) /\ [s \in Sections |-> 0] \in [Sections -> Nat]
    OBVIOUS
  <2> QED BY <2>1 DEF NoRequest, Requests
<1>4. PromptTypes'
  <2>1. request' \in Requests /\ budgets' \in [Sections -> Nat]
    BY <1>1, <1>3, SharesAreNat
  <2>2. compacted' \in BOOLEAN
    BY <1>1
  <2>3. prompt' \in Nat /\ tier' \in 0 .. 3 /\ builder' = "idle"
    BY <1>1
  <2> QED BY <1>1, <2>1, <2>2, <2>3 DEF PromptInv, PromptTypes
<1>5. Counted'
  BY <1>1, <1>2 DEF PromptInv, Counted
<1>6. Fitted'
  BY <1>1 DEF Fitted
<1> QED BY <1>4, <1>5, <1>6 DEF PromptInv

-----------------------------------------------------------------------------
(* What a finished prompt leaves a section is no more than the least it     *)
(* must have.                                                               *)
LEMMA LeastIsLeast ==
  ASSUME PromptInv, builder = "built", NEW s \in Sections, ~Reducible(s)
  PROVE  /\ LeastRoom(s) \in Nat
         /\ SectionLength(turns, request, s, tier, budgets[s]) <= LeastRoom(s)
<1> DEFINE b == budgets[s]
           F == FirstBudget[s]
           M == MinBudget[s]
           n == SectionLength(turns, request, s, tier, b)
           spec == request.spec
<1>1. /\ turns \in Seq(Seq(Logged)) /\ request \in Requests /\ tier \in 0 .. 3
      /\ b \in Nat /\ spec \in Nat
  <2>1. /\ turns \in Seq(Seq(Logged)) /\ request \in Requests /\ tier \in 0 .. 3
        /\ budgets \in [Sections -> Nat]
    BY DEF PromptInv, PromptTypes
  <2> QED BY <2>1 DEF Requests
<1>2. F \in Nat /\ M \in Nat
  BY SharesAreNat
<1>3. Header \in Nat /\ LeastNotes \in Nat /\ Header <= LeastNotes
  <2>1. Header \in 1 .. LeastNotes /\ LeastNotes \in Nat
    BY PromptBudgetAssumptions
  <2> QED BY <2>1
<1>4. Bounded(budgets, request)
  BY DEF PromptInv, Fitted
<1>5. b <= IF s = "relevant_memory" THEN Most(LeastNotes, F) ELSE F
  BY <1>4 DEF Bounded, Ceiling
<1>6. b <= IF s = "memory" THEN Most(M, spec) ELSE M
  <2>1. ~(b > Floor(s))
    BY DEF Reducible
  <2>2. Floor(s) = IF s = "memory" THEN Most(M, spec) ELSE M
    BY DEF Floor
  <2>3. Floor(s) \in Nat
    BY <1>1, <1>2, <2>2 DEF Most
  <2> QED BY <1>1, <2>1, <2>2, <2>3
<1>7. s \in {"relevant_memory", "history"} => b > 0
  BY <1>4 DEF Bounded
<1>8. /\ n \in Nat
      /\ s = "memory" => n <= Most(spec, b)
      /\ s = "relevant_memory" => n <= Most(Header, b)
      /\ s \notin {"memory", "relevant_memory"} => n <= b
  <2> HIDE DEF b
  <2> QED BY <1>1, <1>7, SectionFits
<1>9. LeastRoom(s) = IF s = "memory" THEN Most(Least(F, M), spec)
                     ELSE IF s = "relevant_memory" THEN Most(LeastNotes, Least(F, M))
                     ELSE Least(F, M)
  BY DEF LeastRoom
<1> HIDE DEF b, F, M, n, spec
<1>10. CASE s = "memory"
  BY <1>1, <1>2, <1>5, <1>6, <1>8, <1>9, <1>10 DEF Most, Least, n, b
<1>11. CASE s = "relevant_memory"
  BY <1>1, <1>2, <1>3, <1>5, <1>6, <1>8, <1>9, <1>11 DEF Most, Least, n, b
<1>12. CASE s \notin {"memory", "relevant_memory"}
  BY <1>1, <1>2, <1>5, <1>6, <1>8, <1>9, <1>12 DEF Most, Least, n, b
<1> QED BY <1>10, <1>11, <1>12

(* A finished prompt keeps to its bound.                                    *)
LEMMA PromptIsBounded ==
  ASSUME PromptInv
  PROVE  PromptBounded
<1> SUFFICES ASSUME builder = "built"
             PROVE  prompt <= Most(TotalBudget,
                      Total([s \in Sections |-> LeastRoom(s)]) + request.message + 6 * Separator)
  BY DEF PromptBounded
<1> DEFINE length == [s \in Sections |-> SectionLength(turns, request, s, tier, budgets[s])]
           room == [s \in Sections |-> LeastRoom(s)]
<1>1. /\ turns \in Seq(Seq(Logged)) /\ request \in Requests /\ tier \in 0 .. 3
      /\ budgets \in [Sections -> Nat] /\ prompt \in Nat /\ TotalBudget \in Nat
  BY SharesAreNat DEF PromptInv, PromptTypes
<1>2. request.message \in Nat /\ Separator \in Nat
  BY <1>1, PromptBudgetAssumptions DEF Requests
<1>3. prompt = PromptLength(turns, request, tier, budgets)
  BY DEF PromptInv, Fitted
<1>4. length \in [Sections -> Nat] /\ prompt <= Total(length) + request.message + 6 * Separator
  BY <1>1, <1>3, PromptIs
<1>5. CASE prompt <= TotalBudget
  <2> DEFINE least == Total(room) + request.message + 6 * Separator
  <2>1. Most(TotalBudget, least) = IF TotalBudget > least THEN TotalBudget ELSE least
    BY DEF Most
  <2>2. room \in [Sections -> Int] => least \in Int
    BY <1>2 DEF Total, Sections
  <2>3. room \in [Sections -> Int]
    <3>1. \A s \in Sections : LeastRoom(s) \in Int
      <4>1. FirstBudget \in [Sections -> Nat] /\ MinBudget \in [Sections -> Nat]
            /\ LeastNotes \in Nat /\ request.spec \in Nat
        BY <1>1, SharesAreNat, PromptBudgetAssumptions DEF Requests
      <4> QED BY <4>1 DEF LeastRoom, Most, Least
    <3> QED BY <3>1
  <2> HIDE DEF least, room
  <2>4. prompt <= Most(TotalBudget, least)
    BY <1>1, <1>5, <2>1, <2>2, <2>3
  <2> QED BY <2>4 DEF least, room
<1>6. CASE ~(prompt <= TotalBudget)
  <2>1. \A s \in Sections : ~Reducible(s)
    BY <1>6 DEF PromptInv, Fitted
  <2>2. \A s \in Sections : LeastRoom(s) \in Nat /\ length[s] <= LeastRoom(s)
    BY <2>1, LeastIsLeast
  <2>3. room \in [Sections -> Nat] /\ \A s \in Sections : length[s] <= room[s]
    BY <2>2
  <2> DEFINE least == Total(room) + request.message + 6 * Separator
  <2> HIDE DEF length, room
  <2>4. Total(length) <= Total(room) /\ Total(length) \in Nat /\ Total(room) \in Nat
    BY <1>4, <2>3, TotalGrows, TotalIsNat
  <2>5. prompt <= least /\ least \in Nat
    BY <1>1, <1>2, <1>4, <2>4
  <2> HIDE DEF least
  <2>6. prompt <= Most(TotalBudget, least)
    BY <1>1, <2>5 DEF Most
  <2> QED BY <2>6 DEF least, room
<1> QED BY <1>5, <1>6

(* The Specs stand in it in full.                                           *)
LEMMA SpecIsShown ==
  ASSUME PromptInv
  PROVE  SpecShown
BY DEF PromptInv, Fitted, Bounded, SpecShown, MemoryShown

(* So does what an older turn failed at or this task has changed.           *)
LEMMA EvidenceIsFull ==
  EvidenceInFull
<1> SUFFICES ASSUME NEW k \in DOMAIN turns, NEW i \in DOMAIN turns[k],
                    IsTool(turns[k][i]),
                    ~turns[k][i].ok \/ turns[k][i].path \in ChangedPaths(turns)
             PROVE  Len(ItemLines(turns, turns[k][i], FALSE, tier)) = 2
  BY DEF EvidenceInFull
<1> DEFINE item == turns[k][i]
<1>1. item.kind # "summary" /\ IsTool(item)
  BY DEF IsTool
<1>2. Shown(turns, item) = "full"
  BY DEF Shown, Inline
<1>3. ItemLines(turns, item, FALSE, tier) = <<Header, Least(item.size, FullLine)>>
  BY <1>1, <1>2 DEF ItemLines
<1>4. \A a, b : Len(<<a, b>>) = 2
  OBVIOUS
<1> QED BY <1>3, <1>4

(* Every step keeps the invariant.                                          *)
LEMMA PromptInvKept ==
  ASSUME PromptInv, [PromptBudgetNext]_promptVars
  PROVE  PromptInv'
<1>1. CASE TurnRecorded
  BY <1>1, TurnKept
<1>2. CASE ResultAdded
  BY <1>2, ResultKept
<1>3. CASE Build
  BY <1>3, BuildKept
<1>4. CASE Reduce
  BY <1>4, ReduceKept
<1>5. CASE Built
  BY <1>5, BuiltKept
<1>6. CASE Compact
  BY <1>6, CompactKept
<1>7. CASE Send
  BY <1>7, SendKept
<1>8. CASE UNCHANGED promptVars
  <2>1. /\ turns' = turns /\ ledger' = ledger /\ request' = request /\ tier' = tier
        /\ builder' = builder /\ compacted' = compacted /\ asked' = asked /\ items' = items
        /\ budgets' = budgets /\ prompt' = prompt
    BY <1>8 DEF promptVars
  <2>2. PromptTypes'
    BY <2>1 DEF PromptInv, PromptTypes
  <2>3. Counted'
    BY <2>1 DEF PromptInv, Counted
  <2>4. Fitted'
    BY <2>1 DEF PromptInv, Fitted, Bounded, Reducible, Floor
  <2> QED BY <2>2, <2>3, <2>4 DEF PromptInv
<1> QED BY <1>1, <1>2, <1>3, <1>4, <1>5, <1>6, <1>7, <1>8 DEF PromptBudgetNext

(* The loop's rounds descend.                                               *)
LEMMA RoundDescends ==
  ASSUME PromptInv, [PromptBudgetNext]_promptVars
  PROVE  [builder = "fitting" /\ builder' = "fitting" =>
            /\ Total(budgets') < Total(budgets)
            /\ \A s \in Sections : budgets'[s] >= 0]_promptVars
<1>1. CASE Reduce
  <2>1. Total(budgets') < Total(budgets) /\ budgets' \in [Sections -> Nat]
    BY <1>1, RoundKept
  <2> QED BY <2>1
<1>2. CASE UNCHANGED promptVars
  BY <1>2
<1>3. CASE ~Reduce /\ ~UNCHANGED promptVars
  <2>1. ~(builder = "fitting" /\ builder' = "fitting")
    BY <1>3 DEF PromptBudgetNext, TurnRecorded, ResultAdded, Build, Built, Compact, Send
  <2> QED BY <2>1
<1> QED BY <1>1, <1>2, <1>3

-----------------------------------------------------------------------------
(* The types of what the context builder keeps (context_manager.py), with   *)
(* its ledger of stubs naming items there are.                              *)
THEOREM PromptTypesCorrect == PromptBudgetSpec => []PromptBudgetTypeOK
<1>1. PromptBudgetInit => PromptInv
  BY PromptStarts
<1>2. PromptInv /\ [PromptBudgetNext]_promptVars => PromptInv'
  BY PromptInvKept
<1>3. PromptInv => PromptBudgetTypeOK
  BY DEF PromptInv, PromptTypes, Counted, PromptBudgetTypeOK
<1> QED BY <1>1, <1>2, <1>3, PTL DEF PromptBudgetSpec

(* Every prompt is cut down to one that fits its budget, or exceeds it by   *)
(* no more than what may not be cut (context_manager.py's reduction loop):  *)
(* the Specs bound to the task and the evidence of the current turn stand   *)
(* in it whole, and every round of the loop leaves the sections less.       *)
THEOREM PromptsAreFitted == PromptBudgetSpec => PromptsAreReduced
<1>1. PromptBudgetInit => PromptInv
  BY PromptStarts
<1>2. PromptInv /\ [PromptBudgetNext]_promptVars => PromptInv'
  BY PromptInvKept
<1>3. PromptInv => PromptFits
  BY PromptIsBounded, SpecIsShown, EvidenceIsFull DEF PromptFits
<1>4. PromptInv /\ [PromptBudgetNext]_promptVars =>
        [builder = "fitting" /\ builder' = "fitting" =>
            /\ Total(budgets') < Total(budgets)
            /\ \A s \in Sections : budgets'[s] >= 0]_promptVars
  BY RoundDescends
<1> QED BY <1>1, <1>2, <1>3, <1>4, PTL DEF PromptBudgetSpec, PromptsAreReduced, RoundsDescend

-----------------------------------------------------------------------------
(***************************************************************************)
(* Settings, for any values: a value of .env reaches the main client only  *)
(* where nothing else sets one, a Worker has the main client unless .env   *)
(* brought a name, and the vision model keeps to its own arguments.        *)
(***************************************************************************)

(* FirstValue is the first of the values that is there. *)
LEMMA FirstIs ==
  ASSUME NEW S, NEW values \in Seq(S)
  PROVE  \/ FirstValue(values) = Unset /\ \A i \in 1..Len(values) : values[i] = Unset
         \/ \E i \in 1..Len(values) :
              /\ FirstValue(values) = values[i] /\ values[i] # Unset
              /\ \A j \in 1..(i - 1) : values[j] = Unset
<1> DEFINE I == {i \in 1..Len(values) : values[i] # Unset}
<1>1. SelectInSeq(values, LAMBDA v : v # Unset) = IF I # {} THEN Min(I) ELSE 0
  BY DEF SelectInSeq
<1>2. CASE I = {}
  BY <1>1, <1>2 DEF FirstValue
<1>3. CASE I # {}
  <2>1. Min(I) \in I /\ \A j \in I : Min(I) <= j
    <3>1. I \in SUBSET Nat
      OBVIOUS
    <3>2. \E x \in I : \A y \in I : x <= y
      <4> HIDE DEF I
      <4> QED BY <1>3, <3>1, SmallestMember
    <3> QED BY <3>2 DEF Min
  <2>2. SelectInSeq(values, LAMBDA v : v # Unset) = Min(I) /\ Min(I) # 0
    BY <1>1, <1>3, <2>1
  <2>3. FirstValue(values) = values[Min(I)]
    BY <2>2 DEF FirstValue
  <2>4. \A j \in 1..(Min(I) - 1) : values[j] = Unset
    BY <2>1
  <2> QED BY <2>1, <2>3, <2>4
<1> QED BY <1>2, <1>3

(* ... of one, two, three, four and six. *)
LEMMA FirstOfOne == ASSUME NEW a PROVE FirstValue(<<a>>) = a
<1> DEFINE S == {a}
           values == <<a>>
<1>1. values \in Seq(S) /\ Len(values) = 1 /\ values[1] = a
  OBVIOUS
<1> HIDE DEF S, values
<1>2. \/ FirstValue(values) = Unset /\ \A i \in 1..1 : values[i] = Unset
      \/ \E i \in 1..1 : FirstValue(values) = values[i]
  BY <1>1, FirstIs
<1>3. FirstValue(values) = a
  BY <1>1, <1>2
<1> QED BY <1>3 DEF values

(* The first value that is set, of two places,                              *)
LEMMA FirstOfTwo ==
  ASSUME NEW a, NEW b PROVE FirstValue(<<a, b>>) = IF a # Unset THEN a ELSE b
<1> DEFINE S == {a, b}
           values == <<a, b>>
<1>1. values \in Seq(S) /\ Len(values) = 2 /\ values[1] = a /\ values[2] = b
  OBVIOUS
<1> HIDE DEF S, values
<1>2. \/ FirstValue(values) = Unset /\ \A i \in 1..2 : values[i] = Unset
      \/ \E i \in 1..2 :
           /\ FirstValue(values) = values[i] /\ values[i] # Unset
           /\ \A j \in 1..(i - 1) : values[j] = Unset
  BY <1>1, FirstIs
<1>3. FirstValue(values) = IF a # Unset THEN a ELSE b
  BY <1>1, <1>2
<1> QED BY <1>3 DEF values

(* of three,                                                                *)
LEMMA FirstOfThree ==
  ASSUME NEW a, NEW b, NEW c
  PROVE  FirstValue(<<a, b, c>>) = IF a # Unset THEN a ELSE IF b # Unset THEN b ELSE c
<1> DEFINE S == {a, b, c}
           values == <<a, b, c>>
<1>1. values \in Seq(S) /\ Len(values) = 3 /\ values[1] = a /\ values[2] = b /\ values[3] = c
  OBVIOUS
<1> HIDE DEF S, values
<1>2. \/ FirstValue(values) = Unset /\ \A i \in 1..3 : values[i] = Unset
      \/ \E i \in 1..3 :
           /\ FirstValue(values) = values[i] /\ values[i] # Unset
           /\ \A j \in 1..(i - 1) : values[j] = Unset
  BY <1>1, FirstIs
<1>3. FirstValue(values) = IF a # Unset THEN a ELSE IF b # Unset THEN b ELSE c
  BY <1>1, <1>2
<1> QED BY <1>3 DEF values

(* of four                                                                  *)
LEMMA FirstOfFour ==
  ASSUME NEW a, NEW b, NEW c, NEW d
  PROVE  FirstValue(<<a, b, c, d>>) =
           IF a # Unset THEN a ELSE IF b # Unset THEN b ELSE IF c # Unset THEN c ELSE d
<1> DEFINE S == {a, b, c, d}
           values == <<a, b, c, d>>
<1>1. /\ values \in Seq(S) /\ Len(values) = 4
      /\ values[1] = a /\ values[2] = b /\ values[3] = c /\ values[4] = d
  OBVIOUS
<1> HIDE DEF S, values
<1>2. \/ FirstValue(values) = Unset /\ \A i \in 1..4 : values[i] = Unset
      \/ \E i \in 1..4 :
           /\ FirstValue(values) = values[i] /\ values[i] # Unset
           /\ \A j \in 1..(i - 1) : values[j] = Unset
  BY <1>1, FirstIs
<1>3. FirstValue(values) =
        IF a # Unset THEN a ELSE IF b # Unset THEN b ELSE IF c # Unset THEN c ELSE d
  BY <1>1, <1>2
<1> QED BY <1>3 DEF values

(* and of six.                                                              *)
LEMMA FirstOfSix ==
  ASSUME NEW a, NEW b, NEW c, NEW d, NEW e, NEW f
  PROVE  FirstValue(<<a, b, c, d, e, f>>) =
           IF a # Unset THEN a ELSE IF b # Unset THEN b ELSE IF c # Unset THEN c
           ELSE IF d # Unset THEN d ELSE IF e # Unset THEN e ELSE f
<1> DEFINE S == {a, b, c, d, e, f}
           values == <<a, b, c, d, e, f>>
<1>1. /\ values \in Seq(S) /\ Len(values) = 6
      /\ values[1] = a /\ values[2] = b /\ values[3] = c /\ values[4] = d
      /\ values[5] = e /\ values[6] = f
  OBVIOUS
<1> HIDE DEF S, values
<1>2. \/ FirstValue(values) = Unset /\ \A i \in 1..6 : values[i] = Unset
      \/ \E i \in 1..6 :
           /\ FirstValue(values) = values[i] /\ values[i] # Unset
           /\ \A j \in 1..(i - 1) : values[j] = Unset
  BY <1>1, FirstIs
<1>3. FirstValue(values) =
        IF a # Unset THEN a ELSE IF b # Unset THEN b ELSE IF c # Unset THEN c
        ELSE IF d # Unset THEN d ELSE IF e # Unset THEN e ELSE f
  BY <1>1, <1>2
<1> QED BY <1>3 DEF values

(* What the environment has of some names, the best first. *)
LEMMA EnvironIs ==
  ASSUME NEW names \in Seq(Names)
  PROVE  /\ Environ(names) \in {Unset, "env", "dotenv"}
         /\ brought = {} => Environ(names) # "dotenv"
         /\ Environ(names) = Unset => \A n \in ToSet(names) : EnvironAt(n) = Unset
<1> DEFINE S == {Unset, "env", "dotenv"}
           values == [i \in DOMAIN names |-> EnvironAt(names[i])]
<1>1. DOMAIN names = 1..Len(names) /\ Len(names) \in Nat
  OBVIOUS
<1>2. values \in [1..Len(names) -> S] /\ \A i \in 1..Len(names) : values[i] = EnvironAt(names[i])
  BY <1>1 DEF EnvironAt
<1>3. values \in Seq(S) /\ Len(values) = Len(names)
  <2> HIDE DEF values, S
  <2>1. values \in Seq(S)
    BY <1>1, <1>2, SeqDef
  <2> QED BY <1>1, <1>2, <2>1
<1>4. Environ(names) = FirstValue(values)
  BY DEF Environ
<1>5. \A n \in ToSet(names) : \E i \in 1..Len(names) : n = names[i]
  BY <1>1 DEF ToSet
<1>6. \/ FirstValue(values) = Unset /\ \A i \in 1..Len(names) : values[i] = Unset
      \/ \E i \in 1..Len(names) : FirstValue(values) = values[i] /\ values[i] # Unset
  <2> HIDE DEF values, S
  <2> QED BY <1>3, FirstIs
<1>7. \A i \in 1..Len(names) : values[i] \in S
  BY <1>2
<1>8. \A i \in 1..Len(names) : values[i] = EnvironAt(names[i])
  BY <1>2
<1> HIDE DEF values
<1>9. Environ(names) \in S
  BY <1>4, <1>6, <1>7
<1>10. ASSUME brought = {} PROVE Environ(names) # "dotenv"
  <2>1. \A i \in 1..Len(names) : values[i] # "dotenv"
    BY <1>8, <1>10 DEF EnvironAt, Unset
  <2> QED BY <1>4, <1>6, <2>1 DEF Unset
<1>11. ASSUME Environ(names) = Unset PROVE \A n \in ToSet(names) : EnvironAt(n) = Unset
  BY <1>4, <1>5, <1>6, <1>8, <1>11
<1> QED BY <1>9, <1>10, <1>11

(* What .env has of some names. *)
LEMMA DotenvIs ==
  ASSUME NEW names \in Seq(Names)
  PROVE  Dotenv(names) \in {Unset, "dotenv"}
<1> DEFINE S == {Unset, "dotenv"}
           values == [i \in DOMAIN names |->
                        IF names[i] \in World[world].dotenv THEN "dotenv" ELSE Unset]
<1>1. DOMAIN names = 1..Len(names) /\ Len(names) \in Nat
  OBVIOUS
<1>2. values \in [1..Len(names) -> S]
  BY <1>1
<1>3. values \in Seq(S) /\ Len(values) = Len(names) /\ \A i \in 1..Len(values) : values[i] \in S
  <2> HIDE DEF values, S
  <2>1. values \in Seq(S)
    BY <1>1, <1>2, SeqDef
  <2> QED BY <1>1, <1>2, <2>1
<1>4. Dotenv(names) = FirstValue(values)
  BY DEF Dotenv
<1> HIDE DEF values
<1> QED BY <1>3, <1>4, FirstIs

(* What the files that are read have of a name, and which they are. *)
LEMMA FilesAre ==
  ASSUME NEW name, NEW config \in BOOLEAN
  PROVE  /\ FromFiles(name, config) \in FileNames \cup {Unset}
         /\ FromFiles(name, config) = Unset =>
              \A file \in ToSet(FilesRead(config)) : name \notin World[world].files[file]
<1> DEFINE In(file) == IF name \in World[world].files[file] THEN file ELSE Unset
           read == FilesRead(config)
           values == [i \in DOMAIN read |-> In(read[i])]
<1>1. FromFiles(name, config) = FirstValue(values)
  BY DEF FromFiles
<1>2. CASE read = <<"explicit">>
  <2>1. values = <<In("explicit")>>
    BY <1>2
  <2>2. FirstValue(<<In("explicit")>>) = In("explicit")
    BY FirstOfOne
  <2>3. ToSet(read) = {"explicit"}
    BY <1>2 DEF ToSet
  <2> QED BY <1>1, <2>1, <2>2, <2>3 DEF FileNames, Unset
<1>3. CASE read = <<"project", "user">>
  <2>1. values = <<In("project"), In("user")>>
    BY <1>3
  <2>2. FirstValue(<<In("project"), In("user")>>) =
          IF In("project") # Unset THEN In("project") ELSE In("user")
    BY FirstOfTwo
  <2>3. ToSet(read) = {"project", "user"}
    BY <1>3 DEF ToSet
  <2> QED BY <1>1, <2>1, <2>2, <2>3 DEF FileNames, Unset
<1> QED BY <1>2, <1>3 DEF FilesRead

(* What a provider's section and its built-in values have. *)
LEMMA ProfileIs ==
  ASSUME NEW p, NEW field, NEW builtin \in BOOLEAN
  PROVE  /\ ProfileOf(p, field, builtin) \in FileNames \cup {Unset, "builtin"}
         /\ ProfileOf(p, field, builtin) = Unset => FromFiles(<<p, field>>, TRUE) = Unset
<1>1. ProfileOf(p, field, builtin) =
        IF FromFiles(<<p, field>>, TRUE) # Unset THEN FromFiles(<<p, field>>, TRUE)
        ELSE IF builtin THEN "builtin" ELSE Unset
  BY FirstOfTwo DEF ProfileOf
<1>2. FromFiles(<<p, field>>, TRUE) \in FileNames \cup {Unset}
  BY FilesAre
<1> QED BY <1>1, <1>2

(* The parts a value is resolved from, the best first. *)
LEMMA ValueIs ==
  ASSUME NEW p \in DOMAIN Own, NEW f \in Fields, NEW override
  PROVE  LET general == Environ(<<General[f]>>)
             own == Environ(Own[p][f])
             profile == ProfileOf(p, f, p \in Builtin /\ f \in WithDefault)
             dotenv == Dotenv(<<General[f]>>)
             older == Dotenv(Older[p][f])
         IN  /\ ValueFor(p, f, override) =
                   IF override # Unset THEN override
                   ELSE IF general # Unset THEN general ELSE IF own # Unset THEN own
                   ELSE IF profile # Unset THEN profile ELSE IF dotenv # Unset THEN dotenv ELSE older
             /\ general \in {Unset, "env", "dotenv"} /\ own \in {Unset, "env", "dotenv"}
             /\ brought = {} => general # "dotenv" /\ own # "dotenv"
             /\ general = Unset => EnvironAt(General[f]) = Unset
             /\ own = Unset => \A n \in ToSet(Own[p][f]) : EnvironAt(n) = Unset
             /\ profile \in FileNames \cup {Unset, "builtin"}
             /\ profile = Unset =>
                  \A file \in ToSet(FilesRead(TRUE)) : <<p, f>> \notin World[world].files[file]
             /\ dotenv \in {Unset, "dotenv"} /\ older \in {Unset, "dotenv"}
<1> DEFINE g == <<General[f]>>
<1>1. /\ g \in Seq(Names) /\ ToSet(g) = {General[f]}
      /\ Own[p][f] \in Seq(Names) /\ Older[p][f] \in Seq(Names)
  <2>1. /\ General[f] \in Names /\ Own[p][f] \in Seq(Names)
        /\ Older[p][f] \in Seq(Names)
    BY SettingsAssumption
  <2>2. g \in Seq(Names)
    BY <2>1
  <2>3. ToSet(g) = {General[f]}
    BY DEF ToSet
  <2> QED BY <2>1, <2>2, <2>3
<1>2. ValueFor(p, f, override) =
        IF override # Unset THEN override
        ELSE IF Environ(g) # Unset THEN Environ(g)
        ELSE IF Environ(Own[p][f]) # Unset THEN Environ(Own[p][f])
        ELSE IF ProfileOf(p, f, p \in Builtin /\ f \in WithDefault) # Unset
             THEN ProfileOf(p, f, p \in Builtin /\ f \in WithDefault)
        ELSE IF Dotenv(g) # Unset THEN Dotenv(g) ELSE Dotenv(Older[p][f])
  BY FirstOfSix DEF ValueFor
<1> HIDE DEF g
<1>3. /\ Environ(g) \in {Unset, "env", "dotenv"}
      /\ brought = {} => Environ(g) # "dotenv"
      /\ Environ(g) = Unset => EnvironAt(General[f]) = Unset
  BY <1>1, EnvironIs
<1>4. /\ Environ(Own[p][f]) \in {Unset, "env", "dotenv"}
      /\ brought = {} => Environ(Own[p][f]) # "dotenv"
      /\ Environ(Own[p][f]) = Unset => \A n \in ToSet(Own[p][f]) : EnvironAt(n) = Unset
  BY <1>1, EnvironIs
<1>5. Dotenv(g) \in {Unset, "dotenv"} /\ Dotenv(Older[p][f]) \in {Unset, "dotenv"}
  BY <1>1, DotenvIs
<1>6. ASSUME NEW b \in BOOLEAN
      PROVE  /\ ProfileOf(p, f, b) \in FileNames \cup {Unset, "builtin"}
             /\ ProfileOf(p, f, b) = Unset =>
                  \A file \in ToSet(FilesRead(TRUE)) : <<p, f>> \notin World[world].files[file]
  <2>1. /\ ProfileOf(p, f, b) \in FileNames \cup {Unset, "builtin"}
        /\ ProfileOf(p, f, b) = Unset => FromFiles(<<p, f>>, TRUE) = Unset
    BY ProfileIs
  <2>2. FromFiles(<<p, f>>, TRUE) = Unset =>
          \A file \in ToSet(FilesRead(TRUE)) : <<p, f>> \notin World[world].files[file]
    BY FilesAre
  <2> QED BY <2>1, <2>2
<1>7. (p \in Builtin /\ f \in WithDefault) \in BOOLEAN
  OBVIOUS
<1> QED BY <1>2, <1>3, <1>4, <1>5, <1>6, <1>7, Zenon DEF g

(* The provider of the text model is one the names are known of. *)
LEMMA ProviderIs == world \in Worlds => ProviderFor(ProviderAsked) \in DOMAIN Own
<1> SUFFICES ASSUME world \in Worlds PROVE ProviderFor(ProviderAsked) \in DOMAIN Own
  OBVIOUS
<1> DEFINE name == <<"GENCODE_PROVIDER">>
           filed == FromFiles(<<"top", "provider">>, TRUE)
           source == FirstValue(<<ProviderAsked, Environ(name), filed, Dotenv(name)>>)
<1>1. name \in Seq(Names)
  BY SettingsAssumption DEF Special
<1>2. Environ(name) \in {Unset, "env", "dotenv"} /\ Dotenv(name) \in {Unset, "dotenv"}
  <2> HIDE DEF name
  <2> QED BY <1>1, EnvironIs, DotenvIs
<1>3. filed \in FileNames \cup {Unset} /\ ProviderAsked \in {Unset, "arg"}
  BY FilesAre DEF ProviderAsked, Argument
<1>4. ProviderFor(ProviderAsked) = IF source = Unset THEN FirstProvider ELSE NamedBy(source)
  BY DEF ProviderFor
<1> HIDE DEF name, filed
<1>5. source = IF ProviderAsked # Unset THEN ProviderAsked
               ELSE IF Environ(name) # Unset THEN Environ(name)
               ELSE IF filed # Unset THEN filed ELSE Dotenv(name)
  BY FirstOfFour
<1> HIDE DEF source
<1>6. source \in FileNames \cup {Unset, "arg", "env", "dotenv"}
  BY <1>2, <1>3, <1>5
<1>7. /\ FirstProvider \in DOMAIN Own
      /\ \A s \in FileNames \cup {"arg", "env", "dotenv"} :
           Canonical[World[world].named[s]] \in DOMAIN Own
  BY SettingsAssumption
<1> QED BY <1>4, <1>6, <1>7 DEF NamedBy

(* While .env is not loaded, so is the vision provider, if there is one. *)
LEMMA VisionProviderIs ==
  ASSUME world \in Worlds, brought = {}, NEW p
  PROVE  VisionProvider(p) \in DOMAIN Own \cup {Unset}
<1> DEFINE name == <<"GENCODE_VISION_PROVIDER">>
           wanted == Argument(<<"vision", "provider">>)
           filed == FromFiles(<<p, "vision_provider">>, TRUE)
           source == FirstValue(<<wanted, Environ(name), filed>>)
<1>1. name \in Seq(Names)
  BY SettingsAssumption DEF Special
<1>2. Environ(name) \in {Unset, "env"}
  <2> HIDE DEF name
  <2> QED BY <1>1, EnvironIs
<1>3. filed \in FileNames \cup {Unset} /\ wanted \in {Unset, "arg"}
  BY FilesAre DEF Argument
<1>4. source = IF wanted # Unset THEN wanted ELSE IF Environ(name) # Unset THEN Environ(name) ELSE filed
  BY FirstOfThree
<1>5. VisionProvider(p) = IF source # Unset THEN Canonical[World[world].sees[source]]
                          ELSE IF p \in DOMAIN VisionBy THEN VisionBy[p] ELSE Unset
  BY DEF VisionProvider
<1> HIDE DEF name, wanted, filed, source
<1>6. source \in FileNames \cup {Unset, "arg", "env"}
  BY <1>2, <1>3, <1>4
<1>7. /\ \A q \in DOMAIN VisionBy : VisionBy[q] \in DOMAIN Own
      /\ \A s \in FileNames \cup {"arg", "env"} : Canonical[World[world].sees[s]] \in DOMAIN Own
  BY SettingsAssumption
<1> QED BY <1>5, <1>6, <1>7

(* What the environment has of names that .env did not bring. *)
LEMMA EnvironSame ==
  ASSUME NEW names \in Seq(Names), world' = world,
         \A n \in ToSet(names) : n \notin brought /\ n \notin brought'
  PROVE  Environ(names)' = Environ(names)
<1>1. \A i \in DOMAIN names : names[i] \in ToSet(names)
  BY DEF ToSet
<1>2. \A i \in DOMAIN names : EnvironAt(names[i])' = EnvironAt(names[i])
  BY <1>1 DEF EnvironAt
<1>3. [i \in DOMAIN names |-> EnvironAt(names[i])'] = [i \in DOMAIN names |-> EnvironAt(names[i])]
  BY <1>2
<1> QED BY <1>3 DEF Environ

(* What does not depend on the environment. *)
LEMMA FilesSame ==
  ASSUME world' = world
  PROVE  /\ \A name : Argument(name)' = Argument(name)
         /\ \A name, config : FromFiles(name, config)' = FromFiles(name, config)
         /\ \A names : Dotenv(names)' = Dotenv(names)
         /\ \A p, f, b : ProfileOf(p, f, b)' = ProfileOf(p, f, b)
  BY DEF Argument, FromFiles, FilesRead, Dotenv, ProfileOf

(* The provider of the text model stays as long as GENCODE_PROVIDER does.   *)
LEMMA ProviderSame ==
  ASSUME world' = world,
         Environ(<<"GENCODE_PROVIDER">>)' = Environ(<<"GENCODE_PROVIDER">>)
  PROVE  ProviderFor(ProviderAsked)' = ProviderFor(ProviderAsked)
<1> DEFINE p == ProviderFor(ProviderAsked)
           name == <<"GENCODE_PROVIDER">>
           source == FirstValue(<<ProviderAsked, Environ(name),
                                  FromFiles(<<"top", "provider">>, TRUE), Dotenv(name)>>)
<1>1. /\ FromFiles(<<"top", "provider">>, TRUE)' = FromFiles(<<"top", "provider">>, TRUE)
      /\ Dotenv(name)' = Dotenv(name) /\ ProviderAsked' = ProviderAsked
  BY FilesSame DEF ProviderAsked
<1>2. source' = source
  BY <1>1
<1>3. p = IF source = Unset THEN FirstProvider ELSE NamedBy(source)
  BY DEF ProviderFor
<1>4. p' = IF source' = Unset THEN FirstProvider ELSE Canonical[World[world'].named[source']]
  BY DEF ProviderFor, NamedBy
<1>5. p' = p
  <2> HIDE DEF source, p
  <2> QED BY <1>2, <1>3, <1>4 DEF NamedBy
<1> QED BY <1>5

(* ... which it does as long as .env does not bring it.                     *)
LEMMA ProviderNotBrought ==
  ASSUME world' = world, "GENCODE_PROVIDER" \notin brought, "GENCODE_PROVIDER" \notin brought'
  PROVE  ProviderFor(ProviderAsked)' = ProviderFor(ProviderAsked)
<1> DEFINE name == <<"GENCODE_PROVIDER">>
<1>1. name \in Seq(Names) /\ ToSet(name) = {"GENCODE_PROVIDER"}
  <2>1. "GENCODE_PROVIDER" \in Names
    BY SettingsAssumption DEF Special
  <2> QED BY <2>1 DEF ToSet
<1>2. Environ(name)' = Environ(name)
  BY <1>1, EnvironSame
<1> QED BY <1>2, ProviderSame

(* The client of the text model stays what it is resolved to as long as     *)
(* .env brings none of the names it is resolved from.                       *)
LEMMA MainSame ==
  ASSUME world \in Worlds, world' = world,
         \A n \in NamesFor(ProviderFor(ProviderAsked)) : n \notin brought /\ n \notin brought'
  PROVE  MainClient' = MainClient
<1> DEFINE p == ProviderFor(ProviderAsked)
<1>1. p \in DOMAIN Own
  BY ProviderIs
<1>2. p' = p
  BY ProviderNotBrought DEF NamesFor
<1>3. \A f \in Fields : {General[f]} \cup ToSet(Own[p][f]) \subseteq NamesFor(p)
  BY DEF NamesFor
<1>4. \A n \in NamesFor(p) : n \notin brought /\ n \notin brought'
  OBVIOUS
<1>5. ASSUME NEW f \in Fields
      PROVE  ValueFor(p, f, Overrides[f])' = ValueFor(p, f, Overrides[f])
  <2>1. /\ General[f] \in Names /\ Own[p][f] \in Seq(Names)
    BY <1>1, SettingsAssumption
  <2>2. <<General[f]>> \in Seq(Names) /\ ToSet(<<General[f]>>) = {General[f]}
    BY <2>1 DEF ToSet
  <2>3. Environ(<<General[f]>>)' = Environ(<<General[f]>>)
    <3>1. General[f] \notin brought /\ General[f] \notin brought'
      BY <1>3, <1>4
    <3> QED BY <2>2, <3>1, EnvironSame
  <2>4. Environ(Own[p][f])' = Environ(Own[p][f])
    <3> DEFINE names == Own[p][f]
    <3>1. \A n \in ToSet(names) : n \notin brought /\ n \notin brought'
      BY <1>3, <1>4
    <3>2. names' = names
      BY <1>2
    <3>3. \A ns \in Seq(Names) : (\A n \in ToSet(ns) : n \notin brought /\ n \notin brought')
                               => Environ(ns)' = Environ(ns)
      BY EnvironSame
    <3> QED BY <1>2, <2>1, <3>1, <3>3 DEF Environ
  <2>5. Overrides[f]' = Overrides[f]
    BY FilesSame DEF Overrides
  <2> QED BY <1>2, <2>3, <2>4, <2>5, FilesSame DEF ValueFor
<1>6. [f \in Fields |-> ValueFor(p, f, Overrides[f])'] = [f \in Fields |-> ValueFor(p, f, Overrides[f])]
  BY <1>5
<1> QED BY <1>2, <1>6 DEF MainClient, ClientFor

(* ... and as long as nothing changes what it is resolved from.             *)
LEMMA MainKept == ASSUME world' = world, brought' = brought PROVE MainClient' = MainClient
<1>1. \A names : Environ(names)' = Environ(names)
  BY DEF Environ, EnvironAt
<1>2. ProviderAsked' = ProviderAsked /\ Overrides' = Overrides
  BY FilesSame DEF ProviderAsked, Overrides
<1>3. ProviderFor(ProviderAsked)' = ProviderFor(ProviderAsked)
  BY <1>1, ProviderSame
<1>4. \A p, f, override : ValueFor(p, f, override)' = ValueFor(p, f, override)
  BY <1>1, FilesSame DEF ValueFor
<1> QED BY <1>2, <1>3, <1>4 DEF MainClient, ClientFor

-----------------------------------------------------------------------------
(* The clients as far as the start has come. *)
ClientsByStage ==
  /\ world \in Worlds
  /\ brought \cap World[world].env = {}
  /\ started \in {"start", "resolved", "boxed"} => brought = {}
  /\ started = "start" => DOMAIN clients = {}
  /\ started \in {"resolved", "boxed", "loaded", "ready"} => "main" \in DOMAIN clients
  /\ DOMAIN clients # {} => "main" \in DOMAIN clients
  /\ started # "ready" => DOMAIN clients \subseteq {"main"} /\ ran = Unset

(* The main client is what the text model would be resolved to now, unless  *)
(* .env brought a name that matters; a worker's always is.                  *)
MainStands ==
  /\ "main" \in DOMAIN clients =>
       \/ clients["main"] = MainClient
       \/ \E n \in NamesFor(MainClient.provider) : n \in brought
  /\ "worker" \in DOMAIN clients => clients["worker"] = MainClient

(* Only the vision provider of a known name is wanted. *)
SettingsShape ==
  settings \in [retrieval : Tags, sandbox : {"off", "best_effort", "required"},
                vision : DOMAIN Own \cup {Unset}]

MainBelow ==
  "main" \in DOMAIN clients =>
    LET p == clients["main"].provider
    IN \A f \in Fields : clients["main"].value[f] = "dotenv" =>
         /\ <<"text", f>> \notin World[world].arg
         /\ ({General[f]} \cup ToSet(Own[p][f])) \cap World[world].env = {}
         /\ \A file \in ToSet(FilesRead(TRUE)) : <<p, f>> \notin World[world].files[file]

ShellBoxed == ran = "plain" => settings.sandbox # "required"

SettingsInv ==
  ClientsByStage /\ SettingsShape /\ MainStands /\ MainBelow /\ VisionHasItsOwn /\ ShellBoxed

(* The initial states satisfy the invariant. *)
LEMMA SettingsInitInv == SettingsInit => SettingsInv
<1> SUFFICES ASSUME SettingsInit PROVE SettingsInv
  OBVIOUS
<1>1. DOMAIN clients = {}
  BY DEF SettingsInit
<1>2. SettingsShape
  BY DEF SettingsInit, SettingsShape, Tags
<1>3. ClientsByStage /\ ShellBoxed
  BY <1>1 DEF SettingsInit, ClientsByStage, ShellBoxed, Unset
<1>4. MainStands /\ MainBelow /\ VisionHasItsOwn
  BY <1>1 DEF MainStands, MainBelow, VisionHasItsOwn
<1> QED BY <1>2, <1>3, <1>4 DEF SettingsInv

(* The main client, as it is made before .env is loaded, has a value from   *)
(* .env only where nothing else has one.                                    *)
LEMMA MainFallsBack ==
  ASSUME world \in Worlds, brought = {}, NEW f \in Fields,
         MainClient.value[f] = "dotenv"
  PROVE  /\ <<"text", f>> \notin World[world].arg
         /\ ({General[f]} \cup ToSet(Own[MainClient.provider][f])) \cap World[world].env = {}
         /\ \A file \in ToSet(FilesRead(TRUE)) :
              <<MainClient.provider, f>> \notin World[world].files[file]
<1> DEFINE p == ProviderFor(ProviderAsked)
<1>1. p \in DOMAIN Own
  BY ProviderIs
<1>2. MainClient.provider = p /\ MainClient.value[f] = ValueFor(p, f, Overrides[f])
  BY DEF MainClient, ClientFor
<1>3. Overrides[f] = Argument(<<"text", f>>)
  BY DEF Overrides
<1> DEFINE general == Environ(<<General[f]>>)
           own == Environ(Own[p][f])
           profile == ProfileOf(p, f, p \in Builtin /\ f \in WithDefault)
           dotenv == Dotenv(<<General[f]>>)
           older == Dotenv(Older[p][f])
           override == Argument(<<"text", f>>)
<1>4. /\ ValueFor(p, f, override) =
                   IF override # Unset THEN override
                   ELSE IF general # Unset THEN general ELSE IF own # Unset THEN own
                   ELSE IF profile # Unset THEN profile ELSE IF dotenv # Unset THEN dotenv ELSE older
      /\ general \in {Unset, "env"} /\ own \in {Unset, "env"}
      /\ general = Unset => EnvironAt(General[f]) = Unset
      /\ own = Unset => \A n \in ToSet(Own[p][f]) : EnvironAt(n) = Unset
      /\ profile \in FileNames \cup {Unset, "builtin"}
      /\ profile = Unset =>
           \A file \in ToSet(FilesRead(TRUE)) : <<p, f>> \notin World[world].files[file]
  <2> HIDE DEF p, override
  <2> QED BY <1>1, ValueIs
<1>5. override # "dotenv"
  BY DEF Argument, Unset
<1> HIDE DEF general, own, profile, dotenv, older, override, p
<1>6. ValueFor(p, f, override) = "dotenv"
  BY <1>2, <1>3 DEF override
<1>7. override = Unset /\ general = Unset /\ own = Unset /\ profile = Unset
  BY <1>4, <1>5, <1>6 DEF FileNames, Unset
<1>8. <<"text", f>> \notin World[world].arg
  BY <1>7 DEF override, Argument, Unset
<1>9. \A n : EnvironAt(n) = Unset => n \notin World[world].env
  BY DEF EnvironAt, Unset
<1> QED BY <1>2, <1>4, <1>7, <1>8, <1>9

(* A client of the vision model has an argument's value exactly where the   *)
(* argument is one of the vision model.                                     *)
LEMMA VisionOverridden ==
  ASSUME NEW p \in DOMAIN Own, NEW f \in Fields
  PROVE  (ClientFor(p, VisionOverrides).value[f] = "arg") <=> (<<"vision", f>> \in World[world].arg)
<1> DEFINE wanted == Argument(<<"vision", f>>)
           general == Environ(<<General[f]>>)
           own == Environ(Own[p][f])
           profile == ProfileOf(p, f, p \in Builtin /\ f \in WithDefault)
           dotenv == Dotenv(<<General[f]>>)
           older == Dotenv(Older[p][f])
           override == VisionOverrides[f]
           named == Environ(ForVision[f])
           noted == Dotenv(ForVision[f])
<1>1. override = FirstValue(<<wanted, named, noted>>)
  BY DEF VisionOverrides
<1>2. ForVision[f] \in Seq(Names)
  BY SettingsAssumption
<1>3. named \in {Unset, "env", "dotenv"} /\ noted \in {Unset, "dotenv"}
  BY <1>2, EnvironIs, DotenvIs
<1>4. wanted = IF <<"vision", f>> \in World[world].arg THEN "arg" ELSE Unset
  BY DEF Argument
<1>5. ClientFor(p, VisionOverrides).value[f] = ValueFor(p, f, override)
  BY DEF ClientFor
<1> HIDE DEF wanted, named, noted, override
<1>6. override = IF wanted # Unset THEN wanted ELSE IF named # Unset THEN named ELSE noted
  BY <1>1, FirstOfThree
<1>7. /\ ValueFor(p, f, override) =
                   IF override # Unset THEN override
                   ELSE IF general # Unset THEN general ELSE IF own # Unset THEN own
                   ELSE IF profile # Unset THEN profile ELSE IF dotenv # Unset THEN dotenv ELSE older
      /\ general \in {Unset, "env", "dotenv"} /\ own \in {Unset, "env", "dotenv"}
      /\ profile \in FileNames \cup {Unset, "builtin"}
      /\ dotenv \in {Unset, "dotenv"} /\ older \in {Unset, "dotenv"}
  BY ValueIs
<1> HIDE DEF general, own, profile, dotenv, older
<1> QED BY <1>3, <1>4, <1>5, <1>6, <1>7 DEF FileNames, Unset

(* The steps that make no client and leave the environment alone. *)
LEMMA ClientsUnchanged ==
  ASSUME SettingsInv, UNCHANGED <<world, brought, clients>>
  PROVE  MainStands' /\ MainBelow' /\ VisionHasItsOwn'
<1>1. MainClient' = MainClient
  BY MainKept
<1>2. MainStands'
  BY <1>1 DEF SettingsInv, MainStands, NamesFor
<1>3. MainBelow'
  BY DEF SettingsInv, MainBelow, FilesRead
<1>4. VisionHasItsOwn'
  BY DEF SettingsInv, VisionHasItsOwn
<1> QED BY <1>2, <1>3, <1>4

(* Every step keeps the order of the start. *)
LEMMA ByStageStep ==
  ASSUME ClientsByStage, [SettingsNext]_settingsVars PROVE ClientsByStage'
<1> USE DEF ClientsByStage
<1>1. CASE UNCHANGED settingsVars
  BY <1>1 DEF settingsVars
<1>2. CASE ResolveMain
  BY <1>2 DEF ResolveMain
<1>3. CASE ResolveSandbox
  BY <1>3 DEF ResolveSandbox
<1>4. CASE LoadEnv
  BY <1>4 DEF LoadEnv, Loaded
<1>5. CASE ResolveRetrieval
  BY <1>5 DEF ResolveRetrieval
<1>6. CASE MakeWorker \/ LookAtImage \/ RunShell
  <2>1. started = "ready" /\ UNCHANGED <<world, brought, started>>
    BY <1>6 DEF MakeWorker, LookAtImage, RunShell
  <2>2. DOMAIN clients \subseteq DOMAIN clients'
    BY <1>6 DEF MakeWorker, LookAtImage, RunShell, Made
  <2> QED BY <2>1, <2>2
<1> QED BY <1>1, <1>2, <1>3, <1>4, <1>5, <1>6 DEF SettingsNext

(* What the retrieval settings are made of. *)
LEMMA RetrievalIs == world \in Worlds => RetrievalModel \in Tags
<1> DEFINE name == <<"GENCODE_EMBEDDING_MODEL">>
           filed == FromFiles(<<"top", "embedding_model">>, FALSE)
<1>1. name \in Seq(Names)
  BY SettingsAssumption DEF Special
<1>2. Environ(name) \in {Unset, "env", "dotenv"}
  <2> HIDE DEF name
  <2> QED BY <1>1, EnvironIs
<1>3. filed \in FileNames \cup {Unset}
  BY FilesAre
<1>4. RetrievalModel = FirstValue(<<Environ(name), filed, "builtin">>)
  BY DEF RetrievalModel
<1> HIDE DEF name, filed
<1>5. RetrievalModel = IF Environ(name) # Unset THEN Environ(name)
                       ELSE IF filed # Unset THEN filed ELSE "builtin"
  BY <1>4, FirstOfThree
<1> QED BY <1>2, <1>3, <1>5 DEF FileNames, Tags

(* Every step keeps the settings' shape. *)
LEMMA ShapeStep ==
  ASSUME ClientsByStage, SettingsShape, [SettingsNext]_settingsVars PROVE SettingsShape'
<1> USE DEF SettingsShape
<1>1. CASE UNCHANGED settings
  BY <1>1
<1>2. CASE ResolveMain
  <2>1. VisionProvider(ProviderFor(ProviderAsked)) \in DOMAIN Own \cup {Unset}
    BY <1>2, VisionProviderIs DEF ResolveMain, ClientsByStage
  <2> QED BY <1>2, <2>1 DEF ResolveMain
<1>3. CASE ResolveSandbox
  BY <1>3 DEF ResolveSandbox
<1>4. CASE ResolveRetrieval
  <2>1. RetrievalModel \in Tags
    BY RetrievalIs DEF ClientsByStage
  <2> QED BY <1>4, <2>1 DEF ResolveRetrieval
<1> QED BY <1>1, <1>2, <1>3, <1>4
     DEF SettingsNext, settingsVars, LoadEnv, MakeWorker, LookAtImage, RunShell

(* Every step keeps the sandbox: it is wanted for before any command runs. *)
LEMMA ShellStep ==
  ASSUME SettingsInv, [SettingsNext]_settingsVars PROVE ShellBoxed'
<1> USE DEF SettingsInv, ClientsByStage, SettingsShape, ShellBoxed
<1>1. CASE UNCHANGED <<settings, ran>>
  BY <1>1
<1>2. CASE ResolveMain
  BY <1>2 DEF ResolveMain, Unset
<1>3. CASE ResolveSandbox
  BY <1>3 DEF ResolveSandbox, Unset
<1>4. CASE ResolveRetrieval
  BY <1>4 DEF ResolveRetrieval, Unset
<1>5. CASE RunShell
  BY <1>5 DEF RunShell, HowToRun
<1> QED BY <1>1, <1>2, <1>3, <1>4, <1>5
     DEF SettingsNext, settingsVars, LoadEnv, MakeWorker, LookAtImage

(* Every step keeps what is said of the clients. *)
LEMMA ClientsStep ==
  ASSUME SettingsInv, [SettingsNext]_settingsVars
  PROVE  MainStands' /\ MainBelow' /\ VisionHasItsOwn'
<1>1. CASE UNCHANGED <<world, brought, clients>>
  BY <1>1, ClientsUnchanged
<1>2. CASE ResolveMain /\ clients' # clients
  <2>1. /\ clients' = [k \in {"main"} |-> MainClient] /\ started = "start"
        /\ UNCHANGED <<world, brought>> /\ brought = {} /\ world \in Worlds
    BY <1>2 DEF ResolveMain, SettingsInv, ClientsByStage
  <2>2. DOMAIN clients' = {"main"} /\ clients'["main"] = MainClient
    BY <2>1
  <2>3. MainClient' = MainClient
    BY <2>1, MainSame
  <2>4. MainStands' /\ VisionHasItsOwn'
    BY <2>2, <2>3 DEF MainStands, VisionHasItsOwn
  <2>5. MainBelow'
    <3>1. FilesRead(TRUE)' = FilesRead(TRUE)
      BY <2>1 DEF FilesRead
    <3> QED BY <2>1, <2>2, <3>1, MainFallsBack DEF MainBelow
  <2> QED BY <2>4, <2>5
<1>3. CASE LoadEnv
  <2>1. /\ UNCHANGED <<world, clients>> /\ brought = {} /\ world \in Worlds
        /\ "worker" \notin DOMAIN clients /\ "vision" \notin DOMAIN clients
    BY <1>3 DEF LoadEnv, SettingsInv, ClientsByStage
  <2>2. "main" \in DOMAIN clients => clients["main"] = MainClient
    BY <2>1 DEF SettingsInv, MainStands
  <2>3. MainClient.provider = ProviderFor(ProviderAsked)
    BY DEF MainClient, ClientFor
  <2>4. \/ MainClient' = MainClient
        \/ \E n \in NamesFor(MainClient'.provider) : n \in brought'
    <3>1. CASE \A n \in NamesFor(ProviderFor(ProviderAsked)) : n \notin brought'
      BY <2>1, <3>1, MainSame
    <3>2. CASE "GENCODE_PROVIDER" \in brought'
      BY <3>2 DEF NamesFor
    <3>3. CASE /\ "GENCODE_PROVIDER" \notin brought'
               /\ \E n \in NamesFor(ProviderFor(ProviderAsked)) : n \in brought'
      <4>1. ProviderFor(ProviderAsked)' = ProviderFor(ProviderAsked)
        BY <2>1, <3>3, ProviderNotBrought
      <4>2. MainClient'.provider = ProviderFor(ProviderAsked)'
        BY DEF MainClient, ClientFor
      <4> QED BY <3>3, <4>1, <4>2
    <3> QED BY <3>1, <3>2, <3>3
  <2>5. MainStands'
    BY <2>1, <2>2, <2>4 DEF MainStands, NamesFor
  <2>6. MainBelow' /\ VisionHasItsOwn'
    BY <2>1 DEF SettingsInv, MainBelow, VisionHasItsOwn, FilesRead
  <2> QED BY <2>5, <2>6
<1>4. CASE MakeWorker
  <2>1. /\ clients' = Made("worker", MainClient) /\ UNCHANGED <<world, brought>>
        /\ "worker" \notin DOMAIN clients
    BY <1>4 DEF MakeWorker, WorkerClient
  <2>2. MainClient' = MainClient
    BY <2>1, MainKept
  <2>3. /\ clients'["worker"] = MainClient
        /\ \A k \in {"main", "vision"} :
             /\ k \in DOMAIN clients' <=> k \in DOMAIN clients
             /\ k \in DOMAIN clients => clients'[k] = clients[k]
    BY <2>1 DEF Made
  <2>4. MainStands'
    BY <2>1, <2>2, <2>3 DEF SettingsInv, MainStands, NamesFor
  <2>5. MainBelow'
    BY <2>1, <2>3 DEF SettingsInv, MainBelow, FilesRead
  <2>6. VisionHasItsOwn'
    BY <2>1, <2>3 DEF SettingsInv, VisionHasItsOwn, ClientsByStage
  <2> QED BY <2>4, <2>5, <2>6
<1>5. CASE LookAtImage
  <2> DEFINE made == clients'["vision"]
  <2>1. /\ UNCHANGED <<world, brought>> /\ "vision" \notin DOMAIN clients
        /\ \E c : clients' = Made("vision", c)
        /\ \/ clients' = Made("vision", clients["main"])
           \/ /\ settings.vision # Unset
              /\ clients' = Made("vision", ClientFor(settings.vision, VisionOverrides))
    BY <1>5 DEF LookAtImage
  <2>2. MainClient' = MainClient
    BY <2>1, MainKept
  <2>3. \A k \in {"main", "worker"} :
             /\ k \in DOMAIN clients' <=> k \in DOMAIN clients
             /\ k \in DOMAIN clients => clients'[k] = clients[k]
    BY <2>1 DEF Made
  <2>4. \/ made = clients["main"]
        \/ settings.vision # Unset /\ made = ClientFor(settings.vision, VisionOverrides)
    BY <2>1 DEF Made
  <2>5. MainStands'
    BY <2>1, <2>2, <2>3 DEF SettingsInv, MainStands, NamesFor
  <2>6. MainBelow'
    BY <2>1, <2>3 DEF SettingsInv, MainBelow, FilesRead
  <2>7. VisionHasItsOwn'
    <3>1. CASE made = clients["main"]
      <4>1. "main" \in DOMAIN clients
        BY <1>5 DEF LookAtImage, SettingsInv, ClientsByStage
      <4> QED BY <2>3, <3>1, <4>1 DEF VisionHasItsOwn
    <3>2. CASE settings.vision # Unset /\ made = ClientFor(settings.vision, VisionOverrides)
      <4>1. settings.vision \in DOMAIN Own
        BY <3>2 DEF SettingsInv, SettingsShape
      <4> QED BY <2>1, <3>2, <4>1, VisionOverridden DEF VisionHasItsOwn
    <3> QED BY <2>4, <3>1, <3>2
  <2> QED BY <2>5, <2>6, <2>7
<1> QED BY <1>1, <1>2, <1>3, <1>4, <1>5
     DEF SettingsNext, settingsVars, ResolveSandbox, ResolveRetrieval, RunShell, ResolveMain

(* Every step of the program keeps the invariant. *)
LEMMA SettingsStep == SettingsInv /\ [SettingsNext]_settingsVars => SettingsInv'
<1> SUFFICES ASSUME SettingsInv, [SettingsNext]_settingsVars PROVE SettingsInv'
  OBVIOUS
<1>1. ClientsByStage'
  BY ByStageStep DEF SettingsInv
<1>2. SettingsShape'
  BY ShapeStep DEF SettingsInv
<1>3. MainStands' /\ MainBelow' /\ VisionHasItsOwn'
  BY ClientsStep
<1>4. ShellBoxed'
  BY ShellStep
<1> QED BY <1>1, <1>2, <1>3, <1>4 DEF SettingsInv

(* The invariant holds of every session that starts.                        *)
LEMMA SettingsInvariant == SettingsSpec => []SettingsInv
<1> QED BY SettingsInitInv, SettingsStep, PTL DEF SettingsSpec

(* Settings reach the clients in the order the files document, and no       *)
(* command runs outside a sandbox that is required (config/__init__.py,     *)
(* providers/runtime.py): .env stays below everything else in the main      *)
(* client, a worker's client is the main one unless .env brought a name it  *)
(* is resolved from, and a vision client of its own takes no argument that  *)
(* was meant for the text model.                                            *)
THEOREM SettingsReachTheClients == SettingsSpec => []SettingsAreSound
<1>1. SettingsInv => SettingsAreSound
  <2> SUFFICES ASSUME SettingsInv PROVE SettingsAreSound
    OBVIOUS
  <2>1. \A n \in World[world].env : EnvironAt(n) = "env"
    BY DEF SettingsInv, ClientsByStage, EnvironAt
  <2>2. FallbackStaysBelow
    BY <2>1 DEF SettingsInv, MainBelow, FallbackStaysBelow
  <2>3. WorkersAgree
    BY DEF SettingsInv, MainStands, WorkersAgree
  <2> QED BY <2>2, <2>3 DEF SettingsInv, SettingsAreSound, ShellBoxed
<1> QED BY <1>1, SettingsInvariant, PTL

(* A client's values are of the sources there are.                          *)
LEMMA ClientIs ==
  ASSUME NEW p \in DOMAIN Own, NEW override, \A f \in Fields : override[f] \in Tags
  PROVE  ClientFor(p, override).provider = p /\ ClientFor(p, override).value \in [Fields -> Tags]
<1> DEFINE value == [f \in Fields |-> ValueFor(p, f, override[f])]
<1>1. ASSUME NEW f \in Fields PROVE ValueFor(p, f, override[f]) \in Tags
  <2> DEFINE general == Environ(<<General[f]>>)
             own == Environ(Own[p][f])
             profile == ProfileOf(p, f, p \in Builtin /\ f \in WithDefault)
             dotenv == Dotenv(<<General[f]>>)
             older == Dotenv(Older[p][f])
             first == override[f]
  <2>1. /\ ValueFor(p, f, first) =
                   IF first # Unset THEN first
                   ELSE IF general # Unset THEN general ELSE IF own # Unset THEN own
                   ELSE IF profile # Unset THEN profile ELSE IF dotenv # Unset THEN dotenv ELSE older
        /\ general \in {Unset, "env", "dotenv"} /\ own \in {Unset, "env", "dotenv"}
        /\ profile \in FileNames \cup {Unset, "builtin"}
        /\ dotenv \in {Unset, "dotenv"} /\ older \in {Unset, "dotenv"}
    BY ValueIs
  <2> HIDE DEF general, own, profile, dotenv, older
  <2> QED BY <1>1, <2>1 DEF FileNames, Tags
<1>2. value \in [Fields -> Tags]
  BY <1>1
<1>3. ClientFor(p, override) = [provider |-> p, value |-> value]
  BY DEF ClientFor
<1> HIDE DEF value
<1> QED BY <1>2, <1>3

(* So are the overrides of the command line and of the vision settings.    *)
LEMMA OverridesAre ==
  \A f \in Fields : Overrides[f] \in Tags /\ VisionOverrides[f] \in Tags
<1> SUFFICES ASSUME NEW f \in Fields PROVE Overrides[f] \in Tags /\ VisionOverrides[f] \in Tags
  OBVIOUS
<1>1. Overrides[f] \in Tags
  BY DEF Overrides, Argument, Tags
<1> DEFINE wanted == Argument(<<"vision", f>>)
           named == Environ(ForVision[f])
           noted == Dotenv(ForVision[f])
<1>2. ForVision[f] \in Seq(Names)
  BY SettingsAssumption
<1>3. named \in {Unset, "env", "dotenv"} /\ noted \in {Unset, "dotenv"} /\ wanted \in {Unset, "arg"}
  BY <1>2, EnvironIs, DotenvIs DEF Argument
<1>4. VisionOverrides[f] = FirstValue(<<wanted, named, noted>>)
  BY DEF VisionOverrides
<1> HIDE DEF wanted, named, noted
<1>5. VisionOverrides[f] = IF wanted # Unset THEN wanted ELSE IF named # Unset THEN named ELSE noted
  BY <1>4, FirstOfThree
<1> QED BY <1>1, <1>3, <1>5 DEF Tags

(* The types of the settings and of the clients made of them.               *)
LEMMA SettingsTypes ==
  /\ SettingsInit => SettingsTypeOK
  /\ SettingsInv /\ SettingsTypeOK /\ [SettingsNext]_settingsVars => SettingsTypeOK'
<1> DEFINE Client(c) == c.provider \in DOMAIN Own /\ c.value \in [Fields -> Tags]
<1>1. ASSUME SettingsInit PROVE SettingsTypeOK
  <2>1. DOMAIN clients = {}
    BY <1>1 DEF SettingsInit
  <2>2. settings.retrieval \in Tags /\ settings.sandbox \in {"off", "best_effort", "required"}
    BY <1>1 DEF SettingsInit, Tags
  <2> QED BY <1>1, <2>1, <2>2 DEF SettingsInit, SettingsTypeOK
<1>2. ASSUME SettingsInv, SettingsTypeOK, [SettingsNext]_settingsVars PROVE SettingsTypeOK'
  <2>1. /\ world \in Worlds /\ brought \subseteq Names
        /\ started \in {"start", "resolved", "boxed", "loaded", "ready", "failed"}
        /\ DOMAIN clients \subseteq Kinds /\ \A k \in DOMAIN clients : Client(clients[k])
        /\ ran \in {Unset, "plain", "boxed", "refused"}
    BY <1>2 DEF SettingsTypeOK
  <2>2. settings'.retrieval \in Tags /\ settings'.sandbox \in {"off", "best_effort", "required"}
    <3>1. SettingsShape'
      BY <1>2, ShapeStep DEF SettingsInv
    <3> QED BY <3>1 DEF SettingsShape, Tags
  <2>3. Client(MainClient)
    <3>1. ProviderFor(ProviderAsked) \in DOMAIN Own
      BY <2>1, ProviderIs
    <3>2. MainClient = ClientFor(ProviderFor(ProviderAsked), Overrides)
      BY DEF MainClient
    <3> QED BY <3>1, <3>2, OverridesAre, ClientIs
  <2>4. ASSUME NEW p \in DOMAIN Own PROVE Client(ClientFor(p, VisionOverrides))
    BY OverridesAre, ClientIs
  <2> HIDE DEF Client
  <2>5. /\ world' \in Worlds /\ brought' \subseteq Names
        /\ started' \in {"start", "resolved", "boxed", "loaded", "ready", "failed"}
        /\ ran' \in {Unset, "plain", "boxed", "refused"}
    <3>1. World[world].dotenv \subseteq Names
      BY <2>1, SettingsAssumption
    <3> QED BY <1>2, <2>1, <3>1
        DEF SettingsNext, settingsVars, ResolveMain, ResolveSandbox, LoadEnv, Loaded, ResolveRetrieval,
            MakeWorker, LookAtImage, RunShell, HowToRun
  <2>6. ASSUME NEW kind \in Kinds, NEW c, Client(c), clients' = Made(kind, c)
        PROVE  DOMAIN clients' \subseteq Kinds /\ \A k \in DOMAIN clients' : Client(clients'[k])
    BY <2>1, <2>6 DEF Made
  <2>7. DOMAIN clients' \subseteq Kinds /\ \A k \in DOMAIN clients' : Client(clients'[k])
    <3>1. CASE clients' = clients
      BY <2>1, <3>1
    <3>2. CASE clients' = [k \in {"main"} |-> MainClient]
      BY <2>3, <3>2 DEF Kinds
    <3>3. CASE MakeWorker
      <4>1. clients' = Made("worker", MainClient) /\ "worker" \in Kinds
        BY <3>3 DEF MakeWorker, WorkerClient, Kinds
      <4> QED BY <2>3, <2>6, <4>1
    <3>4. CASE LookAtImage
      <4>1. "main" \in DOMAIN clients /\ "vision" \in Kinds
        BY <1>2, <3>4 DEF LookAtImage, SettingsInv, ClientsByStage, Kinds
      <4>2. Client(clients["main"])
        BY <2>1, <4>1
      <4>3. CASE clients' = Made("vision", clients["main"])
        BY <2>6, <4>1, <4>2, <4>3
      <4>4. CASE /\ settings.vision # Unset
                 /\ clients' = Made("vision", ClientFor(settings.vision, VisionOverrides))
        <5>1. settings.vision \in DOMAIN Own
          BY <1>2, <4>4 DEF SettingsInv, SettingsShape
        <5>2. Client(ClientFor(settings.vision, VisionOverrides))
          BY <2>4, <5>1
        <5> QED BY <2>6, <4>1, <4>4, <5>2
      <4> QED BY <3>4, <4>3, <4>4 DEF LookAtImage
    <3> QED BY <1>2, <3>1, <3>2, <3>3, <3>4
        DEF SettingsNext, settingsVars, ResolveMain, ResolveSandbox, LoadEnv, ResolveRetrieval, RunShell
  <2>8. Tags' = Tags /\ Kinds' = Kinds
    BY DEF Tags, Kinds
  <2> QED BY <2>2, <2>5, <2>7, <2>8 DEF SettingsTypeOK, Client
<1> QED BY <1>1, <1>2

-----------------------------------------------------------------------------
(***************************************************************************)
(* VisibleText, for any tags and blanks as the assumption has them, any    *)
(* reply and any pieces: what the user is shown of a reply is the          *)
(* beginning of what is visible of the whole, and at its end all of that.  *)
(* The invariant says it of every way the reply may go on: what has been   *)
(* shown, and what the text held back means in the phase, is what is       *)
(* visible of the reply so far and whatever follows. A round of the loop   *)
(* keeps that (RoundIsGood), because text is only released up to where no  *)
(* tag can begin; and once the reply is over each round takes a character, *)
(* so that nothing is left.                                                *)
(***************************************************************************)

-----------------------------------------------------------------------------
(* The rest of a sequence, of its rest and of a concatenation.              *)
LEMMA RestIs ==
  ASSUME NEW T, NEW s \in Seq(T), NEW n \in 0 .. Len(s)
  PROVE  /\ Rest(s, n) \in Seq(T) /\ Len(Rest(s, n)) = Len(s) - n
         /\ \A i \in 1 .. (Len(s) - n) : Rest(s, n)[i] = s[n + i]
<1> QED BY DEF Rest

(* The rest of a rest is a rest.                                            *)
LEMMA RestOfRest ==
  ASSUME NEW T, NEW s \in Seq(T), NEW n \in 0 .. Len(s), NEW m \in 0 .. (Len(s) - n)
  PROVE  Rest(Rest(s, n), m) = Rest(s, n + m)
<1> QED BY DEF Rest

(* The front of what a sequence goes on to is its own.                      *)
LEMMA FrontOfConcat ==
  ASSUME NEW T, NEW s \in Seq(T), NEW u \in Seq(T), NEW n \in 0 .. Len(s)
  PROVE  SubSeq(s \o u, 1, n) = SubSeq(s, 1, n)
<1> QED OBVIOUS

(* And its rest goes on as the sequence does.                               *)
LEMMA RestOfConcat ==
  ASSUME NEW T, NEW s \in Seq(T), NEW u \in Seq(T), NEW n \in 0 .. Len(s)
  PROVE  Rest(s \o u, n) = Rest(s, n) \o u
<1> DEFINE w == s \o u
           a == Rest(s, n)
           b == Rest(w, n)
           c == a \o u
<1>1. w \in Seq(T) /\ Len(w) = Len(s) + Len(u)
      /\ \A i \in 1 .. (Len(s) + Len(u)) : w[i] = IF i <= Len(s) THEN s[i] ELSE u[i - Len(s)]
  OBVIOUS
<1>2. a \in Seq(T) /\ Len(a) = Len(s) - n /\ \A i \in 1 .. (Len(s) - n) : a[i] = s[n + i]
  BY RestIs
<1> HIDE DEF w, a
<1>3. n \in 0 .. Len(w)
  BY <1>1
<1>4. b \in Seq(T) /\ Len(b) = Len(w) - n /\ \A i \in 1 .. (Len(w) - n) : b[i] = w[n + i]
  BY <1>1, <1>3, RestIs
<1>5. c \in Seq(T) /\ Len(c) = Len(a) + Len(u)
      /\ \A i \in 1 .. (Len(a) + Len(u)) : c[i] = IF i <= Len(a) THEN a[i] ELSE u[i - Len(a)]
  BY <1>2, ConcatProperties
<1> HIDE DEF b, c
<1>6. Len(b) = Len(c) /\ Len(b) \in Nat
  BY <1>1, <1>2, <1>4, <1>5
<1>7. ASSUME NEW i \in 1 .. Len(b) PROVE b[i] = c[i]
  <2>1. /\ i \in 1 .. (Len(w) - n) /\ n + i \in 1 .. (Len(s) + Len(u))
        /\ i \in 1 .. (Len(a) + Len(u))
    BY <1>1, <1>2, <1>4
  <2>2. b[i] = w[n + i]
    BY <1>4, <2>1
  <2>3. CASE n + i <= Len(s)
    <3>1. i \in 1 .. (Len(s) - n) /\ i <= Len(a)
      BY <1>2, <2>1, <2>3
    <3> QED BY <1>1, <1>2, <1>5, <2>1, <2>2, <2>3, <3>1
  <2>4. CASE ~ (n + i <= Len(s))
    <3>1. ~ (i <= Len(a)) /\ (n + i) - Len(s) = i - Len(a)
      BY <1>2, <2>1, <2>4
    <3> QED BY <1>1, <1>5, <2>1, <2>2, <2>4, <3>1
  <2> QED BY <2>3, <2>4
<1>8. b = c
  BY <1>4, <1>5, <1>6, <1>7, SeqEqual
<1> QED BY <1>8 DEF w, a, b, c

(* A sequence is its first elements and the rest; so is its front.          *)
LEMMA FrontAndRest ==
  ASSUME NEW T, NEW s \in Seq(T), NEW n \in 0 .. Len(s), NEW m \in 0 .. (Len(s) - n)
  PROVE  SubSeq(s, 1, n + m) = SubSeq(s, 1, n) \o SubSeq(Rest(s, n), 1, m)
<1> DEFINE a == SubSeq(s, 1, n)
           b == Rest(s, n)
           c == SubSeq(b, 1, m)
           d == a \o c
           e == SubSeq(s, 1, n + m)
<1>1. a \in Seq(T) /\ Len(a) = n /\ \A i \in 1 .. n : a[i] = s[i]
  BY PrefixIs
<1>2. b \in Seq(T) /\ Len(b) = Len(s) - n /\ \A i \in 1 .. (Len(s) - n) : b[i] = s[n + i]
  BY RestIs
<1>0. n + m \in 0 .. Len(s) /\ m \in 0 .. Len(b)
  BY <1>2
<1>3. e \in Seq(T) /\ Len(e) = n + m /\ \A i \in 1 .. (n + m) : e[i] = s[i]
  BY <1>0, PrefixIs
<1> HIDE DEF a, b, e
<1>4. c \in Seq(T) /\ Len(c) = m /\ \A i \in 1 .. m : c[i] = b[i]
  BY <1>0, <1>2, PrefixIs
<1> HIDE DEF c
<1>5. /\ d \in Seq(T) /\ Len(d) = n + m
      /\ \A i \in 1 .. (n + m) : d[i] = IF i <= n THEN a[i] ELSE c[i - n]
  BY <1>1, <1>4
<1> HIDE DEF d
<1>6. ASSUME NEW i \in 1 .. (n + m) PROVE e[i] = d[i]
  <2>1. CASE i <= n
    BY <1>1, <1>3, <1>5, <2>1
  <2>2. CASE ~ (i <= n)
    <3>1. i - n \in 1 .. m /\ i - n \in 1 .. (Len(s) - n) /\ n + (i - n) = i
      BY <2>2
    <3> QED BY <1>2, <1>3, <1>4, <1>5, <2>2, <3>1
  <2> QED BY <2>1, <2>2
<1>7. e = d
  BY <1>3, <1>5, <1>6, SeqEqual
<1> QED BY <1>7 DEF a, b, c, d, e

(* All of a sequence, and nothing of it.                                    *)
LEMMA WholeFront ==
  ASSUME NEW T, NEW s \in Seq(T)
  PROVE  SubSeq(s, 1, Len(s)) = s /\ SubSeq(s, 1, 0) = <<>> /\ Rest(s, 0) = s /\ Rest(s, Len(s)) = <<>>
<1> QED BY DEF Rest

(* What it is to begin with a tag.                                          *)
LEMMA PrefixMeans ==
  ASSUME NEW T, NEW p \in Seq(T), NEW s \in Seq(T)
  PROVE  IsPrefix(p, s) <=> Len(p) <= Len(s) /\ \A i \in 1 .. Len(p) : p[i] = s[i]
<1> QED BY DEF IsPrefix

(* Of two beginnings of a sequence the shorter one begins the longer one;   *)
(* and who begins a sequence begins what it goes on to.                     *)
LEMMA PrefixesCompare ==
  ASSUME NEW T, NEW p \in Seq(T), NEW q \in Seq(T), NEW s \in Seq(T),
         IsPrefix(p, s), IsPrefix(q, s)
  PROVE  IsPrefix(p, q) \/ IsPrefix(q, p)
<1>1. Len(p) \in Nat /\ Len(q) \in Nat /\ Len(s) \in Nat
  OBVIOUS
<1>2. /\ Len(p) <= Len(s) /\ \A i \in 1 .. Len(p) : p[i] = s[i]
      /\ Len(q) <= Len(s) /\ \A i \in 1 .. Len(q) : q[i] = s[i]
  BY PrefixMeans
<1>3. CASE Len(p) <= Len(q)
  <2>1. \A i \in 1 .. Len(p) : p[i] = q[i]
    BY <1>1, <1>2, <1>3
  <2> QED BY <1>3, <2>1, PrefixMeans
<1>4. CASE Len(q) <= Len(p)
  <2>1. \A i \in 1 .. Len(q) : q[i] = p[i]
    BY <1>1, <1>2, <1>4
  <2> QED BY <1>4, <2>1, PrefixMeans
<1> QED BY <1>1, <1>3, <1>4

(* What begins a text begins what it goes on to; and of that, what is no    *)
(* longer than the text begins it, and what is no shorter is begun by it.   *)
LEMMA BeginsConcat ==
  ASSUME NEW T, NEW s \in Seq(T), NEW u \in Seq(T)
  PROVE  /\ IsPrefix(s, s \o u)
         /\ \A p \in Seq(T) : /\ IsPrefix(p, s) => IsPrefix(p, s \o u)
                              /\ IsPrefix(p, s \o u) /\ Len(p) <= Len(s) => IsPrefix(p, s)
                              /\ IsPrefix(p, s \o u) /\ Len(s) <= Len(p) => IsPrefix(s, p)
<1> DEFINE w == s \o u
<1>1. /\ w \in Seq(T) /\ Len(w) = Len(s) + Len(u) /\ Len(s) \in Nat /\ Len(u) \in Nat
      /\ \A i \in 1 .. Len(s) : w[i] = s[i]
  BY ConcatIs
<1> HIDE DEF w
<1>2. IsPrefix(s, w)
  BY <1>1, PrefixMeans
<1>3. ASSUME NEW p \in Seq(T)
      PROVE  /\ IsPrefix(p, s) => IsPrefix(p, w)
             /\ IsPrefix(p, w) /\ Len(p) <= Len(s) => IsPrefix(p, s)
             /\ IsPrefix(p, w) /\ Len(s) <= Len(p) => IsPrefix(s, p)
  <2>1. Len(p) \in Nat
    OBVIOUS
  <2>2. IsPrefix(p, s) <=> Len(p) <= Len(s) /\ \A i \in 1 .. Len(p) : p[i] = s[i]
    BY PrefixMeans
  <2>3. IsPrefix(p, w) <=> Len(p) <= Len(w) /\ \A i \in 1 .. Len(p) : p[i] = w[i]
    BY <1>1, PrefixMeans
  <2>4. IsPrefix(s, p) <=> Len(s) <= Len(p) /\ \A i \in 1 .. Len(s) : s[i] = p[i]
    BY PrefixMeans
  <2>5. Len(p) <= Len(s) => \A i \in 1 .. Len(p) : i \in 1 .. Len(s)
    BY <1>1, <2>1
  <2>6. Len(s) <= Len(p) => \A i \in 1 .. Len(s) : i \in 1 .. Len(p)
    BY <1>1, <2>1
  <2>7. IsPrefix(p, s) => IsPrefix(p, w)
    BY <1>1, <2>1, <2>2, <2>3, <2>5
  <2>8. IsPrefix(p, w) /\ Len(p) <= Len(s) => IsPrefix(p, s)
    BY <1>1, <2>1, <2>2, <2>3, <2>5
  <2>9. IsPrefix(p, w) /\ Len(s) <= Len(p) => IsPrefix(s, p)
    BY <1>1, <2>1, <2>3, <2>4, <2>6
  <2> QED BY <2>7, <2>8, <2>9
<1> QED BY <1>2, <1>3 DEF w

-----------------------------------------------------------------------------
(* What begins a tag.                                                       *)
OpenTags == {tag \in Seq(Chars) : tag # <<>> /\ tag[1] = Open}
Marks == ControlTags \cup BlankWords

(* All tags begin with a "<", those that end in a blank too.                *)
LEMMA TagsAreOpen ==
  /\ {FinalTag, ClosingTag, ToolWord, <<Open>>} \subseteq OpenTags
  /\ OtherTags \subseteq OpenTags /\ Marks \subseteq OpenTags
<1>1. {FinalTag, ClosingTag, ToolWord} \subseteq OpenTags /\ OtherTags \subseteq OpenTags
  BY VisibleTextAssumptions DEF OpenTags
<1>2. <<Open>> \in OpenTags
  BY VisibleTextAssumptions DEF OpenTags
<1>3. ASSUME NEW tag \in BlankWords PROVE tag \in OpenTags
  <2>1. PICK b \in Blanks : tag = Append(ToolWord, b)
    BY DEF BlankWords
  <2>2. b \in Chars /\ ToolWord \in Seq(Chars) /\ ToolWord # <<>> /\ ToolWord[1] = Open
    BY VisibleTextAssumptions
  <2>3. tag \in Seq(Chars) /\ tag # <<>> /\ tag[1] = ToolWord[1]
    BY <2>1, <2>2
  <2> QED BY <2>2, <2>3 DEF OpenTags
<1> QED BY <1>1, <1>2, <1>3 DEF Marks, ControlTags

(* The least of some naturals is one of them.                               *)
LEMMA LeastIs ==
  ASSUME NEW S \in SUBSET Nat, S # {}
  PROVE  LeastOf(S) \in S /\ \A j \in S : LeastOf(S) <= j
<1>1. \E i \in S : \A j \in S : i <= j
  BY SmallestMember
<1> QED BY <1>1 DEF LeastOf

(* Where the tags of a text are: at its "<".                                *)
LEMMA PlacesIs ==
  ASSUME NEW tags \in SUBSET OpenTags, NEW s \in Seq(Chars)
  PROVE  /\ Places(s, tags) \in SUBSET (1 .. Len(s)) /\ Len(s) \in Nat
         /\ \A i \in Places(s, tags) : s[i] = Open
         /\ 1 \in Places(s, tags) <=> \E tag \in tags : Starts(s, tag)
<1>0. Len(s) \in Nat /\ DOMAIN s = 1 .. Len(s)
  OBVIOUS
<1>1. ASSUME NEW tag \in tags, NEW i \in 1 .. Len(s), Starts(Rest(s, i - 1), tag)
      PROVE  s[i] = Open
  <2>1. tag \in Seq(Chars) /\ Len(tag) \in Nat /\ 1 \in 1 .. Len(tag) /\ tag[1] = Open
    BY DEF OpenTags
  <2>2. i - 1 \in 0 .. Len(s) /\ 1 \in 1 .. (Len(s) - (i - 1)) /\ (i - 1) + 1 = i
    BY <1>0
  <2>3. Rest(s, i - 1) \in Seq(Chars) /\ Rest(s, i - 1)[1] = s[(i - 1) + 1]
    BY <2>2, RestIs
  <2>4. tag[1] = Rest(s, i - 1)[1]
    BY <1>1, <2>1, <2>3, PrefixMeans DEF Starts
  <2> QED BY <2>1, <2>2, <2>3, <2>4
<1>2. ASSUME NEW tag \in tags, Starts(s, tag) PROVE 1 \in 1 .. Len(s)
  <2>1. tag \in Seq(Chars) /\ Len(tag) \in Nat /\ 1 <= Len(tag)
    BY DEF OpenTags
  <2>2. Len(tag) <= Len(s)
    BY <1>2, <2>1, PrefixMeans DEF Starts
  <2> QED BY <1>0, <2>1, <2>2
<1>3. Rest(s, 1 - 1) = s
  BY WholeFront
<1> QED BY <1>0, <1>1, <1>2, <1>3 DEF Places

(* The tags of a rest are those of the text, nearer by what was taken.      *)
LEMMA PlacesOfRest ==
  ASSUME NEW tags \in SUBSET OpenTags, NEW s \in Seq(Chars), NEW n \in 0 .. Len(s),
         NEW i \in 1 .. (Len(s) - n)
  PROVE  n + i \in 1 .. Len(s) /\ (i \in Places(Rest(s, n), tags) <=> n + i \in Places(s, tags))
<1>1. Len(s) \in Nat /\ DOMAIN s = 1 .. Len(s) /\ n + i \in 1 .. Len(s)
  OBVIOUS
<1>2. i - 1 \in 0 .. (Len(s) - n) /\ n + (i - 1) = (n + i) - 1
  BY <1>1
<1>3. Rest(Rest(s, n), i - 1) = Rest(s, n + (i - 1))
  BY <1>2, RestOfRest
<1>4. Rest(s, n) \in Seq(Chars) /\ Len(Rest(s, n)) = Len(s) - n
  BY RestIs
<1>5. DOMAIN Rest(s, n) = 1 .. (Len(s) - n)
  BY <1>4
<1> QED BY <1>1, <1>2, <1>3, <1>5 DEF Places

(* What is before the first tag.                                            *)
LEMMA BeforeIs ==
  ASSUME NEW tags \in SUBSET OpenTags, NEW s \in Seq(Chars)
  PROVE  /\ Before(s, tags) \in Seq(Chars) /\ Len(Before(s, tags)) \in 0 .. Len(s)
         /\ 1 \in Places(s, tags) => Before(s, tags) = <<>>
<1> DEFINE P == Places(s, tags)
           m == LeastOf(P)
<1>1. P \in SUBSET (1 .. Len(s)) /\ Len(s) \in Nat
  BY PlacesIs
<1>2. CASE P = {}
  BY <1>1, <1>2 DEF Before
<1>3. CASE P # {}
  <2>1. m \in P /\ \A j \in P : m <= j
    BY <1>1, <1>3, LeastIs
  <2>2. Before(s, tags) = SubSeq(s, 1, m - 1)
    BY <1>3 DEF Before
  <2> HIDE DEF P, m
  <2>3. m - 1 \in 0 .. Len(s) /\ (1 \in P => m - 1 = 0)
    BY <1>1, <2>1
  <2>4. SubSeq(s, 1, m - 1) \in Seq(Chars) /\ Len(SubSeq(s, 1, m - 1)) = m - 1
    BY <2>3, PrefixIs
  <2>5. 1 \in P => SubSeq(s, 1, m - 1) = <<>>
    BY <2>3, WholeFront
  <2> QED BY <2>2, <2>3, <2>4, <2>5 DEF P
<1> QED BY <1>2, <1>3

(* What is before the first tag can be cut where no tag has begun yet.      *)
LEMMA BeforeSkips ==
  ASSUME NEW tags \in SUBSET OpenTags, NEW s \in Seq(Chars), NEW n \in 0 .. Len(s),
         \A i \in 1 .. n : i \notin Places(s, tags)
  PROVE  Before(s, tags) = SubSeq(s, 1, n) \o Before(Rest(s, n), tags)
<1> DEFINE P == Places(s, tags)
           r == Rest(s, n)
           Q == Places(r, tags)
           m == LeastOf(P)
           k == LeastOf(Q)
<1>1. P \in SUBSET (1 .. Len(s)) /\ Len(s) \in Nat
  BY PlacesIs
<1>2. r \in Seq(Chars) /\ Len(r) = Len(s) - n
  BY RestIs
<1>3. Q \in SUBSET (1 .. (Len(s) - n))
  <2> HIDE DEF r
  <2> QED BY <1>2, PlacesIs
<1>4. ASSUME NEW i \in 1 .. (Len(s) - n) PROVE i \in Q <=> n + i \in P
  BY PlacesOfRest
<1>5. ASSUME NEW j \in P PROVE j - n \in Q /\ n + (j - n) = j
  <2>1. j \in 1 .. Len(s) /\ ~ (j <= n)
    <3> HIDE DEF P
    <3> QED BY <1>1 DEF P
  <2> HIDE DEF P, Q
  <2>2. j - n \in 1 .. (Len(s) - n) /\ n + (j - n) = j
    BY <1>1, <2>1
  <2> QED BY <1>4, <2>2
<1>6. CASE P = {}
  <2>1. Q = {}
    <3> HIDE DEF P, Q
    <3> QED BY <1>3, <1>4, <1>6
  <2>2. Before(s, tags) = s /\ Before(r, tags) = r
    BY <1>6, <2>1 DEF Before
  <2>3. n \in 0 .. Len(s) /\ Len(s) - n \in 0 .. (Len(s) - n) /\ n + (Len(s) - n) = Len(s)
    BY <1>1
  <2>4. SubSeq(s, 1, n + (Len(s) - n)) = SubSeq(s, 1, n) \o SubSeq(r, 1, Len(s) - n)
    BY <2>3, FrontAndRest
  <2>5. SubSeq(r, 1, Len(s) - n) = r
    <3> HIDE DEF r
    <3> QED BY <1>2, WholeFront
  <2> QED BY <2>2, <2>3, <2>4, <2>5, WholeFront
<1>7. CASE P # {}
  <2>1. m \in P /\ \A j \in P : m <= j
    BY <1>1, <1>7, LeastIs
  <2>2. m - n \in Q /\ n + (m - n) = m
    BY <1>5, <2>1
  <2>3. k \in Q /\ \A j \in Q : k <= j
    <3> HIDE DEF Q
    <3>1. Q \in SUBSET Nat /\ Q # {}
      BY <1>1, <1>3, <2>2
    <3> QED BY <3>1, LeastIs
  <2> HIDE DEF P, Q, m, k
  <2>4. m \in 1 .. Len(s) /\ k \in 1 .. (Len(s) - n) /\ n + k \in P
    BY <1>1, <1>3, <1>4, <2>1, <2>3
  <2>5. m <= n + k /\ k <= m - n
    BY <2>1, <2>2, <2>3, <2>4
  <2>6. m - 1 = n + (k - 1) /\ k - 1 \in 0 .. (Len(s) - n)
    BY <1>1, <2>4, <2>5
  <2>7. Before(s, tags) = SubSeq(s, 1, m - 1)
    BY <1>7 DEF Before, P, m
  <2>8. Before(r, tags) = SubSeq(r, 1, k - 1)
    BY <2>2 DEF Before, Q, k
  <2>9. SubSeq(s, 1, n + (k - 1)) = SubSeq(s, 1, n) \o SubSeq(r, 1, k - 1)
    BY <2>6, FrontAndRest
  <2> QED BY <2>6, <2>7, <2>8, <2>9
<1> QED BY <1>6, <1>7

(* What is visible of what begins at the first tag, and of a whole reply.   *)
Beyond(s) == IF Starts(s, FinalTag) THEN Inner(Rest(s, Len(FinalTag))) ELSE <<>>

(* What is inside of <final> is text.                                       *)
LEMMA InnerIs ==
  ASSUME NEW s \in Seq(Chars)
  PROVE  Inner(s) \in Seq(Chars)
<1> QED BY TagsAreOpen, BeforeIs DEF Inner

(* What follows a tag that a text begins with.                              *)
LEMMA RestOfFinal ==
  ASSUME NEW s \in Seq(Chars), NEW tag \in OpenTags, Starts(s, tag)
  PROVE  Len(tag) \in 1 .. Len(s) /\ Rest(s, Len(tag)) \in Seq(Chars)
<1>1. tag \in Seq(Chars) /\ Len(tag) \in Nat /\ 1 <= Len(tag) /\ Len(s) \in Nat
  BY DEF OpenTags
<1>2. Len(tag) <= Len(s)
  BY <1>1, PrefixMeans DEF Starts
<1>3. Len(tag) \in 1 .. Len(s) /\ Len(tag) \in 0 .. Len(s)
  BY <1>1, <1>2
<1> QED BY <1>3, RestIs

(* What is visible from the first tag on is text.                           *)
LEMMA BeyondIs ==
  ASSUME NEW s \in Seq(Chars)
  PROVE  Beyond(s) \in Seq(Chars)
<1>1. CASE Starts(s, FinalTag)
  BY <1>1, TagsAreOpen, RestOfFinal, InnerIs DEF Beyond
<1>2. CASE ~ Starts(s, FinalTag)
  BY <1>2 DEF Beyond
<1> QED BY <1>1, <1>2

(* What is visible is what is before the first tag, and what is from there  *)
(* on.                                                                      *)
LEMMA VisibleIs ==
  ASSUME NEW s \in Seq(Chars)
  PROVE  /\ Visible(s) = Before(s, Marks) \o Beyond(Rest(s, Len(Before(s, Marks))))
         /\ Before(s, Marks) \in Seq(Chars) /\ Len(Before(s, Marks)) \in 0 .. Len(s)
         /\ Beyond(Rest(s, Len(Before(s, Marks)))) \in Seq(Chars)
         /\ Visible(s) \in Seq(Chars)
<1> DEFINE b == Before(s, Marks)
           c == Beyond(Rest(s, Len(b)))
<1>1. b \in Seq(Chars) /\ Len(b) \in 0 .. Len(s)
  BY TagsAreOpen, BeforeIs
<1>2. Visible(s) = b \o c
  BY DEF Visible, Beyond, Marks
<1>3. Rest(s, Len(b)) \in Seq(Chars)
  <2> HIDE DEF b
  <2> QED BY <1>1, RestIs
<1>4. c \in Seq(Chars)
  BY <1>3, BeyondIs
<1>5. b \o c \in Seq(Chars)
  <2> HIDE DEF b, c
  <2> QED BY <1>1, <1>4
<1> QED BY <1>1, <1>2, <1>4, <1>5

(* What has no tag at its beginning is visible up to there.                 *)
LEMMA VisibleSkips ==
  ASSUME NEW s \in Seq(Chars), NEW n \in 0 .. Len(s), \A i \in 1 .. n : i \notin Places(s, Marks)
  PROVE  Visible(s) = SubSeq(s, 1, n) \o Visible(Rest(s, n))
<1> DEFINE r == Rest(s, n)
           f == SubSeq(s, 1, n)
           b == Before(s, Marks)
           c == Before(r, Marks)
           x == Beyond(Rest(r, Len(c)))
<1>1. r \in Seq(Chars) /\ Len(r) = Len(s) - n /\ Len(s) \in Nat
  BY RestIs
<1>2. f \in Seq(Chars) /\ Len(f) = n
  BY PrefixIs
<1>3. b = f \o c
  BY TagsAreOpen, BeforeSkips
<1>4. /\ c \in Seq(Chars) /\ Len(c) \in 0 .. Len(r) /\ x \in Seq(Chars)
      /\ Visible(r) = c \o x
  <2> HIDE DEF r
  <2> QED BY <1>1, VisibleIs
<1>5. Visible(s) = b \o Beyond(Rest(s, Len(b)))
  BY VisibleIs
<1>6. Len(b) = n + Len(c) /\ Len(c) \in 0 .. (Len(s) - n)
  <2> HIDE DEF b, c, f, x, r
  <2>1. Len(b) = Len(f) + Len(c)
    BY <1>2, <1>3, <1>4, ConcatProperties
  <2> QED BY <1>1, <1>2, <1>4, <2>1
<1>7. Rest(s, Len(b)) = Rest(r, Len(c))
  <2> HIDE DEF b, c
  <2> QED BY <1>6, RestOfRest
<1>8. (f \o c) \o x = f \o (c \o x)
  <2>1. f \in Seq(Chars) /\ c \in Seq(Chars) /\ x \in Seq(Chars)
    BY <1>2, <1>4
  <2> HIDE DEF c, f, x
  <2> QED BY <2>1, ConcatAssociative
<1> QED BY <1>3, <1>4, <1>5, <1>7, <1>8

(* The same inside of <final>, up to its closing tag.                       *)
LEMMA InnerSkips ==
  ASSUME NEW s \in Seq(Chars), NEW n \in 0 .. Len(s),
         \A i \in 1 .. n : i \notin Places(s, {ClosingTag})
  PROVE  Inner(s) = SubSeq(s, 1, n) \o Inner(Rest(s, n))
<1> QED BY TagsAreOpen, BeforeSkips DEF Inner

(* A reply that begins with a tag.                                          *)
LEMMA VisibleOfTag ==
  ASSUME NEW s \in Seq(Chars), NEW tag \in Marks, Starts(s, tag)
  PROVE  Visible(s) = Beyond(s)
<1>1. 1 \in Places(s, Marks)
  BY TagsAreOpen, PlacesIs
<1>2. Before(s, Marks) = <<>>
  BY <1>1, TagsAreOpen, BeforeIs
<1>3. Rest(s, Len(<<>>)) = s
  BY WholeFront
<1>4. Beyond(s) \in Seq(Chars)
  BY BeyondIs
<1>5. <<>> \o Beyond(s) = Beyond(s)
  <2> HIDE DEF Beyond
  <2> QED BY <1>4
<1> QED BY <1>2, <1>3, <1>5, VisibleIs

(* Of an empty reply nothing is visible.                                    *)
LEMMA VisibleOfNothing == Visible(<<>>) = <<>> /\ Inner(<<>>) = <<>>
<1>0. <<>> \in Seq(Chars) /\ Len(<<>>) = 0
  OBVIOUS
<1>1. Places(<<>>, Marks) = {} /\ Places(<<>>, {ClosingTag}) = {}
  BY DEF Places
<1>2. Before(<<>>, Marks) = <<>> /\ Inner(<<>>) = <<>>
  BY <1>1 DEF Before, Inner
<1>3. ~ Starts(<<>>, FinalTag)
  <2>1. SUFFICES ASSUME Starts(<<>>, FinalTag) PROVE FALSE
    OBVIOUS
  <2>2. FinalTag \in OpenTags
    BY TagsAreOpen
  <2>3. Len(FinalTag) \in 1 .. Len(<<>>)
    BY <1>0, <2>1, <2>2, RestOfFinal
  <2> QED BY <1>0, <2>3
<1>4. Rest(<<>>, Len(<<>>)) = <<>>
  BY <1>0, WholeFront
<1>5. Beyond(<<>>) = <<>>
  BY <1>3 DEF Beyond
<1>6. <<>> \in Seq(Chars) /\ <<>> \o <<>> = <<>>
  OBVIOUS
<1> QED BY <1>2, <1>4, <1>5, <1>6, VisibleIs

-----------------------------------------------------------------------------
(* What a round keeps: what has been shown together with what the text held *)
(* back means in the phase, however the reply goes on.                      *)
Meaning(p, s) ==
  IF p = "auto" THEN Visible(s) ELSE IF p = "final" THEN Inner(s) ELSE <<>>
InAll(st, u) == st.out \o Meaning(st.phase, st.buffer \o u)

(* What a text means in a phase is text, and that of none is empty.         *)
LEMMA MeaningIs ==
  ASSUME NEW p \in Phases, NEW s \in Seq(Chars)
  PROVE  Meaning(p, s) \in Seq(Chars) /\ Meaning(p, <<>>) = <<>>
<1>1. Visible(s) \in Seq(Chars) /\ Inner(s) \in Seq(Chars) /\ <<>> \in Seq(Chars)
  BY VisibleIs, InnerIs
<1> QED BY <1>1, VisibleOfNothing DEF Meaning

(* A state of the filter and its fields.                                    *)
LEMMA StateIs ==
  ASSUME NEW b \in Seq(Chars), NEW p \in Phases, NEW o \in Seq(Chars)
  PROVE  /\ State(b, p, o) \in States
         /\ State(b, p, o).buffer = b /\ State(b, p, o).phase = p /\ State(b, p, o).out = o
<1> QED BY DEF State, States

(* The fields of a state are of their types.                                *)
LEMMA StateHas ==
  ASSUME NEW st \in States
  PROVE  /\ st.buffer \in Seq(Chars) /\ st.phase \in Phases /\ st.out \in Seq(Chars)
         /\ Len(st.buffer) \in Nat
<1> QED BY DEF States

(* What is released, and what remains.                                      *)
LEMMA ReleaseIs ==
  ASSUME NEW st \in States, NEW n \in 0 .. Len(st.buffer)
  PROVE  /\ Release(st, n) \in States /\ Release(st, n).phase = st.phase
         /\ Release(st, n).buffer = Rest(st.buffer, n)
         /\ Release(st, n).out = st.out \o SubSeq(st.buffer, 1, n)
         /\ Len(Release(st, n).buffer) = Len(st.buffer) - n
<1> DEFINE s == st.buffer
           r == Rest(s, n)
           f == SubSeq(s, 1, n)
           o == st.out \o f
<1>1. s \in Seq(Chars) /\ st.phase \in Phases /\ st.out \in Seq(Chars)
  BY StateHas
<1>2. r \in Seq(Chars) /\ Len(r) = Len(s) - n /\ f \in Seq(Chars)
  <2> HIDE DEF s
  <2> QED BY <1>1, RestIs, PrefixIs DEF s
<1>3. o \in Seq(Chars)
  <2> HIDE DEF f
  <2> QED BY <1>1, <1>2
<1>4. Release(st, n) = State(r, st.phase, o)
  BY DEF Release
<1> HIDE DEF r, o
<1>5. State(r, st.phase, o) \in States
  BY <1>1, <1>2, <1>3, StateIs
<1>6. /\ State(r, st.phase, o).buffer = r /\ State(r, st.phase, o).phase = st.phase
      /\ State(r, st.phase, o).out = o
  BY <1>1, <1>2, <1>3, StateIs
<1> QED BY <1>2, <1>4, <1>5, <1>6 DEF r, o

(* No tag that the phase looks for begins in the first n characters.        *)
Bare(p, s, n) ==
  /\ p = "auto" => \A i \in 1 .. n : i \notin Places(s, Marks)
  /\ p = "final" => \A i \in 1 .. n : i \notin Places(s, {ClosingTag})

(* Text before which no tag begins means itself.                            *)
LEMMA MeaningSkips ==
  ASSUME NEW p \in {"auto", "final"}, NEW s \in Seq(Chars), NEW n \in 0 .. Len(s), Bare(p, s, n)
  PROVE  Meaning(p, s) = SubSeq(s, 1, n) \o Meaning(p, Rest(s, n))
<1>1. CASE p = "auto"
  <2>1. Visible(s) = SubSeq(s, 1, n) \o Visible(Rest(s, n))
    BY <1>1, VisibleSkips DEF Bare
  <2> QED BY <1>1, <2>1 DEF Meaning
<1>2. CASE p = "final"
  <2>1. Inner(s) = SubSeq(s, 1, n) \o Inner(Rest(s, n))
    BY <1>2, InnerSkips DEF Bare
  <2> QED BY <1>2, <2>1 DEF Meaning
<1> QED BY <1>1, <1>2

(* To release it keeps the total.                                           *)
LEMMA ReleaseKeeps ==
  ASSUME NEW st \in States, NEW n \in 0 .. Len(st.buffer), NEW u \in Seq(Chars),
         st.phase # "suppressed", Bare(st.phase, st.buffer \o u, n)
  PROVE  InAll(Release(st, n), u) = InAll(st, u)
<1> DEFINE s == st.buffer
           p == st.phase
           o == st.out
           w == s \o u
           f == SubSeq(s, 1, n)
           r == Rest(s, n)
           m == Meaning(p, r \o u)
<1>1. s \in Seq(Chars) /\ p \in {"auto", "final"} /\ o \in Seq(Chars) /\ Len(s) \in Nat
  BY StateHas DEF Phases
<1>2. f \in Seq(Chars) /\ r \in Seq(Chars)
  <2> HIDE DEF s
  <2> QED BY <1>1, RestIs, PrefixIs DEF s
<1>3. w \in Seq(Chars) /\ Len(w) = Len(s) + Len(u) /\ Len(u) \in Nat
  <2> HIDE DEF s
  <2> QED BY <1>1, ConcatProperties DEF s
<1>4. n \in 0 .. Len(w) /\ n \in 0 .. Len(s)
  <2> HIDE DEF w
  <2> QED BY <1>1, <1>3
<1>5. SubSeq(w, 1, n) = f /\ Rest(w, n) = r \o u
  <2> HIDE DEF s
  <2> QED BY <1>1, <1>4, FrontOfConcat, RestOfConcat
<1>6. Meaning(p, w) = f \o m
  <2>1. Meaning(p, w) = SubSeq(w, 1, n) \o Meaning(p, Rest(w, n))
    <3> HIDE DEF p, w
    <3> QED BY <1>1, <1>3, <1>4, MeaningSkips DEF p, w
  <2> QED BY <1>5, <2>1
<1>7. m \in Seq(Chars)
  <2>1. r \o u \in Seq(Chars)
    <3> HIDE DEF r
    <3> QED BY <1>2
  <2>2. p \in Phases
    BY <1>1 DEF Phases
  <2> HIDE DEF r, p
  <2> QED BY <2>1, <2>2, MeaningIs
<1>8. (o \o f) \o m = o \o (f \o m)
  <2>1. o \in Seq(Chars) /\ f \in Seq(Chars) /\ m \in Seq(Chars)
    BY <1>1, <1>2, <1>7
  <2> HIDE DEF o, f, m
  <2> QED BY <2>1, ConcatAssociative
<1>9. InAll(Release(st, n), u) = (o \o f) \o m
  BY ReleaseIs DEF InAll
<1>10. InAll(st, u) = o \o (f \o m)
  BY <1>6 DEF InAll
<1> QED BY <1>8, <1>9, <1>10

-----------------------------------------------------------------------------
(* Where a tag is found: at the first of its places, if it has one.         *)
LEMMA IndexOfIs ==
  ASSUME NEW tag \in OpenTags, NEW s \in Seq(Chars)
  PROVE  /\ IndexOf(s, tag) \in 0 .. Len(s) /\ Len(s) \in Nat
         /\ IndexOf(s, tag) = 0 => Places(s, {tag}) = {}
         /\ IndexOf(s, tag) # 0 => IndexOf(s, tag) \in Places(s, {tag})
         /\ \A j \in Places(s, {tag}) : IndexOf(s, tag) <= j
<1> DEFINE P == Places(s, {tag})
           k == IndexOf(s, tag)
<1>1. P \in SUBSET (1 .. Len(s)) /\ Len(s) \in Nat
  BY PlacesIs
<1>2. k = IF P = {} THEN 0 ELSE LeastOf(P)
  BY DEF IndexOf
<1>3. P # {} => LeastOf(P) \in P /\ \A j \in P : LeastOf(P) <= j
  <2> HIDE DEF P
  <2>1. P \in SUBSET Nat
    BY <1>1
  <2> QED BY <2>1, LeastIs
<1> HIDE DEF P, k
<1>4. P # {} => k \in P /\ \A j \in P : k <= j
  BY <1>2, <1>3
<1>5. P = {} => k = 0
  BY <1>2
<1>6. /\ k \in 0 .. Len(s) /\ (k = 0 => P = {}) /\ (k # 0 => k \in P)
      /\ \A j \in P : k <= j
  <2>1. CASE P = {}
    BY <1>1, <1>5, <2>1
  <2>2. CASE P # {}
    <3>1. k \in 1 .. Len(s) /\ k \in P /\ \A j \in P : k <= j
      BY <1>1, <1>4, <2>2
    <3>2. k \in 0 .. Len(s) /\ k # 0
      BY <1>1, <3>1
    <3> QED BY <3>1, <3>2
  <2> QED BY <2>1, <2>2
<1> QED BY <1>1, <1>6 DEF P, k

(* The "<" of a text.                                                       *)
LEMMA OpenIndex ==
  ASSUME NEW s \in Seq(Chars)
  PROVE  /\ IndexOf(s, <<Open>>) \in 0 .. Len(s) /\ Len(s) \in Nat
         /\ \A i \in 1 .. Len(s) :
              s[i] = Open => IndexOf(s, <<Open>>) # 0 /\ IndexOf(s, <<Open>>) <= i
         /\ IndexOf(s, <<Open>>) # 0 => s[IndexOf(s, <<Open>>)] = Open
<1> DEFINE P == Places(s, {<<Open>>})
           k == IndexOf(s, <<Open>>)
<1>1. <<Open>> \in OpenTags /\ {<<Open>>} \in SUBSET OpenTags
  BY TagsAreOpen
<1>2. /\ P \in SUBSET (1 .. Len(s)) /\ Len(s) \in Nat
      /\ \A i \in P : s[i] = Open
  BY <1>1, PlacesIs
<1>3. ASSUME NEW i \in 1 .. Len(s), s[i] = Open PROVE i \in P
  <2>1. i - 1 \in 0 .. Len(s) /\ 1 \in 1 .. (Len(s) - (i - 1)) /\ (i - 1) + 1 = i
        /\ Len(s) - (i - 1) >= 1
    BY <1>2
  <2>2. /\ Rest(s, i - 1) \in Seq(Chars) /\ Rest(s, i - 1)[1] = s[(i - 1) + 1]
        /\ Len(Rest(s, i - 1)) = Len(s) - (i - 1)
    BY <2>1, RestIs
  <2>3. <<Open>> \in Seq(Chars) /\ Len(<<Open>>) = 1 /\ <<Open>>[1] = Open
    BY VisibleTextAssumptions
  <2> DEFINE p == <<Open>>
             r == Rest(s, i - 1)
  <2>4. IsPrefix(p, r) <=> Len(p) <= Len(r) /\ \A j \in 1 .. Len(p) : p[j] = r[j]
    <3>1. p \in Seq(Chars) /\ r \in Seq(Chars)
      BY <2>2, <2>3
    <3> HIDE DEF p, r
    <3> QED BY <3>1, PrefixMeans
  <2>5. \A j \in 1 .. Len(<<Open>>) : j = 1
    BY <2>3
  <2>6. IsPrefix(<<Open>>, Rest(s, i - 1))
    BY <1>3, <2>1, <2>2, <2>3, <2>4, <2>5
  <2> QED BY <1>2, <2>6 DEF Places, Starts
<1>4. /\ k \in 0 .. Len(s) /\ (k = 0 => P = {}) /\ (k # 0 => k \in P)
      /\ \A j \in P : k <= j
  BY <1>1, IndexOfIs
<1> QED BY <1>2, <1>3, <1>4

(* Where a tag is in what a text goes on to.                                *)
LEMMA PlacesOfConcat ==
  ASSUME NEW s \in Seq(Chars), NEW u \in Seq(Chars), NEW i \in 1 .. Len(s)
  PROVE  /\ \A tags \in SUBSET OpenTags : i \in Places(s \o u, tags) => s[i] = Open
         /\ \A tag \in OpenTags :
              /\ i \in Places(s, {tag}) =>
                   i \in Places(s \o u, {tag}) /\ (i - 1) + Len(tag) <= Len(s)
              /\ i \in Places(s \o u, {tag}) /\ (i - 1) + Len(tag) <= Len(s) =>
                   i \in Places(s, {tag})
<1> DEFINE w == s \o u
           r == Rest(s, i - 1)
<1>1. /\ w \in Seq(Chars) /\ Len(w) = Len(s) + Len(u) /\ Len(s) \in Nat /\ Len(u) \in Nat
      /\ \A j \in 1 .. Len(s) : w[j] = s[j]
  BY ConcatIs
<1>2. i - 1 \in 0 .. Len(s) /\ i \in 1 .. Len(w)
  <2> HIDE DEF w
  <2> QED BY <1>1
<1>3. r \in Seq(Chars) /\ Len(r) = Len(s) - (i - 1)
  BY <1>2, RestIs
<1>4. Rest(w, i - 1) = r \o u
  BY <1>2, RestOfConcat
<1>5. ASSUME NEW tags \in SUBSET OpenTags, i \in Places(w, tags) PROVE s[i] = Open
  <2> HIDE DEF w
  <2> QED BY <1>1, <1>5, PlacesIs
<1>6. ASSUME NEW tag \in OpenTags
      PROVE  /\ i \in Places(s, {tag}) => i \in Places(w, {tag}) /\ (i - 1) + Len(tag) <= Len(s)
             /\ i \in Places(w, {tag}) /\ (i - 1) + Len(tag) <= Len(s) => i \in Places(s, {tag})
  <2>1. tag \in Seq(Chars) /\ Len(tag) \in Nat
    BY DEF OpenTags
  <2>2. i \in Places(s, {tag}) <=> IsPrefix(tag, r)
    BY <1>1 DEF Places, Starts
  <2>3. i \in Places(w, {tag}) <=> IsPrefix(tag, r \o u)
    <3> HIDE DEF w, r
    <3>1. DOMAIN w = 1 .. Len(w)
      BY <1>1
    <3> QED BY <1>2, <1>4, <3>1 DEF Places, Starts
  <2>4. IsPrefix(tag, r) => IsPrefix(tag, r \o u) /\ Len(tag) <= Len(r)
    <3> HIDE DEF r
    <3> QED BY <1>3, <2>1, BeginsConcat, PrefixMeans
  <2>5. IsPrefix(tag, r \o u) /\ Len(tag) <= Len(r) => IsPrefix(tag, r)
    <3> HIDE DEF r
    <3> QED BY <1>3, <2>1, BeginsConcat
  <2>6. Len(tag) <= Len(r) <=> (i - 1) + Len(tag) <= Len(s)
    <3> HIDE DEF r
    <3> QED BY <1>1, <1>3, <2>1
  <2> QED BY <2>2, <2>3, <2>4, <2>5, <2>6
<1> QED BY <1>5, <1>6 DEF w

-----------------------------------------------------------------------------
(* A round keeps the total; and when the reply is over it takes a character *)
(* at least, if there is one.                                               *)
Continues(u, last) == u \in Seq(Chars) /\ (last => u = <<>>)
Good(st, new, last) ==
  /\ new \in States
  /\ \A u : Continues(u, last) => InAll(new, u) = InAll(st, u)
  /\ last => Len(new.buffer) = 0 \/ Len(new.buffer) < Len(st.buffer)

(* Releasing is good where no tag begins.                                   *)
LEMMA ReleaseIsGood ==
  ASSUME NEW st \in States, NEW last \in BOOLEAN, NEW n \in 0 .. Len(st.buffer),
         st.phase # "suppressed",
         \A u : Continues(u, last) => Bare(st.phase, st.buffer \o u, n),
         last => Len(st.buffer) = 0 \/ n # 0
  PROVE  Good(st, Release(st, n), last)
<1>1. \A u : Continues(u, last) => InAll(Release(st, n), u) = InAll(st, u)
  <2> SUFFICES ASSUME NEW u, Continues(u, last) PROVE InAll(Release(st, n), u) = InAll(st, u)
    OBVIOUS
  <2>1. u \in Seq(Chars) /\ Bare(st.phase, st.buffer \o u, n)
    BY DEF Continues
  <2> QED BY <2>1, ReleaseKeeps
<1>2. Release(st, n) \in States /\ Len(Release(st, n).buffer) = Len(st.buffer) - n
  BY ReleaseIs
<1>3. Len(st.buffer) \in Nat
  BY StateHas
<1>4. last => Len(st.buffer) - n = 0 \/ Len(st.buffer) - n < Len(st.buffer)
  BY <1>3
<1> QED BY <1>1, <1>2, <1>4 DEF Good

(* So is dropping what means nothing, or ending where the rest does.        *)
LEMMA EndIsGood ==
  ASSUME NEW st \in States, NEW last \in BOOLEAN, NEW told \in Seq(Chars),
         \A u \in Seq(Chars) : Meaning(st.phase, st.buffer \o u) = told
  PROVE  Good(st, State(<<>>, "suppressed", st.out \o told), last)
<1> DEFINE new == State(<<>>, "suppressed", st.out \o told)
<1>1. st.buffer \in Seq(Chars) /\ st.out \in Seq(Chars) /\ Len(<<>>) = 0 /\ <<>> \in Seq(Chars)
  BY StateHas
<1>2. st.out \o told \in Seq(Chars) /\ "suppressed" \in Phases
  BY <1>1 DEF Phases
<1>3. /\ new \in States /\ new.buffer = <<>> /\ new.phase = "suppressed"
      /\ new.out = st.out \o told
  <2> DEFINE o == st.out \o told
  <2>1. o \in Seq(Chars) /\ <<>> \in Seq(Chars)
    BY <1>1, <1>2
  <2> HIDE DEF o
  <2>2. /\ State(<<>>, "suppressed", o) \in States /\ State(<<>>, "suppressed", o).buffer = <<>>
        /\ State(<<>>, "suppressed", o).phase = "suppressed"
        /\ State(<<>>, "suppressed", o).out = o
    BY <1>2, <2>1 DEF State, States
  <2> QED BY <2>2 DEF o
<1> HIDE DEF new
<1>4. ASSUME NEW u \in Seq(Chars) PROVE InAll(new, u) = InAll(st, u)
  <2>1. InAll(new, u) = (st.out \o told) \o <<>>
    BY <1>3 DEF InAll, Meaning
  <2>2. (st.out \o told) \o <<>> = st.out \o told
    BY <1>2
  <2> QED BY <2>1, <2>2 DEF InAll
<1> QED BY <1>1, <1>3, <1>4 DEF Good, Continues, new

(* After the visible part a round drops what comes.                         *)
LEMMA SuppressedRound ==
  ASSUME NEW st \in States, NEW last \in BOOLEAN, st.phase = "suppressed"
  PROVE  Good(st, Round(st, last), last)
<1>1. Round(st, last) = State(<<>>, "suppressed", st.out)
  BY DEF Round
<1>2. \A u \in Seq(Chars) : Meaning(st.phase, st.buffer \o u) = <<>>
  BY DEF Meaning
<1>3. st.out \in Seq(Chars) /\ <<>> \in Seq(Chars)
  BY StateHas
<1>4. st.out \o <<>> = st.out
  BY <1>3
<1>5. Good(st, State(<<>>, "suppressed", st.out \o <<>>), last)
  BY <1>2, <1>3, EndIsGood
<1> QED BY <1>1, <1>4, <1>5

(* Inside <final>.                                                          *)
LEMMA ClosedInner ==
  ASSUME NEW s \in Seq(Chars), NEW u \in Seq(Chars), IndexOf(s, ClosingTag) # 0
  PROVE  Inner(s \o u) = SubSeq(s, 1, IndexOf(s, ClosingTag) - 1)
<1> DEFINE w == s \o u
           i == IndexOf(s, ClosingTag)
           n == i - 1
           L == Len(ClosingTag)
           r == Rest(w, n)
           f == SubSeq(s, 1, n)
<1>0. /\ ClosingTag \in OpenTags /\ {ClosingTag} \in SUBSET OpenTags /\ ClosingTag \in Seq(Chars)
      /\ L \in Nat
  BY TagsAreOpen DEF OpenTags
<1>1. /\ i \in 0 .. Len(s) /\ Len(s) \in Nat /\ i \in Places(s, {ClosingTag})
      /\ \A j \in Places(s, {ClosingTag}) : i <= j
  BY <1>0, IndexOfIs
<1>2. w \in Seq(Chars) /\ Len(w) = Len(s) + Len(u) /\ Len(u) \in Nat
  BY ConcatProperties
<1> HIDE DEF i, L, w
<1>3. /\ i \in 1 .. Len(s) /\ n \in 0 .. Len(s) /\ n \in 0 .. Len(w)
      /\ 1 \in 1 .. (Len(w) - n) /\ n + 1 = i
  BY <1>1, <1>2 DEF i
<1>4. i \in Places(w, {ClosingTag}) /\ n + L <= Len(s)
  BY <1>0, <1>1, <1>3, PlacesOfConcat DEF w, L
<1>5. ASSUME NEW j \in 1 .. n, j \in Places(w, {ClosingTag}) PROVE FALSE
  <2>1. j \in 1 .. Len(s) /\ (j - 1) + L <= Len(s) /\ ~ (i <= j)
    BY <1>0, <1>1, <1>3, <1>4
  <2>2. j \in Places(s, {ClosingTag})
    BY <1>0, <1>5, <2>1, PlacesOfConcat DEF w, L
  <2> QED BY <1>1, <2>1, <2>2
<1>6. Inner(w) = SubSeq(w, 1, n) \o Inner(r)
  BY <1>2, <1>3, <1>5, InnerSkips
<1>7. SubSeq(w, 1, n) = f /\ f \in Seq(Chars)
  BY <1>3, FrontOfConcat, PrefixIs DEF w
<1>8. Inner(r) = <<>>
  <2>1. r \in Seq(Chars)
    BY <1>2, <1>3, RestIs
  <2>2. 1 \in Places(r, {ClosingTag}) <=> n + 1 \in Places(w, {ClosingTag})
    BY <1>0, <1>2, <1>3, PlacesOfRest
  <2>3. 1 \in Places(r, {ClosingTag})
    BY <1>3, <1>4, <2>2
  <2> HIDE DEF r
  <2> QED BY <1>0, <2>1, <2>3, BeforeIs DEF Inner
<1>9. f \o <<>> = f
  <2> HIDE DEF f
  <2> QED BY <1>7
<1> QED BY <1>6, <1>7, <1>8, <1>9 DEF w, i

(* A round inside of <final>: it releases what is before the closing tag,   *)
(* or all that cannot be the beginning of one.                              *)
LEMMA FinalRound ==
  ASSUME NEW st \in States, NEW last \in BOOLEAN, st.phase = "final"
  PROVE  Good(st, Round(st, last), last)
<1> DEFINE s == st.buffer
           i == IndexOf(s, ClosingTag)
           L == Len(ClosingTag)
           n == IF last THEN Len(s) ELSE AtLeast0(Len(s) - L + 1)
<1>0. /\ ClosingTag \in OpenTags /\ {ClosingTag} \in SUBSET OpenTags /\ ClosingTag \in Seq(Chars)
      /\ L \in Nat \ {0}
  BY TagsAreOpen DEF OpenTags
<1>1. s \in Seq(Chars) /\ st.out \in Seq(Chars) /\ Len(s) \in Nat
  BY StateHas
<1>2. i \in 0 .. Len(s) /\ (i = 0 => Places(s, {ClosingTag}) = {})
  <2> HIDE DEF s
  <2> QED BY <1>0, <1>1, IndexOfIs
<1>3. Round(st, last) = InFinal(st, last)
  BY DEF Round
<1>4. CASE i = 0
  <2>1. InFinal(st, last) = Release(st, n)
    BY <1>4 DEF InFinal
  <2> HIDE DEF i, L, s
  <2>2. /\ n \in 0 .. Len(s) /\ (last => n = Len(s))
        /\ ~ last => n = 0 \/ (n - 1) + L <= Len(s)
    BY <1>0, <1>1 DEF AtLeast0
  <2> HIDE DEF n
  <2>3. ASSUME NEW u, Continues(u, last), NEW j \in 1 .. n, j \in Places(s \o u, {ClosingTag})
        PROVE  FALSE
    <3>1. u \in Seq(Chars) /\ (last => u = <<>>)
      BY <2>3 DEF Continues
    <3>2. j \in 1 .. Len(s)
      BY <1>1, <2>2
    <3>3. CASE last
      <4>1. s \o u = s
        BY <1>1, <3>1, <3>3
      <4> QED BY <1>2, <1>4, <2>3, <4>1
    <3>4. CASE ~ last
      <4>1. (j - 1) + L <= Len(s)
        BY <1>0, <1>1, <2>2, <3>2, <3>4
      <4>2. j \in Places(s, {ClosingTag})
        BY <1>0, <1>1, <2>3, <3>1, <3>2, <4>1, PlacesOfConcat DEF L
      <4> QED BY <1>2, <1>4, <4>2
    <3> QED BY <3>3, <3>4
  <2>4. \A u : Continues(u, last) => Bare(st.phase, s \o u, n)
    BY <2>3 DEF Bare
  <2>5. Good(st, Release(st, n), last)
    BY <2>2, <2>4, ReleaseIsGood DEF s
  <2> QED BY <1>3, <2>1, <2>5
<1>5. CASE i # 0
  <2> DEFINE f == SubSeq(s, 1, i - 1)
  <2>0. i > 0
    <3> HIDE DEF i
    <3> QED BY <1>1, <1>2, <1>5
  <2>1. InFinal(st, last) = State(<<>>, "suppressed", st.out \o f)
    BY <2>0 DEF InFinal
  <2>2. f \in Seq(Chars)
    <3>1. i - 1 \in 0 .. Len(s)
      <4> HIDE DEF i, s
      <4> QED BY <1>1, <1>2, <1>5
    <3> HIDE DEF i, s
    <3> QED BY <1>1, <3>1, PrefixIs
  <2>3. \A u \in Seq(Chars) : Meaning(st.phase, s \o u) = f
    <3> HIDE DEF s
    <3>1. \A u \in Seq(Chars) : Inner(s \o u) = f
      BY <1>1, <1>5, ClosedInner
    <3> QED BY <3>1 DEF Meaning
  <2> HIDE DEF f
  <2>4. Good(st, State(<<>>, "suppressed", st.out \o f), last)
    BY <2>2, <2>3, EndIsGood
  <2> QED BY <1>3, <2>1, <2>4
<1> QED BY <1>4, <1>5

(* At a "<": a reply that goes on with no tag there.                        *)
LEMMA PrefixTransitive ==
  ASSUME NEW T, NEW p \in Seq(T), NEW q \in Seq(T), NEW s \in Seq(T),
         IsPrefix(p, q), IsPrefix(q, s)
  PROVE  IsPrefix(p, s)
<1>1. Len(p) \in Nat /\ Len(q) \in Nat /\ Len(s) \in Nat
  OBVIOUS
<1>2. /\ Len(p) <= Len(q) /\ \A i \in 1 .. Len(p) : p[i] = q[i]
      /\ Len(q) <= Len(s) /\ \A i \in 1 .. Len(q) : q[i] = s[i]
  BY PrefixMeans
<1>3. Len(p) <= Len(s) /\ \A i \in 1 .. Len(p) : p[i] = s[i]
  BY <1>1, <1>2
<1> QED BY <1>3, PrefixMeans

(* What begins <tool and a blank, and is shorter, begins another tag.       *)
LEMMA BlankWordBegins ==
  ASSUME NEW s \in Seq(Chars), NEW tag \in BlankWords, IsPrefix(s, tag), Len(s) < Len(tag)
  PROVE  \E t \in OtherTags : IsPrefix(s, t)
<1>1. PICK b \in Blanks : tag = Append(ToolWord, b)
  BY DEF BlankWords
<1>2. b \in Chars /\ ToolWord \in Seq(Chars) /\ OtherTags \subseteq Seq(Chars)
  BY VisibleTextAssumptions
<1>3. /\ tag \in Seq(Chars) /\ Len(tag) = Len(ToolWord) + 1 /\ Len(ToolWord) \in Nat /\ Len(s) \in Nat
      /\ \A i \in 1 .. Len(ToolWord) : tag[i] = ToolWord[i]
  BY <1>1, <1>2
<1>4. Len(s) <= Len(tag) /\ \A i \in 1 .. Len(s) : s[i] = tag[i]
  BY <1>3, PrefixMeans
<1>5. Len(s) <= Len(ToolWord)
  BY <1>3
<1>6. \A i \in 1 .. Len(s) : s[i] = ToolWord[i]
  BY <1>3, <1>4, <1>5
<1>7. IsPrefix(s, ToolWord)
  BY <1>2, <1>5, <1>6, PrefixMeans
<1>8. PICK t \in OtherTags : IsPrefix(ToolWord, t)
  BY VisibleTextAssumptions
<1>9. IsPrefix(s, t)
  BY <1>2, <1>7, <1>8, PrefixTransitive
<1> QED BY <1>9

(* Where neither a tag is nor the text may become one, no tag is whatever   *)
(* follows (MayBecomeTag).                                                  *)
LEMMA NoTagHere ==
  ASSUME NEW s \in Seq(Chars), NEW last \in BOOLEAN, NEW u, Continues(u, last),
         ~ Starts(s, FinalTag), \A tag \in OtherTags \cup BlankWords : ~ Starts(s, tag),
         ~ MayBecomeTag(s, last)
  PROVE  \A tag \in Marks : ~ Starts(s \o u, tag)
<1> SUFFICES ASSUME NEW tag \in Marks, IsPrefix(tag, s \o u) PROVE FALSE
  BY DEF Starts
<1>1. u \in Seq(Chars) /\ (last => u = <<>>)
  BY DEF Continues
<1>2. tag \in Seq(Chars) /\ Len(tag) \in Nat /\ Len(s) \in Nat
  BY TagsAreOpen DEF OpenTags
<1>3. ~ IsPrefix(tag, s)
  BY DEF Marks, ControlTags, Starts
<1>4. ~ (Len(tag) <= Len(s)) /\ IsPrefix(s, tag)
  BY <1>1, <1>2, <1>3, BeginsConcat
<1>5. ~ last
  <2>1. s \o <<>> = s
    OBVIOUS
  <2> QED BY <1>1, <1>3, <2>1
<1>6. \A t \in ControlTags : ~ IsPrefix(s, t)
  BY <1>5 DEF MayBecomeTag
<1>7. tag \in BlankWords
  BY <1>4, <1>6 DEF Marks
<1>8. Len(s) < Len(tag)
  BY <1>2, <1>4
<1>9. \E t \in OtherTags : IsPrefix(s, t)
  BY <1>4, <1>7, <1>8, BlankWordBegins
<1> QED BY <1>6, <1>9 DEF ControlTags

(* At a "<" that begins <final>, or another tag.                            *)
LEMMA FinalIsGood ==
  ASSUME NEW st \in States, NEW last \in BOOLEAN, st.phase = "auto", Starts(st.buffer, FinalTag)
  PROVE  Good(st, State(Rest(st.buffer, Len(FinalTag)), "final", st.out), last)
<1> DEFINE s == st.buffer
           L == Len(FinalTag)
           r == Rest(s, L)
           new == State(r, "final", st.out)
<1>1. s \in Seq(Chars) /\ st.out \in Seq(Chars) /\ Len(s) \in Nat
  BY StateHas
<1>2. FinalTag \in OpenTags /\ FinalTag \in Seq(Chars) /\ FinalTag \in Marks
  BY TagsAreOpen DEF OpenTags, Marks, ControlTags
<1>3. L \in 1 .. Len(s) /\ r \in Seq(Chars)
  BY <1>1, <1>2, RestOfFinal
<1>4. L \in 0 .. Len(s) /\ Len(r) = Len(s) - L
  <2>1. L \in 0 .. Len(s)
    <3> HIDE DEF L
    <3> QED BY <1>1, <1>3
  <2> HIDE DEF L, s
  <2> QED BY <1>1, <2>1, RestIs
<1>5. new \in States /\ new.buffer = r /\ new.phase = "final" /\ new.out = st.out
  <2> HIDE DEF r
  <2> QED BY <1>1, <1>3 DEF State, States, Phases
<1> HIDE DEF new
<1>6. ASSUME NEW u \in Seq(Chars) PROVE InAll(new, u) = InAll(st, u)
  <2> DEFINE w == s \o u
  <2>1. w \in Seq(Chars)
    BY <1>1
  <2>2. Starts(w, FinalTag)
    BY <1>1, <1>2, BeginsConcat DEF Starts
  <2>3. Visible(w) = Beyond(w)
    <3> HIDE DEF w
    <3> QED BY <1>2, <2>1, <2>2, VisibleOfTag
  <2>4. Beyond(w) = Inner(Rest(w, L))
    BY <2>2 DEF Beyond
  <2>5. Rest(w, L) = r \o u
    BY <1>1, <1>4, RestOfConcat
  <2>6. InAll(new, u) = st.out \o Inner(r \o u)
    BY <1>5 DEF InAll, Meaning
  <2>7. InAll(st, u) = st.out \o Visible(w)
    BY DEF InAll, Meaning
  <2> QED BY <2>3, <2>4, <2>5, <2>6, <2>7
<1>7. Len(r) < Len(s)
  <2> HIDE DEF r, s, L
  <2> QED BY <1>1, <1>3, <1>4
<1> QED BY <1>5, <1>6, <1>7 DEF Good, Continues, new

(* Another tag ends what is visible: it neither begins <final> nor is begun *)
(* by it.                                                                   *)
LEMMA OtherIsGood ==
  ASSUME NEW st \in States, NEW last \in BOOLEAN, st.phase = "auto", ~ Starts(st.buffer, FinalTag),
         NEW tag \in OtherTags \cup BlankWords, Starts(st.buffer, tag)
  PROVE  Good(st, State(<<>>, "suppressed", st.out), last)
<1> DEFINE s == st.buffer
<1>1. s \in Seq(Chars) /\ st.out \in Seq(Chars) /\ Len(s) \in Nat /\ <<>> \in Seq(Chars)
  BY StateHas
<1>2. tag \in Marks /\ tag \in Seq(Chars) /\ FinalTag \in Seq(Chars)
  BY TagsAreOpen DEF OpenTags, Marks, ControlTags
<1>3. ASSUME NEW u \in Seq(Chars) PROVE Meaning(st.phase, s \o u) = <<>>
  <2> DEFINE w == s \o u
  <2>1. w \in Seq(Chars)
    BY <1>1
  <2>2. Starts(w, tag)
    BY <1>1, <1>2, BeginsConcat DEF Starts
  <2>3. ASSUME Starts(w, FinalTag) PROVE FALSE
    <3>1. IsPrefix(tag, FinalTag) \/ IsPrefix(FinalTag, tag)
      <4> HIDE DEF w
      <4> QED BY <1>2, <2>1, <2>2, <2>3, PrefixesCompare DEF Starts
    <3>2. IsPrefix(FinalTag, tag)
      BY <3>1, VisibleTextAssumptions
    <3>3. IsPrefix(FinalTag, s)
      BY <1>1, <1>2, <3>2, PrefixTransitive DEF Starts
    <3> QED BY <3>3 DEF Starts
  <2>4. Visible(w) = Beyond(w)
    <3> HIDE DEF w
    <3> QED BY <1>2, <2>1, <2>2, VisibleOfTag
  <2> QED BY <2>3, <2>4 DEF Beyond, Meaning
<1>4. Good(st, State(<<>>, "suppressed", st.out \o <<>>), last)
  BY <1>1, <1>3, EndIsGood
<1>5. st.out \o <<>> = st.out
  BY <1>1
<1> QED BY <1>4, <1>5

(* Outside of tags.                                                         *)
LEMMA BareBefore ==
  ASSUME NEW s \in Seq(Chars), NEW n \in 0 .. Len(s), \A i \in 1 .. n : s[i] # Open
  PROVE  \A u \in Seq(Chars) : Bare("auto", s \o u, n)
<1>1. ASSUME NEW u \in Seq(Chars), NEW i \in 1 .. n PROVE i \notin Places(s \o u, Marks)
  <2>1. i \in 1 .. Len(s) /\ s[i] # Open
    OBVIOUS
  <2> QED BY <2>1, TagsAreOpen, PlacesOfConcat
<1> QED BY <1>1 DEF Bare

(* A round outside of tags is good in each of its cases.                    *)
LEMMA AutoRound ==
  ASSUME NEW st \in States, NEW last \in BOOLEAN, st.phase = "auto"
  PROVE  Good(st, Round(st, last), last)
<1> DEFINE s == st.buffer
           i == IndexOf(s, <<Open>>)
<1>1. s \in Seq(Chars) /\ st.out \in Seq(Chars) /\ Len(s) \in Nat
  BY StateHas
<1>2. /\ i \in 0 .. Len(s)
      /\ \A j \in 1 .. Len(s) : s[j] = Open => i # 0 /\ i <= j
  <2> HIDE DEF s
  <2> QED BY <1>1, OpenIndex
<1>3. \A u : Continues(u, last) => u \in Seq(Chars)
  BY DEF Continues
<1>4. ASSUME NEW n \in 0 .. Len(s), \A j \in 1 .. n : s[j] # Open, last => Len(s) = 0 \/ n # 0
      PROVE  Good(st, Release(st, n), last)
  <2>1. \A u \in Seq(Chars) : Bare("auto", s \o u, n)
    <3> HIDE DEF s
    <3> QED BY <1>1, <1>4, BareBefore
  <2>2. \A u : Continues(u, last) => Bare(st.phase, s \o u, n)
    BY <1>3, <2>1
  <2> QED BY <1>4, <2>2, ReleaseIsGood
<1>5. CASE i = 0
  <2> DEFINE n == IF last THEN Len(s) ELSE AtLeast0(Len(s) - HoldBack)
  <2>1. Round(st, last) = Release(st, n)
    BY <1>5 DEF Round
  <2>2. HoldBack \in Nat
    BY VisibleTextAssumptions DEF HoldBack
  <2>3. n \in 0 .. Len(s) /\ (last => n = Len(s))
    <3> HIDE DEF s, i
    <3> QED BY <1>1, <2>2 DEF AtLeast0
  <2> HIDE DEF n
  <2>4. \A j \in 1 .. n : s[j] # Open
    <3> HIDE DEF s, i
    <3>1. \A j \in 1 .. n : j \in 1 .. Len(s)
      BY <1>1, <2>3
    <3> QED BY <1>2, <1>5, <3>1
  <2>5. last => Len(s) = 0 \/ n # 0
    BY <2>3
  <2> QED BY <1>4, <2>1, <2>3, <2>4, <2>5
<1>6. CASE i > 1
  <2> DEFINE n == i - 1
  <2>1. Round(st, last) = Release(st, n)
    <3>1. i # 0 /\ i # 1
      <4> HIDE DEF i
      <4> QED BY <1>1, <1>2, <1>6
    <3> QED BY <1>6, <3>1 DEF Round
  <2>2. n \in 0 .. Len(s) /\ n # 0
    <3> HIDE DEF i, s
    <3> QED BY <1>1, <1>2, <1>6
  <2>3. \A j \in 1 .. n : s[j] # Open
    <3> HIDE DEF s, i
    <3>1. \A j \in 1 .. n : j \in 1 .. Len(s) /\ ~ (i <= j)
      BY <1>1, <1>2, <1>6
    <3> QED BY <1>2, <3>1
  <2> HIDE DEF n
  <2> QED BY <1>4, <2>1, <2>2, <2>3
<1>7. CASE i = 1
  <2>0. Len(s) # 0 /\ 1 \in 0 .. Len(s)
    <3> HIDE DEF i, s
    <3> QED BY <1>1, <1>2, <1>7
  <2>1. Round(st, last) =
          IF Starts(s, FinalTag) THEN State(Rest(s, Len(FinalTag)), "final", st.out)
          ELSE IF \E tag \in OtherTags \cup BlankWords : Starts(s, tag)
               THEN State(<<>>, "suppressed", st.out)
          ELSE IF MayBecomeTag(s, last) THEN st
          ELSE Release(st, 1)
    BY <1>7 DEF Round
  <2> HIDE DEF i
  <2>2. CASE Starts(s, FinalTag)
    BY <2>1, <2>2, FinalIsGood
  <2>3. CASE ~ Starts(s, FinalTag) /\ \E tag \in OtherTags \cup BlankWords : Starts(s, tag)
    <3>1. Round(st, last) = State(<<>>, "suppressed", st.out)
      BY <2>1, <2>3
    <3> QED BY <2>3, <3>1, OtherIsGood
  <2>4. CASE /\ ~ Starts(s, FinalTag) /\ ~ \E tag \in OtherTags \cup BlankWords : Starts(s, tag)
             /\ MayBecomeTag(s, last)
    <3>1. Round(st, last) = st
      BY <2>1, <2>4
    <3>2. ~ last
      BY <2>4 DEF MayBecomeTag
    <3> QED BY <3>1, <3>2 DEF Good
  <2>5. CASE /\ ~ Starts(s, FinalTag) /\ ~ \E tag \in OtherTags \cup BlankWords : Starts(s, tag)
             /\ ~ MayBecomeTag(s, last)
    <3>1. Round(st, last) = Release(st, 1)
      BY <2>1, <2>5
    <3>2. ASSUME NEW u, Continues(u, last) PROVE Bare(st.phase, s \o u, 1)
      <4>1. \A tag \in Marks : ~ Starts(s \o u, tag)
        <5> HIDE DEF s
        <5> QED BY <1>1, <2>5, <3>2, NoTagHere
      <4>2. s \o u \in Seq(Chars)
        <5>1. u \in Seq(Chars)
          BY <1>3, <3>2
        <5> HIDE DEF s
        <5> QED BY <1>1, <5>1
      <4>3. 1 \notin Places(s \o u, Marks)
        <5> DEFINE w == s \o u
        <5> HIDE DEF w
        <5> QED BY <4>1, <4>2, TagsAreOpen, PlacesIs DEF w
      <4>4. \A j \in 1 .. 1 : j = 1
        OBVIOUS
      <4> QED BY <4>3, <4>4 DEF Bare
    <3>3. Good(st, Release(st, 1), last)
      BY <2>0, <3>2, ReleaseIsGood
    <3> QED BY <3>1, <3>3
  <2> QED BY <2>2, <2>3, <2>4, <2>5
<1>8. i = 0 \/ i = 1 \/ i > 1
  <2> HIDE DEF i
  <2> QED BY <1>1, <1>2
<1> QED BY <1>5, <1>6, <1>7, <1>8

(* Every round is good.                                                     *)
LEMMA RoundIsGood ==
  ASSUME NEW st \in States, NEW last \in BOOLEAN
  PROVE  Good(st, Round(st, last), last)
<1>1. st.phase \in {"auto", "final", "suppressed"}
  BY StateHas DEF Phases
<1> QED BY <1>1, AutoRound, FinalRound, SuppressedRound

-----------------------------------------------------------------------------
(* The loop keeps the total, and leaves nothing when the reply is over.     *)
LEMMA DrainIs ==
  ASSUME NEW st \in States, NEW last \in BOOLEAN
  PROVE  /\ Drain(st, last) \in States
         /\ \A u : Continues(u, last) => InAll(Drain(st, last), u) = InAll(st, u)
         /\ last => Drain(st, last).buffer = <<>>
<1> DEFINE N == Len(st.buffer)
           round == [r \in States |-> Round(r, last)]
           rounds == [n \in 1 .. N |-> round]
           d == Loop(st, rounds, N)
<1>1. N \in Nat
  BY StateHas
<1>2. rounds \in [1 .. N -> [States -> States]]
  <2>1. \A r \in States : Round(r, last) \in States
    BY RoundIsGood DEF Good
  <2> QED BY <2>1
<1>3. PICK t : /\ t[0] = st /\ \A k \in 0 .. N : t[k] \in States
               /\ \A k \in 1 .. N : t[k] = rounds[k][t[k - 1]]
               /\ d = t[N]
  <2> DEFINE n == N
             all == rounds
  <2>1. n \in Nat /\ all \in [1 .. n -> [States -> States]]
    BY <1>1, <1>2
  <2> HIDE DEF n, all
  <2>2. \E t : /\ t[0] = st /\ \A k \in 0 .. n : t[k] \in States
               /\ \A k \in 1 .. n : t[k] = all[k][t[k - 1]]
               /\ Loop(st, all, n) = t[n]
    BY <2>1, LoopIs, Z3
  <2> QED BY <2>2, Zenon DEF n, all
<1>4. ASSUME NEW k \in 0 .. N, k < N PROVE t[k] \in States /\ Good(t[k], t[k + 1], last)
  <2>1. k + 1 \in 1 .. N /\ (k + 1) - 1 = k
    <3> HIDE DEF N
    <3> QED BY <1>1, <1>4
  <2>2. t[k + 1] = Round(t[k], last)
    BY <1>3, <2>1
  <2> QED BY <1>3, <2>2, RoundIsGood
<1>5. Drain(st, last) = d
  BY DEF Drain
<1> DEFINE AsBefore(k) == \A u : Continues(u, last) => InAll(t[k], u) = InAll(st, u)
           Less(k) == last => Len(t[k].buffer) = 0 \/ Len(t[k].buffer) + k <= N
           S == {k \in 0 .. N : AsBefore(k) /\ Less(k)}
<1>6. 0 \in S
  BY <1>1, <1>3
<1>7. ASSUME NEW k \in 0 .. N, k \in S /\ k < N PROVE k + 1 \in S
  <2>1. t[k] \in States /\ Good(t[k], t[k + 1], last) /\ AsBefore(k) /\ Less(k)
    BY <1>4, <1>7
  <2>2. AsBefore(k + 1)
    BY <2>1 DEF Good
  <2>3. Less(k + 1)
    <3> SUFFICES ASSUME last PROVE Len(t[k + 1].buffer) = 0 \/ Len(t[k + 1].buffer) + (k + 1) <= N
      OBVIOUS
    <3> DEFINE a == Len(t[k].buffer)
               b == Len(t[k + 1].buffer)
    <3>1. /\ b = 0 \/ b < a
          /\ a = 0 \/ a + k <= N
      BY <2>1 DEF Good
    <3>2. a \in Nat /\ b \in Nat
      BY <2>1, StateHas DEF Good
    <3> HIDE DEF a, b, N
    <3>3. b = 0 \/ b + (k + 1) <= N
      BY <1>1, <3>1, <3>2
    <3> QED BY <3>3 DEF a, b, N
  <2>4. k + 1 \in 0 .. N
    <3> HIDE DEF N
    <3> QED BY <1>1, <1>7
  <2> QED BY <2>2, <2>3, <2>4
<1>8. N \in S
  <2> HIDE DEF S, N
  <2>1. 0 .. N \subseteq S
    BY <1>1, <1>6, <1>7, BoundedInduction
  <2> QED BY <1>1, <2>1
<1>9. AsBefore(N) /\ Less(N) /\ t[N] \in States
  BY <1>1, <1>3, <1>8
<1>10. last => t[N].buffer = <<>>
  <2>1. t[N].buffer \in Seq(Chars) /\ Len(t[N].buffer) \in Nat
    BY <1>9, StateHas
  <2>2. last => Len(t[N].buffer) = 0 \/ Len(t[N].buffer) + N <= N
    BY <1>9
  <2> DEFINE x == t[N].buffer
  <2> HIDE DEF x, N
  <2>3. last => Len(x) = 0
    BY <1>1, <2>1, <2>2 DEF x
  <2>4. last => x = <<>>
    BY <2>1, <2>3 DEF x
  <2> QED BY <2>4 DEF x
<1> QED BY <1>3, <1>5, <1>9, <1>10

(* The invariant: however the reply goes on, what is visible of it is what  *)
(* has been shown and what the rest means; and once it is over there is no  *)
(* rest.                                                                    *)
TextInv ==
  /\ VisibleTextTypeOK
  /\ ~ ended => \A u \in Seq(Chars) : Visible(text \o u) = displayed \o Meaning(phase, buffer \o u)
  /\ ended => displayed = Visible(text)

(* The filter of a reply that has not begun.                                *)
LEMMA TextInit == VisibleTextInit => TextInv
<1> SUFFICES ASSUME VisibleTextInit PROVE TextInv
  OBVIOUS
<1>1. VisibleTextTypeOK /\ ended = FALSE
  <2>1. ended = FALSE
    BY DEF VisibleTextInit
  <2>2. ended \in BOOLEAN
    BY <2>1
  <2>3. "auto" \in Phases /\ <<>> \in Seq(Chars)
    BY DEF Phases
  <2> QED BY <2>1, <2>2, <2>3 DEF VisibleTextInit, VisibleTextTypeOK
<1>2. ASSUME NEW u \in Seq(Chars)
      PROVE  Visible(text \o u) = displayed \o Meaning(phase, buffer \o u)
  <2>1. <<>> \o u = u /\ Visible(u) \in Seq(Chars)
    BY VisibleIs
  <2>2. <<>> \o Visible(u) = Visible(u)
    BY <2>1
  <2> QED BY <2>1, <2>2 DEF VisibleTextInit, Meaning
<1> QED BY <1>1, <1>2 DEF TextInv

(* What is left of a piece goes on with what comes after it.                *)
LEMMA FeedKeeps ==
  ASSUME TextInv, NEW piece \in Seq(Chars), Feed(piece)
  PROVE  TextInv'
<1> DEFINE st == State(buffer \o piece, phase, displayed)
           d == Drain(st, FALSE)
<1>1. /\ phase \in Phases /\ ended = FALSE /\ text \in Seq(Chars) /\ buffer \in Seq(Chars)
      /\ displayed \in Seq(Chars)
  BY DEF TextInv, VisibleTextTypeOK, Feed
<1>2. /\ text' = text \o piece /\ ended' = FALSE
      /\ buffer' = d.buffer /\ phase' = d.phase /\ displayed' = d.out
  BY <1>1 DEF Feed, Becomes
<1>3. buffer \o piece \in Seq(Chars) /\ text \o piece \in Seq(Chars)
  BY <1>1
<1>4. /\ st \in States /\ st.buffer = buffer \o piece /\ st.phase = phase
      /\ st.out = displayed
  <2> DEFINE b == buffer \o piece
  <2>1. b \in Seq(Chars)
    BY <1>3
  <2> HIDE DEF b
  <2>2. State(b, phase, displayed) \in States /\ State(b, phase, displayed).buffer = b
        /\ State(b, phase, displayed).phase = phase /\ State(b, phase, displayed).out = displayed
    BY <1>1, <2>1, StateIs
  <2> QED BY <2>2 DEF b
<1> HIDE DEF st
<1>5. d \in States /\ \A u \in Seq(Chars) : InAll(d, u) = InAll(st, u)
  BY <1>4, DrainIs DEF Continues
<1> HIDE DEF d
<1>6. VisibleTextTypeOK'
  <2>1. d.buffer \in Seq(Chars) /\ d.phase \in Phases /\ d.out \in Seq(Chars)
    BY <1>5, StateHas
  <2> QED BY <1>2, <1>3, <2>1 DEF VisibleTextTypeOK
<1>7. ASSUME NEW u \in Seq(Chars)
      PROVE  Visible((text \o piece) \o u) = d.out \o Meaning(d.phase, d.buffer \o u)
  <2>1. piece \o u \in Seq(Chars)
    OBVIOUS
  <2>2. Visible(text \o (piece \o u)) = displayed \o Meaning(phase, buffer \o (piece \o u))
    BY <1>1, <2>1 DEF TextInv
  <2>3. /\ (text \o piece) \o u = text \o (piece \o u)
        /\ (buffer \o piece) \o u = buffer \o (piece \o u)
    <3>1. text \in Seq(Chars) /\ buffer \in Seq(Chars)
      BY <1>1
    <3>2. (text \o piece) \o u = text \o (piece \o u)
      BY <3>1, ConcatAssociative
    <3>3. (buffer \o piece) \o u = buffer \o (piece \o u)
      BY <3>1, ConcatAssociative
    <3> QED BY <3>2, <3>3
  <2>4. d.out \o Meaning(d.phase, d.buffer \o u) = st.out \o Meaning(st.phase, st.buffer \o u)
    BY <1>5 DEF InAll
  <2> QED BY <1>4, <2>2, <2>3, <2>4
<1>8. \A u \in Seq(Chars) : Visible(text' \o u) = displayed' \o Meaning(phase', buffer' \o u)
  BY <1>2, <1>7
<1> QED BY <1>2, <1>6, <1>8 DEF TextInv

(* At the end nothing is left of it.                                        *)
LEMMA FinishKeeps ==
  ASSUME TextInv, Finish
  PROVE  TextInv'
<1> DEFINE st == State(buffer, phase, displayed)
           d == Drain(st, TRUE)
<1>1. /\ phase \in Phases /\ ended = FALSE /\ text \in Seq(Chars) /\ buffer \in Seq(Chars)
      /\ displayed \in Seq(Chars) /\ <<>> \in Seq(Chars)
  BY DEF TextInv, VisibleTextTypeOK, Finish
<1>2. /\ text' = text /\ ended' = TRUE
      /\ buffer' = d.buffer /\ phase' = d.phase /\ displayed' = d.out
  BY <1>1 DEF Finish, Becomes
<1>3. /\ st \in States /\ st.buffer = buffer /\ st.phase = phase /\ st.out = displayed
  BY <1>1, StateIs
<1> HIDE DEF st
<1>4. d \in States /\ InAll(d, <<>>) = InAll(st, <<>>) /\ d.buffer = <<>>
  <2>1. \A last \in BOOLEAN : last =>
          /\ Drain(st, last) \in States /\ InAll(Drain(st, last), <<>>) = InAll(st, <<>>)
          /\ Drain(st, last).buffer = <<>>
    BY <1>1, <1>3, DrainIs DEF Continues
  <2>2. TRUE \in BOOLEAN
    OBVIOUS
  <2> QED BY <2>1, <2>2, Zenon
<1> HIDE DEF d
<1>5. d.buffer \in Seq(Chars) /\ d.phase \in Phases /\ d.out \in Seq(Chars)
  BY <1>4, StateHas
<1>6. VisibleTextTypeOK'
  BY <1>1, <1>2, <1>5 DEF VisibleTextTypeOK
<1>7. d.out = Visible(text)
  <2>1. d.out \o Meaning(d.phase, <<>> \o <<>>) = displayed \o Meaning(phase, buffer \o <<>>)
    BY <1>3, <1>4 DEF InAll
  <2>2. Visible(text \o <<>>) = displayed \o Meaning(phase, buffer \o <<>>)
    BY <1>1 DEF TextInv
  <2>3. <<>> \o <<>> = <<>> /\ text \o <<>> = text
    BY <1>1
  <2>4. Meaning(d.phase, <<>>) = <<>>
    BY <1>1, <1>5, MeaningIs
  <2>5. d.out \o <<>> = d.out
    BY <1>5
  <2> QED BY <2>1, <2>2, <2>3, <2>4, <2>5
<1> QED BY <1>2, <1>6, <1>7 DEF TextInv

(* Every piece, and the end of the reply, keeps the invariant.              *)
LEMMA TextStep == TextInv /\ [VisibleTextNext]_textVars => TextInv'
<1> SUFFICES ASSUME TextInv, [VisibleTextNext]_textVars PROVE TextInv'
  OBVIOUS
<1>1. ASSUME NEW n \in 1 .. MaxDelta, NEW piece \in [1 .. n -> Chars], Feed(piece) PROVE TextInv'
  <2>1. n \in Nat
    BY VisibleTextAssumptions
  <2>2. piece \in Seq(Chars)
    BY <2>1
  <2> QED BY <1>1, <2>2, FeedKeeps
<1>2. CASE Finish
  BY <1>2, FinishKeeps
<1>3. CASE UNCHANGED textVars
  BY <1>3 DEF TextInv, VisibleTextTypeOK, textVars
<1> QED BY <1>1, <1>2, <1>3 DEF VisibleTextNext

(* Whatever is in the reply, and wherever its pieces end, what the user is  *)
(* shown of it is the beginning of what is visible of the whole, and at its *)
(* end all of that (VisibleTextStream).                                     *)
THEOREM TextIsShown == VisibleTextSpec => []ShownIsVisible
<1>1. TextInv => ShownIsVisible
  <2> SUFFICES ASSUME TextInv PROVE ShownIsVisible
    OBVIOUS
  <2>1. /\ phase \in Phases /\ ended \in BOOLEAN /\ text \in Seq(Chars) /\ buffer \in Seq(Chars)
        /\ displayed \in Seq(Chars) /\ <<>> \in Seq(Chars)
    BY DEF TextInv, VisibleTextTypeOK
  <2> DEFINE m == Meaning(phase, buffer)
  <2>2. m \in Seq(Chars)
    BY <2>1, MeaningIs
  <2>3. CASE ~ ended
    <3>1. Visible(text \o <<>>) = displayed \o Meaning(phase, buffer \o <<>>)
      BY <2>1, <2>3 DEF TextInv
    <3>2. text \o <<>> = text /\ buffer \o <<>> = buffer
      BY <2>1
    <3>3. Visible(text) = displayed \o m
      BY <3>1, <3>2
    <3>4. IsPrefix(displayed, displayed \o m)
      <4> HIDE DEF m
      <4> QED BY <2>1, <2>2, BeginsConcat
    <3> QED BY <2>3, <3>3, <3>4 DEF ShownIsVisible
  <2>4. CASE ended
    <3>1. displayed = Visible(text)
      BY <2>4 DEF TextInv
    <3>2. IsPrefix(displayed, displayed)
      BY <2>1, PrefixMeans
    <3> QED BY <3>1, <3>2 DEF ShownIsVisible
  <2> QED BY <2>1, <2>3, <2>4
<1> QED BY <1>1, TextInit, TextStep, PTL DEF VisibleTextSpec

-----------------------------------------------------------------------------
(***************************************************************************)
(* ModelStream, for any number of attempts and pieces: what is shown is    *)
(* the beginning of what one attempt delivered, and a reply that goes into *)
(* the history is shown whole.                                             *)
(***************************************************************************)

Running == {"connecting", "open", "broken"}

(* What the attempts so far can have delivered. *)
StreamPieces == 1..attempt

(* The variables' types, with sequences in the place of the sets of their   *)
(* elements.                                                                *)
StreamTypes ==
  /\ client \in Clients /\ stage \in Stages /\ attempt \in 1..MaxAttempts
  /\ texts \in Seq(StreamPieces) /\ call \in Seq(StreamPieces)
  /\ visible \in Seq(StreamPieces) /\ shown \in Seq(StreamPieces)
  /\ controls \in Seq({"queue", "steer", "cancel"})
  /\ requests \in 0..MaxRequests /\ signals \in 0..MaxControls
  /\ result.kind \in {"none", "reply"}
StreamBooleans == whole \in BOOLEAN /\ final \in BOOLEAN

(* The text received is of the attempt that goes on, because a new one      *)
(* begins only when there is none; what the engine passed on is its         *)
(* beginning and, while the request goes on, what it holds back is the      *)
(* rest.                                                                    *)
TextsOfAttempt ==
  /\ \A i \in DOMAIN texts : texts[i] = attempt
  /\ IsPrefix(shown, texts)
  /\ stage \in Running => shown \o visible = texts
  /\ stage = "ready" => texts = <<>> /\ shown = <<>> /\ visible = <<>>

(* The Anthropic client has one attempt.  A reply is handed on at the end   *)
(* of the stream and is what had been received by then.                     *)
ReplyOfStream ==
  /\ client = "anthropic" => attempt = 1
  /\ result.kind = "reply" =>
       /\ stage = "completed" /\ result.texts = texts /\ shown = texts
       /\ client = "anthropic" => final /\ result.whole /\ result.call = call

ModelStreamInv == StreamTypes /\ StreamBooleans /\ TextsOfAttempt /\ ReplyOfStream

-----------------------------------------------------------------------------
(* A sequence is a prefix of what follows it. *)
LEMMA PrefixOfConcat ==
  ASSUME NEW S, NEW s \in Seq(S), NEW t \in Seq(S) PROVE IsPrefix(s, s \o t)
  BY DEF IsPrefix

(* Appending to the second of two sequences appends to the two, and leaves  *)
(* the first a prefix.                                                      *)
LEMMA OneMore ==
  ASSUME NEW S, NEW s \in Seq(S), NEW t \in Seq(S), NEW e \in S
  PROVE  s \o Append(t, e) = Append(s \o t, e) /\ IsPrefix(s, Append(s \o t, e))
<1>1. s \o Append(t, e) = Append(s \o t, e)
  OBVIOUS
<1>2. Append(t, e) \in Seq(S)
  OBVIOUS
<1>3. QED
  BY <1>1, <1>2, PrefixOfConcat

(* The elements of a sequence over a set are in the set. *)
LEMMA ToSetOfSeq == ASSUME NEW S, NEW s \in Seq(S) PROVE ToSet(s) \subseteq S
  BY DEF ToSet

(* A set without two different members has at most one. *)
LEMMA AtMostOne ==
  ASSUME NEW S, NEW x, S \subseteq {x} PROVE IsFiniteSet(S) /\ Cardinality(S) <= 1
<1>1. CASE S = {}
  BY <1>1, FS_EmptySet
<1>2. CASE S = {x}
  <2>1. IsFiniteSet({x}) /\ Cardinality({x}) = 1
    BY FS_Singleton
  <2>2. QED
    BY <1>2, <2>1
<1>3. QED
  BY <1>1, <1>2

(* The initial states satisfy the invariant. *)
LEMMA StreamInitInv == ModelStreamInit => ModelStreamInv
<1> SUFFICES ASSUME ModelStreamInit PROVE ModelStreamInv
  OBVIOUS
<1> USE DEF ModelStreamInit, Fresh
<1>1. StreamTypes
  BY ModelStreamAssumptions DEF StreamTypes, Stages, StreamPieces, None
<1>2. StreamBooleans
  BY DEF StreamBooleans
<1>3. TextsOfAttempt
  BY DEF TextsOfAttempt, Running, IsPrefix
<1>4. ReplyOfStream
  BY DEF ReplyOfStream, None
<1>5. QED
  BY <1>1, <1>2, <1>3, <1>4 DEF ModelStreamInv

(* Every step keeps the types. *)
LEMMA StreamTypeStep ==
  ASSUME StreamTypes, [ModelStreamNext]_streamVars PROVE StreamTypes'
<1> USE DEF StreamTypes, Stages, Ends, receiving, passing, Unchanged
<1>1. UNCHANGED attempt => StreamPieces' = StreamPieces
  BY DEF StreamPieces
<1>2. attempt \in StreamPieces
  BY ModelStreamAssumptions DEF StreamPieces
<1>3. CASE UNCHANGED streamVars
  BY <1>1, <1>3 DEF streamVars
<1>4. CASE Request
  BY <1>1, <1>4, ModelStreamAssumptions DEF Request
<1>5. CASE Connected \/ LastEvent \/ Broken \/ Fail \/ IdleTimeout
  BY <1>1, <1>5 DEF Connected, LastEvent, Broken, Fail, IdleTimeout
<1>6. CASE TextDelta
  BY <1>1, <1>2, <1>6 DEF TextDelta
<1>7. CASE CallDelta
  BY <1>1, <1>2, <1>7 DEF CallDelta
<1>8. CASE RetryAttempt
  <2>1. StreamPieces \subseteq StreamPieces' /\ attempt' \in 1..MaxAttempts
    BY <1>8, ModelStreamAssumptions DEF RetryAttempt, MayRetry, StreamPieces
  <2>2. QED
    BY <1>8, <2>1 DEF RetryAttempt
<1>9. CASE StreamEnds
  <2>1. result'.kind \in {"none", "reply"}
    BY <1>9 DEF StreamEnds, Completed
  <2>2. shown' \in Seq(StreamPieces) /\ visible' \in Seq(StreamPieces)
    <3>1. shown' \in {shown, shown \o visible} /\ (visible' = visible \/ visible' = <<>>)
      BY <1>9 DEF StreamEnds
    <3>2. shown \o visible \in Seq(StreamPieces) /\ <<>> \in Seq(StreamPieces)
      OBVIOUS
    <3>3. QED
      BY <3>1, <3>2, Zenon
  <2>3. stage' \in Stages
    BY <1>9 DEF StreamEnds
  <2>4. UNCHANGED <<client, attempt, texts, call, controls, requests, signals>>
    BY <1>9 DEF StreamEnds
  <2>5. QED
    BY <1>1, <2>1, <2>2, <2>3, <2>4
<1>10. CASE Flush
  BY <1>1, <1>10 DEF Flush
<1>11. CASE TakeControl
  <2>1. Head(controls) \in {"queue", "steer", "cancel"}
    BY <1>11 DEF TakeControl
  <2>2. stage' \in {stage, "steered", "cancelled"} /\ (visible' = visible \/ visible' = <<>>)
    BY <1>11, <2>1 DEF TakeControl
  <2>3. UNCHANGED <<client, attempt, texts, call, shown, requests, signals, result>>
    BY <1>11 DEF TakeControl
  <2>4. controls' \in Seq({"queue", "steer", "cancel"})
    BY <1>11 DEF TakeControl
  <2>5. stage' \in Stages
    BY <2>2
  <2>6. visible' \in Seq(StreamPieces)
    <3>1. <<>> \in Seq(StreamPieces)
      OBVIOUS
    <3>2. QED
      BY <2>2, <3>1, Zenon
  <2>7. QED
    BY <1>1, <2>3, <2>4, <2>5, <2>6
<1>12. CASE LateControl
  BY <1>1, <1>12 DEF LateControl, None
<1>13. CASE NextRequest
  BY <1>13, ModelStreamAssumptions DEF NextRequest, None
<1>14. ASSUME NEW kind \in {"queue", "steer", "cancel"}, Control(kind)
       PROVE  StreamTypes'
  BY <1>1, <1>14, ModelStreamAssumptions DEF Control
<1>15. QED
  BY <1>3, <1>4, <1>5, <1>6, <1>7, <1>8, <1>9, <1>10, <1>11, <1>12, <1>13, <1>14
     DEF ModelStreamNext

(* Every step keeps the two flags Booleans. *)
LEMMA StreamBooleanStep ==
  ASSUME StreamBooleans, [ModelStreamNext]_streamVars PROVE StreamBooleans'
  BY DEF StreamBooleans, ModelStreamNext, streamVars, receiving, passing, Unchanged, Request,
         Connected, TextDelta, CallDelta, LastEvent, Broken, RetryAttempt, Fail, StreamEnds,
         Flush, TakeControl, LateControl, IdleTimeout, NextRequest, Control

(* Every step keeps the text that of the attempt. *)
LEMMA TextsStep ==
  ASSUME StreamTypes, TextsOfAttempt, [ModelStreamNext]_streamVars PROVE TextsOfAttempt'
<1> USE DEF StreamTypes, TextsOfAttempt, Running, receiving, passing, Unchanged
<1>1. CASE UNCHANGED streamVars
  BY <1>1 DEF streamVars
<1>2. CASE Request
  BY <1>2 DEF Request
<1>3. CASE Connected \/ CallDelta \/ LastEvent \/ Broken \/ Fail \/ IdleTimeout \/ LateControl
  BY <1>3 DEF Connected, CallDelta, LastEvent, Broken, Fail, IdleTimeout, LateControl
<1>4. CASE TextDelta
  <2>1. attempt \in StreamPieces
    BY ModelStreamAssumptions DEF StreamPieces
  <2>2. shown \o visible = texts
    BY <1>4 DEF TextDelta, Streaming
  <2>3. /\ shown \o Append(visible, attempt) = Append(texts, attempt)
        /\ IsPrefix(shown, Append(texts, attempt))
    <3>1. /\ shown \o Append(visible, attempt) = Append(shown \o visible, attempt)
          /\ IsPrefix(shown, Append(shown \o visible, attempt))
      BY <2>1, OneMore, Zenon
    <3>2. QED
      BY <2>2, <3>1, Zenon
  <2>4. \A i \in DOMAIN Append(texts, attempt) : Append(texts, attempt)[i] = attempt
    BY <2>1
  <2>5. QED
    BY <1>4, <2>3, <2>4 DEF TextDelta, Streaming
<1>5. CASE RetryAttempt
  BY <1>5 DEF RetryAttempt, MayRetry
<1>6. CASE StreamEnds
  <2>1. stage' \notin Running \cup {"ready"} /\ UNCHANGED <<texts, attempt>>
    BY <1>6 DEF StreamEnds
  <2>2. shown' \in {shown, texts}
    BY <1>6 DEF StreamEnds
  <2>3. IsPrefix(texts, texts)
    BY DEF IsPrefix
  <2>4. QED
    BY <2>1, <2>2, <2>3
<1>7. CASE Flush
  BY <1>7 DEF Flush, IsPrefix
<1>8. CASE TakeControl
  <2>1. Head(controls) \in {"queue", "steer", "cancel"}
    BY <1>8 DEF TakeControl
  <2>2. \/ UNCHANGED <<stage, visible>>
        \/ stage' \notin Running \cup {"ready"}
    BY <1>8, <2>1 DEF TakeControl
  <2>3. QED
    BY <1>8, <2>2 DEF TakeControl
<1>9. CASE NextRequest
  BY <1>9 DEF NextRequest, IsPrefix
<1>10. ASSUME NEW kind \in {"queue", "steer", "cancel"}, Control(kind)
       PROVE  TextsOfAttempt'
  BY <1>10 DEF Control
<1>11. QED
  BY <1>1, <1>2, <1>3, <1>4, <1>5, <1>6, <1>7, <1>8, <1>9, <1>10 DEF ModelStreamNext

(* Every step keeps a reply what the stream delivered. *)
LEMMA ReplyStep ==
  ASSUME StreamTypes, TextsOfAttempt, ReplyOfStream, [ModelStreamNext]_streamVars
  PROVE  ReplyOfStream'
<1> USE DEF StreamTypes, TextsOfAttempt, Running, ReplyOfStream, receiving, passing, Unchanged
<1>1. CASE UNCHANGED streamVars
  BY <1>1 DEF streamVars
<1>2. CASE Request \/ Connected \/ Fail \/ IdleTimeout \/ RetryAttempt
  BY <1>2 DEF Request, Connected, Fail, IdleTimeout, RetryAttempt, MayRetry
<1>3. CASE TextDelta \/ CallDelta \/ LastEvent \/ Broken
  BY <1>3 DEF TextDelta, CallDelta, LastEvent, Broken, Streaming
<1>4. CASE StreamEnds
  <2>1. CASE Accepts
    <3>1. stage' = "completed" /\ result' = Completed /\ shown' = shown \o visible
      BY <1>4, <2>1 DEF StreamEnds
    <3>2. UNCHANGED <<client, attempt, texts, call, whole, final>>
      BY <1>4 DEF StreamEnds
    <3>3. shown' = texts'
      BY <1>4, <3>1, <3>2 DEF StreamEnds
    <3>4. client = "anthropic" => final /\ whole
      BY <2>1, Zenon DEF Accepts
    <3>5. result'.whole = whole /\ result'.texts = texts
      BY <3>1 DEF Completed
    <3>6. client = "anthropic" => result'.call = call
      BY <3>1 DEF Completed
    <3>7. QED
      BY <3>1, <3>2, <3>3, <3>4, <3>5, <3>6, Zenon
  <2>2. CASE ~Accepts
    BY <1>4, <2>2 DEF StreamEnds
  <2>3. QED
    BY <2>1, <2>2
<1>5. CASE Flush \/ TakeControl
  BY <1>5 DEF Flush, TakeControl
<1>6. CASE LateControl
  BY <1>6 DEF LateControl, None
<1>7. CASE NextRequest
  BY <1>7 DEF NextRequest, None
<1>8. ASSUME NEW kind \in {"queue", "steer", "cancel"}, Control(kind)
      PROVE  ReplyOfStream'
  BY <1>8 DEF Control
<1>9. QED
  BY <1>1, <1>2, <1>3, <1>4, <1>5, <1>6, <1>7, <1>8 DEF ModelStreamNext

(* The invariant holds of every turn, with either client. *)
THEOREM StreamInvariant == ModelStreamSpec => []ModelStreamInv
<1>1. ModelStreamInv /\ [ModelStreamNext]_streamVars => ModelStreamInv'
  BY StreamTypeStep, StreamBooleanStep, TextsStep, ReplyStep DEF ModelStreamInv
<1>2. QED
  BY StreamInitInv, <1>1, PTL DEF ModelStreamSpec

(* Of a reply the user sees the beginning of what one attempt delivered,    *)
(* and the whole of it when it goes into the history; the Anthropic client  *)
(* hands on complete calls only.                                            *)
THEOREM RepliesAreWhole == ModelStreamSpec => []ReplyIsWhole
<1>1. ModelStreamInv => ReplyIsWhole
  <2> SUFFICES ASSUME ModelStreamInv PROVE ReplyIsWhole
    OBVIOUS
  <2> USE DEF ModelStreamInv, StreamTypes, TextsOfAttempt, ReplyOfStream
  <2>1. Cardinality(ToSet(texts)) <= 1
    <3>1. ToSet(texts) \subseteq {attempt}
      BY DEF ToSet
    <3>2. QED
      BY <3>1, AtMostOne
  <2>2. client = "anthropic" => Cardinality(ToSet(call)) <= 1
    <3>1. client = "anthropic" => ToSet(call) \subseteq {1}
      BY DEF ToSet, StreamPieces
    <3>2. QED
      BY <3>1, AtMostOne
  <2>3. QED
    BY <2>1, <2>2 DEF ReplyIsWhole, OneAttemptShown, CallsWhole
<1>2. QED
  BY StreamInvariant, <1>1, PTL

(* The types of a stream, of which the sets are of sequences.               *)
LEMMA ModelStreamTypes == ModelStreamInv => ModelStreamTypeOK
<1> SUFFICES ASSUME ModelStreamInv PROVE ModelStreamTypeOK
  OBVIOUS
<1> USE DEF ModelStreamInv, StreamTypes, StreamBooleans
<1>1. /\ ToSet(texts) \subseteq StreamPieces /\ ToSet(call) \subseteq StreamPieces
      /\ ToSet(visible) \subseteq StreamPieces /\ ToSet(shown) \subseteq StreamPieces
  BY ToSetOfSeq
<1>2. ToSet(controls) \subseteq {"queue", "steer", "cancel"}
  BY ToSetOfSeq
<1>3. whole \in BOOLEAN /\ final \in BOOLEAN
  BY Zenon
<1>4. {whole, final} \subseteq BOOLEAN
  BY <1>3, Zenon
<1>5. \A s \in {texts, call, visible, shown} : ToSet(s) \subseteq 1..attempt
  BY <1>1 DEF StreamPieces
<1>6. /\ client \in Clients /\ stage \in Stages /\ attempt \in 1..MaxAttempts
      /\ requests \in 0..MaxRequests /\ signals \in 0..MaxControls
      /\ result.kind \in {"none", "reply"}
  OBVIOUS
<1> QED BY <1>2, <1>4, <1>5, <1>6, Zenon DEF ModelStreamTypeOK

-----------------------------------------------------------------------------
(***************************************************************************)
(* Readiness, for any number of tool calls and reviews: an answer that     *)
(* ends a turn as a success is backed as the readiness mode asks.          *)
(***************************************************************************)

(* What stands behind an answer that goes out. *)
Backed ==
  /\ mode = "strict" /\ version > 1 => verified = version
  /\ mode = "soft" => Reasons = {} \/ \E n \in notices : n[2] = Reasons
  /\ ~objected

(* The evidence says of the workspace what the tools did to it: it is       *)
(* known to be changed when it was, and the signal is "passed" only for the *)
(* version as it is.                                                        *)
EvidenceIsTrue ==
  /\ version \in Nat
  /\ version > 1 => changed
  /\ signal = "passed" => verified = version

(* The notices have the reasons the state remembers, each once. *)
NoticesRemembered ==
  /\ \A n \in notices : n[2] \in reminded
  /\ \A r \in reminded : \E n \in notices : n[2] = r
  /\ RemindedOnce

(* An answer on its way out is backed, and a turn that is over stays so. *)
AcceptedIsBacked ==
  /\ point = "accepted" \/ status = "completed" => Backed
  /\ status = "completed" => point = "ended"

ReadinessInv == EvidenceIsTrue /\ NoticesRemembered /\ AcceptedIsBacked

(* The initial states satisfy the invariant. *)
LEMMA ReadinessInitInv == ReadinessInit => ReadinessInv
  BY DEF ReadinessInit, ReadinessInv, EvidenceIsTrue, NoticesRemembered, AcceptedIsBacked,
         RemindedOnce

(* The steps that leave the evidence alone. *)
LEMMA SameReasons == UNCHANGED Recorded => Reasons' = Reasons
  BY DEF Recorded, Reasons, UnresolvedTodo, PressureUnreduced, SummaryWithoutDelta,
         UsageUnavailable, CompactNetNegative, SummaryQualityLow, CompactionFailed, UnderPressure

(* Every step keeps the evidence true. *)
LEMMA EvidenceTrueStep ==
  ASSUME EvidenceIsTrue, [ReadinessNext]_readinessVars PROVE EvidenceIsTrue'
<1> USE DEF EvidenceIsTrue
<1>1. ASSUME NEW o \in Outcomes, NEW v \in BOOLEAN, ToolExecuted(o[1], o[2], v)
      PROVE  EvidenceIsTrue'
  <2>1. CASE o[2]
    <3>1. changed'
      BY <1>1, <2>1, Zenon DEF ToolExecuted
    <3>2. version' = version + 1
      BY <1>1, <2>1 DEF ToolExecuted
    <3>3. signal' = "passed" => v /\ o[1] = "ok"
      BY <1>1, <2>1 DEF ToolExecuted, SignalAfter
    <3>4. v /\ o[1] = "ok" => verified' = version'
      BY <1>1 DEF ToolExecuted
    <3>5. QED
      BY <3>1, <3>2, <3>3, <3>4
  <2>2. CASE ~o[2]
    <3>1. changed => changed'
      BY <1>1, Zenon DEF ToolExecuted
    <3>2. version' = version
      BY <1>1, <2>2 DEF ToolExecuted
    <3>3. signal' = "passed" => (v /\ o[1] = "ok") \/ (~v /\ signal = "passed")
      BY <1>1, <2>2 DEF ToolExecuted, SignalAfter
    <3>4. (v /\ o[1] = "ok" => verified' = version') /\ (~v => verified' = verified)
      BY <1>1 DEF ToolExecuted
    <3>5. QED
      BY <3>1, <3>2, <3>3, <3>4
  <2>3. QED
    BY <2>1, <2>2
<1>2. CASE UNCHANGED <<signal, changed, version, verified>>
  BY <1>2
<1>3. QED
  BY <1>1, <1>2 DEF ReadinessNext, readinessVars, AskModel, Steer, Abort, FinishTurn,
     OutOfAttempts, TodoChanged, Propose, Recorded

(* What an answer that is let through had going for it. *)
LEMMA LetThrough ==
  ASSUME EvidenceIsTrue, NoticesRemembered, NEW said \in [Hooks -> HookWords], Propose(said),
         point' = "accepted"
  PROVE  /\ mode = "strict" /\ version > 1 => verified = version
         /\ mode = "soft" => Reasons = {} \/ \E n \in notices : n[2] = Reasons
         /\ ~\E h \in Hooks : said[h] \in {"block", "runtime_notice"}
         /\ reminded' = reminded /\ notices' = notices
<1> DEFINE verdict == IF mode = "off" THEN "allow" ELSE Decision(Reasons)
<1>1. /\ HookAction(said) \notin {"runtime_notice", "block"}
      /\ HookAction(said) = "allow" => verdict \notin {"remind", "block"}
  BY DEF Propose
<1>2. HookAction(said) = "allow" /\ ~\E h \in Hooks : Heeded(said[h]) \in {"block", "runtime_notice"}
  BY <1>1 DEF HookAction
<1>3. ~\E h \in Hooks : said[h] \in {"block", "runtime_notice"}
  BY <1>2 DEF Heeded
<1>4. mode # "off" => Decision(Reasons) \notin {"remind", "block"}
  BY <1>1, <1>2
<1>5. mode = "soft" => Reasons = {} \/ Reasons \in reminded
  BY <1>4 DEF Decision
<1>6. mode = "strict" => Reasons = {} \/ Reasons \cap Hard = {}
  BY <1>4 DEF Decision
<1>7. changed /\ signal # "passed" => "changed_paths_without_verification" \in Reasons \cap Hard
  BY DEF Reasons, Hard
<1>8. reminded' = reminded /\ notices' = notices
  BY <1>1, <1>2 DEF Propose
<1>9. QED
  BY <1>3, <1>5, <1>6, <1>7, <1>8 DEF EvidenceIsTrue, NoticesRemembered

(* Every step keeps the notices what the state remembers of them. *)
LEMMA NoticesStep ==
  ASSUME NoticesRemembered, [ReadinessNext]_readinessVars PROVE NoticesRemembered'
<1> USE DEF NoticesRemembered, RemindedOnce
<1>1. ASSUME NEW said \in [Hooks -> HookWords], Propose(said)
      PROVE  NoticesRemembered'
  <2>1. CASE UNCHANGED <<reminded, notices>>
    BY <2>1
  <2>2. CASE /\ Reasons \notin reminded
             /\ reminded' = reminded \cup {Reasons}
             /\ notices' = notices \cup {<<Cardinality(notices) + 1, Reasons>>}
    <3> DEFINE new == <<Cardinality(notices) + 1, Reasons>>
    <3>1. new[2] = Reasons
      OBVIOUS
    <3>2. notices' = notices \cup {new}
      BY <2>2
    <3> HIDE DEF new
    <3>3. QED
      BY <2>2, <3>1, <3>2
  <2>3. UNCHANGED <<reminded, notices>>
        \/ /\ Reasons \notin reminded
           /\ reminded' = reminded \cup {Reasons}
           /\ notices' = notices \cup {<<Cardinality(notices) + 1, Reasons>>}
    BY <1>1 DEF Propose, Decision
  <2>4. QED
    BY <2>1, <2>2, <2>3
<1>2. CASE UNCHANGED <<reminded, notices>>
  BY <1>2
<1>3. QED
  BY <1>1, <1>2 DEF ReadinessNext, readinessVars, AskModel, Steer, Abort, FinishTurn,
     OutOfAttempts, TodoChanged, ToolExecuted

(* Every step keeps an answer on its way out backed. *)
LEMMA AcceptedStep ==
  ASSUME EvidenceIsTrue, NoticesRemembered, AcceptedIsBacked, [ReadinessNext]_readinessVars
  PROVE  AcceptedIsBacked'
<1>1. CASE UNCHANGED readinessVars
  <2>1. Reasons' = Reasons
    BY <1>1, SameReasons DEF readinessVars, Recorded
  <2>2. QED
    BY <1>1, <2>1 DEF AcceptedIsBacked, Backed, readinessVars
<1>2. CASE AskModel
  BY <1>2 DEF AskModel, AcceptedIsBacked
<1>3. CASE Steer \/ Abort \/ OutOfAttempts
  BY <1>3 DEF Steer, Abort, OutOfAttempts, AcceptedIsBacked
<1>4. CASE FinishTurn
  <2>1. Reasons' = Reasons
    BY <1>4, SameReasons DEF FinishTurn
  <2>2. QED
    BY <1>4, <2>1 DEF FinishTurn, Recorded, AcceptedIsBacked, Backed
<1>5. ASSUME NEW o \in Outcomes, NEW v \in BOOLEAN, ToolExecuted(o[1], o[2], v)
      PROVE  AcceptedIsBacked'
  BY <1>5 DEF ToolExecuted, AcceptedIsBacked
<1>6. ASSUME NEW t \in Todos, TodoChanged(t)
      PROVE  AcceptedIsBacked'
  BY <1>6 DEF TodoChanged, AcceptedIsBacked
<1>7. ASSUME NEW said \in [Hooks -> HookWords], Propose(said)
      PROVE  AcceptedIsBacked'
  <2>1. status' # "completed"
    BY <1>7 DEF Propose, AcceptedIsBacked
  <2>2. ASSUME point' = "accepted"
        PROVE  Backed'
    <3>1. Reasons' = Reasons
      BY <1>7, SameReasons DEF Propose
    <3>2. objected' = \E h \in Hooks : said[h] \in {"block", "runtime_notice"}
      BY <1>7, Zenon DEF Propose
    <3>3. UNCHANGED <<mode, version, verified>>
      BY <1>7 DEF Propose, Recorded
    <3>4. /\ mode = "strict" /\ version > 1 => verified = version
          /\ mode = "soft" => Reasons = {} \/ \E n \in notices : n[2] = Reasons
          /\ ~\E h \in Hooks : said[h] \in {"block", "runtime_notice"}
          /\ notices' = notices
      BY <1>7, <2>2, LetThrough
    <3>5. ~objected'
      BY <3>2, <3>4, Zenon
    <3>6. QED
      BY <3>1, <3>3, <3>4, <3>5 DEF Backed
  <2>3. QED
    BY <2>1, <2>2 DEF AcceptedIsBacked
<1>8. QED
  BY <1>1, <1>2, <1>3, <1>4, <1>5, <1>6, <1>7 DEF ReadinessNext

(* Whatever the hooks, the todos and the prompts: an answer that ends a     *)
(* turn as a success was backed by the evidence as its mode asks and by     *)
(* every hook, and no reason sent the model back twice.                     *)
THEOREM SuccessIsBacked == ReadinessSpec => []AnswersAreBacked
<1>1. ReadinessInv /\ [ReadinessNext]_readinessVars => ReadinessInv'
  BY EvidenceTrueStep, NoticesStep, AcceptedStep DEF ReadinessInv
<1>2. ReadinessInv => AnswersAreBacked
  BY DEF ReadinessInv, NoticesRemembered, AcceptedIsBacked, Backed, AnswersAreBacked, ClaimIsBacked
<1>3. QED
  BY ReadinessInitInv, <1>1, <1>2, PTL DEF ReadinessSpec

(* What a turn that may end says of itself (ReadinessTypeOK).               *)
LEMMA ReadinessTypes ==
  /\ ReadinessInit => ReadinessTypeOK
  /\ ReadinessTypeOK /\ [ReadinessNext]_readinessVars => ReadinessTypeOK'
<1> DEFINE Told == Hard \cup {"unresolved_high_priority_todo",
       "context_pressure_without_reduction", "tier3_summary_without_delta",
       "provider_real_token_usage_unavailable", "compact_net_negative",
       "compact_summary_quality_low"}
<1>1. MaxModelCalls \in Nat /\ MaxChanges \in Nat
  BY ReadinessAssumptions
<1>2. Reasons \in SUBSET Told
  BY DEF Reasons, Hard
<1> HIDE DEF Told
<1>3. ASSUME ReadinessInit PROVE ReadinessTypeOK
  <2> DEFINE TodoStates == [priority : {"none", "normal", "high"}, status : {"none", "pending", "completed"}]
  <2>1. changed \in BOOLEAN /\ partial \in BOOLEAN /\ denials \in BOOLEAN /\ objected \in BOOLEAN
    BY <1>3, Zenon DEF ReadinessInit
  <2>2. {changed, partial, denials, objected} \subseteq BOOLEAN
    BY <2>1, Zenon
  <2>3. NoTodo \in TodoStates
    BY DEF NoTodo
  <2> HIDE DEF TodoStates
  <2>4. todos \in [Todos -> TodoStates]
    BY <1>3, <2>3 DEF ReadinessInit
  <2>5. /\ mode \in Modes /\ status = "running" /\ point = "loop" /\ attempts = 0
        /\ signal = "none" /\ version = 1 /\ verified = 0 /\ reminded = {}
    BY <1>3 DEF ReadinessInit
  <2> QED BY <1>1, <2>2, <2>4, <2>5 DEF ReadinessTypeOK, TodoStates
<1>4. ASSUME ReadinessTypeOK, [ReadinessNext]_readinessVars PROVE ReadinessTypeOK'
  <2> DEFINE Where == {"loop", "replied", "tools", "accepted", "ended"}
             Endings == {"running", "completed", "stopped"}
             Verdicts == {"none", "missing", "passed", "failed"}
             TodoStates == [priority : {"none", "normal", "high"}, status : {"none", "pending", "completed"}]
  <2>1. /\ mode \in Modes /\ status \in Endings /\ point \in Where /\ attempts \in 0..MaxModelCalls
        /\ signal \in Verdicts /\ {changed, partial, denials, objected} \subseteq BOOLEAN
        /\ todos \in [Todos -> TodoStates] /\ version \in 1..(MaxChanges + 2)
        /\ verified \in 0..version /\ reminded \subseteq SUBSET Told
    BY <1>4 DEF ReadinessTypeOK, Told
  <2>2. SUFFICES /\ mode' \in Modes /\ status' \in Endings /\ point' \in Where
                 /\ attempts' \in 0..MaxModelCalls /\ signal' \in Verdicts
                 /\ {changed', partial', denials', objected'} \subseteq BOOLEAN
                 /\ todos' \in [Todos -> TodoStates] /\ version' \in 1..(MaxChanges + 2)
                 /\ verified' \in 0..version' /\ reminded' \subseteq SUBSET Told
    BY DEF ReadinessTypeOK, Told, Hard
  <2> HIDE DEF TodoStates
  <2>3. CASE AskModel
    BY <1>1, <2>1, <2>3 DEF AskModel
  <2>4. CASE Steer \/ Abort \/ FinishTurn \/ OutOfAttempts \/ UNCHANGED readinessVars
    BY <2>1, <2>4 DEF Steer, Abort, FinishTurn, OutOfAttempts, Recorded, readinessVars
  <2>5. ASSUME NEW o \in Outcomes, NEW v \in BOOLEAN, ToolExecuted(o[1], o[2], v)
        PROVE  /\ UNCHANGED <<mode, status, attempts, todos, reminded>> /\ point' \in Where
               /\ signal' \in Verdicts /\ {changed', partial', denials', objected'} \subseteq BOOLEAN
               /\ version' \in 1..(MaxChanges + 2) /\ verified' \in 0..version'
    <3>1. UNCHANGED <<mode, status, attempts, todos, reminded, objected>> /\ point' \in Where
      BY <2>5 DEF ToolExecuted
    <3>2. signal' \in Verdicts
      BY <2>1, <2>5 DEF ToolExecuted, SignalAfter
    <3>3. {changed', partial', denials', objected'} \subseteq BOOLEAN
      <4>2. changed' \in BOOLEAN /\ partial' \in BOOLEAN /\ denials' \in BOOLEAN
        BY <2>5, Zenon DEF ToolExecuted
      <4> QED BY <2>1, <3>1, <4>2
    <3>4. version' \in 1..(MaxChanges + 2) /\ version <= version'
      BY <1>1, <2>1, <2>5 DEF ToolExecuted
    <3>5. verified' \in 0..version'
      BY <1>1, <2>1, <2>5, <3>4 DEF ToolExecuted
    <3> QED BY <3>1, <3>2, <3>3, <3>4, <3>5
  <2>6. ASSUME NEW t \in Todos, TodoChanged(t)
        PROVE  /\ UNCHANGED <<mode, status, attempts, signal, changed, partial, denials, reminded,
                              version, verified, objected>>
               /\ point' \in Where /\ todos' \in [Todos -> TodoStates]
    <3>1. PICK priority \in {"normal", "high"}, now \in {"pending", "completed"} :
            todos' = [todos EXCEPT ![t] = [priority |-> priority, status |-> now]]
      BY <2>6 DEF TodoChanged
    <3>2. [priority |-> priority, status |-> now] \in TodoStates
      BY DEF TodoStates
    <3>3. todos' \in [Todos -> TodoStates]
      BY <2>1, <3>1, <3>2
    <3> QED BY <2>6, <3>3 DEF TodoChanged
  <2>7. ASSUME NEW said \in [Hooks -> HookWords], Propose(said)
        PROVE  /\ UNCHANGED <<mode, attempts, signal, changed, partial, denials, todos, version,
                              verified>>
               /\ point' \in Where /\ status' \in Endings /\ objected' \in BOOLEAN
               /\ reminded' \subseteq SUBSET Told
    <3>1. UNCHANGED <<mode, attempts, signal, changed, partial, denials, todos, version, verified>>
      BY <2>7 DEF Propose, Recorded
    <3>2. point' \in Where /\ status' \in Endings
      BY <2>1, <2>7 DEF Propose
    <3>3. objected' \in BOOLEAN
      BY <2>7, Zenon DEF Propose
    <3>4. reminded' = reminded \/ reminded' = reminded \cup {Reasons}
      BY <2>7 DEF Propose
    <3> QED BY <1>2, <2>1, <3>1, <3>2, <3>3, <3>4
  <2>8. ASSUME NEW o \in Outcomes, NEW v \in BOOLEAN, ToolExecuted(o[1], o[2], v)
        PROVE  /\ mode' \in Modes /\ status' \in Endings /\ attempts' \in 0..MaxModelCalls
               /\ todos' \in [Todos -> TodoStates] /\ reminded' \subseteq SUBSET Told
    BY <2>1, <2>5, <2>8
  <2>9. ASSUME NEW t \in Todos, TodoChanged(t)
        PROVE  /\ mode' \in Modes /\ status' \in Endings /\ attempts' \in 0..MaxModelCalls
               /\ signal' \in Verdicts /\ {changed', partial', denials', objected'} \subseteq BOOLEAN
               /\ version' \in 1..(MaxChanges + 2) /\ verified' \in 0..version'
               /\ reminded' \subseteq SUBSET Told
    BY <2>1, <2>6, <2>9
  <2>10. ASSUME NEW said \in [Hooks -> HookWords], Propose(said)
         PROVE  /\ mode' \in Modes /\ attempts' \in 0..MaxModelCalls /\ signal' \in Verdicts
                /\ {changed', partial', denials', objected'} \subseteq BOOLEAN
                /\ todos' \in [Todos -> TodoStates] /\ version' \in 1..(MaxChanges + 2)
                /\ verified' \in 0..version'
    BY <2>1, <2>7, <2>10
  <2> QED BY <1>4, <2>3, <2>4, <2>5, <2>6, <2>7, <2>8, <2>9, <2>10 DEF ReadinessNext
<1> QED BY <1>3, <1>4

-----------------------------------------------------------------------------
(* The nine parts in one specification: each of its steps is one of each    *)
(* part's, or leaves it alone, so what is proved of the parts holds of it.  *)

(* A step of a request is one of each part's, or leaves the part alone. *)
LEMMA StepsOfParts ==
  ASSUME [Next]_vars
  PROVE  /\ [ChatHistoryNext]_chatVars /\ [PromptBudgetNext]_promptVars
         /\ [VisibleTextNext]_textVars /\ [ModelStreamNext]_streamVars
         /\ [EvidenceNext]_evidenceVars /\ [ChunkingNext]_chunkingVars
         /\ [NotesNext]_notesVars /\ [ReadinessNext]_readinessVars
         /\ [SettingsNext]_settingsVars
<1> USE DEF requestVars, retrievalVars, endVars
<1>1. CASE HistoryMoves
  BY <1>1, Zenon DEF HistoryMoves
<1>2. CASE PromptMoves
  BY <1>2, Zenon DEF PromptMoves
<1>3. CASE TextMoves
  BY <1>3, Zenon DEF TextMoves
<1>4. CASE StreamMoves
  BY <1>4, Zenon DEF StreamMoves
<1>5. CASE EvidenceMoves
  BY <1>5, Zenon DEF EvidenceMoves
<1>6. CASE ChunksMove
  BY <1>6, Zenon DEF ChunksMove
<1>7. CASE NotesMove
  BY <1>7, Zenon DEF NotesMove
<1>8. CASE EndMoves
  BY <1>8, Zenon DEF EndMoves
<1>9. CASE SettingsMove
  BY <1>9, Zenon DEF SettingsMove
<1>10. CASE UNCHANGED vars
  BY <1>10 DEF vars
<1> QED BY <1>1, <1>2, <1>3, <1>4, <1>5, <1>6, <1>7, <1>8, <1>9, <1>10, Zenon DEF Next

(* So that every part behaves as its own specification says. *)
LEMMA RequestIsItsParts ==
  Spec => /\ ChatHistorySpec /\ PromptBudgetSpec /\ VisibleTextSpec /\ ModelStreamSpec
          /\ EvidenceSpec /\ ChunkingSpec /\ NotesSpec /\ ReadinessSpec /\ SettingsSpec
<1>1. Init => /\ ChatHistoryInit /\ PromptBudgetInit /\ VisibleTextInit /\ ModelStreamInit
              /\ EvidenceInit /\ ChunkingInit /\ NotesInit /\ ReadinessInit /\ SettingsInit
  BY DEF Init
<1> QED
  BY <1>1, StepsOfParts, PTL
  DEF Spec, ChatHistorySpec, PromptBudgetSpec, VisibleTextSpec, ModelStreamSpec,
      EvidenceSpec, ChunkingSpec, NotesSpec, ReadinessSpec, SettingsSpec

(* The variables of all that a request is made of, and of what comes back,  *)
(* keep their types and bounds, for every value of the constants.           *)
THEOREM RequestTypesCorrect == Spec => []TypesOK
<1>1. ChatHistorySpec => []ChatHistoryTypeOK
  BY KeptInitInv, KeptStep, ChatHistoryTypes, PTL DEF ChatHistorySpec
<1>2. VisibleTextSpec => []VisibleTextTypeOK
  <2>1. TextInv => VisibleTextTypeOK
    BY DEF TextInv
  <2> QED BY <2>1, TextInit, TextStep, PTL DEF VisibleTextSpec
<1>3. ModelStreamSpec => []ModelStreamTypeOK
  BY StreamInvariant, ModelStreamTypes, PTL
<1>4. EvidenceSpec => []EvidenceTypeOK
  BY EvidenceInvariant, EvidenceTypes, PTL
<1>5. ChunkingSpec => []ChunkingTypeOK
  BY ChunkingTypes, PTL DEF ChunkingSpec
<1>6. NotesSpec => []NotesTypeOK
  <2>1. NotesInit => NotesInv /\ FoundInv /\ NotesTypeOK
    BY NotesInitInv, NotesTypes
  <2>2. NotesInv /\ FoundInv /\ NotesTypeOK /\ [NotesNext]_notesVars
        => (NotesInv /\ FoundInv /\ NotesTypeOK)'
    BY NotesStep, NotesTypes
  <2> QED BY <2>1, <2>2, PTL DEF NotesSpec
<1>7. ReadinessSpec => []ReadinessTypeOK
  BY ReadinessTypes, PTL DEF ReadinessSpec
<1>8. SettingsSpec => []SettingsTypeOK
  <2>1. SettingsInit => SettingsInv /\ SettingsTypeOK
    BY SettingsInitInv, SettingsTypes
  <2>2. SettingsInv /\ SettingsTypeOK /\ [SettingsNext]_settingsVars
        => (SettingsInv /\ SettingsTypeOK)'
    BY SettingsStep, SettingsTypes
  <2> QED BY <2>1, <2>2, PTL DEF SettingsSpec
<1>9. /\ ChatHistoryTypeOK /\ PromptBudgetTypeOK /\ VisibleTextTypeOK /\ ModelStreamTypeOK
      /\ EvidenceTypeOK /\ ChunkingTypeOK /\ NotesTypeOK /\ ReadinessTypeOK /\ SettingsTypeOK
      => TypesOK
  BY DEF TypesOK
<1> QED
  BY <1>1, <1>2, <1>3, <1>4, <1>5, <1>6, <1>7, <1>8, <1>9, PromptTypesCorrect,
     RequestIsItsParts, PTL
=============================================================================
