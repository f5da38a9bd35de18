---------------------- MODULE ConversationHistory_proofs ----------------------
(***************************************************************************)
(* Proofs about ConversationHistory, for every number of turns and         *)
(* threads, every length of the deque, and any faults.                     *)
(***************************************************************************)
EXTENDS ConversationHistory, SequenceTheorems, TLAPS

\* A summary can only be the first of the messages.
Fronted(s) == \A i \in 1 .. Len(s) : s[i] = Summary => i = 1

Holding(t) == comp[t].at \in {"compact", "swap"}

\* A turn that is not under way has no deque in hand, one that will fill or append has one,
\* and its compaction starts when it is over.
Placed(t) ==
  /\ ~Active(t) => turn[t].hist = NoDeque
  /\ turn[t].at \in {"select", "fill", "append"} => turn[t].hist # NoDeque
  /\ turn[t].at \in {"new", "commit", "reply"} => turn[t].for = "begin"
  /\ Len(turn[t].rows) <= MaxLen
  /\ comp[t].at # "idle" => turn[t].at = "over"

PlaceInv == \A t \in T : Placed(t)

\* A conversation that is not in memory has no messages there; one that was appended to has.
MemoryInv ==
  /\ deque = NoDeque => ring = <<>>
  /\ newest # 0 => ring # <<>>

\* What a compaction read, and what it is about to put back.
Snapped(t) ==
  Holding(t) =>
    /\ comp[t].snap # <<>> /\ Len(comp[t].snap) <= MaxLen /\ Fronted(comp[t].snap)
    /\ comp[t].rev <= rev
    /\ comp[t].forced <=> Len(comp[t].snap) >= ForceAt

SnapInv == \A t \in T : Snapped(t)

Compacted(t) ==
  comp[t].at = "swap" =>
    /\ comp[t].out \in {comp[t].snap, <<Summary>> \o Kept(comp[t].snap), Kept(comp[t].snap)}
    /\ comp[t].forced /\ comp[t].out # comp[t].snap =>
         /\ comp[t].out = <<Summary>> \o Kept(comp[t].snap)
         /\ Compressed(comp[t].snap) \subseteq saved

OutInv == \A t \in T : Compacted(t)

\* Nothing was appended since a compaction read the deque ...
Current(t) == Holding(t) /\ newest # 0 /\ comp[t].rev = rev

\* ... and then what it read ends with the message that was appended last.
RevInv ==
  \A t \in T : Current(t) => comp[t].snap = <<Summary>> \/ Last(comp[t].snap) = newest

Inv ==
  /\ TypeOK /\ PlaceInv /\ MemoryInv /\ SnapInv /\ OutInv /\ RevInv
  /\ SummaryFirst /\ NewestKept

\* As long as nothing was appended since a compaction read the deque, others have only made
\* it shorter: if its length is what it was, and large enough to force a compaction, so are
\* its contents.
SameInv ==
  \A t \in T : Current(t) =>
    /\ Len(ring) <= Len(comp[t].snap)
    /\ Len(ring) = Len(comp[t].snap) /\ comp[t].forced => ring = comp[t].snap

\* A turn has appended the user's message and not yet the answer.
Owing(t) == Active(t) /\ turn[t].for = "assistant"
OneOwes  == \A t, u \in T : Owing(t) /\ Owing(u) => t = u

\* The messages a turn that is alone may still append.
Room == IF \E t \in T : Owing(t) THEN 1 ELSE 2

\* With one turn at most that owes its answer, and none that took the last room without an answer, the deque
\* has room for what a turn appends, or a compaction is yet to look at it, or one that was
\* forced is yet to make room.
RoomInv ==
  OneOwes /\ ~behind /\ ~skipped =>
    \/ Len(ring) + Room <= MaxLen
    \/ \E t \in T : comp[t].at = "snapshot" \/ (Holding(t) /\ comp[t].forced)

-----------------------------------------------------------------------------
\* What the operators on the deque compute.
LEMMA BoundsNat == MaxLen \in Nat /\ MaxLen >= 6 /\ Keep \in Nat /\ MaxTurns \in Nat
BY ConversationAssumption

LEMMA MaxOfTwo ==
  ASSUME NEW a \in Int, NEW b \in Int
  PROVE  Max({a, b}) = IF a >= b THEN a ELSE b
<1> DEFINE m == IF a >= b THEN a ELSE b
<1>1. m \in {a, b} /\ \A y \in {a, b} : m >= y
  OBVIOUS
<1>2. \A x \in {a, b} : (\A y \in {a, b} : x >= y) => x = m
  OBVIOUS
<1> HIDE DEF m
<1> QED
  BY <1>1, <1>2 DEF Max

LEMMA ForceAtBounds ==
  ForceAt \in Nat /\ ForceAt >= 4 /\ ForceAt + 2 <= MaxLen
BY BoundsNat, MaxOfTwo DEF ForceAt

LEMMA RecentOf ==
  ASSUME NEW S, NEW s \in Seq(S), NEW n \in Nat
  PROVE  /\ Recent(s, n) \in Seq(S)
         /\ Len(Recent(s, n)) = IF Len(s) > n THEN n ELSE Len(s)
         /\ \A i \in 1 .. Len(Recent(s, n)) :
              Recent(s, n)[i] = s[Len(s) - Len(Recent(s, n)) + i]
<1> DEFINE k == IF Len(s) > n THEN Len(s) - n + 1 ELSE 1
<1>1. k \in Int /\ Len(s) \in Int /\ Len(s) >= 0 /\ k >= 1
  OBVIOUS
<1>2. \A i \in k .. Len(s) : s[i] \in S
  BY <1>1
<1>3. Recent(s, n) = SubSeq(s, k, Len(s))
  BY DEF Recent
<1>4. IF Len(s) > n THEN k = Len(s) - n + 1 ELSE k = 1
  OBVIOUS
<1> HIDE DEF k
<1>5. /\ Recent(s, n) \in Seq(S)
      /\ Len(Recent(s, n)) = IF k <= Len(s) THEN Len(s) - k + 1 ELSE 0
      /\ \A i \in 1 .. Len(s) - k + 1 : Recent(s, n)[i] = s[k + i - 1]
  BY <1>1, <1>2, <1>3, SubSeqProperties
<1>6. Len(Recent(s, n)) = Len(s) - k + 1
  BY <1>1, <1>4, <1>5
<1>7. Len(Recent(s, n)) = IF Len(s) > n THEN n ELSE Len(s)
  BY <1>1, <1>4, <1>6
<1>8. k = Len(s) - Len(Recent(s, n)) + 1
  BY <1>1, <1>6
<1>9. ASSUME NEW i \in 1 .. Len(Recent(s, n))
      PROVE  Recent(s, n)[i] = s[Len(s) - Len(Recent(s, n)) + i]
  <2>1. Recent(s, n)[i] = s[k + i - 1]
    BY <1>5, <1>6
  <2>2. k + i - 1 = Len(s) - Len(Recent(s, n)) + i
    BY <1>1, <1>6
  <2> QED
    BY <2>1, <2>2
<1> QED
  BY <1>5, <1>7, <1>9

\* What a compaction leaves as it is: the last messages, never the first one, which is the
\* only one that may be a summary.
LEMMA KeptOf ==
  ASSUME NEW s \in Seq(Entry), s # <<>>, Fronted(s)
  PROVE  /\ Kept(s) \in Seq(Message)
         /\ Len(Kept(s)) < Len(s)
         /\ \A i \in 1 .. Len(Kept(s)) : Kept(s)[i] = s[Len(s) - Len(Kept(s)) + i]
<1> DEFINE h == Max({1, Len(s) \div 2})
           n == IF Keep > 0 /\ Len(s) > Keep THEN Keep ELSE Len(s) - h
<1>1. Len(s) \in Nat /\ Len(s) >= 1
  OBVIOUS
<1>2. h \in 1 .. Len(s)
  BY <1>1, MaxOfTwo
<1>3. n \in Nat /\ n < Len(s)
  BY <1>1, <1>2, BoundsNat
<1>4. Kept(s) = Recent(s, n)
  BY DEF Kept
<1> HIDE DEF n
<1>5. /\ Kept(s) \in Seq(Entry) /\ Len(Kept(s)) = n
      /\ \A i \in 1 .. n : Kept(s)[i] = s[Len(s) - n + i]
  BY <1>1, <1>3, <1>4, RecentOf
<1>6. \A i \in 1 .. n : Kept(s)[i] \in Message
  BY <1>1, <1>3, <1>5 DEF Fronted, Entry
<1> QED
  BY <1>1, <1>3, <1>5, <1>6

\* The setting of context_sliding_keep_messages under which a forced compaction makes room.
KeepIsShort == Keep + 1 < ForceAt

LEMMA KeptIsShort ==
  ASSUME NEW s \in Seq(Entry), Len(s) >= ForceAt, Len(s) <= MaxLen, KeepIsShort
  PROVE  Len(Kept(s)) + 1 < Len(s) /\ Len(Kept(s)) + 3 <= MaxLen
<1> DEFINE h == Max({1, Len(s) \div 2})
           n == IF Keep > 0 /\ Len(s) > Keep THEN Keep ELSE Len(s) - h
<1>1. Len(s) \in Nat /\ Len(s) >= 4
  BY ForceAtBounds
<1>2. h = Len(s) \div 2
  BY <1>1, MaxOfTwo
<1>3. n \in Nat /\ n + 1 < Len(s) /\ n + 3 <= MaxLen
  BY <1>1, <1>2, BoundsNat, ForceAtBounds DEF KeepIsShort
<1>4. Kept(s) = Recent(s, n)
  BY DEF Kept
<1> HIDE DEF n
<1> QED
  BY <1>1, <1>3, <1>4, RecentOf

\* The three things that come of a compaction.
LEMMA OutcomeOf ==
  ASSUME NEW s \in Seq(Entry), s # <<>>, Fronted(s),
         NEW o \in {s, <<Summary>> \o Kept(s), Kept(s)}
  PROVE  /\ o \in Seq(Entry) /\ Len(o) <= Len(s) /\ Fronted(o)
         /\ o = <<>> \/ o = <<Summary>> \/ Last(o) = Last(s)
<1> DEFINE k == Kept(s)
<1>1. /\ k \in Seq(Message) /\ Len(k) \in Nat /\ Len(k) < Len(s) /\ Len(s) \in Nat
      /\ \A i \in 1 .. Len(k) : k[i] = s[Len(s) - Len(k) + i]
  BY KeptOf
<1>2. k \in Seq(Entry) /\ <<Summary>> \in Seq(Entry) /\ \A i \in 1 .. Len(k) : k[i] # Summary
  <2>1. Message \subseteq Entry /\ Summary \in Entry
    BY DEF Entry
  <2>2. k \in Seq(Entry)
    BY <1>1, <2>1, SeqMonotonic
  <2>3. \A x \in Message : x # Summary
    BY BoundsNat DEF Message, Summary
  <2> QED
    BY <1>1, <2>1, <2>2, <2>3
<1>3. k = <<>> \/ Last(k) = Last(s)
  BY <1>1 DEF Last
<1> HIDE DEF k
<1>4. CASE o = s
  BY <1>4
<1>5. CASE o = k
  BY <1>1, <1>2, <1>3, <1>5 DEF Fronted
<1>6. CASE o = <<Summary>> \o k
  <2>1. /\ o \in Seq(Entry) /\ Len(o) = 1 + Len(k)
        /\ \A i \in 1 .. 1 + Len(k) : o[i] = IF i <= 1 THEN Summary ELSE k[i - 1]
    BY <1>2, <1>6, ConcatProperties
  <2>2. Fronted(o)
    BY <1>1, <1>2, <2>1 DEF Fronted
  <2>3. k = <<>> => o = <<Summary>>
    BY <1>2, <1>6, ConcatEmptySeq
  <2>4. k # <<>> => Last(o) = Last(k)
    BY <1>1, <2>1 DEF Last
  <2> QED
    BY <1>1, <1>3, <2>1, <2>2, <2>3, <2>4
<1> QED
  BY <1>4, <1>5, <1>6 DEF k

LEMMA Nothing == <<>> \in Seq(Entry) /\ Len(<<>>) = 0 /\ 0 <= MaxLen
BY BoundsNat, EmptySeq

LEMMA RecentAll ==
  ASSUME NEW S, NEW s \in Seq(S), NEW n \in Nat, Len(s) <= n
  PROVE  Recent(s, n) = s
<1>1. ~(Len(s) > n)
  OBVIOUS
<1>2. Recent(s, n) = SubSeq(s, 1, Len(s))
  BY <1>1 DEF Recent
<1> QED
  BY <1>2, SubSeqFull

\* An append to the deque: the new message is the last one, and the first one goes when the
\* deque is full.
LEMMA PushedOn ==
  ASSUME NEW s \in Seq(Entry), Len(s) <= MaxLen, Fronted(s), NEW m \in Message
  PROVE  /\ Recent(Append(s, m), MaxLen) \in Seq(Entry)
         /\ Len(Recent(Append(s, m), MaxLen)) <= MaxLen
         /\ Len(Recent(Append(s, m), MaxLen)) <= Len(s) + 1
         /\ Recent(Append(s, m), MaxLen) # <<>>
         /\ Last(Recent(Append(s, m), MaxLen)) = m
         /\ Fronted(Recent(Append(s, m), MaxLen))
         /\ Len(s) < MaxLen => Recent(Append(s, m), MaxLen) = Append(s, m)
<1> DEFINE a == Append(s, m)
           r == Recent(a, MaxLen)
<1>1. /\ a \in Seq(Entry) /\ Len(a) = Len(s) + 1 /\ Len(s) \in Nat /\ a[Len(a)] = m
      /\ \A i \in 1 .. Len(s) : a[i] = s[i]
  BY DEF Entry
<1> HIDE DEF a
<1>2. /\ r \in Seq(Entry) /\ Len(r) = IF Len(a) > MaxLen THEN MaxLen ELSE Len(a)
      /\ \A i \in 1 .. Len(r) : r[i] = a[Len(a) - Len(r) + i]
  BY <1>1, BoundsNat, RecentOf
<1>3. Len(s) < MaxLen => r = a
  BY <1>1, BoundsNat, RecentAll
<1> HIDE DEF r
<1>4. Len(r) <= MaxLen /\ Len(r) <= Len(s) + 1 /\ Len(r) >= 1 /\ Len(r) \in Nat
  BY <1>1, <1>2, BoundsNat
<1>5. r[Len(r)] = m
  BY <1>1, <1>2, <1>4
<1>6. Fronted(r)
  <2> SUFFICES ASSUME NEW i \in 1 .. Len(r), r[i] = Summary PROVE i = 1
    BY DEF Fronted
  <2>1. a[Len(a) - Len(r) + i] = Summary
    BY <1>2
  <2>2. Len(a) - Len(r) + i \in 1 .. Len(s)
    BY <1>1, <1>4, <2>1 DEF Message, Summary
  <2>3. Len(a) - Len(r) + i = 1
    BY <1>1, <2>1, <2>2 DEF Fronted
  <2> QED
    BY <1>1, <1>4, <2>3
<1> QED
  BY <1>2, <1>3, <1>4, <1>5, <1>6 DEF a, r, Last

LEMMA OldestOf ==
  ASSUME NEW s \in Seq(Message), NEW k \in Nat, k <= MaxLen
  PROVE  Oldest(s, k) \in Seq(Message) /\ Len(Oldest(s, k)) <= MaxLen
<1> DEFINE n == IF Len(s) > k THEN k ELSE Len(s)
<1>1. n \in Nat /\ n <= Len(s) /\ n <= MaxLen
  BY BoundsNat
<1>2. Oldest(s, k) = SubSeq(s, 1, n)
  BY DEF Oldest
<1> HIDE DEF n
<1>3. \A i \in 1 .. n : s[i] \in Message
  BY <1>1
<1>4. SubSeq(s, 1, n) \in Seq(Message) /\ Len(SubSeq(s, 1, n)) = IF 1 <= n THEN n ELSE 0
  BY <1>1, <1>3
<1> QED
  BY <1>1, <1>2, <1>4

-----------------------------------------------------------------------------
\* The fields of a turn and of a compaction.
LEMMA Fields ==
  ASSUME TypeOK, NEW t \in T
  PROVE  /\ turn[t] \in Turn /\ comp[t] \in Comp
         /\ turn[t].for \in {"begin", "user", "assistant", "aborted"}
         /\ turn[t].hist \in Nat /\ turn[t].hist <= made /\ turn[t].rows \in Seq(Message)
         /\ comp[t].snap \in Seq(Entry) /\ comp[t].rev \in Nat
         /\ comp[t].forced \in BOOLEAN /\ comp[t].out \in Seq(Entry)
<1>1. turn[t] \in Turn /\ comp[t] \in Comp /\ turn[t].hist <= made
  BY DEF TypeOK
<1> QED
  BY <1>1 DEF Turn, Comp, Entry

LEMMA AtRest == NewTurn \in Turn /\ OverTurn \in Turn /\ OverTurn.hist = 0 /\ IdleComp \in Comp
<1>1. <<>> \in Seq(Message) /\ <<>> \in Seq(Entry)
  OBVIOUS
<1>2. NewTurn \in Turn /\ OverTurn \in Turn /\ OverTurn.hist = 0
  BY <1>1 DEF NewTurn, OverTurn, Turn, NoDeque
<1>3. IdleComp \in Comp
  BY <1>1 DEF IdleComp, Comp
<1> QED
  BY <1>2, <1>3

\* What a turn may do after commit_turn.
LEMMA EndedIs ==
  ASSUME TypeOK, NEW t \in T, NEW as \in {"user", "aborted", "unsaid"}, Ended(t, as)
  PROVE  /\ turn' \in [T -> Turn] /\ \A u \in T : u # t => turn'[u] = turn[u]
         /\ \/ turn'[t] = OverTurn
            \/ /\ turn'[t].at = "get" /\ turn'[t].for \in {"user", "aborted"}
               /\ turn'[t].hist = turn[t].hist /\ turn'[t].rows = turn[t].rows
<1>1. turn \in [T -> Turn] /\ turn[t] \in Turn /\ OverTurn \in Turn
  BY AtRest DEF TypeOK
<1>2. CASE as = "unsaid"
  BY <1>1, <1>2 DEF Ended
<1>3. CASE as # "unsaid"
  <2>1. as \in {"user", "aborted"}
    BY <1>3
  <2>2. turn' = [turn EXCEPT ![t] = [@ EXCEPT !.at = "get", !.for = as]]
    BY <1>3 DEF Ended
  <2>3. [turn[t] EXCEPT !.at = "get", !.for = as] \in Turn
    BY <1>1, <2>1 DEF Turn
  <2>4. turn'[t] = [turn[t] EXCEPT !.at = "get", !.for = as] /\ \A u \in T : u # t => turn'[u] = turn[u]
    BY <1>1, <2>2
  <2>5. turn' \in [T -> Turn]
    BY <1>1, <2>2, <2>3
  <2> QED
    BY <1>1, <2>1, <2>4, <2>5 DEF Turn
<1> QED
  BY <1>2, <1>3

LEMMA Said == ASSUME NEW t \in T PROVE 2 * t - 1 \in Message /\ 2 * t \in Message
BY BoundsNat DEF T, Message

LEMMA EntryIs == Message \subseteq Entry /\ Seq(Message) \subseteq Seq(Entry)
<1>1. Message \subseteq Entry
  BY DEF Entry
<1>2. \A s \in Seq(Message) : s \in Seq(Entry)
  BY <1>1, SeqMonotonic
<1> QED
  BY <1>1, <1>2

\* What a compaction covers are messages.
LEMMA CompressedOf ==
  ASSUME NEW s \in Seq(Entry), s # <<>>, Fronted(s)
  PROVE  /\ Compressed(s) \subseteq Message
         /\ Compressed(s) = {s[i] : i \in 1 .. Len(s) - Len(Kept(s))} \ {Summary}
<1> DEFINE n == Len(s) - Len(Kept(s))
<1>1. n \in Nat /\ n <= Len(s) /\ n >= 1
  BY KeptOf
<1> HIDE DEF n
<1>2. Oldest(s, n) = SubSeq(s, 1, n)
  BY <1>1 DEF Oldest
<1>3. /\ SubSeq(s, 1, n) \in Seq(Entry) /\ Len(SubSeq(s, 1, n)) = n
      /\ \A i \in 1 .. n : SubSeq(s, 1, n)[i] = s[i]
  BY <1>1
<1>4. ToSet(SubSeq(s, 1, n)) = {s[i] : i \in 1 .. n}
  <2> DEFINE q == SubSeq(s, 1, n)
  <2>1. Len(q) = n /\ (\A i \in 1 .. n : q[i] = s[i]) /\ DOMAIN q = 1 .. Len(q)
    BY <1>3, LenProperties
  <2> HIDE DEF q
  <2>2. ToSet(q) = {q[i] : i \in 1 .. n}
    BY <2>1 DEF ToSet
  <2>3. {q[i] : i \in 1 .. n} = {s[i] : i \in 1 .. n}
    BY <2>1
  <2> QED
    BY <2>2, <2>3 DEF q
<1>5. {s[i] : i \in 1 .. n} \subseteq Entry
  BY <1>1
<1> QED
  BY <1>2, <1>4, <1>5 DEF Compressed, Entry, n

\* The swap puts back what came of the compaction, whole, or leaves the deque alone.
LEMMA SwapsIn ==
  ASSUME Inv, NEW t \in T, comp[t].at = "swap"
  PROVE  /\ comp[t].snap \in Seq(Entry) /\ comp[t].out \in Seq(Entry)
         /\ Len(comp[t].out) <= Len(comp[t].snap) /\ Len(comp[t].snap) <= MaxLen
         /\ Fronted(comp[t].out)
         /\ comp[t].out = <<>> \/ comp[t].out = <<Summary>> \/ Last(comp[t].out) = Last(comp[t].snap)
         /\ Recent(comp[t].out, MaxLen) = comp[t].out
<1>1. /\ comp[t].snap \in Seq(Entry) /\ comp[t].snap # <<>> /\ Fronted(comp[t].snap)
      /\ comp[t].out \in {comp[t].snap, <<Summary>> \o Kept(comp[t].snap), Kept(comp[t].snap)}
      /\ Len(comp[t].snap) <= MaxLen
  BY Fields DEF Inv, SnapInv, Snapped, OutInv, Compacted, Holding
<1>2. /\ comp[t].out \in Seq(Entry) /\ Len(comp[t].out) <= Len(comp[t].snap)
      /\ Fronted(comp[t].out)
      /\ comp[t].out = <<>> \/ comp[t].out = <<Summary>> \/ Last(comp[t].out) = Last(comp[t].snap)
  BY <1>1, OutcomeOf
<1>3. Len(comp[t].out) <= MaxLen
  BY <1>1, <1>2, BoundsNat
<1> QED
  BY <1>1, <1>2, <1>3, RecentAll, BoundsNat

\* A turn puts a message into the deque.
AppendStep(t) == AppendUser(t) \/ AppendAssistant(t) \/ AppendAborted(t)

\* Each variable keeps its type.
LEMMA TypeStep == ASSUME Inv, [Next]_vars PROVE TypeOK'
<1> USE DEF Inv
<1>0. /\ made \in Nat /\ deque \in Nat /\ deque <= made /\ rev \in Nat /\ faults \in Nat
      /\ turn \in [T -> Turn] /\ comp \in [T -> Comp] /\ db \in Seq(Message)
      /\ \A u \in T : turn[u].hist \in Nat /\ turn[u].hist <= made
      /\ blanks \in Nat /\ MaxLen - blanks \in Nat /\ MaxLen - blanks <= MaxLen
  BY Fields, BoundsNat DEF TypeOK
<1>1. ASSUME NEW t \in T, Begin(t) \/ Get(t) \/ Select(t)
      PROVE  TypeOK'
  <2>1. /\ [turn[t] EXCEPT !.at = "get"] \in Turn
        /\ [turn[t] EXCEPT !.at = Return(t), !.hist = deque] \in Turn
        /\ [turn[t] EXCEPT !.at = "fill", !.rows = Oldest(db, MaxLen - blanks)] \in Turn
    <3>1. Oldest(db, MaxLen - blanks) \in Seq(Message)
      BY <1>0, OldestOf
    <3> QED
      BY <1>0, <3>1, Fields DEF Turn, Return
  <2>2. turn' \in [T -> Turn] /\ \A u \in T : turn'[u].hist <= made
    <3>1. CASE Begin(t)
      BY <1>0, <2>1, <3>1 DEF Begin, Turn
    <3>2. CASE Get(t)
      BY <1>0, <2>1, <3>2 DEF Get, Turn
    <3>3. CASE Select(t)
      BY <1>0, <2>1, <3>3 DEF Select, Turn
    <3> QED
      BY <1>1, <3>1, <3>2, <3>3
  <2> QED
    BY <1>1, <2>2 DEF Begin, Get, Select, TypeOK
<1>2. ASSUME NEW t \in T, GetNew(t)
      PROVE  TypeOK'
  <2>1. [turn[t] EXCEPT !.at = "select", !.hist = made + 1] \in Turn
    <3>1. made + 1 \in Nat /\ turn[t] \in Turn
      BY <1>0, Fields
    <3> QED
      BY <3>1 DEF Turn
  <2>2. turn' \in [T -> Turn] /\ \A u \in T : turn'[u].hist <= made'
    BY <1>0, <1>2, <2>1 DEF GetNew, Turn
  <2>3. ring' \in Seq(Entry) /\ Len(ring') <= MaxLen /\ newest' \in Message \cup {0}
    BY <1>2, Nothing DEF GetNew
  <2>4. deque' \in 0 .. made' /\ made' \in Nat
    BY <1>0, <1>2 DEF GetNew
  <2>5. behind' \in BOOLEAN
    BY <1>2 DEF GetNew
  <2> QED
    BY <1>2, <2>2, <2>3, <2>4, <2>5 DEF GetNew, TypeOK
<1>3. ASSUME NEW t \in T, Fill(t)
      PROVE  TypeOK'
  <2>1. [turn[t] EXCEPT !.at = Return(t), !.rows = <<>>] \in Turn
    <3>1. <<>> \in Seq(Message) /\ turn[t] \in Turn
      BY Fields
    <3> QED
      BY <3>1 DEF Turn, Return
  <2>2. turn' \in [T -> Turn] /\ \A u \in T : turn'[u].hist <= made
    BY <1>0, <1>3, <2>1 DEF Fill, Turn
  <2>3. ring' \in Seq(Entry) /\ Len(ring') <= MaxLen
    BY <1>3, Fields, EntryIs DEF Fill, TypeOK, PlaceInv, Placed
  <2>4. behind' \in BOOLEAN
    BY <1>3 DEF Fill, TypeOK
  <2> QED
    BY <1>3, <2>2, <2>3, <2>4 DEF Fill, TypeOK
<1>4. ASSUME NEW t \in T, Commit(t) \/ CommitReply(t)
      PROVE  TypeOK'
  <2>1. turn' \in [T -> Turn] /\ \A u \in T : turn'[u].hist <= made
    <3>1. CASE turn' = [turn EXCEPT ![t].at = "reply"]
      <4>1. [turn[t] EXCEPT !.at = "reply"] \in Turn
        BY Fields DEF Turn
      <4> QED
        BY <1>0, <3>1, <4>1 DEF Turn
    <3>2. ASSUME NEW as \in {"user", "aborted", "unsaid"}, Ended(t, as)
          PROVE  turn' \in [T -> Turn] /\ \A u \in T : turn'[u].hist <= made
      <4>1. TypeOK
        BY DEF Inv
      <4>2. \A u \in T : turn'[u].hist \in {turn[u].hist, 0}
        BY <3>2, <4>1, EndedIs, AtRest
      <4> QED
        <5>1. turn' \in [T -> Turn]
          BY <3>2, <4>1, EndedIs
        <5>2. \A u \in T : turn[u].hist <= made /\ 0 <= made
          BY <1>0
        <5> QED
          BY <4>2, <5>1, <5>2
    <3> QED
      BY <1>4, <3>1, <3>2 DEF Commit, CommitReply
  <2>2. db' \in Seq(Message)
    <3>1. Append(db, 2 * t - 1) \in Seq(Message) /\ Append(db, 2 * t) \in Seq(Message)
      BY <1>0, Said, AppendProperties
    <3>2. db' \in {db, Append(db, 2 * t - 1), Append(db, 2 * t)}
      BY <1>4 DEF Commit, CommitReply
    <3> QED
      BY <1>0, <3>1, <3>2
  <2>3. blanks' \in 0 .. MaxLen
    <3>1. blanks' = blanks \/ (blanks' = blanks + 1 /\ Len(db) + blanks < MaxLen)
      BY <1>4 DEF Commit, CommitReply
    <3>2. blanks \in 0 .. MaxLen /\ Len(db) \in Nat
      BY <1>0 DEF TypeOK
    <3> QED
      BY <3>1, <3>2, BoundsNat
  <2>4. faults' \in Nat
    <3>1. faults' \in {faults, faults + 1}
      BY <1>4 DEF Commit, CommitReply
    <3> QED
      BY <1>0, <3>1
  <2>5. UNCHANGED <<ring, deque, made, rev, comp, newest, saved, behind, skipped>>
    BY <1>4 DEF Commit, CommitReply
  <2> QED
    BY <2>1, <2>2, <2>3, <2>4, <2>5 DEF TypeOK
<1>5. ASSUME NEW t \in T, AppendStep(t)
      PROVE  TypeOK'
  <2>1. PICK m \in Message : Push(t, m)
    BY <1>5, Said DEF AppendStep, AppendUser, AppendAssistant, AppendAborted
  <2>2. ring' \in Seq(Entry) /\ Len(ring') <= MaxLen /\ newest' \in Message \cup {0}
    BY <2>1, PushedOn, EntryIs DEF Push, TypeOK, SummaryFirst, Fronted
  <2>3. rev' \in Nat /\ UNCHANGED <<deque, made, db, blanks, faults, saved, behind>>
    BY <2>1 DEF Push, TypeOK
  <2>4. /\ [turn[t] EXCEPT !.at = "get", !.for = "assistant"] \in Turn
        /\ [comp[t] EXCEPT !.at = "snapshot"] \in Comp
    BY Fields DEF Turn, Comp
  <2>5. turn' \in [T -> Turn] /\ \A u \in T : turn'[u].hist <= made
    <3>1. CASE AppendUser(t)
      BY <1>0, <2>4, <3>1 DEF AppendUser, Turn
    <3>2. CASE AppendAssistant(t) \/ AppendAborted(t)
      BY <1>0, <3>2, AtRest DEF AppendAssistant, AppendAborted
    <3> QED
      BY <1>5, <3>1, <3>2 DEF AppendStep
  <2>6. comp' \in [T -> Comp]
    BY <1>0, <1>5, <2>4 DEF AppendStep, AppendUser, AppendAssistant, AppendAborted
  <2>7. skipped' \in BOOLEAN
    BY <1>5 DEF AppendStep, AppendUser, AppendAssistant, AppendAborted, TypeOK
  <2> QED
    BY <2>2, <2>3, <2>5, <2>6, <2>7, EntryIs DEF TypeOK
<1>6. ASSUME NEW t \in T, Snapshot(t)
      PROVE  TypeOK'
  <2>1. [at |-> "compact", snap |-> ring, rev |-> rev, forced |-> Len(ring) >= ForceAt,
         out |-> <<>>] \in Comp
    BY DEF Comp, TypeOK
  <2>2. comp' \in [T -> Comp]
    BY <1>0, <1>6, <2>1, AtRest DEF Snapshot
  <2> QED
    BY <1>6, <2>2 DEF Snapshot, TypeOK
<1>7. ASSUME NEW t \in T, Compact(t)
      PROVE  TypeOK'
  <2>1. comp[t].snap \in Seq(Entry) /\ comp[t].snap # <<>> /\ Fronted(comp[t].snap)
    BY <1>7, Fields DEF Compact, SnapInv, Snapped, Holding
  <2>2. PICK o \in {comp[t].snap, <<Summary>> \o Kept(comp[t].snap), Kept(comp[t].snap)} :
          comp' = [comp EXCEPT ![t] = [@ EXCEPT !.at = "swap", !.out = o]]
    BY <1>7 DEF Compact
  <2>3. [comp[t] EXCEPT !.at = "swap", !.out = o] \in Comp
    <3>1. o \in Seq(Entry)
      BY <2>1, OutcomeOf
    <3> QED
      BY <3>1, Fields DEF Comp
  <2>4. comp' \in [T -> Comp]
    BY <1>0, <2>2, <2>3
  <2>5. saved' \subseteq Message
    <3>1. Compressed(comp[t].snap) \subseteq Message
      BY <2>1, CompressedOf
    <3> QED
      BY <1>7, <3>1 DEF Compact, TypeOK
  <2> QED
    BY <1>7, <2>4, <2>5 DEF Compact, TypeOK
<1>8. ASSUME NEW t \in T, Swap(t)
      PROVE  TypeOK'
  <2>1. comp' \in [T -> Comp]
    BY <1>0, <1>8, AtRest DEF Swap
  <2>2. ring' \in Seq(Entry) /\ Len(ring') <= MaxLen
    <3>1. ring' \in {ring, comp[t].out}
      BY <1>8, SwapsIn DEF Swap
    <3>2. comp[t].out \in Seq(Entry) /\ Len(comp[t].out) <= MaxLen
      BY <1>8, SwapsIn, BoundsNat DEF Swap
    <3> QED
      BY <3>1, <3>2 DEF TypeOK
  <2>3. newest' \in {0, newest} /\ behind' \in {TRUE, FALSE, behind} /\ skipped' \in BOOLEAN
    BY <1>8 DEF Swap
  <2>4. newest' \in Message \cup {0} /\ behind' \in BOOLEAN
    BY <2>3 DEF TypeOK
  <2> QED
    BY <1>8, <2>1, <2>2, <2>3, <2>4 DEF Swap, TypeOK
<1>9. CASE Prune
  <2>1. ring' \in Seq(Entry) /\ Len(ring') <= MaxLen /\ newest' \in Message \cup {0}
    BY <1>9, Nothing DEF Prune
  <2>2. deque' \in 0 .. made' /\ faults' \in Nat
    BY <1>0, <1>9 DEF Prune, NoDeque
  <2>3. behind' \in BOOLEAN /\ skipped' \in BOOLEAN
    BY <1>9 DEF Prune
  <2> QED
    BY <1>9, <2>1, <2>2, <2>3 DEF Prune, TypeOK
<1>10. CASE Restart
  <2>1. turn' \in [T -> Turn] /\ \A t \in T : turn'[t].hist <= 0
    BY <1>0, <1>10, AtRest DEF Restart, PlaceInv, Placed, NoDeque
  <2>2. comp' \in [T -> Comp]
    BY <1>10, AtRest DEF Restart
  <2>3. ring' \in Seq(Entry) /\ Len(ring') <= MaxLen /\ newest' \in Message \cup {0}
    BY <1>10, Nothing DEF Restart
  <2>4. made' = 0 /\ deque' \in 0 .. made' /\ rev' \in Nat /\ faults' \in Nat
    BY <1>0, <1>10 DEF Restart, NoDeque
  <2> QED
    BY <1>10, <2>1, <2>2, <2>3, <2>4 DEF Restart, TypeOK
<1>11. CASE UNCHANGED vars
  BY <1>11 DEF vars, TypeOK
<1> QED
  BY <1>1, <1>2, <1>3, <1>4, <1>5, <1>6, <1>7, <1>8, <1>9, <1>10, <1>11
     DEF Next, TurnStep, CompactStep, AppendStep

\* What a step does to the control of the turns.
LEMMA PlaceStep == ASSUME Inv, [Next]_vars PROVE PlaceInv'
<1> SUFFICES ASSUME NEW u \in T PROVE Placed(u)'
  BY DEF PlaceInv
<1>0. /\ turn \in [T -> Turn] /\ comp \in [T -> Comp] /\ Placed(u)
      /\ made \in Nat /\ made + 1 # 0
  BY DEF Inv, TypeOK, PlaceInv
<1> USE DEF Placed, Active, NoDeque
<1>1. ASSUME NEW t \in T, Begin(t)
      PROVE  Placed(u)'
  BY <1>0, <1>1 DEF Begin, Turn
<1>2. ASSUME NEW t \in T, Get(t)
      PROVE  Placed(u)'
  BY <1>0, <1>2 DEF Get, Return, Turn
<1>3. ASSUME NEW t \in T, GetNew(t)
      PROVE  Placed(u)'
  BY <1>0, <1>3 DEF GetNew, Turn
<1>4. ASSUME NEW t \in T, Select(t)
      PROVE  Placed(u)'
  <2>1. Len(Oldest(db, MaxLen - blanks)) <= MaxLen
    <3>1. db \in Seq(Message) /\ MaxLen - blanks \in Nat /\ MaxLen - blanks <= MaxLen
      BY BoundsNat DEF Inv, TypeOK
    <3> QED
      BY <3>1, OldestOf
  <2> QED
    BY <1>0, <1>4, <2>1 DEF Select, Turn
<1>5. ASSUME NEW t \in T, Fill(t)
      PROVE  Placed(u)'
  <2>1. Len(<<>>) <= MaxLen
    BY Nothing
  <2> QED
    BY <1>0, <1>5, <2>1 DEF Fill, Return, Turn
<1>6. ASSUME NEW t \in T, turn[t].at \in {"commit", "reply"}, UNCHANGED comp,
             NEW as \in {"user", "aborted", "unsaid"}, Ended(t, as)
      PROVE  Placed(u)'
  <2>1. OverTurn.at = "over" /\ OverTurn.hist = 0 /\ Len(OverTurn.rows) <= MaxLen
    BY Nothing DEF OverTurn, NewTurn
  <2>2. TypeOK
    BY DEF Inv
  <2> QED
    BY <1>0, <1>6, <2>1, <2>2, EndedIs
<1>7. ASSUME NEW t \in T, Commit(t) \/ CommitReply(t)
      PROVE  Placed(u)'
  <2>1. CASE Commit(t) /\ turn' = [turn EXCEPT ![t].at = "reply"]
    BY <1>0, <2>1 DEF Commit, Turn
  <2>2. turn[t].at \in {"commit", "reply"} /\ UNCHANGED comp
    BY <1>7 DEF Commit, CommitReply
  <2> QED
    BY <1>6, <1>7, <2>1, <2>2 DEF Commit, CommitReply
<1>8. ASSUME NEW t \in T, AppendUser(t)
      PROVE  Placed(u)'
  BY <1>0, <1>8 DEF AppendUser, Turn
<1>9. ASSUME NEW t \in T, AppendAssistant(t) \/ AppendAborted(t)
      PROVE  Placed(u)'
  <2>1. OverTurn.at = "over" /\ OverTurn.hist = 0 /\ Len(OverTurn.rows) <= MaxLen
    BY Nothing DEF OverTurn, NewTurn
  <2>2. CASE AppendAssistant(t)
    BY <1>0, <2>1, <2>2 DEF AppendAssistant, Turn, Comp
  <2>3. CASE AppendAborted(t)
    BY <1>0, <2>1, <2>3 DEF AppendAborted, Turn, Comp
  <2> QED
    BY <1>9, <2>2, <2>3
<1>10. ASSUME NEW t \in T, CompactStep(t)
      PROVE  Placed(u)'
  <2>1. UNCHANGED turn
    BY <1>10 DEF CompactStep, Snapshot, Compact, Swap
  <2>2. comp[t].at # "idle" /\ \A v \in T : v # t => comp'[v] = comp[v]
    BY <1>0, <1>10 DEF CompactStep, Snapshot, Compact, Swap
  <2>3. Placed(t)
    BY DEF Inv, PlaceInv
  <2> QED
    BY <1>0, <2>1, <2>2, <2>3
<1>11. CASE Prune
  BY <1>0, <1>11 DEF Prune
<1>12. CASE Restart
  <2>1. OverTurn.at = "over" /\ OverTurn.hist = 0 /\ Len(OverTurn.rows) <= MaxLen
    BY Nothing DEF OverTurn, NewTurn
  <2> QED
    BY <1>0, <1>12, <2>1 DEF Restart, IdleComp
<1>13. CASE UNCHANGED vars
  BY <1>0, <1>13 DEF vars
<1> QED
  BY <1>1, <1>2, <1>3, <1>4, <1>5, <1>7, <1>8, <1>9, <1>10, <1>11, <1>12, <1>13
     DEF Next, TurnStep

\* The actions of the turns that leave the deque and the compactions alone.
Elsewhere(t) == Begin(t) \/ Get(t) \/ Select(t) \/ Commit(t) \/ CommitReply(t)

LEMMA ElsewhereKeeps ==
  ASSUME NEW t \in T, Elsewhere(t)
  PROVE  UNCHANGED <<ring, deque, rev, comp, newest, saved, behind, skipped>>
BY DEF Elsewhere, Begin, Get, Select, Commit, CommitReply

\* An append goes to the deque in memory and is then the last message there, or the deque
\* stays as it is; the revision rises either way.
LEMMA Appends ==
  ASSUME Inv, NEW t \in T, AppendStep(t)
  PROVE  /\ rev' = rev + 1 /\ UNCHANGED <<deque, saved, behind>>
         /\ \A u \in T : comp'[u] = comp[u] \/ comp'[u].at = "snapshot"
         /\ \/ UNCHANGED <<ring, newest>>
            \/ \E m \in Message :
                 /\ deque # NoDeque /\ newest' = m
                 /\ ring' = Recent(Append(ring, m), MaxLen)
                 /\ ring' # <<>> /\ Last(ring') = m /\ Fronted(ring')
                 /\ Len(ring') <= Len(ring) + 1
                 /\ Len(ring) < MaxLen => ring' = Append(ring, m)
<1>1. PICK m \in Message : Push(t, m)
  BY Said DEF AppendStep, AppendUser, AppendAssistant, AppendAborted
<1>2. rev' = rev + 1 /\ UNCHANGED <<deque, saved, behind>>
  BY <1>1 DEF Push
<1>3. \A u \in T : comp'[u] = comp[u] \/ comp'[u].at = "snapshot"
  BY DEF AppendStep, AppendUser, AppendAssistant, AppendAborted, Inv, TypeOK, Comp
<1>4. turn[t].hist # NoDeque
  BY DEF AppendStep, AppendUser, AppendAssistant, AppendAborted, Inv, PlaceInv, Placed
<1>5. ring \in Seq(Entry) /\ Len(ring) <= MaxLen /\ Fronted(ring)
  BY DEF Inv, TypeOK, SummaryFirst, Fronted
<1>6. CASE turn[t].hist = deque
  <2>1. ring' = Recent(Append(ring, m), MaxLen) /\ newest' = m
    BY <1>1, <1>6 DEF Push
  <2>2. /\ ring' # <<>> /\ Last(ring') = m /\ Fronted(ring') /\ Len(ring') <= Len(ring) + 1
        /\ Len(ring) < MaxLen => ring' = Append(ring, m)
    BY <1>5, <2>1, PushedOn
  <2> QED
    BY <1>2, <1>3, <1>4, <1>6, <2>1, <2>2
<1>7. CASE turn[t].hist # deque
  BY <1>1, <1>2, <1>3, <1>7 DEF Push
<1> QED
  BY <1>6, <1>7

\* What a swap does to the deque.
LEMMA Swaps ==
  ASSUME Inv, NEW t \in T, Swap(t)
  PROVE  /\ UNCHANGED <<deque, rev, saved>> /\ newest' \in {0, newest}
         /\ newest' # 0 => ring' # <<>>
         /\ comp'[t].at = "idle" /\ \A u \in T \ {t} : comp'[u] = comp[u]
         /\ ring' = IF Unmoved(t) THEN comp[t].out ELSE ring
         /\ behind' = IF comp[t].forced THEN ~Unmoved(t) \/ comp[t].out = comp[t].snap
                                        ELSE behind
         /\ skipped' = (skipped /\ (comp[t].forced => behind'))
<1>1. Recent(comp[t].out, MaxLen) = comp[t].out
  BY SwapsIn DEF Swap
<1>2. comp'[t].at = "idle" /\ \A u \in T \ {t} : comp'[u] = comp[u]
  BY DEF Swap, IdleComp, Inv, TypeOK
<1> QED
  BY <1>1, <1>2 DEF Swap

\* What is not in memory is empty, and what was appended to is not.
LEMMA MemoryStep == ASSUME Inv, [Next]_vars PROVE MemoryInv'
<1>0. MemoryInv
  BY DEF Inv
<1> USE DEF MemoryInv
<1>1. ASSUME NEW t \in T, Elsewhere(t) \/ Snapshot(t) \/ Compact(t)
      PROVE  MemoryInv'
  BY <1>0, <1>1, ElsewhereKeeps DEF Snapshot, Compact
<1>2. ASSUME NEW t \in T, GetNew(t)
      PROVE  MemoryInv'
  BY <1>2 DEF GetNew
<1>3. ASSUME NEW t \in T, Fill(t)
      PROVE  MemoryInv'
  BY <1>0, <1>3 DEF Fill
<1>4. ASSUME NEW t \in T, AppendStep(t)
      PROVE  MemoryInv'
  BY <1>0, <1>4, Appends
<1>5. ASSUME NEW t \in T, Swap(t)
      PROVE  MemoryInv'
  BY <1>0, <1>5, Swaps DEF Unmoved
<1>6. CASE Prune \/ Restart
  BY <1>6 DEF Prune, Restart
<1>7. CASE UNCHANGED vars
  BY <1>0, <1>7 DEF vars
<1> QED
  BY <1>1, <1>2, <1>3, <1>4, <1>5, <1>6, <1>7 DEF Next, TurnStep, CompactStep, Elsewhere, AppendStep

\* What a compaction read was what the deque held, at a revision not yet to come.
LEMMA SnapStep == ASSUME Inv, [Next]_vars PROVE SnapInv'
<1> SUFFICES ASSUME NEW u \in T PROVE Snapped(u)'
  BY DEF SnapInv
<1>0. Snapped(u) /\ rev \in Nat /\ comp \in [T -> Comp] /\ comp[u].rev \in Nat
  BY Fields DEF Inv, TypeOK, SnapInv
<1> USE DEF Snapped, Holding
<1>1. ASSUME NEW t \in T, Elsewhere(t)
      PROVE  Snapped(u)'
  BY <1>0, <1>1, ElsewhereKeeps
<1>2. ASSUME NEW t \in T, GetNew(t) \/ Fill(t)
      PROVE  Snapped(u)'
  BY <1>0, <1>2 DEF GetNew, Fill
<1>3. ASSUME NEW t \in T, AppendStep(t)
      PROVE  Snapped(u)'
  <2>1. rev' = rev + 1 /\ (comp'[u] = comp[u] \/ comp'[u].at = "snapshot")
    BY <1>3, Appends
  <2> QED
    BY <1>0, <2>1
<1>4. ASSUME NEW t \in T, Snapshot(t)
      PROVE  Snapped(u)'
  <2>1. ring \in Seq(Entry) /\ Len(ring) <= MaxLen /\ Fronted(ring)
    BY DEF Inv, TypeOK, SummaryFirst, Fronted
  <2>2. CASE u = t /\ ring # <<>>
    <3> DEFINE f == Len(ring) >= ForceAt
    <3>1. comp' = [comp EXCEPT ![u] = [at |-> "compact", snap |-> ring, rev |-> rev,
                                       forced |-> f, out |-> <<>>]]
      BY <1>4, <2>2 DEF Snapshot
    <3> HIDE DEF f
    <3>2. comp'[u].snap = ring /\ comp'[u].rev = rev /\ (comp'[u].forced <=> f) /\ rev' = rev
      BY <1>0, <1>4, <3>1 DEF Snapshot
    <3> QED
      BY <1>0, <2>1, <2>2, <3>2 DEF f
  <2>3. CASE u # t \/ ring = <<>>
    BY <1>0, <1>4, <2>3 DEF Snapshot, IdleComp
  <2> QED
    BY <2>2, <2>3
<1>5. ASSUME NEW t \in T, Compact(t)
      PROVE  Snapped(u)'
  <2>1. PICK o : comp' = [comp EXCEPT ![t] = [@ EXCEPT !.at = "swap", !.out = o]]
    BY <1>5 DEF Compact
  <2>2. UNCHANGED rev /\ comp[t].at = "compact"
    BY <1>5 DEF Compact
  <2> QED
    BY <1>0, <2>1, <2>2 DEF Comp
<1>6. ASSUME NEW t \in T, Swap(t)
      PROVE  Snapped(u)'
  BY <1>0, <1>6, Swaps
<1>7. CASE Prune
  BY <1>0, <1>7 DEF Prune
<1>8. CASE Restart
  BY <1>8 DEF Restart, IdleComp
<1>9. CASE UNCHANGED vars
  BY <1>0, <1>9 DEF vars
<1> QED
  BY <1>1, <1>2, <1>3, <1>4, <1>5, <1>6, <1>7, <1>8, <1>9
     DEF Next, TurnStep, CompactStep, Elsewhere, AppendStep

\* What a compaction puts back is what it read, or shorter; when it was forced, what it
\* leaves out is in a model summary.
LEMMA OutStep == ASSUME Inv, [Next]_vars PROVE OutInv'
<1> SUFFICES ASSUME NEW u \in T PROVE Compacted(u)'
  BY DEF OutInv
<1>0. Compacted(u) /\ comp \in [T -> Comp]
  BY DEF Inv, TypeOK, OutInv
<1> USE DEF Compacted
<1>1. ASSUME NEW t \in T, Elsewhere(t)
      PROVE  Compacted(u)'
  BY <1>0, <1>1, ElsewhereKeeps
<1>2. ASSUME NEW t \in T, GetNew(t) \/ Fill(t)
      PROVE  Compacted(u)'
  BY <1>0, <1>2 DEF GetNew, Fill
<1>3. ASSUME NEW t \in T, AppendStep(t)
      PROVE  Compacted(u)'
  BY <1>0, <1>3, Appends
<1>4. ASSUME NEW t \in T, Snapshot(t)
      PROVE  Compacted(u)'
  BY <1>0, <1>4 DEF Snapshot, IdleComp
<1>5. ASSUME NEW t \in T, Compact(t)
      PROVE  Compacted(u)'
  <2> DEFINE s == comp[t].snap
  <2>1. PICK o \in {s, <<Summary>> \o Kept(s), Kept(s)} :
          /\ comp' = [comp EXCEPT ![t] = [@ EXCEPT !.at = "swap", !.out = o]]
          /\ comp[t].forced /\ o # s =>
               o = <<Summary>> \o Kept(s) /\ saved' = saved \cup Compressed(s)
          /\ saved \subseteq saved'
    BY <1>5 DEF Compact
  <2>2. CASE u = t
    <3>1. comp'[u].snap = s /\ comp'[u].out = o /\ comp'[u].forced = comp[u].forced
      BY <1>0, <2>1, <2>2 DEF Comp
    <3> HIDE DEF s
    <3> QED
      BY <2>1, <2>2, <3>1
  <2>3. CASE u # t
    <3>1. comp'[u] = comp[u] /\ saved \subseteq saved'
      BY <1>0, <2>1, <2>3
    <3> QED
      BY <1>0, <3>1
  <2> QED
    BY <2>2, <2>3
<1>6. ASSUME NEW t \in T, Swap(t)
      PROVE  Compacted(u)'
  BY <1>0, <1>6, Swaps
<1>7. CASE Prune
  BY <1>0, <1>7 DEF Prune
<1>8. CASE Restart
  BY <1>8 DEF Restart, IdleComp
<1>9. CASE UNCHANGED vars
  BY <1>0, <1>9 DEF vars
<1> QED
  BY <1>1, <1>2, <1>3, <1>4, <1>5, <1>6, <1>7, <1>8, <1>9
     DEF Next, TurnStep, CompactStep, Elsewhere, AppendStep

\* Only an append raises the revision, and then no compaction is current any more.
LEMMA RevStep == ASSUME Inv, [Next]_vars PROVE RevInv'
<1> SUFFICES ASSUME NEW u \in T, Current(u)'
             PROVE  comp'[u].snap = <<Summary>> \/ Last(comp'[u].snap) = newest'
  BY DEF RevInv
<1>0. /\ Current(u) => comp[u].snap = <<Summary>> \/ Last(comp[u].snap) = newest
      /\ rev \in Nat /\ comp \in [T -> Comp] /\ comp[u].rev \in Nat
      /\ Holding(u) => comp[u].rev <= rev
  BY Fields DEF Inv, TypeOK, RevInv, SnapInv, Snapped
<1> USE DEF Current, Holding
<1>1. ASSUME NEW t \in T, Elsewhere(t)
      PROVE  comp'[u].snap = <<Summary>> \/ Last(comp'[u].snap) = newest'
  BY <1>0, <1>1, ElsewhereKeeps
<1>2. ASSUME NEW t \in T, GetNew(t) \/ Fill(t)
      PROVE  comp'[u].snap = <<Summary>> \/ Last(comp'[u].snap) = newest'
  BY <1>0, <1>2 DEF GetNew, Fill
<1>3. ASSUME NEW t \in T, AppendStep(t)
      PROVE  FALSE
  <2>1. rev' = rev + 1 /\ (comp'[u] = comp[u] \/ comp'[u].at = "snapshot")
    BY <1>3, Appends
  <2> QED
    BY <1>0, <2>1
<1>4. ASSUME NEW t \in T, Snapshot(t)
      PROVE  comp'[u].snap = <<Summary>> \/ Last(comp'[u].snap) = newest'
  <2>1. ring = <<Summary>> \/ Last(ring) = newest
    BY <1>4 DEF Inv, NewestKept, Snapshot
  <2> QED
    BY <1>0, <1>4, <2>1 DEF Snapshot, IdleComp
<1>5. ASSUME NEW t \in T, Compact(t)
      PROVE  comp'[u].snap = <<Summary>> \/ Last(comp'[u].snap) = newest'
  <2>1. PICK o : comp' = [comp EXCEPT ![t] = [@ EXCEPT !.at = "swap", !.out = o]]
    BY <1>5 DEF Compact
  <2>2. UNCHANGED <<rev, newest>> /\ comp[t].at = "compact"
    BY <1>5 DEF Compact
  <2> QED
    BY <1>0, <2>1, <2>2 DEF Comp
<1>6. ASSUME NEW t \in T, Swap(t)
      PROVE  comp'[u].snap = <<Summary>> \/ Last(comp'[u].snap) = newest'
  BY <1>0, <1>6, Swaps
<1>7. CASE Prune \/ Restart
  BY <1>7 DEF Prune, Restart
<1>8. CASE UNCHANGED vars
  BY <1>0, <1>8 DEF vars
<1> QED
  BY <1>1, <1>2, <1>3, <1>4, <1>5, <1>6, <1>7, <1>8
     DEF Next, TurnStep, CompactStep, Elsewhere, AppendStep

\* No step puts a summary behind a message.
LEMMA SummaryStep == ASSUME Inv, [Next]_vars PROVE SummaryFirst'
<1>0. Fronted(ring) /\ ring \in Seq(Entry)
  BY DEF Inv, TypeOK, SummaryFirst, Fronted
<1> SUFFICES Fronted(ring)'
  BY DEF SummaryFirst, Fronted
<1>1. CASE UNCHANGED ring
  BY <1>0, <1>1 DEF Fronted
<1>2. CASE ring' = <<>>
  BY <1>2 DEF Fronted
<1>3. ASSUME NEW t \in T, Fill(t)
      PROVE  Fronted(ring)'
  <2>1. ring' \in Seq(Message) \/ ring' = ring
    BY <1>3, Fields DEF Fill, Inv
  <2>2. \A x \in Message : x # Summary
    BY BoundsNat DEF Message, Summary
  <2> QED
    BY <1>1, <2>1, <2>2 DEF Fronted
<1>4. ASSUME NEW t \in T, AppendStep(t)
      PROVE  Fronted(ring)'
  <2>1. ring' = ring \/ Fronted(ring')
    BY <1>4, Appends
  <2> QED
    BY <1>1, <2>1 DEF Fronted
<1>5. ASSUME NEW t \in T, Swap(t)
      PROVE  Fronted(ring)'
  <2>1. (ring' = comp[t].out /\ Fronted(comp[t].out)) \/ ring' = ring
    BY <1>5, Swaps, SwapsIn DEF Swap
  <2> QED
    BY <1>1, <2>1 DEF Fronted
<1>6. ASSUME NEW t \in T, Elsewhere(t) \/ GetNew(t) \/ Snapshot(t) \/ Compact(t)
      PROVE  Fronted(ring)'
  <2>1. ring' = ring \/ ring' = <<>>
    BY <1>6, ElsewhereKeeps DEF GetNew, Snapshot, Compact
  <2> QED
    BY <1>1, <1>2, <2>1
<1>7. CASE Prune \/ Restart
  BY <1>2, <1>7 DEF Prune, Restart
<1>8. CASE UNCHANGED vars
  BY <1>1, <1>8 DEF vars
<1> QED
  BY <1>3, <1>4, <1>5, <1>6, <1>7, <1>8 DEF Next, TurnStep, CompactStep, Elsewhere, AppendStep

\* A swap puts back something with the same last message, or nothing but a summary.
LEMMA NewestStep == ASSUME Inv, [Next]_vars PROVE NewestKept'
<1>0. NewestKept /\ MemoryInv
  BY DEF Inv
<1>1. CASE UNCHANGED <<ring, newest>>
  BY <1>0, <1>1 DEF NewestKept
<1>2. CASE newest' = 0
  BY <1>2 DEF NewestKept
<1>3. ASSUME NEW t \in T, Fill(t)
      PROVE  NewestKept'
  BY <1>0, <1>1, <1>3 DEF Fill, MemoryInv, NewestKept
<1>4. ASSUME NEW t \in T, AppendStep(t)
      PROVE  NewestKept'
  <2>1. UNCHANGED <<ring, newest>> \/ Last(ring') = newest'
    BY <1>4, Appends
  <2> QED
    BY <1>1, <2>1 DEF NewestKept
<1>5. ASSUME NEW t \in T, Swap(t)
      PROVE  NewestKept'
  <2> DEFINE s == comp[t].snap
             o == comp[t].out
  <2>1. /\ s \in Seq(Entry) /\ o \in Seq(Entry) /\ Fronted(o) /\ Len(o) <= Len(s)
        /\ o = <<>> \/ o = <<Summary>> \/ Last(o) = Last(s)
    BY <1>5, SwapsIn DEF Swap
  <2>2. newest' \in {0, newest} /\ (newest' # 0 => ring' # <<>>)
        /\ ring' = IF Unmoved(t) THEN o ELSE ring
    BY <1>5, Swaps
  <2>3. CASE Unmoved(t) /\ newest' # 0
    <3>1. s = <<Summary>> \/ Last(s) = newest
      BY <1>5, <2>2, <2>3 DEF Swap, Unmoved, Inv, RevInv, Current, Holding
    <3>2. CASE s = <<Summary>>
      <4>1. Len(s) = 1 /\ Len(o) <= 1 /\ Last(s) = Summary
        BY <2>1, <3>2 DEF Last
      <4>2. o # <<>>
        BY <2>2, <2>3
      <4> HIDE DEF s, o
      <4>3. o = <<Summary>>
        <5>1. CASE Last(o) = Last(s)
          <6>1. o \in Seq(Entry) /\ Len(o) = 1 /\ o[1] = Summary
            BY <2>1, <4>1, <4>2, <5>1 DEF Last
          <6> QED
            BY <6>1
        <5> QED
          BY <2>1, <4>2, <5>1
      <4> QED
        BY <2>2, <2>3, <4>3 DEF NewestKept
    <3>3. CASE Last(s) = newest
      BY <2>1, <2>2, <2>3, <3>3 DEF NewestKept
    <3> QED
      BY <3>1, <3>2, <3>3
  <2>4. CASE ~Unmoved(t) \/ newest' = 0
    BY <1>1, <1>2, <2>2, <2>4
  <2> QED
    BY <2>3, <2>4
<1>6. ASSUME NEW t \in T, Elsewhere(t) \/ GetNew(t) \/ Snapshot(t) \/ Compact(t)
      PROVE  NewestKept'
  <2>1. UNCHANGED <<ring, newest>> \/ newest' = 0
    BY <1>6, ElsewhereKeeps DEF GetNew, Snapshot, Compact
  <2> QED
    BY <1>1, <1>2, <2>1
<1>7. CASE Prune \/ Restart
  BY <1>2, <1>7 DEF Prune, Restart
<1>8. CASE UNCHANGED vars
  BY <1>1, <1>8 DEF vars
<1> QED
  BY <1>3, <1>4, <1>5, <1>6, <1>7, <1>8 DEF Next, TurnStep, CompactStep, Elsewhere, AppendStep

LEMMA InvInit == Init => Inv
<1> SUFFICES ASSUME Init PROVE Inv
  OBVIOUS
<1>1. TypeOK
  <2>1. ring \in Seq(Entry) /\ Len(ring) <= MaxLen /\ db \in Seq(Message)
    BY Nothing DEF Init
  <2>2. turn \in [T -> Turn] /\ comp \in [T -> Comp] /\ \A t \in T : turn[t].hist = 0
    BY AtRest DEF Init, NewTurn, NoDeque
  <2>3. made = 0 /\ deque = 0 /\ rev = 0 /\ faults = 0 /\ newest = 0 /\ saved = {}
    BY DEF Init, NoDeque
  <2>4. behind \in BOOLEAN /\ skipped \in BOOLEAN
    BY DEF Init
  <2>5. blanks \in 0 .. MaxLen
    BY BoundsNat DEF Init
  <2> QED
    BY <2>1, <2>2, <2>3, <2>4, <2>5 DEF TypeOK
<1>2. PlaceInv
  BY Nothing DEF Init, PlaceInv, Placed, Active, NewTurn, IdleComp
<1>3. MemoryInv /\ NewestKept
  BY DEF Init, MemoryInv, NewestKept
<1>4. SnapInv /\ OutInv /\ RevInv
  BY DEF Init, IdleComp, SnapInv, Snapped, OutInv, Compacted, RevInv, Current, Holding
<1>5. SummaryFirst
  BY DEF Init, SummaryFirst
<1> QED
  BY <1>1, <1>2, <1>3, <1>4, <1>5 DEF Inv

LEMMA InvHolds == Spec => []Inv
<1>1. Inv /\ [Next]_vars => Inv'
  <2> SUFFICES ASSUME Inv, [Next]_vars PROVE Inv'
    OBVIOUS
  <2>1. TypeOK' /\ PlaceInv' /\ MemoryInv'
    BY TypeStep, PlaceStep, MemoryStep
  <2>2. SnapInv' /\ OutInv' /\ RevInv'
    BY SnapStep, OutStep, RevStep
  <2>3. SummaryFirst' /\ NewestKept'
    BY SummaryStep, NewestStep
  <2> QED
    BY <2>1, <2>2, <2>3 DEF Inv
<1> QED
  BY InvInit, <1>1, PTL DEF Spec

\* The deque never holds more than its maxlen, and every variable keeps its type
\* (get_conv_history, append_conv_history, _compact_bg).
THEOREM HistoryTyped == Spec => []TypeOK
<1>1. Inv => TypeOK
  BY DEF Inv
<1> QED
  BY <1>1, InvHolds, PTL

\* Whatever a compaction of an older state of the deque puts back, the message appended last
\* stays the last one, or is in the one summary that is left (_compact_bg's check of the
\* revision against append_conv_history).
THEOREM HistoryNewest == Spec => []NewestKept
<1>1. Inv => NewestKept
  BY DEF Inv
<1> QED
  BY <1>1, InvHolds, PTL

\* However many compactions have run, there is at most one summary, the first entry
\* (summarize_history).
THEOREM HistorySummary == Spec => []SummaryFirst
<1>1. Inv => SummaryFirst
  BY DEF Inv
<1> QED
  BY <1>1, InvHolds, PTL

-----------------------------------------------------------------------------
\* Several compactions may have read the same deque.  What one of them puts back is what it
\* read or shorter, so another one that still finds the length it read finds what it read,
\* as long as a forced compaction makes the deque shorter.
LEMMA SameStep == ASSUME KeepIsShort, Inv, SameInv, [Next]_vars PROVE SameInv'
<1> DEFINE Same(u) == /\ Len(ring) <= Len(comp[u].snap)
                      /\ Len(ring) = Len(comp[u].snap) /\ comp[u].forced => ring = comp[u].snap
<1> SUFFICES ASSUME NEW u \in T, Current(u)' PROVE Same(u)'
  BY DEF SameInv
<1>0. /\ Current(u) => Same(u)
      /\ rev \in Nat /\ comp \in [T -> Comp] /\ comp[u].rev \in Nat /\ comp[u].snap \in Seq(Entry)
      /\ Holding(u) => comp[u].rev <= rev
      /\ ring \in Seq(Entry)
  BY Fields DEF Inv, TypeOK, SameInv, SnapInv, Snapped
<1> USE DEF Current, Holding
<1>1. ASSUME NEW t \in T, Elsewhere(t)
      PROVE  Same(u)'
  BY <1>0, <1>1, ElsewhereKeeps
<1>2. ASSUME NEW t \in T, GetNew(t) \/ Fill(t)
      PROVE  Same(u)'
  BY <1>0, <1>2 DEF GetNew, Fill, Inv, MemoryInv
<1>3. ASSUME NEW t \in T, AppendStep(t)
      PROVE  FALSE
  <2>1. rev' = rev + 1 /\ (comp'[u] = comp[u] \/ comp'[u].at = "snapshot")
    BY <1>3, Appends
  <2> QED
    BY <1>0, <2>1
<1>4. ASSUME NEW t \in T, Snapshot(t)
      PROVE  Same(u)'
  <2>1. CASE u = t
    BY <1>0, <1>4, <2>1 DEF Snapshot, IdleComp
  <2>2. CASE u # t
    BY <1>0, <1>4, <2>2 DEF Snapshot
  <2> QED
    BY <2>1, <2>2
<1>5. ASSUME NEW t \in T, Compact(t)
      PROVE  Same(u)'
  <2>1. PICK o : comp' = [comp EXCEPT ![t] = [@ EXCEPT !.at = "swap", !.out = o]]
    BY <1>5 DEF Compact
  <2>2. UNCHANGED <<rev, newest, ring>> /\ comp[t].at = "compact"
    BY <1>5 DEF Compact
  <2>3. comp'[u].snap = comp[u].snap /\ comp'[u].forced = comp[u].forced
        /\ comp'[u].rev = comp[u].rev /\ Holding(u)
    BY <1>0, <2>1, <2>2 DEF Comp
  <2> QED
    BY <1>0, <2>2, <2>3
<1>6. ASSUME NEW t \in T, Swap(t)
      PROVE  Same(u)'
  <2> DEFINE s == comp[t].snap
             o == comp[t].out
  <2>1. u # t /\ comp'[u] = comp[u] /\ newest' = newest /\ rev' = rev
        /\ ring' = IF Unmoved(t) THEN o ELSE ring
    BY <1>6, Swaps
  <2>2. Current(u) /\ Same(u)
    BY <1>0, <2>1
  <2>3. CASE Unmoved(t)
    <3>1. s \in Seq(Entry) /\ o \in Seq(Entry) /\ Len(o) <= Len(s) /\ Len(s) <= MaxLen
      BY <1>6, SwapsIn DEF Swap
    <3>2. Len(ring) = Len(s) /\ Current(t)
      BY <1>6, <2>1, <2>3 DEF Swap, Unmoved
    <3>3. Len(ring') <= Len(comp[u].snap)
      BY <1>0, <2>1, <2>2, <2>3, <3>1, <3>2
    <3>4. ASSUME Len(ring') = Len(comp[u].snap), comp[u].forced
          PROVE  ring' = comp[u].snap
      <4>1. Len(o) = Len(s) /\ ring = comp[u].snap /\ Len(s) = Len(comp[u].snap)
        BY <1>0, <2>1, <2>2, <2>3, <3>1, <3>2, <3>4
      <4>2. Len(s) >= ForceAt /\ comp[t].forced
        BY <1>6, <2>2, <3>4, <4>1 DEF Inv, SnapInv, Snapped, Swap
      <4>3. o = s \/ o = <<Summary>> \o Kept(s)
        BY <1>6, <4>2 DEF Inv, OutInv, Compacted, Swap
      <4>4. Kept(s) \in Seq(Message) /\ Len(Kept(s)) + 1 < Len(s)
        <5>1. s # <<>> /\ Fronted(s)
          BY <1>6 DEF Inv, SnapInv, Snapped, Swap
        <5> QED
          BY <3>1, <4>2, <5>1, KeptOf, KeptIsShort
      <4>5. Len(<<Summary>> \o Kept(s)) = Len(Kept(s)) + 1
        BY <4>4, EntryIs, ConcatProperties DEF Entry
      <4>6. o = s
        BY <3>1, <4>1, <4>3, <4>4, <4>5
      <4>7. ring = s
        BY <3>2, <4>2 DEF SameInv
      <4> QED
        BY <2>1, <2>3, <4>1, <4>6, <4>7
    <3> QED
      BY <2>1, <3>3, <3>4
  <2>4. CASE ~Unmoved(t)
    BY <2>1, <2>2, <2>4
  <2> QED
    BY <2>3, <2>4
<1>7. CASE Prune \/ Restart
  BY <1>7 DEF Prune, Restart
<1>8. CASE UNCHANGED vars
  BY <1>0, <1>8 DEF vars
<1> QED
  BY <1>1, <1>2, <1>3, <1>4, <1>5, <1>6, <1>7, <1>8
     DEF Next, TurnStep, CompactStep, Elsewhere, AppendStep

\* A compaction was just started or is under way with the aim of making room.
Relief(t) == comp[t].at = "snapshot" \/ (Holding(t) /\ comp[t].forced)

LEMMA RoomIs == Room \in {1, 2}
BY DEF Room

\* An action that leaves the deque and the compactions alone, and who is under way and what
\* they may still append.
LEMMA RoomSame ==
  ASSUME RoomInv, UNCHANGED <<ring, comp>>, behind => behind', skipped => skipped',
         \A u \in T : Owing(u)' <=> Owing(u)
  PROVE  RoomInv'
<1>1. OneOwes' <=> OneOwes
  BY DEF OneOwes
<1>2. Room' = Room
  <2>1. (\E u \in T : Owing(u)') <=> (\E u \in T : Owing(u))
    OBVIOUS
  <2> QED
    BY <2>1 DEF Room
<1>3. \A u \in T : Relief(u)' <=> Relief(u)
  BY DEF Relief, Holding
<1>4. (\E u \in T : Relief(u)') <=> (\E u \in T : Relief(u))
  BY <1>3
<1> QED
  BY <1>1, <1>2, <1>4 DEF RoomInv, Relief

\* Every append of a turn's last message starts a compaction, and a forced one makes room
\* or leaves a mark.
LEMMA RoomStep == ASSUME KeepIsShort, Inv, RoomInv, [Next]_vars PROVE RoomInv'
<1>0. /\ turn \in [T -> Turn] /\ comp \in [T -> Comp] /\ ring \in Seq(Entry) /\ Len(ring) \in Nat
      /\ \A u \in T : Placed(u)
  BY DEF Inv, TypeOK, PlaceInv
<1>1. ASSUME ring' = <<>>
      PROVE  RoomInv'
  <2>1. Room' = 1 \/ Room' = 2
    BY DEF Room
  <2>2. Len(ring') = 0
    BY <1>1, Nothing
  <2>3. 0 + Room' <= MaxLen
    BY <2>1, BoundsNat
  <2> QED
    BY <2>2, <2>3 DEF RoomInv
<1>2. ASSUME NEW t \in T, Elsewhere(t)
      PROVE  RoomInv'
  <2>1. UNCHANGED <<ring, comp, behind, skipped>>
    BY <1>2, ElsewhereKeeps
  <2>2. /\ Owing(t)' <=> Owing(t)
        /\ \A u \in T : u # t => turn'[u] = turn[u]
    <3>1. CASE Begin(t) \/ Get(t) \/ Select(t)
      <4>1. CASE Begin(t)
        <5>1. turn'[t].for = turn[t].for /\ turn[t].for = "begin"
          BY <1>0, <4>1 DEF Begin, Turn, Placed
        <5> QED
          BY <1>0, <4>1, <5>1 DEF Begin, Turn, Owing
      <4>2. CASE Get(t) \/ Select(t)
        BY <1>0, <4>2 DEF Get, Select, Return, Turn, Active, Owing
      <4> QED
        BY <3>1, <4>1, <4>2
    <3>2. ASSUME turn[t].at \in {"commit", "reply"}
          PROVE  ~Owing(t)
      BY <1>0, <3>2 DEF Placed, Owing
    <3>3. CASE Commit(t) /\ turn' = [turn EXCEPT ![t].at = "reply"]
      BY <1>0, <3>2, <3>3 DEF Commit, Turn, Placed, Owing
    <3>4. ASSUME NEW as \in {"user", "aborted", "unsaid"}, Ended(t, as),
                 turn[t].at \in {"commit", "reply"}
          PROVE  ~Owing(t)' /\ \A u \in T : u # t => turn'[u] = turn[u]
      <4>1. TypeOK /\ OverTurn.at = "over"
        BY DEF Inv, OverTurn, NewTurn
      <4> QED
        BY <3>4, <4>1, EndedIs DEF Active, Owing
    <3> QED
      BY <1>2, <3>1, <3>2, <3>3, <3>4 DEF Elsewhere, Commit, CommitReply
  <2> QED
    BY <2>1, <2>2, RoomSame DEF Active, Owing
<1>5. ASSUME NEW t \in T, GetNew(t)
      PROVE  RoomInv'
  BY <1>1, <1>5 DEF GetNew
<1>6. ASSUME NEW t \in T, Fill(t)
      PROVE  RoomInv'
  <2>1. /\ Owing(t)' <=> Owing(t)
        /\ \A u \in T : u # t => turn'[u] = turn[u]
    BY <1>0, <1>6 DEF Fill, Return, Turn, Active, Owing
  <2>2. CASE behind'
    BY <2>2 DEF RoomInv
  <2>3. CASE ~behind'
    <3>1. UNCHANGED <<ring, comp, skipped>> /\ (behind => behind')
      BY <1>6, <2>3 DEF Fill
    <3> QED
      BY <2>1, <3>1, RoomSame DEF Active, Owing
  <2> QED
    BY <2>2, <2>3
<1>7. ASSUME NEW t \in T, AppendUser(t)
      PROVE  RoomInv'
  <2> SUFFICES ASSUME OneOwes', ~behind', ~skipped'
               PROVE  RoomInv'
    BY DEF RoomInv
  <2>1. /\ ~Owing(t) /\ Owing(t)' /\ UNCHANGED comp
        /\ \A u \in T : u # t => turn'[u] = turn[u]
    BY <1>0, <1>7 DEF AppendUser, Turn, Active, Owing
  <2>2. UNCHANGED <<behind, skipped>> /\ (UNCHANGED ring \/ Len(ring') <= Len(ring) + 1)
    BY <1>7, Appends DEF AppendUser, AppendStep
  <2>3. OneOwes /\ \A u \in T : ~Owing(u)
    BY <2>1 DEF OneOwes, Owing, Active
  <2>4. Room = 2
    BY <2>3 DEF Room
  <2>5. Room' = 1
    BY <2>1 DEF Room
  <2>6. CASE Len(ring) + Room <= MaxLen
    <3>1. Len(ring') + 1 <= MaxLen
      <4>1. ring' \in Seq(Entry)
        BY TypeStep DEF TypeOK
      <4>2. Len(ring') \in Nat
        BY <4>1
      <4> QED
        BY <1>0, <2>2, <2>4, <2>6, <4>2, BoundsNat
    <3> QED
      BY <2>5, <3>1 DEF RoomInv
  <2>7. CASE \E u \in T : Relief(u)
    BY <2>1, <2>7 DEF RoomInv, Relief, Holding
  <2> QED
    BY <2>2, <2>3, <2>6, <2>7 DEF RoomInv, Relief
<1>8. ASSUME NEW t \in T, AppendAssistant(t)
      PROVE  RoomInv'
  <2>1. comp'[t].at = "snapshot"
    BY <1>0, <1>8 DEF AppendAssistant, Comp
  <2> QED
    BY <2>1 DEF RoomInv
<1>9. ASSUME NEW t \in T, CompactStep(t), OneOwes, ~behind, ~skipped, UNCHANGED <<turn, ring>>,
             \/ Relief(t)'
             \/ Len(ring) + 2 <= MaxLen
             \/ ~Relief(t) /\ \A u \in T : u # t => comp'[u] = comp[u]
      PROVE  RoomInv'
  <2>1. Room' = Room /\ Room \in {1, 2}
    BY <1>9, RoomIs DEF Room, Owing, Active
  <2>2. CASE Relief(t)'
    BY <2>2 DEF RoomInv, Relief
  <2>3. CASE Len(ring) + 2 <= MaxLen
    BY <1>0, <1>9, <2>1, <2>3, BoundsNat DEF RoomInv
  <2>4. CASE ~Relief(t) /\ \A u \in T : u # t => comp'[u] = comp[u]
    <3>1. \A u \in T : Relief(u) => Relief(u)'
      BY <2>4 DEF Relief, Holding
    <3> QED
      BY <1>9, <2>1, <3>1 DEF RoomInv, Relief
  <2> QED
    BY <1>9, <2>2, <2>3, <2>4
<1>10. ASSUME NEW t \in T, Snapshot(t)
       PROVE  RoomInv'
  <2> SUFFICES ASSUME OneOwes', ~behind', ~skipped'
               PROVE  RoomInv'
    BY DEF RoomInv
  <2>1. OneOwes /\ ~behind /\ ~skipped /\ UNCHANGED <<turn, ring>>
    BY <1>10 DEF Snapshot, OneOwes, Owing, Active
  <2>2. CASE ring = <<>>
    BY <1>1, <2>1, <2>2
  <2>3. CASE ring # <<>>
    <3> DEFINE f == Len(ring) >= ForceAt
    <3>1. comp' = [comp EXCEPT ![t] = [at |-> "compact", snap |-> ring, rev |-> rev,
                                       forced |-> f, out |-> <<>>]]
      BY <1>10, <2>3 DEF Snapshot
    <3> HIDE DEF f
    <3>2. comp'[t].at = "compact" /\ (comp'[t].forced <=> f)
      BY <1>0, <3>1
    <3>3. CASE f
      <4>1. Relief(t)'
        BY <3>2, <3>3 DEF Relief, Holding
      <4> QED
        BY <1>9, <1>10, <2>1, <4>1 DEF CompactStep
    <3>4. CASE ~f
      <4>1. Len(ring) + 2 <= MaxLen
        BY <1>0, <3>4, ForceAtBounds, BoundsNat DEF f
      <4> QED
        BY <1>9, <1>10, <2>1, <4>1 DEF CompactStep
    <3> QED
      BY <3>3, <3>4
  <2> QED
    BY <2>2, <2>3
<1>11. ASSUME NEW t \in T, Compact(t)
       PROVE  RoomInv'
  <2> SUFFICES ASSUME OneOwes', ~behind', ~skipped'
               PROVE  RoomInv'
    BY DEF RoomInv
  <2>1. OneOwes /\ ~behind /\ ~skipped /\ UNCHANGED <<turn, ring>> /\ comp[t].at = "compact"
    BY <1>11 DEF Compact, OneOwes, Owing, Active
  <2>2. PICK o : comp' = [comp EXCEPT ![t] = [@ EXCEPT !.at = "swap", !.out = o]]
    BY <1>11 DEF Compact
  <2>3. /\ comp'[t].at = "swap" /\ comp'[t].forced = comp[t].forced
        /\ \A u \in T : u # t => comp'[u] = comp[u]
    BY <1>0, <2>2 DEF Comp
  <2>4. Relief(t)' \/ ~Relief(t)
    BY <2>1, <2>3 DEF Relief, Holding
  <2> QED
    BY <1>9, <1>11, <2>1, <2>3, <2>4 DEF CompactStep
<1>12. ASSUME NEW t \in T, Swap(t)
       PROVE  RoomInv'
  <2> SUFFICES ASSUME OneOwes', ~behind', ~skipped'
               PROVE  RoomInv'
    BY DEF RoomInv
  <2> DEFINE s == comp[t].snap
             o == comp[t].out
  <2>1. OneOwes /\ UNCHANGED turn /\ Room' = Room /\ Room \in {1, 2}
    BY <1>12, RoomIs DEF Swap, OneOwes, Owing, Active, Room
  <2>2. /\ \A u \in T \ {t} : comp'[u] = comp[u]
        /\ ring' = IF Unmoved(t) THEN o ELSE ring
        /\ behind' = IF comp[t].forced THEN ~Unmoved(t) \/ o = s ELSE behind
        /\ skipped' = (skipped /\ (comp[t].forced => behind'))
    BY <1>12, Swaps
  <2>3. s \in Seq(Entry) /\ o \in Seq(Entry) /\ Len(o) <= Len(s) /\ Len(s) <= MaxLen
    BY <1>12, SwapsIn DEF Swap
  <2>4. CASE comp[t].forced
    <3>1. Unmoved(t) /\ o # s
      BY <2>2, <2>4
    <3>2. Len(s) >= ForceAt /\ o = <<Summary>> \o Kept(s) /\ s # <<>> /\ Fronted(s)
      BY <1>12, <2>4, <3>1 DEF Inv, SnapInv, Snapped, OutInv, Compacted, Swap, Holding
    <3>3. Kept(s) \in Seq(Message) /\ Len(Kept(s)) + 3 <= MaxLen
      BY <2>3, <3>2, KeptOf, KeptIsShort
    <3>4. Len(o) = Len(Kept(s)) + 1
      BY <3>2, <3>3, EntryIs, ConcatProperties DEF Entry
    <3> QED
      BY <2>1, <2>2, <3>1, <3>3, <3>4, BoundsNat DEF RoomInv
  <2>5. CASE ~comp[t].forced
    <3>1. ~behind /\ ~skipped /\ ~Relief(t)
      BY <1>12, <2>2, <2>5 DEF Relief, Swap
    <3>2. Len(ring') <= Len(ring) /\ Len(ring') \in Nat
      BY <1>0, <2>2, <2>3 DEF Unmoved
    <3>3. \A u \in T : Relief(u) => Relief(u)'
      BY <2>2, <3>1 DEF Relief, Holding
    <3>4. CASE Len(ring) + Room <= MaxLen
      BY <1>0, <2>1, <3>2, <3>4, BoundsNat DEF RoomInv
    <3>5. CASE \E u \in T : Relief(u)
      BY <3>3, <3>5 DEF RoomInv, Relief
    <3> QED
      BY <2>1, <3>1, <3>4, <3>5 DEF RoomInv, Relief
  <2> QED
    BY <2>4, <2>5
<1>13. CASE Prune \/ Restart
  BY <1>1, <1>13 DEF Prune, Restart
<1>15. ASSUME NEW t \in T, AppendAborted(t)
       PROVE  RoomInv'
  <2> SUFFICES ASSUME ~skipped'
               PROVE  RoomInv'
    BY DEF RoomInv
  <2>1. Len(ring') + 2 <= MaxLen
    <3>1. ~(Len(ring') + 2 > MaxLen)
      BY <1>15 DEF AppendAborted
    <3>2. ring' \in Seq(Entry)
      BY TypeStep DEF TypeOK
    <3>3. Len(ring') \in Nat
      BY <3>2
    <3> QED
      BY <3>1, <3>3, BoundsNat
  <2>2. Room' = 1 \/ Room' = 2
    BY DEF Room
  <2>3. ring' \in Seq(Entry) /\ Len(ring') \in Nat
    BY TypeStep DEF TypeOK
  <2>4. Len(ring') + Room' <= MaxLen
    BY <2>1, <2>2, <2>3, BoundsNat
  <2> QED
    BY <2>4 DEF RoomInv
<1>14. CASE UNCHANGED vars
  BY <1>14, RoomSame DEF vars, Active, Owing
<1> QED
  BY <1>2, <1>5, <1>6, <1>7, <1>8, <1>10, <1>11, <1>12, <1>13, <1>14, <1>15
     DEF Next, TurnStep, CompactStep, Elsewhere

LEMMA SameHolds == ASSUME KeepIsShort PROVE Spec => []SameInv
<1>1. Init => SameInv
  BY DEF Init, IdleComp, SameInv, Current, Holding
<1>2. Inv /\ SameInv /\ [Next]_vars => SameInv'
  BY SameStep
<1> QED
  BY <1>1, <1>2, InvHolds, PTL DEF Spec

LEMMA RoomHolds == ASSUME KeepIsShort PROVE Spec => []RoomInv
<1>1. Init => RoomInv
  <2> SUFFICES ASSUME Init PROVE RoomInv
    OBVIOUS
  <2>1. Len(ring) = 0
    BY Nothing DEF Init
  <2>2. Len(ring) + Room <= MaxLen
    BY <2>1, RoomIs, BoundsNat
  <2> QED
    BY <2>2 DEF RoomInv
<1>2. Inv /\ RoomInv /\ [Next]_vars => RoomInv'
  BY RoomStep
<1> QED
  BY <1>1, <1>2, InvHolds, PTL DEF Spec

-----------------------------------------------------------------------------
\* What is said in the deque.
LEMMA SetOf == ASSUME NEW S, NEW s \in Seq(S) PROVE ToSet(s) = {s[i] : i \in 1 .. Len(s)}
<1>1. DOMAIN s = 1 .. Len(s)
  BY LenProperties
<1> QED
  BY <1>1 DEF ToSet

LEMMA SuffixIs ==
  ASSUME NEW S, NEW s \in Seq(S), NEW t \in Seq(S), Len(s) <= Len(t),
         \A i \in 1 .. Len(s) : s[i] = t[Len(t) - Len(s) + i]
  PROVE  IsSuffix(s, t)
<1> DEFINE a == Reverse(s)
           b == Reverse(t)
           n == Len(s)
<1>1. n \in Nat /\ Len(t) \in Nat /\ n <= Len(t)
  OBVIOUS
<1>2. a \in Seq(S) /\ Len(a) = n /\ \A i \in 1 .. n : a[i] = s[(n - i) + 1]
  <2>1. \A i \in 1 .. n : s[(n - i) + 1] \in S
    BY <1>1
  <2> QED
    BY <1>1, <2>1 DEF Reverse
<1>3. b \in Seq(S) /\ Len(b) = Len(t) /\ \A i \in 1 .. Len(t) : b[i] = t[(Len(t) - i) + 1]
  <2>1. \A i \in 1 .. Len(t) : t[(Len(t) - i) + 1] \in S
    BY <1>1
  <2> QED
    BY <1>1, <2>1 DEF Reverse
<1>4. ASSUME NEW i \in 1 .. n PROVE s[(n - i) + 1] = t[(Len(t) - i) + 1]
  <2>1. (n - i) + 1 \in 1 .. n /\ Len(t) - n + ((n - i) + 1) = (Len(t) - i) + 1
    BY <1>1
  <2> QED
    BY <2>1
<1> HIDE DEF a, b, n
<1>5. \A i \in 1 .. n : a[i] = b[i]
  <2> SUFFICES ASSUME NEW i \in 1 .. n PROVE a[i] = b[i]
    OBVIOUS
  <2>1. a[i] = s[(n - i) + 1]
    BY <1>2
  <2>2. b[i] = t[(Len(t) - i) + 1]
    BY <1>1, <1>3
  <2> QED
    BY <1>4, <2>1, <2>2
<1>6. /\ SubSeq(a, 1, n) \in Seq(S) /\ Len(SubSeq(a, 1, n)) = n
      /\ \A i \in 1 .. n : SubSeq(a, 1, n)[i] = a[i]
  BY <1>1, <1>2
<1>7. /\ SubSeq(b, 1, n) \in Seq(S) /\ Len(SubSeq(b, 1, n)) = n
      /\ \A i \in 1 .. n : SubSeq(b, 1, n)[i] = b[i]
  BY <1>1, <1>3
<1>8. SubSeq(a, 1, n) = SubSeq(b, 1, n)
  BY <1>6, <1>7, <1>5, SeqEqual
<1>9. IsPrefix(a, b)
  BY <1>1, <1>2, <1>3, <1>8 DEF IsPrefix
<1> QED
  BY <1>9 DEF IsSuffix, a, b

LEMMA MessagesOf ==
  ASSUME NEW s \in Seq(Entry), Fronted(s)
  PROVE  /\ Messages(s) \in Seq(Entry)
         /\ Len(Messages(s)) <= Len(s) /\ Len(Messages(s)) + 1 >= Len(s)
         /\ s # <<>> /\ Head(s) = Summary => Messages(s) = Tail(s)
         /\ \A i \in 1 .. Len(Messages(s)) :
              /\ Messages(s)[i] = s[Len(s) - Len(Messages(s)) + i]
              /\ Messages(s)[i] # Summary
<1>1. CASE s # <<>> /\ Head(s) = Summary
  <2>1. Messages(s) = Tail(s)
    BY <1>1 DEF Messages
  <2>2. /\ Tail(s) \in Seq(Entry) /\ Len(Tail(s)) = Len(s) - 1 /\ Len(s) \in Nat /\ Len(s) >= 1
        /\ \A i \in 1 .. Len(Tail(s)) : Tail(s)[i] = s[i + 1]
    BY <1>1, HeadTailProperties
  <2> QED
    BY <2>1, <2>2 DEF Fronted
<1>2. CASE ~(s # <<>> /\ Head(s) = Summary)
  <2>1. Messages(s) = s
    BY <1>2 DEF Messages
  <2>2. Len(s) \in Nat /\ \A i \in 1 .. Len(s) : s[i] # Summary
    BY <1>2 DEF Fronted
  <2> QED
    BY <2>1, <2>2
<1> QED
  BY <1>1, <1>2

LEMMA MessagesKept ==
  ASSUME NEW s \in Seq(Entry), Fronted(s)
  PROVE  ToSet(Messages(s)) \subseteq ToSet(s) /\ IsSuffix(Messages(s), Messages(s))
<1>1. /\ Messages(s) \in Seq(Entry) /\ Len(Messages(s)) <= Len(s)
      /\ \A i \in 1 .. Len(Messages(s)) : Messages(s)[i] = s[Len(s) - Len(Messages(s)) + i]
  BY MessagesOf
<1>2. ToSet(Messages(s)) \subseteq ToSet(s)
  <2>1. ToSet(s) = {s[i] : i \in 1 .. Len(s)}
    BY SetOf
  <2>2. ToSet(Messages(s)) = {Messages(s)[i] : i \in 1 .. Len(Messages(s))}
    BY <1>1, SetOf
  <2>3. \A i \in 1 .. Len(Messages(s)) : Len(s) - Len(Messages(s)) + i \in 1 .. Len(s)
    BY <1>1
  <2> QED
    BY <1>1, <2>1, <2>2, <2>3
<1>3. IsSuffix(Messages(s), Messages(s))
  BY <1>1, SuffixIs
<1> QED
  BY <1>2, <1>3

\* A model summary and what it does not cover.
LEMMA SummarySaves ==
  ASSUME NEW s \in Seq(Entry), s # <<>>, Fronted(s)
  PROVE  /\ IsSuffix(Messages(<<Summary>> \o Kept(s)), Messages(s))
         /\ ToSet(Messages(s)) \ ToSet(<<Summary>> \o Kept(s)) \subseteq Compressed(s)
<1> DEFINE k == Kept(s)
           q == Messages(s)
           r == <<Summary>> \o k
<1>1. /\ k \in Seq(Entry) /\ Len(k) < Len(s) /\ Len(k) \in Nat /\ Len(s) \in Nat
      /\ \A i \in 1 .. Len(k) : k[i] = s[Len(s) - Len(k) + i]
  BY KeptOf, EntryIs
<1>2. /\ q \in Seq(Entry) /\ Len(q) \in Nat /\ Len(q) <= Len(s) /\ Len(q) + 1 >= Len(s)
      /\ \A i \in 1 .. Len(q) : q[i] = s[Len(s) - Len(q) + i] /\ q[i] # Summary
  BY MessagesOf
<1>3. Compressed(s) = {s[i] : i \in 1 .. Len(s) - Len(k)} \ {Summary}
  BY CompressedOf
<1> HIDE DEF k, q
<1>4. <<Summary>> \in Seq(Entry)
  BY DEF Entry
<1>5. /\ r \in Seq(Entry) /\ Len(r) = 1 + Len(k) /\ r[1] = Summary
      /\ \A i \in 1 .. Len(k) : r[i + 1] = k[i]
  <2>1. /\ r \in Seq(Entry) /\ Len(r) = 1 + Len(k)
        /\ \A i \in 1 .. 1 + Len(k) : r[i] = IF i <= 1 THEN Summary ELSE k[i - 1]
    BY <1>1, <1>4, ConcatProperties
  <2> HIDE DEF r
  <2> QED
    BY <1>1, <2>1
<1> HIDE DEF r
<1>6. Messages(r) = k
  <2>1. r # <<>> /\ Head(r) = Summary
    BY <1>1, <1>5
  <2>2. /\ Tail(r) \in Seq(Entry) /\ Len(Tail(r)) = Len(k)
        /\ \A i \in 1 .. Len(k) : Tail(r)[i] = r[i + 1]
    BY <1>1, <1>5, <2>1, HeadTailProperties
  <2>3. Tail(r) = k
    BY <1>1, <1>5, <2>2, SeqEqual
  <2> QED
    BY <2>1, <2>3 DEF Messages
<1>7. IsSuffix(k, q)
  <2>1. Len(k) <= Len(q)
    BY <1>1, <1>2
  <2>2. ASSUME NEW i \in 1 .. Len(k)
        PROVE  k[i] = q[Len(q) - Len(k) + i]
    <3>1. Len(q) - Len(k) + i \in 1 .. Len(q)
      BY <1>1, <1>2, <2>1
    <3>2. Len(s) - Len(q) + (Len(q) - Len(k) + i) = Len(s) - Len(k) + i
      BY <1>1, <1>2
    <3> QED
      BY <1>1, <1>2, <3>1, <3>2
  <2> QED
    BY <1>1, <1>2, <2>1, <2>2, SuffixIs
<1>8. ASSUME NEW x \in ToSet(q), x \notin ToSet(r)
      PROVE  x \in Compressed(s)
  <2>1. PICK i \in 1 .. Len(q) : x = q[i]
    BY <1>2, SetOf
  <2> DEFINE j == Len(s) - Len(q) + i
  <2>2. j \in 1 .. Len(s) /\ x = s[j] /\ x # Summary
    BY <1>1, <1>2, <2>1
  <2> HIDE DEF j
  <2>3. ASSUME j > Len(s) - Len(k)
        PROVE  FALSE
    <3> DEFINE m == j - (Len(s) - Len(k))
    <3>1. m \in 1 .. Len(k) /\ Len(s) - Len(k) + m = j
      BY <1>1, <2>2, <2>3
    <3>2. x = k[m]
      BY <1>1, <2>2, <3>1
    <3>3. x = r[m + 1] /\ m + 1 \in 1 .. Len(r)
      BY <1>1, <1>5, <3>1, <3>2
    <3>4. ToSet(r) = {r[n] : n \in 1 .. Len(r)}
      BY <1>5, SetOf
    <3> QED
      BY <1>8, <3>3, <3>4
  <2>4. j \in 1 .. Len(s) - Len(k)
    BY <1>1, <2>2, <2>3
  <2> QED
    BY <1>3, <2>2, <2>4
<1> QED
  BY <1>6, <1>7, <1>8 DEF k, q, r

-----------------------------------------------------------------------------
\* Only the swap takes a compaction from where it is about to swap, or a restart.
LEMMA SwapTakes ==
  ASSUME Inv, NEW t \in T, ForcedSwap(t), Next
  PROVE  Swap(t)
<1>0. /\ comp \in [T -> Comp] /\ comp[t].at = "swap" /\ newest # 0
      /\ comp'[t] # comp[t] /\ deque' = deque
  BY DEF ForcedSwap, Inv, TypeOK
<1>1. ASSUME NEW u \in T, \/ Elsewhere(u) \/ GetNew(u) \/ Fill(u)
                        \/ AppendUser(u) \/ AppendAborted(u)
      PROVE  FALSE
  BY <1>0, <1>1, ElsewhereKeeps DEF GetNew, Fill, AppendUser, AppendAborted
<1>2. ASSUME NEW u \in T, AppendAssistant(u)
      PROVE  FALSE
  <2>1. comp[u].at = "idle"
    BY <1>2 DEF AppendAssistant, Inv, PlaceInv, Placed
  <2> QED
    BY <1>0, <1>2, <2>1 DEF AppendAssistant
<1>3. ASSUME NEW u \in T, Snapshot(u) \/ Compact(u) \/ (Swap(u) /\ u # t)
      PROVE  FALSE
  BY <1>0, <1>3 DEF Snapshot, Compact, Swap
<1>4. ~Prune
  BY <1>0 DEF Prune
<1>5. ~Restart
  BY <1>0 DEF Restart, Inv, MemoryInv
<1> QED
  BY <1>1, <1>2, <1>3, <1>4, <1>5 DEF Next, TurnStep, CompactStep, Elsewhere, AppendStep

\* No forced compaction takes a message out of the deque that no model summary covers,
\* however many turns were committed, appended or compacted while the model was running, so
\* long as what it keeps is shorter than what forces it (_compact_bg, summarize_history).
THEOREM HistorySwaps == ASSUME KeepIsShort PROVE Spec => SwapLosesNothing
<1>1. ASSUME Inv, SameInv, Next, NEW t \in T, ForcedSwap(t)
      PROVE  /\ IsSuffix(Messages(ring'), Messages(ring))
             /\ ToSet(Messages(ring)) \ ToSet(ring') \subseteq saved
  <2>1. Swap(t) /\ comp[t].at = "swap" /\ comp[t].forced /\ newest # 0
    BY <1>1, SwapTakes DEF ForcedSwap
  <2>2. ring' = IF Unmoved(t) THEN comp[t].out ELSE ring
    BY <1>1, <2>1, Swaps
  <2>3. ring \in Seq(Entry) /\ Fronted(ring)
    BY <1>1 DEF Inv, TypeOK, SummaryFirst, Fronted
  <2>4. CASE ring' = ring
    BY <2>3, <2>4, MessagesKept
  <2>5. CASE Unmoved(t) /\ comp[t].out # ring
    <3>1. ring = comp[t].snap
      BY <1>1, <2>1, <2>5 DEF SameInv, Current, Holding, Unmoved
    <3>2. /\ ring' = <<Summary>> \o Kept(ring) /\ Compressed(ring) \subseteq saved
      BY <1>1, <2>1, <2>2, <2>5, <3>1 DEF Inv, OutInv, Compacted
    <3>3. ring # <<>>
      BY <1>1, <2>1 DEF Inv, MemoryInv
    <3> QED
      BY <2>3, <3>2, <3>3, SummarySaves
  <2> QED
    BY <2>2, <2>4, <2>5
<1>2. Inv /\ SameInv /\ [Next]_vars
        => [\A t \in T : ForcedSwap(t) =>
              /\ IsSuffix(Messages(ring'), Messages(ring))
              /\ ToSet(Messages(ring)) \ ToSet(ring') \subseteq saved]_vars
  BY <1>1
<1> QED
  BY <1>2, InvHolds, SameHolds, PTL DEF Spec, SwapLosesNothing

\* In a conversation whose turns come one at a time no message falls off the deque before
\* a model summary covers it, so long as the compactions get one, what they keep leaves room
\* for a turn, and no aborted turn took the last room without starting one
\* (append_conv_history, _compact_bg, agen_ma).
THEOREM HistoryRolloff == ASSUME KeepIsShort PROVE Spec => SavedBeforeRolloff
<1> DEFINE Quiet == newest' \notin {0, newest} /\ ~behind /\ ~skipped /\ Alone
                    /\ (\A t \in T : comp[t].at = "idle")
<1>1. ASSUME Inv, RoomInv, Next, Quiet
      PROVE  ToSet(Messages(ring)) \subseteq ToSet(ring')
  <2>1. ring \in Seq(Entry) /\ Fronted(ring) /\ Len(ring) \in Nat
    BY <1>1 DEF Inv, TypeOK, SummaryFirst, Fronted
  <2>2. Len(ring) < MaxLen
    BY <1>1, <2>1, RoomIs, BoundsNat DEF RoomInv, Holding, Alone, OneOwes, Owing
  <2>3. PICK t \in T : AppendStep(t)
    <3>1. ASSUME NEW t \in T, Elsewhere(t) \/ GetNew(t) \/ Fill(t) \/ CompactStep(t)
          PROVE  FALSE
      <4>1. newest' \in {0, newest}
        BY <3>1, ElsewhereKeeps DEF GetNew, Fill, CompactStep, Snapshot, Compact, Swap
      <4> QED
        BY <1>1, <4>1
    <3>2. ~Prune /\ ~Restart
      BY <1>1 DEF Prune, Restart
    <3> QED
      BY <1>1, <3>1, <3>2 DEF Next, TurnStep, Elsewhere, AppendStep
  <2>4. PICK m \in Message : ring' = Append(ring, m)
    BY <1>1, <2>2, <2>3, Appends
  <2>5. ToSet(ring) \subseteq ToSet(ring')
    <3>1. /\ ring' \in Seq(Entry) /\ Len(ring') = Len(ring) + 1
          /\ \A i \in 1 .. Len(ring) : ring'[i] = ring[i]
      BY <2>1, <2>4 DEF Entry
    <3>2. ToSet(ring) = {ring[i] : i \in 1 .. Len(ring)}
      BY <2>1, SetOf
    <3>3. ToSet(ring') = {ring'[i] : i \in 1 .. Len(ring')}
      BY <3>1, SetOf
    <3> QED
      BY <2>1, <3>1, <3>2, <3>3
  <2> QED
    BY <2>1, <2>5, MessagesKept
<1>2. Inv /\ RoomInv /\ [Next]_vars
        => [Quiet => ToSet(Messages(ring)) \subseteq ToSet(ring')]_vars
  BY <1>1
<1> QED
  BY <1>2, InvHolds, RoomHolds, PTL DEF Spec, SavedBeforeRolloff
=============================================================================
