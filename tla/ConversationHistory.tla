------------------------- MODULE ConversationHistory -------------------------
(***************************************************************************)
(* The short-term memory of one conversation: a deque of the last messages *)
(* that turns append to, that a daemon thread compacts with a model        *)
(* summary, and that is rebuilt from SQLite when it is not in memory.      *)
(*                                                                         *)
(* agent/shared_state.py (get_conv_history, append_conv_history,           *)
(* prune_conversation_histories), agent/services/context/                  *)
(* context_manager.py (summarize_history), the end of a turn in            *)
(* agent/routers/agent.py and agent/services/agent/turn_commit.py.         *)
(*                                                                         *)
(* One action is one critical section of _conv_hist_lock, one SQL          *)
(* statement, or the summarizer's run.  Turn t says 2t-1 (the user) and 2t *)
(* (the assistant); 0 stands for a summary.  A turn that is answered       *)
(* appends both, a multi-agent turn whose client goes away the user's      *)
(* only, and one that fails, times out or is stopped elsewhere none.       *)
(***************************************************************************)
EXTENDS Integers, Sequences, FiniteSets, SequencesExt

CONSTANTS
  MaxTurns,    \* bound on the turns of the conversation
  MaxThreads,  \* bound on the turns under way or compacting at the same time
  Overlap,     \* the turns that may begin before the last one is over
  MaxLen,      \* maxlen of the deque (20)
  Keep,        \* context_sliding_keep_messages, 10 on small machines, else 0
  MaxFaults    \* bound on failing writes of a message, prunes that hit this conversation
               \* and restarts, together

ASSUME ConversationAssumption ==
  /\ MaxTurns \in Nat /\ MaxThreads \in Nat /\ Overlap \subseteq 1 .. MaxTurns /\ MaxFaults \in Nat
  /\ MaxLen \in Nat /\ MaxLen >= 6 /\ Keep \in Nat

T       == 1 .. MaxTurns
Message == 1 .. 2 * MaxTurns
Summary == 0
Entry   == Message \cup {Summary}
NoDeque == 0

Recent(s, n) == SubSeq(s, IF Len(s) > n THEN Len(s) - n + 1 ELSE 1, Len(s))
Oldest(s, n) == SubSeq(s, 1, IF Len(s) > n THEN n ELSE Len(s))

VARIABLES
  ring,    \* contents of the deque in _conv_histories
  deque,   \* which deque that is (NoDeque: the conversation is not in memory)
  made,    \* deques made so far
  rev,     \* _conv_revisions
  db,      \* conversation_messages with something in them, by created_at
  blanks,  \* empty answers among the first MaxLen rows of conversation_messages
  turn,    \* the turns: control point, what for, the deque and rows in hand
  comp,    \* the compaction thread of each turn's answer
  faults,  \* failed writes, prunes and restarts so far
  newest,  \* history: last message appended to this deque since it was empty
  saved,   \* history: messages a model summary covers
  behind,  \* history: a forced compaction failed or was refused, or rows were put in
  skipped  \* history: a turn without an answer left no room for another one

vars == <<ring, deque, made, rev, db, blanks, turn, comp, faults, newest, saved, behind, skipped>>

NewTurn  == [at |-> "new", for |-> "begin", hist |-> NoDeque, rows |-> <<>>]
OverTurn == [NewTurn EXCEPT !.at = "over"]
IdleComp == [at |-> "idle", snap |-> <<>>, rev |-> 0, forced |-> FALSE, out |-> <<>>]

Turn == [at : {"new", "get", "select", "fill", "commit", "reply", "append", "over"},
         for : {"begin", "user", "assistant", "aborted"}, hist : Nat, rows : Seq(Message)]
Comp == [at : {"idle", "snapshot", "compact", "swap"}, snap : Seq(Entry),
         rev : Nat, forced : BOOLEAN, out : Seq(Entry)]

TypeOK ==
  /\ ring \in Seq(Entry) /\ Len(ring) <= MaxLen
  /\ made \in Nat /\ deque \in 0 .. made /\ rev \in Nat
  /\ db \in Seq(Message) /\ blanks \in 0 .. MaxLen
  /\ turn \in [T -> Turn] /\ \A t \in T : turn[t].hist <= made
  /\ comp \in [T -> Comp]
  /\ faults \in Nat /\ newest \in Message \cup {0} /\ saved \subseteq Message
  /\ behind \in BOOLEAN /\ skipped \in BOOLEAN

Init ==
  /\ ring = <<>> /\ deque = NoDeque /\ made = 0 /\ rev = 0 /\ db = <<>> /\ blanks = 0
  /\ turn = [t \in T |-> NewTurn] /\ comp = [t \in T |-> IdleComp]
  /\ faults = 0 /\ newest = 0 /\ saved = {} /\ behind = FALSE /\ skipped = FALSE

-----------------------------------------------------------------------------
\* The turns, which get the deque at the start and again for each of the two appends.
Active(t) == turn[t].at \notin {"new", "over"}
Busy(t)   == Active(t) \/ comp[t].at # "idle"

Begin(t) ==
  /\ turn[t].at = "new"
  /\ \A u \in 1 .. t - 1 : turn[u].at # "new"
  /\ Cardinality({u \in T : Busy(u)}) < MaxThreads
  /\ t \in Overlap \/ \A u \in T : ~Active(u)
  /\ turn' = [turn EXCEPT ![t].at = "get"]
  /\ UNCHANGED <<ring, deque, made, rev, db, blanks, comp, faults, newest, saved, behind, skipped>>

\* Where get_conv_history returns to.
Return(t) == IF turn[t].for = "begin" THEN "commit" ELSE "append"

\* get_conv_history: the deque in memory ...
Get(t) ==
  /\ turn[t].at = "get" /\ deque # NoDeque
  /\ turn' = [turn EXCEPT ![t] = [@ EXCEPT !.at = Return(t), !.hist = deque]]
  /\ UNCHANGED <<ring, deque, made, rev, db, blanks, comp, faults, newest, saved, behind, skipped>>

\* ... or a new one ...
GetNew(t) ==
  /\ turn[t].at = "get" /\ deque = NoDeque
  /\ made' = made + 1 /\ deque' = made + 1 /\ ring' = <<>> /\ newest' = 0 /\ behind' = FALSE
  /\ turn' = [turn EXCEPT ![t] = [@ EXCEPT !.at = "select", !.hist = made + 1]]
  /\ UNCHANGED <<rev, db, blanks, comp, faults, saved, skipped>>

\* ... with the rows of get_conversation_messages(limit = maxlen), oldest first and without
\* the empty ones ...
Select(t) ==
  /\ turn[t].at = "select"
  /\ turn' = [turn EXCEPT ![t] = [@ EXCEPT !.at = "fill", !.rows = Oldest(db, MaxLen - blanks)]]
  /\ UNCHANGED <<ring, deque, made, rev, db, blanks, comp, faults, newest, saved, behind, skipped>>

\* ... put in if the deque now in memory is still empty.
Fill(t) ==
  /\ turn[t].at = "fill"
  /\ ring' = IF deque # NoDeque /\ ring = <<>> THEN turn[t].rows ELSE ring
  /\ behind' = (behind \/ ring' # ring)
  /\ turn' = [turn EXCEPT ![t] = [@ EXCEPT !.at = Return(t), !.rows = <<>>]]
  /\ UNCHANGED <<deque, made, rev, db, blanks, comp, faults, newest, saved, skipped>>

\* What a turn does once commit_turn is over.
Ended(t, as) ==
  turn' = [turn EXCEPT ![t] = IF as = "unsaid" THEN OverTurn
                              ELSE [@ EXCEPT !.at = "get", !.for = as]]

\* commit_turn writes the user's message, then the answer, which is empty for an aborted
\* turn; it may fail and is then skipped.
Commit(t) ==
  /\ turn[t].at = "commit"
  /\ \/ db' = Append(db, 2 * t - 1) /\ turn' = [turn EXCEPT ![t].at = "reply"]
        /\ UNCHANGED faults
     \/ faults < MaxFaults /\ faults' = faults + 1 /\ UNCHANGED db
        /\ \E as \in {"user", "aborted", "unsaid"} : Ended(t, as)
  /\ UNCHANGED <<ring, deque, made, rev, blanks, comp, newest, saved, behind, skipped>>

CommitReply(t) ==
  /\ turn[t].at = "reply"
  /\ \E as \in {"user", "aborted", "unsaid"} :
       /\ Ended(t, as)
       /\ \/ UNCHANGED faults
             /\ IF as = "aborted"
                THEN /\ blanks' = IF Len(db) + blanks < MaxLen THEN blanks + 1 ELSE blanks
                     /\ UNCHANGED db
                ELSE db' = Append(db, 2 * t) /\ UNCHANGED blanks
          \/ faults < MaxFaults /\ faults' = faults + 1 /\ UNCHANGED <<db, blanks>>
  /\ UNCHANGED <<ring, deque, made, rev, comp, newest, saved, behind, skipped>>

\* Fault: the deque is made without its maxlen.
Push_Unbounded(t, m) ==
  /\ rev' = rev + 1
  /\ IF turn[t].hist = deque
     THEN ring' = Append(ring, m) /\ newest' = m
     ELSE UNCHANGED <<ring, newest>>
  /\ UNCHANGED <<deque, made, db, blanks, faults, saved, behind>>

\* append_conv_history, to the deque in hand: the one in memory or one dropped since.
Push(t, m) ==
  /\ rev' = rev + 1
  /\ IF turn[t].hist = deque
     THEN ring' = Recent(Append(ring, m), MaxLen) /\ newest' = m
     ELSE UNCHANGED <<ring, newest>>
  /\ UNCHANGED <<deque, made, db, blanks, faults, saved, behind>>

AppendUser(t) ==
  /\ turn[t].at = "append" /\ turn[t].for = "user"
  /\ Push(t, 2 * t - 1)
  /\ turn' = [turn EXCEPT ![t] = [@ EXCEPT !.at = "get", !.for = "assistant"]]
  /\ UNCHANGED <<comp, skipped>>

\* The answer starts a compaction thread.
AppendAssistant(t) ==
  /\ turn[t].at = "append" /\ turn[t].for = "assistant"
  /\ Push(t, 2 * t)
  /\ turn' = [turn EXCEPT ![t] = OverTurn]
  /\ comp' = [comp EXCEPT ![t].at = "snapshot"]
  /\ UNCHANGED skipped

\* The client of a multi-agent turn went away: no answer, and no compaction.
AppendAborted(t) ==
  /\ turn[t].at = "append" /\ turn[t].for = "aborted"
  /\ Push(t, 2 * t - 1)
  /\ turn' = [turn EXCEPT ![t] = OverTurn]
  /\ skipped' = (skipped \/ Len(ring') + 2 > MaxLen)
  /\ UNCHANGED comp

-----------------------------------------------------------------------------
\* The compaction thread, _compact_bg.
\* Fault: a compaction is forced only when the deque is full.
ForceAt_Full == Max({4, MaxLen})

ForceAt == Max({4, MaxLen - 4})

Snapshot(t) ==
  /\ comp[t].at = "snapshot"
  /\ comp' = [comp EXCEPT ![t] =
       IF ring = <<>> THEN IdleComp
       ELSE [at |-> "compact", snap |-> ring, rev |-> rev,
             forced |-> Len(ring) >= ForceAt, out |-> <<>>]]
  /\ UNCHANGED <<ring, deque, made, rev, db, blanks, turn, faults, newest, saved, behind, skipped>>

\* summarize_history compresses all but the last Keep messages, else the first half ...
Kept(s) == IF Keep > 0 /\ Len(s) > Keep THEN Recent(s, Keep)
           ELSE Recent(s, Len(s) - Max({1, Len(s) \div 2}))

Compressed(s) == ToSet(Oldest(s, Len(s) - Len(Kept(s)))) \ {Summary}

\* Fault: the summary goes behind the messages that stay.
Compact_Behind(t) ==
  /\ comp[t].at = "compact"
  /\ LET s == comp[t].snap
     IN  /\ comp' = [comp EXCEPT ![t] = [@ EXCEPT !.at = "swap", !.out = Kept(s) \o <<Summary>>]]
         /\ saved' = saved \cup Compressed(s)
  /\ UNCHANGED <<ring, deque, made, rev, db, blanks, turn, faults, newest, behind, skipped>>

\* Fault: a forced compaction takes the truncation too.
Compact_Truncates(t) ==
  /\ comp[t].at = "compact"
  /\ comp' = [comp EXCEPT ![t] = [@ EXCEPT !.at = "swap", !.out = <<Summary>> \o Kept(comp[t].snap)]]
  /\ UNCHANGED <<ring, deque, made, rev, db, blanks, turn, faults, newest, saved, behind, skipped>>

\* ... when forced, or under token pressure: to a model summary, to a truncation when the
\* model is busy, to nothing when there is nothing to say.  A forced one that gets no
\* model summary leaves the messages as they are.
Compact(t) ==
  /\ comp[t].at = "compact"
  /\ LET s == comp[t].snap
         Out(msgs) == comp' = [comp EXCEPT ![t] = [@ EXCEPT !.at = "swap", !.out = msgs]]
     IN  \/ Out(s) /\ UNCHANGED saved
         \/ Out(<<Summary>> \o Kept(s)) /\ saved' = saved \cup Compressed(s)
         \/ /\ ~comp[t].forced
            /\ Out(<<Summary>> \o Kept(s)) \/ Out(Kept(s))
            /\ UNCHANGED saved
  /\ UNCHANGED <<ring, deque, made, rev, db, blanks, turn, faults, newest, behind, skipped>>

\* Fault: the length stands in for the revision, the check before audit round-6 #14.
Unmoved_Length(t) == deque # NoDeque /\ Len(ring) = Len(comp[t].snap)

\* The swap, unless the deque is gone or its revision or its length moved.
Unmoved(t) == deque # NoDeque /\ rev = comp[t].rev /\ Len(ring) = Len(comp[t].snap)

Swap(t) ==
  /\ comp[t].at = "swap"
  /\ ring' = IF Unmoved(t) THEN Recent(comp[t].out, MaxLen) ELSE ring
  /\ newest' = IF ring' = <<>> THEN 0 ELSE newest
  /\ behind' = IF comp[t].forced THEN ~Unmoved(t) \/ comp[t].out = comp[t].snap ELSE behind
  /\ skipped' = (skipped /\ (comp[t].forced => behind'))
  /\ comp' = [comp EXCEPT ![t] = IdleComp]
  /\ UNCHANGED <<deque, made, rev, db, blanks, turn, faults, saved>>

-----------------------------------------------------------------------------
\* prune_conversation_histories drops the conversations that came first, active or not.
Prune ==
  /\ faults < MaxFaults /\ deque # NoDeque
  /\ faults' = faults + 1
  /\ deque' = NoDeque /\ ring' = <<>> /\ newest' = 0 /\ behind' = FALSE
  /\ skipped' = FALSE
  /\ UNCHANGED <<made, rev, db, blanks, turn, comp, saved>>

\* The process is started again; what was in memory is gone.
Restart ==
  /\ faults < MaxFaults
  /\ faults' = faults + 1
  /\ deque' = NoDeque /\ made' = 0 /\ ring' = <<>> /\ newest' = 0 /\ behind' = FALSE
  /\ rev' = 0 /\ skipped' = FALSE
  /\ turn' = [t \in T |-> IF Active(t) THEN OverTurn ELSE turn[t]]
  /\ comp' = [t \in T |-> IdleComp]
  /\ UNCHANGED <<db, blanks, saved>>

TurnStep(t) ==
  \/ Begin(t) \/ Get(t) \/ GetNew(t) \/ Select(t) \/ Fill(t)
  \/ Commit(t) \/ CommitReply(t) \/ AppendUser(t) \/ AppendAssistant(t) \/ AppendAborted(t)

CompactStep(t) == Snapshot(t) \/ Compact(t) \/ Swap(t)

Next == (\E t \in T : TurnStep(t) \/ CompactStep(t)) \/ Prune \/ Restart

Spec == Init /\ [][Next]_vars

-----------------------------------------------------------------------------
\* Whatever a compaction puts back, the message appended last to the deque in memory stays
\* the last one in it (shared_state.py:164-188).
NewestKept == newest # 0 => ring = <<Summary>> \/ Last(ring) = newest

\* There is at most one summary, and it comes before the messages it does not cover.
SummaryFirst == \A i \in 1 .. Len(ring) : ring[i] = Summary => i = 1

\* What is said in s, without the summary it may begin with.
Messages(s) == IF s # <<>> /\ Head(s) = Summary THEN Tail(s) ELSE s

ForcedSwap(t) == /\ comp[t].at = "swap" /\ comp[t].forced /\ newest # 0
                 /\ comp'[t] # comp[t] /\ deque' = deque

\* A compaction that fires on occupancy leaves in a deque that was appended to a suffix of
\* what is there, and drops only what a model summary covers ("PROACTIVE compaction must
\* never destroy what it cannot save", context_manager.py:112-123).
SwapLosesNothing ==
  [][\A t \in T : ForcedSwap(t) =>
       /\ IsSuffix(Messages(ring'), Messages(ring))
       /\ ToSet(Messages(ring)) \ ToSet(ring') \subseteq saved]_vars

\* Turns come one at a time.
Alone == \A t, u \in T : Active(t) /\ Active(u) => t = u

\* While every forced compaction went through, none is under way and no turn without an
\* answer took the last room, turns that come one at a time push no message out of the
\* deque, because a compaction has made room for the two messages of a turn.
SavedBeforeRolloff ==
  [][newest' \notin {0, newest} /\ ~behind /\ ~skipped /\ Alone
       /\ (\A t \in T : comp[t].at = "idle") =>
       ToSet(Messages(ring)) \subseteq ToSet(ring')]_vars

\* "Firing a few slots early is what makes it a save rather than a wake: once the ring is
\* full, the next append destroys the oldest message before anything can read it"
\* (shared_state.py:160-161): while every forced compaction went through, none is under way
\* and turns come one at a time, only what a model summary covers is pushed out.
RolloffIsASave ==
  [][newest' \notin {0, newest} /\ ~behind /\ Alone /\ (\A t \in T : comp[t].at = "idle") =>
       ToSet(Messages(ring)) \ ToSet(ring') \subseteq saved]_vars

\* CHANGELOG.md:438, "Conversation continuity: shared_state.get_conv_history rehydrates from
\* SQLite conversation_messages on first access after restart": a turn that starts alone on
\* a history just rebuilt sees one that ends with the last message of the conversation.
Continuity ==
  \A t \in T : turn[t].at = "commit" /\ turn[t].hist = deque /\ newest = 0 /\ db # <<>>
             /\ (\A u \in T \ {t} : ~Active(u)) =>
    ring # <<>> /\ Last(ring) = Last(db)
=============================================================================
