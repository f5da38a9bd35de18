------------------------------ MODULE ToolLoop ------------------------------
(***************************************************************************)
(* The decision loop of one agent run (run_decision_loop and what it calls *)
(* in the tool guards, the tool dispatch and the reasoning handler).  Each *)
(* round asks the model what to do; the loop has no counter of its rounds  *)
(* that moves, and relies on three budgets, each advanced by some of the   *)
(* outcomes of a round: tools executed, calls rejected, rounds without     *)
(* effect.                                                                 *)
(***************************************************************************)
EXTENDS Integers

CONSTANTS MaxCalls,  \* max_tool_calls of the run
          MaxRetries \* completion_gate_max_retries

ASSUME LoopAssumption == MaxCalls \in Nat \ {0} /\ MaxRetries \in 0 .. 2

VARIABLES at,       \* where the loop is
          status,   \* state["status"], and "raised" for a run that ended in an exception
          cap,      \* max_tool_calls_effective of this round
          calls,    \* state["tool_calls"]
          blocked,  \* state["blocked_calls"]
          noops,    \* state["no_op_steps"]
          retries,  \* state["completion_gate_retries"]
          aborted,  \* client_abort_event
          expired,  \* max_runtime has passed
          stream,   \* stream_final: the answer is streamed by the router
          research, \* the run is a research mission
          free      \* history: turned over by every round that no budget counts

counters == <<calls, blocked, noops, retries>>
outside == <<aborted, expired>>
config == <<stream, research>>
vars == <<at, status, cap, counters, outside, config, free>>

Places == {"top", "decide", "reason", "wrap", "fallback", "over"}
Statuses == {"running", "client_abort", "timeout", "tool_limit", "parse_failed",
             "finished", "stream_pending", "raised"}

NoOpCap == 8
BlockedCap(c) == IF 2 * c > 6 THEN 2 * c ELSE 6

(* A resumed run brings the counters of the run it continues, which may    *)
(* have had other limits.                                                  *)
Init ==
  /\ at = "top" /\ status = "running" /\ cap = MaxCalls
  /\ calls \in 0 .. MaxCalls + 1
  /\ blocked \in 0 .. BlockedCap(MaxCalls) + 1
  /\ noops \in 0 .. NoOpCap
  /\ retries = 0
  /\ aborted = FALSE /\ expired = FALSE
  /\ stream \in BOOLEAN /\ research \in BOOLEAN
  /\ free = FALSE

Go(from, to) == at = from /\ at' = to

End(from, s) == Go(from, "over") /\ status' = s

(* What happens outside: the client goes away, time passes.                *)
Disconnect ==
  /\ at # "over" /\ ~aborted /\ aborted' = TRUE
  /\ UNCHANGED <<at, status, cap, counters, expired, config, free>>

Lapse ==
  /\ at # "over" /\ ~expired /\ expired' = TRUE
  /\ UNCHANGED <<at, status, cap, counters, aborted, config, free>>

-----------------------------------------------------------------------------
(* The top of a round.  The policy caps may have tightened or relaxed.     *)

Spent(c) == calls >= c \/ blocked >= BlockedCap(c) \/ noops >= NoOpCap

Recap == cap' \in 1 .. MaxCalls

StopAborted ==
  /\ aborted /\ End("top", "client_abort") /\ Recap
  /\ UNCHANGED <<counters, outside, config, free>>

StopTimeout ==
  /\ ~aborted /\ expired /\ End("top", "timeout") /\ Recap
  /\ UNCHANGED <<counters, outside, config, free>>

Exhaust ==
  /\ ~aborted /\ ~expired /\ Recap /\ Spent(cap')
  /\ Go("top", "wrap") /\ status' = "tool_limit"
  /\ UNCHANGED <<counters, outside, config, free>>

Consult ==
  /\ ~aborted /\ ~expired /\ Recap /\ ~Spent(cap')
  /\ Go("top", "decide")
  /\ UNCHANGED <<status, counters, outside, config, free>>

-----------------------------------------------------------------------------
(* What the model's decision comes to.                                     *)

Again == Go("decide", "top") /\ UNCHANGED <<status, cap, retries, outside, config>>

\* Fault: a round without effect that no budget counts.
NoOp_Uncounted == Again /\ UNCHANGED <<calls, blocked, noops, free>>

(* A thought, no action, or a new wording of the objective.                *)
NoOp == Again /\ noops' = noops + 1 /\ UNCHANGED <<calls, blocked, free>>

(* Rejected by a policy, an allowlist, a guard or a handler: nothing ran.  *)
Refuse == Again /\ blocked' = blocked + 1 /\ UNCHANGED <<calls, noops, free>>

(* Turned away by a handler that counts nothing: the file is binary, or a  *)
(* batch of writes names no file.                                          *)
FreeRefusal == Again /\ free' = ~free /\ UNCHANGED <<calls, blocked, noops>>

Execute == Again /\ calls' = calls + 1 /\ UNCHANGED <<blocked, noops, free>>

\* Fault: a batch for which the budget has no room.
Batch_NoRoom(n) == Again /\ calls' = calls + n /\ UNCHANGED <<blocked, noops, free>>

(* The intent and its batch_tools in one go, if the budget has room for    *)
(* all of them.                                                            *)
Batch(n) ==
  /\ calls + n <= cap
  /\ Again /\ calls' = calls + n /\ UNCHANGED <<blocked, noops, free>>

(* An approval is asked for, or a protected file could not be backed up.   *)
StopForApproval ==
  End("decide", "finished") /\ UNCHANGED <<cap, counters, outside, config, free>>

ParseFail ==
  /\ Go("decide", "fallback") /\ status' = "parse_failed"
  /\ UNCHANGED <<cap, counters, outside, config, free>>

(* No decision for a goal whose intent is a concurrency-safe tool, or a    *)
(* tool that throws: nothing in the loop catches it.                       *)
Raise == End("decide", "raised") /\ UNCHANGED <<cap, counters, outside, config, free>>

Answer == Go("decide", "reason") /\ UNCHANGED <<status, cap, counters, outside, config, free>>

-----------------------------------------------------------------------------
(* The reasoning handler, called for an answer or for the wrap-up of a run *)
(* whose budget is spent.  The wrap-up ends the run whatever comes of it.  *)

Leave == at \in {"reason", "wrap"} /\ at' = "over"

BackToTop == \/ Go("reason", "top")
             \/ Go("wrap", "over")

HandOff ==
  /\ stream /\ Leave /\ status' = "stream_pending"
  /\ UNCHANGED <<cap, counters, outside, config, free>>

(* A research mission whose answer asks the user something.                *)
Redirect ==
  /\ ~stream /\ research /\ BackToTop /\ free' = ~free
  /\ UNCHANGED <<status, cap, counters, outside, config>>

(* The completion gate refuses the answer.                                 *)
RetryAnswer ==
  /\ ~stream /\ retries < MaxRetries /\ retries' = retries + 1 /\ BackToTop
  /\ UNCHANGED <<status, cap, calls, blocked, noops, outside, config, free>>

Finish ==
  /\ ~stream /\ Leave /\ status' = "finished"
  /\ UNCHANGED <<cap, counters, outside, config, free>>

(* Only the wrap-up catches what the handler throws.                       *)
ReplyRaises ==
  /\ ~stream
  /\ \/ End("reason", "raised")
     \/ End("wrap", status)
  /\ UNCHANGED <<cap, counters, outside, config, free>>

(* After the loop: a plain completion for a call that could not be read.   *)
Fallback ==
  /\ Go("fallback", "over")
  /\ status' \in IF stream THEN {"stream_pending", status} ELSE {"finished", status}
  /\ UNCHANGED <<cap, counters, outside, config, free>>

-----------------------------------------------------------------------------
LoopStep ==
  \/ StopAborted \/ StopTimeout \/ Exhaust \/ Consult
  \/ NoOp \/ Refuse \/ FreeRefusal \/ Execute \/ (\E n \in 2 .. MaxCalls : Batch(n))
  \/ StopForApproval \/ ParseFail \/ Raise \/ Answer
  \/ HandOff \/ Redirect \/ RetryAnswer \/ Finish \/ ReplyRaises \/ Fallback

Next == Disconnect \/ Lapse \/ LoopStep

Spec == Init /\ [][Next]_vars

(* The loop's own thread runs on; nothing is assumed of time or the client.*)
FairSpec == Spec /\ WF_vars(LoopStep)

-----------------------------------------------------------------------------
(* Properties *)

\* No round takes a counter over the limit in force in that round, however the
\* policy has moved it meanwhile and whatever a resumed run had spent: a batch
\* counts with all its tools, a rejected call with one.
BudgetsKept ==
  [][ /\ calls' > calls => calls' <= cap
      /\ blocked' > blocked => blocked' <= BlockedCap(cap)
      /\ noops' > noops => noops' <= NoOpCap ]_vars

\* The budgets alone end every run, without the wall clock, unless refusals that
\* count nothing or redirected research answers go on for ever; and those end
\* too once the time limit has passed or the client has gone.
BoundedLoop ==
  \/ <>(at = "over")
  \/ []<><<free' # free>>_vars /\ [](~expired /\ ~aborted)

=============================================================================
