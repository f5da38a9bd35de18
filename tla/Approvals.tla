------------------------------ MODULE Approvals ------------------------------
(***************************************************************************)
(* The approvals of guarded tools: .governance/pending.json, the agent     *)
(* loop that queues an entry and stops, and the operator's requests that   *)
(* approve, deny, list and clear.                                          *)
(*                                                                         *)
(* agent/routers/approvals.py, agent/services/agent/approval_helpers.py,   *)
(* agent/main.py (_read_pending, _write_pending_list).                     *)
(*                                                                         *)
(* Two locks: pending_file_lock covers one read or one write of the file   *)
(* (one action here); _approve_lock covers a whole approve or deny, the    *)
(* run of the tool included, but not _write_pending nor the clear.         *)
(* Entries are numbered in the order they are queued, which is their order *)
(* in the file.                                                            *)
(***************************************************************************)
EXTENDS Integers, FiniteSets

CONSTANTS
  MaxEntries,  \* bound on the entries queued
  Operators,   \* concurrent approve and deny requests
  ReadCap,     \* entries _read_pending keeps (100)
  QueueCap,    \* entries _write_pending keeps (500)
  MaxCrashes,  \* bound on the crashes
  DiskFaults   \* TRUE when a write of the file may fail or be cut short

ASSUME ApprovalsAssumption ==
  /\ MaxEntries \in Nat /\ MaxCrashes \in Nat
  /\ ReadCap \in Nat \ {0} /\ QueueCap \in Nat \ {0}
  /\ DiskFaults \in BOOLEAN

E      == 1 .. MaxEntries
Status == {"absent", "pending", "approved", "executed", "denied", "expired"}
Ages   == {"fresh", "expired", "ancient"}

VARIABLES
  file,    \* status of each entry in pending.json
  torn,    \* the file does not parse
  queued,  \* entries queued so far
  age,     \* fresh, past expires_at, or also past the seven days
  op,      \* the approve and deny requests: control point, entry, the list they read
  held,    \* the request that holds _approve_lock, in a set
  runs,    \* history: times the tool of an entry was invoked
  refused, \* history: entries whose denial was answered with ok
  crashes

vars == <<file, torn, queued, age, op, held, runs, refused, crashes>>

Op == [at : {"idle", "check", "expire", "mark", "run", "finish", "deny"},
       entry : 0 .. MaxEntries, list : [E -> Status]]

Nothing == [e \in E |-> "absent"]
IdleOp  == [at |-> "idle", entry |-> 0, list |-> Nothing]

TypeOK ==
  /\ file \in [E -> Status] /\ torn \in BOOLEAN
  /\ queued \in 0 .. MaxEntries
  /\ age \in [E -> Ages]
  /\ op \in [Operators -> Op]
  /\ held \subseteq Operators
  /\ runs \in [E -> Nat] /\ refused \subseteq E /\ crashes \in Nat

Init ==
  /\ file = Nothing /\ torn = FALSE /\ queued = 0
  /\ age = [e \in E |-> "fresh"]
  /\ op = [t \in Operators |-> IdleOp] /\ held = {}
  /\ runs = [e \in E |-> 0] /\ refused = {} /\ crashes = 0

-----------------------------------------------------------------------------
\* The last n of a set of entries.
Newest(S, n) == {e \in S : Cardinality({f \in S : f > e}) < n}

Listed(S) == [e \in E |-> IF e \in S THEN "pending" ELSE "absent"]

\* What the file says: nothing when it does not parse.
Data == IF torn THEN Nothing ELSE file

\* Fault: only executed entries are left out of the list.
Actionable_NotExecuted == {e \in E : Data[e] \notin {"absent", "executed"} /\ age[e] = "fresh"}

\* _pending_is_actionable
Actionable == {e \in E : Data[e] = "pending" /\ age[e] = "fresh"}

\* _read_pending returns the entries one can still act on, the last ReadCap of them ...
Live == Newest(Actionable, ReadCap)

\* ... and writes them back when that drops some; a failing write is swallowed.
Heal ==
  /\ \/ file' = IF torn THEN file ELSE Listed(Live)
     \/ DiskFaults /\ file' = file
  /\ UNCHANGED torn

\* _write_pending_list
Save(list) == file' = list /\ torn' = FALSE

\* It raises: the file is as it was, or truncated.
SaveFails == DiskFaults /\ file' = file /\ torn' \in {torn, TRUE}

Release(t) == held' = held \ {t} /\ op' = [op EXCEPT ![t] = IdleOp]

-----------------------------------------------------------------------------
\* Fault: the list is not cut.
Queue_NoCap ==
  /\ queued < MaxEntries
  /\ queued' = queued + 1
  /\ file' = Listed({e \in E : Data[e] = "pending" /\ age[e] # "ancient"} \cup {queued + 1})
  /\ torn' = FALSE
  /\ UNCHANGED <<age, op, held, runs, refused, crashes>>

\* _write_pending of the next entry: re-read, drop what is decided or older than seven
\* days, keep the last QueueCap, append; written to a temporary file and renamed.
Queue ==
  /\ queued < MaxEntries
  /\ queued' = queued + 1
  /\ LET kept == Newest({e \in E : Data[e] = "pending" /\ age[e] # "ancient"}, QueueCap)
     IN  file' = Listed(kept \cup {queued + 1})
  /\ torn' = FALSE
  /\ UNCHANGED <<age, op, held, runs, refused, crashes>>

\* GET /pending, and every approve or deny of an entry that is not in the list.
ListPending == Heal /\ UNCHANGED <<queued, age, op, held, runs, refused, crashes>>

\* Fault: without _approve_lock.
Begin_Unlocked(t, e, what) ==
  /\ op[t].at = "idle"
  /\ e \in Live
  /\ Heal
  /\ held' = held \cup {t}
  /\ op' = [op EXCEPT ![t] =
       IF what = "approve" THEN [at |-> "check", entry |-> e, list |-> Listed(Live)]
       ELSE [at |-> "deny", entry |-> e, list |-> [Listed(Live) EXCEPT ![e] = "denied"]]]
  /\ UNCHANGED <<queued, age, runs, refused, crashes>>

\* approve or deny takes _approve_lock, reads the list and finds its entry.
Begin(t, e, what) ==
  /\ held = {} /\ op[t].at = "idle"
  /\ e \in Live
  /\ Heal
  /\ held' = held \cup {t}
  /\ op' = [op EXCEPT ![t] =
       IF what = "approve" THEN [at |-> "check", entry |-> e, list |-> Listed(Live)]
       ELSE [at |-> "deny", entry |-> e, list |-> [Listed(Live) EXCEPT ![e] = "denied"]]]
  /\ UNCHANGED <<queued, age, runs, refused, crashes>>

\* Fault: the documented status "rejected".
Check_Rejected(t) ==
  /\ op[t].at = "check"
  /\ LET e == op[t].entry
     IN  op' = [op EXCEPT ![t] =
           IF age[e] # "fresh"
           THEN [at |-> "expire", entry |-> e, list |-> [op[t].list EXCEPT ![e] = "rejected"]]
           ELSE [at |-> "mark", entry |-> e, list |-> [op[t].list EXCEPT ![e] = "approved"]]]
  /\ UNCHANGED <<file, torn, queued, age, held, runs, refused, crashes>>

\* Fault: the tool runs before "approved" is written.
Check_RunFirst(t) ==
  /\ op[t].at = "check"
  /\ LET e == op[t].entry
     IN  op' = [op EXCEPT ![t] =
           IF age[e] # "fresh"
           THEN [at |-> "expire", entry |-> e, list |-> [op[t].list EXCEPT ![e] = "expired"]]
           ELSE [at |-> "run", entry |-> e, list |-> [op[t].list EXCEPT ![e] = "approved"]]]
  /\ UNCHANGED <<file, torn, queued, age, held, runs, refused, crashes>>

\* Fault: the expiry is not looked at again.
Check_NoExpiry(t) ==
  /\ op[t].at = "check"
  /\ LET e == op[t].entry
     IN  op' = [op EXCEPT ![t] =
           IF age[e] = "ancient"
           THEN [at |-> "expire", entry |-> e, list |-> [op[t].list EXCEPT ![e] = "expired"]]
           ELSE [at |-> "mark", entry |-> e, list |-> [op[t].list EXCEPT ![e] = "approved"]]]
  /\ UNCHANGED <<file, torn, queued, age, held, runs, refused, crashes>>

\* approve's own expiry check, then the status it is about to write.
Check(t) ==
  /\ op[t].at = "check"
  /\ LET e == op[t].entry
     IN  op' = [op EXCEPT ![t] =
           IF age[e] # "fresh"
           THEN [at |-> "expire", entry |-> e, list |-> [op[t].list EXCEPT ![e] = "expired"]]
           ELSE [at |-> "mark", entry |-> e, list |-> [op[t].list EXCEPT ![e] = "approved"]]]
  /\ UNCHANGED <<file, torn, queued, age, held, runs, refused, crashes>>

\* Status "approved" is written before the tool runs.
Mark(t) ==
  /\ op[t].at = "mark"
  /\ Save(op[t].list)
  /\ op' = [op EXCEPT ![t].at = "run"]
  /\ UNCHANGED <<queued, age, held, runs, refused, crashes>>

\* The tool is invoked and returns or raises (or is unknown, and is not invoked).
RunTool(t) ==
  /\ op[t].at = "run"
  /\ \E n \in {0, 1} : runs' = [runs EXCEPT ![op[t].entry] = runs[op[t].entry] + n]
  /\ op' = [op EXCEPT ![t] =
       [at |-> "finish", entry |-> op[t].entry,
        list |-> [op[t].list EXCEPT ![op[t].entry] = "executed"]]]
  /\ UNCHANGED <<file, torn, queued, age, held, refused, crashes>>

\* The list read before the tool ran is written with status "executed" (or "expired").
Finish(t) ==
  /\ op[t].at \in {"finish", "expire"}
  /\ Save(op[t].list)
  /\ Release(t)
  /\ UNCHANGED <<queued, age, runs, refused, crashes>>

DenyWrite(t) ==
  /\ op[t].at = "deny"
  /\ Save(op[t].list)
  /\ Release(t)
  /\ refused' = refused \cup {op[t].entry}
  /\ UNCHANGED <<queued, age, runs, crashes>>

\* A write raises: the request fails with the lock released, the tool not run if it had not.
WriteFails(t) ==
  /\ op[t].at \in {"expire", "mark", "finish", "deny"}
  /\ SaveFails
  /\ Release(t)
  /\ UNCHANGED <<queued, age, runs, refused, crashes>>

\* POST /pending/clear, under no lock but the file's.
Clear ==
  /\ \/ Save(Nothing)
     \/ SaveFails
  /\ UNCHANGED <<queued, age, op, held, runs, refused, crashes>>

\* Time passes: an entry reaches its expires_at, then the seven days.
Older(e) ==
  /\ e <= queued /\ age[e] # "ancient"
  /\ age' = [age EXCEPT ![e] = IF age[e] = "fresh" THEN "expired" ELSE "ancient"]
  /\ UNCHANGED <<file, torn, queued, op, held, runs, refused, crashes>>

\* The process dies, perhaps in the middle of write_text, and is started again.
Crash ==
  /\ crashes < MaxCrashes
  /\ crashes' = crashes + 1
  /\ torn' \in {torn, TRUE}
  /\ op' = [t \in Operators |-> IdleOp] /\ held' = {}
  /\ UNCHANGED <<file, queued, age, runs, refused>>

Operate(t) == Check(t) \/ Mark(t) \/ RunTool(t) \/ Finish(t) \/ DenyWrite(t) \/ WriteFails(t)

Next ==
  \/ Queue \/ ListPending \/ Clear \/ Crash
  \/ \E e \in E : Older(e)
  \/ \E t \in Operators : Operate(t) \/ \E e \in E, what \in {"approve", "deny"} : Begin(t, e, what)

Spec == Init /\ [][Next]_vars

-----------------------------------------------------------------------------
\* The tool of an entry is invoked at most once, whatever requests race, whenever the
\* process dies and whichever write fails (approvals.py:49, 79-82).
AtMostOnce == \A e \in E : runs[e] <= 1

\* An entry whose denial was acknowledged was not run and never will be
\* (approvals.py:158-168 against a list another request read).
DenialIsFinal == \A e \in refused : runs[e] = 0

\* An entry whose tool ran or whose denial was acknowledged never appears as pending
\* again, in the file or in a list about to be written over it.
Decided(e) == runs[e] > 0 \/ e \in refused

DecidedStaysDecided ==
  \A e \in E : Decided(e) =>
    /\ file[e] # "pending"
    /\ \A t \in Operators : op[t].list[e] # "pending"

\* Once an entry is past its expiry no approval of it gets through any more, though the
\* request may have waited for the lock while another tool ran (approvals.py:57-75).
Passed(e) == \E t \in Operators : op[t].at \in {"mark", "run"} /\ op[t].entry = e

ExpiryIsFinal ==
  [][\A e \in E : age[e] # "fresh" /\ ~Passed(e) => ~Passed(e)' /\ runs'[e] = runs[e]]_vars

\* The file never holds more than QueueCap entries and the one just queued.
FileBounded == Cardinality({e \in E : Data[e] # "absent"}) <= QueueCap + 1

\* approval_helpers.py:219-223, "a concurrent approve/deny and a loop-queued approval formed
\* a lost-update race [...] Lock + temp-file + os.replace closes both": an approve or deny
\* leaves the other entries that wait for a decision in the file.
OthersSurvive ==
  [][\A t \in Operators : op[t].at # "idle" /\ op'[t] # op[t] =>
       \A e \in Actionable \ {op[t].entry} : file'[e] = "pending"]_vars
=============================================================================
