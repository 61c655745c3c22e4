------------------------------- MODULE Stores -------------------------------
(***************************************************************************)
(* The two durable stores of the service together: writers append to the   *)
(* paper history, readers load it, and both append audit events to the     *)
(* audit journal on the way (_audit() in                                   *)
(* app/services/paper_validation_history.py), which has a lock of its own. *)
(* The compaction of the history is audited behind the history lock, so    *)
(* that one store's writers wait for the other's.                          *)
(*                                                                         *)
(* Each lock is waited for until a deadline.  Time is counted in parts of  *)
(* the timeout, which is 5 seconds for both locks: file operations take no *)
(* time compared with it, so that the clock moves on only when every       *)
(* process that is inside a call waits for a lock file that exists.        *)
(* PaperHistory and AuditJournal cover every other timing: there a process *)
(* may give up whenever the lock is taken.                                 *)
(***************************************************************************)
EXTENDS Integers, Sequences, FiniteSets, Functions

CONSTANTS Writer,       \* the processes that append to the history
          Reader,       \* the threads of another process that load it
          NoWriter,     \* the owner of a lock file that does not exist
          MaxRecords,   \* max_records of the history
          AuditRecords, \* max_records of the audit journal
          Patience,     \* lock_timeout_seconds of both, in ticks
          MaxAppends,   \* bound: how many snapshots a behaviour appends
          AuditCalls,   \* bound: how many events it appends; enough for all of them
          MaxFaults,    \* bound: how many errors, kills and damages it has
          MaxHarm       \* bound: how many lines of the history are torn or damaged

Process == Writer \cup Reader

ASSUME StoresAssumption ==
    /\ Writer \cap Reader = {} /\ NoWriter \notin Process
    /\ MaxRecords \in Nat \ {0} /\ AuditRecords \in Nat \ {0}
    /\ Patience \in Nat
    /\ IsFiniteSet(Reader)
    /\ MaxAppends \in Nat /\ AuditCalls \in Nat /\ MaxFaults \in Nat /\ MaxHarm \in Nat

VARIABLES
    lock, file, backup, temp, horizon, pc, record, retained, failing, calls,
    written, acked, spoiled, dropped, harmed, rpc, reported, recoveries, \* the history
    auditLock, auditFile, auditTemp, auditPc, auditEvent, auditRetained,
    auditFailing, auditCalls, auditWritten, auditAcked, \* the audit journal
    auditing,    \* the processes inside _audit()
    auditStatus, \* audit_status: how the last audit went
    timer,       \* how many ticks the deadline of each waiting process is away
    faults,      \* how many faults there were
    waited,      \* history variable: how many ticks each call of append has taken
    orphaned     \* history variable: the locks whose owner was killed

History == INSTANCE PaperHistory WITH Fault <- {"io", "torn", "crash", "damage"}

Journal == INSTANCE AuditJournal
    WITH Writer <- Process, MaxRecords <- AuditRecords, MaxAppends <- AuditCalls,
         Fault <- {"io", "torn", "crash"},
         lock <- auditLock, file <- auditFile, temp <- auditTemp, pc <- auditPc,
         event <- auditEvent, retained <- auditRetained, failing <- auditFailing,
         calls <- auditCalls, written <- auditWritten, acked <- auditAcked

writeVars == <<lock, file, backup, temp, horizon, pc, record, retained, failing, calls,
               written, acked, spoiled, dropped, harmed>>
readVars == <<rpc, reported, recoveries>>
historyVars == <<writeVars, readVars>>
journalVars == <<auditLock, auditFile, auditTemp, auditPc, auditEvent, auditRetained,
                 auditFailing, auditCalls, auditWritten, auditAcked>>
linkVars == <<auditing, auditStatus>>
boundVars == <<faults, orphaned>>
vars == <<historyVars, journalVars, linkVars, timer, waited, boundVars>>

Init ==
    /\ History!Init
    /\ Journal!Init
    /\ auditing = {}
    /\ auditStatus = "ok"
    /\ timer = [p \in Process |-> 0]
    /\ faults = 0
    /\ waited = [w \in Writer |-> 0]
    /\ orphaned = {}
-----------------------------------------------------------------------------
\* The processes that are inside append(), or have a recovery to audit.  (load() may
\* take any time between its two reads.)
InCall(p) == IF p \in Writer THEN pc[p] # "idle" ELSE rpc[p] = "report"

\* The processes in the wait loop of one of the locks, and those of them that find
\* the lock file there.
AtLock(p) ==
    \/ auditPc[p] = "acquire"
    \/ p \in Writer /\ pc[p] = "acquire"
Blocked(p) ==
    \/ auditPc[p] = "acquire" /\ auditLock # NoWriter
    \/ p \in Writer /\ pc[p] = "acquire" /\ lock # NoWriter

\* The deadline is set when a process comes to a lock.
Deadlines ==
    timer' = [p \in Process |-> IF AtLock(p)' /\ AtLock(p) THEN timer[p]
                                ELSE IF AtLock(p)' THEN Patience ELSE 0]

\* Mutant: the deadline is computed inside the wait loop.
LeftAgain(p) == timer[p]

\* What is left until the deadline after one more tick.
Left(p) == timer[p] - 1

Tick ==
    /\ \E p \in Process : Blocked(p)
    /\ \A p \in Process : InCall(p) => Blocked(p) /\ timer[p] > 0
    /\ timer' = [p \in Process |-> IF Blocked(p) THEN Left(p) ELSE 0]
    /\ waited' = [w \in Writer |-> IF InCall(w) THEN waited[w] + 1 ELSE 0]
    /\ UNCHANGED <<historyVars, journalVars, linkVars, boundVars>>

\* append() is called.
CallAppend(w) ==
    /\ History!Call(w)
    /\ waited' = [waited EXCEPT ![w] = 0]
    /\ UNCHANGED <<journalVars, linkVars, boundVars>>
    /\ Deadlines

\* A step of append() on the history's own files.
HistoryStep(w) ==
    /\ \/ History!TakeLock(w)
       \/ timer[w] = 0 /\ History!TimeOut(w)
       \/ History!Store(w)
    /\ UNCHANGED <<journalVars, linkVars, waited, boundVars>>
    /\ Deadlines

\* A step of the audit journal's append().
JournalStep(p) ==
    /\ \/ Journal!TakeLock(p)
       \/ timer[p] = 0 /\ Journal!TimeOut(p)
       \/ Journal!Work(p)
    /\ UNCHANGED <<historyVars, linkVars, waited, boundVars>>
    /\ Deadlines

\* A compaction, an append or a recovery is to be audited.
AtAudit(p) == IF p \in Writer THEN pc[p] \in {"replaced", "audit"} ELSE rpc[p] = "report"

\* _audit() calls append() of the journal.
StartAudit(p) ==
    /\ AtAudit(p)
    /\ p \notin auditing
    /\ auditing' = auditing \cup {p}
    /\ Journal!Call(p)
    /\ UNCHANGED <<historyVars, auditStatus, waited, boundVars>>
    /\ Deadlines

\* The event of the call of p that just ended is in the journal.
Audited(p) == auditEvent[p] \in auditAcked

\* _audit() notes how the call ended and swallows its OSError.
EndAudit(p) ==
    /\ p \in auditing
    /\ auditPc[p] = "idle"
    /\ auditing' = auditing \ {p}
    /\ auditStatus' = IF Audited(p) THEN "ok" ELSE "error"
    /\ UNCHANGED <<journalVars, waited, boundVars>>

\* append() goes on behind its audit.
EndAppendAudit(w) ==
    /\ EndAudit(w)
    /\ History!AuditCompaction(w) \/ History!AuditAppend(w)
    /\ Deadlines
-----------------------------------------------------------------------------
\* A step of load() on the history's own files.
LoadStep(r) ==
    /\ History!LoadPrimary(r) \/ History!LoadBackup(r)
    /\ UNCHANGED <<journalVars, linkVars, timer, waited, boundVars>>

\* load() goes on behind its audit.
EndRecoveryAudit(r) ==
    /\ EndAudit(r)
    /\ History!AuditRecovery(r)
    /\ recoveries' = recoveries + IF Audited(r) THEN 1 ELSE 0
    /\ Deadlines
-----------------------------------------------------------------------------
\* One more fault, of any kind.
FaultHappens ==
    /\ faults < MaxFaults
    /\ faults' = faults + 1
    /\ UNCHANGED waited

\* A file operation raises OSError, or stops inside a line.
HistoryFail(w) ==
    /\ FaultHappens
    /\ History!Fail(w) \/ History!WriteTorn(w)
    /\ UNCHANGED <<journalVars, linkVars, orphaned>>
    /\ Deadlines

\* A file operation raises OSError inside an audit, or stops inside a line.
JournalFail(p) ==
    /\ FaultHappens
    /\ Journal!Fail(p) \/ Journal!WriteTorn(p)
    /\ UNCHANGED <<historyVars, linkVars, orphaned>>
    /\ Deadlines

\* The process of w is killed, inside an audit or outside, and started again.
Kill(w) ==
    /\ FaultHappens
    /\ History!Crash(w)
    /\ \/ Journal!Crash(w)
       \/ auditPc[w] = "idle" /\ UNCHANGED journalVars
    /\ auditing' = auditing \ {w}
    /\ orphaned' = orphaned \cup {l \in {"history", "audit"} :
                       w = IF l = "history" THEN lock ELSE auditLock}
    /\ UNCHANGED auditStatus
    /\ Deadlines

\* Lines of the history are damaged while nobody writes it.
Corrupt ==
    /\ FaultHappens
    /\ History!Corrupt
    /\ UNCHANGED <<journalVars, linkVars, timer, orphaned>>

\* The steps of the code inside a call of process p.
Run(p) ==
    \/ p \in Writer /\ HistoryStep(p)
    \/ JournalStep(p)
    \/ StartAudit(p)
    \/ p \in Writer /\ EndAppendAudit(p)
    \/ p \in Reader /\ History!LoadBackup(p) /\ LoadStep(p)
    \/ p \in Reader /\ EndRecoveryAudit(p)

Next ==
    \/ \E w \in Writer :
        \/ CallAppend(w)
        \/ HistoryStep(w)
        \/ EndAppendAudit(w)
        \/ HistoryFail(w)
        \/ Kill(w)
    \/ \E r \in Reader :
        \/ LoadStep(r)
        \/ EndRecoveryAudit(r)
    \/ \E p \in Process :
        \/ JournalStep(p)
        \/ StartAudit(p)
        \/ JournalFail(p)
    \/ Corrupt
    \/ Tick

\* A process inside a call is scheduled again, and the clock moves on.
Spec == Init /\ [][Next]_vars /\ WF_vars(Tick) /\ \A p \in Process : WF_vars(Run(p))
-----------------------------------------------------------------------------
\* However many locks a call of append comes to, and whoever was killed behind
\* them, it takes no longer than three timeouts: one for the history lock, one for the
\* audit of its compaction, which it spends behind the history lock, and one for
\* the audit of the append.  (One timeout is not enough, and neither are two.)
WaitsAreBounded == \A w \in Writer : waited[w] <= 3 * Patience

\* Every call of append and every audit comes to an end, also behind the lock files
\* that killed processes left, whichever of the two stores they are in the way of.
\* (There are finitely many calls: after the last one nobody is inside one.)
EveryCallEnds ==
    <>[](/\ \A w \in Writer : pc[w] = "idle"
         /\ \A p \in Process : auditPc[p] = "idle")

\* Every lock is released in the end, whatever fails, unless its owner is killed:
\* nothing that happens in one store keeps the other's lock for ever.
LocksAreReleased ==
    <>[](/\ lock = NoWriter \/ "history" \in orphaned
         /\ auditLock = NoWriter \/ "audit" \in orphaned)
=============================================================================
