---------------------------- MODULE PaperHistory ----------------------------
(***************************************************************************)
(* PaperValidationHistory (app/services/paper_validation_history.py): the  *)
(* snapshots of the paper-validation runs in one JSONL file, written under *)
(* a lock file by several threads and processes, compacted by number and   *)
(* by age, with the pre-compaction file kept as a backup that readers fall *)
(* back on.                                                                *)
(*                                                                         *)
(* Snapshot n is the one of the n-th call of append and stands for its own *)
(* recorded_at: append() takes the time before it requests the lock.       *)
(* Appends, compactions and recoveries are audited; whatever becomes of an *)
(* audit, the history goes on, so that here an audit is a step of either   *)
(* outcome.  Stores composes the history with the audit journal.           *)
(***************************************************************************)
EXTENDS Integers, Sequences, FiniteSets, Functions, JournalFile

CONSTANTS Writer,      \* the threads and processes that append
          Reader,      \* the threads of one process that load, with one history object
          NoWriter,    \* the owner of a lock file that does not exist
          MaxRecords,  \* max_records
          MaxAppends,  \* bound: how many append calls a behaviour makes
          MaxHarm,     \* bound: how many torn writes and damaged lines it has
          Fault        \* which faults and external events there are

ASSUME HistoryAssumption ==
    /\ NoWriter \notin Writer /\ IsFiniteSet(Reader)
    /\ MaxRecords \in Nat \ {0}
    /\ MaxAppends \in Nat /\ MaxHarm \in Nat
    /\ Fault \subseteq {"io", "torn", "crash", "operator", "age", "damage"}

VARIABLES
    lock,     \* whose process id the lock file holds, NoWriter if there is none
    file,     \* the history file
    backup,   \* the .bak file; one that does not exist reads like an empty one
    temp,     \* the .tmp file of compaction
    horizon,  \* snapshots below it are older than max_age_days
    pc,       \* where each writer stands in append()
    record,   \* the snapshot each writer appends
    retained, \* what each writer decided to keep when it compacts
    failing,  \* whether an OSError is propagating in the writer
    calls,    \* append calls made so far
    written,  \* history variable: the snapshots written on a line of their own, in order
    acked,    \* history variable: the snapshots whose append returned normally
    spoiled,  \* history variable: the snapshots whose line is there, but does not parse
    dropped,  \* history variable: those of them that a compaction has left out
    harmed,   \* history variable: how many writes were torn and lines damaged
    rpc,      \* where each reader stands in load()
    reported, \* _recovery_reported of the readers' history object
    recoveries \* the recovery events that got into the audit journal

storeVars == <<lock, file, backup, temp>>
callVars == <<record, retained, failing, calls>>
ghostVars == <<written, acked, spoiled, dropped, harmed>>
readVars == <<rpc, reported, recoveries>>
vars == <<storeVars, horizon, pc, callVars, ghostVars, readVars>>

Snapshot == 1..MaxAppends

PC == {"idle", "acquire", "locked", "appended", "copy", "copying", "compact",
       "fill", "replace", "replaced", "cleanup", "release", "audit"}

\* The writers inside the with-block of _exclusive_lock().
InLock == PC \ {"idle", "acquire", "audit"}

\* The writers between the start of the backup copy and the end of compaction.
Compacting == {"copy", "copying", "compact", "fill", "replace"}

\* The type invariant: the history, its backup, its temporary file and what each
\* writer holds of append() stay well formed through every fault.
TypeOK ==
    /\ lock \in Writer \cup {NoWriter}
    /\ file \in FileOf(Snapshot)
    /\ backup \in FileOf(Snapshot)
    /\ temp \in TempOf(Snapshot)
    /\ horizon \in 1..MaxAppends + 1
    /\ pc \in [Writer -> PC]
    /\ record \in [Writer -> Snapshot \cup {0}]
    /\ retained \in [Writer -> Seq(Snapshot)]
    /\ failing \in [Writer -> BOOLEAN]
    /\ calls \in 0..MaxAppends
    /\ written \in Seq(Snapshot)
    /\ acked \in SUBSET Snapshot
    /\ spoiled \in SUBSET Snapshot
    /\ dropped \in SUBSET Snapshot
    /\ harmed \in 0..MaxHarm
    /\ rpc \in [Reader -> {"idle", "backup", "report"}]
    /\ reported \in BOOLEAN
    /\ recoveries \in Nat

Init ==
    /\ lock = NoWriter
    /\ file = CleanFile(<<>>)
    /\ backup = CleanFile(<<>>)
    /\ temp = NoTemp
    /\ horizon = 1
    /\ pc = [w \in Writer |-> "idle"]
    /\ record = [w \in Writer |-> 0]
    /\ retained = [w \in Writer |-> <<>>]
    /\ failing = [w \in Writer |-> FALSE]
    /\ calls = 0
    /\ written = <<>>
    /\ acked = {}
    /\ spoiled = {}
    /\ dropped = {}
    /\ harmed = 0
    /\ rpc = [r \in Reader |-> "idle"]
    /\ reported = FALSE
    /\ recoveries = 0

Goto(w, l) == pc' = [pc EXCEPT ![w] = l]

\* append() ends, however it does, and its variables with it.
Leave(w) ==
    /\ Goto(w, "idle")
    /\ record' = [record EXCEPT ![w] = 0]
    /\ retained' = [retained EXCEPT ![w] = <<>>]
    /\ failing' = [failing EXCEPT ![w] = FALSE]

\* _within_age_limit() at the cutoff the clock gives now, and the snapshots it is
\* true of.
WithinAgeLimit(n) == n >= horizon

Young == {n \in Snapshot : WithinAgeLimit(n)}

\* Mutant: os.open without O_EXCL.
FreeAlways == TRUE

\* os.open with O_CREAT | O_EXCL can create the lock file.
Free == lock = NoWriter

\* Mutant: the number is limited before the age, and by one too many.
RetainedOneMore(s) == Select(Newest(s, MaxRecords + 1), Young)

\* Mutant: the slice keeps one snapshot too few.
RetainedLess(s) == Newest(Select(s, Young), MaxRecords - 1)

\* What retention keeps of the snapshots s: those young enough, and the newest
\* MaxRecords of them.
Retained(s) == Newest(Select(s, Young), MaxRecords)

\* Mutant: the backup gets what compaction retains.
CopyRetained(w) == CleanFile(retained[w])

\* Mutant: an empty copy is left behind.
CopyNothing(w) == CleanFile(<<>>)

\* What shutil.copyfile() leaves in the backup.
Copy(w) == file

\* Mutant: the temporary file gets the oldest snapshots instead of the newest.
LinesOldest(w) == SubSeq(file.recs, 1, Len(retained[w]))

\* The lines compaction writes to the temporary file.
Lines(w) == retained[w]

\* Mutant: the snapshot is written without its time.
StampedNot(w) == record

\* append() takes the time before it requests the lock.
Stamped(w) == [record EXCEPT ![w] = calls + 1]
-----------------------------------------------------------------------------
\* append() is called and stamps its snapshot.
Call(w) ==
    /\ pc[w] = "idle"
    /\ calls < MaxAppends
    /\ calls' = calls + 1
    /\ record' = Stamped(w)
    /\ Goto(w, "acquire")
    /\ UNCHANGED <<storeVars, horizon, retained, failing, ghostVars, readVars>>

\* os.open with O_CREAT | O_EXCL succeeds.
TakeLock(w) ==
    /\ pc[w] = "acquire"
    /\ Free
    /\ lock' = w
    /\ Goto(w, "locked")
    /\ UNCHANGED <<file, backup, temp, horizon, callVars, ghostVars, readVars>>

\* Mutant: the wait for the lock has no deadline.
TimeOutNever(w) == FALSE

\* The lock file exists and the deadline has passed: TimeoutError.
TimeOut(w) ==
    /\ pc[w] = "acquire"
    /\ ~Free
    /\ Leave(w)
    /\ UNCHANGED <<storeVars, horizon, calls, ghostVars, readVars>>

\* The line is written, flushed and synced: behind a line that was torn it does not
\* parse, and append() does not notice.
WriteLine(w) ==
    /\ pc[w] = "locked"
    /\ file' = AddLine(file, record[w])
    /\ \/ /\ file.tail = "ended"
          /\ written' = Append(written, record[w])
          /\ UNCHANGED spoiled
       \/ /\ file.tail # "ended"
          /\ spoiled' = spoiled \cup {record[w]}
          /\ UNCHANGED written
    /\ Goto(w, "appended")
    /\ UNCHANGED <<lock, backup, temp, horizon, callVars, acked, dropped, harmed, readVars>>

\* Only a part of the line reaches the file and the write or the flush raises OSError.
WriteTorn(w) ==
    /\ "torn" \in Fault
    /\ pc[w] = "locked"
    /\ file' \in {AddCut(file), AddOpen(file, record[w])}
    /\ failing' = [failing EXCEPT ![w] = TRUE]
    /\ harmed < MaxHarm
    /\ harmed' = harmed + 1
    /\ Goto(w, "release")
    /\ UNCHANGED <<lock, backup, temp, horizon, record, retained, calls, written, acked,
                   spoiled, dropped, readVars>>

\* _compact_if_needed() reads the snapshots back, takes the cutoff and compares
\* what it would retain with what there is.
LoadSnapshots(w) ==
    /\ pc[w] = "appended"
    /\ retained' = [retained EXCEPT ![w] = Retained(file.recs)]
    /\ IF Retained(file.recs) = file.recs THEN Goto(w, "release") ELSE Goto(w, "copy")
    /\ UNCHANGED <<storeVars, horizon, record, failing, calls, ghostVars, readVars>>

\* shutil.copyfile() first empties the backup, then copies the history file.
OpenBackup(w) ==
    /\ pc[w] = "copy"
    /\ backup' = CleanFile(<<>>)
    /\ Goto(w, "copying")
    /\ UNCHANGED <<lock, file, temp, horizon, callVars, ghostVars, readVars>>

FillBackup(w) ==
    /\ pc[w] = "copying"
    /\ backup' = Copy(w)
    /\ Goto(w, "compact")
    /\ UNCHANGED <<lock, file, temp, horizon, callVars, ghostVars, readVars>>

\* The temporary file is opened for writing, filled and synced.
OpenTemp(w) ==
    /\ pc[w] = "compact"
    /\ temp' = TempWith(<<>>)
    /\ Goto(w, "fill")
    /\ UNCHANGED <<lock, file, backup, horizon, callVars, ghostVars, readVars>>

FillTemp(w) ==
    /\ pc[w] = "fill"
    /\ temp' = TempWith(Lines(w))
    /\ Goto(w, "replace")
    /\ UNCHANGED <<lock, file, backup, horizon, callVars, ghostVars, readVars>>

\* os.replace(): the temporary file becomes the history.
Replace(w) ==
    /\ pc[w] = "replace"
    /\ temp.there
    /\ file' = CleanFile(temp.recs)
    /\ temp' = NoTemp
    /\ dropped' = spoiled
    /\ Goto(w, "replaced")
    /\ UNCHANGED <<lock, backup, horizon, callVars, written, acked, spoiled, harmed, readVars>>

\* The compaction is audited while the history lock is still held.
AuditCompaction(w) ==
    /\ pc[w] = "replaced"
    /\ Goto(w, "cleanup")
    /\ UNCHANGED <<storeVars, horizon, callVars, ghostVars, readVars>>

\* The finally clause of compaction removes what is left of the temporary file.
RemoveTemp(w) ==
    /\ pc[w] = "cleanup"
    /\ temp' = NoTemp
    /\ Goto(w, "release")
    /\ UNCHANGED <<lock, file, backup, horizon, callVars, ghostVars, readVars>>

\* The finally clause of _exclusive_lock() removes the lock file; an error leaves
\* append() here.
Release(w) ==
    /\ pc[w] = "release"
    /\ lock' = NoWriter
    /\ \/ failing[w] /\ Leave(w)
       \/ ~failing[w] /\ Goto(w, "audit") /\ UNCHANGED <<record, retained, failing>>
    /\ UNCHANGED <<file, backup, temp, horizon, calls, ghostVars, readVars>>

\* The append is audited without the lock, and append() returns.
AuditAppend(w) ==
    /\ pc[w] = "audit"
    /\ acked' = acked \cup {record[w]}
    /\ Leave(w)
    /\ UNCHANGED <<storeVars, horizon, calls, written, spoiled, dropped, harmed, readVars>>

\* A file operation raises OSError; from the copy of the backup on, the finally
\* clause of compaction runs before the one of the lock.  An unlink or close in a
\* finally clause that fails itself is not modelled.
Fail(w) ==
    /\ "io" \in Fault
    /\ \/ /\ pc[w] = "acquire"
          /\ Leave(w)
       \/ /\ \/ pc[w] \in {"locked", "appended"} /\ Goto(w, "release")
             \/ pc[w] \in Compacting /\ Goto(w, "cleanup")
          /\ failing' = [failing EXCEPT ![w] = TRUE]
          /\ UNCHANGED <<record, retained>>
    /\ UNCHANGED <<storeVars, horizon, calls, ghostVars, readVars>>

\* The process of w is killed and started again: no finally clause runs.
Crash(w) ==
    /\ "crash" \in Fault
    /\ pc[w] # "idle"
    /\ Leave(w)
    /\ UNCHANGED <<storeVars, horizon, calls, ghostVars, readVars>>

\* The history file is there: it or its backup has had a line.
Exists == file # CleanFile(<<>>) \/ backup # CleanFile(<<>>)

\* load() finds that the history has no snapshot and turns to the backup; otherwise,
\* and when the history object has reported a recovery before, it changes nothing.
LoadPrimary(r) ==
    /\ rpc[r] = "idle"
    /\ file.recs = <<>>
    /\ Exists
    /\ ~reported
    /\ rpc' = [rpc EXCEPT ![r] = "backup"]
    /\ UNCHANGED <<storeVars, horizon, pc, callVars, ghostVars, reported, recoveries>>

\* A recovery is reported unless another thread has reported one meanwhile.
LoadBackup(r) ==
    /\ rpc[r] = "backup"
    /\ rpc' = [rpc EXCEPT ![r] = IF backup.recs = <<>> \/ reported THEN "idle" ELSE "report"]
    /\ UNCHANGED <<storeVars, horizon, pc, callVars, ghostVars, reported, recoveries>>

\* Mutant: _recovery_reported is never set.
ReportedNever(r) == FALSE

\* _recovery_reported after the audit of a recovery.
Reported(r) == TRUE

\* The recovery has been audited, successfully or not.
AuditRecovery(r) ==
    /\ rpc[r] = "report"
    /\ recoveries' \in {recoveries, recoveries + 1}
    /\ reported' = Reported(r)
    /\ rpc' = [rpc EXCEPT ![r] = "idle"]
    /\ UNCHANGED <<storeVars, horizon, pc, callVars, ghostVars>>

\* Somebody deletes a lock file whose process is gone.  The program never does.
ClearStaleLock ==
    /\ "operator" \in Fault
    /\ lock # NoWriter
    /\ pc[lock] \notin InLock
    /\ lock' = NoWriter
    /\ UNCHANGED <<file, backup, temp, horizon, pc, callVars, ghostVars, readVars>>

\* Time passes, and one more snapshot is older than max_age_days.
Age ==
    /\ "age" \in Fault
    /\ horizon <= calls
    /\ horizon' = horizon + 1
    /\ UNCHANGED <<storeVars, pc, callVars, ghostVars, readVars>>

\* Somebody or something damages complete lines of the history while nobody writes
\* it, one of them or several: they parse no more.
Corrupt ==
    /\ "damage" \in Fault
    /\ lock = NoWriter
    /\ \E D \in (SUBSET Range(Glued(file))) \ {{}} :
          /\ file' = Damaged(file, Snapshot \ D, Cardinality(D))
          /\ spoiled' = spoiled \cup D
          /\ harmed + Cardinality(D) <= MaxHarm
          /\ harmed' = harmed + Cardinality(D)
    /\ UNCHANGED <<lock, backup, temp, horizon, pc, callVars, written, acked, dropped, readVars>>

\* Mutant: malformed lines are counted only while the backup is served.
StatusOfRecovery ==
    IF lock # NoWriter THEN "busy"
    ELSE IF file.recs = <<>> /\ backup.recs # <<>> THEN "degraded" ELSE "ok"

\* The lines of the history that diagnostics() counts as malformed.
Malformed == file.bad + IF file.tail = "cut" THEN 1 ELSE 0

\* The status it reports.
Status ==
    IF lock # NoWriter THEN "busy"
    ELSE IF Malformed > 0 \/ (file.recs = <<>> /\ backup.recs # <<>>) THEN "degraded" ELSE "ok"

\* The wait loop: at each turn the lock is free, or the deadline decides.
Wait(w) == TakeLock(w) \/ TimeOut(w)

\* The steps of append() behind the lock, apart from the audits.
Store(w) ==
    \/ WriteLine(w)
    \/ LoadSnapshots(w)
    \/ OpenBackup(w)
    \/ FillBackup(w)
    \/ OpenTemp(w)
    \/ FillTemp(w)
    \/ Replace(w)
    \/ RemoveTemp(w)
    \/ Release(w)

Work(w) == Store(w) \/ AuditCompaction(w) \/ AuditAppend(w)

Next ==
    \/ \E w \in Writer :
        \/ Call(w)
        \/ Wait(w)
        \/ Work(w)
        \/ WriteTorn(w)
        \/ Fail(w)
        \/ Crash(w)
    \/ \E r \in Reader :
        \/ LoadPrimary(r)
        \/ LoadBackup(r)
        \/ AuditRecovery(r)
    \/ ClearStaleLock
    \/ Age
    \/ Corrupt

\* A running thread is scheduled again, and the wait is bounded by a deadline.
Fairness == \A w \in Writer : WF_vars(Wait(w)) /\ WF_vars(Work(w))

Spec == Init /\ [][Next]_vars /\ Fairness
-----------------------------------------------------------------------------
\* Two writers are never both inside the with-block of the lock.
MutualExclusion ==
    \A v, w \in Writer : pc[v] \in InLock /\ pc[w] \in InLock => v = w

\* When compaction is about to replace the history, the backup is a complete
\* copy of the history as it is now, so that a crash between os.replace() and the
\* next append loses neither of the two files; README.md: "The pre-compaction
\* file is kept as a .bak recovery source".
BackupPrecedesReplace ==
    \A w \in Writer : pc[w] \in {"compact", "fill", "replace"} => backup = file

\* The snapshots load() would return now.
Served == IF file.recs # <<>> THEN file.recs ELSE backup.recs

\* The last line of the history, as long as a torn write has left it without its newline.
Unterminated == IF file.tail = "open" THEN {file.recs[Len(file.recs)]} ELSE {}

\* MaxRecords newer snapshots have been written behind snapshot n.
Superseded(n) ==
    \E i \in 1..Len(written) : written[i] = n /\ i <= Len(written) - MaxRecords

\* No step of any writer, whatever fails, tears or crashes, takes away a snapshot that
\* load() returned, unless retention by number or by age may, or somebody damaged its
\* line.  (But the one on a line without a newline: the next append makes it unreadable.)
ServedUntilRetired ==
    [][\A n \in Range(Served) \ Unterminated :
          \/ n \in Range(Served')
          \/ Superseded(n)'
          \/ n < horizon'
          \/ n \in spoiled']_vars

\* The snapshots whose append returned normally and which readers do not get, although
\* retention would keep them.
Lost == {n \in acked : n \notin Range(Served) /\ ~Superseded(n) /\ WithinAgeLimit(n)}

\* A snapshot whose append returned normally is served until retention retires it,
\* but for one for each write that was torn (the line written next is glued to it)
\* and for each line that was damaged: however the writers go on and whatever else
\* fails, no harm spreads to a second snapshot.
AckedIsServed == Cardinality(Lost) <= harmed

\* Once the limit has been reached, an append that returns normally leaves every
\* snapshot of the history in the backup too: damage that strikes before the next
\* append takes nothing that is not there.  (While the history has no malformed line
\* and no snapshot is too old: with either, compaction comes at other times.)
BackupCoversHistory ==
    \A w \in Writer :
        /\ pc[w] = "release"
        /\ ~failing[w]
        /\ horizon = 1
        /\ file.bad = 0
        /\ Len(written) > MaxRecords
        => Range(file.recs) \subseteq Range(backup.recs)

\* An append that is about to return leaves no more than MaxRecords snapshots,
\* however many compactions failed or were cut short before it.
AppendRestoresRetention ==
    \A w \in Writer :
        pc[w] = "release" /\ ~failing[w] => Len(file.recs) <= MaxRecords

\* Damage shows until compaction covers it: when an acknowledged snapshot is missing
\* from the history that retention would keep, the diagnostics say "ok" only after a
\* compaction that came behind the damage.  (Compaction leaves the malformed lines
\* out, and from then on nothing in the history tells of them.)
DamageIsReported ==
    Status = "ok" =>
        \A n \in acked :
            \/ n \in Range(file.recs)
            \/ Superseded(n)
            \/ ~WithinAgeLimit(n)
            \/ n \in dropped

\* However often the history is damaged, written and loaded again, and whether or not
\* the audit of an earlier recovery failed, a recovery is audited at most once by each
\* thread that loads.  (Threads that share the history object may each find
\* _recovery_reported unset before one of them sets it: once for all of them is more
\* than the code keeps.)
RecoveryReportedOncePerThread == recoveries <= Cardinality(Reader)
=============================================================================
