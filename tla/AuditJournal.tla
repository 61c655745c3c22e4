---------------------------- MODULE AuditJournal ----------------------------
(***************************************************************************)
(* ObservabilityAuditJournal (app/services/observability_security.py):     *)
(* several writers, in several threads and processes, append events to one *)
(* JSONL file under a lock file, and whoever finds more than MaxRecords    *)
(* events in it compacts it before leaving.  One action per operation on   *)
(* the file system; a writer may fail or be killed at each of them.        *)
(***************************************************************************)
EXTENDS Integers, Sequences, FiniteSets, Functions, JournalFile

CONSTANTS Writer,      \* the threads and processes that hold a journal object
          NoWriter,    \* the owner of a lock file that does not exist
          MaxRecords,  \* max_records of the journal
          MaxAppends,  \* bound: how many append calls a behaviour makes
          Fault        \* which faults the environment produces

ASSUME JournalAssumption ==
    /\ NoWriter \notin Writer
    /\ MaxRecords \in Nat \ {0}
    /\ MaxAppends \in Nat
    /\ Fault \subseteq {"io", "torn", "crash", "operator"}

VARIABLES
    lock,    \* whose process id the lock file holds, NoWriter if there is no file
    file,    \* the journal file
    temp,    \* the .tmp file of compaction
    pc,      \* where each writer stands in append()
    event,   \* the event each writer is appending
    retained,\* what each writer decided to keep when it compacts
    failing, \* whether an OSError is propagating in the writer
    calls,   \* append calls made so far; the n-th call writes event n
    written, \* history variable: the events whose line was written intact, in order
    acked    \* history variable: the events whose append returned normally

fileVars == <<lock, file, temp>>
callVars == <<event, retained, failing>>
vars == <<lock, file, temp, pc, event, retained, failing, calls, written, acked>>

Event == 1..MaxAppends

PC == {"idle", "acquire", "locked", "appended", "compact", "fill", "replace",
       "cleanup", "release"}

\* The writers inside the with-block of _exclusive_lock().
InLock == {"locked", "appended", "compact", "fill", "replace", "cleanup", "release"}

\* The type invariant: the file, the temporary file and what each writer holds of
\* append() stay well formed through every fault.
TypeOK ==
    /\ lock \in Writer \cup {NoWriter}
    /\ file \in FileOf(Event)
    /\ temp \in TempOf(Event)
    /\ pc \in [Writer -> PC]
    /\ event \in [Writer -> Event \cup {0}]
    /\ retained \in [Writer -> Seq(Event)]
    /\ failing \in [Writer -> BOOLEAN]
    /\ calls \in 0..MaxAppends
    /\ written \in Seq(Event)
    /\ acked \in SUBSET Event

Init ==
    /\ lock = NoWriter
    /\ file = CleanFile(<<>>)
    /\ temp = NoTemp
    /\ pc = [w \in Writer |-> "idle"]
    /\ event = [w \in Writer |-> 0]
    /\ retained = [w \in Writer |-> <<>>]
    /\ failing = [w \in Writer |-> FALSE]
    /\ calls = 0
    /\ written = <<>>
    /\ acked = {}

Goto(w, l) == pc' = [pc EXCEPT ![w] = l]

\* Mutant: os.open without O_EXCL.
FreeAlways == TRUE

\* os.open with O_CREAT | O_EXCL can create the lock file.
Free == lock = NoWriter

\* Mutant: the limit may be exceeded by one before the journal is compacted.
WithinLimitOrOneMore(s) == Len(s) <= MaxRecords + 1

\* _compact_if_needed() leaves the events s alone.
WithinLimit(s) == Len(s) <= MaxRecords

\* Mutant: the slice keeps one event too few.
KeptLess(s) == Newest(s, MaxRecords - 1)

\* What compaction keeps of the events s.
Kept(s) == Newest(s, MaxRecords)

\* Mutant: the temporary file gets the oldest events instead of the newest.
LinesOldest(w) == SubSeq(file.recs, 1, MaxRecords)

\* The lines compaction writes to the temporary file.
Lines(w) == retained[w]

\* Mutant: the lock file is removed behind the with-body, not in a finally clause.
UnlinkedUnlessFailing(w) == IF failing[w] THEN lock ELSE NoWriter

\* The finally clause of _exclusive_lock() removes the lock file, whoever owns it.
Unlinked(w) == NoWriter

\* Mutant: append() swallows the error and returns normally.
AckedAlways(w) == acked \cup {event[w]}

\* append() returns, or lets the error through.
Acked(w) == IF failing[w] THEN acked ELSE acked \cup {event[w]}
-----------------------------------------------------------------------------
\* append() is called: the event is built before the lock is requested.
Call(w) ==
    /\ pc[w] = "idle"
    /\ calls < MaxAppends
    /\ calls' = calls + 1
    /\ event' = [event EXCEPT ![w] = calls + 1]
    /\ failing' = [failing EXCEPT ![w] = FALSE]
    /\ Goto(w, "acquire")
    /\ UNCHANGED <<fileVars, retained, written, acked>>

\* os.open with O_CREAT | O_EXCL succeeds.
TakeLock(w) ==
    /\ pc[w] = "acquire"
    /\ Free
    /\ lock' = w
    /\ Goto(w, "locked")
    /\ UNCHANGED <<file, temp, callVars, calls, written, acked>>

\* The lock file exists and the deadline has passed: TimeoutError, an OSError.
TimeOut(w) ==
    /\ pc[w] = "acquire"
    /\ ~Free
    /\ Goto(w, "idle")
    /\ UNCHANGED <<fileVars, callVars, calls, written, acked>>

\* The line is written, flushed and synced.
WriteLine(w) ==
    /\ pc[w] = "locked"
    /\ file' = AddLine(file, event[w])
    /\ written' = IF file.tail = "ended" THEN Append(written, event[w]) ELSE written
    /\ Goto(w, "appended")
    /\ UNCHANGED <<lock, temp, callVars, calls, acked>>

\* Only a part of the line reaches the file and the flush raises OSError.
WriteTorn(w) ==
    /\ "torn" \in Fault
    /\ pc[w] = "locked"
    /\ file' \in {AddCut(file), AddOpen(file, event[w])}
    /\ failing' = [failing EXCEPT ![w] = TRUE]
    /\ Goto(w, "release")
    /\ UNCHANGED <<lock, temp, event, retained, calls, written, acked>>

\* _compact_if_needed() reads the events back and compares their number with
\* the limit.
LoadEvents(w) ==
    /\ pc[w] = "appended"
    /\ IF WithinLimit(file.recs)
       THEN /\ Goto(w, "release")
            /\ UNCHANGED retained
       ELSE /\ Goto(w, "compact")
            /\ retained' = [retained EXCEPT ![w] = Kept(file.recs)]
    /\ UNCHANGED <<fileVars, event, failing, calls, written, acked>>

\* Opening the temporary file for writing truncates it.
OpenTemp(w) ==
    /\ pc[w] = "compact"
    /\ temp' = TempWith(<<>>)
    /\ Goto(w, "fill")
    /\ UNCHANGED <<lock, file, callVars, calls, written, acked>>

\* The retained events are written, flushed and synced.
FillTemp(w) ==
    /\ pc[w] = "fill"
    /\ temp' = TempWith(Lines(w))
    /\ Goto(w, "replace")
    /\ UNCHANGED <<lock, file, callVars, calls, written, acked>>

\* os.replace(): the temporary file becomes the journal.
Replace(w) ==
    /\ pc[w] = "replace"
    /\ temp.there
    /\ file' = CleanFile(temp.recs)
    /\ temp' = NoTemp
    /\ Goto(w, "cleanup")
    /\ UNCHANGED <<lock, callVars, calls, written, acked>>

\* The finally clause of compaction removes what is left of the temporary file.
RemoveTemp(w) ==
    /\ pc[w] = "cleanup"
    /\ temp' = NoTemp
    /\ Goto(w, "release")
    /\ UNCHANGED <<lock, file, callVars, calls, written, acked>>

\* The with-block of the lock and append() end.
Release(w) ==
    /\ pc[w] = "release"
    /\ lock' = Unlinked(w)
    /\ acked' = Acked(w)
    /\ Goto(w, "idle")
    /\ UNCHANGED <<file, temp, callVars, calls, written>>

\* A file operation raises OSError: with no lock yet there is nothing to undo,
\* before compaction the lock is released, and from OpenTemp on the temporary
\* file is removed too.  At "appended" the line is in the file already.  An unlink
\* or close in a finally clause that fails itself is not modelled.
Fail(w) ==
    /\ "io" \in Fault
    /\ \/ /\ pc[w] = "acquire"
          /\ Goto(w, "idle")
       \/ /\ pc[w] \in {"locked", "appended"}
          /\ Goto(w, "release")
       \/ /\ pc[w] \in {"compact", "fill", "replace"}
          /\ Goto(w, "cleanup")
    /\ failing' = [failing EXCEPT ![w] = TRUE]
    /\ UNCHANGED <<fileVars, event, retained, calls, written, acked>>

\* The process of w is killed and started again: no finally clause runs.
Crash(w) ==
    /\ "crash" \in Fault
    /\ pc[w] # "idle"
    /\ Goto(w, "idle")
    /\ UNCHANGED <<fileVars, callVars, calls, written, acked>>

\* Somebody deletes a lock file whose process is gone.  The program never does.
ClearStaleLock ==
    /\ "operator" \in Fault
    /\ lock # NoWriter
    /\ pc[lock] \notin InLock
    /\ lock' = NoWriter
    /\ UNCHANGED <<file, temp, pc, callVars, calls, written, acked>>

\* The wait loop: at each turn the lock is free, or the deadline decides.
Wait(w) == TakeLock(w) \/ TimeOut(w)

\* The steps of the code behind the lock.
Work(w) ==
    \/ WriteLine(w)
    \/ LoadEvents(w)
    \/ OpenTemp(w)
    \/ FillTemp(w)
    \/ Replace(w)
    \/ RemoveTemp(w)
    \/ Release(w)

\* The steps that leave no line torn.
IntactNext ==
    \/ \E w \in Writer :
        \/ Call(w)
        \/ Wait(w)
        \/ Work(w)
        \/ Fail(w)
        \/ Crash(w)
    \/ ClearStaleLock

Next == IntactNext \/ \E w \in Writer : WriteTorn(w)

\* A running thread is scheduled again, and the wait for the lock is bounded
\* by a deadline; nobody has to call append, fail or repair anything.
Fairness == \A w \in Writer : WF_vars(Wait(w)) /\ WF_vars(Work(w))

Spec == Init /\ [][Next]_vars /\ Fairness

\* The journal as long as no line is torn.
IntactSpec == Init /\ [][IntactNext]_vars /\ Fairness
-----------------------------------------------------------------------------
\* Two writers are never both inside the with-block of the lock, whoever
\* crashed or timed out before: the finally clause of _exclusive_lock() deletes
\* the lock file without looking at whose it is, so this is what keeps it from
\* deleting another writer's.
MutualExclusion ==
    \A v, w \in Writer : pc[v] \in InLock /\ pc[w] \in InLock => v = w

\* The file that is about to replace the journal holds exactly the newest
\* MaxRecords events of the journal as it is now, not as it was when another
\* writer read it: compaction loses nothing that retention would keep.
ReplaceIsCurrent ==
    \A w \in Writer :
        pc[w] = "replace" => temp = TempWith(Newest(file.recs, MaxRecords))

\* An append that is about to return normally leaves no more than MaxRecords
\* events, however many compactions failed or were cut short by a crash before
\* it, and whatever those left behind.
AppendRestoresRetention ==
    \A w \in Writer :
        pc[w] = "release" /\ ~failing[w] => Len(file.recs) <= MaxRecords

\* BoundedLog as the readers and callers of the journal see it.
Abstract == INSTANCE BoundedLog
    WITH Record <- Event, log <- written, visible <- file.recs

\* The journal does what BoundedLog promises: with all its locks, files, faults
\* and crashes it adds events one by one at the end, drops the oldest in one step
\* and only above the limit, and acknowledges only what it has written.
ImplementsBoundedLog == Abstract!Spec

\* At every instant, with or without the lock, a reader obtains an unbroken run
\* of the newest events in the order they were written, and never fewer than
\* retention keeps: recent() and diagnostics() read without taking the lock.
ReadersSeeNewest == Abstract!VisibleIsNewest

\* An event whose append returned normally is in the journal until MaxRecords
\* newer ones have been written.  (Without WriteTorn: the event behind a torn line
\* is glued to it and lost.)
AckedIsReadable == Abstract!AckedIsVisible
=============================================================================
