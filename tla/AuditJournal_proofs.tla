------------------------ MODULE AuditJournal_proofs ------------------------
(***************************************************************************)
(* AuditJournal, proved for every set of writers, every retention limit    *)
(* and every number of calls.  The inductive invariant says who may be     *)
(* behind the lock and what a compaction under way has read so far; the    *)
(* properties of the file follow because BoundedLog keeps its promises and *)
(* every step of the journal is a step of BoundedLog or changes nothing    *)
(* BoundedLog sees.                                                        *)
(***************************************************************************)
EXTENDS AuditJournal, JournalFile_proofs

\* A writer is behind the lock only while the lock file is its own.
LockHeld == \A w \in Writer : pc[w] \in InLock => lock = w

\* A call under way carries an event.
EventReady == \A w \in Writer : pc[w] # "idle" => event[w] \in Event

\* What compaction read is still what the file holds.
RetainedIsCurrent ==
    \A w \in Writer :
        pc[w] \in {"compact", "fill", "replace"} =>
            /\ Len(file.recs) > MaxRecords
            /\ retained[w] = Newest(file.recs, MaxRecords)

\* The temporary file is complete when it replaces the journal.
TempIsReady ==
    \A w \in Writer : pc[w] = "replace" => temp = TempWith(retained[w])

\* Once compaction is over, the journal is within its limit.
Bounded ==
    \A w \in Writer :
        pc[w] \in {"cleanup", "release"} /\ ~failing[w] => Len(file.recs) <= MaxRecords

\* The inductive invariant behind the lock.
IInv ==
    /\ TypeOK
    /\ LockHeld
    /\ EventReady
    /\ RetainedIsCurrent
    /\ TempIsReady
    /\ Bounded

\* Nobody else is behind the lock with w.
LEMMA Alone ==
    ASSUME LockHeld, NEW v \in Writer, NEW w \in Writer,
           pc[v] \in InLock, pc[w] \in InLock
    PROVE  v = w
BY DEF LockHeld

\* Init has nobody behind the lock.
LEMMA InitIInv == Init => IInv
<1>1. SUFFICES ASSUME Init PROVE IInv
  OBVIOUS
<1>2. TypeOK
  BY <1>1, JournalAssumption
     DEF Init, TypeOK, PC, CleanFile, FileOf, NoTemp, TempOf, Event
<1>. QED
  BY <1>1, <1>2 DEF Init, IInv, LockHeld, EventReady, RetainedIsCurrent,
                    TempIsReady, Bounded, InLock

\* Every step of every writer, faults included, keeps the invariant.
LEMMA NextIInv == IInv /\ [Next]_vars => IInv'
<1>. USE DEF PC, InLock, Goto, fileVars, callVars
<1>1. SUFFICES ASSUME IInv, [Next]_vars PROVE IInv'
  OBVIOUS
<1>2. /\ TypeOK /\ LockHeld /\ EventReady
      /\ RetainedIsCurrent /\ TempIsReady /\ Bounded
      /\ MaxRecords \in Nat
      /\ file.recs \in Seq(Event)
      /\ Len(file.recs) \in Nat
  BY <1>1, LenProperties, JournalAssumption DEF IInv, TypeOK, FileOf
<1>3. ASSUME NEW w \in Writer, Call(w) PROVE IInv'
  <2>1. TypeOK'
    <3>1. calls + 1 \in Event /\ calls + 1 \in 0..MaxAppends
      BY <1>2, <1>3, JournalAssumption DEF Call, TypeOK, Event
    <3>. QED  BY <1>2, <1>3, <3>1 DEF Call, TypeOK
  <2>2. LockHeld'
    BY <1>2, <1>3 DEF Call, LockHeld, TypeOK
  <2>3. EventReady'
    <3>1. calls + 1 \in Event
      BY <1>2, <1>3, JournalAssumption DEF Call, TypeOK, Event
    <3>. QED  BY <1>2, <1>3, <3>1 DEF Call, EventReady, TypeOK
  <2>4. RetainedIsCurrent'
    BY <1>2, <1>3, Alone DEF Call, RetainedIsCurrent, TypeOK
  <2>5. TempIsReady'
    BY <1>2, <1>3, Alone DEF Call, TempIsReady, TypeOK
  <2>6. Bounded'
    BY <1>2, <1>3, Alone DEF Call, Bounded, TypeOK
  <2>. QED  BY <2>1, <2>2, <2>3, <2>4, <2>5, <2>6 DEF IInv
<1>4. ASSUME NEW w \in Writer, TakeLock(w) PROVE IInv'
  <2>1. TypeOK'
    BY <1>2, <1>4 DEF TakeLock, Free, TypeOK
  <2>2. LockHeld'
    BY <1>2, <1>4, JournalAssumption DEF TakeLock, Free, LockHeld, TypeOK
  <2>3. EventReady'
    BY <1>2, <1>4 DEF TakeLock, Free, EventReady, TypeOK
  <2>4. RetainedIsCurrent'
    BY <1>2, <1>4, Alone DEF TakeLock, Free, RetainedIsCurrent, TypeOK
  <2>5. TempIsReady'
    BY <1>2, <1>4, Alone DEF TakeLock, Free, TempIsReady, TypeOK
  <2>6. Bounded'
    BY <1>2, <1>4, Alone DEF TakeLock, Free, Bounded, TypeOK
  <2>. QED  BY <2>1, <2>2, <2>3, <2>4, <2>5, <2>6 DEF IInv
<1>5. ASSUME NEW w \in Writer, TimeOut(w) PROVE IInv'
  <2>1. TypeOK'
    BY <1>2, <1>5 DEF TimeOut, Free, TypeOK
  <2>2. LockHeld'
    BY <1>2, <1>5 DEF TimeOut, Free, LockHeld, TypeOK
  <2>3. EventReady'
    BY <1>2, <1>5 DEF TimeOut, Free, EventReady, TypeOK
  <2>4. RetainedIsCurrent'
    BY <1>2, <1>5, Alone DEF TimeOut, Free, RetainedIsCurrent, TypeOK
  <2>5. TempIsReady'
    BY <1>2, <1>5, Alone DEF TimeOut, Free, TempIsReady, TypeOK
  <2>6. Bounded'
    BY <1>2, <1>5, Alone DEF TimeOut, Free, Bounded, TypeOK
  <2>. QED  BY <2>1, <2>2, <2>3, <2>4, <2>5, <2>6 DEF IInv
<1>6. ASSUME NEW w \in Writer, WriteLine(w) PROVE IInv'
  <2>1. TypeOK'
    <3>1. event[w] \in Event
      BY <1>2, <1>6 DEF WriteLine, EventReady
    <3>2. file' \in FileOf(Event) /\ written' \in Seq(Event)
      BY <1>2, <1>6, <3>1, AddType, AppendProperties DEF WriteLine, TypeOK
    <3>. QED  BY <1>2, <1>6, <3>2 DEF WriteLine, TypeOK
  <2>2. LockHeld'
    BY <1>2, <1>6 DEF WriteLine, LockHeld, TypeOK
  <2>3. EventReady'
    BY <1>2, <1>6 DEF WriteLine, EventReady, TypeOK
  <2>4. RetainedIsCurrent'
    BY <1>2, <1>6, Alone DEF WriteLine, RetainedIsCurrent, TypeOK
  <2>5. TempIsReady'
    BY <1>2, <1>6, Alone DEF WriteLine, TempIsReady, TypeOK
  <2>6. Bounded'
    BY <1>2, <1>6, Alone DEF WriteLine, Bounded, TypeOK
  <2>. QED  BY <2>1, <2>2, <2>3, <2>4, <2>5, <2>6 DEF IInv
<1>7. ASSUME NEW w \in Writer, WriteTorn(w) PROVE IInv'
  <2>1. TypeOK'
    <3>1. event[w] \in Event
      BY <1>2, <1>7 DEF WriteTorn, EventReady
    <3>2. file' \in FileOf(Event)
      BY <1>2, <1>7, <3>1, AddType DEF WriteTorn, TypeOK
    <3>. QED  BY <1>2, <1>7, <3>2 DEF WriteTorn, TypeOK
  <2>2. LockHeld'
    BY <1>2, <1>7 DEF WriteTorn, LockHeld, TypeOK
  <2>3. EventReady'
    BY <1>2, <1>7 DEF WriteTorn, EventReady, TypeOK
  <2>4. RetainedIsCurrent'
    BY <1>2, <1>7, Alone DEF WriteTorn, RetainedIsCurrent, TypeOK
  <2>5. TempIsReady'
    BY <1>2, <1>7, Alone DEF WriteTorn, TempIsReady, TypeOK
  <2>6. Bounded'
    BY <1>2, <1>7, Alone DEF WriteTorn, Bounded, TypeOK
  <2>. QED  BY <2>1, <2>2, <2>3, <2>4, <2>5, <2>6 DEF IInv
<1>8. ASSUME NEW w \in Writer, LoadEvents(w) PROVE IInv'
  <2>1. TypeOK'
    <3>1. Newest(file.recs, MaxRecords) \in Seq(Event)
      BY <1>2, NewestType
    <3>. QED  BY <1>2, <1>8, <3>1 DEF LoadEvents, WithinLimit, Kept, TypeOK
  <2>2. LockHeld'
    BY <1>2, <1>8 DEF LoadEvents, WithinLimit, Kept, LockHeld, TypeOK
  <2>3. EventReady'
    BY <1>2, <1>8 DEF LoadEvents, WithinLimit, Kept, EventReady, TypeOK
  <2>4. RetainedIsCurrent'
    BY <1>2, <1>8, Alone DEF LoadEvents, WithinLimit, Kept, RetainedIsCurrent, TypeOK
  <2>5. TempIsReady'
    BY <1>2, <1>8, Alone DEF LoadEvents, WithinLimit, Kept, TempIsReady, TypeOK
  <2>6. Bounded'
    BY <1>2, <1>8, Alone DEF LoadEvents, WithinLimit, Kept, Bounded, TypeOK
  <2>. QED  BY <2>1, <2>2, <2>3, <2>4, <2>5, <2>6 DEF IInv
<1>9. ASSUME NEW w \in Writer, OpenTemp(w) PROVE IInv'
  <2>1. TypeOK'
    <3>1. temp' \in TempOf(Event)
      BY <1>9 DEF OpenTemp, TempOf, TempWith
    <3>. QED  BY <1>2, <1>9, <3>1 DEF OpenTemp, TypeOK
  <2>2. LockHeld'
    BY <1>2, <1>9 DEF OpenTemp, LockHeld, TypeOK
  <2>3. EventReady'
    BY <1>2, <1>9 DEF OpenTemp, EventReady, TypeOK
  <2>4. RetainedIsCurrent'
    BY <1>2, <1>9, Alone DEF OpenTemp, RetainedIsCurrent, TypeOK
  <2>5. TempIsReady'
    BY <1>2, <1>9, Alone DEF OpenTemp, TempIsReady, TypeOK
  <2>6. Bounded'
    BY <1>2, <1>9, Alone DEF OpenTemp, Bounded, TypeOK
  <2>. QED  BY <2>1, <2>2, <2>3, <2>4, <2>5, <2>6 DEF IInv
<1>10. ASSUME NEW w \in Writer, FillTemp(w) PROVE IInv'
  <2>1. TypeOK'
    <3>1. temp' \in TempOf(Event)
      BY <1>2, <1>10 DEF FillTemp, Lines, TempOf, TempWith, TypeOK
    <3>. QED  BY <1>2, <1>10, <3>1 DEF FillTemp, Lines, TypeOK
  <2>2. LockHeld'
    BY <1>2, <1>10 DEF FillTemp, Lines, LockHeld, TypeOK
  <2>3. EventReady'
    BY <1>2, <1>10 DEF FillTemp, Lines, EventReady, TypeOK
  <2>4. RetainedIsCurrent'
    BY <1>2, <1>10, Alone DEF FillTemp, Lines, RetainedIsCurrent, TypeOK
  <2>5. TempIsReady'
    BY <1>2, <1>10, Alone DEF FillTemp, Lines, TempIsReady, TypeOK
  <2>6. Bounded'
    BY <1>2, <1>10, Alone DEF FillTemp, Lines, Bounded, TypeOK
  <2>. QED  BY <2>1, <2>2, <2>3, <2>4, <2>5, <2>6 DEF IInv
<1>11. ASSUME NEW w \in Writer, Replace(w) PROVE IInv'
  <2>1. TypeOK'
    <3>1. temp' \in TempOf(Event) /\ file' \in FileOf(Event)
      BY <1>2, <1>11 DEF Replace, TempOf, FileOf, NoTemp, CleanFile, TypeOK
    <3>. QED  BY <1>2, <1>11, <3>1 DEF Replace, TypeOK
  <2>2. LockHeld'
    BY <1>2, <1>11 DEF Replace, LockHeld, TypeOK
  <2>3. EventReady'
    BY <1>2, <1>11 DEF Replace, EventReady, TypeOK
  <2>4. RetainedIsCurrent'
    BY <1>2, <1>11, Alone DEF Replace, RetainedIsCurrent, TypeOK
  <2>5. TempIsReady'
    BY <1>2, <1>11, Alone DEF Replace, TempIsReady, TypeOK
  <2>6. Bounded'
    <3>1. file'.recs = Newest(file.recs, MaxRecords)
      BY <1>2, <1>11 DEF Replace, RetainedIsCurrent, TempIsReady, CleanFile, TempWith
    <3>2. Len(file'.recs) <= MaxRecords
      BY <1>2, <3>1, NewestType
    <3>. QED  BY <1>2, <1>11, <3>2 DEF Bounded
  <2>. QED  BY <2>1, <2>2, <2>3, <2>4, <2>5, <2>6 DEF IInv
<1>12. ASSUME NEW w \in Writer, RemoveTemp(w) PROVE IInv'
  <2>1. TypeOK'
    <3>1. temp' \in TempOf(Event)
      BY <1>12 DEF RemoveTemp, TempOf, NoTemp
    <3>. QED  BY <1>2, <1>12, <3>1 DEF RemoveTemp, TypeOK
  <2>2. LockHeld'
    BY <1>2, <1>12 DEF RemoveTemp, LockHeld, TypeOK
  <2>3. EventReady'
    BY <1>2, <1>12 DEF RemoveTemp, EventReady, TypeOK
  <2>4. RetainedIsCurrent'
    BY <1>2, <1>12, Alone DEF RemoveTemp, RetainedIsCurrent, TypeOK
  <2>5. TempIsReady'
    BY <1>2, <1>12, Alone DEF RemoveTemp, TempIsReady, TypeOK
  <2>6. Bounded'
    BY <1>2, <1>12, Alone DEF RemoveTemp, Bounded, TypeOK
  <2>. QED  BY <2>1, <2>2, <2>3, <2>4, <2>5, <2>6 DEF IInv
<1>13. ASSUME NEW w \in Writer, Release(w) PROVE IInv'
  <2>1. TypeOK'
    <3>1. event[w] \in Event
      BY <1>2, <1>13 DEF Release, Unlinked, Acked, EventReady
    <3>. QED  BY <1>2, <1>13, <3>1 DEF Release, Unlinked, Acked, TypeOK
  <2>2. LockHeld'
    BY <1>2, <1>13 DEF Release, Unlinked, Acked, LockHeld, TypeOK
  <2>3. EventReady'
    BY <1>2, <1>13 DEF Release, Unlinked, Acked, EventReady, TypeOK
  <2>4. RetainedIsCurrent'
    BY <1>2, <1>13, Alone DEF Release, Unlinked, Acked, RetainedIsCurrent, TypeOK
  <2>5. TempIsReady'
    BY <1>2, <1>13, Alone DEF Release, Unlinked, Acked, TempIsReady, TypeOK
  <2>6. Bounded'
    BY <1>2, <1>13, Alone DEF Release, Unlinked, Acked, Bounded, TypeOK
  <2>. QED  BY <2>1, <2>2, <2>3, <2>4, <2>5, <2>6 DEF IInv
<1>14. ASSUME NEW w \in Writer, Fail(w) PROVE IInv'
  <2>1. TypeOK'
    BY <1>2, <1>14 DEF Fail, TypeOK
  <2>2. LockHeld'
    BY <1>2, <1>14 DEF Fail, LockHeld, TypeOK
  <2>3. EventReady'
    BY <1>2, <1>14 DEF Fail, EventReady, TypeOK
  <2>4. RetainedIsCurrent'
    BY <1>2, <1>14, Alone DEF Fail, RetainedIsCurrent, TypeOK
  <2>5. TempIsReady'
    BY <1>2, <1>14, Alone DEF Fail, TempIsReady, TypeOK
  <2>6. Bounded'
    BY <1>2, <1>14, Alone DEF Fail, Bounded, TypeOK
  <2>. QED  BY <2>1, <2>2, <2>3, <2>4, <2>5, <2>6 DEF IInv
<1>15. ASSUME NEW w \in Writer, Crash(w) PROVE IInv'
  <2>1. TypeOK'
    BY <1>2, <1>15 DEF Crash, TypeOK
  <2>2. LockHeld'
    BY <1>2, <1>15 DEF Crash, LockHeld, TypeOK
  <2>3. EventReady'
    BY <1>2, <1>15 DEF Crash, EventReady, TypeOK
  <2>4. RetainedIsCurrent'
    BY <1>2, <1>15, Alone DEF Crash, RetainedIsCurrent, TypeOK
  <2>5. TempIsReady'
    BY <1>2, <1>15, Alone DEF Crash, TempIsReady, TypeOK
  <2>6. Bounded'
    BY <1>2, <1>15, Alone DEF Crash, Bounded, TypeOK
  <2>. QED  BY <2>1, <2>2, <2>3, <2>4, <2>5, <2>6 DEF IInv
<1>16. ASSUME ClearStaleLock PROVE IInv'
  BY <1>1, <1>16 DEF ClearStaleLock, IInv, TypeOK, LockHeld, EventReady,
       RetainedIsCurrent, TempIsReady, Bounded
<1>17. ASSUME UNCHANGED vars PROVE IInv'
  BY <1>1, <1>17 DEF vars, IInv, TypeOK, LockHeld, EventReady,
       RetainedIsCurrent, TempIsReady, Bounded
<1>. QED
  BY <1>1, <1>3, <1>4, <1>5, <1>6, <1>7, <1>8, <1>9, <1>10, <1>11, <1>12, <1>13, <1>14, <1>15, <1>16, <1>17 DEF Next, IntactNext, Wait, Work
-----------------------------------------------------------------------------
\* The invariant implies what the runs check one by one.
LEMMA IInvImplies ==
    IInv => /\ TypeOK
            /\ MutualExclusion
            /\ ReplaceIsCurrent
            /\ AppendRestoresRetention
<1>1. IInv => MutualExclusion
  BY Alone DEF IInv, MutualExclusion
<1>2. IInv => ReplaceIsCurrent
  BY DEF IInv, ReplaceIsCurrent, RetainedIsCurrent, TempIsReady
<1>3. IInv => AppendRestoresRetention
  BY DEF IInv, AppendRestoresRetention, Bounded
<1>. QED  BY <1>1, <1>2, <1>3 DEF IInv

\* Every behaviour of the code keeps the inductive invariant.
THEOREM Invariance == Spec => []IInv
BY InitIInv, NextIInv, PTL DEF Spec

\* The variables keep their types.
THEOREM TypeCorrect == Spec => []TypeOK
BY Invariance, IInvImplies, PTL

\* However many writers there are, and whichever of them time out, fail or are
\* killed, two are never behind the lock: the lock file that Release deletes is
\* always the deleter's own.
THEOREM WritersExclude == Spec => []MutualExclusion
BY Invariance, IInvImplies, PTL

\* Compaction always replaces the journal by the newest events of the journal
\* as it is at that moment.
THEOREM CompactionIsCurrent == Spec => []ReplaceIsCurrent
BY Invariance, IInvImplies, PTL

\* A successful append leaves the journal within its limit, whatever failed or
\* crashed before it.
THEOREM RetentionIsRestored == Spec => []AppendRestoresRetention
BY Invariance, IInvImplies, PTL
-----------------------------------------------------------------------------
\* Without torn writes the journal file always ends with a newline, and an event
\* whose writer went past the write, and did not fail since, has been written.
Written ==
    /\ file.tail = "ended"
    /\ \A w \in Writer :
          /\ pc[w] \in InLock \ {"locked"}
          /\ ~failing[w]
          => event[w] \in Range(written)

\* Nothing is written, visible or acknowledged at first.
LEMMA InitWritten == Init => Written
BY DEF Init, Written, CleanFile, InLock

\* Every step keeps it.
LEMMA NextWritten ==
    ASSUME "torn" \notin Fault
    PROVE  IInv /\ Written /\ [Next]_vars => Written'
<1>. USE DEF InLock, Goto, fileVars, callVars
<1>1. SUFFICES ASSUME IInv, Written, [Next]_vars PROVE Written'
  OBVIOUS
<1>2. TypeOK /\ EventReady
  BY <1>1 DEF IInv
<1>3. ASSUME NEW w \in Writer, WriteLine(w) PROVE Written'
  <2>1. event[w] \in Event /\ written \in Seq(Event)
    BY <1>2, <1>3 DEF WriteLine, EventReady, TypeOK
  <2>2. written' = Append(written, event[w])
    BY <1>1, <1>3 DEF WriteLine, Written
  <2>3. Range(written) \cup {event[w]} \subseteq Range(written')
    BY <2>1, <2>2, RangeAppend
  <2>4. file'.tail = "ended"
    <3>1. file \in FileOf(Event) /\ file' = AddLine(file, event[w])
      BY <1>2, <1>3 DEF WriteLine, TypeOK
    <3>. QED  BY <2>1, <3>1, AddType
  <2>. QED  BY <1>1, <1>2, <1>3, <2>3, <2>4 DEF WriteLine, Written, TypeOK
<1>4. ASSUME NEW w \in Writer, Replace(w) PROVE Written'
  BY <1>1, <1>2, <1>4 DEF Replace, Written, CleanFile, TypeOK
<1>5. ASSUME NEW w \in Writer, LoadEvents(w) PROVE Written'
  BY <1>1, <1>2, <1>5 DEF LoadEvents, WithinLimit, Kept, Written, TypeOK
<1>6. ASSUME NEW w \in Writer, OpenTemp(w) \/ FillTemp(w) \/ RemoveTemp(w) \/ Release(w)
      PROVE  Written'
  BY <1>1, <1>2, <1>6 DEF OpenTemp, FillTemp, Lines, RemoveTemp, Release, Unlinked, Acked, Written, TypeOK
<1>7. ASSUME NEW w \in Writer, Call(w) \/ TakeLock(w) \/ TimeOut(w) \/ Crash(w)
      PROVE  Written'
  <2>1. CASE Call(w)
    BY <1>1, <1>2, <2>1 DEF Call, Written, TypeOK
  <2>2. CASE TakeLock(w)
    BY <1>1, <1>2, <2>2 DEF TakeLock, Free, Written, TypeOK
  <2>3. CASE TimeOut(w)
    BY <1>1, <1>2, <2>3 DEF TimeOut, Free, Written, TypeOK
  <2>4. CASE Crash(w)
    BY <1>1, <1>2, <2>4 DEF Crash, Written, TypeOK
  <2>. QED  BY <1>7, <2>1, <2>2, <2>3, <2>4
<1>8. ASSUME NEW w \in Writer, Fail(w) PROVE Written'
  BY <1>1, <1>2, <1>8 DEF Fail, Written, TypeOK
<1>9. ASSUME NEW w \in Writer, WriteTorn(w) PROVE Written'
  BY <1>9 DEF WriteTorn
<1>10. ASSUME ClearStaleLock \/ UNCHANGED vars PROVE Written'
  BY <1>1, <1>10 DEF ClearStaleLock, vars, Written
<1>. QED
  BY <1>1, <1>3, <1>4, <1>5, <1>6, <1>7, <1>8, <1>9, <1>10 DEF Next, IntactNext, Wait, Work

\* Each step of the code is one step of BoundedLog, or BoundedLog sees nothing of
\* it: the write adds the event, the replacement of the file trims the log, and
\* the normal return acknowledges.
LEMMA StepSimulation ==
    ASSUME "torn" \notin Fault
    PROVE  IInv /\ Written /\ [Next]_vars => [Abstract!Next]_(Abstract!vars)
<1>. USE DEF Goto, fileVars, callVars, Abstract!vars, Abstract!Next
<1>1. SUFFICES ASSUME IInv, Written, [Next]_vars
               PROVE  [Abstract!Next]_(Abstract!vars)
  OBVIOUS
<1>2. TypeOK /\ EventReady /\ RetainedIsCurrent /\ TempIsReady
  BY <1>1 DEF IInv
<1>3. ASSUME NEW w \in Writer, WriteLine(w) PROVE Abstract!Next
  <2>1. event[w] \in Event
    BY <1>2, <1>3 DEF WriteLine, EventReady
  <2>2. /\ written' = Append(written, event[w])
        /\ file'.recs = Append(file.recs, event[w])
        /\ acked' = acked
    <3>1. file \in FileOf(Event) /\ file' = AddLine(file, event[w])
      BY <1>2, <1>3 DEF WriteLine, TypeOK
    <3>2. file.tail = "ended"
      BY <1>1 DEF Written
    <3>3. file'.recs = Append(file.recs, event[w])
      BY <2>1, <3>1, <3>2, AddType
    <3>. QED  BY <1>3, <3>2, <3>3 DEF WriteLine
  <2>. QED  BY <2>1, <2>2 DEF Abstract!Add
<1>4. ASSUME NEW w \in Writer, Replace(w) PROVE Abstract!Next
  <2>1. /\ Len(file.recs) > MaxRecords
        /\ file'.recs = Newest(file.recs, MaxRecords)
        /\ written' = written /\ acked' = acked
    BY <1>2, <1>4 DEF Replace, RetainedIsCurrent, TempIsReady, CleanFile, TempWith
  <2>. QED  BY <2>1 DEF Abstract!Trim, Abstract!Newest, Newest
<1>5. ASSUME NEW w \in Writer, Release(w)
      PROVE  Abstract!Next \/ UNCHANGED Abstract!vars
  <2>1. CASE failing[w]
    BY <1>5, <2>1 DEF Release, Unlinked, Acked
  <2>2. CASE ~failing[w]
    <3>1. event[w] \in Event /\ event[w] \in Range(written)
      BY <1>1, <1>2, <1>5, <2>2 DEF Release, Unlinked, Acked, EventReady, Written, InLock
    <3>. QED  BY <1>5, <2>2, <3>1 DEF Release, Unlinked, Acked, Abstract!Acknowledge, Abstract!Range, Range
  <2>. QED  BY <2>1, <2>2
<1>6. ASSUME NEW w \in Writer,
             \/ Call(w) \/ TakeLock(w) \/ TimeOut(w) \/ LoadEvents(w) \/ OpenTemp(w)
             \/ FillTemp(w) \/ RemoveTemp(w) \/ Fail(w) \/ Crash(w)
      PROVE  UNCHANGED Abstract!vars
  BY <1>6 DEF Call, TakeLock, Free, TimeOut, LoadEvents, WithinLimit, Kept, OpenTemp, FillTemp, Lines, RemoveTemp,
              Fail, Crash
<1>7. ASSUME ClearStaleLock \/ UNCHANGED vars PROVE UNCHANGED Abstract!vars
  BY <1>7 DEF ClearStaleLock, vars
<1>8. ASSUME NEW w \in Writer, WriteTorn(w) PROVE FALSE
  BY <1>8 DEF WriteTorn
<1>. QED
  BY <1>1, <1>3, <1>4, <1>5, <1>6, <1>7, <1>8 DEF Next, IntactNext, Wait, Work

\* The initial state of the journal is one of BoundedLog.
LEMMA InitSimulation == Init => Abstract!Init
BY DEF Init, Abstract!Init, CleanFile

\* What BoundedLog keeps of its two promises, whoever takes its steps: every step of the
\* abstract log keeps what is visible its newest entries.
LogType ==
    /\ written \in Seq(Event)
    /\ file.recs \in Seq(Event)
    /\ acked \subseteq Range(written)

LogInv == LogType /\ Abstract!VisibleIsNewest

\* An entry of the log is visible, or has MaxRecords newer entries behind it.
LEMMA InvImpliesAckedIsVisible ==
    LogInv => Abstract!AckedIsVisible
<1>1. SUFFICES ASSUME LogInv, NEW r \in acked,
                      ~ \E i \in 1..Len(written) : written[i] = r /\ i <= Len(written) - MaxRecords
               PROVE  r \in Range(file.recs)
  BY DEF Abstract!AckedIsVisible, Abstract!Range, Range
<1>2. Len(written) \in Nat /\ MaxRecords \in Nat
  BY <1>1, LenProperties, JournalAssumption DEF LogInv, LogType
<1>3. PICK i \in 1..Len(written) : written[i] = r
  <2>1. DOMAIN written = 1..Len(written)
    BY <1>1, LenProperties DEF LogInv, LogType
  <2>. QED  BY <1>1, <2>1 DEF LogInv, LogType, Range
<1>4. i > Len(written) - MaxRecords
  BY <1>1, <1>2, <1>3
<1>5. PICK n \in 0..Len(written) : /\ file.recs = Newest(written, n)
                                   /\ n >= MaxRecords \/ n = Len(written)
  BY <1>1 DEF LogInv, Abstract!VisibleIsNewest, Abstract!Newest, Newest
<1>6. /\ n \in Nat
      /\ n <= Len(written)
      /\ Len(written) - n < i
      /\ i <= Len(written)
  <2>1. n \in Nat /\ n <= Len(written) /\ i \in Nat /\ i <= Len(written)
    BY <1>2, <1>3, <1>5
  <2>2. CASE n = Len(written)
    BY <1>2, <1>3, <2>1, <2>2
  <2>3. CASE n >= MaxRecords
    BY <1>2, <1>4, <2>1, <2>3
  <2>. QED  BY <1>5, <2>1, <2>2, <2>3
<1>7. /\ file.recs \in Seq(Event)
      /\ Len(file.recs) = n
      /\ DOMAIN file.recs = 1..n
  <2>1. written \in Seq(Event)
    BY <1>1 DEF LogInv, LogType
  <2>2. /\ file.recs \in Seq(Event)
        /\ Len(file.recs) = n
    BY <1>2, <1>5, <1>6, <2>1, NewestType
  <2>. QED  BY <2>2, LenProperties
<1>8. i - (Len(written) - n) \in 1..n
  BY <1>2, <1>6
<1>10. file.recs[i - (Len(written) - n)] = written[Len(written) - n + (i - (Len(written) - n))]
  BY <1>1, <1>5, <1>6, <1>8, NewestElement DEF LogInv, LogType
<1>9. Len(written) - n + (i - (Len(written) - n)) = i
  BY <1>2, <1>3, <1>6
<1>. QED  BY <1>3, <1>7, <1>8, <1>9, <1>10 DEF Range

\* An empty log keeps its promises.
LEMMA InitLogInv ==
    Abstract!Init => LogInv
<1>1. SUFFICES ASSUME Abstract!Init PROVE LogInv
  OBVIOUS
<1>2. /\ written = <<>> /\ file.recs = <<>> /\ acked = {}
      /\ Len(written) = 0 /\ MaxRecords \in Nat
  BY <1>1, JournalAssumption DEF Abstract!Init
<1>3. 0 \in 0..Len(written) /\ file.recs = Newest(written, 0)
  BY <1>2 DEF Newest
<1>. QED  BY <1>2, <1>3 DEF LogInv, LogType, Abstract!VisibleIsNewest, Abstract!Newest, Newest

\* Every step keeps them.
LEMMA NextLogInv ==
    LogInv /\ [Abstract!Next]_(Abstract!vars) => LogInv'
<1>1. SUFFICES ASSUME LogInv, [Abstract!Next]_(Abstract!vars) PROVE LogInv'
  OBVIOUS
<1>2. /\ written \in Seq(Event) /\ file.recs \in Seq(Event) /\ acked \subseteq Range(written)
      /\ Len(written) \in Nat /\ MaxRecords \in Nat
  BY <1>1, LenProperties, JournalAssumption DEF LogInv, LogType
<1>3. PICK n \in 0..Len(written) : /\ file.recs = Newest(written, n)
                                   /\ n >= MaxRecords \/ n = Len(written)
  BY <1>1 DEF LogInv, Abstract!VisibleIsNewest, Abstract!Newest, Newest
<1>4. n \in Nat /\ n <= Len(written) /\ Len(file.recs) = n
  BY <1>2, <1>3, NewestType
<1>5. ASSUME NEW r \in Event, Abstract!Add(r) PROVE LogInv'
  <2>1. /\ written' = Append(written, r)
        /\ file'.recs = Append(file.recs, r)
        /\ acked' = acked
    BY <1>5 DEF Abstract!Add
  <2>2. written' \in Seq(Event) /\ file'.recs \in Seq(Event) /\ Len(written') = Len(written) + 1
    BY <1>2, <2>1, AppendProperties
  <2>3. acked' \subseteq Range(written')
    BY <1>2, <2>1, RangeAppend
  <2>4. file'.recs = Newest(written', n + 1)
    BY <1>2, <1>3, <1>4, <2>1, NewestAppend
  <2>5. /\ n + 1 \in 0..Len(written')
        /\ n + 1 >= MaxRecords \/ n + 1 = Len(written')
    BY <1>2, <1>3, <1>4, <2>2
  <2>. QED  BY <2>2, <2>3, <2>4, <2>5 DEF LogInv, LogType, Abstract!VisibleIsNewest, Abstract!Newest, Newest
<1>6. ASSUME Abstract!Trim PROVE LogInv'
  <2>1. /\ file'.recs = Newest(file.recs, MaxRecords)
        /\ written' = written /\ acked' = acked
        /\ MaxRecords < n
    BY <1>2, <1>4, <1>6 DEF Abstract!Trim, Abstract!Newest, Newest
  <2>2. file'.recs \in Seq(Event)
    BY <1>2, <2>1, NewestType
  <2>3. file'.recs = Newest(written', MaxRecords)
    BY <1>2, <1>3, <1>4, <2>1, NewestOfNewest
  <2>4. MaxRecords \in 0..Len(written') /\ MaxRecords >= MaxRecords
    BY <1>2, <1>4, <2>1
  <2>. QED  BY <1>2, <2>1, <2>2, <2>3, <2>4 DEF LogInv, LogType, Abstract!VisibleIsNewest, Abstract!Newest, Newest
<1>7. ASSUME NEW r \in Event, Abstract!Acknowledge(r) PROVE LogInv'
  BY <1>1, <1>7 DEF Abstract!Acknowledge, Abstract!Range, Range, LogInv, LogType, Abstract!VisibleIsNewest, Abstract!Newest, Newest
<1>8. ASSUME UNCHANGED Abstract!vars PROVE LogInv'
  BY <1>1, <1>8 DEF Abstract!vars, LogInv, LogType, Abstract!VisibleIsNewest, Abstract!Newest, Newest
<1>. QED  BY <1>1, <1>5, <1>6, <1>7, <1>8 DEF Abstract!Next

\* Whatever is added, trimmed and acknowledged, readers of the abstract log see an
\* unbroken run of its newest entries, at least MaxRecords of them if there are
\* as many, and what was acknowledged among these.
THEOREM LogKeepsItsPromises == Abstract!Spec => [](ReadersSeeNewest /\ AckedIsReadable)
<1>1. LogInv => ReadersSeeNewest /\ AckedIsReadable
  BY InvImpliesAckedIsVisible DEF LogInv, ReadersSeeNewest, AckedIsReadable
<1>. QED  BY InitLogInv, NextLogInv, <1>1, PTL DEF Abstract!Spec

\* Without torn writes the journal, with all its interleavings, failures, kills
\* and cleared locks, does what BoundedLog promises.
THEOREM JournalImplementsLog ==
    ASSUME "torn" \notin Fault
    PROVE  Spec => ImplementsBoundedLog
<1>1. Spec => [](IInv /\ Written)
  BY InitIInv, NextIInv, InitWritten, NextWritten, PTL DEF Spec
<1>2. IInv /\ Written /\ [Next]_vars => [Abstract!Next]_(Abstract!vars)
  BY StepSimulation
<1>3. Init => Abstract!Init
  BY InitSimulation
<1>. QED
  BY <1>1, <1>2, <1>3, PTL DEF Spec, ImplementsBoundedLog, Abstract!Spec

\* Hence a reader that takes no lock obtains, at every instant, an unbroken run of
\* the newest events that retention keeps.
THEOREM ReadersAreServed ==
    ASSUME "torn" \notin Fault
    PROVE  Spec => []ReadersSeeNewest
BY JournalImplementsLog, LogKeepsItsPromises, PTL DEF ImplementsBoundedLog

\* And an event whose append returned normally stays in the journal until
\* MaxRecords newer ones have been written.
THEOREM AcknowledgedIsKept ==
    ASSUME "torn" \notin Fault
    PROVE  Spec => []AckedIsReadable
BY JournalImplementsLog, LogKeepsItsPromises, PTL DEF ImplementsBoundedLog
=============================================================================
