------------------------ MODULE PaperHistory_proofs ------------------------
(***************************************************************************)
(* PaperHistory, proved for every set of writers, every limit, every       *)
(* number of calls and every fault: writers exclude each other, the backup *)
(* is complete before the history is replaced, and retention takes nothing *)
(* away that it is not meant to.                                           *)
(*                                                                         *)
(* LockInv says who may change the files, CallInv what the calls carry,    *)
(* StoreInv what the files hold at each line of append(), and HarmInv what *)
(* torn writes and damage have cost; each is inductive with those before   *)
(* it.  They speak of the lines that have their newline (Glued(file)): a   *)
(* torn write changes the others only.                                     *)
(***************************************************************************)
EXTENDS PaperHistory, JournalFile_proofs

\* A writer is behind the lock only while the lock file is its own.
LockHeld == \A w \in Writer : pc[w] \in InLock => lock = w

\* The inductive invariant: the owner of the lock is the only writer that can
\* change the history or the backup between the copy and the replacement.
LockInv ==
    /\ pc \in [Writer -> PC]
    /\ LockHeld
    /\ BackupPrecedesReplace

\* Nobody else is behind the lock with w.
LEMMA Alone ==
    ASSUME LockHeld, NEW v \in Writer, NEW w \in Writer,
           pc[v] \in InLock, pc[w] \in InLock
    PROVE  v = w
BY DEF LockHeld

\* At first nobody is behind the lock.
LEMMA InitLockInv == Init => LockInv
BY DEF Init, LockInv, LockHeld, BackupPrecedesReplace, PC, InLock

\* Every step of every process, faults included, keeps the invariant.
LEMMA NextLockInv == LockInv /\ [Next]_vars => LockInv'
<1>. USE DEF PC, InLock, Goto, Leave, storeVars, callVars, ghostVars
<1>1. SUFFICES ASSUME LockInv, [Next]_vars PROVE LockInv'
  OBVIOUS
<1>2. pc \in [Writer -> PC] /\ LockHeld /\ BackupPrecedesReplace
  BY <1>1 DEF LockInv
<1>3. ASSUME NEW w \in Writer, Call(w) PROVE LockInv'
  <2>1. pc' \in [Writer -> PC]
    BY <1>2, <1>3 DEF Call
  <2>2. LockHeld'
    BY <1>2, <1>3 DEF Call, LockHeld
  <2>3. BackupPrecedesReplace'
    BY <1>2, <1>3, Alone DEF Call, BackupPrecedesReplace
  <2>. QED  BY <2>1, <2>2, <2>3 DEF LockInv
<1>4. ASSUME NEW w \in Writer, TakeLock(w) PROVE LockInv'
  <2>1. pc' \in [Writer -> PC]
    BY <1>2, <1>4 DEF TakeLock, Free
  <2>2. LockHeld'
    BY <1>2, <1>4, HistoryAssumption DEF TakeLock, Free, LockHeld, HistoryAssumption
  <2>3. BackupPrecedesReplace'
    BY <1>2, <1>4, Alone DEF TakeLock, Free, BackupPrecedesReplace
  <2>. QED  BY <2>1, <2>2, <2>3 DEF LockInv
<1>5. ASSUME NEW w \in Writer, TimeOut(w) PROVE LockInv'
  <2>1. pc' \in [Writer -> PC]
    BY <1>2, <1>5 DEF TimeOut, Free
  <2>2. LockHeld'
    BY <1>2, <1>5 DEF TimeOut, Free, LockHeld
  <2>3. BackupPrecedesReplace'
    BY <1>2, <1>5, Alone DEF TimeOut, Free, BackupPrecedesReplace
  <2>. QED  BY <2>1, <2>2, <2>3 DEF LockInv
<1>6. ASSUME NEW w \in Writer, WriteLine(w) PROVE LockInv'
  <2>1. pc' \in [Writer -> PC]
    BY <1>2, <1>6 DEF WriteLine
  <2>2. LockHeld'
    BY <1>2, <1>6 DEF WriteLine, LockHeld
  <2>3. BackupPrecedesReplace'
    BY <1>2, <1>6, Alone DEF WriteLine, BackupPrecedesReplace
  <2>. QED  BY <2>1, <2>2, <2>3 DEF LockInv
<1>7. ASSUME NEW w \in Writer, LoadSnapshots(w) PROVE LockInv'
  <2>1. pc' \in [Writer -> PC]
    BY <1>2, <1>7 DEF LoadSnapshots
  <2>2. LockHeld'
    BY <1>2, <1>7 DEF LoadSnapshots, LockHeld
  <2>3. BackupPrecedesReplace'
    BY <1>2, <1>7, Alone DEF LoadSnapshots, BackupPrecedesReplace
  <2>. QED  BY <2>1, <2>2, <2>3 DEF LockInv
<1>8. ASSUME NEW w \in Writer, OpenBackup(w) PROVE LockInv'
  <2>1. pc' \in [Writer -> PC]
    BY <1>2, <1>8 DEF OpenBackup
  <2>2. LockHeld'
    BY <1>2, <1>8 DEF OpenBackup, LockHeld
  <2>3. BackupPrecedesReplace'
    BY <1>2, <1>8, Alone DEF OpenBackup, BackupPrecedesReplace
  <2>. QED  BY <2>1, <2>2, <2>3 DEF LockInv
<1>9. ASSUME NEW w \in Writer, FillBackup(w) PROVE LockInv'
  <2>1. pc' \in [Writer -> PC]
    BY <1>2, <1>9 DEF FillBackup, Copy
  <2>2. LockHeld'
    BY <1>2, <1>9 DEF FillBackup, Copy, LockHeld
  <2>3. BackupPrecedesReplace'
    BY <1>2, <1>9, Alone DEF FillBackup, Copy, BackupPrecedesReplace
  <2>. QED  BY <2>1, <2>2, <2>3 DEF LockInv
<1>10. ASSUME NEW w \in Writer, OpenTemp(w) PROVE LockInv'
  <2>1. pc' \in [Writer -> PC]
    BY <1>2, <1>10 DEF OpenTemp
  <2>2. LockHeld'
    BY <1>2, <1>10 DEF OpenTemp, LockHeld
  <2>3. BackupPrecedesReplace'
    BY <1>2, <1>10, Alone DEF OpenTemp, BackupPrecedesReplace
  <2>. QED  BY <2>1, <2>2, <2>3 DEF LockInv
<1>11. ASSUME NEW w \in Writer, FillTemp(w) PROVE LockInv'
  <2>1. pc' \in [Writer -> PC]
    BY <1>2, <1>11 DEF FillTemp
  <2>2. LockHeld'
    BY <1>2, <1>11 DEF FillTemp, LockHeld
  <2>3. BackupPrecedesReplace'
    BY <1>2, <1>11, Alone DEF FillTemp, BackupPrecedesReplace
  <2>. QED  BY <2>1, <2>2, <2>3 DEF LockInv
<1>12. ASSUME NEW w \in Writer, Replace(w) PROVE LockInv'
  <2>1. pc' \in [Writer -> PC]
    BY <1>2, <1>12 DEF Replace
  <2>2. LockHeld'
    BY <1>2, <1>12 DEF Replace, LockHeld
  <2>3. BackupPrecedesReplace'
    BY <1>2, <1>12, Alone DEF Replace, BackupPrecedesReplace
  <2>. QED  BY <2>1, <2>2, <2>3 DEF LockInv
<1>13. ASSUME NEW w \in Writer, AuditCompaction(w) PROVE LockInv'
  <2>1. pc' \in [Writer -> PC]
    BY <1>2, <1>13 DEF AuditCompaction
  <2>2. LockHeld'
    BY <1>2, <1>13 DEF AuditCompaction, LockHeld
  <2>3. BackupPrecedesReplace'
    BY <1>2, <1>13, Alone DEF AuditCompaction, BackupPrecedesReplace
  <2>. QED  BY <2>1, <2>2, <2>3 DEF LockInv
<1>14. ASSUME NEW w \in Writer, RemoveTemp(w) PROVE LockInv'
  <2>1. pc' \in [Writer -> PC]
    BY <1>2, <1>14 DEF RemoveTemp
  <2>2. LockHeld'
    BY <1>2, <1>14 DEF RemoveTemp, LockHeld
  <2>3. BackupPrecedesReplace'
    BY <1>2, <1>14, Alone DEF RemoveTemp, BackupPrecedesReplace
  <2>. QED  BY <2>1, <2>2, <2>3 DEF LockInv
<1>15. ASSUME NEW w \in Writer, Release(w) PROVE LockInv'
  <2>1. pc' \in [Writer -> PC]
    BY <1>2, <1>15 DEF Release
  <2>2. LockHeld'
    BY <1>2, <1>15 DEF Release, LockHeld
  <2>3. BackupPrecedesReplace'
    BY <1>2, <1>15, Alone DEF Release, BackupPrecedesReplace
  <2>. QED  BY <2>1, <2>2, <2>3 DEF LockInv
<1>16. ASSUME NEW w \in Writer, AuditAppend(w) PROVE LockInv'
  <2>1. pc' \in [Writer -> PC]
    BY <1>2, <1>16 DEF AuditAppend
  <2>2. LockHeld'
    BY <1>2, <1>16 DEF AuditAppend, LockHeld
  <2>3. BackupPrecedesReplace'
    BY <1>2, <1>16, Alone DEF AuditAppend, BackupPrecedesReplace
  <2>. QED  BY <2>1, <2>2, <2>3 DEF LockInv
<1>17. ASSUME NEW w \in Writer, Fail(w) PROVE LockInv'
  <2>1. pc' \in [Writer -> PC]
    BY <1>2, <1>17 DEF Fail, Compacting
  <2>2. LockHeld'
    BY <1>2, <1>17 DEF Fail, Compacting, LockHeld
  <2>3. BackupPrecedesReplace'
    BY <1>2, <1>17, Alone DEF Fail, Compacting, BackupPrecedesReplace
  <2>. QED  BY <2>1, <2>2, <2>3 DEF LockInv
<1>18. ASSUME NEW w \in Writer, Crash(w) PROVE LockInv'
  <2>1. pc' \in [Writer -> PC]
    BY <1>2, <1>18 DEF Crash
  <2>2. LockHeld'
    BY <1>2, <1>18 DEF Crash, LockHeld
  <2>3. BackupPrecedesReplace'
    BY <1>2, <1>18, Alone DEF Crash, BackupPrecedesReplace
  <2>. QED  BY <2>1, <2>2, <2>3 DEF LockInv
<1>19. ASSUME ClearStaleLock PROVE LockInv'
  BY <1>2, <1>19 DEF ClearStaleLock, LockInv, LockHeld, BackupPrecedesReplace
<1>20. ASSUME NEW w \in Writer, WriteTorn(w) PROVE LockInv'
  <2>1. pc' \in [Writer -> PC]
    BY <1>2, <1>20 DEF WriteTorn
  <2>2. LockHeld'
    BY <1>2, <1>20 DEF WriteTorn, LockHeld
  <2>3. BackupPrecedesReplace'
    BY <1>2, <1>20, Alone DEF WriteTorn, BackupPrecedesReplace
  <2>. QED  BY <2>1, <2>2, <2>3 DEF LockInv
<1>21. ASSUME Corrupt PROVE LockInv'
  <2>1. \A w \in Writer : pc[w] \notin InLock
    BY <1>2, <1>21, HistoryAssumption DEF Corrupt, LockHeld, HistoryAssumption
  <2>. QED  BY <1>2, <1>21, <2>1 DEF Corrupt, LockInv, LockHeld, BackupPrecedesReplace
<1>22. ASSUME \/ Age \/ UNCHANGED vars
              \/ \E r \in Reader : LoadPrimary(r) \/ LoadBackup(r) \/ AuditRecovery(r)
       PROVE  LockInv'
  <2>1. UNCHANGED <<lock, file, backup, pc>>
    BY <1>22 DEF Age, LoadPrimary, LoadBackup, AuditRecovery, vars
  <2>. QED  BY <1>2, <2>1 DEF LockInv, LockHeld, BackupPrecedesReplace
<1>. QED
  BY <1>1, <1>3, <1>4, <1>5, <1>6, <1>7, <1>8, <1>9, <1>10, <1>11, <1>12, <1>13, <1>14,
     <1>15, <1>16, <1>17, <1>18, <1>19, <1>20, <1>21, <1>22 DEF Next, Wait, Work, Store
-----------------------------------------------------------------------------
\* Every behaviour of the code keeps the inductive invariant.
THEOREM LockInvariance == Spec => []LockInv
BY InitLockInv, NextLockInv, PTL DEF Spec

\* However many writers there are, and whichever of them time out, fail or are
\* killed, two are never behind the history lock.
THEOREM WritersExclude == Spec => []MutualExclusion
<1>1. LockInv => MutualExclusion
  BY Alone DEF LockInv, MutualExclusion
<1>. QED  BY <1>1, LockInvariance, PTL

\* Whenever compaction is about to replace the history, the backup is a complete
\* copy of it.
THEOREM BackupIsComplete == Spec => []BackupPrecedesReplace
<1>1. LockInv => BackupPrecedesReplace
  BY DEF LockInv
<1>. QED  BY <1>1, LockInvariance, PTL
-----------------------------------------------------------------------------
\* The record of a call is one no other call has and, before it is written, no
\* line of the history.
RecordsAreNew ==
    /\ \A i \in 1..Len(written) : written[i] <= calls
    /\ \A i, j \in 1..Len(written) : written[i] = written[j] => i = j
    /\ \A w \in Writer :
          /\ record[w] <= calls
          /\ pc[w] # "idle" => record[w] \in Snapshot
          /\ pc[w] \in {"acquire", "locked"} =>
                /\ record[w] \notin Range(written)
                /\ \A v \in Writer : v # w /\ pc[v] # "idle" => record[v] # record[w]

\* Well-formed state, and calls with records of their own.
CallInv == TypeOK /\ RecordsAreNew

\* Nothing is written at first.
LEMMA InitCallInv == Init => CallInv
<1>1. Init => TypeOK
  <2>1. SUFFICES ASSUME Init PROVE TypeOK
    OBVIOUS
  <2>2. <<>> \in Seq(Snapshot) /\ MaxAppends \in Nat /\ MaxHarm \in Nat
    BY EmptySeq, HistoryAssumption DEF HistoryAssumption
  <2>3. CleanFile(<<>>) \in FileOf(Snapshot) /\ NoTemp \in TempOf(Snapshot)
    BY <2>2 DEF CleanFile, FileOf, NoTemp, TempOf
  <2>4. /\ horizon \in 1..MaxAppends + 1 /\ calls \in 0..MaxAppends /\ harmed \in 0..MaxHarm
        /\ recoveries \in Nat
    BY <2>1, <2>2 DEF Init
  <2>5. rpc \in [Reader -> {"idle", "backup", "report"}] /\ reported \in BOOLEAN
    BY <2>1 DEF Init
  <2>6. /\ pc \in [Writer -> PC] /\ record \in [Writer -> Snapshot \cup {0}]
        /\ retained \in [Writer -> Seq(Snapshot)] /\ failing \in [Writer -> BOOLEAN]
    BY <2>1, <2>2 DEF Init, PC
  <2>. QED  BY <2>1, <2>2, <2>3, <2>4, <2>5, <2>6 DEF Init, TypeOK
<1>2. Init => RecordsAreNew
  BY LenProperties DEF Init, RecordsAreNew
<1>. QED  BY <1>1, <1>2 DEF CallInv

\* What retention keeps of the snapshots is a list of snapshots.
LEMMA RetainedType ==
    ASSUME NEW s \in Seq(Snapshot), HistoryAssumption
    PROVE  /\ Select(s, Young) \in Seq(Snapshot)
           /\ Retained(s) \in Seq(Snapshot)
           /\ Len(Retained(s)) <= MaxRecords
<1>1. Select(s, Young) \in Seq(Snapshot) /\ Len(Select(s, Young)) \in Nat
  BY SelectType
<1>2. MaxRecords \in Nat
  BY DEF HistoryAssumption
<1>3. Newest(Select(s, Young), MaxRecords) \in Seq(Snapshot)
  BY <1>1, <1>2, NewestType
<1>4. Len(Newest(Select(s, Young), MaxRecords)) <= MaxRecords
  BY <1>1, <1>2, NewestType
<1>. QED  BY <1>1, <1>3, <1>4 DEF Retained

\* The damaged lines of a history are finitely many snapshots.
LEMMA DamageFinite ==
    ASSUME file \in FileOf(Snapshot), Corrupt
    PROVE  \E D \in SUBSET Snapshot :
              /\ D \subseteq Range(Glued(file)) /\ D # {} /\ IsFiniteSet(D)
              /\ Cardinality(D) \in Nat /\ Cardinality(D) > 0
              /\ file' = Damaged(file, Snapshot \ D, Cardinality(D))
              /\ file' \in FileOf(Snapshot)
              /\ file'.bad = file.bad + Cardinality(D) /\ file'.tail = file.tail
              /\ Glued(file') = Select(Glued(file), Snapshot \ D)
              /\ spoiled' = spoiled \cup D
              /\ harmed + Cardinality(D) <= MaxHarm
              /\ harmed' = harmed + Cardinality(D)
<1>1. PICK D \in (SUBSET Range(Glued(file))) \ {{}} :
         /\ file' = Damaged(file, Snapshot \ D, Cardinality(D))
         /\ spoiled' = spoiled \cup D
         /\ harmed + Cardinality(D) <= MaxHarm
         /\ harmed' = harmed + Cardinality(D)
  BY DEF Corrupt
<1>2. D \subseteq Range(Glued(file)) /\ D # {}
  BY <1>1
<1>3. Range(Glued(file)) # {}
  <2>1. PICK x \in D : TRUE
    BY <1>2
  <2>. QED  BY <1>2, <2>1
<1>4. D \in SUBSET Snapshot
  BY <1>2, GluedType, RangeType
<1>5. MaxAppends \in Nat /\ D \subseteq 1..MaxAppends
  BY <1>4, HistoryAssumption DEF Snapshot, HistoryAssumption
<1>6. IsFiniteSet(D) /\ Cardinality(D) \in Nat
  BY <1>5, PlacesFinite
<1>7. Cardinality(D) > 0
  <2>1. Cardinality(D) # 0
    BY <1>2, <1>6, FS_EmptySet
  <2>. QED  BY <1>6, <2>1
<1>8. /\ file' \in FileOf(Snapshot)
      /\ file'.bad = file.bad + Cardinality(D) /\ file'.tail = file.tail
      /\ Glued(file') = Select(Glued(file), Snapshot \ D)
  BY <1>1, <1>3, <1>6, DamagedType
<1>. QED  BY <1>1, <1>2, <1>4, <1>6, <1>7, <1>8

\* Every step keeps the state well formed.
LEMMA NextTypeOK == LockInv /\ CallInv /\ [Next]_vars => TypeOK'
<1>. USE DEF Goto, storeVars, callVars, ghostVars, readVars
<1>1. SUFFICES ASSUME LockInv, CallInv, [Next]_vars PROVE TypeOK'
  OBVIOUS
<1>2. TypeOK /\ RecordsAreNew /\ pc' \in [Writer -> PC]
  BY <1>1, NextLockInv DEF CallInv, LockInv
<1>3. \A w \in Writer : pc[w] # "idle" => record[w] \in Snapshot
  BY <1>2 DEF RecordsAreNew
<1>4. /\ lock \in Writer \cup {NoWriter} /\ file \in FileOf(Snapshot)
      /\ backup \in FileOf(Snapshot) /\ temp \in TempOf(Snapshot)
      /\ horizon \in 1..MaxAppends + 1 /\ record \in [Writer -> Snapshot \cup {0}]
      /\ retained \in [Writer -> Seq(Snapshot)] /\ failing \in [Writer -> BOOLEAN]
      /\ calls \in 0..MaxAppends /\ written \in Seq(Snapshot) /\ acked \in SUBSET Snapshot
      /\ spoiled \in SUBSET Snapshot /\ dropped \in SUBSET Snapshot /\ harmed \in 0..MaxHarm
      /\ rpc \in [Reader -> {"idle", "backup", "report"}] /\ reported \in BOOLEAN
      /\ recoveries \in Nat
  BY <1>2 DEF TypeOK
<1>5. /\ MaxAppends \in Nat /\ MaxHarm \in Nat
      /\ CleanFile(<<>>) \in FileOf(Snapshot)
      /\ NoTemp \in TempOf(Snapshot)
      /\ TempWith(<<>>) \in TempOf(Snapshot)
  BY HistoryAssumption DEF HistoryAssumption, CleanFile, FileOf, NoTemp, TempWith, TempOf
<1>6. file.recs \in Seq(Snapshot) /\ temp.recs \in Seq(Snapshot)
  BY <1>4 DEF FileOf, TempOf
<1>7. ASSUME NEW w \in Writer, Call(w) PROVE TypeOK'
  <2>1. calls + 1 \in Snapshot /\ calls + 1 \in 0..MaxAppends
    BY <1>4, <1>5, <1>7 DEF Call, Snapshot
  <2>. QED  BY <1>2, <1>4, <1>7, <2>1 DEF Call, Stamped, TypeOK
<1>8. ASSUME NEW w \in Writer, WriteLine(w) PROVE TypeOK'
  <2>1. record[w] \in Snapshot
    BY <1>3, <1>8 DEF WriteLine
  <2>2. AddLine(file, record[w]) \in FileOf(Snapshot)
    BY <1>4, <2>1, AddType
  <2>3. Append(written, record[w]) \in Seq(Snapshot)
    BY <1>4, <2>1, AppendProperties
  <2>4. file' \in FileOf(Snapshot) /\ written' \in Seq(Snapshot) /\ spoiled' \in SUBSET Snapshot
    BY <1>4, <1>8, <2>1, <2>2, <2>3 DEF WriteLine
  <2>5. UNCHANGED <<lock, backup, temp, horizon, record, retained, failing, calls, acked,
                    dropped, harmed, rpc, reported, recoveries>>
    BY <1>8 DEF WriteLine
  <2>. QED  BY <1>2, <1>4, <2>4, <2>5 DEF TypeOK
<1>9. ASSUME NEW w \in Writer, WriteTorn(w) PROVE TypeOK'
  <2>1. record[w] \in Snapshot
    BY <1>3, <1>9 DEF WriteTorn
  <2>2. file' \in FileOf(Snapshot)
    BY <1>4, <1>9, <2>1, AddType DEF WriteTorn
  <2>3. harmed' \in 0..MaxHarm /\ failing' \in [Writer -> BOOLEAN]
    BY <1>4, <1>5, <1>9 DEF WriteTorn
  <2>4. UNCHANGED <<lock, backup, temp, horizon, record, retained, calls, written, acked,
                    spoiled, dropped, rpc, reported, recoveries>>
    BY <1>9 DEF WriteTorn
  <2>. QED  BY <1>2, <1>4, <2>2, <2>3, <2>4 DEF TypeOK
<1>10. ASSUME NEW w \in Writer, LoadSnapshots(w) PROVE TypeOK'
  <2>1. Retained(file.recs) \in Seq(Snapshot)
    BY <1>6, HistoryAssumption, RetainedType
  <2>. QED  BY <1>2, <1>4, <1>10, <2>1 DEF LoadSnapshots, TypeOK
<1>11. ASSUME NEW w \in Writer, OpenBackup(w) \/ FillBackup(w) PROVE TypeOK'
  BY <1>2, <1>4, <1>5, <1>11 DEF OpenBackup, FillBackup, Copy, TypeOK
<1>12. ASSUME NEW w \in Writer, OpenTemp(w) \/ FillTemp(w) PROVE TypeOK'
  <2>1. TempWith(retained[w]) \in TempOf(Snapshot)
    BY <1>4 DEF TempWith, TempOf
  <2>. QED  BY <1>2, <1>4, <1>5, <1>12, <2>1 DEF OpenTemp, FillTemp, Lines, TypeOK
<1>13. ASSUME NEW w \in Writer, Replace(w) PROVE TypeOK'
  <2>1. CleanFile(temp.recs) \in FileOf(Snapshot)
    BY <1>6 DEF CleanFile, FileOf
  <2>. QED  BY <1>2, <1>4, <1>5, <1>13, <2>1 DEF Replace, TypeOK
<1>14. ASSUME NEW w \in Writer, Leave(w)
       PROVE  /\ record' \in [Writer -> Snapshot \cup {0}]
              /\ retained' \in [Writer -> Seq(Snapshot)]
              /\ failing' \in [Writer -> BOOLEAN]
  <2>1. <<>> \in Seq(Snapshot)
    BY EmptySeq
  <2>. QED  BY <1>4, <1>14, <2>1 DEF Leave
<1>15. ASSUME NEW w \in Writer, AuditAppend(w) PROVE TypeOK'
  <2>1. record[w] \in Snapshot
    BY <1>3, <1>15 DEF AuditAppend
  <2>. QED  BY <1>2, <1>4, <1>14, <1>15, <2>1 DEF AuditAppend, TypeOK
<1>16. ASSUME NEW w \in Writer, TakeLock(w) \/ AuditCompaction(w) \/ RemoveTemp(w)
       PROVE  TypeOK'
  BY <1>2, <1>4, <1>5, <1>16 DEF TakeLock, AuditCompaction, RemoveTemp, TypeOK
<1>17. ASSUME NEW w \in Writer, TimeOut(w) \/ Release(w) \/ Fail(w) \/ Crash(w)
       PROVE  TypeOK'
  <2>1. /\ record' \in [Writer -> Snapshot \cup {0}]
        /\ retained' \in [Writer -> Seq(Snapshot)]
        /\ failing' \in [Writer -> BOOLEAN]
        /\ lock' \in {lock, NoWriter}
        /\ UNCHANGED <<file, backup, temp, horizon, calls, written, acked, spoiled, dropped,
                       harmed, rpc, reported, recoveries>>
    BY <1>4, <1>14, <1>17 DEF TimeOut, Release, Fail, Crash
  <2>. QED  BY <1>2, <1>4, <2>1 DEF TypeOK
<1>18. ASSUME ClearStaleLock PROVE TypeOK'
  BY <1>2, <1>4, <1>18 DEF ClearStaleLock, TypeOK
<1>19. ASSUME Age PROVE TypeOK'
  <2>1. horizon + 1 \in 1..MaxAppends + 1
    BY <1>4, <1>5, <1>19 DEF Age
  <2>. QED  BY <1>2, <1>4, <1>19, <2>1 DEF Age, TypeOK
<1>20. ASSUME Corrupt PROVE TypeOK'
  <2>1. PICK D \in SUBSET Snapshot :
           /\ Cardinality(D) \in Nat
           /\ file' \in FileOf(Snapshot)
           /\ spoiled' = spoiled \cup D
           /\ harmed + Cardinality(D) <= MaxHarm
           /\ harmed' = harmed + Cardinality(D)
    BY <1>4, <1>20, DamageFinite
  <2>4. harmed' \in 0..MaxHarm
    BY <1>4, <1>5, <2>1
  <2>5. spoiled' \in SUBSET Snapshot
    BY <1>4, <2>1
  <2>6. UNCHANGED <<lock, backup, temp, horizon, record, retained, failing, calls, written,
                    acked, dropped, rpc, reported, recoveries>>
    BY <1>20 DEF Corrupt
  <2>. QED  BY <1>2, <1>4, <2>1, <2>4, <2>5, <2>6 DEF TypeOK
<1>21. ASSUME NEW r \in Reader, LoadPrimary(r) \/ LoadBackup(r) \/ AuditRecovery(r)
       PROVE  TypeOK'
  <2>1. rpc' \in [Reader -> {"idle", "backup", "report"}]
    BY <1>4, <1>21 DEF LoadPrimary, LoadBackup, AuditRecovery
  <2>2. reported' \in BOOLEAN /\ recoveries' \in {recoveries, recoveries + 1}
    BY <1>4, <1>21, Zenon DEF LoadPrimary, LoadBackup, AuditRecovery, Reported
  <2>4. recoveries' \in Nat
    BY <1>4, <2>2
  <2>3. UNCHANGED <<storeVars, horizon, pc, callVars, ghostVars>>
    BY <1>21 DEF LoadPrimary, LoadBackup, AuditRecovery
  <2>. QED  BY <1>2, <1>4, <2>1, <2>2, <2>3, <2>4 DEF TypeOK
<1>22. ASSUME UNCHANGED vars PROVE TypeOK'
  BY <1>2, <1>4, <1>22 DEF vars, TypeOK
<1>. QED
  BY <1>1, <1>7, <1>8, <1>9, <1>10, <1>11, <1>12, <1>13, <1>15, <1>16, <1>17, <1>18,
     <1>19, <1>20, <1>21, <1>22
  DEF Next, Wait, Work, Store

\* Every step keeps the records of the calls apart.
LEMMA NextRecordsAreNew == LockInv /\ CallInv /\ [Next]_vars => RecordsAreNew'
<1>. USE DEF Goto, storeVars, callVars, ghostVars
<1>1. SUFFICES ASSUME LockInv, CallInv, [Next]_vars PROVE RecordsAreNew'
  OBVIOUS
<1>2. TypeOK /\ RecordsAreNew
  BY <1>1 DEF CallInv
<1>3. /\ pc \in [Writer -> PC] /\ record \in [Writer -> Snapshot \cup {0}]
      /\ calls \in Nat /\ written \in Seq(Snapshot) /\ MaxAppends \in Nat
      /\ Len(written) \in Nat /\ Range(written) = {written[i] : i \in 1..Len(written)}
      /\ \A i \in 1..Len(written) : written[i] \in Snapshot
  BY <1>2, LenProperties, ElementOfSeq, HistoryAssumption DEF TypeOK, HistoryAssumption, Range
<1>4. ASSUME NEW w \in Writer, Call(w) PROVE RecordsAreNew'
  <2>1. /\ calls' = calls + 1
        /\ record' = [record EXCEPT ![w] = calls + 1]
        /\ pc' = [pc EXCEPT ![w] = "acquire"]
        /\ written' = written
        /\ calls + 1 \in Snapshot
    BY <1>3, <1>4 DEF Call, Stamped, Snapshot
  <2>2. calls + 1 \notin Range(written)
    BY <1>2, <1>3 DEF RecordsAreNew
  <2>3. \A v \in Writer : record[v] <= calls /\ record[v] \in Int
    BY <1>2, <1>3 DEF RecordsAreNew, Snapshot
  <2>4. \A i \in 1..Len(written') : written'[i] <= calls'
    BY <1>2, <1>3, <2>1 DEF RecordsAreNew, Snapshot
  <2>5. ASSUME NEW v \in Writer
        PROVE  /\ record'[v] <= calls'
               /\ pc'[v] # "idle" => record'[v] \in Snapshot
               /\ pc'[v] \in {"acquire", "locked"} => record'[v] \notin Range(written')
    BY <1>2, <1>3, <2>1, <2>2, <2>3 DEF RecordsAreNew
  <2>6. ASSUME NEW v \in Writer, NEW u \in Writer, u # v,
               pc'[v] \in {"acquire", "locked"}, pc'[u] # "idle"
        PROVE  record'[u] # record'[v]
    BY <1>2, <1>3, <2>1, <2>3, <2>6 DEF RecordsAreNew
  <2>7. \A i, j \in 1..Len(written') : written'[i] = written'[j] => i = j
    BY <1>2, <2>1 DEF RecordsAreNew
  <2>. QED  BY <2>4, <2>5, <2>6, <2>7 DEF RecordsAreNew, Snapshot
<1>5. ASSUME UNCHANGED <<calls, written>>,
             \A w \in Writer : /\ record'[w] = record[w] \/ (record'[w] = 0 /\ pc'[w] = "idle")
                               /\ pc'[w] # "idle" => pc[w] # "idle"
                               /\ pc'[w] \in {"acquire", "locked"} =>
                                     pc[w] \in {"acquire", "locked"}
      PROVE  RecordsAreNew'
  <2>1. \A w \in Writer : record'[w] <= calls'
    BY <1>2, <1>3, <1>5 DEF RecordsAreNew
  <2>2. \A w \in Writer : pc'[w] # "idle" => record'[w] = record[w]
    BY <1>5
  <2>3. \A w \in Writer : pc'[w] \in {"acquire", "locked"} => pc'[w] # "idle"
    OBVIOUS
  <2>. QED  BY <1>2, <1>5, <2>1, <2>2, <2>3 DEF RecordsAreNew, Snapshot
<1>6. ASSUME NEW w \in Writer, WriteLine(w) PROVE RecordsAreNew'
  <2>0. CASE file.tail # "ended"
    BY <1>3, <1>5, <1>6, <2>0 DEF WriteLine
  <2>1. CASE file.tail = "ended"
    <3>1. /\ pc[w] = "locked" /\ pc' = [pc EXCEPT ![w] = "appended"]
          /\ written' = Append(written, record[w])
          /\ UNCHANGED <<record, calls>>
          /\ record[w] \in Snapshot
          /\ record[w] \notin Range(written)
      BY <1>2, <1>6, <2>1 DEF WriteLine, RecordsAreNew
    <3>2. /\ Len(written') = Len(written) + 1
          /\ \A i \in 1..Len(written) : written'[i] = written[i]
          /\ written'[Len(written) + 1] = record[w]
      BY <1>3, <3>1, AppendProperties
    <3>3. Range(written') = Range(written) \cup {record[w]}
      BY <1>3, <3>1, RangeAppend
    <3>4. \A i \in 1..Len(written') : written'[i] <= calls'
      BY <1>2, <1>3, <3>1, <3>2 DEF RecordsAreNew
    <3>5. \A i, j \in 1..Len(written') : written'[i] = written'[j] => i = j
      BY <1>2, <1>3, <3>1, <3>2 DEF RecordsAreNew
    <3>6. ASSUME NEW v \in Writer
          PROVE  /\ record'[v] <= calls'
                 /\ pc'[v] # "idle" => record'[v] \in Snapshot
                 /\ pc'[v] \in {"acquire", "locked"} =>
                       /\ record'[v] \notin Range(written')
                       /\ \A u \in Writer : u # v /\ pc'[u] # "idle" => record'[u] # record'[v]
      BY <1>2, <1>3, <3>1, <3>3 DEF RecordsAreNew
    <3>. QED  BY <3>4, <3>5, <3>6 DEF RecordsAreNew
  <2>. QED  BY <2>0, <2>1
<1>7. ASSUME NEW w \in Writer,
             \/ LoadSnapshots(w) \/ OpenBackup(w) \/ FillBackup(w) \/ OpenTemp(w)
             \/ FillTemp(w) \/ Replace(w) \/ AuditCompaction(w) \/ RemoveTemp(w)
             \/ WriteTorn(w) \/ TakeLock(w)
      PROVE  RecordsAreNew'
  BY <1>3, <1>5, <1>7 DEF LoadSnapshots, OpenBackup, FillBackup, OpenTemp, FillTemp,
     Replace, AuditCompaction, RemoveTemp, WriteTorn, TakeLock
<1>8. ASSUME NEW w \in Writer,
             TimeOut(w) \/ Release(w) \/ AuditAppend(w) \/ Fail(w) \/ Crash(w)
      PROVE  RecordsAreNew'
  <2>1. /\ UNCHANGED <<calls, written>>
        /\ \/ Leave(w)
           \/ record' = record /\ \E l \in {"release", "cleanup", "audit"} : Goto(w, l)
        /\ pc[w] # "idle"
    BY <1>8 DEF TimeOut, Release, AuditAppend, Fail, Compacting, Crash
  <2>. QED  BY <1>3, <1>5, <2>1 DEF Leave
<1>9. ASSUME \/ ClearStaleLock \/ Age \/ Corrupt \/ UNCHANGED vars
             \/ \E r \in Reader : LoadPrimary(r) \/ LoadBackup(r) \/ AuditRecovery(r)
      PROVE  RecordsAreNew'
  <2>1. UNCHANGED <<pc, record, calls, written>>
    BY <1>9 DEF ClearStaleLock, Age, Corrupt, LoadPrimary, LoadBackup, AuditRecovery, vars
  <2>. QED  BY <1>5, <2>1
<1>. QED
  BY <1>1, <1>4, <1>6, <1>7, <1>8, <1>9 DEF Next, Wait, Work, Store

\* Every step of every process keeps what the calls carry.
LEMMA NextCallInv == LockInv /\ CallInv /\ [Next]_vars => CallInv'
BY NextTypeOK, NextRecordsAreNew DEF CallInv
-----------------------------------------------------------------------------
\* Retention by number or by age may take snapshot n away.
Retired(n) == Superseded(n) \/ ~WithinAgeLimit(n)

\* The line of w is in the file, and no error came since.
LineIsThere(w) ==
    \/ pc[w] \in Compacting \cup {"appended"}
    \/ ~failing[w] /\ pc[w] \in {"replaced", "cleanup", "release"}

\* The lines of the history that have their newline are a part of what was written,
\* in the order it was written; the backup is a copy of such a history.
FileInOrder ==
    /\ Spaced(Glued(file), written)
    /\ Range(Glued(file)) \subseteq Range(written)
    /\ Range(backup.recs) \subseteq Range(written)
    /\ \A w \in Writer : LineIsThere(w) => file.tail = "ended"

\* Of what was written only that is missing from them that retention may take, and
\* the lines that were damaged.
WrittenIsKept ==
    \A n \in Range(written) : n \in Range(Glued(file)) \/ Retired(n) \/ n \in spoiled

\* What the compacting writer decided to keep is all that retention does not take, and
\* as much as the limit allows while no snapshot is too old.
RetainedIsEnough ==
    \A w \in Writer : pc[w] \in Compacting =>
        /\ Spaced(retained[w], written)
        /\ Range(retained[w]) \subseteq Range(file.recs)
        /\ \A n \in Range(file.recs) : n \in Range(retained[w]) \/ Retired(n)
        /\ Len(retained[w]) <= MaxRecords
        /\ horizon = 1 => Len(retained[w]) >= MaxRecords /\ Len(file.recs) > MaxRecords

\* It is also what the temporary file holds when it replaces the history.
TempIsReady == \A w \in Writer : pc[w] = "replace" => temp = TempWith(retained[w])

\* Behind the replacement the history is within its limit.
CompactedIsBounded ==
    \A w \in Writer :
        ~failing[w] /\ pc[w] \in {"replaced", "cleanup", "release"} =>
            Len(file.recs) <= MaxRecords

\* While no line is malformed and no snapshot too old, the history has all of them or
\* as many as the limit allows, and one more before it is compacted.
YoungIsEnough ==
    horizon = 1 /\ file.bad = 0 =>
        /\ Len(Glued(file)) >= Len(written) \/ Len(Glued(file)) >= MaxRecords
        /\ \A w \in Writer :
              pc[w] = "appended" =>
                  Len(Glued(file)) >= Len(written) \/ Len(Glued(file)) > MaxRecords

\* Meanwhile a history within the limit is one that was compacted, and all of it is in
\* the backup too, unless there never was more.
BackupKeepsUp ==
    /\ horizon = 1 /\ file.bad = 0
    /\ Len(Glued(file)) <= MaxRecords /\ Len(written) > MaxRecords
    => Range(Glued(file)) \subseteq Range(backup.recs)

StoreInv ==
    /\ FileInOrder /\ WrittenIsKept /\ RetainedIsEnough /\ TempIsReady
    /\ CompactedIsBounded /\ YoungIsEnough /\ BackupKeepsUp


\* At first the files are empty.
LEMMA InitStoreInv == Init => StoreInv
<1>1. SUFFICES ASSUME Init PROVE StoreInv
  OBVIOUS
<1>2. /\ file.recs = <<>> /\ backup.recs = <<>> /\ written = <<>> /\ file.tail = "ended"
      /\ \A w \in Writer : pc[w] = "idle"
  BY <1>1 DEF Init, CleanFile
<1>3. Len(<<>>) = 0 /\ DOMAIN <<>> = {} /\ Range(<<>>) = {}
  <2>1. DOMAIN <<>> = {}
    BY EmptySeq, LenProperties
  <2>. QED  BY <2>1 DEF Range
<1>4. Glued(file) = <<>>
  BY <1>2 DEF Glued
<1>5. FileInOrder /\ WrittenIsKept
  BY <1>2, <1>3, <1>4 DEF FileInOrder, WrittenIsKept, Spaced
<1>6. YoungIsEnough /\ BackupKeepsUp
  BY <1>2, <1>3, <1>4 DEF YoungIsEnough, BackupKeepsUp
<1>. QED
  BY <1>2, <1>5, <1>6 DEF StoreInv, RetainedIsEnough, TempIsReady, CompactedIsBounded,
     Compacting

\* What is retired once stays so: time and the history go on.
LEMMA RetiredStays ==
    ASSUME TypeOK, NEW n \in Snapshot, Retired(n), horizon' \in {horizon, horizon + 1},
           \/ written' = written
           \/ \E r \in Snapshot : written' = Append(written, r)
    PROVE  Retired(n)' /\ (Superseded(n) => Superseded(n)')
<1>1. written \in Seq(Snapshot) /\ Len(written) \in Nat /\ horizon \in Int /\ MaxRecords \in Nat
  BY LenProperties, HistoryAssumption DEF TypeOK, HistoryAssumption
<1>2. ASSUME Superseded(n) PROVE Superseded(n)'
  <2>1. PICK i \in 1..Len(written) : written[i] = n /\ i <= Len(written) - MaxRecords
    BY <1>2 DEF Superseded
  <2>2. CASE written' = written
    BY <1>2, <2>2 DEF Superseded
  <2>3. ASSUME NEW r \in Snapshot, written' = Append(written, r) PROVE Superseded(n)'
    <3>1. Len(written') = Len(written) + 1 /\ written'[i] = n
      BY <1>1, <2>1, <2>3, AppendProperties
    <3>2. i \in 1..Len(written') /\ i <= Len(written') - MaxRecords
      BY <1>1, <2>1, <3>1
    <3>. QED  BY <3>1, <3>2 DEF Superseded
  <2>. QED  BY <2>2, <2>3
<1>3. ASSUME ~Superseded(n), ~WithinAgeLimit(n) PROVE ~WithinAgeLimit(n)'
  <2>1. n \in Int
    BY DEF Snapshot
  <2>. QED  BY <1>1, <1>3, <2>1 DEF WithinAgeLimit
<1>. QED  BY <1>2, <1>3 DEF Retired

\* What retention keeps of a history in order is in order, and leaves out only what
\* it may.
LEMMA RetainedKeeps ==
    ASSUME TypeOK, FileInOrder, file.tail = "ended"
    PROVE  /\ Spaced(Retained(file.recs), written)
           /\ Range(Retained(file.recs)) \subseteq Range(file.recs)
           /\ \A n \in Range(file.recs) : n \in Range(Retained(file.recs)) \/ Retired(n)
<1>. DEFINE s == file.recs
            c == Select(s, Young)
<1>1. /\ s \in Seq(Snapshot) /\ written \in Seq(Snapshot)
      /\ Spaced(s, written) /\ Range(s) \subseteq Range(written)
      /\ MaxRecords \in Nat /\ MaxRecords > 0
  <2>1. Glued(file) = file.recs
    BY DEF Glued
  <2>. QED  BY <2>1, HistoryAssumption DEF TypeOK, FileOf, FileInOrder, HistoryAssumption
<1>2. /\ c \in Seq(Snapshot) /\ Range(c) = Range(s) \cap Young /\ Spaced(c, written)
  BY <1>1, SelectType, SelectSpaced
<1>3. Retained(s) = Newest(c, MaxRecords)
  BY DEF Retained
<1>. HIDE DEF s, c
<1>4. /\ Spaced(Retained(s), written)
      /\ Range(Retained(s)) \subseteq Range(c)
      /\ \A n \in Range(c) \ Range(Retained(s)) :
            \E i \in 1..Len(c) : c[i] = n /\ i <= Len(c) - MaxRecords
  BY <1>1, <1>2, <1>3, NewestSpaced
<1>5. /\ Len(c) \in Nat /\ DOMAIN c = 1..Len(c)
      /\ Len(written) \in Nat /\ DOMAIN written = 1..Len(written)
  BY <1>1, <1>2, LenProperties
<1>6. ASSUME NEW n \in Range(c), n \notin Range(Retained(s)) PROVE Superseded(n)
  <2>1. PICK i \in 1..Len(c) : c[i] = n /\ i <= Len(c) - MaxRecords
    BY <1>4, <1>6
  <2>2. Len(c) \in 1..Len(c) /\ i <= Len(c)
    BY <1>5, <2>1
  <2>3. c[i] \in Range(written) /\ c[Len(c)] \in Range(written)
    <3>1. c[i] \in Range(c) /\ c[Len(c)] \in Range(c)
      BY <1>5, <2>1, <2>2, Zenon DEF Range
    <3>. QED  BY <1>1, <1>2, <3>1
  <2>4. PICK a \in 1..Len(written), b \in 1..Len(written) :
           c[i] = written[a] /\ c[Len(c)] = written[b]
    BY <1>5, <2>3, Zenon DEF Range
  <2>5. Len(c) - i <= b - a
    BY <1>2, <1>5, <2>1, <2>2, <2>4 DEF Spaced
  <2>6. a <= Len(written) - MaxRecords
    BY <1>1, <1>5, <2>1, <2>4, <2>5
  <2>. QED  BY <2>1, <2>4, <2>6 DEF Superseded
<1>7. ASSUME NEW n \in Range(s) PROVE n \in Range(Retained(s)) \/ Retired(n)
  <2>1. CASE n \in Young
    BY <1>2, <1>6, <1>7, <2>1 DEF Retired
  <2>2. CASE n \notin Young
    <3>1. n \in Snapshot
      BY <1>1, <1>7, RangeType
    <3>. QED  BY <2>2, <3>1 DEF Young, Retired
  <2>. QED  BY <2>1, <2>2
<1>. QED  BY <1>2, <1>4, <1>7 DEF s

\* While no snapshot is too old, retention goes by number alone.
LEMMA RetainedYoung ==
    ASSUME TypeOK, horizon = 1
    PROVE  Retained(file.recs) = Newest(file.recs, MaxRecords)
<1>1. file.recs \in Seq(Snapshot)
  BY DEF TypeOK, FileOf
<1>2. ASSUME NEW i \in 1..Len(file.recs) PROVE file.recs[i] \in Young
  <2>1. file.recs[i] \in Snapshot
    BY <1>1, <1>2, ElementOfSeq
  <2>. QED  BY <2>1 DEF Young, WithinAgeLimit, Snapshot
<1>3. Select(file.recs, Young) = file.recs
  BY <1>1, <1>2, SelectAll
<1>. QED  BY <1>3 DEF Retained

\* The steps that change neither the files nor what was decided about them: they
\* bring nobody to a line of compaction, and behind it only from the line before.
Quiet ==
    /\ UNCHANGED <<file, backup, horizon, written, spoiled, dropped, harmed>>
    /\ \A v \in Writer :
          /\ pc'[v] \in Compacting \cup {"appended"} =>
                pc[v] = pc'[v] /\ retained'[v] = retained[v]
          /\ pc[v] = "replace" => temp' = temp
          /\ ~failing'[v] /\ pc'[v] \in {"replaced", "cleanup", "release"} =>
                ~failing[v] /\ pc[v] \in {"replaced", "cleanup", "release"}

\* The steps that are not.
Loud ==
    \/ Age
    \/ Corrupt
    \/ \E w \in Writer :
          \/ WriteLine(w) \/ WriteTorn(w) \/ LoadSnapshots(w) \/ OpenBackup(w)
          \/ FillBackup(w) \/ OpenTemp(w) \/ FillTemp(w) \/ Replace(w)

\* Apart from the steps of the writing and compacting writer, the passing of time and
\* damage every step is of the first kind.
LEMMA QuietSteps == LockInv /\ TypeOK /\ [Next]_vars => Quiet \/ Loud
<1>. USE DEF Goto, storeVars, callVars, ghostVars
<1>1. SUFFICES ASSUME LockInv, TypeOK, [Next]_vars PROVE Quiet \/ Loud
  OBVIOUS
<1>2. /\ pc \in [Writer -> PC] /\ failing \in [Writer -> BOOLEAN]
      /\ retained \in [Writer -> Seq(Snapshot)]
      /\ \A v, w \in Writer : pc[v] \in InLock /\ pc[w] \in InLock => v = w
  BY <1>1, Alone DEF LockInv, TypeOK
<1>3. ASSUME NEW w \in Writer, Leave(w), pc[w] # "idle",
             UNCHANGED <<file, backup, temp, horizon, written, spoiled, dropped, harmed>>
      PROVE  Quiet
  BY <1>2, <1>3 DEF Leave, Quiet, Compacting
<1>4. ASSUME NEW w \in Writer, TimeOut(w) \/ AuditAppend(w) \/ Crash(w) PROVE Quiet
  BY <1>3, <1>4 DEF TimeOut, AuditAppend, Crash
<1>5. ASSUME NEW w \in Writer, Call(w) \/ TakeLock(w) \/ AuditCompaction(w) PROVE Quiet
  BY <1>2, <1>5 DEF Call, TakeLock, AuditCompaction, Quiet, Compacting
<1>6. ASSUME NEW w \in Writer, Release(w) PROVE Quiet
  <2>1. CASE failing[w]
    BY <1>3, <1>6, <2>1 DEF Release
  <2>2. CASE ~failing[w]
    BY <1>2, <1>6, <2>2 DEF Release, Quiet, Compacting
  <2>. QED  BY <2>1, <2>2
<1>7. ASSUME NEW w \in Writer, RemoveTemp(w) PROVE Quiet
  <2>1. \A v \in Writer : pc[v] # "replace"
    BY <1>2, <1>7 DEF RemoveTemp, InLock, PC
  <2>. QED  BY <1>2, <1>7, <2>1 DEF RemoveTemp, Quiet, Compacting
<1>8. ASSUME NEW w \in Writer, Fail(w) PROVE Quiet
  <2>1. CASE pc[w] = "acquire"
    BY <1>3, <1>8, <2>1 DEF Fail, Compacting
  <2>2. CASE pc[w] # "acquire"
    BY <1>2, <1>8, <2>2 DEF Fail, Quiet, Compacting
  <2>. QED  BY <2>1, <2>2
<1>9. ASSUME \/ ClearStaleLock \/ UNCHANGED vars
             \/ \E r \in Reader : LoadPrimary(r) \/ LoadBackup(r) \/ AuditRecovery(r)
      PROVE  Quiet
  <2>1. UNCHANGED <<file, backup, temp, horizon, pc, retained, failing, written, spoiled,
                    dropped, harmed>>
    BY <1>9 DEF ClearStaleLock, LoadPrimary, LoadBackup, AuditRecovery, vars
  <2>. QED  BY <2>1 DEF Quiet
<1>. QED
  BY <1>1, <1>4, <1>5, <1>6, <1>7, <1>8, <1>9 DEF Next, Wait, Work, Store, Loud

\* The steps that change no file keep what the files hold.
LEMMA QuietStoreInv == StoreInv /\ Quiet => StoreInv'
<1>1. SUFFICES ASSUME StoreInv, Quiet PROVE StoreInv'
  OBVIOUS
<1>2. /\ FileInOrder /\ WrittenIsKept /\ RetainedIsEnough /\ TempIsReady
      /\ CompactedIsBounded /\ YoungIsEnough /\ BackupKeepsUp
  BY <1>1 DEF StoreInv
<1>3. /\ file' = file /\ backup' = backup /\ horizon' = horizon
      /\ written' = written /\ spoiled' = spoiled
  BY <1>1 DEF Quiet
<1>4. \A w \in Writer : LineIsThere(w)' => LineIsThere(w)
  BY <1>1 DEF Quiet, LineIsThere
<1>5. FileInOrder' /\ WrittenIsKept'
  BY <1>2, <1>3, <1>4
  DEF FileInOrder, WrittenIsKept, Retired, Superseded, WithinAgeLimit
<1>6. RetainedIsEnough'
  BY <1>1, <1>2, <1>3
  DEF RetainedIsEnough, Quiet, Retired, Superseded, WithinAgeLimit
<1>7. TempIsReady'
  BY <1>1, <1>2 DEF TempIsReady, Quiet, Compacting
<1>8. CompactedIsBounded'
  BY <1>1, <1>2, <1>3 DEF CompactedIsBounded, Quiet
<1>9. YoungIsEnough' /\ BackupKeepsUp'
  BY <1>1, <1>2, <1>3 DEF YoungIsEnough, BackupKeepsUp, Quiet
<1>. QED  BY <1>5, <1>6, <1>7, <1>8, <1>9 DEF StoreInv

\* Whoever is behind the lock is alone there: what holds for it holds for all.
LEMMA OnlyOwner ==
    ASSUME LockInv, NEW w \in Writer, pc[w] \in InLock,
           NEW l \in InLock, pc' = [pc EXCEPT ![w] = l]
    PROVE  pc'[w] = l /\ \A v \in Writer : pc'[v] \in InLock => v = w
BY Alone DEF LockInv

\* Writing a line keeps what the files hold.
LEMMA WriteLineStoreInv ==
    ASSUME LockInv, CallInv, StoreInv, NEW w \in Writer, WriteLine(w)
    PROVE  StoreInv'
<1>1. /\ pc[w] = "locked" /\ pc' = [pc EXCEPT ![w] = "appended"]
      /\ file' = AddLine(file, record[w])
      /\ backup' = backup /\ horizon' = horizon
      /\ file.tail = "ended" => written' = Append(written, record[w]) /\ spoiled' = spoiled
      /\ file.tail # "ended" => written' = written /\ spoiled' = spoiled \cup {record[w]}
  BY DEF WriteLine, Goto
<1>2. /\ TypeOK /\ RecordsAreNew /\ FileInOrder /\ WrittenIsKept /\ YoungIsEnough /\ BackupKeepsUp
      /\ file \in FileOf(Snapshot) /\ written \in Seq(Snapshot) /\ Glued(file) \in Seq(Snapshot)
      /\ backup.recs \in Seq(Snapshot) /\ file.bad \in Nat
  BY GluedType DEF CallInv, StoreInv, TypeOK, FileOf
<1>3. record[w] \in Snapshot /\ record[w] \notin Range(written)
  BY <1>1, <1>2 DEF RecordsAreNew
<1>4. pc'[w] = "appended" /\ \A v \in Writer : pc'[v] \in InLock => v = w
  BY <1>1, OnlyOwner DEF InLock, PC
<1>5. /\ file'.tail = "ended"
      /\ file.tail = "ended" => Glued(file') = Append(Glued(file), record[w])
      /\ file.tail # "ended" => Glued(file') = Glued(file) /\ file'.bad = file.bad + 1
      /\ file.tail = "ended" => file'.bad = file.bad
  <2>. DEFINE g == AddLine(file, record[w])
  <2>1. /\ g.tail = "ended"
        /\ file.tail = "ended" =>
              Glued(g) = Append(Glued(file), record[w]) /\ g.bad = file.bad
        /\ file.tail # "ended" => Glued(g) = Glued(file) /\ g.bad = file.bad + 1
    BY <1>2, <1>3, GluedAdd, Zenon
  <2>. HIDE DEF g
  <2>2. file' = g
    BY <1>1 DEF g
  <2>. QED  BY <2>1, <2>2
<1>6. RetainedIsEnough' /\ TempIsReady' /\ CompactedIsBounded'
  BY <1>4 DEF RetainedIsEnough, TempIsReady, CompactedIsBounded, Compacting, InLock, PC
<1>7. CASE file.tail # "ended"
  <2>1. FileInOrder' /\ WrittenIsKept'
    BY <1>1, <1>2, <1>5, <1>7
    DEF FileInOrder, WrittenIsKept, Retired, Superseded, WithinAgeLimit
  <2>2. file'.bad # 0
    BY <1>2, <1>5, <1>7
  <2>3. YoungIsEnough' /\ BackupKeepsUp'
    BY <2>2 DEF YoungIsEnough, BackupKeepsUp
  <2>. QED  BY <1>6, <2>1, <2>3 DEF StoreInv
<1>8. CASE file.tail = "ended"
  <2>1. /\ written' = Append(written, record[w]) /\ spoiled' = spoiled
        /\ Glued(file') = Append(Glued(file), record[w]) /\ file'.bad = file.bad
    BY <1>1, <1>5, <1>8
  <2>2. /\ Range(Glued(file')) = Range(Glued(file)) \cup {record[w]}
        /\ Range(written') = Range(written) \cup {record[w]}
    BY <1>2, <1>3, <2>1, RangeAppend
  <2>3. FileInOrder'
    <3>1. Spaced(Glued(file'), written')
      BY <1>2, <1>3, <2>1, AppendSpaced DEF FileInOrder
    <3>. QED  BY <1>1, <1>2, <1>5, <2>2, <3>1 DEF FileInOrder
  <2>4. \A n \in Snapshot : Retired(n) => Retired(n)'
    BY <1>1, <1>2, <1>3, <2>1, RetiredStays
  <2>5. WrittenIsKept'
    <3>1. Range(written) \subseteq Snapshot
      BY <1>2, RangeType
    <3>. QED  BY <1>2, <2>1, <2>2, <2>4, <3>1 DEF WrittenIsKept
  <2>6. /\ Len(Glued(file)) \in Nat /\ Len(written) \in Nat /\ MaxRecords \in Nat
        /\ Len(Glued(file')) = Len(Glued(file)) + 1
        /\ Len(written') = Len(written) + 1
    BY <1>2, <1>3, <2>1, AppendProperties, LenProperties, HistoryAssumption
    DEF HistoryAssumption
  <2>7. horizon = 1 /\ file.bad = 0 =>
           \/ Len(Glued(file')) >= Len(written')
           \/ Len(Glued(file')) > MaxRecords
    <3>1. horizon = 1 /\ file.bad = 0 =>
             Len(Glued(file)) >= Len(written) \/ Len(Glued(file)) >= MaxRecords
      BY <1>2 DEF YoungIsEnough
    <3>. QED  BY <2>6, <3>1
  <2>8. Len(Glued(file')) > MaxRecords => Len(Glued(file')) >= MaxRecords
    BY <2>6
  <2>9. YoungIsEnough'
    BY <1>1, <2>1, <2>7, <2>8 DEF YoungIsEnough
  <2>10. ~(/\ Len(Glued(file')) <= MaxRecords /\ Len(written') > MaxRecords
           /\ \/ Len(Glued(file')) >= Len(written')
              \/ Len(Glued(file')) > MaxRecords)
    BY <2>6
  <2>11. BackupKeepsUp'
    BY <1>1, <2>1, <2>7, <2>10 DEF BackupKeepsUp
  <2>. QED  BY <1>6, <2>3, <2>5, <2>9, <2>11 DEF StoreInv
<1>. QED  BY <1>7, <1>8

\* A write that is torn does: it changes no line that has its newline.
LEMMA WriteTornStoreInv ==
    ASSUME LockInv, CallInv, StoreInv, NEW w \in Writer, WriteTorn(w)
    PROVE  StoreInv' /\ file'.tail # "ended" /\ file'.bad = file.bad /\ Glued(file') = Glued(file)
<1>1. /\ pc[w] = "locked" /\ pc' = [pc EXCEPT ![w] = "release"]
      /\ file' \in {AddCut(file), AddOpen(file, record[w])}
      /\ failing' = [failing EXCEPT ![w] = TRUE]
      /\ UNCHANGED <<backup, horizon, written, spoiled>>
  BY DEF WriteTorn, Goto
<1>2. /\ file \in FileOf(Snapshot) /\ record[w] \in Snapshot /\ failing \in [Writer -> BOOLEAN]
      /\ FileInOrder /\ WrittenIsKept /\ YoungIsEnough /\ BackupKeepsUp
  BY <1>1 DEF CallInv, StoreInv, TypeOK, RecordsAreNew
<1>3. file'.tail # "ended" /\ file'.bad = file.bad /\ Glued(file') = Glued(file)
  <2>1. CASE file' = AddCut(file)
    BY <1>2, <2>1, GluedAdd
  <2>2. CASE file' = AddOpen(file, record[w])
    <3>. DEFINE g == AddOpen(file, record[w])
    <3>1. g.tail # "ended" /\ g.bad = file.bad /\ Glued(g) = Glued(file)
      BY <1>2, GluedAdd
    <3>. HIDE DEF g
    <3>2. file' = g
      BY <2>2 DEF g
    <3>. QED  BY <3>1, <3>2
  <2>. QED  BY <1>1, <2>1, <2>2
<1>4. /\ pc'[w] = "release" /\ failing'[w]
      /\ \A v \in Writer : pc'[v] \in InLock => v = w
  BY <1>1, <1>2, OnlyOwner DEF InLock, PC
<1>5. \A v \in Writer :
         /\ pc'[v] \notin Compacting \cup {"appended"}
         /\ ~failing'[v] => pc'[v] \notin {"replaced", "cleanup", "release"}
  BY <1>4 DEF Compacting, InLock, PC
<1>6. FileInOrder' /\ WrittenIsKept'
  <2>1. \A v \in Writer : ~LineIsThere(v)'
    BY <1>5 DEF LineIsThere
  <2>. QED
    BY <1>1, <1>2, <1>3, <2>1
    DEF FileInOrder, WrittenIsKept, Retired, Superseded, WithinAgeLimit
<1>7. RetainedIsEnough' /\ TempIsReady' /\ CompactedIsBounded'
  BY <1>5 DEF RetainedIsEnough, TempIsReady, CompactedIsBounded, Compacting
<1>8. YoungIsEnough' /\ BackupKeepsUp'
  BY <1>1, <1>2, <1>3, <1>5 DEF YoungIsEnough, BackupKeepsUp
<1>. QED  BY <1>3, <1>6, <1>7, <1>8 DEF StoreInv

\* Deciding what to keep does: it leaves out only what retention may take.
LEMMA LoadSnapshotsStoreInv ==
    ASSUME LockInv, CallInv, StoreInv, NEW w \in Writer, LoadSnapshots(w)
    PROVE  StoreInv'
<1>1. /\ pc[w] = "appended"
      /\ retained' = [retained EXCEPT ![w] = Retained(file.recs)]
      /\ file' = file /\ written' = written /\ backup' = backup /\ horizon' = horizon
      /\ spoiled' = spoiled
      /\ pc' = [pc EXCEPT ![w] = IF Retained(file.recs) = file.recs THEN "release" ELSE "copy"]
  BY DEF LoadSnapshots, Goto, storeVars, ghostVars
<1>2. /\ TypeOK /\ FileInOrder /\ WrittenIsKept /\ YoungIsEnough /\ BackupKeepsUp
      /\ file.recs \in Seq(Snapshot) /\ retained \in [Writer -> Seq(Snapshot)]
      /\ Len(file.recs) \in Nat /\ MaxRecords \in Nat
  BY HistoryAssumption, LenProperties
  DEF CallInv, StoreInv, TypeOK, FileOf, HistoryAssumption
<1>3. /\ retained'[w] = Retained(file.recs)
      /\ pc'[w] = IF Retained(file.recs) = file.recs THEN "release" ELSE "copy"
      /\ \A v \in Writer : pc'[v] \in InLock => v = w
  BY <1>1, <1>2, OnlyOwner DEF LockInv, InLock, PC
<1>4. /\ Retained(file.recs) \in Seq(Snapshot)
      /\ Len(Retained(file.recs)) <= MaxRecords
  BY <1>2, HistoryAssumption, RetainedType
<1>5. file.tail = "ended"
  BY <1>1, <1>2 DEF FileInOrder, LineIsThere
<1>6. FileInOrder' /\ WrittenIsKept'
  BY <1>1, <1>2, <1>5 DEF FileInOrder, WrittenIsKept, Retired, Superseded, WithinAgeLimit
<1>7. RetainedIsEnough'
  <2>1. SUFFICES ASSUME Retained(file.recs) # file.recs
                 PROVE  /\ Spaced(Retained(file.recs), written)
                        /\ Range(Retained(file.recs)) \subseteq Range(file.recs)
                        /\ \A n \in Range(file.recs) :
                              n \in Range(Retained(file.recs)) \/ Retired(n)
                        /\ horizon = 1 =>
                              /\ Len(Retained(file.recs)) >= MaxRecords
                              /\ Len(file.recs) > MaxRecords
    BY <1>1, <1>3, <1>4 DEF RetainedIsEnough, Compacting, InLock, PC, Retired, Superseded,
       WithinAgeLimit
  <2>2. ASSUME horizon = 1
        PROVE  Len(Retained(file.recs)) >= MaxRecords /\ Len(file.recs) > MaxRecords
    <3>1. Retained(file.recs) = Newest(file.recs, MaxRecords)
      BY <1>2, <2>2, RetainedYoung
    <3>2. ~(Len(file.recs) <= MaxRecords)
      BY <2>1, <3>1 DEF Newest
    <3>3. Len(Newest(file.recs, MaxRecords))
            = IF Len(file.recs) <= MaxRecords THEN Len(file.recs) ELSE MaxRecords
      BY <1>2, NewestType
    <3>. QED  BY <1>2, <3>1, <3>2, <3>3
  <2>. QED  BY <1>2, <1>5, <2>2, RetainedKeeps
<1>8. TempIsReady' /\ CompactedIsBounded'
  BY <1>1, <1>3, <1>4 DEF TempIsReady, CompactedIsBounded, InLock, PC
<1>9. YoungIsEnough' /\ BackupKeepsUp'
  <2>1. \A v \in Writer : pc'[v] # "appended"
    BY <1>3 DEF InLock, PC
  <2>. QED  BY <1>1, <1>2, <2>1 DEF YoungIsEnough, BackupKeepsUp
<1>. QED  BY <1>6, <1>7, <1>8, <1>9 DEF StoreInv

\* Copying the history to the backup does: meanwhile the history is beyond its limit.
LEMMA BackupStoreInv ==
    ASSUME LockInv, CallInv, StoreInv, NEW w \in Writer, OpenBackup(w) \/ FillBackup(w)
    PROVE  StoreInv'
<1>1. /\ pc[w] \in {"copy", "copying"}
      /\ pc' = [pc EXCEPT ![w] = IF pc[w] = "copy" THEN "copying" ELSE "compact"]
      /\ backup' \in {CleanFile(<<>>), file}
      /\ file' = file /\ written' = written /\ horizon' = horizon /\ spoiled' = spoiled
      /\ retained' = retained /\ failing' = failing
  BY DEF OpenBackup, FillBackup, Copy, Goto, callVars, ghostVars
<1>2. /\ pc'[w] \in {"copying", "compact"}
      /\ \A v \in Writer : pc'[v] \in InLock => v = w
  BY <1>1, OnlyOwner DEF LockInv, InLock, PC
<1>3. /\ FileInOrder /\ WrittenIsKept /\ RetainedIsEnough /\ YoungIsEnough
      /\ file.recs \in Seq(Snapshot) /\ Len(file.recs) \in Nat /\ MaxRecords \in Nat
  BY HistoryAssumption, LenProperties
  DEF StoreInv, CallInv, TypeOK, FileOf, HistoryAssumption
<1>4. file.tail = "ended" /\ Glued(file) = file.recs
  BY <1>1, <1>3 DEF FileInOrder, LineIsThere, Compacting, Glued
<1>5. Range(backup'.recs) \subseteq Range(written)
  <2>1. Range(<<>>) = {}
    <3>1. DOMAIN <<>> = {}
      BY EmptySeq, LenProperties
    <3>. QED  BY <3>1 DEF Range
  <2>2. backup'.recs = <<>> \/ backup'.recs = file.recs
    BY <1>1 DEF CleanFile
  <2>. QED  BY <1>3, <1>4, <2>1, <2>2 DEF FileInOrder
<1>6. FileInOrder' /\ WrittenIsKept'
  BY <1>1, <1>3, <1>4, <1>5
  DEF FileInOrder, WrittenIsKept, Retired, Superseded, WithinAgeLimit
<1>7. RetainedIsEnough'
  BY <1>1, <1>2, <1>3 DEF RetainedIsEnough, Compacting, InLock, PC, Retired, Superseded,
     WithinAgeLimit
<1>8. YoungIsEnough'
  <2>1. \A v \in Writer : pc'[v] # "appended"
    BY <1>2 DEF InLock, PC
  <2>. QED  BY <1>1, <1>3, <2>1 DEF YoungIsEnough
<1>9. BackupKeepsUp'
  <2>1. horizon = 1 => Len(file.recs) > MaxRecords
    BY <1>1, <1>3 DEF RetainedIsEnough, Compacting
  <2>2. ~(Len(file.recs) > MaxRecords /\ Len(file.recs) <= MaxRecords)
    BY <1>3
  <2>. QED  BY <1>1, <1>4, <2>1, <2>2 DEF BackupKeepsUp
<1>10. TempIsReady' /\ CompactedIsBounded'
  BY <1>2 DEF TempIsReady, CompactedIsBounded, InLock, PC
<1>. QED  BY <1>6, <1>7, <1>8, <1>9, <1>10 DEF StoreInv

\* Filling the temporary file does.
LEMMA TempStoreInv ==
    ASSUME LockInv, CallInv, StoreInv, NEW w \in Writer, OpenTemp(w) \/ FillTemp(w)
    PROVE  StoreInv'
<1>1. /\ pc[w] \in {"compact", "fill"}
      /\ pc' = [pc EXCEPT ![w] = IF pc[w] = "compact" THEN "fill" ELSE "replace"]
      /\ pc[w] = "fill" => temp' = TempWith(retained[w])
      /\ file' = file /\ written' = written /\ horizon' = horizon /\ backup' = backup
      /\ spoiled' = spoiled /\ retained' = retained /\ failing' = failing
  BY DEF OpenTemp, FillTemp, Lines, Goto, callVars, ghostVars
<1>2. /\ pc'[w] = IF pc[w] = "compact" THEN "fill" ELSE "replace"
      /\ \A v \in Writer : pc'[v] \in InLock => v = w
  BY <1>1, OnlyOwner DEF LockInv, InLock, PC
<1>3. /\ FileInOrder /\ WrittenIsKept /\ RetainedIsEnough /\ YoungIsEnough /\ BackupKeepsUp
      /\ file.tail = "ended"
  BY <1>1 DEF StoreInv, FileInOrder, LineIsThere, Compacting
<1>4. FileInOrder' /\ WrittenIsKept'
  BY <1>1, <1>3 DEF FileInOrder, WrittenIsKept, Retired, Superseded, WithinAgeLimit
<1>5. RetainedIsEnough'
  BY <1>1, <1>2, <1>3 DEF RetainedIsEnough, Compacting, InLock, PC, Retired, Superseded,
     WithinAgeLimit
<1>6. YoungIsEnough' /\ BackupKeepsUp'
  <2>1. \A v \in Writer : pc'[v] # "appended"
    BY <1>2 DEF InLock, PC
  <2>. QED  BY <1>1, <1>3, <2>1 DEF YoungIsEnough, BackupKeepsUp
<1>7. TempIsReady'
  BY <1>1, <1>2 DEF TempIsReady, InLock, PC
<1>8. CompactedIsBounded'
  BY <1>2 DEF CompactedIsBounded, InLock, PC
<1>. QED  BY <1>4, <1>5, <1>6, <1>7, <1>8 DEF StoreInv

\* Replacing the history does: it now is what retention keeps, and the backup what
\* it was.
LEMMA ReplaceStoreInv ==
    ASSUME LockInv, CallInv, StoreInv, NEW w \in Writer, Replace(w)
    PROVE  StoreInv' /\ file'.tail = "ended"
<1>1. /\ pc[w] = "replace" /\ pc' = [pc EXCEPT ![w] = "replaced"]
      /\ file' = CleanFile(temp.recs)
      /\ written' = written /\ horizon' = horizon /\ backup' = backup /\ spoiled' = spoiled
  BY DEF Replace, Goto
<1>2. /\ pc'[w] = "replaced"
      /\ \A v \in Writer : pc'[v] \in InLock => v = w
  BY <1>1, OnlyOwner DEF LockInv, InLock, PC
<1>3. /\ FileInOrder /\ WrittenIsKept /\ RetainedIsEnough /\ TempIsReady
      /\ BackupPrecedesReplace
      /\ retained \in [Writer -> Seq(Snapshot)] /\ MaxRecords \in Nat
  BY HistoryAssumption DEF StoreInv, LockInv, CallInv, TypeOK, HistoryAssumption
<1>4. file'.recs = retained[w] /\ file'.tail = "ended" /\ Glued(file') = retained[w]
  BY <1>1, <1>3 DEF TempIsReady, TempWith, CleanFile, Glued
<1>5. /\ backup.recs = file.recs
      /\ Glued(file) = file.recs
      /\ Spaced(retained[w], written)
      /\ Range(retained[w]) \subseteq Range(file.recs)
      /\ \A n \in Range(file.recs) : n \in Range(retained[w]) \/ Retired(n)
      /\ Len(retained[w]) <= MaxRecords
      /\ horizon = 1 => Len(retained[w]) >= MaxRecords
  BY <1>1, <1>3
  DEF RetainedIsEnough, BackupPrecedesReplace, FileInOrder, LineIsThere, Compacting, Glued
<1>6. FileInOrder'
  BY <1>1, <1>3, <1>4, <1>5 DEF FileInOrder
<1>7. WrittenIsKept'
  BY <1>1, <1>3, <1>4, <1>5 DEF WrittenIsKept, Retired, Superseded, WithinAgeLimit
<1>8. CompactedIsBounded'
  BY <1>2, <1>4, <1>5 DEF CompactedIsBounded, InLock, PC
<1>9. YoungIsEnough'
  <2>1. \A v \in Writer : pc'[v] # "appended"
    BY <1>2 DEF InLock, PC
  <2>. QED  BY <1>1, <1>4, <1>5, <2>1 DEF YoungIsEnough
<1>10. BackupKeepsUp'
  BY <1>1, <1>4, <1>5 DEF BackupKeepsUp
<1>11. RetainedIsEnough' /\ TempIsReady'
  BY <1>2 DEF RetainedIsEnough, TempIsReady, Compacting, InLock, PC
<1>. QED  BY <1>4, <1>6, <1>7, <1>8, <1>9, <1>10, <1>11 DEF StoreInv

\* The passing of time does: what is retired stays so.
LEMMA AgeStoreInv ==
    ASSUME LockInv, CallInv, StoreInv, Age
    PROVE  StoreInv'
<1>1. /\ horizon' = horizon + 1 /\ horizon \in Nat /\ horizon > 0
      /\ file' = file /\ written' = written /\ backup' = backup /\ temp' = temp
      /\ spoiled' = spoiled /\ retained' = retained /\ failing' = failing /\ pc' = pc
      /\ TypeOK /\ file.recs \in Seq(Snapshot) /\ written \in Seq(Snapshot)
  BY DEF Age, CallInv, TypeOK, FileOf, storeVars, callVars, ghostVars
<1>2. \A n \in Snapshot : Retired(n) => Retired(n)'
  BY <1>1, RetiredStays
<1>3. Range(file.recs) \subseteq Snapshot /\ Range(written) \subseteq Snapshot
  BY <1>1, RangeType
<1>4. FileInOrder' /\ TempIsReady' /\ CompactedIsBounded'
  BY <1>1 DEF StoreInv, FileInOrder, TempIsReady, CompactedIsBounded, LineIsThere
<1>5. WrittenIsKept'
  BY <1>1, <1>2, <1>3 DEF StoreInv, WrittenIsKept
<1>6. horizon' # 1
  BY <1>1
<1>7. RetainedIsEnough'
  BY <1>1, <1>2, <1>3, <1>6 DEF StoreInv, RetainedIsEnough
<1>8. YoungIsEnough' /\ BackupKeepsUp'
  BY <1>6 DEF YoungIsEnough, BackupKeepsUp
<1>. QED  BY <1>4, <1>5, <1>7, <1>8 DEF StoreInv

\* Damage does: nobody is behind the lock meanwhile, and what is damaged is known to
\* be.
LEMMA CorruptStoreInv ==
    ASSUME LockInv, CallInv, StoreInv, Corrupt
    PROVE  StoreInv'
<1>1. /\ lock = NoWriter
      /\ UNCHANGED <<backup, temp, horizon, pc, retained, failing, written>>
      /\ file \in FileOf(Snapshot) /\ file.bad \in Nat
      /\ written \in Seq(Snapshot) /\ Glued(file) \in Seq(Snapshot)
      /\ FileInOrder /\ WrittenIsKept
  BY GluedType DEF Corrupt, callVars, CallInv, TypeOK, FileOf, StoreInv
<1>2. PICK D \in SUBSET Snapshot :
         /\ Cardinality(D) \in Nat /\ Cardinality(D) > 0
         /\ file'.bad = file.bad + Cardinality(D)
         /\ Glued(file') = Select(Glued(file), Snapshot \ D)
         /\ spoiled' = spoiled \cup D
  BY <1>1, DamageFinite
<1>3. \A w \in Writer : pc[w] \notin InLock
  BY <1>1, HistoryAssumption DEF LockInv, LockHeld, HistoryAssumption
<1>4. /\ Spaced(Glued(file'), written)
      /\ Range(Glued(file')) = Range(Glued(file)) \cap (Snapshot \ D)
  BY <1>1, <1>2, SelectSpaced, SelectType DEF FileInOrder
<1>5. FileInOrder'
  <2>1. \A w \in Writer : ~LineIsThere(w)'
    BY <1>1, <1>3 DEF LineIsThere, Compacting, InLock, PC
  <2>. QED  BY <1>1, <1>4, <2>1 DEF FileInOrder
<1>6. WrittenIsKept'
  <2>1. Range(written) \subseteq Snapshot
    BY <1>1, RangeType
  <2>. QED
    BY <1>1, <1>2, <1>4, <2>1 DEF WrittenIsKept, Retired, Superseded, WithinAgeLimit
<1>7. file'.bad # 0
  BY <1>1, <1>2
<1>8. YoungIsEnough' /\ BackupKeepsUp'
  BY <1>7 DEF YoungIsEnough, BackupKeepsUp
<1>9. RetainedIsEnough' /\ TempIsReady' /\ CompactedIsBounded'
  BY <1>1, <1>3 DEF RetainedIsEnough, TempIsReady, CompactedIsBounded, Compacting, InLock, PC
<1>. QED  BY <1>5, <1>6, <1>8, <1>9 DEF StoreInv

\* Every step of every process, faults included, keeps what the files hold.
LEMMA NextStoreInv == LockInv /\ CallInv /\ StoreInv /\ [Next]_vars => StoreInv'
BY QuietSteps, QuietStoreInv, WriteLineStoreInv, WriteTornStoreInv, LoadSnapshotsStoreInv,
   BackupStoreInv, TempStoreInv, ReplaceStoreInv, AgeStoreInv, CorruptStoreInv
DEF CallInv, Loud
-----------------------------------------------------------------------------
\* Each line that does not parse is one of as many torn writes and damaged lines, and
\* a line that is still to be glued to a torn one is another.
SpoiledIsCounted ==
    Cardinality(spoiled) + (IF file.tail = "ended" THEN 0 ELSE 1) <= harmed

\* A line that does not parse shows as a malformed one until a compaction.
SpoiledShows ==
    /\ dropped \subseteq spoiled
    /\ dropped # spoiled => file.bad > 0

\* A call that has come behind its write without an error, and every call that
\* returned normally, has written its snapshot, though perhaps behind a torn line.
AckedIsWritten ==
    /\ acked \subseteq Range(written) \cup spoiled
    /\ \A w \in Writer :
          pc[w] = "audit" \/ (pc[w] \in InLock \ {"locked"} /\ ~failing[w]) =>
              record[w] \in Range(written) \cup spoiled

HarmInv == SpoiledIsCounted /\ SpoiledShows /\ AckedIsWritten

IInv == LockInv /\ CallInv /\ StoreInv /\ HarmInv

\* No more snapshots are counted twice than there are.
LEMMA SpoiledGrows ==
    ASSUME NEW S \in SUBSET Snapshot, NEW D \in SUBSET Snapshot
    PROVE  /\ Cardinality(S) \in Nat /\ Cardinality(D) \in Nat
           /\ Cardinality(S \cup D) \in Nat
           /\ Cardinality(S \cup D) <= Cardinality(S) + Cardinality(D)
<1>1. MaxAppends \in Nat /\ S \subseteq 1..MaxAppends /\ D \subseteq 1..MaxAppends
  BY HistoryAssumption DEF HistoryAssumption, Snapshot
<1>2. IsFiniteSet(S) /\ IsFiniteSet(D) /\ Cardinality(S) \in Nat /\ Cardinality(D) \in Nat
  BY <1>1, PlacesFinite
<1>3. /\ IsFiniteSet(S \cup D)
      /\ Cardinality(S \cup D) = Cardinality(S) + Cardinality(D) - Cardinality(S \cap D)
  BY <1>2, FS_Union
<1>4. Cardinality(S \cap D) \in Nat /\ Cardinality(S \cup D) \in Nat
  <2>1. S \cap D \subseteq 1..MaxAppends
    BY <1>1
  <2>. QED  BY <1>1, <1>3, <2>1, PlacesFinite, FS_CardinalityType
<1>. QED  BY <1>2, <1>3, <1>4

\* At first nothing is written, and nothing harmed.
LEMMA InitHarmInv == Init => HarmInv
<1>1. SUFFICES ASSUME Init PROVE HarmInv
  OBVIOUS
<1>2. Cardinality({}) = 0
  BY FS_EmptySet
<1>3. SpoiledIsCounted
  BY <1>1, <1>2 DEF Init, SpoiledIsCounted, CleanFile
<1>. QED  BY <1>1, <1>3 DEF Init, HarmInv, SpoiledShows, AckedIsWritten, InLock

\* Every step that makes a line unreadable is counted, and shows.
LEMMA NextSpoiled ==
    LockInv /\ CallInv /\ StoreInv /\ SpoiledIsCounted /\ SpoiledShows /\ [Next]_vars =>
        SpoiledIsCounted' /\ SpoiledShows'
<1>1. SUFFICES ASSUME LockInv, CallInv, StoreInv, SpoiledIsCounted, SpoiledShows, [Next]_vars
               PROVE  SpoiledIsCounted' /\ SpoiledShows'
  OBVIOUS
<1>2. /\ TypeOK /\ file \in FileOf(Snapshot) /\ file.bad \in Nat /\ harmed \in Nat
      /\ spoiled \in SUBSET Snapshot
  BY <1>1 DEF CallInv, TypeOK, FileOf
<1>3. Cardinality(spoiled) \in Nat
  BY <1>2, SpoiledGrows
<1>4. ASSUME UNCHANGED <<file, spoiled, dropped, harmed>>
      PROVE  SpoiledIsCounted' /\ SpoiledShows'
  BY <1>1, <1>4 DEF SpoiledIsCounted, SpoiledShows
<1>5. ASSUME \/ Quiet \/ Age
             \/ \E w \in Writer : \/ LoadSnapshots(w) \/ OpenBackup(w) \/ FillBackup(w)
                                  \/ OpenTemp(w) \/ FillTemp(w)
      PROVE  SpoiledIsCounted' /\ SpoiledShows'
  <2>1. UNCHANGED <<file, spoiled, dropped, harmed>>
    BY <1>5 DEF Quiet, Age, LoadSnapshots, OpenBackup, FillBackup, OpenTemp, FillTemp,
       storeVars, ghostVars
  <2>. QED  BY <1>4, <2>1
<1>6. ASSUME NEW w \in Writer, WriteLine(w) PROVE SpoiledIsCounted' /\ SpoiledShows'
  <2>1. /\ file' = AddLine(file, record[w]) /\ record[w] \in Snapshot
        /\ harmed' = harmed /\ dropped' = dropped
        /\ file.tail = "ended" => spoiled' = spoiled
        /\ file.tail # "ended" => spoiled' = spoiled \cup {record[w]}
    BY <1>1, <1>6 DEF WriteLine, CallInv, RecordsAreNew
  <2>2. /\ file'.tail = "ended"
        /\ file.tail # "ended" => file'.bad = file.bad + 1
        /\ file.tail = "ended" => file'.bad = file.bad
    <3>. DEFINE g == AddLine(file, record[w])
    <3>1. /\ g.tail = "ended"
          /\ file.tail = "ended" => g.bad = file.bad
          /\ file.tail # "ended" => g.bad = file.bad + 1
      BY <1>2, <2>1, GluedAdd, Zenon
    <3>. HIDE DEF g
    <3>2. file' = g
      BY <2>1 DEF g
    <3>. QED  BY <3>1, <3>2
  <2>3. CASE file.tail = "ended"
    BY <1>1, <2>1, <2>2, <2>3 DEF SpoiledIsCounted, SpoiledShows
  <2>4. CASE file.tail # "ended"
    <3>1. /\ Cardinality(spoiled \cup {record[w]}) \in Nat
          /\ Cardinality(spoiled \cup {record[w]}) <= Cardinality(spoiled) + 1
      <4>1. {record[w]} \in SUBSET Snapshot /\ Cardinality({record[w]}) = 1
        BY <2>1, FS_Singleton
      <4>. QED  BY <1>2, <4>1, SpoiledGrows
    <3>2. Cardinality(spoiled) + 1 <= harmed
      BY <1>1, <2>4 DEF SpoiledIsCounted
    <3>3. Cardinality(spoiled \cup {record[w]}) + 0 <= harmed
      BY <1>2, <1>3, <3>1, <3>2
    <3>4. SpoiledIsCounted'
      BY <2>1, <2>2, <2>4, <3>3 DEF SpoiledIsCounted
    <3>5. file'.bad > 0
      BY <1>2, <2>2, <2>4
    <3>6. SpoiledShows'
      BY <1>1, <2>1, <2>4, <3>5 DEF SpoiledShows
    <3>. QED  BY <3>4, <3>6
  <2>. QED  BY <2>3, <2>4
<1>7. ASSUME NEW w \in Writer, WriteTorn(w) PROVE SpoiledIsCounted' /\ SpoiledShows'
  <2>1. /\ harmed' = harmed + 1 /\ spoiled' = spoiled /\ dropped' = dropped
        /\ file'.tail # "ended" /\ file'.bad = file.bad
    BY <1>1, <1>7, WriteTornStoreInv DEF WriteTorn
  <2>2. Cardinality(spoiled) + 1 <= harmed + 1
    <3>1. Cardinality(spoiled) + 0 <= harmed \/ Cardinality(spoiled) + 1 <= harmed
      BY <1>1 DEF SpoiledIsCounted
    <3>. QED  BY <1>2, <1>3, <3>1
  <2>. QED  BY <1>1, <2>1, <2>2 DEF SpoiledIsCounted, SpoiledShows
<1>8. ASSUME NEW w \in Writer, Replace(w) PROVE SpoiledIsCounted' /\ SpoiledShows'
  <2>1. /\ harmed' = harmed /\ spoiled' = spoiled /\ dropped' = spoiled
        /\ file'.tail = "ended"
    BY <1>1, <1>8, ReplaceStoreInv DEF Replace
  <2>2. Cardinality(spoiled) + 0 <= harmed
    <3>1. Cardinality(spoiled) + 0 <= harmed \/ Cardinality(spoiled) + 1 <= harmed
      BY <1>1 DEF SpoiledIsCounted
    <3>. QED  BY <1>2, <1>3, <3>1
  <2>. QED  BY <2>1, <2>2 DEF SpoiledIsCounted, SpoiledShows
<1>9. ASSUME Corrupt PROVE SpoiledIsCounted' /\ SpoiledShows'
  <2>1. PICK D \in SUBSET Snapshot :
           /\ Cardinality(D) \in Nat /\ Cardinality(D) > 0
           /\ file'.bad = file.bad + Cardinality(D) /\ file'.tail = file.tail
           /\ spoiled' = spoiled \cup D
           /\ harmed' = harmed + Cardinality(D)
    BY <1>2, <1>9, DamageFinite
  <2>2. dropped' = dropped /\ dropped \subseteq spoiled
    BY <1>1, <1>9 DEF Corrupt, SpoiledShows
  <2>3. file'.bad > 0
    BY <1>2, <2>1
  <2>4. SpoiledShows'
    BY <2>1, <2>2, <2>3 DEF SpoiledShows
  <2>5. /\ Cardinality(spoiled \cup D) \in Nat
        /\ Cardinality(spoiled \cup D) <= Cardinality(spoiled) + Cardinality(D)
    BY <1>2, <2>1, SpoiledGrows
  <2>6. ASSUME NEW k \in {0, 1}, Cardinality(spoiled) + k <= harmed
        PROVE  Cardinality(spoiled \cup D) + k <= harmed + Cardinality(D)
    BY <1>2, <1>3, <2>1, <2>5, <2>6
  <2>7. SpoiledIsCounted'
    <3>1. CASE file.tail = "ended"
      BY <1>1, <2>1, <2>6, <3>1 DEF SpoiledIsCounted
    <3>2. CASE file.tail # "ended"
      BY <1>1, <2>1, <2>6, <3>2 DEF SpoiledIsCounted
    <3>. QED  BY <3>1, <3>2
  <2>. QED  BY <2>4, <2>7
<1>. QED  BY <1>1, <1>2, <1>5, <1>6, <1>7, <1>8, <1>9, QuietSteps DEF Loud

\* Every step keeps what the calls say they wrote among what was written.
LEMMA NextAckedIsWritten ==
    LockInv /\ CallInv /\ AckedIsWritten /\ [Next]_vars => AckedIsWritten'
<1>. USE DEF Goto, storeVars, callVars, ghostVars
<1>1. SUFFICES ASSUME LockInv, CallInv, AckedIsWritten, [Next]_vars
               PROVE  AckedIsWritten'
  OBVIOUS
<1>2. /\ pc \in [Writer -> PC] /\ failing \in [Writer -> BOOLEAN]
      /\ record \in [Writer -> Snapshot \cup {0}] /\ written \in Seq(Snapshot)
      /\ file \in FileOf(Snapshot) /\ RecordsAreNew
  BY <1>1 DEF CallInv, TypeOK
<1>3. ASSUME NEW w \in Writer, Call(w) PROVE AckedIsWritten'
  BY <1>1, <1>2, <1>3 DEF Call, Stamped, AckedIsWritten, InLock, PC
<1>4. ASSUME NEW w \in Writer, WriteLine(w) PROVE AckedIsWritten'
  <2>1. /\ record[w] \in Snapshot
        /\ pc' = [pc EXCEPT ![w] = "appended"] /\ pc[w] = "locked"
        /\ UNCHANGED <<record, failing, acked>>
        /\ \/ written' = Append(written, record[w]) /\ spoiled' = spoiled
           \/ written' = written /\ spoiled' = spoiled \cup {record[w]}
    BY <1>2, <1>4 DEF WriteLine, RecordsAreNew
  <2>2. Range(Append(written, record[w])) = Range(written) \cup {record[w]}
    BY <1>2, <2>1, RangeAppend
  <2>3. Range(written') \cup spoiled' = Range(written) \cup spoiled \cup {record[w]}
    BY <2>1, <2>2
  <2>. QED  BY <1>1, <1>2, <2>1, <2>3 DEF AckedIsWritten
<1>5. ASSUME UNCHANGED written, spoiled \subseteq spoiled',
             acked' \subseteq Range(written) \cup spoiled,
             \A w \in Writer :
                pc'[w] = "audit" \/ (pc'[w] \in InLock \ {"locked"} /\ ~failing'[w]) =>
                    /\ record'[w] = record[w]
                    /\ pc[w] = "audit" \/ (pc[w] \in InLock \ {"locked"} /\ ~failing[w])
      PROVE  AckedIsWritten'
  BY <1>1, <1>5 DEF AckedIsWritten
<1>6. acked \subseteq Range(written) \cup spoiled
  BY <1>1 DEF AckedIsWritten
<1>7. ASSUME NEW w \in Writer,
             \/ LoadSnapshots(w) \/ OpenBackup(w) \/ FillBackup(w) \/ OpenTemp(w)
             \/ FillTemp(w) \/ Replace(w) \/ WriteTorn(w)
      PROVE  AckedIsWritten'
  BY <1>2, <1>5, <1>6, <1>7 DEF LoadSnapshots, OpenBackup, FillBackup, OpenTemp, FillTemp,
     Replace, WriteTorn, InLock, PC
<1>8. ASSUME NEW w \in Writer, TakeLock(w) \/ AuditCompaction(w) \/ RemoveTemp(w)
      PROVE  AckedIsWritten'
  BY <1>2, <1>5, <1>6, <1>8 DEF TakeLock, AuditCompaction, RemoveTemp, InLock, PC
<1>9. ASSUME NEW w \in Writer, Leave(w), UNCHANGED <<written, spoiled>>,
             acked' \subseteq Range(written) \cup spoiled
      PROVE  AckedIsWritten'
  <2>1. pc'[w] = "idle" /\ \A v \in Writer \ {w} :
           pc'[v] = pc[v] /\ failing'[v] = failing[v] /\ record'[v] = record[v]
    BY <1>2, <1>9 DEF Leave
  <2>. QED  BY <1>5, <1>9, <2>1 DEF InLock, PC
<1>10. ASSUME NEW w \in Writer, TimeOut(w) \/ Release(w) \/ Fail(w) \/ Crash(w)
       PROVE  AckedIsWritten'
  <2>1. /\ UNCHANGED <<written, spoiled, acked>>
        /\ \/ Leave(w)
           \/ /\ pc[w] = "release" /\ ~failing[w]
              /\ Goto(w, "audit") /\ UNCHANGED <<record, failing>>
           \/ /\ \E l \in {"release", "cleanup"} : Goto(w, l)
              /\ failing' = [failing EXCEPT ![w] = TRUE] /\ UNCHANGED record
    BY <1>10 DEF TimeOut, Release, Fail, Crash
  <2>2. CASE Leave(w)
    BY <1>6, <1>9, <2>1, <2>2
  <2>3. CASE ~Leave(w)
    BY <1>2, <1>5, <1>6, <2>1, <2>3 DEF InLock, PC
  <2>. QED  BY <2>2, <2>3
<1>11. ASSUME NEW w \in Writer, AuditAppend(w) PROVE AckedIsWritten'
  <2>1. record[w] \in Range(written) \cup spoiled
    BY <1>1, <1>11 DEF AuditAppend, AckedIsWritten
  <2>. QED  BY <1>6, <1>9, <1>11, <2>1 DEF AuditAppend
<1>12. ASSUME Corrupt PROVE AckedIsWritten'
  <2>1. spoiled \subseteq spoiled'
    BY <1>2, <1>12, DamageFinite
  <2>. QED  BY <1>5, <1>6, <1>12, <2>1 DEF Corrupt
<1>13. ASSUME \/ ClearStaleLock \/ Age \/ UNCHANGED vars
              \/ \E r \in Reader : LoadPrimary(r) \/ LoadBackup(r) \/ AuditRecovery(r)
       PROVE  AckedIsWritten'
  <2>1. UNCHANGED <<pc, record, failing, written, acked, spoiled>>
    BY <1>13 DEF ClearStaleLock, Age, LoadPrimary, LoadBackup, AuditRecovery, vars
  <2>. QED  BY <1>5, <1>6, <2>1
<1>. QED
  BY <1>1, <1>3, <1>4, <1>7, <1>8, <1>10, <1>11, <1>12, <1>13 DEF Next, Wait, Work, Store
-----------------------------------------------------------------------------
\* The whole invariant holds at first,
LEMMA InitIInv == Init => IInv
BY InitLockInv, InitCallInv, InitStoreInv, InitHarmInv DEF IInv

\* and every step keeps it.
LEMMA NextIInv == IInv /\ [Next]_vars => IInv'
BY NextLockInv, NextCallInv, NextStoreInv, NextSpoiled, NextAckedIsWritten
DEF IInv, HarmInv

\* Every behaviour of the code keeps the whole inductive invariant.
THEOREM Invariance == Spec => []IInv
BY InitIInv, NextIInv, PTL DEF Spec

\* Whatever fails, tears, crashes or times out, the state stays well formed.
THEOREM TypeCorrect == Spec => []TypeOK
<1>1. IInv => TypeOK
  BY DEF IInv, CallInv
<1>. QED  BY <1>1, Invariance, PTL

\* However many compactions failed or were cut short before it, an append that is
\* about to return leaves the history within its limit.
THEOREM RetentionIsRestored == Spec => []AppendRestoresRetention
<1>1. IInv => AppendRestoresRetention
  BY DEF IInv, StoreInv, CompactedIsBounded, AppendRestoresRetention
<1>. QED  BY <1>1, Invariance, PTL

\* Once the limit has been reached, an append that is about to return leaves every
\* snapshot of the history in the backup too.
THEOREM BackupIsCurrent == Spec => []BackupCoversHistory
<1>1. IInv => BackupCoversHistory
  <2>1. SUFFICES ASSUME IInv, NEW w \in Writer, pc[w] = "release", ~failing[w],
                        horizon = 1, file.bad = 0, Len(written) > MaxRecords
                 PROVE  Range(file.recs) \subseteq Range(backup.recs)
    BY DEF BackupCoversHistory
  <2>2. Glued(file) = file.recs /\ Len(file.recs) <= MaxRecords
    BY <2>1 DEF IInv, StoreInv, FileInOrder, LineIsThere, CompactedIsBounded, Glued
  <2>. QED  BY <2>1, <2>2 DEF IInv, StoreInv, BackupKeepsUp
<1>. QED  BY <1>1, Invariance, PTL

\* What load() returns is the history, as soon as it has a snapshot.
LEMMA HistoryIsServed == \A n \in Range(file.recs) : n \in Range(Served)
<1>1. CASE file.recs # <<>>
  BY <1>1 DEF Served
<1>2. CASE file.recs = <<>>
  <2>1. DOMAIN <<>> = {}
    BY EmptySeq, LenProperties
  <2>. QED  BY <1>2, <2>1 DEF Range
<1>. QED  BY <1>1, <1>2

\* Behind the invariant, at most one acknowledged snapshot is lost for each harm.
LEMMA FewAreLost == IInv => AckedIsServed
<1>1. SUFFICES ASSUME IInv PROVE Cardinality(Lost) <= harmed
  BY DEF AckedIsServed
<1>2. /\ file \in FileOf(Snapshot) /\ spoiled \in SUBSET Snapshot /\ harmed \in Nat
      /\ MaxAppends \in Nat
  BY <1>1, HistoryAssumption DEF IInv, CallInv, TypeOK, HistoryAssumption
<1>3. Lost \subseteq spoiled
  <2>1. SUFFICES ASSUME NEW n \in acked, n \notin Range(Served), ~Retired(n)
                 PROVE  n \in spoiled
    BY DEF Lost, Retired
  <2>2. n \notin Range(Glued(file))
    BY <1>2, <2>1, GluedElements, HistoryIsServed
  <2>. QED
    BY <1>1, <2>1, <2>2 DEF IInv, HarmInv, AckedIsWritten, StoreInv, WrittenIsKept
<1>4. Cardinality(Lost) <= Cardinality(spoiled) /\ Cardinality(Lost) \in Nat
  <2>1. spoiled \subseteq 1..MaxAppends /\ Lost \subseteq 1..MaxAppends
    BY <1>2, <1>3 DEF Snapshot
  <2>2. IsFiniteSet(spoiled) /\ Cardinality(Lost) \in Nat
    BY <1>2, <2>1, PlacesFinite
  <2>. QED  BY <1>3, <2>2, FS_Subset
<1>5. Cardinality(spoiled) \in Nat
  BY <1>2, SpoiledGrows
<1>6. Cardinality(spoiled) + 0 <= harmed \/ Cardinality(spoiled) + 1 <= harmed
  BY <1>1 DEF IInv, HarmInv, SpoiledIsCounted
<1>. QED  BY <1>2, <1>4, <1>5, <1>6

\* However many writes are torn and lines damaged, and whatever else fails or crashes,
\* no more acknowledged snapshots than that are missing although retention keeps them.
THEOREM AckedStaysServed == Spec => []AckedIsServed
BY FewAreLost, Invariance, PTL

\* Behind the invariant, damage shows.
LEMMA DamageIsSeen == IInv => DamageIsReported
<1>1. SUFFICES ASSUME IInv, Status = "ok", NEW n \in acked,
                      n \notin Range(file.recs), ~Retired(n)
               PROVE  n \in dropped
  BY DEF DamageIsReported, Retired
<1>2. file \in FileOf(Snapshot) /\ file.bad \in Nat
  BY <1>1 DEF IInv, CallInv, TypeOK, FileOf
<1>3. n \in spoiled
  <2>1. n \notin Range(Glued(file))
    BY <1>1, <1>2, GluedElements
  <2>. QED
    BY <1>1, <2>1 DEF IInv, HarmInv, AckedIsWritten, StoreInv, WrittenIsKept
<1>4. ~(file.bad > 0)
  <2>1. ~(Malformed > 0)
    BY <1>1 DEF Status
  <2>. QED  BY <1>2, <2>1 DEF Malformed
<1>. QED  BY <1>1, <1>3, <1>4 DEF IInv, HarmInv, SpoiledShows

\* An acknowledged snapshot is missing from the history without retention, while the
\* diagnostics say "ok", only after a compaction behind the damage.
THEOREM DamageShows == Spec => []DamageIsReported
BY DamageIsSeen, Invariance, PTL

\* A step writes no other snapshot than one that a writer appends.
LEMMA StepWrites ==
    ASSUME LockInv, CallInv, [Next]_vars
    PROVE  written' = written \/ \E r \in Snapshot : written' = Append(written, r)
<1>1. TypeOK /\ RecordsAreNew
  BY DEF CallInv
<1>2. ASSUME NEW w \in Writer, WriteLine(w)
      PROVE  written' = written \/ \E r \in Snapshot : written' = Append(written, r)
  <2>1. record[w] \in Snapshot /\ written' \in {written, Append(written, record[w])}
    BY <1>1, <1>2 DEF WriteLine, RecordsAreNew
  <2>. QED  BY <2>1
<1>3. ASSUME NEW w \in Writer,
             \/ WriteTorn(w) \/ LoadSnapshots(w) \/ OpenBackup(w) \/ FillBackup(w)
             \/ OpenTemp(w) \/ FillTemp(w) \/ Replace(w)
      PROVE  written' = written
  BY <1>3 DEF WriteTorn, LoadSnapshots, OpenBackup, FillBackup, OpenTemp, FillTemp, Replace,
     ghostVars
<1>4. Quiet \/ Age \/ Corrupt => written' = written
  BY DEF Quiet, Age, Corrupt, ghostVars
<1>. QED  BY <1>1, <1>2, <1>3, <1>4, QuietSteps DEF Loud

\* No single step, whoever takes it and whatever fails or tears in it, takes a snapshot
\* that has its newline from the readers, unless retention by number or by age may or
\* the step damages its line.
THEOREM NoStepLoses == Spec => ServedUntilRetired
<1>1. ASSUME IInv, IInv', [Next]_vars, NEW n \in Range(Served) \ Unterminated
      PROVE  n \in Range(Served') \/ Superseded(n)' \/ n < horizon' \/ n \in spoiled'
  <2>1. /\ TypeOK /\ RecordsAreNew /\ written \in Seq(Snapshot)
        /\ file \in FileOf(Snapshot) /\ file' \in FileOf(Snapshot)
    BY <1>1 DEF IInv, CallInv, TypeOK
  <2>2. n \in Range(written)
    <3>1. CASE file.recs = <<>>
      BY <1>1, <3>1 DEF Served, IInv, StoreInv, FileInOrder
    <3>2. CASE file.recs # <<>>
      <4>1. n \in Range(file.recs) /\ (file.tail = "open" => n # file.recs[Len(file.recs)])
        BY <1>1, <3>2 DEF Served, Unterminated
      <4>2. n \in Range(Glued(file))
        BY <2>1, <4>1, GluedElements
      <4>. QED  BY <1>1, <4>2 DEF IInv, StoreInv, FileInOrder
    <3>. QED  BY <3>1, <3>2
  <2>3. n \in Range(written') /\ n \in Snapshot
    <3>1. n \in Snapshot
      BY <2>1, <2>2, RangeType
    <3>2. written' = written \/ \E r \in Snapshot : written' = Append(written, r)
      BY <1>1, StepWrites DEF IInv
    <3>3. \A r \in Snapshot : Range(Append(written, r)) = Range(written) \cup {r}
      BY <2>1, RangeAppend
    <3>. QED  BY <2>2, <3>1, <3>2, <3>3
  <2>4. n \in Range(Glued(file')) \/ Retired(n)' \/ n \in spoiled'
    BY <1>1, <2>3 DEF IInv, StoreInv, WrittenIsKept
  <2>5. n \in Range(Glued(file')) => n \in Range(Served')
    <3>1. Range(Glued(file')) \subseteq Range(file'.recs)
      BY <2>1, GluedElements
    <3>2. Range(<<>>) = {}
      <4>1. DOMAIN <<>> = {}
        BY EmptySeq, LenProperties
      <4>. QED  BY <4>1 DEF Range
    <3>3. n \in Range(file'.recs) => n \in Range(Served')
      BY <3>2 DEF Served
    <3>. QED  BY <3>1, <3>3
  <2>6. Retired(n)' => Superseded(n)' \/ n < horizon'
    <3>1. horizon' \in Int /\ n \in Int
      BY <1>1, <2>3, HistoryAssumption DEF IInv, CallInv, TypeOK, HistoryAssumption, Snapshot
    <3>. QED  BY <3>1 DEF Retired, WithinAgeLimit
  <2>. QED  BY <2>4, <2>5, <2>6
<1>2. IInv /\ IInv' /\ [Next]_vars =>
         [\A n \in Range(Served) \ Unterminated :
             \/ n \in Range(Served')
             \/ Superseded(n)'
             \/ n < horizon'
             \/ n \in spoiled']_vars
  BY <1>1
<1>. QED  BY <1>2, Invariance, PTL DEF Spec, ServedUntilRetired
-----------------------------------------------------------------------------
\* The readers that have a recovery to audit.
Reporting == {r \in Reader : rpc[r] = "report"}

\* Until a recovery has been reported none is in the journal, and afterwards only those
\* threads can add one that had it to audit already.
RecoveryInv ==
    /\ ~reported => recoveries = 0
    /\ recoveries + Cardinality(Reporting) <= Cardinality(Reader)

\* At first nobody has a recovery to audit.
LEMMA InitRecoveryInv == Init => RecoveryInv
<1>1. SUFFICES ASSUME Init PROVE RecoveryInv
  OBVIOUS
<1>2. Reporting = {}
  BY <1>1 DEF Init, Reporting
<1>3. Cardinality(Reporting) = 0 /\ Cardinality(Reader) \in Nat
  BY <1>2, FS_EmptySet, FS_CardinalityType, HistoryAssumption DEF HistoryAssumption
<1>. QED  BY <1>1, <1>3 DEF Init, RecoveryInv

\* A set of readers is finite, and no bigger than all of them.
LEMMA ReadersFinite ==
    ASSUME NEW S \in SUBSET Reader
    PROVE  /\ IsFiniteSet(S) /\ Cardinality(S) \in Nat /\ Cardinality(Reader) \in Nat
           /\ Cardinality(S) <= Cardinality(Reader)
<1>1. IsFiniteSet(Reader)
  BY HistoryAssumption DEF HistoryAssumption
<1>. QED  BY <1>1, FS_Subset, FS_CardinalityType

\* Every step of every process, damage included, keeps the number of recoveries.
LEMMA NextRecoveryInv == CallInv /\ RecoveryInv /\ [Next]_vars => RecoveryInv'
<1>1. SUFFICES ASSUME CallInv, RecoveryInv, [Next]_vars PROVE RecoveryInv'
  OBVIOUS
<1>2. /\ rpc \in [Reader -> {"idle", "backup", "report"}] /\ recoveries \in Nat
      /\ Reporting \in SUBSET Reader /\ Reporting' \in SUBSET Reader
  BY <1>1 DEF CallInv, TypeOK, Reporting
<1>3. /\ Cardinality(Reporting) \in Nat /\ IsFiniteSet(Reporting)
      /\ Cardinality(Reader) \in Nat
      /\ Cardinality(Reporting') \in Nat /\ Cardinality(Reporting') <= Cardinality(Reader)
  BY <1>2, ReadersFinite
<1>4. ASSUME UNCHANGED readVars PROVE RecoveryInv'
  BY <1>1, <1>4 DEF readVars, RecoveryInv, Reporting
<1>5. ASSUME NEW r \in Reader, LoadPrimary(r) PROVE RecoveryInv'
  <2>1. Reporting' = Reporting /\ UNCHANGED <<reported, recoveries>>
    BY <1>2, <1>5 DEF LoadPrimary, Reporting
  <2>. QED  BY <1>1, <2>1 DEF RecoveryInv
<1>6. ASSUME NEW r \in Reader, LoadBackup(r) PROVE RecoveryInv'
  <2>1. UNCHANGED <<reported, recoveries>>
    BY <1>6 DEF LoadBackup
  <2>2. CASE reported
    <3>1. Reporting' = Reporting
      BY <1>2, <1>6, <2>2 DEF LoadBackup, Reporting
    <3>. QED  BY <1>1, <2>1, <3>1 DEF RecoveryInv
  <2>3. CASE ~reported
    <3>1. recoveries' = 0 /\ ~reported'
      BY <1>1, <2>1, <2>3 DEF RecoveryInv
    <3>2. 0 + Cardinality(Reporting') <= Cardinality(Reader)
      BY <1>3
    <3>. QED  BY <3>1, <3>2 DEF RecoveryInv
  <2>. QED  BY <2>2, <2>3
<1>7. ASSUME NEW r \in Reader, AuditRecovery(r) PROVE RecoveryInv'
  <2>1. /\ r \in Reporting /\ Reporting' = Reporting \ {r} /\ reported' = TRUE
        /\ recoveries' \in {recoveries, recoveries + 1}
    BY <1>2, <1>7, Zenon DEF AuditRecovery, Reporting, Reported
  <2>2. Cardinality(Reporting') = Cardinality(Reporting) - 1
    BY <1>3, <2>1, FS_RemoveElement
  <2>3. recoveries' + Cardinality(Reporting') <= Cardinality(Reader)
    BY <1>1, <1>2, <1>3, <2>1, <2>2 DEF RecoveryInv
  <2>. QED  BY <2>1, <2>3 DEF RecoveryInv
<1>8. \/ UNCHANGED readVars
      \/ \E r \in Reader : LoadPrimary(r) \/ LoadBackup(r) \/ AuditRecovery(r)
  BY <1>1 DEF Next, Wait, Work, Store, Call, TakeLock, TimeOut, WriteLine, WriteTorn,
     LoadSnapshots, OpenBackup, FillBackup, OpenTemp, FillTemp, Replace, AuditCompaction,
     RemoveTemp, Release, AuditAppend, Fail, Crash, ClearStaleLock, Age, Corrupt, vars,
     readVars
<1>. QED  BY <1>4, <1>5, <1>6, <1>7, <1>8

\* However many threads load the history, and however often it is damaged, written and
\* loaded again, each of them audits at most one recovery.
THEOREM RecoveriesAreBounded == Spec => []RecoveryReportedOncePerThread
<1>1. Init => RecoveryInv
  BY InitRecoveryInv
<1>2. IInv /\ RecoveryInv /\ [Next]_vars => RecoveryInv'
  BY NextRecoveryInv DEF IInv
<1>3. IInv /\ RecoveryInv => RecoveryReportedOncePerThread
  <2>1. SUFFICES ASSUME IInv, RecoveryInv PROVE recoveries <= Cardinality(Reader)
    BY DEF RecoveryReportedOncePerThread
  <2>2. /\ recoveries \in Nat /\ Reporting \in SUBSET Reader
        /\ Cardinality(Reporting) \in Nat /\ Cardinality(Reader) \in Nat
    BY <2>1, ReadersFinite DEF IInv, CallInv, TypeOK, Reporting
  <2>. QED  BY <2>1, <2>2 DEF RecoveryInv
<1>. QED  BY <1>1, <1>2, <1>3, Invariance, PTL DEF Spec
=============================================================================
