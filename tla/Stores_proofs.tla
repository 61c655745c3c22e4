---------------------------- MODULE Stores_proofs ----------------------------
(***************************************************************************)
(* Stores, proved for any number of writers, every limit, every timeout    *)
(* and any number of faults: how long a call can wait at the two locks,    *)
(* and that each store does here what it was proved to do by itself.       *)
(***************************************************************************)
EXTENDS Stores, TLAPS

\* What is proved about the history by itself.
HP == INSTANCE PaperHistory_proofs WITH Fault <- {"io", "torn", "crash", "damage"}

\* What is proved about the audit journal by itself.
JP == INSTANCE AuditJournal_proofs
    WITH Writer <- Process, MaxRecords <- AuditRecords, MaxAppends <- AuditCalls,
         Fault <- {"io", "torn", "crash"},
         lock <- auditLock, file <- auditFile, temp <- auditTemp, pc <- auditPc,
         event <- auditEvent, retained <- auditRetained, failing <- auditFailing,
         calls <- auditCalls, written <- auditWritten, acked <- auditAcked

\* The constants are what the history assumes.
LEMMA HistoryConstants == HP!HistoryAssumption
<1>1. IsFiniteSet(Reader) => HP!IsFiniteSet(Reader)
  BY Zenon DEF IsFiniteSet, HP!IsFiniteSet
<1>. QED
  BY <1>1, StoresAssumption DEF StoresAssumption, Process, HP!HistoryAssumption

-----------------------------------------------------------------------------
\* The steps of the history in this module are those that were proved about.
LEMMA HistorySteps ==
    ASSUME NEW w \in Writer
    PROVE  /\ History!Call(w) => HP!Call(w)
           /\ History!TakeLock(w) => HP!Wait(w)
           /\ History!TimeOut(w) => HP!Wait(w)
           /\ History!Store(w) => HP!Work(w)
           /\ History!AuditCompaction(w) => HP!Work(w)
           /\ History!AuditAppend(w) => HP!Work(w)
           /\ History!WriteTorn(w) => HP!WriteTorn(w)
           /\ History!Fail(w) => HP!Fail(w)
           /\ History!Crash(w) => HP!Crash(w)
<1>. USE DEF History!Goto, HP!Goto, History!storeVars, HP!storeVars,
     History!callVars, HP!callVars, History!ghostVars, HP!ghostVars,
     History!readVars, HP!readVars, History!Leave, HP!Leave
<1>1. History!Call(w) => HP!Call(w)
  BY DEF History!Call, HP!Call, History!Stamped, HP!Stamped
<1>2. History!TakeLock(w) => HP!TakeLock(w)
  BY DEF History!TakeLock, HP!TakeLock, History!Free, HP!Free
<1>3. History!TimeOut(w) => HP!TimeOut(w)
  BY DEF History!TimeOut, HP!TimeOut, History!Free, HP!Free
<1>4. History!WriteLine(w) => HP!WriteLine(w)
  BY DEF History!WriteLine, HP!WriteLine, History!AddLine, HP!AddLine,
     History!Glued, HP!Glued
<1>5. History!LoadSnapshots(w) => HP!LoadSnapshots(w)
  <2>1. \A s, T : History!Select(s, T) = HP!Select(s, T)
    BY Zenon DEF History!Select, HP!Select, History!Places, HP!Places,
       History!Cardinality, HP!Cardinality
  <2>2. History!Young = HP!Young
    BY DEF History!Young, HP!Young, History!Snapshot, HP!Snapshot,
       History!WithinAgeLimit, HP!WithinAgeLimit
  <2>3. History!Retained(file.recs) = HP!Retained(file.recs)
    BY <2>1, <2>2 DEF History!Retained, HP!Retained, History!Newest, HP!Newest
  <2>. QED  BY <2>3 DEF History!LoadSnapshots, HP!LoadSnapshots
<1>6. History!OpenBackup(w) => HP!OpenBackup(w)
  BY DEF History!OpenBackup, HP!OpenBackup, History!CleanFile, HP!CleanFile
<1>7. History!FillBackup(w) => HP!FillBackup(w)
  BY DEF History!FillBackup, HP!FillBackup, History!Copy, HP!Copy
<1>8. History!OpenTemp(w) => HP!OpenTemp(w)
  BY DEF History!OpenTemp, HP!OpenTemp, History!TempWith, HP!TempWith
<1>9. History!FillTemp(w) => HP!FillTemp(w)
  BY DEF History!FillTemp, HP!FillTemp, History!TempWith, HP!TempWith,
     History!Lines, HP!Lines
<1>10. History!Replace(w) => HP!Replace(w)
  BY DEF History!Replace, HP!Replace, History!CleanFile, HP!CleanFile,
     History!NoTemp, HP!NoTemp
<1>11. History!AuditCompaction(w) => HP!AuditCompaction(w)
  BY DEF History!AuditCompaction, HP!AuditCompaction
<1>12. History!RemoveTemp(w) => HP!RemoveTemp(w)
  BY DEF History!RemoveTemp, HP!RemoveTemp, History!NoTemp, HP!NoTemp
<1>13. History!Release(w) => HP!Release(w)
  BY DEF History!Release, HP!Release
<1>14. History!AuditAppend(w) => HP!AuditAppend(w)
  BY DEF History!AuditAppend, HP!AuditAppend
<1>15. History!Fail(w) => HP!Fail(w)
  BY DEF History!Fail, HP!Fail, History!Compacting, HP!Compacting
<1>16. History!Crash(w) => HP!Crash(w)
  BY DEF History!Crash, HP!Crash
<1>17. History!WriteTorn(w) => HP!WriteTorn(w)
  BY DEF History!WriteTorn, HP!WriteTorn, History!AddCut, HP!AddCut,
     History!AddOpen, HP!AddOpen, History!Glued, HP!Glued
<1>18. History!Store(w) => HP!Store(w)
  BY <1>4, <1>5, <1>6, <1>7, <1>8, <1>9, <1>10, <1>12, <1>13 DEF History!Store, HP!Store
<1>. QED
  BY <1>1, <1>2, <1>3, <1>11, <1>14, <1>15, <1>16, <1>17, <1>18 DEF HP!Wait, HP!Work

\* And so are the steps of its readers.
LEMMA ReaderSteps ==
    ASSUME NEW r \in Reader
    PROVE  /\ History!LoadPrimary(r) => HP!LoadPrimary(r)
           /\ History!LoadBackup(r) => HP!LoadBackup(r)
           /\ History!AuditRecovery(r) => HP!AuditRecovery(r)
<1>. USE DEF History!storeVars, HP!storeVars, History!callVars, HP!callVars,
     History!ghostVars, HP!ghostVars
<1>1. History!LoadPrimary(r) => HP!LoadPrimary(r)
  BY DEF History!LoadPrimary, HP!LoadPrimary, History!Exists, HP!Exists,
     History!CleanFile, HP!CleanFile
<1>2. History!LoadBackup(r) => HP!LoadBackup(r)
  BY DEF History!LoadBackup, HP!LoadBackup
<1>3. History!AuditRecovery(r) => HP!AuditRecovery(r)
  BY DEF History!AuditRecovery, HP!AuditRecovery, History!Reported, HP!Reported
<1>. QED  BY <1>1, <1>2, <1>3

\* And the damage.
LEMMA DamageSteps == History!Corrupt => HP!Corrupt
<1>1. \A S : History!Cardinality(S) = HP!Cardinality(S)
  BY Zenon DEF History!Cardinality, HP!Cardinality
<1>2. History!Range(History!Glued(file)) = HP!Range(HP!Glued(file))
  BY Zenon DEF History!Range, HP!Range, History!Glued, HP!Glued
<1>3. \A s, T : History!Select(s, T) = HP!Select(s, T)
  BY Zenon DEF History!Select, HP!Select, History!Places, HP!Places,
     History!Cardinality, HP!Cardinality
<1>4. History!Snapshot = HP!Snapshot
  BY DEF History!Snapshot, HP!Snapshot
<1>5. \A T, n : History!Damaged(file, T, n) = HP!Damaged(file, T, n)
  BY Zenon, <1>3 DEF History!Damaged, HP!Damaged, History!Glued, HP!Glued
<1>6. SUFFICES ASSUME History!Corrupt PROVE HP!Corrupt
  OBVIOUS
<1>7. PICK D \in (SUBSET History!Range(History!Glued(file))) \ {{}} :
         /\ file' = History!Damaged(file, History!Snapshot \ D, History!Cardinality(D))
         /\ spoiled' = spoiled \cup D
         /\ harmed + History!Cardinality(D) <= MaxHarm
         /\ harmed' = harmed + History!Cardinality(D)
  BY Zenon, <1>6 DEF History!Corrupt
<1>8. D \in (SUBSET HP!Range(HP!Glued(file))) \ {{}}
  BY Zenon, <1>2, <1>7
<1>9. file' = HP!Damaged(file, HP!Snapshot \ D, HP!Cardinality(D))
  BY Zenon, <1>1, <1>4, <1>5, <1>7
<1>10. harmed + HP!Cardinality(D) <= MaxHarm /\ harmed' = harmed + HP!Cardinality(D)
  BY Zenon, <1>1, <1>7
<1>11. /\ lock = NoWriter /\ "damage" \in {"io", "torn", "crash", "damage"}
       /\ UNCHANGED <<lock, backup, temp, horizon, pc, HP!callVars, written, acked, dropped,
                      HP!readVars>>
  BY <1>6 DEF History!Corrupt, History!callVars, HP!callVars, History!readVars, HP!readVars
<1>. QED  BY Zenon, <1>7, <1>8, <1>9, <1>10, <1>11 DEF HP!Corrupt

\* Whatever the stores do is a step of the history or leaves it alone.
LEMMA HistoryMoves == [Next]_vars => [HP!Next]_(HP!vars)
<1>1. SUFFICES ASSUME [Next]_vars PROVE [HP!Next]_(HP!vars)
  OBVIOUS
<1>2. UNCHANGED historyVars => UNCHANGED HP!vars
  BY DEF historyVars, writeVars, readVars, HP!vars, HP!storeVars, HP!callVars, HP!ghostVars,
     HP!readVars
<1>3. ASSUME NEW w \in Writer, CallAppend(w) PROVE HP!Next
  BY <1>3, HistorySteps DEF CallAppend, HP!Next
<1>4. ASSUME NEW w \in Writer, HistoryStep(w) PROVE HP!Next
  BY <1>4, HistorySteps DEF HistoryStep, HP!Next
<1>5. ASSUME NEW w \in Writer, EndAppendAudit(w) PROVE HP!Next
  BY <1>5, HistorySteps DEF EndAppendAudit, HP!Next
<1>6. ASSUME NEW w \in Writer, HistoryFail(w) PROVE HP!Next
  BY <1>6, HistorySteps DEF HistoryFail, HP!Next
<1>7. ASSUME NEW w \in Writer, Kill(w) PROVE HP!Next
  BY <1>7, HistorySteps DEF Kill, HP!Next
<1>8. ASSUME NEW r \in Reader, LoadStep(r) \/ EndRecoveryAudit(r) PROVE HP!Next
  BY <1>8, ReaderSteps DEF LoadStep, EndRecoveryAudit, HP!Next
<1>9. ASSUME NEW p \in Process, JournalStep(p) \/ StartAudit(p) \/ JournalFail(p)
      PROVE  UNCHANGED historyVars
  BY <1>9 DEF JournalStep, StartAudit, JournalFail
<1>10. ASSUME Corrupt PROVE HP!Next
  BY <1>10, DamageSteps DEF Corrupt, HP!Next
<1>11. ASSUME Tick \/ UNCHANGED vars PROVE UNCHANGED historyVars
  BY <1>11 DEF Tick, vars
<1>. QED
  BY <1>1, <1>2, <1>3, <1>4, <1>5, <1>6, <1>7, <1>8, <1>9, <1>10, <1>11 DEF Next

\* At first the history is as its own specification has it.
LEMMA InitHistory == Init => HP!Init
BY DEF Init, History!Init, HP!Init, History!CleanFile, HP!CleanFile,
   History!NoTemp, HP!NoTemp

\* The history that is audited behind its own lock, with deadlines that only time decides,
\* does nothing that the specification of PaperHistory does not allow: what is proved of
\* the history by itself holds in the service.
THEOREM HistoriesAreHistorySteps == Spec => HP!Init /\ [][HP!Next]_(HP!vars)
BY InitHistory, HistoryMoves, PTL DEF Spec


\* What the history promises of acknowledged snapshots.
HistoryPromises == History!AckedIsServed /\ History!DamageIsReported

\* Under the waits, failures and kills of both stores too, at most one acknowledged
\* snapshot is missing for each torn write and each damaged line of the history, and
\* it is not missing unnoticed unless a compaction came behind the damage.
THEOREM HistoryKeepsPromises == Spec => []HistoryPromises
<1>1. Init => HP!IInv
  BY InitHistory, HistoryConstants, HP!InitIInv
<1>2. HP!IInv /\ [Next]_vars => HP!IInv'
  BY HistoryMoves, HistoryConstants, HP!NextIInv
<1>3. HP!AckedIsServed => History!AckedIsServed
  BY Zenon
  DEF HP!AckedIsServed, History!AckedIsServed, HP!Lost, History!Lost, HP!Served,
      History!Served, HP!Range, History!Range, HP!Cardinality, History!Cardinality,
      HP!Superseded, History!Superseded, HP!WithinAgeLimit, History!WithinAgeLimit
<1>4. HP!DamageIsReported => History!DamageIsReported
  BY Zenon
  DEF HP!DamageIsReported, History!DamageIsReported, HP!Status, History!Status,
      HP!Malformed, History!Malformed, HP!Range, History!Range,
      HP!Superseded, History!Superseded, HP!WithinAgeLimit, History!WithinAgeLimit
<1>5. HP!IInv => HP!AckedIsServed /\ HP!DamageIsReported
  BY HistoryConstants, HP!FewAreLost, HP!DamageIsSeen
<1>. QED  BY <1>1, <1>2, <1>3, <1>4, <1>5, PTL DEF Spec, HistoryPromises

-----------------------------------------------------------------------------
\* The invariant that links a process's stand in its call to its stand in the audit:
\* it is inside the journal only from the lines of its call that audit.
LinkInv ==
    /\ pc \in [Writer -> History!PC] /\ auditPc \in [Process -> Journal!PC]
    /\ rpc \in [Reader -> {"idle", "backup", "report"}]
    /\ timer \in [Process -> Nat] /\ waited \in [Writer -> Nat]
    /\ \A p \in Process : /\ auditPc[p] # "idle" => p \in auditing
                          /\ p \in auditing => AtAudit(p)

\* At first nobody is inside a call.
LEMMA InitLinkInv == Init => LinkInv
BY StoresAssumption
DEF Init, LinkInv, History!Init, Journal!Init, History!PC, Journal!PC, Process

\* The steps of the journal leave its first line for another one.
LEMMA JournalMoves ==
    ASSUME auditPc \in [Process -> Journal!PC], NEW p \in Process,
           \/ Journal!TakeLock(p) \/ Journal!TimeOut(p) \/ Journal!Work(p)
           \/ Journal!Fail(p) \/ Journal!WriteTorn(p)
    PROVE  /\ auditPc[p] # "idle"
           /\ \E l \in Journal!PC \ {"acquire"} : auditPc' = [auditPc EXCEPT ![p] = l]
<1>. USE DEF Journal!Goto, Journal!PC
<1>1. CASE Journal!TakeLock(p) \/ Journal!TimeOut(p)
  BY <1>1 DEF Journal!TakeLock, Journal!TimeOut
<1>2. CASE Journal!Work(p)
  <2>1. CASE Journal!LoadEvents(p)
    BY <2>1 DEF Journal!LoadEvents
  <2>2. CASE ~Journal!LoadEvents(p)
    BY <1>2, <2>2 DEF Journal!Work, Journal!WriteLine, Journal!OpenTemp, Journal!FillTemp,
       Journal!Replace, Journal!RemoveTemp, Journal!Release
  <2>. QED  BY <2>1, <2>2
<1>3. CASE Journal!Fail(p) \/ Journal!WriteTorn(p)
  BY <1>3 DEF Journal!Fail, Journal!WriteTorn
<1>. QED  BY <1>1, <1>2, <1>3

\* The lines of append() between the lock and the replacement of the history.
Early == {"locked", "appended", "copy", "copying", "compact", "fill", "replace"}

\* Where the steps of the history lead to.
LEMMA StoreMoves ==
    ASSUME pc \in [Writer -> History!PC], NEW w \in Writer, History!Store(w)
    PROVE  \/ /\ pc[w] \in Early
              /\ \E l \in Early \cup {"release", "replaced"} : pc' = [pc EXCEPT ![w] = l]
           \/ pc[w] = "cleanup" /\ pc' = [pc EXCEPT ![w] = "release"]
           \/ /\ pc[w] = "release"
              /\ \E l \in {"idle", "audit"} : pc' = [pc EXCEPT ![w] = l]
<1>. USE DEF History!Goto, Early
<1>1. CASE History!LoadSnapshots(w)
  BY <1>1 DEF History!LoadSnapshots
<1>2. CASE History!Release(w)
  BY <1>2 DEF History!Release, History!Leave
<1>3. CASE ~History!LoadSnapshots(w) /\ ~History!Release(w)
  BY <1>3 DEF History!Store, History!WriteLine, History!OpenBackup, History!FillBackup,
     History!OpenTemp, History!FillTemp, History!Replace, History!RemoveTemp
<1>. QED  BY <1>1, <1>2, <1>3

\* Where the failures of the history lead to.
LEMMA FailMoves ==
    ASSUME pc \in [Writer -> History!PC], NEW w \in Writer,
           History!Fail(w) \/ History!WriteTorn(w)
    PROVE  \/ pc[w] = "acquire" /\ pc' = [pc EXCEPT ![w] = "idle"]
           \/ /\ pc[w] \in Early
              /\ \E l \in {"release", "cleanup"} : pc' = [pc EXCEPT ![w] = l]
BY DEF History!Fail, History!WriteTorn, History!Leave, History!Goto, History!Compacting, Early

-----------------------------------------------------------------------------
\* What a process p does in a step that is not a tick and that p takes part in: the
\* other processes stay where they are.
Apart(p) ==
    /\ \A w \in Writer \ {p} : pc'[w] = pc[w] /\ waited'[w] = waited[w]
    /\ \A r \in Reader \ {p} : rpc'[r] = rpc[r]
    /\ \A q \in Process \ {p} : auditPc'[q] = auditPc[q] /\ (q \in auditing' <=> q \in auditing)
    /\ timer' = timer \/ Deadlines

\* The steps of one process: it comes to the history lock, goes on in append() or in
\* load(), begins an audit, goes on in it, ends it, or is killed.
Comes(w) ==
    /\ w \in Writer /\ pc[w] = "idle" /\ pc'[w] = "acquire" /\ waited'[w] = 0
    /\ auditPc'[w] = auditPc[w] /\ (w \in auditing' <=> w \in auditing) /\ Deadlines
Goes(w) ==
    /\ w \in Writer /\ w \notin auditing /\ w \notin auditing'
    /\ auditPc'[w] = auditPc[w] /\ waited'[w] = waited[w]
    /\ \/ pc[w] = "acquire" /\ pc'[w] \in {"locked", "idle"}
       \/ pc[w] \in Early /\ pc'[w] \in Early \cup {"release", "replaced", "cleanup"}
       \/ pc[w] = "cleanup" /\ pc'[w] = "release"
       \/ pc[w] = "release" /\ pc'[w] \in {"idle", "audit"}
Loads(r) ==
    /\ r \in Reader /\ r \notin auditing
    /\ auditPc'[r] = auditPc[r] /\ r \notin auditing'
    /\ \/ rpc[r] = "idle" /\ rpc'[r] = "backup"
       \/ rpc[r] = "backup" /\ rpc'[r] \in {"idle", "report"}
Begins(p) ==
    /\ p \in Process /\ AtAudit(p) /\ p \notin auditing /\ p \in auditing'
    /\ auditPc[p] = "idle" /\ auditPc'[p] = "acquire" /\ Deadlines
    /\ p \in Writer => pc'[p] = pc[p] /\ waited'[p] = waited[p]
    /\ p \in Reader => rpc'[p] = rpc[p]
GoesInAudit(p) ==
    /\ p \in Process /\ auditPc[p] # "idle" /\ auditPc'[p] \in Journal!PC \ {"acquire"}
    /\ p \in auditing' <=> p \in auditing
    /\ p \in Writer => pc'[p] = pc[p] /\ waited'[p] = waited[p]
    /\ p \in Reader => rpc'[p] = rpc[p]
Ends(p) ==
    /\ p \in Process /\ p \in auditing /\ p \notin auditing'
    /\ auditPc[p] = "idle" /\ auditPc'[p] = "idle"
    /\ p \in Writer => /\ waited'[p] = waited[p]
                       /\ \/ pc[p] = "replaced" /\ pc'[p] = "cleanup"
                          \/ pc[p] = "audit" /\ pc'[p] = "idle"
    /\ p \in Reader => rpc'[p] = "idle"
Dies(w) ==
    /\ w \in Writer /\ pc'[w] = "idle" /\ auditPc'[w] = "idle" /\ w \notin auditing'
    /\ waited'[w] = waited[w]

\* Where the processes stand keeps its type.
Typed ==
    /\ pc' \in [Writer -> History!PC] /\ auditPc' \in [Process -> Journal!PC]
    /\ rpc' \in [Reader -> {"idle", "backup", "report"}] /\ waited' \in [Writer -> Nat]

\* Every step but a tick is one of these.
LEMMA Moves ==
    ASSUME LinkInv, [Next]_vars, ~Tick
    PROVE  /\ Typed
           /\ \/ UNCHANGED <<pc, auditPc, rpc, auditing, timer, waited>>
              \/ \E p \in Process :
                  /\ Apart(p)
                  /\ \/ Comes(p) \/ Goes(p) \/ Loads(p) \/ Begins(p)
                     \/ GoesInAudit(p) \/ Ends(p) \/ Dies(p)
<1>. USE DEF historyVars, writeVars, readVars, journalVars, linkVars, boundVars
<1>. DEFINE Goal ==
        /\ Typed
        /\ \/ UNCHANGED <<pc, auditPc, rpc, auditing, timer, waited>>
           \/ \E p \in Process :
               /\ Apart(p)
               /\ \/ Comes(p) \/ Goes(p) \/ Loads(p) \/ Begins(p)
                  \/ GoesInAudit(p) \/ Ends(p) \/ Dies(p)
<1>1. /\ pc \in [Writer -> History!PC] /\ auditPc \in [Process -> Journal!PC]
      /\ rpc \in [Reader -> {"idle", "backup", "report"}]
      /\ timer \in [Process -> Nat] /\ waited \in [Writer -> Nat]
      /\ \A p \in Process : /\ auditPc[p] # "idle" => p \in auditing
                            /\ p \in auditing => AtAudit(p)
  BY DEF LinkInv
<1>2. Writer \cap Reader = {} /\ Writer \subseteq Process /\ Reader \subseteq Process
  BY StoresAssumption DEF StoresAssumption, Process
<1>3. ASSUME NEW w \in Writer, CallAppend(w) PROVE Goal
  <2>1. /\ pc[w] = "idle" /\ pc' = [pc EXCEPT ![w] = "acquire"]
        /\ waited' = [waited EXCEPT ![w] = 0] /\ Deadlines
        /\ UNCHANGED <<auditPc, rpc, auditing>>
    BY <1>3 DEF CallAppend, History!Call, History!Goto, History!readVars
  <2>2. Typed
    BY <1>1, <2>1 DEF Typed, History!PC
  <2>3. Apart(w) /\ Comes(w)
    BY <1>1, <1>2, <2>1 DEF Apart, Comes
  <2>. QED  BY <1>2, <2>2, <2>3
<1>4. ASSUME NEW w \in Writer, HistoryStep(w) \/ HistoryFail(w) PROVE Goal
  <2>1. UNCHANGED <<auditPc, rpc, auditing, waited>> /\ Deadlines
    BY <1>4 DEF HistoryStep, HistoryFail, FaultHappens, History!TakeLock,
       History!TimeOut, History!Store, History!WriteLine, History!LoadSnapshots,
       History!OpenBackup, History!FillBackup, History!OpenTemp, History!FillTemp,
       History!Replace, History!RemoveTemp, History!Release, History!Fail,
       History!WriteTorn, History!readVars
  <2>2. \E l \in History!PC :
            /\ pc' = [pc EXCEPT ![w] = l]
            /\ \/ pc[w] = "acquire" /\ l \in {"locked", "idle"}
               \/ pc[w] \in Early /\ l \in Early \cup {"release", "replaced", "cleanup"}
               \/ pc[w] = "cleanup" /\ l = "release"
               \/ pc[w] = "release" /\ l \in {"idle", "audit"}
    <3>1. CASE History!TakeLock(w) \/ History!TimeOut(w)
      BY <3>1 DEF History!TakeLock, History!TimeOut, History!Leave, History!Goto, History!PC
    <3>2. CASE History!Store(w)
      BY <1>1, <3>2, StoreMoves DEF History!PC, Early
    <3>3. CASE History!Fail(w) \/ History!WriteTorn(w)
      BY <1>1, <3>3, FailMoves DEF History!PC, Early
    <3>. QED  BY <1>4, <3>1, <3>2, <3>3 DEF HistoryStep, HistoryFail
  <2>3. w \notin auditing
    BY <1>1, <1>2, <2>2 DEF AtAudit, Early
  <2>4. Typed
    BY <1>1, <2>1, <2>2 DEF Typed
  <2>5. Apart(w) /\ Goes(w)
    BY <1>1, <1>2, <2>1, <2>2, <2>3 DEF Apart, Goes
  <2>. QED  BY <1>2, <2>4, <2>5
<1>5. ASSUME NEW w \in Writer, EndAppendAudit(w) PROVE Goal
  <2>1. /\ UNCHANGED <<auditPc, rpc, waited>> /\ Deadlines
        /\ w \in auditing /\ auditing' = auditing \ {w} /\ auditPc[w] = "idle"
    BY <1>5 DEF EndAppendAudit, EndAudit, History!AuditCompaction, History!AuditAppend,
       History!readVars
  <2>2. \/ pc[w] = "replaced" /\ pc' = [pc EXCEPT ![w] = "cleanup"]
        \/ pc[w] = "audit" /\ pc' = [pc EXCEPT ![w] = "idle"]
    BY <1>5 DEF EndAppendAudit, History!AuditCompaction, History!AuditAppend,
       History!Leave, History!Goto
  <2>3. Typed
    BY <1>1, <2>1, <2>2 DEF Typed, History!PC
  <2>4. Apart(w) /\ Ends(w)
    BY <1>1, <1>2, <2>1, <2>2 DEF Apart, Ends
  <2>. QED  BY <1>2, <2>3, <2>4
<1>6. ASSUME NEW w \in Writer, Kill(w) PROVE Goal
  <2>1. /\ UNCHANGED <<rpc, waited>> /\ Deadlines
        /\ auditing' = auditing \ {w}
        /\ pc' = [pc EXCEPT ![w] = "idle"]
        /\ auditPc' = [auditPc EXCEPT ![w] = "idle"]
    <3>1. auditPc[w] = "idle" => auditPc = [auditPc EXCEPT ![w] = "idle"]
      BY <1>1, <1>2
    <3>. QED
      BY <1>6, <3>1 DEF Kill, FaultHappens, History!Crash, History!Leave, History!Goto,
                        History!readVars, Journal!Crash, Journal!Goto
  <2>2. Typed
    BY <1>1, <1>2, <2>1 DEF Typed, History!PC, Journal!PC
  <2>3. Apart(w) /\ Dies(w)
    BY <1>1, <1>2, <2>1 DEF Apart, Dies
  <2>. QED  BY <1>2, <2>2, <2>3
<1>7. ASSUME NEW r \in Reader, LoadStep(r) PROVE Goal
  <2>1. /\ UNCHANGED <<pc, auditPc, auditing, waited, timer>>
        /\ \/ rpc[r] = "idle" /\ rpc' = [rpc EXCEPT ![r] = "backup"]
           \/ rpc[r] = "backup" /\ rpc' = [rpc EXCEPT ![r] = "idle"]
           \/ rpc[r] = "backup" /\ rpc' = [rpc EXCEPT ![r] = "report"]
    BY <1>7 DEF LoadStep, History!LoadPrimary, History!LoadBackup
  <2>2. r \notin auditing
    BY <1>1, <1>2, <2>1 DEF AtAudit
  <2>3. Typed
    BY <1>1, <2>1 DEF Typed
  <2>4. Apart(r) /\ Loads(r)
    BY <1>1, <1>2, <2>1, <2>2 DEF Apart, Loads
  <2>. QED  BY <1>2, <2>3, <2>4
<1>8. ASSUME NEW r \in Reader, EndRecoveryAudit(r) PROVE Goal
  <2>1. /\ UNCHANGED <<pc, auditPc, waited>> /\ Deadlines
        /\ r \in auditing /\ auditing' = auditing \ {r} /\ auditPc[r] = "idle"
        /\ rpc' = [rpc EXCEPT ![r] = "idle"]
    BY <1>8 DEF EndRecoveryAudit, EndAudit, History!AuditRecovery
  <2>2. Typed
    BY <1>1, <2>1 DEF Typed
  <2>3. Apart(r) /\ Ends(r)
    BY <1>1, <1>2, <2>1 DEF Apart, Ends
  <2>. QED  BY <1>2, <2>2, <2>3
<1>9. ASSUME NEW p \in Process, JournalStep(p) \/ JournalFail(p) PROVE Goal
  <2>1. UNCHANGED <<pc, rpc, auditing, waited>> /\ Deadlines
    BY <1>9 DEF JournalStep, JournalFail, FaultHappens
  <2>2. /\ auditPc[p] # "idle"
        /\ \E l \in Journal!PC \ {"acquire"} : auditPc' = [auditPc EXCEPT ![p] = l]
    <3>1. \/ Journal!TakeLock(p) \/ Journal!TimeOut(p) \/ Journal!Work(p)
          \/ Journal!Fail(p) \/ Journal!WriteTorn(p)
      BY <1>9 DEF JournalStep, JournalFail
    <3>. QED  BY <1>1, <3>1, JournalMoves
  <2>3. Typed
    BY <1>1, <2>1, <2>2 DEF Typed
  <2>4. Apart(p) /\ GoesInAudit(p)
    BY <1>1, <1>2, <2>1, <2>2 DEF Apart, GoesInAudit
  <2>. QED  BY <2>3, <2>4
<1>10. ASSUME NEW p \in Process, StartAudit(p) PROVE Goal
  <2>1. /\ UNCHANGED <<pc, rpc, waited>> /\ Deadlines
        /\ AtAudit(p) /\ p \notin auditing /\ auditing' = auditing \cup {p}
        /\ auditPc[p] = "idle" /\ auditPc' = [auditPc EXCEPT ![p] = "acquire"]
    BY <1>10 DEF StartAudit, Journal!Call, Journal!Goto
  <2>2. Typed
    BY <1>1, <2>1 DEF Typed, Journal!PC
  <2>3. Apart(p) /\ Begins(p)
    BY <1>1, <1>2, <2>1 DEF Apart, Begins
  <2>. QED  BY <2>2, <2>3
<1>11. ASSUME Corrupt \/ UNCHANGED vars PROVE Goal
  BY <1>1, <1>11 DEF Corrupt, FaultHappens, History!Corrupt, History!readVars, vars, Typed
<1>. QED
  BY <1>3, <1>4, <1>5, <1>6, <1>7, <1>8, <1>9, <1>10, <1>11 DEF Next

\* A tick finds everybody who is inside a call in a wait loop, with time left.
LEMMA TickMoves ==
    ASSUME LinkInv, Tick
    PROVE  /\ UNCHANGED <<pc, auditPc, rpc, auditing>>
           /\ \A p \in Process : Blocked(p) => timer[p] > 0 /\ timer'[p] = timer[p] - 1
           /\ \A p \in Process : ~Blocked(p) => timer'[p] = 0
           /\ \A w \in Writer : pc[w] # "idle" => Blocked(w) /\ waited'[w] = waited[w] + 1
           /\ \A w \in Writer : pc[w] = "idle" => waited'[w] = 0
           /\ timer' \in [Process -> Nat] /\ waited' \in [Writer -> Nat]
<1>1. /\ timer \in [Process -> Nat] /\ waited \in [Writer -> Nat]
      /\ Writer \cap Reader = {} /\ Writer \subseteq Process
      /\ \A p \in Process : /\ auditPc[p] # "idle" => p \in auditing
                            /\ p \in auditing => AtAudit(p)
  BY StoresAssumption DEF LinkInv, StoresAssumption, Process
<1>2. /\ UNCHANGED <<pc, auditPc, rpc, auditing>>
      /\ \A p \in Process : InCall(p) => Blocked(p) /\ timer[p] > 0
      /\ timer' = [p \in Process |-> IF Blocked(p) THEN Left(p) ELSE 0]
      /\ waited' = [w \in Writer |-> IF InCall(w) THEN waited[w] + 1 ELSE 0]
  BY DEF Tick, historyVars, writeVars, readVars, journalVars, linkVars
<1>3. \A p \in Process : Blocked(p) => InCall(p)
  BY <1>1 DEF Blocked, InCall, AtAudit
<1>4. \A w \in Writer : InCall(w) <=> pc[w] # "idle"
  BY DEF InCall
<1>5. \A p \in Process : Blocked(p) => timer[p] > 0 /\ timer'[p] = timer[p] - 1
  BY <1>2, <1>3 DEF Left
<1>6. \A p \in Process : ~Blocked(p) => timer'[p] = 0
  BY <1>2
<1>7. \A w \in Writer : /\ pc[w] # "idle" => Blocked(w) /\ waited'[w] = waited[w] + 1
                        /\ pc[w] = "idle" => waited'[w] = 0
  BY <1>1, <1>2, <1>4
<1>8. waited' \in [Writer -> Nat]
  BY <1>1, <1>2
<1>9. timer' \in [Process -> Nat]
  <2>1. \A p \in Process : (IF Blocked(p) THEN Left(p) ELSE 0) \in Nat
    BY <1>1, <1>2, <1>3 DEF Left
  <2>. QED  BY <1>2, <2>1
<1>. QED  BY <1>2, <1>5, <1>6, <1>7, <1>8, <1>9

\* Every step keeps the link.
LEMMA LinkStep == LinkInv /\ [Next]_vars => LinkInv'
<1>1. SUFFICES ASSUME LinkInv, [Next]_vars PROVE LinkInv'
  OBVIOUS
<1>2. /\ timer \in [Process -> Nat] /\ Patience \in Nat
      /\ Writer \cap Reader = {} /\ Process = Writer \cup Reader
      /\ \A p \in Process : /\ auditPc[p] # "idle" => p \in auditing
                            /\ p \in auditing => AtAudit(p)
  BY <1>1, StoresAssumption DEF LinkInv, StoresAssumption, Process
<1>3. CASE Tick
  BY <1>1, <1>3, TickMoves DEF LinkInv, AtAudit
<1>4. Deadlines => timer' \in [Process -> Nat]
  <2>1. \A p \in Process : (IF AtLock(p)' /\ AtLock(p) THEN timer[p]
                            ELSE IF AtLock(p)' THEN Patience ELSE 0) \in Nat
    BY <1>2
  <2>. QED  BY <2>1 DEF Deadlines
<1>5. CASE UNCHANGED <<pc, auditPc, rpc, auditing, timer, waited>>
  BY <1>1, <1>5 DEF LinkInv, AtAudit
<1>6. ASSUME ~Tick, NEW p \in Process, Apart(p),
             \/ Comes(p) \/ Goes(p) \/ Loads(p) \/ Begins(p)
             \/ GoesInAudit(p) \/ Ends(p) \/ Dies(p)
      PROVE  LinkInv'
  <2>1. Typed
    BY <1>1, <1>6, Moves
  <2>2. timer' \in [Process -> Nat]
    BY <1>2, <1>4, <1>6 DEF Apart
  <2>3. ASSUME NEW q \in Process
        PROVE  /\ auditPc'[q] # "idle" => q \in auditing'
               /\ q \in auditing' => AtAudit(q)'
    <3>1. CASE q # p
      <4>1. AtAudit(q)' <=> AtAudit(q)
        BY <1>2, <1>6, <3>1 DEF Apart, AtAudit
      <4>. QED  BY <1>2, <1>6, <3>1, <4>1 DEF Apart
    <3>2. CASE q = p /\ (Comes(p) \/ Goes(p) \/ Loads(p))
      BY <1>2, <3>2 DEF Comes, Goes, Loads, AtAudit
    <3>3. CASE q = p /\ (Begins(p) \/ GoesInAudit(p))
      BY <1>2, <3>3 DEF Begins, GoesInAudit, AtAudit
    <3>4. CASE q = p /\ (Ends(p) \/ Dies(p))
      BY <3>4 DEF Ends, Dies
    <3>. QED  BY <1>6, <3>1, <3>2, <3>3, <3>4
  <2>. QED  BY <2>1, <2>2, <2>3 DEF LinkInv, Typed
<1>. QED  BY <1>1, <1>3, <1>5, <1>6, Moves

-----------------------------------------------------------------------------
\* What a call can still wait for at the lock it has come to.
Pending(w) == IF AtLock(w) THEN timer[w] ELSE 0

\* The timeouts that can have passed at each line of append(): one for the history lock,
\* one more behind it for the audit of a compaction, and one more for that of the append.
Budget(w) ==
    IF \/ pc[w] \in Early \cup {"acquire"}
       \/ pc[w] = "replaced" /\ w \notin auditing
    THEN Patience
    ELSE IF \/ pc[w] \in {"replaced", "cleanup", "release"}
            \/ pc[w] = "audit" /\ w \notin auditing
    THEN 2 * Patience
    ELSE 3 * Patience

\* The invariant of the waits.
WaitInv == \A w \in Writer : waited[w] + Pending(w) <= Budget(w)

\* At first nobody waits.
LEMMA InitWaitInv == Init => WaitInv
BY StoresAssumption
DEF Init, StoresAssumption, WaitInv, History!Init, Journal!Init, Pending, Budget, AtLock,
    Process, Early

\* The numbers of a call.
LEMMA WaitNumbers ==
    ASSUME LinkInv, NEW w \in Writer
    PROVE  /\ waited[w] \in Nat /\ timer[w] \in Nat /\ Patience \in Nat /\ Pending(w) \in Nat
           /\ w \in Process
BY StoresAssumption DEF LinkInv, StoresAssumption, Pending, Process

\* A writer that a step leaves where it is has as much time as before.
LEMMA ApartWaits ==
    ASSUME LinkInv, NEW w \in Writer, waited[w] + Pending(w) <= Budget(w),
           pc'[w] = pc[w], waited'[w] = waited[w], auditPc'[w] = auditPc[w],
           w \in auditing' <=> w \in auditing,
           timer' = timer \/ Deadlines
    PROVE  waited'[w] + Pending(w)' <= Budget(w)'
<1>1. AtLock(w)' <=> AtLock(w)
  BY DEF AtLock
<1>2. w \in Process
  BY WaitNumbers
<1>3. Pending(w)' = Pending(w)
  BY <1>1, <1>2 DEF Pending, Deadlines
<1>4. Budget(w)' = Budget(w)
  BY DEF Budget
<1>. QED  BY <1>3, <1>4

\* The writer that takes a step keeps within its budget.
LEMMA MoverWaits ==
    ASSUME LinkInv, LinkInv', NEW w \in Writer, waited[w] + Pending(w) <= Budget(w),
           timer' = timer \/ Deadlines,
           \/ Comes(w) \/ Goes(w) \/ Begins(w) \/ GoesInAudit(w) \/ Ends(w) \/ Dies(w)
    PROVE  waited'[w] + Pending(w)' <= Budget(w)'
<1>1. /\ waited[w] \in Nat /\ waited'[w] \in Nat /\ Pending(w) \in Nat /\ Patience \in Nat
      /\ w \in Process /\ w \notin Reader
  BY WaitNumbers, StoresAssumption DEF LinkInv, StoresAssumption
<1>2. /\ auditPc[w] # "idle" => w \in auditing
      /\ w \in auditing => pc[w] \in {"replaced", "audit"}
  BY <1>1 DEF LinkInv, AtAudit
<1>3. /\ ~AtLock(w)' => Pending(w)' = 0
      /\ Deadlines /\ AtLock(w)' /\ ~AtLock(w) => Pending(w)' = Patience
  BY <1>1 DEF Pending, Deadlines
<1>4. waited[w] <= Budget(w)
  BY <1>1 DEF Budget
<1>5. CASE Comes(w)
  <2>1. AtLock(w)' /\ ~AtLock(w)
    BY <1>2, <1>5 DEF Comes, AtLock
  <2>2. Pending(w)' = Patience /\ waited'[w] = 0
    BY <1>3, <1>5, <2>1 DEF Comes
  <2>3. Budget(w)' = Patience
    BY <1>5 DEF Comes, Budget
  <2>. QED  BY <1>1, <2>2, <2>3
<1>6. CASE Goes(w)
  <2>1. ~AtLock(w)'
    BY <1>2, <1>6 DEF Goes, AtLock, Early
  <2>2. Pending(w)' = 0 /\ waited'[w] = waited[w]
    BY <1>3, <1>6, <2>1 DEF Goes
  <2>3. Budget(w) <= Budget(w)' /\ Budget(w) \in Nat /\ Budget(w)' \in Nat
    BY <1>1, <1>6 DEF Goes, Budget, Early
  <2>. QED  BY <1>1, <1>4, <2>2, <2>3
<1>7. CASE Begins(w)
  <2>1. AtLock(w)' /\ ~AtLock(w)
    BY <1>1, <1>7 DEF Begins, AtLock, AtAudit
  <2>2. Pending(w)' = Patience /\ waited'[w] = waited[w]
    BY <1>1, <1>3, <1>7, <2>1 DEF Begins
  <2>3. Budget(w)' = Budget(w) + Patience /\ Budget(w) \in Nat
    BY <1>1, <1>7 DEF Begins, Budget, AtAudit, Early
  <2>. QED  BY <1>1, <1>4, <2>2, <2>3
<1>8. CASE GoesInAudit(w)
  <2>1. ~AtLock(w)'
    BY <1>1, <1>2, <1>8 DEF GoesInAudit, AtLock
  <2>2. Pending(w)' = 0 /\ waited'[w] = waited[w]
    BY <1>1, <1>3, <1>8, <2>1 DEF GoesInAudit
  <2>3. Budget(w)' = Budget(w)
    BY <1>1, <1>8 DEF GoesInAudit, Budget
  <2>. QED  BY <1>1, <1>4, <2>2, <2>3
<1>9. CASE Ends(w)
  <2>1. ~AtLock(w)'
    BY <1>1, <1>9 DEF Ends, AtLock
  <2>2. Pending(w)' = 0 /\ waited'[w] = waited[w]
    BY <1>1, <1>3, <1>9, <2>1 DEF Ends
  <2>3. Budget(w) = Budget(w)'
    BY <1>1, <1>9 DEF Ends, Budget, Early
  <2>. QED  BY <1>1, <1>4, <2>2, <2>3
<1>10. CASE Dies(w)
  <2>1. ~AtLock(w)'
    BY <1>10 DEF Dies, AtLock
  <2>2. Pending(w)' = 0 /\ waited'[w] = waited[w]
    BY <1>3, <1>10, <2>1 DEF Dies
  <2>3. Budget(w)' = 3 * Patience
    BY <1>10 DEF Dies, Budget, Early
  <2>4. Budget(w) <= 3 * Patience /\ Budget(w) \in Nat
    BY <1>1 DEF Budget
  <2>. QED  BY <1>1, <1>4, <2>2, <2>3, <2>4
<1>. QED  BY <1>5, <1>6, <1>7, <1>8, <1>9, <1>10

\* Every step keeps the calls within their budgets.
LEMMA WaitStep == LinkInv /\ LinkInv' /\ WaitInv /\ [Next]_vars => WaitInv'
<1>1. SUFFICES ASSUME LinkInv, LinkInv', WaitInv, [Next]_vars, NEW w \in Writer
               PROVE  waited'[w] + Pending(w)' <= Budget(w)'
  BY DEF WaitInv
<1>2. waited[w] + Pending(w) <= Budget(w)
  BY <1>1 DEF WaitInv
<1>3. /\ waited[w] \in Nat /\ timer[w] \in Nat /\ Patience \in Nat /\ Pending(w) \in Nat
      /\ w \in Process /\ w \notin Reader
  BY <1>1, WaitNumbers, StoresAssumption DEF StoresAssumption
<1>4. CASE Tick
  <2>1. /\ Blocked(w) => timer[w] > 0 /\ timer'[w] = timer[w] - 1
        /\ pc[w] # "idle" => Blocked(w) /\ waited'[w] = waited[w] + 1
        /\ pc[w] = "idle" => waited'[w] = 0
        /\ UNCHANGED <<pc, auditPc, auditing>>
    BY <1>1, <1>3, <1>4, TickMoves
  <2>2. AtLock(w)' <=> AtLock(w)
    BY <2>1 DEF AtLock
  <2>3. Budget(w)' = Budget(w)
    BY <2>1 DEF Budget
  <2>4. CASE pc[w] = "idle"
    <3>1. ~AtLock(w)
      BY <1>1, <1>3, <2>4 DEF LinkInv, AtLock, AtAudit
    <3>2. Pending(w)' = 0
      BY <2>2, <3>1 DEF Pending
    <3>3. waited'[w] = 0
      BY <2>1, <2>4
    <3>4. Budget(w) \in Nat
      BY <1>3 DEF Budget
    <3>. QED  BY <2>3, <3>2, <3>3, <3>4
  <2>5. CASE pc[w] # "idle"
    <3>1. AtLock(w)
      BY <2>1, <2>5 DEF AtLock, Blocked
    <3>. QED  BY <1>2, <1>3, <2>1, <2>2, <2>3, <2>5, <3>1 DEF Pending
  <2>. QED  BY <2>4, <2>5
<1>5. CASE ~Tick
  <2>1. CASE UNCHANGED <<pc, auditPc, rpc, auditing, timer, waited>>
    BY <1>1, <1>2, <2>1, ApartWaits
  <2>2. ASSUME NEW p \in Process, Apart(p),
               \/ Comes(p) \/ Goes(p) \/ Loads(p) \/ Begins(p)
               \/ GoesInAudit(p) \/ Ends(p) \/ Dies(p)
        PROVE  waited'[w] + Pending(w)' <= Budget(w)'
    <3>1. CASE p = w
      <4>1. ~Loads(p)
        BY <1>3, <3>1 DEF Loads
      <4>2. timer' = timer \/ Deadlines
        BY <2>2 DEF Apart
      <4>. QED  BY <1>1, <1>2, <2>2, <3>1, <4>1, <4>2, MoverWaits
    <3>2. CASE p # w
      BY <1>1, <1>2, <1>3, <2>2, <3>2, ApartWaits DEF Apart
    <3>. QED  BY <3>1, <3>2
  <2>. QED  BY <1>1, <1>5, <2>1, <2>2, Moves
<1>. QED  BY <1>4, <1>5

\* No call of append waits longer than three timeouts, however many writers there are,
\* wherever they fail and whichever locks a killed process left behind.
THEOREM WaitsEnd == Spec => []WaitsAreBounded
<1>1. Init => LinkInv /\ WaitInv
  BY InitLinkInv, InitWaitInv
<1>2. LinkInv /\ WaitInv /\ [Next]_vars => (LinkInv /\ WaitInv)'
  BY LinkStep, WaitStep
<1>3. LinkInv /\ WaitInv => WaitsAreBounded
  <2>1. SUFFICES ASSUME LinkInv, WaitInv, NEW w \in Writer PROVE waited[w] <= 3 * Patience
    BY DEF WaitsAreBounded
  <2>2. /\ waited[w] \in Nat /\ Pending(w) \in Nat /\ Patience \in Nat
        /\ waited[w] + Pending(w) <= Budget(w)
    BY <2>1, WaitNumbers DEF WaitInv
  <2>3. Budget(w) <= 3 * Patience /\ Budget(w) \in Nat
    BY <2>2 DEF Budget
  <2>. QED  BY <2>2, <2>3
<1>. QED  BY <1>1, <1>2, <1>3, PTL DEF Spec

-----------------------------------------------------------------------------
\* The constants are what the journal assumes.
LEMMA JournalConstants == JP!JournalAssumption
BY StoresAssumption DEF StoresAssumption, Process, JP!JournalAssumption

\* The steps of the journal in this module are those that were proved about.
LEMMA JournalSteps ==
    ASSUME NEW p \in Process
    PROVE  /\ Journal!Call(p) => JP!Call(p)
           /\ Journal!TakeLock(p) => JP!Wait(p)
           /\ Journal!TimeOut(p) => JP!Wait(p)
           /\ Journal!Work(p) => JP!Work(p)
           /\ Journal!Fail(p) => JP!Fail(p)
           /\ Journal!WriteTorn(p) => JP!WriteTorn(p)
           /\ Journal!Crash(p) => JP!Crash(p)
<1>. USE DEF Journal!Goto, JP!Goto, Journal!fileVars, JP!fileVars,
     Journal!callVars, JP!callVars
<1>1. Journal!Call(p) => JP!Call(p)
  BY DEF Journal!Call, JP!Call
<1>2. Journal!TakeLock(p) => JP!TakeLock(p)
  BY DEF Journal!TakeLock, JP!TakeLock, Journal!Free, JP!Free
<1>3. Journal!TimeOut(p) => JP!TimeOut(p)
  BY DEF Journal!TimeOut, JP!TimeOut, Journal!Free, JP!Free
<1>4. Journal!WriteLine(p) => JP!WriteLine(p)
  BY DEF Journal!WriteLine, JP!WriteLine, Journal!AddLine, JP!AddLine,
     Journal!Glued, JP!Glued
<1>5. Journal!LoadEvents(p) => JP!LoadEvents(p)
  BY DEF Journal!LoadEvents, JP!LoadEvents, Journal!WithinLimit, JP!WithinLimit,
     Journal!Kept, JP!Kept, Journal!Newest, JP!Newest
<1>6. Journal!OpenTemp(p) => JP!OpenTemp(p)
  BY DEF Journal!OpenTemp, JP!OpenTemp, Journal!TempWith, JP!TempWith
<1>7. Journal!FillTemp(p) => JP!FillTemp(p)
  BY DEF Journal!FillTemp, JP!FillTemp, Journal!TempWith, JP!TempWith,
     Journal!Lines, JP!Lines
<1>8. Journal!Replace(p) => JP!Replace(p)
  BY DEF Journal!Replace, JP!Replace, Journal!CleanFile, JP!CleanFile,
     Journal!NoTemp, JP!NoTemp
<1>9. Journal!RemoveTemp(p) => JP!RemoveTemp(p)
  BY DEF Journal!RemoveTemp, JP!RemoveTemp, Journal!NoTemp, JP!NoTemp
<1>10. Journal!Release(p) => JP!Release(p)
  BY DEF Journal!Release, JP!Release, Journal!Unlinked, JP!Unlinked,
     Journal!Acked, JP!Acked
<1>11. Journal!Fail(p) => JP!Fail(p)
  BY DEF Journal!Fail, JP!Fail
<1>12. Journal!WriteTorn(p) => JP!WriteTorn(p)
  BY DEF Journal!WriteTorn, JP!WriteTorn, Journal!AddCut, JP!AddCut,
     Journal!AddOpen, JP!AddOpen, Journal!Glued, JP!Glued
<1>13. Journal!Crash(p) => JP!Crash(p)
  BY DEF Journal!Crash, JP!Crash
<1>14. Journal!Work(p) => JP!Work(p)
  BY <1>4, <1>5, <1>6, <1>7, <1>8, <1>9, <1>10 DEF Journal!Work, JP!Work
<1>. QED  BY <1>1, <1>2, <1>3, <1>11, <1>12, <1>13, <1>14 DEF JP!Wait

\* Whatever the stores do is a step of the journal or leaves it alone: a process calls
\* its append() from one place, _audit(), and is killed inside of it or outside.
LEMMA AuditMoves == [Next]_vars => [JP!Next]_(JP!vars)
<1>1. SUFFICES ASSUME [Next]_vars PROVE [JP!Next]_(JP!vars)
  OBVIOUS
<1>2. UNCHANGED journalVars => UNCHANGED JP!vars
  BY DEF journalVars, JP!vars
<1>3. ASSUME NEW p \in Process, JournalStep(p) \/ StartAudit(p) \/ JournalFail(p)
      PROVE  JP!Next
  BY <1>3, JournalSteps DEF JournalStep, StartAudit, JournalFail, JP!Next, JP!IntactNext
<1>4. ASSUME NEW w \in Writer, Kill(w) PROVE JP!Next \/ UNCHANGED journalVars
  <2>1. w \in Process
    BY DEF Process
  <2>. QED  BY <1>4, <2>1, JournalSteps DEF Kill, JP!Next, JP!IntactNext
<1>5. ASSUME NEW w \in Writer,
             CallAppend(w) \/ HistoryStep(w) \/ EndAppendAudit(w) \/ HistoryFail(w)
      PROVE  UNCHANGED journalVars
  BY <1>5 DEF CallAppend, HistoryStep, EndAppendAudit, EndAudit, HistoryFail
<1>6. ASSUME NEW r \in Reader, LoadStep(r) \/ EndRecoveryAudit(r)
      PROVE  UNCHANGED journalVars
  BY <1>6 DEF LoadStep, EndRecoveryAudit, EndAudit
<1>7. ASSUME Corrupt \/ Tick \/ UNCHANGED vars PROVE UNCHANGED journalVars
  BY <1>7 DEF Corrupt, Tick, vars
<1>. QED  BY <1>1, <1>2, <1>3, <1>4, <1>5, <1>6, <1>7 DEF Next

\* At first the journal is as its own specification has it.
LEMMA InitJournal == Init => JP!Init
BY DEF Init, Journal!Init, JP!Init, Journal!CleanFile, JP!CleanFile,
   Journal!NoTemp, JP!NoTemp

\* The audit journal that _audit() of the history writes to, with processes that are
\* killed in the middle of both calls and deadlines that only time decides, does nothing
\* that the specification of AuditJournal does not allow: what is proved of the journal
\* by itself holds in the service.
THEOREM AuditsAreJournalSteps == Spec => JP!Init /\ [][JP!Next]_(JP!vars)
BY InitJournal, AuditMoves, PTL DEF Spec

\* The locks of the two stores, one taken behind the other, are both exclusive.
LocksExclude == History!MutualExclusion /\ Journal!MutualExclusion

\* However the waits for the two locks, the failures and the kills interleave, no two
\* writers are behind the history's lock and no two processes behind the journal's.
THEOREM StoresExclude == Spec => []LocksExclude
<1>1. Init => HP!LockInv /\ JP!IInv
  BY InitHistory, HistoryConstants, HP!InitLockInv, InitJournal, JournalConstants, JP!InitIInv
<1>2. HP!LockInv /\ JP!IInv /\ [Next]_vars => (HP!LockInv /\ JP!IInv)'
  BY HistoryMoves, HistoryConstants, HP!NextLockInv, AuditMoves, JournalConstants, JP!NextIInv
<1>3. HP!LockInv => History!MutualExclusion
  <2>1. SUFFICES ASSUME HP!LockInv, NEW v \in Writer, NEW w \in Writer,
                        pc[v] \in History!InLock, pc[w] \in History!InLock
                 PROVE  v = w
    BY DEF History!MutualExclusion
  <2>2. lock = v /\ lock = w
    BY <2>1 DEF HP!LockInv, HP!LockHeld, HP!InLock, History!InLock
  <2>. QED  BY <2>2
<1>4. JP!IInv => Journal!MutualExclusion
  BY JournalConstants, JP!IInvImplies
  DEF JP!MutualExclusion, Journal!MutualExclusion, JP!InLock, Journal!InLock
<1>. QED  BY <1>1, <1>2, <1>3, <1>4, PTL DEF Spec, LocksExclude

\* Whichever process compacts the journal, and whatever store sent it there, it replaces
\* the journal by the newest events of that moment, and an audit that returns normally
\* leaves no more events than the limit.
AuditsAreRetained == Journal!ReplaceIsCurrent /\ Journal!AppendRestoresRetention

\* The limit of the journal is kept under the history's writers and readers too.
THEOREM AuditsKeepRetention == Spec => []AuditsAreRetained
<1>1. Init => JP!IInv
  BY InitJournal, JournalConstants, JP!InitIInv
<1>2. JP!IInv /\ [Next]_vars => JP!IInv'
  BY AuditMoves, JournalConstants, JP!NextIInv
<1>3. JP!IInv => AuditsAreRetained
  BY JournalConstants, JP!IInvImplies
  DEF AuditsAreRetained, JP!ReplaceIsCurrent, Journal!ReplaceIsCurrent,
      JP!AppendRestoresRetention, Journal!AppendRestoresRetention,
      JP!TempWith, Journal!TempWith, JP!Newest, Journal!Newest
<1>. QED  BY <1>1, <1>2, <1>3, PTL DEF Spec
=============================================================================
