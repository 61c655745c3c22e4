-------------------------- MODULE PaperAlerts_proofs --------------------------
(***************************************************************************)
(* PaperAlerts, proved for every cooldown, every history limit, any number *)
(* of runs and every fault: the types for any number of threads, and what  *)
(* the manager promises of an answered change for a service that handles   *)
(* one request at a time (with more, an answered change can be lost: the   *)
(* run PaperAlerts_lost_update).                                           *)
(***************************************************************************)
EXTENDS PaperAlerts, JournalFile_proofs

\* A thread has a file open only while it is about to write it.
HandleInv == \A t \in Thread : handle[t] # NoFile => pc[t] = "write"

\* The history never has more runs than there were, and neither does the program
\* count more.
RunsInv == Len(stored) <= runs /\ run <= runs

\* The invariant of the types, for any number of threads.
TypeInv == TypeOK /\ HandleInv /\ RunsInv

-----------------------------------------------------------------------------
\* What a file can hold.
Content == [kind : {"blank", "garbled", "json"}, states : States]

\* The values the state is made of.
LEMMA Values ==
    /\ NoEntry \in Entry /\ NoStates \in States /\ NoRequest \in Request
    /\ Blank \in Content /\ Garbled \in Content
    /\ \A s \in States : Json(s) \in Content
    /\ \A old \in Content, s \in States : Overwrite(old, s) \in Content
    /\ \A q \in Request : EntryOf(q) \in Entry
<1>1. MaxRuns \in Nat /\ 0 \in 0..MaxRuns
  BY AlertsAssumption DEF AlertsAssumption
<1>2. NoEntry \in Entry
  BY <1>1 DEF NoEntry, Entry
<1>3. NoStates \in States
  BY <1>2 DEF NoStates, States
<1>4. (CHOOSE c \in Code : TRUE) \in Code
  BY DEF Code
<1>5. NoRequest \in Request
  BY <1>1, <1>4 DEF NoRequest, Request
<1>6. Blank \in Content /\ Garbled \in Content /\ \A s \in States : Json(s) \in Content
  BY <1>3 DEF Blank, Garbled, Json, Content
<1>7. \A old \in Content, s \in States : Overwrite(old, s) \in Content
  BY <1>6 DEF Overwrite
<1>8. \A q \in Request : EntryOf(q) \in Entry
  BY <1>1 DEF EntryOf, Entry, Request
<1>. QED  BY <1>2, <1>3, <1>5, <1>6, <1>7, <1>8

\* load() finds states.
LEMMA LoadedType ==
    ASSUME TypeOK
    PROVE  Loaded \in States
<1>1. journal # NoFile => content[journal] \in Content
  BY DEF TypeOK, Content
<1>. QED  BY <1>1, Values DEF Loaded, Content

\* The runs a history counts as valid are some of its runs.
LEMMA ValidRunsType ==
    ASSUME NEW h \in Seq(BOOLEAN)
    PROVE  Len(h) \in Nat /\ ValidRuns(h) \in 0..Len(h)
<1>1. Len(h) \in Nat /\ DOMAIN h = 1..Len(h)
  BY LenProperties
<1>2. {i \in DOMAIN h : h[i]} \subseteq 1..Len(h)
  BY <1>1
<1>3. /\ Cardinality({i \in DOMAIN h : h[i]}) \in Nat
      /\ Cardinality({i \in DOMAIN h : h[i]}) <= Len(h)
  BY <1>1, <1>2, PlacesFinite
<1>. QED  BY <1>1, <1>3 DEF ValidRuns

\* A thread that needs a temporary file finds one that nobody has.
LEMMA FreeFile ==
    ASSUME TypeOK, HandleInv, NEW t \in Thread, pc[t] = "open", temp = NoFile
    PROVE  /\ NewFile \in Inode /\ NewFile # journal
           /\ \A u \in Thread : NewFile # handle[u]
<1>. DEFINE Others == Thread \ {t}
            Held == {handle[u] : u \in Others}
<1>1. /\ IsFiniteSet(Thread) /\ IsFiniteSet(Inode) /\ Cardinality(Inode) > Cardinality(Thread)
      /\ NoFile \notin Inode
  BY AlertsAssumption DEF AlertsAssumption
<1>2. /\ IsFiniteSet(Others) /\ Cardinality(Others) = Cardinality(Thread) - 1
      /\ Cardinality(Thread) \in Nat
  BY <1>1, FS_RemoveElement, FS_CardinalityType
<1>3. IsFiniteSet(Held) /\ Cardinality(Held) <= Cardinality(Others)
  <2>1. [u \in Others |-> handle[u]] \in Surjection(Others, Held)
    BY DEF Surjection
  <2>. HIDE DEF Others, Held
  <2>. QED  BY <1>2, <2>1, FS_Surjection
<1>4. /\ IsFiniteSet(Held \cup {journal})
      /\ Cardinality(Held \cup {journal}) <= Cardinality(Thread)
      /\ Cardinality(Held \cup {journal}) \in Nat
  <2>1. Cardinality(Held) \in Nat /\ Cardinality(Others) \in Nat
    BY <1>2, <1>3, FS_CardinalityType
  <2>2. /\ IsFiniteSet(Held \cup {journal})
        /\ \/ Cardinality(Held \cup {journal}) = Cardinality(Held)
           \/ Cardinality(Held \cup {journal}) = Cardinality(Held) + 1
    BY <1>3, FS_AddElement
  <2>. QED  BY <1>2, <1>3, <2>1, <2>2
<1>5. ~(Inode \subseteq Held \cup {journal})
  <2>1. Cardinality(Inode) \in Nat
    BY <1>1, FS_CardinalityType
  <2>2. Inode \subseteq Held \cup {journal} =>
            Cardinality(Inode) <= Cardinality(Held \cup {journal})
    BY <1>4, FS_Subset
  <2>. QED  BY <1>1, <1>2, <1>4, <2>1, <2>2
<1>6. handle[t] = NoFile
  BY DEF HandleInv
<1>7. PICK i \in Inode : i \notin Held \cup {journal}
  BY <1>5
<1>8. i \notin {journal, temp} \cup {handle[u] : u \in Thread}
  BY <1>1, <1>6, <1>7
<1>9. /\ NewFile \in Inode
      /\ NewFile \notin {journal, temp} \cup {handle[u] : u \in Thread}
  BY <1>8 DEF NewFile
<1>. QED  BY <1>9

\* At first everything is empty.
LEMMA InitTypeInv == Init => TypeInv
<1>1. SUFFICES ASSUME Init PROVE TypeInv
  OBVIOUS
<1>2. MaxRuns \in Nat /\ 0 \in 0..MaxRuns
  BY AlertsAssumption DEF AlertsAssumption
<1>3. <<>> \in Seq(BOOLEAN) /\ Len(<<>>) = 0
  BY EmptySeq
<1>4. TypeOK
  <2>1. /\ run \in 0..MaxRuns /\ valid \in 0..run /\ runs \in 0..MaxRuns
        /\ stored \in Seq(BOOLEAN) /\ status \in {"ok", "error"}
        /\ tail \in {"ended", "cut", "open"}
        /\ resolvedAt \in [Code -> {Never} \cup 0..MaxRuns]
    BY <1>1, <1>2, <1>3 DEF Init
  <2>2. /\ states \in States /\ answered \in States
        /\ content \in [Inode -> Content]
        /\ request \in [Thread -> Request] /\ image \in [Thread -> States]
    BY <1>1, Values DEF Init
  <2>3. /\ journal \in Inode \cup {NoFile} /\ temp \in Inode \cup {NoFile}
        /\ pc \in [Thread -> PC] /\ handle \in [Thread -> Inode \cup {NoFile}]
        /\ failing \in [Thread -> BOOLEAN] /\ unsure \subseteq Code /\ caughtUp \in BOOLEAN
    BY <1>1 DEF Init, PC
  <2>. QED  BY <2>1, <2>2, <2>3, Zenon DEF TypeOK, Content
<1>. QED  BY <1>1, <1>3, <1>4 DEF Init, TypeInv, HandleInv, RunsInv

\* Every step keeps the types.
LEMMA TypeStep == TypeInv /\ [Next]_vars => TypeInv'
<1>1. SUFFICES ASSUME TypeInv, [Next]_vars PROVE TypeInv'
  OBVIOUS
<1>. USE DEF TypeOK, Content, Goto, metricVars, fileVars, threadVars, ghostVars
<1>2. TypeOK /\ HandleInv /\ RunsInv /\ MaxRuns \in Nat /\ NoFile \notin Inode
  BY <1>1, AlertsAssumption DEF TypeInv, AlertsAssumption
<1>3. ASSUME NEW v \in BOOLEAN, RecordRun(v) PROVE TypeInv'
  <2>1. /\ File \in FileOf(BOOLEAN) /\ File.recs = stored
        /\ Len(stored) \in Nat /\ Len(stored) <= runs
    BY <1>2, LenProperties DEF File, FileOf, RunsInv
  <2>2. HistoryLimit \in Nat
    BY AlertsAssumption DEF AlertsAssumption
  <2>. DEFINE a == AddLine(File, v)
              c == AddCut(File)
              o == AddOpen(File, v)
  <2>3. /\ a \in FileOf(BOOLEAN) /\ c \in FileOf(BOOLEAN) /\ o \in FileOf(BOOLEAN)
        /\ Len(a.recs) \in Nat /\ Len(a.recs) <= Len(stored) + 1
        /\ Len(c.recs) <= Len(stored) + 1 /\ Len(o.recs) <= Len(stored) + 1
    BY <2>1, AddType, AddWeight
  <2>8. Appended(v).recs = Newest(a.recs, HistoryLimit) /\ Appended(v).tail = "ended"
    BY DEF Appended, CleanFile
  <2>9. \/ /\ stored' = Appended(v).recs /\ tail' = "ended" /\ status' = "ok"
        \/ /\ \E f \in {File, a, c, o, Appended(v)} : stored' = f.recs /\ tail' = f.tail
           /\ status' = "error"
    BY <1>3 DEF RecordRun
  <2>. HIDE DEF a, c, o
  <2>4. /\ stored' \in Seq(BOOLEAN) /\ Len(stored') <= Len(stored) + 1
        /\ tail' \in {"ended", "cut", "open"}
    <3>1. CASE stored' = Newest(a.recs, HistoryLimit) /\ tail' = "ended"
      <4>1. a.recs \in Seq(BOOLEAN)
        BY <2>3 DEF FileOf
      <4>2. /\ Newest(a.recs, HistoryLimit) \in Seq(BOOLEAN)
            /\ Len(Newest(a.recs, HistoryLimit))
                 = IF Len(a.recs) <= HistoryLimit THEN Len(a.recs) ELSE HistoryLimit
        BY <2>2, <4>1, NewestType
      <4>3. Len(Newest(a.recs, HistoryLimit)) <= Len(stored) + 1
        BY <2>1, <2>2, <2>3, <4>2
      <4>. QED  BY <3>1, <4>2, <4>3
    <3>2. CASE \E f \in {File, a, c, o} : stored' = f.recs /\ tail' = f.tail
      <4>1. PICK f \in {File, a, c, o} : stored' = f.recs /\ tail' = f.tail
        BY <3>2
      <4>2. f \in FileOf(BOOLEAN) /\ Len(f.recs) <= Len(stored) + 1
        BY <2>1, <2>3, <4>1
      <4>. QED  BY <4>1, <4>2 DEF FileOf
    <3>. QED  BY <2>8, <2>9, <3>1, <3>2
  <2>5. runs' = runs + 1 /\ runs' \in 0..MaxRuns /\ run' = run + 1
    BY <1>2, <1>3 DEF RecordRun
  <2>6. Len(stored') <= runs' /\ run' <= runs'
    <3>1. Len(stored') \in Nat
      BY <2>4, LenProperties
    <3>. QED  BY <1>2, <2>1, <2>4, <2>5, <3>1 DEF RunsInv
  <2>7. run' \in 0..MaxRuns /\ valid' \in 0..run'
    BY <1>2, <1>3, <2>5 DEF RecordRun, RunsInv
  <2>. QED
    BY <1>2, <1>3, <2>4, <2>5, <2>6, <2>7, <2>9 DEF RecordRun, TypeInv, HandleInv, RunsInv
<1>4. ASSUME NEW t \in Thread, NEW c \in Code, NEW s \in {"acknowledged", "resolved"},
             Check(t, c, s)
      PROVE  TypeInv'
  <2>1. [code |-> c, to |-> s, at |-> 0, run |-> 0] \in Request
    BY <1>2 DEF Request
  <2>. QED  BY <1>2, <1>4, <2>1 DEF Check, TypeInv, HandleInv, RunsInv, PC
<1>5. ASSUME NEW t \in Thread, Change(t) PROVE TypeInv'
  <2>1. request' \in [Thread -> Request]
    BY <1>2, <1>5 DEF Change, Request
  <2>2. EntryOf(request'[t]) \in Entry
    BY <2>1, Values
  <2>3. states' \in States
    BY <1>2, <1>5, <2>2 DEF Change, States
  <2>. QED  BY <1>2, <1>5, <2>1, <2>3 DEF Change, TypeInv, HandleInv, RunsInv, PC
<1>6. ASSUME NEW t \in Thread, Dump(t) PROVE TypeInv'
  BY <1>2, <1>6 DEF Dump, Serialised, TypeInv, HandleInv, RunsInv, PC
<1>7. ASSUME NEW t \in Thread, OpenTemp(t) PROVE TypeInv'
  <2>. DEFINE i == IF temp # NoFile THEN temp ELSE NewFile
  <2>1. i \in Inode
    BY <1>2, <1>7, FreeFile DEF OpenTemp
  <2>2. /\ temp' = i /\ handle' = [handle EXCEPT ![t] = i]
        /\ content' = [content EXCEPT ![i] = Blank]
    BY <1>7 DEF OpenTemp
  <2>. HIDE DEF i
  <2>. QED  BY <1>2, <1>7, <2>1, <2>2, Values DEF OpenTemp, TypeInv, HandleInv, RunsInv, PC
<1>8. ASSUME NEW t \in Thread, WriteTemp(t) PROVE TypeInv'
  <2>1. content' \in [Inode -> Content]
    BY <1>2, <1>8, Values DEF WriteTemp
  <2>. QED  BY <1>2, <1>8, <2>1, Values DEF WriteTemp, TypeInv, HandleInv, RunsInv, PC
<1>9. ASSUME NEW t \in Thread, Replace(t) PROVE TypeInv'
  <2>1. content' \in [Inode -> Content]
    BY <1>2, <1>9, Values DEF Replace, Without
  <2>2. journal' \in Inode \cup {NoFile} /\ temp' \in Inode \cup {NoFile}
    BY <1>2, <1>9 DEF Replace
  <2>3. failing' \in [Thread -> BOOLEAN] /\ pc' \in [Thread -> PC]
    BY <1>2, <1>9 DEF Replace, PC
  <2>4. HandleInv'
    BY <1>2, <1>9 DEF Replace, HandleInv
  <2>. QED  BY <1>2, <1>9, <2>1, <2>2, <2>3, <2>4 DEF Replace, TypeInv, RunsInv
<1>10. ASSUME NEW t \in Thread, LookForTemp(t) PROVE TypeInv'
  <2>1. request[t].code \in Code
    BY <1>2 DEF Request
  <2>2. request' \in [Thread -> Request]
    BY <1>2, <1>10, Values DEF LookForTemp, Leave
  <2>3. unsure' \subseteq Code
    BY <1>2, <1>10, <2>1 DEF LookForTemp, Leave
  <2>4. failing' \in [Thread -> BOOLEAN] /\ pc' \in [Thread -> PC]
    BY <1>2, <1>10 DEF LookForTemp, Leave, PC
  <2>5. HandleInv'
    BY <1>2, <1>10 DEF LookForTemp, Leave, HandleInv
  <2>. QED  BY <1>2, <1>10, <2>2, <2>3, <2>4, <2>5 DEF LookForTemp, TypeInv, RunsInv
<1>11. ASSUME NEW t \in Thread, RemoveTemp(t) PROVE TypeInv'
  <2>0. request[t].code \in Code
    BY <1>2 DEF Request
  <2>1. request' \in [Thread -> Request] /\ unsure' \subseteq Code
    BY <1>2, <1>11, <2>0, Values DEF RemoveTemp, Leave
  <2>2. content' \in [Inode -> Content]
    BY <1>2, <1>11, Values DEF RemoveTemp, Without
  <2>. QED  BY <1>2, <1>11, <2>1, <2>2 DEF RemoveTemp, Leave, TypeInv, HandleInv, RunsInv, PC
<1>12. ASSUME NEW t \in Thread, Answer(t) PROVE TypeInv'
  <2>1. request' \in [Thread -> Request] /\ EntryOf(request[t]) \in Entry
    BY <1>2, <1>12, Values DEF Answer
  <2>2. answered' \in States
    BY <1>2, <1>12, <2>1 DEF Answer, States
  <2>3. request[t].at \in 0..MaxRuns
    BY <1>2 DEF Request
  <2>4. resolvedAt' \in [Code -> {Never} \cup 0..MaxRuns]
    BY <1>2, <1>12, <2>3 DEF Answer
  <2>. QED
    BY <1>2, <1>12, <2>1, <2>2, <2>4 DEF Answer, TypeInv, HandleInv, RunsInv, PC
<1>13. ASSUME NEW t \in Thread, Fail(t) PROVE TypeInv'
  BY <1>2, <1>13 DEF Fail, TypeInv, HandleInv, RunsInv, PC
<1>14. CASE Restart
  <2>1. Loaded \in States
    BY <1>2, LoadedType
  <2>2. Len(stored) \in Nat /\ ValidRuns(stored) \in 0..Len(stored)
    BY <1>2, ValidRunsType
  <2>3. run' \in 0..MaxRuns /\ valid' \in 0..run' /\ status' \in {"ok", "error"} /\ run' <= runs
    BY <1>2, <1>14, <2>2 DEF Restart, RunsInv
  <2>4. caughtUp' \in BOOLEAN
    BY <1>2, <1>14 DEF Restart
  <2>5. \A t \in Thread : request[t].at \in 0..MaxRuns
    BY <1>2 DEF Request
  <2>6. ASSUME NEW c \in Code
        PROVE  (IF \E t \in Thread : Saved(t, c) /\ request[t].to = "resolved"
                THEN request[CHOOSE t \in Thread : Saved(t, c)].at ELSE resolvedAt[c])
                   \in {Never} \cup 0..MaxRuns
    BY <1>2, <2>5
  <2>7. resolvedAt' \in [Code -> {Never} \cup 0..MaxRuns]
    BY <1>14, <2>6 DEF Restart
  <2>. QED
    BY <1>2, <1>14, <2>1, <2>3, <2>4, <2>7, Values
       DEF Restart, TypeInv, HandleInv, RunsInv, PC
<1>15. CASE UNCHANGED vars
  BY <1>2, <1>15 DEF vars, TypeInv, HandleInv, RunsInv
<1>. QED
  BY <1>1, <1>3, <1>4, <1>5, <1>6, <1>7, <1>8, <1>9, <1>10, <1>11, <1>12, <1>13, <1>14, <1>15
     DEF Next, Work

\* The manager, the files and the requests stay well formed, for any number of threads.
THEOREM TypeCorrect == Spec => []TypeOK
<1>1. TypeInv => TypeOK
  BY DEF TypeInv
<1>. QED  BY <1>1, InitTypeInv, TypeStep, PTL DEF Spec

-----------------------------------------------------------------------------
\* One request is handled at a time.
OneThread == \A t, u \in Thread : t = u

\* The request of t has changed the states; it has not gone wrong yet, or has been
\* saved; it has been saved.
Changed(t) == pc[t] \notin {"idle", "change"}
Intact(t)  == pc[t] \in {"idle", "change", "dump", "open", "write", "replace", "answer"}
Done(t)    == pc[t] \in {"finally", "unlink", "answer"} /\ ~failing[t]

\* The invariant of the files: the temporary file is not the journal, and what is
\* about to replace the journal is what the manager has in memory.
FileInv ==
    /\ temp # NoFile => temp # journal
    /\ \A t \in Thread :
        /\ pc[t] \in {"open", "write"} => image[t] = states
        /\ pc[t] = "write" => handle[t] = temp /\ temp # NoFile /\ content[temp] = Blank
        /\ pc[t] = "replace" => temp # NoFile /\ content[temp] = Json(states)
        /\ pc[t] = "unlink" => temp # NoFile
        /\ Intact(t) => ~failing[t]

\* The invariant of the request: its entry is in memory, numbered with the runs at the
\* change, and the journal has the states once it is saved.
RequestInv ==
    \A t \in Thread :
        /\ Changed(t) =>
            /\ states[request[t].code] = EntryOf(request[t])
            /\ request[t].at <= runs
            /\ run - request[t].run = runs - request[t].at
        /\ Done(t) => Loaded = states

\* The invariant of the answers: apart from the alert a request has changed, and those
\* whose change failed, memory, journal and answers agree.
InFlight(c) == \E t \in Thread : Changed(t) /\ request[t].code = c
Written(c) == \E t \in Thread : Saved(t, c)
AnswerInv ==
    \A c \in Code \ unsure :
        /\ ~InFlight(c) => states[c] = answered[c]
        /\ ~Written(c) => Loaded[c] = answered[c]

\* The invariant of the cooldown, for the entries in memory and in the journal: there
\* is none for the alert, or it is over, or the entry numbers the resolution so late
\* that it hides the alert long enough.  It is over for an alert that is changed.
Over(c) == \/ resolvedAt[c] = Never \/ caughtUp
           \/ runs - resolvedAt[c] >= CooldownRuns
Hides(e, c) == Over(c) \/ (e.status = "resolved" /\ run - e.run <= runs - resolvedAt[c])
CooldownInv ==
    /\ \A c \in Code : Hides(states[c], c) /\ Hides(Loaded[c], c)
    /\ \A t \in Thread : pc[t] # "idle" => Over(request[t].code)

\* The invariant of its end: no entry numbers the resolution later than it was
\* answered.
Ends(e, c) == e.status = "resolved" /\ resolvedAt[c] # Never => e.run <= resolvedAt[c]
EndInv ==
    \A c \in Code \ unsure : /\ ~InFlight(c) => Ends(states[c], c)
                             /\ ~Written(c) => Ends(Loaded[c], c)

\* The invariant of the promises.
PromiseInv == RequestInv /\ AnswerInv /\ CooldownInv /\ EndInv

\* Unless the temporary file replaces it, the journal stays as it is.
LEMMA JournalKept ==
    ASSUME TypeInv, FileInv, NEW t \in Thread,
           \/ OpenTemp(t) \/ WriteTemp(t) \/ RemoveTemp(t) \/ UNCHANGED fileVars
    PROVE  Loaded' = Loaded
<1>1. /\ content \in [Inode -> Content] /\ journal \in Inode \cup {NoFile}
      /\ temp \in Inode \cup {NoFile} /\ NoFile \notin Inode
  BY AlertsAssumption DEF TypeInv, TypeOK, Content, AlertsAssumption
<1>2. journal' = journal /\ (journal # NoFile => content'[journal] = content[journal])
  <2>1. CASE OpenTemp(t)
    BY <1>1, <2>1, FreeFile DEF OpenTemp, FileInv, TypeInv
  <2>2. CASE WriteTemp(t)
    BY <1>1, <2>2 DEF WriteTemp, FileInv
  <2>3. CASE RemoveTemp(t)
    BY <1>1, <2>3 DEF RemoveTemp, Without, FileInv
  <2>4. CASE UNCHANGED fileVars
    BY <2>4 DEF fileVars
  <2>. QED  BY <2>1, <2>2, <2>3, <2>4
<1>. QED  BY <1>2 DEF Loaded

\* What replaces the journal is what is in memory.
LEMMA JournalReplaced ==
    ASSUME TypeInv, FileInv, NEW t \in Thread, Replace(t)
    PROVE  Loaded' = states /\ failing' = failing
<1>1. /\ content \in [Inode -> Content] /\ temp \in Inode /\ temp # journal
      /\ content[temp] = Json(states) /\ temp # NoFile
  BY DEF TypeInv, TypeOK, Content, FileInv, Replace
<1>2. journal' = temp /\ content'[temp] = content[temp] /\ failing' = failing
  BY <1>1 DEF Replace, Without
<1>. QED  BY <1>1, <1>2 DEF Loaded, Json

\* Every step keeps the invariant of the files.
LEMMA FileStep == OneThread /\ TypeInv /\ FileInv /\ [Next]_vars => FileInv'
<1>1. SUFFICES ASSUME OneThread, TypeInv, FileInv, [Next]_vars PROVE FileInv'
  OBVIOUS
<1>. USE DEF FileInv, Intact, Goto
<1>2. /\ content \in [Inode -> Content] /\ journal \in Inode \cup {NoFile}
      /\ temp \in Inode \cup {NoFile} /\ NoFile \notin Inode
      /\ pc \in [Thread -> PC] /\ image \in [Thread -> States]
      /\ handle \in [Thread -> Inode \cup {NoFile}] /\ failing \in [Thread -> BOOLEAN]
  BY <1>1, AlertsAssumption DEF TypeInv, TypeOK, Content, AlertsAssumption
<1>3. ASSUME NEW v \in BOOLEAN, RecordRun(v) PROVE FileInv'
  BY <1>1, <1>3 DEF RecordRun, fileVars, threadVars
<1>4. ASSUME NEW t \in Thread, NEW c, NEW s, Check(t, c, s) PROVE FileInv'
  BY <1>1, <1>2, <1>4 DEF Check, OneThread, fileVars
<1>5. ASSUME NEW t \in Thread, Change(t) PROVE FileInv'
  BY <1>1, <1>2, <1>5 DEF Change, OneThread, fileVars
<1>6. ASSUME NEW t \in Thread, Dump(t) PROVE FileInv'
  BY <1>1, <1>2, <1>6 DEF Dump, Serialised, OneThread, fileVars
<1>7. ASSUME NEW t \in Thread, OpenTemp(t) PROVE FileInv'
  <2>. DEFINE i == IF temp # NoFile THEN temp ELSE NewFile
  <2>1. i \in Inode /\ i # journal
    BY <1>1, <1>2, <1>7, FreeFile DEF OpenTemp, TypeInv
  <2>2. /\ temp' = i /\ handle' = [handle EXCEPT ![t] = i]
        /\ content' = [content EXCEPT ![i] = Blank]
    BY <1>7 DEF OpenTemp
  <2>. HIDE DEF i
  <2>. QED  BY <1>1, <1>2, <1>7, <2>1, <2>2 DEF OpenTemp, OneThread
<1>8. ASSUME NEW t \in Thread, WriteTemp(t) PROVE FileInv'
  <2>1. Overwrite(Blank, image[t]) = Json(states)
    BY <1>1, <1>8 DEF WriteTemp, Overwrite, Blank
  <2>2. content'[temp] = Json(states)
    BY <1>1, <1>2, <1>8, <2>1 DEF WriteTemp
  <2>. QED  BY <1>1, <1>2, <1>8, <2>2 DEF WriteTemp, OneThread
<1>9. ASSUME NEW t \in Thread, Replace(t) PROVE FileInv'
  BY <1>1, <1>2, <1>9 DEF Replace, OneThread
<1>10. ASSUME NEW t \in Thread, LookForTemp(t) PROVE FileInv'
  BY <1>1, <1>2, <1>10 DEF LookForTemp, Leave, OneThread, fileVars
<1>11. ASSUME NEW t \in Thread, RemoveTemp(t) PROVE FileInv'
  BY <1>1, <1>2, <1>11 DEF RemoveTemp, Leave, OneThread
<1>12. ASSUME NEW t \in Thread, Answer(t) PROVE FileInv'
  BY <1>1, <1>2, <1>12 DEF Answer, OneThread, fileVars
<1>13. ASSUME NEW t \in Thread, Fail(t) PROVE FileInv'
  BY <1>1, <1>2, <1>13 DEF Fail, OneThread, fileVars
<1>14. CASE Restart
  BY <1>1, <1>14 DEF Restart, fileVars
<1>15. CASE UNCHANGED vars
  BY <1>1, <1>15 DEF vars, fileVars, threadVars
<1>. QED
  BY <1>1, <1>3, <1>4, <1>5, <1>6, <1>7, <1>8, <1>9, <1>10, <1>11, <1>12, <1>13, <1>14, <1>15
     DEF Next, Work

-----------------------------------------------------------------------------
\* The numbers the invariants compare.
LEMMA Numbers ==
    ASSUME TypeInv
    PROVE  /\ run \in Int /\ runs \in Int /\ run <= runs /\ CooldownRuns \in Nat
           /\ resolvedAt \in [Code -> Int]
           /\ \A c \in Code : states[c].run \in Int /\ Loaded[c].run \in Int
           /\ \A t \in Thread : /\ request[t] \in Request /\ request[t].code \in Code
                                /\ request[t].at \in Int /\ request[t].run \in Int
<1>1. MaxRuns \in Nat /\ CooldownRuns \in Nat /\ Never \in Int
  BY AlertsAssumption DEF AlertsAssumption, Never
<1>2. Loaded \in States /\ states \in States
  BY LoadedType DEF TypeInv, TypeOK
<1>3. \A c \in Code : states[c].run \in Int /\ Loaded[c].run \in Int
  BY <1>1, <1>2 DEF States, Entry
<1>4. \A t \in Thread : request[t] \in Request
  BY DEF TypeInv, TypeOK
<1>5. \A t \in Thread : /\ request[t].code \in Code
                        /\ request[t].at \in Int /\ request[t].run \in Int
  BY <1>1, <1>4 DEF Request
<1>6. run \in Int /\ runs \in Int /\ run <= runs
  BY <1>1 DEF TypeInv, TypeOK, RunsInv
<1>7. resolvedAt \in [Code -> Int]
  BY <1>1 DEF TypeInv, TypeOK
<1>. QED  BY <1>1, <1>3, <1>4, <1>5, <1>6, <1>7

\* An alert that is shown is not in the cooldown of an answered resolution.
LEMMA VisibleIsOver ==
    ASSUME TypeInv, CooldownInv, NEW c \in Code, c \in Visible
    PROVE  Over(c)
<1>1. Hides(states[c], c) /\ ~Suppressed(c)
  BY DEF CooldownInv, Visible
<1>2. /\ run \in Int /\ runs \in Int /\ CooldownRuns \in Nat
      /\ states[c].run \in Int /\ resolvedAt[c] \in Int
  BY Numbers
<1>. QED  BY <1>1, <1>2 DEF Hides, Suppressed, Over

\* At first there is nothing to promise.
LEMMA InitPromise == Init => FileInv /\ PromiseInv
<1>1. SUFFICES ASSUME Init PROVE FileInv /\ PromiseInv
  OBVIOUS
<1>2. Loaded = NoStates
  BY <1>1 DEF Init, Loaded
<1>3. FileInv
  BY <1>1 DEF Init, FileInv, Intact
<1>4. RequestInv /\ AnswerInv
  BY <1>1, <1>2 DEF Init, RequestInv, AnswerInv, Changed, Done
<1>5. CooldownInv /\ EndInv
  BY <1>1, <1>2 DEF Init, CooldownInv, EndInv, Hides, Over, Ends
<1>. QED  BY <1>3, <1>4, <1>5 DEF PromiseInv

\* A step of save() that does not end the request: it leaves the journal alone, or
\* gives it the states.
LEMMA SaveStep ==
    ASSUME OneThread, TypeInv, PromiseInv, NEW t \in Thread,
           Changed(t), Changed(t)',
           UNCHANGED <<states, answered, resolvedAt, unsure, run, runs, caughtUp, request>>,
           \/ Done(t)' /\ Loaded' = states
           \/ ~Done(t)' /\ ~Done(t) /\ Loaded' = Loaded
    PROVE  PromiseInv'
<1>1. \A u \in Thread : u = t
  BY DEF OneThread
<1>2. Changed(t) => pc[t] # "idle"
  BY DEF Changed
<1>3. \A c \in Code : /\ InFlight(c)' <=> InFlight(c)
                      /\ InFlight(c) <=> request[t].code = c
                      /\ Written(c)' <=> Done(t)' /\ request[t].code = c
                      /\ Written(c) <=> Done(t) /\ request[t].code = c
  BY <1>1 DEF InFlight, Written, Saved, Done
<1>4. RequestInv'
  BY <1>1 DEF PromiseInv, RequestInv
<1>5. AnswerInv'
  BY <1>3 DEF PromiseInv, AnswerInv
<1>6. CooldownInv'
  BY <1>1, <1>2 DEF PromiseInv, CooldownInv, Hides, Over
<1>7. EndInv'
  BY <1>3 DEF PromiseInv, EndInv, Ends
<1>. QED  BY <1>4, <1>5, <1>6, <1>7 DEF PromiseInv

\* A request that fails leaves its alert unsure.
LEMMA FailedStep ==
    ASSUME OneThread, TypeInv, PromiseInv, NEW t \in Thread,
           Changed(t), failing[t], pc[t] # "answer", pc'[t] = "idle", Loaded' = Loaded,
           UNCHANGED <<states, answered, resolvedAt, run, runs, caughtUp>>,
           unsure' = unsure \cup {request[t].code}
    PROVE  PromiseInv'
<1>1. \A u \in Thread : u = t
  BY DEF OneThread
<1>2. \A c \in Code : /\ ~InFlight(c)' /\ ~Written(c)' /\ ~Written(c)
                      /\ InFlight(c) <=> request[t].code = c
  BY <1>1 DEF InFlight, Written, Saved, Changed
<1>3. RequestInv'
  BY <1>1 DEF RequestInv, Changed, Done
<1>4. AnswerInv' /\ EndInv'
  BY <1>2 DEF PromiseInv, AnswerInv, EndInv, Ends
<1>5. CooldownInv'
  BY <1>1 DEF PromiseInv, CooldownInv, Hides, Over
<1>. QED  BY <1>3, <1>4, <1>5 DEF PromiseInv

\* The change: the alert is visible, so that no cooldown hides it.
LEMMA ChangeStep ==
    ASSUME OneThread, TypeInv, PromiseInv, NEW t \in Thread, Change(t)
    PROVE  PromiseInv'
<1>. USE DEF Change, Goto, metricVars, fileVars, threadVars, ghostVars
<1>1. \A u \in Thread : u = t
  BY DEF OneThread
<1>2. /\ states \in [Code -> Entry] /\ request \in [Thread -> Request]
      /\ pc \in [Thread -> PC] /\ failing \in [Thread -> BOOLEAN]
      /\ request[t].code \in Code /\ run \in Int /\ runs \in Int
  BY Numbers DEF TypeInv, TypeOK, States
<1>3. /\ request'[t].code = request[t].code /\ request'[t].at = runs /\ request'[t].run = run
      /\ pc[t] = "change" /\ pc'[t] = "dump"
  BY <1>2 DEF Request
<1>4. /\ states'[request[t].code] = EntryOf(request'[t])
      /\ \A c \in Code : c # request[t].code => states'[c] = states[c]
  BY <1>2
<1>5. Loaded' = Loaded
  BY DEF Loaded
<1>6. \A c \in Code : /\ ~InFlight(c) /\ ~Written(c) /\ ~Written(c)'
                      /\ InFlight(c)' <=> request[t].code = c
  BY <1>1, <1>3 DEF InFlight, Written, Saved, Changed
<1>7. RequestInv'
  BY <1>1, <1>2, <1>3, <1>4 DEF RequestInv, Changed, Done
<1>8. AnswerInv' /\ EndInv'
  BY <1>4, <1>5, <1>6 DEF PromiseInv, AnswerInv, EndInv, Ends
<1>9. CooldownInv'
  <2>1. \A c \in Code : Over(c)' <=> Over(c)
    BY DEF Over
  <2>2. Over(request[t].code)
    BY <1>3 DEF PromiseInv, CooldownInv
  <2>3. run' = run /\ runs' = runs /\ resolvedAt' = resolvedAt
    OBVIOUS
  <2>. HIDE DEF Change
  <2>4. \A c \in Code : Hides(states[c], c)' /\ Hides(Loaded[c], c)'
    BY <1>4, <1>5, <2>1, <2>2, <2>3 DEF PromiseInv, CooldownInv, Hides
  <2>5. Over(request[t].code)'
    BY <1>2, <1>3, <2>1, <2>2
  <2>. QED  BY <1>1, <2>4, <2>5 DEF CooldownInv
<1>. QED  BY <1>7, <1>8, <1>9 DEF PromiseInv

\* The answer: what it promises is in memory and in the journal.
LEMMA AnswerStep ==
    ASSUME OneThread, TypeInv, FileInv, PromiseInv, NEW t \in Thread, Answer(t)
    PROVE  PromiseInv'
<1>. USE DEF Answer, Goto, metricVars, fileVars, threadVars, ghostVars
<1>. DEFINE k == request[t].code
<1>1. \A u \in Thread : u = t
  BY DEF OneThread
<1>2. /\ answered \in [Code -> Entry] /\ pc \in [Thread -> PC]
      /\ resolvedAt \in [Code -> Int] /\ k \in Code
      /\ run \in Int /\ runs \in Int /\ run <= runs /\ CooldownRuns \in Nat
      /\ request[t].at \in Int /\ request[t].run \in Int
  BY Numbers DEF TypeInv, TypeOK, States
<1>3. pc[t] = "answer" /\ pc'[t] = "idle" /\ ~failing[t]
  BY <1>2 DEF FileInv, Intact
<1>4. Changed(t) /\ Done(t)
  BY <1>3 DEF Changed, Done
<1>5. /\ Loaded = states /\ Loaded' = states /\ states[k] = EntryOf(request[t])
      /\ run - request[t].run = runs - request[t].at
  BY <1>4 DEF PromiseInv, RequestInv, Loaded
<1>6. /\ answered'[k] = states[k]
      /\ \A c \in Code : c # k => answered'[c] = answered[c] /\ resolvedAt'[c] = resolvedAt[c]
      /\ resolvedAt'[k] = IF request[t].to = "resolved" THEN request[t].at ELSE resolvedAt[k]
      /\ unsure' = unsure \ {k}
  BY <1>2, <1>5
<1>7. /\ (states[k].status = "resolved") = (request[t].to = "resolved")
      /\ request[t].to = "resolved" => states[k].run = request[t].run
  BY <1>5 DEF EntryOf
<1>8. \A c \in Code : /\ ~InFlight(c)' /\ ~Written(c)'
                      /\ InFlight(c) <=> k = c
                      /\ Written(c) <=> k = c
  BY <1>1, <1>3 DEF InFlight, Written, Saved, Changed
<1>9. RequestInv'
  BY <1>1, <1>3 DEF RequestInv, Changed, Done
<1>10. AnswerInv'
  BY <1>5, <1>6, <1>8 DEF PromiseInv, AnswerInv
<1>11. UNCHANGED <<states, run, runs, caughtUp>>
  OBVIOUS
<1>12. Over(k)
  BY <1>3 DEF PromiseInv, CooldownInv
<1>. HIDE DEF k, Answer
<1>13. CooldownInv'
  <2>1. ASSUME NEW c \in Code PROVE Hides(states[c], c)'
    <3>1. CASE c # k
      BY <1>6, <1>11, <2>1, <3>1 DEF PromiseInv, CooldownInv, Hides, Over
    <3>2. CASE c = k /\ request[t].to = "resolved"
      BY <1>2, <1>5, <1>6, <1>7, <1>11, <3>2 DEF Hides
    <3>3. CASE c = k /\ request[t].to # "resolved"
      BY <1>6, <1>11, <1>12, <3>3 DEF Hides, Over
    <3>. QED  BY <3>1, <3>2, <3>3
  <2>. QED  BY <1>1, <1>3, <1>5, <1>11, <2>1 DEF CooldownInv, Hides
<1>14. EndInv'
  <2>1. ASSUME NEW c \in Code \ unsure' PROVE Ends(states[c], c)'
    <3>1. CASE c # k
      BY <1>6, <1>8, <1>11, <3>1 DEF PromiseInv, EndInv, Ends
    <3>2. CASE c = k
      BY <1>2, <1>5, <1>6, <1>7, <1>11, <3>2 DEF Ends
    <3>. QED  BY <3>1, <3>2
  <2>. QED  BY <1>5, <1>11, <2>1 DEF EndInv, Ends
<1>. QED  BY <1>9, <1>10, <1>13, <1>14 DEF PromiseInv

\* A restart: memory is what the journal has, and that is what was promised.
LEMMA RestartStep ==
    ASSUME OneThread, TypeInv, TypeInv', FileInv, PromiseInv, Restart
    PROVE  PromiseInv'
<1>1. /\ states' = Loaded /\ answered' = Loaded /\ runs' = runs /\ unsure' = unsure
      /\ \A t \in Thread : pc'[t] = "idle"
      /\ caughtUp => caughtUp'
      /\ Loaded' = Loaded
  BY DEF Restart, TypeInv, TypeOK, fileVars, Loaded
<1>2. /\ run \in Int /\ runs \in Int /\ run <= runs /\ CooldownRuns \in Nat
      /\ resolvedAt \in [Code -> Int] /\ run' \in Int
      /\ \A c \in Code : Loaded[c].run \in Int
  BY Numbers, AlertsAssumption DEF TypeInv, TypeOK, AlertsAssumption
<1>3. caughtUp' \/ run' <= run
  <2>1. Len(stored) \in Nat /\ run \in Nat
    BY LenProperties, AlertsAssumption DEF TypeInv, TypeOK, AlertsAssumption
  <2>2. \/ run' = 0
        \/ run' = Len(stored) /\ caughtUp' = (caughtUp \/ Len(stored) > run)
    BY Zenon DEF Restart
  <2>3. Len(stored) > run /\ run' = Len(stored) => caughtUp' \/ run' = 0
    BY <2>2, Zenon
  <2>4. run' <= run \/ (Len(stored) > run /\ run' = Len(stored))
    BY <2>1, <2>2
  <2>5. run' = 0 => run' <= run
    BY <2>1
  <2>. QED  BY <2>3, <2>4, <2>5, Zenon
<1>4. ASSUME NEW c \in Code, NEW t \in Thread, Saved(t, c)
      PROVE  /\ Written(c) /\ Loaded[c] = EntryOf(request[t])
             /\ run - request[t].run = runs - request[t].at
             /\ resolvedAt'[c] = IF request[t].to = "resolved" THEN request[t].at
                                 ELSE resolvedAt[c]
             /\ pc[t] # "idle" /\ request[t].code = c
  <2>1. Changed(t) /\ Done(t) /\ request[t].code = c
    BY <1>4 DEF Saved, Changed, Done
  <2>2. \A u \in Thread : u = t
    BY DEF OneThread
  <2>3. (CHOOSE u \in Thread : Saved(u, c)) = t
    BY <1>4, <2>2
  <2>4. resolvedAt'[c] = IF request[t].to = "resolved" THEN request[t].at ELSE resolvedAt[c]
    BY <1>4, <2>2, <2>3 DEF Restart
  <2>. QED  BY <1>4, <2>1, <2>4 DEF PromiseInv, RequestInv, Written, Changed
<1>5. ASSUME NEW c \in Code, ~Written(c) PROVE resolvedAt'[c] = resolvedAt[c]
  BY <1>5 DEF Restart, Written
<1>6. \A c \in Code : ~InFlight(c)' /\ ~Written(c)'
  BY <1>1 DEF InFlight, Written, Saved, Changed
<1>7. RequestInv'
  BY <1>1 DEF RequestInv, Changed, Done
<1>8. AnswerInv'
  BY <1>1 DEF AnswerInv
<1>9. ASSUME NEW c \in Code
      PROVE  /\ Hides(Loaded[c], c)'
             /\ c \notin unsure => Ends(Loaded[c], c)'
  <2>. DEFINE e == Loaded[c]
  <2>1. e' = e /\ Hides(e, c) /\ e.run \in Int /\ resolvedAt[c] \in Int
    BY <1>1, <1>2 DEF PromiseInv, CooldownInv
  <2>2. CASE \E t \in Thread : Saved(t, c)
    <3>1. PICK t \in Thread : Saved(t, c)
      BY <2>2
    <3>2. /\ e = EntryOf(request[t]) /\ run - request[t].run = runs - request[t].at
          /\ resolvedAt'[c] = IF request[t].to = "resolved" THEN request[t].at
                              ELSE resolvedAt[c]
          /\ pc[t] # "idle" /\ request[t].code = c
      BY <1>4, <3>1
    <3>3. request[t].at \in Int /\ request[t].run \in Int
      BY Numbers
    <3>. HIDE DEF e
    <3>4. CASE request[t].to = "resolved"
      <4>1. e.status = "resolved" /\ e.run = request[t].run /\ resolvedAt'[c] = request[t].at
        BY <3>2, <3>4 DEF EntryOf
      <4>2. Hides(e, c)'
        BY <1>1, <1>2, <1>3, <2>1, <3>2, <3>3, <4>1 DEF Hides, Over
      <4>3. Ends(e, c)'
        BY <1>2, <2>1, <3>2, <3>3, <4>1 DEF Ends
      <4>. QED  BY <4>2, <4>3 DEF e
    <3>5. CASE request[t].to # "resolved"
      <4>1. e.status # "resolved" /\ resolvedAt'[c] = resolvedAt[c]
        BY <3>2, <3>5 DEF EntryOf
      <4>2. Over(c)
        BY <3>2 DEF PromiseInv, CooldownInv
      <4>3. Hides(e, c)'
        BY <1>1, <4>1, <4>2 DEF Hides, Over
      <4>4. Ends(e, c)'
        BY <2>1, <4>1 DEF Ends
      <4>. QED  BY <4>3, <4>4 DEF e
    <3>. QED  BY <3>4, <3>5
  <2>3. CASE ~\E t \in Thread : Saved(t, c)
    <3>1. resolvedAt'[c] = resolvedAt[c] /\ ~Written(c)
      BY <1>5, <2>3 DEF Written
    <3>2. c \notin unsure => Ends(e, c)
      BY <3>1 DEF PromiseInv, EndInv
    <3>. HIDE DEF e
    <3>3. c \notin unsure => Ends(e, c)'
      BY <2>1, <3>1, <3>2 DEF Ends
    <3>4. Hides(e, c)'
      BY <1>1, <1>2, <1>3, <2>1, <3>1 DEF Hides, Over
    <3>. QED  BY <3>3, <3>4 DEF e
  <2>. QED  BY <2>2, <2>3
<1>10. CooldownInv' /\ EndInv'
  BY <1>1, <1>9 DEF CooldownInv, EndInv, Hides, Ends
<1>. QED  BY <1>7, <1>8, <1>10 DEF PromiseInv

\* Every step keeps the promises.
LEMMA PromiseStep ==
    OneThread /\ TypeInv /\ TypeInv' /\ FileInv /\ PromiseInv /\ [Next]_vars => PromiseInv'
<1>1. SUFFICES ASSUME OneThread, TypeInv, TypeInv', FileInv, PromiseInv, [Next]_vars
               PROVE  PromiseInv'
  OBVIOUS
<1>2. \A t, u \in Thread : t = u
  BY <1>1 DEF OneThread
<1>3. /\ pc \in [Thread -> PC] /\ failing \in [Thread -> BOOLEAN]
      /\ request \in [Thread -> Request]
  BY <1>1 DEF TypeInv, TypeOK
<1>. USE DEF Goto, metricVars, fileVars, threadVars, ghostVars
<1>4. ASSUME NEW v \in BOOLEAN, RecordRun(v) PROVE PromiseInv'
  <2>1. /\ run' = run + 1 /\ runs' = runs + 1
        /\ UNCHANGED <<states, answered, resolvedAt, unsure, caughtUp, request, pc, failing>>
        /\ Loaded' = Loaded
    BY <1>4 DEF RecordRun, Loaded
  <2>2. /\ run \in Int /\ runs \in Int /\ CooldownRuns \in Nat /\ resolvedAt \in [Code -> Int]
        /\ \A c \in Code : states[c].run \in Int /\ Loaded[c].run \in Int
        /\ \A t \in Thread : /\ request[t].code \in Code
                             /\ request[t].at \in Int /\ request[t].run \in Int
    BY <1>1, Numbers
  <2>3. /\ \A c \in Code : (InFlight(c)' <=> InFlight(c)) /\ (Written(c)' <=> Written(c))
        /\ \A t \in Thread : (Changed(t)' <=> Changed(t)) /\ (Done(t)' <=> Done(t))
    BY <2>1 DEF InFlight, Written, Saved, Changed, Done
  <2>4. RequestInv'
    BY <1>1, <2>1, <2>2, <2>3 DEF PromiseInv, RequestInv
  <2>5. AnswerInv' /\ EndInv'
    BY <1>1, <2>1, <2>3 DEF PromiseInv, AnswerInv, EndInv, Ends
  <2>6. \A c \in Code : Over(c) => Over(c)'
    BY <2>1, <2>2 DEF Over
  <2>7. \A c \in Code : /\ Hides(states[c], c) => Hides(states[c], c)'
                        /\ Hides(Loaded[c], c) => Hides(Loaded[c], c)'
    BY <2>1, <2>2, <2>6 DEF Hides
  <2>8. CooldownInv'
    BY <1>1, <2>1, <2>2, <2>6, <2>7 DEF PromiseInv, CooldownInv
  <2>. QED  BY <2>4, <2>5, <2>8 DEF PromiseInv
<1>5. ASSUME NEW t \in Thread, NEW c \in Code, NEW s, Check(t, c, s) PROVE PromiseInv'
  <2>1. /\ UNCHANGED <<states, answered, resolvedAt, unsure, run, runs, caughtUp>>
        /\ Loaded' = Loaded
        /\ pc[t] = "idle" /\ pc'[t] = "change" /\ request'[t].code = c
    BY <1>3, <1>5 DEF Check, Loaded
  <2>2. Over(c)
    BY <1>1, <1>5, VisibleIsOver DEF Check, PromiseInv
  <2>3. \A d \in Code : ~InFlight(d) /\ ~InFlight(d)' /\ ~Written(d) /\ ~Written(d)'
    BY <1>2, <2>1 DEF InFlight, Written, Saved, Changed
  <2>4. RequestInv'
    BY <1>2, <2>1 DEF RequestInv, Changed, Done
  <2>5. AnswerInv' /\ EndInv'
    BY <1>1, <2>1, <2>3 DEF PromiseInv, AnswerInv, EndInv, Ends
  <2>6. CooldownInv'
    BY <1>1, <1>2, <2>1, <2>2 DEF PromiseInv, CooldownInv, Hides, Over
  <2>. QED  BY <2>4, <2>5, <2>6 DEF PromiseInv
<1>6. ASSUME NEW t \in Thread, Change(t) PROVE PromiseInv'
  BY <1>1, <1>6, ChangeStep
<1>7. ASSUME NEW t \in Thread, Dump(t) \/ OpenTemp(t) \/ WriteTemp(t) \/ Fail(t)
      PROVE  PromiseInv'
  <2>1. Loaded' = Loaded
    BY <1>1, <1>7, JournalKept DEF Dump, Fail
  <2>2. /\ UNCHANGED <<states, answered, resolvedAt, unsure, run, runs, caughtUp, request>>
        /\ Changed(t) /\ Changed(t)'
        /\ ~Done(t) /\ ~Done(t)'
    BY <1>3, <1>7 DEF Dump, OpenTemp, WriteTemp, Fail, Changed, Done
  <2>. QED  BY <1>1, <2>1, <2>2, SaveStep
<1>8. ASSUME NEW t \in Thread, Replace(t) PROVE PromiseInv'
  <2>1. Loaded' = states /\ failing' = failing /\ ~failing[t]
    BY <1>1, <1>8, JournalReplaced DEF Replace, FileInv, Intact
  <2>2. /\ UNCHANGED <<states, answered, resolvedAt, unsure, run, runs, caughtUp, request>>
        /\ Changed(t) /\ Changed(t)' /\ Done(t)'
    BY <1>3, <1>8, <2>1 DEF Replace, Changed, Done
  <2>. QED  BY <1>1, <2>1, <2>2, SaveStep
<1>9. ASSUME NEW t \in Thread, LookForTemp(t) \/ RemoveTemp(t) PROVE PromiseInv'
  <2>1. Loaded' = Loaded
    BY <1>1, <1>9, JournalKept DEF LookForTemp
  <2>2. /\ UNCHANGED <<states, answered, resolvedAt, run, runs, caughtUp>>
        /\ Changed(t) /\ pc[t] # "answer"
    BY <1>3, <1>9 DEF LookForTemp, RemoveTemp, Changed
  <2>3. Done(t) <=> ~failing[t]
    BY <1>9 DEF LookForTemp, RemoveTemp, Done
  <2>4. Done(t) => Loaded = states
    BY <1>1, <2>3 DEF PromiseInv, RequestInv
  <2>5. \/ /\ failing[t] /\ pc'[t] = "idle" /\ unsure' = unsure \cup {request[t].code}
        \/ /\ Changed(t)' /\ UNCHANGED <<unsure, request>>
           /\ Done(t)' <=> Done(t)
    <3>1. CASE LookForTemp(t)
      BY <1>3, <3>1 DEF LookForTemp, Leave, Changed, Done
    <3>2. CASE RemoveTemp(t)
      BY <1>1, <1>3, <3>2 DEF RemoveTemp, Leave, Changed, Done, FileInv
    <3>. QED  BY <1>9, <3>1, <3>2
  <2>6. CASE failing[t] /\ pc'[t] = "idle" /\ unsure' = unsure \cup {request[t].code}
    BY <1>1, <2>1, <2>2, <2>6, FailedStep
  <2>7. CASE Changed(t)' /\ UNCHANGED <<unsure, request>> /\ (Done(t)' <=> Done(t))
    BY <1>1, <2>1, <2>2, <2>4, <2>7, SaveStep
  <2>. QED  BY <2>5, <2>6, <2>7
<1>10. ASSUME NEW t \in Thread, Answer(t) PROVE PromiseInv'
  BY <1>1, <1>10, AnswerStep
<1>11. CASE Restart
  BY <1>1, <1>11, RestartStep
<1>12. CASE UNCHANGED vars
  <2>1. /\ UNCHANGED <<states, answered, resolvedAt, unsure, run, runs, caughtUp, request>>
        /\ UNCHANGED <<pc, failing>> /\ Loaded' = Loaded
    BY <1>12 DEF vars, Loaded
  <2>. QED
    BY <1>1, <2>1 DEF PromiseInv, RequestInv, AnswerInv, CooldownInv, EndInv, Hides, Over,
                      Ends, InFlight, Written, Saved, Changed, Done
<1>. QED
  BY <1>1, <1>4, <1>5, <1>6, <1>7, <1>8, <1>9, <1>10, <1>11, <1>12 DEF Next, Work

\* The types, the files and the promises, for a service that handles one request at a
\* time.
THEOREM Promises ==
    ASSUME OneThread
    PROVE  Spec => [](TypeInv /\ FileInv /\ PromiseInv)
<1>1. Init => TypeInv /\ FileInv /\ PromiseInv
  BY InitTypeInv, InitPromise
<1>2. TypeInv /\ FileInv /\ PromiseInv /\ [Next]_vars => (TypeInv /\ FileInv /\ PromiseInv)'
  BY TypeStep, FileStep, PromiseStep
<1>. QED  BY <1>1, <1>2, PTL DEF Spec

\* With one request at a time, a change that was answered with 200 stays in the journal
\* until a later change of the same alert is there, through failed saves and restarts.
THEOREM AnsweredStaysSaved ==
    ASSUME OneThread
    PROVE  Spec => []AnsweredIsDurable
<1>1. TypeInv /\ FileInv /\ PromiseInv => AnsweredIsDurable
  <2>1. SUFFICES ASSUME PromiseInv, NEW c \in Code \ unsure
                 PROVE  Loaded[c] \in {answered[c], states[c]}
    BY DEF AnsweredIsDurable
  <2>2. CASE ~Written(c)
    BY <2>1, <2>2 DEF PromiseInv, AnswerInv
  <2>3. CASE Written(c)
    BY <2>1, <2>3 DEF PromiseInv, RequestInv, Written, Saved, Done
  <2>. QED  BY <2>2, <2>3
<1>. QED  BY <1>1, Promises, PTL

\* With one request at a time, an alert whose resolution was answered is not shown
\* during the cooldown, through failed saves and restarts.
THEOREM ResolutionHides ==
    ASSUME OneThread
    PROVE  Spec => []HiddenInCooldown
<1>1. TypeInv /\ FileInv /\ PromiseInv => HiddenInCooldown
  <2>1. SUFFICES ASSUME TypeInv, PromiseInv, NEW c \in Visible,
                        resolvedAt[c] # Never, ~caughtUp
                 PROVE  runs - resolvedAt[c] >= CooldownRuns
    BY DEF HiddenInCooldown
  <2>2. c \in Code
    BY DEF Visible
  <2>. QED  BY <2>1, <2>2, VisibleIsOver DEF PromiseInv, Over
<1>. QED  BY <1>1, Promises, PTL

\* With one request at a time, a resolved alert shows again when its cooldown is over,
\* as long as the program counts all the runs.
THEOREM ResolutionEnds ==
    ASSUME OneThread
    PROVE  Spec => []ShownAfterCooldown
<1>1. TypeInv /\ FileInv /\ PromiseInv => ShownAfterCooldown
  <2>1. SUFFICES ASSUME TypeInv, PromiseInv, NEW c \in Code \ unsure,
                        Suppressed(c),
                        \A t \in Thread : pc[t] = "idle" \/ request[t].code # c,
                        resolvedAt[c] # Never, run = runs
                 PROVE  runs - resolvedAt[c] < CooldownRuns
    BY DEF ShownAfterCooldown
  <2>2. ~InFlight(c)
    BY <2>1 DEF InFlight, Changed
  <2>3. Ends(states[c], c)
    BY <2>1, <2>2 DEF PromiseInv, EndInv
  <2>4. /\ runs \in Int /\ states[c].run \in Int /\ resolvedAt[c] \in Int
        /\ CooldownRuns \in Nat
    BY <2>1, Numbers
  <2>. QED  BY <2>1, <2>3, <2>4 DEF Suppressed, Ends
<1>. QED  BY <1>1, Promises, PTL

=============================================================================
