---------------------------- MODULE PaperAlerts ----------------------------
(***************************************************************************)
(* The alert lifecycle: PaperAlertManager and PaperAlertJournal            *)
(* (app/services/paper_alerts.py) behind the acknowledge and resolve       *)
(* endpoints of app/main.py, which the web framework runs in the threads   *)
(* of one process, and the alerts PaperValidationMetrics raises.  The      *)
(* manager keeps the states of the alerts in memory and rewrites the whole *)
(* journal after each change, through a temporary file that all the        *)
(* threads share and no lock protects; files are inodes that a path names, *)
(* so that a thread can write to a file another one has renamed meanwhile. *)
(* The metrics count a run in one step here; ValidationMetrics has their   *)
(* steps.                                                                  *)
(***************************************************************************)
EXTENDS Integers, FiniteSets, JournalFile

CONSTANTS Thread,       \* the request threads
          CooldownRuns, \* cooldown_runs of the manager
          MinRuns,      \* health_min_runs of the metrics
          ValidPct,     \* health_valid_rate_threshold of the metrics, in percent
          HistoryLimit, \* how many runs the history retains over a restart
          MaxRuns,      \* bound: how many validation runs there are
          Inode,        \* the files that can exist at once
          NoFile,       \* a path that names no file
          Fault         \* which faults there are

\* The file system has room for one file more than the threads can have open.
ASSUME AlertsAssumption ==
    /\ IsFiniteSet(Thread) /\ IsFiniteSet(Inode)
    /\ Cardinality(Inode) > Cardinality(Thread)
    /\ CooldownRuns \in Nat
    /\ MinRuns \in Nat \ {0}
    /\ ValidPct \in 0..100
    /\ HistoryLimit \in Nat \ {0}
    /\ MaxRuns \in Nat
    /\ NoFile \notin Inode
    /\ Fault \subseteq {"io", "crash"}

VARIABLES
    run,      \* total_runs of the metrics, the current_run of every call
    valid,    \* valid_runs
    status,   \* history_status
    stored,   \* the runs the history file has, each valid or not
    tail,     \* how its last line ends
    states,   \* _states of the manager
    content,  \* what each file holds
    journal,  \* the file the journal path names
    temp,     \* the file the .tmp path names
    pc,       \* where each thread stands in its request
    request,  \* the code each thread changes, and how
    image,    \* the serialised states each thread is to write
    handle,   \* the file each thread has open for writing
    failing,  \* whether an OSError is propagating in the thread
    runs,     \* history variable: the runs since the first start
    answered, \* history variable: per code, the change last answered with 200
    resolvedAt, \* history variable: per code, `runs` at the last answered resolve
    unsure,   \* history variable: the codes whose change failed and was not repeated
    caughtUp  \* history variable: a restart found more runs than had been counted

metricVars == <<run, valid, status, stored, tail>>
fileVars == <<content, journal, temp>>
threadVars == <<request, image, handle, failing>>
ghostVars == <<runs, answered, resolvedAt, caughtUp>>
vars == <<metricVars, states, fileVars, pc, threadVars, ghostVars, unsure>>

\* The alerts of PaperValidationMetrics: the history cannot be used, and too few
\* runs are valid.
Code == {"history_unavailable", "rate_below_threshold"}

\* An entry of _states.  updated_run is never read.
NoEntry == [status |-> "none", run |-> 0]
Entry == [status : {"none", "acknowledged", "resolved"}, run : 0..MaxRuns]
States == [Code -> Entry]

NoStates == [c \in Code |-> NoEntry]

\* What a thread is asked to do, and when it did it: `at` counts all runs, `run`
\* those the program counts.
Request == [code : Code, to : {"acknowledged", "resolved"},
            at : 0..MaxRuns, run : 0..MaxRuns]

NoRequest == [code |-> CHOOSE c \in Code : TRUE, to |-> "acknowledged",
              at |-> 0, run |-> 0]

\* Mutant: the run of a resolution is counted from one.
EntryNextRun(q) == [status |-> q.to, run |-> IF q.to = "resolved" THEN q.run + 1 ELSE 0]

\* The entry a request leaves in _states.
EntryOf(q) == [status |-> q.to, run |-> IF q.to = "resolved" THEN q.run ELSE 0]

\* The content of a file: nothing yet, the states it was written with, or text
\* that parses as nothing.
Blank   == [kind |-> "blank", states |-> NoStates]
Garbled == [kind |-> "garbled", states |-> NoStates]
Json(s) == [kind |-> "json", states |-> s]

PC == {"idle", "change", "dump", "open", "write", "replace", "finally",
       "unlink", "answer"}

Never == -1

\* The type invariant: what the manager, the files and the requests hold.
TypeOK ==
    /\ run \in 0..MaxRuns
    /\ valid \in 0..run
    /\ status \in {"ok", "error"}
    /\ stored \in Seq(BOOLEAN)
    /\ tail \in {"ended", "cut", "open"}
    /\ states \in States
    /\ content \in [Inode -> [kind : {"blank", "garbled", "json"}, states : States]]
    /\ journal \in Inode \cup {NoFile}
    /\ temp \in Inode \cup {NoFile}
    /\ pc \in [Thread -> PC]
    /\ request \in [Thread -> Request]
    /\ image \in [Thread -> States]
    /\ handle \in [Thread -> Inode \cup {NoFile}]
    /\ failing \in [Thread -> BOOLEAN]
    /\ runs \in 0..MaxRuns
    /\ answered \in States
    /\ resolvedAt \in [Code -> {Never} \cup 0..MaxRuns]
    /\ unsure \subseteq Code
    /\ caughtUp \in BOOLEAN

Init ==
    /\ run = 0
    /\ valid = 0
    /\ status = "ok"
    /\ stored = <<>>
    /\ tail = "ended"
    /\ states = NoStates
    /\ content = [i \in Inode |-> Blank]
    /\ journal = NoFile
    /\ temp = NoFile
    /\ pc = [t \in Thread |-> "idle"]
    /\ request = [t \in Thread |-> NoRequest]
    /\ image = [t \in Thread |-> NoStates]
    /\ handle = [t \in Thread |-> NoFile]
    /\ failing = [t \in Thread |-> FALSE]
    /\ runs = 0
    /\ answered = NoStates
    /\ resolvedAt = [c \in Code |-> Never]
    /\ unsure = {}
    /\ caughtUp = FALSE

Goto(t, l) == pc' = [pc EXCEPT ![t] = l]

\* Mutant: the cooldown ends one run early.
SuppressedLess(c) ==
    /\ states[c].status = "resolved"
    /\ run - states[c].run < CooldownRuns - 1

\* Mutant: the cooldown is compared with <= instead of <.
SuppressedLonger(c) ==
    /\ states[c].status = "resolved"
    /\ run - states[c].run <= CooldownRuns

\* current() leaves out a resolved alert for CooldownRuns runs.
Suppressed(c) ==
    /\ states[c].status = "resolved"
    /\ run - states[c].run < CooldownRuns

\* alerts() raises c: "degraded" needs MinRuns runs.
Raised(c) ==
    \/ c = "history_unavailable"  /\ status = "error"
    \/ c = "rate_below_threshold" /\ run >= MinRuns /\ 100 * valid < ValidPct * run

Visible == {c \in Code : Raised(c) /\ ~Suppressed(c)}

ValidRuns(h) == Cardinality({i \in DOMAIN h : h[i]})

\* The states load() finds: none when there is no journal or it does not parse.
Loaded == IF journal # NoFile /\ content[journal].kind = "json"
          THEN content[journal].states ELSE NoStates

\* The length of the JSON text, up to its order: every entry adds to it, and more
\* when it has a resolved_run.
Length(s) == 2 * Cardinality({c \in Code : s[c].status # "none"})
             + Cardinality({c \in Code : s[c].status = "resolved"})

\* What a file holds once the text of s is written from its start: a longer text
\* that was there shows behind it.
Overwrite(old, s) ==
    IF old.kind # "blank" /\ (old.kind = "garbled" \/ Length(old.states) > Length(s))
    THEN Garbled ELSE Json(s)

\* A file that no path names and no thread has open.
NewFile == CHOOSE i \in Inode :
               i \notin {journal, temp} \cup {handle[t] : t \in Thread}

\* The files without file i, whose only path is gone.
Without(i) == [j \in Inode |-> IF j = i THEN Blank ELSE content[j]]
-----------------------------------------------------------------------------
\* The history file, but for the lines of it that do not parse.
File == [recs |-> stored, bad |-> 0, tail |-> tail]

\* The file once append() wrote the line of v and compacted.
Appended(v) == CleanFile(Newest(AddLine(File, v).recs, HistoryLimit))

\* record() counts a run, valid or not, and appends it to the history, which may
\* raise OSError before or after the run is in the file, in the middle of its line, or
\* after compaction.
RecordRun(v) ==
    /\ runs < MaxRuns
    /\ runs' = runs + 1
    /\ run' = run + 1
    /\ valid' = IF v THEN valid + 1 ELSE valid
    /\ \/ /\ stored' = Appended(v).recs
          /\ tail' = "ended"
          /\ status' = "ok"
       \/ /\ "io" \in Fault
          /\ \E f \in {File, AddLine(File, v), AddCut(File), AddOpen(File, v), Appended(v)} :
                stored' = f.recs /\ tail' = f.tail
          /\ status' = "error"
    /\ UNCHANGED <<states, fileVars, pc, threadVars, answered, resolvedAt, caughtUp, unsure>>

\* The endpoint finds the code among the current alerts.
Check(t, c, s) ==
    /\ pc[t] = "idle"
    /\ c \in Visible
    /\ request' = [request EXCEPT ![t] = [code |-> c, to |-> s, at |-> 0, run |-> 0]]
    /\ Goto(t, "change")
    /\ UNCHANGED <<metricVars, states, fileVars, image, handle, failing, ghostVars, unsure>>

\* acknowledge() and resolve() replace the entry of the code.
Change(t) ==
    /\ pc[t] = "change"
    /\ request' = [request EXCEPT ![t].at = runs, ![t].run = run]
    /\ states' = [states EXCEPT ![request[t].code] = EntryOf(request'[t])]
    /\ Goto(t, "dump")
    /\ UNCHANGED <<metricVars, fileVars, image, handle, failing, ghostVars, unsure>>

\* Mutant: the journal does not get the runs of the resolutions.
SerialisedUnnumbered == [c \in Code |-> [states[c] EXCEPT !.run = 0]]

\* What json.dumps() is given.
Serialised == states

\* save() serialises the states of all the alerts ...
Dump(t) ==
    /\ pc[t] = "dump"
    /\ image' = [image EXCEPT ![t] = Serialised]
    /\ Goto(t, "open")
    /\ UNCHANGED <<metricVars, states, fileVars, request, handle, failing, ghostVars, unsure>>

\* ... opens the temporary file, which creates or empties it ...
OpenTemp(t) ==
    /\ pc[t] = "open"
    /\ LET i == IF temp # NoFile THEN temp ELSE NewFile IN
        /\ temp' = i
        /\ handle' = [handle EXCEPT ![t] = i]
        /\ content' = [content EXCEPT ![i] = Blank]
    /\ Goto(t, "write")
    /\ UNCHANGED <<metricVars, states, journal, request, image, failing, ghostVars, unsure>>

\* ... writes the text and closes the file, whatever path names it by now ...
WriteTemp(t) ==
    /\ pc[t] = "write"
    /\ content' = [content EXCEPT ![handle[t]] = Overwrite(@, image[t])]
    /\ handle' = [handle EXCEPT ![t] = NoFile]
    /\ image' = [image EXCEPT ![t] = NoStates]
    /\ Goto(t, "replace")
    /\ UNCHANGED <<metricVars, states, journal, temp, request, failing, ghostVars, unsure>>

\* ... and makes it the journal; FileNotFoundError if another thread took it.
Replace(t) ==
    /\ pc[t] = "replace"
    /\ IF temp = NoFile
       THEN /\ failing' = [failing EXCEPT ![t] = TRUE]
            /\ UNCHANGED fileVars
       ELSE /\ journal' = temp
            /\ temp' = NoFile
            /\ content' = Without(journal)
            /\ UNCHANGED failing
    /\ Goto(t, "finally")
    /\ UNCHANGED <<metricVars, states, request, image, handle, ghostVars, unsure>>

\* Where save() leads to: the answer, or the end of a failed request.
Leave(t, failed) ==
    /\ failing' = [failing EXCEPT ![t] = FALSE]
    /\ IF failed
       THEN /\ Goto(t, "idle")
            /\ unsure' = unsure \cup {request[t].code}
            /\ request' = [request EXCEPT ![t] = NoRequest]
       ELSE /\ Goto(t, "answer")
            /\ UNCHANGED <<unsure, request>>

\* The finally clause looks whether there is a temporary file, be it another
\* thread's ...
LookForTemp(t) ==
    /\ pc[t] = "finally"
    /\ \/ temp = NoFile /\ Leave(t, failing[t])
       \/ temp # NoFile /\ Goto(t, "unlink") /\ UNCHANGED <<failing, unsure, request>>
    /\ UNCHANGED <<metricVars, states, fileVars, image, handle, ghostVars>>

\* ... and removes it; FileNotFoundError if it is gone meanwhile.
RemoveTemp(t) ==
    /\ pc[t] = "unlink"
    /\ temp' = NoFile
    /\ content' = Without(temp)
    /\ Leave(t, failing[t] \/ temp = NoFile)
    /\ UNCHANGED <<metricVars, states, journal, image, handle, ghostVars>>

\* The change is audited and the request answered with 200.
Answer(t) ==
    /\ pc[t] = "answer"
    /\ answered' = [answered EXCEPT ![request[t].code] = EntryOf(request[t])]
    /\ resolvedAt' = IF request[t].to = "resolved"
                     THEN [resolvedAt EXCEPT ![request[t].code] = request[t].at]
                     ELSE resolvedAt
    /\ unsure' = unsure \ {request[t].code}
    /\ request' = [request EXCEPT ![t] = NoRequest]
    /\ Goto(t, "idle")
    /\ UNCHANGED <<metricVars, states, fileVars, image, handle, failing, runs, caughtUp>>

\* A file operation of save() raises OSError, and the request ends with 500; the
\* change stays in memory.
Fail(t) ==
    /\ "io" \in Fault
    /\ pc[t] \in {"open", "write", "replace"}
    /\ handle' = [handle EXCEPT ![t] = NoFile]
    /\ failing' = [failing EXCEPT ![t] = TRUE]
    /\ Goto(t, "finally")
    /\ UNCHANGED <<metricVars, states, fileVars, request, image, ghostVars, unsure>>

\* The change t made to c is in the journal, and not answered yet.
Saved(t, c) ==
    /\ pc[t] \in {"finally", "unlink", "answer"}
    /\ ~failing[t]
    /\ request[t].code = c

\* The process is killed and started again: the manager loads the journal, and
\* PaperValidationMetrics counts the runs the history retained, or none when it
\* cannot be read.
Restart ==
    /\ "crash" \in Fault
    /\ states' = Loaded
    /\ \/ /\ run' = Len(stored)
          /\ valid' = ValidRuns(stored)
          /\ status' = "ok"
          /\ caughtUp' = (caughtUp \/ Len(stored) > run)
       \/ /\ "io" \in Fault
          /\ run' = 0
          /\ valid' = 0
          /\ status' = "error"
          /\ UNCHANGED caughtUp
    /\ pc' = [t \in Thread |-> "idle"]
    /\ handle' = [t \in Thread |-> NoFile]
    /\ image' = [t \in Thread |-> NoStates]
    /\ failing' = [t \in Thread |-> FALSE]
    /\ request' = [t \in Thread |-> NoRequest]
    /\ answered' = Loaded
    /\ resolvedAt' = [c \in Code |->
           IF \E t \in Thread : Saved(t, c) /\ request[t].to = "resolved"
           THEN request[CHOOSE t \in Thread : Saved(t, c)].at ELSE resolvedAt[c]]
    /\ UNCHANGED <<stored, tail, fileVars, runs, unsure>>

\* The steps of a request behind the check.
Work(t) ==
    \/ Change(t)
    \/ Dump(t)
    \/ OpenTemp(t)
    \/ WriteTemp(t)
    \/ Replace(t)
    \/ LookForTemp(t)
    \/ RemoveTemp(t)
    \/ Answer(t)

Next ==
    \/ \E v \in BOOLEAN : RecordRun(v)
    \/ \E t \in Thread :
        \/ \E c \in Code, s \in {"acknowledged", "resolved"} : Check(t, c, s)
        \/ Work(t)
        \/ Fail(t)
    \/ Restart

Spec == Init /\ [][Next]_vars
-----------------------------------------------------------------------------
\* A change that was answered with 200 is in the journal and outlives a restart,
\* until a later change of the same alert replaces it.
AnsweredIsDurable ==
    \A c \in Code \ unsure : Loaded[c] \in {answered[c], states[c]}

\* An alert whose resolution was answered is not shown for CooldownRuns runs,
\* through failed saves and restarts.  (With one request at a time: an
\* acknowledgement that was checked before a resolution overwrites it.  And unless a
\* restart raises total_runs: after a start that could not read the history they
\* are counted from zero, and the next one that can makes up for it at once.)
HiddenInCooldown ==
    \A c \in Visible :
        resolvedAt[c] # Never /\ ~caughtUp => runs - resolvedAt[c] >= CooldownRuns

\* An alert is hidden for no longer than that: after CooldownRuns runs it shows.
\* (While total_runs are all the runs there were: the history retains no more than
\* HistoryLimit of them and misses those that failed or went into a torn line, and the
\* alert stays hidden while what a restart counts lags behind.)
ShownAfterCooldown ==
    \A c \in Code \ unsure :
        /\ Suppressed(c)
        /\ \A t \in Thread : pc[t] = "idle" \/ request[t].code # c
        /\ resolvedAt[c] # Never
        /\ run = runs
        => runs - resolvedAt[c] < CooldownRuns

\* Once no request is under way, the journal has for each alert the change that memory
\* holds or the one that was answered last: no other request's save has taken it away.
AnsweredIsSaved ==
    (\A t \in Thread : pc[t] = "idle") =>
        \A c \in Code \ unsure : Loaded[c] \in {answered[c], states[c]}
=============================================================================
