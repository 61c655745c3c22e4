------------------------- MODULE ValidationMetrics -------------------------
(***************************************************************************)
(* PaperValidationMetrics (app/services/paper_validation_metrics.py): the  *)
(* counters and the recent runs kept in memory, updated without a lock by  *)
(* the request threads of POST /v1/paper/run, and persisted run by run in  *)
(* the history the next start restores them from.                          *)
(*                                                                         *)
(* A thread can lose the interpreter lock at every call it makes, and only *)
(* there, which cuts record() into the steps below.  The history is the    *)
(* one PaperHistory models, seen from outside: an append stores the        *)
(* snapshot or raises OSError, and may raise after storing it or inside    *)
(* its line.  Damage to its lines and the issues of a run are left out.    *)
(***************************************************************************)
EXTENDS Integers, Sequences, FiniteSets, JournalFile

CONSTANTS Thread,       \* the request threads
          MaxRecent,    \* max_recent_runs
          HistoryLimit, \* how many snapshots the history retains
          MaxRuns,      \* bound: how many runs a behaviour has
          Fault         \* which faults there are

ASSUME MetricsAssumption ==
    /\ IsFiniteSet(Thread)
    /\ MaxRecent \in Nat \ {0}
    /\ HistoryLimit \in Nat \ {0}
    /\ MaxRuns \in Nat
    /\ Fault \subseteq {"io", "crash"}

VARIABLES
    total, valid, invalid, \* total_runs, valid_runs, invalid_runs
    recent,   \* recent_runs
    status,   \* history_status
    history,  \* the snapshots in the history file
    tail,     \* how its last line ends
    pc,       \* where each thread stands in record()
    outcome,  \* whether the run of each thread is valid
    number,   \* the run_number each thread has read
    snapshot, \* the snapshot each thread is to persist
    started,  \* bound: the runs there were
    base,     \* history variable: the runs that the start could not read
    failures, \* history variable: the appends that failed since the start, and a torn line
              \* it found
    complete, \* history variable: the history has the runs counted, and no others
    overlapped \* history variable: two threads were inside record() together since the start

counters == <<total, valid, invalid>>
recordVars == <<outcome, number, snapshot>>
historyVars == <<history, tail>>
lossVars == <<base, failures, complete>>
metricsVars == <<counters, recent, status, historyVars, pc, recordVars, started, lossVars,
                 overlapped>>

Run == [number : 0..MaxRuns, valid : BOOLEAN]
NoRun == [number |-> 0, valid |-> FALSE]

\* The type invariant: no counter exceeds the number of runs, and the recent runs
\* and the history hold runs.
MetricsTypeOK ==
    /\ {total, valid, invalid} \subseteq 0..MaxRuns
    /\ recent \in Seq(Run)
    /\ status \in {"ok", "error"}
    /\ history \in Seq(Run)
    /\ tail \in {"ended", "cut", "open"}
    /\ pc \in [Thread -> {"idle", "count", "number", "push", "take", "persist"}]
    /\ outcome \in [Thread -> BOOLEAN]
    /\ number \in [Thread -> 0..MaxRuns]
    /\ snapshot \in [Thread -> Run]
    /\ started \in 0..MaxRuns
    /\ base \in Nat
    /\ failures \in Nat
    /\ complete \in BOOLEAN
    /\ overlapped \in BOOLEAN

MetricsInit ==
    /\ total = 0 /\ valid = 0 /\ invalid = 0
    /\ recent = <<>>
    /\ status = "ok"
    /\ history = <<>>
    /\ tail = "ended"
    /\ pc = [t \in Thread |-> "idle"]
    /\ outcome = [t \in Thread |-> FALSE]
    /\ number = [t \in Thread |-> 0]
    /\ snapshot = [t \in Thread |-> NoRun]
    /\ started = 0
    /\ base = 0
    /\ failures = 0
    /\ complete = TRUE
    /\ overlapped = FALSE

Goto(t, l) == pc' = [pc EXCEPT ![t] = l]

\* What __post_init__() makes of the snapshots h: each is counted again, and
\* takes the number of its turn.
RestoredRuns(h) == [i \in 1..Len(h) |-> [number |-> i, valid |-> h[i].valid]]
RestoredTotal(h) == Len(h)
RestoredValid(h) == Cardinality({i \in 1..Len(h) : h[i].valid})
-----------------------------------------------------------------------------
\* Mutant: a run is counted twice.
CountedTwice == total + 2

\* What total_runs are with one more run.
Counted == total + 1

\* Mutant: the recent runs are not cut.
Uncut(s) == s

\* The runs that are kept of the recent ones.
Cut(s) == Newest(s, MaxRecent)

\* Mutant: the oldest of the recent runs is persisted.
Earliest == recent[1]

\* recent_runs[-1].
Latest == recent[Len(recent)]

\* A paper run was validated, and record() is called.
Start(t) ==
    /\ pc[t] = "idle"
    /\ started < MaxRuns
    /\ started' = started + 1
    /\ overlapped' = (overlapped \/ \E u \in Thread : pc[u] # "idle")
    /\ \E v \in BOOLEAN : outcome' = [outcome EXCEPT ![t] = v]
    /\ Goto(t, "count")
    /\ UNCHANGED <<counters, recent, status, historyVars, number, snapshot, lossVars>>

\* The counters, up to the call of recent_issues.extend().
Count(t) ==
    /\ pc[t] = "count"
    /\ total' = Counted
    /\ IF outcome[t] THEN valid' = valid + 1 /\ UNCHANGED invalid
                     ELSE invalid' = invalid + 1 /\ UNCHANGED valid
    /\ Goto(t, "number")
    /\ UNCHANGED <<recent, status, historyVars, recordVars, started, lossVars, overlapped>>

\* total_runs is read again for the run_number of the snapshot.
Number(t) ==
    /\ pc[t] = "number"
    /\ number' = [number EXCEPT ![t] = total]
    /\ Goto(t, "push")
    /\ UNCHANGED <<counters, recent, status, historyVars, outcome, snapshot, started, lossVars,
                   overlapped>>

\* recent_runs.append().
Push(t) ==
    /\ pc[t] = "push"
    /\ recent' = Append(recent, [number |-> number[t], valid |-> outcome[t]])
    /\ Goto(t, "take")
    /\ UNCHANGED <<counters, status, historyVars, recordVars, started, lossVars, overlapped>>

\* The recent runs are cut to max_recent_runs, and the last one is persisted.
Take(t) ==
    /\ pc[t] = "take"
    /\ recent' = Cut(recent)
    /\ snapshot' = [snapshot EXCEPT ![t] = Latest]
    /\ Goto(t, "persist")
    /\ UNCHANGED <<counters, status, historyVars, outcome, number, started, lossVars, overlapped>>

\* The history file, but for the lines of it that do not parse.
File == [recs |-> history, bad |-> 0, tail |-> tail]

\* Mutant: nothing is appended while the history could not be used.
AppendedWhenWell(r) ==
    IF status = "ok" THEN CleanFile(Newest(AddLine(File, r).recs, HistoryLimit)) ELSE File

\* The file once history.append() wrote the line of r and compacted.
Appended(r) == CleanFile(Newest(AddLine(File, r).recs, HistoryLimit))

\* history.append() stores the snapshot and returns.  Behind a torn line it returns
\* although the line does not parse, and takes an unterminated one with it.
Persist(t) ==
    /\ pc[t] = "persist"
    /\ history' = Appended(snapshot[t]).recs
    /\ tail' = "ended"
    /\ status' = "ok"
    /\ complete' = (complete /\ tail = "ended")
    /\ Goto(t, "idle")
    /\ UNCHANGED <<counters, recent, recordVars, started, base, failures, overlapped>>

\* history.append() raises OSError, before or after the line is in the file, in the
\* middle of it, or after compaction.
PersistFails(t) ==
    /\ "io" \in Fault
    /\ pc[t] = "persist"
    /\ \E f \in {File, AddLine(File, snapshot[t]), AddCut(File), AddOpen(File, snapshot[t]),
                 Appended(snapshot[t])} :
          /\ history' = f.recs
          /\ tail' = f.tail
          /\ complete' = (complete /\ f.recs = Append(history, snapshot[t]))
    /\ status' = "error"
    /\ failures' = failures + 1
    /\ Goto(t, "idle")
    /\ UNCHANGED <<counters, recent, recordVars, started, base, overlapped>>

\* history_snapshots() cannot read the history; it asks only while all is well.
ReadFails ==
    /\ "io" \in Fault
    /\ status = "ok"
    /\ status' = "error"
    /\ UNCHANGED <<counters, recent, historyVars, pc, recordVars, started, lossVars, overlapped>>

\* The process is killed and started again on the history that is left.
Restart ==
    /\ "crash" \in Fault
    /\ total' = RestoredTotal(history)
    /\ valid' = RestoredValid(history)
    /\ invalid' = RestoredTotal(history) - RestoredValid(history)
    /\ recent' = Newest(RestoredRuns(history), MaxRecent)
    /\ status' = "ok"
    /\ pc' = [t \in Thread |-> "idle"]
    /\ base' = 0
    /\ failures' = IF tail = "ended" THEN 0 ELSE 1
    /\ complete' = TRUE
    /\ overlapped' = FALSE
    /\ UNCHANGED <<historyVars, recordVars, started>>

\* The process is killed and started again, and load() raises OSError.
RestartUnread ==
    /\ {"crash", "io"} \subseteq Fault
    /\ total' = 0 /\ valid' = 0 /\ invalid' = 0
    /\ recent' = <<>>
    /\ status' = "error"
    /\ pc' = [t \in Thread |-> "idle"]
    /\ base' = Len(history)
    /\ failures' = IF tail = "ended" THEN 0 ELSE 1
    /\ complete' = (history = <<>>)
    /\ overlapped' = FALSE
    /\ UNCHANGED <<historyVars, recordVars, started>>

Record(t) == Count(t) \/ Number(t) \/ Push(t) \/ Take(t) \/ Persist(t)

MetricsNext ==
    \/ \E t \in Thread : Start(t) \/ Record(t) \/ PersistFails(t)
    \/ ReadFails
    \/ Restart
    \/ RestartUnread

MetricsSpec == MetricsInit /\ [][MetricsNext]_metricsVars
-----------------------------------------------------------------------------
\* A restart changes nothing anyone can see: when no thread is inside record() and
\* the history has all the runs, the counters and the recent runs are those the
\* history restores.  Threads that are inside record() together break this: one
\* may persist the other one's run.
RestartIsInvisible ==
    /\ \A t \in Thread : pc[t] = "idle"
    /\ complete /\ ~overlapped
    /\ total <= HistoryLimit
    => /\ <<total, valid>> = <<RestoredTotal(history), RestoredValid(history)>>
       /\ recent = Newest(RestoredRuns(history), MaxRecent)

\* The recent runs outgrow max_recent_runs by no more than the threads that have
\* appended to them and not cut them yet.
RecentIsBounded ==
    Len(recent) <= MaxRecent + Cardinality({t \in Thread : pc[t] = "take"})

\* No run is stored twice or lost in silence, however the threads overlap: the history
\* has no more runs than were counted, and, up to its limit, no fewer than those but for
\* two runs for each append that failed.  (Two, because a line that was torn takes the
\* one written behind it along.)
RunsAreAccounted ==
    LET due == base + total - Cardinality({t \in Thread : pc[t] \notin {"idle", "count"}})
    IN  /\ Len(history) <= due
        /\ Len(history) + 2 * failures >= IF due <= HistoryLimit THEN due ELSE HistoryLimit
=============================================================================
