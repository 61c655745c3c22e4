----------------------------- MODULE BoundedLog -----------------------------
(***************************************************************************)
(* What a journal promises, with no locks, files or failures: entries are  *)
(* added one at a time, a reader sees the newest of them in order, the     *)
(* oldest are dropped only when more than MaxRecords are kept, and an      *)
(* append is acknowledged only once its entry is in the log.               *)
(***************************************************************************)
EXTENDS Integers, Sequences, Functions, JournalFile

CONSTANTS Record,      \* what may be logged
          MaxRecords   \* how many entries retention keeps

VARIABLES log,      \* every entry ever added, in order
          visible,  \* the entries a reader obtains
          acked     \* the entries whose append reported success

vars == <<log, visible, acked>>

Init ==
    /\ log = <<>>
    /\ visible = <<>>
    /\ acked = {}

\* An entry becomes visible, behind all the others.
Add(r) ==
    /\ log' = Append(log, r)
    /\ visible' = Append(visible, r)
    /\ UNCHANGED acked

\* Retention drops the oldest entries in one step.
Trim ==
    /\ Len(visible) > MaxRecords
    /\ visible' = Newest(visible, MaxRecords)
    /\ UNCHANGED <<log, acked>>

\* The caller that logged r learns that r is durable.
Acknowledge(r) ==
    /\ r \in Range(log)
    /\ acked' = acked \cup {r}
    /\ UNCHANGED <<log, visible>>

Next ==
    \/ \E r \in Record : Add(r) \/ Acknowledge(r)
    \/ Trim

Spec == Init /\ [][Next]_vars
-----------------------------------------------------------------------------
\* Readers see an unbroken run of the newest entries, and retention never
\* leaves them fewer than MaxRecords of them (or all, if there are fewer).
VisibleIsNewest ==
    \E n \in 0..Len(log) :
        /\ visible = Newest(log, n)
        /\ n >= MaxRecords \/ n = Len(log)

\* An entry whose append reported success is visible until MaxRecords newer
\* ones have been added.
AckedIsVisible ==
    \A r \in acked :
        \/ r \in Range(visible)
        \/ \E i \in 1..Len(log) : log[i] = r /\ i <= Len(log) - MaxRecords
=============================================================================
