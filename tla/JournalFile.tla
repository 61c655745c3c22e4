---------------------------- MODULE JournalFile ----------------------------
(***************************************************************************)
(* The content of one of the program's JSONL files, as its readers see it. *)
(*                                                                         *)
(* Both durable journals (app/services/observability_security.py and       *)
(* app/services/paper_validation_history.py) append one JSON object per    *)
(* line and skip the lines that do not parse.  A file is therefore         *)
(*   recs   the objects a reader obtains, oldest first,                    *)
(*   bad    the number of complete lines that do not parse,                *)
(*   tail   how its last line ends: with a newline ("ended"), inside an    *)
(*          object ("cut"), or right behind an object ("open").            *)
(* Where the malformed lines stand among the others is immaterial: no      *)
(* reader looks at it.                                                     *)
(***************************************************************************)
EXTENDS Integers, Sequences, FiniteSets

\* The type of a file whose objects are elements of R.
FileOf(R) == [recs : Seq(R), bad : Nat, tail : {"ended", "cut", "open"}]

\* A file with nothing but the objects s, each on its own line.
CleanFile(s) == [recs |-> s, bad |-> 0, tail |-> "ended"]

\* The n newest entries of s: the slice s[-n:].
Newest(s, n) == IF Len(s) <= n THEN s ELSE SubSeq(s, Len(s) - n + 1, Len(s))

\* The places of s whose entry is in T, and those entries in their order: the list
\* [x for x in s if x in T].
Places(s, T) == {i \in 1..Len(s) : s[i] \in T}

Select(s, T) ==
    [k \in 1..Cardinality(Places(s, T)) |->
        s[CHOOSE i \in Places(s, T) : Cardinality({j \in Places(s, T) : j <= i}) = k]]

\* What is left of the objects when text is written behind the last line: an
\* object that had no newline yet is glued to that text and parses no more.
Glued(f) == IF f.tail = "open" THEN SubSeq(f.recs, 1, Len(f.recs) - 1) ELSE f.recs

\* Append the object r and its newline.
AddLine(f, r) == IF f.tail = "ended"
                 THEN [f EXCEPT !.recs = Append(@, r)]
                 ELSE [recs |-> Glued(f), bad |-> f.bad + 1, tail |-> "ended"]

\* A write of r that stopped inside the object, or before its newline.
AddCut(f) == [f EXCEPT !.recs = Glued(f), !.tail = "cut"]
AddOpen(f, r) == IF f.tail = "ended"
                 THEN [f EXCEPT !.recs = Append(@, r), !.tail = "open"]
                 ELSE AddCut(f)

\* What is left of f when its complete lines stay readable only with objects of T; n
\* of them are not.
Damaged(f, T, n) ==
    [f EXCEPT !.recs = IF f.tail = "open" THEN Append(Select(Glued(f), T), @[Len(@)])
                                         ELSE Select(@, T),
              !.bad = @ + n]

\* The temporary file compaction fills before it replaces the journal.
NoTemp      == [there |-> FALSE, recs |-> <<>>]
TempWith(s) == [there |-> TRUE,  recs |-> s]
TempOf(R)   == [there : BOOLEAN, recs : Seq(R)]
=============================================================================
