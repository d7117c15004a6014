---------------------------- MODULE SearchProtocol ----------------------------
(***************************************************************************)
(* The event stream one search request produces on its connection, as     *)
(* spec.md sections 4.4 and 8 order it: search_start; no_files if the     *)
(* pattern matches nothing; otherwise, file by file in discovery order,   *)
(* file_start, match events and file_end (or file_error); search_complete *)
(* once every file is done or max_results matches were sent.  Once the    *)
(* session is cancelled no further file starts and no search_complete     *)
(* follows the last file; the stream may end silently, and only then.     *)
(* Chunks and lines are hidden.                                            *)
(***************************************************************************)
EXTENDS Naturals, Sequences

CONSTANT MaxResults

VARIABLES
    nfiles,    \* how many files the glob matched (in discovery order)
    events,    \* the events sent on the connection
    at,        \* the file being reported, or the next one
    count,     \* match events sent
    phase,     \* "idle", "nofiles", "between", "infile", "capped", "over"
    cancelled  \* the session has been cancelled

vars == <<nfiles, events, at, count, phase, cancelled>>

\* An event of the session (file 0) or of the file at index i.
Ev(type, i) == [type |-> type, file |-> i]

Send(e) == events' = Append(events, e)

Init ==
    /\ nfiles \in Nat
    /\ events = << >>
    /\ at = 1
    /\ count = 0
    /\ phase = "idle"
    /\ cancelled = FALSE

Begin ==
    /\ phase = "idle"
    /\ Send(Ev("search_start", 0))
    /\ phase' = IF nfiles = 0 THEN "nofiles" ELSE "between"
    /\ UNCHANGED <<nfiles, at, count, cancelled>>

NoFiles ==
    /\ phase = "nofiles"
    /\ Send(Ev("no_files", 0))
    /\ phase' = "over"
    /\ UNCHANGED <<nfiles, at, count, cancelled>>

\* A file starts only while the session is not cancelled.
FileStart ==
    /\ phase = "between"
    /\ ~cancelled
    /\ at <= nfiles
    /\ Send(Ev("file_start", at))
    /\ phase' = "infile"
    /\ UNCHANGED <<nfiles, at, count, cancelled>>

Match ==
    /\ phase = "infile"
    /\ count < MaxResults
    /\ Send(Ev("match", at))
    /\ count' = count + 1
    /\ phase' = IF count + 1 = MaxResults THEN "capped" ELSE "infile"
    /\ UNCHANGED <<nfiles, at, cancelled>>

FileDone ==
    /\ phase = "infile"
    /\ \E type \in {"file_end", "file_error"} : Send(Ev(type, at))
    /\ at' = at + 1
    /\ phase' = "between"
    /\ UNCHANGED <<nfiles, count, cancelled>>

Complete ==
    /\ \/ phase = "between" /\ at > nfiles /\ ~cancelled
       \/ phase = "capped"
    /\ Send(Ev("search_complete", 0))
    /\ phase' = "over"
    /\ UNCHANGED <<nfiles, at, count, cancelled>>

\* A cancel message, or the connection closing, while the search runs.
Cancel ==
    /\ phase # "over"
    /\ ~cancelled
    /\ cancelled' = TRUE
    /\ UNCHANGED <<nfiles, events, at, count, phase>>

\* A cancellation observed between files or chunks: nothing more is sent.
Stop ==
    /\ phase \in {"between", "infile"}
    /\ cancelled
    /\ phase' = "over"
    /\ UNCHANGED <<nfiles, events, at, count, cancelled>>

Progress == Begin \/ NoFiles \/ FileStart \/ Match \/ FileDone \/ Complete

Next == Progress \/ Stop \/ Cancel

SafetySpec == Init /\ [][Next]_vars

\* Every search ends: it runs to its end, or stops once it is cancelled.
\* Nobody has to cancel, so Cancel has no fairness.
Spec == SafetySpec /\ WF_vars(Progress \/ Stop)

=============================================================================
