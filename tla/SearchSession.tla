---------------------------- MODULE SearchSession ----------------------------
(***************************************************************************)
(* One search request of the Streaming Search Engine (spec.md 4.4, 5, 7): *)
(* the scan runs as a cooperative task on the connection's event loop,    *)
(* sending one event per await, while the same connection's message       *)
(* handler may set the session's cancelled flag (a cancel message, or the *)
(* connection closing).  The scan consults the flag between files and     *)
(* between chunks only, and never interrupts a chunk it has started.      *)
(*                                                                         *)
(* The engine's code is not in this repository: this module follows the  *)
(* spec.  A file is abstracted to its chunks, each chunk to the number of *)
(* its lines that match, and to where reading it fails, if it does.       *)
(***************************************************************************)
EXTENDS Naturals, Sequences, FiniteSets

CONSTANTS
    FileSpecs,   \* the files a glob may match (records, see FileSpec)
    MaxFiles,    \* the most files one glob matches (bound)
    MaxResults   \* max_results

\* A file: its chunks (matching lines per chunk), whether opening it fails
\* (permission denied, vanished), and the chunk whose read fails (0: none).
FileSpec == [chunks : Seq(Nat), openFails : BOOLEAN, failsAt : Nat]

ASSUME SearchAssumption ==
    /\ FileSpecs \subseteq FileSpec
    /\ MaxFiles \in Nat
    /\ MaxResults \in Nat \ {0}

VARIABLES
    files,      \* the files the glob matched, in discovery order
    events,     \* events sent on the connection
    cancelled,  \* SearchSession.cancelled
    pc,         \* where the scan task is
    fi,         \* the current file's index
    ci,         \* the next chunk's index
    pending,    \* matching lines of the current chunk not yet sent
    results     \* match events sent (checked against max_results)

vars == <<files, events, cancelled, pc, fi, ci, pending, results>>

Ev(type, i) == [type |-> type, file |-> i]

Send(e) == events' = Append(events, e)

Init ==
    /\ files \in UNION {[1..n -> FileSpecs] : n \in 0..MaxFiles}
    /\ events = << >>
    /\ cancelled = FALSE
    /\ pc = "start"
    /\ fi = 1
    /\ ci = 1
    /\ pending = 0
    /\ results = 0

\* search_start, then the glob (4.4 steps 1-2).
Start ==
    /\ pc = "start"
    /\ Send(Ev("search_start", 0))
    /\ pc' = IF files = << >> THEN "nofiles" ELSE "files"
    /\ UNCHANGED <<files, cancelled, fi, ci, pending, results>>

NoFiles ==
    /\ pc = "nofiles"
    /\ Send(Ev("no_files", 0))
    /\ pc' = "done"
    /\ UNCHANGED <<files, cancelled, fi, ci, pending, results>>

\* Between files: stop if cancelled, finish after the last file, or start
\* the next one (4.4 steps 3-5).
NextFile ==
    /\ pc = "files"
    /\ IF cancelled
       THEN pc' = "stopped" /\ UNCHANGED events
       ELSE IF fi > Len(files)
       THEN Send(Ev("search_complete", 0)) /\ pc' = "done"
       ELSE Send(Ev("file_start", fi)) /\ pc' = "open"
    /\ UNCHANGED <<files, cancelled, fi, ci, pending, results>>

\* A file that cannot be opened is reported and skipped (4.4 step 6).
OpenFile ==
    /\ pc = "open"
    /\ IF files[fi].openFails
       THEN /\ Send(Ev("file_error", fi))
            /\ fi' = fi + 1
            /\ pc' = "files"
            /\ UNCHANGED ci
       ELSE /\ ci' = 1
            /\ pc' = "chunks"
            /\ UNCHANGED <<events, fi>>
    /\ UNCHANGED <<files, cancelled, pending, results>>

\* Between chunks: stop if cancelled, end the file after its last chunk, or
\* read the next chunk (an I/O error aborts the file with file_error).
ReadChunk ==
    /\ pc = "chunks"
    /\ IF cancelled
       THEN pc' = "stopped" /\ UNCHANGED <<events, fi, ci, pending>>
       ELSE IF files[fi].failsAt = ci
       THEN /\ Send(Ev("file_error", fi))
            /\ fi' = fi + 1
            /\ pc' = "files"
            /\ UNCHANGED <<ci, pending>>
       ELSE IF ci > Len(files[fi].chunks)
       THEN /\ Send(Ev("file_end", fi))
            /\ fi' = fi + 1
            /\ pc' = "files"
            /\ UNCHANGED <<ci, pending>>
       ELSE /\ pending' = files[fi].chunks[ci]
            /\ ci' = ci + 1
            /\ pc' = "matches"
            /\ UNCHANGED <<events, fi>>
    /\ UNCHANGED <<files, cancelled, results>>

\* Mutant: the cap is tested before the count is raised.
CappedLate(n) == n > MaxResults

\* The result count has reached max_results.
Capped(n) == n = MaxResults

\* Send the chunk's next matching line; at max_results stop scanning.
EmitMatch ==
    /\ pc = "matches"
    /\ IF pending = 0
       THEN pc' = "chunks" /\ UNCHANGED <<events, pending, results>>
       ELSE /\ Send(Ev("match", fi))
            /\ results' = results + 1
            /\ pending' = pending - 1
            /\ pc' = IF Capped(results + 1) THEN "capped" ELSE "matches"
    /\ UNCHANGED <<files, cancelled, fi, ci>>

Complete ==
    /\ pc = "capped"
    /\ Send(Ev("search_complete", 0))
    /\ pc' = "done"
    /\ UNCHANGED <<files, cancelled, fi, ci, pending, results>>

\* A cancel message, or the connection closing, sets the flag.
Cancel ==
    /\ pc \notin {"done", "stopped"}
    /\ ~cancelled
    /\ cancelled' = TRUE
    /\ UNCHANGED <<files, events, pc, fi, ci, pending, results>>

Scan == Start \/ NoFiles \/ NextFile \/ OpenFile \/ ReadChunk \/ EmitMatch
        \/ Complete

Next == Scan \/ Cancel

\* The event loop keeps running the scan task; nobody has to cancel.
Spec == Init /\ [][Next]_vars /\ WF_vars(Scan)

-----------------------------------------------------------------------------

\* The protocol phase the scan task is in.
AbsPhase ==
    CASE pc = "start"                        -> "idle"
      [] pc = "nofiles"                      -> "nofiles"
      [] pc = "files"                        -> "between"
      [] pc \in {"open", "chunks", "matches"} -> "infile"
      [] pc = "capped"                       -> "capped"
      [] pc \in {"done", "stopped"}          -> "over"

Protocol == INSTANCE SearchProtocol WITH
    nfiles <- Len(files), at <- fi, count <- results, phase <- AbsPhase

\* The event stream follows the protocol of sections 4.4 and 8: files in
\* discovery order, each bracketed by file_start and file_end or
\* file_error; no more than max_results matches and then search_complete;
\* once cancelled, no file started and no search_complete after the last
\* file; a silent end only after a cancel; and always an end.
SearchProtocolSpec == Protocol!Spec

\* The match events of an event stream.
MatchCount(es) == Cardinality({i \in 1..Len(es) : es[i].type = "match"})

\* The stream never carries more than max_results match events, whatever
\* the files hold and whenever a cancel comes: spec 8, "search with
\* max_results = k across files with more than k total matching lines
\* returns exactly k match events ... never more".  The cap is tested in
\* the match step, on the count the step has just raised.  (It follows
\* from the refinement; MatchesNeverPastCap proves it directly.)
MatchesCapped == MatchCount(events) <= MaxResults

=============================================================================
