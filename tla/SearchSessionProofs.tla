------------------------- MODULE SearchSessionProofs -------------------------
(***************************************************************************)
(* The search session implements the safety part of SearchProtocol for    *)
(* every set of files, every bound and every max_results.                  *)
(***************************************************************************)
EXTENDS SearchSession, FiniteSetTheorems, TLAPS

EventTypes == {"search_start", "no_files", "file_start", "match", "file_end",
               "file_error", "search_complete"}

Event == [type : EventTypes, file : Nat]

Phases == {"start", "nofiles", "files", "open", "chunks", "matches", "capped",
           "done", "stopped"}

TypeInv ==
    /\ files \in Seq(FileSpec)
    /\ events \in Seq(Event)
    /\ cancelled \in BOOLEAN
    /\ pc \in Phases
    /\ fi \in Nat \ {0}
    /\ ci \in Nat \ {0}
    /\ pending \in Nat
    /\ results \in Nat

\* The scan is inside a file only while that file exists; it may still
\* send a match while it is scanning; and it stops at max_results.
SInv ==
    /\ TypeInv
    /\ pc \in {"open", "chunks", "matches"} => fi <= Len(files)
    /\ pc \in {"start", "files", "open", "chunks", "matches"} => results < MaxResults
    /\ pc = "capped" => results = MaxResults
    /\ pc = "nofiles" => Len(files) = 0

USE SearchAssumption

\* Every event the session sends is typed.
LEMMA EvType ==
    ASSUME NEW t \in EventTypes, NEW i \in Nat
    PROVE  Ev(t, i) \in Event
  BY DEF Ev, Event

LEMMA SInvInit == Init => SInv
  <1> SUFFICES ASSUME Init PROVE SInv
    OBVIOUS
  <1>1. PICK n \in 0..MaxFiles : files \in [1..n -> FileSpecs]
    BY DEF Init
  <1>2. files \in Seq(FileSpec)
    BY <1>1
  <1>3. events \in Seq(Event)
    BY DEF Init
  <1>4. fi \in Nat \ {0} /\ ci \in Nat \ {0} /\ pending \in Nat /\ results \in Nat
    BY DEF Init
  <1>5. results < MaxResults
    BY DEF Init
  <1>6. pc \in Phases /\ cancelled \in BOOLEAN
    BY DEF Init, Phases
  <1>7. QED
    BY <1>2, <1>3, <1>4, <1>5, <1>6 DEF Init, SInv, TypeInv

LEMMA SInvStep ==
    ASSUME SInv, [Next]_vars
    PROVE  SInv'
  <1> USE DEF SInv, TypeInv, Phases
  <1>1. CASE Start
    <2>1. Ev("search_start", 0) \in Event
      BY EvType DEF EventTypes
    <2>2. events' \in Seq(Event)
      BY <1>1, <2>1 DEF Start, Send
    <2>3. pc' \in {"nofiles", "files"} /\ (pc' = "nofiles" => Len(files) = 0)
      BY <1>1 DEF Start
    <2>4. UNCHANGED <<files, cancelled, fi, ci, pending, results>>
      BY <1>1 DEF Start
    <2>5. QED
      BY <1>1, <2>2, <2>3, <2>4 DEF Start
  <1>2. CASE NoFiles
    BY <1>2, EvType DEF NoFiles, Send, EventTypes
  <1>3. CASE NextFile
    BY <1>3, EvType DEF NextFile, Send, EventTypes
  <1>4. CASE OpenFile
    <2>1. pc = "open" /\ fi <= Len(files) /\ results < MaxResults
      BY <1>4 DEF OpenFile
    <2>2. UNCHANGED <<files, cancelled, pending, results>>
      BY <1>4 DEF OpenFile
    <2>3. CASE files[fi].openFails
      <3>1. events' = Append(events, Ev("file_error", fi))
        BY <1>4, <2>3 DEF OpenFile, Send
      <3>2. Ev("file_error", fi) \in Event
        BY EvType DEF EventTypes
      <3>3. fi' = fi + 1 /\ pc' = "files" /\ ci' = ci
        BY <1>4, <2>3 DEF OpenFile
      <3>4. QED
        BY <2>1, <2>2, <3>1, <3>2, <3>3
    <2>4. CASE ~files[fi].openFails
      <3>1. ci' = 1 /\ pc' = "chunks" /\ UNCHANGED <<events, fi>>
        BY <1>4, <2>4 DEF OpenFile
      <3>2. QED
        BY <2>1, <2>2, <3>1
    <2>5. QED
      BY <2>3, <2>4
  <1>5. CASE ReadChunk
    <2>1. pc = "chunks" /\ fi <= Len(files) /\ results < MaxResults
      BY <1>5 DEF ReadChunk
    <2>2. UNCHANGED <<files, cancelled, results>>
      BY <1>5 DEF ReadChunk
    <2>3. files[fi].chunks \in Seq(Nat)
      <3>1. files[fi] \in FileSpec
        BY <2>1
      <3>2. QED
        BY <3>1 DEF FileSpec
    <2>4. CASE cancelled
      <3>1. pc' = "stopped" /\ UNCHANGED <<events, fi, ci, pending>>
        BY <1>5, <2>4, Zenon DEF ReadChunk
      <3>2. QED
        BY <2>1, <2>2, <3>1
    <2>5. CASE ~cancelled /\ files[fi].failsAt = ci
      <3>1. events' = Append(events, Ev("file_error", fi))
        BY <1>5, <2>5 DEF ReadChunk, Send
      <3>2. Ev("file_error", fi) \in Event
        BY EvType DEF EventTypes
      <3>3. fi' = fi + 1 /\ pc' = "files" /\ UNCHANGED <<ci, pending>>
        BY <1>5, <2>5 DEF ReadChunk
      <3>4. QED
        BY <2>1, <2>2, <3>1, <3>2, <3>3
    <2>6. CASE ~cancelled /\ files[fi].failsAt # ci /\ ci > Len(files[fi].chunks)
      <3>1. events' = Append(events, Ev("file_end", fi))
        BY <1>5, <2>6 DEF ReadChunk, Send
      <3>2. Ev("file_end", fi) \in Event
        BY EvType DEF EventTypes
      <3>3. fi' = fi + 1 /\ pc' = "files" /\ UNCHANGED <<ci, pending>>
        BY <1>5, <2>6 DEF ReadChunk
      <3>4. QED
        BY <2>1, <2>2, <3>1, <3>2, <3>3
    <2>7. CASE ~cancelled /\ files[fi].failsAt # ci /\ ~(ci > Len(files[fi].chunks))
      <3>1. /\ pending' = files[fi].chunks[ci] /\ ci' = ci + 1
            /\ pc' = "matches" /\ UNCHANGED <<events, fi>>
        BY <1>5, <2>7 DEF ReadChunk
      <3>2. ci \in 1..Len(files[fi].chunks)
        BY <2>7
      <3>3. pending' \in Nat
        BY <2>3, <3>1, <3>2
      <3>4. ci' \in Nat \ {0}
        BY <3>1
      <3>5. QED
        BY <2>1, <2>2, <3>1, <3>3, <3>4
    <2>8. QED
      BY <2>4, <2>5, <2>6, <2>7
  <1>6. CASE EmitMatch
    <2>1. pc = "matches" /\ results < MaxResults
      BY <1>6 DEF EmitMatch
    <2>2. UNCHANGED <<files, cancelled, fi, ci>>
      BY <1>6 DEF EmitMatch
    <2>3. CASE pending = 0
      BY <1>6, <2>1, <2>2, <2>3 DEF EmitMatch
    <2>4. CASE pending # 0
      <3>1. events' = Append(events, Ev("match", fi))
        BY <1>6, <2>4 DEF EmitMatch, Send
      <3>2. Ev("match", fi) \in Event
        BY EvType DEF EventTypes
      <3>3. /\ results' = results + 1 /\ pending' = pending - 1
            /\ pc' = IF results + 1 = MaxResults THEN "capped" ELSE "matches"
        BY <1>6, <2>4 DEF EmitMatch, Capped
      <3>4. QED
        BY <2>1, <2>2, <2>4, <3>1, <3>2, <3>3
    <2>5. QED
      BY <2>3, <2>4
  <1>7. CASE Complete
    BY <1>7, EvType DEF Complete, Send, EventTypes
  <1>8. CASE Cancel
    BY <1>8 DEF Cancel
  <1>9. CASE UNCHANGED vars
    BY <1>9 DEF vars
  <1>10. QED
    BY <1>1, <1>2, <1>3, <1>4, <1>5, <1>6, <1>7, <1>8, <1>9 DEF Next, Scan

\* Under the mapping, every step of the session is a step of the protocol
\* or leaves the events and the protocol's state alone.
LEMMA StepRefines ==
    ASSUME SInv, [Next]_vars
    PROVE  [Protocol!Next]_Protocol!vars
  <1> USE DEF SInv, TypeInv, Phases
  <1>1. CASE Start
    <2>1. (files = << >>) = (Len(files) = 0)
      OBVIOUS
    <2>2. Protocol!Begin
      BY <1>1, <2>1 DEF Start, Send, Protocol!Begin, Protocol!Send,
                        Protocol!Ev, Ev, AbsPhase
    <2>3. QED
      BY <2>2 DEF Protocol!Next, Protocol!Progress
  <1>2. CASE NoFiles
    <2>1. Protocol!NoFiles
      BY <1>2 DEF NoFiles, Send, Protocol!NoFiles, Protocol!Send,
                  Protocol!Ev, Ev, AbsPhase
    <2>2. QED
      BY <2>1 DEF Protocol!Next, Protocol!Progress
  <1>3. CASE NextFile
    <2>1. CASE cancelled
      <3>1. pc = "files" /\ pc' = "stopped" /\ cancelled
            /\ UNCHANGED <<files, events, fi, results, cancelled>>
        BY <1>3, <2>1, Zenon DEF NextFile
      <3>2. Protocol!Stop
        BY <3>1 DEF Protocol!Stop, AbsPhase
      <3>3. QED
        BY <3>2 DEF Protocol!Next
    <2>2. CASE ~cancelled /\ fi > Len(files)
      <3>1. Protocol!Complete
        BY <1>3, <2>2 DEF NextFile, Send, Protocol!Complete, Protocol!Send,
                          Protocol!Ev, Ev, AbsPhase
      <3>2. QED
        BY <3>1 DEF Protocol!Next, Protocol!Progress
    <2>3. CASE ~cancelled /\ ~(fi > Len(files))
      <3>1. Protocol!FileStart
        BY <1>3, <2>3 DEF NextFile, Send, Protocol!FileStart, Protocol!Send,
                          Protocol!Ev, Ev, AbsPhase
      <3>2. QED
        BY <3>1 DEF Protocol!Next, Protocol!Progress
    <2>4. QED
      BY <2>1, <2>2, <2>3
  <1>4. CASE OpenFile
    <2>1. CASE files[fi].openFails
      <3>1. Protocol!FileDone
        BY <1>4, <2>1 DEF OpenFile, Send, Protocol!FileDone, Protocol!Send,
                          Protocol!Ev, Ev, AbsPhase
      <3>2. QED
        BY <3>1 DEF Protocol!Next, Protocol!Progress
    <2>2. CASE ~files[fi].openFails
      BY <1>4, <2>2 DEF OpenFile, Protocol!vars, AbsPhase
    <2>3. QED
      BY <2>1, <2>2
  <1>5. CASE ReadChunk
    <2>1. CASE cancelled
      <3>1. pc = "chunks" /\ pc' = "stopped" /\ cancelled
            /\ UNCHANGED <<files, events, fi, results, cancelled>>
        BY <1>5, <2>1, Zenon DEF ReadChunk
      <3>2. Protocol!Stop
        BY <3>1 DEF Protocol!Stop, AbsPhase
      <3>3. QED
        BY <3>2 DEF Protocol!Next
    <2>2. CASE ~cancelled /\ files[fi].failsAt = ci
      <3>1. Protocol!FileDone
        BY <1>5, <2>2 DEF ReadChunk, Send, Protocol!FileDone, Protocol!Send,
                          Protocol!Ev, Ev, AbsPhase
      <3>2. QED
        BY <3>1 DEF Protocol!Next, Protocol!Progress
    <2>3. CASE ~cancelled /\ files[fi].failsAt # ci /\ ci > Len(files[fi].chunks)
      <3>1. Protocol!FileDone
        BY <1>5, <2>3 DEF ReadChunk, Send, Protocol!FileDone, Protocol!Send,
                          Protocol!Ev, Ev, AbsPhase
      <3>2. QED
        BY <3>1 DEF Protocol!Next, Protocol!Progress
    <2>4. CASE ~cancelled /\ files[fi].failsAt # ci /\ ~(ci > Len(files[fi].chunks))
      BY <1>5, <2>4 DEF ReadChunk, Protocol!vars, AbsPhase
    <2>5. QED
      BY <2>1, <2>2, <2>3, <2>4
  <1>6. CASE EmitMatch
    <2>1. CASE pending = 0
      BY <1>6, <2>1 DEF EmitMatch, Protocol!vars, AbsPhase
    <2>2. CASE pending # 0
      <3>1. Protocol!Match
        BY <1>6, <2>2 DEF EmitMatch, Send, Capped, Protocol!Match,
                          Protocol!Send, Protocol!Ev, Ev, AbsPhase
      <3>2. QED
        BY <3>1 DEF Protocol!Next, Protocol!Progress
    <2>3. QED
      BY <2>1, <2>2
  <1>7. CASE Complete
    <2>1. Protocol!Complete
      BY <1>7 DEF Complete, Send, Protocol!Complete, Protocol!Send,
                  Protocol!Ev, Ev, AbsPhase
    <2>2. QED
      BY <2>1 DEF Protocol!Next, Protocol!Progress
  <1>8. CASE Cancel
    <2>1. Protocol!Cancel
      BY <1>8 DEF Cancel, Protocol!Cancel, AbsPhase
    <2>2. QED
      BY <2>1 DEF Protocol!Next
  <1>9. CASE UNCHANGED vars
    BY <1>9 DEF vars, Protocol!vars, AbsPhase
  <1>10. QED
    BY <1>1, <1>2, <1>3, <1>4, <1>5, <1>6, <1>7, <1>8, <1>9 DEF Next, Scan

\* For every set of files, every bound and every max_results, the scan task
\* and the cancel handler of a connection send a well-formed event stream:
\* search_start first, files in discovery order each bracketed by
\* file_start and file_end or file_error, at most max_results matches,
\* nothing after search_complete or an observed cancellation, no file
\* started once the session is cancelled, and a silent end only after a
\* cancel.
THEOREM ImplementsSearchProtocol == Spec => Protocol!SafetySpec
  <1>1. Init => Protocol!Init
    BY DEF Init, Protocol!Init, AbsPhase
  <1>2. QED
    BY <1>1, SInvInit, SInvStep, StepRefines, PTL DEF Spec, Protocol!SafetySpec

-----------------------------------------------------------------------------
(* The match events of the stream are the matches counted against         *)
(* max_results.                                                            *)

\* Appending an event adds one to the match count if it is a match.
LEMMA MatchCountAppend ==
    ASSUME NEW es \in Seq(Event), NEW e \in Event
    PROVE  MatchCount(Append(es, e)) =
             IF e.type = "match" THEN MatchCount(es) + 1 ELSE MatchCount(es)
  <1> DEFINE S == {i \in 1..Len(es) : es[i].type = "match"}
             T == {i \in 1..Len(Append(es, e)) : Append(es, e)[i].type = "match"}
  <1>1. T = IF e.type = "match" THEN S \cup {Len(es) + 1} ELSE S
    OBVIOUS
  <1>2. IsFiniteSet(S)
    BY FS_Interval, FS_Subset
  <1>3. Len(es) + 1 \notin S
    OBVIOUS
  <1>4. CASE e.type = "match"
    <2>1. Cardinality(T) = Cardinality(S) + 1
      BY <1>1, <1>2, <1>3, <1>4, FS_AddElement
    <2>2. QED
      BY <2>1, <1>4 DEF MatchCount
  <1>5. CASE e.type # "match"
    BY <1>1, <1>5 DEF MatchCount
  <1>6. QED
    BY <1>4, <1>5

\* A step sends nothing, or one event that is not a match, and leaves the
\* count alone; or it sends a match, in a chunk, and counts it.
LEMMA StepEvents ==
    ASSUME TypeInv, [Next]_vars
    PROVE  \/ events' = events /\ results' = results
           \/ \E t \in EventTypes \ {"match"}, f \in Nat :
                 events' = Append(events, Ev(t, f)) /\ results' = results
           \/ /\ pc = "matches"
              /\ events' = Append(events, Ev("match", fi))
              /\ results' = results + 1
  <1> DEFINE Sends(t, f) == events' = Append(events, Ev(t, f)) /\ results' = results
  <1> USE DEF TypeInv, EventTypes
  <1>1. CASE Start
    <2>1. Sends("search_start", 0)
      BY <1>1 DEF Start, Send
    <2>2. QED
      BY <2>1
  <1>2. CASE NoFiles
    <2>1. Sends("no_files", 0)
      BY <1>2 DEF NoFiles, Send
    <2>2. QED
      BY <2>1
  <1>3. CASE NextFile
    <2>1. CASE cancelled
      BY <1>3, <2>1 DEF NextFile
    <2>2. CASE ~cancelled /\ fi > Len(files)
      <3>1. Sends("search_complete", 0)
        BY <1>3, <2>2 DEF NextFile, Send
      <3>2. QED
        BY <3>1
    <2>3. CASE ~cancelled /\ ~(fi > Len(files))
      <3>1. Sends("file_start", fi)
        BY <1>3, <2>3 DEF NextFile, Send
      <3>2. QED
        BY <3>1
    <2>4. QED
      BY <2>1, <2>2, <2>3
  <1>4. CASE OpenFile
    <2>1. CASE files[fi].openFails
      <3>1. Sends("file_error", fi)
        BY <1>4, <2>1 DEF OpenFile, Send
      <3>2. QED
        BY <3>1
    <2>2. CASE ~files[fi].openFails
      BY <1>4, <2>2 DEF OpenFile
    <2>3. QED
      BY <2>1, <2>2
  <1>5. CASE ReadChunk
    <2>1. CASE cancelled
      BY <1>5, <2>1 DEF ReadChunk
    <2>2. CASE ~cancelled /\ files[fi].failsAt = ci
      <3>1. Sends("file_error", fi)
        BY <1>5, <2>2 DEF ReadChunk, Send
      <3>2. QED
        BY <3>1
    <2>3. CASE ~cancelled /\ files[fi].failsAt # ci /\ ci > Len(files[fi].chunks)
      <3>1. Sends("file_end", fi)
        BY <1>5, <2>3 DEF ReadChunk, Send
      <3>2. QED
        BY <3>1
    <2>4. CASE ~cancelled /\ files[fi].failsAt # ci /\ ~(ci > Len(files[fi].chunks))
      BY <1>5, <2>4 DEF ReadChunk
    <2>5. QED
      BY <2>1, <2>2, <2>3, <2>4
  <1>6. CASE EmitMatch
    <2>1. CASE pending = 0
      BY <1>6, <2>1 DEF EmitMatch
    <2>2. CASE pending # 0
      BY <1>6, <2>2 DEF EmitMatch, Send
    <2>3. QED
      BY <2>1, <2>2
  <1>7. CASE Complete
    <2>1. Sends("search_complete", 0)
      BY <1>7 DEF Complete, Send
    <2>2. QED
      BY <2>1
  <1>8. CASE Cancel
    BY <1>8 DEF Cancel
  <1>9. CASE UNCHANGED vars
    BY <1>9 DEF vars
  <1>10. QED
    BY <1>1, <1>2, <1>3, <1>4, <1>5, <1>6, <1>7, <1>8, <1>9 DEF Next, Scan

\* The invariant: the stream's match events are the count, and the count
\* never passes max_results.
MInv == SInv /\ MatchCount(events) = results /\ results <= MaxResults

LEMMA MInvInit == Init => MInv
  <1> SUFFICES ASSUME Init PROVE MInv
    OBVIOUS
  <1>1. SInv
    BY SInvInit
  <1>2. MatchCount(events) = 0
    BY FS_EmptySet DEF Init, MatchCount
  <1>3. QED
    BY <1>1, <1>2 DEF Init, MInv

LEMMA MInvStep == MInv /\ [Next]_vars => MInv'
  <1> SUFFICES ASSUME MInv, [Next]_vars PROVE MInv'
    OBVIOUS
  <1>1. SInv'
    BY SInvStep DEF MInv
  <1>2. events \in Seq(Event) /\ fi \in Nat /\ results \in Nat
    BY DEF MInv, SInv, TypeInv
  <1>3. CASE events' = events /\ results' = results
    BY <1>1, <1>3 DEF MInv
  <1>4. CASE \E t \in EventTypes \ {"match"}, f \in Nat :
               events' = Append(events, Ev(t, f)) /\ results' = results
    <2>1. PICK t \in EventTypes \ {"match"}, f \in Nat :
               events' = Append(events, Ev(t, f)) /\ results' = results
      BY <1>4
    <2>2. Ev(t, f) \in Event /\ Ev(t, f).type # "match"
      BY EvType DEF Ev
    <2>3. MatchCount(events') = MatchCount(events)
      BY <2>1, <2>2, <1>2, MatchCountAppend
    <2>4. QED
      BY <1>1, <2>1, <2>3 DEF MInv
  <1>5. CASE /\ pc = "matches"
             /\ events' = Append(events, Ev("match", fi))
             /\ results' = results + 1
    <2>1. Ev("match", fi) \in Event
      BY <1>2, EvType DEF EventTypes
    <2>2. MatchCount(events') = MatchCount(events) + 1
      BY <1>5, <1>2, <2>1, MatchCountAppend DEF Ev
    <2>3. results < MaxResults
      BY <1>5 DEF MInv, SInv
    <2>4. QED
      BY <1>1, <1>5, <2>2, <2>3, <1>2 DEF MInv
  <1>6. QED
    BY <1>3, <1>4, <1>5, StepEvents DEF MInv, SInv

\* For every set of files, every bound and every max_results, the session's
\* stream never carries more match events than max_results: each match event
\* is counted as it is sent, and the cap is tested on the raised count.
THEOREM MatchesNeverPastCap == Spec => []MatchesCapped
  <1>1. MInv => MatchesCapped
    BY DEF MInv, MatchesCapped
  <1>2. QED
    BY <1>1, MInvInit, MInvStep, PTL DEF Spec

=============================================================================
