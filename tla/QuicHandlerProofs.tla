-------------------------- MODULE QuicHandlerProofs --------------------------
(***************************************************************************)
(* Proofs about QuicHandler for every set of streams and every bound:      *)
(*   - TypeCorrect: the specification keeps TypeOK, in particular no       *)
(*     stream ever carries more than one response, whatever the peer does  *)
(*     (trailers and undecodable headers included);                        *)
(*   - ResponseFlagAccurate: when peers send no trailers, the              *)
(*     'response_sent' flag of every entry of self.streams says whether    *)
(*     the stream has been answered.                                       *)
(***************************************************************************)
EXTENDS QuicHandler, TLAPS

\* The record a handle_request task works on (see SendResponse).
View == [ended : BOOLEAN, entry : BOOLEAN, rs : BOOLEAN, sent : 0..1,
         raised : BOOLEAN]

\* A view whose response counter is honest: a response that got out has
\* ended the stream.
Honest(v) == v \in View /\ (v.sent = 1 => v.ended)

\* A stream that is open has carried no response.
OpenUnanswered == \A s \in StreamIds : sendState[s] = "open" => responses[s] = 0

\* An entry holds no more body chunks than the peer has sent.
BodyBounded ==
    \A s \in StreamIds : streams[s] # NoEntry => streams[s].body <= dataSent[s]

TypeInv == TypeOK /\ OpenUnanswered /\ BodyBounded

\* Streams with a pending handle_request task.
Pending == {tasks[i].sid : i \in 1..Len(tasks)}

\* Without trailers a stream has at most one pending task ...
PendingUnique ==
    \A i, j \in 1..Len(tasks) : i # j => tasks[i].sid # tasks[j].sid

\* ... and until it runs the stream has no entry and is open.
PendingFresh ==
    \A s \in Pending : streams[s] = NoEntry /\ sendState[s] = "open"
                       /\ peer[s] # "idle"

\* A stream whose headers have not arrived is untouched.
IdleFresh ==
    \A s \in StreamIds : peer[s] = "idle" =>
        streams[s] = NoEntry /\ sendState[s] = "open"

FlagInv ==
    /\ TypeInv
    /\ ResponseSentMatchesStream
    /\ PendingUnique
    /\ PendingFresh
    /\ IdleFresh

-----------------------------------------------------------------------------
(***************************************************************************)
(* The task's error-handling chain keeps the view honest, and on an ended *)
(* stream it sends nothing.                                                *)
(***************************************************************************)
\* A view built from well-typed fields is a View, with those fields.
LEMMA ViewOfType ==
    ASSUME NEW e \in BOOLEAN, NEW n \in BOOLEAN, NEW r \in BOOLEAN,
           NEW k \in 0..1, NEW x \in BOOLEAN
    PROVE  /\ ViewOf(e, n, r, k, x) \in View
           /\ ViewOf(e, n, r, k, x).ended = e
           /\ ViewOf(e, n, r, k, x).entry = n
           /\ ViewOf(e, n, r, k, x).rs = r
           /\ ViewOf(e, n, r, k, x).sent = k
           /\ ViewOf(e, n, r, k, x).raised = x
  BY SMT DEF ViewOf, View

LEMMA WithRaisedHonest ==
    ASSUME NEW v, Honest(v), NEW x \in BOOLEAN
    PROVE  /\ Honest(WithRaised(v, x))
           /\ WithRaised(v, x).ended = v.ended
           /\ WithRaised(v, x).sent = v.sent
           /\ WithRaised(v, x).entry = v.entry
           /\ WithRaised(v, x).raised = x
  <1>1. v.ended \in BOOLEAN /\ v.entry \in BOOLEAN /\ v.rs \in BOOLEAN
        /\ v.sent \in 0..1
    BY DEF Honest, View
  <1>2. /\ ViewOf(v.ended, v.entry, v.rs, v.sent, x) \in View
        /\ ViewOf(v.ended, v.entry, v.rs, v.sent, x).ended = v.ended
        /\ ViewOf(v.ended, v.entry, v.rs, v.sent, x).entry = v.entry
        /\ ViewOf(v.ended, v.entry, v.rs, v.sent, x).sent = v.sent
        /\ ViewOf(v.ended, v.entry, v.rs, v.sent, x).raised = x
    BY <1>1, ViewOfType DEF ViewOf, View
  <1>3. QED
    BY <1>2 DEF WithRaised, Honest

LEMMA SendResponseHonest ==
    ASSUME NEW v, Honest(v)
    PROVE  /\ Honest(SendResponse(v))
           /\ v.ended => SendResponse(v).ended /\ SendResponse(v).sent = v.sent
  <1>1. CASE v.ended
    BY <1>1, WithRaisedHonest DEF SendResponse
  <1>2. CASE ~v.ended
    <2>1. v.sent = 0 /\ v.entry \in BOOLEAN /\ v.rs \in BOOLEAN
          /\ v.raised \in BOOLEAN
      BY <1>2 DEF Honest, View
    <2> DEFINE w == ViewOf(TRUE, v.entry, v.rs \/ v.entry, v.sent + 1,
                           v.raised \/ ~v.entry)
    <2>2. w \in View /\ w.ended /\ w.sent = 1
      <3>1. (v.rs \/ v.entry) \in BOOLEAN /\ (v.raised \/ ~v.entry) \in BOOLEAN
            /\ v.sent + 1 \in 0..1
        BY <2>1
      <3>2. QED
        BY <2>1, <3>1 DEF w, ViewOf, View
    <2>3. SendResponse(v) = w
      BY <1>2 DEF SendResponse, w
    <2>4. QED
      BY <1>2, <2>2, <2>3 DEF Honest
  <1>3. QED
    BY <1>1, <1>2

LEMMA SendErrorResponseHonest ==
    ASSUME NEW v, Honest(v)
    PROVE  /\ Honest(SendErrorResponse(v))
           /\ v.ended => SendErrorResponse(v).ended
                         /\ SendErrorResponse(v).sent = v.sent
  <1>1. /\ Honest(WithRaised(v, FALSE))
        /\ WithRaised(v, FALSE).ended = v.ended
        /\ WithRaised(v, FALSE).sent = v.sent
    BY WithRaisedHonest
  <1>2. QED
    BY <1>1, SendResponseHonest DEF SendErrorResponse

LEMMA CatchHonest ==
    ASSUME NEW v, Honest(v)
    PROVE  /\ Honest(Catch(v))
           /\ v.ended => Catch(v).ended /\ Catch(v).sent = v.sent
  BY SendErrorResponseHonest DEF Catch

LEMMA HandleRequestHonest ==
    ASSUME NEW v, NEW r, Honest(v)
    PROVE  /\ Honest(handle_request(r, v))
           /\ v.ended => handle_request(r, v).ended
                         /\ handle_request(r, v).sent = v.sent
  <1>1. /\ Honest(handle_file_request(v))
        /\ v.ended => handle_file_request(v).ended
                      /\ handle_file_request(v).sent = v.sent
    BY SendResponseHonest, CatchHonest DEF handle_file_request
  <1> DEFINE w == IF r = "files" THEN handle_file_request(v) ELSE SendResponse(v)
  <1>2. Honest(w) /\ (v.ended => w.ended /\ w.sent = v.sent)
    BY <1>1, SendResponseHonest
  <1>3. /\ Honest(route_request(r, v))
        /\ v.ended => route_request(r, v).ended
                      /\ route_request(r, v).sent = v.sent
    BY <1>2, CatchHonest DEF route_request
  <1>4. QED
    BY <1>3, CatchHonest DEF handle_request

\* The view of a task that has just stored the info of an open stream, and
\* the view once it has answered.
FreshView == ViewOf(FALSE, TRUE, FALSE, 0, FALSE)
AnsweredView == ViewOf(TRUE, TRUE, TRUE, 1, FALSE)

\* On an open stream whose info was just stored, every route sends exactly
\* one response and sets the flag.
LEMMA HandleRequestAnswers ==
    ASSUME NEW r \in Routes
    PROVE  handle_request(r, FreshView) = AnsweredView
  <1>1. FreshView.ended = FALSE /\ FreshView.entry = TRUE
        /\ FreshView.rs = FALSE /\ FreshView.sent = 0
        /\ FreshView.raised = FALSE
    BY DEF FreshView, ViewOf
  <1>2. AnsweredView.raised = FALSE
    BY DEF AnsweredView, ViewOf
  <1>3. SendResponse(FreshView) = AnsweredView
    <2>1. SendResponse(FreshView) =
            ViewOf(TRUE, FreshView.entry, FreshView.rs \/ FreshView.entry,
                   FreshView.sent + 1, FreshView.raised \/ ~FreshView.entry)
      BY <1>1 DEF SendResponse
    <2>2. (FreshView.rs \/ FreshView.entry) = TRUE
          /\ (FreshView.raised \/ ~FreshView.entry) = FALSE
      BY <1>1, Zenon
    <2>3. FreshView.sent + 1 = 1
      BY <1>1
    <2>4. QED
      BY <1>1, <2>1, <2>2, <2>3, Zenon DEF AnsweredView
  <1>4. Catch(AnsweredView) = AnsweredView
    BY <1>2 DEF Catch
  <1>5. route_request(r, FreshView) = AnsweredView
    BY <1>3, <1>4 DEF route_request, handle_file_request
  <1>6. QED
    BY <1>4, <1>5 DEF handle_request

-----------------------------------------------------------------------------
(***************************************************************************)
(* Type correctness.                                                       *)
(***************************************************************************)

\* The stream and the view of the task the event loop runs next.
RunSid == Head(tasks).sid
RunView == handle_request(Head(tasks).route, StoreStreamInfo(RunSid))

\* What a RunTask step does, with its LET unfolded.
LEMMA RunTaskEffect ==
    ASSUME RunTask
    PROVE  /\ tasks # << >>
           /\ tasks' = Tail(tasks)
           /\ UNCHANGED <<peer, dataSent>>
           /\ ~Head(tasks).decodes =>
                 /\ taskErrors' = taskErrors \cup {RunSid}
                 /\ UNCHANGED <<streams, sendState, responses>>
           /\ Head(tasks).decodes =>
                 /\ streams' = [streams EXCEPT ![RunSid] =
                                    IF RunView.entry
                                    THEN [response_sent |-> RunView.rs, body |-> 0]
                                    ELSE NoEntry]
                 /\ sendState' = [sendState EXCEPT ![RunSid] =
                                      IF RunView.ended THEN "ended" ELSE "open"]
                 /\ responses' = [responses EXCEPT ![RunSid] = @ + RunView.sent]
                 /\ taskErrors' = IF RunView.raised THEN taskErrors \cup {RunSid}
                                   ELSE taskErrors
  BY DEF RunTask, RunSid, RunView

\* The task the event loop runs next is honest about its stream, and on a
\* stream already ended it sends nothing.
LEMMA RunViewHonest ==
    ASSUME TypeOK, tasks # << >>
    PROVE  /\ RunSid \in StreamIds
           /\ Honest(RunView)
           /\ sendState[RunSid] = "ended" => RunView.ended /\ RunView.sent = 0
  <1>1. Head(tasks) \in Task
    BY DEF TypeOK
  <1>2. RunSid \in StreamIds
    BY <1>1 DEF RunSid, Task
  <1>3. /\ Honest(StoreStreamInfo(RunSid))
        /\ StoreStreamInfo(RunSid).ended = (sendState[RunSid] = "ended")
        /\ StoreStreamInfo(RunSid).sent = 0
    BY DEF StoreStreamInfo, ViewOf, Honest, View
  <1>4. QED
    BY <1>2, <1>3, HandleRequestHonest DEF RunView

\* Every step keeps TypeInv.
LEMMA TypeInvStep ==
    ASSUME TypeInv, [Next]_vars
    PROVE  TypeInv'
  <1> USE ConstantsAssumption DEF TypeInv, TypeOK, OpenUnanswered, BodyBounded
  <1>1. ASSUME NEW s \in StreamIds, HeadersReceived(s) PROVE TypeInv'
    BY <1>1 DEF HeadersReceived, Task, Routes
  <1>2. ASSUME NEW s \in StreamIds, TrailersReceived(s) PROVE TypeInv'
    BY <1>2 DEF TrailersReceived, Task, Routes
  <1>3. ASSUME NEW s \in StreamIds, DataReceived(s) PROVE TypeInv'
    BY <1>3, ConstantsAssumption DEF DataReceived, Entry
  <1>4. ASSUME NEW s \in StreamIds, StreamReset(s) PROVE TypeInv'
    BY <1>4 DEF StreamReset
  <1>5. CASE RunTask
    <2>1. /\ RunSid \in StreamIds
          /\ Honest(RunView)
          /\ sendState[RunSid] = "ended" => RunView.ended /\ RunView.sent = 0
      BY <1>5, RunViewHonest DEF RunTask
    <2>2. RunView \in View /\ (RunView.sent = 1 => RunView.ended)
      BY <2>1 DEF Honest
    <2>3. tasks' \in Seq(Task) /\ UNCHANGED <<peer, dataSent>>
      <3>1. tasks # << >> /\ tasks' = Tail(tasks) /\ UNCHANGED <<peer, dataSent>>
        BY <1>5, RunTaskEffect
      <3>2. tasks \in Seq(Task)
        OBVIOUS
      <3>3. QED
        BY <3>1, <3>2
    <2>4. CASE ~Head(tasks).decodes
      BY <1>5, <2>1, <2>3, <2>4, RunTaskEffect
    <2>5. CASE Head(tasks).decodes
      <3>0. /\ RunView.rs \in BOOLEAN /\ RunView.ended \in BOOLEAN
            /\ RunView.sent \in 0..1
        BY <2>2 DEF View
      <3>1. streams' \in [StreamIds -> Entry \cup {NoEntry}]
        <4>1. [response_sent |-> RunView.rs, body |-> 0] \in Entry
          BY <3>0 DEF Entry
        <4>2. QED
          BY <1>5, <2>1, <2>5, <4>1, RunTaskEffect
      <3>2. /\ sendState' \in [StreamIds -> {"open", "ended"}]
            /\ responses' \in [StreamIds -> 0..1]
            /\ OpenUnanswered'
        <4>1. CASE sendState[RunSid] = "ended"
          BY <1>5, <2>1, <2>5, <3>0, <4>1, RunTaskEffect
        <4>2. CASE sendState[RunSid] = "open"
          <5>1. responses'[RunSid] = RunView.sent
            BY <1>5, <2>1, <2>5, <3>0, <4>2, RunTaskEffect
          <5>2. sendState'[RunSid] = "open" => RunView.sent = 0
            BY <1>5, <2>1, <2>2, <2>5, <3>0, RunTaskEffect
          <5>3. \A x \in StreamIds \ {RunSid} :
                   sendState'[x] = sendState[x] /\ responses'[x] = responses[x]
            BY <1>5, <2>5, RunTaskEffect
          <5>4. sendState' \in [StreamIds -> {"open", "ended"}]
            BY <1>5, <2>1, <2>5, <3>0, RunTaskEffect
          <5>5. responses' \in [StreamIds -> 0..1]
            BY <1>5, <2>1, <2>5, <3>0, <5>1, RunTaskEffect
          <5>6. OpenUnanswered'
            BY <2>1, <5>1, <5>2, <5>3, <5>4
          <5>7. QED
            BY <5>4, <5>5, <5>6
        <4>3. QED
          BY <2>1, <4>1, <4>2
      <3>3. taskErrors' \subseteq StreamIds
        BY <1>5, <2>1, <2>5, RunTaskEffect
      <3>4. BodyBounded'
        BY <1>5, <2>1, <2>3, <2>5, <3>1, RunTaskEffect
      <3>5. QED
        BY <2>3, <3>1, <3>2, <3>3, <3>4
    <2>6. QED
      BY <2>4, <2>5
  <1>6. CASE UNCHANGED vars
    BY <1>6 DEF vars
  <1>7. QED
    BY <1>1, <1>2, <1>3, <1>4, <1>5, <1>6 DEF Next

\* Whatever the peer sends and however the tasks interleave, the handler's
\* state keeps its type; in particular no stream ever carries more than one
\* response (send_headers refuses a write on an ended stream).
THEOREM TypeCorrect == Spec => []TypeOK
  <1>1. Init => TypeInv
    BY ConstantsAssumption DEF Init, TypeInv, TypeOK, OpenUnanswered,
                                BodyBounded, Entry
  <1>2. TypeInv => TypeOK
    BY DEF TypeInv
  <1>3. QED
    BY <1>1, <1>2, TypeInvStep, PTL DEF Spec

-----------------------------------------------------------------------------
(***************************************************************************)
(* The 'response_sent' flag, when peers send no trailers.                  *)
(***************************************************************************)

LEMMA FlagInvHeaders ==
    ASSUME FlagInv, NEW s \in StreamIds, HeadersReceived(s)
    PROVE  FlagInv'
  <1>1. PICK r \in Routes, d \in DecodeOutcomes :
          tasks' = Append(tasks, [sid |-> s, route |-> r, decodes |-> d])
    BY DEF HeadersReceived
  <1>2. streams[s] = NoEntry /\ sendState[s] = "open" /\ s \notin Pending
    BY DEF HeadersReceived, FlagInv, IdleFresh, PendingFresh
  <1>3. tasks \in Seq(Task)
    BY DEF FlagInv, TypeInv, TypeOK
  <1>4. /\ Len(tasks') = Len(tasks) + 1
        /\ \A i \in 1..Len(tasks) : tasks'[i] = tasks[i]
        /\ tasks'[Len(tasks) + 1].sid = s
    BY <1>1, <1>3
  <1>5. Pending' = Pending \cup {s}
    BY <1>3, <1>4 DEF Pending
  <1>6. PendingUnique'
    BY <1>2, <1>3, <1>4 DEF FlagInv, PendingUnique, Pending
  <1>7. PendingFresh' /\ IdleFresh' /\ ResponseSentMatchesStream'
    BY <1>2, <1>5
    DEF HeadersReceived, FlagInv, PendingFresh, IdleFresh,
        ResponseSentMatchesStream, TypeInv, TypeOK
  <1>8. TypeInv'
    BY TypeInvStep DEF FlagInv, Next
  <1>9. QED
    BY <1>6, <1>7, <1>8 DEF FlagInv

LEMMA FlagInvData ==
    ASSUME FlagInv, NEW s \in StreamIds, DataReceived(s)
    PROVE  FlagInv'
  <1>1. TypeInv'
    BY TypeInvStep DEF FlagInv, Next
  <1>2. \A x \in StreamIds :
          /\ streams'[x] = NoEntry <=> streams[x] = NoEntry
          /\ streams[x] # NoEntry =>
                streams'[x].response_sent = streams[x].response_sent
    <2>1. streams \in [StreamIds -> Entry \cup {NoEntry}]
      BY DEF FlagInv, TypeInv, TypeOK
    <2>2. CASE streams[s] = NoEntry
      BY <2>1, <2>2 DEF DataReceived
    <2>3. CASE streams[s] # NoEntry
      <3>1. streams' = [streams EXCEPT ![s] =
                          [response_sent |-> streams[s].response_sent,
                           body |-> streams[s].body + 1]]
        BY <2>3 DEF DataReceived
      <3>2. [response_sent |-> streams[s].response_sent,
             body |-> streams[s].body + 1] \in Entry
        BY <2>1, <2>3, ConstantsAssumption
        DEF DataReceived, FlagInv, TypeInv, TypeOK, BodyBounded, Entry
      <3>3. [response_sent |-> streams[s].response_sent,
             body |-> streams[s].body + 1].response_sent
              = streams[s].response_sent
        OBVIOUS
      <3>4. streams'[s] \in Entry
            /\ streams'[s].response_sent = streams[s].response_sent
        BY <2>1, <3>1, <3>2, <3>3
      <3>5. \A x \in StreamIds \ {s} : streams'[x] = streams[x]
        BY <2>1, <3>1
      <3>6. QED
        BY <2>3, <3>4, <3>5, NoEntryAssumption
    <2>4. QED
      BY <2>2, <2>3
  <1>3. QED
    BY <1>1, <1>2
    DEF DataReceived, FlagInv, ResponseSentMatchesStream, PendingUnique,
        PendingFresh, Pending, IdleFresh

LEMMA FlagInvReset ==
    ASSUME FlagInv, NEW s \in StreamIds, StreamReset(s)
    PROVE  FlagInv'
  <1>1. TypeInv'
    BY TypeInvStep DEF FlagInv, Next
  <1>2. streams' = [streams EXCEPT ![s] = NoEntry]
        /\ UNCHANGED <<tasks, sendState>>
        /\ peer' = [peer EXCEPT ![s] = "reset"]
    BY DEF StreamReset
  <1>3. streams \in [StreamIds -> Entry \cup {NoEntry}]
        /\ peer \in [StreamIds -> {"idle", "open", "trailed", "reset"}]
    BY DEF FlagInv, TypeInv, TypeOK
  <1>4. ResponseSentMatchesStream'
    BY <1>2, <1>3 DEF FlagInv, ResponseSentMatchesStream
  <1>5. PendingUnique' /\ Pending' = Pending
    BY <1>2 DEF FlagInv, PendingUnique, Pending
  <1>6. PendingFresh'
    BY <1>2, <1>3, <1>5 DEF FlagInv, PendingFresh
  <1>7. IdleFresh'
    BY <1>2, <1>3 DEF FlagInv, IdleFresh
  <1>8. QED
    BY <1>1, <1>4, <1>5, <1>6, <1>7 DEF FlagInv

\* The task the event loop runs next finds its stream fresh, so it answers.
LEMMA RunViewAnswers ==
    ASSUME FlagInv, tasks # << >>
    PROVE  /\ RunSid \in Pending
           /\ RunView = AnsweredView
  <1>1. tasks \in Seq(Task) /\ Len(tasks) >= 1
    BY DEF FlagInv, TypeInv, TypeOK
  <1>2. RunSid = tasks[1].sid /\ Head(tasks).route \in Routes
    <2>1. Head(tasks) = tasks[1] /\ tasks[1] \in Task
      BY <1>1
    <2>2. QED
      BY <2>1 DEF RunSid, Task
  <1>3. RunSid \in Pending
    BY <1>1, <1>2 DEF Pending
  <1>4. sendState[RunSid] = "open"
    BY <1>3 DEF FlagInv, PendingFresh
  <1>5. StoreStreamInfo(RunSid) = FreshView
    <2>1. (sendState[RunSid] = "ended") = FALSE
      BY <1>4
    <2>2. QED
      BY <2>1 DEF StoreStreamInfo, FreshView
  <1>6. QED
    BY <1>2, <1>3, <1>5, HandleRequestAnswers DEF RunView

LEMMA FlagInvRun ==
    ASSUME FlagInv, RunTask
    PROVE  FlagInv'
  <1>1. TypeInv'
    BY TypeInvStep DEF FlagInv, Next
  <1>2. /\ RunSid \in Pending
        /\ RunView = AnsweredView
        /\ RunSid \in StreamIds
    BY RunViewAnswers, RunViewHonest, RunTaskEffect DEF FlagInv, TypeInv
  <1>3. AnsweredView.entry = TRUE /\ AnsweredView.rs = TRUE
        /\ AnsweredView.ended = TRUE
    BY DEF AnsweredView, ViewOf
  <1>4. /\ tasks \in Seq(Task) /\ Len(tasks) >= 1
        /\ tasks' = Tail(tasks)
        /\ UNCHANGED <<peer, dataSent>>
    BY RunTaskEffect DEF FlagInv, TypeInv, TypeOK
  <1>5. /\ Len(tasks') = Len(tasks) - 1
        /\ \A i \in 1..Len(tasks') : tasks'[i] = tasks[i + 1]
    BY <1>4
  <1>6. PendingUnique'
    BY <1>5 DEF FlagInv, PendingUnique
  <1>7. /\ RunSid \notin Pending'
        /\ Pending' \subseteq Pending
    <2>1. RunSid = tasks[1].sid
      BY <1>4 DEF RunSid
    <2>2. QED
      BY <1>4, <1>5, <2>1 DEF FlagInv, PendingUnique, Pending
  <1>8. /\ streams \in [StreamIds -> Entry \cup {NoEntry}]
        /\ sendState \in [StreamIds -> {"open", "ended"}]
    BY DEF FlagInv, TypeInv, TypeOK
  <1>9. /\ \A x \in StreamIds \ {RunSid} :
              streams'[x] = streams[x] /\ sendState'[x] = sendState[x]
        /\ \/ streams'[RunSid] = NoEntry
           \/ streams'[RunSid].response_sent = TRUE
              /\ sendState'[RunSid] = "ended"
    <2>1. CASE ~Head(tasks).decodes
      BY <2>1, <1>2, RunTaskEffect DEF FlagInv, PendingFresh
    <2>2. CASE Head(tasks).decodes
      BY <2>2, <1>2, <1>3, <1>8, RunTaskEffect
    <2>3. QED
      BY <2>1, <2>2
  <1>10. ResponseSentMatchesStream'
    <2> SUFFICES ASSUME NEW x \in StreamIds, streams'[x] # NoEntry
                 PROVE  streams'[x].response_sent <=> sendState'[x] = "ended"
      BY DEF ResponseSentMatchesStream
    <2>1. CASE x = RunSid
      BY <1>9, <2>1
    <2>2. CASE x # RunSid
      BY <1>9, <2>2 DEF FlagInv, ResponseSentMatchesStream
    <2>3. QED
      BY <2>1, <2>2
  <1>11. PendingFresh'
    <2> SUFFICES ASSUME NEW x \in Pending'
                 PROVE  streams'[x] = NoEntry /\ sendState'[x] = "open"
                        /\ peer'[x] # "idle"
      BY DEF PendingFresh
    <2>1. x \in Pending /\ x # RunSid
      BY <1>7
    <2>2. x \in StreamIds
      <3>1. PICK i \in 1..Len(tasks) : x = tasks[i].sid
        BY <2>1 DEF Pending
      <3>2. tasks[i] \in Task
        BY <1>4
      <3>3. QED
        BY <3>1, <3>2 DEF Task
    <2>3. QED
      BY <1>4, <1>9, <2>1, <2>2 DEF FlagInv, PendingFresh
  <1>12. IdleFresh'
    BY <1>2, <1>4, <1>9 DEF FlagInv, IdleFresh, PendingFresh
  <1>13. QED
    BY <1>1, <1>6, <1>10, <1>11, <1>12 DEF FlagInv

\* Without trailers every step keeps FlagInv.
LEMMA FlagInvStep ==
    ASSUME ~SendTrailers, FlagInv, [Next]_vars
    PROVE  FlagInv'
  <1>1. ASSUME NEW s \in StreamIds, TrailersReceived(s) PROVE FALSE
    BY <1>1 DEF TrailersReceived
  <1>2. CASE UNCHANGED vars
    BY <1>2 DEF vars, FlagInv, TypeInv, TypeOK, OpenUnanswered, BodyBounded,
                ResponseSentMatchesStream, PendingUnique, PendingFresh,
                Pending, IdleFresh
  <1>3. QED
    BY <1>1, <1>2, FlagInvHeaders, FlagInvData, FlagInvReset, FlagInvRun
    DEF Next

\* When peers send no trailing HEADERS frame, the 'response_sent' flag that
\* send_error_response trusts is accurate in every reachable state: an
\* entry of self.streams says 'response_sent' exactly when its stream has
\* been ended by a response, however resets, data and tasks interleave.
THEOREM ResponseFlagAccurate ==
    ASSUME ~SendTrailers
    PROVE  Spec => []ResponseSentMatchesStream
  <1>1. Init => FlagInv
    BY ConstantsAssumption
    DEF Init, FlagInv, TypeInv, TypeOK, OpenUnanswered, BodyBounded,
        ResponseSentMatchesStream, PendingUnique, PendingFresh, Pending,
        IdleFresh
  <1>2. FlagInv /\ [Next]_vars => FlagInv'
    BY FlagInvStep
  <1>3. FlagInv => ResponseSentMatchesStream
    BY DEF FlagInv
  <1>4. QED
    BY <1>1, <1>2, <1>3, PTL DEF Spec

-----------------------------------------------------------------------------
(***************************************************************************)
(* No task dies, when peers send UTF-8 headers and no trailers.            *)
(***************************************************************************)

\* Every pending task will decode its headers.
PendingDecodes == \A i \in 1..Len(tasks) : tasks[i].decodes

WellInv == FlagInv /\ PendingDecodes /\ NoUnhandledTaskError

LEMMA WellInvStep ==
    ASSUME ~SendTrailers, DecodeOutcomes = {TRUE}, WellInv, [Next]_vars
    PROVE  WellInv'
  <1>1. FlagInv'
    BY FlagInvStep DEF WellInv
  <1>2. tasks \in Seq(Task)
    BY DEF WellInv, FlagInv, TypeInv, TypeOK
  <1>3. ASSUME NEW s \in StreamIds, HeadersReceived(s)
        PROVE  PendingDecodes' /\ NoUnhandledTaskError'
    <2>1. PICK r \in Routes, d \in DecodeOutcomes :
            tasks' = Append(tasks, [sid |-> s, route |-> r, decodes |-> d])
      BY <1>3 DEF HeadersReceived
    <2>2. d = TRUE
      BY <2>1
    <2>3. QED
      BY <1>2, <1>3, <2>1, <2>2
      DEF HeadersReceived, WellInv, PendingDecodes, NoUnhandledTaskError
  <1>4. ASSUME NEW s \in StreamIds, TrailersReceived(s) PROVE FALSE
    BY <1>4 DEF TrailersReceived
  <1>5. ASSUME NEW s \in StreamIds, DataReceived(s) \/ StreamReset(s)
        PROVE  PendingDecodes' /\ NoUnhandledTaskError'
    BY <1>5 DEF DataReceived, StreamReset, WellInv, PendingDecodes,
                NoUnhandledTaskError
  <1>6. ASSUME RunTask PROVE PendingDecodes' /\ NoUnhandledTaskError'
    <2>1. tasks # << >> /\ tasks' = Tail(tasks)
      BY <1>6, RunTaskEffect
    <2>2. Head(tasks).decodes
      BY <1>2, <2>1 DEF WellInv, PendingDecodes
    <2>3. RunView = AnsweredView
      BY <2>1, RunViewAnswers DEF WellInv
    <2>4. RunView.raised = FALSE
      BY <2>3 DEF AnsweredView, ViewOf
    <2>5. taskErrors' = taskErrors
      BY <1>6, <2>2, <2>4, RunTaskEffect
    <2>6. PendingDecodes'
      BY <1>2, <2>1 DEF WellInv, PendingDecodes
    <2>7. QED
      BY <2>5, <2>6 DEF WellInv, NoUnhandledTaskError
  <1>7. ASSUME UNCHANGED vars PROVE PendingDecodes' /\ NoUnhandledTaskError'
    BY <1>7 DEF vars, WellInv, PendingDecodes, NoUnhandledTaskError
  <1>8. QED
    BY <1>1, <1>3, <1>4, <1>5, <1>6, <1>7 DEF Next, WellInv

\* When peers send UTF-8 headers and no trailing HEADERS frame, no
\* handle_request task ever ends with an exception that escapes its
\* except clauses, whatever the resets, the data and the interleaving.
THEOREM NoTaskDies ==
    ASSUME ~SendTrailers, DecodeOutcomes = {TRUE}
    PROVE  Spec => []NoUnhandledTaskError
  <1>1. Init => WellInv
    BY ConstantsAssumption
    DEF Init, WellInv, FlagInv, TypeInv, TypeOK, OpenUnanswered, BodyBounded,
        ResponseSentMatchesStream, PendingUnique, PendingFresh, Pending,
        IdleFresh, PendingDecodes, NoUnhandledTaskError
  <1>2. WellInv /\ [Next]_vars => WellInv'
    BY WellInvStep
  <1>3. WellInv => NoUnhandledTaskError
    BY DEF WellInv
  <1>4. QED
    BY <1>1, <1>2, <1>3, PTL DEF Spec

=============================================================================
