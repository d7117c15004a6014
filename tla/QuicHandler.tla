----------------------------- MODULE QuicHandler -----------------------------
(***************************************************************************)
(* One QUIC connection of the experimental HTTP/3 server (AirdQuicHandler, *)
(* src/aird/quic_server.py).                                               *)
(*                                                                         *)
(* Three actors share the handler's state:                                 *)
(*   - the peer, whose frames reach http_event_received one H3 event at a *)
(*     time (HeadersReceived, DataReceived, StreamReset);                  *)
(*   - the asyncio tasks that HeadersReceived spawns with create_task,     *)
(*     queued FIFO and each run to completion in one event-loop step (the *)
(*     handlers await nothing that really suspends);                       *)
(*   - the H3 send side of each stream, which refuses (raises) a write     *)
(*     once the stream has been ended.                                     *)
(* The dict self.streams is a total function with the marker NoEntry for  *)
(* an absent key; of an entry only what the handlers read is kept:         *)
(* 'response_sent' and the number of body chunks appended.                 *)
(***************************************************************************)
EXTENDS Naturals, Sequences

CONSTANTS
    StreamIds,      \* client-initiated request streams of the connection
    MaxData,        \* DATA frames a peer sends on one stream (bound)
    DecodeOutcomes, \* can the header bytes be UTF-8 decoded: {TRUE} or BOOLEAN
    SendTrailers,   \* may a peer end a request with a trailing HEADERS frame
    NoEntry         \* marker: the stream id is not a key of self.streams

ASSUME ConstantsAssumption ==
    /\ MaxData \in Nat
    /\ DecodeOutcomes \subseteq BOOLEAN
    /\ DecodeOutcomes # {}
    /\ SendTrailers \in BOOLEAN

VARIABLES
    streams,     \* self.streams: stream id -> entry or NoEntry
    tasks,       \* handle_request tasks created and not yet run (FIFO)
    sendState,   \* H3 send side of each stream: "open" or "ended"
    responses,   \* HEADERS frames the handler got onto each stream
    peer,        \* peer side of each stream: "idle", "open", "trailed", "reset"
    dataSent,    \* DATA frames the peer sent on each stream
    taskErrors   \* streams whose task ended with an exception nobody caught

vars == <<streams, tasks, sendState, responses, peer, dataSent, taskErrors>>

\* The paths route_request tells apart: '/files/...', '/', the static
\* prefixes, and everything else (redirected to the main HTTP server).
Routes == {"files", "root", "static", "redirect"}

Entry == [response_sent : BOOLEAN, body : 0..MaxData]

\* The marker for an absent key is not an entry (the dict's .get is None).
ASSUME NoEntryAssumption == NoEntry \notin Entry

Task == [sid : StreamIds, route : Routes, decodes : BOOLEAN]

\* The type of the handler's state; responses \in 0..1 says that no stream
\* ever carries two responses, which rests on send_headers refusing to
\* write on a stream already ended.
TypeOK ==
    /\ streams \in [StreamIds -> Entry \cup {NoEntry}]
    /\ tasks \in Seq(Task)
    /\ sendState \in [StreamIds -> {"open", "ended"}]
    /\ responses \in [StreamIds -> 0..1]
    /\ peer \in [StreamIds -> {"idle", "open", "trailed", "reset"}]
    /\ dataSent \in [StreamIds -> 0..MaxData]
    /\ taskErrors \subseteq StreamIds

Init ==
    /\ streams = [s \in StreamIds |-> NoEntry]
    /\ tasks = <<>>
    /\ sendState = [s \in StreamIds |-> "open"]
    /\ responses = [s \in StreamIds |-> 0]
    /\ peer = [s \in StreamIds |-> "idle"]
    /\ dataSent = [s \in StreamIds |-> 0]
    /\ taskErrors = {}

-----------------------------------------------------------------------------
(***************************************************************************)
(* What one handle_request task does to its stream.  The task's view of   *)
(* the stream is a record: ended (H3 send side), entry (key present in     *)
(* self.streams), rs (its 'response_sent'), sent (HEADERS frames that got  *)
(* out) and raised (an exception is propagating).                          *)
(***************************************************************************)

\* A task's view of its stream.
ViewOf(ended, entry, rs, sent, raised) ==
    [ended |-> ended, entry |-> entry, rs |-> rs, sent |-> sent, raised |-> raised]

\* The view with an exception propagating (TRUE) or caught (FALSE).
WithRaised(v, raised) == ViewOf(v.ended, v.entry, v.rs, v.sent, raised)

\* Mutant: a handler that forgets streams[sid]['response_sent'] = True.
SendResponseNoFlag(v) ==
    IF v.ended THEN WithRaised(v, TRUE)
    ELSE ViewOf(TRUE, v.entry, v.rs, v.sent + 1, v.raised)

\* Mutant: an H3 layer that lets send_headers write on an ended stream.
SendResponseIgnoresEnd(v) ==
    ViewOf(TRUE, v.entry, v.rs \/ v.entry, v.sent + 1, v.raised \/ ~v.entry)

\* send_headers (raises once the stream has been ended);
\* send_data(end_stream=True); streams[sid]['response_sent'] = True, which
\* raises KeyError when the entry is gone.
SendResponse(v) ==
    IF v.ended THEN WithRaised(v, TRUE)
    ELSE ViewOf(TRUE, v.entry, v.rs \/ v.entry, v.sent + 1, v.raised \/ ~v.entry)

\* send_error_response: returns at once when the response was already sent,
\* otherwise sends a response itself (and may raise while doing so).
SendErrorResponse(v) ==
    IF v.entry /\ v.rs THEN WithRaised(v, FALSE)
    ELSE SendResponse(WithRaised(v, FALSE))

\* try: ... except Exception: await self.send_error_response(...)
Catch(v) == IF v.raised THEN SendErrorResponse(v) ELSE v

handle_file_request(v) == Catch(SendResponse(v))

\* Mutant: the fall-through branch that redirects is missing, so such a
\* request is routed nowhere.
route_request_no_redirect(r, v) ==
    IF r = "redirect" THEN v
    ELSE Catch(IF r = "files" THEN handle_file_request(v) ELSE SendResponse(v))

\* handle_root_request, handle_static_request and send_redirect_response
\* send without a try of their own.
route_request(r, v) ==
    Catch(IF r = "files" THEN handle_file_request(v) ELSE SendResponse(v))

handle_request(r, v) == Catch(route_request(r, v))

\* Mutant: the stream info is never stored in self.streams.
StoreStreamInfoDropped(s) ==
    ViewOf(sendState[s] = "ended", FALSE, FALSE, 0, FALSE)

\* self.streams[stream_id] = {..., 'response_sent': False}: the task's view
\* of its stream once the headers are parsed and the stream info stored.
StoreStreamInfo(s) ==
    ViewOf(sendState[s] = "ended", TRUE, FALSE, 0, FALSE)

-----------------------------------------------------------------------------
(***************************************************************************)
(* http_event_received, one H3 event at a time.                           *)
(***************************************************************************)

\* HeadersReceived: asyncio.create_task(self.handle_request(event)).  The
\* first HEADERS frame of a stream carries the request line.
HeadersReceived(s) ==
    /\ peer[s] = "idle"
    /\ \E r \in Routes, d \in DecodeOutcomes :
          tasks' = Append(tasks, [sid |-> s, route |-> r, decodes |-> d])
    /\ peer' = [peer EXCEPT ![s] = "open"]
    /\ UNCHANGED <<streams, sendState, responses, dataSent, taskErrors>>

\* A trailing HEADERS frame is also delivered as HeadersReceived; it has no
\* ':path', so the new task routes it as '/'.
TrailersReceived(s) ==
    /\ SendTrailers
    /\ peer[s] = "open"
    /\ \E d \in DecodeOutcomes :
          tasks' = Append(tasks, [sid |-> s, route |-> "root", decodes |-> d])
    /\ peer' = [peer EXCEPT ![s] = "trailed"]
    /\ UNCHANGED <<streams, sendState, responses, dataSent, taskErrors>>

\* DataReceived: the chunk is appended only if the stream has an entry.
DataReceived(s) ==
    /\ peer[s] = "open"
    /\ dataSent[s] < MaxData
    /\ dataSent' = [dataSent EXCEPT ![s] = @ + 1]
    /\ streams' = IF streams[s] # NoEntry
                  THEN [streams EXCEPT ![s] = [response_sent |-> @.response_sent,
                                               body |-> @.body + 1]]
                  ELSE streams
    /\ UNCHANGED <<tasks, sendState, responses, peer, taskErrors>>

\* StreamReset: self.streams.pop(event.stream_id, None).
StreamReset(s) ==
    /\ peer[s] = "open"
    /\ peer' = [peer EXCEPT ![s] = "reset"]
    /\ streams' = [streams EXCEPT ![s] = NoEntry]
    /\ UNCHANGED <<tasks, sendState, responses, dataSent, taskErrors>>

(***************************************************************************)
(* The event loop runs the oldest pending task to completion.  Decoding   *)
(* the header bytes comes before the try block, so a decode error escapes  *)
(* the task; otherwise the stream info is stored (a fresh dict, replacing  *)
(* any entry) and the request is routed.                                   *)
(***************************************************************************)
RunTask ==
    /\ tasks # <<>>
    /\ LET t == Head(tasks)
           s == t.sid
           v == handle_request(t.route, StoreStreamInfo(s))
       IN IF ~t.decodes
          THEN /\ taskErrors' = taskErrors \cup {s}
               /\ UNCHANGED <<streams, sendState, responses>>
          ELSE /\ streams' = [streams EXCEPT ![s] =
                                 IF v.entry
                                 THEN [response_sent |-> v.rs, body |-> 0]
                                 ELSE NoEntry]
               /\ sendState' = [sendState EXCEPT ![s] =
                                    IF v.ended THEN "ended" ELSE "open"]
               /\ responses' = [responses EXCEPT ![s] = @ + v.sent]
               /\ taskErrors' = IF v.raised THEN taskErrors \cup {s}
                                ELSE taskErrors
    /\ tasks' = Tail(tasks)
    /\ UNCHANGED <<peer, dataSent>>

Next ==
    \/ \E s \in StreamIds :
          \/ HeadersReceived(s)
          \/ TrailersReceived(s)
          \/ DataReceived(s)
          \/ StreamReset(s)
    \/ RunTask

\* The asyncio loop keeps running ready tasks; the peer is free to stop.
Fairness == WF_vars(RunTask)

Spec == Init /\ [][Next]_vars /\ Fairness

-----------------------------------------------------------------------------
(***************************************************************************)
(* Properties.                                                             *)
(***************************************************************************)

\* The flag send_error_response trusts is accurate: a stream's entry says
\* 'response_sent' exactly when the handler has ended the stream with a
\* response (handle_request, the handlers, send_error_response).
ResponseSentMatchesStream ==
    \A s \in StreamIds :
        streams[s] # NoEntry =>
            (streams[s].response_sent <=> sendState[s] = "ended")

\* No handle_request task dies with an exception: the except clauses of
\* handle_request, route_request and handle_file_request are meant to turn
\* every error into a 500 response.
NoUnhandledTaskError == taskErrors = {}

\* Every request whose headers arrived is eventually answered: the stream
\* is ended by a response (handle_request run by the event loop).
EveryRequestAnswered ==
    \A s \in StreamIds : peer[s] # "idle" ~> sendState[s] = "ended"

\* A stream the peer has reset has no entry in self.streams: the
\* StreamReset branch of http_event_received cleans it up.
ResetStreamForgotten ==
    \A s \in StreamIds : peer[s] = "reset" => streams[s] = NoEntry

\* The request body is kept: an entry of self.streams holds every DATA frame
\* the peer sent on its stream (the DataReceived branch, "Handle request
\* body data").
RequestBodyKept ==
    \A s \in StreamIds : streams[s] # NoEntry => streams[s].body = dataSent[s]

=============================================================================
