# Formal models of aird

TLA+ models of the implementation under `src/`, TLC configurations that check them on small
instances, and TLAPS proofs of the main safety properties for every instance.

## The system and its parts

The implementation in this repository has three source files:

| Part | Source | What it does | State that changes |
|---|---|---|---|
| HTTP/3 connection handler `AirdQuicHandler` | `src/aird/quic_server.py:37-214` | Turns H3 events into asyncio tasks. Each task routes a request and answers it. | `self.streams`, the H3 send side of each stream, the asyncio task queue |
| QUIC server start-up | `src/aird/quic_server.py:217-359` | Builds the configuration, may write a self-signed certificate, starts `serve()` | none shared (one-shot I/O) |
| Share loader `_load_shares` | `src/aird/utils/util.py:5-82` | Reads the shares table under five historical schemas | none (pure function of the table) |
| File icon `get_file_icon` | `src/aird/utils/util.py:84-214` | Maps a file name to an icon | none |
| Configuration | `src/aird/constants.py` | Feature flags, limits, upload whitelist (with an environment override) | read once at import |

`spec.md` also describes engine components whose code is not in this repository. These are the
Path Guard, the Chunked Content Server, the Line Index Builder and the Streaming Search Engine
(sections 4.1-4.4, 5). Of these, only the Streaming Search Engine's session is modelled. It
follows spec.md and is marked `spec_modelled` in `PROJECT.json` (see "The search session"
below).

### How the handler's actors interact

One QUIC connection has three actors that share the handler's state:

1. **The peer.** aioquic's `H3Connection.handle_event` delivers its frames to
   `http_event_received` one event at a time. A `HeadersReceived` event calls
   `asyncio.create_task(handle_request)` and returns. `DataReceived` appends to the stream's entry,
   if one exists. `StreamReset` pops the entry.
2. **The tasks.** The event loop runs them in FIFO order, after the event handler has returned.
   Each one decodes the headers, stores `self.streams[id] = {..., 'response_sent': False}` and
   calls `route_request`. That goes to `handle_file_request`, `handle_root_request`,
   `handle_static_request` or `send_redirect_response`. Errors pass through three nested
   `try/except` blocks, each of which calls `send_error_response`.
3. **The H3 send side of each stream.** `send_headers` / `send_data(end_stream=True)` end the
   stream, and a later `send_headers` on it raises.

None of the coroutines awaits anything that really suspends: the `send_*` calls are synchronous.
So a task runs from its first to its last statement in one event-loop step. Peer events can
fall only *between* tasks, never inside one. This is what makes an atomic `RunTask` action
faithful.

## Modules

| Module | Models | Kind |
|---|---|---|
| `QuicHandler.tla` | `AirdQuicHandler` (`quic_server.py:37-214`) | component specification |
| `MCQuicHandler.tla` | model values for two streams, the decode-outcome set | TLC instantiation |
| `QuicHandlerProofs.tla` | inductive invariants, lemmas, theorems | TLAPS proofs |
| `ShareLoader.tla` | `_load_shares` (`util.py:5-82`) | component specification |
| `MCShareLoader.tla` | one share id, every row value, the five schema versions | TLC instantiation |
| `ShareLoaderProofs.tla` | `RowsKept` and `ColumnsHonoured` for every table | TLAPS proofs |
| `SearchProtocol.tla` | the event stream of one search (spec §4.4) | abstract specification |
| `SearchSession.tla` | a search session's scan task and its cancel flag (spec §4.4, §5) | component specification (spec-modelled) |
| `MCSearchSession.tla` | files of up to two chunks, with open and read failures | TLC instantiation |
| `SearchSessionProofs.tla` | the session implements `SearchProtocol` (safety part) | TLAPS proofs |

### `QuicHandler`: state

| Variable | Code |
|---|---|
| `streams` | `self.streams`. A total function with the marker `NoEntry` for an absent key. An entry keeps `response_sent` and the number of body chunks appended. |
| `tasks` | The `handle_request` tasks created by `create_task` and not yet run: a FIFO of `[sid, route, decodes]`. |
| `sendState` | The H3 send side of each stream: `"open"` or `"ended"`. |
| `responses` | The HEADERS frames the handler got onto each stream. It is checked to stay at most 1. |
| `peer` | What the peer has done on each stream: `idle`, `open` (headers sent), `trailed`, `reset`. |
| `dataSent` | DATA frames the peer sent on each stream (bounded by `MaxData`). |
| `taskErrors` | Streams whose task ended with an exception nobody caught. asyncio only logs "Task exception was never retrieved". |

### `QuicHandler`: constants

| Constant | Meaning |
|---|---|
| `StreamIds` | The request streams of one connection. |
| `MaxData` | The DATA-frame bound per stream. |
| `DecodeOutcomes` | `{TRUE}`: the peer sends UTF-8 headers; `BOOLEAN`: a header may fail to decode. |
| `SendTrailers` | Whether a peer may send a trailing HEADERS frame. |
| `NoEntry` | The marker for an absent key. |

### `QuicHandler`: actions

| Action | Code |
|---|---|
| `HeadersReceived(s)` | `http_event_received`, lines 56-57. The request's route and whether its headers decode are chosen by `\E`. |
| `TrailersReceived(s)` | The same branch, hit by a trailing HEADERS frame. aioquic reports it as `HeadersReceived`, and with no `:path` it routes as `/`. |
| `DataReceived(s)` | Lines 58-64. The chunk is dropped when the stream has no entry. |
| `StreamReset(s)` | Lines 65-67. |
| `RunTask` | The whole of `handle_request`, lines 69-102, with everything it calls. |

`RunTask` follows the code step by step:

1. **Decode.** A decode failure (lines 79-80) raises before the `try` and kills the task.
2. **Store.** Otherwise `StoreStreamInfo` (lines 89-95) gives the task a fresh view of its
   stream.
3. **Route and answer.** `handle_request(route, view)` runs over that view:
   - `Catch` is a `try/except` that calls `send_error_response`;
   - `route_request` and `handle_file_request` each wrap their work in a `Catch`;
   - `SendResponse` stands for each responder's three statements: `send_headers` raises on an
     ended stream, `send_data` ends the stream, and the flag assignment raises `KeyError` when
     the entry is gone;
   - `SendErrorResponse` is `send_error_response`, with its early return on
     `response_sent`.

   The view is a record `[ended, entry, rs, sent, raised]`, and `raised` is the exception in
   flight.
4. **Write back.** The resulting view is written back to `streams`, `sendState`, `responses` and
   `taskErrors`.

## Properties and runs

All handler runs use two streams (`MCQuicHandler`, with model values `s1 s2`) and `CHECK_DEADLOCK FALSE`.
The server really does idle once the peer stops sending.

| Run (cfg) | Expect | Checks | Shows |
|---|---|---|---|
| `flag_accuracy` (`MCQuicFlag.cfg`) | pass | `ResponseSentMatchesStream` | Without trailers, the flag `send_error_response` trusts is accurate: an entry says `response_sent` exactly when its stream was ended. Decode failures, resets and two DATA frames per stream are in play. |
| `well_behaved_peers` (`MCQuicHandler.cfg`) | pass | `NoUnhandledTaskError`, `EveryRequestAnswered` | With UTF-8 headers and no trailers, no task dies, and every request whose headers arrived is eventually answered. |
| `trailers_answered` (`MCQuicTrailers.cfg`) | pass | `TypeOK`, `EveryRequestAnswered` | With trailers, no stream ever gets two responses (`responses \in 0..1`), and every request is still answered. |
| `trailers_crash` (`MCQuicTrailersCrash.cfg`) | violation | `NoUnhandledTaskError` | HEADERS, trailing HEADERS, then the first task answers. The second task overwrites the entry with `response_sent: False`, and its responder raises on the ended stream. `send_error_response` trusts the stale flag and raises inside the except clauses of `route_request` (line 119) and `handle_request` (line 102), so the exception escapes the task. A trailer has no `:path`, so it routes as `/`, and `handle_file_request`'s except (line 145) is not on this path. |
| `undecodable_headers` (`MCQuicBadHeader.cfg`) | violation | `EveryRequestAnswered` | A header that is not UTF-8 kills the task before the `try`, and the stream is never answered. |
| `reset_leak` (`MCQuicResetLeak.cfg`) | violation | `ResetStreamForgotten` | HEADERS, then RESET before the task runs. The task stores the entry again, so the "clean up" of line 67 is undone for good. |
| `request_body_lost` (`MCQuicBodyLost.cfg`) | violation | `RequestBodyKept` | HEADERS and DATA arrive in one callback. The DATA branch finds no entry (the task that stores it has not run) and drops the chunk, so the stored entry has no body. No handler reads the body yet, so the loss is latent. |

The four violations are the findings in `PROJECT.json`.

**No handler refinement.** An abstract "each request is answered at most once" spec was
dropped. The handler would implement it whatever its own logic did: a response can only go out
on a stream the peer opened, and the modelled aioquic refuses a second send on an ended stream.
So that refinement would show nothing about `quic_server.py`. What the handler's own logic
decides is checked by the properties above: the flag, the error chain, task deaths, and answers.

**Unverified about aioquic.** `reset_leak` assumes `aioquic.h3.events` exports `StreamReset`,
as line 20 imports it. aioquic's source is not in this repository. If it does not export it,
the import fails and the QUIC server is off, which `is_quic_available` would report. A peer's
STOP_SENDING is not modelled either. After one, a send on an open stream raises, which
`NoUnhandledTaskError` and `EveryRequestAnswered` would have to account for.

**Bounds.** Two streams are enough for every hazard listed, because each of them is a race on
*one* stream between the peer and that stream's tasks. The second stream checks that tasks of
different streams do not disturb each other through the shared FIFO and dict. `MaxData = 1`
already lets data arrive before and after the task runs. `MaxData = 2` (in `flag_accuracy`)
covers repeated appends to one entry.

**Fairness.** `WF_vars(RunTask)`: the asyncio loop keeps running ready tasks, so a task that
stays runnable is eventually run. Nothing obliges the peer to send anything, so the peer actions
have no fairness.

**Mutants.** Each property of a passing run is shown to catch a plausible bug:

| Mutant | Breaks |
|---|---|
| a responder that forgets the flag | `ResponseSentMatchesStream` |
| stream info never stored | `NoUnhandledTaskError` (the flag assignment raises `KeyError`) |
| the redirect branch of `route_request` missing | `EveryRequestAnswered` |
| an H3 layer that writes on an ended stream | `TypeOK` |
| `json.loads` outside its `try` | `RowsKept` |
| the second `SELECT` forgets `share_type` | `ColumnsHonoured` |
| the `max_results` test made after the count is past the cap | `SearchProtocolSpec` |

### The share loader (`ShareLoader`, run `shares_loaded`)

`_load_shares` runs once, with no concurrency. Its hazards are about which of its many paths a
table takes. The state is the table (a row per share id or none), the set of optional columns
the schema has, and whether the connection fails. Then come the elif branch taken, the ids the
loop has not reached, the dict `loaded`, and the program counter.

The actions are:
- `Pragma`: `PRAGMA table_info` and the elif chain, as `Branch`, the first branch whose
  columns the schema has;
- `Select`: sqlite raises if a selected column is missing;
- `LoadRow`: one iteration of the loop, where each JSON column falls back to its default under
  its own `try`;
- `Return`;
- `Fail`: the outer `except`, which returns `{}` (used by the actions above).

A column value is abstracted to NULL or empty, a JSON list, or text `json.loads` rejects. A
scalar column is NULL or a value.

`MCShareLoader` takes one share id, every row value (3^4 * 2^3 rows) and the five schema
versions the code knows, with a failing and a working connection. It checks 22,710 states:
- `RowsKept`: with a working connection, every row of the table gives a share. A malformed value
  costs only its own field.
- `ColumnsHonoured`: every field equals `Expected`, the per-column statement of what a share
  should hold. This is the column's value if the table has the column and the value is
  well-formed, and the default otherwise. So no branch of the elif chain drops a column it could
  read.

### The search session (`SearchSession`, run `search_protocol`)

The search engine's code is not in this repository, so this model follows spec.md §4.4, §5 and
§8, and its map entries are `spec_modelled`.

**Actors.** The scan runs as a cooperative task on the connection's event loop. The connection's
message handler sets the session's `cancelled` flag, on a cancel message or on close (`Cancel`).
The scan consults the flag only at its yield points: between files (`NextFile`) and between
chunks (`ReadChunk`).

**Data.** A file is abstracted to its chunks. Each chunk is the number of its matching lines,
with a flag for failing to open and the index of a chunk whose read fails.

**The cap.** Every match event raises the result count. At `max_results` the scan stops and
sends `search_complete`, with no `file_end` for the file it was in (`EmitMatch`, `Complete`).

**The abstract protocol.** `SearchProtocol` hides chunks and lines. Its state is the number of
files, the events, the file being reported, the match count, a phase and the `cancelled` flag.
- It sends `search_start`, then `no_files` or the files in order.
- Each file is bracketed by `file_start` and `file_end` or `file_error`.
- At most `MaxResults` matches are sent, then `search_complete`.
- `Cancel` sets the flag. Once it is set, `FileStart` and the `search_complete` after the last
  file are disabled (spec §8: no events for a file not yet begun).
- `Stop`, which ends the stream silently, needs the flag. A silent end therefore happens only
  after a cancel.
- A chunk or file already begun may still send its matches, and its `file_error` if opening it
  fails. The cap's `search_complete` also still goes out.
- `Spec` adds `WF_vars(Progress \/ Stop)`, so every search ends: it runs to its end, or it
  stops once cancelled. `Cancel` has no fairness, because nobody has to cancel.

**The mapping.** `nfiles <- Len(files)`, `at <- fi`, `count <- results`,
`phase <- AbsPhase` (a `CASE` over the scan's `pc`), and `cancelled` for itself. `SearchSession`'s fairness is
`WF_vars(Scan)`: the event loop keeps running the task, and nobody has to cancel.

`MCSearchSession` runs all file lists of up to two files. Each file has up to two chunks of 0-2
matches, every failure position, and one unopenable file. With `max_results = 2` it checks
32,430 states:
`SearchProtocolSpec`: the session implements the protocol, liveness included. Because
`count` maps to `results` and the events are shared, the protocol's `Match` guard bounds the
match events in the stream by `max_results` (spec §8). Two bugs break this property: a cap
tested one step late (the listed mutant), and a missing cancel check between files (tried
once by hand).

A chunk already started still sends its matches after a cancel. The spec allows this: the flag
is consulted between chunks, and an in-flight read is never interrupted.

**Spec inconsistency.** §4.4 step 6 counts decode errors among per-file failures that yield
`file_error`. §4.4's scanning paragraph and §7 say decoding is best-effort and never fatal. The
model follows the latter: only open and read failures give `file_error`.

**Hazards without a line in `src/`.** Two hazards of this engine cannot be listed in
`PROJECT.json`, whose hazards name lines under `src/`, because the engine's code is not here:
- a cancel racing the scan at a yield point, covered by `SearchProtocolSpec` through the
  protocol's `~cancelled` guards and `Stop`'s need of the flag;
- an off-by-one at the `max_results` cap, covered by `SearchProtocolSpec` through `Match`'s
  guard.

## What is proved

### The handler (`QuicHandlerProofs.tla`)

TLAPS proves these theorems for **every** set of stream ids and every `MaxData`. The assumptions
are `ConstantsAssumption` and `NoEntryAssumption`.

- **`TypeCorrect == Spec => []TypeOK`.** `TypeOK` is not inductive by itself. Its
  strengthening is `TypeInv = TypeOK /\ OpenUnanswered /\ BodyBounded`:
  - `OpenUnanswered`: an open stream has carried no response, so a response on it keeps
    `responses` at most 1;
  - `BodyBounded`: an entry's body count is at most `dataSent`, so `DataReceived` keeps the
    body within `0..MaxData`.

  The argument for `RunTask` rests on lemmas about the error-handling chain: `SendResponse`,
  `SendErrorResponse`, `Catch` and `handle_request` keep the view "honest" (a response that got
  out has ended the stream), and send nothing on a stream that was already ended.
- **`ResponseFlagAccurate == ASSUME ~SendTrailers PROVE Spec => []ResponseSentMatchesStream`.**
  The strengthening `FlagInv` adds three conjuncts to `TypeInv`:
  - `PendingUnique`: a stream has at most one pending task;
  - `PendingFresh`: until it runs, that stream has no entry and is open;
  - `IdleFresh`: an untouched stream has no entry and is open.

  Then `RunViewAnswers` shows that the task about to run finds a fresh view and answers with
  the flag set (`HandleRequestAnswers`). The hypothesis `~SendTrailers` is needed, because with
  trailers the invariant is false: the `trailers_crash` trace ends with an ended stream whose
  entry says `response_sent: False`.

- **`NoTaskDies == ASSUME ~SendTrailers, DecodeOutcomes = {TRUE} PROVE Spec => []NoUnhandledTaskError`.**
  The strengthening is `WellInv = FlagInv /\ PendingDecodes /\ NoUnhandledTaskError`, where
  `PendingDecodes` says that every pending task's headers decode. With a fresh view, the chain
  of `Catch` blocks answers without raising, so the task records no error.

TLC checked the strengthenings as invariants before they were proved:

| Strengthening | Instance | Distinct states |
|---|---|---|
| `TypeInv` | trailers and decode failures, `MaxData = 2` | 49,573 |
| `FlagInv` | no trailers, decode failures, `MaxData = 2` | 6,793 |
| `WellInv` | no trailers, UTF-8 headers, `MaxData = 2` | 1,945 |

### The search session (`SearchSessionProofs.tla`)

- **`ImplementsSearchProtocol == Spec => Protocol!SafetySpec`**, for every set of possible files,
  every `MaxFiles` and every `MaxResults > 0` (`SearchAssumption`).
  - The inductive invariant `SInv` adds these to the types:
    - while a file is being scanned, `fi <= Len(files)`;
    - before the cap, `results < MaxResults`, and at the cap it equals `MaxResults`;
    - `nofiles` only for an empty glob.
  - These are what the protocol's guards need:
    - `FileStart` needs `at <= nfiles`;
    - `Match` needs `count < MaxResults`;
    - `Begin` needs its `nfiles = 0` test to agree with the scan's `files = << >>`.
  - The `StepRefines` lemma maps each scan step to a protocol step:
    - the open of a readable file, a chunk read and an empty chunk's end are stutters;
    - a cancel is the protocol's `Cancel`;
    - an observed cancel is `Stop`, whose need of the flag is met because the scan only stops
      when it reads the flag set;
    - the scan starts a file or completes between files only after reading the flag clear,
      which meets the protocol's `~cancelled` guards.

- **`MatchesNeverPastCap == Spec => []MatchesCapped`.** On the checked instance the refinement
  already gives this bound, and this theorem gives it for every value of the constants. The
  invariant
  `MInv = SInv /\ MatchCount(events) = results /\ results <= MaxResults` ties the stream to
  the counter. Two lemmas carry the argument:
  - `StepEvents`: a step appends a non-match and leaves `results`, or appends a match in state
    `matches` and raises `results`;
  - `MatchCountAppend`: the match count grows by one exactly when a match is appended. It uses
    `FS_AddElement` and `FS_Subset` from `FiniteSetTheorems`.

  `results < MaxResults` in state `matches` (from `SInv`) is what keeps the raised count within
  the cap. TLC checked `MInv` on the `search_protocol` instance (32,430 states).

### The share loader (`ShareLoaderProofs.tla`)

Both theorems rest on one inductive invariant, `LInv`. TLC checked it on 97,392 states: two share
ids, every schema over three optional columns, and rows over four varying columns. `LInv` says:
- before the PRAGMA, the dict is empty;
- from the PRAGMA on, the connection works and `branch = Branch(schema)`;
- in the loop, exactly the rows the `for` has passed have their share, `ShareOf(branch, row)`;
- once done with a working connection, every row has its share.

The lemmas are about the model's operators:
- `BranchChosen`: the elif chain always takes a branch, the first whose columns the table has,
  so the `SELECT` never names a missing column;
- `BranchOfVersion`: on the schema of version *k*, the chain takes branch *k*;
- `InterpKeeps`: a selected column keeps a well-formed value and otherwise falls back to the
  field's default;
- `ShareOfShare`: a row's share is a share, and no field of it raised;
- `ShareOfVersion`: on version *k*'s schema, branch *k* builds `Expected(row)`.

The theorems:
- **`LoadsEveryRow == Spec => []RowsKept`**, for **every** schema, not only the five versions.
  No branch can make the `SELECT` raise, and no `json.loads` error can reach the outer
  `except`. The assumption `NoShare \notin Share` only says the marker for an absent key is not
  a share.
- **`HonoursColumns == ASSUME Schemas \subseteq SchemaVersions PROVE Spec => []ColumnsHonoured`.**
  `SchemaVersions` is the five column sets the elif chain names. The hypothesis is needed, and
  TLC shows why. With the schema `{share_type}`, the chain falls to the bare `else`, and the
  share ignores a `share_type` the table has. A database created by this code's migrations has
  one of the five versions. A hand-altered one may not.

**Only model-checked.** These stay with TLC:
- `EveryRequestAnswered`, and the fairness part of `SearchProtocolSpec`. TLAPS does not
  handle ENABLED, so liveness is out of its reach. The safety part of the refinement is
  proved.
- The properties of the violation runs, which are findings and false by design.

Every invariant of a passing run is stated by a proved theorem. The
exceptions are the hypotheses each theorem states, which are also the settings of the runs
that check the same properties:
- no trailers for the flag theorem;
- no trailers and UTF-8 headers for the task theorem;
- the known schema versions for `ColumnsHonoured`.

## What is not modelled, and why

- **Server start-up and certificate generation.** These are configuration and file I/O with no
  state shared with later steps.
- **Response bytes, status codes, header names, logging.** No property distinguishes them. A
  route is one of four values, and a body is a chunk count.
- **aioquic itself.** Only its observable contract is kept: a stream's send side ends with
  `end_stream=True`, and `send_headers` on an ended stream raises.
- **`get_file_icon`.** A pure lookup table. Its tests import `aird.main`, which is not in the
  repository, so there is no intended result to check it against besides the table itself.
- **Constants.** Import-time data.
- **Path Guard, Chunked Content Server, Line Index Builder.** Their code is not in the
  repository, and the spec gives only their contracts.
- **`_load_shares`' `created` column.** It is copied verbatim.

## Plan for later sittings

1. Spec-model the line-offset index and the chunk ranges (spec §4.2-4.3) as pure operators,
   checked against reference definitions over bounded inputs.
2. Compose several search sessions on one event loop, if the engine's code arrives.
