# StreamingServer: specifications and proofs

TLA+ modules that model the C++ HTTP/3 streaming server and client of this
repository (`src/Server`, `src/Client`), TLC configurations that check them on
small instances, and TLAPS proofs of what matters most for every instance.

Both programs sit between two C libraries: **msquic** (QUIC; it calls the
program back on threads of its own) and **nghttp3** (HTTP/3 framing; it is not
thread-safe and does no I/O). Neither is part of the repository. The program is
small, but almost everything in it happens in callbacks that no lock
synchronises, so its hard behaviours are orders of events, and those are what
the modules are about.

## 1. Inventory

| Component | State | Operations | Interacts with |
|---|---|---|---|
| **Connection registry**: `ConnectionMap.h`, listener callback of `QUICServer.cpp` | `connection_map`, `connection_id_generator`, `connection_close_q`, one heap `ServerConnectionContext` per connection | `GenerateConnectionId`, `InsertConnection`, `RegisterConnectionRemove`, `ConnectionCloseJob`, `ServerListenerCallback` | msquic's workers (listener and connection callbacks), the application thread that closes the listener |
| **Server connection**: `ServerConnectionContext.*`, `StreamMap.h` | `stream_map`, `http3`, three stream handles and ids, `http3_stream_ok`, the callback context msquic keeps per stream | `ServerConnectionCallback`, `ServerStreamCallback`, `Http3Init` (a detached thread), `GetStream`, `SetHttp3Context` | registry (queues its id), `ServerHttp3`, msquic |
| **Server HTTP/3**: `ServerHttp3.*` | `nghttp3_conn`, `StreamCtx` per request | `Read`, `SetControlStreamId`, `SetQPACKStreamId`, `SetContext`, nghttp3 callbacks | called from RECEIVE and from the `Http3Init` thread; calls back `SetHttp3Context` |
| **Server lifecycle**: `QUICServer` constructor, `SetConfiguration`, destructor, `ServerStart`, `main` | msquic handles, `ok` | a straight sequence, ended by Enter | msquic; its handles are used by the listener callback and by every connection |
| **Client connection**: `ClientConnectionContext.*`, client `StreamMap.h`, `main.cpp` | `connection_ok`, `http3_stream_ok`, `stream_map`, `quic_connection` | constructor, `Http3Init`, `OpenStream`, `test`, `ConnectionShutdown`, two callbacks | main thread against msquic's worker; `ClientHttp3` |
| **Client datagrams**: `DatagramSend` | `max_send_length`, `datagram_send_enabled`, heap buffers | `DatagramSend`, `DATAGRAM_*` events | application thread against the worker |
| **Client HTTP/3**: `ClientHttp3.*` | `nghttp3_conn`, `pumping` | constructor, `Send`, `NgVec2QuicBuffer` | calls back into the client connection |
| **Client lifecycle**: `QUICClient` | msquic handles | constructor, destructor, `GetClientConnectionContext` | msquic; `main`, which never asks `IsOk` |
| **TLS key log**: `EncodeHexBuffer`, `WriteSslKeyLogFile` | a file, two buffers | called at CONNECTED | the file system |
| `WebCam`, `Encoder`, `CoroutineTask`, `Http.h` | – | not used, or not built | – |

What is hard, and what must be right:

* **Threads.** msquic delivers the events of one connection one at a time, but
  different connections, and the listener, use different workers. The registry
  is shared by all of them without a lock; a connection's context is shared by
  its worker, a detached thread and whichever worker reclaims it. *Right:* a
  context exists as long as something may call back into it, is freed once
  afterwards, and is never forgotten.
* **Order.** A stream's id is issued some time after it is started; data may
  arrive before the HTTP/3 object exists; the connection may end between any
  two steps. *Right:* streams are found under the id they have, HTTP/3 is
  declared ready only when it is, data written for a stream goes out on it.
* **Failure.** Every msquic call may fail, and a failed one leaves default
  values behind (`nullptr`, id 0, an uninitialised pointer). *Right:* a failure
  ends in a shutdown, or in a state that is known (§3 names those that do not).
* **Ownership.** Buffers handed to msquic come back in later events. *Right:*
  each is freed once, after msquic is done with it.
* **Progress.** Two threads spin on flags and status codes. *Right:* they stop.
* **Handles.** Library, registration, configuration, listener and connections
  nest, constructors stop at the first failure, and destructors run all the
  same. *Right:* each handle is closed once, after everything that needs it.
* **Boundaries.** A cast to 16 bits, RECEIVE events without a buffer, arrays of
  several vectors, a character array used again for a shorter text. *Right:* no
  byte is lost, repeated or invented there.

`PROJECT.json` lists the hazards line by line, with the properties that cover
them or the reason why none does.

## 2. Modules

| Module | Models |
|---|---|
| `ContextLifetime` | what the server means to do with each connection's context: built, serving, ended, reclaimed once |
| `ConnectionMap` | the registry with the callbacks that drive it; implements `ContextLifetime` when one thread delivers every event, until a stream's end deletes a context |
| `ConnectionMapProofs`, `ConnectionMapOneThreadProofs` | its theorems, for any threads and for one thread |
| `HandleLifetime` | the order msquic's handles are opened, used and closed in |
| `QUICServer` | the server from `main` to its end; implements `HandleLifetime` |
| `QUICServerProofs` | its theorems |
| `ServerConnection` | one server connection: its events, its streams' events, reading of requests, and the `Http3Init` thread |
| `ServerConnectionProofs` | its theorems |
| `ClientConnection` | the client from `main` to its end against msquic's worker; implements `HandleLifetime` |
| `ClientConnectionProofs` | its theorems |
| `KeyLog` | the TLS key log as a function of the secrets; `ClientConnection` writes it |
| `KeyLogProofs` | its theorem |
| `ClientHttp3` | callers of `ClientHttp3::Send` that share one pump, against msquic's worker |
| `ClientHttp3Proofs` | its theorems |
| `DatagramSend` | one call of `DatagramSend` against the worker |
| `DatagramSendProofs` | its theorems |
| `MC…` | the modules TLC is started with (symmetry sets where they are sound, data of the instances) |

Definitions carry the names of the source where TLA+ allows it, and
`PROJECT.json` maps each of them to its lines. A definition whose comment begins
with *Fault* is a plausible defect; it takes no part in the specification, and
replaces the definition after it when a property is tested for its power to
notice.

### ConnectionMap

Each access other threads can interleave with is a step of its own: `empty`,
`front`, `pop`, `at`, `erase`, `delete`, id generation with construction,
`insert`, `ConnectionSetConfiguration`, and the two halves of `push`. `pc[t]` is
the place of thread `t` in its callback and `loc[t]` its locals.
`connection_close_q` is a `std::queue` nobody locks, so it is kept as memory
cells (`slots`) and two cursors: `push` writes a cell and advances the tail,
`pop` advances the head, and each advance may start from a cursor loaded
earlier, because nothing in the code forces a reload. Cells never written read
as any value of `Garbage`. `connection_map` is not locked either: an operation
that overlaps with a write of another thread (`Collides`) may lose any entries,
miss the one it looks for, or end the process (`MapTears`; the race run sets it
FALSE to show what the queue alone does). `at` on a missing id throws out of the
callback and ends the process.

`StreamEnds` is the end of a stream: the stream callback deletes the context of
the stream's connection, which knows nothing of the map (`ctx` is *lost*; why the
callback does so is in `ServerConnection`). `delete` of what was deleted before
(`DeleteContext`) may end the process, go unnoticed (*twice*), or take the memory
from under another context, and an id read from deleted memory is any value of
`Garbage`, or what it was. Not in the model: a deque whose nodes are relinked while they are read,
a map that returns an entry nobody inserted, and operations that never return.

`conn` is msquic's view: a connection whose `ConnectionSetConfiguration` fails is
*refused* and gets no further event. `StopComplete` is the listener's last
event, after which (`ServerStart`) no new connection is offered.

### QUICServer

The main thread is a place (`main`), one action per msquic call, each with its
failure: constructor with `SetConfiguration`, `IsOk`, `ServerStart` (open, start,
wait for Enter, close) and destructor. Meanwhile connections are offered, accepted
or refused, connect, and end; each leaves a detached `Http3Init` thread, which
nothing waits for. The object lives on the stack of `main` and only `ok` and
`listener` have a value before their call: the other handles are *garbage* until
opened, and the destructor, whose tests cannot tell, either skips them or uses
them (the process may crash there). `ListenerClose` waits for listener callbacks,
`RegistrationClose` for connections, as msquic documents. What a callback does to
the registry is `ConnectionMap`, and to a connection `ServerConnection`.

### ServerConnection

State: the connection up to `ConnectionClose`, the heap object (`context`), the
`http3` pointer, the thread's place and the stream it is on, what msquic knows of
each stream (`stream`, `id`, and `user`, the callback context of its handle),
`stream_map`, and what nghttp3 knows of each stream of the peer. The peer opens bidirectional
streams (`Requests`) and unidirectional ones (`PeerUni`), which msquic numbers apart. msquic delivers the events
of one connection one after the other, so a whole callback is one action; the
`Http3Init` thread is one action per msquic call, for the events that may come in
between. A round of the loop `while(QUIC_FAILED(GetParam(...)))` that fails changes
nothing and is a stuttering step.

`Receive` is one RECEIVE event with its buffers and FIN: `Read` hands each buffer to
nghttp3, FIN with the last. Every stream callback first takes the stream's context for a `StreamCtx`
and makes one if there is none (`StreamCtxOf`, `KeepStreamCtx`); as both ways a stream is
made set the connection's context, that branch is in the model and never taken. nghttp3 may begin a header section (`BeginHeaders`),
whose callback has `SetHttp3Context` look the stream up and clears the fields of
the `StreamCtx` it gets, which in this code is the connection's context
(`context = "overwritten"`). The rest of what the header and body callbacks write
has no defined place, so it is part of that state.

A stream ends when the peer resets it, when the peer's STOP_SENDING resets ours, in order,
or with its connection (`StreamEnding`). A `ServerHttp3` whose nghttp3 could not be made is
*broken*: binding to it crashes, fails or seems to succeed (`UseNghttp3`).

Undefined behaviour (a freed, overwritten or foreign object, a closed handle, an
uninitialised pointer) either ends the process (`proc = "terminated"`) or goes
unnoticed. After it has gone unnoticed the content of the context means nothing,
so the invariants about it begin with `context = "live"`.

### ClientConnection

The main thread is a place (`main.at`) and the stream it is about (`main.on`), one
action per call that the worker can interleave with, from the constructor of
`QUICClient` to its destructor. Four things the source does are kept exactly
because the properties depend on them: nobody asks `IsOk`; `connection_ok` is
initialised *after* `GetConnection` has started the connection; `GetStreamId`
returns 0 when `GetParam` fails; `std::unordered_map::insert` keeps the old entry.
`GetParam` waits behind `StreamStart` in msquic's queue of operations, so an id is
missing only when the connection has ended under it (a weaker queue would only
add failures). `Send` is one write per stream nghttp3 has data for here; `pending` is
the set of ids it may still name, a superset of what nghttp3 would name when two
of the bound ids coincide. `nghttp3` says what the constructor of `ClientHttp3` left
behind, whose failures nobody asks for: bound, partly bound, or never made. The peer may
end any stream of ours while the connection is up.

### KeyLog

A char array is a function from indices to character codes, with NUL as 0.
`EncodeHexBuffer` is the loop as a function; `Block` is one `if` of
`WriteSslKeyLogFile`, and the five share `temp_hex_buffer` in turn, as the source
does. `Printed` is what `%s` makes of an array, `Decoded` what a reader makes of
the text.

### ClientHttp3

Each caller goes through `Send` step by step: submit, the flag, writev, the check of
`connection_ok`, `StreamSend`, the offset, clear. The loop breaks when nghttp3 has nothing
left (`WritevEmpty`) and when it fails (`WritevFails`, whatever is queued). Data is counted in vectors. A write is the
vectors nghttp3 returned for a stream; its buffer array is named by where the write
begins and goes from the pump to msquic and back in SEND_COMPLETE. `StreamSend` gives
msquic one buffer whatever the length of the array, so `sent` records one vector
per write. Calls of nghttp3 are atomic; that only one pump at a time makes the
calls of the loop is what the flag is for (`submit_request` has no such protection,
and what an unsynchronised nghttp3 does cannot be read from this code).

### DatagramSend

The cursor, the length left and the chunk are numbers; sets of byte positions
record what msquic accepted (`taken`) and refused (`refused`); a buffer is named
by the offset it begins at. The cast to `uint16_t` is `% ChunkValues`, so that its
width is a parameter. Buffers of empty chunks are not tracked: they have no
offset of their own.

### HandleLifetime

Five kinds of handle, each *none*, *open* or *closed*. `QUICServer` and
`ClientConnection` implement it under the same mapping (`Stage`): a pointer that was
never opened, whatever it holds, is no handle; a refused connection counts as
ended. The client has no listener and one connection.

## 3. Runs

| Run | Checks | Outcome |
|---|---|---|
| `ConnectionMap_many` | types, `NewIdIsFree` | holds |
| `ConnectionMap_one` | `OpenConnectionKeepsContext`, `MapHoldsLiveContexts`, `JobFindsContext`, `ClosedIsPending`, `JobReclaimsAll`, `ReclaimedByNextCallback`, refinement of `ContextLifetime` | holds |
| `ConnectionMap_race` | `JobFindsContext` with two workers | **violated** |
| `ServerConnection_life` | types, `StreamsFoundById`, `BoundStreamsAreOurs`, `EndComesLast`, `ConnectedBecomesReady`, `Http3InitEndsOrSpins` | holds |
| `ServerConnection_context` | `ContextKeptUntilClosed` | **violated** |
| `ServerConnection_early_read` | `ReadFindsHttp3` | **violated** |
| `ServerConnection_request_end` | `EndOfRequestIsReported` | **violated** |
| `DatagramSend_chunks` | types, `EveryByteOnce`, `BuffersHaveOneOwner`, `EachRoundShortens`, `SendReturns` | holds |
| `ClientConnection_main` | types, `PumpFindsStreams`, `NoStreamGetsAnothersData`, `ReadyStreamsWork`, `HandlesOutliveUse`, `KeyLogReadsBack`, `MainEnds`, refinement of `HandleLifetime` | holds |
| `ClientHttp3_send` | types, `WriteIsCurrent`, `SentInOrder`, `ArraysHaveOneOwner`, `NothingLeftBehind`, `SendReturns` | holds |
| `ClientHttp3_fin` | `FinWithLastBuffer` | **violated** |
| `QUICServer_life` | types, `HandlesOutliveUse`, `EverythingIsReleased`, `ServerEnds`, refinement of `HandleLifetime` | holds |

What they show together:

* **The registry.** With one thread delivering everything the registry works: an open
  connection is in the map, the job finds each id and deletes each context once, no
  connection is forgotten, and each is reclaimed at the next listener callback. With two
  workers nothing of that is left: two inserts at once may lose the entry of an open connection
  (that is how `MapBecomes` reads the standard), and even if the map took care of itself, two
  jobs at once take what is not in the queue, and `at` throws (`ConnectionMap_race`). What survives
  any collision is that a new connection is entered under an id that is free (`NewIdIsFree`).
  And a lock would not be enough: the end of a stream deletes the context from under the
  registry. As long as the freed memory is not read for an id, the properties speak of what the
  registry itself does (`Intact`); afterwards they claim nothing.
* **The server's life.** Whichever call fails, callbacks find the handles they
  use, what was opened is closed in an order msquic allows, and `main` waits for
  nothing but Enter and clients that do not hang up.
* **The server connection.** The bookkeeping of streams and readiness is right: each stream
  is found under its id, `http3_stream_ok` means bound streams of ours, a connection whose
  streams cannot be opened or started is shut down, and the waiting thread ends unless the
  stream it waits for can have no id. A connection whose *bind* fails stays up without HTTP/3;
  the code promises nothing there. What three comments say is not so: no stream gets a
  `StreamCtx` of its own, and so the end of the first stream deletes the connection's context
  while it is up; data can be read before `http3` is assigned; and a FIN that comes without data
  is never passed to nghttp3, so the request does not end.
* **The client.** Ids that could not be read never lead HTTP/3 data to another
  stream; although nobody asks `IsOk`, the destructor finds no handle that was never
  opened; and a `main` that has seen the connection come up
  returns, unless `Http3Init` failed (it then waits for `http3_stream_ok` for good) or a call
  on a closed handle ended the process. Whether it sees the connection come up is another matter:
  CONNECTED may come before the flag's initialiser, and a connection that fails leaves it
  spinning (`PROJECT.json`, at `main.cpp:43` and `ClientConnectionContext.h:24`).
  `http3_stream_ok` says that the three streams were opened and mapped, not that they still
  work: the peer may have ended one since. The key log reads back although all secrets
  share one array.
* **The sender.** With any number of callers there is one pump, vectors go out in
  order and once, and each array is freed once. But msquic is given the first buffer
  of each array only, with FIN if the write ends the request: a request that comes as
  two vectors loses the second. A request submitted just after the pump's last look is
  left to nobody, and so is what is queued when nghttp3 fails (`NothingLeftBehind` names both
  cases; only `main` sends today).
* **Datagrams.** Lengths may change between chunks without a byte being lost or
  repeated, and no buffer is leaked or freed early, refused chunks included.

### Bounds

* `ConnectionMap_many`, `ConnectionMap_race`: three connections, two workers and the
  listener's thread. A collision in the queue needs two removals and two jobs at once, one
  in the map two inserts, and a third connection is the one whose context must survive.
  `QueueCells = 3`: one push per connection; `PushStore` is guarded by it, the only bound in
  the module. `Garbage = {0, 1}`: an id nobody has, and one that somebody has.
* `ConnectionMap_one`: three connections, so that ends pile up over several
  listener callbacks. `StopThreads = {w1}` is the same thread: the listener's
  last event comes on it.
* `QUICServer_life`: two connections, so that one may be offered, refused or open while
  the other ends. All seven kinds of call may fail.
* `ServerConnection_*`: one connection (connections share nothing but the
  registry), our three streams and one request, whose stream interleaves with ours.
  Two ids of one kind are among our own streams already; a second request multiplies
  the states without a new kind of event, and so does a unidirectional stream of the peer (`PeerUni`). It has
  none in `ServerConnection_life`, where all calls may fail; the violated runs have one, and the
  theorems hold for any number of them. `MaxBuffers = 2`: FIN
  goes with the last buffer and not with the one before, and 0 is the FIN alone. Nothing
  is counted without bound: each stream lives once, and ends with its FIN.
* `ClientConnection_main`: one connection, three HTTP/3 streams and the request, which
  is what `main` does. Every kind of call that `CallsFail` names may fail: opening and starting,
  nghttp3's constructor, binds, submit and writev, and the key log's file; `malloc` and `new` do not. Key log: secrets of two
  bytes in arrays for three, so that the end of an array is never written; all labels,
  and all but the first label and the random.
* `ClientHttp3_send`: submit, writev and `StreamSend` may fail; two callers, which is enough for one to find the other pumping at
  any place; one HTTP/3 stream with something of its own to write; requests of two vectors and writes
  of at most two (`MaxVectors`, 16 in the code), so that a stream is written at once or in parts.
* `ClientHttp3_fin`: what the program does: one caller, three HTTP/3 streams, 16.
* `DatagramSend_chunks`: six bytes, lengths of 1 (many chunks), 2 (even chunks) and
  7 (the whole message), a cast of three bits. Lengths between 1 and the range of
  the cast, and the state reported before CONNECTED (`StateFirst`), are assumptions
  about msquic that `SendReturns` needs: with a length of 0 the loop does not end,
  which the hazards record.

Deadlock is not checked: each instance has a finite supply of connections, streams
or calls, and stops when they are used up (and where `main` waits forever, that is
what the code does; `MainEnds` and `ServerEnds` say where).

### Fairness

* A thread that is inside a callback, the `Http3Init` thread, the client's main
  thread, the callers of `Send` and the thread in `DatagramSend` are weakly fair: the
  operating system schedules them, and none of their steps waits for a lock.
* The server's main thread is weakly fair except for `Enter`: nobody need press it.
* msquic is weakly fair only in what it owes: to carry out `StreamStart`, to report
  it, to end the streams of a connection that is shutting down, to complete the
  shutdown, to return from the listener callback, and to return send buffers (`Msquic`).
* The peer, the network and the user owe nothing: no fairness on connecting, on
  shutting down, on opening streams, on sending data, or on ending a stream (also by
  STOP_SENDING) while the connection is up.

## 4. Proofs

All theorems hold for every value of the constants under the named assumptions
of the modules, which the runs evaluate: any set of connections and threads, any queue size
(`ConnectionMapAssumption`), any calls that fail (`QUICServerAssumption`), any callers,
streams and numbers of vectors (`ClientHttp3Assumption`), any array sizes
(`KeyLogAssumption`), any message length, any lengths msquic may report, 0
and those beyond the cast included, any width of the cast
(`DatagramSendAssumption`).

**`ConnectionMapProofs`.** `TypeCorrect` and `NewIdsAreFree`, for any threads, any garbage and
with operations on the map that tear each other. The second says that no thread is about to
insert under an id the map has. `IInv` adds what survives every collision: an id belongs to one connection and lies below the
generator (`IdsUnique`), each connection being accepted is in the hands of one thread
(`Accepting`), and an entry bears the id of its connection, whose own callback has entered it
(`EntriesAreOwn`).
More is not true with several threads, as `ConnectionMap_race` shows.

**`ConnectionMapOneThreadProofs`.** For `Threads = {w}`: `OneThreadKeepsOpenContexts`,
`OneThreadMapNeverDangles`, `OneThreadFindsContexts`, `OneThreadForgetsNoConnection`,
`OneThreadReclaimsAll` and `OneThreadImplementsContextLifetime`. `OneInv` has two parts. Whatever
happens (`Plain`), the cursors are ordered and an ended connection's id is in the queue or in
the thread's hands (`StillPending`). Until an id has been read from a context that a stream's
end deleted (`Intact => Sound`), the ids in the queue are distinct and each is that of an ended
connection with a context to delete (`QueueReady`), and the one in the thread's hands is not in
the queue (`KeyReady`). With the queue empty where the job ends (`JobStaysDone`), no ended
connection's context is left when the next one is built: all of `ReclaimedByNextCallback`
but the termination. The end of a stream can come at any moment here too: the properties that
need `Sound` say `Intact` themselves, and the refinement speaks of the steps before any context
was deleted so.

**`QUICServerProofs`.** `TypeCorrect`, `HandlesAreThere`, `NothingLeftOpen` and
`ImplementsHandleLifetime`. Which handles are open at the end depends on where the
constructor gave up, so `IInv` says what the main thread holds at each place
(`HeldAtPlace`), that handles nest and each is closed at one place (`Nested`), and what
connections rely on (`ReliedOn`). The refinement maps every step to one opening,
beginning, end or closing of `HandleLifetime`, or to none.

**`ClientHttp3Proofs`.** `TypeCorrect`, `OnePumpMovesTheOffset`, `VectorsInOrder`,
`ArraysAreOwned`, `PumpEmptiesTheQueue`, with submit, writev and send failing. All rest on `OnePump`: the flag is set as long as
somebody pumps, and nobody else does. So the write in hand begins at the offset
(`WriteFits`, `WriteIsCurrent`), what was sent lies below it (`SentIsCounted`), and the name of
a new array is one msquic does not hold (`HeldIsCounted`, `InHandIsAllocated`): a late
SEND_COMPLETE cannot free it. `PumpLooked` carries what a pump that found nothing
left has seen to its end, and past the ends of later pumps that failed.

**`KeyLogProofs`.** `KeyLogIsReadable`: for every set of labels, secret, length and array
size, each line decodes to the secret under its label. One block hands the next an
array that is clear from the digits of the secret on (`ClearFrom`), because all secrets
have one length; that is why no NUL need be written. The run checks the same through
`KeyLogReadsBack`, in the order of events.

**`DatagramSendProofs`.** `TypeCorrect`, `EachByteGivenOnce`,
`NoBufferLostOrFreedEarly`. A chunk is never longer than what is left
(`ChunkWithinMessage`, through the cast), the buffer being handed over is
allocated (`ChunkInside`), and buffers msquic holds lie behind the cursor
(`HeldBehind`), so a refused chunk's `free` cannot hit one of them. `RoundsShorten`, the
variant of the loop, needs what `SendReturns` needs (`Sound`: lengths that fit the cast and
are not 0, reported before CONNECTED). Then the loop, which only begins on a connection that
is up, never sees the uninitialised length (`LengthReported`).

**`ClientConnectionProofs`.** `TypeCorrect`, `PumpNeverThrows`, `DataStaysOnItsStream`,
`Http3OkMeansStreams`, `HandlesAreThere`, `KeyLogOfConnection` and
`ImplementsHandleLifetime`, for any failing calls, secrets and array sizes
(`ClientConnectionAssumption`). None of the properties is inductive: that two
streams do not share an entry of `stream_map` depends on which ids were read, that on
what has become of the stream meanwhile, and that on how far the main thread has come.
`IInv` says

* what the main thread holds at each place (`HeldAtPlace`, `Nested`; handles) and how far
  it is with the four streams (`StreamsAtPlace`);
* that an id that was read is the one msquic issued, or the 0 left by a failed
  `GetParam`, and that only for a stream that never delivers anything (`StreamStates`);
* that the ids of the three unidirectional streams are different and at least 2, while
  the request's is 0 (`Ids`, which counts the issued ones with `Cardinality`). So a
  leftover 0 can only collide with the request;
* that an HTTP/3 stream with that leftover took the entry 0 first, which `insert` then
  keeps (`Mapped`). This is why the collision is harmless: what is looked up under 0 is
  then a dead stream and not the request.

`KeyLogOfConnection` takes its algorithm from `KeyLogIsReadable` and adds only when the file
is written. The refinement (`LifetimeStep`) has one step per action: each opens,
begins, ends or closes one handle of `HandleLifetime`, or none.

**`ServerConnectionProofs`.** `TypeCorrect`, `LookupsFindTheStream`, `ReadyMeansBound` and
`NothingAfterTheEnd`, for any finite sets of streams of the peer and any number of buffers in an event
(`ServerConnectionAssumption`). `IInv` has

* a stream has an id exactly in the states after msquic has issued it (`StreamStates`);
* ids of the peer's streams are 0 (bidirectional) or 2 modulo 4 and below four times their
  number, ours 3 modulo 4 likewise (`Ids`), so the next number is free (`NextIdIsFree`), the
  three kinds cannot meet, and `insert`, which would keep an older entry, never finds one for a stream
  that works;
* an entry of `stream_map` is a reported stream under its own id (`Mapped`);
* how far the `Http3Init` thread is with the three streams (`ThreadAtPlace`), and that
  what it has read is what was issued (`IdsRead`); there is no leftover here, because
  the loop only ends with an id;
* a request that has ended has had its FIN (`Requested`).

`Read` is a recursive function over the buffers of an event. `ReadFeedsFinOnce` says what it
computes for every number of them. The induction is on sets: if some buffer saw
something else, there is a least one (`LeastNumber`, from `WFMin` and
`NatLessThanWellFounded`), and the round before it was right. That
the function exists is shown by writing it down without recursion.

What the theorems do not say: once undefined behaviour has gone unnoticed the context
means nothing, so `LookupsFindTheStream` and `ReadyMeansBound` speak of a live context, and the
theorems about the registry of one that no stream's end has deleted and that was then read
(`ServerConnection_context` shows that deletion).

Proved are all invariants and the three refinements of the passing runs. Only
model-checked is liveness (`ReclaimedByNextCallback`, `ConnectedBecomesReady`,
`Http3InitEndsOrSpins`, both `SendReturns`, `MainEnds`, `ServerEnds`): it rests on fairness,
that is on `ENABLED`, which the proof system does not handle. Of two of them the safety
part is proved, `JobReclaimsAll` and `EachRoundShortens`.

## 5. Not modelled, and the plan

Not modelled: a `malloc` that fails outside `DatagramSend` (`NgVec2QuicBuffer` then writes
through a null pointer, which ends the process); `WebCam` and `Encoder` (capture and codec I/O, unused or not built),
`CoroutineTask`, `ReceiverInterface`, `Http.h`; TLS configuration values, log lines and the layout of the
key log; functions nothing calls (`ServerSend`, the server's `OpenStream`, `Post`, the copying
`StreamSend`, `EraseStream…`). The header and body collection of `ServerHttp3`
(`OnRecvHeader`, `OnData`, …) writes into a `StreamCtx` that is never made: it has no
defined state, and is modelled as far as it overwrites the connection's context.

Planned: the composition of `ConnectionMap` with one `ServerConnection` per connection, to
check that `Reclaim` there is exactly `Delete` here, and `StreamShutdownComplete` there
`StreamEnds` here.
