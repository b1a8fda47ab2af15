# A verification development for proxy-wasm-examples

The repository holds filters for the Envoy proxy, compiled to WebAssembly and
run by the proxy through the proxy-wasm interface, and two small Go services
some of them call. This directory models the filters that keep state across
callbacks, checks the models with TLC and proves their main properties with
TLAPS.

## 1. The system

A *proxy* runs worker threads. Each worker runs its own copy of a filter's VM
and calls its handlers one at a time, to the end: `onRequestHeaders` and
`onResponseHeaders` of a *stream context* (one per request, named by a context
id), `onTick` of the *root context* (one per VM), and the callbacks of HTTP
calls. Three things cross these borders: members of the root context (all
streams of one VM), the host's shared data and shared queues (all VMs of one
proxy), and calls to other services.

| Component | State it keeps | Operations | What is hard |
|---|---|---|---|
| `hold-rpc` | one held context id and one timer per VM | hold a request for 5 s, tick | a second hold before the tick; the stream ends before the tick |
| `bidi` | shared data of the proxy: per span id the call paths below it; a counter | stamp the response with `x-wasm`, file the stamps of called services, count | get and set are separate calls on several workers; concurrent, retried, failed and untraced calls |
| `http-auth` | none of its own; a paused request and an outstanding call | ask the upstream service, continue or answer 403 | answers in any order, timeouts, failed dispatch, clients that leave |
| `upstream` | a global string | `/auth`, `/store`, `/retrieve` | unsynchronized writes |
| `metrics-store` | per connection byte counts and times; the shared queue `q1`; the singleton's queue token | collect on close, enqueue, one dequeue per tick, store | uninitialized time, lost records, drain rate, fire-and-forget |
| `store` | as `bidi`, and a call to the storage service | as `bidi` | as `bidi`; the callback's context ends with the response |
| `storage-upstream` | a Go map | `/store`, `/retrieve`, `/list` | concurrent map access, restart |
| `http-store` | none | store a time per trace id | the callback's context is gone |
| `path-based-counter` | a counter; the header `x-wasm-path` on its way | append the workload, count one exact path | headers that are not passed on, retries, workloads without a name |
| `boost` | as `http-auth`; `graph_utils`, `str_utils` | as `http-auth`; build a trace graph from headers, find a subgraph mapping | as `http-auth`; boundary cases of the splits |
| `petgraph-rust` | none | ask for a verdict, but let the request go on | the verdict comes before, during or after the response |
| `tcp-metrics` | per connection byte counts, a close time | log the latency | words that wrap, a close that never came, a clock that is set |
| `singleton-http-call` | a timer | call the upstream service every 5 s | overlapping calls |
| `rpc-count`, `parallel-path`, `tcp-packet-parse`, `send-local-response` | at most a host counter | constant effects | nothing to relate; not modelled |

What makes each of the modelled components correct:

* the timer continues the request it was last set for, if that is still there, and
  touches no other one; each held request is continued or its stream ends;
* a trace header names only calls that were made, and all that were collected;
* a paused request passes the gate only on a verdict on its own token, and gets
  one; a request that is let through meanwhile is still refused if the verdict
  is there before the response;
* a metrics record is stored at most once, in the order of the closes, and is
  never waiting without being in the queue;
* the storage service holds for a trace only what a call of that trace brought,
  keeps what it said it stored, and never returns to an older value, until
  overlapping writes damage its map;
* a trace is stored as matching only if it really made the required calls;
* a trace graph has the edges and properties its headers say, a mapping of a query
  answers that query, and a query that the trace shows has a mapping;
* the bytes and the latency of a connection are the real ones, or can be told
  from real ones;
* the header of path-based-counter is the way its request came, and the counter
  counts that one way.

`PROJECT.json` lists every hazard at its line, with the properties that cover
it or the reason why none does.

## 2. Modules

| Module | What it is |
|---|---|
| `HeldRequests` | abstract: the newest hold is owed a release, which is paid once, or lapses if its stream ends |
| `HoldRpc`, `HoldRpcProofs` | `hold-rpc/filter.cc`, one VM |
| `PathLedger` | abstract: an answered call's paths are filed at once, an answer names everything filed |
| `Bidi`, `MCBidi` | `bidi/filter.cc` in every proxy of a mesh; a part of bookinfo for TLC |
| `StoreFilter`, `MCStoreFilter` | `store/filter.cc`: `Bidi`, extended by the call made when the paths match |
| `TracingProofs` | the proofs about `Bidi` and `StoreFilter` |
| `AuthGate` | abstract: no request goes on without a verdict on its own token, verdicts are final |
| `HttpAuth`, `HttpAuthProofs` | `http-auth/filter.cc`, the same handler in `boost/filter.cc`, and `petgraph-rust/src/lib.rs`, with `auth` of `upstream/main.go` |
| `MetricsStore`, `MetricsStoreProofs` | `metrics-store/*.cc` with `store` of `upstream/main.go` |
| `TraceStorage`, `MCTraceStorage`, `TraceStorageProofs` | `storage-upstream/main.go` with the two filters that call it |
| `ConnMetrics`, `ConnMetricsProofs` | `tcp-metrics/filter.cc` and the counting half of `metrics-store/metrics_collector.cc` |
| `PathCounter`, `MCPathCounter`, `PathCounterProofs` | `path-based-counter/filter.cc` in the proxies of a tree of calls |
| `TraceGraph`, `MCTraceGraph`, `TraceGraphProofs` | `boost/graph_utils.cc`, `boost/str_utils.cc` |

Each module of a component has its properties below the specification. A
definition marked "Fault for the mutation runs" is a broken variant of the
definition after it; `PROJECT.json` says which property it must break. No
specification uses one. A variable marked "history" is read by properties only.

### HoldRpc

`stream[c]` is the host's view of a stream (new, held, forwarded, answered,
deleted), `held_context_id_` the root context's member, `tickArmed` whether the
host's timer is set. `RequestHeld` and `RequestPassed` are the branches of
`onRequestHeaders`, `OnTick` is `onTick` with `getContext` and
`continueRequest`, `StreamClosed` is the host deleting a context. When the tick
comes is left open: the real 5 seconds are one of the choices. The history
variable `overlapped` tells whether a request was ever held while another was.

`HeldRequests` knows neither slot nor timer: a hold makes a debt that replaces the
one before, a release pays it, a lapse drops it, and nothing else moves it. The
refinement mapping is `owed`: the slot while the timer is set, nobody while it is not.
So `KeepsPromise` is about the two together: a tick that left the timer set, an id
that was not overwritten, or a tick for a request that went on, is no step of
`HeldRequests`.

### Bidi

The model is the whole mesh: a span is one call, with the workload that serves
it (`Service`), the one that makes it (`Caller`) and the span it is made for
(`Parent`), which is the id the applications pass on in `x-b3-parentspanid`.
`inbound[s]` and `outbound[s]` are the two stream contexts of a call, one in
the callee's proxy and one in the caller's, `inWorker` and `outWorker` their
worker threads until their response. `shared_data[w][k]` is the value under key `k` in the proxy of
`w`, `x_wasm[s]` the header of the call's latest response.

`Call` and `Receive` are `onRequestHeaders` on the two sides; the keys they
remember are the operators `InboundKey` and `OutboundKey`. `InboundResponse` is
`onResponseHeaders` on the callee's side: one read of the shared data, the
header, the counter. On the caller's side the handler is two steps,
`OutboundGet` and `OutboundSet`, because other workers run between its two host
calls; while a worker is between them it runs nothing else (`Free`).
`OutboundNoHeader` is a response without the header, `TryLost` a try that is
reset or given up, after which another one with the same headers may follow, as
often as `MaxAttempts` allows for the call. The history variable `raced` has the
entries of shared data that one worker got while another one was between its get
and its set of the same entry (`Entry`): what is promised of an entry is promised
until then.

Abstracted: a comma-separated value is the set of its paths, so their order and
repetition are not kept, and a path is a sequence of names rather than one
string with dashes. Workload names are taken to be set, and not to contain
commas; the applications' own headers are not modelled.

### StoreFilter

It extends `Bidi`: where the one filter counts the other makes a call, so `counter` is
the number of calls made here. Each action is the action of `Bidi` and what it does to
`pending` (answers whose call is under way) and `stored` (the keys of the storage
service). `Key` is `b3_trace_id_`, empty for a request without the header, which
the service refuses. What the service does with overlapping and late calls is
`TraceStorage`'s matter.

### HttpAuth

`stream[c]` (new, paused, forwarded, answered, denied, gone) is the host's view of
a stream, `call[c]` the HTTP call made for it, or the body it came back with. The
streams in `Early` pass `petgraph-rust`, the others `http-auth` or `boost`, whose
handlers are the same text. `Ask` is what they share, the dispatch, which may fail
unnoticed; `OnRequestHeaders` pauses the request, `OnHttpRequestHeaders` lets it go
on. `Callback` and `OnHttpCallResponse` are the answer of the call: what the service
says of the token (`Auth`), some other text, or nothing after a timeout. The call of
`http-auth` belongs to the root context and outlives its stream; the one of
`petgraph-rust` belongs to the stream and is cancelled with it. A callback whose
context is gone dereferences a null pointer: the model then makes effective no
stream or any live one of its VM, and sets `wild`; a trap, which would end the whole
VM, is not modelled. `Decide` is what the two host calls do to a stream in each
state: `continueRequest` matters to a paused request only, `sendLocalResponse`
until the response of the application has begun (`OnResponseHeaders`).

### MetricsStore

A record is named by its connection; `record[c]` says where it is: queued, taken
by the singleton, being served, stored, dropped or lost. `queue` is the proxy's
shared queue, `singleton` the singleton's `token_`, `gldata` the upstream
service's string as a sequence of records. `OnDownstreamConnectionClose`
resolves and enqueues, or drops; `OnTick` takes one record and calls, and does
not wait. The handler's `gldata += data` is `StoreReads` and `StoreWrites`,
because the service runs its handlers concurrently and locks nothing; a handler
that reads or writes while another one is between the two may meet or leave a
string with the length of another (`torn`). `CallLost` is a timeout, a reset or a
failed dispatch, `Restart` a new process with an empty string. The history
variables `overlapped` (a tick took a record while an earlier call was under
way: 5 seconds of timeout, 2 of tick) and `restarted` mark what the filter has
no defence against.

### TraceStorage

`caller[c]` is a call as its filter sees it, `handler[c]` as the service sees it:
the two differ after a timeout, for the service is not told. `gldata` is the
map, a value named by the call that brought it. `OnRequestHeaders` is
`http-store`'s handler, `OnResponseMatches` the call of `store`; `Store` and
`Stored` are the handler up to and after the assignment; `Abort` is the end of
the process, by the Go runtime when it sees two accesses overlap or by anyone
else. In the case it does not see, two writes that overlap may leave anything in the
map: `damaged` is set and every place holds `Unknown`, which stands for whatever may
be there, until the process ends. The properties speak of the map while it is not
damaged, that of a later process included.

### ConnMetrics

Both filters have the same four handlers; they differ in the initial close time,
which `metrics_collector` leaves uninitialized: `InitialTimes` lets it be any value.
`Word` gives a sum or a difference the width of the variable it is kept in, 2^32
for `size_t` (the target is wasm32) and 2^64 for `uint64_t`; both are constants.
The clock is the system's: it advances (`Tick`) and may be set (`AdjustClock`). The
host reports the end of the upstream side with its last data, once or never, and
the downstream side may send more after it. What was really seen is in the history
variables `passed` (bytes), `elapsed` (time since the upstream close) and `shift` (by
how much the clock was set since, on the whole).

### PathCounter

The tree of calls is a constant (`Parent`), which calls happen is not. `sent[s]` is the
`x-wasm-path` a call is made with, `x_wasm_path[s]` what its callee gets. `Call` is
the application, which forwards the header of the request it works on or not;
`OnRequestHeaders` is the filter on the callee's side, once per try. A workload that
is not in `Named` has no `WORKLOAD_NAME`: the early return. `kept` has the calls on
whose whole way the header was forwarded. The filter is taken to be installed on the
inbound side, as the test of its counted path needs it: each workload adds its own
name once.

### TraceGraph

Pure functions, as operators: `Words`, `Segments`, `Tokens` are `str_split`;
`EdgesUpTo` and `PropertiesUpTo` are the loops over its result, as functions of the
number of rounds; `Graph` is `generate_trace_graph_from_headers`, `Subset` is `property_map_subset`, `Embeddings` what `vf2_subgraph_iso` may find.
Two actions apply them in the order of the caller. A property is kept as
its writer meant it and taken apart as the code does, so that the properties can
compare the two. VF2 itself is a library: any embedding may come first, and with
parallel edges, which its pruning counts, none may be found.

## 3. What the runs check

| Run | Shows | Distinct states |
|---|---|---|
| `hold_overlap` | `TimerServesHold`, `NewestHoldEnds` whatever overlaps; `HeldIsRemembered` until two holds overlap; `KeepsPromise`: each tick pays the debt of just the newest hold, the refinement of `HeldRequests` | 3 496 |
| `hold_lost` (violation) | with overlap a held request is forgotten: `HeldRequestsContinue` fails | |
| `bidi` | two workers per proxy, three calls retried: `PathsAreReal`, `CountsRealRequests`, `NeverBare` whatever races; `NothingLost` and `CountsEveryMatch` for entries that were not raced for; `KeepsLedger`, the refinement of `PathLedger`, until the first race | 281 962 |
| `bidi_lost` (violation) | with two workers a collected path is overwritten: `CollectedStays` fails | |
| `store` | two workers, two traces, a background call and a request without b3 headers: `PathsAreReal` beside the shared key "", and `StoredIsReal`, only what really matched is stored | 562 984 |
| `auth_overlap` | three paused requests and one let through: `OwnTokenDecides`, `RefusalTakesEffect`, `AskedIsDecided`, and `KeepsGate`, the refinement of `AuthGate` until a callback loses its context | 51 408 |
| `auth_closed` (violation) | the callback runs without a context: `CallbackHasContext` fails | |
| `metrics_overlap` | `StoredOnce`, `QueueIsWhatWaits`, `EnqueuedIsSettled` whatever overlaps, is lost or restarts; `StoredInOrder` until a call outlives a tick, `StoredStays` until then or a restart | 5 118 |
| `storage` | `ValueIsOfItsTrace`, `AnsweredIsThere`, `NeverGoesBack` with concurrent, late and lost calls, aborts and restarts, while the map is not damaged | 359 770 |
| `trace_graph` | `GraphIsAsWritten`, `MappingAnswersQuery`, `WhatIsThereIsFound` on every pair of the headers in `MCTraceGraph` | 6 085 |
| `conn_metrics` | `BytesAreExact`, `LatencyIsTrue`, `EpochTellsUntimed` with either order of closes, sums that wrap and a clock that is set, also back behind the first close | 3 598 560 |
| `path_counter` | `HeaderIsTheWay`, `CountsTheWay` with retries, dropped headers and a workload without a name | 168 976 |

Bounds. Streams, connections and spans are finite sets, so the runs end, and
deadlock checking is off everywhere because such a set runs out.

* `HoldRpc`, `HttpAuth`: streams are interchangeable, and the interesting cases
  need two of them (three for a hold that overwrites one whose predecessor is
  already continued); the runs use four, in `auth_overlap` one of them in `Early`.
* `MCBidi` has two children under one span and a grandchild, which is the smallest
  tree with concurrent collection and a path of three. `MaxAttempts` bounds the
  tries of a call as its route's retry policy does; in the runs the calls in
  `Retried` have two. The theorems hold for any.
  Workers are interchangeable, so the run uses their symmetry.
* `MCStoreFilter` has what `MCBidi` has not: a second trace, calls on a workload's own
  account and an untraced request to productpage, which share the key "".
* `ConnMetrics`: one connection for each filter; words of 4 and 8 values wrap with the
  sizes and the times of the run (5 bytes are 1 again); the clock starts at half the
  range and has three values, so that it can be set forward and back, behind an
  upstream close too. `MaxElapsed` bounds the time a connection is half closed, which
  a clock that is set back would let grow for ever. The theorems hold for any widths
  and bounds.
* `MCPathCounter`: the counted path, the same with a hop without a name in it, and one
  hop too many; each call is tried up to twice and its header forwarded or not.
* `MetricsStore`: three records are in flight, queued and stored at once, and two
  handlers overlap.
* `MCTraceStorage`: two calls of one trace, one of another and two without a trace
  id, one per filter; every property is about two calls, or a call and a key, and
  is proved for any number of calls.
* `MCTraceGraph`: words of no, one, two and three names, repeated steps and
  cycles, a word with an empty name ("a--b"), properties given twice, dotted, without
  name, without value. The theorems hold for headers of any length.

Fairness. `HoldRpc` assumes that an armed timer fires, `MetricsStore` that the
singleton's does (`WF(OnTick)`): the host runs its timers. `HttpAuth` (`WF(Callback \/ OnHttpCallResponse)`) and
`MetricsStore` assume that a dispatched call ends, with an answer or without: the
calls have timeouts of 5 seconds (`http-auth/filter.cc:68`,
`metrics-store/singleton_queue.cc:79`); `MetricsStore` also that a handler of
the service that has begun returns. Nothing is assumed of clients, of the end of
streams, or of a proxy's idle timeout, which is configurable: where it is on,
the forgotten requests of `hold_lost` are cut instead of staying for ever, still
without what was promised. The other modules have safety properties only, and no
fairness: their steps are those of clients, applications and clocks.

What the violation runs found:

1. `hold-rpc/filter.cc:83`: one slot for all held requests of a VM.
2. `bidi/filter.cc:222`: lost update between workers; the shared data's
   compare-and-swap is not used.
3. `http-auth/filter.cc:41`: unchecked null context. The same text is in
   `boost/filter.cc:107`, and in `http-store` and `store`, where the context is
   even likelier to be gone.

Observed while modelling, and why no run is about it:

* `http-auth/filter.cc:63` ignores the result of `httpCall`: a request whose call
  could not be dispatched stays paused without a verdict, neither "accepted as
  authorized" nor "unauthorized" (`http-auth/README.md:3-7`). `AskedIsDecided` is
  therefore about dispatched calls.
* `upstream/main.go:17`: two store calls that overlap lose a record that both
  callers were told is stored. `StoredStays` and `StoredInOrder` are therefore
  about the time before the first overlap. No text of the repository promises
  more.
* `storage-upstream/main.go:25`: the map is written without a lock. What overlapping
  writes that the runtime does not see leave in it is arbitrary, and no text of the
  repository promises anything of it.
* Untraced requests share the key "" of `bidi`: such a request's answer lists paths
  of other requests, and productpage may count it.
* `boost/graph_utils.h:85` says that `get_sub_graph_mapping` "returns nullptr"
  without a match. It returns an empty map, as it does for an empty query graph,
  which matches everything.
* `boost/graph_utils.cc:63`: the split by dots goes through the value too, so
  `a.x==1.5` is the property `x.1` with value `5`. The two properties that compare
  meanings are about values of one token on the query's side, and compare the trace's
  side by tokens, as the code does: `p.x.1==2` answers `p.x==1.2`.
* `boost/graph_utils.cc:63`: empty pieces are left out, those before the first delimiter
  too, so a property written for the vertex "" (a word "a--b" has one) is taken for one
  of the vertex that its name begins with. `Says` is therefore about vertices with a
  name; the proof of `GraphsAreAsWritten` does not go through without that.
* `boost/graph_utils.cc:68-69`: a property of one token gives the range from
  `begin() + 1` to `end() - 1` reversed, whose outcome is undefined (`trapped`).
  `WhatIsThereIsFound` is therefore about well-formed headers.
* `petgraph-rust/src/lib.rs:52` lets the request go on: the application sees it
  whatever the verdict, and a refusal replaces only a response that has not begun.
  No text of the repository promises a gate there.
* `metrics-store/metrics_collector.cc:27`: without an upstream close the latency of a
  record is computed from an uninitialized time and cannot be told from a real one;
  in `tcp-metrics` it can (`EpochTellsUntimed`).
* `path-based-counter/filter.cc:79` compares the whole path for equality, while
  `path-based-counter/filter_test.cc` tries a regular expression with any prefix. The
  test does not run the filter, so no run is about the difference.
* `path-based-counter/filter.cc:71`: a path of one name is never compared. This is
  harmless for the path of three names that is counted (`Len(CountedPath) > 1`).

## 4. What is proved

For all constants that satisfy the named assumptions (`HoldAssumption`,
`BidiAssumption`, `StoreAssumption`, `HttpAuthAssumption`, `StorageAssumption`,
`ConnAssumption`, `PathAssumption`, `HeaderAssumption`), which TLC evaluates in the
runs:

* `HoldRpcProofs`: the type invariant, `TimerServesHold`, `HeldIsRemembered`, and
  `Spec => KeepsPromise`. Given the types each of the invariants is inductive; they are
  proved in one pass. The refinement needs `TimerServesHold`: a tick is a release or
  a lapse only because the stream in the slot is paused or gone. So overlap breaks
  no safety, only the release of older holds.
* `TracingProofs`, `Bidi` with any workers, tries and traced set: `TypeOK`; `PathsAreReal`. The
  latter speaks of headers, and a header is made of shared data, which is made
  of snapshots and headers: the inductive invariant `RealInv` says of all three
  places that a path filed for span `k` is real below a child of `k`. The
  lemmas: a header, once given, never becomes empty again, so a real path stays
  real (`RealPathStable`); a workload alone is real (`RealAlone`); prefixing a
  path below a child extends its chain (`RealPrefixed`). `CountsRealRequests`
  follows from the same invariant.
* `TracingProofs`, what is collected: `NothingLost` and the refinement of `PathLedger`
  until a race. The inductive invariant `LossInv` adds that two responses between
  get and set of one entry have raced for it (`Exclusive`), hence that the snapshot
  of an entry that was not raced for is still current (`SnapshotIsCurrent`), and
  that a collected call is answered for good (`Answered`). `CountsEveryMatch`
  follows. `NeverBare` holds in spite of races: a header is never empty, so an
  entry that was ever set has a value (`Filed`), and no real path is empty.
  `SingleWorkerLosesNothing` is the promise that `bidi_lost` refutes: with one
  worker per proxy nothing races.
* `HttpAuthProofs`: `TypeOK`, `OwnTokenDecides`, `RefusalTakesEffect`, each inductive
  given the types, and `KeepsGate`: until a callback loses its context each step is
  one of `AuthGate`'s or changes no paused stream.
* `ConnMetricsProofs`, any widths: `TypeOK`, `BytesAreExact`, `LatencyIsTrue`,
  `EpochTellsUntimed`. While a connection is half closed, the close time is the
  present less the time that passed and what the clock was set by (`HalfIsTimed`);
  the difference of two words is then that sum, plus the size of a word if it is
  negative. `WordAdds`: adding to a count modulo the word is counting modulo the word.
* `TracingProofs`, `StoreFilter` with any mesh and traces: each step is a step of `Bidi`
  or leaves the tracing alone, so `StoreFilter` implements `Bidi` (`StoreTraces`) and
  what is proved of `Bidi` holds of it: `PathsAreReal`, `NothingLost`,
  `CountsEveryMatch`. For `StoredIsReal` the inductive invariant `StoreInv` adds that
  each call under way and each stored trace belongs to an answer whose required
  paths are real (`Matched`), and a real path stays real. `StoreTypeOK`.
* `PathCounterProofs`, any tree of calls: `TypeOK`, `HeaderIsTheWay`, `CountsTheWay`.
  The inductive invariant says of the header a call is sent with what the property
  says of the one its callee gets (`SentIsTheWay`); the lemma `EndAppended` is the
  step: a name behind the end of a way is the end of the longer way.
* `MetricsStoreProofs`, any connections: `TypeOK`; `StoredOnce`. A handler writes
  back what it read, so the inductive invariant `OnceInv` says of every `seen`
  what the property says of `gldata`, and that the queue lists no record twice
  nor one that is anywhere else. `StoredStays`: until a call outlives a tick at
  most one is in flight, so what the handler read is the string, as long as it
  is between read and write (`SteadyInv`). `QueueIsWhatWaits` and `StoredInOrder`: the
  inductive invariant `OrderInv` says that the queue is ordered, and until a call outlives
  a tick so is the string, whose records are older than the one under way, which is older
  than those that wait; an append to the history keeps the order (`OlderAppended`).
* `TraceStorageProofs`, any calls and traces: `TypeOK`, `ValueIsOfItsTrace`,
  `AnsweredIsThere`, `NeverGoesBack`. The inductive invariant `StorageInv` ties
  the two views of a call: one not made is unknown to the service, an answered
  one was written, and so was each one in `answeredBy` (`Earlier`), which can
  therefore not be written again after a later call. All that is said of the map
  is said until it is damaged; the types say that `Unknown` is in it only then.
* `TraceGraphProofs`, headers of any number of words and properties: `GraphIsAsWritten`,
  `MappingAnswersQuery`, `WhatIsThereIsFound`. The two loops need induction over the
  length of a header. The library's induction theorems take an operator and cannot be
  used; `SetInduction` states induction for a set instead, from the well-foundedness of
  `<` on `Nat`. `LoopDefined` says that such a loop has a result, so that the recursive
  functions are what their bodies say (`EdgesUnfold`, `PropertiesUnfold`), and `LoopKeeps`
  is the rule for loop invariants. With it the edges are the steps between neighbours in
  a word (`EdgesAreSteps`), and a vertex has the value of the first property with
  its name (`PropertiesAreFirst`): `std::map::insert` keeps the first. `SaidIsThere` and
  `ThereWasSaid` lift this to what the writer of a header meant, across the split by dots
  (`TokensSplit`, `TokensAsMeant`). The inductive invariant `IInv` says that both graphs
  are those of their headers, that the program is trapped by a malformed property
  only, and where a mapping comes from.

Liveness. The provers cannot expand `ENABLED`, hence not `WF_vars`. Where the argument
needs nothing else, the fairness is written out as a named hypothesis next to `Spec`,
with the action's guard in place of `ENABLED`: `TimerFires` in `HoldRpcProofs`,
`CallsEnd` in `HttpAuthProofs`, `TicksCome` and `CallEnds` in `MetricsStoreProofs`. That
the guard is what `ENABLED <<A>>_vars` comes to is read off the actions: each of
them changes the variable its guard tests (the timer, the call, the queue, the record),
and its other conjuncts only assign. TLC finds each of these hypotheses true of
`Spec` with the constants of `hold_overlap`, `auth_overlap` and `metrics_overlap`.

* `NewestHoldEnds`: with `TimerServesHold` the timer is armed as long as the newest
  hold waits, so it fires, and `OnTick` ends the hold.
* `AskedIsDecided`: a stream that waits for a pending call keeps waiting for it until it
  is decided (`AskedStays`), also when another stream's callback acts on it; its own answer
  decides it.
* `MetricsStore`: a record at place n of the queue gets to place n - 1, or is taken
  from place 1 (`QueueMovesOn`), since a queue with records has its token
  (`TokenInv`) and only a tick moves it; a record that was taken is settled
  (`TakenIsSettled`). `EnqueuedIsSettled` follows by induction on the place. That
  induction is over a temporal formula, which neither the library's theorems nor
  `SetInduction` can be given.

Only model-checked: `EnqueuedIsSettled` as a whole, and fairness in the form
`WF_vars`. Every other property of the passing runs is stated by a theorem.

## 5. Not modelled, and the plan

Not modelled in the modelled files: logging; `onConfigure` of `hold-rpc` and of
`path-based-counter` (what they keep is never read); the constant response header of
`path-based-counter`; the two constant graphs that the root context of
`boost/filter.cc` matches and prints; the tick of `petgraph-rust`, which logs; contents
of headers beyond what is said above; memory limits of the host.

Not modelled at all, because they keep nothing a property could relate:
`rpc-count` (two handlers that increment a host counter), `parallel-path` (two constant
headers), `tcp-packet-parse` (logs each buffer), `send-local-response` (one constant
answer), `singleton-http-call` (a tick makes a call whose callback logs), `retrieve`,
`list` and `headers` of the services (read only), the two example programs of `boost`,
build and deployment files.

Left to prove: that the records the collector of `ConnMetrics` measures are the ones
`MetricsStore` passes on, a refinement of one atomic service by `TraceStorage`.
