------------------------------ MODULE HttpAuth -------------------------------
(***************************************************************************)
(* The auth filters, with the auth handler of upstream/main.go.  In        *)
(* http-auth/filter.cc (and, word for word, boost/filter.cc) a request is  *)
(* paused, the root context asks the upstream service about its token, and *)
(* the callback of that call continues the request or answers it with 403. *)
(* The calls belong to the root context: they outlive their streams.       *)
(* petgraph-rust asks the same question but lets the request go on         *)
(* meanwhile; its calls belong to the stream and end with it.              *)
(*                                                                         *)
(* One wasm VM for each filter, of one worker thread: handlers and         *)
(* callbacks run one at a time.  The service keeps no state, so a call and *)
(* its answer are one step, at any time after the dispatch.  A token is    *)
(* "hello" or not.  A body is what the service writes for it, "page" (any  *)
(* other text: an error page) or "nothing" (a timeout, a broken            *)
(* connection, or bytes that are no text).                                 *)
(***************************************************************************)
CONSTANTS Streams,       \* the streams (context ids)
          Early,         \* those that pass petgraph-rust
          Hello          \* those whose request has the header token: hello

ASSUME HttpAuthAssumption == Early \subseteq Streams /\ Hello \subseteq Streams

VARIABLES stream,   \* the life of each stream, as the host keeps it
          call,     \* the HTTP call made for each stream: how it stands, or its body
          wild      \* has a callback run without a context to return to?

vars == <<stream, call, wild>>

\* The streams that pass http-auth or boost, whose requests wait.
Waiting == Streams \ Early

Init == /\ stream = [c \in Streams |-> "new"]
        /\ call = [c \in Streams |-> "none"]
        /\ wild = FALSE

\* getContext(c) # nullptr.
HasContext(c) == stream[c] \in {"paused", "forwarded", "answered", "denied"}

\* The result of httpCall is ignored: without a call there is no callback, and
\* the request waits, or goes on, all the same.
Ask(c, status) == /\ stream[c] = "new"
                  /\ stream' = [stream EXCEPT ![c] = status]
                  /\ \E result \in {"pending", "failed"} : call' = [call EXCEPT ![c] = result]
                  /\ UNCHANGED wild

\* Fault for the mutation runs: the request goes on while the call is under way.
RequestNotPaused(c) == c \in Waiting /\ Ask(c, "forwarded")

OnRequestHeaders(c) == c \in Waiting /\ Ask(c, "paused")

OnHttpRequestHeaders(c) == c \in Early /\ Ask(c, "forwarded")

\* upstream/main.go, auth.
Auth(c) == IF c \in Hello THEN "Authorized" ELSE "Unauthorized"

Bodies(c) == {Auth(c), "page", "nothing"}

\* Does this body make the filter of stream c send its 403?  petgraph-rust does
\* so only if there is a text.
Refuses(c, body) == body # "Authorized" /\ (c \in Early => body # "nothing")

\* Faults for the mutation runs: the response is continued instead of the request,
\* the lack of an answer is no refusal, or a request that went on is left alone.
DecideAsResponse(d, body) == IF body = "Authorized" THEN "responding" ELSE "denied"

DecideIfAnswered(d, body) ==
    CASE stream[d] = "paused" /\ body = "Authorized"                -> "forwarded"
      [] stream[d] \in {"paused", "forwarded"}
           /\ body \in {"page", "Unauthorized"}                     -> "denied"
      [] OTHER                                                      -> stream[d]

DecideIfPaused(d, body) ==
    CASE stream[d] = "paused" /\ body = "Authorized" -> "forwarded"
      [] stream[d] = "paused" /\ Refuses(d, body)    -> "denied"
      [] OTHER                                       -> stream[d]

\* What becomes of stream d: the request is continued if the body is "Authorized",
\* a local response with 403 is sent if not.  A request that went on is not
\* continued again; the 403 replaces a response unless it has begun.
Decide(d, body) ==
    CASE stream[d] = "paused" /\ body = "Authorized"                -> "forwarded"
      [] stream[d] \in {"paused", "forwarded"} /\ Refuses(d, body) -> "denied"
      [] OTHER                                                      -> stream[d]

\* Fault for the mutation runs: the callback takes any stream that is waiting.
EffectiveAny(c) == {d \in Waiting : stream[d] = "paused"} \cup {c}

\* The stream whose context becomes effective.  The pointer of a context that is
\* gone is dereferenced all the same: the id read there may name no stream
\* (the choice c, whose stream is gone) or any stream of the VM.
Effective(c) == IF HasContext(c) THEN {c} ELSE {c} \cup {d \in Waiting : HasContext(d)}

\* The callback of c's call.
Callback(c) ==
    /\ c \in Waiting /\ call[c] = "pending"
    /\ \E body \in Bodies(c), d \in Effective(c) :
         /\ call' = [call EXCEPT ![c] = body]
         /\ stream' = [stream EXCEPT ![d] = Decide(d, body)]
    /\ wild' = (wild \/ ~ HasContext(c))

\* The same in petgraph-rust, always on the context of the call.
OnHttpCallResponse(c) ==
    /\ c \in Early /\ call[c] = "pending"
    /\ \E body \in Bodies(c) : /\ call' = [call EXCEPT ![c] = body]
                               /\ stream' = [stream EXCEPT ![c] = Decide(c, body)]
    /\ UNCHANGED wild

\* The response of the application begins.
OnResponseHeaders(c) == /\ stream[c] = "forwarded"
                        /\ stream' = [stream EXCEPT ![c] = "answered"]
                        /\ UNCHANGED <<call, wild>>

\* The exchange ended, the peer disconnected, or the proxy cut a waiting stream.
\* The host cancels the calls of the stream's own context.
StreamClosed(c) ==
    /\ HasContext(c)
    /\ stream' = [stream EXCEPT ![c] = "gone"]
    /\ call' = IF c \in Early /\ call[c] = "pending" THEN [call EXCEPT ![c] = "cancelled"]
                                                     ELSE call
    /\ UNCHANGED wild

Next == \E c \in Streams : \/ OnRequestHeaders(c) \/ OnHttpRequestHeaders(c)
                           \/ Callback(c) \/ OnHttpCallResponse(c)
                           \/ OnResponseHeaders(c) \/ StreamClosed(c)

\* A dispatched call is answered, or times out after 5 seconds.
Spec == Init /\ [][Next]_vars
             /\ \A c \in Streams : WF_vars(Callback(c) \/ OnHttpCallResponse(c))

-----------------------------------------------------------------------------
TypeOK ==
    /\ stream \in [Streams -> {"new", "paused", "forwarded", "answered", "denied", "gone"}]
    /\ call \in [Streams -> {"none", "pending", "failed", "cancelled",
                             "Authorized", "Unauthorized", "page", "nothing"}]
    /\ wild \in BOOLEAN

\* As long as no callback has lost its context: a waiting request goes on only if
\* the answer to its own call accepted its own token, and is denied only by that
\* answer, whatever the order of the answers and whoever left meanwhile
\* (http-auth/filter.cc:35-36, 41, 55-60).
OwnTokenDecides ==
    ~ wild => \A c \in Waiting :
                /\ stream[c] \in {"forwarded", "answered"} => c \in Hello /\ call[c] = "Authorized"
                /\ stream[c] = "denied" => call[c] \in Bodies(c) \ {"Authorized"}

\* A request that goes on before its verdict (petgraph-rust/src/lib.rs:52) is
\* answered by the application only if the refusal had not arrived when the
\* response began, and with 403 only if its own call was refused.
RefusalTakesEffect ==
    \A c \in Early : /\ call[c] \in {"Unauthorized", "page"} => stream[c] # "forwarded"
                     /\ stream[c] = "denied" => call[c] \in {"Unauthorized", "page"}

\* A waiting request whose call was dispatched is decided, unless its stream ends.
AskedIsDecided ==
    \A c \in Streams : (stream[c] = "paused" /\ call[c] = "pending")
                         ~> stream[c] # "paused"

\* hold-rpc/filter.cc:60-61: getContext returns a nullptr when the connection was
\* closed.  The callback must not go on without a context.
CallbackHasContext == ~ wild

\* Until a callback loses its context, http-auth does to its streams only what
\* AuthGate promises.
waiting == [c \in Waiting |-> stream[c]]
Gate == INSTANCE AuthGate WITH Streams <- Waiting, Hello <- Hello \ Early, stream <- waiting
KeepsGate == Gate!Init /\ [][wild' \/ Gate!Next]_waiting
=============================================================================
