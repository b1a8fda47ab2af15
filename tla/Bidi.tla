-------------------------------- MODULE Bidi ---------------------------------
(***************************************************************************)
(* bidi/filter.cc: the filter sits on both sides of every call of a mesh.  *)
(* The callee's proxy (inbound) puts into the response header x-wasm the   *)
(* call paths below the call, the caller's proxy (outbound) files them in  *)
(* its shared data under the id of the span the call was made for.         *)
(*                                                                         *)
(* A span is one call.  The applications propagate the b3 headers, so the  *)
(* call tree is a constant of the model; which calls happen, in which      *)
(* order, which fail and which are retried is left open.  A proxy has      *)
(* worker threads that each run their own copy of the VM: a handler runs   *)
(* to its end on its worker, and shared data is common to all of them.     *)
(* One host call is atomic, so the outbound response handler, which gets   *)
(* and then sets, takes two steps.  A header or a shared value is the set  *)
(* of paths it lists between commas, {} when there is none; a path is the  *)
(* sequence of the workload names that "-" joins.                          *)
(***************************************************************************)
EXTENDS Integers, Sequences, FiniteSets

CONSTANTS Workloads,      \* the workload names, each with a proxy
          Outside,        \* the caller of the calls that enter the mesh
          Spans,          \* the calls, by span id
          NoSpan,         \* "", where the request has no such b3 header
          Service,        \* the workload that serves a call
          Caller,         \* the workload that makes it
          Parent,         \* the call it is made for: its x-b3-parentspanid
          Traced,         \* the calls that carry b3 headers
          Workers,        \* the worker threads of a proxy
          NoWorker,
          Productpage,    \* the workload that counts
          RequiredPaths,  \* the paths it wants to see in one answer
          MaxAttempts     \* bound: the tries of each call (its route's retry limit)

ASSUME BidiAssumption ==
    /\ Outside \notin Workloads /\ NoSpan \notin Spans /\ NoWorker \notin Workers
    /\ Service \in [Spans -> Workloads]
    /\ Caller \in [Spans -> Workloads \cup {Outside}]
    /\ Parent \in [Spans -> Spans \cup {NoSpan}]
    /\ \A s \in Spans : Parent[s] \in Spans => Caller[s] = Service[Parent[s]]
    /\ Traced \subseteq Spans
    /\ Productpage \in Workloads
    /\ RequiredPaths \subseteq Seq(Workloads)
    /\ MaxAttempts \in [Spans -> Nat \ {0}]

VARIABLES inbound,     \* the stream of the call's latest try in the callee's proxy
          outbound,    \* the stream of the call in the caller's proxy
          inWorker,    \* the worker of the inbound stream, until its response
          outWorker,   \* the worker of the outbound stream, until its response
          snapshot,    \* what the outbound response handler got and has not set yet
          shared_data, \* per proxy and key: the value in the host's shared data
          x_wasm,      \* the x-wasm header of the call's latest response
          attempts,    \* how often the call was received
          counter,     \* wasm_path_based_requests
          raced        \* history: the entries of shared data that two workers have
                       \* got before either of them set

vars == <<inbound, outbound, inWorker, outWorker, snapshot, shared_data, x_wasm,
          attempts, counter, raced>>

Keys == Spans \cup {NoSpan}
InboundState == {"none", "open", "answered"}
OutboundState == {"none", "open", "collecting", "collected", "failed"}

Init == /\ inbound = [s \in Spans |-> "none"]
        /\ outbound = [s \in Spans |-> "none"]
        /\ inWorker = [s \in Spans |-> NoWorker]
        /\ outWorker = [s \in Spans |-> NoWorker]
        /\ snapshot = [s \in Spans |-> {}]
        /\ shared_data = [w \in Workloads |-> [k \in Keys |-> {}]]
        /\ x_wasm = [s \in Spans |-> {}]
        /\ attempts = [s \in Spans |-> 0]
        /\ counter = 0
        /\ raced = {}

\* Fault for the mutation runs: x-b3-spanid is not kept.
InboundKeyDropped(s) == NoSpan

\* b3_span_id_ of the inbound context, b3_parent_span_id_ of the outbound one,
\* as onRequestHeaders leaves them: "" where the header is missing.
InboundKey(s) == IF s \in Traced THEN s ELSE NoSpan

OutboundKey(s) == IF s \in Traced THEN Parent[s] ELSE NoSpan

\* A worker runs one handler at a time; only an outbound response handler can
\* be seen in its middle.
Free(w, k) == ~ \E s \in Spans : /\ Caller[s] = w
                                 /\ outbound[s] = "collecting"
                                 /\ outWorker[s] = k

\* onRequestHeaders of the outbound stream.  A call is made for a parent that
\* the application has received, or on the application's own account.
Call(s, k) ==
    /\ outbound[s] = "none"
    /\ Parent[s] \in Spans => attempts[Parent[s]] > 0
    /\ IF Caller[s] = Outside THEN k = NoWorker
                              ELSE k \in Workers /\ Free(Caller[s], k)
    /\ outbound' = [outbound EXCEPT ![s] = "open"]
    /\ outWorker' = [outWorker EXCEPT ![s] = k]
    /\ UNCHANGED <<inbound, inWorker, snapshot, shared_data, x_wasm, attempts, counter,
                   raced>>

\* Fault for the mutation runs: tries are not limited.
ReceiveAlways(s, k) ==
    /\ outbound[s] = "open" /\ inbound[s] = "none" /\ Free(Service[s], k)
    /\ inbound' = [inbound EXCEPT ![s] = "open"]
    /\ inWorker' = [inWorker EXCEPT ![s] = k]
    /\ attempts' = [attempts EXCEPT ![s] = @ + 1]
    /\ UNCHANGED <<outbound, outWorker, snapshot, shared_data, x_wasm, counter, raced>>

\* onRequestHeaders of the inbound stream: the call reaches the callee's proxy.
Receive(s, k) ==
    /\ outbound[s] = "open" /\ inbound[s] = "none"
    /\ attempts[s] < MaxAttempts[s]
    /\ Free(Service[s], k)
    /\ inbound' = [inbound EXCEPT ![s] = "open"]
    /\ inWorker' = [inWorker EXCEPT ![s] = k]
    /\ attempts' = [attempts EXCEPT ![s] = @ + 1]
    /\ UNCHANGED <<outbound, outWorker, snapshot, shared_data, x_wasm, counter, raced>>

\* A try is lost: it is reset, or the caller's proxy (or the ingress) gives up on
\* it.  Its response, if there was one, is dropped; another try, with the same
\* headers, may follow.
TryLost(s) ==
    /\ outbound[s] = "open" /\ inbound[s] # "none"
    /\ inbound' = [inbound EXCEPT ![s] = "none"]
    /\ inWorker' = [inWorker EXCEPT ![s] = NoWorker]
    /\ UNCHANGED <<outbound, outWorker, snapshot, shared_data, x_wasm, attempts, counter,
                   raced>>

\* Faults for the mutation runs: the workload adds its own name to every answer,
\* or writes it behind the paths.
PrefixedNamed(w, paths) == {<<w>>} \cup {<<w>> \o p : p \in paths}
PrefixedBehind(w, paths) == IF paths = {} THEN {<<w>>} ELSE {p \o <<w>> : p \in paths}

\* The words of the value with the workload in front, or its name alone.
Prefixed(w, paths) == IF paths = {} THEN {<<w>>} ELSE {<<w>> \o p : p \in paths}

\* Fault for the mutation runs: one required path is enough.
MatchesAny(w, header) == w = Productpage /\ RequiredPaths \cap header # {}

Matches(w, header) == w = Productpage /\ RequiredPaths \subseteq header

\* onResponseHeaders of the inbound stream.
InboundResponse(s) ==
    LET header == Prefixed(Service[s], shared_data[Service[s]][InboundKey(s)])
    IN  /\ inbound[s] = "open"
        /\ Free(Service[s], inWorker[s])
        /\ inbound' = [inbound EXCEPT ![s] = "answered"]
        /\ x_wasm' = [x_wasm EXCEPT ![s] = header]
        /\ counter' = IF /\ shared_data[Service[s]][InboundKey(s)] # {}
                         /\ Matches(Service[s], header)
                      THEN counter + 1 ELSE counter
        /\ inWorker' = [inWorker EXCEPT ![s] = NoWorker]
        /\ UNCHANGED <<outbound, outWorker, snapshot, shared_data, attempts, raced>>

\* The entry of shared data that the outbound response of s is filed in.
Entry(s) == <<Caller[s], OutboundKey(s)>>

\* onResponseHeaders of the outbound stream: getSharedData ...
OutboundGet(s) ==
    /\ outbound[s] = "open" /\ inbound[s] = "answered"
    /\ Caller[s] # Outside
    /\ Free(Caller[s], outWorker[s])
    /\ outbound' = [outbound EXCEPT ![s] = "collecting"]
    /\ snapshot' = [snapshot EXCEPT ![s] = shared_data[Caller[s]][OutboundKey(s)]]
    /\ raced' = IF \E t \in Spans : outbound[t] = "collecting" /\ Entry(t) = Entry(s)
                THEN raced \cup {Entry(s)} ELSE raced
    /\ UNCHANGED <<inbound, inWorker, outWorker, shared_data, x_wasm, attempts, counter>>

\* Faults for the mutation runs: the value that was there is replaced, or the
\* value is filed when there was none only.
CollectedReplaced(old, header) == header
CollectedFirst(old, header) == IF old = {} THEN header ELSE old

\* The value that setSharedData is given: appended, or the header alone.
Collected(old, header) == old \cup header

\* ... and setSharedData, unconditionally.
OutboundSet(s) ==
    /\ outbound[s] = "collecting"
    /\ shared_data' = [shared_data EXCEPT ![Caller[s]][OutboundKey(s)] =
                         Collected(snapshot[s], x_wasm[s])]
    /\ outbound' = [outbound EXCEPT ![s] = "collected"]
    /\ outWorker' = [outWorker EXCEPT ![s] = NoWorker]
    /\ snapshot' = [snapshot EXCEPT ![s] = {}]
    /\ UNCHANGED <<inbound, inWorker, x_wasm, attempts, counter, raced>>

\* A response without x-wasm: the caller's proxy answered itself (no connection,
\* timeout), or the callee has no such filter.
OutboundNoHeader(s) ==
    /\ outbound[s] = "open"
    /\ Caller[s] # Outside
    /\ Free(Caller[s], outWorker[s])
    /\ outbound' = [outbound EXCEPT ![s] = "failed"]
    /\ outWorker' = [outWorker EXCEPT ![s] = NoWorker]
    /\ UNCHANGED <<inbound, inWorker, snapshot, shared_data, x_wasm, attempts, counter, raced>>

Next == \E s \in Spans :
          \/ \E k \in Workers \cup {NoWorker} : Call(s, k)
          \/ \E k \in Workers : Receive(s, k)
          \/ TryLost(s)
          \/ InboundResponse(s)
          \/ OutboundGet(s)
          \/ OutboundSet(s)
          \/ OutboundNoHeader(s)

Spec == Init /\ [][Next]_vars

-----------------------------------------------------------------------------
Path == Seq(Workloads)

TypeOK ==
    /\ inbound \in [Spans -> InboundState]
    /\ outbound \in [Spans -> OutboundState]
    /\ inWorker \in [Spans -> Workers \cup {NoWorker}]
    /\ outWorker \in [Spans -> Workers \cup {NoWorker}]
    /\ snapshot \in [Spans -> SUBSET Path]
    /\ shared_data \in [Workloads -> [Keys -> SUBSET Path]]
    /\ x_wasm \in [Spans -> SUBSET Path]
    /\ attempts \in [Spans -> Nat] /\ \A s \in Spans : attempts[s] <= MaxAttempts[s]
    /\ counter \in Nat
    /\ raced \subseteq Workloads \X Keys

\* q is the path of calls that were really made and answered: a chain of spans,
\* each the parent of the next, that starts with s and is served by q's workloads.
RealPath(s, q) ==
    \E chain \in [1 .. Len(q) -> Spans] :
      /\ q # << >> /\ chain[1] = s
      /\ \A i \in 1 .. Len(q) : Service[chain[i]] = q[i] /\ x_wasm[chain[i]] # {}
      /\ \A i \in 1 .. Len(q) - 1 : Parent[chain[i + 1]] = chain[i]

\* The header of a traced call lists call paths below that very call only:
\* nothing of another request is mixed in, whatever runs at the same time, is
\* retried, fails, or shares the key "" for want of b3 headers
\* (filter.cc:169-206 and 215-227).
PathsAreReal == \A s \in Traced : \A q \in x_wasm[s] : RealPath(s, q)

\* wasm_path_based_requests goes up by one, for an answer of productpage; if the
\* request is traced, every required path was really called (filter.cc:184-197).
CountsRealRequests ==
    [][counter' # counter =>
         /\ counter' = counter + 1
         /\ \E s \in Spans :
              /\ Service[s] = Productpage
              /\ inbound[s] = "open" /\ inbound'[s] = "answered"
              /\ s \in Traced => \A q \in RequiredPaths : RealPath(s, q)']_vars

\* A call that collected an answer is never forgotten altogether: once one is
\* filed, an answer of the span does not stop at the workload's own name
\* (filter.cc:208-211), even if concurrent calls overwrite each other's paths.
NeverBare ==
    [][\A s \in Traced :
         /\ inbound[s] = "open" /\ inbound'[s] = "answered"
         /\ \E c \in Spans : OutboundKey(c) = s /\ outbound[c] = "collected"
         => <<Service[s]>> \notin x_wasm'[s]]_vars

\* "Received response from another service we called. Collect x-wasm header
\* value." (filter.cc:213-214): what was collected stays in the shared data.
CollectedStays ==
    \A s \in Spans : outbound[s] = "collected" =>
                       x_wasm[s] \subseteq shared_data[Caller[s]][OutboundKey(s)]

\* What is collected into an entry of shared data that no two workers have had
\* between get and set (filter.cc:218-226) stays there, whatever they do to
\* the others at the same time.
NothingLost ==
    \A s \in Spans : outbound[s] = "collected" /\ Entry(s) \notin raced =>
                       x_wasm[s] \subseteq shared_data[Caller[s]][OutboundKey(s)]

\* An answer of productpage below which all required paths were collected is
\* counted (filter.cc:185-196), if the entry of its span was not raced for.
CountsEveryMatch ==
    [][\A s \in Traced :
         /\ Service[s] = Productpage
         /\ inbound[s] = "open" /\ inbound'[s] = "answered"
         /\ RequiredPaths # {} /\ <<Productpage, s>> \notin raced
         /\ \A q \in RequiredPaths :
              \E c \in Spans : /\ OutboundKey(c) = s /\ outbound[c] = "collected"
                               /\ \E r \in x_wasm[c] : q = <<Productpage>> \o r
         => counter' = counter + 1]_vars

\* Until two workers race for one entry, the get and the set of an outbound
\* response act as one step, and the filter keeps what PathLedger promises.
Ledger == INSTANCE PathLedger
            WITH ledger <- shared_data, answer <- x_wasm, Collector <- Caller,
                 ReadKey <- [s \in Spans |-> InboundKey(s)],
                 WriteKey <- [s \in Spans |-> OutboundKey(s)]
KeepsLedger == Ledger!Init /\ [][raced' # {} \/ Ledger!Next]_<<shared_data, x_wasm>>
=============================================================================
