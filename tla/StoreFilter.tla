----------------------------- MODULE StoreFilter -----------------------------
(***************************************************************************)
(* store/filter.cc: the path tracing of bidi/filter.cc, and where that one *)
(* counts an answer whose paths match, a call to the storage service that  *)
(* stores a 1 under the trace id of the request.  The tracing is the       *)
(* module Bidi, whose counter is here the number of calls that were made;  *)
(* this module adds what becomes of them.  Nothing waits for a call, and   *)
(* its callback only logs.  Bidi's PathsAreReal is checked here too,       *)
(* beside calls and requests without b3 headers, which share the key "".   *)
(***************************************************************************)
EXTENDS Bidi

CONSTANTS TraceOf,   \* the trace a call belongs to
          NoTrace    \* "", where the request has no x-b3-traceid

ASSUME StoreAssumption == NoTrace \notin {TraceOf[s] : s \in Spans}

VARIABLES pending,   \* the answers whose call is under way
          stored     \* the keys of the storage service

storeVars == <<vars, pending, stored>>

StoreInit == Init /\ pending = {} /\ stored = {}

\* Fault for the mutation runs: the span id where the trace id is meant.
KeySpan(s) == IF s \in Traced THEN s ELSE NoTrace

\* b3_trace_id_, as onRequestHeaders leaves it.
Key(s) == IF s \in Traced THEN TraceOf[s] ELSE NoTrace

\* onRequestHeaders, on the caller's and on the callee's side.
OnRequestHeaders(s) ==
    /\ \/ \E k \in Workers \cup {NoWorker} : Call(s, k)
       \/ \E k \in Workers : Receive(s, k)
    /\ UNCHANGED <<pending, stored>>

\* Fault for the mutation runs: productpage stores every answer.
StoreResponseAny(s) ==
    /\ InboundResponse(s)
    /\ pending' = IF Service[s] = Productpage THEN pending \cup {s} ELSE pending
    /\ UNCHANGED stored

\* onResponseHeaders of the inbound stream.  The result of httpCall is ignored: it
\* may have made no call.
StoreResponse(s) ==
    /\ InboundResponse(s)
    /\ pending' \in {pending} \cup (IF counter' # counter THEN {pending \cup {s}} ELSE {})
    /\ UNCHANGED stored

\* onResponseHeaders of the outbound stream.
OutboundResponse(s) ==
    /\ OutboundGet(s) \/ OutboundSet(s) \/ OutboundNoHeader(s)
    /\ UNCHANGED <<pending, stored>>

StoreTryLost(s) == TryLost(s) /\ UNCHANGED <<pending, stored>>

\* The store handler of storage-upstream/main.go, for which see TraceStorage.
CallHandled(s) ==
    /\ s \in pending
    /\ pending' = pending \ {s}
    /\ stored' = stored \cup ({Key(s)} \ {NoTrace})
    /\ UNCHANGED vars

CallLost(s) ==
    /\ s \in pending
    /\ pending' = pending \ {s}
    /\ UNCHANGED <<vars, stored>>

StoreNext == \E s \in Spans :
               \/ OnRequestHeaders(s)
               \/ StoreResponse(s)
               \/ OutboundResponse(s)
               \/ StoreTryLost(s)
               \/ CallHandled(s)
               \/ CallLost(s)

StoreSpec == StoreInit /\ [][StoreNext]_storeVars

-----------------------------------------------------------------------------
StoreTypeOK == /\ TypeOK
               /\ pending \subseteq Spans
               /\ stored \subseteq {TraceOf[s] : s \in Spans}

\* A trace is stored only if in this very trace productpage was called and every
\* required path below that call was really called, whatever other traces,
\* retries, other workers and requests without b3 headers do at the same time
\* (store/filter.cc:165-205).
StoredIsReal ==
    \A t \in stored : \E s \in Traced :
        /\ TraceOf[s] = t /\ Service[s] = Productpage
        /\ \A q \in RequiredPaths : RealPath(s, q)
=============================================================================
