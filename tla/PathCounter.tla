----------------------------- MODULE PathCounter -----------------------------
(***************************************************************************)
(* path-based-counter/filter.cc: the callee's proxy adds the name of its   *)
(* workload to the request header x-wasm-path and counts a request whose   *)
(* path is now one exact list of names.                                    *)
(*                                                                         *)
(* A span is one call; the call tree is a constant, which calls happen is  *)
(* left open.  An application that makes a call for a request may forward  *)
(* the header of that request or not (it has no reason to know of it).  A  *)
(* call from outside has no such header.  A retried call is sent again as  *)
(* it was.  A path is the sequence of the names between commas, << >> when *)
(* there is no header.                                                     *)
(***************************************************************************)
EXTENDS Integers, Sequences

CONSTANTS Workloads,   \* the workloads, each with a proxy
          Named,       \* those whose node metadata has a WORKLOAD_NAME
          Spans,       \* the calls
          NoSpan,
          Service,     \* the workload that serves a call
          Parent,      \* the call it is made for
          Hops,        \* the named workloads on the way from outside to its callee
          CountedPath, \* frontend,recommendationservice,productcatalogservice
          MaxAttempts  \* bound: the tries of a call

ASSUME PathAssumption ==
    /\ Named \subseteq Workloads /\ NoSpan \notin Spans
    /\ Service \in [Spans -> Workloads]
    /\ Parent \in [Spans -> Spans \cup {NoSpan}]
    /\ Hops \in [Spans -> Seq(Named)]
    /\ \A s \in Spans :
         Hops[s] = (IF Parent[s] \in Spans THEN Hops[Parent[s]] ELSE << >>)
                     \o (IF Service[s] \in Named THEN <<Service[s]>> ELSE << >>)
    /\ CountedPath \in Seq(Workloads) /\ Len(CountedPath) > 1
    /\ MaxAttempts \in Nat \ {0}

VARIABLES called,      \* the calls that were made
          sent,        \* the x-wasm-path a call is made with
          x_wasm_path, \* the one its callee gets, as the callee's proxy left it
          attempts,    \* how often the callee got it
          counter,     \* istio_path_based_requests
          kept         \* history: the calls all of whose hops forwarded the header

vars == <<called, sent, x_wasm_path, attempts, counter, kept>>

Init == /\ called = {}
        /\ sent = [s \in Spans |-> << >>]
        /\ x_wasm_path = [s \in Spans |-> << >>]
        /\ attempts = [s \in Spans |-> 0]
        /\ counter = 0
        /\ kept = {}

\* The application makes the call, with the header of the request it makes it for
\* or without one.
Call(s, forward) ==
    /\ s \notin called
    /\ Parent[s] \in Spans => attempts[Parent[s]] > 0
    /\ called' = called \cup {s}
    /\ sent' = [sent EXCEPT ![s] = IF forward /\ Parent[s] \in Spans
                                   THEN x_wasm_path[Parent[s]] ELSE << >>]
    /\ kept' = IF Parent[s] = NoSpan \/ (forward /\ Parent[s] \in kept)
               THEN kept \cup {s} ELSE kept
    /\ UNCHANGED <<x_wasm_path, attempts, counter>>

\* Faults for the mutation runs: the name is put in front, or only behind a path
\* that is there.
ExtendedInFront(w, path) == <<w>> \o path
ExtendedIfThere(w, path) == IF path = << >> THEN << >> ELSE Append(path, w)

\* addRequestHeader or replaceRequestHeader.
Extended(w, path) == Append(path, w)

\* Fault for the mutation runs: the last workload decides.
CountsLast(path, w) == w = CountedPath[Len(CountedPath)]

\* Is the path the one that is counted?  It is compared where the name was added
\* to a path that was there.
Counts(path, w) == path # << >> /\ Extended(w, path) = CountedPath

\* Fault for the mutation runs: no early return without a WORKLOAD_NAME.
OnRequestHeadersUnnamed(s) ==
    /\ s \in called /\ attempts[s] < MaxAttempts
    /\ attempts' = [attempts EXCEPT ![s] = @ + 1]
    /\ x_wasm_path' = [x_wasm_path EXCEPT ![s] = Extended(Service[s], sent[s])]
    /\ UNCHANGED <<called, sent, kept, counter>>

\* onRequestHeaders, on a try of the call.
OnRequestHeaders(s) ==
    /\ s \in called /\ attempts[s] < MaxAttempts
    /\ attempts' = [attempts EXCEPT ![s] = @ + 1]
    /\ IF Service[s] \in Named
       THEN /\ x_wasm_path' = [x_wasm_path EXCEPT ![s] = Extended(Service[s], sent[s])]
            /\ counter' = IF Counts(sent[s], Service[s]) THEN counter + 1 ELSE counter
       ELSE /\ x_wasm_path' = [x_wasm_path EXCEPT ![s] = sent[s]]
            /\ UNCHANGED counter
    /\ UNCHANGED <<called, sent, kept>>

Next == \E s \in Spans : (\E forward \in BOOLEAN : Call(s, forward)) \/ OnRequestHeaders(s)

Spec == Init /\ [][Next]_vars

-----------------------------------------------------------------------------
TypeOK == /\ called \subseteq Spans /\ kept \subseteq called
          /\ sent \in [Spans -> Seq(Named)] /\ x_wasm_path \in [Spans -> Seq(Named)]
          /\ attempts \in [Spans -> 0 .. MaxAttempts]
          /\ counter \in Nat

\* Is path the end of the way?
IsEnd(path, way) == \E n \in 0 .. Len(way) : path = SubSeq(way, n + 1, Len(way))

\* The header names the last workloads on the real way of the request, in order,
\* whichever application dropped it before and whatever is retried; nothing is
\* missing if every application forwarded it (filter.cc:66-77).
HeaderIsTheWay ==
    \A s \in Spans : attempts[s] > 0 =>
      /\ IsEnd(x_wasm_path[s], Hops[s])
      /\ s \in kept => x_wasm_path[s] = Hops[s]

\* The counter goes up by one, for a request whose last hops were the path, and for
\* every try of a request that came that very way with its header forwarded
\* (filter.cc:79-82).
CountsTheWay ==
    [][\A s \in Spans : attempts'[s] # attempts[s] =>
         /\ counter' # counter => counter' = counter + 1 /\ IsEnd(CountedPath, Hops[s])
         /\ s \in kept /\ Hops[s] = CountedPath /\ Service[s] \in Named
              => counter' = counter + 1]_vars
=============================================================================
