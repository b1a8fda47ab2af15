---------------------------- MODULE TraceStorage -----------------------------
(***************************************************************************)
(* storage-upstream/main.go, a map from trace ids to values kept in the    *)
(* memory of one process, with the two filters that write to it: for each  *)
(* request http-store/filter.cc stores the time it came, and for each      *)
(* response whose paths match store/filter.cc stores a 1.  Neither waits   *)
(* for the service, and a call may time out (after 1 second) at its caller *)
(* and be handled nevertheless.                                            *)
(*                                                                         *)
(* net/http runs every handler in a goroutine of its own and nothing locks *)
(* the map.  The Go runtime looks for accesses that overlap and aborts the *)
(* process when it sees one; of writes it does not see overlap the map     *)
(* may keep anything: torn values, entries in wrong places, lost ones.     *)
(* The handlers of /retrieve and /list only read, so their one effect is   *)
(* such an abort.                                                          *)
(* A value is named by the call that brought it.                           *)
(***************************************************************************)
EXTENDS FiniteSets

CONSTANTS Requests,   \* the requests that reach the http-store filter
          Matches,    \* the matching responses of the store filter
          Traces,     \* the trace ids
          NoTrace,    \* "": no header x-b3-traceid
          NoCall,     \* no value
          Unknown,    \* whatever overlapping writes leave in a place of the map
          TraceOf     \* the trace id of a request or response

Calls == Requests \cup Matches
Keys == Traces \cup {NoTrace}

ASSUME StorageAssumption ==
    /\ Requests \cap Matches = {} /\ {NoCall, Unknown} \cap Calls = {} /\ NoTrace \notin Traces
    /\ NoCall # Unknown
    /\ TraceOf \in [Calls -> Keys]

VARIABLES caller,     \* the call as its filter sees it
          handler,    \* the call as the service sees it
          answeredBy, \* history: the calls answered when this one was made
          gldata,     \* the map, NoCall where it has no entry
          running,    \* is the process alive?
          damaged,    \* have overlapping writes damaged the map?
          restarted   \* history: was the process started anew?

vars == <<caller, handler, answeredBy, gldata, running, damaged, restarted>>

Init == /\ caller = [c \in Calls |-> "new"]
        /\ handler = [c \in Calls |-> "none"]
        /\ answeredBy = [c \in Calls |-> {}]
        /\ gldata = [k \in Keys |-> NoCall]
        /\ running = TRUE
        /\ damaged = FALSE /\ restarted = FALSE

\* httpCall, whose result both filters ignore: the call is on its way, or it is
\* not made at all (no such cluster, no host).
HttpCall(c) ==
    \/ /\ caller' = [caller EXCEPT ![c] = "waiting"]
       /\ handler' = [handler EXCEPT ![c] = "pending"]
       /\ answeredBy' = [answeredBy EXCEPT ![c] = {d \in Calls : caller[d] = "answered"}]
    \/ /\ caller' = [caller EXCEPT ![c] = "none"]
       /\ UNCHANGED <<handler, answeredBy>>

\* http-store, onRequestHeaders: no call without a trace id.
OnRequestHeaders(c) ==
    /\ caller[c] = "new"
    /\ IF TraceOf[c] = NoTrace
       THEN caller' = [caller EXCEPT ![c] = "none"] /\ UNCHANGED <<handler, answeredBy>>
       ELSE HttpCall(c)
    /\ UNCHANGED <<gldata, running, damaged, restarted>>

\* store, onResponseHeaders, once the paths match: the key may be empty.
OnResponseMatches(c) ==
    /\ caller[c] = "new"
    /\ HttpCall(c)
    /\ UNCHANGED <<gldata, running, damaged, restarted>>

Writers == {c \in Calls : handler[c] = "writing"}

\* Fault for the mutation runs: the key is not looked at.
StoreAny(c) ==
    /\ running /\ handler[c] = "pending"
    /\ handler' = [handler EXCEPT ![c] = "writing"]
    /\ UNCHANGED <<caller, answeredBy, gldata, running, damaged, restarted>>

\* store: an empty key is refused, else the assignment to the map begins.  The
\* value is never empty: both filters send one.
Store(c) ==
    /\ running /\ handler[c] = "pending"
    /\ handler' = [handler EXCEPT ![c] = IF TraceOf[c] = NoTrace THEN "refused" ELSE "writing"]
    /\ UNCHANGED <<caller, answeredBy, gldata, running, damaged, restarted>>

\* Faults for the mutation runs: a value that is there is kept, the map is made
\* anew, or the key is stored where the value is meant.
AssignedOnce(map, c) ==
    [map EXCEPT ![TraceOf[c]] = IF map[TraceOf[c]] = NoCall THEN c ELSE map[TraceOf[c]]]
AssignedFresh(map, c) == [k \in Keys |-> IF k = TraceOf[c] THEN c ELSE NoCall]

AssignedKey(map, c) == [map EXCEPT ![TraceOf[c]] = TraceOf[c]]

Assigned(map, c) == [map EXCEPT ![TraceOf[c]] = c]

\* ... and ends.  If another write is under way, the map may be damaged by the two,
\* and then nothing is known of it until the process ends.
Stored(c) ==
    /\ handler[c] = "writing"
    /\ handler' = [handler EXCEPT ![c] = "written"]
    /\ damaged' \in {damaged} \cup (IF Writers = {c} THEN {} ELSE {TRUE})
    /\ gldata' = IF damaged' THEN [k \in Keys |-> Unknown] ELSE Assigned(gldata, c)
    /\ UNCHANGED <<caller, answeredBy, running, restarted>>

\* The runtime has seen a write overlap another access, or the process is killed,
\* which may come at any time: its handlers and its map are gone.
Abort ==
    /\ running
    /\ running' = FALSE /\ damaged' = FALSE
    /\ gldata' = [k \in Keys |-> NoCall]
    /\ handler' = [c \in Calls |-> IF handler[c] = "writing" THEN "dropped" ELSE handler[c]]
    /\ UNCHANGED <<caller, answeredBy, restarted>>

Restart == /\ ~ running
           /\ running' = TRUE /\ restarted' = TRUE
           /\ UNCHANGED <<caller, handler, answeredBy, gldata, damaged>>

\* The service's answer reaches the filter, whose callback only logs it.
Callback(c) ==
    /\ caller[c] = "waiting" /\ handler[c] \in {"written", "refused"}
    /\ caller' = [caller EXCEPT ![c] = IF handler[c] = "written" THEN "answered" ELSE "refused"]
    /\ UNCHANGED <<handler, answeredBy, gldata, running, damaged, restarted>>

\* The caller gives up; the service is not told.
TimedOut(c) ==
    /\ caller[c] = "waiting"
    /\ caller' = [caller EXCEPT ![c] = "timedOut"]
    /\ UNCHANGED <<handler, answeredBy, gldata, running, damaged, restarted>>

\* A call is lost on its way.
Dropped(c) ==
    /\ handler[c] = "pending"
    /\ handler' = [handler EXCEPT ![c] = "dropped"]
    /\ UNCHANGED <<caller, answeredBy, gldata, running, damaged, restarted>>

Next == \/ Abort \/ Restart
        \/ \E c \in Requests : OnRequestHeaders(c)
        \/ \E c \in Matches : OnResponseMatches(c)
        \/ \E c \in Calls : Store(c) \/ Stored(c) \/ Callback(c) \/ TimedOut(c) \/ Dropped(c)

Spec == Init /\ [][Next]_vars

-----------------------------------------------------------------------------
TypeOK ==
    /\ caller \in [Calls -> {"new", "none", "waiting", "answered", "refused", "timedOut"}]
    /\ handler \in [Calls -> {"none", "pending", "writing", "written", "refused", "dropped"}]
    /\ answeredBy \in [Calls -> SUBSET Calls]
    /\ gldata \in [Keys -> IF damaged THEN {Unknown} ELSE Calls \cup {NoCall}]
    /\ {running, damaged, restarted} \subseteq BOOLEAN

\* Until overlapping writes damage the map, what it holds for a trace was brought
\* by a call of that very trace, late or not, and requests without a trace leave
\* nothing; a new process starts without the damage (http-store/filter.cc:53,
\* storage-upstream/main.go:14-17 and 25).
ValueIsOfItsTrace ==
    ~ damaged => \A k \in Keys : gldata[k] # NoCall =>
        k \in Traces /\ TraceOf[gldata[k]] = k /\ handler[gldata[k]] = "written"

\* The answer "Stored key -> value" (main.go:27) is kept until the process ends
\* or overlapping writes damage the map.
AnsweredIsThere ==
    running /\ ~ restarted /\ ~ damaged =>
        \A c \in Calls : caller[c] = "answered" => gldata[TraceOf[c]] # NoCall

\* A trace never goes back while the map is sound: once a call was handled, the map
\* holds nothing from a call of the trace that was answered before this one was
\* made, though late calls, which timed out at their caller, may still overwrite
\* it, and though the process may have ended in between (main.go:25).
NeverGoesBack ==
    ~ damaged => \A c \in Calls : \A d \in answeredBy[c] :
        TraceOf[d] = TraceOf[c] /\ handler[c] = "written" => gldata[TraceOf[c]] # d
=============================================================================
