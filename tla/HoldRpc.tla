------------------------------ MODULE HoldRpc -------------------------------
(***************************************************************************)
(* hold-rpc/filter.cc: a request that carries the header x-hold-rpc: 1 is  *)
(* paused, and continued by the root context's timer.  The root context of *)
(* a VM remembers ONE context id, held_context_id_, and has ONE timer.     *)
(*                                                                         *)
(* The module is one wasm VM, that is one worker thread of the proxy: its  *)
(* handlers run one at a time, so each handler is one action.  The moment  *)
(* the timer fires is left open: any time after it is armed.               *)
(***************************************************************************)
CONSTANTS Streams,    \* the streams (context ids) of the VM
          NoContext   \* held_context_id_ before its first assignment

ASSUME HoldAssumption == NoContext \notin Streams

VARIABLES stream,            \* the life of each stream, as the host keeps it
          held_context_id_,  \* the root context's only memory of a held stream
          tickArmed,         \* is the host's tick timer of the root context set?
          overlapped         \* history: was a request held while another one was?

vars == <<stream, held_context_id_, tickArmed, overlapped>>

StreamState == {"new", "held", "forwarded", "answered", "deleted"}

Init == /\ stream = [c \in Streams |-> "new"]
        /\ held_context_id_ = NoContext
        /\ tickArmed = FALSE
        /\ overlapped = FALSE

\* getContext(c) # nullptr: the host created the context and has not deleted it.
HasContext(c) == c \in Streams /\ stream[c] \in {"held", "forwarded", "answered"}

\* Fault for the mutation runs: continueResponse where continueRequest is meant.
ResumedAsResponse(c) == IF stream[c] = "held" THEN "responding" ELSE stream[c]

\* What continueRequest makes of the effective context's stream.
Resumed(c) == IF stream[c] = "held" THEN "forwarded" ELSE stream[c]

\* No x-hold-rpc header, or another value: FilterHeadersStatus::Continue.
RequestPassed(c) ==
    /\ stream[c] = "new"
    /\ stream' = [stream EXCEPT ![c] = "forwarded"]
    /\ UNCHANGED <<held_context_id_, tickArmed, overlapped>>

HoldStarts(c) == /\ stream[c] = "new"
                 /\ stream' = [stream EXCEPT ![c] = "held"]
                 /\ overlapped' = (overlapped \/ \E d \in Streams : stream[d] = "held")

\* Faults for the mutation runs: only the first hold sets the timer, or the id.
RequestHeldTimerOnce(c) == /\ HoldStarts(c)
                           /\ held_context_id_' = c
                           /\ tickArmed' = (tickArmed \/ held_context_id_ = NoContext)

RequestHeldIdOnce(c) ==
    /\ HoldStarts(c)
    /\ held_context_id_' = IF held_context_id_ = NoContext THEN c ELSE held_context_id_
    /\ tickArmed' = TRUE

\* x-hold-rpc: 1.  The id overwrites whatever id was there, the timer is (re)set.
RequestHeld(c) == /\ HoldStarts(c)
                  /\ held_context_id_' = c
                  /\ tickArmed' = TRUE

TickResumes == stream' = IF HasContext(held_context_id_)
                         THEN [stream EXCEPT ![held_context_id_] = Resumed(held_context_id_)]
                         ELSE stream

\* Fault for the mutation runs: the tick leaves the timer running.
OnTickRepeats == tickArmed /\ TickResumes /\ UNCHANGED <<held_context_id_, tickArmed, overlapped>>

\* The timer is disabled before anything else; a held stream that is gone is skipped.
OnTick == /\ tickArmed
          /\ tickArmed' = FALSE
          /\ TickResumes
          /\ UNCHANGED <<held_context_id_, overlapped>>

OnResponseHeaders(c) ==
    /\ stream[c] = "forwarded"
    /\ stream' = [stream EXCEPT ![c] = "answered"]
    /\ UNCHANGED <<held_context_id_, tickArmed, overlapped>>

\* The host drops a context: the exchange ended, the peer disconnected, or the
\* proxy answered a waiting stream itself.  The root context is not told.
StreamClosed(c) ==
    /\ HasContext(c)
    /\ stream' = [stream EXCEPT ![c] = "deleted"]
    /\ UNCHANGED <<held_context_id_, tickArmed, overlapped>>

Next == \/ OnTick
        \/ \E c \in Streams : \/ RequestPassed(c)
                              \/ RequestHeld(c)
                              \/ OnResponseHeaders(c)
                              \/ StreamClosed(c)

\* A timer that is armed fires; requests, answers and disconnects owe nothing.
Spec == Init /\ [][Next]_vars /\ WF_vars(OnTick)

-----------------------------------------------------------------------------
TypeOK == /\ stream \in [Streams -> StreamState]
          /\ held_context_id_ \in Streams \cup {NoContext}
          /\ tickArmed \in BOOLEAN
          /\ overlapped \in BOOLEAN

\* The timer and the slot belong together, whatever happened to earlier holds and
\* to their tick, which disables the timer (filter.cc:59).  While it is armed,
\* held_context_id_ names a stream that is still paused or gone: continueRequest
\* is never applied to a request that already went on.  And the stream the root
\* context remembers is never left paused without a timer.
TimerServesHold ==
    /\ tickArmed => /\ held_context_id_ # NoContext
                    /\ stream[held_context_id_] \in {"held", "deleted"}
    /\ \A c \in Streams : stream[c] = "held" /\ held_context_id_ = c => tickArmed

\* As long as no two holds have overlapped the one slot is enough: no paused
\* stream is forgotten (filter.cc:83).
HeldIsRemembered ==
    ~ overlapped => \A c \in Streams : stream[c] = "held" => held_context_id_ = c

\* The newest hold ends (continued or deleted) unless a newer hold takes the slot.
NewestHoldEnds ==
    \A c \in Streams :
      (stream[c] = "held" /\ held_context_id_ = c)
        ~> (stream[c] # "held" \/ held_context_id_ # c)

\* Whom the next tick is for: nobody while the timer is off.
owed == IF tickArmed THEN held_context_id_ ELSE NoContext

Promise == INSTANCE HeldRequests WITH Nobody <- NoContext

\* What one slot and one timer do for the requests, with holds, ticks and closing
\* streams in any order (filter.cc:57-93): the newest hold is the one owed a
\* release; a tick pays just that debt, or drops it if the stream is gone, so none
\* is paid twice or on a stream that went on; only a tick continues a request.
KeepsPromise == Promise!Spec

\* "Save current context_id to later continue the request" (filter.cc:82): every
\* paused request is continued, or its stream is deleted.
HeldRequestsContinue == Promise!HeldEnds

=============================================================================
