---------------------------- MODULE HeldRequests ----------------------------
(***************************************************************************)
(* What a filter that holds requests owes: every hold makes a debt, the    *)
(* newest hold takes over the debt of those before it, and a debt is paid  *)
(* once, by continuing the request it is owed to, or drops if that         *)
(* stream has ended.  No other request is continued.  Nothing is said of   *)
(* timers or of how the filter remembers whom to continue.                 *)
(***************************************************************************)
CONSTANTS Streams,    \* the streams (context ids) of one wasm VM
          Nobody      \* no stream

VARIABLES stream,     \* the life of each stream
          owed        \* the stream whose release is owed, or Nobody

Init == /\ stream = [c \in Streams |-> "new"]
        /\ owed = Nobody

Move(c, from, to) == /\ stream[c] \in from
                     /\ stream' = [stream EXCEPT ![c] = to]

Hold(c) == Move(c, {"new"}, "held") /\ owed' = c

Release(c) == c = owed /\ Move(c, {"held"}, "forwarded") /\ owed' = Nobody

\* The stream has ended before its release.
Lapse(c) == /\ c = owed /\ stream[c] = "deleted"
            /\ owed' = Nobody
            /\ UNCHANGED stream

\* What is no affair of the filter: requests it lets pass, responses, ends.
Host(c) == /\ \/ Move(c, {"new"}, "forwarded")
              \/ Move(c, {"forwarded"}, "answered")
              \/ Move(c, {"held", "forwarded", "answered"}, "deleted")
           /\ UNCHANGED owed

Next == \E c \in Streams : Hold(c) \/ Release(c) \/ Lapse(c) \/ Host(c)

Spec == Init /\ [][Next]_<<stream, owed>>

\* What one would like to have besides: a held request ends.
HeldEnds == \A c \in Streams : stream[c] = "held" ~> stream[c] # "held"
=============================================================================
