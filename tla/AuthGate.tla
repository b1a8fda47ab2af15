------------------------------ MODULE AuthGate -------------------------------
(***************************************************************************)
(* What an authentication filter promises (http-auth/README.md:3-7): a     *)
(* request waits for a verdict on its own token; one whose token is not    *)
(* accepted never goes on and is never answered by the application; the    *)
(* verdict is final.  A request may be denied whatever its token, for want *)
(* of an answer.                                                           *)
(***************************************************************************)
CONSTANTS Streams, Hello   \* Hello: the streams with an accepted token

VARIABLE stream

Init == stream = [c \in Streams |-> "new"]

Move(c, from, to) == stream[c] \in from /\ stream' = [stream EXCEPT ![c] = to]

Wait(c)   == Move(c, {"new"}, "paused")
Admit(c)  == c \in Hello /\ Move(c, {"paused"}, "forwarded")
Deny(c)   == Move(c, {"paused"}, "denied")
Answer(c) == Move(c, {"forwarded"}, "answered")
Leave(c)  == Move(c, {"paused", "forwarded", "answered", "denied"}, "gone")

Next == \E c \in Streams : Wait(c) \/ Admit(c) \/ Deny(c) \/ Answer(c) \/ Leave(c)

Spec == Init /\ [][Next]_stream
=============================================================================
