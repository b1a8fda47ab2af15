--------------------------- MODULE MCTraceStorage ---------------------------
(***************************************************************************)
(* TraceStorage for TLC: a request and a matching response of one trace, a *)
(* request of another, and one of each without a trace id.                 *)
(***************************************************************************)
EXTENDS TraceStorage

MCTraceOf == [c \in Calls |-> CASE c \in {"r1", "m1"} -> "t1"
                                [] c = "r2"           -> "t2"
                                [] OTHER              -> "no trace"]
=============================================================================
