----------------------------- MODULE PathLedger ------------------------------
(***************************************************************************)
(* What the path tracing of bidi/filter.cc promises, with nothing said of  *)
(* proxies' worker threads: every call that is answered adds the paths of  *)
(* its answer to the caller's ledger at once, under the span the call was  *)
(* made for, and an answer names every path in the ledger of its span,     *)
(* with the answering workload in front.                                   *)
(***************************************************************************)
EXTENDS Sequences

CONSTANTS Workloads, Spans, NoSpan,
          Service,    \* [Spans -> Workloads]: who serves the call
          Collector,  \* the ledger the caller keeps: [Spans -> Workloads and others]
          ReadKey,    \* the ledger entry an answer is made of
          WriteKey    \* the ledger entry an answered call goes to

VARIABLES ledger, answer

Init == /\ ledger = [w \in Workloads |-> [k \in Spans \cup {NoSpan} |-> {}]]
        /\ answer = [s \in Spans |-> {}]

Prefixed(w, paths) == IF paths = {} THEN {<<w>>} ELSE {<<w>> \o p : p \in paths}

Answer(s) == /\ answer' = [answer EXCEPT ![s] =
                             Prefixed(Service[s], ledger[Service[s]][ReadKey[s]])]
             /\ UNCHANGED ledger

Collect(s) == /\ Collector[s] \in Workloads
              /\ ledger' = [ledger EXCEPT ![Collector[s]][WriteKey[s]] = @ \cup answer[s]]
              /\ UNCHANGED answer

Next == \E s \in Spans : Answer(s) \/ Collect(s)

Spec == Init /\ [][Next]_<<ledger, answer>>
=============================================================================
