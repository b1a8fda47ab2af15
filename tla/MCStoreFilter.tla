---------------------------- MODULE MCStoreFilter ----------------------------
(***************************************************************************)
(* Two traces for TLC: a request to productpage, tried twice, that calls   *)
(* details twice, and "background", a call productpage makes on its own    *)
(* account, which is filed under the key "".  "plain" is a request to      *)
(* productpage without b3 headers, answered from that key.                 *)
(***************************************************************************)
EXTENDS StoreFilter, TLC

CONSTANT MCSpans

MCWorkloads == {"productpage", "details"}

Pages == {"page", "plain"}

MCService == [s \in MCSpans |-> IF s \in Pages THEN "productpage" ELSE "details"]
MCCaller == [s \in MCSpans |-> IF s \in Pages THEN "outside" ELSE "productpage"]
MCParent == [s \in MCSpans |-> IF s \in {"detail", "extra"} THEN "page" ELSE "none"]
MCTraced == MCSpans \ {"plain"}
MCTraceOf == [s \in MCSpans |-> IF s = "background" THEN "t2" ELSE "t1"]
MCMaxAttempts == [s \in MCSpans |-> IF s = "page" THEN 2 ELSE 1]

WorkerSymmetry == Permutations(Workers)

MCRequiredPaths == {<<"productpage", "details">>}
=============================================================================
