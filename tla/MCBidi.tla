------------------------------- MODULE MCBidi --------------------------------
(***************************************************************************)
(* A bookinfo mesh for TLC: a request to productpage that calls details    *)
(* and, through reviews, ratings.  Calls without b3 headers are in         *)
(* MCStoreFilter.                                                          *)
(***************************************************************************)
EXTENDS Bidi, TLC

CONSTANTS MCSpans,
          Retried   \* the calls that are tried again, once

MCWorkloads == {"productpage", "details", "reviews", "ratings"}

MCService == [s \in MCSpans |-> CASE s = "page"   -> "productpage"
                                  [] s = "detail" -> "details"
                                  [] s = "review" -> "reviews"
                                  [] s = "rating" -> "ratings"]

MCCaller == [s \in MCSpans |-> CASE s = "page"   -> "outside"
                                 [] s = "rating" -> "reviews"
                                 [] OTHER        -> "productpage"]

MCParent == [s \in MCSpans |-> CASE s \in {"detail", "review"} -> "page"
                                 [] s = "rating"               -> "review"
                                 [] OTHER                      -> "none"]

MCTraced == MCSpans

MCMaxAttempts == [s \in MCSpans |-> IF s \in Retried THEN 2 ELSE 1]

MCRequiredPaths == {<<"productpage", "details">>,
                    <<"productpage", "reviews", "ratings">>}

WorkerSymmetry == Permutations(Workers)
=============================================================================
