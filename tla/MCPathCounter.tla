---------------------------- MODULE MCPathCounter ----------------------------
(***************************************************************************)
(* A shop for TLC: the frontend asks for products through the              *)
(* recommendation service, and also with a gateway without a WORKLOAD_NAME *)
(* in front of it; the recommendation service also calls another instance  *)
(* of itself.                                                              *)
(***************************************************************************)
EXTENDS PathCounter

MCWorkloads == {"frontend", "gateway", "recommendationservice", "productcatalogservice"}

MCNamed == MCWorkloads \ {"gateway"}

MCSpans == {"home", "rec", "prod", "gate", "recBehind", "prodBehind", "again", "prodAgain"}

MCService == [s \in MCSpans |->
                CASE s = "home"                                -> "frontend"
                  [] s = "gate"                                -> "gateway"
                  [] s \in {"rec", "recBehind", "again"}       -> "recommendationservice"
                  [] s \in {"prod", "prodBehind", "prodAgain"} -> "productcatalogservice"]

MCParent == [s \in MCSpans |-> CASE s = "home"              -> "none"
                                 [] s \in {"rec", "gate"}   -> "home"
                                 [] s \in {"prod", "again"} -> "rec"
                                 [] s = "recBehind"         -> "gate"
                                 [] s = "prodBehind"        -> "recBehind"
                                 [] s = "prodAgain"         -> "again"]

MCHops[s \in MCSpans] ==
    (IF MCParent[s] \in MCSpans THEN MCHops[MCParent[s]] ELSE << >>)
      \o (IF MCService[s] \in MCNamed THEN <<MCService[s]>> ELSE << >>)

MCCountedPath == <<"frontend", "recommendationservice", "productcatalogservice">>
=============================================================================
