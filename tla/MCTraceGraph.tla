---------------------------- MODULE MCTraceGraph -----------------------------
(***************************************************************************)
(* Headers for TLC: every pair of a few paths headers with a few           *)
(* properties headers, among them repeated steps, empty words, a property  *)
(* given twice, a value with a dot, one without a name, and a bare name.   *)
(***************************************************************************)
EXTENDS TraceGraph

MCToken == {"", "a", "b", "c", "d", "e", "p", "q", "r", "x", "1", "2"}

Property(v, n, x) == [vertex |-> v, name |-> n, value |-> x]

Pairs(paths, properties) == {[paths |-> p, properties |-> q] : p \in paths, q \in properties}

MCHeaders ==
    Pairs({<< >>,
           <<<<"a">>>>,
           <<<<"a", "b", "c">>, <<"a", "d">>>>,
           <<<<"a", "b">>, << >>, <<"b", "c">>, <<"a", "c">>>>,
           <<<<"a", "b", "c">>, <<"a", "b", "d">>>>,
           <<<<"a", "b", "a">>, <<"c">>>>,
           <<<<"a", "", "b">>>>},
          {<< >>,
           <<Property("a", <<"x">>, <<"1">>)>>,
           <<Property("b", <<"x">>, <<"1">>), Property("b", <<"x">>, <<"2">>),
             Property("c", <<"x">>, <<"2">>)>>,
           <<Property("a", <<"x">>, <<"1", "2">>), Property("a", <<"x", "1">>, <<"1">>)>>,
           <<Property("", <<"a", "x">>, <<"2">>), Property("e", << >>, <<"1">>)>>,
           <<Property("a", << >>, <<"1">>), Property("b", <<"x">>, <<"2">>)>>,
           <<Property("a", << >>, << >>)>>})

MCQueries ==
    Pairs({<< >>,
           <<<<"p">>>>,
           <<<<"p", "q">>>>,
           <<<<"p", "q">>, <<"p", "q">>>>,
           <<<<"p", "q">>, <<"p", "r">>>>,
           <<<<"p", "q", "r">>, << >>>>},
          {<< >>,
           <<Property("p", <<"x">>, <<"1">>)>>,
           <<Property("p", <<"x">>, <<"2">>), Property("p", <<"x">>, <<"1">>)>>,
           <<Property("q", <<"x">>, <<"1">>)>>,
           <<Property("q", <<"x">>, <<"2">>)>>,
           <<Property("p", <<"x", "1">>, <<"2">>)>>,
           <<Property("", <<"p">>, << >>)>>})
=============================================================================
