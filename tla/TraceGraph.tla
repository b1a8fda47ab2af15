------------------------------ MODULE TraceGraph ------------------------------
(***************************************************************************)
(* boost/graph_utils.cc: two pairs of headers, the paths and the           *)
(* properties of a query and of a trace, become two graphs, and the query  *)
(* graph is looked for in the trace graph.                                 *)
(*                                                                         *)
(* Strings are taken apart: a paths header is the sequence of its words    *)
(* between commas, a word the sequence of the names that str_split returns *)
(* for it, << >> where it is empty.  str_split does not return an empty    *)
(* name behind the last dash: "a-" is <<a>>, and "a--" has an empty name   *)
(* behind a.  A property is a record of what its writer meant     *)
(* ("a.x.y==1.5" has vertex a, name <<x, y>> and value <<1, 5>>); the code *)
(* sees the tokens between the delimiters ".", "==" and blanks only.       *)
(***************************************************************************)
EXTENDS Naturals, SequencesExt

CONSTANTS Token,         \* what is between delimiters: names, and pieces of a value
          EmptyName,     \* "", as the name of a vertex
          Headers,       \* the headers of traces
          Queries        \* the headers of queries

Properties == [vertex : Token, name : Seq(Token \ {EmptyName}), value : Seq(Token \ {EmptyName})]

ASSUME HeaderAssumption ==
    /\ EmptyName \in Token
    /\ Headers \cup Queries \subseteq [paths : Seq(Seq(Token)), properties : Seq(Properties)]

VARIABLES query, trace,  \* the two pairs of headers
          small, large,  \* the graphs made of them
          mapping,       \* what get_sub_graph_mapping returned
          stage          \* how far the caller has come

vars == <<query, trace, small, large, mapping, stage>>

NoGraph == [properties |-> << >>, edges |-> << >>]

Init == /\ query \in Queries /\ trace \in Headers
        /\ small = NoGraph /\ large = NoGraph
        /\ mapping = << >>
        /\ stage = "headers"

\* str_split(header, ",", true): the places of the words that are not empty.
Words(paths) == {i \in DOMAIN paths : paths[i] # << >>}

\* Fault for the mutation runs: the last edge of a word is missed.
SegmentsShort(word) == [i \in 1 .. Len(word) - 2 |-> <<word[i], word[i + 1]>>]

\* The edges a word, as str_split returns it, adds, in order; an edge of two words is added twice.
Segments(word) == [i \in 1 .. Len(word) - 1 |-> <<word[i], word[i + 1]>>]

\* What the first n words add, one after the other.
EdgesUpTo(paths) ==
    LET upto[n \in 0 .. Len(paths)] ==
          IF n = 0 THEN << >>
          ELSE IF n \in Words(paths) THEN upto[n - 1] \o Segments(paths[n]) ELSE upto[n - 1]
    IN  upto

\* str_split of a property: a value with a dot in it comes in pieces, and empty
\* pieces are left out.
Tokens(property) == (IF property.vertex = EmptyName THEN << >> ELSE <<property.vertex>>)
                      \o property.name \o property.value

\* All tokens between the first and the last are the name.
Key(property) == Tail(Front(Tokens(property)))

\* Fault for the mutation runs: a property without a name is taken for malformed.
MalformedUnnamed(property) == Len(Tokens(property)) < 3

\* With less than two tokens the range begin() + 1, end() - 1 is reversed.
Malformed(property) == Len(Tokens(property)) < 2

\* Fault for the mutation runs: the last entry wins.
EntryLast(old, key, value) == [k \in DOMAIN old \cup {key} |-> IF k = key THEN value ELSE old[k]]

\* std::map::insert: the first entry wins.
Entry(old, key, value) == [k \in DOMAIN old \cup {key} |-> IF k \in DOMAIN old THEN old[k]
                                                                              ELSE value]

\* The properties of a vertex after the first n, of which the last token is the value.
PropertiesUpTo(v, properties) ==
    LET upto[n \in 0 .. Len(properties)] ==
          IF n = 0 THEN << >>
          ELSE IF Tokens(properties[n])[1] = v
               THEN Entry(upto[n - 1], Key(properties[n]), Last(Tokens(properties[n])))
               ELSE upto[n - 1]
    IN  upto

\* generate_trace_graph_from_headers: properties of names on no path are not used.
Graph(header) ==
    LET vertices == UNION {ToSet(header.paths[i]) : i \in Words(header.paths)}
    IN  [properties |-> [v \in vertices |->
                           PropertiesUpTo(v, header.properties)[Len(header.properties)]],
         edges      |-> EdgesUpTo(header.paths)[Len(header.paths)]]

Vertices(g) == DOMAIN g.properties

\* The caller makes both graphs.  A malformed property ends the program: a vector
\* of negative length, or whatever the reversed range makes of it.
Generate ==
    /\ stage = "headers"
    /\ IF \E h \in {query, trace} : \E i \in DOMAIN h.properties : Malformed(h.properties[i])
       THEN stage' = "trapped" /\ UNCHANGED <<small, large>>
       ELSE stage' = "graphs" /\ small' = Graph(query) /\ large' = Graph(trace)
    /\ UNCHANGED <<query, trace, mapping>>

\* Fault for the mutation runs: the values are not compared.
SubsetOfNames(map1, map2) == DOMAIN map1 \subseteq DOMAIN map2

\* property_map_subset.
Subset(map1, map2) == \A k \in DOMAIN map1 : k \in DOMAIN map2 /\ map2[k] = map1[k]

\* Fault for the mutation runs: vf2_subgraph_mono, which lets edges be missing.
SameEdgesMono(f) == \A e \in ToSet(small.edges) : <<f[e[1]], f[e[2]]>> \in ToSet(large.edges)

SameEdges(f) == \A u, v \in Vertices(small) :
                  <<u, v>> \in ToSet(small.edges) <=> <<f[u], f[v]>> \in ToSet(large.edges)

\* Fault for the mutation runs: the two graphs are swapped.
EmbeddingsBack == Injection(Vertices(large), Vertices(small))

\* The mappings vf2_subgraph_iso may find: induced subgraphs whose vertices have at
\* least the properties asked for.
Embeddings == {f \in Injection(Vertices(small), Vertices(large)) :
                 /\ \A v \in Vertices(small) : Subset(small.properties[v],
                                                      large.properties[f[v]])
                 /\ SameEdges(f)}

Parallel(g) == ~ IsInjective(g.edges)

\* get_sub_graph_mapping returns the first mapping found, or an empty map.  VF2
\* counts parallel edges while it prunes, so it may then find none.
GetSubGraphMapping ==
    /\ stage = "graphs"
    /\ stage' = "mapped"
    /\ mapping' \in IF Embeddings = {} THEN {<< >>}
                    ELSE Embeddings \cup (IF Parallel(small) \/ Parallel(large) THEN {<< >>}
                                                                              ELSE {})
    /\ UNCHANGED <<query, trace, small, large>>

Next == Generate \/ GetSubGraphMapping

Spec == Init /\ [][Next]_vars

-----------------------------------------------------------------------------
Names(header) == UNION {ToSet(header.paths[i]) : i \in DOMAIN header.paths}

\* v directly follows u in a word of the header.
Follows(header, u, v) ==
    \E i \in DOMAIN header.paths : \E j \in 1 .. Len(header.paths[i]) - 1 :
        header.paths[i][j] = u /\ header.paths[i][j + 1] = v

\* The header asks for (or has) value x of name n at vertex v, as its writer meant
\* it: v has a name, no earlier property says otherwise, and the value is one token.
Says(header, v, n, x) ==
    /\ v # EmptyName
    /\ \E i \in DOMAIN header.properties :
         /\ header.properties[i] = [vertex |-> v, name |-> n, value |-> <<x>>]
         /\ \A j \in 1 .. i - 1 : Front(Tokens(header.properties[j])) # <<v>> \o n

\* "a has directed edge to b, b has directed edge to c" (graph_utils.h:71-76), and
\* each name on a path is a vertex with the properties written for it
\* (graph_utils.cc:40-74).
GraphIsAsWritten ==
    stage \in {"graphs", "mapped"} =>
      /\ Vertices(large) = Names(trace)
      /\ \A u, v \in Vertices(large) :
           <<u, v>> \in ToSet(large.edges) <=> Follows(trace, u, v)
      /\ \A i \in DOMAIN trace.properties :
           LET p == trace.properties[i] IN
           p.vertex \in Vertices(large) /\ Len(p.value) = 1
             /\ Says(trace, p.vertex, p.name, p.value[1])
           => Subset([n \in {p.name} |-> p.value[1]], large.properties[p.vertex])

\* A mapping tells the truth about the trace's headers (graph_utils.h:83-85): it
\* takes the names of the query to names of the trace; the trace has, between these,
\* the steps of the query and no others; what the query asks of a name the trace
\* says, in the same tokens (the code, and so this property, takes p.x.1==2 for an
\* answer to p.x==1.2).
MappingAnswersQuery ==
    mapping # << >> =>
      /\ mapping \in [Names(query) -> Names(trace)]
      /\ \A u, v \in DOMAIN mapping : Follows(query, u, v) <=> Follows(trace, mapping[u], mapping[v])
      /\ \A i \in DOMAIN query.properties :
           LET p == query.properties[i] IN
           p.vertex \in DOMAIN mapping /\ Len(p.value) = 1
             /\ Says(query, p.vertex, p.name, p.value[1])
           => \E j \in DOMAIN trace.properties :
                /\ Tokens(trace.properties[j])[1] = mapping[p.vertex]
                /\ Tail(Tokens(trace.properties[j])) = p.name \o p.value

\* Every property is a vertex, maybe a name, and a value that is one token, as in
\* "Given a.x.y.z == 123" (graph_utils.cc:60).
WellFormed(header) ==
    \A i \in DOMAIN header.properties :
        header.properties[i].vertex # EmptyName /\ Len(header.properties[i].value) = 1

\* f shows the query in the trace, going by the headers alone.
Shows(f) ==
    /\ \A u, v \in Names(query) : Follows(query, u, v) <=> Follows(trace, f[u], f[v])
    /\ \A i \in DOMAIN query.properties :
         LET p == query.properties[i] IN
         p.vertex \in Names(query) /\ Says(query, p.vertex, p.name, p.value[1])
         => Says(trace, f[p.vertex], p.name, p.value[1])

\* Well-formed headers never end the program, and if no step is repeated the answer
\* is empty only where the trace does not show the query (graph_utils.cc:57-71,
\* 115-125).
WhatIsThereIsFound ==
    WellFormed(query) /\ WellFormed(trace) =>
      /\ stage # "trapped"
      /\ stage = "mapped" /\ mapping = << >> /\ ~ Parallel(small) /\ ~ Parallel(large)
           => Names(query) = {} \/ ~ \E f \in Injection(Names(query), Names(trace)) : Shows(f)
=============================================================================
