--------------------------- MODULE HttpAuthProofs ---------------------------
(***************************************************************************)
(* Proofs about HttpAuth for every set of streams, every split of them     *)
(* between the two filters and every set of accepted tokens: types,        *)
(* OwnTokenDecides, RefusalTakesEffect, and that the steps of http-auth    *)
(* are AuthGate's until a callback has lost its context.  The properties   *)
(* are inductive together once a stream of petgraph-rust is known never to *)
(* wait.  At the end: a dispatched call that ends decides its stream.      *)
(***************************************************************************)
EXTENDS HttpAuth, TLAPS

\* A stream of petgraph-rust never waits.
EarlyNeverWaits == \A c \in Early : stream[c] # "paused"

IInv == TypeOK /\ OwnTokenDecides /\ RefusalTakesEffect /\ EarlyNeverWaits

LEMMA DecideType ==
    ASSUME TypeOK, NEW d \in Streams, NEW body
    PROVE  Decide(d, body) \in {"new", "paused", "forwarded", "answered", "denied", "gone"}
  BY DEF Decide, TypeOK

LEMMA BodyType ==
    ASSUME NEW c \in Streams, NEW body \in Bodies(c)
    PROVE  /\ body \in {"Authorized", "Unauthorized", "page", "nothing"}
           /\ body = "Authorized" => c \in Hello
  BY DEF Bodies, Auth

LEMMA InitEstablishes == Init => IInv
  BY HttpAuthAssumption
     DEF Init, IInv, TypeOK, OwnTokenDecides, RefusalTakesEffect, EarlyNeverWaits, Waiting

LEMMA CallbackPreserves ==
    ASSUME IInv, NEW c \in Streams, Callback(c)
    PROVE  IInv'
<1>1. PICK body \in Bodies(c), d \in Effective(c) :
             /\ call' = [call EXCEPT ![c] = body]
             /\ stream' = [stream EXCEPT ![d] = Decide(d, body)]
  BY DEF Callback
<1>2. c \in Waiting /\ call[c] = "pending" /\ d \in Waiting /\ d \in Streams
  BY DEF Callback, Effective, Waiting
<1>3. TypeOK'
  BY <1>1, <1>2, DecideType, BodyType DEF Callback, IInv, TypeOK
<1>4. RefusalTakesEffect' /\ EarlyNeverWaits'
  BY <1>1, <1>2, HttpAuthAssumption
     DEF IInv, TypeOK, RefusalTakesEffect, EarlyNeverWaits, Waiting
<1>5. OwnTokenDecides'
  <2>1. SUFFICES ASSUME ~ wild' PROVE OwnTokenDecides'
    BY DEF OwnTokenDecides
  <2>2. ~ wild /\ HasContext(c) /\ d = c
    BY <1>1, <2>1 DEF Callback, Effective
  <2>3. stream[c] = "paused"
    BY <1>2, <2>2 DEF HasContext, Bodies, Auth, IInv, OwnTokenDecides
  <2>4. stream'[c] = IF body = "Authorized" THEN "forwarded" ELSE "denied"
    BY <1>1, <1>2, <2>2, <2>3 DEF Decide, Refuses, Waiting, IInv, TypeOK
  <2>5. call'[c] = body
    BY <1>1, <1>2 DEF IInv, TypeOK
  <2>6. ASSUME NEW e \in Waiting, e # c
        PROVE  stream'[e] = stream[e] /\ call'[e] = call[e]
    BY <1>1, <1>2, <2>2, <2>6 DEF Waiting, IInv, TypeOK
  <2>7. body = "Authorized" => c \in Hello
    BY BodyType
  <2> QED
    BY <2>2, <2>4, <2>5, <2>6, <2>7 DEF IInv, OwnTokenDecides
<1> QED
  BY <1>3, <1>4, <1>5 DEF IInv

LEMMA ResponsePreserves ==
    ASSUME IInv, NEW c \in Streams, OnHttpCallResponse(c)
    PROVE  IInv'
<1>1. PICK body \in Bodies(c) : /\ call' = [call EXCEPT ![c] = body]
                                /\ stream' = [stream EXCEPT ![c] = Decide(c, body)]
  BY DEF OnHttpCallResponse
<1>2. c \in Early /\ call[c] = "pending" /\ wild' = wild
  BY DEF OnHttpCallResponse
<1>3. TypeOK'
  BY <1>1, <1>2, DecideType, BodyType DEF IInv, TypeOK
<1>4. stream'[c] = Decide(c, body) /\ call'[c] = body
  BY <1>1 DEF IInv, TypeOK
<1>5. /\ stream'[c] # "paused"
      /\ body \in {"Unauthorized", "page"} => stream'[c] # "forwarded"
      /\ stream'[c] = "denied" => body \in {"Unauthorized", "page"}
  BY <1>2, <1>4, BodyType DEF Decide, Refuses, IInv, EarlyNeverWaits, RefusalTakesEffect
<1>6. ASSUME NEW e \in Streams, e # c
      PROVE  stream'[e] = stream[e] /\ call'[e] = call[e]
  BY <1>1, <1>6 DEF IInv, TypeOK
<1>7. RefusalTakesEffect' /\ EarlyNeverWaits'
  BY <1>4, <1>5, <1>6, HttpAuthAssumption DEF IInv, RefusalTakesEffect, EarlyNeverWaits
<1>8. OwnTokenDecides'
  BY <1>2, <1>6 DEF IInv, OwnTokenDecides, Waiting, Bodies
<1> QED
  BY <1>3, <1>7, <1>8 DEF IInv

LEMMA StepPreserves == IInv /\ [Next]_vars => IInv'
<1> SUFFICES ASSUME IInv, [Next]_vars PROVE IInv'
  OBVIOUS
<1> USE HttpAuthAssumption
    DEF IInv, TypeOK, OwnTokenDecides, RefusalTakesEffect, EarlyNeverWaits, Waiting
<1>1. ASSUME NEW c \in Streams, OnRequestHeaders(c) PROVE IInv'
  BY <1>1 DEF OnRequestHeaders, Ask, Bodies
<1>2. ASSUME NEW c \in Streams, OnHttpRequestHeaders(c) PROVE IInv'
  BY <1>2 DEF OnHttpRequestHeaders, Ask, Bodies
<1>3. ASSUME NEW c \in Streams, Callback(c) PROVE IInv'
  BY <1>3, CallbackPreserves
<1>4. ASSUME NEW c \in Streams, OnHttpCallResponse(c) PROVE IInv'
  BY <1>4, ResponsePreserves
<1>5. ASSUME NEW c \in Streams, OnResponseHeaders(c) PROVE IInv'
  BY <1>5 DEF OnResponseHeaders, Bodies
<1>6. ASSUME NEW c \in Streams, StreamClosed(c) PROVE IInv'
  BY <1>6 DEF StreamClosed, Bodies
<1>7. CASE UNCHANGED vars
  BY <1>7 DEF vars, Bodies
<1> QED
  BY <1>1, <1>2, <1>3, <1>4, <1>5, <1>6, <1>7 DEF Next

LEMMA InductiveInvariant == Spec => []IInv
  BY InitEstablishes, StepPreserves, PTL DEF Spec

\* Every variable keeps its type, for any number of streams.
THEOREM TypeCorrect == Spec => []TypeOK
  BY InductiveInvariant, PTL DEF IInv

\* As long as no callback has lost its context, a waiting request goes on only
\* after the answer to its own call, and only with its own token accepted
\* (http-auth/filter.cc:35-60).
THEOREM OwnTokenAlwaysDecides == Spec => []OwnTokenDecides
  BY InductiveInvariant, PTL DEF IInv

\* A refusal that arrives before the response of a request that went on early
\* always stops it (petgraph-rust/src/lib.rs:68-82).
THEOREM RefusalAlwaysTakesEffect == Spec => []RefusalTakesEffect
  BY InductiveInvariant, PTL DEF IInv

-----------------------------------------------------------------------------
\* A step that changes one stream as AuthGate allows is a step of AuthGate.
LEMMA MoveMaps ==
    ASSUME TypeOK, NEW c \in Waiting, NEW to, NEW from, stream[c] \in from,
           stream' = [stream EXCEPT ![c] = to]
    PROVE  Gate!Move(c, from, to)
  BY DEF Gate!Move, waiting, Waiting, TypeOK

\* A step that changes no waiting stream is a stutter of AuthGate.
LEMMA OtherMaps ==
    ASSUME TypeOK, TypeOK', \A c \in Waiting : stream'[c] = stream[c]
    PROVE  waiting' = waiting
  BY DEF waiting

\* Until a callback has lost its context, every step of http-auth is one AuthGate
\* allows or changes none of its streams.
THEOREM ImplementsGate == Spec => KeepsGate
<1>1. Init => Gate!Init
  BY DEF Init, Gate!Init, waiting, Waiting
<1>2. IInv /\ IInv' /\ [Next]_vars => [wild' \/ Gate!Next]_waiting
  <2> SUFFICES ASSUME IInv, IInv', [Next]_vars, ~ wild' PROVE [Gate!Next]_waiting
    OBVIOUS
  <2>0. TypeOK /\ TypeOK'
    BY DEF IInv
  <2>1. ASSUME NEW c \in Streams, OnRequestHeaders(c) PROVE Gate!Next
    BY <2>0, <2>1, MoveMaps DEF OnRequestHeaders, Ask, Gate!Next, Gate!Wait
  <2>2. ASSUME NEW c \in Streams, OnHttpRequestHeaders(c) PROVE waiting' = waiting
    BY <2>0, <2>2, OtherMaps DEF OnHttpRequestHeaders, Ask, Waiting, TypeOK
  <2>3. ASSUME NEW c \in Streams, Callback(c) PROVE Gate!Next
    <3>1. c \in Waiting /\ ~ wild /\ HasContext(c) /\ call[c] = "pending"
      BY <2>3 DEF Callback
    <3>2. PICK body \in Bodies(c) : stream' = [stream EXCEPT ![c] = Decide(c, body)]
      BY <2>3, <3>1 DEF Callback, Effective
    <3>3. stream[c] = "paused"
      BY <3>1 DEF HasContext, Bodies, Auth, IInv, OwnTokenDecides
    <3>4. CASE body = "Authorized"
      <4>1. c \in Hello \ Early
        BY <3>1, <3>4, BodyType DEF Waiting
      <4>2. Decide(c, body) = "forwarded"
        BY <3>3, <3>4 DEF Decide, Refuses
      <4>3. Gate!Move(c, {"paused"}, "forwarded")
        BY <2>0, <3>1, <3>2, <3>3, <4>2, MoveMaps
      <4> QED
        BY <3>1, <4>1, <4>3 DEF Gate!Next, Gate!Admit
    <3>5. CASE body # "Authorized"
      <4>1. Decide(c, body) = "denied"
        BY <3>1, <3>3, <3>5 DEF Decide, Refuses, Waiting
      <4> QED
        BY <2>0, <3>1, <3>2, <3>3, <4>1, MoveMaps DEF Gate!Next, Gate!Deny
    <3> QED
      BY <3>4, <3>5
  <2>4. ASSUME NEW c \in Streams, OnHttpCallResponse(c) PROVE waiting' = waiting
    BY <2>0, <2>4, OtherMaps DEF OnHttpCallResponse, Waiting, TypeOK
  <2>5. ASSUME NEW c \in Streams, OnResponseHeaders(c) PROVE [Gate!Next]_waiting
    <3>1. CASE c \in Waiting
      BY <2>0, <2>5, <3>1, MoveMaps DEF OnResponseHeaders, Gate!Next, Gate!Answer
    <3>2. CASE c \notin Waiting
      BY <2>0, <2>5, <3>2, OtherMaps DEF OnResponseHeaders, TypeOK, Waiting
    <3> QED
      BY <3>1, <3>2
  <2>6. ASSUME NEW c \in Streams, StreamClosed(c) PROVE [Gate!Next]_waiting
    <3>1. CASE c \in Waiting
      BY <2>0, <2>6, <3>1, MoveMaps DEF StreamClosed, HasContext, Gate!Next, Gate!Leave
    <3>2. CASE c \notin Waiting
      BY <2>0, <2>6, <3>2, OtherMaps DEF StreamClosed, TypeOK, Waiting
    <3> QED
      BY <3>1, <3>2
  <2>7. CASE UNCHANGED vars
    BY <2>7 DEF vars, waiting
  <2> QED
    BY <2>1, <2>2, <2>3, <2>4, <2>5, <2>6, <2>7 DEF Next
<1> QED
  BY <1>1, <1>2, InductiveInvariant, PTL DEF Spec, KeepsGate
-----------------------------------------------------------------------------
Pending(c) == call[c] = "pending"
Answer(c) == Callback(c) \/ OnHttpCallResponse(c)

\* What WF_vars(Answer(c)) says, with its guard where it has ENABLED, which the
\* provers cannot expand: an answer replaces "pending" by a body, so it changes
\* vars, and a pending call is all it waits for.
CallEnds(c) == []<>(~ Pending(c)) \/ []<><<Answer(c)>>_vars
CallsEnd == \A c \in Streams : CallEnds(c)

Asked(c) == stream[c] = "paused" /\ call[c] = "pending"
Decided(c) == stream[c] # "paused"

\* A request that waits for its answer does so until it is decided, whatever
\* other calls and streams do.
LEMMA AskedStays ==
    ASSUME IInv, NEW c \in Streams, Asked(c), [Next]_vars
    PROVE  Asked(c)' \/ Decided(c)'
<1> USE DEF IInv, TypeOK, Asked, Decided
<1>1. ASSUME NEW d \in Streams, OnRequestHeaders(d) PROVE Asked(c)' \/ Decided(c)'
  BY <1>1 DEF OnRequestHeaders, Ask
<1>2. ASSUME NEW d \in Streams, OnHttpRequestHeaders(d) PROVE Asked(c)' \/ Decided(c)'
  BY <1>2 DEF OnHttpRequestHeaders, Ask
<1>3. ASSUME NEW d \in Streams, Callback(d) PROVE Asked(c)' \/ Decided(c)'
  <2>1. CASE d = c
    BY <2>1, <1>3 DEF Callback, Effective, HasContext, Decide, Refuses, Waiting
  <2>2. CASE d # c
    BY <2>2, <1>3 DEF Callback
  <2> QED
    BY <2>1, <2>2
<1>4. ASSUME NEW d \in Streams, OnHttpCallResponse(d) PROVE Asked(c)' \/ Decided(c)'
  BY <1>4 DEF OnHttpCallResponse, EarlyNeverWaits
<1>5. ASSUME NEW d \in Streams, OnResponseHeaders(d) PROVE Asked(c)' \/ Decided(c)'
  BY <1>5 DEF OnResponseHeaders
<1>6. ASSUME NEW d \in Streams, StreamClosed(d) PROVE Asked(c)' \/ Decided(c)'
  BY <1>6 DEF StreamClosed
<1>7. CASE UNCHANGED vars
  BY <1>7 DEF vars
<1> QED
  BY <1>1, <1>2, <1>3, <1>4, <1>5, <1>6, <1>7 DEF Next

LEMMA AskedEnds ==
    ASSUME NEW c \in Streams
    PROVE  Spec /\ CallEnds(c) => (Asked(c) ~> Decided(c))
<1>1. IInv /\ Asked(c) /\ [Next]_vars => Asked(c)' \/ Decided(c)'
  BY AskedStays
<1>2. IInv /\ Asked(c) /\ <<Answer(c)>>_vars => Decided(c)'
  BY DEF IInv, TypeOK, Asked, Decided, Answer, Callback, OnHttpCallResponse,
         EarlyNeverWaits, Effective, HasContext, Decide, Refuses, Waiting
<1>3. Asked(c) => Pending(c)
  BY DEF Asked, Pending
<1>4. Spec => [][Next]_vars
  BY PTL DEF Spec
<1> QED
  BY <1>1, <1>2, <1>3, <1>4, InductiveInvariant, PTL DEF CallEnds

\* If a dispatched call ends, the request that waits for it is decided or its
\* stream ends, even when callbacks of other streams have lost their contexts
\* (http-auth/filter.cc:35-60).
THEOREM AskedIsAlwaysDecided == Spec /\ CallsEnd => AskedIsDecided
  BY AskedEnds DEF AskedIsDecided, Asked, Decided, CallsEnd
=============================================================================
