-------------------------- MODULE PathCounterProofs --------------------------
(***************************************************************************)
(* Proofs about PathCounter for every call tree: types, that the header is *)
(* always the end of the real way of the request, and that what is counted *)
(* is the counted path.  The strengthening says of the header a call is    *)
(* made with what HeaderIsTheWay says of the one its callee gets.          *)
(***************************************************************************)
EXTENDS PathCounter, TLAPS

\* The named workloads on the way to the caller of s.
Above(s) == IF Parent[s] \in Spans THEN Hops[Parent[s]] ELSE << >>

SentIsTheWay ==
    \A s \in Spans : /\ IsEnd(sent[s], Above(s))
                     /\ s \in kept => sent[s] = Above(s)

GotWasCalled == \A s \in Spans : attempts[s] > 0 => s \in called

IInv == TypeOK /\ HeaderIsTheWay /\ SentIsTheWay /\ GotWasCalled

LEMMA NoneIsEnd == ASSUME NEW way \in Seq(Named) PROVE IsEnd(<< >>, way)
<1>1. SubSeq(way, Len(way) + 1, Len(way)) = << >>
  OBVIOUS
<1> QED
  BY <1>1 DEF IsEnd

\* A name behind the end of a way is the end of the longer way.
LEMMA EndAppended ==
    ASSUME NEW way \in Seq(Named), NEW path \in Seq(Named), NEW w \in Named,
           IsEnd(path, way)
    PROVE  IsEnd(Append(path, w), way \o <<w>>)
<1>1. PICK n \in 0 .. Len(way) : path = SubSeq(way, n + 1, Len(way))
  BY DEF IsEnd
<1> DEFINE longer == way \o <<w>>
<1>2. longer \in Seq(Named) /\ Len(longer) = Len(way) + 1 /\ n \in 0 .. Len(longer)
  OBVIOUS
<1>3. /\ \A i \in 1 .. Len(way) : longer[i] = way[i]
      /\ longer[Len(way) + 1] = w
  OBVIOUS
<1> DEFINE end == SubSeq(longer, n + 1, Len(longer))
<1>4. /\ end \in Seq(Named) /\ Len(end) = Len(way) + 1 - n
      /\ \A i \in 1 .. Len(end) : end[i] = longer[n + i]
  BY <1>2
<1>5. /\ Len(path) = Len(way) - n
      /\ \A i \in 1 .. Len(path) : path[i] = way[n + i]
  BY <1>1
<1> HIDE DEF longer, end
<1>6. Append(path, w) = end
  <2>1. Len(Append(path, w)) = Len(end)
    BY <1>4, <1>5
  <2>2. ASSUME NEW i \in 1 .. Len(end) PROVE Append(path, w)[i] = end[i]
    <3>1. CASE i <= Len(path)
      BY <3>1, <1>3, <1>4, <1>5, <2>2
    <3>2. CASE i > Len(path)
      <4>1. i = Len(path) + 1 /\ n + i = Len(way) + 1
        BY <3>2, <1>4, <1>5, <2>2
      <4>2. Append(path, w)[i] = w
        BY <4>1
      <4>3. end[i] = w
        BY <4>1, <1>3, <1>4, <2>2
      <4> QED
        BY <4>2, <4>3
    <3>3. i <= Len(path) \/ i > Len(path)
      BY <1>4, <1>5, <2>2
    <3> QED
      BY ONLY <3>1, <3>2, <3>3
  <2> QED
    BY <2>1, <2>2, <1>4
<1> QED
  BY <1>2, <1>6 DEF IsEnd, longer, end

LEMMA WayTypes ==
    ASSUME NEW s \in Spans
    PROVE  /\ Above(s) \in Seq(Named)
           /\ Service[s] \in Named => Hops[s] = Above(s) \o <<Service[s]>>
           /\ Service[s] \notin Named => Hops[s] = Above(s)
<1>1. Above(s) \in Seq(Named)
  BY PathAssumption DEF Above
<1>2. Hops[s] = Above(s) \o (IF Service[s] \in Named THEN <<Service[s]>> ELSE << >>)
  BY PathAssumption DEF Above
<1> QED
  BY <1>1, <1>2

LEMMA InitEstablishes == Init => IInv
<1> SUFFICES ASSUME Init PROVE IInv
  OBVIOUS
<1>1. TypeOK /\ HeaderIsTheWay /\ GotWasCalled
  BY PathAssumption DEF Init, TypeOK, HeaderIsTheWay, GotWasCalled
<1>2. \A s \in Spans : IsEnd(<< >>, Above(s))
  BY NoneIsEnd, WayTypes
<1>3. SentIsTheWay
  BY <1>2 DEF Init, SentIsTheWay
<1> QED
  BY <1>1, <1>3 DEF IInv

LEMMA CallPreserves ==
    ASSUME IInv, NEW s \in Spans, NEW forward \in BOOLEAN, Call(s, forward)
    PROVE  IInv'
<1> DEFINE path == IF forward /\ Parent[s] \in Spans THEN x_wasm_path[Parent[s]] ELSE << >>
<1>1. /\ s \notin called /\ called' = called \cup {s}
      /\ sent' = [sent EXCEPT ![s] = path]
      /\ kept' = IF Parent[s] = NoSpan \/ (forward /\ Parent[s] \in kept)
                 THEN kept \cup {s} ELSE kept
      /\ UNCHANGED <<x_wasm_path, attempts, counter>>
      /\ Parent[s] \in Spans => attempts[Parent[s]] > 0
  BY DEF Call
<1>2. path \in Seq(Named)
  BY DEF IInv, TypeOK
<1>3. TypeOK'
  BY <1>1, <1>2 DEF IInv, TypeOK
<1>4. IsEnd(path, Above(s))
  BY <1>1, NoneIsEnd, WayTypes DEF IInv, HeaderIsTheWay, Above
<1>5. s \in kept' => path = Above(s)
  BY <1>1, PathAssumption DEF IInv, TypeOK, HeaderIsTheWay, Above
<1> HIDE DEF path
<1>6. SentIsTheWay'
  <2>1. ASSUME NEW t \in Spans
        PROVE  IsEnd(sent'[t], Above(t)) /\ (t \in kept' => sent'[t] = Above(t))
    <3>1. CASE t = s
      BY <3>1, <1>1, <1>4, <1>5 DEF IInv, TypeOK
    <3>2. CASE t # s
      BY <3>2, <1>1 DEF IInv, TypeOK, SentIsTheWay
    <3> QED
      BY <3>1, <3>2
  <2> QED
    BY <2>1 DEF SentIsTheWay, Above
<1>7. HeaderIsTheWay' /\ GotWasCalled'
  <2>1. \A t \in Spans : attempts[t] > 0 /\ t \in kept' => t \in kept
    BY <1>1 DEF IInv, GotWasCalled
  <2> QED
    BY <2>1, <1>1 DEF IInv, HeaderIsTheWay, GotWasCalled
<1> QED
  BY <1>3, <1>6, <1>7 DEF IInv

\* What a try of s makes of the header and of the counter.
LEMMA TryTypes ==
    ASSUME IInv, NEW s \in Spans, OnRequestHeaders(s)
    PROVE  /\ s \in called /\ attempts[s] < MaxAttempts
           /\ attempts' = [attempts EXCEPT ![s] = attempts[s] + 1]
           /\ x_wasm_path' = [x_wasm_path EXCEPT ![s] = x_wasm_path'[s]]
           /\ x_wasm_path'[s] = IF Service[s] \in Named THEN Append(sent[s], Service[s])
                                                       ELSE sent[s]
           /\ x_wasm_path'[s] \in Seq(Named)
           /\ UNCHANGED <<called, sent, kept>>
           /\ counter' = IF Service[s] \in Named /\ Counts(sent[s], Service[s])
                         THEN counter + 1 ELSE counter
<1> DEFINE path == IF Service[s] \in Named THEN Append(sent[s], Service[s]) ELSE sent[s]
<1>1. x_wasm_path' = [x_wasm_path EXCEPT ![s] = path]
  BY DEF OnRequestHeaders, Extended
<1>2. path \in Seq(Named)
  BY DEF IInv, TypeOK
<1>3. DOMAIN x_wasm_path = Spans
  BY DEF IInv, TypeOK
<1>4. x_wasm_path'[s] = path
  BY <1>1, <1>3
<1> QED
  BY <1>1, <1>2, <1>4 DEF OnRequestHeaders

LEMMA TryIsTheWay ==
    ASSUME IInv, NEW s \in Spans, OnRequestHeaders(s)
    PROVE  /\ IsEnd(x_wasm_path'[s], Hops[s])
           /\ s \in kept => x_wasm_path'[s] = Hops[s]
<1>1. /\ sent[s] \in Seq(Named)
      /\ IsEnd(sent[s], Above(s))
      /\ s \in kept => sent[s] = Above(s)
  BY DEF IInv, TypeOK, SentIsTheWay
<1>2. CASE Service[s] \in Named
  <2>1. x_wasm_path'[s] = Append(sent[s], Service[s])
    BY <1>2, TryTypes
  <2>2. Hops[s] = Above(s) \o <<Service[s]>> /\ Above(s) \in Seq(Named)
    BY <1>2, WayTypes
  <2>3. IsEnd(x_wasm_path'[s], Hops[s])
    BY <1>1, <1>2, <2>1, <2>2, EndAppended
  <2>4. Append(Above(s), Service[s]) = Above(s) \o <<Service[s]>>
    BY <1>2, <2>2
  <2> QED
    BY <1>1, <2>1, <2>2, <2>3, <2>4
<1>3. CASE Service[s] \notin Named
  BY <1>1, <1>3, TryTypes, WayTypes
<1> QED
  BY <1>2, <1>3

LEMMA StepPreserves == IInv /\ [Next]_vars => IInv'
<1> SUFFICES ASSUME IInv, [Next]_vars PROVE IInv'
  OBVIOUS
<1>1. ASSUME NEW s \in Spans, NEW forward \in BOOLEAN, Call(s, forward) PROVE IInv'
  BY <1>1, CallPreserves
<1>2. ASSUME NEW s \in Spans, OnRequestHeaders(s) PROVE IInv'
  <2>1. /\ s \in called /\ attempts[s] < MaxAttempts
        /\ attempts' = [attempts EXCEPT ![s] = attempts[s] + 1]
        /\ x_wasm_path' = [x_wasm_path EXCEPT ![s] = x_wasm_path'[s]]
        /\ x_wasm_path'[s] \in Seq(Named)
        /\ UNCHANGED <<called, sent, kept>>
    BY <1>2, TryTypes
  <2>2. /\ IsEnd(x_wasm_path'[s], Hops[s])
        /\ s \in kept => x_wasm_path'[s] = Hops[s]
    BY <1>2, TryIsTheWay
  <2>3. TypeOK'
    <3>1. counter' \in Nat
      <4>1. counter \in Nat
        BY DEF IInv, TypeOK
      <4>2. counter' = counter \/ counter' = counter + 1
        BY <1>2 DEF OnRequestHeaders
      <4> QED
        BY ONLY <4>1, <4>2
    <3>2. attempts[s] + 1 \in 0 .. MaxAttempts
      BY <2>1, PathAssumption DEF IInv, TypeOK
    <3>3. /\ attempts' \in [Spans -> 0 .. MaxAttempts]
          /\ x_wasm_path' \in [Spans -> Seq(Named)]
      BY <2>1, <3>2 DEF IInv, TypeOK
    <3> QED
      BY <2>1, <3>1, <3>3 DEF IInv, TypeOK
  <2>4. HeaderIsTheWay'
    <3>1. ASSUME NEW t \in Spans, attempts'[t] > 0
          PROVE  IsEnd(x_wasm_path'[t], Hops[t]) /\ (t \in kept => x_wasm_path'[t] = Hops[t])
      <4>1. CASE t = s
        BY <4>1, <2>2
      <4>2. CASE t # s
        BY <4>2, <3>1, <2>1 DEF IInv, TypeOK, HeaderIsTheWay
      <4> QED
        BY <4>1, <4>2
    <3> QED
      BY <3>1, <2>1 DEF HeaderIsTheWay
  <2>5. SentIsTheWay' /\ GotWasCalled'
    BY <2>1 DEF IInv, TypeOK, SentIsTheWay, GotWasCalled, Above
  <2> QED
    BY <2>3, <2>4, <2>5 DEF IInv
<1>3. CASE UNCHANGED vars
  BY <1>3 DEF vars, IInv, TypeOK, HeaderIsTheWay, SentIsTheWay, GotWasCalled, Above
<1> QED
  BY <1>1, <1>2, <1>3 DEF Next

LEMMA InductiveInvariant == Spec => []IInv
  BY InitEstablishes, StepPreserves, PTL DEF Spec

\* Every variable keeps its type: only workloads with a name are in a path.
THEOREM TypeCorrect == Spec => []TypeOK
  BY InductiveInvariant, PTL DEF IInv

\* The header is the end of the real way of the request, all of it if no application
\* dropped it (filter.cc:66-77).
THEOREM HeaderIsReal == Spec => []HeaderIsTheWay
  BY InductiveInvariant, PTL DEF IInv

\* The counter goes up by one for requests that came the counted path last, and for
\* every try of one that came that very way with its header (filter.cc:79-82).
THEOREM CountIsReal == Spec => CountsTheWay
<1> DEFINE Counted(s) ==
             attempts'[s] # attempts[s] =>
               /\ counter' # counter => counter' = counter + 1 /\ IsEnd(CountedPath, Hops[s])
               /\ s \in kept /\ Hops[s] = CountedPath /\ Service[s] \in Named
                    => counter' = counter + 1
<1>1. IInv /\ [Next]_vars => \A s \in Spans : Counted(s)
  <2> SUFFICES ASSUME IInv, [Next]_vars, NEW s \in Spans, attempts'[s] # attempts[s]
               PROVE  Counted(s)
    OBVIOUS
  <2>1. OnRequestHeaders(s)
    BY DEF Next, vars, Call, OnRequestHeaders, IInv, TypeOK
  <2>2. counter \in Nat /\ sent[s] \in Seq(Named)
    BY DEF IInv, TypeOK
  <2>3. ASSUME counter' # counter
        PROVE  counter' = counter + 1 /\ IsEnd(CountedPath, Hops[s])
    <3>1. /\ Service[s] \in Named /\ Append(sent[s], Service[s]) = CountedPath
          /\ counter' = counter + 1
      BY <2>1, <2>3, TryTypes DEF Counts, Extended
    <3>2. x_wasm_path'[s] = CountedPath
      BY <2>1, <3>1, TryTypes
    <3> QED
      BY <2>1, <3>1, <3>2, TryIsTheWay
  <2>4. ASSUME s \in kept, Hops[s] = CountedPath, Service[s] \in Named
        PROVE  counter' = counter + 1
    <3>1. Append(sent[s], Service[s]) = CountedPath
      BY <2>1, <2>4, TryTypes, TryIsTheWay
    <3>2. sent[s] # << >>
      BY <2>2, <2>4, <3>1, PathAssumption
    <3> QED
      BY <2>1, <2>4, <3>1, <3>2, TryTypes DEF Counts, Extended
  <2> QED
    BY <2>3, <2>4
<1>2. IInv /\ [Next]_vars => [\A s \in Spans : Counted(s)]_vars
  BY <1>1
<1> QED
  BY <1>2, InductiveInvariant, PTL DEF Spec, CountsTheWay
=============================================================================
