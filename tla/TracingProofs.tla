--------------------------- MODULE TracingProofs -----------------------------
(***************************************************************************)
(* Proofs about Bidi for every call tree, every set of traced calls, any   *)
(* number of workers and of tries: the type invariant, that the paths in   *)
(* the headers of traced calls are real, that what is counted is real,     *)
(* that no path is lost from an entry of shared data nobody raced for, and *)
(* that the filter implements PathLedger until two workers race.  On       *)
(* proxies with one worker thread (SingleWorker) they never do.            *)
(*                                                                         *)
(* At the end, StoreFilter, for any traces: it implements Bidi, so all of  *)
(* this holds there too, and only traces that made all calls are stored.   *)
(***************************************************************************)
EXTENDS StoreFilter, TLAPS

LEMMA PrefixedType ==
    ASSUME NEW w \in Workloads, NEW paths \in SUBSET Path
    PROVE  Prefixed(w, paths) \in SUBSET Path /\ Prefixed(w, paths) # {}
<1>1. <<w>> \in Path
  BY DEF Path
<1>2. \A p \in paths : <<w>> \o p \in Path
  BY <1>1 DEF Path
<1> QED
  BY <1>1, <1>2 DEF Prefixed

LEMMA KeyTypes ==
    ASSUME NEW s \in Spans
    PROVE  InboundKey(s) \in Keys /\ OutboundKey(s) \in Keys
  BY BidiAssumption DEF InboundKey, OutboundKey, Keys

LEMMA TypeInit == Init => TypeOK
  BY BidiAssumption DEF Init, TypeOK, InboundState, OutboundState, Path

LEMMA TypeStep == TypeOK /\ [Next]_vars => TypeOK'
<1> SUFFICES ASSUME TypeOK, [Next]_vars PROVE TypeOK'
  OBVIOUS
<1> USE BidiAssumption DEF TypeOK, InboundState, OutboundState
<1>1. ASSUME NEW s \in Spans, NEW k \in Workers \cup {NoWorker}, Call(s, k)
      PROVE  TypeOK'
  BY <1>1 DEF Call
<1>2. ASSUME NEW s \in Spans, NEW k \in Workers, Receive(s, k) PROVE TypeOK'
  <2>1. /\ MaxAttempts[s] \in Nat /\ attempts[s] \in Nat /\ attempts[s] < MaxAttempts[s]
        /\ attempts' = [attempts EXCEPT ![s] = attempts[s] + 1]
    BY <1>2 DEF Receive
  <2>2. attempts[s] + 1 \in Nat /\ attempts[s] + 1 <= MaxAttempts[s]
    BY <2>1
  <2>3. attempts' \in [Spans -> Nat]
    BY <2>1, <2>2
  <2>4. \A t \in Spans : attempts'[t] <= MaxAttempts[t]
    BY <2>1, <2>2
  <2>5. /\ inbound' \in [Spans -> InboundState] /\ inWorker' \in [Spans -> Workers \cup {NoWorker}]
    BY <1>2 DEF Receive
  <2>6. /\ outbound' = outbound /\ outWorker' = outWorker /\ snapshot' = snapshot
        /\ shared_data' = shared_data /\ x_wasm' = x_wasm /\ counter' = counter
        /\ raced' = raced
    BY <1>2 DEF Receive
  <2> QED
    BY <2>3, <2>4, <2>5, <2>6
<1>3. ASSUME NEW s \in Spans, TryLost(s) PROVE TypeOK'
  BY <1>3 DEF TryLost
<1>4. ASSUME NEW s \in Spans, InboundResponse(s) PROVE TypeOK'
  <2>1. Service[s] \in Workloads /\ shared_data[Service[s]][InboundKey(s)] \in SUBSET Path
    BY KeyTypes
  <2>2. Prefixed(Service[s], shared_data[Service[s]][InboundKey(s)]) \in SUBSET Path
    BY ONLY <2>1, PrefixedType
  <2> QED
    BY <1>4, <2>2 DEF InboundResponse
<1>5. ASSUME NEW s \in Spans, OutboundGet(s) PROVE TypeOK'
  <2>1. Entry(s) \in Workloads \X Keys
    BY <1>5, KeyTypes DEF OutboundGet, Entry
  <2>2. raced' \subseteq Workloads \X Keys
    BY <1>5, <2>1 DEF OutboundGet
  <2> QED
    BY <1>5, <2>2, KeyTypes DEF OutboundGet
<1>6. ASSUME NEW s \in Spans, OutboundSet(s) PROVE TypeOK'
  <2>1. Collected(snapshot[s], x_wasm[s]) \in SUBSET Path
    BY DEF Collected
  <2>2. shared_data' \in [Workloads -> [Keys -> SUBSET Path]]
    BY <1>6, <2>1 DEF OutboundSet
  <2> QED
    BY <1>6, <2>2 DEF OutboundSet
<1>7. ASSUME NEW s \in Spans, OutboundNoHeader(s) PROVE TypeOK'
  BY <1>7 DEF OutboundNoHeader
<1>8. CASE UNCHANGED vars
  BY <1>8 DEF vars
<1> QED
  BY <1>1, <1>2, <1>3, <1>4, <1>5, <1>6, <1>7, <1>8 DEF Next

\* Every variable keeps its type, for every mesh.
THEOREM TypeCorrect == Spec => []TypeOK
  BY TypeInit, TypeStep, PTL DEF Spec

-----------------------------------------------------------------------------
\* PathsAreReal is about headers only; the inductive invariant says the same of
\* the two places a path waits in between, the shared data and the snapshot.

BelowKey(k, q) == \E c \in Spans : Parent[c] = k /\ RealPath(c, q)

SharedIsReal == \A w \in Workloads, k \in Spans : \A q \in shared_data[w][k] : BelowKey(k, q)

SnapshotIsReal == \A s \in Spans : OutboundKey(s) \in Spans =>
                                     \A q \in snapshot[s] : BelowKey(OutboundKey(s), q)

RealInv == TypeOK /\ PathsAreReal /\ SharedIsReal /\ SnapshotIsReal

\* A header is never taken away again, so a real path stays real.
LEMMA RealPathStable ==
    ASSUME \A s \in Spans : x_wasm[s] # {} => x_wasm'[s] # {}
    PROVE  /\ \A s \in Spans : \A q : RealPath(s, q) => RealPath(s, q)'
           /\ \A k, q : BelowKey(k, q) => BelowKey(k, q)'
<1>1. ASSUME NEW s \in Spans, NEW q, RealPath(s, q) PROVE RealPath(s, q)'
  <2>1. PICK chain \in [1 .. Len(q) -> Spans] :
               /\ q # << >> /\ chain[1] = s
               /\ \A i \in 1 .. Len(q) : Service[chain[i]] = q[i] /\ x_wasm[chain[i]] # {}
               /\ \A i \in 1 .. Len(q) - 1 : Parent[chain[i + 1]] = chain[i]
    BY <1>1 DEF RealPath
  <2>2. \A i \in 1 .. Len(q) : x_wasm'[chain[i]] # {}
    BY <2>1
  <2> QED
    BY <2>1, <2>2 DEF RealPath
<1> QED
  BY <1>1 DEF BelowKey

\* The path that consists of the answering workload alone.
LEMMA RealAlone ==
    ASSUME NEW s \in Spans, x_wasm'[s] # {}
    PROVE  RealPath(s, <<Service[s]>>)'
<1> DEFINE chain == [i \in 1 .. 1 |-> s]
<1>1. chain \in [1 .. Len(<<Service[s]>>) -> Spans]
  OBVIOUS
<1>2. \A i \in 1 .. Len(<<Service[s]>>) :
         Service[chain[i]] = <<Service[s]>>[i] /\ x_wasm'[chain[i]] # {}
  OBVIOUS
<1>3. \A i \in 1 .. Len(<<Service[s]>>) - 1 : Parent[chain[i + 1]] = chain[i]
  OBVIOUS
<1>4. chain[1] = s /\ <<Service[s]>> # << >>
  OBVIOUS
<1> HIDE DEF chain
<1> QED
  BY <1>1, <1>2, <1>3, <1>4 DEF RealPath

\* Prefixing the path below a child with the parent's workload.
LEMMA RealPrefixed ==
    ASSUME NEW s \in Spans, NEW q \in Path, BelowKey(s, q)', x_wasm'[s] # {}
    PROVE  RealPath(s, <<Service[s]>> \o q)'
<1>1. PICK c \in Spans : Parent[c] = s /\ RealPath(c, q)'
  BY DEF BelowKey
<1>2. PICK below \in [1 .. Len(q) -> Spans] :
             /\ q # << >> /\ below[1] = c
             /\ \A i \in 1 .. Len(q) : Service[below[i]] = q[i] /\ x_wasm'[below[i]] # {}
             /\ \A i \in 1 .. Len(q) - 1 : Parent[below[i + 1]] = below[i]
  BY <1>1 DEF RealPath
<1> DEFINE n == Len(q)
           path == <<Service[s]>> \o q
           chain == [i \in 1 .. n + 1 |-> IF i = 1 THEN s ELSE below[i - 1]]
<1>3. n \in Nat /\ n # 0
  BY <1>2 DEF Path
<1>4. Service[s] \in Workloads
  BY BidiAssumption
<1>5. Len(path) = n + 1 /\ path # << >>
  BY <1>3, <1>4 DEF Path
<1>6. \A i \in 1 .. n + 1 : path[i] = IF i = 1 THEN Service[s] ELSE q[i - 1]
  BY <1>3, <1>4 DEF Path
<1>7. chain \in [1 .. n + 1 -> Spans]
  BY <1>3
<1>8. \A i \in 1 .. n + 1 : Service[chain[i]] = path[i] /\ x_wasm'[chain[i]] # {}
  <2> TAKE i \in 1 .. n + 1
  <2>1. CASE i = 1
    BY <2>1, <1>6
  <2>2. CASE i # 1
    BY <2>2, <1>2, <1>3, <1>6
  <2> QED
    BY <2>1, <2>2
<1>9. \A i \in 1 .. n : Parent[chain[i + 1]] = chain[i]
  <2> TAKE i \in 1 .. n
  <2>1. CASE i = 1
    BY <2>1, <1>1, <1>2, <1>3
  <2>2. CASE i # 1
    BY <2>2, <1>2, <1>3
  <2> QED
    BY <2>1, <2>2
<1>10. chain[1] = s
  BY <1>3
<1> HIDE DEF chain, path, n
<1>11. \A i \in 1 .. Len(path) - 1 : Parent[chain[i + 1]] = chain[i]
  BY <1>3, <1>5, <1>9
<1>12. RealPath(s, path)'
  BY <1>5, <1>7, <1>8, <1>10, <1>11 DEF RealPath
<1> QED
  BY <1>12 DEF path

LEMMA RealInit == Init => RealInv
  BY TypeInit, BidiAssumption
  DEF Init, RealInv, PathsAreReal, SharedIsReal, SnapshotIsReal, Keys

LEMMA HeaderStays ==
    ASSUME TypeOK, [Next]_vars
    PROVE  \A s \in Spans : x_wasm[s] # {} => x_wasm'[s] # {}
<1>1. ASSUME NEW s \in Spans, InboundResponse(s)
      PROVE  \A t \in Spans : x_wasm[t] # {} => x_wasm'[t] # {}
  <2> DEFINE paths == shared_data[Service[s]][InboundKey(s)]
  <2>0. Service[s] \in Workloads /\ paths \in SUBSET Path
    BY KeyTypes, BidiAssumption DEF TypeOK
  <2>1. Prefixed(Service[s], paths) # {}
    BY <2>0, PrefixedType
  <2>2. x_wasm' = [x_wasm EXCEPT ![s] =
                     Prefixed(Service[s], shared_data[Service[s]][InboundKey(s)])]
    BY <1>1 DEF InboundResponse
  <2>3. DOMAIN x_wasm = Spans
    BY DEF TypeOK
  <2> QED
    BY <2>1, <2>2, <2>3
<1> QED
  BY <1>1 DEF Next, vars, Call, Receive, TryLost, OutboundGet, OutboundSet, OutboundNoHeader

\* What is read for a traced call is filed below it.
LEMMA HeaderIsReal ==
    ASSUME RealInv, NEW s \in Traced, InboundResponse(s), x_wasm'[s] # {},
           \A t \in Spans : x_wasm[t] # {} => x_wasm'[t] # {}
    PROVE  \A q \in x_wasm'[s] : RealPath(s, q)'
<1> DEFINE paths == shared_data[Service[s]][s]
<1>1. s \in Spans /\ Service[s] \in Workloads /\ s \in Keys
  BY BidiAssumption DEF Keys
<1>2. x_wasm'[s] = Prefixed(Service[s], paths)
  BY <1>1 DEF InboundResponse, InboundKey, RealInv, TypeOK
<1>3. \A q \in paths : q \in Path /\ BelowKey(s, q)'
  BY <1>1, RealPathStable DEF RealInv, TypeOK, SharedIsReal
<1>4. RealPath(s, <<Service[s]>>)'
  BY <1>1, RealAlone
<1>5. \A q \in paths : RealPath(s, <<Service[s]>> \o q)'
  BY <1>1, <1>3, RealPrefixed
<1>6. ASSUME NEW q \in x_wasm'[s] PROVE RealPath(s, q)'
  <2>1. q = <<Service[s]>> \/ \E p \in paths : q = <<Service[s]>> \o p
    BY <1>2, <1>6 DEF Prefixed
  <2> QED
    BY <2>1, <1>4, <1>5
<1> QED
  BY <1>6

\* A value of the shared data, or a snapshot of one, that stays as it is.
LEMMA UntouchedStaysReal ==
    ASSUME RealInv, [Next]_vars
    PROVE  /\ \A s \in Spans : \A q : RealPath(s, q) => RealPath(s, q)'
           /\ \A k, q : BelowKey(k, q) => BelowKey(k, q)'
           /\ UNCHANGED x_wasm => PathsAreReal'
           /\ UNCHANGED shared_data => SharedIsReal'
           /\ UNCHANGED snapshot => SnapshotIsReal'
<1>1. /\ \A s \in Spans : \A q : RealPath(s, q) => RealPath(s, q)'
      /\ \A k, q : BelowKey(k, q) => BelowKey(k, q)'
  BY HeaderStays, RealPathStable DEF RealInv
<1>2. UNCHANGED x_wasm => PathsAreReal'
  BY <1>1, BidiAssumption DEF RealInv, PathsAreReal
<1>3. UNCHANGED shared_data => SharedIsReal'
  BY <1>1 DEF RealInv, SharedIsReal
<1>4. UNCHANGED snapshot => SnapshotIsReal'
  BY <1>1 DEF RealInv, SnapshotIsReal
<1> QED
  BY <1>1, <1>2, <1>3, <1>4

LEMMA RealStep == RealInv /\ [Next]_vars => RealInv'
<1> SUFFICES ASSUME RealInv, [Next]_vars PROVE RealInv'
  OBVIOUS
<1>1. TypeOK'
  BY TypeStep DEF RealInv
<1>2. ASSUME NEW s \in Spans, InboundResponse(s) PROVE RealInv'
  <2>1. SharedIsReal' /\ SnapshotIsReal'
    BY <1>2, UntouchedStaysReal DEF InboundResponse
  <2>2. \A t \in Spans : x_wasm[t] # {} => x_wasm'[t] # {}
    BY HeaderStays DEF RealInv
  <2>3. ASSUME NEW t \in Traced, NEW q \in x_wasm'[t] PROVE RealPath(t, q)'
    <3>1. CASE t = s
      BY <3>1, <2>2, <2>3, <1>2, HeaderIsReal
    <3>2. CASE t # s
      <4>1. x_wasm'[t] = x_wasm[t]
        BY <3>2, <1>2, BidiAssumption DEF InboundResponse, RealInv, TypeOK
      <4> QED
        BY <4>1, <2>3, UntouchedStaysReal, BidiAssumption DEF RealInv, PathsAreReal
    <3> QED
      BY <3>1, <3>2
  <2>4. PathsAreReal'
    BY <2>3 DEF PathsAreReal
  <2> QED
    BY <1>1, <2>1, <2>4 DEF RealInv
<1>3. ASSUME NEW s \in Spans, OutboundGet(s) PROVE RealInv'
  <2>1. PathsAreReal' /\ SharedIsReal'
    BY <1>3, UntouchedStaysReal DEF OutboundGet
  <2>2. Caller[s] \in Workloads
    BY <1>3, BidiAssumption DEF OutboundGet
  <2>3. ASSUME NEW t \in Spans, OutboundKey(t) \in Spans, NEW q \in snapshot'[t]
        PROVE  BelowKey(OutboundKey(t), q)
    <3>1. CASE t = s
      BY <3>1, <2>2, <2>3, <1>3
      DEF OutboundGet, RealInv, TypeOK, SharedIsReal, OutboundKey
    <3>2. CASE t # s
      BY <3>2, <2>3, <1>3 DEF OutboundGet, RealInv, TypeOK, SnapshotIsReal
    <3> QED
      BY <3>1, <3>2
  <2>4. SnapshotIsReal'
    BY <2>3, UntouchedStaysReal DEF SnapshotIsReal, OutboundKey
  <2> QED
    BY <1>1, <2>1, <2>4 DEF RealInv
<1>4. ASSUME NEW s \in Spans, OutboundSet(s) PROVE RealInv'
  <2>1. PathsAreReal'
    BY <1>4, UntouchedStaysReal DEF OutboundSet
  <2>2. SnapshotIsReal'
    <3>1. ASSUME NEW t \in Spans, NEW q \in snapshot'[t] PROVE q \in snapshot[t]
      BY <3>1, <1>4 DEF OutboundSet, RealInv, TypeOK
    <3> QED
      BY <3>1, UntouchedStaysReal DEF RealInv, SnapshotIsReal
  <2>3. ASSUME NEW w \in Workloads, NEW k \in Spans, NEW q \in shared_data'[w][k]
        PROVE  BelowKey(k, q)
    <3>1. CASE q \in shared_data[w][k]
      BY <3>1 DEF RealInv, SharedIsReal
    <3>2. CASE q \notin shared_data[w][k]
      <4>1. k = OutboundKey(s) /\ q \in snapshot[s] \cup x_wasm[s]
        BY <3>2, <2>3, <1>4, KeyTypes DEF OutboundSet, Collected, RealInv, TypeOK, Keys
      <4>2. s \in Traced /\ Parent[s] = k
        BY <4>1, BidiAssumption DEF OutboundKey
      <4> QED
        BY <4>1, <4>2 DEF RealInv, SnapshotIsReal, PathsAreReal, BelowKey
    <3> QED
      BY <3>1, <3>2
  <2>4. SharedIsReal'
    BY <2>3, UntouchedStaysReal DEF SharedIsReal
  <2> QED
    BY <1>1, <2>1, <2>2, <2>4 DEF RealInv
<1>5. CASE UNCHANGED <<x_wasm, shared_data, snapshot>>
  BY <1>1, <1>5, UntouchedStaysReal DEF RealInv
<1> QED
  BY <1>2, <1>3, <1>4, <1>5 DEF Next, vars, Call, Receive, TryLost, OutboundNoHeader

LEMMA RealInvariant == Spec => []RealInv
  BY RealInit, RealStep, PTL DEF Spec

\* Whatever happens at the same time, fails, is retried or carries no b3 headers:
\* every path in the header of a traced call is a chain of calls made below it.
THEOREM HeadersAreReal == Spec => []PathsAreReal
  BY RealInvariant, PTL DEF RealInv

\* The counter goes up by one, for an answer of productpage whose required paths
\* are real if the request is traced.
THEOREM CountsAreReal == Spec => CountsRealRequests
<1> DEFINE Counted(s) == /\ Service[s] = Productpage
                         /\ inbound[s] = "open" /\ inbound'[s] = "answered"
                         /\ s \in Traced => \A q \in RequiredPaths : RealPath(s, q)'
           Real == counter' # counter =>
                     counter' = counter + 1 /\ \E s \in Spans : Counted(s)
<1>1. RealInv /\ RealInv' /\ [Next]_vars => Real
  <2> SUFFICES ASSUME RealInv, RealInv', [Next]_vars PROVE Real
    OBVIOUS
  <2>1. ASSUME NEW s \in Spans, InboundResponse(s) PROVE Real
    <3>1. CASE counter' # counter
      <4>1. /\ Matches(Service[s], x_wasm'[s])
            /\ counter' = counter + 1
            /\ inbound[s] = "open" /\ inbound'[s] = "answered"
        BY <2>1, <3>1 DEF InboundResponse, RealInv, TypeOK
      <4>2. s \in Traced => \A q \in RequiredPaths : RealPath(s, q)'
        BY <4>1 DEF Matches, RealInv, PathsAreReal
      <4> QED
        BY <4>1, <4>2 DEF Matches
    <3> QED
      BY <3>1
  <2>2. CASE UNCHANGED counter
    BY <2>2
  <2> QED
    BY <2>1, <2>2
    DEF Next, vars, Call, Receive, TryLost, OutboundGet, OutboundSet, OutboundNoHeader
<1>2. RealInv /\ RealInv' /\ [Next]_vars => [Real]_vars
  BY <1>1
<1> QED
  BY <1>2, RealInvariant, PTL DEF Spec, CountsRealRequests

-----------------------------------------------------------------------------
\* Why nothing is lost from an entry that was not raced for: at most one outbound
\* response for it is between its get and its set, so what that one got is still
\* what is there; and the header it files does not change any more, its call
\* being answered and over.
Exclusive ==
    \A s, t \in Spans : /\ outbound[s] = "collecting" /\ outbound[t] = "collecting"
                        /\ Entry(s) = Entry(t) /\ Entry(s) \notin raced
                        => s = t

SnapshotIsCurrent ==
    \A s \in Spans : outbound[s] = "collecting" /\ Entry(s) \notin raced =>
                       snapshot[s] = shared_data[Caller[s]][OutboundKey(s)]

Answered == \A s \in Spans : outbound[s] \in {"collecting", "collected"} =>
                                inbound[s] = "answered" /\ Caller[s] \in Workloads

LossInv == TypeOK /\ NothingLost /\ Exclusive /\ SnapshotIsCurrent /\ Answered

LEMMA LossInit == Init => LossInv
  BY TypeInit, BidiAssumption
  DEF Init, LossInv, NothingLost, Exclusive, SnapshotIsCurrent, Answered, Entry

LEMMA EntryTypes == \A s \in Spans : Entry(s) = <<Caller[s], OutboundKey(s)>> /\ Entry(s)' = Entry(s)
  BY DEF Entry, OutboundKey

LEMMA LossStep == LossInv /\ [Next]_vars => LossInv'
<1> SUFFICES ASSUME LossInv, [Next]_vars PROVE LossInv'
  OBVIOUS
<1> USE BidiAssumption
<1>1. TypeOK'
  BY TypeStep DEF LossInv
<1>2. ASSUME NEW s \in Spans, NEW k \in Workers \cup {NoWorker}, Call(s, k)
      PROVE  LossInv'
  BY <1>1, <1>2
  DEF Call, LossInv, TypeOK, NothingLost, Exclusive, SnapshotIsCurrent, Answered,
      Entry, OutboundKey
<1>3. ASSUME NEW s \in Spans, NEW k \in Workers, Receive(s, k) PROVE LossInv'
  BY <1>1, <1>3
  DEF Receive, LossInv, TypeOK, NothingLost, Exclusive, SnapshotIsCurrent, Answered,
      Entry, OutboundKey
<1>4. ASSUME NEW s \in Spans, TryLost(s) PROVE LossInv'
  BY <1>1, <1>4
  DEF TryLost, LossInv, TypeOK, NothingLost, Exclusive, SnapshotIsCurrent, Answered,
      Entry, OutboundKey
<1>5. ASSUME NEW s \in Spans, InboundResponse(s) PROVE LossInv'
  <2>1. \A t \in Spans : outbound[t] = "collected" => x_wasm'[t] = x_wasm[t]
    BY <1>5 DEF InboundResponse, LossInv, TypeOK, Answered
  <2>2. NothingLost'
    BY <1>5, <2>1 DEF InboundResponse, LossInv, NothingLost, OutboundKey
  <2> QED
    BY <1>1, <1>5, <2>2
    DEF InboundResponse, LossInv, TypeOK, Exclusive, SnapshotIsCurrent, Answered,
      Entry, OutboundKey
<1>6. ASSUME NEW s \in Spans, OutboundGet(s) PROVE LossInv'
  <2>1. /\ raced \subseteq raced'
        /\ \A t \in Spans : outbound[t] = "collecting" /\ Entry(t) = Entry(s) => Entry(s) \in raced'
    BY <1>6 DEF OutboundGet
  <2>2. \A t \in Spans : t # s => outbound'[t] = outbound[t] /\ snapshot'[t] = snapshot[t]
    BY <1>6 DEF OutboundGet, LossInv, TypeOK
  <2>3. /\ outbound'[s] = "collecting" /\ inbound[s] = "answered" /\ Caller[s] \in Workloads
        /\ snapshot'[s] = shared_data[Caller[s]][OutboundKey(s)]
    BY <1>6, BidiAssumption DEF OutboundGet, LossInv, TypeOK
  <2>4. UNCHANGED <<inbound, x_wasm, shared_data>>
    BY <1>6 DEF OutboundGet
  <2>5. NothingLost'
    BY <2>1, <2>2, <2>3, <2>4 DEF LossInv, NothingLost, Entry, OutboundKey
  <2>6. Exclusive'
    BY <2>1, <2>2, <2>3, EntryTypes DEF LossInv, Exclusive
  <2>7. SnapshotIsCurrent'
    BY <2>1, <2>2, <2>3, <2>4 DEF LossInv, SnapshotIsCurrent, Entry, OutboundKey
  <2>8. Answered'
    BY <2>2, <2>3, <2>4 DEF LossInv, Answered
  <2> QED
    BY <1>1, <2>5, <2>6, <2>7, <2>8 DEF LossInv
<1>7. ASSUME NEW s \in Spans, OutboundSet(s) PROVE LossInv'
  <2> DEFINE w == Caller[s]
             k == OutboundKey(s)
  <2>1. w \in Workloads /\ k \in Keys /\ outbound[s] = "collecting"
    BY <1>7, KeyTypes DEF OutboundSet, LossInv, Answered
  <2>2. /\ x_wasm[s] \subseteq shared_data'[w][k]
        /\ Entry(s) \notin raced => shared_data[w][k] \subseteq shared_data'[w][k]
    BY <1>7, <2>1 DEF OutboundSet, Collected, LossInv, TypeOK, SnapshotIsCurrent
  <2>3. \A v \in Workloads, j \in Keys :
           v # w \/ j # k => shared_data'[v][j] = shared_data[v][j]
    BY <1>7, <2>1 DEF OutboundSet, LossInv, TypeOK
  <2>4. \A t \in Spans : t # s => outbound'[t] = outbound[t] /\ snapshot'[t] = snapshot[t]
    BY <1>7 DEF OutboundSet, LossInv, TypeOK
  <2>5. outbound'[s] = "collected"
    BY <1>7 DEF OutboundSet, LossInv, TypeOK
  <2>6. UNCHANGED <<inbound, x_wasm, raced>>
    BY <1>7 DEF OutboundSet
  <2>7. \A t \in Spans : OutboundKey(t) \in Keys /\ OutboundKey(t)' = OutboundKey(t)
    BY KeyTypes DEF OutboundKey
  <2>8. NothingLost'
    <3>1. ASSUME NEW t \in Spans, outbound'[t] = "collected", Entry(t) \notin raced
          PROVE  x_wasm[t] \subseteq shared_data'[Caller[t]][OutboundKey(t)]
      <4>1. CASE t = s
        BY <4>1, <2>2
      <4>2. CASE t # s
        <5>1. /\ Caller[t] \in Workloads
              /\ x_wasm[t] \subseteq shared_data[Caller[t]][OutboundKey(t)]
          BY <4>2, <3>1, <2>4 DEF LossInv, NothingLost, Answered
        <5>2. CASE Entry(t) = Entry(s)
          <6>1. Caller[t] = w /\ OutboundKey(t) = k
            BY <5>2 DEF Entry
          <6>2. Entry(s) \notin raced
            BY <5>2, <3>1
          <6> QED
            BY <6>1, <6>2, <5>1, <2>2
        <5>3. CASE Entry(t) # Entry(s)
          BY <5>1, <5>3, <2>3, <2>7, EntryTypes
        <5> QED
          BY <5>2, <5>3
      <4> QED
        BY <4>1, <4>2
    <3> QED
      BY <3>1, <2>6, <2>7, EntryTypes DEF NothingLost
  <2>9. SnapshotIsCurrent'
    <3>1. ASSUME NEW t \in Spans, outbound'[t] = "collecting", Entry(t) \notin raced
          PROVE  snapshot'[t] = shared_data'[Caller[t]][OutboundKey(t)]
      <4>1. t # s /\ outbound[t] = "collecting"
        BY <3>1, <2>4, <2>5
      <4>2. Caller[t] \in Workloads /\ Entry(t) # Entry(s)
        BY <4>1, <3>1, <2>1 DEF LossInv, Exclusive, Answered
      <4> QED
        BY <3>1, <4>1, <4>2, <2>3, <2>4, <2>7, EntryTypes DEF LossInv, SnapshotIsCurrent
    <3> QED
      BY <3>1, <2>6, <2>7, EntryTypes DEF SnapshotIsCurrent
  <2>10. Exclusive' /\ Answered'
    BY <2>1, <2>4, <2>5, <2>6, EntryTypes DEF LossInv, Exclusive, Answered
  <2> QED
    BY <1>1, <2>8, <2>9, <2>10 DEF LossInv
<1>8. ASSUME NEW s \in Spans, OutboundNoHeader(s) PROVE LossInv'
  BY <1>1, <1>8
  DEF OutboundNoHeader, LossInv, TypeOK, NothingLost, Exclusive, SnapshotIsCurrent, Answered,
      Entry, OutboundKey
<1>9. CASE UNCHANGED vars
  BY <1>9
  DEF vars, LossInv, TypeOK, NothingLost, Exclusive, SnapshotIsCurrent, Answered,
      Entry, OutboundKey
<1> QED
  BY <1>2, <1>3, <1>4, <1>5, <1>6, <1>7, <1>8, <1>9 DEF Next

LEMMA LossInvariant == Spec => []LossInv
  BY LossInit, LossStep, PTL DEF Spec

\* Whatever is collected into an entry of shared data that no two workers had
\* between get and set stays there (filter.cc:213-226).
THEOREM NothingIsLost == Spec => []NothingLost
  BY LossInvariant, PTL DEF LossInv

LEMMA LedgerInit == Init => Ledger!Init
  BY DEF Init, Ledger!Init, Keys

\* InboundResponse is the ledger's Answer, OutboundSet its Collect, the rest stutters.
LEMMA LedgerStep ==
    LossInv /\ [Next]_vars => [raced' # {} \/ Ledger!Next]_<<shared_data, x_wasm>>
<1> SUFFICES ASSUME LossInv, [Next]_vars, raced' = {}
             PROVE  [Ledger!Next]_<<shared_data, x_wasm>>
  OBVIOUS
<1>1. ASSUME NEW s \in Spans, InboundResponse(s) PROVE Ledger!Next
  <2>1. x_wasm' = [x_wasm EXCEPT ![s] =
                     Ledger!Prefixed(Service[s], shared_data[Service[s]][InboundKey(s)])]
    BY <1>1 DEF InboundResponse, Prefixed, Ledger!Prefixed
  <2>2. UNCHANGED shared_data
    BY <1>1 DEF InboundResponse
  <2>3. [t \in Spans |-> InboundKey(t)][s] = InboundKey(s)
    OBVIOUS
  <2>4. Ledger!Answer(s)
    BY <2>1, <2>2, <2>3 DEF Ledger!Answer
  <2> QED
    BY <2>4 DEF Ledger!Next
<1>2. ASSUME NEW s \in Spans, OutboundSet(s) PROVE Ledger!Next
  <2>1. /\ Caller[s] \in Workloads /\ OutboundKey(s) \in Keys
        /\ snapshot[s] = shared_data[Caller[s]][OutboundKey(s)]
    BY <1>2, KeyTypes DEF OutboundSet, LossInv, Answered, SnapshotIsCurrent, Entry
  <2>2. shared_data' = [shared_data EXCEPT ![Caller[s]][OutboundKey(s)] = @ \cup x_wasm[s]]
    BY <1>2, <2>1 DEF OutboundSet, Collected, LossInv, TypeOK
  <2>3. UNCHANGED x_wasm
    BY <1>2 DEF OutboundSet
  <2>4. [t \in Spans |-> OutboundKey(t)][s] = OutboundKey(s)
    OBVIOUS
  <2>5. Ledger!Collect(s)
    BY <2>1, <2>2, <2>3, <2>4 DEF Ledger!Collect
  <2> QED
    BY <2>5 DEF Ledger!Next
<1>3. CASE UNCHANGED <<shared_data, x_wasm>>
  BY <1>3
<1> QED
  BY <1>1, <1>2, <1>3
  DEF Next, vars, Call, Receive, TryLost, OutboundGet, OutboundNoHeader

\* Until two workers race for an entry, the get and the set of an outbound response
\* act as one step: the filter implements PathLedger.
THEOREM ImplementsLedger == Spec => KeepsLedger
  BY LedgerInit, LedgerStep, LossInvariant, PTL DEF Spec, KeepsLedger

\* A proxy that runs all its streams on one thread: a second outbound response
\* cannot be handled while another one is between its get and its set.
SingleWorker == \A v, w \in Workers : v = w

Undisturbed ==
    /\ raced = {}
    /\ \A s \in Spans : outbound[s] \in {"open", "collecting"} /\ Caller[s] # Outside =>
                          outWorker[s] \in Workers

LEMMA SingleWorkerUndisturbed == ASSUME SingleWorker PROVE Spec => []Undisturbed
<1>1. Init => Undisturbed
  BY DEF Init, Undisturbed
<1>2. TypeOK /\ Undisturbed /\ [Next]_vars => Undisturbed'
  <2> SUFFICES ASSUME TypeOK, Undisturbed, [Next]_vars PROVE Undisturbed'
    OBVIOUS
  <2>1. ASSUME NEW s \in Spans, NEW k \in Workers \cup {NoWorker}, Call(s, k)
        PROVE  Undisturbed'
    BY <2>1 DEF Call, Undisturbed, TypeOK
  <2>2. ASSUME NEW s \in Spans, OutboundGet(s) PROVE Undisturbed'
    <3>1. \A t \in Spans : outbound[t] = "collecting" => Caller[t] # Caller[s]
      BY <2>2 DEF OutboundGet, Free, SingleWorker, Undisturbed
    <3>2. raced' = {}
      BY <2>2, <3>1 DEF OutboundGet, Undisturbed, Entry
    <3> QED
      BY <2>2, <3>2 DEF OutboundGet, Undisturbed, TypeOK
  <2>3. ASSUME NEW s \in Spans, OutboundSet(s) PROVE Undisturbed'
    BY <2>3 DEF OutboundSet, Undisturbed, TypeOK
  <2>4. ASSUME NEW s \in Spans, OutboundNoHeader(s) PROVE Undisturbed'
    BY <2>4 DEF OutboundNoHeader, Undisturbed, TypeOK
  <2>5. CASE UNCHANGED <<outbound, outWorker, raced>>
    BY <2>5 DEF Undisturbed
  <2> QED
    BY <2>1, <2>2, <2>3, <2>4, <2>5 DEF Next, vars, Receive, TryLost, InboundResponse
<1> QED
  BY <1>1, <1>2, TypeCorrect, PTL DEF Spec

\* On proxies with one worker thread no collected path is ever lost, which is what
\* the comment at filter.cc:213-214 says of every proxy.
THEOREM SingleWorkerLosesNothing == ASSUME SingleWorker PROVE Spec => []CollectedStays
<1>1. Undisturbed /\ NothingLost => CollectedStays
  BY DEF Undisturbed, NothingLost, CollectedStays
<1> QED
  BY <1>1, NothingIsLost, SingleWorkerUndisturbed, PTL

-----------------------------------------------------------------------------
\* What an answer of productpage reports.  The header of an answered call is never
\* empty, so an entry that something was collected into has a value.
Filed == /\ \A s \in Spans : inbound[s] = "answered" => x_wasm[s] # {}
         /\ \A s \in Spans : outbound[s] = "collected" =>
                                shared_data[Caller[s]][OutboundKey(s)] # {}

CallersAgree == \A c \in Spans, s \in Spans : OutboundKey(c) = s => Caller[c] = Service[s]

LEMMA CallerServesParent == CallersAgree
  BY BidiAssumption DEF CallersAgree, OutboundKey

LEMMA FiledInvariant == Spec => []Filed
<1>1. Init => Filed
  BY DEF Init, Filed
<1>2. LossInv /\ LossInv' /\ Filed /\ [Next]_vars => Filed'
  <2> SUFFICES ASSUME LossInv, LossInv', Filed, [Next]_vars PROVE Filed'
    OBVIOUS
  <2> USE DEF LossInv
  <2>1. ASSUME NEW s \in Spans, InboundResponse(s) PROVE Filed'
    <3>1. Service[s] \in Workloads /\ shared_data[Service[s]][InboundKey(s)] \in SUBSET Path
      BY KeyTypes, BidiAssumption DEF TypeOK
    <3>2. x_wasm'[s] # {}
      BY <2>1, <3>1, PrefixedType DEF InboundResponse, TypeOK
    <3> QED
      BY <2>1, <3>2 DEF InboundResponse, Filed, TypeOK, OutboundKey
  <2>2. ASSUME NEW s \in Spans, OutboundSet(s) PROVE Filed'
    <3> DEFINE w == Caller[s]
               k == OutboundKey(s)
    <3>1. /\ w \in Workloads /\ k \in Keys /\ x_wasm[s] # {}
      BY <2>2, KeyTypes DEF OutboundSet, Answered, Filed
    <3>2. shared_data' = [shared_data EXCEPT ![w][k] = snapshot[s] \cup x_wasm[s]]
      BY <2>2 DEF OutboundSet, Collected
    <3>3. shared_data'[w][k] # {}
      BY <3>1, <3>2 DEF TypeOK
    <3>4. ASSUME NEW t \in Spans, outbound'[t] = "collected"
          PROVE  shared_data'[Caller[t]][OutboundKey(t)] # {}
      <4>1. CASE Caller[t] = w /\ OutboundKey(t) = k
        BY <4>1, <3>3
      <4>2. CASE ~ (Caller[t] = w /\ OutboundKey(t) = k)
        <5>1. outbound[t] = "collected" /\ Caller[t] \in Workloads /\ OutboundKey(t) \in Keys
          BY <4>2, <3>4, <2>2, KeyTypes DEF OutboundSet, TypeOK, Answered
        <5>2. shared_data'[Caller[t]][OutboundKey(t)] = shared_data[Caller[t]][OutboundKey(t)]
          BY <5>1, <4>2, <3>1, <3>2 DEF TypeOK
        <5> QED
          BY <5>1, <5>2 DEF Filed
      <4> QED
        BY <4>1, <4>2
    <3> QED
      BY <2>2, <3>4 DEF OutboundSet, Filed, OutboundKey
  <2>3. ASSUME NEW s \in Spans, NEW k \in Workers \cup {NoWorker}, Call(s, k) PROVE Filed'
    BY <2>3 DEF Call, Filed, TypeOK, OutboundKey
  <2>4. ASSUME NEW s \in Spans, NEW k \in Workers, Receive(s, k) PROVE Filed'
    BY <2>4 DEF Receive, Filed, TypeOK, OutboundKey
  <2>5. ASSUME NEW s \in Spans, TryLost(s) PROVE Filed'
    BY <2>5 DEF TryLost, Filed, TypeOK, OutboundKey
  <2>6. ASSUME NEW s \in Spans, OutboundGet(s) PROVE Filed'
    BY <2>6 DEF OutboundGet, Filed, TypeOK, OutboundKey
  <2>7. ASSUME NEW s \in Spans, OutboundNoHeader(s) PROVE Filed'
    BY <2>7 DEF OutboundNoHeader, Filed, TypeOK, OutboundKey
  <2>8. CASE UNCHANGED vars
    BY <2>8 DEF vars, Filed, OutboundKey
  <2> QED
    BY <2>1, <2>2, <2>3, <2>4, <2>5, <2>6, <2>7, <2>8 DEF Next
<1> QED
  BY <1>1, <1>2, LossInvariant, PTL DEF Spec

\* An answer of productpage below which all required paths were collected is
\* counted, if the entry of its span was not raced for (filter.cc:184-197).
THEOREM EveryMatchCounts == Spec => CountsEveryMatch
<1> DEFINE Met(s) == /\ Service[s] = Productpage
                     /\ inbound[s] = "open" /\ inbound'[s] = "answered"
                     /\ RequiredPaths # {} /\ <<Productpage, s>> \notin raced
                     /\ \A q \in RequiredPaths :
                          \E c \in Spans : /\ OutboundKey(c) = s /\ outbound[c] = "collected"
                                           /\ \E r \in x_wasm[c] : q = <<Productpage>> \o r
           Counts == \A s \in Traced : Met(s) => counter' = counter + 1
<1>1. LossInv /\ [Next]_vars => Counts
  <2> SUFFICES ASSUME LossInv, [Next]_vars, NEW s \in Traced, Met(s) PROVE counter' = counter + 1
    OBVIOUS
  <2>1. s \in Spans
    BY BidiAssumption
  <2>2. InboundResponse(s)
    <3>1. inbound[s] # inbound'[s]
      OBVIOUS
    <3>2. PICK t \in Spans : InboundResponse(t)
      BY <2>1, <3>1
      DEF Next, vars, Call, Receive, TryLost, OutboundGet, OutboundSet, OutboundNoHeader,
          LossInv, TypeOK
    <3> QED
      BY <2>1, <3>1, <3>2 DEF InboundResponse, LossInv, TypeOK
  <2> DEFINE paths == shared_data[Productpage][s]
  <2>3. \A q \in RequiredPaths : \E r \in paths : q = <<Productpage>> \o r
    <3> TAKE q \in RequiredPaths
    <3>1. PICK c \in Spans : /\ OutboundKey(c) = s /\ outbound[c] = "collected"
                             /\ \E r \in x_wasm[c] : q = <<Productpage>> \o r
      OBVIOUS
    <3>2. Caller[c] = Productpage
      BY <3>1, <2>1, CallerServesParent DEF CallersAgree
    <3>3. x_wasm[c] \subseteq paths
      BY <3>1, <3>2 DEF LossInv, NothingLost, Entry
    <3> QED
      BY <3>1, <3>3
  <2>4. paths # {}
    BY <2>3
  <2>5. InboundKey(s) = s
    BY DEF InboundKey
  <2>6. RequiredPaths \subseteq Prefixed(Productpage, paths)
    BY <2>3, <2>4 DEF Prefixed
  <2> QED
    BY <2>2, <2>4, <2>5, <2>6 DEF InboundResponse, Matches
<1>2. LossInv /\ [Next]_vars => [Counts]_vars
  BY <1>1
<1> QED
  BY <1>2, LossInvariant, PTL DEF Spec, CountsEveryMatch

\* Once an answer was collected for a span, an answer of that span does not stop
\* at the workload's own name (filter.cc:199-211), races or not.
THEOREM AnswersAreNeverBare == Spec => NeverBare
<1> DEFINE Met(s) == /\ inbound[s] = "open" /\ inbound'[s] = "answered"
                     /\ \E c \in Spans : OutboundKey(c) = s /\ outbound[c] = "collected"
           Bare == \E s \in Traced : Met(s) /\ <<Service[s]>> \in x_wasm'[s]
<1>1. RealInv /\ LossInv /\ Filed /\ [Next]_vars => ~ Bare
  <2> SUFFICES ASSUME RealInv, LossInv, Filed, [Next]_vars, NEW s \in Traced, Met(s),
                      <<Service[s]>> \in x_wasm'[s]
               PROVE  FALSE
    OBVIOUS
  <2>1. s \in Spans /\ Service[s] \in Workloads /\ InboundKey(s) = s
    BY BidiAssumption DEF InboundKey
  <2>2. InboundResponse(s)
    <3>1. PICK t \in Spans : InboundResponse(t)
      BY <2>1
      DEF Next, vars, Call, Receive, TryLost, OutboundGet, OutboundSet, OutboundNoHeader,
          LossInv, TypeOK
    <3> QED
      BY <2>1, <3>1 DEF InboundResponse, LossInv, TypeOK
  <2> DEFINE paths == shared_data[Service[s]][s]
  <2>3. paths # {}
    BY <2>1, CallerServesParent DEF CallersAgree, Filed
  <2>4. x_wasm'[s] = Prefixed(Service[s], paths)
    BY <2>1, <2>2 DEF InboundResponse, LossInv, TypeOK
  <2>5. PICK p \in paths : <<Service[s]>> = <<Service[s]>> \o p
    BY <2>3, <2>4 DEF Prefixed
  <2>6. p \in Seq(Workloads)
    BY <2>1 DEF LossInv, TypeOK, Path, Keys
  <2>7. p # << >>
    BY <2>1 DEF RealInv, SharedIsReal, BelowKey, RealPath
  <2> QED
    BY <2>1, <2>5, <2>6, <2>7
<1>2. RealInv /\ LossInv /\ Filed /\ [Next]_vars =>
        [\A s \in Traced : Met(s) => <<Service[s]>> \notin x_wasm'[s]]_vars
  BY <1>1
<1> QED
  BY <1>2, RealInvariant, LossInvariant, FiledInvariant, PTL DEF Spec, NeverBare

-----------------------------------------------------------------------------
\* Every step of StoreFilter is one of Bidi or leaves the tracing alone.
LEMMA StoreStepTraces == [StoreNext]_storeVars => [Next]_vars
<1> SUFFICES ASSUME [StoreNext]_storeVars PROVE [Next]_vars
  OBVIOUS
<1>1. ASSUME NEW s \in Spans, OnRequestHeaders(s) PROVE Next
  BY <1>1 DEF OnRequestHeaders, Next
<1>2. ASSUME NEW s \in Spans, StoreResponse(s) PROVE Next
  BY <1>2 DEF StoreResponse, Next
<1>3. ASSUME NEW s \in Spans, OutboundResponse(s) PROVE Next
  BY <1>3 DEF OutboundResponse, Next
<1>4. ASSUME NEW s \in Spans, StoreTryLost(s) PROVE Next
  BY <1>4 DEF StoreTryLost, Next
<1>5. ASSUME NEW s \in Spans, CallHandled(s) \/ CallLost(s) PROVE UNCHANGED vars
  BY <1>5 DEF CallHandled, CallLost
<1> QED
  BY <1>1, <1>2, <1>3, <1>4, <1>5 DEF StoreNext, storeVars

\* store/filter.cc traces calls as bidi/filter.cc does, whatever becomes of the calls
\* to the storage service.
THEOREM StoreTraces == StoreSpec => Spec
<1>1. StoreInit => Init
  BY DEF StoreInit
<1> QED
  BY <1>1, StoreStepTraces, PTL DEF StoreSpec, Spec

\* What the calls under way and the stored traces rest on.
Matched(s) == /\ s \in Traced /\ Service[s] = Productpage
              /\ \A q \in RequiredPaths : RealPath(s, q)

StoreInv == /\ RealInv
            /\ pending \subseteq Spans
            /\ \A s \in pending : s \in Traced => Matched(s)
            /\ \A t \in stored : \E s \in Spans : TraceOf[s] = t /\ Matched(s)

\* A match stays one: a path that is real stays real.
LEMMA MatchedStays ==
    ASSUME StoreInv, [StoreNext]_storeVars
    PROVE  RealInv' /\ \A s \in Spans : Matched(s) => Matched(s)'
<1>1. [Next]_vars
  BY StoreStepTraces
<1>2. RealInv'
  BY <1>1, RealStep DEF StoreInv
<1>3. \A s \in Spans : \A q : RealPath(s, q) => RealPath(s, q)'
  BY <1>1, UntouchedStaysReal DEF StoreInv
<1> QED
  BY <1>2, <1>3 DEF Matched

LEMMA StoreStep == StoreInv /\ [StoreNext]_storeVars => StoreInv'
<1> SUFFICES ASSUME StoreInv, [StoreNext]_storeVars PROVE StoreInv'
  OBVIOUS
<1> USE MatchedStays
<1>1. ASSUME NEW s \in Spans, StoreResponse(s) PROVE StoreInv'
  <2>1. ASSUME counter' # counter, s \in Traced PROVE Matched(s)'
    <3>1. Service[s] = Productpage /\ RequiredPaths \subseteq x_wasm'[s]
      BY <1>1, <2>1 DEF StoreResponse, InboundResponse, Matches, StoreInv, RealInv, TypeOK
    <3>2. \A q \in x_wasm'[s] : RealPath(s, q)'
      BY <2>1 DEF RealInv, PathsAreReal
    <3> QED
      BY <2>1, <3>1, <3>2 DEF Matched
  <2>2. /\ pending' \subseteq pending \cup {s}
        /\ s \in pending' => s \in pending \/ counter' # counter
        /\ stored' = stored
    BY <1>1 DEF StoreResponse
  <2> QED
    BY <2>1, <2>2 DEF StoreInv
<1>2. ASSUME NEW s \in Spans, CallHandled(s) PROVE StoreInv'
  <2>1. ASSUME NEW t \in stored', t \notin stored
        PROVE  TraceOf[s] = t /\ Matched(s)
    BY <1>2, <2>1 DEF CallHandled, Key, StoreInv
  <2>2. pending' \subseteq pending
    BY <1>2 DEF CallHandled
  <2> QED
    BY <2>1, <2>2 DEF StoreInv
<1>3. ASSUME NEW s \in Spans, CallLost(s) PROVE StoreInv'
  BY <1>3 DEF CallLost, StoreInv
<1>4. CASE UNCHANGED <<pending, stored>>
  BY <1>4 DEF StoreInv
<1> QED
  BY <1>1, <1>2, <1>3, <1>4
     DEF StoreNext, storeVars, OnRequestHeaders, OutboundResponse, StoreTryLost

LEMMA StoreInvariant == StoreSpec => []StoreInv
<1>1. StoreInit => StoreInv
  BY RealInit DEF StoreInit, StoreInv
<1> QED
  BY <1>1, StoreStep, PTL DEF StoreSpec

\* Every variable keeps its type; what is stored is a trace, never the empty key.
THEOREM StoreTypeCorrect == StoreSpec => []StoreTypeOK
<1>1. StoreInv => StoreTypeOK
  BY DEF StoreInv, StoreTypeOK, RealInv
<1> QED
  BY <1>1, StoreInvariant, PTL

\* Only a trace that really made all required calls is stored
\* (store/filter.cc:189-205).
THEOREM StoredAreReal == StoreSpec => []StoredIsReal
<1>1. StoreInv => StoredIsReal
  BY DEF StoreInv, Matched, StoredIsReal
<1> QED
  BY <1>1, StoreInvariant, PTL

\* The headers of traced calls list real paths only, beside requests without b3
\* headers and the calls to the storage service (store/filter.cc:165-237).
THEOREM StoreHeadersAreReal == StoreSpec => []PathsAreReal
  BY StoreTraces, HeadersAreReal, PTL

\* What is collected into an entry that no two workers raced for stays there, also
\* in store/filter.cc, whose handlers get and set the shared data as bidi's do
\* (store/filter.cc:226-237).
THEOREM StoreLosesNothing == StoreSpec => []NothingLost
  BY StoreTraces, NothingIsLost, PTL

\* A call is made for every answer of productpage below which all required paths were
\* collected, if the entry of its span was not raced for (store/filter.cc:182-204).
THEOREM EveryMatchIsSent == StoreSpec => CountsEveryMatch
  BY StoreTraces, EveryMatchCounts, PTL
=============================================================================
