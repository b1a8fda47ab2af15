------------------------- MODULE MetricsStoreProofs -------------------------
(***************************************************************************)
(* Proofs about MetricsStore for every set of connections: types; that     *)
(* nothing is stored twice or made up; that the queue is what waits, in    *)
(* order; and that until a call outlives the tick that follows it records  *)
(* are stored in order, and stay unless the service restarts.  At the end: *)
(* the queue moves up, and a record taken from it is settled.              *)
(***************************************************************************)
EXTENDS MetricsStore, TLAPS

\* What Append does to the range and the injectivity of a sequence.
LEMMA AppendFacts ==
    ASSUME NEW S, NEW s \in Seq(S), NEW x \in S
    PROVE  /\ Append(s, x) \in Seq(S)
           /\ Range(Append(s, x)) = Range(s) \cup {x}
           /\ IsInjective(s) /\ x \notin Range(s) => IsInjective(Append(s, x))
<1> DEFINE t == Append(s, x)
           n == Len(s)
<1>1. n \in Nat /\ t \in Seq(S) /\ DOMAIN s = 1 .. n /\ DOMAIN t = 1 .. n + 1
  OBVIOUS
<1>2. t[n + 1] = x /\ \A i \in 1 .. n : t[i] = s[i]
  OBVIOUS
<1>3. Range(t) = Range(s) \cup {x}
  BY <1>1, <1>2 DEF Range
<1>4. ASSUME IsInjective(s), x \notin Range(s) PROVE IsInjective(t)
  <2>1. \A i \in 1 .. n : s[i] # x
    BY <1>1, <1>4 DEF Range
  <2>2. \A i, j \in 1 .. n : s[i] = s[j] => i = j
    BY <1>1, <1>4 DEF IsInjective
  <2>3. ASSUME NEW i \in 1 .. n + 1, NEW j \in 1 .. n + 1, t[i] = t[j] PROVE i = j
    BY <2>1, <2>2, <2>3, <1>1, <1>2
  <2> QED
    BY <2>3, <1>1 DEF IsInjective
<1> QED
  BY <1>1, <1>3, <1>4

\* What Tail does.
LEMMA TailFacts ==
    ASSUME NEW S, NEW s \in Seq(S), s # << >>
    PROVE  /\ Tail(s) \in Seq(S) /\ Head(s) \in Range(s) /\ Head(s) \in S
           /\ IsInjective(s) => /\ IsInjective(Tail(s))
                                /\ Range(Tail(s)) = Range(s) \ {Head(s)}
<1> DEFINE t == Tail(s)
           n == Len(s)
<1>1. n \in Nat \ {0} /\ t \in Seq(S) /\ DOMAIN s = 1 .. n /\ DOMAIN t = 1 .. n - 1
  OBVIOUS
<1>2. Head(s) = s[1] /\ \A i \in 1 .. n - 1 : t[i] = s[i + 1]
  OBVIOUS
<1>3. Head(s) \in Range(s) /\ Head(s) \in S
  BY <1>1, <1>2 DEF Range
<1>4. ASSUME IsInjective(s) PROVE IsInjective(t) /\ Range(t) = Range(s) \ {Head(s)}
  <2>1. \A i, j \in 1 .. n : s[i] = s[j] => i = j
    BY <1>1, <1>4 DEF IsInjective
  <2>2. ASSUME NEW i \in 1 .. n - 1, NEW j \in 1 .. n - 1, t[i] = t[j] PROVE i = j
    <3>1. s[i + 1] = s[j + 1] /\ i + 1 \in 1 .. n /\ j + 1 \in 1 .. n
      BY <2>2, <1>1, <1>2
    <3> QED
      BY <3>1, <2>1, <1>1
  <2>3. IsInjective(t)
    BY <2>2, <1>1 DEF IsInjective
  <2>4. ASSUME NEW y \in Range(t) PROVE y \in Range(s) \ {Head(s)}
    <3>1. PICK i \in 1 .. n - 1 : y = s[i + 1]
      BY <2>4, <1>1, <1>2 DEF Range
    <3>2. i + 1 \in 1 .. n /\ i + 1 # 1 /\ 1 \in 1 .. n
      BY <3>1, <1>1
    <3> QED
      BY <3>1, <3>2, <2>1, <1>1, <1>2 DEF Range
  <2>5. ASSUME NEW y \in Range(s) \ {Head(s)} PROVE y \in Range(t)
    <3>1. PICK i \in 1 .. n : y = s[i]
      BY <2>5, <1>1 DEF Range
    <3>2. i - 1 \in 1 .. n - 1 /\ t[i - 1] = y
      BY <3>1, <2>5, <1>1, <1>2
    <3> QED
      BY <3>2, <1>1 DEF Range
  <2> QED
    BY <2>3, <2>4, <2>5
<1> QED
  BY <1>1, <1>3, <1>4

-----------------------------------------------------------------------------
\* Every step keeps the types.
LEMMA TypeStep == TypeOK /\ [Next]_vars => TypeOK'
<1> SUFFICES ASSUME TypeOK, [Next]_vars PROVE TypeOK'
  OBVIOUS
<1> USE DEF TypeOK, RecordState
<1>1. CASE OnStart
  <2>1. singleton' \in {"token", "noToken"}
    BY <1>1 DEF OnStart
  <2> QED
    BY <1>1, <2>1 DEF OnStart
<1>2. CASE OnTick
  <2>1. queue # << >>
    BY <1>2 DEF OnTick, TickReady
  <2>2. queue' \in Seq(Conns) /\ Head(queue) \in Conns
    BY <2>1, <1>2, TailFacts DEF OnTick
  <2>3. PICK fate \in {"taken", "lost"} : record' = [record EXCEPT ![Head(queue)] = fate]
    BY <1>2 DEF OnTick
  <2>4. overlapped' \in BOOLEAN
    BY <1>2 DEF OnTick, TickReady
  <2> QED
    BY <1>2, <2>2, <2>3, <2>4 DEF OnTick
<1>3. CASE Restart
  <2>1. << >> \in Seq(Conns)
    OBVIOUS
  <2>2. record' \in [Conns -> RecordState] /\ seen' \in [Conns -> Seq(Conns)]
    BY <1>3, <2>1 DEF Restart
  <2> QED
    BY <1>3, <2>1, <2>2 DEF Restart
<1>4. ASSUME NEW c \in Conns, OnDownstreamConnectionClose(c) PROVE TypeOK'
  <2>1. record' \in [Conns -> RecordState]
    BY <1>4 DEF OnDownstreamConnectionClose
  <2>2. Append(queue, c) \in Seq(Conns) /\ Append(enqueued, c) \in Seq(Conns)
    BY AppendFacts
  <2>3. queue' \in Seq(Conns) /\ enqueued' \in Seq(Conns)
    BY <1>4, <2>2 DEF OnDownstreamConnectionClose
  <2> QED
    BY <1>4, <2>1, <2>3 DEF OnDownstreamConnectionClose
<1>5. ASSUME NEW c \in Conns, CallLost(c) PROVE TypeOK'
  BY <1>5 DEF CallLost
<1>6. ASSUME NEW c \in Conns, StoreReads(c) PROVE TypeOK'
  <2>1. torn' \in BOOLEAN
    BY <1>6 DEF StoreReads, MayTear
  <2> QED
    BY <1>6, <2>1 DEF StoreReads
<1>7. ASSUME NEW c \in Conns, StoreWrites(c) PROVE TypeOK'
  <2>1. torn' \in BOOLEAN
    BY <1>7 DEF StoreWrites, MayTear
  <2>2. seen[c] \in Seq(Conns) /\ gldata' \in Seq(Conns)
    BY <1>7, AppendFacts DEF StoreWrites, Stored
  <2> QED
    BY <1>7, <2>1, <2>2 DEF StoreWrites
<1>8. CASE UNCHANGED vars
  BY <1>8 DEF vars
<1> QED
  BY <1>1, <1>2, <1>3, <1>4, <1>5, <1>6, <1>7, <1>8 DEF Next

\* The variables always have their types (metrics_collector.cc, singleton_queue.cc,
\* upstream/main.go).
THEOREM TypeCorrect == Spec => []TypeOK
<1>1. Init => TypeOK
  <2>1. << >> \in Seq(Conns)
    OBVIOUS
  <2> QED
    BY <2>1 DEF Init, TypeOK, RecordState
<1> QED
  BY <1>1, TypeStep, PTL DEF Spec

-----------------------------------------------------------------------------
\* What the handlers hold agrees with where the records are.  A handler that
\* waits holds an old string: its records were stored before, so its own is new
\* to it.
OnceInv == /\ IsInjective(queue)
           /\ Range(queue) = {c \in Conns : record[c] = "queued"}
           /\ IsInjective(gldata)
           /\ \A d \in Range(gldata) : record[d] = "stored"
           /\ \A c \in Conns : /\ IsInjective(seen[c])
                              /\ \A d \in Range(seen[c]) : record[d] = "stored"
           /\ \A c \in Conns : record[c] \notin {"none", "dropped"} => c \in Range(enqueued)

\* The empty sequence lists nothing, and nothing twice.
LEMMA EmptyFacts == IsInjective(<< >>) /\ Range(<< >>) = {}
  BY DEF IsInjective, Range

\* What a sequence lists is of the type it is a sequence of.
LEMMA RangeType == ASSUME NEW S, NEW s \in Seq(S) PROVE Range(s) \subseteq S
  BY DEF Range

\* Every step keeps OnceInv.
LEMMA OnceStep == TypeOK /\ OnceInv /\ [Next]_vars => OnceInv'
<1> SUFFICES ASSUME TypeOK, OnceInv, [Next]_vars PROVE OnceInv'
  OBVIOUS
<1>t. /\ record \in [Conns -> RecordState] /\ queue \in Seq(Conns) /\ gldata \in Seq(Conns)
      /\ seen \in [Conns -> Seq(Conns)] /\ enqueued \in Seq(Conns)
  BY DEF TypeOK
<1>r. /\ Range(queue) \subseteq Conns /\ Range(gldata) \subseteq Conns
      /\ \A c \in Conns : Range(seen[c]) \subseteq Conns
  BY <1>t, RangeType
<1>1. CASE OnStart
  BY <1>1 DEF OnStart, OnceInv
<1>2. CASE OnTick
  <2>1. queue # << >>
    BY <1>2 DEF OnTick, TickReady
  <2> DEFINE h == Head(queue)
  <2>2. h \in Conns /\ record[h] = "queued"
    BY <2>1, <1>t, TailFacts DEF OnceInv
  <2>3. IsInjective(queue') /\ Range(queue') = Range(queue) \ {h}
    BY <2>1, <1>t, <1>2, TailFacts DEF OnceInv, OnTick
  <2>4. PICK fate \in {"taken", "lost"} : record' = [record EXCEPT ![h] = fate]
    BY <1>2 DEF OnTick
  <2>5. /\ \A c \in Conns \ {h} : record'[c] = record[c]
        /\ record'[h] = fate
    BY <2>2, <2>4, <1>t
  <2>6. gldata' = gldata /\ seen' = seen /\ enqueued' = enqueued
    BY <1>2 DEF OnTick
  <2>7. Range(queue') = {c \in Conns : record'[c] = "queued"}
    BY <2>2, <2>3, <2>5 DEF OnceInv
  <2>8. \A d \in Range(gldata') : record'[d] = "stored"
    BY <2>2, <2>5, <2>6, <1>r DEF OnceInv
  <2>9. \A c \in Conns : /\ IsInjective(seen'[c])
                        /\ \A d \in Range(seen'[c]) : record'[d] = "stored"
    BY <2>2, <2>5, <2>6, <1>r DEF OnceInv
  <2>10. \A c \in Conns : record'[c] \notin {"none", "dropped"} => c \in Range(enqueued')
    BY <2>2, <2>5, <2>6 DEF OnceInv
  <2> QED
    BY <2>3, <2>6, <2>7, <2>8, <2>9, <2>10 DEF OnceInv
<1>3. CASE Restart
  <2>1. /\ queue' = queue /\ enqueued' = enqueued /\ gldata' = << >>
        /\ \A c \in Conns : seen'[c] = << >>
        /\ \A c \in Conns : record'[c] = IF record[c] = "serving" THEN "lost" ELSE record[c]
    BY <1>3 DEF Restart
  <2> QED
    BY <2>1, EmptyFacts DEF OnceInv
<1>4. ASSUME NEW c \in Conns, OnDownstreamConnectionClose(c) PROVE OnceInv'
  <2> USE DEF OnDownstreamConnectionClose
  <2>1. c \notin Range(queue) /\ record[c] = "none"
    BY <1>4 DEF OnceInv
  <2>2. gldata' = gldata /\ seen' = seen
    BY <1>4
  <2>3. /\ \A d \in Conns \ {c} : record'[d] = record[d]
        /\ record'[c] \in {"queued", "dropped"}
    BY <1>4, <1>t
  <2>4. /\ \A d \in Range(gldata') : record'[d] = "stored"
        /\ \A e \in Conns : /\ IsInjective(seen'[e])
                           /\ \A d \in Range(seen'[e]) : record'[d] = "stored"
    BY <2>1, <2>2, <2>3, <1>r DEF OnceInv
  <2>5. CASE record' = [record EXCEPT ![c] = "queued"] /\ queue' = Append(queue, c)
                /\ enqueued' = Append(enqueued, c)
    <3>1. record'[c] = "queued"
      BY <2>5, <1>t
    <3>2. IsInjective(queue') /\ Range(queue') = Range(queue) \cup {c}
      BY <2>5, <2>1, <1>t, AppendFacts DEF OnceInv
    <3>3. Range(enqueued') = Range(enqueued) \cup {c}
      BY <2>5, <1>t, AppendFacts
    <3> QED
      BY <3>1, <3>2, <3>3, <2>2, <2>3, <2>4 DEF OnceInv
  <2>6. CASE record' = [record EXCEPT ![c] = "dropped"] /\ UNCHANGED <<queue, enqueued>>
    <3>1. record'[c] = "dropped"
      BY <2>6, <1>t
    <3> QED
      BY <3>1, <2>1, <2>2, <2>3, <2>4, <2>6 DEF OnceInv
  <2> QED
    BY <1>4, <2>5, <2>6
<1>5. ASSUME NEW c \in Conns, CallLost(c) PROVE OnceInv'
  <2>1. /\ record[c] = "taken" /\ record'[c] = "lost"
        /\ \A d \in Conns \ {c} : record'[d] = record[d]
        /\ UNCHANGED <<queue, seen, gldata, enqueued>>
    BY <1>5, <1>t DEF CallLost
  <2> QED
    BY <2>1, <1>r DEF OnceInv
<1>6. ASSUME NEW c \in Conns, StoreReads(c) PROVE OnceInv'
  <2>1. /\ record[c] = "taken" /\ record'[c] = "serving"
        /\ \A d \in Conns \ {c} : record'[d] = record[d] /\ seen'[d] = seen[d]
        /\ seen'[c] = gldata
        /\ UNCHANGED <<queue, gldata, enqueued>>
    BY <1>6, <1>t DEF StoreReads
  <2> QED
    BY <2>1, <1>r DEF OnceInv
<1>7. ASSUME NEW c \in Conns, StoreWrites(c) PROVE OnceInv'
  <2>1. /\ record[c] = "serving" /\ record'[c] = "stored"
        /\ \A d \in Conns \ {c} : record'[d] = record[d] /\ seen'[d] = seen[d]
        /\ seen'[c] = << >> /\ gldata' = Append(seen[c], c)
        /\ UNCHANGED <<queue, enqueued>>
    BY <1>7, <1>t DEF StoreWrites, Stored
  <2>2. c \notin Range(seen[c]) /\ IsInjective(seen[c]) /\ seen[c] \in Seq(Conns)
    BY <2>1, <1>t DEF OnceInv
  <2>3. IsInjective(gldata') /\ Range(gldata') = Range(seen[c]) \cup {c}
    BY <2>1, <2>2, AppendFacts
  <2>4. \A d \in Range(gldata') : record'[d] = "stored"
    BY <2>1, <2>3, <1>r DEF OnceInv
  <2>5. \A e \in Conns : /\ IsInjective(seen'[e])
                       /\ \A d \in Range(seen'[e]) : record'[d] = "stored"
    BY <2>1, <1>r, EmptyFacts DEF OnceInv
  <2> QED
    BY <2>1, <2>3, <2>4, <2>5 DEF OnceInv
<1>8. CASE UNCHANGED vars
  BY <1>8 DEF vars, OnceInv
<1> QED
  BY <1>1, <1>2, <1>3, <1>4, <1>5, <1>6, <1>7, <1>8 DEF Next

\* Whatever overlaps, is lost or restarts, the string of the upstream service
\* lists no record twice and none that was not enqueued (singleton_queue.cc:43,
\* main.go:17).
THEOREM NothingStoredTwice == Spec => []StoredOnce
<1>1. Init => OnceInv
  BY EmptyFacts DEF Init, OnceInv
<1>2. TypeOK /\ OnceInv => StoredOnce
  <2> SUFFICES ASSUME TypeOK, OnceInv PROVE StoredOnce
    OBVIOUS
  <2>1. Range(gldata) \subseteq Conns
    BY RangeType DEF TypeOK
  <2> QED
    BY <2>1 DEF OnceInv, StoredOnce
<1> QED
  BY <1>1, <1>2, OnceStep, TypeCorrect, PTL DEF Spec

-----------------------------------------------------------------------------
\* With one call at a time a handler's string is the current one.
SteadyInv ==
    ~ overlapped /\ ~ restarted =>
      /\ ~ torn
      /\ \A c, d \in InFlight : c = d
      /\ \A c \in Conns : record[c] = "serving" => seen[c] = gldata
      /\ \A c \in Conns : record[c] = "stored" => c \in Range(gldata)

\* Every step keeps SteadyInv.
LEMMA SteadyStep ==
    ASSUME TypeOK, OnceInv, SteadyInv, [Next]_vars
    PROVE  SteadyInv'
<1> DEFINE SteadyGoal ==
             /\ ~ torn'
             /\ \A c, d \in InFlight' : c = d
             /\ \A c \in Conns : record'[c] = "serving" => seen'[c] = gldata'
             /\ \A c \in Conns : record'[c] = "stored" => c \in Range(gldata')
<1>s. SUFFICES ASSUME ~ overlapped', ~ restarted' PROVE SteadyGoal
  BY DEF SteadyInv, InFlight
<1>o. ~ overlapped /\ ~ restarted
  BY <1>s DEF Next, OnStart, OnTick, TickReady, Restart, OnDownstreamConnectionClose,
              CallLost, StoreReads, StoreWrites, vars, TypeOK
<1>t. /\ record \in [Conns -> RecordState] /\ queue \in Seq(Conns) /\ gldata \in Seq(Conns)
      /\ seen \in [Conns -> Seq(Conns)] /\ enqueued \in Seq(Conns)
  BY DEF TypeOK
<1> USE <1>o DEF InFlight
<1>1. CASE OnStart
  BY <1>1 DEF OnStart, SteadyInv
<1>2. CASE OnTick
  <2>1. queue # << >> /\ InFlight = {}
    BY <1>2, <1>s DEF OnTick, TickReady
  <2>2. Head(queue) \in Conns /\ record[Head(queue)] = "queued"
    BY <2>1, <1>t, TailFacts DEF OnceInv
  <2>3. PICK fate \in {"taken", "lost"} : record' = [record EXCEPT ![Head(queue)] = fate]
    BY <1>2 DEF OnTick
  <2>4. /\ \A c \in Conns \ {Head(queue)} : record'[c] = record[c]
        /\ record'[Head(queue)] = fate
    BY <2>2, <2>3, <1>t
  <2>5. torn' = torn /\ gldata' = gldata /\ seen' = seen
    BY <1>2 DEF OnTick
  <2>6. \A c, d \in InFlight' : c = d
    BY <2>1, <2>4
  <2>7. \A c \in Conns : record'[c] = "serving" => seen'[c] = gldata'
    BY <2>4, <2>5 DEF SteadyInv
  <2>8. \A c \in Conns : record'[c] = "stored" => c \in Range(gldata')
    BY <2>4, <2>5 DEF SteadyInv
  <2> QED
    BY <2>5, <2>6, <2>7, <2>8 DEF SteadyInv
<1>3. CASE Restart
  BY <1>3, <1>s DEF Restart
<1>4. ASSUME NEW c \in Conns, OnDownstreamConnectionClose(c) PROVE SteadyGoal
  <2>1. /\ record[c] = "none" /\ record'[c] \in {"queued", "dropped"}
        /\ \A d \in Conns \ {c} : record'[d] = record[d]
        /\ UNCHANGED <<seen, gldata, torn>>
    BY <1>4, <1>t DEF OnDownstreamConnectionClose
  <2>2. InFlight' = InFlight
    BY <2>1
  <2> QED
    BY <2>1, <2>2 DEF SteadyInv
<1>5. ASSUME NEW c \in Conns, CallLost(c) PROVE SteadyGoal
  <2>1. /\ record'[c] = "lost" /\ \A d \in Conns \ {c} : record'[d] = record[d]
        /\ UNCHANGED <<seen, gldata, torn>>
    BY <1>5, <1>t DEF CallLost
  <2>2. InFlight' \subseteq InFlight
    BY <2>1
  <2> QED
    BY <2>1, <2>2 DEF SteadyInv
<1>6. ASSUME NEW c \in Conns, StoreReads(c) PROVE SteadyGoal
  <2>1. /\ record[c] = "taken" /\ record'[c] = "serving"
        /\ \A d \in Conns \ {c} : record'[d] = record[d] /\ seen'[d] = seen[d]
        /\ seen'[c] = gldata /\ gldata' = gldata
    BY <1>6, <1>t DEF StoreReads
  <2>2. \A d \in Conns \ {c} : d \notin InFlight
    BY <2>1 DEF SteadyInv
  <2>3. torn' = torn
    BY <1>6, <2>2 DEF StoreReads, MayTear
  <2>4. InFlight' = {c}
    BY <2>1, <2>2
  <2> QED
    BY <2>1, <2>2, <2>3, <2>4 DEF SteadyInv
<1>7. ASSUME NEW c \in Conns, StoreWrites(c) PROVE SteadyGoal
  <2>1. /\ record[c] = "serving" /\ record'[c] = "stored"
        /\ \A d \in Conns \ {c} : record'[d] = record[d] /\ seen'[d] = seen[d]
        /\ gldata' = Append(seen[c], c)
    BY <1>7, <1>t DEF StoreWrites, Stored
  <2>2. \A d \in Conns \ {c} : d \notin InFlight
    BY <2>1 DEF SteadyInv
  <2>3. torn' = torn
    BY <1>7, <2>2 DEF StoreWrites, MayTear
  <2>4. InFlight' = {}
    BY <2>1, <2>2
  <2>5. Range(gldata') = Range(gldata) \cup {c}
    BY <2>1, <1>t, AppendFacts DEF SteadyInv
  <2>6. \A d \in Conns : record'[d] = "stored" => d \in Range(gldata')
    BY <2>1, <2>5 DEF SteadyInv
  <2>7. \A d \in Conns : record'[d] # "serving"
    BY <2>1, <2>2
  <2> QED
    BY <2>3, <2>4, <2>6, <2>7 DEF SteadyInv
<1>8. CASE UNCHANGED vars
  BY <1>8 DEF vars, SteadyInv
<1> QED
  BY <1>1, <1>2, <1>3, <1>4, <1>5, <1>6, <1>7, <1>8 DEF Next

\* Until a call outlives the tick that follows it, or the upstream service is
\* started anew, what was stored is there for a retrieve (main.go:17, 21).
THEOREM SerialCallsStay == Spec => []StoredStays
<1>1. Init => OnceInv /\ SteadyInv
  BY EmptyFacts DEF Init, OnceInv, SteadyInv, InFlight
<1>2. TypeOK /\ OnceInv /\ SteadyInv /\ [Next]_vars => SteadyInv'
  BY SteadyStep
<1>3. SteadyInv => StoredStays
  BY DEF SteadyInv, StoredStays
<1> QED
  BY <1>1, <1>2, <1>3, OnceStep, TypeCorrect, PTL DEF Spec

-----------------------------------------------------------------------------
\* Records move from the queue to a call and from there to the string, all in the
\* order in which they were enqueued.  Until a call outlives a tick one is under
\* way at most, and each place holds older records than the one before it.
Older(e, c, d) == \E i, j \in 1 .. Len(e) : i < j /\ e[i] = c /\ e[j] = d

Ordered(e, s) == \A i, j \in 1 .. Len(s) : i < j => Older(e, s[i], s[j])

OrderInv ==
    /\ Ordered(enqueued, queue)
    /\ ~ overlapped =>
         /\ \A c, d \in InFlight : c = d
         /\ \A c \in Conns : record[c] = "serving" => seen[c] = gldata
         /\ Ordered(enqueued, gldata)
         /\ \A d \in Range(gldata) : \A c \in InFlight \cup Range(queue) : Older(enqueued, d, c)
         /\ \A c \in InFlight : \A d \in Range(queue) : Older(enqueued, c, d)

\* A record that is appended comes after all that were there, whose order stays.
LEMMA OlderAppended ==
    ASSUME NEW e \in Seq(Conns), NEW c \in Conns
    PROVE  /\ \A d, f : Older(e, d, f) => Older(Append(e, c), d, f)
           /\ \A d \in Range(e) : Older(Append(e, c), d, c)
<1> DEFINE n == Len(e)
           t == Append(e, c)
<1>1. /\ n \in Nat /\ Len(t) = n + 1 /\ t[n + 1] = c /\ DOMAIN e = 1 .. n
      /\ \A i \in 1 .. n : t[i] = e[i]
  OBVIOUS
<1> HIDE DEF t
<1>2. ASSUME NEW d, NEW f, Older(e, d, f) PROVE Older(t, d, f)
  <2>1. PICK i \in 1 .. n, j \in 1 .. n : i < j /\ e[i] = d /\ e[j] = f
    BY <1>2 DEF Older
  <2>2. i \in 1 .. Len(t) /\ j \in 1 .. Len(t)
    BY <1>1, <2>1
  <2> QED
    BY <1>1, <2>1, <2>2 DEF Older
<1>3. ASSUME NEW d \in Range(e) PROVE Older(t, d, c)
  <2>1. PICK i \in 1 .. n : e[i] = d
    BY <1>1, <1>3 DEF Range
  <2>2. i \in 1 .. Len(t) /\ n + 1 \in 1 .. Len(t) /\ i < n + 1
    BY <1>1, <2>1
  <2> QED
    BY <1>1, <2>1, <2>2 DEF Older
<1> QED
  BY <1>2, <1>3 DEF t

\* What is ordered stays so as more is enqueued.
LEMMA OrderedAfter ==
    ASSUME NEW e \in Seq(Conns), NEW c \in Conns, NEW s, Ordered(e, s)
    PROVE  Ordered(Append(e, c), s)
BY OlderAppended DEF Ordered

\* A sequence stays ordered if what is appended comes after all it lists.
LEMMA OrderedAppend ==
    ASSUME NEW e, NEW s \in Seq(Conns), NEW c \in Conns, Ordered(e, s),
           \A d \in Range(s) : Older(e, d, c)
    PROVE  Ordered(e, Append(s, c))
<1> DEFINE n == Len(s)
           t == Append(s, c)
<1>1. /\ n \in Nat /\ Len(t) = n + 1 /\ t[n + 1] = c
      /\ \A i \in 1 .. n : t[i] = s[i] /\ s[i] \in Range(s)
  BY DEF Range
<1> HIDE DEF t
<1>2. ASSUME NEW i \in 1 .. n + 1, NEW j \in 1 .. n + 1, i < j PROVE Older(e, t[i], t[j])
  <2>1. i \in 1 .. n
    BY <1>1, <1>2
  <2>2. CASE j = n + 1
    BY <2>1, <2>2, <1>1
  <2>3. CASE j # n + 1
    <3>1. j \in 1 .. n
      BY <2>3, <1>1
    <3> QED
      BY <2>1, <3>1, <1>1, <1>2 DEF Ordered
  <2> QED
    BY <2>2, <2>3
<1>3. Ordered(e, t)
  BY <1>1, <1>2 DEF Ordered
<1> QED
  BY <1>3 DEF t

\* The head of an ordered sequence comes before the others, which stay ordered.
LEMMA OrderedTail ==
    ASSUME NEW e, NEW s \in Seq(Conns), s # << >>, Ordered(e, s)
    PROVE  Ordered(e, Tail(s)) /\ \A d \in Range(Tail(s)) : Older(e, Head(s), d)
<1> DEFINE n == Len(s)
           t == Tail(s)
<1>1. /\ n \in Nat \ {0} /\ Len(t) = n - 1 /\ DOMAIN t = 1 .. n - 1 /\ Head(s) = s[1]
      /\ \A i \in 1 .. n - 1 : t[i] = s[i + 1]
  OBVIOUS
<1> HIDE DEF t
<1>2. ASSUME NEW i \in 1 .. n - 1, NEW j \in 1 .. n - 1, i < j PROVE Older(e, t[i], t[j])
  <2>1. i + 1 \in 1 .. n /\ j + 1 \in 1 .. n /\ i + 1 < j + 1
    BY <1>1, <1>2
  <2> QED
    BY <1>1, <2>1 DEF Ordered
<1>3. ASSUME NEW d \in Range(t) PROVE Older(e, Head(s), d)
  <2>1. PICK i \in 1 .. n - 1 : d = t[i]
    BY <1>1, <1>3 DEF Range
  <2>2. 1 \in 1 .. n /\ i + 1 \in 1 .. n /\ 1 < i + 1
    BY <1>1, <2>1
  <2> QED
    BY <1>1, <2>1, <2>2 DEF Ordered
<1>4. Ordered(e, t)
  BY <1>1, <1>2 DEF Ordered
<1> QED
  BY <1>3, <1>4 DEF t

\* Every step keeps OrderInv.
LEMMA OrderStep ==
    ASSUME TypeOK, OnceInv, OrderInv, [Next]_vars
    PROVE  OrderInv'
<1>t. /\ record \in [Conns -> RecordState] /\ queue \in Seq(Conns) /\ gldata \in Seq(Conns)
      /\ seen \in [Conns -> Seq(Conns)] /\ enqueued \in Seq(Conns)
  BY DEF TypeOK
<1>r. Range(queue) \subseteq Conns /\ Range(gldata) \subseteq Conns
  BY <1>t, RangeType
<1> USE DEF InFlight
<1>1. CASE OnStart
  BY <1>1 DEF OnStart, OrderInv
<1>2. CASE OnTick
  <2> DEFINE h == Head(queue)
  <2>1. queue # << >> /\ queue' = Tail(queue) /\ h \in Conns /\ h \in Range(queue)
    BY <1>2, <1>t, TailFacts DEF OnTick, TickReady
  <2>2. Ordered(enqueued, Tail(queue)) /\ \A d \in Range(Tail(queue)) : Older(enqueued, h, d)
    BY <2>1, <1>t, OrderedTail DEF OrderInv
  <2>3. Range(queue') \subseteq Range(queue) /\ record[h] = "queued"
    BY <2>1, <1>t, TailFacts DEF OnceInv
  <2>4. PICK fate \in {"taken", "lost"} : record' = [record EXCEPT ![h] = fate]
    BY <1>2 DEF OnTick
  <2>5. \A c \in Conns : record'[c] = IF c = h THEN fate ELSE record[c]
    BY <2>1, <2>4, <1>t
  <2>6. gldata' = gldata /\ seen' = seen /\ enqueued' = enqueued
    BY <1>2 DEF OnTick
  <2>7. ASSUME ~ overlapped' PROVE ~ overlapped /\ \A c \in InFlight' : c = h
    BY <2>5, <2>7, <1>2 DEF OnTick, TickReady
  <2>8. Ordered(enqueued', queue')
    BY <2>1, <2>2, <2>6
  <2>9. ASSUME ~ overlapped'
        PROVE  /\ Ordered(enqueued', gldata')
               /\ \A c \in Conns : record'[c] = "serving" => seen'[c] = gldata'
    BY <2>5, <2>6, <2>7, <2>9 DEF OrderInv
  <2>10. ASSUME ~ overlapped', NEW d \in Range(gldata'), NEW c \in InFlight' \cup Range(queue')
         PROVE  Older(enqueued', d, c)
    BY <2>1, <2>3, <2>6, <2>7, <2>10 DEF OrderInv
  <2>11. ASSUME ~ overlapped', NEW c \in InFlight', NEW d \in Range(queue')
         PROVE  Older(enqueued', c, d)
    BY <2>1, <2>2, <2>6, <2>7, <2>11
  <2> QED
    BY <2>7, <2>8, <2>9, <2>10, <2>11 DEF OrderInv
<1>3. CASE Restart
  <2>1. /\ queue' = queue /\ enqueued' = enqueued /\ gldata' = << >>
        /\ overlapped' = overlapped
        /\ \A c \in Conns : record'[c] = IF record[c] = "serving" THEN "lost" ELSE record[c]
    BY <1>3 DEF Restart
  <2>2. InFlight' \subseteq InFlight /\ \A c \in Conns : record'[c] # "serving"
    BY <2>1
  <2>3. Range(gldata') = {} /\ Len(gldata') = 0
    BY <2>1, EmptyFacts
  <2>4. Ordered(enqueued', gldata')
    BY <2>3 DEF Ordered
  <2> QED
    BY <2>1, <2>2, <2>3, <2>4 DEF OrderInv
<1>4. ASSUME NEW c \in Conns, OnDownstreamConnectionClose(c) PROVE OrderInv'
  <2>1. /\ record[c] = "none" /\ \A d \in Conns \ {c} : record'[d] = record[d]
        /\ record'[c] \in {"queued", "dropped"}
        /\ UNCHANGED <<seen, gldata, overlapped>>
    BY <1>4, <1>t DEF OnDownstreamConnectionClose
  <2>2. InFlight' = InFlight /\ \A d \in Conns : record'[d] = "serving" => record[d] = "serving"
    BY <2>1
  <2>3. CASE queue' = Append(queue, c) /\ enqueued' = Append(enqueued, c)
    <3>1. /\ \A d, e : Older(enqueued, d, e) => Older(enqueued', d, e)
          /\ \A d \in Range(enqueued) : Older(enqueued', d, c)
      BY <2>3, <1>t, OlderAppended
    <3>2. Range(queue) \cup Range(gldata) \cup InFlight \subseteq Range(enqueued)
      BY <1>r DEF OnceInv
    <3>3. Range(queue') = Range(queue) \cup {c}
      BY <2>3, <1>t, AppendFacts
    <3>4. Ordered(enqueued', queue')
      <4>1. Ordered(enqueued', queue)
        BY <2>3, <1>t, OrderedAfter DEF OrderInv
      <4> QED
        BY <4>1, <2>3, <3>1, <3>2, <1>t, OrderedAppend
    <3>5. ~ overlapped => Ordered(enqueued', gldata')
      BY <2>1, <2>3, <1>t, OrderedAfter DEF OrderInv
    <3>6. ASSUME ~ overlapped, NEW d \in Range(gldata), NEW e \in InFlight \cup Range(queue')
          PROVE  Older(enqueued', d, e)
      BY <3>6, <3>1, <3>2, <3>3 DEF OrderInv
    <3>7. ASSUME ~ overlapped, NEW d \in InFlight, NEW e \in Range(queue')
          PROVE  Older(enqueued', d, e)
      BY <3>7, <3>1, <3>2, <3>3 DEF OrderInv
    <3> QED
      BY <2>1, <2>2, <3>4, <3>5, <3>6, <3>7 DEF OrderInv
  <2>4. CASE UNCHANGED <<queue, enqueued>>
    BY <2>1, <2>2, <2>4 DEF OrderInv
  <2> QED
    BY <1>4, <2>3, <2>4 DEF OnDownstreamConnectionClose
<1>5. ASSUME NEW c \in Conns, CallLost(c) PROVE OrderInv'
  <2>1. /\ record'[c] = "lost" /\ \A d \in Conns \ {c} : record'[d] = record[d]
        /\ UNCHANGED <<queue, seen, gldata, enqueued, overlapped>>
    BY <1>5, <1>t DEF CallLost
  <2>2. InFlight' \subseteq InFlight /\ \A d \in Conns : record'[d] = "serving" => record[d] = "serving"
    BY <2>1
  <2> QED
    BY <2>1, <2>2 DEF OrderInv
<1>6. ASSUME NEW c \in Conns, StoreReads(c) PROVE OrderInv'
  <2>1. /\ record[c] = "taken" /\ record'[c] = "serving"
        /\ \A d \in Conns \ {c} : record'[d] = record[d] /\ seen'[d] = seen[d]
        /\ seen'[c] = gldata
        /\ UNCHANGED <<queue, gldata, enqueued, overlapped>>
    BY <1>6, <1>t DEF StoreReads
  <2>2. InFlight' = InFlight
    BY <2>1
  <2>3. ~ overlapped => \A d \in Conns : record'[d] = "serving" => seen'[d] = gldata'
    BY <2>1 DEF OrderInv
  <2> QED
    BY <2>1, <2>2, <2>3 DEF OrderInv
<1>7. ASSUME NEW c \in Conns, StoreWrites(c) PROVE OrderInv'
  <2>1. /\ record[c] = "serving" /\ record'[c] = "stored"
        /\ \A d \in Conns \ {c} : record'[d] = record[d]
        /\ gldata' = Append(seen[c], c)
        /\ UNCHANGED <<queue, enqueued, overlapped>>
    BY <1>7, <1>t DEF StoreWrites, Stored
  <2>2. ASSUME ~ overlapped
        PROVE  /\ InFlight' = {} /\ \A d \in Conns : record'[d] # "serving"
               /\ Ordered(enqueued', gldata')
               /\ \A d \in Range(gldata') : \A e \in Range(queue') : Older(enqueued', d, e)
    <3>1. c \in InFlight /\ seen[c] = gldata
      BY <2>1, <2>2 DEF OrderInv
    <3>2. InFlight' = {} /\ \A d \in Conns : record'[d] # "serving"
      BY <2>1, <2>2, <3>1 DEF OrderInv
    <3>3. Ordered(enqueued, gldata) /\ \A d \in Range(gldata) : Older(enqueued, d, c)
      BY <2>2, <3>1 DEF OrderInv
    <3>4. Ordered(enqueued', gldata')
      BY <2>1, <3>1, <3>3, <1>t, OrderedAppend
    <3>5. Range(gldata') = Range(gldata) \cup {c}
      BY <2>1, <3>1, <1>t, AppendFacts
    <3>6. \A d \in Range(gldata') : \A e \in Range(queue') : Older(enqueued', d, e)
      BY <2>1, <2>2, <3>1, <3>5 DEF OrderInv
    <3> QED
      BY <3>2, <3>4, <3>6
  <2> QED
    BY <2>1, <2>2 DEF OrderInv
<1>8. CASE UNCHANGED vars
  BY <1>8 DEF vars, OrderInv
<1> QED
  BY <1>1, <1>2, <1>3, <1>4, <1>5, <1>6, <1>7, <1>8 DEF Next

LEMMA OrderInvariant == Spec => [](OnceInv /\ OrderInv)
<1>1. Init => OnceInv /\ OrderInv
  <2>1. Len(<< >>) = 0
    OBVIOUS
  <2> QED
    BY <2>1, EmptyFacts DEF Init, OnceInv, OrderInv, InFlight, Ordered
<1>2. TypeOK /\ OnceInv /\ OrderInv /\ [Next]_vars => OrderInv'
  BY OrderStep
<1> QED
  BY <1>1, <1>2, OnceStep, TypeCorrect, PTL DEF Spec

\* The queue holds exactly the records that wait, in the order they came
\* (metrics_collector.cc:47-59, singleton_queue.cc:43).
THEOREM QueueHoldsWhatWaits == Spec => []QueueIsWhatWaits
<1>1. OnceInv /\ OrderInv => QueueIsWhatWaits
  BY DEF OnceInv, OrderInv, Ordered, Older, QueueIsWhatWaits, Before
<1> QED
  BY <1>1, OrderInvariant, PTL

\* Until a call outlives the tick that follows it, records are stored in the order
\* in which they were enqueued, restarts and lost calls included
\* (singleton_queue.cc:43, 75-79).
THEOREM SerialCallsKeepOrder == Spec => []StoredInOrder
<1>1. OrderInv => StoredInOrder
  BY DEF OrderInv, Ordered, Older, StoredInOrder, Before
<1> QED
  BY <1>1, OrderInvariant, PTL
-----------------------------------------------------------------------------
\* Only the singleton makes the queue, so what is in it will be taken.
TokenInv == queue # << >> => singleton = "token"

LEMMA TokenInvariant == Spec => []TokenInv
<1>1. Init => TokenInv
  BY DEF Init, TokenInv
<1>2. TokenInv /\ [Next]_vars => TokenInv'
  <2>1. ASSUME OnTick PROVE TokenInv'
    BY <2>1 DEF OnTick, TickReady, TokenInv
  <2> QED
    BY <2>1 DEF TokenInv, Next, vars, OnStart, Restart, OnDownstreamConnectionClose,
                CallLost, StoreReads, StoreWrites
<1> QED
  BY <1>1, <1>2, PTL DEF Spec

Ready == singleton = "token" /\ queue # << >>
Taken(c) == record[c] = "taken"
Serving(c) == record[c] = "serving"
Settled(c) == record[c] \in {"stored", "lost"}
Handled(c) == CallLost(c) \/ StoreReads(c)

\* What the fairness of Spec says, with the guards where it has ENABLED, which the
\* provers cannot expand: each of the three actions changes vars, and waits for
\* nothing but its guard.
TicksCome == []<>(~ Ready) \/ []<><<OnTick>>_vars
CallEnds(c) == /\ []<>(~ Taken(c)) \/ []<><<Handled(c)>>_vars
               /\ []<>(~ Serving(c)) \/ []<><<StoreWrites(c)>>_vars

\* The record at place n of the queue, and where the next tick takes it.
At(c, n) == n \in 1 .. Len(queue) /\ queue[n] = c
Gone(c) == Taken(c) \/ Settled(c)
Nearer(c, n) == IF n = 1 THEN Gone(c) ELSE At(c, n - 1)

LEMMA TickMoves ==
    ASSUME TypeOK, NEW c \in Conns, NEW n \in Nat \ {0}, At(c, n), OnTick
    PROVE  Nearer(c, n)'
<1> DEFINE t == Tail(queue)
<1>1. /\ record \in [Conns -> RecordState] /\ queue \in Seq(Conns) /\ queue # << >>
      /\ queue' = t
  BY DEF TypeOK, OnTick, TickReady
<1>2. /\ Len(t) = Len(queue) - 1 /\ Head(queue) = queue[1] /\ Len(queue) \in Nat \ {0}
      /\ \A i \in 1 .. Len(queue) - 1 : t[i] = queue[i + 1]
  BY <1>1
<1>3. CASE n = 1
  <2>1. Head(queue) = c
    BY <1>2, <1>3 DEF At
  <2>2. PICK fate \in {"taken", "lost"} : record' = [record EXCEPT ![c] = fate]
    BY <2>1 DEF OnTick
  <2> QED
    BY <2>2, <1>1, <1>3 DEF Nearer, Gone, Taken, Settled
<1>4. CASE n # 1
  <2> HIDE DEF t
  <2>1. n - 1 \in 1 .. Len(queue) - 1
    BY <1>2, <1>4 DEF At
  <2>2. n - 1 \in 1 .. Len(t) /\ t[n - 1] = queue[n]
    BY <1>2, <2>1
  <2> QED
    BY <2>2, <1>1, <1>4 DEF At, Nearer
<1> QED
  BY <1>3, <1>4

\* Nothing but a tick moves a record in the queue.
LEMMA OtherStays ==
    ASSUME TypeOK, NEW c \in Conns, NEW n \in Nat \ {0}, At(c, n), [Next]_vars, ~ OnTick
    PROVE  At(c, n)'
<1>t. queue \in Seq(Conns)
  BY DEF TypeOK
<1>1. ASSUME NEW d \in Conns, OnDownstreamConnectionClose(d) PROVE At(c, n)'
  BY <1>1, <1>t DEF OnDownstreamConnectionClose, At
<1>2. CASE queue' = queue
  BY <1>2 DEF At
<1> QED
  BY <1>1, <1>2 DEF Next, vars, OnStart, Restart, CallLost, StoreReads, StoreWrites

\* If the host keeps ticking, a record at any place of the queue moves up by one,
\* and the first one is taken, however many more are enqueued
\* (singleton_queue.cc:43).
THEOREM QueueMovesOn ==
    ASSUME NEW c \in Conns, NEW n \in Nat \ {0}
    PROVE  Spec /\ TicksCome => (At(c, n) ~> Nearer(c, n))
<1>1. TypeOK /\ At(c, n) /\ [Next]_vars => At(c, n)' \/ Nearer(c, n)'
  BY TickMoves, OtherStays
<1>2. TypeOK /\ At(c, n) /\ <<OnTick>>_vars => Nearer(c, n)'
  BY TickMoves
<1>3. TokenInv /\ At(c, n) => Ready
  BY DEF TokenInv, At, Ready
<1>4. Spec => [][Next]_vars
  BY PTL DEF Spec
<1> QED
  BY <1>1, <1>2, <1>3, <1>4, TypeCorrect, TokenInvariant, PTL DEF TicksCome

\* Where a step may take a record whose call is under way: no tick takes it again.
LEMMA TakenStep ==
    ASSUME TypeOK, OnceInv, [Next]_vars, NEW c \in Conns
    PROVE  /\ Taken(c) => Taken(c)' \/ Serving(c)' \/ Settled(c)'
           /\ Serving(c) => Serving(c)' \/ Settled(c)'
<1>t. record \in [Conns -> RecordState]
  BY DEF TypeOK
<1>1. CASE OnTick
  <2>1. PICK fate \in {"taken", "lost"} : record' = [record EXCEPT ![Head(queue)] = fate]
    BY <1>1 DEF OnTick
  <2>2. record[Head(queue)] = "queued"
    BY <1>1, TailFacts DEF OnTick, TickReady, TypeOK, OnceInv
  <2> QED
    BY <2>1, <2>2, <1>t DEF Taken, Serving, Settled
<1>2. CASE ~ OnTick
  BY <1>2, <1>t
     DEF Taken, Serving, Settled, Next, vars, OnStart, Restart,
         OnDownstreamConnectionClose, CallLost, StoreReads, StoreWrites
<1> QED
  BY <1>1, <1>2

\* If a call ends within its timeout and a handler returns, a record that was
\* taken is stored or lost, also when the service restarts meanwhile
\* (singleton_queue.cc:75-79, main.go:10-19).
THEOREM TakenIsSettled ==
    ASSUME NEW c \in Conns
    PROVE  Spec /\ CallEnds(c) => (Gone(c) ~> Settled(c))
<1>1. TypeOK /\ OnceInv /\ Taken(c) /\ [Next]_vars
        => Taken(c)' \/ Serving(c)' \/ Settled(c)'
  BY TakenStep
<1>2. TypeOK /\ OnceInv /\ Serving(c) /\ [Next]_vars => Serving(c)' \/ Settled(c)'
  BY TakenStep
<1>3. TypeOK /\ Taken(c) /\ <<Handled(c)>>_vars => Serving(c)' \/ Settled(c)'
  BY DEF TypeOK, Taken, Handled, CallLost, StoreReads, Serving, Settled
<1>4. TypeOK /\ Serving(c) /\ <<StoreWrites(c)>>_vars => Settled(c)'
  BY DEF TypeOK, StoreWrites, Serving, Settled
<1>5. Spec => [][Next]_vars
  BY PTL DEF Spec
<1>6. Gone(c) => Taken(c) \/ Settled(c)
  BY DEF Gone
<1> QED
  BY <1>1, <1>2, <1>3, <1>4, <1>5, <1>6, TypeCorrect, OrderInvariant, PTL DEF CallEnds
=============================================================================
