-------------------------- MODULE ConnMetricsProofs --------------------------
(***************************************************************************)
(* Proofs about ConnMetrics for any number of connections, any chunks of   *)
(* data and any width of the integers: types, and what counts and          *)
(* latencies tell, also where they wrap and the clock is set.  The         *)
(* strengthening is HalfIsTimed: while only the downstream side is open,   *)
(* the clock is what it was at the close, plus the time that has passed,   *)
(* plus what it was set by.                                                *)
(***************************************************************************)
EXTENDS ConnMetrics, TLAPS

HalfIsTimed ==
    \A c \in Conns :
      /\ phase[c] = "open" => elapsed[c] = 0 /\ shift[c] = 0
      /\ phase[c] = "half" => close_time[c] >= StartTime
      /\ phase[c] = "half" => now = close_time[c] + Measured(c)
      /\ phase[c] = "open" /\ c \notin Collected => close_time[c] = 0

IInv == TypeOK /\ BytesAreExact /\ LatencyIsTrue /\ EpochTellsUntimed /\ HalfIsTimed

LEMMA WordType ==
    ASSUME NEW words \in Nat, NEW x \in Int, x < 2 * words, x >= - words, words > 0
    PROVE  /\ Word(x, words) \in 0 .. words - 1
           /\ x >= 0 /\ x < words => Word(x, words) = x
           /\ x < 0 => Word(x, words) = words + x
  BY DEF Word

\* Counting on modulo the size of a word.
LEMMA WordAdds ==
    ASSUME NEW words \in Nat \ {0}, NEW bytes \in Nat, NEW n \in 0 .. words - 1
    PROVE  /\ Word((bytes % words) + n, words) = (bytes + n) % words
           /\ Word((bytes % words) + n, words) \in 0 .. words - 1
<1> DEFINE q == bytes \div words
           r == bytes % words
<1>1. q \in Nat /\ r \in 0 .. words - 1 /\ bytes = words * q + r
  BY Z3
<1>2. ASSUME NEW k \in Nat, NEW m \in 0 .. words - 1 PROVE (words * k + m) % words = m
  BY Z3
<1>3. Word(r + n, words) = (bytes + n) % words /\ Word(r + n, words) \in 0 .. words - 1
  <2> HIDE DEF q, r
  <2>1. CASE r + n < words
    <3>1. bytes + n = words * q + (r + n) /\ r + n \in 0 .. words - 1
      BY <1>1, <2>1
    <3>2. (words * q + (r + n)) % words = r + n
      BY <1>1, <1>2, <3>1
    <3>3. Word(r + n, words) = r + n
      BY <1>1, <2>1 DEF Word
    <3> QED
      BY <3>1, <3>2, <3>3
  <2>2. CASE r + n >= words
    <3>1. /\ bytes + n = words * (q + 1) + (r + n - words)
          /\ r + n - words \in 0 .. words - 1 /\ q + 1 \in Nat
      BY <1>1, <2>2
    <3>2. (words * (q + 1) + (r + n - words)) % words = r + n - words
      BY <1>2, <3>1
    <3>3. Word(r + n, words) = r + n - words
      BY <1>1, <2>2 DEF Word
    <3> QED
      BY <3>1, <3>2, <3>3
  <2> QED
    BY <1>1, <2>1, <2>2
<1> QED
  BY <1>3

LEMMA InitEstablishes == Init => IInv
  BY ConnAssumption
     DEF Init, InitialTimes, Times, IInv, TypeOK, BytesAreExact, LatencyIsTrue,
         EpochTellsUntimed, HalfIsTimed, Measured

\* A chunk of either direction.
LEMMA DataPreserves ==
    ASSUME IInv, NEW c \in Conns, NEW n \in Sizes,
           OnDownstreamData(c, n) \/ OnUpstreamData(c, n)
    PROVE  IInv'
<1> USE ConnAssumption
<1>1. n \in Nat /\ n < SizeWords
  OBVIOUS
<1>2. UNCHANGED <<phase, close_time, latency, now, elapsed, shift>>
  BY DEF OnDownstreamData, OnUpstreamData
<1>3. LatencyIsTrue' /\ EpochTellsUntimed' /\ HalfIsTimed'
  BY <1>2 DEF IInv, LatencyIsTrue, EpochTellsUntimed, HalfIsTimed, Measured
<1>4. CASE OnDownstreamData(c, n)
  <2>1. passed[c].down \in Nat /\ data_downstream[c] = passed[c].down % SizeWords
    BY DEF IInv, TypeOK, BytesAreExact
  <2> DEFINE total == Word(data_downstream[c] + n, SizeWords)
  <2>2. total = (passed[c].down + n) % SizeWords /\ total \in 0 .. SizeWords - 1
    BY <1>1, <2>1, WordAdds
  <2>3. /\ data_downstream' = [data_downstream EXCEPT ![c] = total]
        /\ passed' = [passed EXCEPT ![c].down = passed[c].down + n]
        /\ data_upstream' = data_upstream
    BY <1>4 DEF OnDownstreamData
  <2> HIDE DEF total
  <2>4. TypeOK'
    BY <1>1, <1>2, <2>1, <2>2, <2>3 DEF IInv, TypeOK
  <2>5. BytesAreExact'
    BY <1>1, <2>1, <2>2, <2>3 DEF IInv, TypeOK, BytesAreExact
  <2> QED
    BY <1>3, <2>4, <2>5 DEF IInv
<1>5. CASE OnUpstreamData(c, n)
  <2>1. passed[c].up \in Nat /\ data_upstream[c] = passed[c].up % SizeWords
    BY DEF IInv, TypeOK, BytesAreExact
  <2> DEFINE total == Word(data_upstream[c] + n, SizeWords)
  <2>2. total = (passed[c].up + n) % SizeWords /\ total \in 0 .. SizeWords - 1
    BY <1>1, <2>1, WordAdds
  <2>3. /\ data_upstream' = [data_upstream EXCEPT ![c] = total]
        /\ passed' = [passed EXCEPT ![c].up = passed[c].up + n]
        /\ data_downstream' = data_downstream
    BY <1>5 DEF OnUpstreamData
  <2> HIDE DEF total
  <2>4. TypeOK'
    BY <1>1, <1>2, <2>1, <2>2, <2>3 DEF IInv, TypeOK
  <2>5. BytesAreExact'
    BY <1>1, <2>1, <2>2, <2>3 DEF IInv, TypeOK, BytesAreExact
  <2> QED
    BY <1>3, <2>4, <2>5 DEF IInv
<1> QED
  BY <1>4, <1>5

LEMMA ClosePreserves ==
    ASSUME IInv, NEW c \in Conns, OnDownstreamConnectionClose(c)
    PROVE  IInv'
<1> USE ConnAssumption
<1> DEFINE time == Latency(c)
<1>1. now \in Nat /\ close_time[c] \in Nat /\ now < TimeWords /\ close_time[c] < TimeWords
  BY DEF IInv, TypeOK, Times
<1>2. /\ time \in Times
      /\ time = IF close_time[c] <= now THEN now - close_time[c]
                                         ELSE TimeWords + (now - close_time[c])
  BY <1>1, WordType DEF Latency, Times
<1>3. /\ latency' = [latency EXCEPT ![c] = time]
      /\ phase' = [phase EXCEPT ![c] = IF phase[c] = "half" THEN "timed" ELSE "untimed"]
      /\ UNCHANGED <<data_downstream, data_upstream, close_time, now, passed, elapsed, shift>>
      /\ phase[c] \in {"open", "half"}
  BY DEF OnDownstreamConnectionClose
<1> HIDE DEF time
<1>4. TypeOK'
  BY <1>2, <1>3 DEF IInv, TypeOK
<1>5. BytesAreExact'
  BY <1>3 DEF IInv, BytesAreExact
<1>6. Measured(c) \in Int /\ now >= StartTime /\ now <= MaxTime
  BY DEF IInv, TypeOK, Measured
<1>7. phase[c] = "half" =>
        /\ time = IF Measured(c) >= 0 THEN Measured(c) ELSE TimeWords + Measured(c)
        /\ Measured(c) >= 0 => time < StartTime
  BY <1>1, <1>2, <1>6 DEF IInv, HalfIsTimed
<1>8. phase[c] = "open" /\ c \notin Collected => time >= StartTime
  BY <1>1, <1>2, <1>6 DEF IInv, HalfIsTimed
<1>9. LatencyIsTrue' /\ EpochTellsUntimed'
  BY <1>3, <1>7, <1>8 DEF IInv, TypeOK, LatencyIsTrue, EpochTellsUntimed, Measured
<1>10. HalfIsTimed'
  BY <1>3 DEF IInv, TypeOK, HalfIsTimed, Measured
<1> QED
  BY <1>4, <1>5, <1>9, <1>10 DEF IInv

LEMMA StepPreserves == IInv /\ [Next]_vars => IInv'
<1> SUFFICES ASSUME IInv, [Next]_vars PROVE IInv'
  OBVIOUS
<1> USE ConnAssumption
<1>1. ASSUME NEW c \in Conns, NEW n \in Sizes, OnDownstreamData(c, n) \/ OnUpstreamData(c, n)
      PROVE  IInv'
  BY <1>1, DataPreserves
<1>2. ASSUME NEW c \in Conns, OnUpstreamConnectionClose(c) PROVE IInv'
  <2>1. TypeOK' /\ BytesAreExact'
    BY <1>2 DEF OnUpstreamConnectionClose, IInv, TypeOK, BytesAreExact, Times
  <2>2. LatencyIsTrue' /\ EpochTellsUntimed'
    BY <1>2 DEF OnUpstreamConnectionClose, IInv, TypeOK, LatencyIsTrue, EpochTellsUntimed,
                Measured
  <2>3. HalfIsTimed'
    BY <1>2 DEF OnUpstreamConnectionClose, IInv, TypeOK, HalfIsTimed, Measured
  <2> QED
    BY <2>1, <2>2, <2>3 DEF IInv
<1>3. ASSUME NEW c \in Conns, OnDownstreamConnectionClose(c) PROVE IInv'
  BY <1>3, ClosePreserves
<1>4. CASE Tick
  <2>1. /\ now' = now + 1 /\ now < MaxTime /\ now \in Nat
        /\ UNCHANGED <<phase, data_downstream, data_upstream, close_time, latency,
                       passed, shift>>
    BY <1>4 DEF Tick, IInv, TypeOK
  <2>2. elapsed' = [c \in Conns |-> IF phase[c] = "half" THEN elapsed[c] + 1 ELSE elapsed[c]]
    BY <1>4 DEF Tick, Half
  <2>3. \A c \in Conns : /\ elapsed[c] \in Nat /\ shift[c] \in Int /\ close_time[c] \in Nat
                         /\ elapsed'[c] = IF phase[c] = "half" THEN elapsed[c] + 1
                                                               ELSE elapsed[c]
    BY <2>2 DEF IInv, TypeOK, Times
  <2>4. elapsed' \in [Conns -> Nat]
    BY <2>2, <2>3
  <2>5. TypeOK' /\ BytesAreExact'
    BY <2>1, <2>4 DEF IInv, TypeOK, BytesAreExact
  <2>6. LatencyIsTrue' /\ EpochTellsUntimed'
    BY <2>1, <2>3 DEF IInv, LatencyIsTrue, EpochTellsUntimed, Measured
  <2>7. HalfIsTimed'
    BY <2>1, <2>3 DEF IInv, HalfIsTimed, Measured
  <2> QED
    BY <2>5, <2>6, <2>7 DEF IInv
<1>5. CASE AdjustClock
  <2>1. /\ now' \in StartTime .. MaxTime /\ now \in Nat /\ now' \in Nat
        /\ UNCHANGED <<phase, data_downstream, data_upstream, close_time, latency,
                       passed, elapsed>>
    BY <1>5 DEF AdjustClock, IInv, TypeOK
  <2>2. shift' = [c \in Conns |-> IF phase[c] = "half" THEN shift[c] + now' - now ELSE shift[c]]
    BY <1>5 DEF AdjustClock, Half
  <2>3. \A c \in Conns : /\ elapsed[c] \in Nat /\ shift[c] \in Int /\ close_time[c] \in Nat
                         /\ shift'[c] = IF phase[c] = "half" THEN shift[c] + now' - now
                                                             ELSE shift[c]
    BY <2>2 DEF IInv, TypeOK, Times
  <2>4. shift' \in [Conns -> Int]
    BY <2>1, <2>2, <2>3
  <2>5. TypeOK' /\ BytesAreExact'
    BY <2>1, <2>4 DEF IInv, TypeOK, BytesAreExact
  <2>6. LatencyIsTrue' /\ EpochTellsUntimed'
    BY <2>1, <2>3 DEF IInv, LatencyIsTrue, EpochTellsUntimed, Measured
  <2>7. HalfIsTimed'
    BY <2>1, <2>3 DEF IInv, HalfIsTimed, Measured
  <2> QED
    BY <2>5, <2>6, <2>7 DEF IInv
<1>6. CASE UNCHANGED vars
  BY <1>6 DEF vars, IInv, TypeOK, BytesAreExact, LatencyIsTrue, EpochTellsUntimed, HalfIsTimed,
              Measured
<1> QED
  BY <1>1, <1>2, <1>3, <1>4, <1>5, <1>6 DEF Next

LEMMA InductiveInvariant == Spec => []IInv
  BY InitEstablishes, StepPreserves, PTL DEF Spec

\* Every variable keeps its type: counts and times stay words.
THEOREM TypeCorrect == Spec => []TypeOK
  BY InductiveInvariant, PTL DEF IInv

\* Each direction is counted modulo the size of a size_t, whatever that size is.
THEOREM BytesAreCounted == Spec => []BytesAreExact
  BY InductiveInvariant, PTL DEF IInv

\* The latency is the time between the two closes and what the clock was set by.
THEOREM LatencyIsMeasured == Spec => []LatencyIsTrue
  BY InductiveInvariant, PTL DEF IInv

\* What tcp-metrics logs where nothing was measured is longer than anything measured.
THEOREM UntimedIsTold == Spec => []EpochTellsUntimed
  BY InductiveInvariant, PTL DEF IInv
=============================================================================
