----------------------------- MODULE ConnMetrics -----------------------------
(***************************************************************************)
(* What tcp-metrics/filter.cc and metrics-store/metrics_collector.cc       *)
(* measure of a TCP connection: the bytes of each direction, and the time  *)
(* from the close of the upstream side to the close of the downstream      *)
(* side.  The two filters differ in one initializer only.  What becomes of *)
(* the collector's record is MetricsStore.                                 *)
(*                                                                         *)
(* The host reports the end of the upstream side with its last data, at    *)
(* most once; it may never do so, and the downstream side may go on        *)
(* sending afterwards.  Its clock is the system's: it runs on and may be   *)
(* set to another time.                                                    *)
(***************************************************************************)
EXTENDS Integers

CONSTANTS Conns,       \* the connections
          Collected,   \* those that pass metrics_collector
          Sizes,       \* the sizes of the chunks of data
          SizeWords,   \* 2^32: how many values a size_t has in wasm
          TimeWords,   \* 2^64: how many values a uint64_t has
          StartTime,   \* the time since the epoch when the connections begin
          MaxTime,     \* bound: the last time of the clock
          MaxElapsed,  \* bound: the time a connection stays half closed
          MaxBytes     \* bound: the bytes of a connection

ASSUME ConnAssumption ==
    /\ Collected \subseteq Conns
    /\ SizeWords \in Nat \ {0} /\ TimeWords \in Nat /\ StartTime \in Nat /\ MaxTime \in Nat
    /\ MaxBytes \in Nat /\ MaxElapsed \in Nat
    /\ Sizes \subseteq 0 .. SizeWords - 1
    /\ StartTime <= MaxTime /\ MaxTime < TimeWords
    /\ MaxTime < 2 * StartTime   \* no connection is as old as the epoch

VARIABLES phase,      \* where the connection is: open, upstream side closed ("half"),
                      \* ended after that ("timed") or without it ("untimed")
          data_downstream, data_upstream,
          close_time, \* upstream_close_time_, time_
          latency,
          now,        \* the system's clock
          passed,     \* history: the bytes that passed, downstream and upstream
          elapsed,    \* history: the time that passed since the upstream side closed
          shift       \* history: by how much the clock was set meanwhile, on the whole

vars == <<phase, data_downstream, data_upstream, close_time, latency, now,
          passed, elapsed, shift>>

Times == 0 .. TimeWords - 1

\* Fault for the mutation runs: upstream_close_time_ has no initializer either.
AnyTimes == [Conns -> Times]

\* upstream_close_time_ starts at 0, time_ has no initializer.
InitialTimes == {f \in [Conns -> Times] : \A c \in Conns \ Collected : f[c] = 0}

Init == /\ phase = [c \in Conns |-> "open"]
        /\ data_downstream = [c \in Conns |-> 0] /\ data_upstream = [c \in Conns |-> 0]
        /\ close_time \in InitialTimes
        /\ latency = [c \in Conns |-> 0]
        /\ now = StartTime
        /\ passed = [c \in Conns |-> [down |-> 0, up |-> 0]]
        /\ elapsed = [c \in Conns |-> 0]
        /\ shift = [c \in Conns |-> 0]

\* Fault for the mutation runs: integers without a width.
Unbounded(x, words) == x

\* A sum or a difference of two words, as a word.
Word(x, words) == CASE x < 0      -> x + words
                    [] x >= words -> x - words
                    [] OTHER      -> x

InBounds(c, n) == passed[c].down + passed[c].up + n <= MaxBytes

\* Fault for the mutation runs: the last chunk only.
OnDownstreamDataLast(c, n) ==
    /\ phase[c] \in {"open", "half"} /\ InBounds(c, n)
    /\ data_downstream' = [data_downstream EXCEPT ![c] = n]
    /\ passed' = [passed EXCEPT ![c].down = @ + n]
    /\ UNCHANGED <<phase, data_upstream, close_time, latency, now, elapsed, shift>>

OnDownstreamData(c, n) ==
    /\ phase[c] \in {"open", "half"} /\ InBounds(c, n)
    /\ data_downstream' = [data_downstream EXCEPT ![c] = Word(@ + n, SizeWords)]
    /\ passed' = [passed EXCEPT ![c].down = @ + n]
    /\ UNCHANGED <<phase, data_upstream, close_time, latency, now, elapsed, shift>>

OnUpstreamData(c, n) ==
    /\ phase[c] = "open" /\ InBounds(c, n)
    /\ data_upstream' = [data_upstream EXCEPT ![c] = Word(@ + n, SizeWords)]
    /\ passed' = [passed EXCEPT ![c].up = @ + n]
    /\ UNCHANGED <<phase, data_downstream, close_time, latency, now, elapsed, shift>>

OnUpstreamConnectionClose(c) ==
    /\ phase[c] = "open"
    /\ phase' = [phase EXCEPT ![c] = "half"]
    /\ close_time' = [close_time EXCEPT ![c] = now]
    /\ UNCHANGED <<data_downstream, data_upstream, latency, now, passed, elapsed, shift>>

\* Fault for the mutation runs: the difference the other way round.
LatencyReversed(c) == Word(close_time[c] - now, TimeWords)

Latency(c) == Word(now - close_time[c], TimeWords)

OnDownstreamConnectionClose(c) ==
    /\ phase[c] \in {"open", "half"}
    /\ phase' = [phase EXCEPT ![c] = IF @ = "half" THEN "timed" ELSE "untimed"]
    /\ latency' = [latency EXCEPT ![c] = Latency(c)]
    /\ UNCHANGED <<data_downstream, data_upstream, close_time, now, passed, elapsed, shift>>

Half == {c \in Conns : phase[c] = "half"}

Tick == /\ now < MaxTime /\ \A c \in Half : elapsed[c] < MaxElapsed
        /\ now' = now + 1
        /\ elapsed' = [c \in Conns |-> IF c \in Half THEN elapsed[c] + 1 ELSE elapsed[c]]
        /\ UNCHANGED <<phase, data_downstream, data_upstream, close_time, latency,
                       passed, shift>>

\* The clock of the machine is set, forward or back.
AdjustClock ==
    /\ now' \in StartTime .. MaxTime /\ now' # now
    /\ shift' = [c \in Conns |-> IF c \in Half THEN shift[c] + now' - now ELSE shift[c]]
    /\ UNCHANGED <<phase, data_downstream, data_upstream, close_time, latency,
                   passed, elapsed>>

Next == \/ \E c \in Conns : \/ \E n \in Sizes : OnDownstreamData(c, n) \/ OnUpstreamData(c, n)
                            \/ OnUpstreamConnectionClose(c) \/ OnDownstreamConnectionClose(c)
        \/ Tick \/ AdjustClock

Spec == Init /\ [][Next]_vars

-----------------------------------------------------------------------------
TypeOK == /\ phase \in [Conns -> {"open", "half", "timed", "untimed"}]
          /\ data_downstream \in [Conns -> 0 .. SizeWords - 1]
          /\ data_upstream \in [Conns -> 0 .. SizeWords - 1]
          /\ close_time \in [Conns -> Times] /\ latency \in [Conns -> Times]
          /\ now \in StartTime .. MaxTime
          /\ passed \in [Conns -> [down : Nat, up : Nat]]
          /\ elapsed \in [Conns -> Nat]
          /\ shift \in [Conns -> Int]

\* Each direction is counted modulo the size of a size_t (2^32 in wasm): exactly
\* below 4 GiB, from 0 again there, whatever the other direction did, also after
\* the upstream side closed (tcp-metrics/filter.cc:39-47, metrics_collector.cc:33-41).
BytesAreExact ==
    \A c \in Conns : /\ data_downstream[c] = passed[c].down % SizeWords
                      /\ data_upstream[c] = passed[c].up % SizeWords

\* What the clock makes of the time since the upstream side closed.
Measured(c) == elapsed[c] + shift[c]

\* If both sides closed, the latency is the time between the two closes and what
\* the clock was set by in between, on the whole; if it was set back behind the
\* first close, the difference wraps below 0 and is enormous
\* (tcp-metrics/filter.cc:50-52 and 61-63, metrics_collector.cc:44 and 63).
LatencyIsTrue ==
    \A c \in Conns : phase[c] = "timed" =>
        latency[c] = IF Measured(c) >= 0 THEN Measured(c) ELSE TimeWords + Measured(c)

\* Where only the downstream side closed, tcp-metrics logs the time since the
\* epoch: too long for a connection, so that it can be told from every latency
\* that was measured, unless the clock was set back behind the upstream side's
\* close (filter.cc:28, 52).
EpochTellsUntimed ==
    \A c \in Conns \ Collected :
      /\ phase[c] = "untimed" => latency[c] >= StartTime
      /\ phase[c] = "timed" /\ Measured(c) >= 0 => latency[c] < StartTime
=============================================================================
