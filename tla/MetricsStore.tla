---------------------------- MODULE MetricsStore -----------------------------
(***************************************************************************)
(* The way of a metrics record: metrics-store/metrics_collector.cc writes  *)
(* one when a connection closes and puts it into a shared queue of the     *)
(* proxy; metrics-store/singleton_queue.cc, a service of which the proxy   *)
(* runs one, takes one record per tick and posts it to the store handler   *)
(* of upstream/main.go, which appends it to a string in memory.            *)
(*                                                                         *)
(* A record is named by its connection; its contents do not matter here.   *)
(* Collectors (on the workers), the singleton (on the main thread) and the *)
(* goroutines of the upstream service run concurrently.  The singleton     *)
(* waits for no answer: a call lives up to 5 seconds, a tick comes every 2.*)
(***************************************************************************)
EXTENDS Naturals, Sequences, FiniteSets, Functions

CONSTANT Conns   \* the connections

VARIABLES record,     \* where the record of each connection is
          queue,      \* the shared queue "q1"
          singleton,  \* the singleton: not started, its token_ set, or not set
          seen,       \* what a store handler read of gldata and has not written yet
          gldata,     \* the upstream service's string: the records it lists
          torn,       \* has a racing write left bytes that are no list of records?
          enqueued,   \* history: the records in the order they were enqueued
          overlapped, \* history: did a call outlive the tick that followed it?
          restarted   \* history: was the upstream service started anew?

vars == <<record, queue, singleton, seen, gldata, torn, enqueued, overlapped, restarted>>

RecordState == {"none", "dropped", "queued", "taken", "lost", "serving", "stored"}

Init == /\ record = [c \in Conns |-> "none"]
        /\ queue = << >>
        /\ singleton = "absent"
        /\ seen = [c \in Conns |-> << >>]
        /\ gldata = << >>
        /\ torn = FALSE
        /\ enqueued = << >>
        /\ overlapped = FALSE /\ restarted = FALSE

\* onStart registers the queue, once; that may fail.
OnStart ==
    /\ singleton = "absent"
    /\ singleton' \in {"token", "noToken"}
    /\ UNCHANGED <<record, queue, seen, gldata, torn, enqueued, overlapped, restarted>>

\* Fault for the mutation runs: a record is kept for a queue that is not there yet.
OnDownstreamConnectionCloseKept(c) ==
    /\ record[c] = "none"
    /\ record' = [record EXCEPT ![c] = "queued"]
    /\ queue' = IF singleton = "token" THEN Append(queue, c) ELSE queue
    /\ enqueued' = Append(enqueued, c)
    /\ UNCHANGED <<singleton, seen, gldata, torn, overlapped, restarted>>

\* The connection closes.  Without a queue of that name the record is dropped, as
\* it is if it cannot be enqueued.
OnDownstreamConnectionClose(c) ==
    /\ record[c] = "none"
    /\ \/ /\ singleton = "token"
          /\ record' = [record EXCEPT ![c] = "queued"]
          /\ queue' = Append(queue, c)
          /\ enqueued' = Append(enqueued, c)
       \/ /\ record' = [record EXCEPT ![c] = "dropped"]
          /\ UNCHANGED <<queue, enqueued>>
    /\ UNCHANGED <<singleton, seen, gldata, torn, overlapped, restarted>>

InFlight == {c \in Conns : record[c] \in {"taken", "serving"}}

TickReady == /\ singleton = "token" /\ queue # << >>
             /\ overlapped' = (overlapped \/ InFlight # {})

\* Faults for the mutation runs: the record is read but not taken off the queue,
\* or the newest one is taken.
OnTickPeeks ==
    /\ TickReady
    /\ record' = [record EXCEPT ![Head(queue)] = "taken"]
    /\ UNCHANGED <<queue, singleton, seen, gldata, torn, enqueued, restarted>>

OnTickNewest ==
    /\ TickReady
    /\ record' = [record EXCEPT ![queue[Len(queue)]] = "taken"]
    /\ queue' = SubSeq(queue, 1, Len(queue) - 1)
    /\ UNCHANGED <<singleton, seen, gldata, torn, enqueued, restarted>>

\* One record leaves the queue; the result of httpCall is ignored.  Without a
\* token, or with an empty queue, onTick returns and nothing changes.
OnTick ==
    /\ TickReady
    /\ queue' = Tail(queue)
    /\ record' \in {[record EXCEPT ![Head(queue)] = fate] : fate \in {"taken", "lost"}}
    /\ UNCHANGED <<singleton, seen, gldata, torn, enqueued, restarted>>

\* The call times out or breaks before the service handles it.
CallLost(c) ==
    /\ record[c] = "taken"
    /\ record' = [record EXCEPT ![c] = "lost"]
    /\ UNCHANGED <<queue, singleton, seen, gldata, torn, enqueued, overlapped, restarted>>

\* A string is two words, which nothing locks: while another handler writes them,
\* the address of one string may be read or left with the length of another.
MayTear(c) == \/ UNCHANGED torn
              \/ (\E d \in Conns \ {c} : record[d] = "serving") /\ torn' = TRUE

\* store: gldata += data, which reads gldata ...
StoreReads(c) ==
    /\ record[c] = "taken"
    /\ record' = [record EXCEPT ![c] = "serving"]
    /\ seen' = [seen EXCEPT ![c] = gldata]
    /\ MayTear(c)
    /\ UNCHANGED <<queue, singleton, gldata, enqueued, overlapped, restarted>>

\* Faults for the mutation runs: = where += is meant, and the wrong operand.
StoredAlone(old, c) == <<c>>
StoredItself(old, c) == Append(old, old)

Stored(old, c) == Append(old, c)

\* ... and writes it.
StoreWrites(c) ==
    /\ record[c] = "serving"
    /\ record' = [record EXCEPT ![c] = "stored"]
    /\ gldata' = Stored(seen[c], c)
    /\ seen' = [seen EXCEPT ![c] = << >>]
    /\ MayTear(c)
    /\ UNCHANGED <<queue, singleton, enqueued, overlapped, restarted>>

\* The upstream service is started anew: its memory and its handlers are gone.
Restart ==
    /\ restarted' = TRUE
    /\ gldata # << >> \/ InFlight # {}
    /\ gldata' = << >> /\ torn' = FALSE
    /\ seen' = [c \in Conns |-> << >>]
    /\ record' = [c \in Conns |-> IF record[c] = "serving" THEN "lost" ELSE record[c]]
    /\ UNCHANGED <<queue, singleton, enqueued, overlapped>>

Next == \/ OnStart
        \/ OnTick
        \/ Restart
        \/ \E c \in Conns : \/ OnDownstreamConnectionClose(c)
                            \/ CallLost(c)
                            \/ StoreReads(c)
                            \/ StoreWrites(c)

\* The host keeps ticking; a call ends within its timeout, a handler returns.
Spec == /\ Init /\ [][Next]_vars
        /\ WF_vars(OnTick)
        /\ \A c \in Conns : WF_vars(CallLost(c) \/ StoreReads(c)) /\ WF_vars(StoreWrites(c))

-----------------------------------------------------------------------------
TypeOK == /\ record \in [Conns -> RecordState]
          /\ queue \in Seq(Conns)
          /\ singleton \in {"absent", "token", "noToken"}
          /\ seen \in [Conns -> Seq(Conns)]
          /\ gldata \in Seq(Conns)
          /\ torn \in BOOLEAN
          /\ enqueued \in Seq(Conns)
          /\ overlapped \in BOOLEAN /\ restarted \in BOOLEAN

\* Position of a record among the enqueued ones.
Before(c, d) == \E i, j \in 1 .. Len(enqueued) :
                  i < j /\ enqueued[i] = c /\ enqueued[j] = d

\* Nothing is stored twice or made up: the string lists each record at most once,
\* and only records that were enqueued and handled, whatever overlaps, gets lost
\* or restarts (singleton_queue.cc:43, main.go:17).
StoredOnce ==
    ~ torn => /\ IsInjective(gldata)
              /\ \A c \in Range(gldata) : record[c] = "stored" /\ c \in Range(enqueued)

\* Records come out in the order the connections closed as long as no call has
\* outlived the tick that followed it; timeouts and restarts leave gaps only
\* (singleton_queue.cc:43, 75-79).
StoredInOrder ==
    ~ overlapped =>
      \A i, j \in 1 .. Len(gldata) : i < j => Before(gldata[i], gldata[j])

\* The queue holds exactly the records that wait, in the order they came.
QueueIsWhatWaits ==
    /\ Range(queue) = {c \in Conns : record[c] = "queued"}
    /\ \A i, j \in 1 .. Len(queue) : i < j => Before(queue[i], queue[j])

\* "Storing Metrics", "Retrieving Metrics" (upstream/README.md:7-8): a record whose
\* store handler has answered is in the string, which a retrieve would return.
\* So it is until two store calls overlap (main.go:17 takes no lock) or the
\* service is started anew.
StoredStays ==
    ~ overlapped /\ ~ restarted =>
      \A c \in Conns : record[c] = "stored" => ~ torn /\ c \in Range(gldata)

\* Every enqueued record is taken, one per tick, and its call comes to an end.
EnqueuedIsSettled ==
    \A c \in Conns : record[c] = "queued" ~> record[c] \in {"stored", "lost"}
=============================================================================
