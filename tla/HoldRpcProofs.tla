--------------------------- MODULE HoldRpcProofs ----------------------------
(***************************************************************************)
(* Proofs about HoldRpc for every set of streams: its type invariant, the  *)
(* invariants on the remembered context, and that slot and timer implement *)
(* the debts of HeldRequests.  Given the types, each invariant is inductive by itself;  *)
(* IInv proves them in one pass over the actions.  What makes              *)
(* TimerServesHold so is that only OnTick forwards a held stream, and     *)
(* OnTick disarms the timer first.  At the end: if an armed timer fires,   *)
(* the newest hold ends.                                                   *)
(***************************************************************************)
EXTENDS HoldRpc, TLAPS

IInv == /\ TypeOK
        /\ TimerServesHold
        /\ HeldIsRemembered

LEMMA InitEstablishes == Init => IInv
  BY HoldAssumption
  DEF Init, IInv, TypeOK, StreamState, TimerServesHold, HeldIsRemembered

\* One step per action: what it does to the slot, the timer and the streams.
LEMMA StepPreserves == IInv /\ [Next]_vars => IInv'
<1> SUFFICES ASSUME IInv, [Next]_vars PROVE IInv'
  OBVIOUS
<1> USE HoldAssumption
        DEF IInv, TypeOK, StreamState, TimerServesHold, HeldIsRemembered
<1>1. CASE OnTick
  BY <1>1 DEF OnTick, TickResumes, HasContext, Resumed
<1>2. ASSUME NEW c \in Streams, RequestPassed(c) PROVE IInv'
  BY <1>2 DEF RequestPassed
<1>3. ASSUME NEW c \in Streams, RequestHeld(c) PROVE IInv'
  BY <1>3 DEF RequestHeld, HoldStarts
<1>4. ASSUME NEW c \in Streams, OnResponseHeaders(c) PROVE IInv'
  BY <1>4 DEF OnResponseHeaders
<1>5. ASSUME NEW c \in Streams, StreamClosed(c) PROVE IInv'
  BY <1>5 DEF StreamClosed, HasContext
<1>6. CASE UNCHANGED vars
  BY <1>6 DEF vars
<1> QED
  BY <1>1, <1>2, <1>3, <1>4, <1>5, <1>6 DEF Next

LEMMA InductiveInvariant == Spec => []IInv
  BY InitEstablishes, StepPreserves, PTL DEF Spec

\* Every variable keeps its type, for any number of streams.
THEOREM TypeCorrect == Spec => []TypeOK
  BY InductiveInvariant, PTL DEF IInv

\* The tick never continues a request that already went on (filter.cc:57-69), and
\* the stream in the slot is not left paused without a timer (filter.cc:59, 83-84).
THEOREM TimerAlwaysServesHold == Spec => []TimerServesHold
  BY InductiveInvariant, PTL DEF IInv

\* Until two holds overlap one slot is enough.
THEOREM SerialHoldsRemembered == Spec => []HeldIsRemembered
  BY InductiveInvariant, PTL DEF IInv

-----------------------------------------------------------------------------
LEMMA InitRefines == Init => Promise!Init
  BY DEF Init, Promise!Init, owed

\* TimerServesHold makes a tick a release or a lapse: the stream it is for is
\* paused or gone.
LEMMA StepRefines == IInv /\ [Next]_vars => [Promise!Next]_<<stream, owed>>
<1> SUFFICES ASSUME IInv, [Next]_vars PROVE [Promise!Next]_<<stream, owed>>
  OBVIOUS
<1> USE DEF IInv, TypeOK, Promise!Next, Promise!Move, owed
<1>1. CASE OnTick
  <2> DEFINE c == held_context_id_
  <2>1. c \in Streams /\ stream[c] \in {"held", "deleted"} /\ owed = c /\ owed' = NoContext
    BY <1>1 DEF OnTick, TimerServesHold
  <2>2. CASE stream[c] = "held"
    BY <1>1, <2>1, <2>2 DEF OnTick, TickResumes, HasContext, Resumed, Promise!Release
  <2>3. CASE stream[c] = "deleted"
    BY <1>1, <2>1, <2>3 DEF OnTick, TickResumes, HasContext, Promise!Lapse
  <2> QED
    BY <2>1, <2>2, <2>3
<1>2. ASSUME NEW c \in Streams, RequestPassed(c) PROVE Promise!Next
  BY <1>2 DEF RequestPassed, Promise!Host
<1>3. ASSUME NEW c \in Streams, RequestHeld(c) PROVE Promise!Next
  BY <1>3 DEF RequestHeld, HoldStarts, Promise!Hold
<1>4. ASSUME NEW c \in Streams, OnResponseHeaders(c) PROVE Promise!Next
  BY <1>4 DEF OnResponseHeaders, Promise!Host
<1>5. ASSUME NEW c \in Streams, StreamClosed(c) PROVE Promise!Next
  BY <1>5 DEF StreamClosed, HasContext, Promise!Host
<1>6. CASE UNCHANGED vars
  BY <1>6 DEF vars
<1> QED
  BY <1>1, <1>2, <1>3, <1>4, <1>5, <1>6 DEF Next

\* Every behaviour of the filter, overlapping holds included, keeps the debts of
\* HeldRequests: what overlap breaks is only that each held request is continued.
THEOREM ImplementsPromise == Spec => KeepsPromise
  BY InitRefines, StepRefines, InductiveInvariant, PTL DEF Spec, KeepsPromise, Promise!Spec
-----------------------------------------------------------------------------
\* What WF_vars(OnTick) says, with OnTick's guard where it has ENABLED, which the
\* provers cannot expand: OnTick disarms the timer, so it changes vars, and an
\* armed timer is all it waits for.
TimerFires == []<>(~ tickArmed) \/ []<><<OnTick>>_vars

Newest(c) == stream[c] = "held" /\ held_context_id_ = c
Ended(c) == stream[c] # "held" \/ held_context_id_ # c

LEMMA HoldEnds ==
    ASSUME NEW c \in Streams
    PROVE  Spec /\ TimerFires => (Newest(c) ~> Ended(c))
<1>1. IInv /\ Newest(c) => tickArmed
  BY DEF IInv, TimerServesHold, Newest
<1>2. IInv /\ Newest(c) /\ <<OnTick>>_vars => Ended(c)'
  BY HoldAssumption
     DEF IInv, TypeOK, Newest, Ended, OnTick, TickResumes, HasContext, Resumed
<1>3. Ended(c) <=> ~ Newest(c)
  BY DEF Newest, Ended
<1> QED
  BY <1>1, <1>2, <1>3, InductiveInvariant, PTL DEF TimerFires

\* If an armed timer fires, the newest hold ends or a newer one takes the slot
\* (filter.cc:57-69, 83-84).
THEOREM NewestHoldAlwaysEnds == Spec /\ TimerFires => NewestHoldEnds
  BY HoldEnds DEF NewestHoldEnds, Newest, Ended
=============================================================================
