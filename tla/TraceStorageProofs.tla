-------------------------- MODULE TraceStorageProofs --------------------------
(***************************************************************************)
(* Theorems about TraceStorage, for any calls, traces and assignment of    *)
(* one to the other.  StorageInv is inductive; beside the properties it    *)
(* says how far a call has come at the service when its filter has it at   *)
(* some stage: a call not made yet is unknown there, an answered one was   *)
(* written, and so was every call that was answered before another began.  *)
(* Writes that overlap may damage the map; what is said of it is said      *)
(* until then, and again of the map of the next process.                   *)
(***************************************************************************)
EXTENDS TraceStorage, TLAPS

\* A call not made is not known to the service; only keys of traces are written.
Known == /\ \A c \in Calls : caller[c] = "new" => handler[c] = "none"
         /\ \A c \in Calls : handler[c] \in {"writing", "written"} => TraceOf[c] # NoTrace
         /\ \A c \in Calls : caller[c] = "answered" => handler[c] = "written"

\* What was answered when c was made had been written, and is not c.
Earlier == \A c \in Calls : \A d \in answeredBy[c] : d # c /\ handler[d] = "written"

\* AnsweredIsThere speaks of the callers; what they are told follows what the
\* handlers did.
WrittenIsThere ==
    running /\ ~ restarted /\ ~ damaged =>
        \A c \in Calls : handler[c] = "written" => gldata[TraceOf[c]] # NoCall

StorageInv == /\ TypeOK /\ Known /\ Earlier
              /\ ValueIsOfItsTrace /\ WrittenIsThere /\ NeverGoesBack

\* Before any call nothing is stored.
LEMMA InitEstablishes == Init => StorageInv
  <1> SUFFICES ASSUME Init PROVE StorageInv  OBVIOUS
  <1> USE StorageAssumption DEF Init
  <1>1. TypeOK  BY DEF TypeOK
  <1>2. Known /\ Earlier  BY DEF Known, Earlier
  <1>3. ValueIsOfItsTrace /\ WrittenIsThere /\ NeverGoesBack
    BY DEF ValueIsOfItsTrace, WrittenIsThere, NeverGoesBack
  <1> QED  BY <1>1, <1>2, <1>3 DEF StorageInv

\* Making a call, or not making one, keeps the invariant: the service does not know
\* the call yet, so nothing that was said of its handler is lost.
LEMMA HttpCallKeeps ==
  ASSUME StorageInv, NEW c \in Calls, caller[c] = "new",
         \/ HttpCall(c)
         \/ caller' = [caller EXCEPT ![c] = "none"] /\ UNCHANGED <<handler, answeredBy>>,
         UNCHANGED <<gldata, running, damaged, restarted>>
  PROVE  StorageInv'
  <1> USE StorageAssumption DEF StorageInv, TypeOK, Known
  <1>1. TypeOK'  BY DEF HttpCall
  <1>2. Known'  BY DEF HttpCall
  <1>3. \A d \in Calls : handler[d] \in {"writing", "written"} <=> handler'[d] \in {"writing", "written"}
    BY DEF HttpCall
  <1>3a. \A d \in Calls : handler[d] = "written" <=> handler'[d] = "written"
    BY DEF HttpCall
  <1>4. Earlier'
    <2>1. CASE UNCHANGED answeredBy  BY <2>1, <1>3a DEF Earlier
    <2>2. CASE answeredBy' = [answeredBy EXCEPT ![c] = {d \in Calls : caller[d] = "answered"}]
      BY <2>2, <1>3a DEF Earlier
    <2> QED  BY <2>1, <2>2 DEF HttpCall
  <1>5. ValueIsOfItsTrace'  BY <1>3a DEF ValueIsOfItsTrace
  <1>6. WrittenIsThere'  BY <1>3a DEF WrittenIsThere
  <1>7. NeverGoesBack'
    <2> SUFFICES ASSUME NEW d \in Calls, NEW e \in answeredBy'[d],
                        TraceOf[e] = TraceOf[d], handler'[d] = "written"
                 PROVE  gldata'[TraceOf[d]] # e
      BY DEF NeverGoesBack
    <2>1. d # c /\ handler[d] = "written"  BY <1>3a
    <2>2. answeredBy'[d] = answeredBy[d]  BY <2>1 DEF HttpCall
    <2> QED  BY <2>1, <2>2 DEF NeverGoesBack
  <1> QED  BY <1>1, <1>2, <1>4, <1>5, <1>6, <1>7

\* The end of an assignment is the one step that changes the map of a living
\* process.  If it leaves the map damaged nothing is claimed of the map.  Else a
\* call that is being written was not answered, so it is in no answeredBy, and it
\* is not in its own.
LEMMA StoredKeeps == ASSUME StorageInv, NEW c \in Calls, Stored(c) PROVE StorageInv'
  <1> USE StorageAssumption DEF StorageInv, TypeOK, Known
  <1>1. /\ handler' = [handler EXCEPT ![c] = "written"]
        /\ handler[c] = "writing" /\ TraceOf[c] \in Traces
        /\ UNCHANGED <<caller, answeredBy, running, restarted>>
    BY DEF Stored, Keys
  <1>2. damaged' \in BOOLEAN /\ (damaged => damaged')
    BY DEF Stored
  <1>3. ~ damaged' => gldata' = [gldata EXCEPT ![TraceOf[c]] = c]
    BY DEF Stored, Assigned
  <1>4. TypeOK'
    <2>1. CASE damaged'  BY <1>1, <1>2, <2>1 DEF Stored
    <2>2. CASE ~ damaged'  BY <1>1, <1>2, <1>3, <2>2 DEF Keys
    <2> QED  BY <2>1, <2>2
  <1>5. Known' /\ Earlier'  BY <1>1 DEF Earlier
  <1>6. CASE damaged'
    BY <1>4, <1>5, <1>6 DEF ValueIsOfItsTrace, WrittenIsThere, NeverGoesBack
  <1>7. CASE ~ damaged'
    <2>1. /\ gldata' = [gldata EXCEPT ![TraceOf[c]] = c]
          /\ ~ damaged
      BY <1>2, <1>3, <1>7
    <2>2. ValueIsOfItsTrace'  BY <1>1, <2>1 DEF ValueIsOfItsTrace, Keys
    <2>3. WrittenIsThere'  BY <1>1, <2>1 DEF WrittenIsThere, Keys
    <2>4. NeverGoesBack'
      <3> SUFFICES ASSUME NEW d \in Calls, NEW e \in answeredBy[d],
                          TraceOf[e] = TraceOf[d], handler'[d] = "written"
                   PROVE  gldata'[TraceOf[d]] # e
        BY <1>1 DEF NeverGoesBack
      <3>1. e # d /\ e # c  BY <1>1 DEF Earlier
      <3>2. CASE TraceOf[d] = TraceOf[c]  BY <1>1, <2>1, <3>1, <3>2 DEF Keys
      <3>3. CASE TraceOf[d] # TraceOf[c]
        BY <1>1, <2>1, <3>3 DEF NeverGoesBack, Keys
      <3> QED  BY <3>2, <3>3
    <2> QED  BY <1>4, <1>5, <2>2, <2>3, <2>4
  <1> QED  BY <1>6, <1>7

\* Every other step of a call leaves the map alone and finishes no handler.
LEMMA OtherStepsKeep ==
  ASSUME StorageInv, NEW c \in Calls,
         Store(c) \/ Callback(c) \/ TimedOut(c) \/ Dropped(c)
  PROVE  StorageInv'
  <1> USE StorageAssumption DEF StorageInv, TypeOK, Known
  <1>1. \A d \in Calls : handler'[d] = "written" <=> handler[d] = "written"
    BY DEF Store, Callback, TimedOut, Dropped
  <1>2. UNCHANGED <<answeredBy, gldata, running, damaged, restarted>>
    BY DEF Store, Callback, TimedOut, Dropped
  <1>3. TypeOK'  BY DEF Store, Callback, TimedOut, Dropped
  <1>4. Known'  BY DEF Store, Callback, TimedOut, Dropped
  <1>5. Earlier'  BY <1>1, <1>2 DEF Earlier
  <1>6. ValueIsOfItsTrace'  BY <1>1, <1>2 DEF ValueIsOfItsTrace
  <1>7. WrittenIsThere' /\ NeverGoesBack'
    BY <1>1, <1>2 DEF WrittenIsThere, NeverGoesBack
  <1> QED  BY <1>3, <1>4, <1>5, <1>6, <1>7

\* The end of the process empties the map; what was written was, and is no more.
LEMMA AbortKeeps == ASSUME StorageInv, Abort \/ Restart PROVE StorageInv'
  <1> USE StorageAssumption DEF StorageInv, TypeOK, Known
  <1>1. CASE Restart
    <2>1. TypeOK'  BY <1>1 DEF Restart
    <2>2. Known' /\ Earlier' /\ ValueIsOfItsTrace'
      BY <1>1 DEF Restart, Earlier, ValueIsOfItsTrace
    <2>3. WrittenIsThere' /\ NeverGoesBack'
      BY <1>1 DEF Restart, WrittenIsThere, NeverGoesBack
    <2> QED  BY <2>1, <2>2, <2>3
  <1>2. CASE Abort
    <2>1. TypeOK'  BY <1>2 DEF Abort
    <2>2. \A d \in Calls : handler[d] = "written" <=> handler'[d] = "written"
      BY <1>2 DEF Abort
    <2>3. Known' /\ Earlier'  BY <1>2, <2>2 DEF Abort, Earlier
    <2>4. \A k \in Keys : gldata'[k] = NoCall  BY <1>2 DEF Abort
    <2>5. ValueIsOfItsTrace' /\ WrittenIsThere'
      BY <1>2, <2>4 DEF Abort, ValueIsOfItsTrace, WrittenIsThere
    <2>6. NeverGoesBack'
      <3>1. \A d \in Calls : TraceOf[d] \in Keys /\ \A e \in answeredBy'[d] : e # NoCall
        BY <2>1
      <3> QED  BY <2>4, <3>1 DEF NeverGoesBack
    <2> QED  BY <2>1, <2>3, <2>5, <2>6
  <1> QED  BY <1>1, <1>2

\* The inductive invariant, with one case per action.
THEOREM StorageInvariant == Spec => []StorageInv
  <1>1. Init => StorageInv  BY InitEstablishes
  <1>2. StorageInv /\ [Next]_vars => StorageInv'
    <2> SUFFICES ASSUME StorageInv, [Next]_vars PROVE StorageInv'  OBVIOUS
    <2>1. CASE UNCHANGED vars
      BY <2>1 DEF vars, StorageInv, TypeOK, Known, Earlier, ValueIsOfItsTrace,
                  WrittenIsThere, NeverGoesBack
    <2>2. CASE Abort \/ Restart  BY <2>2, AbortKeeps
    <2>3. ASSUME NEW c \in Requests, OnRequestHeaders(c) PROVE StorageInv'
      BY <2>3, HttpCallKeeps DEF OnRequestHeaders, Calls
    <2>4. ASSUME NEW c \in Matches, OnResponseMatches(c) PROVE StorageInv'
      BY <2>4, HttpCallKeeps DEF OnResponseMatches, Calls
    <2>5. ASSUME NEW c \in Calls, Stored(c) PROVE StorageInv'  BY <2>5, StoredKeeps
    <2>6. ASSUME NEW c \in Calls, Store(c) \/ Callback(c) \/ TimedOut(c) \/ Dropped(c)
          PROVE  StorageInv'
      BY <2>6, OtherStepsKeep
    <2> QED  BY <2>1, <2>2, <2>3, <2>4, <2>5, <2>6 DEF Next
  <1> QED  BY <1>1, <1>2, PTL DEF Spec

\* Types, for any calls and traces.
THEOREM TypeCorrect == Spec => []TypeOK
  BY StorageInvariant, PTL DEF StorageInv

\* Until overlapping writes damage the map, what it holds for a trace was brought by
\* a call of that trace (storage-upstream/main.go:10-28).
THEOREM ValuesKeepTheirTrace == Spec => []ValueIsOfItsTrace
  BY StorageInvariant, PTL DEF StorageInv

\* What a filter was told is stored is there until the process ends or the map is
\* damaged
\* (storage-upstream/main.go:25-27).
THEOREM AnswersHold == Spec => []AnsweredIsThere
  <1>1. StorageInv => AnsweredIsThere
    BY DEF StorageInv, Known, WrittenIsThere, AnsweredIsThere
  <1> QED  BY <1>1, StorageInvariant, PTL

\* However late a call is handled, a map that is not damaged never returns to a value whose answer
\* came before that call was made (storage-upstream/main.go:25).
THEOREM TracesNeverGoBack == Spec => []NeverGoesBack
  BY StorageInvariant, PTL DEF StorageInv
=============================================================================
