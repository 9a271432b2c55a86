---------------------------- MODULE Runner_proofs ----------------------------
(* Proofs about Runner for every bound, pipe capacity and configuration.    *)
EXTENDS Runner, SequenceTheorems, TLAPS

(****************************** sequences ***********************************)

(* To move the oldest element of one queue to the end of the one before it  *)
(* leaves the two, read one after the other, as they were.                  *)
LEMMA MoveKeepsOrder ==
  ASSUME NEW p \in Seq(Record), NEW b \in Seq(Record), b # <<>>
  PROVE  /\ Tail(b) \in Seq(Record)
         /\ Append(p, Head(b)) \in Seq(Record)
         /\ Append(p, Head(b)) \o Tail(b) = p \o b
<1>1. Head(b) \in Record /\ Tail(b) \in Seq(Record)
  BY HeadTailProperties
<1>2. Append(p, Head(b)) \in Seq(Record)
  BY <1>1, AppendProperties
<1>3. Append(p, Head(b)) \o Tail(b) = p \o b
  BY <1>1, SMTT(60)
<1> QED BY <1>1, <1>2, <1>3

(* The three parts of a stream can be joined from either end.                *)
LEMMA Assoc ==
  ASSUME NEW c \in Seq(Record), NEW p \in Seq(Record), NEW b \in Seq(Record)
  PROVE  c \o p \o b = c \o (p \o b)
BY SMTT(60)

(* A writer puts a record at the end of its buffer. *)
LEMMA AppendAfter ==
  ASSUME NEW a \in Seq(Record), NEW b \in Seq(Record), NEW r \in Record
  PROVE  Append(a \o b, r) = a \o Append(b, r)
BY SMTT(60)

(* What is put last comes last in the whole stream.                          *)
LEMMA PutExtendsStream ==
  ASSUME NEW c \in Seq(Record), NEW p \in Seq(Record), NEW b \in Seq(Record),
         NEW r \in Record
  PROVE  Append(c \o p \o b, r) = c \o p \o Append(b, r)
<1> DEFINE a == c \o p
<1>1. a \in Seq(Record)
  OBVIOUS
<1> HIDE DEF a
<1>2. Append(a \o b, r) = a \o Append(b, r)
  BY <1>1, AppendAfter, Zenon
<1> QED BY <1>2 DEF a

(************************* the streams are kept ******************************)

(* What the steps may do to the streams: type and Conservation go together, *)
(* because neither is preserved without the other.                          *)
Typed(q) == q \in [Stream -> Seq(Record)]
Streams == Typed(put) /\ Typed(buffer) /\ Typed(pipe) /\ Typed(collected) /\ Conservation

(* A put, a write of the feeder and a read of the parent keep the streams:   *)
LEMMA PutOnKeeps ==
  ASSUME Streams, NEW s \in Stream, PutOn(s)
  PROVE  Streams'
<1> DEFINE r == Len(put[s]) + 1
<1>1. put[s] \in Seq(Record) /\ buffer[s] \in Seq(Record)
  BY DEF Streams, Typed
<1>2. r \in Record
  BY <1>1, RunnerAssumption DEF PutOn, Record
<1>3. /\ put' = [put EXCEPT ![s] = Append(put[s], r)]
      /\ buffer' = [buffer EXCEPT ![s] = Append(buffer[s], r)]
      /\ pipe' = pipe /\ collected' = collected
  BY DEF PutOn
<1> HIDE DEF r
<1>4. Append(put[s], r) \in Seq(Record) /\ Append(buffer[s], r) \in Seq(Record)
  BY <1>1, <1>2, AppendProperties
<1>5. Typed(put)' /\ Typed(buffer)' /\ Typed(pipe)' /\ Typed(collected)'
  BY <1>3, <1>4 DEF Streams, Typed
<1>6. ASSUME NEW t \in Stream
      PROVE  put'[t] = collected'[t] \o pipe'[t] \o buffer'[t]
  <2>1. CASE t = s
    <3>1. collected[s] \in Seq(Record) /\ pipe[s] \in Seq(Record)
      BY DEF Streams, Typed
    <3>2. Append(collected[s] \o pipe[s] \o buffer[s], r)
            = collected[s] \o pipe[s] \o Append(buffer[s], r)
      BY <1>1, <1>2, <3>1, PutExtendsStream
    <3>3. put[s] = collected[s] \o pipe[s] \o buffer[s]
      BY DEF Streams, Conservation
    <3>4. put'[s] = Append(put[s], r) /\ buffer'[s] = Append(buffer[s], r)
      BY <1>3 DEF Streams, Typed
    <3> QED BY <1>3, <2>1, <3>2, <3>3, <3>4
  <2>2. CASE t # s
    BY <1>3, <2>2 DEF Streams, Typed, Conservation
  <2> QED BY <2>1, <2>2
<1> QED BY <1>5, <1>6 DEF Streams, Conservation

(* the feeder moves the head of the buffer to the end of the pipe,           *)
LEMMA FeedKeeps ==
  ASSUME Streams, NEW s \in Stream, Feed(s)
  PROVE  Streams'
<1>1. buffer[s] \in Seq(Record) /\ pipe[s] \in Seq(Record) /\ collected[s] \in Seq(Record)
  BY DEF Streams, Typed
<1>2. /\ buffer[s] # <<>>
      /\ buffer' = [buffer EXCEPT ![s] = Tail(buffer[s])]
      /\ pipe' = [pipe EXCEPT ![s] = Append(pipe[s], Head(buffer[s]))]
      /\ put' = put /\ collected' = collected
  BY DEF Feed
<1>3. /\ Tail(buffer[s]) \in Seq(Record) /\ Append(pipe[s], Head(buffer[s])) \in Seq(Record)
      /\ collected[s] \o Append(pipe[s], Head(buffer[s])) \o Tail(buffer[s])
           = collected[s] \o pipe[s] \o buffer[s]
  <2> DEFINE p == Append(pipe[s], Head(buffer[s]))
             b == Tail(buffer[s])
  <2>1. buffer[s] # <<>>
    BY <1>2
  <2>2. b \in Seq(Record) /\ p \in Seq(Record) /\ p \o b = pipe[s] \o buffer[s]
    BY <1>1, <2>1, MoveKeepsOrder
  <2> HIDE DEF p, b
  <2>3. collected[s] \o p \o b = collected[s] \o (p \o b)
    BY <1>1, <2>2, Assoc
  <2>4. collected[s] \o pipe[s] \o buffer[s] = collected[s] \o (pipe[s] \o buffer[s])
    BY <1>1, Assoc
  <2>5. collected[s] \o p \o b = collected[s] \o pipe[s] \o buffer[s]
    BY <2>2, <2>3, <2>4, Zenon
  <2> QED BY <2>2, <2>5 DEF p, b
<1>4. Typed(put)' /\ Typed(buffer)' /\ Typed(pipe)' /\ Typed(collected)'
  BY <1>2, <1>3 DEF Streams, Typed
<1>5. ASSUME NEW t \in Stream
      PROVE  put'[t] = collected'[t] \o pipe'[t] \o buffer'[t]
  <2>1. CASE t = s
    <3>1. buffer'[s] = Tail(buffer[s]) /\ pipe'[s] = Append(pipe[s], Head(buffer[s]))
      BY <1>2 DEF Streams, Typed
    <3>2. put[s] = collected[s] \o pipe[s] \o buffer[s]
      BY DEF Streams, Conservation
    <3> QED BY <1>2, <1>3, <2>1, <3>1, <3>2, Zenon
  <2>2. CASE t # s
    BY <1>2, <2>2 DEF Streams, Typed, Conservation
  <2> QED BY <2>1, <2>2
<1> QED BY <1>4, <1>5 DEF Streams, Conservation

(* and the parent the head of the pipe to the end of what it has collected.  *)
LEMMA DrainKeeps ==
  ASSUME Streams, NEW ss \in SUBSET Stream, NEW here, NEW next, Drain(ss, here, next)
  PROVE  Streams'
<1>1. CASE UNCHANGED data
  BY <1>1 DEF Streams, Typed, Conservation, data
<1>2. ASSUME NEW s \in ss, pipe[s] # <<>>,
             pipe' = [pipe EXCEPT ![s] = Tail(@)],
             collected' = [collected EXCEPT ![s] = Taken(s)],
             UNCHANGED <<put, buffer>>
      PROVE  Streams'
  <2>1. s \in Stream /\ buffer[s] \in Seq(Record) /\ pipe[s] \in Seq(Record)
        /\ collected[s] \in Seq(Record)
    BY DEF Streams, Typed
  <2>2. /\ Tail(pipe[s]) \in Seq(Record) /\ Append(collected[s], Head(pipe[s])) \in Seq(Record)
        /\ Append(collected[s], Head(pipe[s])) \o Tail(pipe[s]) \o buffer[s]
             = collected[s] \o pipe[s] \o buffer[s]
    <3>1. /\ Tail(pipe[s]) \in Seq(Record) /\ Append(collected[s], Head(pipe[s])) \in Seq(Record)
          /\ Append(collected[s], Head(pipe[s])) \o Tail(pipe[s]) = collected[s] \o pipe[s]
      BY <1>2, <2>1, MoveKeepsOrder
    <3> QED BY <3>1, Zenon
  <2>3. Typed(put)' /\ Typed(buffer)' /\ Typed(pipe)' /\ Typed(collected)'
    BY <1>2, <2>1, <2>2 DEF Streams, Typed, Taken
  <2>4. ASSUME NEW t \in Stream
        PROVE  put'[t] = collected'[t] \o pipe'[t] \o buffer'[t]
    <3>1. CASE t = s
      <4>1. /\ pipe'[s] = Tail(pipe[s])
            /\ collected'[s] = Append(collected[s], Head(pipe[s]))
        BY <1>2, <2>1 DEF Streams, Typed, Taken
      <4>2. put[s] = collected[s] \o pipe[s] \o buffer[s]
        BY <2>1 DEF Streams, Conservation
      <4> QED BY <1>2, <2>2, <3>1, <4>1, <4>2, Zenon
    <3>2. CASE t # s
      BY <1>2, <3>2 DEF Streams, Typed, Conservation
    <3> QED BY <3>1, <3>2
  <2> QED BY <2>3, <2>4 DEF Streams, Conservation
<1> QED BY <1>1, <1>2 DEF Drain

(* So every step keeps the streams.                                          *)
LEMMA StreamsStep ==
  ASSUME Streams, [Next]_vars
  PROVE  Streams'
<1>1. CASE UNCHANGED data
  BY <1>1 DEF Streams, Typed, Conservation, data
<1>2. ASSUME NEW s \in Stream, PutOn(s)
      PROVE  Streams'
  BY <1>2, PutOnKeeps
<1>3. ASSUME NEW s \in Stream, Feed(s)
      PROVE  Streams'
  BY <1>3, FeedKeeps
<1>4. CASE GetOutput
  BY <1>4, DrainKeeps DEF GetOutput, Stream, WorkerStream
<1>5. CASE GetResult
  BY <1>5, DrainKeeps DEF GetResult, Stream
<1>6. CASE Start
  BY <1>6, <1>1, <1>2 DEF Start, PreStart, PollBroken, Spawn, Stream, ResultStream
<1>7. CASE Poll \/ StopPeriodic \/ PostStop \/ Release
  BY <1>7, <1>1, <1>2 DEF Poll, PollThen, StopPeriodic, StopActions, PostStop, Release, Return,
                          Stream, ResultStream
<1>8. CASE TerminateAll \/ Exit \/ Leave \/ Gone \/ UNCHANGED vars
  BY <1>8, <1>1 DEF TerminateAll, Terminate, Exit, Leave, Gone, vars
<1>9. CASE Worker
  BY <1>9, <1>1, <1>2 DEF Worker, WorkerReturn, WorkerPut, Stream
<1>10. CASE SingleAction \/ PeriodicAction
  BY <1>10, <1>2 DEF SingleAction, PeriodicAction, Stream, ResultStream
<1>11. CASE \E c \in Child : ChildExit(c)
  BY <1>11, <1>1 DEF ChildExit
<1> QED BY <1>3, <1>4, <1>5, <1>6, <1>7, <1>8, <1>9, <1>10, <1>11 DEF Next, Parent, Join

(************************* the inductive invariant **************************)

(* Conservation alone is inductive, but JoinIsComplete is not: that nothing *)
(* is left in the pipes follows from where the parent is, and that nothing  *)
(* is left in the buffers from the exit of the worker.  Control says both.  *)
IInv == TypeOK /\ Conservation /\ Control /\ LiveIsRegistered

(* Types and conservation give what is needed of the streams,                *)
LEMMA TypeIsStreams == TypeOK /\ Conservation => Streams
BY DEF TypeOK, Streams, Typed

(* The scalar part of TypeOK *)
ScalarOK == /\ conf \in SUBSET Action
            /\ pc \in {"prestart", "single", "periodic", "worker", "broken", "failed",
                       "poll", "drainOutput", "drainResult", "lastOutput", "lastResult",
                       "stop", "post", "release", "released", "atexit", "exit", "gone"}
            /\ proc \in [Child -> {"none", "running", "flushing", "exited", "killed"}]
            /\ exitcode \in {"none", "ok", "error"}
            /\ registered \in BOOLEAN
            /\ status \in {"none", "ok", "error"}

(* and follow from it, with the types of the rest.                           *)
LEMMA TypeFromParts == ScalarOK /\ Streams => TypeOK /\ Conservation
BY DEF ScalarOK, Streams, Typed, TypeOK

(* At the start there are no processes and no records.                       *)
LEMMA InitInv == Init => IInv
<1> SUFFICES ASSUME Init PROVE IInv
  OBVIOUS
<1>1. Empty \in [Stream -> Seq(Record)] /\ \A s \in Stream : Empty[s] = <<>>
  BY DEF Empty
<1>2. \A s \in Stream : put[s] = collected[s] \o pipe[s] \o buffer[s]
  <2>1. <<>> = <<>> \o <<>> \o <<>>
    OBVIOUS
  <2> QED BY <1>1, <2>1, Zenon DEF Init
<1>3. ScalarOK
  BY RunnerAssumption DEF Init, ScalarOK, Child
<1>4. Control /\ LiveIsRegistered
  BY DEF Init, Control, WorkerSettled, LiveIsRegistered, Alive, Child, Joined, Unregistered
<1> QED BY <1>1, <1>2, <1>3, <1>4, TypeFromParts DEF Init, IInv, Streams, Typed, Conservation

(* Every step keeps the types of what is not a stream.                       *)
LEMMA ScalarStep ==
  ASSUME IInv, [Next]_vars
  PROVE  ScalarOK'
<1> USE DEF IInv, TypeOK, ScalarOK, Child
<1>1. CASE Start
  BY <1>1 DEF Start, PreStart, PollBroken, Spawn
<1>2. CASE Poll \/ GetOutput \/ GetResult
  BY <1>2 DEF Poll, PollThen, GetOutput, GetResult, Drain
<1>3. CASE StopPeriodic \/ PostStop \/ Release
  BY <1>3 DEF StopPeriodic, StopActions, Kill, PostStop, Release, Return
<1>4. CASE TerminateAll \/ Exit \/ Leave \/ Gone \/ UNCHANGED vars
  BY <1>4 DEF TerminateAll, Terminate, Kill, Exit, Leave, Gone, vars
<1>5. CASE Worker
  BY <1>5 DEF Worker, WorkerReturn, WorkerPut
<1>6. CASE SingleAction \/ PeriodicAction
  BY <1>6 DEF SingleAction, PeriodicAction
<1>7. CASE \E s \in Stream : Feed(s)
  BY <1>7 DEF Feed
<1>8. CASE \E c \in Child : ChildExit(c)
  BY <1>8 DEF ChildExit
<1> QED BY <1>1, <1>2, <1>3, <1>4, <1>5, <1>6, <1>7, <1>8 DEF Next, Parent, Join

(* The worker's own streams are touched by nobody else, and by no feeder    *)
(* once the worker has exited.                                              *)
WorkerStreamsKept == \A t \in WorkerStream : buffer'[t] = buffer[t] /\ pipe'[t] = pipe[t]

(* What actions and the main process put is not on the worker's streams,     *)
LEMMA ForeignPut ==
  ASSUME TypeOK, NEW s \in {"single", "periodic", "main"}, PutOn(s)
  PROVE  WorkerStreamsKept
<1>1. buffer \in [Stream -> Seq(Record)]
  BY DEF TypeOK
<1>2. \A t \in WorkerStream : t # s /\ t \in Stream
  BY DEF WorkerStream, Stream
<1> QED BY <1>1, <1>2 DEF PutOn, WorkerStreamsKept

(* and once the worker has ended, no feeder writes those any more.           *)
LEMMA LateFeed ==
  ASSUME TypeOK, NEW s \in Stream, Feed(s), ~ Alive("worker")
  PROVE  WorkerStreamsKept
<1>1. buffer \in [Stream -> Seq(Record)] /\ pipe \in [Stream -> Seq(Record)]
  BY DEF TypeOK
<1>2. s \notin WorkerStream
  BY DEF Feed, Writer, WorkerStream
<1>3. \A t \in WorkerStream : t # s /\ t \in Stream
  BY <1>2 DEF Stream
<1> QED BY <1>1, <1>3 DEF Feed, WorkerStreamsKept

(* Every step keeps what the place of the parent says of the worker.         *)
LEMMA ControlStep ==
  ASSUME IInv, [Next]_vars
  PROVE  Control' /\ LiveIsRegistered'
<1> USE DEF IInv, TypeOK, Control, WorkerSettled, LiveIsRegistered, Alive, Child, Joined,
            Unregistered, WorkerStream
<1>1. CASE Start
  <2>1. CASE PreStart
    BY <1>1, <2>1 DEF PreStart, PutOn
  <2>2. CASE PollBroken
    BY <2>2 DEF PollBroken, data
  <2>3. CASE Spawn("single", "periodic") \/ Spawn("periodic", "worker") \/ Spawn("worker", "poll")
    BY <2>3 DEF Spawn, data
  <2> QED BY <1>1, <2>1, <2>2, <2>3 DEF Start
<1>2. CASE Poll
  BY <1>2 DEF Poll, PollThen, data
<1>3. CASE GetOutput
  BY <1>3 DEF GetOutput, Drain, data, Stream, ResultStream
<1>4. CASE GetResult
  BY <1>4 DEF GetResult, Drain, data, Stream, ResultStream
<1>5. CASE StopPeriodic
  BY <1>5 DEF StopPeriodic, StopActions, Kill, data
<1>6. CASE PostStop
  <2>1. WorkerStreamsKept
    BY <1>6, ForeignPut DEF PostStop, data, WorkerStreamsKept
  <2> QED BY <1>6, <2>1 DEF PostStop, WorkerStreamsKept
<1>7. CASE Release
  BY <1>7 DEF Release, Return, data
<1>8. CASE TerminateAll
  BY <1>8 DEF TerminateAll, Terminate, Kill, data
<1>9. CASE Exit \/ Leave \/ Gone \/ UNCHANGED vars
  BY <1>9 DEF Exit, Leave, Gone, vars, data
<1>10. CASE Worker
  BY <1>10 DEF Worker, WorkerReturn, WorkerPut, PutOn, data
<1>11. CASE SingleAction \/ PeriodicAction
  <2>1. WorkerStreamsKept
    BY <1>11, ForeignPut DEF SingleAction, PeriodicAction
  <2> QED BY <1>11, <2>1 DEF SingleAction, PeriodicAction, WorkerStreamsKept
<1>12. CASE \E s \in Stream : Feed(s)
  <2>1. ~ Alive("worker") => WorkerStreamsKept
    BY <1>12, LateFeed
  <2>2. UNCHANGED <<pc, proc, exitcode, registered, status>>
    BY <1>12 DEF Feed
  <2> QED BY <2>1, <2>2 DEF WorkerStreamsKept
<1>13. CASE \E c \in Child : ChildExit(c)
  <2>1. PICK c \in Child : ChildExit(c)
    BY <1>13
  <2>2. UNCHANGED <<pc, buffer, pipe, exitcode, registered, status>>
    BY <2>1 DEF ChildExit, data
  <2>3. c = "worker" => \A s \in WorkerStream : buffer[s] = <<>>
    BY <2>1 DEF ChildExit, Writer, Stream
  <2>4. proc[c] = "flushing" /\ proc' = [proc EXCEPT ![c] = "exited"]
    BY <2>1 DEF ChildExit
  <2> QED BY <2>2, <2>3, <2>4
<1> QED BY <1>1, <1>2, <1>3, <1>4, <1>5, <1>6, <1>7, <1>8, <1>9, <1>10, <1>11, <1>12, <1>13
        DEF Next, Parent, Join

(* The inductive invariant holds in every reachable state, for every bound, *)
(* pipe capacity and configuration of actions.                              *)
THEOREM Invariant == Spec => []IInv
<1>1. IInv /\ [Next]_vars => IInv'
  <2> SUFFICES ASSUME IInv, [Next]_vars PROVE IInv'
    OBVIOUS
  <2>1. Streams
    BY TypeIsStreams DEF IInv
  <2>2. Streams'
    BY <2>1, StreamsStep
  <2>3. ScalarOK'
    BY ScalarStep
  <2>4. Control' /\ LiveIsRegistered'
    BY ControlStep
  <2>5. TypeOK' /\ Conservation'
    BY <2>2, <2>3 DEF ScalarOK, Streams, Typed, TypeOK
  <2> QED BY <2>4, <2>5 DEF IInv
<1> QED BY InitInv, <1>1, PTL DEF Spec

(* A stream whose buffer and pipe are empty has been collected completely. *)
LEMMA NothingLeft ==
  ASSUME IInv, NEW s \in WorkerStream, pipe[s] = <<>>, buffer[s] = <<>>
  PROVE  collected[s] = put[s]
<1>1. s \in Stream
  BY DEF Stream
<1>2. collected[s] \in Seq(Record) /\ put[s] = collected[s] \o pipe[s] \o buffer[s]
  BY <1>1 DEF IInv, TypeOK, Conservation
<1>3. \A c \in Seq(Record) : c \o <<>> \o <<>> = c
  OBVIOUS
<1> QED BY <1>2, <1>3

(* From the release on, everything the worker put has been collected.        *)
LEMMA CompleteAtRelease == IInv /\ (status # "none" \/ pc = "release") => \A s \in WorkerStream :
                             collected[s] = put[s]
<1> SUFFICES ASSUME IInv, status # "none" \/ pc = "release", NEW s \in WorkerStream
             PROVE  collected[s] = put[s]
  OBVIOUS
<1>1. pipe[s] = <<>> /\ buffer[s] = <<>>
  BY DEF IInv, Control, WorkerSettled, Joined, WorkerStream
<1> QED BY <1>1, NothingLeft

(* The process of a runner, its queues and the lists kept of them are what   *)
(* they are meant to be, with any number of items, workers and periodic      *)
(* actions.                                                                  *)
THEOREM TypeCorrect == Spec => []TypeOK
<1>1. IInv => TypeOK
  BY DEF IInv
<1> QED BY <1>1, Invariant, PTL

(* runner_join() returns everything the worker put. *)
THEOREM JoinLosesNothing == Spec => []JoinIsComplete
<1>1. IInv => JoinIsComplete
  BY CompleteAtRelease DEF JoinIsComplete
<1> QED BY <1>1, Invariant, PTL

(* Records are neither lost, nor repeated, nor reordered on their way. *)
THEOREM StreamsConserved == Spec => []Conservation
<1>1. IInv => Conservation
  BY DEF IInv
<1> QED BY <1>1, Invariant, PTL

(* No worker and no periodic action outlives its place in Runner.runners,   *)
(* and after the release or the exit handler only a single-shot action can  *)
(* still be alive.                                                          *)
THEOREM NoOrphanButSingleShot == Spec => []OrphanIsSingleShot
<1>1. IInv => OrphanIsSingleShot
  BY DEF IInv, Control, LiveIsRegistered, OrphanIsSingleShot, Unregistered, Child
<1> QED BY <1>1, Invariant, PTL

(************************* refinement ***************************************)

CVars == <<[s \in WorkerStream |-> put[s]], [s \in WorkerStream |-> collected[s]], status>>

(* The contract sees only the worker's streams and the status.               *)
LEMMA QuietStep ==
  ASSUME \A s \in WorkerStream : put'[s] = put[s] /\ collected'[s] = collected[s],
         status' = status
  PROVE  CVars' = CVars
BY DEF CVars

(* A put of the worker is a put of the contract,                             *)
LEMMA PutRefines ==
  ASSUME IInv, NEW s \in WorkerStream, WorkerPut(s)
  PROVE  Contract!Put(s)
<1>1. status = "none"
  BY DEF IInv, Control, WorkerPut
<1>2. put \in [Stream -> Seq(Record)] /\ s \in Stream /\ WorkerStream \subseteq Stream
  BY DEF IInv, TypeOK, Stream
<1>3. Len(put[s]) + 1 \in Record
  BY <1>2, RunnerAssumption DEF WorkerPut, PutOn, Record
<1>4. [t \in WorkerStream |-> put'[t]]
        = [[t \in WorkerStream |-> put[t]] EXCEPT ![s] = Append(@, Len(put[s]) + 1)]
  BY <1>2 DEF WorkerPut, PutOn
<1>5. UNCHANGED <<collected, status>>
  BY DEF WorkerPut, PutOn
<1> QED BY <1>1, <1>3, <1>4, <1>5 DEF Contract!Put

(* The next record to be received is the one at the head of the pipe. *)
LEMMA NextInStream ==
  ASSUME NEW c \in Seq(Record), NEW p \in Seq(Record), NEW b \in Seq(Record), p # <<>>
  PROVE  Len(c) < Len(c \o p \o b) /\ (c \o p \o b)[Len(c) + 1] = Head(p)
OBVIOUS

(* a record that is read is received there, and is the next one,             *)
LEMMA TakeRefines ==
  ASSUME IInv, status = "none", NEW s \in WorkerStream, pipe[s] # <<>>,
         collected' = [collected EXCEPT ![s] = Taken(s)], UNCHANGED <<put, status>>
  PROVE  Contract!Receive(s)
<1>1. /\ s \in Stream /\ WorkerStream \subseteq Stream
      /\ collected \in [Stream -> Seq(Record)]
      /\ collected[s] \in Seq(Record) /\ pipe[s] \in Seq(Record) /\ buffer[s] \in Seq(Record)
      /\ put[s] = collected[s] \o pipe[s] \o buffer[s]
  BY DEF IInv, TypeOK, Conservation, Stream
<1>3. Len(collected[s]) < Len(put[s]) /\ put[s][Len(collected[s]) + 1] = Head(pipe[s])
  <2> DEFINE c == collected[s]
             p == pipe[s]
             b == buffer[s]
  <2>1. c \in Seq(Record) /\ p \in Seq(Record) /\ b \in Seq(Record) /\ p # <<>>
    BY <1>1
  <2>2. put[s] = c \o p \o b
    BY <1>1
  <2> HIDE DEF c, p, b
  <2>3. Len(c) < Len(c \o p \o b) /\ (c \o p \o b)[Len(c) + 1] = Head(p)
    BY <2>1, NextInStream
  <2> QED BY <2>2, <2>3 DEF c, p, b
<1>4. [t \in WorkerStream |-> collected'[t]]
        = [[t \in WorkerStream |-> collected[t]]
             EXCEPT ![s] = Append(@, put[s][Len(collected[s]) + 1])]
  BY <1>1, <1>3 DEF Taken
<1> QED BY <1>3, <1>4 DEF Contract!Receive

(* so a turn of the loops that read receives one record or none.             *)
LEMMA DrainRefines ==
  ASSUME IInv, status = "none", NEW ss \in SUBSET Stream, NEW here, NEW next, Drain(ss, here, next)
  PROVE  (\E s \in WorkerStream : Contract!Receive(s)) \/ CVars' = CVars
<1>1. CASE UNCHANGED data
  BY <1>1, QuietStep DEF data, Drain
<1>2. ASSUME NEW s \in ss, pipe[s] # <<>>, collected' = [collected EXCEPT ![s] = Taken(s)],
             UNCHANGED <<put, buffer>>
      PROVE  (\E t \in WorkerStream : Contract!Receive(t)) \/ CVars' = CVars
  <2>1. status' = status
    BY DEF Drain
  <2>2. CASE s \in WorkerStream
    BY <1>2, <2>1, <2>2, TakeRefines
  <2>3. CASE s \notin WorkerStream
    <3>1. \A t \in WorkerStream : t # s /\ t \in Stream
      BY <2>3 DEF Stream
    <3>2. collected \in [Stream -> Seq(Record)]
      BY DEF IInv, TypeOK
    <3> QED BY <1>2, <2>1, <3>1, <3>2, QuietStep
  <2> QED BY <2>2, <2>3
<1> QED BY <1>1, <1>2 DEF Drain

(* The contract does not see what others put.                                *)
LEMMA ForeignPutQuiet ==
  ASSUME IInv, NEW s \in {"single", "periodic", "main"}, PutOn(s), status' = status
  PROVE  CVars' = CVars
<1>1. put \in [Stream -> Seq(Record)]
  BY DEF IInv, TypeOK
<1>2. \A t \in WorkerStream : t # s /\ t \in Stream
  BY DEF WorkerStream, Stream
<1> QED BY <1>1, <1>2, QuietStep DEF PutOn

(* The release comes when the contract allows it.                            *)
LEMMA ReleaseRefines ==
  ASSUME IInv, Release
  PROVE  Contract!Release
<1>1. status = "none" /\ exitcode \in {"ok", "error"}
  BY DEF IInv, TypeOK, Control, WorkerSettled, Joined, Unregistered, Release, Return
<1>2. \A s \in WorkerStream : collected[s] = put[s]
  BY CompleteAtRelease DEF Release, Return
<1> QED BY <1>1, <1>2 DEF Release, Return, Contract!Release, Contract!Final, data

(* Every step is a step of the contract, or one that it does not see.        *)
LEMMA StepRefines ==
  ASSUME IInv, [Next]_vars
  PROVE  Contract!Next \/ CVars' = CVars
<1>1. CASE UNCHANGED <<put, collected, status>>
  BY <1>1, QuietStep
<1>2. CASE Start
  <2>1. CASE PreStart
    BY <2>1, ForeignPutQuiet DEF PreStart
  <2>2. CASE ~ PreStart
    BY <1>2, <2>2, <1>1 DEF Start, PollBroken, Spawn, data
  <2> QED BY <2>1, <2>2
<1>3. CASE GetOutput \/ GetResult
  <2>1. status = "none"
    BY <1>3 DEF GetOutput, GetResult, Drain, IInv, Control, Unregistered
  <2>2. {"output"} \in SUBSET Stream /\ ResultStream \in SUBSET Stream
    BY DEF Stream, WorkerStream
  <2>3. (\E s \in WorkerStream : Contract!Receive(s)) \/ CVars' = CVars
    BY <1>3, <2>1, <2>2, DrainRefines DEF GetOutput, GetResult
  <2> QED BY <2>3 DEF Contract!Next
<1>4. CASE PostStop
  BY <1>4, <1>1, ForeignPutQuiet DEF PostStop, data
<1>5. CASE Release
  BY <1>5, ReleaseRefines DEF Contract!Next
<1>6. CASE Poll \/ StopPeriodic \/ TerminateAll \/ Exit \/ Leave \/ Gone \/ UNCHANGED vars
  BY <1>6, <1>1 DEF Poll, PollThen, StopPeriodic, StopActions, TerminateAll, Terminate, Exit,
                    Leave, Gone, vars, data
<1>7. CASE Worker
  BY <1>7, <1>1, PutRefines DEF Worker, WorkerReturn, data, Contract!Next
<1>8. CASE SingleAction \/ PeriodicAction
  BY <1>8, ForeignPutQuiet DEF SingleAction, PeriodicAction
<1>9. CASE (\E s \in Stream : Feed(s)) \/ (\E c \in Child : ChildExit(c))
  BY <1>9, <1>1 DEF Feed, ChildExit, data
<1> QED BY <1>2, <1>3, <1>4, <1>5, <1>6, <1>7, <1>8, <1>9 DEF Next, Parent, Join

(* Every runner behaves as RunnerContract allows: its steps are the steps   *)
(* of the contract or invisible to it.                                      *)
THEOREM Refinement == Spec => ImplementsContract
<1>1. Init => Contract!Init
  BY DEF Init, Contract!Init, Empty, Stream
<1>2. IInv /\ [Next]_vars => [Contract!Next]_(Contract!vars)
  BY StepRefines DEF CVars, Contract!vars
<1> QED BY <1>1, <1>2, Invariant, PTL DEF Spec, ImplementsContract, Contract!Spec

=============================================================================
