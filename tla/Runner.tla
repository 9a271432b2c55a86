------------------------------- MODULE Runner -------------------------------
(* One runner of vnftest/runners/base.py: run() starts the action processes *)
(* and the worker, runner_join() of core/task.py polls and drains, join()   *)
(* drains a last time, and the exit handler terminates what is left.        *)
(*                                                                          *)
(* A multiprocessing.Queue is a buffer in each writing process, a feeder    *)
(* thread that moves it into a pipe of bounded capacity, and the reader of  *)
(* the pipe.  A child process does not exit before its feeder has emptied   *)
(* its buffer.  The one result queue has up to four writers; a stream is    *)
(* what one writer puts on one queue, and the order in which the records of *)
(* different writers meet in the pipe is left open.                         *)
(*                                                                          *)
(* A definition marked "variant" is no part of the specification: it is a   *)
(* plausible mistake in the code that a property below would find.          *)
EXTENDS Naturals, Sequences, FiniteSets

CONSTANTS MaxRecords,  \* bound on the records of one stream
          PipeCap,     \* records that fit in the pipe of a queue
          Confs        \* the sets of actions a runner may be configured with

Action == {"pre", "single", "periodic", "post"}

ASSUME RunnerAssumption == /\ MaxRecords \in Nat \ {0, 1}
                           /\ PipeCap \in Nat \ {0}
                           /\ Confs \subseteq SUBSET Action

Child == {"worker", "single", "periodic"}
WorkerStream == {"output", "result"}
ResultStream == {"result", "single", "periodic", "main"}
Stream == WorkerStream \cup ResultStream

Record == 1 .. MaxRecords  \* a record stands for its place on its stream

Writer == [s \in Stream |-> IF s \in WorkerStream THEN "worker" ELSE s]

VARIABLES
  conf,        \* the actions in self.config
  pc,          \* where the parent is
  proc,        \* the life of each child process
  exitcode,    \* how the worker ended
  put,         \* history: what was put on each stream
  buffer,      \* put, and not yet written by the feeder
  pipe,        \* written, and not yet read by the parent
  collected,   \* read by the parent: outputs and result of runner_join
  registered,  \* self in Runner.runners
  status       \* what runner_join returned

data == <<put, buffer, pipe, collected>>
vars == <<conf, pc, proc, exitcode, data, registered, status>>

Alive(c) == proc[c] \in {"running", "flushing"}

Empty == [s \in Stream |-> <<>>]

(* __init__, then run() up to the first place where it can return *)
Init == /\ conf \in Confs
        /\ pc = IF "pre" \in conf THEN "prestart" ELSE "single"
        /\ proc = [c \in Child |-> "none"]
        /\ exitcode = "none"
        /\ put = Empty /\ buffer = Empty /\ pipe = Empty /\ collected = Empty
        /\ registered = TRUE
        /\ status = "none"

(* queue.put never blocks the writer: the queues are created without a maxsize *)
PutOn(s) == /\ Len(put[s]) < MaxRecords
            /\ put' = [put EXCEPT ![s] = Append(@, Len(@) + 1)]
            /\ buffer' = [buffer EXCEPT ![s] = Append(@, Len(put[s]) + 1)]
            /\ UNCHANGED <<pipe, collected>>

(***************************** the child processes **************************)

WorkerPut(s) == /\ proc["worker"] = "running"
                /\ PutOn(s)
                /\ UNCHANGED <<conf, pc, proc, exitcode, registered, status>>

(* the target function returns, or leaves by an exception or SystemExit(1) *)
WorkerReturn == /\ proc["worker"] = "running"
                /\ proc' = [proc EXCEPT !["worker"] = "flushing"]
                /\ exitcode' \in {"ok", "error"}
                /\ UNCHANGED <<conf, pc, data, registered, status>>

SingleAction == /\ proc["single"] = "running"
                /\ PutOn("single")
                /\ proc' = [proc EXCEPT !["single"] = "flushing"]
                /\ UNCHANGED <<conf, pc, exitcode, registered, status>>

(* the loop of the periodic action ends only when its command fails *)
PeriodicAction == /\ proc["periodic"] = "running"
                  /\ PutOn("periodic")
                  /\ \E p \in {"running", "flushing"} : proc' = [proc EXCEPT !["periodic"] = p]
                  /\ UNCHANGED <<conf, pc, exitcode, registered, status>>

Room(s) == IF s = "output"
           THEN Len(pipe["output"]) < PipeCap
           ELSE Len(pipe["result"]) + Len(pipe["single"]) + Len(pipe["periodic"])
                  + Len(pipe["main"]) < PipeCap

Feed(s) == /\ IF s = "main" THEN pc # "gone" ELSE Alive(Writer[s])
           /\ buffer[s] # <<>>
           /\ Room(s)
           /\ buffer' = [buffer EXCEPT ![s] = Tail(@)]
           /\ pipe' = [pipe EXCEPT ![s] = Append(@, Head(buffer[s]))]
           /\ UNCHANGED <<conf, pc, proc, exitcode, put, collected, registered, status>>

ChildExit(c) == /\ proc[c] = "flushing"
                /\ \A s \in Stream : Writer[s] = c => buffer[s] = <<>>
                /\ proc' = [proc EXCEPT ![c] = "exited"]
                /\ UNCHANGED <<conf, pc, exitcode, data, registered, status>>

(************************** the parent: run() *******************************)

(* the record of the pre-start action is queued whether it failed or not *)
PreStart == /\ pc = "prestart"
            /\ PutOn("main")
            /\ pc' \in {"single", "broken"}
            /\ UNCHANGED <<conf, proc, exitcode, registered, status>>

Spawn(c, next) == /\ pc = c
                  /\ pc' = next
                  /\ proc' = IF c = "worker" \/ c \in conf
                             THEN [proc EXCEPT ![c] = "running"] ELSE proc
                  /\ UNCHANGED <<conf, exitcode, data, registered, status>>

(* after a failed pre-start action poll() is called on a process that is None *)
PollBroken == /\ pc = "broken"
              /\ pc' = "failed"
              /\ UNCHANGED <<conf, proc, exitcode, data, registered, status>>

(******************* the parent: runner_join() and join() *******************)

PollThen(done, notYet) == /\ pc = "poll"
                          /\ pc' = IF proc["worker"] = "exited" THEN done ELSE notYet
                          /\ UNCHANGED <<conf, proc, exitcode, data, registered, status>>
PollSkipsLastDrain == PollThen("stop", "drainOutput")     \* variant
Poll == PollThen("lastOutput", "drainOutput")

TakenInFront(s) == <<Head(pipe[s])>> \o collected[s]      \* variant
Taken(s) == Append(collected[s], Head(pipe[s]))

(* one turn of the loops of get_output() and get_result() *)
Drain(streams, here, next) ==
  /\ pc = here
  /\ \/ /\ \A s \in streams : pipe[s] = <<>>
        /\ pc' = next
        /\ UNCHANGED data
     \/ /\ \E s \in streams : /\ pipe[s] # <<>>
                              /\ pipe' = [pipe EXCEPT ![s] = Tail(@)]
                              /\ collected' = [collected EXCEPT ![s] = Taken(s)]
        /\ UNCHANGED <<pc, put, buffer>>
  /\ UNCHANGED <<conf, proc, exitcode, registered, status>>

GetOutputOnly == \/ Drain({"output"}, "drainOutput", "poll")   \* variant
                 \/ Drain({"output"}, "lastOutput", "lastResult")
GetOutput == \/ Drain({"output"}, "drainOutput", "drainResult")
             \/ Drain({"output"}, "lastOutput", "lastResult")
GetResult == \/ Drain(ResultStream, "drainResult", "poll")
             \/ Drain(ResultStream, "lastResult", "stop")

Kill(cs) == [c \in Child |-> IF c \in cs /\ Alive(c) THEN "killed" ELSE proc[c]]

StopActions(cs) == /\ pc = "stop"
                   /\ pc' = "post"
                   /\ proc' = Kill(cs)
                   /\ UNCHANGED <<conf, exitcode, data, registered, status>>
StopWorkerOnly == StopActions({"worker"})                 \* variant
StopPeriodic == StopActions({"worker", "periodic"})

PostStop == /\ pc = "post"
            /\ pc' = "release"
            /\ IF "post" \in conf THEN PutOn("main") ELSE UNCHANGED data
            /\ UNCHANGED <<conf, proc, exitcode, registered, status>>

Return(value) == /\ pc = "release"
                 /\ pc' = "released"
                 /\ registered' = FALSE
                 /\ status' = value
                 /\ UNCHANGED <<conf, proc, exitcode, data>>
ReleaseProcess == Return(proc["worker"])                  \* variant
Release == Return(exitcode)

(************************** the end of the program **************************)

(* An exception, a SystemExit, a KeyboardInterrupt, or the normal end of    *)
(* the program takes the parent to its exit handler.                        *)
Leave == /\ pc \notin {"atexit", "exit", "gone"}
         /\ pc' = "atexit"
         /\ UNCHANGED <<conf, proc, exitcode, data, registered, status>>

Terminate(cs) == /\ pc = "atexit"
                 /\ pc' = "exit"
                 /\ proc' = IF registered THEN Kill(cs) ELSE proc
                 /\ registered' = FALSE
                 /\ UNCHANGED <<conf, exitcode, data, status>>
TerminateWorkerOnly == Terminate({"worker"})              \* variant
TerminateAll == Terminate({"worker", "periodic"})

(* multiprocessing joins the children that are still alive *)
Exit == /\ pc = "exit"
        /\ \A c \in Child : ~ Alive(c)
        /\ pc' = "gone"
        /\ UNCHANGED <<conf, proc, exitcode, data, registered, status>>

Gone == pc = "gone" /\ UNCHANGED vars

Start == \/ PreStart \/ PollBroken
         \/ Spawn("single", "periodic") \/ Spawn("periodic", "worker") \/ Spawn("worker", "poll")
Join == Poll \/ GetOutput \/ GetResult \/ StopPeriodic \/ PostStop \/ Release
Parent == Start \/ Join \/ TerminateAll \/ Exit
Worker == WorkerReturn \/ \E s \in WorkerStream : WorkerPut(s)

Next == \/ Parent \/ Leave \/ Gone
        \/ Worker \/ SingleAction \/ PeriodicAction
        \/ \E s \in Stream : Feed(s)
        \/ \E c \in Child : ChildExit(c)

(* The operating system runs every process and thread that can run.  Nobody *)
(* has to leave the program, and the periodic action need not fail.         *)
Fairness == /\ WF_vars(Parent) /\ WF_vars(WorkerReturn) /\ WF_vars(SingleAction)
            /\ \A s \in Stream : WF_vars(Feed(s))
            /\ \A c \in Child : WF_vars(ChildExit(c))

Spec == Init /\ [][Next]_vars
FairSpec == Spec /\ Fairness

(****************************** properties **********************************)

(* The types: in particular, runner_join() returns an exit code, and every   *)
(* record that travels was put by a writer.                                  *)
TypeOK == /\ conf \in SUBSET Action
          /\ pc \in {"prestart", "single", "periodic", "worker", "broken", "failed",
                     "poll", "drainOutput", "drainResult", "lastOutput", "lastResult",
                     "stop", "post", "release", "released", "atexit", "exit", "gone"}
          /\ proc \in [Child -> {"none", "running", "flushing", "exited", "killed"}]
          /\ exitcode \in {"none", "ok", "error"}
          /\ \A queue \in {put, buffer, pipe, collected} : queue \in [Stream -> Seq(Record)]
          /\ registered \in BOOLEAN
          /\ status \in {"none", "ok", "error"}

(* What is put on a stream is read once, in the order it was put, and is    *)
(* nowhere else in the meantime: buffer, feeder, pipe, get_output(),        *)
(* get_result().                                                            *)
Conservation == \A s \in Stream : put[s] = collected[s] \o pipe[s] \o buffer[s]

(* When runner_join() has returned, outputs and result hold everything the  *)
(* worker ever put: the drain after the exit of the process (base.py:219)   *)
(* leaves nothing behind, whatever the feeder was late with.                *)
JoinIsComplete == status # "none" => \A s \in WorkerStream : collected[s] = put[s]

(* A worker or a periodic action that is alive can still be found by        *)
(* Runner.terminate_all(): run() and join() never let go of it earlier.     *)
LiveIsRegistered == \A c \in {"worker", "periodic"} : Alive(c) => registered

(* What is alive can be found in Runner.runners, and once the runner is      *)
(* released or the exit handler has run nothing is: except the single-shot  *)
(* process, whose handle run() drops.                                       *)
OrphanIsSingleShot ==
  \A c \in Child : Alive(c) =>
    \/ c = "single"
    \/ registered /\ pc \notin {"released", "exit", "gone"}

(* The strengthening that makes the invariants above inductive: what the     *)
(* place of the parent says about the worker, its buffers and its pipes.     *)
Joined == {"stop", "post", "release", "released"}
Unregistered == {"released", "exit", "gone"}
WorkerSettled == proc["worker"] = "exited"
                   => exitcode # "none" /\ \A s \in WorkerStream : buffer[s] = <<>>
Control ==
  /\ proc["worker"] = "flushing" => exitcode # "none"
  /\ WorkerSettled
  /\ pc \in {"lastOutput", "lastResult"} \cup Joined => proc["worker"] = "exited"
  /\ pc \in {"lastResult"} \cup Joined => pipe["output"] = <<>>
  /\ pc \in Joined => pipe["result"] = <<>>
  /\ pc \in {"post", "release"} => ~ Alive("periodic")
  /\ pc \notin Unregistered \cup {"atexit"} => registered /\ status = "none"
  /\ pc \in Unregistered => ~ registered
  /\ status # "none" => /\ proc["worker"] = "exited"
                        /\ \A s \in WorkerStream : pipe[s] = <<>>

(* runner_join() returns to its caller unless the program is ended, even     *)
(* when the worker's records exceed the pipe many times, because the parent  *)
(* drains while it waits (base.py:215).                                      *)
JoinReturns == pc = "poll" ~> pc \in {"released", "exit", "gone"}

(* A program that leaves comes to its end: no child it joins is waiting for *)
(* a reader, nor periodic, once terminate_all() has run.  A single-shot     *)
(* action can wait for a reader for ever and is excluded.                   *)
ExitEnds == (pc = "atexit" /\ "single" \notin conf) ~> pc = "gone"

(* The runner keeps the promise of RunnerContract: the worker puts, the      *)
(* parent receives in order, and runner_join() (task.py:632) returns only    *)
(* when nothing is left, whatever feeders, pipes and other writers do.       *)
Contract == INSTANCE RunnerContract WITH
              Streams <- WorkerStream,
              log <- [s \in WorkerStream |-> put[s]],
              received <- [s \in WorkerStream |-> collected[s]]
ImplementsContract == Contract!Spec
=============================================================================
