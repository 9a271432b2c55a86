# vnftest in TLA+

TLA+ models of vnftest (ONAP vnfsdk/dovetail-integration), TLC configurations that check them on small instances, and
TLAPS proofs of the safety properties for every instance. The models are written from the code under
`src/vnftest`; PROJECT.json gives the lines that each definition stands for, and lists the components, runs, mutants,
findings, hazards and theorems in machine-readable form.

vnftest runs a suite of test cases against a VNF. For every test case, it deploys *contexts* (an OpenStack Heat stack,
for example), and runs *steps* in them. A step is executed by a *runner*: a worker process that calls the step's method
again and again and sends records through queues to the main process. The outcome is collected in a report, which
dispatchers write to a file or send to a server.

## 1. Inventory

Paths are relative to `src/vnftest`.

| Component | State | Operations | Interacts with |
|---|---|---|---|
| Runner base, `runners/base.py` | `Runner.runners` (class-wide), the worker and two action processes, output and result queue, aborted event | `run`, `poll`, `join`, `get_output`, `get_result`, `release`, `terminate_all`, the pre-start, single-shot, periodic and post-stop actions | The task creates, polls and releases runners; worker and actions write the queues; the exit handler calls `terminate_all` |
| Iteration runner, `runners/iteration.py` | loop variables of the worker process: sequence, errors, fatal_error, rate | `_worker_process`: set up, call, record, tear down | calls the step's method; puts records on the queues; reads the aborted event |
| Other runners, `runners/{duration,sequence,dynamictp,search}.py` | as above | as above | cannot be started by `Runner.run()`, see section 5 |
| Task orchestrator, `core/task.py` `Task` | contexts, outputs, task_info, place in the suite | `start`, `_run`, `run_one_step`, `finalize_step`, `runner_join`, `atexit_handler` | everything else |
| Report, `core/task.py` `TaskInfo` | the result tree: task, cases, steps, contexts with criteria and status | `testcase_start`, `step_start`, `step_end`, `testcase_fatal`, `task_end`, ... | written by the task, given to the dispatchers |
| Command, `cmd/commands/task.py` | the result file | `do_start`, `_write_error_data` | starts the task; catches what it raises |
| Parser, `core/task.py` `TaskParser`, `common/task_template.py` | three parallel lists: files, arguments, files of arguments | parse suites and test cases, preconditions, constraints | read by the task; the environment |
| Contexts, `contexts/*.py` | `Context._list`, flags, `self.stack`, networks and servers | `init`, `deploy`, `undeploy` | the task; Heat stacks |
| Heat stacks, `orchestrator/heat.py` | `_DEPLOYED_STACKS`, uuid of a stack, the template | `create`, `get`, `delete`, and the operations that add resources to a template | the cloud |
| Logical model, `contexts/model.py` | networks, servers; the maps of placement and server groups, which are class-wide | construction, placement, scheduler hints, `add_to_template` | Heat context and template |
| SSH client, `ssh.py` | `_client`, sessions | connect, wait, `run`, `execute`, file transfer | the server; paramiko's transport thread |
| Steps, `steps/*.py`, `onap/`, `openstack/` | inputs, outputs and SLA of the configuration; the record | `setup`, `run` with two nested retry loops, `handle_sla` | REST client, crawlers; the worker calls them, the task resolves their options |
| Crawlers, `crawlers/*.py`, `onap/common/` | none | `crawl` | pick outputs from an answer |
| Dispatchers, `dispatcher/*.py` | the result file | `flush_result_data` | the task's report |
| Utilities, `common/*.py` | the cache of `normalize_data_struct` | formatting, conversion, configuration, REST, processes, OpenStack | all |

What is hard, and what makes each component correct:

* **Runner base.** Up to four processes write queues that one process reads. A process does not exit before the feeder
  thread of its queue has written everything into a pipe of bounded capacity, so a parent that waits without reading
  waits for ever, and a parent that stops reading too early loses records. Correct: nothing is lost, duplicated or
  reordered, the join is complete and ends, and no process is left behind without a handle.
* **Iteration runner.** Five ways out of a loop, a count that is looked at after the call and that rate control starts
  over, an error that passes through four variables into an exit code. Correct: exit code 0 means a full run of good records.
* **Task and report.** Everything may raise, `finally` clauses run on top of handlers and may raise themselves, which loses
  an interrupt; parallel steps are abandoned when one fails. Correct: a PASS is deserved, what is published is settled,
  contexts do not leak or vanish under a running step, the program ends.
* **Command, parser and dispatchers.** Three lists are filled side by side with two ways to leave an entry out; arguments come
  from four sources; the result file is written in three places, and an exit or an exception may come between them.
  Correct: the test cases run that are to run, each with its own arguments, and the file does not lie at the end.
* **Steps.** One retry loop inside another, values that are formatted twice in two processes, a record that every attempt
  updates. Correct: what is sent is what was meant, and the verdict is what the answers deserve.
* **Contexts and Heat stacks.** `deploy()` may fail before and after the stack exists, names are reused, the exit handler
  may undeploy again what is half undeployed. Correct: no stack leaks, none that is foreign is deleted.
* **Logical model and template.** Servers are added in three passes, in the order of a dictionary; a hint can name only
  what is there already; the names of outputs are composed in one place and read in another; groups outlive their context.
  Correct: each pair of a placement group is hinted exactly once, references resolve, and the outputs that are read exist.
* **SSH client.** Output, status and loss of the connection arrive between any two lines of a polling loop. Correct: what
  is reported happened, stdin is sent once and in full, a call ends.

The list of hazards, each at its line and with the properties that cover it, is in PROJECT.json under `hazards`.

## 2. Modules

| Module | Models | Theorems |
|---|---|---|
| `RunnerContract` | what a runner promises: FIFO streams to the parent, and a join that returns only when all is received | |
| `Runner` | one runner: `base.py` and `runner_join()` of `task.py`, with feeder threads and pipes | `Runner_proofs` |
| `IterationWorker` | the worker process, `runners/iteration.py` | `IterationWorker_proofs` |
| `TaskInfo` | the report, class `TaskInfo`, as operators on a record | `Task_proofs` |
| `Task` | class `Task` with the workers of its steps; extends `TaskInfo` | `Task_proofs` |
| `Suite` | the program around the test cases: `do_start()`, `parse_suite()`, the arguments, `parse_task()`, dispatchers, the result file | `Suite_proofs` |
| `Step` | one call of a step: its options, inputs, requests, retries, outputs and SLA | `Step_proofs` |
| `HeatContext` | `contexts/heat.py`, `contexts/base.py`, `HeatStack` and `HeatTemplate.create()`, and the cloud | `HeatContext_proofs` |
| `HeatTemplate` | `contexts/model.py`, `_add_resources_to_template()`, the template, and the outputs that `deploy()` reads | `HeatTemplate_proofs` |
| `Ssh` | `ssh.py`, with the server and the transport thread | `Ssh_proofs` |

`MC...` modules only define constants for TLC. A definition with the comment *variant* is not part of a specification. It
is the code with a plausible mistake in it, and PROJECT.json says which property finds it.

How they fit together. `Runner` leaves open what its worker does, apart from putting records and ending;
`IterationWorker` says what it does, apart from the queues. `Task` sees a runner as `RunnerContract` promises it, which
`Runner` is shown to implement: its worker ends at any time with an exit code, and a join, which is possible from then
on, returns everything. The outcomes that `Task` gives a worker are the ones `IterationWorker` shows: exit code 0 with or
without monitored errors, an exit code 1 with the error in the last record, or a crash (exit code 1 without one).
`IterationWorker` leaves open how a call of the step ends; `Step` says how: *returned*, *asserted* and *raised* are its
`CallReturns`, `CallFailsSla` and `CallRaises`, and *refused* is a `RunOneStep` of `Task` that raises before there is a
worker. `Task` leaves open whether a context raises in `deploy()` and `undeploy()`; `HeatContext` says when it does, and
`HeatTemplate` what it has put into the template by then: its `CreateStack` is the life of a stack that `HeatContext`
follows, its `KeyError` one way in which `Fill` fails. `Suite` takes from `Task` that a test case runs and fails or not,
and says which test cases that are, and what becomes of the report.

### Runner

State: `proc` is the life of a child: *running* its target function, *flushing* its feeder at exit, *exited* or *killed*.
For every stream (writer and queue), `put` is what was written on it, `buffer` what its feeder has yet to write, `pipe`
what the parent has yet to read, `collected` what it has read. `pc` is the line of `run()`, `runner_join()` and `join()`
at which the parent is. Each turn of the loops of `get_output()` and `get_result()` is a step.
`Leave` takes the parent to its exit handler from anywhere: an exception, an interrupt or the normal end.

Assumptions on Python 2.7, which `tox.ini` names: the feeder writes whole records; `Process.is_alive()` becomes false only
after the feeder of the child was joined; at exit, `multiprocessing` first runs the exit handlers of the program and then
joins the children that are left. Not modelled: a process that is killed while it holds the lock of a queue (the queue
then is unusable), and KPIs dropped on a put that times out, which needs a full queue and these queues have no limit.

`Runner_run.cfg`: two records per stream, pipes with room for one, and the sets of actions without the two that have a
pre-start, a single-shot and a periodic action at once (a pre-start action has left when the others start). This makes
pipes full, feeders late and drains partial, which is all the length of a stream can do; the proofs remove the bounds and
the selection. Deadlock is not checked because a single-shot action whose reader is gone keeps the exit of the program
waiting; `ExitEnds` excludes it for the same reason. Fairness: the operating system schedules each process and each feeder
that can run. Periodic actions are not assumed to fail, nor the program to leave. A worker's method is assumed to return:
`WorkerReturn` is fair.

### IterationWorker

One step for each of construction, call, record and teardown. A call returns, with or without output, raises, fails its SLA
with an action that the worker knows (*assert*, *monitor*, *rate-control*), or with another one, which the code ignores.
Interval and timeouts are left out: they decide when, not what. `iterations` is any integer. The loop looks at its count
after the call, so 0 and less stand for one call and one record (`Expected`). Bounds: -1 to 3 iterations, so that the count
is below, at and above the boundary, and rate control no longer lowers the rate after 4 records, enough for a count that is
started over in the middle and at the end. `rate` is followed over two reductions. Fairness: the process runs and its method
returns. An SLA that keeps failing under rate control keeps the loop at `continue` (`runners/iteration.py:98`) for ever,
without a look at the aborted event: `WorkerEnds` leaves out every configuration with rate control.

### TaskInfo and Task

`TaskInfo` has one operator per method. Texts, data and times are left out; the report of a test case keeps its `name`,
the place of the test case in the suite, so that a property can say which test case a verdict is about. In `Task`, `pc`, `i` and `k` are the place in
the loops over cases, contexts and steps. A step kind says how its configuration goes wrong: `unsupported` (a runner that
`Runner.run()` cannot start), `broken` (its pre-start action fails), `actions` (records of actions have no timestamp, which
`step_end()` reads), `nameless`, `background`. `TerminateAll` removes from the list it walks over, as the code does.

A KeyboardInterrupt may come anywhere in `start()`. `Interrupt` is one that gets through: it runs the `finally` clauses and
goes to the exit handler. `Swallow` is one that does not. Before `testcase_start()` has registered the test case, or
`context_deploy_start()` the context, the `finally` clause looks the name up in vain, and its KeyError replaces the
interrupt (`core/task.py:288` and `:545`; `:244` and `:600`). `start()` or `_run()` then handles it like any failure, and the
suite goes on. `struck` is the history of the test cases that an interrupt came in: such a case may be missing from a PASS,
or stay open in the report, and the properties exempt it and no other.

`Task_run.cfg`: all test cases of at most two steps in one or two contexts, alone, and pairs of test cases of which the
first goes wrong in some way; serial and parallel; with and without `--keep-deploy`. Two of each are needed for one to fail
before or after the other; more would repeat that. Fairness: the main process runs, `deploy()` and `undeploy()` return, and
the worker that `runner_join()` is reading ends (`Drained`). That such a worker ends and that the join then returns is what
`JoinReturns` of `Runner` and `WorkerEnds` of `IterationWorker` show. A worker that nobody waits for, because an exception
left the loop over the parallel steps, is not assumed to end, since it may wait for room in its pipe. Either
`terminate_all()` kills it, or it is passed over and the exit joins it, perhaps for ever. So `TaskTerminates` says that the
program comes to its end or to that join, and that a serial suite that is not interrupted comes to its end.

### Suite

`program` is what vnftest is started with: the suite, the test cases, arguments, configuration file and environment.
`parse_suite()` is a step for each of its stages and one for each entry, which is taken into all three lists or into none.
A test case is known by its place in the suite, and an argument by where it was taken from (suite, file, command line, or
the outputs of an earlier test case), which is all that tells a right argument from a wrong one. The outputs of earlier test cases come in twice: the file of a
test case is read with its own arguments over them (`core/task.py:121-129`), and its steps are handed them over its
arguments (`run_one_step()`, `core/task.py:322`), which `Handed` is. `struck` has the test cases that lost an interrupt, see
`Task`. `file` is the result file,
`ending` how `start()` was left: an exception (which `do_start()` catches), a SystemExit or interrupt (which it does not),
or a return. The text of templates and YAML is abstracted to how its parsing ends; writing the file is one step.

The code has some ends that one would not expect, and the model has them too: the HTTP dispatcher raises unless its target
is empty, since it reads a `result` that the report does not have (`dispatcher/http.py:51`), and the error then replaces the
report in the file; `TARGET` with several dispatchers, or with one that has no section, is a KeyError before the file is
first written (`core/task.py:221`); `influxdb` has a section and no class; `--task-args-file` is ignored with a suite; the
files of arguments of an entry have no `default`; a precondition on the installer is refused also when it fits
(`core/task.py:500`), and reads `INSTALL_TYPE` where a constraint reads `INSTALLER_TYPE`; a SystemExit leaves the file of a
running task behind.

`Suite_run.cfg`: suites of two entries with every combination of name, constraint and arguments in every environment; one
test case with every way to parse, need and condition; three in a row, so that outputs overtake each other; all lists of at
most two dispatchers. No fairness: nothing here waits.

### Step

The main process resolves the inputs of a step (*resolve*), the worker formats them once more (*eval*), loads the file of
the request, sends it, picks the outputs and judges the first of them. `try` counts the tries of one request, `attempt` the
retries of the SLA around them; `judged` is a history of all outputs. Values are abstracted to what `format()`, the crawlers
and the comparisons tell apart: texts, empty text, texts with braces in them, numbers, lists, objects that are false, None.
A definition is a sequence of chunks: literal texts, braces that are balanced around a known name, or not, or doubled, and
fields with and without an attribute. `Format` has what `format()` loses (`common/utils.py:530-548`): the text directly
before a field, the text around a field that holds an object, and an object that is false, which becomes an empty text. What
is left is formatted again in the worker, where braces in a value are fields. `Lossless` are the definitions that none of
this happens to, and `RequestIsGiven` says of them that they keep their value; of all definitions, that nothing goes out
with an input that is missing. A missing attribute is sent as "None", as the code has it.
The answer of the server is any, or none.

What the model shows of the other steps: `VfModuleValidator` gives a dictionary where a list of outputs is expected, and
always ends in an exception after its request; the OpenStack steps call functions that `openstack_utils.py` does not have;
the dummy step does not take the arguments that the worker constructs it with; `VfModuleCrawler` looks for
`componentInstances` at the top of an answer, where there is only its code, body and headers. `RestCall` itself judges only
the SLA action `assert`.

`Step_run.cfg`: the definitions of one input by up to two chunks, or a field between two texts, with every value, and pairs of
definitions, with simple outputs; every output and pair of outputs
with every SLA, and up to two retries, so that a loop can end at its first, an inner and its last turn. Fairness: the worker
runs and a request ends, with an answer or without one. The code sets no timeout on a request, so that is an assumption.

### HeatContext

`cloud` gives each stack a name and a status; a context asks for one stack at most, so its id is named after it, and
`Old` is a stack from an earlier run. The parser makes new context objects for every test case, so a context is in one
test case, once (`OneCaseEach`). A call to the cloud may raise before or after it had its effect. `spoilt` records
that an `undeploy()` raised or was interrupted: the exit handler then meets a context that is off `Context._list` and
stops. `Heat_run.cfg` has two contexts, in one test case or in two, equal or different names, and all
flags. Fairness: the program runs, and the cloud brings every stack to COMPLETE or FAILED; raising is never assumed.

### HeatTemplate

A template is a graph: `resources`, `refs` (which one refers to which) and `outputs`. A name is a tuple that begins with its
kind; in the code all kinds share one space of names, and two servers or networks that are named alike up to separators are
not told apart. `pgmap` and `sgmap` are the maps of the classes, which outlive a context; a group is an object, so a later
group of the same name is another one. `rank` is any order of the servers that the dictionary and the sort allow;
`queue` is the set of servers that a pass has still to add, the first by `rank` at a time, and `added` the set of stack
names in `added_servers`. Heat makes a stack of a template whose references resolve, or refuses it.

The limits that the properties name are limits of the code: a hint names the server without the number of its instance, a
server with networks of its own has no outputs under the name that is read when it has several instances, a volume given by
its name alone refers to nothing in the template, a server group or a member of a placement group from an earlier context
may be one of another stack, the members of a placement group are known by their stack names only (so contexts of one name
in one test case are taken for each other, and `PairsAreHinted` asks for `NamedAlone`), and a server's own flavor is noted only if it has an availability group. A server with a
placement group silently loses its server group (the TODO of `contexts/heat.py` says so).

`HeatTemplate_run.cfg`: three servers in every combination of three placement groups, of which two are of one policy, in
every order; one server with every flavor, volume, choice of networks, mapping of ports and no, one or two instances; two
contexts that define and borrow groups, with equal and different names, in one test case and in two, also with servers of
the same names. Three servers are what
the special case of exactly two availability servers needs on either side.

### Ssh

The client's `pc` goes through `_connect()`, `wait()` and the reads, the send and the checks of one turn of the loop of
`_run()`. The `uname` of `wait()` is a session like any other, with `probing` set. The server writes, exits and hangs as it
likes, and what it sends arrives in order: data, then status. Stdout and stderr are counts of chunks, since the transport
keeps them in order; stdin is a length that is read in parts and sent in parts. `Ssh_run.cfg`: two calls, so that the
second meets the client that the first left; a stdin of 3, read by 2, so that a read is full or short and a send partial.
Fairness: the client and the clock run, and `connect()` has its timeouts. The server owes nothing: its command may hang, its
output and status may stay away, and a call of the library that has no timeout (`exec_command()`, SFTP) returns for certain
only once the connection is lost (`WF_vars(~ link /\ Library)`). `CallEnds` therefore excludes two things: a command that
never stops writing, and a host that leaves a call of the library unanswered on a connection that stands.

## 3. What the runs show

| Run | Shows |
|---|---|
| `runner_run` | `JoinIsComplete`: nothing the worker put is missing after the join, because of the drain after the exit. `OrphanIsSingleShot`: what is alive can be found in `Runner.runners`, except the single-shot action, whose handle is dropped. `JoinReturns`, `ExitEnds`: neither side waits for ever, because the parent drains while it polls and kills before it joins. `ImplementsContract`: FIFO streams and a complete join |
| `iteration_worker` | `FullRun`: exit code 0 means that the records 1 .. iterations were delivered in order after rate control last started over, by as many calls without it; 0 iterations or less mean one. `ErrorFails`, `FailureIsTold`: an error is not lost between the call and the exit code. `WorkerEnds`: without rate control, the loop ends, whatever the calls do |
| `task_run` | `PassedCaseIsClean`, `PassedTaskIsComplete`: a PASS is deserved, and lacks no test case but one that lost an interrupt. `PublishedIsSettled`: nothing open is published. `SerialIsExclusive`. `OutputsAreChained`: a serial worker has the outputs of the workers before it and no others. `NoContextLeaks`: as long as no undeploy raises. `TaskTerminates`: only a worker that `terminate_all()` passes over keeps the program from its end |
| `suite_run` | `RunsAsConfigured`: the right test cases, in order, each read with its own arguments over the outputs before it, and its steps handed the outputs over the arguments, over every entry that is left out. `FileTellsTheEnd`: what the result file says agrees with how the program ended |
| `step_run` | `RequestIsGiven`: a request goes out only with every input, and with the value meant where `format()` loses nothing, over two or three formattings. `VerdictIsDeserved`: over both retry loops a success met the SLA, a failure used up its retries, and the record is the last answer judged. `StepEnds` |
| `heat_run` | `NoStackLeaks`, `TrackedIsLive`, `ForeignStackIsLeft`, `ProgramEnds` |
| `heat_template` | `PairsAreHinted`: each pair of servers in a placement group is hinted once, in one direction, whatever the order. `TemplateIsClosed`, `FlavorIsAwaited`: references resolve and servers wait for what they use. `OutputsAreDefined`: what is read after the creation was asked for before it |
| `ssh_run` | `ShellPutIsComplete`: a put that succeeds sent the whole file. `CommandIsAwaited`: a command of a client that waits was preceded by an answered probe, except on a client left by a call that gave up, or made by `get()` or `send_command()`. `CallEnds`: with a hanging command or a lost connection too |

Every run also checks `TypeOK` of its module.

Four runs show where the code does not do what the repository says of it:

1. `task_terminate_all`: `terminate_all()` walks over the list from which `release()` removes, and so leaves every second
   runner alive (`runners/base.py:124`).
2. `task_parallel`: of two parallel steps, the first ends with a status other than 0; `finalize_step()` raises out of the loop
   that waits, and the context is undeployed under the second, whose worker is alive (`core/task.py:265`, `:331-333`). A
   `run_one_step()` that raises for a later step (`:260`) abandons the workers before it likewise.
3. `heat_leak`: a stack that ends as FAILED, or whose creation is interrupted, is unknown to its context and stays in the
   cloud (`contexts/heat.py:363`).
4. `ssh_output`: `execute()` may return without the last output of a command (`ssh.py:322`).

## 4. Proofs

A proof module extends the module it is about. In each of them, `Inductive` (`Invariant` in `Runner_proofs`) says that the
inductive invariant always holds, the theorem of a property follows from it, and there is a lemma for every action or group
of actions. The invariants were checked by TLC on the instance of the run before they were proved. The assumptions are
those of the modules (`RunnerAssumption`, `WorkerAssumption`, `TaskAssumption`, `SuiteAssumption`, `StepAssumption`,
`HeatAssumption`, `TemplateAssumption`, `SshAssumption`), which give the constants their types and which TLC evaluates in the runs. There is no
theorem without its whole proof.

| Theorem | States | For every |
|---|---|---|
| `Runner_proofs`: `TypeCorrect`, `JoinLosesNothing`, `StreamsConserved`, `NoOrphanButSingleShot`, `Refinement` | `TypeOK`, `JoinIsComplete`, FIFO streams, `OrphanIsSingleShot`, `ImplementsContract` | number of records, capacity of the pipes, set of actions |
| `IterationWorker_proofs`: `TypeCorrect`, `FullRunDelivered`, `ErrorsAreFatal`, `FailuresAreTold` | `TypeOK`, `FullRun`, `ErrorFails`, `FailureIsTold` | number of iterations, also 0 and below |
| `Task_proofs`: `TypeCorrect`, `OneWorker`, `Chained`, `ContextsEnd`, `Settled`, `PassedCase`, `PassedTask` | `TypeOK`, `SerialIsExclusive`, `OutputsAreChained`, `NoContextLeaks`, `PublishedIsSettled`, `PassedCaseIsClean`, `PassedTaskIsComplete` | suite, with any number of test cases, steps and contexts, and interrupts at any place |
| `Suite_proofs`: `TypeCorrect`, `RunsConfigured`, `FileTells` | `TypeOK`, `RunsAsConfigured`, `FileTellsTheEnd` | program and suite of any length |
| `Step_proofs`: `TypeCorrect`, `VerdictDeserved`, `RequestGiven` | `TypeOK`, `VerdictIsDeserved`, `RequestIsGiven` | step with any inputs, outputs and number of retries |
| `HeatContext_proofs`: `TypeCorrect`, `NoLeak`, `TrackedLive`, `ForeignLeft` | `TypeOK`, `NoStackLeaks`, `TrackedIsLive`, `ForeignStackIsLeft` | number of contexts, in any test cases, with any names |
| `Ssh_proofs`: `TypeCorrect`, `ShellPutComplete`, `CommandAwaited` | `TypeOK`, `ShellPutIsComplete`, `CommandIsAwaited` | number of calls, length of stdin, size of a read, window |
| `HeatTemplate_proofs`: `TypeCorrect`, `HintsPair`, `TemplateCloses`, `FlavorAwaits`, `OutputsDefined` | `TypeOK`, `PairsAreHinted`, `TemplateIsClosed`, `FlavorIsAwaited`, `OutputsAreDefined` | program, with any test cases and contexts, each with any networks, groups and servers |

**Runner.** The invariant is `TypeOK /\ Conservation /\ Control /\ LiveIsRegistered`. `Conservation` alone is inductive, but
says nothing about when the parent stops reading. `JoinIsComplete` needs to know that at the return buffers and pipes of the
worker are empty; `Control` is the chain that leads there: once `poll()` has seen the exit, the feeders have ended
(`WorkerSettled`), then the last `get_output()` leaves its pipe empty and nobody is left to fill it, and likewise
`get_result()`. The proof of the step has a lemma for each kind of step on streams, and one step per action. `Refinement`
maps the collected and the written streams to `RunnerContract`: a put is a `Put`, a read from the pipe is a `Receive`,
because by `Conservation` the head of the pipe is the next record of the log, `Release` is allowed because of `Control`, and
everything else stutters.

**IterationWorker.** `WInv` adds to the properties what the worker's place says: in the loop, `sequence` has not passed
`Expected`, which is `iterations` or 1, and the last records are numbered up to it (`CountInv`); without rate control it is
the number of calls (`CallCount`); before a record, `errors` and `fatal` agree with each
other and with the SLA action (`CallInv`); as long as no error was fatal, the records are clean, and outside the loop, the
count is full or the worker was aborted (`EndInv`).

**Task.** No property of the task is inductive: each speaks of the moment at which something is published or the next thing
starts, and holds because of everything the `finally` clauses did before it.
*Contexts*: `ContextInv` says that what is deployed will be met by the loop that undeploys, from its place on, so that
nothing is left at the end of that loop. *Workers*: a worker that was started is behind the place of the main process
(`StartInv`), so it is started once; in a serial suite, all but the one that is waited for have ended and left their
outputs (`SerialInv`), and outputs come only from workers that were started (`DataInv`). `OneWorker` is `SerialInv`, and
`Chained` follows from both directions: a worker starts behind all others, so what it is handed are their outputs, all of
them and no more.
*Reports*: `InfoInv` says that every report of an earlier test case is `Closed`: settled, and if its verdict is PASS, then
with all contexts and with all steps at a clean end. The report of the current case is `Open`: up to the step at which the
main process is, a step's report says FAIL or the step was successful, which is what `testcase_end()` turns into a verdict.
`NamesInv` relates the reports to the test cases: in the order of the suite, one for each that met its precondition so far,
and the last is the current one. All of this exempts the test cases that an interrupt came in (`struck`); after one that was
lost, the case at hand may have no report, and the last one is of an earlier test case (`Behindhand`). `PublishedInv` carries this (`Good`) over `task_end()` to what is published.
The reports refer to places in a suite that does not change and to exit codes of workers that have ended, so one lemma
(`OpenStays`) covers all steps of workers, and one lemma per method of `TaskInfo` says what it makes of `Open` and `Closed`.

**Suite.** `ListsInv` says that the three lists are parallel: the n-th test case has the arguments of its own entry or of the
command line; `OrderInv`, that the lists have each selected entry before the current one once, in order. The rest follows
the loop: who ran so far, or lost an interrupt (`RanInv`), where the outputs come from (`OutputsInv`), and what the next test
case is given (`InputsInv`). What its steps are handed is then, name by name, its own outputs so far, the outputs before it,
or its arguments. Outputs are merged again and again, which asks for an induction over what ran. It is avoided by naming, for
each argument, its *last giver*: whoever delivered it has a last place at which it was delivered (`GiversInv`), and one
more delivery moves that place. `RunsAsConfigured` is then inductive together with these. For `FileTellsTheEnd`,
`VerdictInv`, `FileInv` and `EndInv` say what criteria and result file are at each stage, over every way to leave it.

**Step.** `CountInv` ties the number of answers that were judged to the attempt at hand in each place of the two retry
loops. `JudgedInv` says that each attempt that was used up had failed the SLA, and that the record is the last answer.
`ParamsInv` says that from the evaluation on, every input is there and is what the formattings made of its definition, in
whichever retry. `RequestGiven` uses it at the place of the request, with a lemma on `Format`: a definition that is
`Lossless` is formatted to what it denotes, and formatted again, that stays as it is. `VerdictDeserved` uses the counts at the
end.

**HeatContext.** `NoStackLeaks` is about the end, and its inductive form is `OwedInv`: a stack that lives, was ever held by a
context and is to be torn down is still that context's, and the loop that undeploys has the context still before it. This
needs that a stack is asked for in its context's turn (`AskedInv`) and held after it (`HeldInv`), so that no context is given
a stack after the loop has passed it, and it needs `OneCaseEach`: were a context in two test cases, its second stack would
replace the first. `TrackedIsLive` and `ForeignStackIsLeft` are inductive together with these.

**Ssh.** `StdinInv`: what was read of stdin was sent or is pending, and its end is told only after all of it. `StatusInv`: the
status that the client knows is the one of the command, and the `cat` of a put succeeded only after the end of stdin.
`AwaitInv`: a client that is there was waited for, or was left by a call that gave up.

**HeatTemplate.** The hints of a template depend on objects that were made by `init()` of the contexts before, so the
invariant has two halves. *Objects*: no object is there before its context is initialised (`FreshInv`), so that a
registration never meets its own group; from then on a server is in the objects of its groups (`PlacedInv`), and a group of
a context has exactly the stack names of that context's servers that are to be in it (`MembersInv`). These speak of every
context of the test case at hand, since all are initialised before the first is deployed; one lemma (`ObjectsStay`) covers
every other step. *Template*: `CoverInv` says which servers the passes have added and which are still to come, so that no
server is added twice (`NewServer`) and at the end all are there. `BaseInv` and `DoneInv` say what the template has of
networks, groups, flavors and each server that was added, from which `FlavorIsAwaited` and `OutputsAreDefined` follow.
`ClosedInv` says that each reference resolves or, in the first pass, will when the servers are added whose flavors were noted
ahead. `HintsInv` is `PairsAreHinted` for the servers added so far; the step needs that a server is hinted to exactly those
that are there and share a group with it (`GoodHint`). The special case of two availability servers keeps one host of a
list; it is right because, of two servers, there is only one other (`OtherOfTwo`, by cardinality).

Only model-checked: the liveness properties `JoinReturns`, `ExitEnds`, `WorkerEnds`, `TaskTerminates`, `StepEnds`,
`ProgramEnds` and `CallEnds`, since liveness under fairness is beyond the installed provers. Every invariant and the
refinement that the passing runs check are proved. The four runs that show a violation need no theorem.

## 5. Observed and not modelled

Behaviour that the models have and no statement of the repository contradicts:

* Rate control starts the count over, so that a step runs more often than `iterations` (`runners/iteration.py:97`), and
  goes on for ever, deaf to an abort, as long as the SLA fails (`:98`). 0 iterations are one (`:122`).
* An interrupt at the very beginning of a test case, or of the deployment of a context, is lost, and the suite goes on
  (`core/task.py:288`, `:545`, `:600`). It can end as PASS without that test case.
* The outputs of earlier steps and test cases override the arguments of a test case when its steps are run
  (`core/task.py:322`), while its file is read with the arguments over the outputs (`core/task.py:123`).
* `format()` drops the text before a field (`common/utils.py:534`) and around a field that holds an object, makes an empty
  text of an object that is false (`:548`), and values are formatted again in the worker (`steps/rest_call.py:58`).
* Background steps never start: `Runner.run()` gives `_run_step()` of every runner but Iteration one argument too many
  (`runners/base.py:201`, `runners/duration.py:140`).
* A request whose answer was lost is sent again, up to four times, also if it is a POST (`steps/rest_call.py:94`).

Hazards that no property covers, because the code is exposed to them and promises nothing: an SLA that fails for ever under
rate control, a context behind one whose undeploy raised, a stack that two contexts retrieved and one deleted, a command that
writes for ever and a call of the SSH library that is never answered. All of these are in the models, and the properties
name them as exceptions. The cache below is not in a model.

Not modelled:

* The worker loops of the duration, sequence, dynamic and search runners: they cannot be started.
* `normalize_data_struct()` (`common/utils.py:426`) keeps a cache by `id()`; which ids are used again is up to the memory of
  the interpreter.
* `common/openstack_utils.py` (one cloud call per function), `common/httpClient.py` and `cmd/commands/env.py` (a bounded
  retry and a bounded poll against a server that is not here), `common/process.py` (only its unit test imports it).
* Command line, listings, HTML layout, constants, exceptions; `core/plugin.py`, a fixed sequence of SSH calls.
* Keys and addresses of servers, routes, floating addresses (no configuration reaches them).
