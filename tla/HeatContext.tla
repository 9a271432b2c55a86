----------------------------- MODULE HeatContext -----------------------------
(* The Heat contexts of a task and the stacks they keep in the cloud:        *)
(* HeatContext of vnftest/contexts/heat.py over HeatStack and                *)
(* HeatTemplate.create() of vnftest/orchestrator/heat.py.  The test cases    *)
(* deploy and undeploy their contexts as Task does, and the exit handler     *)
(* undeploys what is left.                                                   *)
(*                                                                           *)
(* The cloud is external.  It gives a request that it accepts a new id, at   *)
(* most one live stack a name, and brings the stack to COMPLETE or FAILED in *)
(* its own time; a call to it may raise before or after it had its effect.   *)
EXTENDS Naturals, Sequences, FiniteSets

CONSTANTS Contexts,  \* the contexts of the task
          Names,     \* stack names: contexts of different cases may share one
          Cases,     \* how the contexts may be divided into test cases
          Old,       \* the id of a stack that is there from before
          None       \* no stack

(* The parser makes the objects of the contexts of every test case anew.     *)
OneCaseEach(division) ==
  \A m, n \in DOMAIN division : \A p \in DOMAIN division[m], q \in DOMAIN division[n] :
    division[m][p] = division[n][q] => m = n /\ p = q

ASSUME HeatAssumption ==
  /\ Old \notin Contexts /\ None \notin Contexts \cup {Old}
  /\ \A division \in Cases : /\ division \in Seq(Seq(Contexts)) /\ division # <<>>
                             /\ OneCaseEach(division)

(* A context asks for one stack at most, whose id is denoted by the context. *)
Uuid == {Old} \cup Contexts
Live == {"creating", "complete", "failed"}

VARIABLES
  cases, name, flags,  \* the input
  pc, i, k,            \* the program, its test case and context
  stack,               \* self.stack of each context: an id, or None
  requested,           \* the stack that create() waits for
  deployed,            \* _DEPLOYED_STACKS
  listed,              \* Context._list
  cloud,               \* the stacks: name and status
  owner,               \* history: the context that asked for a stack
  held,                \* history: the stacks that a context ever had
  spoilt               \* history: an undeploy raised or was interrupted

input == <<cases, name, flags>>
vars == <<input, pc, i, k, stack, requested, deployed, listed, cloud, owner, held, spoilt>>

Current == cases[i]
c == Current[k]
Named(n) == {u \in Uuid : cloud[u].status \in Live /\ cloud[u].name = n}

Init == /\ cases \in Cases
        /\ name \in [Contexts -> Names]
        /\ flags \in [Contexts -> [no_setup : BOOLEAN, no_teardown : BOOLEAN]]
        /\ pc = "deploy" /\ i = 1 /\ k = 1
        /\ stack = [x \in Contexts |-> None]
        /\ requested = None
        /\ deployed = {} /\ listed = Contexts
        /\ \E n \in Names, s \in {"absent", "complete", "failed"} :
             cloud = [u \in Uuid |-> IF u = Old THEN [name |-> n, status |-> s]
                                              ELSE [name |-> n, status |-> "absent"]]
        /\ owner = [u \in Uuid |-> None]
        /\ held = {} /\ spoilt = FALSE

(* where deploy() leads when it returns and when it raises *)
Deployed == pc' = "deploy" /\ k' = k + 1
DeployRaises == pc' = "undeploy" /\ k' = 1

(***************************** deploy() *************************************)

Hold(u) == /\ stack' = [stack EXCEPT ![c] = u]
           /\ held' = held \cup {<<c, u>>}
           /\ deployed' = deployed \cup {u}

Found == flags[c].no_setup /\ Named(name[c]) # {}

(* HeatStack.get() finds a stack by its name, in whatever state it is *)
RetrieveExisting == /\ pc = "deploy" /\ k <= Len(Current)
                    /\ Found
                    /\ \E u \in Named(name[c]) : Hold(u)
                    /\ pc' = "fill" /\ UNCHANGED k
                    /\ UNCHANGED <<input, i, requested, listed, cloud, owner, spoilt>>

(* the request is accepted under a new id; create() waits *)
RequestStack == /\ pc = "deploy" /\ k <= Len(Current)
                /\ ~ Found
                /\ Named(name[c]) = {}
                /\ requested' = c
                /\ cloud' = [cloud EXCEPT ![c] = [name |-> name[c], status |-> "creating"]]
                /\ owner' = [owner EXCEPT ![c] = c]
                /\ pc' = "wait" /\ UNCHANGED k
                /\ UNCHANGED <<input, i, stack, deployed, listed, held, spoilt>>

(* no connection, a template that is refused, or a name that is taken *)
RefusedAdopts == /\ pc = "deploy" /\ k <= Len(Current)                 \* variant
                 /\ \/ DeployRaises /\ UNCHANGED <<stack, held, deployed>>
                    \/ Deployed /\ \E u \in Named(name[c]) : Hold(u)
                 /\ UNCHANGED <<input, i, requested, listed, cloud, owner, spoilt>>
RequestRefused == /\ pc = "deploy" /\ k <= Len(Current)
                  /\ DeployRaises
                  /\ UNCHANGED <<input, i, stack, requested, deployed, listed, cloud, owner, held, spoilt>>

(* create() returns a stack that is settled; it is tracked before its status *)
(* is looked at, and only a COMPLETE one is handed to the context            *)
CreateReturnsThen(settled, tracked) ==
  /\ pc = "wait" /\ cloud[requested].status \in settled
  /\ requested' = None
  /\ IF cloud[requested].status = "complete"
     THEN /\ stack' = [stack EXCEPT ![c] = requested]
          /\ held' = held \cup {<<c, requested>>}
          /\ pc' = "fill" /\ UNCHANGED k
     ELSE DeployRaises /\ UNCHANGED <<stack, held>>
  /\ deployed' = deployed \cup tracked
  /\ UNCHANGED <<input, i, listed, cloud, owner, spoilt>>
CreateAwaitsComplete == CreateReturnsThen({"complete"}, {requested})          \* variant
CreateReturnsUntracked == CreateReturnsThen({"complete", "failed"}, {})       \* variant
CreateReturns == CreateReturnsThen({"complete", "failed"}, {requested})

(* An error while waiting, or a KeyboardInterrupt: the StackCreationInterrupt *)
(* that deploy() means to raise then does not exist, and raises as well.     *)
CreateRaises == /\ pc = "wait"
                /\ requested' = None
                /\ DeployRaises
                /\ UNCHANGED <<input, i, stack, deployed, listed, cloud, owner, held, spoilt>>

(* network ids, addresses and ports are read from the outputs of the stack *)
Fill == /\ pc = "fill"
        /\ Deployed \/ DeployRaises
        /\ UNCHANGED <<input, i, stack, requested, deployed, listed, cloud, owner, held, spoilt>>

AllDeployed == /\ pc = "deploy" /\ k > Len(Current)
               /\ pc' = "undeploy" /\ k' = 1
               /\ UNCHANGED <<input, i, stack, requested, deployed, listed, cloud, owner, held, spoilt>>

(***************************** undeploy() ***********************************)

Undeploying == pc \in {"undeploy", "exit"} /\ i <= Len(cases) /\ k <= Len(Current)
Undeployed == UNCHANGED <<pc, i, spoilt>> /\ k' = k + 1
UndeployRaises == /\ pc' = IF pc = "undeploy" THEN "exit" ELSE "gone"
                  /\ k' = 1 /\ spoilt' = TRUE
                  /\ UNCHANGED i

SkipTeardown == /\ Undeploying
                /\ flags[c].no_teardown
                /\ Undeployed
                /\ UNCHANGED <<input, stack, requested, deployed, listed, cloud, owner, held>>

(* Context._list.remove(self) *)
Unlist == IF c \in listed THEN listed' = listed \ {c} /\ Undeployed
                          ELSE UNCHANGED listed /\ UndeployRaises

NoStack == /\ Undeploying
           /\ ~ flags[c].no_teardown /\ stack[c] = None
           /\ Unlist
           /\ UNCHANGED <<input, stack, requested, deployed, cloud, owner, held>>

CloudDeletes(u) == cloud' = [cloud EXCEPT ![u].status = IF @ \in Live THEN "deleted" ELSE @]

(* delete_stack() returns, or raises the TypeError that counts as success;   *)
(* pop() raises when another context has deleted the same stack before       *)
DeleteStack ==
  /\ Undeploying
  /\ ~ flags[c].no_teardown /\ stack[c] # None
  /\ CloudDeletes(stack[c])
  /\ IF stack[c] \in deployed
     THEN /\ deployed' = deployed \ {stack[c]}
          /\ stack' = [stack EXCEPT ![c] = None]
          /\ Unlist
     ELSE UndeployRaises /\ UNCHANGED <<deployed, stack, listed>>
  /\ UNCHANGED <<input, requested, owner, held>>

(* delete_stack() raises, with or without having deleted the stack *)
DeleteRaisesThen(next) == /\ Undeploying
                          /\ ~ flags[c].no_teardown /\ stack[c] # None
                          /\ CloudDeletes(stack[c]) \/ UNCHANGED cloud
                          /\ next
                          /\ UNCHANGED <<input, stack, requested, deployed, listed, owner, held>>
DeleteRaisesUnseen == DeleteRaisesThen(Undeployed)                      \* variant
DeleteRaises == DeleteRaisesThen(UndeployRaises)

AllUndeployedPast == /\ pc = "undeploy" /\ k > Len(Current)           \* variant
                     /\ k' = 1 /\ i' = i + 1 /\ pc' = "deploy"
                     /\ UNCHANGED <<input, stack, requested, deployed, listed, cloud, owner, held, spoilt>>
AllUndeployed == /\ pc = "undeploy" /\ k > Len(Current)
                 /\ k' = 1
                 /\ IF i < Len(cases) THEN i' = i + 1 /\ pc' = "deploy"
                                      ELSE i' = i /\ pc' = "gone"
                 /\ UNCHANGED <<input, stack, requested, deployed, listed, cloud, owner, held, spoilt>>

AllExited == /\ pc = "exit" /\ k > Len(Current)
             /\ pc' = "gone" /\ UNCHANGED <<i, k>>
             /\ UNCHANGED <<input, stack, requested, deployed, listed, cloud, owner, held, spoilt>>

(* a KeyboardInterrupt elsewhere ends the program through the exit handler *)
Interrupt == /\ pc \in {"deploy", "fill", "undeploy"}
             /\ pc' = "exit" /\ k' = 1
             /\ spoilt' = (spoilt \/ (pc = "undeploy" /\ k > 1))
             /\ UNCHANGED <<input, i, stack, requested, deployed, listed, cloud, owner, held>>

Gone == pc = "gone" /\ UNCHANGED vars

(***************************** the cloud ************************************)

CloudSettles(u) == /\ cloud[u].status = "creating"
                   /\ \E s \in {"complete", "failed"} : cloud' = [cloud EXCEPT ![u].status = s]
                   /\ UNCHANGED <<input, pc, i, k, stack, requested, deployed, listed, owner, held, spoilt>>

Deploy == \/ RetrieveExisting \/ RequestStack \/ RequestRefused \/ CreateReturns
          \/ Fill \/ AllDeployed
Undeploy == SkipTeardown \/ NoStack \/ DeleteStack \/ DeleteRaises \/ AllUndeployed \/ AllExited

Next == Deploy \/ Undeploy \/ CreateRaises \/ Interrupt \/ Gone \/ \E u \in Uuid : CloudSettles(u)

Spec == Init /\ [][Next]_vars
(* The program runs, and the cloud comes to an end with every stack; nothing *)
(* has to raise while the program waits.                                     *)
FairSpec == Spec /\ WF_vars(Deploy) /\ WF_vars(Undeploy) /\ \A u \in Uuid : WF_vars(CloudSettles(u))

(****************************** properties **********************************)

Statuses == {"absent", "deleted"} \cup Live

(* The types: in particular, the loops over test cases and contexts stay in  *)
(* their ranges, and the id that create() waits for is that of its context.  *)
TypeOK ==
  /\ cases \in Cases /\ name \in [Contexts -> Names]
  /\ flags \in [Contexts -> [no_setup : BOOLEAN, no_teardown : BOOLEAN]]
  /\ pc \in {"deploy", "wait", "fill", "undeploy", "exit", "gone"}
  /\ i \in 1 .. Len(cases) /\ k \in 1 .. Len(Current) + 1
  /\ stack \in [Contexts -> Uuid \cup {None}]
  /\ requested = (IF pc = "wait" THEN c ELSE None)
  /\ deployed \in SUBSET Uuid /\ listed \in SUBSET Contexts
  /\ cloud \in [Uuid -> [name : Names, status : Statuses]]
  /\ owner \in [Uuid -> Contexts \cup {None}]
  /\ held \in SUBSET (Contexts \X Uuid) /\ spoilt \in BOOLEAN

(* When the program has ended and no undeploy failed, every stack that a     *)
(* context ever had is gone from the cloud, whether it was created or found  *)
(* and whatever raised in deploy() after that, unless it is not to be torn   *)
(* down.                                                                     *)
NoStackLeaks ==
  pc = "gone" /\ ~ spoilt =>
    \A x \in Contexts, u \in Uuid :
      <<x, u>> \in held /\ cloud[u].status \in Live => flags[x].no_teardown

(* _DEPLOYED_STACKS, which stacks_exist() answers from, keeps up with the    *)
(* stacks that contexts have: delete() finds its stack there, where pop()    *)
(* would raise, unless another context has had the same stack, and none is   *)
(* there that the program has deleted, as long as no undeploy raised.        *)
TrackedIsLive ==
  /\ \A x \in Contexts : stack[x] # None =>
       \/ stack[x] \in deployed
       \/ \E y \in Contexts \ {x} : <<y, stack[x]>> \in held
  /\ ~ spoilt => \A u \in deployed : cloud[u].status \in Live

(* A stack from before is deleted only by a context that was told to use it  *)
(* (no_setup) and to tear it down: a name that is taken is not taken over.   *)
ForeignStackIsLeft ==
  cloud[Old].status = "deleted" =>
    \E x \in Contexts : /\ <<x, Old>> \in held
                        /\ flags[x].no_setup /\ ~ flags[x].no_teardown

(* The program ends, with stacks that fail as with stacks that complete.     *)
ProgramEnds == <>(pc = "gone")

(* What contexts/heat.py:465 says of undeploy(), "undeploys stack from       *)
(* cloud": without a failure of undeploy(), no stack is left that a context  *)
(* to be torn down asked for.                                                *)
RequestedStackIsUndeployed ==
  pc = "gone" /\ ~ spoilt =>
    \A u \in Uuid : owner[u] # None /\ cloud[u].status \in Live => flags[owner[u]].no_teardown
=============================================================================
