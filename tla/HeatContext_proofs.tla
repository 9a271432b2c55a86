-------------------------- MODULE HeatContext_proofs --------------------------
(* Proofs about HeatContext for any number of contexts, divided into any     *)
(* test cases, with any names.                                               *)
EXTENDS HeatContext, SequenceTheorems, TLAPS

(* A context waits, or is filled, in its place of the test case.             *)
PlaceInv == pc \in {"wait", "fill"} => k <= Len(Current)

(* x comes before the next context of the current case, or was in the case.  *)
Reached(x, last) == \E n \in 1 .. i : \E m \in 1 .. Len(cases[n]) :
                      cases[n][m] = x /\ (n = i => m <= last)

(* The last context of the case that may have asked for a stack, and the     *)
(* last one that may have been given it.                                     *)
AskedUpTo == IF pc = "deploy" THEN k - 1
             ELSE IF pc \in {"wait", "fill"} THEN k ELSE Len(Current)
HeldUpTo == IF pc \in {"deploy", "wait"} THEN k - 1
            ELSE IF pc = "fill" THEN k ELSE Len(Current)

(* A context asks for a stack when it is its turn, so once.                  *)
AskedInv == \A x \in Contexts : cloud[x].status # "absent" => Reached(x, AskedUpTo)

(* What a context has, it was given: a stack that is or was there, by that   *)
(* context's turn, and the old stack only if it was told to look for one.    *)
HeldInv ==
  /\ \A x \in Contexts : stack[x] # None => <<x, stack[x]>> \in held
  /\ \A x \in Contexts, u \in Uuid : <<x, u>> \in held =>
       /\ cloud[u].status # "absent"
       /\ Reached(x, HeldUpTo)
       /\ u = Old => flags[x].no_setup

(* A stack that lives, and is to be torn down, is still its context's, and   *)
(* the loop over the current case has that context before it.                *)
Owed(x, u) == <<x, u>> \in held /\ cloud[u].status \in Live /\ ~ flags[x].no_teardown
ToCome(x) == \E m \in 1 .. Len(Current) : Current[m] = x /\ (pc \in {"undeploy", "exit"} => k <= m)
OwedInv == ~ spoilt => \A x \in Contexts, u \in Uuid :
             Owed(x, u) => stack[x] = u /\ pc # "gone" /\ ToCome(x)

Types == TypeOK /\ PlaceInv
IInv == Types /\ AskedInv /\ HeldInv /\ OwedInv /\ TrackedIsLive /\ ForeignStackIsLeft

(****************************** the places **********************************)

(* Where the program is, in what Cases gives it.                             *)
LEMMA Here ==
  ASSUME Types
  PROVE  /\ DOMAIN cases = 1 .. Len(cases) /\ Len(cases) \in Nat
         /\ \A n \in 1 .. Len(cases) : cases[n] \in Seq(Contexts) /\ Len(cases[n]) \in Nat
                                       /\ DOMAIN cases[n] = 1 .. Len(cases[n])
         /\ i \in 1 .. Len(cases) /\ Current \in Seq(Contexts) /\ Len(Current) \in Nat
         /\ k \in 1 .. Len(Current) + 1 /\ (pc \in {"wait", "fill"} => k <= Len(Current))
         /\ k <= Len(Current) => c \in Contexts
         /\ OneCaseEach(cases)
<1>1. cases \in Seq(Seq(Contexts)) /\ OneCaseEach(cases)
  BY HeatAssumption DEF Types, TypeOK
<1>2. \A n \in 1 .. Len(cases) : cases[n] \in Seq(Contexts)
  BY <1>1, ElementOfSeq
<1>3. i \in 1 .. Len(cases) /\ k \in 1 .. Len(Current) + 1
      /\ (pc \in {"wait", "fill"} => k <= Len(Current))
  BY DEF Types, TypeOK, PlaceInv
<1>4. Current \in Seq(Contexts)
  BY <1>2, <1>3 DEF Current
<1>5. k <= Len(Current) => c \in Contexts
  BY <1>3, <1>4, ElementOfSeq, LenProperties DEF c
<1>6. Len(cases) \in Nat /\ DOMAIN cases = 1 .. Len(cases)
  BY <1>1, LenProperties
<1>7. \A n \in 1 .. Len(cases) : Len(cases[n]) \in Nat /\ DOMAIN cases[n] = 1 .. Len(cases[n])
  BY <1>2, LenProperties
<1>8. Len(Current) \in Nat
  BY <1>4, LenProperties
<1> QED
  BY <1>1, <1>2, <1>3, <1>4, <1>5, <1>6, <1>7, <1>8

(* The context whose turn it is was not reached before, and is now.          *)
LEMMA TurnIsFirst ==
  ASSUME Types, k <= Len(Current)
  PROVE  Reached(c, k) /\ ~ Reached(c, k - 1)
<1>1. Reached(c, k)
  BY Here DEF Reached, c, Current
<1>2. ASSUME Reached(c, k - 1)
      PROVE  FALSE
  <2>1. PICK n \in 1 .. i : \E m \in 1 .. Len(cases[n]) : cases[n][m] = c /\ (n = i => m <= k - 1)
    BY <1>2 DEF Reached
  <2>2. PICK m \in 1 .. Len(cases[n]) : cases[n][m] = c /\ (n = i => m <= k - 1)
    BY <2>1
  <2>3. n \in DOMAIN cases /\ m \in DOMAIN cases[n] /\ i \in DOMAIN cases /\ k \in DOMAIN cases[i]
    BY <2>1, <2>2, Here DEF Current
  <2>4. n = i /\ m = k
    BY <2>2, <2>3, Here DEF OneCaseEach, c, Current
  <2> QED
    BY <2>2, <2>4, Here
<1> QED
  BY <1>1, <1>2

(* In the case at hand, a context has one place.                             *)
LEMMA OnePlace ==
  ASSUME Types, NEW m \in 1 .. Len(Current), NEW n \in 1 .. Len(Current), Current[m] = Current[n]
  PROVE  m = n
  BY Here DEF OneCaseEach, Current

(* What was reached stays reached while the loops go on.                     *)
LEMMA ReachedMore ==
  ASSUME Types, cases' = cases, NEW x, NEW last \in Int, NEW more \in Int, Reached(x, last),
         \/ i' = i /\ last <= more
         \/ i' = i + 1
  PROVE  Reached(x, more)'
<1>1. PICK n \in 1 .. i : \E m \in 1 .. Len(cases[n]) : cases[n][m] = x /\ (n = i => m <= last)
  BY DEF Reached
<1>2. PICK m \in 1 .. Len(cases[n]) : cases[n][m] = x /\ (n = i => m <= last)
  BY <1>1
<1>3. n \in 1 .. i' /\ m \in 1 .. Len(cases'[n]) /\ cases'[n][m] = x /\ (n = i' => m <= more)
  BY <1>1, <1>2, Here
<1> QED
  BY <1>3 DEF Reached

(* The places up to which contexts have asked and held are numbers.          *)
LEMMA UpToType == ASSUME Types PROVE AskedUpTo \in Int /\ HeldUpTo \in Int
  BY Here DEF AskedUpTo, HeldUpTo

(**************************** types and places ******************************)

(* The types hold at the start,                                              *)
LEMMA InitTypes == Init => Types
<1> SUFFICES ASSUME Init
             PROVE  Types
  OBVIOUS
<1>1. cases \in Cases /\ cases \in Seq(Seq(Contexts)) /\ cases # <<>>
  BY HeatAssumption DEF Init
<1>2. 1 \in 1 .. Len(cases)
  BY <1>1, EmptySeq, LenProperties
<1>3. cases[1] \in Seq(Contexts)
  BY <1>1, <1>2, ElementOfSeq
<1>4. k \in 1 .. Len(Current) + 1 /\ i \in 1 .. Len(cases)
  BY <1>2, <1>3, LenProperties DEF Init, Current
<1>5. cloud \in [Uuid -> [name : Names, status : Statuses]]
  BY DEF Init, Statuses, Live
<1> QED
  BY <1>1, <1>4, <1>5 DEF Init, Types, TypeOK, PlaceInv, Uuid

(* A step of the program within a test case, or past it, as the loops tell.  *)
LEMMA LoopTypes ==
  ASSUME Types, UNCHANGED input,
         \/ i' = i /\ k' = 1
         \/ i' = i /\ k' = k
         \/ i' = i /\ k' = k + 1 /\ k <= Len(Current)
         \/ i' = i + 1 /\ k' = 1 /\ i < Len(cases)
  PROVE  /\ i' \in 1 .. Len(cases') /\ k' \in 1 .. Len(Current') + 1
         /\ i' = i => Current' = Current
<1>1. i' = i => Current' = Current
  BY DEF Current, input
<1>2. i' \in 1 .. Len(cases')
  BY Here DEF input
<1>3. CASE i' = i
  BY <1>1, <1>2, <1>3, Here
<1>4. CASE i' = i + 1 /\ k' = 1 /\ i < Len(cases)
  <2>1. Len(Current') \in Nat
    BY <1>4, Here DEF Current, input
  <2> QED
    BY <1>1, <1>2, <1>4, <2>1
<1> QED
  BY <1>3, <1>4

(* The steps that change nothing but where the program is.                   *)
Moves == /\ UNCHANGED <<input, stack, requested, deployed, listed, cloud, owner, held>>
         /\ \/ RequestRefused \/ Fill \/ AllDeployed \/ SkipTeardown \/ AllUndeployed \/ AllExited
            \/ Interrupt

(* Where they lead, from where.                                              *)
LEMMA MoveCases ==
  ASSUME Types, Moves
  PROVE  /\ spoilt' \in BOOLEAN /\ (spoilt => spoilt')
         /\ pc \in {"deploy", "fill", "undeploy", "exit"}
         /\ \/ /\ pc \in {"deploy", "fill"} /\ pc' \in {"undeploy", "exit"}
               /\ i' = i /\ k' = 1
            \/ /\ pc = "fill" /\ pc' = "deploy" /\ i' = i /\ k' = k + 1 /\ k <= Len(Current)
            \/ /\ pc \in {"undeploy", "exit"} /\ pc' = pc /\ k <= Len(Current)
               /\ flags[c].no_teardown /\ i' = i /\ k' = k + 1
            \/ /\ pc = "undeploy" /\ pc' = "exit" /\ i' = i /\ k' = 1 /\ (k > 1 => spoilt')
            \/ /\ pc = "undeploy" /\ pc' = "deploy" /\ k > Len(Current)
               /\ i' = i + 1 /\ k' = 1 /\ i < Len(cases)
            \/ /\ pc \in {"undeploy", "exit"} /\ pc' = "gone" /\ k > Len(Current)
               /\ i' = i /\ k' \in {1, k}
<1> USE DEF DeployRaises, Deployed
<1>0. spoilt \in BOOLEAN
  BY DEF Types, TypeOK
<1>1. CASE RequestRefused
  BY <1>0, <1>1 DEF RequestRefused
<1>2. CASE Fill
  BY <1>0, <1>2, Here DEF Fill
<1>3. CASE AllDeployed
  BY <1>0, <1>3 DEF AllDeployed
<1>4. CASE SkipTeardown
  BY <1>0, <1>4 DEF SkipTeardown, Undeploying, Undeployed
<1>5. CASE AllUndeployed
  BY <1>0, <1>5, Here DEF AllUndeployed
<1>6. CASE AllExited
  BY <1>0, <1>6 DEF AllExited
<1>7. CASE Interrupt
  <2>1. /\ pc \in {"deploy", "fill", "undeploy"} /\ pc' = "exit" /\ k' = 1 /\ i' = i
        /\ spoilt' = (spoilt \/ (pc = "undeploy" /\ k > 1))
    BY <1>7 DEF Interrupt
  <2>2. spoilt' \in BOOLEAN /\ (spoilt => spoilt') /\ (pc = "undeploy" /\ k > 1 => spoilt')
    BY <1>0, <2>1
  <2> QED
    BY <2>1, <2>2
<1> QED
  BY <1>1, <1>2, <1>3, <1>4, <1>5, <1>6, <1>7 DEF Moves

(***************************** the induction ********************************)

(* Whoever has asked or was given stays so while the places go on.           *)
LEMMA StillReached ==
  ASSUME Types, Types', UNCHANGED input,
         \/ i' = i /\ AskedUpTo <= AskedUpTo' /\ HeldUpTo <= HeldUpTo'
         \/ i' = i + 1
  PROVE  \A x : /\ Reached(x, AskedUpTo) => Reached(x, AskedUpTo)'
                /\ Reached(x, HeldUpTo) => Reached(x, HeldUpTo)'
<1> TAKE x
<1>0. cases' = cases
  BY DEF input
<1>1. AskedUpTo \in Int /\ HeldUpTo \in Int
  BY UpToType
<1>2. AskedUpTo' \in Int /\ HeldUpTo' \in Int
  <2>1. i' \in 1 .. Len(cases) /\ k' \in 1 .. Len(Current') + 1
    BY <1>0 DEF Types, TypeOK
  <2>2. Len(Current') \in Nat
    BY <1>0, <2>1, Here DEF Current
  <2> QED
    BY <2>1, <2>2 DEF AskedUpTo, HeldUpTo
<1>3. PICK asked \in Int : asked = AskedUpTo'
  BY <1>2
<1>4. PICK given \in Int : given = HeldUpTo'
  BY <1>2
<1>5. ASSUME Reached(x, AskedUpTo)
      PROVE  Reached(x, AskedUpTo)'
  <2>1. Reached(x, asked)'
    BY <1>0, <1>1, <1>3, <1>5, ReachedMore
  <2> QED
    BY <1>3, <2>1 DEF Reached
<1>6. ASSUME Reached(x, HeldUpTo)
      PROVE  Reached(x, HeldUpTo)'
  <2>1. Reached(x, given)'
    BY <1>0, <1>1, <1>4, <1>6, ReachedMore
  <2> QED
    BY <1>4, <2>1 DEF Reached
<1> QED
  BY <1>5, <1>6

(* and in a step that moves on and leaves the stacks alone.                  *)
LEMMA MovesTypes == ASSUME Types, Moves PROVE Types'
<1>1. /\ i' \in 1 .. Len(cases') /\ k' \in 1 .. Len(Current') + 1
      /\ i' = i => Current' = Current
  BY MoveCases, LoopTypes DEF Moves
<1>2. /\ pc' \in {"undeploy", "exit", "deploy", "gone"} /\ spoilt' \in BOOLEAN /\ pc # "wait"
  BY MoveCases
<1>3. UNCHANGED <<cases, name, flags, stack, requested, deployed, listed, cloud, owner, held>>
  BY DEF Moves, input
<1>4. TypeOK'
  BY <1>1, <1>2, <1>3 DEF Types, TypeOK
<1>5. PlaceInv'
  BY <1>2 DEF PlaceInv
<1> QED
  BY <1>4, <1>5 DEF Types

(* A context that is torn down, or has nothing that lives, is passed by.     *)
LEMMA PassedBy ==
  ASSUME Types, k <= Len(Current), NEW x, x # c, ToCome(x), Current' = Current,
         pc' = pc, pc \in {"undeploy", "exit"}, k' = k + 1
  PROVE  ToCome(x)'
<1>1. PICK m \in 1 .. Len(Current) : Current[m] = x /\ (pc \in {"undeploy", "exit"} => k <= m)
  BY DEF ToCome
<1>2. m # k
  BY <1>1 DEF c
<1>3. k + 1 <= m
  BY <1>1, <1>2, Here
<1> QED
  BY <1>1, <1>3 DEF ToCome

(* Such a step keeps the invariant: no context is passed that owes a stack.  *)
LEMMA MovesInv == ASSUME IInv, Moves PROVE IInv'
<1>1. Types /\ Types'
  BY MovesTypes DEF IInv
<1>2. UNCHANGED <<input, cases, name, flags, stack, deployed, cloud, owner, held>>
  BY DEF Moves, input
<1>3. i' = i => Current' = Current
  BY <1>2 DEF Current
<1>4. \/ i' = i /\ AskedUpTo <= AskedUpTo' /\ HeldUpTo <= HeldUpTo'
      \/ i' = i + 1
  BY <1>1, <1>3, MoveCases, Here DEF AskedUpTo, HeldUpTo
<1>5. \A x : /\ Reached(x, AskedUpTo) => Reached(x, AskedUpTo)'
             /\ Reached(x, HeldUpTo) => Reached(x, HeldUpTo)'
  BY <1>1, <1>2, <1>4, StillReached
<1>6. AskedInv'
  BY <1>2, <1>5 DEF IInv, AskedInv
<1>7. HeldInv'
  BY <1>2, <1>5 DEF IInv, HeldInv
<1>8. OwedInv'
  <2> SUFFICES ASSUME ~ spoilt', NEW x \in Contexts, NEW u \in Uuid, Owed(x, u)'
               PROVE  stack'[x] = u /\ pc' # "gone" /\ ToCome(x)'
    BY DEF OwedInv
  <2>1. Owed(x, u) /\ ~ spoilt
    BY <1>1, <1>2, MoveCases DEF Owed
  <2>2. stack[x] = u /\ pc # "gone" /\ ToCome(x)
    BY <2>1 DEF IInv, OwedInv
  <2>3. PICK m \in 1 .. Len(Current) : Current[m] = x /\ (pc \in {"undeploy", "exit"} => k <= m)
    BY <2>2 DEF ToCome
  <2>4. CASE k <= Len(Current) /\ pc \in {"undeploy", "exit"} /\ k' = k + 1
    <3>1. flags[c].no_teardown /\ pc' = pc /\ i' = i
      BY <1>1, <2>4, MoveCases, Here
    <3> QED
      BY <1>1, <1>2, <1>3, <2>1, <2>2, <2>4, <3>1, PassedBy DEF Owed
  <2>5. CASE i' = i /\ pc' # "gone" /\ (pc' \in {"undeploy", "exit"} => k' = 1)
    BY <1>2, <1>3, <2>2, <2>3, <2>5 DEF ToCome
  <2>6. ~ (pc \in {"undeploy", "exit"} /\ k > Len(Current))
    BY <1>1, <2>3, Here
  <2> QED
    BY <1>1, <2>4, <2>5, <2>6, MoveCases
<1>9. TrackedIsLive' /\ ForeignStackIsLeft'
  BY <1>1, <1>2, MoveCases DEF IInv, TrackedIsLive, ForeignStackIsLeft
<1> QED
  BY <1>1, <1>6, <1>7, <1>8, <1>9 DEF IInv

(* A context is given a stack that lives, found or created.                  *)
LEMMA HoldInv ==
  ASSUME IInv, NEW u \in Uuid, cloud[u].status \in Live, u = Old => flags[c].no_setup,
         pc \in {"deploy", "wait"}, k <= Len(Current), pc' = "fill", requested' = None, Hold(u),
         UNCHANGED <<input, i, k, listed, cloud, owner, spoilt>>
  PROVE  IInv'
<1>1. /\ Types /\ c \in Contexts /\ k \in 1 .. Len(Current) /\ Len(Current) \in Nat
      /\ UNCHANGED <<cases, name, flags, Current>>
  BY Here DEF IInv, input, Current
<1>2. /\ stack' = [stack EXCEPT ![c] = u] /\ held' = held \cup {<<c, u>>}
      /\ deployed' = deployed \cup {u} /\ stack \in [Contexts -> Uuid \cup {None}]
  BY DEF Hold, IInv, Types, TypeOK
<1>3. u # None
  BY HeatAssumption DEF Uuid
<1>4. Types'
  BY <1>1, <1>2 DEF Types, TypeOK, PlaceInv
<1>5. \A x : /\ Reached(x, AskedUpTo) => Reached(x, AskedUpTo)'
             /\ Reached(x, HeldUpTo) => Reached(x, HeldUpTo)'
  <2>1. AskedUpTo <= AskedUpTo' /\ HeldUpTo <= HeldUpTo'
    BY <1>1 DEF AskedUpTo, HeldUpTo
  <2> QED
    BY <1>1, <1>4, <2>1, StillReached
<1>6. AskedInv'
  BY <1>5 DEF IInv, AskedInv
<1>7. \A x : x = c => Reached(x, HeldUpTo)'
  <2>1. \E n \in 1 .. i : \E m \in 1 .. Len(cases[n]) : cases[n][m] = c /\ (n = i => m <= k)
    BY <1>1, TurnIsFirst DEF Reached
  <2>2. HeldUpTo' = k
    BY <1>1 DEF HeldUpTo
  <2> QED
    BY <1>1, <2>1, <2>2 DEF Reached
<1>8. \A v \in Uuid : <<c, v>> \notin held
  <2>1. HeldUpTo = k - 1 /\ ~ Reached(c, k - 1)
    BY <1>1, TurnIsFirst DEF HeldUpTo
  <2> QED
    BY <1>1, <2>1 DEF IInv, HeldInv
<1>9. HeldInv'
  <2>1. \A x \in Contexts : stack'[x] # None => <<x, stack'[x]>> \in held'
    BY <1>1, <1>2 DEF IInv, HeldInv
  <2>2. ASSUME NEW x \in Contexts, NEW v \in Uuid, <<x, v>> \in held'
        PROVE  /\ cloud'[v].status # "absent" /\ Reached(x, HeldUpTo)'
               /\ v = Old => flags'[x].no_setup
    <3>1. CASE <<x, v>> \in held
      BY <1>1, <1>5, <3>1 DEF IInv, HeldInv
    <3>2. CASE x = c /\ v = u
      BY <1>1, <1>7, <3>2 DEF Live
    <3> QED
      BY <1>2, <2>2, <3>1, <3>2
  <2> QED
    BY <2>1, <2>2 DEF HeldInv
<1>10. OwedInv'
  <2> SUFFICES ASSUME ~ spoilt', NEW x \in Contexts, NEW v \in Uuid, Owed(x, v)'
               PROVE  stack'[x] = v /\ pc' # "gone" /\ ToCome(x)'
    BY DEF OwedInv
  <2>1. CASE x = c
    <3>1. v = u
      BY <1>2, <1>8, <2>1 DEF Owed
    <3>2. ToCome(x)'
      BY <1>1, <2>1 DEF ToCome, c
    <3> QED
      BY <1>1, <1>2, <2>1, <3>1, <3>2
  <2>2. CASE x # c
    <3>1. Owed(x, v)
      BY <1>1, <1>2, <2>2 DEF Owed
    <3>2. stack[x] = v /\ ToCome(x)
      BY <3>1 DEF IInv, OwedInv
    <3> QED
      BY <1>1, <1>2, <2>2, <3>2 DEF ToCome
  <2> QED
    BY <2>1, <2>2
<1>11. TrackedIsLive'
  <2>1. ASSUME NEW x \in Contexts, stack'[x] # None
        PROVE  \/ stack'[x] \in deployed'
               \/ \E y \in Contexts \ {x} : <<y, stack'[x]>> \in held'
    <3>1. CASE x = c
      BY <1>1, <1>2, <3>1
    <3>2. CASE x # c
      BY <1>1, <1>2, <2>1, <3>2 DEF IInv, TrackedIsLive
    <3> QED
      BY <3>1, <3>2
  <2>2. ~ spoilt' => \A v \in deployed' : cloud'[v].status \in Live
    BY <1>1, <1>2 DEF IInv, TrackedIsLive
  <2> QED
    BY <2>1, <2>2 DEF TrackedIsLive
<1>12. ForeignStackIsLeft'
  BY <1>1, <1>2 DEF IInv, ForeignStackIsLeft
<1> QED
  BY <1>4, <1>6, <1>9, <1>10, <1>11, <1>12 DEF IInv

(* A stack that is found by its name is held, and not owed as the context's  *)
(* own.                                                                      *)
LEMMA RetrieveInv == ASSUME IInv, RetrieveExisting PROVE IInv'
<1>1. PICK u \in Named(name[c]) : Hold(u)
  BY DEF RetrieveExisting
<1>2. u \in Uuid /\ cloud[u].status \in Live
  BY <1>1 DEF Named
<1>3. requested' = None
  BY DEF RetrieveExisting, IInv, Types, TypeOK
<1> QED
  BY <1>1, <1>2, <1>3, HoldInv DEF RetrieveExisting, Found

(* A stack is asked for under an id that no context has seen.                *)
LEMMA RequestInv == ASSUME IInv, RequestStack PROVE IInv'
<1>1. /\ Types /\ pc = "deploy" /\ pc' = "wait" /\ k <= Len(Current) /\ requested' = c
      /\ c \in Contexts /\ k \in 1 .. Len(Current) /\ Len(Current) \in Nat
      /\ cloud' = [cloud EXCEPT ![c] = [name |-> name[c], status |-> "creating"]]
      /\ owner' = [owner EXCEPT ![c] = c]
      /\ UNCHANGED <<cases, name, flags, input, Current, i, k, stack, deployed, listed>>
      /\ UNCHANGED <<held, spoilt>>
  BY Here DEF RequestStack, IInv, input, Current
<1>2. c \in Uuid /\ c # Old /\ cloud \in [Uuid -> [name : Names, status : Statuses]]
  BY <1>1, HeatAssumption DEF Types, TypeOK, Uuid
<1>3. Types'
  <2>1. cloud' \in [Uuid -> [name : Names, status : Statuses]]
    BY <1>1, <1>2 DEF Types, TypeOK, Statuses, Live
  <2>2. owner' \in [Uuid -> Contexts \cup {None}] /\ c' = c
    BY <1>1 DEF Types, TypeOK, c
  <2> QED
    BY <1>1, <2>1, <2>2 DEF Types, TypeOK, PlaceInv
<1>4. \A x : /\ Reached(x, AskedUpTo) => Reached(x, AskedUpTo)'
             /\ Reached(x, HeldUpTo) => Reached(x, HeldUpTo)'
  <2>1. AskedUpTo <= AskedUpTo' /\ HeldUpTo <= HeldUpTo'
    BY <1>1 DEF AskedUpTo, HeldUpTo
  <2> QED
    BY <1>1, <1>3, <2>1, StillReached
<1>5. cloud[c].status = "absent"
  <2>1. AskedUpTo = k - 1 /\ ~ Reached(c, k - 1)
    BY <1>1, TurnIsFirst DEF AskedUpTo
  <2> QED
    BY <1>1, <2>1 DEF IInv, AskedInv
<1>6. \A u \in Uuid : u # c => cloud'[u] = cloud[u]
  BY <1>1, <1>2
<1>7. AskedInv'
  <2>1. \A x : x = c => Reached(x, AskedUpTo)'
    <3>1. \E n \in 1 .. i : \E m \in 1 .. Len(cases[n]) : cases[n][m] = c /\ (n = i => m <= k)
      BY <1>1, TurnIsFirst DEF Reached
    <3>2. AskedUpTo' = k
      BY <1>1 DEF AskedUpTo
    <3> QED
      BY <1>1, <3>1, <3>2 DEF Reached
  <2>2. ASSUME NEW x \in Contexts, cloud'[x].status # "absent"
        PROVE  Reached(x, AskedUpTo)'
    BY <1>4, <1>6, <2>1, <2>2 DEF IInv, AskedInv, Uuid
  <2> QED
    BY <2>2 DEF AskedInv
<1>8. \A x \in Contexts, u \in Uuid : <<x, u>> \in held => u # c
  BY <1>5 DEF IInv, HeldInv
<1>9. HeldInv'
  <2>1. ASSUME NEW x \in Contexts, NEW u \in Uuid, <<x, u>> \in held
        PROVE  /\ cloud'[u].status # "absent" /\ Reached(x, HeldUpTo)'
               /\ u = Old => flags[x].no_setup
    BY <1>4, <1>6, <1>8, <2>1 DEF IInv, HeldInv
  <2> QED
    BY <1>1, <2>1 DEF IInv, HeldInv
<1>10. OwedInv'
  <2> SUFFICES ASSUME ~ spoilt', NEW x \in Contexts, NEW u \in Uuid, Owed(x, u)'
               PROVE  stack'[x] = u /\ pc' # "gone" /\ ToCome(x)'
    BY DEF OwedInv
  <2>1. Owed(x, u) /\ ~ spoilt
    BY <1>1, <1>6, <1>8 DEF Owed
  <2>2. stack[x] = u /\ ToCome(x)
    BY <2>1 DEF IInv, OwedInv
  <2> QED
    BY <1>1, <2>2 DEF ToCome
<1>11. TrackedIsLive'
  <2>1. ASSUME ~ spoilt, NEW u \in deployed
        PROVE  cloud'[u].status \in Live
    <3>1. u \in Uuid /\ cloud[u].status \in Live
      BY <1>1, <2>1 DEF IInv, TrackedIsLive, Types, TypeOK
    <3> QED
      BY <1>5, <1>6, <3>1 DEF Live
  <2> QED
    BY <1>1, <2>1 DEF IInv, TrackedIsLive
<1>12. ForeignStackIsLeft'
  <2>1. cloud'[Old] = cloud[Old]
    BY <1>2, <1>6 DEF Uuid
  <2> QED
    BY <1>1, <2>1 DEF IInv, ForeignStackIsLeft
<1> QED
  BY <1>3, <1>7, <1>9, <1>10, <1>11, <1>12 DEF IInv

(* The creation ends without a stack; one that failed is tracked.            *)
LEMMA CreateFails ==
  ASSUME IInv, pc = "wait", DeployRaises, requested' = None,
         UNCHANGED <<input, i, stack, listed, cloud, owner, held, spoilt>>,
         deployed \subseteq deployed',
         \A u \in deployed' : u \in deployed \/ (u \in Uuid /\ cloud[u].status \in Live)
  PROVE  IInv'
<1>1. /\ Types /\ pc' = "undeploy" /\ k' = 1 /\ k \in 1 .. Len(Current) /\ Len(Current) \in Nat
      /\ UNCHANGED <<cases, name, flags, Current>>
  BY Here DEF IInv, input, Current, DeployRaises
<1>2. Types'
  BY <1>1 DEF Types, TypeOK, PlaceInv
<1>3. AskedUpTo <= AskedUpTo' /\ HeldUpTo <= HeldUpTo'
  BY <1>1 DEF AskedUpTo, HeldUpTo
<1>4. \A x : /\ Reached(x, AskedUpTo) => Reached(x, AskedUpTo)'
             /\ Reached(x, HeldUpTo) => Reached(x, HeldUpTo)'
  BY <1>1, <1>2, <1>3, StillReached
<1>5. AskedInv'
  BY <1>4 DEF IInv, AskedInv
<1>6. HeldInv'
  BY <1>1, <1>4 DEF IInv, HeldInv
<1>7. OwedInv'
  <2>1. \A x \in Contexts, u \in Uuid : Owed(x, u)' <=> Owed(x, u)
    BY <1>1 DEF Owed
  <2>2. \A x \in Contexts : ToCome(x) => ToCome(x)'
    BY <1>1 DEF ToCome
  <2> QED
    BY <1>1, <2>1, <2>2 DEF IInv, OwedInv
<1>8. TrackedIsLive' /\ ForeignStackIsLeft'
  BY <1>1 DEF IInv, TrackedIsLive, ForeignStackIsLeft
<1> QED
  BY <1>2, <1>5, <1>6, <1>7, <1>8 DEF IInv

(* A stack that was created is held by the context that asked for it.        *)
LEMMA CreateReturnsInv == ASSUME IInv, CreateReturns PROVE IInv'
<1>1. /\ Types /\ pc = "wait" /\ requested = c /\ k <= Len(Current) /\ c \in Contexts
      /\ cloud[c].status \in {"complete", "failed"} /\ c \in Uuid /\ c # Old
  BY Here, HeatAssumption DEF CreateReturns, CreateReturnsThen, IInv, Types, TypeOK, Uuid
<1>2. /\ requested' = None /\ deployed' = deployed \cup {c} /\ cloud[c].status \in Live
      /\ UNCHANGED <<input, i, listed, cloud, owner, spoilt>>
  BY <1>1 DEF CreateReturns, CreateReturnsThen, Live
<1>3. CASE cloud[c].status = "complete"
  <2>1. pc' = "fill" /\ k' = k /\ Hold(c)
    BY <1>1, <1>2, <1>3 DEF CreateReturns, CreateReturnsThen, Hold
  <2> QED
    BY <1>1, <1>2, <2>1, HoldInv
<1>4. CASE cloud[c].status # "complete"
  <2>1. DeployRaises /\ UNCHANGED <<stack, held>>
    BY <1>1, <1>4 DEF CreateReturns, CreateReturnsThen
  <2> QED
    BY <1>1, <1>2, <2>1, CreateFails
<1> QED
  BY <1>3, <1>4

(* A creation that fails leaves the context without the stack.               *)
LEMMA CreateRaisesInv == ASSUME IInv, CreateRaises PROVE IInv'
  BY CreateFails DEF CreateRaises

(* The undeploy() of a context: there is no stack, or it is deleted and      *)
(* forgotten, or something raises.                                           *)
UndeployOne ==
  /\ Undeploying /\ ~ flags[c].no_teardown
  /\ UNCHANGED <<input, requested, owner, held>> /\ listed' \subseteq listed
  /\ Undeployed \/ UndeployRaises
  /\ \/ stack[c] = None /\ UNCHANGED <<stack, deployed, cloud>>
     \/ /\ stack[c] # None /\ CloudDeletes(stack[c])
        /\ deployed' = deployed \ {stack[c]} /\ stack' = [stack EXCEPT ![c] = None]
     \/ /\ stack[c] # None /\ UNCHANGED <<stack, deployed>> /\ UndeployRaises
        /\ CloudDeletes(stack[c]) \/ UNCHANGED cloud

(* undeploy() takes the stack from the context, whatever the cloud does.     *)
LEMMA UndeployCases ==
  ASSUME NoStack \/ DeleteStack \/ DeleteRaises
  PROVE  UndeployOne
<1>1. CASE NoStack
  BY <1>1 DEF NoStack, Unlist, UndeployOne
<1>2. CASE DeleteStack
  BY <1>2 DEF DeleteStack, Unlist, UndeployOne
<1>3. CASE DeleteRaises
  BY <1>3 DEF DeleteRaises, DeleteRaisesThen, UndeployOne
<1> QED
  BY <1>1, <1>2, <1>3

(* What undeploy() takes from a context, it does not owe any more.           *)
LEMMA UndeployInv == ASSUME IInv, UndeployOne PROVE IInv'
<1>1. /\ Types /\ pc \in {"undeploy", "exit"} /\ k \in 1 .. Len(Current) /\ Len(Current) \in Nat
      /\ c \in Contexts /\ ~ flags[c].no_teardown /\ i' = i
      /\ UNCHANGED <<cases, name, flags, requested, owner, held, input>>
  BY Here DEF UndeployOne, Undeploying, Undeployed, UndeployRaises, IInv, input
<1>2. Current' = Current
  BY <1>1 DEF Current
<1>3. /\ stack \in [Contexts -> Uuid \cup {None}] /\ deployed \in SUBSET Uuid
      /\ cloud \in [Uuid -> [name : Names, status : Statuses]] /\ spoilt \in BOOLEAN
      /\ listed \in SUBSET Contexts
  BY <1>1 DEF Types, TypeOK
<1>4. \/ pc' = pc /\ k' = k + 1 /\ spoilt' = spoilt
      \/ pc' \in {"exit", "gone"} /\ k' = 1 /\ spoilt'
  BY <1>1 DEF UndeployOne, Undeployed, UndeployRaises
<1>5. /\ cloud' \in [Uuid -> [name : Names, status : Statuses]]
      /\ \A u \in Uuid : \/ cloud'[u] = cloud[u]
                         \/ /\ u = stack[c] /\ cloud[u].status \in Live
                            /\ cloud'[u].status = "deleted"
  <2>1. CASE cloud' = cloud
    BY <1>3, <2>1
  <2>2. CASE stack[c] # None /\ CloudDeletes(stack[c])
    <3>1. stack[c] \in Uuid
      BY <1>1, <1>3, <2>2
    <3>2. /\ cloud' = [cloud EXCEPT ![stack[c]] =
                        [cloud[stack[c]] EXCEPT !.status = IF cloud[stack[c]].status \in Live
                                                           THEN "deleted"
                                                           ELSE cloud[stack[c]].status]]
          /\ cloud[stack[c]] \in [name : Names, status : Statuses]
      BY <1>3, <2>2, <3>1 DEF CloudDeletes
    <3>3. CASE cloud[stack[c]].status \in Live
      <4>1. cloud'[stack[c]] = [cloud[stack[c]] EXCEPT !.status = "deleted"]
        BY <1>3, <3>1, <3>2, <3>3
      <4>2. /\ cloud'[stack[c]] \in [name : Names, status : Statuses]
            /\ cloud'[stack[c]].status = "deleted"
        BY <3>2, <4>1 DEF Statuses
      <4>3. \A u \in Uuid : u # stack[c] => cloud'[u] = cloud[u]
        BY <1>3, <3>1, <3>2
      <4> QED
        BY <1>3, <3>1, <3>2, <3>3, <4>2, <4>3
    <3>4. CASE cloud[stack[c]].status \notin Live
      <4>1. cloud' = cloud
        BY <1>3, <3>1, <3>2, <3>4
      <4> QED
        BY <1>3, <4>1
    <3> QED
      BY <3>3, <3>4
  <2> QED
    BY <2>1, <2>2 DEF UndeployOne
<1>6. \A u \in Uuid : /\ cloud'[u].status = "absent" <=> cloud[u].status = "absent"
                      /\ cloud'[u].status \in Live => cloud'[u] = cloud[u]
  BY <1>5 DEF Live
<1>7. /\ stack' \in [Contexts -> Uuid \cup {None}]
      /\ \A x \in Contexts \ {c} : stack'[x] = stack[x]
      /\ stack'[c] # None => stack' = stack /\ deployed' = deployed
      /\ deployed' \subseteq deployed
      /\ \A u \in deployed : u \in deployed' \/ u = stack[c]
  BY <1>1, <1>3 DEF UndeployOne
<1>8. ASSUME ~ spoilt'
      PROVE  stack[c] \notin deployed' /\ (stack[c] # None => cloud'[stack[c]].status \notin Live)
  <2>1. CASE stack[c] = None
    BY <1>3, <2>1, <1>7, HeatAssumption DEF Uuid
  <2>2. CASE stack[c] # None
    <3>1. /\ CloudDeletes(stack[c]) /\ deployed' = deployed \ {stack[c]} /\ stack[c] \in Uuid
          /\ cloud[stack[c]] \in [name : Names, status : Statuses]
      BY <1>1, <1>3, <1>8, <2>2 DEF UndeployOne, UndeployRaises
    <3>2. cloud'[stack[c]].status =
            IF cloud[stack[c]].status \in Live THEN "deleted" ELSE cloud[stack[c]].status
      BY <1>3, <3>1 DEF CloudDeletes
    <3> QED
      BY <3>1, <3>2 DEF Live
  <2> QED
    BY <2>1, <2>2
<1>9. Types'
  <2>1. /\ i' \in 1 .. Len(cases') /\ k' \in 1 .. Len(Current') + 1
    BY <1>1, <1>2, <1>4, LoopTypes
  <2>2. pc' \in {"undeploy", "exit", "gone"} /\ spoilt' \in BOOLEAN /\ requested' = None
        /\ listed' \in SUBSET Contexts /\ deployed' \in SUBSET Uuid
    <3>1. spoilt' \in BOOLEAN
      BY <1>3, <1>4
    <3>2. listed' \in SUBSET Contexts
      BY <1>3 DEF UndeployOne
    <3> QED
      BY <1>1, <1>3, <1>4, <1>7, <3>1, <3>2 DEF Types, TypeOK
  <2> QED
    BY <1>1, <1>2, <1>5, <1>7, <2>1, <2>2 DEF Types, TypeOK, PlaceInv
<1>10. \A x : /\ Reached(x, AskedUpTo) => Reached(x, AskedUpTo)'
              /\ Reached(x, HeldUpTo) => Reached(x, HeldUpTo)'
  <2>1. AskedUpTo <= AskedUpTo' /\ HeldUpTo <= HeldUpTo'
    BY <1>1, <1>2, <1>4 DEF AskedUpTo, HeldUpTo
  <2> QED
    BY <1>1, <1>9, <2>1, StillReached
<1>11. AskedInv'
  BY <1>6, <1>10 DEF IInv, AskedInv, Uuid
<1>12. HeldInv'
  <2>1. \A x \in Contexts : stack'[x] # None => stack'[x] = stack[x]
    BY <1>7
  <2> QED
    BY <1>1, <1>6, <1>10, <2>1 DEF IInv, HeldInv
<1>13. OwedInv'
  <2> SUFFICES ASSUME ~ spoilt', NEW x \in Contexts, NEW u \in Uuid, Owed(x, u)'
               PROVE  stack'[x] = u /\ pc' # "gone" /\ ToCome(x)'
    BY DEF OwedInv
  <2>1. pc' = pc /\ k' = k + 1 /\ spoilt' = spoilt
    BY <1>4
  <2>2. Owed(x, u) /\ cloud'[u].status \in Live
    BY <1>1, <1>6 DEF Owed
  <2>3. stack[x] = u /\ pc # "gone" /\ ToCome(x)
    BY <2>1, <2>2 DEF IInv, OwedInv
  <2>4. x # c
    BY <1>8, <2>2, <2>3, HeatAssumption DEF Uuid
  <2> QED
    BY <1>1, <1>2, <1>7, <2>1, <2>3, <2>4, PassedBy
<1>14. TrackedIsLive'
  <2>1. ASSUME NEW x \in Contexts, stack'[x] # None
        PROVE  \/ stack'[x] \in deployed'
               \/ \E y \in Contexts \ {x} : <<y, stack'[x]>> \in held'
    <3>1. CASE stack' = stack /\ deployed' = deployed
      BY <1>1, <2>1, <3>1 DEF IInv, TrackedIsLive
    <3>2. CASE x # c /\ stack[x] = stack[c]
      BY <1>1, <1>7, <2>1, <3>2 DEF IInv, HeldInv
    <3>3. CASE x # c /\ stack[x] # stack[c]
      BY <1>1, <1>7, <2>1, <3>3 DEF IInv, TrackedIsLive
    <3> QED
      BY <1>7, <2>1, <3>1, <3>2, <3>3
  <2>2. ASSUME ~ spoilt', NEW u \in deployed'
        PROVE  cloud'[u].status \in Live
    <3>1. ~ spoilt /\ u \in deployed /\ u \in Uuid
      BY <1>3, <1>4, <1>7, <2>2
    <3>2. cloud[u].status \in Live /\ u # stack[c]
      BY <1>8, <2>2, <3>1 DEF IInv, TrackedIsLive
    <3> QED
      BY <1>5, <3>1, <3>2
  <2> QED
    BY <2>1, <2>2 DEF TrackedIsLive
<1>15. ForeignStackIsLeft'
  <2> SUFFICES ASSUME cloud'[Old].status = "deleted"
               PROVE  \E x \in Contexts : /\ <<x, Old>> \in held
                                          /\ flags[x].no_setup /\ ~ flags[x].no_teardown
    BY <1>1 DEF ForeignStackIsLeft
  <2>1. CASE cloud'[Old] = cloud[Old]
    BY <2>1 DEF IInv, ForeignStackIsLeft
  <2>2. CASE stack[c] = Old
    <3>1. <<c, Old>> \in held /\ flags[c].no_setup
      BY <1>1, <2>2, HeatAssumption DEF IInv, HeldInv, Uuid
    <3> QED
      BY <1>1, <3>1
  <2> QED
    BY <1>5, <2>1, <2>2 DEF Uuid
<1> QED
  BY <1>9, <1>11, <1>12, <1>13, <1>14, <1>15 DEF IInv

(* A stack comes to an end in the cloud, while the program does something.   *)
LEMMA CloudInv == ASSUME IInv, NEW u \in Uuid, CloudSettles(u) PROVE IInv'
<1>1. /\ cloud[u].status = "creating"
      /\ UNCHANGED <<input, cases, name, flags, pc, i, k, stack, requested, deployed, listed, owner,
                     held, spoilt, Current, c>>
      /\ Types
  BY DEF CloudSettles, input, Current, c, IInv
<1>2. PICK s \in {"complete", "failed"} : cloud' = [cloud EXCEPT ![u].status = s]
  BY DEF CloudSettles
<1>3. cloud \in [Uuid -> [name : Names, status : Statuses]]
  BY <1>1 DEF Types, TypeOK
<1>4. /\ cloud' \in [Uuid -> [name : Names, status : Statuses]]
      /\ \A v \in Uuid : \/ cloud'[v] = cloud[v]
                         \/ cloud[v].status = "creating" /\ cloud'[v].status = s
  <2>1. cloud[u] \in [name : Names, status : Statuses]
    BY <1>3
  <2>2. cloud' = [cloud EXCEPT ![u] = [cloud[u] EXCEPT !.status = s]]
    BY <1>2
  <2>3. [cloud[u] EXCEPT !.status = s] \in [name : Names, status : Statuses]
        /\ [cloud[u] EXCEPT !.status = s].status = s
    BY <2>1 DEF Statuses, Live
  <2> QED
    BY <1>1, <1>3, <2>2, <2>3
<1>5. \A v \in Uuid : /\ cloud'[v].status = "absent" <=> cloud[v].status = "absent"
                      /\ cloud'[v].status \in Live <=> cloud[v].status \in Live
                      /\ cloud'[v].status = "deleted" <=> cloud[v].status = "deleted"
  BY <1>4 DEF Live
<1>6. Types'
  BY <1>1, <1>4 DEF Types, TypeOK, PlaceInv
<1>7. \A x : /\ Reached(x, AskedUpTo)' <=> Reached(x, AskedUpTo)
             /\ Reached(x, HeldUpTo)' <=> Reached(x, HeldUpTo)
             /\ ToCome(x)' <=> ToCome(x)
  BY <1>1 DEF Reached, AskedUpTo, HeldUpTo, ToCome
<1>8. AskedInv'
  BY <1>5, <1>7 DEF IInv, AskedInv, Uuid
<1>9. HeldInv'
  BY <1>1, <1>5, <1>7 DEF IInv, HeldInv
<1>10. OwedInv'
  <2>1. \A x \in Contexts, v \in Uuid : Owed(x, v)' <=> Owed(x, v)
    BY <1>1, <1>5 DEF Owed
  <2> QED
    BY <1>1, <1>7, <2>1 DEF IInv, OwedInv
<1>11. TrackedIsLive'
  <2>1. deployed \subseteq Uuid
    BY <1>1 DEF Types, TypeOK
  <2> QED
    BY <1>1, <1>5, <2>1 DEF IInv, TrackedIsLive
<1>12. ForeignStackIsLeft'
  BY <1>1, <1>5 DEF IInv, ForeignStackIsLeft, Uuid
<1> QED
  BY <1>6, <1>8, <1>9, <1>10, <1>11, <1>12 DEF IInv

(* At the start no context has a stack, and the cloud only old ones.         *)
LEMMA InitInv == Init => IInv
<1> SUFFICES ASSUME Init
             PROVE  IInv
  OBVIOUS
<1>1. Types
  BY InitTypes
<1>2. /\ \A x \in Contexts : stack[x] = None /\ cloud[x].status = "absent"
      /\ held = {} /\ deployed = {} /\ cloud[Old].status # "deleted"
  BY HeatAssumption DEF Init, Uuid
<1>3. AskedInv /\ HeldInv /\ OwedInv
  BY <1>2 DEF AskedInv, HeldInv, OwedInv, Owed
<1>4. TrackedIsLive /\ ForeignStackIsLeft
  BY <1>2 DEF TrackedIsLive, ForeignStackIsLeft
<1> QED
  BY <1>1, <1>3, <1>4 DEF IInv

(* Every step keeps the invariant.                                           *)
LEMMA StepInv == IInv /\ [Next]_vars => IInv'
<1> SUFFICES ASSUME IInv, [Next]_vars
             PROVE  IInv'
  OBVIOUS
<1>1. CASE RetrieveExisting
  BY <1>1, RetrieveInv
<1>2. CASE RequestStack
  BY <1>2, RequestInv
<1>3. CASE CreateReturns
  BY <1>3, CreateReturnsInv
<1>4. CASE CreateRaises
  BY <1>4, CreateRaisesInv
<1>5. CASE \/ RequestRefused \/ Fill \/ AllDeployed \/ SkipTeardown \/ AllUndeployed \/ AllExited
           \/ Interrupt
  <2>1. Moves
    BY <1>5 DEF Moves, RequestRefused, Fill, AllDeployed, SkipTeardown, AllUndeployed, AllExited,
                Interrupt
  <2> QED
    BY <2>1, MovesInv
<1>6. CASE NoStack \/ DeleteStack \/ DeleteRaises
  BY <1>6, UndeployCases, UndeployInv
<1>7. CASE \E u \in Uuid : CloudSettles(u)
  BY <1>7, CloudInv
<1>8. CASE UNCHANGED vars
  <2>1. UNCHANGED <<input, cases, name, flags, pc, i, k, stack, requested, deployed, listed, cloud,
                    owner, held, spoilt, Current, c>>
    BY <1>8 DEF vars, input, Current, c
  <2>2. Types'
    BY <2>1 DEF IInv, Types, TypeOK, PlaceInv
  <2>3. AskedInv' /\ HeldInv'
    BY <2>1 DEF IInv, AskedInv, HeldInv, Reached, AskedUpTo, HeldUpTo
  <2>4. OwedInv'
    BY <2>1 DEF IInv, OwedInv, Owed, ToCome
  <2>5. TrackedIsLive' /\ ForeignStackIsLeft'
    BY <2>1 DEF IInv, TrackedIsLive, ForeignStackIsLeft
  <2> QED
    BY <2>2, <2>3, <2>4, <2>5 DEF IInv
<1> QED
  BY <1>1, <1>2, <1>3, <1>4, <1>5, <1>6, <1>7, <1>8 DEF Next, Deploy, Undeploy, Gone

(* At every place, who owns which stack is what the loops that deploy and    *)
(* undeploy have made of it.                                                 *)
THEOREM Inductive == Spec => []IInv
  BY InitInv, StepInv, PTL DEF Spec

(**************************** the theorems **********************************)

(* The loops over test cases and contexts stay in their ranges, for any      *)
(* division of the contexts into cases.                                      *)
THEOREM TypeCorrect == Spec => []TypeOK
<1>1. IInv => TypeOK
  BY DEF IInv, Types
<1> QED
  BY Inductive, <1>1, PTL

(* Unless an undeploy() failed, the end of the program leaves no stack of a  *)
(* context that is to be torn down.                                          *)
THEOREM NoLeak == Spec => []NoStackLeaks
<1>1. IInv => NoStackLeaks
  BY DEF IInv, OwedInv, Owed, NoStackLeaks
<1> QED
  BY Inductive, <1>1, PTL

(* _DEPLOYED_STACKS keeps up with the stacks that the contexts have.         *)
THEOREM TrackedLive == Spec => []TrackedIsLive
<1>1. IInv => TrackedIsLive
  BY DEF IInv
<1> QED
  BY Inductive, <1>1, PTL

(* A stack from before is deleted only for a context that was told to.       *)
THEOREM ForeignLeft == Spec => []ForeignStackIsLeft
<1>1. IInv => ForeignStackIsLeft
  BY DEF IInv
<1> QED
  BY Inductive, <1>1, PTL
===============================================================================
