------------------------- MODULE HeatTemplate_proofs -------------------------
(* Proofs about HeatTemplate for any programs: any number of test cases and  *)
(* contexts, with any servers, groups and networks.                          *)
EXTENDS HeatTemplate, FiniteSetTheorems, TLAPS

(* The object of a group that a context defines, and whether the context has *)
(* made its objects.                                                         *)
Context(m) == cases[i][m]
Object(m, g) == [at |-> <<i, m>>, name |-> g, policy |-> Context(m).placement_groups[g]]
Initialised(m) == /\ m \in DOMAIN cases[i] /\ ~ Context(m).template_file
                  /\ pc # "end" /\ (pc = "init" => m < k)

(* No object is there before its context is initialised.                     *)
Earlier(at) == /\ at[1] \in Nat /\ at[2] \in Nat
               /\ \/ at[1] < i
                  \/ at[1] = i /\ (pc = "init" => at[2] < k)
FreshInv == /\ \A x \in DOMAIN placed : Earlier(x)
            /\ \A o \in DOMAIN members : Earlier(o.at)

(* A server of a context that uses its own groups is in their objects, and a *)
(* group has, of the servers of its context, those that are to be in it.     *)
Owns(m) == \A s \in DOMAIN Context(m).servers :
             /\ Context(m).servers[s].placement \subseteq DOMAIN Context(m).placement_groups
             /\ Context(m).servers[s].server_group \subseteq DOMAIN Context(m).server_groups
Apart(m) == \A n \in DOMAIN cases[i] : n # m => Context(n).name # Context(m).name
PlacedInv ==
  \A m \in DOMAIN cases[i] : Initialised(m) =>
    \A s \in DOMAIN Context(m).servers :
      /\ <<i, m, s>> \in DOMAIN placed
      /\ Owns(m) =>
           /\ placed[<<i, m, s>>] = {Object(m, g) : g \in Context(m).servers[s].placement}
           /\ \A o \in grouped[<<i, m, s>>] : o.name \in DOMAIN Context(m).server_groups
MembersInv ==
  \A m \in DOMAIN cases[i] : Initialised(m) =>
    \A g \in DOMAIN Context(m).placement_groups :
      /\ Object(m, g) \in DOMAIN members
      /\ Owns(m) /\ Apart(m) =>
           \A s \in DOMAIN Context(m).servers :
             <<Context(m).name, s>> \in members[Object(m, g)]
               <=> g \in Context(m).servers[s].placement

(* The servers that are in the template, and those that the passes have      *)
(* still to add.                                                             *)
Done == DOMAIN hints
CoverInv ==
  /\ pc \in Building => added = {StackName(s) : s \in Done \ UnplacedServers}
  /\ pc = "availability" => /\ Done \cup queue = AvailabilityServers
                            /\ Done \cap queue = {}
  /\ pc = "affinity" => /\ AvailabilityServers \subseteq Done
                        /\ Done \subseteq AvailabilityServers \cup AffinityServers
                        /\ queue \subseteq AffinityServers
                        /\ AffinityServers \subseteq Done \cup queue
  /\ pc = "rest" => /\ Servers \ UnplacedServers \subseteq Done
                    /\ queue \subseteq UnplacedServers
                    /\ UnplacedServers \subseteq Done \cup queue
                    /\ Done \cap queue = {}
  /\ pc \in {"create", "read"} => Done = Servers

(* What the template has of the networks, the groups and the servers.        *)
BaseInv ==
  pc \in Building /\ ~ c.template_file =>
    /\ NetworkResources \subseteq resources /\ NetworkRefs \subseteq refs
    /\ NetworkOutputs \subseteq outputs
    /\ c.flavor.kind = "dict" => ContextFlavor \in flavors \cap resources
    /\ OwnFlavors(AvailabilityServers) \subseteq flavors
    /\ pc \in {"rest", "create", "read"} =>
         {GroupResource(g) : g \in DOMAIN c.server_groups} \subseteq resources
DoneInv ==
  pc \in Building => \A s \in Done : \A x \in Instances(s) :
    /\ InstanceResources(s, x) \subseteq resources
    /\ InstanceRefs(s, x, hints[s]) \subseteq refs
    /\ InstanceOutputs(s, x) \subseteq outputs

(* Every reference resolves, or will when the servers are added whose        *)
(* flavors were noted ahead.                                                 *)
Closable == OwnGroups /\ \A s \in Servers : Single(s) /\ c.servers[s].volume.kind # "literal"
Noted == IF pc = "availability" THEN OwnFlavors(queue) ELSE {}
ClosedInv ==
  pc \in Building /\ Closable =>
    /\ flavors \subseteq resources \cup Noted
    /\ \A r \in refs : r[2] \in resources \cup Noted

(* The hints of the servers that are in the template.                        *)
Tied(s, t, policy) == IF Shares(s, t, policy)
                      THEN ~ (Names(s, t, policy) <=> Names(t, s, policy))
                      ELSE ~ Names(s, t, policy)
HintsInv ==
  pc \in Building /\ OwnGroups /\ NamedAlone =>
    \A s, t \in Done, policy \in Policies : s # t => Tied(s, t, policy)

IInv == /\ cases \in Programs /\ TypeOK
        /\ FreshInv /\ PlacedInv /\ MembersInv
        /\ CoverInv /\ BaseInv /\ DoneInv /\ ClosedInv /\ HintsInv

(************************ the context at hand *******************************)

(* The context at hand is one that the assumption speaks of.                 *)
LEMMA Here ==
  ASSUME cases \in Programs, i \in 1 .. Len(cases), k \in 1 .. Len(cases[i])
  PROVE  /\ i \in Nat /\ k \in Nat /\ Len(cases) \in Nat /\ Len(cases[i]) \in Nat
         /\ DOMAIN cases = 1 .. Len(cases) /\ DOMAIN cases[i] = 1 .. Len(cases[i])
         /\ \A m \in DOMAIN cases[i] : IsContext(Context(m))
         /\ Context(k) = c /\ IsContext(c)
<1>1. PICK p : p = cases
  OBVIOUS
<1>2. p \in Seq(Range(p)) /\ \A n \in DOMAIN p : p[n] \in Seq(Range(p[n]))
  BY <1>1, TemplateAssumption DEF IsSequence
<1>3. DOMAIN p = 1 .. Len(p) /\ Len(p) \in Nat
  BY <1>2
<1>4. i \in DOMAIN p
  BY <1>1, <1>3
<1>5. PICK q : q = p[i]
  OBVIOUS
<1>6. q \in Seq(Range(q))
  BY <1>2, <1>4, <1>5
<1>7. DOMAIN q = 1 .. Len(q) /\ Len(q) \in Nat
  BY <1>6
<1>8. \A m \in DOMAIN q : IsContext(q[m])
  BY <1>1, <1>4, <1>5, TemplateAssumption
<1> QED
  BY <1>1, <1>3, <1>4, <1>5, <1>7, <1>8 DEF Context, c

(* What is defined by the context is the same while the context is.          *)
LEMMA SameServers ==
  ASSUME UNCHANGED <<cases, i, k>>
  PROVE  /\ c' = c /\ Servers' = Servers
         /\ \A s : StackName(s)' = StackName(s)
         /\ \A s : Instances(s)' = Instances(s)
         /\ \A s : FirstInstance(s)' = FirstInstance(s)
         /\ \A s : Flavor(s)' = Flavor(s)
         /\ \A s : FlavorName(s)' = FlavorName(s)
         /\ \A s : Own(s)' = Own(s)
         /\ \A s : IsExplicit(s)' = IsExplicit(s)
         /\ \A s, n : PortsOn(s, n)' = PortsOn(s, n)
         /\ ContextFlavor' = ContextFlavor
<1>1. c' = c
  BY DEF c
<1> QED
  BY <1>1 DEF Servers, StackName, Instances, FirstInstance, Flavor, FlavorName, Own, IsExplicit,
     PortsOn, PortMap, ContextFlavor, Count

(* So is what the networks and ports of a server come to.                    *)
LEMMA SameNetworks ==
  ASSUME UNCHANGED <<cases, i, k>>
  PROVE  /\ NewNetworks' = NewNetworks /\ NetworkResources' = NetworkResources
         /\ NetworkRefs' = NetworkRefs /\ NetworkOutputs' = NetworkOutputs
         /\ \A s : Wired(s)' = Wired(s)
         /\ \A s, x : Ports(s, x)' = Ports(s, x)
         /\ \A s, x : PortRefs(s, x)' = PortRefs(s, x)
<1>1. c' = c
  BY DEF c
<1>2. NewNetworks' = NewNetworks /\ External' = External
  BY <1>1 DEF NewNetworks, External
<1>3. \A n : Net(n)' = Net(n) /\ Subnet(n)' = Subnet(n) /\ Router(n)' = Router(n)
             /\ RouterInterface(n)' = RouterInterface(n)
  BY <1>1 DEF Net, Subnet, Router, RouterInterface
<1>4. \A s : Wired(s)' = Wired(s)
  BY <1>1, SameServers DEF Wired
<1> QED
  BY <1>1, <1>2, <1>3, <1>4, SameServers DEF NetworkResources, NetworkRefs, NetworkOutputs, Ports,
     PortRefs, Port

(* So is what a server adds to the template.                                 *)
LEMMA SameAdded ==
  ASSUME UNCHANGED <<cases, i, k>>
  PROVE  /\ \A s : NewFlavors(s)' = NewFlavors(s)
         /\ \A s : Volumes(s)' = Volumes(s) /\ NewVolumes(s)' = NewVolumes(s)
         /\ \A s, x : InstanceResources(s, x)' = InstanceResources(s, x)
         /\ \A s, x : InstanceOutputs(s, x)' = InstanceOutputs(s, x)
         /\ \A s, x, hint : flavors' = flavors =>
              InstanceRefs(s, x, hint)' = InstanceRefs(s, x, hint)
<1>1. c' = c
  BY DEF c
<1>2. \A s : NewFlavors(s)' = NewFlavors(s)
  BY SameServers DEF NewFlavors
<1>3. \A s : Volume(s)' = Volume(s)
  BY <1>1, SameServers DEF Volume
<1>4. \A s : Volumes(s)' = Volumes(s) /\ NewVolumes(s)' = NewVolumes(s)
  BY <1>1, <1>3 DEF Volumes, NewVolumes
<1>5. \A s, x : Attachments(s, x)' = Attachments(s, x)
  BY <1>4 DEF Attachments
<1>6. \A s, x : InstanceResources(s, x)' = InstanceResources(s, x)
  BY <1>2, <1>4, <1>5, SameNetworks DEF InstanceResources, Instance
<1>7. \A s, x : InstanceOutputs(s, x)' = InstanceOutputs(s, x)
  BY <1>1, <1>2, <1>4, SameNetworks, SameServers DEF InstanceOutputs, Instance, ExplicitKey
<1>8. \A s, x, hint : flavors' = flavors => InstanceRefs(s, x, hint)' = InstanceRefs(s, x, hint)
  BY <1>4, <1>5, SameNetworks, SameServers DEF InstanceRefs, Instance
<1> QED
  BY <1>2, <1>4, <1>6, <1>7, <1>8

(* So is what the placement of the servers decides.                          *)
LEMMA SameGroups ==
  ASSUME UNCHANGED <<cases, i, k, logical>>
  PROVE  /\ AvailabilityServers' = AvailabilityServers /\ AffinityServers' = AffinityServers
         /\ UnplacedServers' = UnplacedServers
         /\ \A s, policy : Has(s, policy)' = Has(s, policy)
         /\ \A q : OwnFlavors(q)' = OwnFlavors(q)
         /\ OwnGroups' = OwnGroups /\ NamedAlone' = NamedAlone /\ Closable' = Closable
         /\ \A s, t, policy : Shares(s, t, policy)' = Shares(s, t, policy)
<1>1. c' = c /\ placed' = placed
  BY DEF c, logical
<1>2. \A s : Server(s)' = Server(s)
  BY DEF Server
<1>3. \A s, policy : Has(s, policy)' = Has(s, policy)
  BY <1>1, <1>2 DEF Has
<1>4. AvailabilityServers' = AvailabilityServers /\ AffinityServers' = AffinityServers
  BY <1>3, SameServers DEF AvailabilityServers, AffinityServers
<1>5. UnplacedServers' = UnplacedServers
  BY <1>1, <1>2, SameServers DEF UnplacedServers
<1>6. \A q : OwnFlavors(q)' = OwnFlavors(q)
  BY SameServers DEF OwnFlavors
<1>7. OwnGroups' = OwnGroups
  BY <1>1, SameServers DEF OwnGroups
<1>8. NamedAlone' = NamedAlone
  BY <1>1 DEF NamedAlone
<1>9. Closable' = Closable
  BY <1>1, <1>7, SameServers DEF Closable, Single, Count
<1>10. \A s, t, policy : Shares(s, t, policy)' = Shares(s, t, policy)
  BY <1>1 DEF Shares
<1> QED
  BY <1>3, <1>4, <1>5, <1>6, <1>7, <1>8, <1>9, <1>10

(****************** steps that leave the objects alone **********************)

(* The program goes on in the test case, or to the next one.                 *)
Onward == \/ /\ i' = i /\ pc # "end" /\ k' \in 1 .. Len(cases[i])
             /\ pc' \in Building \cup {"start", "end"} /\ pc # "init"
          \/ /\ i' = i /\ pc' = "end" /\ UNCHANGED k
          \/ i' = i + 1 /\ i' \in 1 .. Len(cases) /\ pc' = "init" /\ k' = 1
          \/ UNCHANGED <<pc, i, k>>
          \/ pc = "init" /\ c.template_file /\ AllInitialised /\ i' = i

(* Only init() makes the objects of a context.                               *)
LEMMA InitialisedBefore ==
  ASSUME cases \in Programs, TypeOK, UNCHANGED cases, Onward, NEW m \in DOMAIN cases[i], i' = i,
         Initialised(m)'
  PROVE  Initialised(m)
<1>1. DOMAIN cases[i] = 1 .. Len(cases[i]) /\ k \in Nat /\ Len(cases[i]) \in Nat
      /\ k \in 1 .. Len(cases[i]) /\ Context(k) = c
  BY Here DEF TypeOK
<1>2. m \in Nat /\ m <= Len(cases[i]) /\ Context(m)' = Context(m)
  BY <1>1 DEF Context
<1>3. ~ Context(m).template_file /\ pc' # "end" /\ (pc' = "init" => m < k')
  BY <1>2 DEF Initialised
<1>4. CASE pc = "init" /\ c.template_file /\ AllInitialised
  <2>1. m # k
    BY <1>1, <1>3, <1>4
  <2> QED
    BY <1>1, <1>2, <1>3, <1>4, <2>1 DEF AllInitialised, Initialised
<1>5. CASE ~ (pc = "init" /\ c.template_file /\ AllInitialised)
  BY <1>1, <1>2, <1>3, <1>5 DEF Onward, Initialised, Building, Passes
<1> QED
  BY <1>4, <1>5

(* The objects keep what they are to be in every step that leaves them       *)
(* alone.                                                                    *)
LEMMA ObjectsStay ==
  ASSUME IInv, UNCHANGED <<cases, logical>>, Onward
  PROVE  /\ i' \in 1 .. Len(cases') /\ k' \in 1 .. Len(cases'[i'])
         /\ pc' \in Building \cup {"init", "start", "end"}
         /\ GroupsTyped' /\ FreshInv' /\ PlacedInv' /\ MembersInv'
<1>1. /\ cases \in Programs /\ TypeOK /\ cases' = cases /\ placed' = placed /\ members' = members
      /\ grouped' = grouped /\ pgmap' = pgmap /\ sgmap' = sgmap
  BY DEF IInv, logical
<1>2. /\ i \in Nat /\ k \in Nat /\ DOMAIN cases = 1 .. Len(cases) /\ Len(cases) \in Nat
      /\ DOMAIN cases[i] = 1 .. Len(cases[i]) /\ Len(cases[i]) \in Nat /\ Context(k) = c
      /\ i \in 1 .. Len(cases) /\ k \in 1 .. Len(cases[i])
  BY <1>1, Here DEF TypeOK
<1>3. i' \in 1 .. Len(cases') /\ k' \in 1 .. Len(cases'[i'])
  <2>1. CASE i' = i + 1
    <3>1. Len(cases[i']) \in Nat \ {0}
      <4>1. PICK p : p = cases
        OBVIOUS
      <4>2. p \in Seq(Range(p)) /\ \A n \in DOMAIN p : p[n] \in Seq(Range(p[n])) /\ p[n] # <<>>
        BY <1>1, <4>1, TemplateAssumption DEF IsSequence
      <4>3. i' \in DOMAIN p
        BY <1>1, <1>2, <2>1, <4>1 DEF Onward, AllInitialised
      <4>4. PICK q : q = p[i']
        OBVIOUS
      <4>5. q \in Seq(Range(q)) /\ q # <<>>
        BY <4>2, <4>3, <4>4
      <4>6. Len(q) \in Nat \ {0}
        BY <4>5
      <4> QED
        BY <4>1, <4>4, <4>6
    <3> QED
      BY <1>1, <1>2, <2>1, <3>1 DEF Onward, AllInitialised
  <2>2. CASE i' = i
    BY <1>1, <1>2, <2>2 DEF Onward, AllInitialised
  <2> QED
    BY <1>2, <2>1, <2>2 DEF Onward
<1>4. pc' \in Building \cup {"init", "start", "end"}
  BY <1>1 DEF Onward, AllInitialised, TypeOK
<1>5. FreshInv'
  <2>1. ASSUME NEW at, Earlier(at)
        PROVE  Earlier(at)'
    BY <1>2, <2>1 DEF Onward, AllInitialised, Earlier, Building, Passes
  <2> QED
    BY <1>1, <2>1 DEF FreshInv, IInv
<1>6. CASE i' = i
  <2>1. \A m \in DOMAIN cases[i] : /\ Context(m)' = Context(m) /\ Owns(m)' = Owns(m)
                                   /\ Apart(m)' = Apart(m)
                                   /\ \A g : Object(m, g)' = Object(m, g)
    BY <1>1, <1>6 DEF Context, Owns, Apart, Object
  <2>2. \A m \in DOMAIN cases[i] : Initialised(m)' => Initialised(m)
    BY <1>1, <1>6, InitialisedBefore
  <2>3. PlacedInv'
    <3> SUFFICES ASSUME NEW m \in DOMAIN cases[i], Initialised(m)',
                        NEW s \in DOMAIN Context(m).servers
                 PROVE  /\ <<i, m, s>> \in DOMAIN placed
                        /\ Owns(m) =>
                             /\ placed[<<i, m, s>>] =
                                  {Object(m, g) : g \in Context(m).servers[s].placement}
                             /\ \A o \in grouped[<<i, m, s>>] :
                                  o.name \in DOMAIN Context(m).server_groups
      BY <1>1, <1>6, <2>1 DEF PlacedInv
    <3> QED
      BY <2>2 DEF PlacedInv, IInv
  <2>4. MembersInv'
    <3> SUFFICES ASSUME NEW m \in DOMAIN cases[i], Initialised(m)',
                        NEW g \in DOMAIN Context(m).placement_groups
                 PROVE  /\ Object(m, g) \in DOMAIN members
                        /\ Owns(m) /\ Apart(m) =>
                             \A s \in DOMAIN Context(m).servers :
                               <<Context(m).name, s>> \in members[Object(m, g)]
                                 <=> g \in Context(m).servers[s].placement
      BY <1>1, <1>6, <2>1 DEF MembersInv
    <3> QED
      BY <2>2 DEF MembersInv, IInv
  <2>5. GroupsTyped'
    <3>1. \A g \in DOMAIN pgmap : pgmap[g] \in DOMAIN members /\ pgmap[g].name = g
      BY <1>1 DEF TypeOK, GroupsTyped
    <3>2. pc' \in Building \cup {"start"} => \A s \in Servers' : Server(s)' \in DOMAIN placed
      <4> SUFFICES ASSUME pc' \in Building \cup {"start"}, NEW s \in Servers'
                   PROVE  Server(s)' \in DOMAIN placed
        OBVIOUS
      <4>0. PICK m : m = k'
        OBVIOUS
      <4>1. m \in DOMAIN cases[i] /\ Context(m)' = c' /\ Server(s)' = <<i, m, s>>
        BY <1>1, <1>2, <1>3, <1>6, <4>0 DEF Context, c, Server
      <4>2. ~ c'.template_file /\ s \in DOMAIN c'.servers
        BY DEF Servers
      <4>3. Initialised(m)'
        BY <1>1, <1>6, <4>1, <4>2 DEF Initialised, Building, Passes
      <4> QED
        BY <1>1, <1>6, <2>3, <4>1, <4>2, <4>3 DEF PlacedInv
    <3> QED
      BY <1>1, <3>1, <3>2 DEF TypeOK, GroupsTyped
  <2> QED
    BY <1>3, <1>4, <1>5, <2>3, <2>4, <2>5
<1>7. CASE i' = i + 1
  <2>1. pc' = "init" /\ k' = 1
    BY <1>2, <1>7 DEF Onward
  <2>2. DOMAIN cases[i'] \subseteq Nat \ {0}
    <3>1. PICK p : p = cases
      OBVIOUS
    <3>2. p \in Seq(Range(p)) /\ \A n \in DOMAIN p : p[n] \in Seq(Range(p[n]))
      BY <1>1, <3>1, TemplateAssumption DEF IsSequence
    <3>3. i' \in DOMAIN p
      BY <1>1, <1>2, <1>3, <3>1
    <3>4. PICK q : q = p[i']
      OBVIOUS
    <3>5. q \in Seq(Range(q))
      BY <3>2, <3>3, <3>4
    <3>6. DOMAIN q = 1 .. Len(q)
      BY <3>5
    <3> QED
      BY <3>1, <3>4, <3>6
  <2>3. \A m \in DOMAIN cases'[i'] : ~ Initialised(m)'
    BY <1>1, <2>1, <2>2 DEF Initialised
  <2>4. PlacedInv' /\ MembersInv'
    BY <2>3 DEF PlacedInv, MembersInv
  <2>5. GroupsTyped'
    BY <1>1, <2>1 DEF TypeOK, GroupsTyped, Building, Passes
  <2> QED
    BY <1>3, <1>4, <1>5, <2>4, <2>5
<1> QED
  BY <1>2, <1>6, <1>7 DEF Onward

(************************** making the objects ******************************)

(* What init() makes of the maps, read off at each name and object.          *)
LEMMA MapsAfter ==
  ASSUME InitContext
  PROVE  /\ UNCHANGED <<cases, i, build>> /\ AllInitialised
         /\ pc = "init" /\ ~ c.template_file /\ ~ IsInvalid
         /\ pgmap' = PlacementGroups /\ sgmap' = ServerGroups
         /\ DOMAIN members' = DOMAIN members \cup Range(PlacementGroups)
         /\ \A o \in DOMAIN members : members'[o] = members[o] \cup NewMembers(o)
         /\ \A o \in Range(PlacementGroups) \ DOMAIN members : members'[o] = NewMembers(o)
         /\ DOMAIN placed' = DOMAIN placed \cup {Server(s) : s \in DOMAIN c.servers}
         /\ \A x \in DOMAIN placed : placed'[x] = placed[x]
         /\ \A s \in DOMAIN c.servers : Server(s) \notin DOMAIN placed =>
              placed'[Server(s)] = {PlacementGroups[g] : g \in c.servers[s].placement}
         /\ DOMAIN grouped' = DOMAIN grouped \cup {Server(s) : s \in DOMAIN c.servers}
         /\ \A x \in DOMAIN grouped : grouped'[x] = grouped[x]
         /\ \A s \in DOMAIN c.servers : Server(s) \notin DOMAIN grouped =>
              grouped'[Server(s)] = {ServerGroups[g] : g \in c.servers[s].server_group}
<1>1. \A s : Server(s)[3] = s
  BY DEF Server
<1>2. /\ DOMAIN members' = DOMAIN members \cup Range(PlacementGroups)
      /\ \A o \in DOMAIN members : members'[o] = members[o] \cup NewMembers(o)
      /\ \A o \in Range(PlacementGroups) \ DOMAIN members : members'[o] = NewMembers(o)
  BY DEF InitContext
<1>3. /\ DOMAIN placed' = DOMAIN placed \cup {Server(s) : s \in DOMAIN c.servers}
      /\ \A x \in DOMAIN placed : placed'[x] = placed[x]
      /\ \A s \in DOMAIN c.servers : Server(s) \notin DOMAIN placed =>
           placed'[Server(s)] = {PlacementGroups[g] : g \in c.servers[s].placement}
  BY <1>1 DEF InitContext
<1>4. /\ DOMAIN grouped' = DOMAIN grouped \cup {Server(s) : s \in DOMAIN c.servers}
      /\ \A x \in DOMAIN grouped : grouped'[x] = grouped[x]
      /\ \A s \in DOMAIN c.servers : Server(s) \notin DOMAIN grouped =>
           grouped'[Server(s)] = {ServerGroups[g] : g \in c.servers[s].server_group}
  BY <1>1 DEF InitContext
<1> QED
  BY <1>2, <1>3, <1>4 DEF InitContext

(* init() replaces the groups that the context defines and keeps the others. *)
LEMMA Registration ==
  ASSUME cases \in Programs, TypeOK
  PROVE  /\ DOMAIN PlacementGroups = DOMAIN pgmap \cup DOMAIN c.placement_groups
         /\ \A g \in DOMAIN c.placement_groups : PlacementGroups[g] = Object(k, g)
         /\ \A g \in DOMAIN pgmap \ DOMAIN c.placement_groups : PlacementGroups[g] = pgmap[g]
         /\ DOMAIN ServerGroups = DOMAIN sgmap \cup DOMAIN c.server_groups
         /\ \A g \in DOMAIN c.server_groups : /\ ServerGroups[g].name = g
                                              /\ ServerGroups[g].policy = c.server_groups[g]
         /\ \A g \in DOMAIN sgmap \ DOMAIN c.server_groups : ServerGroups[g] = sgmap[g]
         /\ \A g \in DOMAIN PlacementGroups : PlacementGroups[g].name = g
<1>1. Context(k) = c
  BY Here DEF TypeOK
<1>2. \A g \in DOMAIN pgmap : pgmap[g].name = g
  BY DEF TypeOK, GroupsTyped
<1> QED
  BY <1>1, <1>2 DEF PlacementGroups, ServerGroups, Registered, GroupObject, Object

(* init() gives its context the objects that it is to have, and no other     *)
(* object is changed but by new members.                                     *)
LEMMA InitContextObjects ==
  ASSUME IInv, InitContext
  PROVE  /\ i' \in 1 .. Len(cases') /\ k' \in 1 .. Len(cases'[i'])
         /\ pc' \in Building \cup {"init", "start", "end"}
         /\ GroupsTyped' /\ FreshInv' /\ PlacedInv' /\ MembersInv'
<1>1. /\ cases \in Programs /\ TypeOK /\ GroupsTyped /\ FreshInv /\ cases' = cases /\ i' = i
      /\ pc = "init" /\ ~ c.template_file /\ ~ IsInvalid /\ AllInitialised
  BY MapsAfter DEF IInv, TypeOK
<1>2. /\ i \in Nat /\ k \in Nat /\ DOMAIN cases[i] = 1 .. Len(cases[i]) /\ Len(cases[i]) \in Nat
      /\ i \in 1 .. Len(cases) /\ k \in 1 .. Len(cases[i]) /\ Context(k) = c
  BY <1>1, Here DEF TypeOK
<1>3. /\ k' \in 1 .. Len(cases[i]) /\ pc' \in {"init", "start"}
      /\ \A m \in DOMAIN cases[i] : Initialised(m)' => m < k \/ m = k
      /\ \A m \in DOMAIN cases[i] : m < k /\ ~ Context(m).template_file => Initialised(m)
      /\ \A m \in DOMAIN cases[i] : Initialised(m)' => ~ Context(m).template_file
  BY <1>1, <1>2 DEF AllInitialised, Initialised, Context
<1>4. /\ \A s : Server(s) \notin DOMAIN placed /\ Server(s) \notin DOMAIN grouped
      /\ \A g : Object(k, g) \notin DOMAIN members
  BY <1>1, <1>2 DEF FreshInv, Earlier, Server, Object, GroupsTyped
<1>5. FreshInv'
  <2>1. \A at : Earlier(at) => Earlier(at)'
    BY <1>1, <1>2, <1>3 DEF Earlier, AllInitialised
  <2>2. \A at : at[1] = i /\ at[2] = k => Earlier(at)'
    BY <1>1, <1>2, <1>3 DEF Earlier, AllInitialised
  <2>3. /\ \A s : Server(s)[1] = i /\ Server(s)[2] = k
        /\ \A g : Object(k, g).at[1] = i /\ Object(k, g).at[2] = k
    BY DEF Server, Object
  <2>4. \A o \in Range(PlacementGroups) : o \in DOMAIN members \/ \E g : o = Object(k, g)
    BY <1>1, Registration DEF GroupsTyped, Range
  <2>5. ASSUME NEW x \in DOMAIN placed'
        PROVE  Earlier(x)'
    <3>1. x \in DOMAIN placed \/ \E s \in DOMAIN c.servers : x = Server(s)
      BY MapsAfter
    <3>2. Earlier(x) \/ (x[1] = i /\ x[2] = k)
      BY <1>1, <2>3, <3>1 DEF FreshInv
    <3> QED
      BY <2>1, <2>2, <3>2
  <2>6. ASSUME NEW o \in DOMAIN members'
        PROVE  Earlier(o.at)'
    <3>1. o \in DOMAIN members \/ \E g : o = Object(k, g)
      BY <2>4, MapsAfter
    <3>2. Earlier(o.at) \/ (o.at[1] = i /\ o.at[2] = k)
      BY <1>1, <2>3, <3>1 DEF FreshInv
    <3> QED
      BY <2>1, <2>2, <3>2
  <2> QED
    BY <2>5, <2>6 DEF FreshInv
<1>6. \A m \in DOMAIN cases[i] : /\ Context(m)' = Context(m) /\ Owns(m)' = Owns(m)
                                 /\ Apart(m)' = Apart(m)
                                 /\ \A g : Object(m, g)' = Object(m, g)
  BY <1>1 DEF Context, Owns, Apart, Object
<1>7. PlacedInv'
  <2> SUFFICES ASSUME NEW m \in DOMAIN cases[i], Initialised(m)',
                      NEW s \in DOMAIN Context(m).servers
               PROVE  /\ <<i, m, s>> \in DOMAIN placed'
                      /\ Owns(m) =>
                           /\ placed'[<<i, m, s>>] =
                                {Object(m, g) : g \in Context(m).servers[s].placement}
                           /\ \A o \in grouped'[<<i, m, s>>] :
                                o.name \in DOMAIN Context(m).server_groups
    BY <1>1, <1>6 DEF PlacedInv
  <2>1. CASE m < k
    <3>1. Initialised(m)
      BY <1>3, <2>1
    <3>2. <<i, m, s>> \in DOMAIN placed /\ <<i, m, s>> \in DOMAIN grouped
      BY <1>1, <3>1 DEF PlacedInv, IInv, GroupsTyped
    <3> QED
      BY <3>1, <3>2, MapsAfter DEF PlacedInv, IInv
  <2>2. CASE m = k
    <3>1. Server(s) = <<i, m, s>> /\ s \in DOMAIN c.servers /\ Context(m) = c
      BY <1>2, <2>2 DEF Server
    <3>2. /\ <<i, m, s>> \in DOMAIN placed'
          /\ placed'[<<i, m, s>>] = {PlacementGroups[g] : g \in c.servers[s].placement}
          /\ grouped'[<<i, m, s>>] = {ServerGroups[g] : g \in c.servers[s].server_group}
      BY <1>4, <3>1, MapsAfter
    <3>3. ASSUME Owns(m)
          PROVE  /\ c.servers[s].placement \subseteq DOMAIN c.placement_groups
                 /\ c.servers[s].server_group \subseteq DOMAIN c.server_groups
      BY <3>1, <3>3 DEF Owns
    <3>4. ASSUME Owns(m)
          PROVE  placed'[<<i, m, s>>] = {Object(m, g) : g \in c.servers[s].placement}
      BY <1>1, <2>2, <3>2, <3>3, <3>4, Registration
    <3>5. ASSUME Owns(m)
          PROVE  \A o \in grouped'[<<i, m, s>>] : o.name \in DOMAIN c.server_groups
      BY <1>1, <3>2, <3>3, <3>5, Registration
    <3> QED
      BY <3>1, <3>2, <3>4, <3>5
  <2> QED
    BY <1>3, <2>1, <2>2
<1>8. MembersInv'
  <2> SUFFICES ASSUME NEW m \in DOMAIN cases[i], Initialised(m)',
                      NEW g \in DOMAIN Context(m).placement_groups
               PROVE  /\ Object(m, g) \in DOMAIN members'
                      /\ Owns(m) /\ Apart(m) =>
                           \A s \in DOMAIN Context(m).servers :
                             <<Context(m).name, s>> \in members'[Object(m, g)]
                               <=> g \in Context(m).servers[s].placement
    BY <1>1, <1>6 DEF MembersInv
  <2>1. CASE m < k
    <3>1. Initialised(m)
      BY <1>3, <2>1
    <3>2. Object(m, g) \in DOMAIN members
      BY <3>1 DEF MembersInv, IInv
    <3>3. members'[Object(m, g)] = members[Object(m, g)] \cup NewMembers(Object(m, g))
      BY <3>2, MapsAfter
    <3>4. ASSUME Apart(m), NEW s
          PROVE  <<Context(m).name, s>> \notin NewMembers(Object(m, g))
      <4>1. c.name # Context(m).name
        BY <1>2, <2>1, <3>4 DEF Apart
      <4> QED
        BY <4>1 DEF NewMembers, StackName
    <3> QED
      BY <3>1, <3>2, <3>3, <3>4, MapsAfter DEF MembersInv, IInv
  <2>2. CASE m = k
    <3>1. Context(m) = c /\ g \in DOMAIN c.placement_groups /\ PlacementGroups[g] = Object(m, g)
          /\ g \in DOMAIN PlacementGroups
      BY <1>1, <1>2, <2>2, Registration
    <3>2. Object(m, g) \in Range(PlacementGroups) /\ Object(m, g) \notin DOMAIN members
      BY <1>4, <2>2, <3>1 DEF Range
    <3>3. Object(m, g) \in DOMAIN members' /\ members'[Object(m, g)] = NewMembers(Object(m, g))
      BY <3>2, MapsAfter
    <3>4. ASSUME Owns(m), NEW s \in DOMAIN c.servers
          PROVE  <<c.name, s>> \in NewMembers(Object(m, g)) <=> g \in c.servers[s].placement
      <4>1. c.servers[s].placement \subseteq DOMAIN PlacementGroups
        BY <1>1 DEF IsInvalid
      <4>2. ASSUME NEW h \in c.servers[s].placement, PlacementGroups[h] = Object(m, g)
            PROVE  h = g
        BY <1>1, <3>1, <4>1, <4>2, Registration
      <4>3. <<c.name, s>> \in NewMembers(Object(m, g))
              <=> \E h \in c.servers[s].placement : PlacementGroups[h] = Object(m, g)
        BY DEF NewMembers, StackName
      <4> QED
        BY <3>1, <4>2, <4>3
    <3> QED
      BY <3>1, <3>3, <3>4
  <2> QED
    BY <1>3, <2>1, <2>2
<1>9. GroupsTyped'
  <2>1. \A g \in DOMAIN pgmap' : pgmap'[g] \in DOMAIN members' /\ pgmap'[g].name = g
    BY <1>1, Registration, MapsAfter DEF Range
  <2>2. \A g \in DOMAIN sgmap' : sgmap'[g].name = g /\ sgmap'[g].policy \in GroupPolicies
    <3>1. \A g \in DOMAIN c.server_groups : c.server_groups[g] \in GroupPolicies
      BY <1>1 DEF IsInvalid
    <3> QED
      BY <1>1, <3>1, Registration, MapsAfter DEF GroupsTyped
  <2>3. \A o \in DOMAIN members' : o.policy \in Policies
    <3>1. \A g \in DOMAIN c.placement_groups : Object(k, g).policy \in Policies
      BY <1>1, <1>2 DEF IsInvalid, Object
    <3>2. \A o \in Range(PlacementGroups) : o.policy \in Policies
      BY <1>1, <3>1, Registration DEF GroupsTyped, Range
    <3> QED
      BY <1>1, <3>2, MapsAfter DEF GroupsTyped
  <2>4. DOMAIN placed' = DOMAIN grouped'
    BY <1>1, MapsAfter DEF GroupsTyped
  <2>5. \A x \in DOMAIN placed' : placed'[x] \subseteq DOMAIN members'
    <3>1. \A s \in DOMAIN c.servers : c.servers[s].placement \subseteq DOMAIN PlacementGroups
      BY <1>1 DEF IsInvalid
    <3>2. \A s \in DOMAIN c.servers : placed'[Server(s)] \subseteq Range(PlacementGroups)
      BY <1>4, <3>1, MapsAfter DEF Range
    <3> QED
      BY <1>1, <3>2, MapsAfter DEF GroupsTyped
  <2>6. \A x \in DOMAIN placed' : \A o \in grouped'[x] : o.policy \in GroupPolicies
    <3>1. \A s \in DOMAIN c.servers : c.servers[s].server_group \subseteq DOMAIN ServerGroups
      BY <1>1 DEF IsInvalid
    <3>2. \A g \in DOMAIN ServerGroups : ServerGroups[g].policy \in GroupPolicies
      BY <2>2, MapsAfter
    <3>3. \A s \in DOMAIN c.servers : \A o \in grouped'[Server(s)] : o.policy \in GroupPolicies
      BY <1>4, <3>1, <3>2, MapsAfter
    <3> QED
      BY <1>1, <2>4, <3>3, MapsAfter DEF GroupsTyped
  <2>7. pc' \in Building \cup {"start"} => \A s \in Servers' : Server(s)' \in DOMAIN placed'
    <3> SUFFICES ASSUME pc' \in Building \cup {"start"}, NEW s \in Servers'
                 PROVE  Server(s)' \in DOMAIN placed'
      OBVIOUS
    <3>0. PICK m : m = k'
      OBVIOUS
    <3>1. m \in DOMAIN cases[i] /\ Context(m)' = c' /\ Server(s)' = <<i, m, s>>
      BY <1>1, <1>2, <1>3, <3>0 DEF Context, c, Server
    <3>2. ~ c'.template_file /\ s \in DOMAIN c'.servers
      BY DEF Servers
    <3>3. Initialised(m)'
      BY <1>1, <1>3, <3>1, <3>2 DEF Initialised, Building, Passes
    <3> QED
      BY <1>1, <1>7, <3>1, <3>2, <3>3 DEF PlacedInv
  <2> QED
    BY <2>1, <2>2, <2>3, <2>4, <2>5, <2>6, <2>7 DEF GroupsTyped
<1> QED
  BY <1>1, <1>2, <1>3, <1>5, <1>7, <1>8, <1>9

(*************************** the template ***********************************)

(* Where no template is made, it is left alone.                              *)
LEMMA Resting ==
  ASSUME IInv, UNCHANGED build, pc' \notin Building
  PROVE  TemplateTyped' /\ CoverInv' /\ BaseInv' /\ DoneInv' /\ ClosedInv' /\ HintsInv'
<1>1. TemplateTyped'
  BY DEF IInv, TypeOK, TemplateTyped, build, template
<1>2. CoverInv' /\ BaseInv' /\ DoneInv' /\ ClosedInv' /\ HintsInv'
  BY DEF CoverInv, BaseInv, DoneInv, ClosedInv, HintsInv, Building, Passes
<1> QED
  BY <1>1, <1>2

(* The networks and routers of a context refer only to each other.           *)
LEMMA NetworkClosed ==
  \A r \in NetworkRefs : r[1] \in NetworkResources /\ r[2] \in NetworkResources
<1>1. ASSUME NEW n \in NewNetworks
      PROVE  Net(n) \in NetworkResources /\ Subnet(n) \in NetworkResources
  <2>1. {Net(n), Subnet(n)} \in {{Net(m), Subnet(m)} : m \in NewNetworks}
    OBVIOUS
  <2> QED
    BY <2>1 DEF NetworkResources
<1>2. ASSUME NEW n \in NewNetworks \cap External
      PROVE  Router(n) \in NetworkResources /\ RouterInterface(n) \in NetworkResources
  <2>1. {Router(n), RouterInterface(n)}
          \in {{Router(m), RouterInterface(m)} : m \in NewNetworks \cap External}
    OBVIOUS
  <2> QED
    BY <2>1 DEF NetworkResources
<1>3. ASSUME NEW r \in NetworkRefs
      PROVE  \/ \E n \in NewNetworks : r = <<Subnet(n), Net(n)>>
             \/ \E n \in NewNetworks \cap External :
                  \/ r = <<Router(n), Subnet(n)>>
                  \/ r = <<RouterInterface(n), Router(n)>>
                  \/ r = <<RouterInterface(n), Subnet(n)>>
  BY <1>3 DEF NetworkRefs
<1> QED
  BY <1>1, <1>2, <1>3

(* What is placed in groups of its own context.                              *)
LEMMA PlacedHere ==
  ASSUME IInv, pc \in Building, OwnGroups, NEW s \in Servers
  PROVE  /\ placed[Server(s)] = {Object(k, g) : g \in c.servers[s].placement}
         /\ \A o \in grouped[Server(s)] : o.name \in DOMAIN c.server_groups
         /\ c.servers[s].placement \subseteq DOMAIN c.placement_groups
         /\ NamedAlone => \A g \in DOMAIN c.placement_groups : \A t \in Servers :
              StackName(t) \in members[Object(k, g)] <=> g \in c.servers[t].placement
<1>1. ~ c.template_file /\ s \in DOMAIN c.servers /\ Servers = DOMAIN c.servers
  BY DEF Servers
<1>2. k \in DOMAIN cases[i] /\ Context(k) = c
  BY Here DEF IInv, TypeOK
<1>3. Initialised(k) /\ Owns(k) /\ (NamedAlone => Apart(k))
  BY <1>1, <1>2 DEF Initialised, Owns, OwnGroups, Building, Passes, NamedAlone, Apart, Context
<1>4. Server(s) = <<i, k, s>> /\ \A t : StackName(t) = <<c.name, t>>
  BY DEF Server, StackName
<1> QED
  BY <1>1, <1>2, <1>3, <1>4 DEF IInv, PlacedInv, MembersInv, OwnGroups

(* The template starts with the flavor of the context and its networks.      *)
LEMMA BuildStarts ==
  ASSUME IInv, AddFlavorAndNetworks
  PROVE  TemplateTyped' /\ CoverInv' /\ BaseInv' /\ DoneInv' /\ ClosedInv' /\ HintsInv'
<1>1. /\ UNCHANGED <<cases, i, k, logical>> /\ pc' = "availability" /\ ~ c.template_file
      /\ hints' = Nothing /\ added' = {} /\ queue' = AvailabilityServers /\ rank' \in Orders
      /\ flavors' = (IF c.flavor.kind = "dict" THEN {ContextFlavor} ELSE {})
                      \cup OwnFlavors(AvailabilityServers)
      /\ resources' = (IF c.flavor.kind = "dict" THEN {ContextFlavor} ELSE {})
                        \cup NetworkResources
      /\ refs' = NetworkRefs /\ NetworkOutputs \subseteq outputs'
  BY DEF AddFlavorAndNetworks, Stage
<1>2. Done' = {} /\ DOMAIN hints' = {}
  BY <1>1 DEF Nothing, Done
<1>3. AvailabilityServers \subseteq Servers
  BY DEF AvailabilityServers
<1>4. TemplateTyped'
  <2>1. rank' \in Bijection(Servers, 1 .. Cardinality(Servers))
    BY <1>1 DEF Orders
  <2> QED
    BY <1>1, <1>2, <1>3, <2>1, SameServers, NetworkClosed DEF TemplateTyped
<1>5. CoverInv'
  <2>1. added' = {StackName(s)' : s \in Done' \ UnplacedServers'}
    BY <1>1, <1>2
  <2> QED
    BY <1>1, <1>2, <2>1, SameGroups DEF CoverInv
<1>6. BaseInv'
  <2>1. (c.flavor.kind = "dict")' <=> c.flavor.kind = "dict"
    BY <1>1, SameServers
  <2> QED
    BY <1>1, <2>1, SameServers, SameNetworks, SameGroups DEF BaseInv
<1>7. DoneInv' /\ HintsInv'
  BY <1>2 DEF DoneInv, HintsInv
<1>8. ClosedInv'
  <2>1. Noted' = OwnFlavors(AvailabilityServers)
    BY <1>1, SameGroups DEF Noted, OwnFlavors
  <2> QED
    BY <1>1, <2>1, NetworkClosed DEF ClosedInv
<1> QED
  BY <1>4, <1>5, <1>6, <1>7, <1>8

(* A context with a template of its own adds nothing to it.                  *)
LEMMA FileUsed ==
  ASSUME IInv, UseTemplateFile
  PROVE  TemplateTyped' /\ CoverInv' /\ BaseInv' /\ DoneInv' /\ ClosedInv' /\ HintsInv'
<1>1. /\ UNCHANGED <<cases, i, k, logical>> /\ pc' = "create" /\ c.template_file
      /\ hints' = Nothing /\ rank' = Nothing /\ added' = {} /\ queue' = {} /\ flavors' = {}
      /\ refs' = {}
  BY DEF UseTemplateFile, Stage
<1>2. Done' = {} /\ DOMAIN hints' = {} /\ Servers = {} /\ Servers' = {} /\ c'.template_file
  BY <1>1, SameServers DEF Nothing, Done, Servers
<1>3. TemplateTyped'
  <2>1. rank' \in Bijection(Servers', 1 .. Cardinality(Servers'))
    <3>1. Cardinality(Servers') = 0
      BY <1>2, FS_EmptySet
    <3>2. 1 .. 0 = {}
      OBVIOUS
    <3> QED
      BY <1>1, <1>2, <3>1, <3>2 DEF Nothing, Bijection, Injection, Surjection, IsInjective
  <2> QED
    BY <1>1, <1>2, <2>1 DEF TemplateTyped
<1>4. CoverInv'
  <2>1. added' = {StackName(s)' : s \in Done' \ UnplacedServers'}
    BY <1>1, <1>2
  <2> QED
    BY <1>1, <1>2, <2>1 DEF CoverInv
<1>5. BaseInv' /\ DoneInv' /\ ClosedInv' /\ HintsInv'
  BY <1>1, <1>2 DEF BaseInv, DoneInv, ClosedInv, HintsInv
<1> QED
  BY <1>3, <1>4, <1>5

(*********************** a server is added **********************************)

(* What a hint may name: servers that were added, by the groups they share   *)
(* with the server, or the server groups of the context.                     *)
GoodHint(s, hint) ==
  /\ hint.same_host \cup hint.different_host \subseteq added
  /\ OwnGroups => hint.group \subseteq {GroupResource(g) : g \in DOMAIN c.server_groups}
  /\ pc # "rest" => hint.group = {}
  /\ OwnGroups /\ NamedAlone => \A t \in Servers \ {s} :
       /\ StackName(t) \in hint.same_host
            <=> StackName(t) \in added /\ Shares(s, t, "affinity")
       /\ StackName(t) \in hint.different_host
            <=> StackName(t) \in added /\ Shares(s, t, "availability")

Add(s, hint) == /\ s \in queue /\ pc \in Passes /\ AddToTemplate(s, hint)
                /\ queue' = queue \ {s}
                /\ added' = IF pc = "rest" THEN added ELSE added \cup {StackName(s)}
                /\ UNCHANGED <<cases, pc, i, k, logical, flavors, rank>>

(* No server is added twice.                                                 *)
LEMMA NewServer ==
  ASSUME IInv, pc \in Passes, NEW s \in queue, ~ IsAdded(s)
  PROVE  s \in Servers /\ s \notin Done /\ StackName(s) \notin added
<1>1. queue \subseteq Servers /\ added = {StackName(t) : t \in Done \ UnplacedServers}
  BY DEF IInv, TypeOK, TemplateTyped, CoverInv, Building
<1>2. s \notin Done
  <2>1. CASE pc = "affinity"
    <3>1. s \notin UnplacedServers
      BY <2>1 DEF IInv, CoverInv, AffinityServers, UnplacedServers, Has
    <3>2. StackName(s) \notin added
      BY <2>1 DEF IsAdded
    <3> QED
      BY <1>1, <3>1, <3>2
  <2>2. CASE pc \in {"availability", "rest"}
    BY <2>2 DEF IInv, CoverInv
  <2> QED
    BY <2>1, <2>2 DEF Passes
<1>3. \A t : StackName(t) = StackName(s) => t = s
  BY DEF StackName
<1> QED
  BY <1>1, <1>2, <1>3

(* What a server brings to the template, which loses nothing.                *)
LEMMA AddEffect ==
  ASSUME IInv, NEW s, NEW hint, ~ IsAdded(s), Add(s, hint)
  PROVE  /\ Done' = Done \cup {s} /\ hints'[s] = hint
         /\ \A t \in Done : hints'[t] = hints[t]
         /\ resources \subseteq resources' /\ refs \subseteq refs' /\ outputs \subseteq outputs'
         /\ \A x \in Instances(s) : /\ InstanceResources(s, x) \subseteq resources'
                                    /\ InstanceRefs(s, x, hint) \subseteq refs'
                                    /\ InstanceOutputs(s, x) \subseteq outputs'
         /\ \A r \in refs' : \/ r \in refs
                             \/ \E x \in Instances(s) : r \in InstanceRefs(s, x, hint)
<1>1. s \notin Done
  BY NewServer DEF Add
<1> QED
  BY <1>1 DEF Add, AddToTemplate, Done

(* What the references of an instance are to.                                *)
LEMMA RefsOfInstance ==
  ASSUME NEW s, NEW x, NEW hint, NEW r \in InstanceRefs(s, x, hint)
  PROVE  /\ r[1] \in InstanceResources(s, x)
         /\ \/ \E n \in NewNetworks : r[2] \in {Net(n), Subnet(n)}
            \/ r[2] \in Volumes(s) \cup Ports(s, x) \cup {Instance(x)}
            \/ r[2] = FlavorName(s) /\ FlavorName(s) \in flavors
            \/ r[2] \in hint.group
            \/ \E y \in hint.same_host \cup hint.different_host : r[2] = Instance(y)
<1>1. \/ r \in PortRefs(s, x)
      \/ r \in Attachments(s, x) \X ({Instance(x)} \cup Volumes(s))
      \/ r \in {Instance(x)} \X (Ports(s, x) \cup ({FlavorName(s)} \cap flavors) \cup hint.group
                     \cup {Instance(y) : y \in hint.same_host \cup hint.different_host})
  BY DEF InstanceRefs
<1>2. CASE r \in PortRefs(s, x)
  <2>1. PICK n \in Wired(s) \cap NewNetworks :
          r \in {Port(x, p) : p \in Range(PortsOn(s, n))} \X {Net(n), Subnet(n)}
    BY <1>2 DEF PortRefs
  <2>2. PICK p \in Range(PortsOn(s, n)) : r[1] = Port(x, p)
    BY <2>1
  <2>3. r[1] \in Ports(s, x)
    BY <2>1, <2>2 DEF Ports
  <2> QED
    BY <2>1, <2>3 DEF InstanceResources
<1>3. CASE r \in Attachments(s, x) \X ({Instance(x)} \cup Volumes(s))
  BY <1>3 DEF InstanceResources
<1>4. CASE r \in {Instance(x)} \X (Ports(s, x) \cup ({FlavorName(s)} \cap flavors) \cup hint.group
                     \cup {Instance(y) : y \in hint.same_host \cup hint.different_host})
  BY <1>4 DEF InstanceResources
<1> QED
  BY <1>1, <1>2, <1>3, <1>4

(* A server that is added has all of its resources, references and outputs.  *)
LEMMA AddTyped ==
  ASSUME IInv, NEW s, NEW hint, ~ IsAdded(s), Add(s, hint), GoodHint(s, hint)
  PROVE  TemplateTyped' /\ BaseInv' /\ DoneInv'
<1>1. /\ UNCHANGED <<cases, pc, i, k, logical, flavors, rank>> /\ pc \in Building /\ s \in Servers
      /\ s \notin Done /\ Done \subseteq Servers /\ queue' = queue \ {s} /\ queue \subseteq Servers
  BY NewServer DEF Add, Building, IInv, TypeOK, TemplateTyped, Done
<1>2. TemplateTyped'
  <2>1. Done' = DOMAIN hints' /\ Done' = Done \cup {s}
    BY AddEffect DEF Done
  <2>2. rank' \in Bijection(Servers', 1 .. Cardinality(Servers')) /\ queue' \subseteq Servers'
        /\ DOMAIN hints' \subseteq Servers'
    BY <1>1, <2>1, SameServers DEF IInv, TypeOK, TemplateTyped
  <2>3. added \subseteq added' /\ added' \subseteq added \cup {StackName(s)}
    BY DEF Add
  <2>4. added' \subseteq {StackName(t)' : t \in DOMAIN hints'}
    <3>1. added \subseteq {StackName(t) : t \in Done}
      BY <1>1 DEF IInv, TypeOK, TemplateTyped, Done
    <3> QED
      BY <1>1, <2>1, <2>3, <3>1, SameServers
  <2>5. \A t \in DOMAIN hints' : hints'[t].same_host \cup hints'[t].different_host \subseteq added'
    BY <2>1, <2>3, AddEffect DEF GoodHint, IInv, TypeOK, TemplateTyped, Done
  <2>6. \A r \in refs' : r[1] \in resources'
    BY AddEffect, RefsOfInstance DEF IInv, TypeOK, TemplateTyped
  <2> QED
    BY <1>1, <2>2, <2>4, <2>5, <2>6 DEF TemplateTyped
<1>3. BaseInv'
  <2>1. /\ c' = c /\ resources \subseteq resources' /\ refs \subseteq refs'
        /\ outputs \subseteq outputs'
    BY <1>1, AddEffect, SameServers
  <2>2. CASE c.template_file
    BY <2>1, <2>2 DEF BaseInv
  <2>3. CASE ~ c.template_file
    <3>1. NetworkResources' \subseteq resources' /\ NetworkRefs' \subseteq refs'
          /\ NetworkOutputs' \subseteq outputs'
      BY <1>1, <2>1, <2>3, SameNetworks DEF IInv, BaseInv
    <3>2. c'.flavor.kind = "dict" => ContextFlavor' \in flavors' \cap resources'
      BY <1>1, <2>1, <2>3, SameServers DEF IInv, BaseInv
    <3>3. OwnFlavors(AvailabilityServers)' \subseteq flavors'
      BY <1>1, <2>1, <2>3, SameGroups DEF IInv, BaseInv
    <3>4. pc' \in {"rest", "create", "read"} =>
            {GroupResource(g) : g \in DOMAIN c'.server_groups} \subseteq resources'
      BY <1>1, <2>1, <2>3 DEF IInv, BaseInv
    <3> QED
      BY <3>1, <3>2, <3>3, <3>4 DEF BaseInv, GroupResource
  <2> QED
    BY <2>2, <2>3
<1>4. DoneInv'
  <2> SUFFICES ASSUME NEW t \in Done', NEW x \in Instances(t)
               PROVE  /\ InstanceResources(t, x) \subseteq resources'
                      /\ InstanceRefs(t, x, hints'[t]) \subseteq refs'
                      /\ InstanceOutputs(t, x) \subseteq outputs'
    BY <1>1, SameServers, SameAdded DEF DoneInv
  <2>1. CASE t = s
    BY <2>1, AddEffect
  <2>2. CASE t \in Done
    <3>1. /\ InstanceResources(t, x) \subseteq resources
          /\ InstanceRefs(t, x, hints[t]) \subseteq refs
          /\ InstanceOutputs(t, x) \subseteq outputs
      BY <1>1, <2>2 DEF IInv, DoneInv
    <3> QED
      BY <2>2, <3>1, AddEffect
  <2> QED
    BY <2>1, <2>2, AddEffect
<1> QED
  BY <1>2, <1>3, <1>4

(* The references of a server resolve, if those before it did.               *)
LEMMA AddClosed ==
  ASSUME IInv, NEW s, NEW hint, ~ IsAdded(s), Add(s, hint), GoodHint(s, hint)
  PROVE  ClosedInv'
<1>1. /\ UNCHANGED <<cases, pc, i, k, logical, flavors, rank>> /\ pc \in Building /\ s \in Servers
      /\ queue' = queue \ {s} /\ s \in queue /\ Done \subseteq Servers
  BY NewServer DEF Add, Building, IInv, TypeOK, TemplateTyped, Done
<1> SUFFICES ASSUME Closable
             PROVE  /\ flavors \subseteq resources' \cup Noted'
                    /\ \A r \in refs' : r[2] \in resources' \cup Noted'
  BY <1>1, SameGroups DEF ClosedInv
<1>2. /\ OwnGroups /\ ~ c.template_file
      /\ \A t \in Servers : Count(t) = 1 /\ c.servers[t].volume.kind # "literal"
  BY <1>1 DEF Closable, Single, Servers
<1>3. \A t \in Servers : Instances(t) = {StackName(t)} /\ Volumes(t) \subseteq NewVolumes(t)
  <2>1. ASSUME NEW t \in Servers
        PROVE  Volumes(t) \subseteq NewVolumes(t)
    <3>1. c.servers[t].volume.kind \in {"none", "literal", "dict"}
      BY <1>2, Here DEF IInv, TypeOK, IsContext, Servers
    <3> QED
      BY <1>2, <3>1 DEF Volumes, NewVolumes
  <2> QED
    BY <1>2, <2>1 DEF Instances
<1>4. resources \cup Noted \subseteq resources' \cup Noted'
  <2>1. CASE pc = "availability"
    <3>1. Noted = OwnFlavors(queue) /\ Noted' = OwnFlavors(queue \ {s})
      BY <1>1, <2>1, SameGroups DEF Noted, OwnFlavors
    <3>2. Flavor(s).kind = "dict" => FlavorName(s) \in InstanceResources(s, StackName(s))
      BY DEF InstanceResources, NewFlavors
    <3>3. OwnFlavors(queue) \subseteq OwnFlavors(queue \ {s}) \cup NewFlavors(s)
      BY DEF OwnFlavors, NewFlavors
    <3>4. NewFlavors(s) \subseteq resources'
      BY <1>1, <1>3, AddEffect DEF InstanceResources
    <3> QED
      BY <3>1, <3>3, <3>4, AddEffect
  <2>2. CASE pc # "availability"
    BY <1>1, <2>2, AddEffect DEF Noted
  <2> QED
    BY <2>1, <2>2
<1>5. flavors \subseteq resources' \cup Noted'
  BY <1>1, <1>4 DEF IInv, ClosedInv
<1>6. ASSUME NEW r \in refs, r \in refs'
      PROVE  r[2] \in resources' \cup Noted'
  BY <1>1, <1>4 DEF IInv, ClosedInv
<1>7. ASSUME NEW x \in Instances(s), NEW r \in InstanceRefs(s, x, hint)
      PROVE  r[2] \in resources' \cup Noted'
  <2>1. InstanceResources(s, x) \subseteq resources'
    BY <1>7, AddEffect
  <2>2. CASE \E n \in NewNetworks : r[2] \in {Net(n), Subnet(n)}
    <3>1. PICK n \in NewNetworks : r[2] \in {Net(n), Subnet(n)}
      BY <2>2
    <3>2. {Net(n), Subnet(n)} \subseteq NetworkResources
      <4>1. {Net(n), Subnet(n)} \in {{Net(m), Subnet(m)} : m \in NewNetworks}
        OBVIOUS
      <4> QED
        BY <4>1 DEF NetworkResources
    <3>3. NetworkResources \subseteq resources
      BY <1>1, <1>2 DEF IInv, BaseInv
    <3> QED
      BY <3>1, <3>2, <3>3, AddEffect
  <2>3. CASE r[2] \in Volumes(s) \cup Ports(s, x) \cup {Instance(x)}
    BY <1>1, <1>3, <2>1, <2>3 DEF InstanceResources
  <2>4. CASE r[2] = FlavorName(s) /\ FlavorName(s) \in flavors
    BY <1>5, <2>4
  <2>5. CASE r[2] \in hint.group
    <3>1. pc = "rest" /\ r[2] \in {GroupResource(g) : g \in DOMAIN c.server_groups}
      BY <1>1, <1>2, <2>5 DEF GoodHint, Passes
    <3>2. r[2] \in resources
      BY <1>1, <1>2, <3>1 DEF IInv, BaseInv
    <3> QED
      BY <3>2, AddEffect
  <2>6. CASE \E y \in hint.same_host \cup hint.different_host : r[2] = Instance(y)
    <3>1. PICK y \in added : r[2] = Instance(y)
      BY <2>6 DEF GoodHint
    <3>2. PICK t \in Done : y = StackName(t)
      BY <1>1 DEF IInv, TypeOK, TemplateTyped, Done
    <3>3. y \in Instances(t)
      BY <1>1, <1>3, <3>2
    <3>4. InstanceResources(t, y) \subseteq resources
      BY <1>1, <3>3 DEF IInv, DoneInv
    <3> QED
      BY <3>1, <3>4, AddEffect DEF InstanceResources
  <2> QED
    BY <2>2, <2>3, <2>4, <2>5, <2>6, RefsOfInstance
<1> QED
  BY <1>5, <1>6, <1>7, AddEffect

(* The pairs with the new server are hinted in one direction, the others     *)
(* stay.                                                                     *)
LEMMA HintsTied ==
  ASSUME IInv, NEW s, NEW hint, ~ IsAdded(s), Add(s, hint), GoodHint(s, hint)
  PROVE  HintsInv'
<1>1. /\ UNCHANGED <<cases, pc, i, k, logical>> /\ pc \in Building /\ s \in Servers
      /\ s \notin Done /\ Done \subseteq Servers /\ StackName(s) \notin added
      /\ added = {StackName(t) : t \in Done \ UnplacedServers}
  BY NewServer DEF Add, Building, IInv, TypeOK, TemplateTyped, CoverInv, Done
<1> SUFFICES ASSUME OwnGroups, NamedAlone, NEW t \in Done', NEW u \in Done',
                    NEW policy \in Policies, t # u
             PROVE  Tied(t, u, policy)'
  BY <1>1, SameGroups DEF HintsInv
<1>2. /\ \A v, w : Shares(v, w, policy)' = Shares(v, w, policy)
      /\ \A v : StackName(v)' = StackName(v)
  BY <1>1, SameGroups, SameServers
<1>3. \A v \in Done : \A w : Names(v, w, policy)' = Names(v, w, policy)
  BY <1>2, AddEffect DEF Names, Hint
<1>4. \A v \in Done : ~ Names(v, s, policy)
  BY <1>1 DEF Names, Hint, IInv, TypeOK, TemplateTyped, Done
<1>5. ASSUME NEW v \in Done
      PROVE  Names(s, v, policy)' <=> Shares(s, v, policy)
  <2>1. v \in Servers \ {s}
    BY <1>1
  <2>2. Names(s, v, policy)' <=> StackName(v) \in added /\ Shares(s, v, policy)
    BY <1>2, <2>1, AddEffect DEF Names, Hint, GoodHint, Policies
  <2>3. Shares(s, v, policy) => StackName(v) \in added
    <3>1. ASSUME Shares(s, v, policy)
          PROVE  placed[Server(v)] # {}
      <4>1. placed[Server(v)] = {Object(k, g) : g \in c.servers[v].placement}
        BY <1>1, <2>1, PlacedHere
      <4> QED
        BY <3>1, <4>1 DEF Shares
    <3> QED
      BY <1>1, <3>1 DEF UnplacedServers
  <2> QED
    BY <2>2, <2>3
<1>6. \A v, w : Shares(v, w, policy) <=> Shares(w, v, policy)
  BY DEF Shares
<1>7. CASE t \in Done /\ u \in Done
  <2>1. Tied(t, u, policy)
    BY <1>1, <1>7 DEF IInv, HintsInv
  <2> QED
    BY <1>2, <1>3, <1>7, <2>1 DEF Tied
<1>8. CASE t = s /\ u \in Done
  BY <1>2, <1>3, <1>4, <1>5, <1>8 DEF Tied
<1>9. CASE t \in Done /\ u = s
  BY <1>2, <1>3, <1>4, <1>5, <1>6, <1>9 DEF Tied
<1> QED
  BY <1>7, <1>8, <1>9, AddEffect

(* A server moves from those still to come to those that are there.          *)
LEMMA AddCovered ==
  ASSUME IInv, NEW s, NEW hint, ~ IsAdded(s), Add(s, hint)
  PROVE  CoverInv'
<1>1. /\ UNCHANGED <<cases, pc, i, k, logical>> /\ pc \in Building /\ s \in Servers
      /\ s \notin Done /\ Done' = Done \cup {s} /\ queue' = queue \ {s} /\ s \in queue
      /\ pc \in Passes
  BY NewServer, AddEffect DEF Add, Building
<1>2. /\ AvailabilityServers' = AvailabilityServers /\ AffinityServers' = AffinityServers
      /\ UnplacedServers' = UnplacedServers /\ Servers' = Servers
      /\ \A t : StackName(t)' = StackName(t)
  BY <1>1, SameGroups, SameServers
<1>3. added' = {StackName(t) : t \in Done' \ UnplacedServers}
  <2>1. added = {StackName(t) : t \in Done \ UnplacedServers}
    BY <1>1 DEF IInv, CoverInv
  <2>2. pc = "rest" => s \in UnplacedServers
    BY <1>1 DEF IInv, CoverInv
  <2>3. pc # "rest" => s \notin UnplacedServers
    BY <1>1 DEF IInv, CoverInv, Passes, AvailabilityServers, AffinityServers, UnplacedServers, Has
  <2>4. added' = IF pc = "rest" THEN added ELSE added \cup {StackName(s)}
    BY DEF Add
  <2>5. CASE pc = "rest"
    BY <1>1, <2>1, <2>2, <2>4, <2>5
  <2>6. CASE pc # "rest"
    BY <1>1, <2>1, <2>3, <2>4, <2>6
  <2> QED
    BY <2>5, <2>6
<1>4. added' = {StackName(t)' : t \in Done' \ UnplacedServers'}
  BY <1>2, <1>3
<1> QED
  BY <1>1, <1>2, <1>4 DEF IInv, CoverInv, Passes

(*************************** the hints **************************************)

(* The hosts that a group gives are the servers added that share it.         *)
LEMMA PlacementHosts ==
  ASSUME IInv, pc \in Building, OwnGroups, NamedAlone, NEW s \in Servers, NEW t \in Servers,
         NEW policy \in Policies
  PROVE  StackName(t) \in Hosts(s, policy) <=> StackName(t) \in added /\ Shares(s, t, policy)
<1>1. /\ placed[Server(s)] = {Object(k, g) : g \in c.servers[s].placement}
      /\ c.servers[s].placement \subseteq DOMAIN c.placement_groups
      /\ \A g \in DOMAIN c.placement_groups :
           StackName(t) \in members[Object(k, g)] <=> g \in c.servers[t].placement
  BY PlacedHere
<1>2. \A g : Object(k, g).policy = c.placement_groups[g]
  BY Here DEF Object, IInv, TypeOK
<1> QED
  BY <1>1, <1>2 DEF Hosts, Shares

(* The hints from the placement groups are as they are to be.                *)
LEMMA GoodPlacement ==
  ASSUME IInv, pc \in Passes \ {"rest"}, NEW s \in Servers
  PROVE  GoodHint(s, PlacementHint(s))
<1>1. /\ PlacementHint(s).same_host = Hosts(s, "affinity")
      /\ PlacementHint(s).different_host = Hosts(s, "availability")
      /\ PlacementHint(s).group = {}
  BY DEF PlacementHint, NoHint
<1>2. \A policy : Hosts(s, policy) \subseteq added
  BY DEF Hosts
<1>3. pc \in Building
  BY DEF Building
<1>4. ASSUME OwnGroups, NamedAlone, NEW t \in Servers \ {s}
      PROVE  /\ StackName(t) \in Hosts(s, "affinity")
                  <=> StackName(t) \in added /\ Shares(s, t, "affinity")
             /\ StackName(t) \in Hosts(s, "availability")
                  <=> StackName(t) \in added /\ Shares(s, t, "availability")
  BY <1>3, <1>4, PlacementHosts DEF Policies
<1> QED
  BY <1>1, <1>2, <1>4 DEF GoodHint

(* Of two servers with an availability group, there is one other.            *)
LEMMA OtherOfTwo ==
  ASSUME NEW S, Cardinality(S) = 2, IsFiniteSet(S),
         NEW s \in S, NEW t \in S \ {s}, NEW u \in S \ {s}
  PROVE  t = u
<1>1. IsFiniteSet(S \ {s}) /\ Cardinality(S \ {s}) = 1
  BY FS_RemoveElement
<1>2. IsFiniteSet((S \ {s}) \ {t}) /\ Cardinality((S \ {s}) \ {t}) = 0
  BY <1>1, FS_RemoveElement
<1>3. (S \ {s}) \ {t} = {}
  BY <1>2, FS_EmptySet
<1> QED
  BY <1>3

(* So are those cut to one host: there is only one other server then.        *)
LEMMA GoodAvailability ==
  ASSUME IInv, pc = "availability", NEW s \in queue, NEW hint \in AvailabilityHints(s)
  PROVE  GoodHint(s, hint)
<1> DEFINE P == PlacementHint(s)
<1>1. /\ pc \in Building /\ pc \in Passes \ {"rest"} /\ s \in Servers /\ s \in AvailabilityServers
      /\ s \notin Done /\ Done \subseteq Servers /\ ~ IsAdded(s)
  BY NewServer DEF Passes, Building, IsAdded, IInv, CoverInv, TypeOK, TemplateTyped, Done
<1>2. GoodHint(s, P)
  BY <1>1, GoodPlacement
<1>3. CASE hint = P
  BY <1>2, <1>3
<1>4. CASE hint # P
  <2>1. Cardinality(AvailabilityServers) = 2 /\ hint \in FirstHost(P)
    BY <1>4 DEF AvailabilityHints
  <2>2. PICK h \in P.different_host : hint = [P EXCEPT !.different_host = {h}]
    BY <1>4, <2>1 DEF FirstHost
  <2>4. hint.same_host = P.same_host /\ hint.different_host = {h} /\ hint.group = P.group
    BY <2>2 DEF PlacementHint, NoHint
  <2>5. h \in added
    BY <1>2 DEF GoodHint
  <2>6. ASSUME OwnGroups, NamedAlone, NEW t \in Servers \ {s}
        PROVE  StackName(t) \in {h} <=> StackName(t) \in P.different_host
    <3>1. \A v \in Servers \ {s} : StackName(v) \in P.different_host => Shares(s, v, "availability")
      BY <1>2, <2>6 DEF GoodHint
    <3>2. ASSUME NEW v \in Servers \ {s}, StackName(v) \in P.different_host
          PROVE  v \in AvailabilityServers \ {s}
      <4>1. PICK g \in c.servers[s].placement \cap c.servers[v].placement :
              c.placement_groups[g] = "availability"
        BY <3>1, <3>2 DEF Shares
      <4>2. Object(k, g) \in placed[Server(v)]
        BY <1>1, <2>6, <4>1, PlacedHere
      <4>3. Object(k, g).policy = "availability"
        BY <4>1, Here DEF Object, IInv, TypeOK
      <4> QED
        BY <4>2, <4>3 DEF AvailabilityServers, Has
    <3>3. PICK u \in Done : h = StackName(u)
      BY <1>1, <2>5 DEF IInv, TypeOK, TemplateTyped, Done
    <3>4. u \in AvailabilityServers \ {s}
      BY <1>1, <3>2, <3>3
    <3>5. IsFiniteSet(AvailabilityServers)
      <4>1. IsFiniteSet(Servers)
        BY Here, FS_EmptySet DEF IInv, TypeOK, IsContext, Servers
      <4> QED
        BY <4>1, FS_Subset DEF AvailabilityServers
    <3>6. ASSUME StackName(t) \in P.different_host
          PROVE  t = u
      <4>1. t \in AvailabilityServers \ {s}
        BY <2>6, <3>2, <3>6
      <4> QED
        BY <1>1, <2>1, <3>4, <3>5, <4>1, OtherOfTwo
    <3> QED
      BY <3>3, <3>6
  <2> QED
    BY <1>2, <2>4, <2>5, <2>6 DEF GoodHint
<1> QED
  BY <1>3, <1>4

(* So are those of a server without placement groups.                        *)
LEMMA GoodGroup ==
  ASSUME IInv, pc = "rest", NEW s \in queue
  PROVE  GoodHint(s, GroupHint(s))
<1>1. pc \in Building /\ s \in Servers /\ placed[Server(s)] = {}
  BY DEF Building, Passes, IInv, CoverInv, UnplacedServers
<1>2. /\ GroupHint(s).same_host = {} /\ GroupHint(s).different_host = {}
      /\ GroupHint(s).group = {GroupResource(o.name) : o \in grouped[Server(s)]}
  BY DEF GroupHint, NoHint
<1>3. OwnGroups => GroupHint(s).group \subseteq {GroupResource(g) : g \in DOMAIN c.server_groups}
  BY <1>1, <1>2, PlacedHere
<1>4. OwnGroups => c.servers[s].placement = {}
  BY <1>1, PlacedHere
<1> QED
  BY <1>2, <1>3, <1>4 DEF GoodHint, Shares

(*************************** the induction **********************************)

(* Whichever pass adds a server, the template stays as it is to be.          *)
LEMMA AddInv ==
  ASSUME IInv, NEW s \in queue, NEW choices, ~ IsAdded(s), AddNext(s, choices), pc \in Passes,
         \A hint \in choices : GoodHint(s, hint)
  PROVE  TemplateTyped' /\ CoverInv' /\ BaseInv' /\ DoneInv' /\ ClosedInv' /\ HintsInv'
<1>1. PICK hint \in choices : AddToTemplate(s, hint)
  BY DEF AddNext
<1>2. Add(s, hint) /\ GoodHint(s, hint)
  BY <1>1 DEF Add, AddNext
<1> QED
  BY <1>2, AddTyped, AddClosed, HintsTied, AddCovered

(* The passes add servers that are not there yet, with good hints.           *)
LEMMA Adding ==
  ASSUME IInv, AddAvailability \/ AddAffinity \/ AddUnplaced
  PROVE  /\ TemplateTyped' /\ CoverInv' /\ BaseInv' /\ DoneInv' /\ ClosedInv' /\ HintsInv'
         /\ UNCHANGED <<cases, pc, i, k, logical>>
<1>1. CASE AddAvailability
  <2>1. PICK s \in queue : AddNext(s, AvailabilityHints(s))
    BY <1>1 DEF AddAvailability
  <2>2. pc = "availability" /\ ~ IsAdded(s) /\ pc \in Passes
    BY <1>1 DEF AddAvailability, IsAdded, Passes
  <2>3. TemplateTyped' /\ CoverInv' /\ BaseInv' /\ DoneInv' /\ ClosedInv' /\ HintsInv'
    BY <2>1, <2>2, GoodAvailability, AddInv
  <2> QED
    BY <2>1, <2>3 DEF AddNext
<1>2. CASE AddAffinity
  <2>1. PICK s \in queue : ~ IsAdded(s) /\ AddNext(s, {PlacementHint(s)})
    BY <1>2 DEF AddAffinity
  <2>2. pc \in Passes \ {"rest"} /\ s \in Servers
    BY <1>2, NewServer, <2>1 DEF AddAffinity, Passes
  <2>3. \A hint \in {PlacementHint(s)} : GoodHint(s, hint)
    BY <2>2, GoodPlacement
  <2>4. TemplateTyped' /\ CoverInv' /\ BaseInv' /\ DoneInv' /\ ClosedInv' /\ HintsInv'
    BY <2>1, <2>2, <2>3, AddInv DEF Passes
  <2> QED
    BY <2>1, <2>4 DEF AddNext
<1>3. CASE AddUnplaced
  <2>1. PICK s \in queue : AddNext(s, {GroupHint(s)})
    BY <1>3 DEF AddUnplaced
  <2>2. pc = "rest" /\ ~ IsAdded(s) /\ pc \in Passes
    BY <1>3 DEF AddUnplaced, IsAdded, Passes
  <2>3. \A hint \in {GroupHint(s)} : GoodHint(s, hint)
    BY <2>2, GoodGroup
  <2>4. TemplateTyped' /\ CoverInv' /\ BaseInv' /\ DoneInv' /\ ClosedInv' /\ HintsInv'
    BY <2>1, <2>2, <2>3, AddInv
  <2> QED
    BY <2>1, <2>4 DEF AddNext
<1> QED
  BY <1>1, <1>2, <1>3

(* Between the passes, the template stays as it is, except for the server    *)
(* groups.                                                                   *)
Between == /\ UNCHANGED <<cases, i, k, logical, flavors, rank, added, hints, refs, outputs>>
           /\ pc \in Building /\ pc' \in Building /\ resources \subseteq resources'
           /\ queue' \subseteq Servers
           /\ pc = "availability" => queue = {}
           /\ pc' # "availability"
           /\ pc' \in {"rest", "create", "read"} /\ ~ c.template_file =>
                {GroupResource(g) : g \in DOMAIN c.server_groups} \subseteq resources'

(* A template to which no server is added keeps what it has.                 *)
LEMMA BetweenInv ==
  ASSUME IInv, Between
  PROVE  TemplateTyped' /\ BaseInv' /\ DoneInv' /\ ClosedInv' /\ HintsInv'
<1>1. /\ UNCHANGED <<cases, i, k, logical>> /\ pc \in Building /\ pc' \in Building
      /\ Done' = Done /\ hints' = hints /\ added' = added /\ refs' = refs /\ c' = c
      /\ flavors' = flavors /\ outputs' = outputs /\ resources \subseteq resources'
  BY SameServers DEF Between, Done
<1>2. TemplateTyped'
  BY <1>1, SameServers DEF Between, IInv, TypeOK, TemplateTyped
<1>3. BaseInv'
  <2>1. CASE c.template_file
    BY <1>1, <2>1 DEF BaseInv
  <2>2. CASE ~ c.template_file
    <3>1. NetworkResources' \subseteq resources' /\ NetworkRefs' \subseteq refs'
          /\ NetworkOutputs' \subseteq outputs'
      BY <1>1, <2>2, SameNetworks DEF IInv, BaseInv
    <3>2. c'.flavor.kind = "dict" => ContextFlavor' \in flavors' \cap resources'
      BY <1>1, <2>2, SameServers DEF IInv, BaseInv
    <3>3. OwnFlavors(AvailabilityServers)' \subseteq flavors'
      BY <1>1, <2>2, SameGroups DEF IInv, BaseInv
    <3>4. pc' \in {"rest", "create", "read"} =>
            {GroupResource(g) : g \in DOMAIN c'.server_groups} \subseteq resources'
      BY <1>1, <2>2 DEF Between
    <3> QED
      BY <3>1, <3>2, <3>3, <3>4 DEF BaseInv, GroupResource
  <2> QED
    BY <2>1, <2>2
<1>4. DoneInv'
  BY <1>1, SameServers, SameAdded DEF IInv, DoneInv
<1>5. ClosedInv'
  <2>1. Noted = {} /\ Noted' = {}
    BY DEF Between, Noted, OwnFlavors
  <2> QED
    BY <1>1, <2>1, SameGroups DEF IInv, ClosedInv
<1>6. HintsInv'
  <2> SUFFICES ASSUME OwnGroups, NamedAlone, NEW s \in Done, NEW t \in Done,
                      NEW policy \in Policies, s # t
               PROVE  Tied(s, t, policy)'
    BY <1>1, SameGroups DEF HintsInv
  <2>1. Tied(s, t, policy)
    BY <1>1 DEF IInv, HintsInv
  <2> QED
    BY <1>1, <2>1, SameGroups, SameServers DEF Tied, Names, Hint
<1> QED
  BY <1>2, <1>3, <1>4, <1>5, <1>6

(* The steps that end one pass and begin the next leave no server out.       *)
LEMMA BetweenSteps ==
  ASSUME IInv, StartAffinity \/ SkipAdded \/ AddServerGroups \/ AllAdded \/ CreateStack
  PROVE  /\ TemplateTyped' /\ CoverInv' /\ BaseInv' /\ DoneInv' /\ ClosedInv' /\ HintsInv'
         /\ UNCHANGED <<cases, i, k, logical>> /\ pc \in Building /\ pc' \in Building
<1>0. /\ AvailabilityServers \subseteq Servers /\ AffinityServers \subseteq Servers
      /\ UnplacedServers \subseteq Servers
  BY DEF AvailabilityServers, AffinityServers, UnplacedServers
<1>1. ASSUME UNCHANGED <<cases, i, k, logical, hints, added>>
      PROVE  /\ AvailabilityServers' = AvailabilityServers /\ AffinityServers' = AffinityServers
             /\ UnplacedServers' = UnplacedServers /\ Servers' = Servers /\ Done' = Done
             /\ {StackName(s)' : s \in Done' \ UnplacedServers'}
                  = {StackName(s) : s \in Done \ UnplacedServers}
  BY <1>1, SameGroups, SameServers DEF Done
<1>2. CASE StartAffinity
  <2>1. Between
    BY <1>0, <1>2 DEF StartAffinity, Stage, Between, Building, Passes, template
  <2>2. CoverInv'
    <3>1. /\ UNCHANGED <<cases, i, k, logical, hints, added>> /\ queue' = AffinityServers
          /\ pc = "availability" /\ queue = {} /\ pc' = "affinity" /\ pc \in Building
      BY <1>2 DEF StartAffinity, Stage, Building, Passes
    <3> QED
      BY <1>1, <3>1 DEF IInv, CoverInv
  <2> QED
    BY <2>1, <2>2, BetweenInv DEF Between
<1>3. CASE SkipAdded
  <2>1. PICK s \in queue : IsAdded(s) /\ queue' = queue \ {s}
    BY <1>3 DEF SkipAdded
  <2>2. pc = "affinity" /\ queue \subseteq Servers /\ UNCHANGED <<pc, resources>>
    BY <1>3, <2>1 DEF SkipAdded, IsAdded, IInv, TypeOK, TemplateTyped, Building, Passes, template
  <2>3. Between
    BY <1>3, <2>1, <2>2 DEF SkipAdded, Between, Building, Passes, template
  <2>4. CoverInv'
    <3>1. /\ UNCHANGED <<cases, pc, i, k, logical, hints, added>> /\ pc \in Building
      BY <1>3, <2>2 DEF SkipAdded, Building, Passes
    <3>2. s \in Done
      <4>1. PICK t \in Done : StackName(s) = StackName(t)
        BY <2>1, <3>1 DEF IsAdded, IInv, CoverInv
      <4> QED
        BY <4>1 DEF StackName
    <3> QED
      BY <1>1, <2>1, <2>2, <3>1, <3>2 DEF IInv, CoverInv
  <2> QED
    BY <2>3, <2>4, BetweenInv DEF Between
<1>4. CASE AddServerGroups
  <2>1. Between
    BY <1>0, <1>4 DEF AddServerGroups, Stage, Between, Building, Passes
  <2>2. CoverInv'
    <3>1. /\ UNCHANGED <<cases, i, k, logical, hints, added>> /\ queue' = UnplacedServers
          /\ pc = "affinity" /\ queue = {} /\ pc' = "rest" /\ pc \in Building
      BY <1>4 DEF AddServerGroups, Stage, Building, Passes
    <3>2. Servers \ UnplacedServers \subseteq AvailabilityServers \cup AffinityServers
      <4> SUFFICES ASSUME NEW s \in Servers, placed[Server(s)] # {}
                   PROVE  s \in AvailabilityServers \cup AffinityServers
        BY DEF UnplacedServers
      <4>1. PICK o \in placed[Server(s)] : TRUE
        OBVIOUS
      <4>2. Server(s) \in DOMAIN placed
        BY <3>1 DEF IInv, TypeOK, GroupsTyped
      <4>3. o.policy \in Policies
        BY <4>1, <4>2 DEF IInv, TypeOK, GroupsTyped
      <4> QED
        BY <4>1, <4>3 DEF Policies, AvailabilityServers, AffinityServers, Has
    <3>3. UnplacedServers \cap (AvailabilityServers \cup AffinityServers) = {}
      BY DEF UnplacedServers, AvailabilityServers, AffinityServers, Has
    <3> QED
      BY <1>1, <3>1, <3>2, <3>3 DEF IInv, CoverInv
  <2> QED
    BY <2>1, <2>2, BetweenInv DEF Between
<1>5. CASE AllAdded
  <2>1. /\ UNCHANGED <<cases, i, k, logical, flavors, rank, queue, added, hints, resources, refs,
                       outputs>>
        /\ pc = "rest" /\ queue = {} /\ pc' = "create" /\ pc \in Building
    BY <1>5 DEF AllAdded, Stage, build, template, Building, Passes
  <2>2. Between
    BY <2>1 DEF Between, Building, Passes, IInv, TypeOK, TemplateTyped, BaseInv
  <2>3. CoverInv'
    <3>1. Done \subseteq Servers
      BY <2>1 DEF IInv, TypeOK, TemplateTyped, Done
    <3> QED
      BY <1>1, <2>1, <3>1 DEF IInv, CoverInv
  <2> QED
    BY <2>2, <2>3, BetweenInv DEF Between
<1>6. CASE CreateStack
  <2>1. /\ UNCHANGED <<cases, i, k, logical, flavors, rank, queue, added, hints, resources, refs,
                       outputs>>
        /\ pc = "create" /\ pc' = "read" /\ pc \in Building
    BY <1>6 DEF CreateStack, Stage, build, template, Building, Passes
  <2>2. Between
    BY <2>1 DEF Between, Building, Passes, IInv, TypeOK, TemplateTyped, BaseInv
  <2>3. CoverInv'
    BY <1>1, <2>1 DEF IInv, CoverInv
  <2> QED
    BY <2>2, <2>3, BetweenInv DEF Between
<1> QED
  BY <1>2, <1>3, <1>4, <1>5, <1>6

(* Nothing changes in a step that changes nothing.                           *)
LEMMA Stutter ==
  ASSUME IInv, UNCHANGED vars
  PROVE  TemplateTyped' /\ CoverInv' /\ BaseInv' /\ DoneInv' /\ ClosedInv' /\ HintsInv'
<1>1. /\ UNCHANGED <<cases, pc, i, k, logical>> /\ Done' = Done /\ hints' = hints
      /\ added' = added /\ queue' = queue /\ rank' = rank /\ flavors' = flavors
      /\ resources' = resources /\ refs' = refs /\ outputs' = outputs /\ c' = c
  BY SameServers DEF vars, build, template, Done
<1>2. TemplateTyped'
  BY <1>1, SameServers DEF IInv, TypeOK, TemplateTyped
<1>3. CoverInv'
  BY <1>1, SameServers, SameGroups DEF IInv, CoverInv
<1>4. BaseInv'
  BY <1>1, SameServers, SameNetworks, SameGroups DEF IInv, BaseInv, GroupResource
<1>5. DoneInv'
  BY <1>1, SameServers, SameAdded DEF IInv, DoneInv
<1>6. ClosedInv'
  <2>1. Noted' = Noted
    BY <1>1, SameGroups DEF Noted
  <2> QED
    BY <1>1, <2>1, SameGroups DEF IInv, ClosedInv
<1>7. HintsInv'
  <2> SUFFICES ASSUME pc \in Building, OwnGroups, NamedAlone, NEW s \in Done, NEW t \in Done,
                      NEW policy \in Policies, s # t
               PROVE  Tied(s, t, policy)'
    BY <1>1, SameGroups DEF HintsInv
  <2>1. Tied(s, t, policy)
    BY DEF IInv, HintsInv
  <2> QED
    BY <1>1, <2>1, SameGroups, SameServers DEF Tied, Names, Hint
<1> QED
  BY <1>2, <1>3, <1>4, <1>5, <1>6, <1>7

(* From the end of a test case the program goes on, with no template at      *)
(* hand.                                                                     *)
LEMMA CaseEnds ==
  ASSUME IInv, pc # "end", NextCase, UNCHANGED cases
  PROVE  Onward /\ pc' \notin Building
<1>1. i \in Nat /\ Len(cases) \in Nat /\ i \in 1 .. Len(cases)
  BY Here DEF IInv, TypeOK
<1> QED
  BY <1>1 DEF NextCase, Onward, Building, Passes

(* So it does from the end of a context.                                     *)
LEMMA ContextEnds ==
  ASSUME IInv, pc \in Building, NextContext, UNCHANGED cases
  PROVE  Onward /\ pc' \notin Building
<1>1. pc # "end" /\ pc # "init"
  BY DEF Building, Passes
<1>2. k \in Nat /\ Len(cases[i]) \in Nat /\ k \in 1 .. Len(cases[i])
  BY Here DEF IInv, TypeOK
<1>3. CASE k < Len(cases[i])
  BY <1>1, <1>2, <1>3 DEF NextContext, Onward, Building, Passes
<1>4. CASE ~ k < Len(cases[i])
  BY <1>1, <1>4, CaseEnds DEF NextContext
<1> QED
  BY <1>3, <1>4

(* Every step but init() leaves the objects alone.                           *)
LEMMA StepEffect ==
  ASSUME IInv, Next \/ UNCHANGED vars, ~ InitContext
  PROVE  /\ UNCHANGED <<cases, logical>> /\ Onward
         /\ TemplateTyped' /\ CoverInv' /\ BaseInv' /\ DoneInv' /\ ClosedInv' /\ HintsInv'
<1>1. k \in 1 .. Len(cases[i])
  BY DEF IInv, TypeOK
<1>2. CASE InitRaises
  <2>1. Onward /\ pc' \notin Building /\ UNCHANGED <<cases, logical, build>>
    BY <1>2 DEF InitRaises, Onward, Building, Passes
  <2> QED
    BY <2>1, Resting
<1>3. CASE InitFromFile
  <2>1. Onward /\ pc' \notin Building /\ UNCHANGED <<cases, logical, build>>
    BY <1>3 DEF InitFromFile, AllInitialised, Onward, Building, Passes
  <2> QED
    BY <2>1, Resting
<1>4. CASE AddFlavorAndNetworks
  <2>1. Onward /\ UNCHANGED <<cases, logical>>
    BY <1>1, <1>4 DEF AddFlavorAndNetworks, Stage, Onward, Building, Passes
  <2> QED
    BY <1>4, <2>1, BuildStarts
<1>5. CASE UseTemplateFile
  <2>1. Onward /\ UNCHANGED <<cases, logical>>
    BY <1>1, <1>5 DEF UseTemplateFile, Stage, Onward, Building, Passes
  <2> QED
    BY <1>5, <2>1, FileUsed
<1>6. CASE AddAvailability \/ AddAffinity \/ AddUnplaced
  <2>1. UNCHANGED <<cases, pc, i, k, logical>>
    BY <1>6, Adding
  <2>2. Onward
    BY <2>1 DEF Onward
  <2> QED
    BY <1>6, <2>1, <2>2, Adding
<1>7. CASE StartAffinity \/ SkipAdded \/ AddServerGroups \/ AllAdded \/ CreateStack
  <2>1. UNCHANGED <<cases, i, k, logical>> /\ pc \in Building /\ pc' \in Building
    BY <1>7, BetweenSteps
  <2>2. Onward
    BY <1>1, <2>1 DEF Onward, Building, Passes
  <2> QED
    BY <1>7, <2>1, <2>2, BetweenSteps
<1>8. CASE AddRaises \/ CreateRaises \/ KeyError
  <2>1. pc # "end" /\ NextCase /\ UNCHANGED <<cases, logical, build>>
    BY <1>8 DEF AddRaises, CreateRaises, KeyError, DeployRaises, Passes
  <2>2. Onward /\ pc' \notin Building
    BY <2>1, CaseEnds
  <2> QED
    BY <2>1, <2>2, Resting
<1>9. CASE ReadOutputs
  <2>1. pc \in Building /\ NextContext /\ UNCHANGED <<cases, logical, build>>
    BY <1>9 DEF ReadOutputs, Building, Passes
  <2>2. Onward /\ pc' \notin Building
    BY <2>1, ContextEnds
  <2> QED
    BY <2>1, <2>2, Resting
<1>10. CASE End \/ UNCHANGED vars
  <2>1. UNCHANGED vars /\ UNCHANGED <<cases, logical>> /\ Onward
    BY <1>10 DEF End, vars, Onward
  <2> QED
    BY <2>1, Stutter
<1> QED
  BY <1>2, <1>3, <1>4, <1>5, <1>6, <1>7, <1>8, <1>9, <1>10 DEF Next

(* Every step keeps the invariant.                                           *)
LEMMA StepInv == IInv /\ [Next]_vars => IInv'
<1> SUFFICES ASSUME IInv, Next \/ UNCHANGED vars
             PROVE  IInv'
  OBVIOUS
<1>1. CASE InitContext
  <2>1. UNCHANGED <<cases, build>> /\ pc' \notin Building
    BY <1>1 DEF InitContext, AllInitialised, Building, Passes
  <2> QED
    BY <1>1, <2>1, InitContextObjects, Resting DEF IInv, TypeOK
<1>2. CASE ~ InitContext
  BY <1>2, StepEffect, ObjectsStay DEF IInv, TypeOK
<1> QED
  BY <1>1, <1>2

(* At first there is no object and no template.                              *)
LEMMA InitInv == Init => IInv
<1> SUFFICES ASSUME Init
             PROVE  IInv
  OBVIOUS
<1>1. /\ cases \in Programs /\ pc = "init" /\ i = 1 /\ k = 1 /\ pc \notin Building
      /\ DOMAIN pgmap = {} /\ DOMAIN sgmap = {} /\ DOMAIN members = {} /\ DOMAIN placed = {}
      /\ DOMAIN grouped = {} /\ DOMAIN hints = {} /\ refs = {}
  BY DEF Init, Nothing, Building, Passes
<1>2. 1 \in 1 .. Len(cases) /\ 1 \in 1 .. Len(cases[1])
  <2>1. PICK p : p = cases
    OBVIOUS
  <2>2. /\ p \in Seq(Range(p)) /\ p # <<>>
        /\ \A n \in DOMAIN p : p[n] \in Seq(Range(p[n])) /\ p[n] # <<>>
    BY <1>1, <2>1, TemplateAssumption DEF IsSequence
  <2>3. 1 \in 1 .. Len(p) /\ 1 \in DOMAIN p
    BY <2>2
  <2>4. PICK q : q = p[1]
    OBVIOUS
  <2>5. q \in Seq(Range(q)) /\ q # <<>>
    BY <2>2, <2>3, <2>4
  <2>6. 1 \in 1 .. Len(q)
    BY <2>5
  <2> QED
    BY <2>1, <2>3, <2>4, <2>6
<1>3. TypeOK
  BY <1>1, <1>2 DEF TypeOK, GroupsTyped, TemplateTyped, Building, Passes
<1>4. FreshInv
  BY <1>1 DEF FreshInv
<1>5. \A m \in DOMAIN cases[i] : ~ Initialised(m)
  <2>1. DOMAIN cases[i] = 1 .. Len(cases[i])
    BY <1>1, <1>2, Here
  <2> QED
    BY <1>1, <2>1 DEF Initialised
<1>6. PlacedInv /\ MembersInv
  BY <1>5 DEF PlacedInv, MembersInv
<1>7. CoverInv /\ BaseInv /\ DoneInv /\ ClosedInv /\ HintsInv
  BY <1>1 DEF CoverInv, BaseInv, DoneInv, ClosedInv, HintsInv, Building, Passes
<1> QED
  BY <1>1, <1>3, <1>4, <1>6, <1>7 DEF IInv

(***************************** theorems *************************************)

(* The objects of all contexts, what each pass over the servers has added,   *)
(* the references of the template and the hints between its servers keep     *)
(* what they are to be, from the first init() to the last deploy().          *)
THEOREM Inductive == Spec => []IInv
<1>1. Init => IInv
  BY InitInv
<1>2. IInv /\ [Next]_vars => IInv'
  BY StepInv
<1> QED
  BY <1>1, <1>2, PTL DEF Spec

(* An object knows its groups from init() on, a pass adds servers of its     *)
(* context only, a hint names what was added before, and every reference is  *)
(* one of a resource of the template.                                        *)
THEOREM TypeCorrect == Spec => []TypeOK
<1>1. IInv => TypeOK
  BY DEF IInv
<1> QED
  BY <1>1, Inductive, PTL

(* deploy(): of two servers that share a placement group, one names the      *)
(* other under the policy of the group and is not named back, over the       *)
(* three passes of _add_resources_to_template(), whatever the order.         *)
THEOREM HintsPair == Spec => []PairsAreHinted
<1>1. IInv => PairsAreHinted
  <2> SUFFICES ASSUME IInv, Built, OwnGroups, NamedAlone, NEW s \in Servers, NEW t \in Servers,
                      NEW policy \in Policies, s # t
               PROVE  Tied(s, t, policy)
    BY DEF PairsAreHinted, Tied
  <2>1. pc \in Building /\ Done = Servers
    BY DEF Built, Building, IInv, CoverInv
  <2> QED
    BY <2>1 DEF IInv, HintsInv
<1> QED
  BY <1>1, Inductive, PTL

(* deploy(): the template has all instances of all servers, and resolves,    *)
(* if the context asks for nothing that it does not make.                    *)
THEOREM TemplateCloses == Spec => []TemplateIsClosed
<1>1. IInv => TemplateIsClosed
  <2> SUFFICES ASSUME IInv, Built
               PROVE  /\ \A s \in Servers : \A x \in Instances(s) : Instance(x) \in resources
                      /\ Closable => Dangling = {}
    BY DEF TemplateIsClosed, Closable
  <2>1. pc = "create" /\ pc \in Building /\ Done = Servers
    BY DEF Built, Building, IInv, CoverInv
  <2>2. \A s \in Servers : \A x \in Instances(s) : Instance(x) \in resources
    BY <2>1 DEF IInv, DoneInv, InstanceResources
  <2>3. Noted = {}
    BY <2>1 DEF Noted
  <2>4. Closable => Dangling = {}
    BY <2>1, <2>3 DEF IInv, ClosedInv, Dangling
  <2> QED
    BY <2>2, <2>4
<1> QED
  BY <1>1, Inductive, PTL

(* A server refers to the flavor that the template makes for it, if the      *)
(* flavor was noted as one of the template before the server was added.      *)
THEOREM FlavorAwaits == Spec => []FlavorIsAwaited
<1>1. IInv => FlavorIsAwaited
  <2> SUFFICES ASSUME IInv, Built, NEW s \in Servers, Flavor(s).kind = "dict",
                      Own(s).kind = "none" \/ Has(s, "availability"), NEW x \in Instances(s)
               PROVE  <<Instance(x), FlavorName(s)>> \in refs
    BY DEF FlavorIsAwaited
  <2>1. pc \in Building /\ Done = Servers /\ ~ c.template_file
    BY DEF Built, Building, IInv, CoverInv
  <2>2. FlavorName(s) \in flavors
    <3>1. CASE Own(s).kind = "none"
      BY <2>1, <3>1 DEF IInv, BaseInv, Flavor, FlavorName
    <3>2. CASE Has(s, "availability")
      <4>1. FlavorName(s) \in OwnFlavors(AvailabilityServers)
        BY <3>2 DEF AvailabilityServers, OwnFlavors
      <4> QED
        BY <2>1, <4>1 DEF IInv, BaseInv
    <3> QED
      BY <3>1, <3>2
  <2>3. <<Instance(x), FlavorName(s)>> \in InstanceRefs(s, x, hints[s])
    BY <2>2 DEF InstanceRefs
  <2> QED
    BY <2>1, <2>3 DEF IInv, DoneInv
<1> QED
  BY <1>1, Inductive, PTL

(* The first port of a server on a network is one of its ports there.        *)
LEMMA FirstOfPorts ==
  ASSUME cases \in Programs, TypeOK, NEW s \in Servers, NEW n, PortsOn(s, n) # <<>>
  PROVE  PortsOn(s, n)[1] \in Range(PortsOn(s, n))
<1>1. IsContext(c) /\ s \in DOMAIN c.servers
  BY Here DEF TypeOK, Servers
<1>2. CASE DOMAIN PortMap(s) = {}
  <2>1. PICK q : q = <<n.name>>
    OBVIOUS
  <2>2. 1 \in DOMAIN q
    BY <2>1
  <2>3. PortsOn(s, n) = q
    BY <1>2, <2>1 DEF PortsOn
  <2> QED
    BY <2>2, <2>3 DEF Range
<1>3. CASE DOMAIN PortMap(s) # {}
  <2>1. n.name \in DOMAIN PortMap(s) /\ PortsOn(s, n) = PortMap(s)[n.name].ports
    BY <1>3 DEF PortsOn
  <2>2. PICK q : q = PortsOn(s, n)
    OBVIOUS
  <2>3. q \in Seq(Range(q)) /\ q # <<>>
    BY <1>1, <2>1, <2>2 DEF IsContext, IsSequence, PortMap
  <2>4. 1 \in DOMAIN q
    BY <2>3
  <2> QED
    BY <2>2, <2>4 DEF Range
<1> QED
  BY <1>2, <1>3

(* deploy(): when Heat has made the stack, every output that is read for the *)
(* interfaces of the servers is one that the template asks for.              *)
THEOREM OutputsDefined == Spec => []OutputsAreDefined
<1>1. IInv => OutputsAreDefined
  <2> SUFFICES ASSUME IInv, pc = "read", \A t \in Servers : Single(t) \/ ~ IsExplicit(t),
                      NEW s \in Servers, NEW key \in Needed(s)
               PROVE  key \in outputs
    BY DEF OutputsAreDefined, AllNeeded
  <2>1. pc \in Building /\ Done = Servers /\ ~ c.template_file /\ s \in DOMAIN c.servers
    BY DEF Building, IInv, CoverInv, Servers
  <2>2. /\ NetworkOutputs \subseteq outputs
        /\ \A x \in Instances(s) : InstanceOutputs(s, x) \subseteq outputs
    BY <2>1 DEF IInv, BaseInv, DoneInv
  <2>3. CASE IsExplicit(s)
    <3>1. Instances(s) = {StackName(s)}
      BY <2>3 DEF Single, Instances
    <3>2. key \in {ExplicitKey(StackName(s), n) : n \in c.servers[s].networks.names}
      BY <2>3 DEF Needed
    <3>3. key \in InstanceOutputs(s, StackName(s))
      BY <2>3, <3>2 DEF InstanceOutputs
    <3> QED
      BY <2>2, <3>1, <3>3
  <2>4. CASE ~ IsExplicit(s)
    <3>1. Count(s) # 0
      BY <2>4 DEF Needed
    <3>2. FirstInstance(s) \in Instances(s)
      <4>1. Count(s) \in Nat
        BY <2>1, Here DEF IInv, TypeOK, IsContext, Count
      <4>2. Count(s) # 1 => 0 \in 0 .. Count(s) - 1
        BY <3>1, <4>1
      <4> QED
        BY <4>2 DEF FirstInstance, Instances
    <3>3. ASSUME NEW n \in Wired(s), NEW x \in Instances(s), NEW p \in Range(PortsOn(s, n)),
                 NEW name \in PortKeys
          PROVE  <<Port(x, p), <<name>>>> \in outputs
      <4>1. Port(x, p) \in Ports(s, x)
        BY DEF Ports
      <4>2. <<Port(x, p), <<name>>>> \in InstanceOutputs(s, x)
        BY <4>1 DEF InstanceOutputs
      <4> QED
        BY <2>2, <4>2
    <3>4. CASE key \in {<<Port(FirstInstance(s), PortsOn(s, n)[1]), <<"ip">>>> : n \in Wired(s)}
      <4>1. PICK n \in Wired(s) : key = <<Port(FirstInstance(s), PortsOn(s, n)[1]), <<"ip">>>>
        BY <3>4
      <4>2. PortsOn(s, n)[1] \in Range(PortsOn(s, n))
        BY <4>1, FirstOfPorts DEF Wired, IInv
      <4>3. "ip" \in PortKeys
        BY DEF PortKeys
      <4> QED
        BY <3>2, <3>3, <4>1, <4>2, <4>3
    <3>5. CASE \E n \in Wired(s) \cap NewNetworks :
                 key \in {Port(x, p) : x \in Instances(s), p \in Range(PortsOn(s, n))}
                           \X {<<name>> : name \in PortKeys}
      BY <3>3, <3>5
    <3>6. CASE \E n \in Wired(s) \cap NewNetworks :
                 key \in {Subnet(n)} \X {<<"cidr">>, <<"gateway_ip">>}
      BY <2>2, <3>6 DEF NetworkOutputs
    <3> QED
      BY <2>4, <3>1, <3>4, <3>5, <3>6 DEF Needed
  <2> QED
    BY <2>3, <2>4
<1> QED
  BY <1>1, Inductive, PTL

=============================================================================
