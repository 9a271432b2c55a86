---------------------------- MODULE HeatTemplate ----------------------------
(* What the Heat contexts of a program put into their templates, and what    *)
(* they read from the outputs of the stacks: the logical model of            *)
(* vnftest/contexts/model.py, _add_resources_to_template() and deploy() of   *)
(* vnftest/contexts/heat.py, and the add_ operations of                      *)
(* vnftest/orchestrator/heat.py.  The life of the stack is HeatContext's.    *)
(*                                                                           *)
(* A template is a graph: its resources, and which resource refers to which, *)
(* by get_resource or by depends_on.  A name is a tuple that starts with the *)
(* kind of what is named.  Properties that refer to nothing (sizes, images,  *)
(* addresses, policies of port security) are left out.  The key pair and     *)
(* security group of a context are always None, and a server's floating_ip   *)
(* is always None or empty (model.py:246): what would be added for them      *)
(* never is.                                                                 *)
EXTENDS Naturals, Sequences, FiniteSets, Functions

CONSTANTS Programs,  \* test cases, each with the attributes of its contexts
          NoName     \* what has no name of its own

Policies == {"affinity", "availability"}
GroupPolicies == {"affinity", "anti-affinity"}

(* A context has a finite number of servers, and the ports that a server is  *)
(* to have on a network come in an order.                                    *)
IsSequence(q) == q \in Seq(Range(q))
IsContext(x) ==
  /\ x.template_file \in BOOLEAN
  /\ IsSequence(x.networks) /\ IsFiniteSet(DOMAIN x.servers)
  /\ \A s \in DOMAIN x.servers :
       /\ x.servers[s].instances \in Nat
       /\ x.servers[s].volume.kind \in {"none", "literal", "dict"}
       /\ \A n \in DOMAIN x.servers[s].network_ports :
            IsSequence(x.servers[s].network_ports[n].ports)

ASSUME TemplateAssumption ==
  \A p \in Programs : /\ IsSequence(p) /\ p # <<>>
                      /\ \A n \in DOMAIN p : /\ IsSequence(p[n]) /\ p[n] # <<>>
                                             /\ \A m \in DOMAIN p[n] : IsContext(p[n][m])

VARIABLES
  cases,     \* the input, one of Programs
  pc, i, k,  \* the stage, its test case and context
  pgmap,     \* PlacementGroup.map, by name: the class keeps it for all contexts
  sgmap,     \* ServerGroup.map
  members,   \* the stack names in each placement group
  placed,    \* placement_groups of each server
  grouped,   \* server_group of each server
  flavors,   \* self.flavors: the flavors that servers may refer to
  rank,      \* the place of each server in list_of_servers
  queue,     \* the servers that the pass at hand has still to add
  added,     \* added_servers
  hints,     \* the scheduler hints of each server that is added
  resources, refs, outputs  \* the template

logical == <<pgmap, sgmap, members, placed, grouped>>
template == <<resources, refs, outputs>>
build == <<flavors, rank, queue, added, hints, template>>
vars == <<cases, pc, i, k, logical, build>>

c == cases[i][k]
Servers == IF c.template_file THEN {} ELSE DOMAIN c.servers
Server(s) == <<i, k, s>>              \* the object
StackName(s) == <<c.name, s>>
Nothing == [x \in {} |-> {}]

Init == /\ cases \in Programs
        /\ pc = "init" /\ i = 1 /\ k = 1
        /\ pgmap = Nothing /\ sgmap = Nothing /\ members = Nothing
        /\ placed = Nothing /\ grouped = Nothing
        /\ flavors = {} /\ rank = Nothing /\ queue = {} /\ added = {} /\ hints = Nothing
        /\ resources = {} /\ refs = {} /\ outputs = {}

(* the stages of a case: all contexts are initialised, then one is deployed  *)
(* after the other                                                           *)
NextCase == IF i < Len(cases) THEN pc' = "init" /\ i' = i + 1 /\ k' = 1
                              ELSE pc' = "end" /\ UNCHANGED <<i, k>>
NextContext == IF k < Len(cases[i]) THEN pc' = "start" /\ k' = k + 1 /\ UNCHANGED i
                                    ELSE NextCase
Stage(from, to) == pc = from /\ pc' = to /\ UNCHANGED <<cases, i, k>>
DeployRaises == NextCase

(******************************* init() *************************************)

GroupObject(g, defs) == [at |-> <<i, k>>, name |-> g, policy |-> defs[g]]
Registered(map, defs) ==
  [g \in DOMAIN map \cup DOMAIN defs |-> IF g \in DOMAIN defs THEN GroupObject(g, defs) ELSE map[g]]
PlacementGroups == Registered(pgmap, c.placement_groups)
ServerGroups == Registered(sgmap, c.server_groups)

(* a policy that is not known, an existing network without its subnet or     *)
(* with a flag that is not a bool, a group that no context ever defined      *)
IsInvalid ==
  \/ \E g \in DOMAIN c.placement_groups : c.placement_groups[g] \notin Policies
  \/ \E g \in DOMAIN c.server_groups : c.server_groups[g] \notin GroupPolicies
  \/ \E n \in Range(c.networks) : n.existing = "bad" \/ (n.existing = "yes" /\ ~ n.subnet)
  \/ \E s \in DOMAIN c.servers : \/ ~ c.servers[s].placement \subseteq DOMAIN PlacementGroups
                                 \/ ~ c.servers[s].server_group \subseteq DOMAIN ServerGroups

(* the task fails while it is parsed, and the program has no further case *)
InitRaises == /\ pc = "init" /\ ~ c.template_file /\ IsInvalid
              /\ pc' = "end"
              /\ UNCHANGED <<cases, i, k, logical, build>>

AllInitialised == IF k < Len(cases[i]) THEN pc' = "init" /\ k' = k + 1
                                       ELSE pc' = "start" /\ k' = 1

NewMembers(o) == {StackName(s) : s \in {t \in DOMAIN c.servers :
                    \E g \in c.servers[t].placement : PlacementGroups[g] = o}}

InitContextPlacedOnly ==  \* variant: a server without placement groups does not note that
  /\ pc = "init" /\ ~ c.template_file /\ ~ IsInvalid
  /\ pgmap' = PlacementGroups /\ sgmap' = ServerGroups
  /\ members' = [o \in DOMAIN members \cup Range(PlacementGroups) |->
                   (IF o \in DOMAIN members THEN members[o] ELSE {}) \cup NewMembers(o)]
  /\ placed' = [x \in DOMAIN placed \cup {Server(s) : s \in {t \in DOMAIN c.servers :
                                                                c.servers[t].placement # {}}} |->
                  IF x \in DOMAIN placed THEN placed[x]
                  ELSE {PlacementGroups[g] : g \in c.servers[x[3]].placement}]
  /\ grouped' = [x \in DOMAIN grouped \cup {Server(s) : s \in DOMAIN c.servers} |->
                   IF x \in DOMAIN grouped THEN grouped[x]
                   ELSE {ServerGroups[g] : g \in c.servers[x[3]].server_group}]
  /\ AllInitialised
  /\ UNCHANGED <<cases, i, build>>
InitContext ==
  /\ pc = "init" /\ ~ c.template_file /\ ~ IsInvalid
  /\ pgmap' = PlacementGroups /\ sgmap' = ServerGroups
  /\ members' = [o \in DOMAIN members \cup Range(PlacementGroups) |->
                   (IF o \in DOMAIN members THEN members[o] ELSE {}) \cup NewMembers(o)]
  /\ placed' = [x \in DOMAIN placed \cup {Server(s) : s \in DOMAIN c.servers} |->
                  IF x \in DOMAIN placed THEN placed[x]
                  ELSE {PlacementGroups[g] : g \in c.servers[x[3]].placement}]
  /\ grouped' = [x \in DOMAIN grouped \cup {Server(s) : s \in DOMAIN c.servers} |->
                   IF x \in DOMAIN grouped THEN grouped[x]
                   ELSE {ServerGroups[g] : g \in c.servers[x[3]].server_group}]
  /\ AllInitialised
  /\ UNCHANGED <<cases, i, build>>

(* a context with a template of its own has no networks and servers *)
InitFromFile == /\ pc = "init" /\ c.template_file
                /\ AllInitialised
                /\ UNCHANGED <<cases, i, logical, build>>

(*********************** flavor and networks ********************************)

(* setdefault(): a dictionary without a name is given one when it is added *)
ContextFlavor == <<"flavor", IF c.flavor.name = NoName THEN c.name ELSE c.flavor.name>>
Own(s) == c.servers[s].flavor
Flavor(s) == IF Own(s).kind = "none" THEN c.flavor ELSE Own(s)
FlavorName(s) == IF Own(s).kind = "none" THEN ContextFlavor
                 ELSE IF Own(s).name = NoName THEN <<"flavor", c.name, s>>
                                              ELSE <<"flavor", Own(s).name>>

Net(n) == <<"network", c.name, n.name>>
Subnet(n) == <<"subnet", c.name, n.name>>
Router(n) == <<"router", c.name, n.name>>
RouterInterface(n) == <<"interface", c.name, n.name>>

(* assign_external_network(): if no network has one, "mgmt" or the first gets it *)
External == LET own == {n \in Range(c.networks) : n.external} IN
            IF own # {} THEN own
            ELSE LET mgmt == {n \in Range(c.networks) : n.name = "mgmt"} IN
                 IF mgmt # {} THEN mgmt
                 ELSE {c.networks[j] : j \in {1} \cap DOMAIN c.networks}

NewNetworks == {n \in Range(c.networks) : n.existing = "no"}

NetworkResources ==
  (UNION {{Net(n), Subnet(n)} : n \in NewNetworks})
  \cup (UNION {{Router(n), RouterInterface(n)} : n \in NewNetworks \cap External})
NetworkRefs ==
  {<<Subnet(n), Net(n)>> : n \in NewNetworks}
  \cup UNION {{<<Router(n), Subnet(n)>>, <<RouterInterface(n), Router(n)>>,
               <<RouterInterface(n), Subnet(n)>>} : n \in NewNetworks \cap External}
NetworkOutputsExternalOnly ==  \* variant: asked for with the router
  {Subnet(n) : n \in NewNetworks \cap External} \X {<<"id">>, <<"cidr">>, <<"gateway_ip">>}
NetworkOutputs == {Subnet(n) : n \in NewNetworks} \X {<<"id">>, <<"cidr">>, <<"gateway_ip">>}

(* sorted() by the number of placement groups, over the values of a          *)
(* dictionary in any order                                                   *)
Orders == {r \in Bijection(Servers, 1 .. Cardinality(Servers)) :
             \A s, t \in Servers : r[s] < r[t] =>
               Cardinality(placed[Server(s)]) <= Cardinality(placed[Server(t)])}

Has(s, policy) == \E o \in placed[Server(s)] : o.policy = policy
AvailabilityServers == {s \in Servers : Has(s, "availability")}
AffinityServers == {s \in Servers : Has(s, "affinity")}
UnplacedServers == {s \in Servers : placed[Server(s)] = {}}

(* a server's own flavor is noted as one of the template only here *)
OwnFlavorsNamed(servers) ==  \* variant: without the default of a missing name
  {FlavorName(s) : s \in {t \in servers : Flavor(t).kind = "dict" /\ Flavor(t).name # NoName}}
OwnFlavors(servers) == {FlavorName(s) : s \in {t \in servers : Flavor(t).kind = "dict"}}

AddFlavorAndNetworks ==
  /\ pc = "start" /\ ~ c.template_file
  /\ LET flavor == IF c.flavor.kind = "dict" THEN {ContextFlavor} ELSE {} IN
     /\ rank' \in Orders
     /\ queue' = AvailabilityServers
     /\ flavors' = flavor \cup OwnFlavors(AvailabilityServers)
     /\ resources' = flavor \cup NetworkResources
     /\ refs' = NetworkRefs
     /\ outputs' = flavor \X {<<"id">>} \cup NetworkOutputs
  /\ added' = {} /\ hints' = Nothing
  /\ Stage("start", "availability")
  /\ UNCHANGED logical

(******************************** servers ***********************************)

Count(s) == c.servers[s].instances
Instances(s) == IF Count(s) = 1 THEN {StackName(s)}
                                ELSE {<<c.name, s, j>> : j \in 0 .. Count(s) - 1}
FirstInstance(s) == IF Count(s) = 1 THEN StackName(s) ELSE <<c.name, s, 0>>

(* Without networks of its own, a server has a port on every network, or the *)
(* ports that network_ports asks for on the networks it names.               *)
IsExplicit(s) == c.servers[s].networks.given
PortMap(s) == c.servers[s].network_ports
PortsOn(s, n) == IF DOMAIN PortMap(s) = {} THEN <<n.name>>
                 ELSE IF n.name \in DOMAIN PortMap(s) THEN PortMap(s)[n.name].ports ELSE <<>>
Wired(s) == IF IsExplicit(s) THEN {} ELSE {n \in Range(c.networks) : PortsOn(s, n) # <<>>}
Port(x, p) == <<"port", x, p>>
Ports(s, x) == {Port(x, p) : p \in UNION {Range(PortsOn(s, n)) : n \in Wired(s)}}
PortRefs(s, x) ==
  UNION {{Port(x, p) : p \in Range(PortsOn(s, n))} \X {Net(n), Subnet(n)} :
           n \in Wired(s) \cap NewNetworks}

(* all instances share a volume that is given as a dictionary: setdefault()  *)
(* names it after the first                                                  *)
Volume(s) == LET v == c.servers[s].volume IN
             IF v.kind = "dict" /\ v.name = NoName THEN <<"volume", "of", FirstInstance(s)>>
                                                 ELSE <<"volume", v.name>>
Volumes(s) == IF c.servers[s].volume.kind = "none" THEN {} ELSE {Volume(s)}
NewVolumes(s) == IF c.servers[s].volume.kind = "dict" THEN {Volume(s)} ELSE {}
Attachments(s, x) == {<<"attachment", x, v>> : v \in Volumes(s)}
NewFlavors(s) == IF Flavor(s).kind = "dict" THEN {FlavorName(s)} ELSE {}
Instance(x) == <<"server", x>>

InstanceResources(s, x) ==
  {Instance(x)} \cup Ports(s, x) \cup NewFlavors(s) \cup NewVolumes(s) \cup Attachments(s, x)

(* a host in a hint is named by the stack name of its server *)
InstanceRefs(s, x, hint) ==
  PortRefs(s, x)
  \cup Attachments(s, x) \X ({Instance(x)} \cup Volumes(s))
  \cup {Instance(x)} \X (Ports(s, x) \cup ({FlavorName(s)} \cap flavors) \cup hint.group
                         \cup {Instance(y) : y \in hint.same_host \cup hint.different_host})

ExplicitKey(x, n) == <<Instance(x), <<"ip", n>>>>
PortKeys == {"ip", "subnet_id", "mac_address", "device_id", "network_id"}
InstanceOutputs(s, x) ==
  ({Instance(x)} \cup NewFlavors(s) \cup NewVolumes(s)) \X {<<"id">>}
  \cup Ports(s, x) \X {<<key>> : key \in PortKeys}
  \cup IF IsExplicit(s) THEN {ExplicitKey(x, n) : n \in c.servers[s].networks.names} ELSE {}

(* no flavor at all; a list of ports that is a string; a flag of a network   *)
(* that is not a bool                                                        *)
CannotBeAdded(s) ==
  /\ Count(s) > 0
  /\ \/ Flavor(s).kind = "none"
     \/ ~ IsExplicit(s) /\ \E n \in Range(c.networks) :
          \/ n.name \in DOMAIN PortMap(s) /\ PortMap(s)[n.name].is_string
          \/ PortsOn(s, n) # <<>> /\ n.public = "bad"

AddToTemplate(s, hint) ==
  /\ resources' = resources \cup UNION {InstanceResources(s, x) : x \in Instances(s)}
  /\ refs' = refs \cup UNION {InstanceRefs(s, x, hint) : x \in Instances(s)}
  /\ outputs' = outputs \cup UNION {InstanceOutputs(s, x) : x \in Instances(s)}
  /\ hints' = [t \in DOMAIN hints \cup {s} |-> IF t = s THEN hint ELSE hints[t]]

(* update_scheduler_hints() over the placement groups of a server *)
Hosts(s, policy) == {h \in added : \E o \in placed[Server(s)] :
                                      o.policy = policy /\ h \in members[o]}
NoHint == [same_host |-> {}, different_host |-> {}, group |-> {}]
PlacementHint(s) == [NoHint EXCEPT !.same_host = Hosts(s, "affinity"),
                                   !.different_host = Hosts(s, "availability")]

(* of exactly two availability servers, a hint names one host, not a list *)
FirstHost(hint) == IF hint.different_host = {} THEN {hint}
                   ELSE {[hint EXCEPT !.different_host = {h}] : h \in hint.different_host}
AvailabilityHints(s) == IF Cardinality(AvailabilityServers) = 2 THEN FirstHost(PlacementHint(s))
                        ELSE {PlacementHint(s)}

(* one server of a pass *)
Passes == {"availability", "affinity", "rest"}
IsNext(s) == \A t \in queue : rank[s] <= rank[t]
IsAdded(s) == pc = "affinity" /\ StackName(s) \in added
AddRaises == /\ pc \in Passes
             /\ \E s \in queue : IsNext(s) /\ CannotBeAdded(s) /\ ~ IsAdded(s)
             /\ DeployRaises
             /\ UNCHANGED <<cases, logical, build>>
AddNext(s, choices) ==
  /\ IsNext(s) /\ ~ CannotBeAdded(s)
  /\ \E hint \in choices : AddToTemplate(s, hint)
  /\ queue' = queue \ {s}
  /\ added' = IF pc = "rest" THEN added ELSE added \cup {StackName(s)}
  /\ UNCHANGED <<cases, pc, i, k, logical, flavors, rank>>

AddAvailability == /\ pc = "availability"
                   /\ \E s \in queue : AddNext(s, AvailabilityHints(s))

StartAffinity == /\ queue = {} /\ Stage("availability", "affinity")
                 /\ queue' = AffinityServers
                 /\ UNCHANGED <<logical, flavors, rank, added, hints, template>>

SkipAdded == /\ \E s \in queue : IsNext(s) /\ IsAdded(s) /\ queue' = queue \ {s}
             /\ UNCHANGED <<cases, pc, i, k, logical, flavors, rank, added, hints, template>>
AddAffinityAgain ==  \* variant: a server of the first pass is added once more
  pc = "affinity" /\ \E s \in queue : AddNext(s, {PlacementHint(s)})
AddAffinity == /\ pc = "affinity"
               /\ \E s \in queue : ~ IsAdded(s) /\ AddNext(s, {PlacementHint(s)})

GroupResource(g) == <<"group", g>>
AddServerGroupsOfContext ==  \* variant: the resource is named after the context
  /\ queue = {} /\ Stage("affinity", "rest")
  /\ queue' = UnplacedServers
  /\ resources' = resources \cup {<<"group", c.name, g>> : g \in DOMAIN c.server_groups}
  /\ UNCHANGED <<logical, flavors, rank, added, hints, refs, outputs>>
AddServerGroups == /\ queue = {} /\ Stage("affinity", "rest")
                   /\ queue' = UnplacedServers
                   /\ resources' = resources \cup {GroupResource(g) : g \in DOMAIN c.server_groups}
                   /\ UNCHANGED <<logical, flavors, rank, added, hints, refs, outputs>>

(* only a server without placement groups is put into its server group *)
GroupHint(s) == [NoHint EXCEPT !.group = {GroupResource(o.name) : o \in grouped[Server(s)]}]
AddUnplaced == pc = "rest" /\ \E s \in queue : AddNext(s, {GroupHint(s)})

AllAdded == /\ queue = {} /\ Stage("rest", "create")
            /\ UNCHANGED <<logical, build>>

UseTemplateFile == /\ c.template_file /\ Stage("start", "create")
                   /\ flavors' = {} /\ rank' = Nothing
                   /\ queue' = {} /\ added' = {} /\ hints' = Nothing
                   /\ resources' = {} /\ refs' = {} /\ outputs' = {}
                   /\ UNCHANGED logical

(*********************** the stack and its outputs **************************)

Dangling == {r \in refs : r[2] \notin resources}

(* Heat makes a stack from a template whose references resolve, or fails *)
CreateStack == /\ Dangling = {} /\ Stage("create", "read")
               /\ UNCHANGED <<logical, build>>
CreateRaises == /\ pc = "create" /\ DeployRaises
                /\ UNCHANGED <<cases, logical, build>>

(* what deploy() reads: the address of the first port on a network, and all  *)
(* keys of the ports on networks that are not existing                       *)
Needed(s) ==
  IF IsExplicit(s) THEN {ExplicitKey(StackName(s), n) : n \in c.servers[s].networks.names}
  ELSE IF Count(s) = 0 THEN {}
  ELSE {<<Port(FirstInstance(s), PortsOn(s, n)[1]), <<"ip">>>> : n \in Wired(s)}
       \cup UNION {{Port(x, p) : x \in Instances(s), p \in Range(PortsOn(s, n))}
                     \X {<<key>> : key \in PortKeys}
                   \cup {Subnet(n)} \X {<<"cidr">>, <<"gateway_ip">>} :
                  n \in Wired(s) \cap NewNetworks}
AllNeeded == UNION {Needed(s) : s \in Servers}

ReadOutputs == /\ pc = "read" /\ AllNeeded \subseteq outputs
               /\ NextContext
               /\ UNCHANGED <<cases, logical, build>>
KeyError == /\ pc = "read" /\ ~ AllNeeded \subseteq outputs
            /\ DeployRaises
            /\ UNCHANGED <<cases, logical, build>>

End == pc = "end" /\ UNCHANGED vars

Next == \/ InitContext \/ InitRaises \/ InitFromFile
        \/ AddFlavorAndNetworks \/ UseTemplateFile
        \/ AddAvailability \/ StartAffinity \/ SkipAdded \/ AddAffinity
        \/ AddServerGroups \/ AddUnplaced \/ AddRaises \/ AllAdded
        \/ CreateStack \/ CreateRaises \/ ReadOutputs \/ KeyError \/ End

Spec == Init /\ [][Next]_vars

(****************************** properties **********************************)

Built == pc = "create" /\ ~ c.template_file
OwnGroups == \A s \in Servers : /\ c.servers[s].placement \subseteq DOMAIN c.placement_groups
                                /\ c.servers[s].server_group \subseteq DOMAIN c.server_groups
Single(s) == Count(s) = 1

(* The types: in particular, an object knows its groups from init() on,      *)
(* every pass adds servers of the context only, and a hint names what has    *)
(* been added before.                                                        *)
Building == Passes \cup {"create", "read"}
GroupsTyped ==
  /\ \A g \in DOMAIN pgmap : pgmap[g] \in DOMAIN members /\ pgmap[g].name = g
  /\ \A g \in DOMAIN sgmap : sgmap[g].name = g /\ sgmap[g].policy \in GroupPolicies
  /\ \A o \in DOMAIN members : o.policy \in Policies
  /\ DOMAIN placed = DOMAIN grouped
  /\ \A x \in DOMAIN placed : /\ placed[x] \subseteq DOMAIN members
                              /\ \A o \in grouped[x] : o.policy \in GroupPolicies
  /\ pc \in Building \cup {"start"} => \A s \in Servers : Server(s) \in DOMAIN placed
TemplateTyped ==
  /\ pc \in Building => /\ rank \in Bijection(Servers, 1 .. Cardinality(Servers))
                        /\ queue \subseteq Servers /\ DOMAIN hints \subseteq Servers
                        /\ added \subseteq {StackName(s) : s \in DOMAIN hints}
  /\ \A s \in DOMAIN hints : hints[s].same_host \cup hints[s].different_host \subseteq added
  /\ \A r \in refs : r[1] \in resources
TypeOK ==
  /\ pc \in Building \cup {"init", "start", "end"}
  /\ i \in 1 .. Len(cases) /\ k \in 1 .. Len(cases[i])
  /\ GroupsTyped /\ TemplateTyped

(* Of two servers that share a placement group, one names the other to the   *)
(* scheduler under the group's policy and the other does not name it back,   *)
(* which would be a cycle; servers that share none are not tied together.    *)
(* It must hold over the passes in which servers are added, whatever order   *)
(* the dictionary of servers has, if no other context of the test case has   *)
(* the same name: the members of a group are only known by their names.      *)
NamedAlone == \A m \in DOMAIN cases[i] : m # k => cases[i][m].name # c.name
Shares(s, t, policy) == \E g \in c.servers[s].placement \cap c.servers[t].placement :
                           c.placement_groups[g] = policy
Hint(s, policy) == IF policy = "affinity" THEN hints[s].same_host ELSE hints[s].different_host
Names(s, t, policy) == StackName(t) \in Hint(s, policy)
PairsAreHinted ==
  Built /\ OwnGroups /\ NamedAlone =>
    \A s, t \in Servers, policy \in Policies : s # t =>
      IF Shares(s, t, policy) THEN ~ (Names(s, t, policy) <=> Names(t, s, policy))
                              ELSE ~ Names(s, t, policy)

(* A template has every instance of every server, and every reference in it  *)
(* resolves, unless the context asks for what is not there: a server group   *)
(* of another context, a volume by its name alone, or a hint for one of      *)
(* several instances.                                                        *)
TemplateIsClosed ==
  Built => /\ \A s \in Servers : \A x \in Instances(s) : Instance(x) \in resources
           /\ OwnGroups /\ (\A s \in Servers : Single(s) /\ c.servers[s].volume.kind # "literal")
                => Dangling = {}

(* A server waits for the flavor that the template makes for it, if it has   *)
(* an availability group or the flavor is the one of the context.            *)
FlavorIsAwaited ==
  Built => \A s \in Servers :
             Flavor(s).kind = "dict" /\ (Own(s).kind = "none" \/ Has(s, "availability"))
               => \A x \in Instances(s) : <<Instance(x), FlavorName(s)>> \in refs

(* When Heat has made the stack, deploy() finds every output that it reads,  *)
(* unless a server with networks of its own has several instances.           *)
OutputsAreDefined ==
  pc = "read" /\ (\A s \in Servers : Single(s) \/ ~ IsExplicit(s))
    => AllNeeded \subseteq outputs
=============================================================================
