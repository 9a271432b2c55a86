--------------------------- MODULE MCHeatTemplate ---------------------------
(* Programs of one or two contexts.  The placement programs vary the groups  *)
(* of three servers; the resource programs vary what one server asks for;    *)
(* the others relate two contexts, in one test case and in two.              *)
EXTENDS HeatTemplate

NoFlavor == [kind |-> "none", name |-> NoName]
Literal == [kind |-> "literal", name |-> "m1"]
Unnamed == [kind |-> "dict", name |-> NoName]
Named == [kind |-> "dict", name |-> "big"]

Network == [name |-> "n1", existing |-> "no", subnet |-> FALSE, external |-> FALSE, public |-> "no"]
Mgmt == [Network EXCEPT !.name = "mgmt"]
Existing == [Network EXCEPT !.name = "n2", !.existing = "yes", !.subnet = TRUE, !.public = "yes"]

AllPorts == Nothing
TwoPorts == [n \in {"n1"} |-> [ports |-> <<"xe0", "xe1">>, is_string |-> FALSE]]
StringPorts == [n \in {"n1"} |-> [ports |-> <<"x">>, is_string |-> TRUE]]

Plain == [placement |-> {}, server_group |-> {}, instances |-> 1,
          networks |-> [given |-> FALSE, names |-> {}], network_ports |-> AllPorts,
          flavor |-> NoFlavor, volume |-> NoFlavor]

Context(servers) ==
  [name |-> "demo", template_file |-> FALSE, flavor |-> Literal,
   placement_groups |-> [g \in {"av1", "av2", "aff"} |-> IF g = "aff" THEN "affinity" ELSE "availability"],
   server_groups |-> [g \in {"sg"} |-> "anti-affinity"],
   networks |-> <<Network>>, servers |-> servers]

One(server) == [s \in {"s1"} |-> server]
Alone(context) == << <<context>> >>

Placements == {Alone(Context([s \in {"s1", "s2", "s3"} |-> [Plain EXCEPT !.placement = p[s]]])) :
                 p \in [{"s1", "s2", "s3"} -> SUBSET {"av1", "av2", "aff"}]}

Flavors == {Alone([Context([s1 |-> [Plain EXCEPT !.placement = p, !.flavor = f, !.instances = m], s2 |-> Plain])
                   EXCEPT !.flavor = d]) :
              p \in {{}, {"aff"}, {"av1"}}, f \in {NoFlavor, Literal, Unnamed, Named},
              d \in {NoFlavor, Literal, Unnamed, Named}, m \in {0, 1, 2}}

Networks == {Alone([Context(One([Plain EXCEPT !.networks = e, !.network_ports = q, !.instances = m, !.volume = v]))
                    EXCEPT !.networks = n]) :
               e \in {[given |-> FALSE, names |-> {}], [given |-> TRUE, names |-> {"ext"}]},
               q \in {AllPorts, TwoPorts, StringPorts}, m \in {0, 1, 2}, v \in {NoFlavor, Literal, Unnamed, Named},
               n \in {<<>>, <<Network>>, <<Mgmt, Network>>, <<[Network EXCEPT !.external = TRUE], Existing>>,
                      <<Existing>>, <<[Existing EXCEPT !.public = "bad"]>>, <<[Existing EXCEPT !.subnet = FALSE]>>,
                      <<[Existing EXCEPT !.existing = "bad"]>>}}

Grouped(p, sg) == [Plain EXCEPT !.placement = p, !.server_group = sg]
Definer == Context([s1 |-> Grouped({"av1"}, {}), s2 |-> Grouped({}, {"sg"})])
Borrower(name, p, sg) ==
  [Context([s1 |-> Grouped(p, {}), s2 |-> Grouped({"own"}, {}), s3 |-> Grouped({}, sg)])
   EXCEPT !.name = name, !.placement_groups = [g \in {"own"} |-> "affinity"], !.server_groups = Nothing]
Second == {Borrower(n, p, sg) : n \in {"demo", "other"}, p \in {{"own"}, {"av1"}, {"own", "av1"}, {"new"}},
                                sg \in {{}, {"sg"}}}
          \cup {Context(One(Grouped({"av1", "aff"}, {"sg"}))), [Definer EXCEPT !.template_file = TRUE],
                [Definer EXCEPT !.placement_groups = [g \in {"av1"} |-> "soft"]],
                [Definer EXCEPT !.server_groups = [g \in {"sg"} |-> "soft"]]}
(* A context whose servers are named like those of the one before, whose     *)
(* group they use.                                                           *)
Namesake == Context([s1 |-> Grouped({"av1"}, {}), s2 |-> Grouped({"av2"}, {})])
Twin(name) == [Context([s \in {"s2"} |-> Grouped({"av1"}, {})]) EXCEPT !.name = name, !.placement_groups = Nothing]
Twins == {<<<<Namesake, Twin(n)>>>> : n \in {"demo", "other"}}

Pairs == {<<<<Definer>>, <<x>>>> : x \in Second} \cup {<<<<Definer, x>>>> : x \in Second}

AllPrograms == Placements \cup Flavors \cup Networks \cup Pairs \cup Twins
=============================================================================
