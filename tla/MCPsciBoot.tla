----------------------------- MODULE MCPsciBoot -----------------------------
(* Instances of PsciBoot.                                                  *)
EXTENDS PsciBoot

Build(platform, nodes, h, e, d) ==
  [platform |-> platform, nodes |-> nodes, hyp |-> h, el2 |-> e, dc |-> d]

(* A full TX1; a HiKey over both clusters; more nodes than a TX1 has cores.*)
AllBuilds ==
  {Build("tx1", 4, h, e, d) : h \in BOOLEAN, e \in BOOLEAN, d \in BOOLEAN}
    \union {Build("hikey", 6, FALSE, e, d) : e \in BOOLEAN, d \in BOOLEAN}
    \union {Build("tx1", 5, FALSE, TRUE, FALSE)}
SomeBuilds == {b \in AllBuilds : b.platform = "tx1" /\ b.dc => b.el2}

NobodyUp == {{}}
ZeroedBss == {FALSE}
=============================================================================
