----------------------------- MODULE MCRuntime -----------------------------
(* Instance of Runtime for TLC. *)
EXTENDS Runtime

\* One stage of every kind that Health treats differently.
StageKinds == {"booting", "provisioning", "failed", "stopped"}

Optional(S) == {{}} \cup {{v} : v \in S}

\* Ports at the edges of the checks and of 16 bits, from either source.
Ports == {0, 1, 80, 65535, 65536 + 1}
PortSources ==
    {[file |-> file, named |-> TRUE, layer |-> [NoLayer EXCEPT !.port = p],
      flags |-> [NoLayer EXCEPT !.port = q]] :
        file \in {"read", "malformed"}, p \in Optional(Ports), q \in Optional(Ports)}

\* Without a file there are only the defaults and the flags.
FileSources ==
    {[file |-> "missing", named |-> named, layer |-> NoLayer,
      flags |-> [NoLayer EXCEPT !.infrastructure = i, !.standalone = s]] :
        named \in BOOLEAN, i \in Optional(BOOLEAN), s \in Optional(BOOLEAN)}

\* Every address and prefix of the scaled-down address space.
AddressSources ==
    {[file |-> "read", named |-> TRUE,
      layer |-> [NoLayer EXCEPT !.address = {a}, !.standalone = s],
      flags |-> [NoLayer EXCEPT !.standalone = f]] :
        a \in Addresses, s \in Optional({FALSE}), f \in Optional({TRUE})}

\* Labels and links, plain and templates.
HandoffSources ==
    {[file |-> "read", named |-> FALSE,
      layer |-> [NoLayer EXCEPT !.label = {l}, !.url = {u}, !.health = {h}],
      flags |-> NoLayer] : l \in Texts, u \in Texts, h \in Texts}

Sources == PortSources \cup FileSources \cup AddressSources \cup HandoffSources
=============================================================================
