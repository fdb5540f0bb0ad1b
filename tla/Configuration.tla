--------------------------- MODULE Configuration ---------------------------
(***************************************************************************)
(* From the configuration file and the command line to the options the     *)
(* appliance runs with: Resolve and Validate (internal/appconfig), the     *)
(* operational overrides and portalURLFor (internal/cli/setup.go), the     *)
(* handoff (internal/webui/options.go) and what they mean for the captive  *)
(* HTTP handler (internal/captive/http.go).                                *)
(*                                                                         *)
(* A layer maps each key to the set of its values: empty when the key is   *)
(* not given.  URLs and labels are kinds: empty, good, bad, or a template  *)
(* that renders to one of them.  Names, passwords and colours are checked  *)
(* one by one and left out.                                                *)
(***************************************************************************)
EXTENDS Integers

CONSTANT Width \* bits of an IPv4 address

CaptivePublicPort == 80
MaxPort == 65535

Defaults == [port |-> 18080, infrastructure |-> TRUE, standalone |-> TRUE,
             address |-> [host |-> 1, bits |-> 1],
             label |-> "empty", url |-> "empty", health |-> "empty"]

\* What the file and the command line can say.
Templates == {"template_good", "template_bad"}
Texts == {"empty", "good", "bad"} \cup Templates
Addresses == [host : 0..(2^Width - 1), bits : 0..Width]
Layers == [port : SUBSET Nat, infrastructure : SUBSET BOOLEAN,
           standalone : SUBSET BOOLEAN, address : SUBSET Addresses,
           label : SUBSET Texts, url : SUBSET Texts, health : SUBSET Texts]
RawConfigurations == [file : {"read", "missing", "malformed"}, named : BOOLEAN,
                      layer : Layers, flags : Layers]

\* Nothing is given: the empty layer.
NoLayer == [key \in DOMAIN Defaults |-> {}]

\* decodeInto and applyOverrides: what a layer gives replaces what was there.
overlay(config, layer) ==
    [key \in DOMAIN config |->
        IF layer[key] = {} THEN config[key] ELSE CHOOSE v \in layer[key] : TRUE]

\* decodeInto refuses a number that does not fit its field.
decodes(layer) == \A p \in layer.port : p \in 0..MaxPort

\* overrides: a port flag is checked before it is narrowed to 16 bits.
mutant_overridesValid(flags) == \A p \in flags.port : p # 0
overridesValid(flags) == \A p \in flags.port : p # 0 /\ p <= MaxPort
overrides(flags) == [flags EXCEPT !.port = {p % (MaxPort + 1) : p \in @}]

-----------------------------------------------------------------------------
(* Validate. *)

blockSize(a) == 2^(Width - a.bits)
masked(a, host) == host - (host % blockSize(a))
\* Addr.Next is invalid after the last address, and no prefix contains it.
containsNext(a) ==
    a.host + 1 < 2^Width /\ masked(a, a.host + 1) = masked(a, a.host)

mutant_validateStandaloneAddress(a) ==
    a.bits <= Width - 2 /\ a.host # masked(a, a.host)
validateStandaloneAddress(a) ==
    a.bits <= Width - 2 /\ a.host # masked(a, a.host) /\ containsNext(a)

mutant_validatePortal(port) == port # 0
validatePortal(port) == port # 0 /\ port # CaptivePublicPort

render(v) == CASE v = "template_good" -> "good" [] v = "template_bad" -> "bad"
               [] OTHER -> v

\* The target of a template is only validated once it is rendered.
validateHandoff(config, rendered) ==
    /\ (config.label = "empty") = (config.url = "empty")
    /\ config.health # "empty" => config.url # "empty"
    /\ config.label # "bad"
    /\ \A v \in {config.url, config.health} :
          v \notin {"empty", "good"} => ~rendered /\ v \in Templates

Validate(config) ==
    /\ config.infrastructure \/ config.standalone
    /\ config.standalone => validateStandaloneAddress(config.address)
    /\ validatePortal(config.port)
    /\ validateHandoff(config, FALSE)

\* Resolve: a missing file is an error only when it was named.
Resolve(raw) ==
    {config \in
        {overlay(IF raw.file = "read" THEN overlay(Defaults, raw.layer) ELSE Defaults,
                 overrides(raw.flags))} :
        /\ overridesValid(raw.flags)
        /\ raw.file = "read" => decodes(raw.layer)
        /\ raw.file = "missing" => ~raw.named
        /\ raw.file # "malformed"
        /\ Validate(config)}

RenderTemplates(config) ==
    {c \in {[config EXCEPT !.label = render(@), !.url = render(@), !.health = render(@)]} :
        validateHandoff(c, TRUE)}

\* loadSetupOptions: the accepted configuration, or none.
loadSetupOptions(raw) == UNION {RenderTemplates(c) : c \in Resolve(raw)}

-----------------------------------------------------------------------------
(* The portal's addresses, by their port; 0 where the URL or Host names none. *)

portalURLFor(config) == config.port
setupURL(config) == IF config.port # CaptivePublicPort THEN config.port ELSE 0

\* A browser leaves the default port of http out of the Host header.
authorityPort(port) == IF port = CaptivePublicPort THEN 0 ELSE port

\* HTTPHandler.ServeHTTP: the listener's own port is the portal, everything
\* else is redirected.
servesPortal(config, authority) == authority = config.port

-----------------------------------------------------------------------------
(* What an accepted configuration has to be. *)

\* The port that was asked for: by a flag, else by the file, else the default.
PortsAsked(raw) ==
    IF raw.flags.port # {} THEN raw.flags.port
    ELSE IF raw.file = "read" /\ raw.layer.port # {} THEN raw.layer.port
    ELSE {Defaults.port}

\* Whatever host and port a client asks for, it is at the portal after at most
\* one redirect.
RedirectEnds(config) ==
    \A asked \in 0..CaptivePublicPort \cup {config.port} :
        \/ servesPortal(config, authorityPort(asked))
        \/ servesPortal(config, authorityPort(portalURLFor(config)))

\* The addresses of a prefix, and its hosts: all but the first and the last.
subnet(a) == {x \in 0..(2^Width - 1) : x \div blockSize(a) = a.host \div blockSize(a)}
hosts(a) == {x \in subnet(a) : \E lo, hi \in subnet(a) : lo < x /\ x < hi}

\* The device has a host address of its own and one is left for a client.
Usable(a) == a.host \in hosts(a) /\ hosts(a) # {a.host}
=============================================================================
