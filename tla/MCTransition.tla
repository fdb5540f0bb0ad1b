---------------------------- MODULE MCTransition ----------------------------
(* Instances of Transition for TLC. *)
EXTENDS Transition, TLC

CONSTANTS p, m, f  \* setup access point, production and foreign profiles

Stored(own, as, name, boots) ==
    [owned |-> own, role |-> as, ssid |-> name, autoconnect |-> boots,
     pending |-> FALSE]

\* A device that was never set up; the foreign profile has the SSID that the
\* user will enter.
Foreign == f :> Stored(FALSE, "infrastructure", "home", FALSE)
NewDevice == With(Foreign, p, Stored(TRUE, "provisioning", "ap", FALSE))

\* Devices that were set up for standalone use and for a network, with and
\* without the setup access point they fall back to.
Standalone(device) == With(device, m, Stored(TRUE, "standalone", "ap", TRUE))
Network(device, name) ==
    With(device, m, Stored(TRUE, "infrastructure", name, TRUE))

AnyDevice == {NewDevice, Standalone(NewDevice), Standalone(Foreign),
              Network(NewDevice, "home"), Network(Foreign, "cafe")}
SetUpDevice == {Standalone(NewDevice)}
=============================================================================
