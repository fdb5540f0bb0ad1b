---------------------------- MODULE MCController ----------------------------
(* Instances of Controller for TLC. *)
EXTENDS Controller

Network(managed, condition, active, link, autoconnect) ==
    [managed |-> managed, condition |-> condition, active |-> active,
     link |-> link, autoconnect |-> autoconnect]

Infra == {"infrastructure"}
Ready == Network(TRUE, "activated", "infrastructure", "full", Infra)
Nothing == Network(TRUE, "disconnected", "none", "none", {})

\* A device that is ready, and up without the internet.
FewSituations ==
    {Ready, Network(TRUE, "activated", "infrastructure", "local", Infra)}

\* One that is ready, and with nothing to activate.  It waits when the setup access
\* point is gone and its profile is not up again.
LiveSituations == {Ready, Nothing}

\* An infrastructure device that is ready, one with nothing to activate, one
\* that is not managed, and a standalone device with its access point down or
\* up.  The second one becomes the fourth by a profile update alone.
Situations ==
    {Ready,
     Nothing,
     Network(FALSE, "disconnected", "none", "none", {}),
     Network(TRUE, "disconnected", "none", "none", {"standalone"}),
     Network(TRUE, "activated", "standalone", "local", {"standalone"})}
=============================================================================
