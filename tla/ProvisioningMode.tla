-------------------------- MODULE ProvisioningMode --------------------------
(***************************************************************************)
(* What the captive manager promises its callers: provisioning mode is     *)
(* entered completely or not at all, is off from the moment a call to      *)
(* leave it begins, and leaves no trace that the manager does not track.   *)
(* A trace is anything a client of the device can notice: the access       *)
(* point, the captive DNS answers, the redirect of port 80.  Traces of a   *)
(* crashed process are untracked until a recovery has removed them, and    *)
(* no call is accepted before that.                                        *)
(*                                                                         *)
(* What it cannot promise is an access point that was removed and that the *)
(* rollback of a setup transition brings back: it has returned, and is not *)
(* among the manager's traces.                                             *)
(***************************************************************************)
VARIABLES call,      \* the running call: "enter", "leave", "recover", or none:
                     \* "idle", or "down" when the process is not running
          entered,   \* the device is in provisioning mode
          traces,    \* something of the mode is noticeable
          tracked,   \* the manager remembers that there is something to remove
          returned   \* an access point that a rollback brought back is on the air

vars == <<call, entered, traces, tracked, returned>>

Init == call = "down" /\ ~entered /\ ~traces /\ ~tracked /\ ~returned

\* Traces may go by themselves, or be removed, but not come.
Fading == traces' => traces
\* No call brings an access point back; a step may take one away.
Calm == returned' => returned

-----------------------------------------------------------------------------
\* A process starts, and recovers before it accepts calls.  When the recovery
\* fails the process exits.
BeginRecovery ==
    /\ call = "down" /\ call' = "recover"
    /\ UNCHANGED <<entered, traces, tracked, returned>>

Recovered ==
    /\ call = "recover" /\ call' = "idle"
    /\ ~traces'
    /\ Calm
    /\ UNCHANGED <<entered, tracked>>

RecoveryFails ==
    /\ call = "recover" /\ call' = "down"
    /\ Fading
    /\ Calm
    /\ UNCHANGED <<entered, tracked>>

\* Before and during a recovery nothing new appears, and nothing is tracked.
Recovers ==
    /\ call \in {"down", "recover"}
    /\ Fading /\ Calm
    /\ UNCHANGED <<call, entered, tracked>>

-----------------------------------------------------------------------------
BeginEnter ==
    /\ call = "idle" /\ ~entered
    /\ call' = "enter"
    /\ UNCHANGED <<entered, traces, tracked, returned>>

\* Entering succeeds, or fails and leaves nothing that is not tracked.
Entered ==
    /\ call = "enter" /\ call' = "idle"
    /\ entered' /\ traces' /\ tracked' /\ Calm

EnterFails ==
    /\ call = "enter" /\ call' = "idle"
    /\ ~entered' /\ (traces' => tracked') /\ Calm

BeginLeave ==
    /\ call = "idle" /\ tracked
    /\ call' = "leave"
    /\ ~entered'
    /\ UNCHANGED <<traces, tracked, returned>>

\* Leaving succeeds when nothing is tracked any more, and fails otherwise.
Left ==
    /\ call = "leave" /\ call' = "idle"
    /\ ~entered' /\ (traces' => tracked') /\ Fading /\ Calm

\* A step of a running call: what is noticeable is tracked at every moment.
Works ==
    /\ call \in {"enter", "leave"}
    /\ traces' => tracked'
    /\ call = "leave" => Fading
    /\ Calm
    /\ UNCHANGED <<call, entered>>

-----------------------------------------------------------------------------
\* The process dies: what it tracked is forgotten, what it created is not.
Dies ==
    /\ call # "down" /\ call' = "down"
    /\ ~entered' /\ ~tracked'
    /\ UNCHANGED <<traces, returned>>

\* What a failed call left behind goes by itself, or an access point that has
\* returned; a mode that is on stays noticeable.
Fades ==
    /\ call = "idle"
    /\ entered => traces'
    /\ Fading /\ Calm
    /\ UNCHANGED <<call, entered, tracked>>

\* A setup transition is rolled back: the access point that it replaced is on
\* the air again, as one the manager tracks or as one that has returned.
Returns ==
    /\ entered => traces'
    /\ traces' => traces \/ tracked
    /\ returned' \in BOOLEAN
    /\ UNCHANGED <<call, entered, tracked>>

Next ==
    \/ BeginRecovery \/ Recovered \/ RecoveryFails \/ Recovers
    \/ BeginEnter \/ Entered \/ EnterFails \/ BeginLeave \/ Left \/ Works
    \/ Dies \/ Fades \/ Returns

Spec == Init /\ [][Next]_vars
=============================================================================
