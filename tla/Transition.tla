----------------------------- MODULE Transition -----------------------------
(***************************************************************************)
(* Protected network transitions: runTransition, rollbackTransition and    *)
(* restorePreviousConnection of internal/recovery/transitions.go, with the *)
(* NetworkManager client calls they make (FinalizeTransition, checkpoints, *)
(* addAndActivate), composed with the two other parts of the process that  *)
(* change profiles: startup recovery (internal/cli/run.go), which runs     *)
(* while the listener already serves, and the captive manager, which the   *)
(* controller enters and leaves while a transition runs.                   *)
(*                                                                         *)
(* Every client call is a step of its own.  A step can fail, and a failed  *)
(* call may have had its effect.  NetworkManager acts in between: it       *)
(* completes or gives up activations, autoconnects, and rolls an expired   *)
(* checkpoint back by itself.  The process or the machine can stop between *)
(* any two steps.                                                          *)
(***************************************************************************)
EXTENDS Naturals, Connectivity, Profiles

CONSTANTS UUIDs,         \* profile UUIDs; created profiles take fresh ones
          None,          \* no UUID
          SSIDs,         \* network names
          Entered,       \* networks a user enters
          StandaloneSSID,
          InitialStores, \* stored profiles the device may start with
          Kinds,         \* transitions taken: "new", "saved", "standalone"
          Requirement,   \* configured connectivity requirement
          MaxAttempts    \* bound: transitions per behaviour

\* What is stored: the profiles of the client's listing.
StoredProfiles == [owned : BOOLEAN,
                   role : {"infrastructure", "standalone", "provisioning"},
                   ssid : SSIDs \cup {StandaloneSSID}, autoconnect : BOOLEAN,
                   pending : BOOLEAN]

ASSUME NoneAssumption == None \notin UUIDs
ASSUME InputsAssumption ==
    /\ Kinds \subseteq {"new", "saved", "standalone"} /\ Entered \subseteq SSIDs
    /\ MaxAttempts \in Nat
\* A device starts with any profiles, foreign ones included; a profile that an
\* earlier transition left pending is written without autoconnect, and setup
\* access points are only ever created by onboardd for its interface.
ASSUME StoresAssumption ==
    \A s \in InitialStores :
        /\ DOMAIN s \subseteq UUIDs
        /\ \A u \in DOMAIN s : s[u] \in StoredProfiles
                             /\ (s[u].pending => ~s[u].autoconnect)
                             /\ (s[u].role = "provisioning" => s[u].owned)

VARIABLES
    store,       \* NetworkManager's profiles
    active,      \* profile active on the Wi-Fi device, or None
    up,          \* the active connection is activated
    checkpoint,  \* {} or one snapshot [uuid, profile] of the device
    life,        \* where the process is between start and exit
    listed,      \* pending profiles startup recovery listed for deletion
    session,     \* profile of the captive manager's session, or None
    entering,    \* EnterProvisioning holds the manager's lock
    pc,          \* step of the running transition
    kind, ssid,  \* the running (or last) transition
    cand,        \* activation.UUID, None when the activation returned none
    prev,        \* plan.previousUUID
    todo,        \* autoconnect updates still to make
    cause,       \* what publicTransitionFailure would make of the first error
    accepted,    \* ghost: the last checkpointed transition was accepted
    validated,   \* ghost: profiles that once passed accept, or predate us
    swept,       \* ghost: startup recovery deleted what no crash had left
    used,        \* ghost: UUIDs drawn so far; they are random, never drawn twice
    outcome,     \* how the last transition ended
    attempts     \* transitions begun

network == <<store, active, up, checkpoint>>
process == <<life, listed, swept>>
captive == <<session, entering>>
plan == <<kind, ssid, prev>>
progress == <<pc, cand, todo, cause, accepted, validated, outcome>>
vars == <<network, process, captive, plan, progress, used, attempts>>

\* Startup recovery: "recover" and "list", then "delete"; with an error of the
\* first part "list_failed" and "delete_failed".  The controller runs while
\* "running"; "stopping" waits for the transition.
Lives == {"down", "recover", "list", "list_failed", "delete", "delete_failed",
          "running", "stopping"}
Steps == {"idle", "checkpoint", "activate", "wait", "accept", "read", "select",
          "supersede", "commit", "leave", "rollback", "remove", "restore",
          "confirm"}
\* Steps taken once the candidate has been activated.
Waited == {"wait", "accept", "read", "select", "supersede", "commit", "leave"}
\* Public error codes of a failed operation.
Failures == {"connection_failed", "connectivity_unavailable", "restoration_failed",
             "cleanup_failed"}

TypeOK ==
    /\ DOMAIN store \subseteq UUIDs
    /\ \A u \in DOMAIN store : store[u] \in StoredProfiles
    /\ active \in UUIDs \cup {None} /\ up \in BOOLEAN
    /\ \A c \in checkpoint : c.uuid \in UUIDs
    /\ life \in Lives /\ listed \subseteq UUIDs /\ swept \in BOOLEAN
    /\ session \in UUIDs \cup {None} /\ entering \in BOOLEAN
    /\ pc \in Steps
    /\ kind \in {"new", "saved", "standalone"}
    /\ ssid \in SSIDs \cup {StandaloneSSID}
    /\ cand \in UUIDs \cup {None} /\ prev \in UUIDs \cup {None}
    /\ pc \in Waited => cand # None
    /\ todo \subseteq UUIDs
    /\ cause \in {"none", "connection_failed", "connectivity_unavailable"}
    /\ accepted \in BOOLEAN /\ validated \subseteq UUIDs /\ used \subseteq UUIDs
    /\ outcome \in {"none", "succeeded"} \cup Failures
    /\ attempts \in 0..MaxAttempts

\* The device is connected with one of the stored profiles: in setup through the
\* captive manager's session.
Init ==
    /\ store \in InitialStores
    /\ active \in DOMAIN store
    /\ store[active].autoconnect \/ store[active].role = "provisioning"
    /\ \A u \in DOMAIN store : store[u].role = "provisioning" => u = active
    /\ up = TRUE
    /\ checkpoint = {}
    /\ life = "running" /\ listed = {} /\ swept = FALSE
    /\ session = (IF store[active].role = "provisioning" THEN active ELSE None)
    /\ entering = FALSE
    /\ pc = "idle" /\ kind = "new" /\ ssid = StandaloneSSID
    /\ cand = None /\ prev = None
    /\ todo = {} /\ cause = "none"
    /\ accepted = FALSE
    /\ validated = {u \in DOMAIN store : ~store[u].pending}
    /\ used = DOMAIN store
    /\ outcome = "none" /\ attempts = 0

\* The role the running transition selects.
role == IF kind = "standalone" THEN "standalone" ELSE "infrastructure"

\* plan.removeRejected: a saved profile is never deleted on rejection.
mutant_removeRejected == TRUE
removeRejected == kind # "saved"

\* The operation ends with nil or with a public error.
Finish(result) == pc' = "idle" /\ outcome' = result /\ cause' = "none"

\* rollbackTransition is called with an error.
Reject(error) == pc' = "rollback" /\ cause' = error

\* Deleting a profile takes its connection down.
Delete(gone) ==
    /\ store' = Without(store, gone)
    /\ IF active \in gone
         THEN active' = None /\ up' = FALSE
         ELSE UNCHANGED <<active, up>>

-----------------------------------------------------------------------------
(* runTransition. *)

\* NetworkBackend: previousConnection needs an activated connection.  The
\* listener serves requests from before startup recovery until the process stops.
Begin(k, s) ==
    /\ life \notin {"down", "stopping"}
    /\ pc = "idle"
    /\ attempts < MaxAttempts
    /\ k \in Kinds
    /\ up
    /\ attempts' = attempts + 1
    /\ pc' = "checkpoint"
    /\ kind' = k /\ ssid' = s /\ prev' = active
    /\ outcome' = "none"
    /\ UNCHANGED <<network, process, captive, todo, cause, accepted, validated, used>>

\* Infrastructure.Attempt.
AttemptNew(s) ==
    /\ Begin("new", s)
    /\ cand' = None

\* Infrastructure.AttemptSaved of an owned profile that is not active.
AttemptSaved(u) ==
    /\ u \in DOMAIN store
    /\ store[u].owned /\ store[u].role = "infrastructure" /\ u # active
    /\ Begin("saved", store[u].ssid)
    /\ cand' = u

\* Standalone.Attempt.
AttemptStandalone ==
    /\ Begin("standalone", StandaloneSSID)
    /\ cand' = None

\* CreateCheckpoint snapshots the device's active connection; NetworkManager
\* refuses a second checkpoint for the device.
CreateCheckpoint ==
    /\ pc = "checkpoint"
    /\ \/ /\ checkpoint = {} /\ active # None
          /\ checkpoint' = {[uuid |-> active, profile |-> store[active]]}
          /\ accepted' = FALSE
          /\ \/ pc' = "activate" /\ UNCHANGED <<outcome, cause>>
             \/ Finish("connection_failed")
       \/ Finish("connection_failed") /\ UNCHANGED <<checkpoint, accepted>>
    /\ UNCHANGED <<store, active, up, process, captive, plan, cand, todo,
                   validated, used, attempts>>

\* ActivateConnection replaces the active connection.
Activate(u) == active' = u /\ up' = FALSE

\* addAndActivate has failed.  AddConnection2's error leaves a candidate nobody
\* knows the UUID of when only its reply was lost.  After ActivateConnection's
\* error the candidate is deleted again; if that fails too its UUID comes back
\* with the error.
AddOrActivateFails(u, added) ==
    \/ store' \in {store, added} /\ UNCHANGED <<active, up, cand>>
    \/ /\ store' = store
       /\ cand' \in {None, u}
       /\ \/ active' = None /\ up' = FALSE
          \/ UNCHANGED <<active, up>>
    \/ /\ store' = added
       /\ cand' = u
       /\ Activate(u) \/ UNCHANGED <<active, up>>

\* ConnectInfrastructure and StartAccessPoint: addAndActivate.
AddAndActivate(u) ==
    /\ pc = "activate" /\ kind # "saved"
    /\ u \notin used
    /\ used' = used \cup {u}
    /\ LET profile == IF kind = "new" THEN infrastructureCandidate(ssid)
                                      ELSE standaloneCandidate(ssid)
           added == With(store, u, profile)
       IN  \/ /\ store' = added /\ Activate(u) /\ cand' = u
              /\ pc' = "wait" /\ UNCHANGED cause
           \/ AddOrActivateFails(u, added) /\ Reject("connection_failed")
    /\ UNCHANGED <<checkpoint, process, captive, plan, todo, accepted,
                   validated, outcome, attempts>>

\* ActivateProfile for a saved profile.
ActivateSaved ==
    /\ pc = "activate" /\ kind = "saved"
    /\ \/ /\ cand \in DOMAIN store /\ Activate(cand)
          /\ \/ pc' = "wait" /\ UNCHANGED cause
             \/ Reject("connection_failed")
       \/ Reject("connection_failed") /\ UNCHANGED <<active, up>>
    /\ UNCHANGED <<store, checkpoint, process, captive, plan, cand, todo,
                   accepted, validated, used, outcome, attempts>>

\* WaitForActivation.
WaitForActivation ==
    /\ pc = "wait"
    /\ \/ active = cand /\ up /\ pc' = "accept" /\ UNCHANGED cause
       \/ Reject("connection_failed")
    /\ UNCHANGED <<network, process, captive, plan, cand, todo, accepted, validated,
                   used, outcome, attempts>>

\* Status and plan.accept of an infrastructure candidate: with an internet
\* requirement NetworkManager is asked for a fresh check.  The wording of a failed
\* Status or check, and of a missing confirmation, reads as a connectivity
\* problem; that of a candidate which is not active or has no address does not.
AcceptInfrastructure(observation) ==
    /\ kind # "standalone"
    /\ \/ /\ active = cand /\ Evaluate(Requirement, observation)
          /\ pc' = "read" /\ accepted' = TRUE
          /\ validated' = validated \cup {cand}
          /\ UNCHANGED cause
       \/ /\ active = cand => ~Evaluate(Requirement, observation)
          /\ Reject(IF active = cand /\ EvaluateReason(Requirement, observation)
                                            = "internet-not-confirmed"
                      THEN "connectivity_unavailable" ELSE "connection_failed")
          /\ UNCHANGED <<accepted, validated>>
       \/ Reject("connectivity_unavailable") /\ UNCHANGED <<accepted, validated>>

\* Status and plan.accept of a standalone candidate.
AcceptStandalone(observation) ==
    /\ kind = "standalone"
    /\ \/ /\ active = cand /\ up /\ observation.hasLocalAddress
          /\ pc' = "read" /\ accepted' = TRUE
          /\ validated' = validated \cup {cand}
          /\ UNCHANGED cause
       \/ Reject("connection_failed") /\ UNCHANGED <<accepted, validated>>

Accept ==
    /\ pc = "accept"
    /\ \E address \in BOOLEAN, internet \in InternetStates :
          LET observation == [activated |-> up, hasLocalAddress |-> address,
                              internet |-> internet]
          IN  AcceptInfrastructure(observation) \/ AcceptStandalone(observation)
    /\ UNCHANGED <<network, process, captive, plan, cand, todo, used, outcome,
                   attempts>>

\* selectMode lists the profiles once and works from that listing.
ReadProfiles ==
    /\ pc = "read"
    /\ \/ /\ pc' = "select"
          /\ todo' = autoconnectUpdates(store, role)
          /\ UNCHANGED cause
       \/ Reject("connection_failed") /\ UNCHANGED todo
    /\ UNCHANGED <<network, process, captive, plan, cand, accepted, validated, used,
                   outcome, attempts>>

\* updateAutoconnect of one profile; a profile that is gone is skipped.
UpdateAutoconnect(u) ==
    /\ pc = "select"
    /\ u \in nextUpdates(store, role, todo)
    /\ LET updated == IF u \in DOMAIN store
                        THEN [store EXCEPT ![u] =
                                 rebuildOwnedSettings(@, @.role = role)]
                        ELSE store
       IN  \/ store' = updated /\ todo' = todo \ {u} /\ UNCHANGED <<pc, cause>>
           \/ /\ store' \in {store, updated} /\ todo' = {}
              /\ Reject("connection_failed")
    /\ UNCHANGED <<active, up, checkpoint, process, captive, plan, cand,
                   accepted, validated, used, outcome, attempts>>

ModeSelected ==
    /\ pc = "select" /\ todo = {}
    /\ pc' = "supersede"
    /\ UNCHANGED <<network, process, captive, plan, cand, todo, cause, accepted,
                   validated, used, outcome, attempts>>

\* deleteSupersededProfiles: one Delete call each, an error stops early.
DeleteSuperseded ==
    /\ pc = "supersede"
    /\ LET superseded == supersededProfiles(store, role, ssid, cand)
       IN  \E gone \in SUBSET superseded :
              /\ Delete(gone)
              /\ \/ gone = superseded /\ pc' = "commit" /\ UNCHANGED cause
                 \/ Reject("connection_failed")
    /\ UNCHANGED <<checkpoint, process, captive, plan, cand, todo, accepted,
                   validated, used, outcome, attempts>>

\* CommitCheckpoint fails when the checkpoint has expired.
CommitCheckpoint ==
    /\ pc = "commit"
    /\ \/ /\ checkpoint # {} /\ checkpoint' = {}
          /\ pc' = "leave" /\ UNCHANGED cause
       \/ checkpoint' \in {checkpoint, {}} /\ Reject("connection_failed")
    /\ UNCHANGED <<store, active, up, process, captive, plan, cand, todo,
                   accepted, validated, used, outcome, attempts>>

-----------------------------------------------------------------------------
(* rollbackTransition. *)

\* What NetworkManager does to roll back: the snapshotted connection gets its
\* settings back (it is added again if it was deleted) and is reactivated.
\* Profiles created since then stay (CheckpointCreate flags are 0).
RestoreSnapshot ==
    \E c \in checkpoint :
        /\ store' = With(store, c.uuid, c.profile)
        /\ active' = c.uuid
        /\ up' \in BOOLEAN
        /\ checkpoint' = {}

\* A failed rollback is returned at once, nothing else is cleaned up.
RollbackCheckpoint ==
    /\ pc = "rollback"
    /\ \/ RestoreSnapshot /\ pc' = "remove" /\ UNCHANGED <<outcome, cause>>
       \/ RestoreSnapshot /\ Finish("restoration_failed")
       \/ Finish("restoration_failed") /\ UNCHANGED <<store, active, up, checkpoint>>
    /\ UNCHANGED <<process, captive, plan, cand, todo, accepted, validated,
                   used, attempts>>

\* DeleteOwnedProfile of the rejected candidate; an error is only recorded.
RemoveRejected ==
    /\ pc = "remove"
    /\ pc' = "restore"
    /\ \/ removeRejected /\ cand # None /\ Delete({cand})
       \/ UNCHANGED <<store, active, up>>
    /\ UNCHANGED <<checkpoint, process, captive, plan, cand, todo, cause,
                   accepted, validated, used, outcome, attempts>>

\* connectionActive of the previous connection.
mutant_PreviousActive == active = prev
PreviousActive == active = prev /\ up

\* restorePreviousConnection: nothing to do when it is active, wait when it is
\* being activated, otherwise activate it by UUID first.
RestorePrevious ==
    /\ pc = "restore"
    /\ \/ PreviousActive /\ Finish(cause) /\ UNCHANGED <<active, up>>
       \/ /\ pc' = "confirm" /\ UNCHANGED <<outcome, cause>>
          /\ \/ active = prev /\ UNCHANGED <<active, up>>
             \/ prev \in DOMAIN store /\ Activate(prev)
       \/ /\ Finish("restoration_failed")
          /\ \/ UNCHANGED <<active, up>>
             \/ prev \in DOMAIN store /\ Activate(prev)
    /\ UNCHANGED <<store, checkpoint, process, captive, plan, cand, todo,
                   accepted, validated, used, attempts>>

\* WaitForActivation and waitForConnection, until the restoration wait is over.
ConfirmPrevious ==
    /\ pc = "confirm"
    /\ \/ PreviousActive /\ Finish(cause)
       \/ Finish("restoration_failed")
    /\ UNCHANGED <<network, process, captive, plan, cand, todo, accepted, validated,
                   used, attempts>>

-----------------------------------------------------------------------------
(* The captive manager: the controller enters and leaves provisioning on the *)
(* engine's word, which may be old, and on manual requests (module           *)
(* Controller), so at any time; module CaptiveManager has the details.       *)

\* LeaveProvisioning deletes the profile of the session it holds.
Leave ==
    \/ session # None /\ Delete({session}) /\ session' = None
    \/ session = None /\ UNCHANGED <<store, active, up, session>>

\* exitCaptive, after the transition is committed.
ExitCaptive ==
    /\ pc = "leave"
    /\ ~entering
    /\ \/ Leave /\ Finish("succeeded")
       \/ session # None /\ Finish("cleanup_failed")
          /\ UNCHANGED <<store, active, up, session>>
    /\ UNCHANGED <<checkpoint, process, entering, plan, cand, todo,
                   accepted, validated, used, attempts>>

LeaveProvisioning ==
    /\ life = "running"
    /\ ~entering /\ session # None
    /\ Leave
    /\ UNCHANGED <<checkpoint, process, entering, plan, progress, used,
                   attempts>>

provisioningProfile ==
    [owned |-> TRUE, role |-> "provisioning", ssid |-> StandaloneSSID,
     autoconnect |-> FALSE, pending |-> FALSE]

\* EnterProvisioning up to StartAccessPoint: a failed call may have stored a
\* profile that no session holds, or leave a session that has to be cleaned up.
EnterProvisioning(u) ==
    /\ life = "running"
    /\ ~entering /\ session = None
    /\ u \notin used /\ used' = used \cup {u}
    /\ store' = With(store, u, provisioningProfile)
    /\ \/ Activate(u) /\ session' = u /\ entering' = TRUE
       \/ UNCHANGED <<active, up, session, entering>>
       \/ session' = u /\ UNCHANGED <<active, up, entering>>
    /\ UNCHANGED <<checkpoint, process, plan, progress, attempts>>

\* The rest of it: the access point is confirmed and becomes the only one, or
\* the session is stopped again.
EnterCompletes ==
    /\ entering
    /\ entering' = FALSE
    /\ \/ /\ active = session /\ up
          /\ Delete(supersededProfiles(store, "provisioning", "", session))
          /\ UNCHANGED session
       \/ Leave
       \/ UNCHANGED <<store, active, up, session>>
    /\ UNCHANGED <<checkpoint, process, plan, progress, used, attempts>>

-----------------------------------------------------------------------------
(* NetworkManager on its own. *)

ActivationEnds ==
    /\ active # None /\ ~up
    /\ \/ up' = TRUE /\ UNCHANGED active
       \/ active' = None /\ UNCHANGED up
    /\ UNCHANGED <<store, checkpoint, process, captive, plan, progress, used,
                   attempts>>

LinkLost ==
    /\ up
    /\ active' = None /\ up' = FALSE
    /\ UNCHANGED <<store, checkpoint, process, captive, plan, progress, used,
                   attempts>>

Autoconnect(u) ==
    /\ active = None
    /\ u \in DOMAIN store /\ store[u].autoconnect
    /\ Activate(u)
    /\ UNCHANGED <<store, checkpoint, process, captive, plan, progress,
                   used, attempts>>

\* The checkpoint's rollback timeout fires, whoever created it.
CheckpointExpires ==
    /\ RestoreSnapshot
    /\ UNCHANGED <<process, captive, plan, progress, used, attempts>>

-----------------------------------------------------------------------------
(* Stops and restarts. *)

\* What dies with the process, in the middle of whatever it does.
Die ==
    /\ life' = "down" /\ listed' = {}
    /\ session' = None /\ entering' = FALSE
    /\ pc' = "idle" /\ todo' = {} /\ cause' = "none"
    /\ UNCHANGED <<plan, cand, accepted, validated, outcome, swept, used, attempts>>

Crash ==
    /\ life # "down"
    /\ Die
    /\ UNCHANGED network

\* A power cut also takes NetworkManager's memory: temporary profiles, the
\* checkpoint and the connection.
PowerCut ==
    /\ Die
    /\ store' = Without(store,
                    {u \in DOMAIN store : store[u].role = "provisioning"})
    /\ active' = None /\ up' = FALSE
    /\ checkpoint' = {}

\* runAppliance: the listener serves, startup recovery begins.
Start ==
    /\ life = "down"
    /\ life' = "recover"
    /\ UNCHANGED <<network, listed, swept, captive, plan, progress, used, attempts>>

\* Manager.RecoverStartup removes stale provisioning profiles ...
RecoverProvisioning ==
    /\ life = "recover"
    /\ LET stale == supersededProfiles(store, "provisioning", "", None)
       IN  \E gone \in SUBSET stale :
              /\ Delete(gone)
              /\ \/ gone = stale /\ life' = "list"
                 \/ life' = "list_failed"
    /\ UNCHANGED <<checkpoint, listed, swept, captive, plan, progress, used,
                   attempts>>

\* ... and DeletePendingInfrastructureProfiles lists the profiles once, ...
ListPending ==
    /\ life \in {"list", "list_failed"}
    /\ \/ /\ listed' = pendingProfiles(store)
          /\ life' = IF life = "list" THEN "delete" ELSE "delete_failed"
       \/ life' = "stopping" /\ UNCHANGED listed
    /\ UNCHANGED <<network, swept, captive, plan, progress, used, attempts>>

\* ... and deletes what it listed.  Both are tried; an error of either ends the
\* process.
DeletePending ==
    /\ life \in {"delete", "delete_failed"}
    /\ listed' = {}
    /\ \E gone \in SUBSET listed :
          /\ Delete(gone)
          /\ swept' = (swept \/ \E u \in gone \cap DOMAIN store :
                          ~store[u].pending \/ (pc # "idle" /\ u = cand))
          /\ \/ life = "delete" /\ gone = listed /\ life' = "running"
             \/ life' = "stopping"
    /\ UNCHANGED <<checkpoint, captive, plan, progress, used, attempts>>

\* SIGTERM or a failed component: the controller and the listener stop.
Stop ==
    /\ life = "running"
    /\ ~entering
    /\ life' = "stopping"
    /\ UNCHANGED <<network, listed, swept, captive, plan, progress, used, attempts>>

\* stopOperations waits for the transition, stopManagedResources leaves
\* provisioning; then the process ends.
Exit ==
    /\ life = "stopping" /\ pc = "idle"
    /\ Leave
    /\ life' = "down"
    /\ UNCHANGED <<checkpoint, listed, swept, entering, plan, progress, used,
                   attempts>>

Run ==
    \/ \E s \in Entered : AttemptNew(s)
    \/ \E u \in UUIDs : AttemptSaved(u) \/ AddAndActivate(u) \/ UpdateAutoconnect(u)
    \/ AttemptStandalone \/ CreateCheckpoint \/ ActivateSaved \/ WaitForActivation
    \/ Accept \/ ReadProfiles \/ ModeSelected \/ DeleteSuperseded \/ CommitCheckpoint
    \/ ExitCaptive \/ RollbackCheckpoint \/ RemoveRejected \/ RestorePrevious
    \/ ConfirmPrevious

Captive ==
    \/ LeaveProvisioning \/ EnterCompletes
    \/ \E u \in UUIDs : EnterProvisioning(u)

NetworkManager ==
    \/ ActivationEnds \/ LinkLost \/ CheckpointExpires
    \/ \E u \in UUIDs : Autoconnect(u)

Restart ==
    \/ Crash \/ PowerCut \/ Start \/ RecoverProvisioning \/ ListPending
    \/ DeletePending \/ Stop \/ Exit

Next == Run \/ Captive \/ NetworkManager \/ Restart

Spec == Init /\ [][Next]_vars

-----------------------------------------------------------------------------
(* Properties. *)

\* The device will come back in a production mode that once worked after a
\* reboot.
Bootable == \E u \in DOMAIN store \cap validated :
                Production(store[u]) /\ store[u].autoconnect

\* No step of mode selection, superseding, committing, crash or startup takes
\* the last production mode away from a device that has one: enabling comes
\* before disabling, and selection before deletion.  Only four steps can: the
\* deletion of a rejected candidate, a rollback that restores the settings of a
\* previous connection which was itself not yet enabled, startup recovery that
\* deletes a profile of a transition of its own process, and a selection that
\* goes on after the checkpoint expired under it and took the candidate's new
\* settings back.
OnlyRejectionDisables ==
    [][Bootable /\ ~Bootable' =>
          \/ pc = "remove"
          \/ swept'
          \/ \E c \in checkpoint \ checkpoint' :
                Production(c.profile) /\ ~c.profile.autoconnect
          \/ checkpoint = {} /\ pc \in {"select", "supersede"}
             /\ ~store[cand].autoconnect]_vars

\* A transition that returns success has made its mode durable, whatever expired
\* and whatever the controller did in between: the candidate is stored, committed
\* and starts at boot, exactly the owned profiles of its role do, and no rollback
\* is armed any more.  Startup recovery that was still running is the exception.
SuccessIsDurable ==
    [][outcome' = "succeeded" /\ outcome # "succeeded" =>
          \/ swept
          \/ /\ checkpoint' = {}
             /\ cand \in DOMAIN store' /\ ~store'[cand].pending
             /\ supersededProfiles(store', role, ssid, cand) = {}
             /\ \A u \in DOMAIN store' : Production(store'[u]) =>
                   store'[u].autoconnect = (store'[u].role = role)]_vars

\* Until a candidate is accepted its transition is fully reversible: no failure,
\* rollback, expiry, crash, restart, entering or leaving of provisioning changes
\* or removes a committed production profile, a saved candidate included; the
\* startup exception is the same.
RejectionChangesNothing ==
    [][~accepted /\ ~swept' =>
          \A u \in DOMAIN store :
              Production(store[u]) /\ ~store[u].pending /\ (u # cand \/ kind = "saved")
                => u \in DOMAIN store' /\ store'[u] = store[u]]_vars

\* Profiles onboardd does not own are never modified or deleted.
ForeignUntouched ==
    [][\A u \in DOMAIN store : ~store[u].owned =>
          u \in DOMAIN store' /\ store'[u] = store[u]]_vars

\* transitions.go:77: "Every failure after the checkpoint exists rolls back and
\* confirms the previous connection is live again before returning".  Whoever
\* deleted, replaced or dropped the previous connection meanwhile, a failure that
\* does not say "restoration_failed" leaves the device on it.
RestorationReported ==
    [][pc \notin {"idle", "checkpoint"} /\ pc' = "idle" /\ life' # "down"
       /\ outcome' \in {"connection_failed", "connectivity_unavailable"}
          => active' = prev /\ up' /\ prev \in DOMAIN store']_vars

\* A pending profile never starts at boot, so that an interrupted candidate is
\* inert until the next startup removes it.
PendingIsInert ==
    \A u \in DOMAIN store : store[u].pending => ~store[u].autoconnect

(* What comments and documentation claim beyond that. *)

\* transitions.go:116 of the client: "If either operation fails, at least one
\* usable production profile remains eligible for autoconnect on the next boot."
FailureStaysBootable == [][Bootable => Bootable']_vars

\* docs/architecture.md:67: "A partially created candidate is removed on failure
\* or next startup": after a transition that was never accepted and a startup,
\* the candidate the transition created is gone.
StartupRemovesCandidate ==
    [][(/\ life = "delete" /\ life' = "running" /\ pc = "idle"
        /\ outcome # "succeeded" /\ ~accepted /\ kind # "saved")
          => cand \notin DOMAIN store']_vars

\* client.go:266: "DeletePendingInfrastructureProfiles removes only uncommitted
\* profiles created by an interrupted onboardd transition on the exact interface.
\* Committed and unmanaged profiles are outside this recovery boundary."
SweepsOnlyInterrupted ==
    ~swept
=============================================================================
