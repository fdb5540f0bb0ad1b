--------------------------- MODULE CaptiveManager ---------------------------
(***************************************************************************)
(* Temporary provisioning mode: internal/captive/manager.go (Manager),     *)
(* provisioning.go (Provisioner, ProvisioningSession, DNSConfigFile) and   *)
(* redirect.go (NFTRedirect), with the NetworkManager client calls they    *)
(* make.                                                                   *)
(*                                                                         *)
(* Three resources outlive the process that created them: the in-memory    *)
(* access point profile, the dnsmasq fragment that makes DNS answers       *)
(* captive, and the nftables table that redirects port 80.  Each of them   *)
(* is created and removed by a call that can fail, and a failed call may   *)
(* or may not have had its effect (a D-Bus reply that is lost to a         *)
(* timeout, a killed nft process).  The process can crash between any two  *)
(* calls; the next process starts with RecoverStartup.                     *)
(*                                                                         *)
(* The manager is not alone: a setup transition (recovery/transitions.go)  *)
(* protects the access point with a NetworkManager checkpoint, and a       *)
(* rollback brings the profile back and activates it, also after the       *)
(* manager has removed it and the dnsmasq fragment.                        *)
(*                                                                         *)
(* Manager.transitionMu is held for a whole call, so a call is a sequence  *)
(* of steps that no other call interleaves with; pc is "idle" when the     *)
(* mutex is free.                                                          *)
(***************************************************************************)
EXTENDS Naturals

CONSTANTS UUIDs,   \* profile UUIDs; every created profile takes a fresh one
          None     \* no UUID

ASSUME NoneAssumption == None \notin UUIDs

VARIABLES
    profiles,             \* owned provisioning profiles NetworkManager holds
    requested,            \* the profile NetworkManager was asked to activate
    ap,                   \* the profile whose access point is on the air
    dns,                  \* the captive dnsmasq fragment exists
    table,                \* onboardd's nftables table exists
    used,                 \* UUIDs drawn so far
    pc,                   \* the step the running call is at
    then,                 \* what the running cleanup continues with
    session,              \* Manager.session # nil (or Start's local session)
    uuid,                 \* session.activation.UUID
    profileRemoved,       \* session.profileRemoved
    dnsRemoved,           \* session.dnsRemoved
    redirectNeedsRemove,  \* Manager.redirectNeedsRemove
    active,               \* Manager.active
    checkpoint,           \* the profile an armed checkpoint protects, or None
    running,              \* a setup transition of this process is under way
    previous,             \* what restorePreviousConnection will look at, or None
    restored              \* ghost: stored profiles that a rollback brought back
                          \* while the manager did not track them

accessPoint == <<profiles, requested, ap, restored>>
environment == <<accessPoint, dns, table>>
sessionVars == <<session, uuid, profileRemoved, dnsRemoved>>
managerVars == <<redirectNeedsRemove, active>>
setupVars == <<checkpoint, running, previous>>
vars == <<profiles, requested, ap, dns, table, used, pc, then, session, uuid,
          profileRemoved, dnsRemoved, redirectNeedsRemove, active, checkpoint,
          running, previous, restored>>

Steps == {"down", "recover_redirect", "recover_profiles", "recover_dns", "idle",
          "dns", "add", "activate", "undo", "confirm", "finalize",
          "redirect", "nft", "c_redirect", "c_profile", "c_dns"}

TypeOK ==
    /\ profiles \in SUBSET used
    /\ requested \in UUIDs \cup {None}
    /\ ap \in UUIDs \cup {None}
    /\ dns \in BOOLEAN
    /\ table \in BOOLEAN
    /\ used \in SUBSET UUIDs
    /\ pc \in Steps
    /\ then \in {"enter", "leave", "fail"}
    /\ session \in BOOLEAN
    /\ uuid \in UUIDs \cup {None}
    /\ profileRemoved \in BOOLEAN
    /\ dnsRemoved \in BOOLEAN
    /\ redirectNeedsRemove \in BOOLEAN
    /\ active \in BOOLEAN
    /\ checkpoint \in used \cup {None}
    /\ running \in BOOLEAN
    /\ previous \in used \cup {None}
    /\ restored \in SUBSET profiles

\* NewManager: nothing is tracked yet, and no transition runs.
NewManager ==
    /\ session' = FALSE
    /\ uuid' = None
    /\ profileRemoved' = TRUE
    /\ dnsRemoved' = FALSE
    /\ redirectNeedsRemove' = FALSE
    /\ active' = FALSE
    /\ then' = "leave"
    /\ running' = FALSE /\ previous' = None

Init ==
    /\ profiles = {} /\ requested = None /\ ap = None /\ dns = FALSE /\ table = FALSE
    /\ used = {}
    /\ pc = "down" /\ then = "leave"
    /\ session = FALSE /\ uuid = None
    /\ profileRemoved = TRUE /\ dnsRemoved = FALSE
    /\ redirectNeedsRemove = FALSE /\ active = FALSE
    /\ checkpoint = None /\ running = FALSE /\ previous = None /\ restored = {}

-----------------------------------------------------------------------------
(* The calls that change the outside world.  done says whether the caller  *)
(* sees success; a failed call may have had its effect.  A definition      *)
(* named mutant_... is a plausible mistake in the definition that follows  *)
(* it; no specification uses it.                                           *)

\* os.Remove of the fragment; an absent file counts as removed.
DNSRemove(done) ==
    /\ dns' \in IF done THEN {FALSE} ELSE {dns}

\* NFTRedirect.Remove: list the tables, delete ours when it is present.
NFTRemove(done) ==
    /\ table' \in IF done THEN {FALSE} ELSE {table, FALSE}

\* Deleting a profile also takes its access point off the air.
Delete(gone) ==
    /\ profiles' = profiles \ gone
    /\ requested' = IF requested \in gone THEN None ELSE requested
    /\ ap' = IF ap \in gone THEN None ELSE ap
    /\ restored' = restored \ gone

\* Activating a profile takes the one that is active off the air.
Activate(u) == requested' = u /\ ap' = None

\* Client.DeleteOwnedProfile; an absent profile counts as deleted.
DeleteOwnedProfile(u, done) ==
    \/ Delete({u})
    \/ ~done /\ UNCHANGED accessPoint

\* deleteSupersededProfiles for the provisioning role: all owned provisioning
\* profiles except the one to keep go, one call each; a failure stops early.
mutant_superseded(keep) == IF keep = None THEN profiles ELSE {}
superseded(keep) == profiles \ {keep}
FinalizeProvisioning(keep, done) ==
    \E gone \in SUBSET superseded(keep) :
        /\ done => gone = superseded(keep)
        /\ Delete(gone)

-----------------------------------------------------------------------------
(* Startup recovery. *)

\* A new process builds its manager and calls Manager.RecoverStartup.
Start ==
    /\ pc = "down"
    /\ pc' = "recover_redirect"
    /\ NewManager
    /\ UNCHANGED <<environment, used, checkpoint>>

\* The three removals are all tried and their errors joined; after an error
\* the command returns and the service manager restarts the process.  then
\* holds "fail" once one of them failed.
RecoverRedirect ==
    /\ pc = "recover_redirect"
    /\ pc' = "recover_profiles"
    /\ \E done \in BOOLEAN :
          /\ NFTRemove(done)
          /\ then' = IF done THEN then ELSE "fail"
    /\ UNCHANGED <<accessPoint, dns, used, sessionVars, managerVars, setupVars>>

RecoverProfiles ==
    /\ pc = "recover_profiles"
    /\ pc' = "recover_dns"
    /\ \E done \in BOOLEAN :
          /\ FinalizeProvisioning(None, done)
          /\ then' = IF done THEN then ELSE "fail"
    /\ UNCHANGED <<dns, table, used, sessionVars, managerVars, setupVars>>

mutant_RecoverDNS ==
    /\ pc = "recover_dns"
    /\ \E done \in BOOLEAN :
          /\ DNSRemove(done)
          /\ pc' = IF done THEN "idle" ELSE "down"
    /\ then' = "leave"
    /\ running' = (running /\ pc' = "idle")
    /\ previous' = IF pc' = "idle" THEN previous ELSE None
    /\ UNCHANGED <<accessPoint, table, used, sessionVars, managerVars, checkpoint>>
RecoverDNS ==
    /\ pc = "recover_dns"
    /\ \E done \in BOOLEAN :
          /\ DNSRemove(done)
          /\ pc' = IF done /\ then # "fail" THEN "idle" ELSE "down"
    /\ then' = "leave"
    /\ running' = (running /\ pc' = "idle")
    /\ previous' = IF pc' = "idle" THEN previous ELSE None
    /\ UNCHANGED <<accessPoint, table, used, sessionVars, managerVars, checkpoint>>

-----------------------------------------------------------------------------
(* Manager.cleanupLocked and ProvisioningSession.Stop. *)

\* A redirect that fails to go stays marked for removal.
CleanupRedirect ==
    /\ pc = "c_redirect"
    /\ pc' = "c_profile"
    /\ \/ /\ ~redirectNeedsRemove
          /\ UNCHANGED <<table, redirectNeedsRemove>>
       \/ /\ redirectNeedsRemove
          /\ \E done \in BOOLEAN :
                /\ NFTRemove(done)
                /\ redirectNeedsRemove' = ~done
    /\ UNCHANGED <<accessPoint, dns, used, then, sessionVars, active, setupVars>>

\* The first half of Stop.
CleanupProfile ==
    /\ pc = "c_profile"
    /\ pc' = "c_dns"
    /\ \/ /\ ~session \/ profileRemoved
          /\ UNCHANGED <<accessPoint, profileRemoved>>
       \/ /\ session /\ ~profileRemoved
          /\ \E done \in BOOLEAN :
                /\ DeleteOwnedProfile(uuid, done)
                /\ profileRemoved' = done
    /\ UNCHANGED <<dns, table, used, then, session, uuid, dnsRemoved,
                   managerVars, setupVars>>

\* The second half of Stop, and where the cleanup's caller goes on.  Stop
\* returns nil, and the session is dropped, only when both steps have
\* succeeded, now or in an earlier attempt.
mutant_stopped(removedDNS) == removedDNS
stopped(removedDNS) == profileRemoved /\ removedDNS

CleanupDNS ==
    /\ pc = "c_dns"
    /\ \/ /\ ~session \/ dnsRemoved
          /\ UNCHANGED <<dns, dnsRemoved>>
       \/ /\ session /\ ~dnsRemoved
          /\ \E done \in BOOLEAN : DNSRemove(done) /\ dnsRemoved' = done
    /\ session' = (session /\ ~stopped(dnsRemoved'))
    /\ uuid' = IF session' THEN uuid ELSE None
    /\ pc' = IF then = "enter" /\ ~session' /\ ~redirectNeedsRemove
               THEN "dns" ELSE "idle"
    /\ UNCHANGED <<accessPoint, table, used, then, profileRemoved, managerVars,
                   setupVars>>

-----------------------------------------------------------------------------
(* Manager.EnterProvisioning and Provisioner.Start. *)

\* The head of EnterProvisioning: no effect when active, otherwise finish an
\* earlier cleanup before anything new is created.
EnterProvisioning ==
    /\ pc = "idle"
    /\ ~active
    /\ then' = "enter"
    /\ pc' = IF session \/ redirectNeedsRemove THEN "c_redirect" ELSE "dns"
    /\ UNCHANGED <<environment, used, sessionVars, managerVars, setupVars>>

\* dns.Install renames a complete file into place, and Start creates the
\* session that will own what follows.  An error leaves nothing behind.
mutant_InstallDNS ==
    /\ pc = "dns"
    /\ \/ /\ dns' \in BOOLEAN
          /\ pc' = "add"
          /\ session' = TRUE
          /\ profileRemoved' = TRUE
          /\ dnsRemoved' = FALSE
       \/ /\ pc' = "idle"
          /\ UNCHANGED <<dns, session, profileRemoved, dnsRemoved>>
    /\ UNCHANGED <<accessPoint, table, used, then, uuid, managerVars, setupVars>>
mutant_InstallDNS_untracked ==
    /\ pc = "dns"
    /\ pc' \in {"add", "idle"}
    /\ dns' = (dns \/ pc' = "add")
    /\ UNCHANGED <<accessPoint, table, used, then, sessionVars, managerVars, setupVars>>
InstallDNS ==
    /\ pc = "dns"
    /\ \/ /\ dns' = TRUE
          /\ pc' = "add"
          /\ session' = TRUE
          /\ profileRemoved' = TRUE
          /\ dnsRemoved' = FALSE
       \/ /\ pc' = "idle"
          /\ UNCHANGED <<dns, session, profileRemoved, dnsRemoved>>
    /\ UNCHANGED <<accessPoint, table, used, then, uuid, managerVars, setupVars>>

\* AddConnection2 inside addAndActivate.  When its reply is lost the profile
\* may exist although the session never learns its UUID.
AddProfile(u) ==
    /\ pc = "add"
    /\ u \notin used
    /\ used' = used \cup {u}
    /\ \/ /\ profiles' = profiles \cup {u}
          /\ pc' = "activate"
          /\ uuid' = u
          /\ UNCHANGED then
       \/ /\ profiles' \in {profiles, profiles \cup {u}}
          /\ pc' = "c_profile"
          /\ then' = "fail"
          /\ UNCHANGED uuid
    /\ UNCHANGED <<requested, ap, restored, dns, table, session, profileRemoved,
                   dnsRemoved, managerVars, setupVars>>

\* ActivateConnection: from here on the session knows the profile, except
\* while addAndActivate undoes a failed activation.
ActivateProfile ==
    /\ pc = "activate"
    /\ \/ /\ uuid \in profiles
          /\ Activate(uuid)
          /\ pc' = "confirm"
          /\ profileRemoved' = FALSE
       \/ /\ \/ uuid \in profiles /\ Activate(uuid)
             \/ UNCHANGED <<requested, ap>>
          /\ pc' = "undo"
          /\ UNCHANGED profileRemoved
    /\ UNCHANGED <<profiles, restored, dns, table, used, then, session, uuid,
                   dnsRemoved, managerVars, setupVars>>

\* addAndActivate deletes the profile it could not activate; if that fails
\* too it returns the UUID with the error, and the session tracks it.
UndoActivation ==
    /\ pc = "undo"
    /\ \E done \in BOOLEAN :
          /\ DeleteOwnedProfile(uuid, done)
          /\ profileRemoved' = done
    /\ pc' = "c_profile"
    /\ then' = "fail"
    /\ UNCHANGED <<dns, table, used, session, uuid, dnsRemoved, managerVars, setupVars>>

\* WaitForActivation, Status and confirmProvisioningAddress.
ConfirmAddress ==
    /\ pc = "confirm"
    /\ \/ ap = uuid /\ pc' = "finalize" /\ UNCHANGED then
       \/ pc' = "c_profile" /\ then' = "fail"
    /\ UNCHANGED <<environment, used, sessionVars, managerVars, setupVars>>

\* FinalizeTransition(provisioning, uuid).  Back in EnterProvisioning the
\* redirect is marked for removal before it is installed.
FinalizeTransition ==
    /\ pc = "finalize"
    /\ \E done \in BOOLEAN :
          /\ FinalizeProvisioning(uuid, done)
          /\ IF done
               THEN /\ pc' = "redirect"
                    /\ redirectNeedsRemove' = TRUE
                    /\ UNCHANGED then
               ELSE /\ pc' = "c_profile"
                    /\ then' = "fail"
                    /\ UNCHANGED redirectNeedsRemove
    /\ UNCHANGED <<dns, table, used, sessionVars, active, setupVars>>

\* NFTRedirect.Install first removes a previous table.
RemovePreviousRedirect ==
    /\ pc = "redirect"
    /\ \E done \in BOOLEAN :
          /\ NFTRemove(done)
          /\ pc' = IF done THEN "nft" ELSE "c_redirect"
          /\ then' = IF done THEN then ELSE "fail"
    /\ UNCHANGED <<accessPoint, dns, used, sessionVars, managerVars, setupVars>>

\* nft -f loads the rules in one transaction.
InstallRedirect ==
    /\ pc = "nft"
    /\ \/ /\ table' = TRUE
          /\ pc' = "idle"
          /\ active' = TRUE
          /\ UNCHANGED then
       \/ /\ table' \in {table, TRUE}
          /\ pc' = "c_redirect"
          /\ then' = "fail"
          /\ UNCHANGED active
    /\ UNCHANGED <<accessPoint, dns, used, sessionVars, redirectNeedsRemove, setupVars>>

-----------------------------------------------------------------------------
(* Manager.LeaveProvisioning. *)

LeaveProvisioning ==
    /\ pc = "idle"
    /\ session \/ redirectNeedsRemove
    /\ active' = FALSE
    /\ then' = "leave"
    /\ pc' = "c_redirect"
    /\ UNCHANGED <<environment, used, sessionVars, redirectNeedsRemove, setupVars>>

-----------------------------------------------------------------------------
(* The environment. *)

\* The process dies; what it tracked is lost, what it created is not.
Crash ==
    /\ pc # "down"
    /\ pc' = "down"
    /\ NewManager
    /\ UNCHANGED <<environment, used, checkpoint>>

\* NetworkManager completes an activation, however late.
APUp ==
    /\ requested # None
    /\ ap' = requested
    /\ requested' = None
    /\ UNCHANGED <<profiles, restored, dns, table, used, pc, then, sessionVars,
                   managerVars, setupVars>>

\* NetworkManager takes the access point down, for a setup candidate too, or
\* gives its activation up.
APLost ==
    /\ ap # None \/ requested # None
    /\ ap' = None
    /\ requested' = None
    /\ UNCHANGED <<profiles, restored, dns, table, used, pc, then, sessionVars,
                   managerVars, setupVars>>

\* NetworkManager restarts and forgets in-memory profiles and checkpoints.
NetworkManagerRestarts ==
    /\ profiles # {} \/ checkpoint # None
    /\ ap' = None
    /\ requested' = None
    /\ profiles' = {} /\ restored' = {}
    /\ checkpoint' = None
    /\ UNCHANGED <<dns, table, used, pc, then, sessionVars, managerVars, running,
                   previous>>

-----------------------------------------------------------------------------
(* A setup transition of recovery/transitions.go, as far as it concerns    *)
(* the access point.  A transition that starts from another connection     *)
(* only ever takes the access point off the air (APLost).                  *)

\* runTransition creates a checkpoint, which snapshots the active connection, be
\* it still on its way up.
CreateCheckpoint ==
    /\ pc # "down" /\ ~running /\ previous = None
    /\ checkpoint = None
    /\ checkpoint' \in {ap, requested} \ {None}
    /\ running' = TRUE
    /\ UNCHANGED <<environment, used, pc, then, sessionVars, managerVars, previous>>

\* CommitCheckpoint, or a rollback that fails: the transition returns at once
\* and the checkpoint stays armed unless it has expired.
TransitionEnds ==
    /\ running
    /\ running' = FALSE
    /\ checkpoint' \in {checkpoint, None}
    /\ UNCHANGED <<environment, used, pc, then, sessionVars, managerVars, previous>>

\* The manager would remove profile u: cleanupLocked, or the undoing of a failed
\* activation that is under way.
tracks(u) == session /\ uuid = u /\ (~profileRemoved \/ pc = "undo")

\* What NetworkManager does to roll back: the profile is added again if it was
\* deleted, and activated.
RestoreSnapshot ==
    /\ checkpoint # None
    /\ profiles' = profiles \cup {checkpoint}
    /\ Activate(checkpoint)
    /\ restored' = restored \cup (IF tracks(checkpoint) THEN {} ELSE {checkpoint})
    /\ checkpoint' = None
    /\ UNCHANGED <<dns, table, used, pc, then, sessionVars, managerVars>>

\* rollbackTransition.  When the reply is lost the previous connection is not
\* looked at.
RollbackCheckpoint ==
    /\ running
    /\ running' = FALSE
    /\ RestoreSnapshot
    /\ previous' \in {checkpoint, None}

\* The rollback timeout of a checkpoint whose transition takes too long, could
\* not roll back, or died with its process.
CheckpointExpires ==
    /\ RestoreSnapshot
    /\ UNCHANGED <<running, previous>>

\* restorePreviousConnection activates the profile unless it is active already;
\* one that is gone cannot be activated.
restorePreviousConnection ==
    /\ previous # None
    /\ previous' = None
    /\ \/ previous \in profiles /\ Activate(previous)
       \/ UNCHANGED <<requested, ap>>
    /\ UNCHANGED <<profiles, restored, dns, table, used, pc, then, sessionVars,
                   managerVars, checkpoint, running>>

Recover == Start \/ RecoverRedirect \/ RecoverProfiles \/ RecoverDNS
Cleanup == CleanupRedirect \/ CleanupProfile \/ CleanupDNS
Enter ==
    \/ EnterProvisioning \/ InstallDNS
    \/ \E u \in UUIDs : AddProfile(u)
    \/ ActivateProfile \/ UndoActivation \/ ConfirmAddress \/ FinalizeTransition
    \/ RemovePreviousRedirect \/ InstallRedirect

Setup ==
    \/ CreateCheckpoint \/ TransitionEnds \/ RollbackCheckpoint \/ CheckpointExpires
    \/ restorePreviousConnection

NetworkManager == APUp \/ APLost \/ NetworkManagerRestarts

Next ==
    \/ Recover \/ Cleanup \/ Enter \/ LeaveProvisioning \/ Crash
    \/ NetworkManager \/ Setup

Spec == Init /\ [][Next]_vars

-----------------------------------------------------------------------------
(* Properties. *)

\* Whenever no call is running, every captive resource that affects clients is
\* remembered for removal: the manager can always take the access point, the
\* wildcard DNS and the redirect down again, whichever steps failed before.  The
\* one exception is an access point that a setup rollback brought back after the
\* manager had removed it.
NothingLeaks ==
    pc = "idle" =>
        /\ table => redirectNeedsRemove
        /\ dns => session /\ ~dnsRemoved
        /\ \A u \in {ap, requested} \ ({None} \cup restored) :
              session /\ ~profileRemoved /\ u = uuid

\* Active captive mode is complete: DNS, redirect and tracked session are all
\* in place, and no other provisioning profile survived, not even one whose
\* AddConnection2 reply was lost in an earlier attempt; only a rollback adds one
\* to it.
ActiveIsComplete ==
    active =>
        /\ pc = "idle"
        /\ dns /\ table /\ redirectNeedsRemove
        /\ session /\ ~profileRemoved /\ ~dnsRemoved
        /\ profiles \subseteq {uuid} \cup restored

\* An activation of an access point, and the rollback steps among them.
Activates == requested' \notin {requested, None}
RollsBack == UNCHANGED pc /\ (checkpoint' # checkpoint \/ previous' # previous)

\* The wildcard DNS fragment exists before an access point is activated: its
\* dnsmasq process only reads the fragment at startup.  This holds of all the
\* manager's own activations, whatever earlier attempts left half cleaned up, and
\* of a rollback as long as no cleanup has removed the fragment.
DNSPrecedesAP ==
    [][Activates => dns \/ (RollsBack /\ (~session \/ dnsRemoved))]_vars

\* A successful startup recovery leaves nothing of a crashed process behind: no
\* table, no fragment, and no provisioning profile except one that the armed
\* checkpoint of that process brings back after the profiles were removed.
RecoveryIsComplete ==
    [][pc = "recover_dns" /\ pc' = "idle" =>
          /\ ~table' /\ ~dns'
          /\ profiles' \subseteq restored'
          /\ {ap', requested'} \subseteq {None} \cup restored']_vars

\* The call that is running, as its caller sees it.
call ==
    CASE pc = "down" -> "down"
      [] pc \in {"recover_redirect", "recover_profiles", "recover_dns"} -> "recover"
      [] pc = "idle" -> "idle"
      [] pc \in {"c_redirect", "c_profile", "c_dns"} /\ then = "leave" -> "leave"
      [] OTHER -> "enter"

\* Something of provisioning mode can be noticed; the manager has something to
\* remove; an access point that a rollback brought back is on the air.
traces == table \/ dns \/ ~({ap, requested} \subseteq {None} \cup restored)
tracked == session \/ redirectNeedsRemove
returned == {ap, requested} \cap restored # {}

Mode == INSTANCE ProvisioningMode WITH entered <- active

\* The manager keeps what its callers rely on, with every partial failure of
\* its calls, every crash and every access point that NetworkManager loses or
\* brings up late: the mode is on only after a complete entry and off as soon
\* as leaving begins, outside startup recovery no trace is ever untracked, and
\* only a rollback, never a call, makes an access point return.
ModeSpec == Mode!Spec
=============================================================================
