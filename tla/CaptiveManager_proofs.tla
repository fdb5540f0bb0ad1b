------------------------ MODULE CaptiveManager_proofs ------------------------
(***************************************************************************)
(* Proofs about CaptiveManager: for every set of UUIDs, and so for every   *)
(* number of provisioning attempts, failures, crashes and restarts, the    *)
(* manager keeps track of everything it has put in place, and implements   *)
(* ProvisioningMode.                                                       *)
(***************************************************************************)
EXTENDS CaptiveManager, TLAPS

\* Steps before startup recovery has finished: resources of a crashed process
\* may exist that the new manager does not track.
Recovering == {"down", "recover_redirect", "recover_profiles", "recover_dns"}

\* Steps of EnterProvisioning at which the session exists and its wildcard DNS
\* is in place, and those at which it tracks its profile.
WithDNS == {"add", "activate", "undo", "confirm", "finalize", "redirect", "nft"}
WithProfile == {"confirm", "finalize", "redirect", "nft"}

\* The redirect is tracked, or startup recovery has still to remove it.
TableInv ==
    /\ table => \/ redirectNeedsRemove
                \/ pc \in {"down", "recover_redirect"}
                \/ pc \in Recovering /\ then = "fail"
    /\ pc \in {"redirect", "nft"} => redirectNeedsRemove
    /\ pc \in Recovering => ~redirectNeedsRemove

\* The fragment is tracked, and it is there while the access point comes up.
\* There is no session before the recovery is done.
DNSInv ==
    /\ pc \in Recovering => ~session
    /\ dns => pc \in Recovering \/ (session /\ ~dnsRemoved)
    /\ session /\ ~dnsRemoved => dns
    /\ pc \in WithDNS => dns

\* A profile that the manager would remove, or that a rollback brought back.
Known(u) == u = None \/ u \in restored \/ tracks(u)

\* The access point belongs to a stored profile, and to the session unless a
\* rollback brought it back; so does the profile that a rolled back transition may
\* still activate.  A session has no profile before it has activated one, and that
\* one is new.
APInv ==
    /\ {ap, requested} \subseteq profiles \cup {None}
    /\ pc \notin Recovering => Known(ap) /\ Known(requested)
    /\ previous \in profiles => Known(previous)
    /\ pc = "dns" => ~session
    /\ pc \in {"add", "activate"} => profileRemoved
    /\ pc = "activate" => uuid \notin restored \cup {checkpoint, None}
    /\ pc \in WithProfile => ~profileRemoved
    /\ pc = "recover_dns" /\ then # "fail" => profiles \subseteq restored

\* Active mode and the last steps on the way to it.
ActiveInv ==
    /\ active => pc = "idle" /\ dns /\ table /\ redirectNeedsRemove
    /\ active => session /\ ~profileRemoved /\ ~dnsRemoved
    /\ active \/ pc \in {"redirect", "nft"} => profiles \subseteq {uuid} \cup restored

\* The inductive invariant.
Inv == TypeOK /\ TableInv /\ DNSInv /\ APInv /\ ActiveInv

-----------------------------------------------------------------------------
\* A fresh manager on a fresh device satisfies the invariant.
LEMMA InitInv == Init => Inv
  BY NoneAssumption DEF Init, Inv, TypeOK, TableInv, DNSInv, APInv, ActiveInv, Steps,
     Recovering, WithDNS, WithProfile

\* Steps that leave the access point and the session's hold on it alone.
LEMMA AccessPointKept ==
    ASSUME Inv, UNCHANGED <<accessPoint, previous, session, uuid, profileRemoved>>,
           pc # "undo", pc' \notin {"undo", "add", "activate", "recover_dns"},
           pc \in Recovering => pc' \in Recovering,
           pc' = "dns" => ~session, pc' \in WithProfile => ~profileRemoved
    PROVE APInv'
  BY DEF Inv, APInv, Known, tracks, accessPoint

\* Steps that delete profiles, none of them while the session relies on it.
LEMMA AccessPointDeleted ==
    ASSUME Inv, NEW gone, Delete(gone), UNCHANGED <<previous, session, uuid>>,
           profileRemoved' = profileRemoved \/ uuid \in gone \/ ~profileRemoved',
           pc = "undo" => uuid \in gone \/ ~profileRemoved',
           pc' \notin {"undo", "dns", "add", "activate", "recover_dns"},
           pc \in Recovering => pc' \in Recovering,
           pc' \in WithProfile => ~profileRemoved'
    PROVE APInv'
<1> USE DEF Inv
<1>1. {ap', requested'} \subseteq profiles' \cup {None}
  BY DEF Delete, APInv
<1>2. ASSUME NEW u, u = None \/ u \notin gone, Known(u)
      PROVE Known(u)'
  BY <1>2 DEF Known, tracks, Delete
<1>3. ap' = None \/ (ap' = ap /\ ap \notin gone)
  BY DEF Delete
<1>4. requested' = None \/ (requested' = requested /\ requested \notin gone)
  BY DEF Delete
<1>5. Known(None)'
  BY DEF Known
<1>6. pc' \notin Recovering => Known(ap)' /\ Known(requested)'
  <2> SUFFICES ASSUME pc' \notin Recovering
               PROVE Known(ap)' /\ Known(requested)'
    OBVIOUS
  <2>1. Known(ap) /\ Known(requested)
    BY DEF APInv
  <2>2. Known(ap)'
    BY <1>2, <1>3, <1>5, <2>1 DEF Known
  <2>3. Known(requested)'
    BY <1>2, <1>4, <1>5, <2>1 DEF Known
  <2> QED BY <2>2, <2>3
<1>7. previous' \in profiles' => Known(previous)'
  BY <1>2 DEF Delete, APInv, Known, tracks
<1> QED BY <1>1, <1>6, <1>7 DEF APInv

\* Startup recovery preserves the invariant.
LEMMA RecoverInv == Inv /\ Recover => Inv'
<1> USE NoneAssumption DEF Inv
<1> SUFFICES ASSUME Inv, Recover PROVE Inv'
  OBVIOUS
<1>1. CASE Start
  <2>1. TypeOK' /\ TableInv' /\ DNSInv' /\ ActiveInv'
    BY <1>1 DEF Start, NewManager, environment, accessPoint, TypeOK, Steps, TableInv,
       DNSInv, ActiveInv, Recovering, WithDNS
  <2>2. APInv'
    BY <1>1 DEF Start, NewManager, environment, accessPoint, TypeOK, APInv, Recovering,
       WithProfile
  <2> QED BY <2>1, <2>2
<1>2. CASE RecoverRedirect
  <2>1. PICK done \in BOOLEAN : NFTRemove(done) /\ then' = IF done THEN then ELSE "fail"
    BY <1>2 DEF RecoverRedirect
  <2>2. /\ pc = "recover_redirect" /\ pc' = "recover_profiles"
        /\ UNCHANGED <<profiles, requested, ap, restored, dns, used, session, uuid,
                       profileRemoved, dnsRemoved, redirectNeedsRemove, active,
                       checkpoint, running, previous>>
    BY <1>2 DEF RecoverRedirect, accessPoint, sessionVars, managerVars, setupVars
  <2>3. TypeOK'
    <3>1. table' \in BOOLEAN /\ then' \in {"enter", "leave", "fail"}
      BY <2>1 DEF NFTRemove, TypeOK
    <3> QED BY <2>2, <3>1 DEF TypeOK, Steps
  <2>4. TableInv'
    BY <2>1, <2>2 DEF NFTRemove, TypeOK, TableInv, Recovering
  <2>5. DNSInv' /\ ActiveInv'
    BY <2>2 DEF DNSInv, ActiveInv, Recovering, WithDNS
  <2>6. APInv'
    BY <2>2, AccessPointKept DEF accessPoint, Recovering, WithProfile
  <2> QED BY <2>3, <2>4, <2>5, <2>6
<1>3. CASE RecoverProfiles
  <2>1. PICK done \in BOOLEAN :
           /\ FinalizeProvisioning(None, done)
           /\ then' = IF done THEN then ELSE "fail"
    BY <1>3 DEF RecoverProfiles
  <2>2. PICK gone \in SUBSET superseded(None) :
           /\ done => gone = superseded(None)
           /\ Delete(gone)
    BY <2>1 DEF FinalizeProvisioning
  <2>3. done => profiles' = {}
    BY <2>2 DEF Delete, superseded, TypeOK
  <2>4. /\ pc = "recover_profiles" /\ pc' = "recover_dns"
        /\ UNCHANGED <<dns, table, used, session, uuid, profileRemoved, dnsRemoved,
                       redirectNeedsRemove, active, checkpoint, running, previous>>
    BY <1>3 DEF RecoverProfiles, sessionVars, managerVars, setupVars
  <2>5. TypeOK'
    BY <2>1, <2>2, <2>4 DEF Delete, TypeOK, Steps
  <2>6. TableInv' /\ DNSInv' /\ ActiveInv'
    BY <2>1, <2>4 DEF TypeOK, TableInv, DNSInv, ActiveInv, Recovering, WithDNS
  <2>7. APInv'
    <3>1. {ap', requested'} \subseteq profiles' \cup {None}
      BY <2>2 DEF Delete, APInv
    <3>2. previous' \in profiles' => Known(previous)'
      BY <2>2, <2>4 DEF Delete, APInv, DNSInv, Recovering, Known, tracks
    <3>3. then' # "fail" => profiles' = {}
      BY <2>1, <2>3
    <3> QED BY <2>4, <3>1, <3>2, <3>3 DEF APInv, Recovering, WithProfile
  <2> QED BY <2>5, <2>6, <2>7
<1>4. CASE RecoverDNS
  <2>1. /\ pc = "recover_dns" /\ pc' \in {"idle", "down"} /\ then' = "leave"
        /\ pc' = "idle" => then # "fail" /\ dns' = FALSE
        /\ dns' \in BOOLEAN /\ running' \in BOOLEAN /\ previous' \in {previous, None}
        /\ UNCHANGED <<profiles, requested, ap, restored, table, used, session, uuid,
                       profileRemoved, dnsRemoved, redirectNeedsRemove, active,
                       checkpoint>>
    BY <1>4 DEF RecoverDNS, DNSRemove, accessPoint, sessionVars, managerVars, TypeOK
  <2>2. TypeOK'
    BY <2>1 DEF TypeOK, Steps
  <2>3. TableInv' /\ DNSInv' /\ ActiveInv'
    BY <2>1 DEF TypeOK, TableInv, DNSInv, ActiveInv, Recovering, WithDNS
  <2>4. APInv'
    <3>1. previous' \in profiles' => Known(previous)'
      BY <2>1 DEF APInv, Known, tracks, TypeOK
    <3>2. pc' = "idle" => Known(ap)' /\ Known(requested)'
      BY <2>1 DEF APInv, Known
    <3> QED BY <2>1, <3>1, <3>2 DEF APInv, Recovering, WithProfile
  <2> QED BY <2>2, <2>3, <2>4
<1>5. QED
  BY <1>1, <1>2, <1>3, <1>4 DEF Recover

\* cleanupLocked preserves the invariant, whichever of its removals fail.
LEMMA CleanupInv == Inv /\ Cleanup => Inv'
<1> USE NoneAssumption DEF Inv
<1> SUFFICES ASSUME Inv, Cleanup PROVE Inv'
  OBVIOUS
<1>1. CASE CleanupRedirect
  <2>1. /\ pc = "c_redirect" /\ pc' = "c_profile"
        /\ UNCHANGED <<profiles, requested, ap, restored, dns, used, then, session, uuid,
                       profileRemoved, dnsRemoved, active, checkpoint, running, previous>>
    BY <1>1 DEF CleanupRedirect, accessPoint, sessionVars, setupVars
  <2>2. /\ table' \in BOOLEAN /\ redirectNeedsRemove' \in BOOLEAN
        /\ table' => redirectNeedsRemove'
    <3>1. CASE ~redirectNeedsRemove
      <4>1. UNCHANGED <<table, redirectNeedsRemove>> /\ table = FALSE
        BY <1>1, <2>1, <3>1 DEF CleanupRedirect, TypeOK, TableInv, Recovering
      <4> QED BY <4>1 DEF TypeOK
    <3>2. CASE redirectNeedsRemove
      <4>1. PICK done \in BOOLEAN : NFTRemove(done) /\ redirectNeedsRemove' = ~done
        BY <1>1, <3>2 DEF CleanupRedirect
      <4>2. CASE done = TRUE
        BY <4>1, <4>2 DEF NFTRemove
      <4>3. CASE done = FALSE
        BY <4>1, <4>3 DEF NFTRemove, TypeOK
      <4> QED BY <4>2, <4>3
    <3> QED BY <3>1, <3>2
  <2>3. TypeOK'
    BY <2>1, <2>2 DEF TypeOK, Steps
  <2>4. TableInv' /\ DNSInv' /\ ActiveInv'
    BY <2>1, <2>2 DEF TableInv, DNSInv, ActiveInv, Recovering, WithDNS
  <2>5. APInv'
    BY <2>1, AccessPointKept DEF accessPoint, Recovering, WithProfile
  <2> QED BY <2>3, <2>4, <2>5
<1>2. CASE CleanupProfile
  <2>1. /\ pc = "c_profile" /\ pc' = "c_dns"
        /\ UNCHANGED <<dns, table, used, then, session, uuid, dnsRemoved,
                       redirectNeedsRemove, active, checkpoint, running, previous>>
    BY <1>2 DEF CleanupProfile, managerVars, setupVars
  <2>2. \/ UNCHANGED <<profiles, requested, ap, restored, profileRemoved>>
        \/ Delete({uuid}) /\ profileRemoved' \in BOOLEAN
    <3>1. CASE ~session \/ profileRemoved
      BY <1>2, <3>1 DEF CleanupProfile, accessPoint, TypeOK
    <3>2. CASE session /\ ~profileRemoved
      <4>1. PICK done \in BOOLEAN : DeleteOwnedProfile(uuid, done) /\ profileRemoved' = done
        BY <1>2, <3>2 DEF CleanupProfile
      <4>2. CASE done = TRUE
        BY <4>1, <4>2 DEF DeleteOwnedProfile
      <4>3. CASE done = FALSE
        BY <3>2, <4>1, <4>3 DEF DeleteOwnedProfile, accessPoint, TypeOK
      <4> QED BY <4>2, <4>3
    <3> QED BY <3>1, <3>2
  <2>3. TypeOK'
    BY <2>1, <2>2 DEF Delete, TypeOK, Steps
  <2>4. TableInv' /\ DNSInv' /\ ActiveInv'
    BY <2>1 DEF TableInv, DNSInv, ActiveInv, Recovering, WithDNS
  <2>5. APInv'
    BY <2>1, <2>2, AccessPointKept, AccessPointDeleted DEF accessPoint, Recovering,
       WithProfile
  <2> QED BY <2>3, <2>4, <2>5
<1>3. CASE CleanupDNS
  <2>1. /\ pc = "c_dns" /\ pc' \in {"dns", "idle"} /\ (pc' = "dns" => ~session')
        /\ session' = (session /\ ~(profileRemoved /\ dnsRemoved'))
        /\ uuid' = IF session' THEN uuid ELSE None
        /\ UNCHANGED <<profiles, requested, ap, restored, table, used, then,
                       profileRemoved, redirectNeedsRemove, active, checkpoint, running,
                       previous>>
    BY <1>3 DEF CleanupDNS, stopped, accessPoint, managerVars, setupVars
  <2>2. /\ dns' \in BOOLEAN /\ dnsRemoved' \in BOOLEAN
        /\ dns' <=> session' /\ ~dnsRemoved'
    <3>1. CASE ~session \/ dnsRemoved
      <4>1. UNCHANGED <<dns, dnsRemoved>>
        BY <1>3, <3>1 DEF CleanupDNS, TypeOK
      <4>2. dns = FALSE
        BY <2>1, <3>1 DEF DNSInv, Recovering, TypeOK
      <4> QED BY <2>1, <3>1, <4>1, <4>2 DEF TypeOK
    <3>2. CASE session /\ ~dnsRemoved
      <4>1. PICK done \in BOOLEAN : DNSRemove(done) /\ dnsRemoved' = done
        BY <1>3, <3>2 DEF CleanupDNS
      <4>2. dns
        BY <3>2 DEF DNSInv
      <4>3. CASE done = TRUE
        BY <4>1, <4>3 DEF DNSRemove
      <4>4. CASE done = FALSE
        BY <2>1, <3>2, <4>1, <4>2, <4>4 DEF DNSRemove, TypeOK
      <4> QED BY <4>3, <4>4
    <3> QED BY <3>1, <3>2
  <2>3. TypeOK'
    BY <2>1, <2>2 DEF TypeOK, Steps
  <2>4. TableInv' /\ DNSInv' /\ ActiveInv'
    BY <2>1, <2>2 DEF TableInv, DNSInv, ActiveInv, Recovering, WithDNS
  <2>5. APInv'
    <3>1. ASSUME NEW u, Known(u)
          PROVE Known(u)'
      BY <2>1, <3>1 DEF Known, tracks
    <3> QED BY <2>1, <3>1 DEF APInv, Recovering, WithProfile
  <2> QED BY <2>3, <2>4, <2>5
<1>4. QED
  BY <1>1, <1>2, <1>3 DEF Cleanup

\* Every step of EnterProvisioning preserves the invariant.
LEMMA EnterInv == Inv /\ Enter => Inv'
<1> USE NoneAssumption DEF Inv
<1> SUFFICES ASSUME Inv, Enter PROVE Inv'
  OBVIOUS
<1>1. CASE EnterProvisioning
  <2>1. /\ pc = "idle" /\ pc' \in {"c_redirect", "dns"} /\ (pc' = "dns" => ~session)
        /\ then' = "enter" /\ ~active
        /\ UNCHANGED <<profiles, requested, ap, restored, dns, table, used, session, uuid,
                       profileRemoved, dnsRemoved, redirectNeedsRemove, active,
                       checkpoint, running, previous>>
    BY <1>1 DEF EnterProvisioning, environment, accessPoint, sessionVars, managerVars,
       setupVars
  <2>2. TypeOK'
    BY <2>1 DEF TypeOK, Steps
  <2>3. TableInv' /\ DNSInv' /\ ActiveInv'
    BY <2>1 DEF TableInv, DNSInv, ActiveInv, Recovering, WithDNS
  <2>4. APInv'
    BY <2>1, AccessPointKept DEF accessPoint, Recovering, WithProfile
  <2> QED BY <2>2, <2>3, <2>4
<1>2. CASE InstallDNS
  <2>1. /\ pc = "dns"
        /\ UNCHANGED <<profiles, requested, ap, restored, table, used, then, uuid,
                       redirectNeedsRemove, active, checkpoint, running, previous>>
        /\ \/ pc' = "idle" /\ UNCHANGED <<dns, session, profileRemoved, dnsRemoved>>
           \/ /\ pc' = "add" /\ dns' = TRUE /\ session' = TRUE
              /\ profileRemoved' = TRUE /\ dnsRemoved' = FALSE
    BY <1>2 DEF InstallDNS, accessPoint, managerVars, setupVars
  <2>2. TypeOK'
    <3>1. /\ dns' \in BOOLEAN /\ session' \in BOOLEAN
          /\ profileRemoved' \in BOOLEAN /\ dnsRemoved' \in BOOLEAN
      BY <2>1 DEF TypeOK
    <3> QED BY <2>1, <3>1 DEF TypeOK, Steps
  <2>3. TableInv' /\ DNSInv' /\ ActiveInv'
    BY <2>1 DEF TableInv, DNSInv, ActiveInv, Recovering, WithDNS
  <2>4. APInv'
    <3>1. ASSUME NEW u, Known(u)
          PROVE Known(u)'
      BY <2>1, <3>1 DEF Known, tracks, APInv
    <3> QED BY <2>1, <3>1 DEF APInv, Recovering, WithProfile
  <2> QED BY <2>2, <2>3, <2>4
<1>3. ASSUME NEW u \in UUIDs, AddProfile(u) PROVE Inv'
  <2>1. /\ pc = "add" /\ pc' \in {"activate", "c_profile"} /\ then' \in {then, "fail"}
        /\ profiles' \in {profiles, profiles \cup {u}} /\ used' = used \cup {u}
        /\ uuid' \in {uuid, u} /\ (pc' = "activate" => uuid' = u)
        /\ UNCHANGED <<requested, ap, restored, dns, table, session, profileRemoved,
                       dnsRemoved, redirectNeedsRemove, active, checkpoint, running,
                       previous>>
        /\ u \notin used
    BY <1>3 DEF AddProfile, managerVars, setupVars
  <2>2. TypeOK'
    BY <2>1 DEF TypeOK, Steps
  <2>3. TableInv' /\ DNSInv' /\ ActiveInv'
    BY <2>1 DEF TableInv, DNSInv, ActiveInv, Recovering, WithDNS
  <2>4. APInv'
    <3>1. ASSUME NEW v, Known(v)
          PROVE Known(v)'
      BY <2>1, <3>1 DEF Known, tracks, APInv
    <3>2. previous # u /\ u \notin restored \cup {checkpoint, None}
      BY <2>1 DEF TypeOK
    <3> QED BY <2>1, <3>1, <3>2 DEF APInv, Recovering, WithProfile
  <2> QED BY <2>2, <2>3, <2>4
<1>4. CASE ActivateProfile
  <2>1. /\ pc = "activate" /\ pc' \in {"confirm", "undo"} /\ session
        /\ profileRemoved' = (profileRemoved /\ pc' = "undo")
        /\ \/ uuid \in profiles /\ requested' = uuid /\ ap' = None
           \/ pc' = "undo" /\ UNCHANGED <<requested, ap>>
        /\ UNCHANGED <<profiles, restored, dns, table, used, then, session, uuid,
                       dnsRemoved, redirectNeedsRemove, active, checkpoint, running,
                       previous>>
    BY <1>4 DEF ActivateProfile, Activate, managerVars, setupVars, DNSInv, WithDNS,
       Recovering, TypeOK
  <2>2. TypeOK'
    BY <2>1 DEF TypeOK, Steps
  <2>3. TableInv' /\ DNSInv' /\ ActiveInv'
    BY <2>1 DEF TableInv, DNSInv, ActiveInv, Recovering, WithDNS
  <2>4. APInv'
    <3>1. ASSUME NEW v, Known(v)
          PROVE Known(v)'
      BY <2>1, <3>1 DEF Known, tracks, APInv
    <3>2. Known(uuid)' /\ Known(None)'
      BY <2>1 DEF Known, tracks
    <3> QED BY <2>1, <3>1, <3>2 DEF APInv, Recovering, WithProfile
  <2> QED BY <2>2, <2>3, <2>4
<1>5. CASE UndoActivation
  <2>1. /\ pc = "undo" /\ pc' = "c_profile" /\ then' = "fail"
        /\ UNCHANGED <<dns, table, used, session, uuid, dnsRemoved,
                       redirectNeedsRemove, active, checkpoint, running, previous>>
    BY <1>5 DEF UndoActivation, managerVars, setupVars
  <2>2. \/ Delete({uuid}) /\ profileRemoved' \in BOOLEAN
        \/ UNCHANGED <<profiles, requested, ap, restored>> /\ profileRemoved' = FALSE
    BY <1>5 DEF UndoActivation, DeleteOwnedProfile, accessPoint
  <2>3. TypeOK'
    <3>1. profileRemoved' \in BOOLEAN
      BY <2>2
    <3> QED BY <2>1, <2>2, <3>1 DEF Delete, TypeOK, Steps
  <2>4. TableInv' /\ DNSInv' /\ ActiveInv'
    BY <2>1 DEF TableInv, DNSInv, ActiveInv, Recovering, WithDNS
  <2>5. APInv'
    <3>1. CASE Delete({uuid})
      BY <2>1, <2>2, <3>1, AccessPointDeleted DEF Recovering, WithProfile
    <3>2. CASE UNCHANGED <<profiles, requested, ap, restored>> /\ profileRemoved' = FALSE
      <4>1. ASSUME NEW v, Known(v)
            PROVE Known(v)'
        BY <2>1, <3>2, <4>1 DEF Known, tracks
      <4> QED BY <2>1, <3>2, <4>1 DEF APInv, Recovering, WithProfile
    <3> QED BY <2>2, <3>1, <3>2
  <2> QED BY <2>3, <2>4, <2>5
<1>6. CASE ConfirmAddress
  <2>1. /\ pc = "confirm" /\ pc' \in {"finalize", "c_profile"} /\ then' \in {then, "fail"}
        /\ UNCHANGED <<profiles, requested, ap, restored, dns, table, used, session, uuid,
                       profileRemoved, dnsRemoved, redirectNeedsRemove, active,
                       checkpoint, running, previous>>
    BY <1>6 DEF ConfirmAddress, environment, accessPoint, sessionVars, managerVars,
       setupVars
  <2>2. TypeOK'
    BY <2>1 DEF TypeOK, Steps
  <2>3. TableInv' /\ DNSInv' /\ ActiveInv'
    BY <2>1 DEF TableInv, DNSInv, ActiveInv, Recovering, WithDNS
  <2>4. ~profileRemoved
    BY <2>1 DEF APInv, WithProfile
  <2>5. APInv'
    BY <2>1, <2>4, AccessPointKept DEF accessPoint, Recovering, WithProfile
  <2> QED BY <2>2, <2>3, <2>5
<1>7. CASE FinalizeTransition
  <2>1. PICK done \in BOOLEAN :
           /\ FinalizeProvisioning(uuid, done)
           /\ IF done
                THEN /\ pc' = "redirect"
                     /\ redirectNeedsRemove' = TRUE
                     /\ UNCHANGED then
                ELSE /\ pc' = "c_profile"
                     /\ then' = "fail"
                     /\ UNCHANGED redirectNeedsRemove
    BY <1>7 DEF FinalizeTransition
  <2>2. PICK gone \in SUBSET superseded(uuid) :
           /\ done => gone = superseded(uuid)
           /\ Delete(gone)
    BY <2>1 DEF FinalizeProvisioning
  <2>3. done => profiles' \subseteq {uuid}
    BY <2>2 DEF Delete, superseded
  <2>4. /\ pc = "finalize"
        /\ UNCHANGED <<dns, table, used, session, uuid, profileRemoved, dnsRemoved,
                       active, checkpoint, running, previous>>
    BY <1>7 DEF FinalizeTransition, sessionVars, setupVars
  <2>5. TypeOK'
    <3>1. /\ redirectNeedsRemove' \in BOOLEAN /\ pc' \in {"redirect", "c_profile"}
          /\ then' \in {"enter", "leave", "fail"}
      BY <2>1 DEF TypeOK
    <3> QED BY <2>2, <2>4, <3>1 DEF Delete, TypeOK, Steps
  <2>6. TableInv' /\ DNSInv' /\ ActiveInv'
    BY <2>1, <2>3, <2>4 DEF TypeOK, TableInv, DNSInv, ActiveInv, Recovering, WithDNS
  <2>7. ~profileRemoved
    BY <2>4 DEF APInv, WithProfile
  <2>8. APInv'
    BY <2>1, <2>2, <2>4, <2>7, AccessPointDeleted DEF Recovering, WithProfile
  <2> QED BY <2>5, <2>6, <2>8
<1>8. CASE RemovePreviousRedirect
  <2>1. /\ pc = "redirect" /\ pc' \in {"nft", "c_redirect"} /\ then' \in {then, "fail"}
        /\ table' \in {table, FALSE}
        /\ UNCHANGED <<profiles, requested, ap, restored, dns, used, session, uuid,
                       profileRemoved, dnsRemoved, redirectNeedsRemove, active,
                       checkpoint, running, previous>>
    BY <1>8 DEF RemovePreviousRedirect, NFTRemove, accessPoint, sessionVars, managerVars,
       setupVars
  <2>2. TypeOK'
    <3>1. table' \in BOOLEAN /\ then' \in {"enter", "leave", "fail"}
      BY <2>1 DEF TypeOK
    <3> QED BY <2>1, <3>1 DEF TypeOK, Steps
  <2>3. TableInv' /\ DNSInv' /\ ActiveInv'
    BY <2>1 DEF TypeOK, TableInv, DNSInv, ActiveInv, Recovering, WithDNS
  <2>4. ~profileRemoved
    BY <2>1 DEF APInv, WithProfile
  <2>5. APInv'
    BY <2>1, <2>4, AccessPointKept DEF accessPoint, Recovering, WithProfile
  <2> QED BY <2>2, <2>3, <2>5
<1>9. CASE InstallRedirect
  <2>1. redirectNeedsRemove /\ session /\ ~profileRemoved /\ dns /\ ~dnsRemoved
        /\ profiles \subseteq {uuid} \cup restored
    BY <1>9 DEF InstallRedirect, TableInv, DNSInv, APInv, ActiveInv, Recovering,
       WithDNS, WithProfile
  <2>2. /\ pc = "nft" /\ table' \in BOOLEAN /\ then' \in {then, "fail"}
        /\ \/ pc' = "idle" /\ active' = TRUE /\ table' = TRUE
           \/ pc' = "c_redirect" /\ active' = active
        /\ UNCHANGED <<profiles, requested, ap, restored, dns, used, session, uuid,
                       profileRemoved, dnsRemoved, redirectNeedsRemove, checkpoint,
                       running, previous>>
    BY <1>9 DEF InstallRedirect, accessPoint, sessionVars, setupVars, TypeOK
  <2>3. TypeOK'
    <3>1. active' \in BOOLEAN /\ then' \in {"enter", "leave", "fail"}
      BY <2>2 DEF TypeOK
    <3> QED BY <2>2, <3>1 DEF TypeOK, Steps
  <2>4. TableInv' /\ DNSInv' /\ ActiveInv'
    BY <2>1, <2>2 DEF TableInv, DNSInv, ActiveInv, Recovering, WithDNS
  <2>5. APInv'
    BY <2>1, <2>2, AccessPointKept DEF accessPoint, Recovering, WithProfile
  <2> QED BY <2>3, <2>4, <2>5
<1>10. QED
  BY <1>1, <1>2, <1>3, <1>4, <1>5, <1>6, <1>7, <1>8, <1>9 DEF Enter

\* A rollback brings the access point back as the session's, or as a restored one.
LEMMA SetupInv == Inv /\ Setup => Inv'
<1> USE NoneAssumption DEF Inv
<1> SUFFICES ASSUME Inv, Setup PROVE Inv'
  OBVIOUS
<1>1. CASE CreateCheckpoint \/ TransitionEnds
  <2>1. TypeOK'
    <3>1. running' \in BOOLEAN
      BY <1>1 DEF CreateCheckpoint, TransitionEnds
    <3>2. checkpoint' \in used \cup {None}
      BY <1>1 DEF CreateCheckpoint, TransitionEnds, TypeOK, APInv
    <3> QED BY <1>1, <3>1, <3>2 DEF CreateCheckpoint, TransitionEnds, environment,
            accessPoint, sessionVars, managerVars, TypeOK
  <2>2. TableInv' /\ DNSInv' /\ ActiveInv'
    BY <1>1 DEF CreateCheckpoint, TransitionEnds, environment, accessPoint, sessionVars,
       managerVars, TableInv, DNSInv, ActiveInv
  <2>3. APInv'
    <3>1. pc = "activate" => uuid \notin restored \cup {checkpoint', None}
      BY <1>1 DEF CreateCheckpoint, TransitionEnds, APInv, Known, tracks, Recovering
    <3>2. UNCHANGED <<profiles, requested, ap, restored, pc, then, session, uuid,
                      profileRemoved, previous>>
      BY <1>1 DEF CreateCheckpoint, TransitionEnds, environment, accessPoint, sessionVars
    <3>3. \A u : Known(u)' <=> Known(u)
      BY <3>2 DEF Known, tracks
    <3> QED BY <3>1, <3>2, <3>3 DEF APInv
  <2> QED BY <2>1, <2>2, <2>3
<1>2. ASSUME RestoreSnapshot, running' \in BOOLEAN,
             previous' \in {previous, checkpoint, None}
      PROVE  Inv'
  <2>1. /\ checkpoint \in used /\ profiles' = profiles \cup {checkpoint}
        /\ requested' = checkpoint /\ ap' = None /\ checkpoint' = None
        /\ restored' = restored \cup (IF tracks(checkpoint) THEN {} ELSE {checkpoint})
        /\ UNCHANGED <<dns, table, used, pc, then, sessionVars, managerVars>>
    BY <1>2 DEF RestoreSnapshot, Activate, TypeOK
  <2>2. TypeOK'
    BY <1>2, <2>1 DEF sessionVars, managerVars, TypeOK
  <2>3. TableInv' /\ DNSInv'
    BY <2>1 DEF sessionVars, managerVars, TableInv, DNSInv
  <2>4. \A u : tracks(u)' = tracks(u)
    BY <2>1 DEF tracks, sessionVars
  <2>5. Known(checkpoint)' /\ \A u : Known(u) => Known(u)'
    BY <2>1, <2>4 DEF Known
  <2>6. /\ {ap', requested'} \subseteq profiles' \cup {None} /\ Known(None)'
        /\ previous' \in profiles' => Known(previous)'
    BY <1>2, <2>1, <2>5 DEF APInv, Known, TypeOK
  <2>7. pc = "recover_dns" /\ then # "fail" => profiles' \subseteq restored'
    BY <2>1 DEF APInv, DNSInv, Recovering, tracks
  <2>8. APInv'
    <3>1. Known(ap)' /\ Known(requested)'
      BY <2>1, <2>5, <2>6 DEF Known
    <3>2. pc = "activate" => uuid \notin restored' \cup {checkpoint', None}
      BY <2>1 DEF APInv
    <3> QED BY <2>1, <2>6, <2>7, <3>1, <3>2 DEF APInv, sessionVars
  <2>9. ActiveInv'
    BY <2>1 DEF ActiveInv, tracks, sessionVars, managerVars
  <2> QED BY <2>2, <2>3, <2>8, <2>9
<1>3. CASE RollbackCheckpoint
  BY <1>2, <1>3 DEF RollbackCheckpoint
<1>4. CASE CheckpointExpires
  BY <1>2, <1>4 DEF CheckpointExpires, TypeOK
<1>5. CASE restorePreviousConnection
  <2>1. TypeOK' /\ TableInv' /\ DNSInv' /\ ActiveInv'
    BY <1>5 DEF restorePreviousConnection, Activate, sessionVars, managerVars, TypeOK,
       TableInv, DNSInv, ActiveInv
  <2>2. APInv'
    BY <1>5 DEF restorePreviousConnection, Activate, sessionVars, managerVars, TypeOK,
       APInv, Known, tracks
  <2> QED BY <2>1, <2>2
<1> QED BY <1>1, <1>3, <1>4, <1>5 DEF Setup

\* Every step, a crash and NetworkManager's own included, preserves the invariant.
LEMMA NextInv == Inv /\ [Next]_vars => Inv'
<1> USE NoneAssumption DEF Inv
<1> SUFFICES ASSUME Inv, [Next]_vars PROVE Inv'
  OBVIOUS
<1>1. CASE LeaveProvisioning
  <2>1. /\ pc = "idle" /\ pc' = "c_redirect" /\ active' = FALSE /\ then' = "leave"
        /\ UNCHANGED <<profiles, requested, ap, restored, dns, table, used, session, uuid,
                       profileRemoved, dnsRemoved, redirectNeedsRemove, checkpoint,
                       running, previous>>
    BY <1>1 DEF LeaveProvisioning, environment, accessPoint, sessionVars, setupVars
  <2>2. TypeOK'
    <3>1. active' \in BOOLEAN
      BY <2>1
    <3> QED BY <2>1, <3>1 DEF TypeOK, Steps
  <2>3. TableInv' /\ DNSInv' /\ ActiveInv'
    BY <2>1 DEF TableInv, DNSInv, ActiveInv, Recovering, WithDNS
  <2>4. APInv'
    BY <2>1, AccessPointKept DEF accessPoint, Recovering, WithProfile
  <2> QED BY <2>2, <2>3, <2>4
<1>2. CASE Crash
  <2>1. TypeOK' /\ TableInv' /\ DNSInv' /\ ActiveInv'
    BY <1>2 DEF Crash, NewManager, environment, accessPoint, TypeOK, Steps, TableInv,
       DNSInv, ActiveInv, Recovering, WithDNS
  <2>2. APInv'
    BY <1>2 DEF Crash, NewManager, environment, accessPoint, TypeOK, APInv, Recovering,
       WithProfile
  <2> QED BY <2>1, <2>2
<1>3. CASE NetworkManager
  <2>1. TypeOK' /\ TableInv' /\ DNSInv' /\ ActiveInv'
    BY <1>3 DEF NetworkManager, APUp, APLost, NetworkManagerRestarts, sessionVars,
       managerVars, setupVars, TypeOK, TableInv, DNSInv, ActiveInv
  <2>2. CASE APUp \/ APLost
    <3>1. /\ ap' \in {requested, None} /\ requested' = None
          /\ UNCHANGED <<profiles, restored, pc, then, session, uuid, profileRemoved,
                         checkpoint, previous>>
      BY <2>2 DEF APUp, APLost, sessionVars, setupVars
    <3>2. Known(None)' /\ \A u : Known(u)' <=> Known(u)
      BY <3>1 DEF Known, tracks
    <3>3. APInv'
      BY <3>1, <3>2 DEF APInv
    <3> QED BY <2>1, <3>3
  <2>3. CASE NetworkManagerRestarts
    <3>1. APInv'
      BY <2>3 DEF NetworkManagerRestarts, sessionVars, managerVars, TypeOK, APInv, Known
    <3> QED BY <2>1, <3>1
  <2> QED BY <1>3, <2>2, <2>3 DEF NetworkManager
<1>4. CASE Setup
  BY <1>4, SetupInv
<1>5. CASE UNCHANGED vars
  BY <1>5 DEF vars, TypeOK, TableInv, DNSInv, APInv, Known, tracks, ActiveInv
<1>6. QED
  BY <1>1, <1>2, <1>3, <1>4, <1>5, RecoverInv, CleanupInv, EnterInv DEF Next

\* The invariant holds throughout.
THEOREM Invariance == Spec => []Inv
  BY InitInv, NextInv, PTL DEF Spec

-----------------------------------------------------------------------------
\* Type correctness of the captive manager and its resources.
THEOREM TypeCorrect == Spec => []TypeOK
<1>1. Inv => TypeOK
  BY DEF Inv
<1>2. QED
  BY <1>1, Invariance, PTL

\* Whenever no call runs, every captive resource is remembered for removal, except an
\* access point that a rollback brought back behind the manager's back.
THEOREM ResourcesTracked == Spec => []NothingLeaks
<1>1. Inv => NothingLeaks
  <2> SUFFICES ASSUME Inv, pc = "idle"
               PROVE  /\ table => redirectNeedsRemove
                      /\ dns => session /\ ~dnsRemoved
                      /\ \A u \in {ap, requested} \ ({None} \cup restored) :
                            session /\ ~profileRemoved /\ u = uuid
    BY DEF NothingLeaks
  <2>1. table => redirectNeedsRemove
    BY DEF Inv, TableInv, Recovering
  <2>2. dns => session /\ ~dnsRemoved
    BY DEF Inv, DNSInv, Recovering
  <2>3. Known(ap) /\ Known(requested)
    BY DEF Inv, APInv, Recovering
  <2> QED BY <2>1, <2>2, <2>3 DEF Known, tracks
<1>2. QED
  BY <1>1, Invariance, PTL

\* Active captive mode is complete, and has no second profile but a restored one.
THEOREM ActiveComplete == Spec => []ActiveIsComplete
<1>1. Inv => ActiveIsComplete
  BY DEF Inv, ActiveInv, ActiveIsComplete
<1>2. QED
  BY <1>1, Invariance, PTL

\* The manager never activates an access point before its wildcard DNS is in place, and
\* neither does a rollback while the session still has its fragment.
THEOREM DNSBeforeAP == Spec => DNSPrecedesAP
<1>1. Inv /\ [Next]_vars =>
        [Activates => dns \/ (RollsBack /\ (~session \/ dnsRemoved))]_vars
  <2> SUFFICES ASSUME Inv, Next, Activates
               PROVE  dns \/ (RollsBack /\ (~session \/ dnsRemoved))
    OBVIOUS
  <2> USE DEF Activates
  <2>1. CASE ActivateProfile
    BY <2>1 DEF ActivateProfile, Inv, DNSInv, WithDNS
  <2>2. ASSUME NEW gone, Delete(gone)
        PROVE  FALSE
    BY <2>2 DEF Delete
  <2>3. CASE Enter /\ ~ActivateProfile
    BY <2>2, <2>3 DEF Enter, EnterProvisioning, InstallDNS, AddProfile, UndoActivation,
       ConfirmAddress, FinalizeTransition, RemovePreviousRedirect, InstallRedirect,
       DeleteOwnedProfile, FinalizeProvisioning, environment, accessPoint
  <2>4. CASE Recover \/ Cleanup
    BY <2>2, <2>4 DEF Recover, Start, RecoverRedirect, RecoverProfiles, RecoverDNS,
       Cleanup, CleanupRedirect, CleanupProfile, CleanupDNS, DeleteOwnedProfile,
       FinalizeProvisioning, environment, accessPoint
  <2>5. CASE LeaveProvisioning \/ Crash \/ NetworkManager
    BY <2>5 DEF LeaveProvisioning, Crash, NetworkManager, APUp, APLost,
       NetworkManagerRestarts, environment, accessPoint
  <2>6. CASE Setup
    <3>1. RollsBack
      BY <2>6 DEF Setup, CreateCheckpoint, TransitionEnds, RollbackCheckpoint,
         CheckpointExpires, RestoreSnapshot, restorePreviousConnection, RollsBack,
         environment, accessPoint
    <3>2. session /\ ~dnsRemoved => dns
      BY DEF Inv, DNSInv
    <3> QED BY <3>1, <3>2 DEF Inv, TypeOK
  <2>7. QED
    BY <2>1, <2>3, <2>4, <2>5, <2>6 DEF Next
<1>2. QED
  BY <1>1, Invariance, PTL DEF Spec, DNSPrecedesAP

\* A startup recovery that reports success has removed everything, except what the dead
\* process's checkpoint brought back meanwhile.
THEOREM RecoveryComplete == Spec => RecoveryIsComplete
<1>1. Inv /\ Inv' /\ [Next]_vars =>
        [pc = "recover_dns" /\ pc' = "idle" =>
          /\ ~table' /\ ~dns'
          /\ profiles' \subseteq restored'
          /\ {ap', requested'} \subseteq {None} \cup restored']_vars
  <2> SUFFICES ASSUME Inv, Inv', Next, pc = "recover_dns", pc' = "idle"
               PROVE  /\ ~table' /\ ~dns'
                      /\ profiles' \subseteq restored'
                      /\ {ap', requested'} \subseteq {None} \cup restored'
    OBVIOUS
  <2>1. RecoverDNS
    <3>1. ~Setup /\ ~NetworkManager
      BY DEF Setup, CreateCheckpoint, TransitionEnds, RollbackCheckpoint,
         CheckpointExpires, RestoreSnapshot, restorePreviousConnection, NetworkManager,
         APUp, APLost, NetworkManagerRestarts
    <3>2. ~Enter
      BY DEF Enter, EnterProvisioning, InstallDNS, AddProfile, ActivateProfile,
         UndoActivation, ConfirmAddress, FinalizeTransition, RemovePreviousRedirect,
         InstallRedirect
    <3> QED BY <3>1, <3>2 DEF Next, Recover, Start, RecoverRedirect, RecoverProfiles,
         Cleanup, CleanupRedirect, CleanupProfile, CleanupDNS, LeaveProvisioning, Crash
  <2>2. /\ then # "fail" /\ ~dns'
        /\ UNCHANGED <<profiles, requested, ap, restored, table, session,
                       redirectNeedsRemove>>
    BY <2>1 DEF RecoverDNS, DNSRemove, accessPoint, sessionVars, managerVars
  <2>3. /\ profiles' \subseteq restored'
        /\ {ap', requested'} \subseteq {None} \cup restored'
    BY <2>2 DEF Inv, APInv
  <2>4. ~table'
    BY <2>2 DEF Inv, TableInv, Recovering
  <2>5. QED
    BY <2>2, <2>3, <2>4
<1>2. QED
  BY <1>1, Invariance, PTL DEF Spec, RecoveryIsComplete

-----------------------------------------------------------------------------
(* The captive manager implements ProvisioningMode. *)

\* Outside startup recovery every trace is tracked, and in the mode there are some.
Tracking ==
    /\ pc \notin Recovering => (traces => tracked)
    /\ active => pc = "idle" /\ traces /\ tracked

LEMMA TracesTracked == Inv => Tracking
<1> SUFFICES ASSUME Inv
             PROVE Tracking
  OBVIOUS
<1>1. pc \notin Recovering /\ ~({ap, requested} \subseteq {None} \cup restored) => session
  BY DEF Inv, APInv, Known, tracks
<1>2. pc \notin Recovering => (table \/ dns => tracked)
  BY DEF Inv, TableInv, DNSInv, Recovering, tracked
<1>3. active => pc = "idle" /\ traces /\ tracked
  BY DEF Inv, ActiveInv, traces, tracked
<1> QED BY <1>1, <1>2, <1>3 DEF Tracking, traces, tracked

LEMMA TracesStayTracked == Inv' => Tracking'
<1> SUFFICES ASSUME Inv'
             PROVE Tracking'
  OBVIOUS
<1>1. pc' \notin Recovering /\ ~({ap', requested'} \subseteq {None} \cup restored')
        => session'
  BY DEF Inv, APInv, Known, tracks
<1>2. pc' \notin Recovering => (table' \/ dns' => tracked')
  BY DEF Inv, TableInv, DNSInv, Recovering, tracked
<1>3. active' => pc' = "idle" /\ traces' /\ tracked'
  BY DEF Inv, ActiveInv, traces, tracked
<1> QED BY <1>1, <1>2, <1>3 DEF Tracking, traces, tracked

ModeStep == [Mode!Next]_<<call, active, traces, tracked, returned>>

\* Deleting profiles makes neither a trace nor a returned access point.
LEMMA DeleteFades ==
    ASSUME Inv, NEW gone, Delete(gone)
    PROVE /\ \/ {ap', requested'} \subseteq {None} \cup restored'
             \/ ~({ap, requested} \subseteq {None} \cup restored)
          /\ returned' => returned
<1>1. /\ ap' = None \/ (ap' = ap /\ ap \notin gone)
      /\ requested' = None \/ (requested' = requested /\ requested \notin gone)
      /\ restored' = restored \ gone
  BY DEF Delete
<1>2. None \notin restored
  BY NoneAssumption DEF Inv, TypeOK
<1> QED BY <1>1, <1>2 DEF returned

\* Steps of the manager that may only remove.
LEMMA RemovalFades ==
    ASSUME Inv, Recover \/ Cleanup
    PROVE /\ traces' => traces
          /\ returned' => returned
<1>1. ASSUME UNCHANGED accessPoint, dns' => dns, table' => table
      PROVE  (traces' => traces) /\ (returned' => returned)
  BY <1>1 DEF accessPoint, traces, returned
<1>2. ASSUME NEW gone, Delete(gone), UNCHANGED <<dns, table>>
      PROVE  (traces' => traces) /\ (returned' => returned)
  BY <1>2, DeleteFades DEF traces
<1>3. CASE Start \/ RecoverRedirect \/ RecoverDNS
  BY <1>1, <1>3 DEF Start, RecoverRedirect, RecoverDNS, NFTRemove, DNSRemove, environment
<1>4. CASE RecoverProfiles
  BY <1>2, <1>4 DEF RecoverProfiles, FinalizeProvisioning
<1>5. CASE CleanupRedirect \/ CleanupDNS
  BY <1>1, <1>5 DEF CleanupRedirect, CleanupDNS, NFTRemove, DNSRemove
<1>6. CASE CleanupProfile
  BY <1>1, <1>2, <1>6 DEF CleanupProfile, DeleteOwnedProfile
<1> QED BY <1>3, <1>4, <1>5, <1>6 DEF Recover, Cleanup

LEMMA RecoverMode ==
    ASSUME Inv, Inv', Recover
    PROVE ModeStep
<1>1. /\ TypeOK /\ TypeOK' /\ active = FALSE /\ active' = FALSE
      /\ pc \in Recovering /\ ~session /\ ~redirectNeedsRemove
  BY DEF Recover, Start, NewManager, RecoverRedirect, RecoverProfiles, RecoverDNS, Inv,
     ActiveInv, DNSInv, TableInv, Recovering, managerVars, TypeOK
<1>2. tracked' = FALSE /\ tracked = FALSE
  BY <1>1 DEF Recover, Start, NewManager, RecoverRedirect, RecoverProfiles, RecoverDNS,
     tracked, sessionVars, managerVars
<1>3. (traces' => traces) /\ (returned' => returned)
  BY RemovalFades
<1>4. CASE Start
  <2>1. call = "down" /\ call' = "recover"
    BY <1>4 DEF Start, call
  <2>2. traces' = traces /\ returned' = returned
    BY <1>4 DEF Start, traces, returned, environment, accessPoint
  <2> QED BY <1>1, <1>2, <2>1, <2>2 DEF ModeStep, Mode!Next, Mode!BeginRecovery
<1>5. CASE RecoverRedirect \/ RecoverProfiles
  <2>1. call = "recover" /\ call' = "recover"
    BY <1>5 DEF RecoverRedirect, RecoverProfiles, call
  <2>2. Mode!Recovers
    BY <1>1, <1>2, <1>3, <2>1 DEF Mode!Recovers, Mode!Fading, Mode!Calm
  <2> QED BY <2>2 DEF ModeStep, Mode!Next
<1>6. CASE RecoverDNS
  <2>1. call = "recover"
    BY <1>6 DEF RecoverDNS, call
  <2>2. CASE pc' = "down"
    <3>1. call' = "down"
      BY <2>2 DEF call
    <3>2. Mode!RecoveryFails
      BY <1>1, <1>2, <1>3, <2>1, <3>1 DEF Mode!RecoveryFails, Mode!Fading, Mode!Calm
    <3> QED BY <3>2 DEF ModeStep, Mode!Next
  <2>3. CASE pc' = "idle"
    <3>1. call' = "idle"
      BY <2>3 DEF call
    <3>2. traces' = FALSE
      BY <1>2, <2>3, TracesStayTracked DEF Tracking, Recovering, traces
    <3>3. Mode!Recovered
      BY <1>1, <1>2, <1>3, <2>1, <3>1, <3>2 DEF Mode!Recovered, Mode!Calm
    <3> QED BY <3>3 DEF ModeStep, Mode!Next
  <2> QED BY <1>6, <2>2, <2>3 DEF RecoverDNS
<1> QED BY <1>4, <1>5, <1>6 DEF Recover

LEMMA CleanupMode ==
    ASSUME Inv, Inv', Cleanup
    PROVE ModeStep
<1>1. /\ pc \in {"c_redirect", "c_profile", "c_dns"} /\ then' = then
      /\ active = FALSE /\ active' = FALSE
  BY DEF Cleanup, CleanupRedirect, CleanupProfile, CleanupDNS, Inv, ActiveInv, TypeOK,
     managerVars
<1>2. call = IF then = "leave" THEN "leave" ELSE "enter"
  BY <1>1 DEF call
<1>3. pc' \in {"c_profile", "c_dns", "dns", "idle"} /\ (pc' = "dns" => then = "enter")
  BY DEF Cleanup, CleanupRedirect, CleanupProfile, CleanupDNS
<1>4. traces' => tracked'
  BY <1>3, TracesStayTracked DEF Tracking, Recovering
<1>5. (traces' => traces) /\ (returned' => returned)
  BY RemovalFades
<1>6. CASE pc' = "idle"
  <2>1. call' = "idle"
    BY <1>6 DEF call
  <2>2. Mode!Left \/ Mode!EnterFails
    BY <1>1, <1>2, <1>4, <1>5, <2>1
       DEF Mode!Left, Mode!EnterFails, Mode!Fading, Mode!Calm
  <2> QED BY <2>2 DEF ModeStep, Mode!Next
<1>7. CASE pc' # "idle"
  <2>1. call' = call
    BY <1>1, <1>2, <1>3, <1>7 DEF call
  <2>2. Mode!Works
    BY <1>1, <1>2, <1>4, <1>5, <2>1 DEF Mode!Works, Mode!Fading, Mode!Calm
  <2> QED BY <2>2 DEF ModeStep, Mode!Next
<1> QED BY <1>6, <1>7

\* The steps of EnterProvisioning: its head, and those after it.
LEMMA EnterMode ==
    ASSUME Inv, Inv', Enter
    PROVE ModeStep
<1>1. CASE EnterProvisioning
  <2>1. call = "idle" /\ call' = "enter" /\ active = FALSE /\ active' = FALSE
    BY <1>1 DEF EnterProvisioning, call, Inv, TypeOK, managerVars
  <2>2. traces' = traces /\ tracked' = tracked /\ returned' = returned
    BY <1>1 DEF EnterProvisioning, traces, tracked, returned, environment, accessPoint,
       sessionVars, managerVars
  <2> QED BY <2>1, <2>2 DEF ModeStep, Mode!Next, Mode!BeginEnter
<1>2. CASE ~EnterProvisioning
  <2>1. /\ pc \in {"dns"} \cup WithDNS
        /\ \/ pc' \in {"idle"} \cup WithDNS
           \/ pc' \in {"c_redirect", "c_profile"} /\ then' = "fail"
        /\ active' = active \/ (pc' = "idle" /\ active' = TRUE)
    <3>1. CASE InstallDNS \/ ConfirmAddress \/ UndoActivation
      BY <3>1 DEF InstallDNS, ConfirmAddress, UndoActivation, WithDNS, managerVars
    <3>2. ASSUME NEW u \in UUIDs, AddProfile(u)
          PROVE  <2>1!:
      BY <3>2 DEF AddProfile, WithDNS, managerVars
    <3>3. CASE ActivateProfile \/ FinalizeTransition
      BY <3>3 DEF ActivateProfile, FinalizeTransition, WithDNS, managerVars
    <3>4. CASE RemovePreviousRedirect \/ InstallRedirect
      BY <3>4 DEF RemovePreviousRedirect, InstallRedirect, WithDNS, managerVars
    <3> QED BY <1>2, <3>1, <3>2, <3>3, <3>4 DEF Enter
  <2>2. call = "enter" /\ active = FALSE
    BY <2>1 DEF call, WithDNS, Inv, ActiveInv, TypeOK
  <2>3. /\ traces' => tracked'
        /\ active' => traces' /\ tracked'
    BY <2>1, TracesStayTracked DEF Tracking, Recovering, WithDNS
  <2>4. returned' => returned
    <3>1. CASE UNCHANGED <<requested, ap, restored>>
      BY <3>1 DEF returned
    <3>2. ASSUME NEW gone, Delete(gone)
          PROVE  returned' => returned
      BY <3>2, DeleteFades
    <3>3. CASE ActivateProfile
      <4>1. CASE UNCHANGED <<requested, ap>>
        BY <1>2, <3>1, <3>3, <4>1 DEF ActivateProfile
      <4>2. CASE Activate(uuid)
        <5>1. uuid \notin restored
          BY <3>3 DEF ActivateProfile, Inv, APInv
        <5> QED BY <3>3, <4>2, <5>1, NoneAssumption
                DEF ActivateProfile, Activate, returned, Inv, TypeOK
      <4> QED BY <3>3, <4>1, <4>2 DEF ActivateProfile
    <3>4. CASE UndoActivation
      BY <3>1, <3>2, <3>4 DEF UndoActivation, DeleteOwnedProfile, accessPoint
    <3>5. CASE FinalizeTransition
      BY <3>2, <3>5 DEF FinalizeTransition, FinalizeProvisioning
    <3> QED BY <1>2, <3>1, <3>3, <3>4, <3>5 DEF Enter, InstallDNS, AddProfile,
            ConfirmAddress, RemovePreviousRedirect, InstallRedirect, environment,
            accessPoint
  <2>5. CASE pc' = "idle"
    <3>1. call' = "idle"
      BY <2>5 DEF call
    <3>2. Mode!Entered \/ Mode!EnterFails
      BY <2>1, <2>2, <2>3, <2>4, <3>1 DEF Mode!Entered, Mode!EnterFails, Mode!Calm
    <3> QED BY <3>2 DEF ModeStep, Mode!Next
  <2>6. CASE pc' # "idle"
    <3>1. call' = "enter" /\ active' = active
      BY <2>1, <2>6 DEF call, WithDNS
    <3>2. Mode!Works
      BY <2>2, <2>3, <2>4, <3>1 DEF Mode!Works, Mode!Calm
    <3> QED BY <3>2 DEF ModeStep, Mode!Next
  <2> QED BY <2>5, <2>6
<1> QED BY <1>1, <1>2

\* Leaving begins, or the process dies.
LEMMA LeaveMode ==
    ASSUME Inv, Inv', LeaveProvisioning \/ Crash
    PROVE ModeStep
<1>1. CASE LeaveProvisioning
  <2>1. call = "idle" /\ call' = "leave" /\ active' = FALSE
    BY <1>1 DEF LeaveProvisioning, call
  <2>2. traces' = traces /\ tracked' = tracked /\ tracked /\ returned' = returned
    BY <1>1 DEF LeaveProvisioning, traces, tracked, returned, environment, accessPoint,
       sessionVars
  <2> QED BY <2>1, <2>2 DEF ModeStep, Mode!Next, Mode!BeginLeave
<1>2. CASE Crash
  <2>1. call # "down" /\ call' = "down" /\ active' = FALSE
    BY <1>2 DEF Crash, NewManager, call
  <2>2. traces' = traces /\ tracked' = FALSE /\ returned' = returned
    BY <1>2 DEF Crash, NewManager, traces, tracked, returned, environment, accessPoint
  <2> QED BY <2>1, <2>2 DEF ModeStep, Mode!Next, Mode!Dies
<1> QED BY <1>1, <1>2

\* A step that only takes away, and leaves the manager alone.
LEMMA FadingMode ==
    ASSUME Inv, Inv', traces' => traces, returned' => returned,
           UNCHANGED <<pc, then, sessionVars, managerVars, dns, table>>
    PROVE ModeStep
<1>1. UNCHANGED <<call, active, tracked>>
  BY DEF call, tracked, sessionVars, managerVars
<1>2. CASE pc \in Recovering
  <2>1. call \in {"down", "recover"}
    BY <1>2 DEF call, Recovering
  <2>2. Mode!Recovers
    BY <1>1, <2>1 DEF Mode!Recovers, Mode!Fading, Mode!Calm
  <2> QED BY <2>2 DEF ModeStep, Mode!Next
<1>3. CASE pc = "idle"
  <2>1. call = "idle"
    BY <1>3 DEF call
  <2>2. active => traces'
    BY <1>1, TracesStayTracked DEF Tracking
  <2>3. Mode!Fades
    BY <1>1, <2>1, <2>2 DEF Mode!Fades, Mode!Fading, Mode!Calm
  <2> QED BY <2>3 DEF ModeStep, Mode!Next
<1>4. CASE pc \notin Recovering \cup {"idle"}
  <2>1. call \in {"enter", "leave"}
    BY <1>4 DEF call, Recovering
  <2>2. traces' => tracked'
    BY <1>4, TracesStayTracked DEF Tracking
  <2>3. Mode!Works
    BY <1>1, <2>1, <2>2 DEF Mode!Works, Mode!Fading, Mode!Calm
  <2> QED BY <2>3 DEF ModeStep, Mode!Next
<1> QED BY <1>2, <1>3, <1>4

\* NetworkManager acts by itself.
LEMMA NetworkManagerMode ==
    ASSUME Inv, Inv', NetworkManager
    PROVE ModeStep
<1>1. CASE APUp
  <2>1. None \notin restored
    BY NoneAssumption DEF Inv, TypeOK
  <2>2. /\ ap' = requested /\ requested' = None /\ requested # None
        /\ UNCHANGED <<restored, dns, table>>
    BY <1>1 DEF APUp
  <2>3. (returned' => returned) /\ (traces' => traces)
    BY <2>1, <2>2 DEF returned, traces
  <2> QED BY <1>1, <2>3, FadingMode DEF APUp
<1>2. CASE APLost \/ NetworkManagerRestarts
  <2>1. None \notin restored /\ None \notin restored'
    BY NoneAssumption DEF Inv, TypeOK
  <2>2. (returned' => returned) /\ (traces' => traces)
    BY <1>2, <2>1 DEF APLost, NetworkManagerRestarts, returned, traces
  <2> QED BY <1>2, <2>2, FadingMode DEF APLost, NetworkManagerRestarts
<1> QED BY <1>1, <1>2 DEF NetworkManager

\* A setup transition comes, goes, or is rolled back.
LEMMA SetupMode ==
    ASSUME Inv, Inv', Setup
    PROVE ModeStep
<1>1. UNCHANGED <<pc, then, sessionVars, managerVars, dns, table>>
  BY DEF Setup, CreateCheckpoint, TransitionEnds, RollbackCheckpoint, CheckpointExpires,
     RestoreSnapshot, restorePreviousConnection, environment, sessionVars, managerVars
<1>2. UNCHANGED <<call, active, tracked>>
  BY <1>1 DEF call, tracked, sessionVars, managerVars
<1>3. returned' \in BOOLEAN
  BY DEF returned
<1>4. traces' => traces \/ tracked
  <2>1. CASE pc \notin Recovering
    BY <1>1, <1>2, <2>1, TracesStayTracked DEF Tracking
  <2>2. CASE pc \in Recovering
    <3>1. ~session
      BY <2>2 DEF Inv, DNSInv
    <3>2. CASE CreateCheckpoint \/ TransitionEnds
      BY <3>2 DEF CreateCheckpoint, TransitionEnds, environment, accessPoint, traces
    <3>3. CASE RestoreSnapshot
      BY <3>1, <3>3 DEF RestoreSnapshot, Activate, tracks, traces
    <3>4. CASE restorePreviousConnection
      <4>1. previous \in profiles => previous \in restored
        BY <3>1, NoneAssumption DEF Inv, APInv, Known, tracks, TypeOK
      <4> QED BY <3>4, <4>1 DEF restorePreviousConnection, Activate, traces
    <3> QED BY <3>2, <3>3, <3>4 DEF Setup, RollbackCheckpoint, CheckpointExpires
  <2> QED BY <2>1, <2>2
<1>5. active => traces'
  BY <1>2, TracesStayTracked DEF Tracking
<1>6. Mode!Returns
  BY <1>2, <1>3, <1>4, <1>5 DEF Mode!Returns
<1> QED BY <1>6 DEF ModeStep, Mode!Next

\* Whatever fails, dies or comes late, the manager keeps the promise its callers rely
\* on: entered completely or not at all, off once leaving begins, outside startup
\* recovery never a trace that is not tracked, and no access point that returns but by
\* a rollback.
THEOREM ImplementsMode == Spec => ModeSpec
<1>1. Init => Mode!Init
  BY NoneAssumption DEF Init, Mode!Init, call, traces, tracked, returned
<1>2. Inv /\ Inv' /\ [Next]_vars =>
        [Mode!Next]_<<call, active, traces, tracked, returned>>
  <2> SUFFICES ASSUME Inv, Inv', [Next]_vars
               PROVE  ModeStep
    BY DEF ModeStep
  <2>1. CASE UNCHANGED vars
    BY <2>1 DEF vars, ModeStep, call, traces, tracked, returned
  <2> QED BY <2>1, RecoverMode, CleanupMode, EnterMode, LeaveMode, NetworkManagerMode,
          SetupMode DEF Next
<1>3. QED
  BY <1>1, <1>2, Invariance, PTL DEF Spec, ModeSpec, Mode!Spec, Mode!vars
=============================================================================
