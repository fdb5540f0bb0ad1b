-------------------------- MODULE Transition_proofs --------------------------
(***************************************************************************)
(* Proofs about Transition: for every set of profiles, every connectivity  *)
(* requirement and any number of transitions, crashes, expired checkpoints *)
(* and controller steps in between.                                        *)
(***************************************************************************)
EXTENDS Transition, TLAPS

\* Steps after plan.accept.
Selecting == {"read", "select", "supersede", "commit", "leave"}

\* NetworkManager's side.  Stored profiles and snapshots are typed, pending ones
\* are inert, only a stored profile is active, and nothing has a UUID that was
\* never drawn.
StoreInv ==
    /\ DOMAIN store \subseteq UUIDs \cap used
    /\ \A u \in DOMAIN store : store[u] \in StoredProfiles
    /\ PendingIsInert
    /\ \A u \in DOMAIN store : store[u].role = "provisioning" => store[u].owned
    /\ active # None => active \in DOMAIN store
    /\ up \in BOOLEAN /\ (up => active # None)

\* A snapshot has the owner and the role that its profile has; it is the profile
\* when that is foreign, or as long as no candidate was accepted.
SnapshotInv ==
    \A c \in checkpoint :
        /\ c.uuid \in UUIDs \cap used /\ c.profile \in StoredProfiles
        /\ c.profile.pending => ~c.profile.autoconnect
        /\ c.profile.role = "provisioning" => c.profile.owned
        /\ c.uuid \in DOMAIN store =>
              /\ c.profile.owned = store[c.uuid].owned
              /\ c.profile.role = store[c.uuid].role
              /\ ~accepted => c.profile = store[c.uuid]
        /\ ~c.profile.owned => c.uuid \in DOMAIN store /\ store[c.uuid] = c.profile

\* What the process remembers of profiles is about profiles of its own: the
\* listings of selectMode and of startup recovery, the captive manager's session
\* and the candidate of the running transition.
ListsInv ==
    \A u \in (todo \cup listed) \cap DOMAIN store : store[u].owned

SessionInv ==
    /\ session # None => session \in used
    /\ session \in DOMAIN store =>
          store[session].owned /\ store[session].role = "provisioning"
    /\ \A c \in checkpoint : c.uuid = session =>
          c.profile.owned /\ c.profile.role = "provisioning"

CandidateInv ==
    /\ cand # None => cand \in used
    /\ pc # "idle" /\ cand \in DOMAIN store =>
          store[cand].owned /\ store[cand].role = role
    /\ pc # "idle" => \A c \in checkpoint : c.uuid = cand =>
          c.profile.owned /\ c.profile.role = role

\* An accepted candidate stays, unless startup recovery sweeps it away.
AcceptedInv ==
    pc \in Selecting =>
        /\ accepted /\ cand \in validated
        /\ cand \in DOMAIN store \/ swept

\* How far the selection is, while the checkpoint can still be committed: the
\* profiles with the wrong flag are on the list, then there are none, then the
\* candidate is the only one of its kind.
SelectionInv ==
    /\ pc = "select" /\ checkpoint # {} => autoconnectUpdates(store, role) \subseteq todo
    /\ (pc \in {"supersede", "commit"} /\ checkpoint # {}) \/ pc = "leave" =>
          autoconnectUpdates(store, role) = {}
    /\ (pc = "commit" /\ checkpoint # {}) \/ pc = "leave" =>
          supersededProfiles(store, role, ssid, cand) = {}
    /\ pc = "leave" => checkpoint = {}

\* The types of the rest.
ProcessInv ==
    /\ life \in Lives /\ listed \subseteq UUIDs /\ swept \in BOOLEAN
    /\ session \in UUIDs \cup {None} /\ entering \in BOOLEAN
    /\ pc \in Steps
    /\ kind \in {"new", "saved", "standalone"}
    /\ ssid \in SSIDs \cup {StandaloneSSID}
    /\ cand \in UUIDs \cup {None} /\ prev \in UUIDs \cup {None}
    /\ pc \in Waited => cand # None
    /\ kind = "saved" /\ pc \in {"checkpoint", "activate"} => cand # None
    /\ todo \subseteq UUIDs
    /\ cause \in {"none", "connection_failed", "connectivity_unavailable"}
    /\ accepted \in BOOLEAN /\ validated \subseteq UUIDs /\ used \subseteq UUIDs
    /\ outcome \in {"none", "succeeded"} \cup Failures
    /\ attempts \in 0..MaxAttempts

\* The inductive invariant.
MemoryInv == ListsInv /\ SessionInv /\ CandidateInv
Inv == /\ StoreInv /\ SnapshotInv /\ MemoryInv /\ AcceptedInv /\ SelectionInv
       /\ ProcessInv

-----------------------------------------------------------------------------
(* The changes of the store. *)

\* With and Without, point by point.
LEMMA WithPoints ==
    ASSUME NEW s, NEW u, NEW profile
    PROVE /\ DOMAIN With(s, u, profile) = DOMAIN s \cup {u}
          /\ With(s, u, profile)[u] = profile
          /\ \A v \in DOMAIN s \ {u} : With(s, u, profile)[v] = s[v]
  BY DEF With

LEMMA WithoutPoints ==
    ASSUME NEW s, NEW gone
    PROVE /\ DOMAIN Without(s, gone) = DOMAIN s \ gone
          /\ \A v \in DOMAIN s \ gone : Without(s, gone)[v] = s[v]
  BY DEF Without

\* The five ways in which a step changes what NetworkManager stores.
\* Owned profiles are deleted, or the store stays as it is.
Shrinks ==
    /\ DOMAIN store' \subseteq DOMAIN store
    /\ \A u \in DOMAIN store' : store'[u] = store[u]
    /\ \A u \in DOMAIN store \ DOMAIN store' : store[u].owned
    /\ active' # None => active' \in DOMAIN store'
    /\ up' \in BOOLEAN /\ (up' => active' # None)
    /\ checkpoint' \subseteq checkpoint
    /\ used \subseteq used' /\ used' \subseteq UUIDs
    /\ accepted => accepted'

\* A profile with a fresh UUID is stored.
Grows(u, profile) ==
    /\ u \in UUIDs \ used
    /\ profile \in StoredProfiles /\ profile.owned /\ ~profile.autoconnect
    /\ DOMAIN store' = DOMAIN store \cup {u}
    /\ store'[u] = profile
    /\ \A v \in DOMAIN store \ {u} : store'[v] = store[v]
    /\ active' # None => active' \in DOMAIN store'
    /\ up' \in BOOLEAN /\ (up' => active' # None)
    /\ checkpoint' = checkpoint
    /\ used' = used \cup {u}
    /\ accepted' = accepted

\* A snapshot of the active connection is taken.
Snapshots ==
    /\ active # None
    /\ checkpoint' = {[uuid |-> active, profile |-> store[active]]}
    /\ UNCHANGED <<store, active, up, used>>

\* A snapshot is restored.
Restores == RestoreSnapshot /\ UNCHANGED <<used, accepted>>

\* The flag of an owned profile is set, after the candidate was accepted.
Updates(u) ==
    /\ accepted
    /\ u \in DOMAIN store /\ store[u].owned
    /\ \E enabled \in BOOLEAN :
          store' = [store EXCEPT ![u] = rebuildOwnedSettings(@, enabled)]
    /\ UNCHANGED <<active, up, checkpoint, used, accepted>>

Effect ==
    \/ Shrinks
    \/ \E u \in UUIDs, profile \in StoredProfiles : Grows(u, profile)
    \/ Snapshots
    \/ Restores
    \/ \E u \in UUIDs : Updates(u)

\* What they have in common: a profile keeps its owner and role, a foreign one
\* stays as it is, a profile that appears is a fresh one or a restored one, and a
\* snapshot that appears is one of a stored profile.
Evolves ==
    /\ used \subseteq used'
    /\ \A u \in DOMAIN store \cap DOMAIN store' :
          store'[u].owned = store[u].owned /\ store'[u].role = store[u].role
    /\ \A u \in DOMAIN store : ~store[u].owned =>
          u \in DOMAIN store' /\ store'[u] = store[u]
    /\ \A u \in DOMAIN store' \ DOMAIN store :
          \/ u \notin used /\ u \in used' /\ store'[u].owned
          \/ \E c \in checkpoint : c.uuid = u /\ c.profile = store'[u]
    /\ \A c \in checkpoint' :
          c \in checkpoint \/ (c.uuid \in DOMAIN store /\ c.profile = store[c.uuid])

\* Deletions of owned profiles shrink the store.
LEMMA DeleteShrinks ==
    ASSUME StoreInv, NEW gone, \A u \in gone \cap DOMAIN store : store[u].owned,
           Delete(gone), UNCHANGED <<checkpoint, used, accepted>>, used \subseteq UUIDs
    PROVE Shrinks /\ DOMAIN store' = DOMAIN store \ gone
<1>1. store' = Without(store, gone)
  BY DEF Delete
<1>2. /\ DOMAIN store' = DOMAIN store \ gone
      /\ \A u \in DOMAIN store \ gone : store'[u] = store[u]
  BY <1>1, WithoutPoints
<1>3. active' # None => active' \in DOMAIN store'
  BY <1>2 DEF Delete, StoreInv
<1>4. up' \in BOOLEAN /\ (up' => active' # None)
  BY DEF Delete, StoreInv
<1> QED
  BY <1>2, <1>3, <1>4 DEF Shrinks

LEMMA ShrinkInv ==
    ASSUME StoreInv, SnapshotInv, Shrinks
    PROVE StoreInv' /\ SnapshotInv' /\ Evolves
<1> USE DEF Shrinks
<1>1. StoreInv'
  <2>1. DOMAIN store' \subseteq UUIDs \cap used'
    BY DEF StoreInv
  <2>2. \A u \in DOMAIN store' :
           /\ store'[u] \in StoredProfiles
           /\ store'[u].pending => ~store'[u].autoconnect
           /\ store'[u].role = "provisioning" => store'[u].owned
    BY DEF StoreInv, PendingIsInert
  <2> QED BY <2>1, <2>2 DEF StoreInv, PendingIsInert
<1>2. SnapshotInv'
  BY DEF SnapshotInv
<1>3. Evolves
  BY DEF Evolves
<1> QED BY <1>1, <1>2, <1>3

LEMMA GrowInv ==
    ASSUME StoreInv, SnapshotInv, NEW u, NEW profile, Grows(u, profile)
    PROVE StoreInv' /\ SnapshotInv' /\ Evolves
<1> USE DEF Grows
<1>1. u \notin DOMAIN store /\ \A v \in DOMAIN store : store'[v] = store[v]
  BY DEF StoreInv
<1>2. StoreInv'
  <2>1. DOMAIN store' \subseteq UUIDs \cap used'
    BY DEF StoreInv
  <2>2. \A v \in DOMAIN store' :
           /\ store'[v] \in StoredProfiles
           /\ store'[v].pending => ~store'[v].autoconnect
           /\ store'[v].role = "provisioning" => store'[v].owned
    BY <1>1 DEF StoreInv, PendingIsInert
  <2> QED BY <2>1, <2>2 DEF StoreInv, PendingIsInert
<1>3. SnapshotInv'
  BY <1>1 DEF SnapshotInv
<1>4. Evolves
  BY <1>1 DEF Evolves
<1> QED BY <1>2, <1>3, <1>4

LEMMA SnapshotsInv ==
    ASSUME StoreInv, Snapshots
    PROVE StoreInv' /\ SnapshotInv' /\ Evolves
<1> USE DEF Snapshots
<1>1. StoreInv'
  BY DEF StoreInv, PendingIsInert
<1>2. \A c \in checkpoint' : c.uuid = active /\ c.profile = store[active]
  OBVIOUS
<1>3. active \in DOMAIN store
  BY DEF StoreInv
<1>4. SnapshotInv'
  BY <1>2, <1>3 DEF StoreInv, SnapshotInv, PendingIsInert
<1>5. Evolves
  BY <1>2, <1>3 DEF Evolves
<1> QED BY <1>1, <1>4, <1>5

LEMMA RestoreInv ==
    ASSUME StoreInv, SnapshotInv, Restores
    PROVE StoreInv' /\ SnapshotInv' /\ Evolves
<1>1. PICK c \in checkpoint : /\ store' = With(store, c.uuid, c.profile)
                              /\ active' = c.uuid /\ up' \in BOOLEAN
                              /\ checkpoint' = {}
  BY DEF Restores, RestoreSnapshot
<1>2. used' = used /\ accepted' = accepted
  BY DEF Restores
<1>3. /\ DOMAIN store' = DOMAIN store \cup {c.uuid}
      /\ store'[c.uuid] = c.profile
      /\ \A v \in DOMAIN store \ {c.uuid} : store'[v] = store[v]
  BY <1>1 DEF With
<1>4. /\ c.uuid \in UUIDs \cap used /\ c.profile \in StoredProfiles
      /\ c.profile.pending => ~c.profile.autoconnect
      /\ c.profile.role = "provisioning" => c.profile.owned
      /\ c.uuid \in DOMAIN store => /\ c.profile.owned = store[c.uuid].owned
                                    /\ c.profile.role = store[c.uuid].role
      /\ ~c.profile.owned => c.uuid \in DOMAIN store /\ store[c.uuid] = c.profile
  BY DEF SnapshotInv
<1>5. StoreInv'
  <2>1. DOMAIN store' \subseteq UUIDs \cap used'
    BY <1>2, <1>3, <1>4 DEF StoreInv
  <2>2. \A v \in DOMAIN store' :
           /\ store'[v] \in StoredProfiles
           /\ store'[v].pending => ~store'[v].autoconnect
           /\ store'[v].role = "provisioning" => store'[v].owned
    BY <1>3, <1>4 DEF StoreInv, PendingIsInert
  <2>3. c.uuid # None
    BY <1>4, NoneAssumption
  <2> QED BY <1>1, <1>3, <2>1, <2>2, <2>3 DEF StoreInv, PendingIsInert
<1>6. SnapshotInv'
  BY <1>1 DEF SnapshotInv
<1>7. Evolves
  BY <1>1, <1>2, <1>3, <1>4 DEF Evolves
<1> QED BY <1>5, <1>6, <1>7

\* An update sets the flag, drops the pending mark and keeps the rest.
LEMMA Rebuilt ==
    ASSUME NEW profile \in StoredProfiles, NEW enabled \in BOOLEAN
    PROVE /\ rebuildOwnedSettings(profile, enabled) \in StoredProfiles
          /\ rebuildOwnedSettings(profile, enabled).owned = profile.owned
          /\ rebuildOwnedSettings(profile, enabled).role = profile.role
          /\ rebuildOwnedSettings(profile, enabled).ssid = profile.ssid
          /\ rebuildOwnedSettings(profile, enabled).autoconnect = enabled
          /\ rebuildOwnedSettings(profile, enabled).pending = FALSE
  BY DEF rebuildOwnedSettings, StoredProfiles

LEMMA UpdateInv ==
    ASSUME StoreInv, SnapshotInv, NEW u \in UUIDs, Updates(u)
    PROVE StoreInv' /\ SnapshotInv' /\ Evolves
<1>1. PICK enabled \in BOOLEAN :
         store' = [store EXCEPT ![u] = rebuildOwnedSettings(@, enabled)]
  BY DEF Updates
<1>2. /\ u \in DOMAIN store /\ store[u].owned /\ accepted
      /\ UNCHANGED <<active, up, checkpoint, used, accepted>>
  BY DEF Updates
<1>3. /\ DOMAIN store' = DOMAIN store
      /\ store'[u] = rebuildOwnedSettings(store[u], enabled)
      /\ \A v \in DOMAIN store \ {u} : store'[v] = store[v]
  BY <1>1, <1>2
<1>4. /\ store'[u] \in StoredProfiles /\ store'[u].pending = FALSE
      /\ store'[u].owned = store[u].owned /\ store'[u].role = store[u].role
  <2>1. store[u] \in StoredProfiles
    BY <1>2 DEF StoreInv
  <2> DEFINE rebuilt == rebuildOwnedSettings(store[u], enabled)
  <2>2. /\ rebuilt \in StoredProfiles /\ rebuilt.pending = FALSE
        /\ rebuilt.owned = store[u].owned /\ rebuilt.role = store[u].role
    BY <2>1, Rebuilt
  <2> QED BY <1>3, <2>2
<1>5. StoreInv'
  <2>1. \A v \in DOMAIN store' :
           /\ store'[v] \in StoredProfiles
           /\ store'[v].pending => ~store'[v].autoconnect
           /\ store'[v].role = "provisioning" => store'[v].owned
    BY <1>2, <1>3, <1>4 DEF StoreInv, PendingIsInert
  <2> QED BY <1>2, <1>3, <2>1 DEF StoreInv, PendingIsInert
<1>6. SnapshotInv'
  <2>1. checkpoint' = checkpoint /\ used' = used /\ accepted'
    BY <1>2
  <2>2. \A c \in checkpoint : c.uuid \in DOMAIN store =>
           /\ store'[c.uuid].owned = store[c.uuid].owned
           /\ store'[c.uuid].role = store[c.uuid].role
    BY <1>3, <1>4
  <2>3. \A c \in checkpoint : ~c.profile.owned => c.uuid # u
    BY <1>2 DEF SnapshotInv
  <2>4. \A c \in checkpoint : ~c.profile.owned =>
           c.uuid \in DOMAIN store' /\ store'[c.uuid] = c.profile
    BY <1>3, <2>3 DEF SnapshotInv
  <2> QED BY <1>3, <2>1, <2>2, <2>4 DEF SnapshotInv
<1>7. Evolves
  BY <1>2, <1>3, <1>4 DEF Evolves
<1> QED BY <1>5, <1>6, <1>7

LEMMA EffectInv ==
    ASSUME StoreInv, SnapshotInv, Effect
    PROVE StoreInv' /\ SnapshotInv' /\ Evolves
  BY ShrinkInv, GrowInv, SnapshotsInv, RestoreInv, UpdateInv DEF Effect

\* Steps that leave the store as it is.
LEMMA RestShrinks ==
    ASSUME StoreInv, used \subseteq UUIDs, UNCHANGED <<store, used>>,
           checkpoint' \subseteq checkpoint, accepted => accepted',
           active' # None => active' \in DOMAIN store,
           up' \in BOOLEAN, up' => active' # None
    PROVE Shrinks
  BY DEF Shrinks

\* Candidates and setup access points are owned profiles that do not start at boot.
LEMMA CreatedProfiles ==
    ASSUME NEW s \in SSIDs \cup {StandaloneSSID}, NEW profile,
           \/ profile = infrastructureCandidate(s)
           \/ profile = standaloneCandidate(s)
           \/ profile = provisioningProfile
    PROVE profile \in StoredProfiles /\ profile.owned /\ ~profile.autoconnect
<1>1. CASE profile = infrastructureCandidate(s)
  BY <1>1 DEF infrastructureCandidate, StoredProfiles
<1>2. CASE profile = standaloneCandidate(s)
  BY <1>2 DEF standaloneCandidate, StoredProfiles
<1>3. CASE profile = provisioningProfile
  BY <1>3 DEF provisioningProfile, StoredProfiles
<1> QED BY <1>1, <1>2, <1>3

\* A connection is only up while there is one.
LEMMA UpKeeps ==
    ASSUME StoreInv, up' = FALSE \/ UNCHANGED <<active, up>>
    PROVE up' \in BOOLEAN /\ (up' => active' # None)
<1>1. CASE up' = FALSE
  BY <1>1
<1>2. CASE UNCHANGED <<active, up>>
  BY <1>2 DEF StoreInv
<1> QED BY <1>1, <1>2

\* Every step is one of the five effects.
LEMMA RunEffect ==
    ASSUME Inv, Run
    PROVE Effect
<1> USE DEF Inv
<1>0. used \subseteq UUIDs /\ accepted \in BOOLEAN
  BY DEF ProcessInv
<1>1. ASSUME UNCHANGED <<network, used, accepted>>
      PROVE Effect
  BY <1>0, <1>1, RestShrinks DEF StoreInv, network, Effect
<1>2. ASSUME NEW s \in Entered, AttemptNew(s)
      PROVE Effect
  BY <1>1, <1>2 DEF AttemptNew, Begin, network
<1>3. ASSUME NEW u \in UUIDs, AttemptSaved(u)
      PROVE Effect
  BY <1>1, <1>3 DEF AttemptSaved, Begin, network
<1>4. CASE AttemptStandalone
  BY <1>1, <1>4 DEF AttemptStandalone, Begin, network
<1>5. CASE CreateCheckpoint
  <2> USE <1>5 DEF CreateCheckpoint
  <2>1. CASE Snapshots
    BY <2>1 DEF Effect
  <2>2. CASE UNCHANGED <<checkpoint, accepted>>
    BY <1>1, <2>2 DEF network
  <2> QED BY <2>1, <2>2 DEF Snapshots
<1>6. ASSUME NEW u \in UUIDs, AddAndActivate(u)
      PROVE Effect
  <2> USE <1>6
  <2> DEFINE profile == IF kind = "new" THEN infrastructureCandidate(ssid)
                                        ELSE standaloneCandidate(ssid)
             added == With(store, u, profile)
  <2>1. ssid \in SSIDs \cup {StandaloneSSID}
    BY DEF ProcessInv
  <2>2. profile \in StoredProfiles /\ profile.owned /\ ~profile.autoconnect
    BY <2>1, CreatedProfiles
  <2>3. /\ DOMAIN added = DOMAIN store \cup {u}
        /\ added[u] = profile
        /\ \A v \in DOMAIN store \ {u} : added[v] = store[v]
    <3> HIDE DEF profile
    <3> QED BY DEF With
  <2>4. /\ \/ store' = added /\ Activate(u)
           \/ store' \in {store, added} /\ UNCHANGED <<active, up>>
           \/ store' = store /\ active' = None /\ up' = FALSE
        /\ u \in UUIDs \ used /\ used' = used \cup {u}
        /\ UNCHANGED <<checkpoint, accepted>>
    BY DEF AddAndActivate, AddOrActivateFails
  <2> HIDE DEF profile, added
  <2>5. CASE store' = added
    <3>1. active' # None => active' \in DOMAIN store'
      BY <2>3, <2>4, <2>5 DEF Activate, StoreInv
    <3>2. up' \in BOOLEAN /\ (up' => active' # None)
      BY <2>4, <2>5, UpKeeps DEF Activate
    <3>3. Grows(u, profile)
      BY <2>2, <2>3, <2>4, <2>5, <3>1, <3>2 DEF Grows
    <3> QED BY <2>2, <3>3 DEF Effect
  <2>6. CASE store' = store
    <3>1. active' # None => active' \in DOMAIN store'
      BY <2>3, <2>4, <2>6 DEF Activate, StoreInv
    <3>2. up' \in BOOLEAN /\ (up' => active' # None)
      BY <2>4, <2>6, UpKeeps DEF Activate
    <3>3. Shrinks
      BY <1>0, <2>4, <2>6, <3>1, <3>2 DEF Shrinks
    <3> QED BY <3>3 DEF Effect
  <2> QED BY <2>4, <2>5, <2>6
<1>7. CASE ActivateSaved
  <2>1. /\ active' # None => active' \in DOMAIN store
        /\ UNCHANGED <<store, used, checkpoint, accepted>>
    BY <1>7 DEF ActivateSaved, Activate, StoreInv
  <2>2. up' \in BOOLEAN /\ (up' => active' # None)
    BY <1>7, UpKeeps DEF ActivateSaved, Activate
  <2> QED BY <1>0, <2>1, <2>2, RestShrinks DEF Effect
<1>8. CASE WaitForActivation
  BY <1>1, <1>8 DEF WaitForActivation
<1>9. CASE Accept
  <2>1. UNCHANGED <<network, used>> /\ (accepted => accepted')
    BY <1>9 DEF Accept, AcceptInfrastructure, AcceptStandalone
  <2> QED BY <1>0, <2>1, RestShrinks DEF Effect, network, StoreInv
<1>10. CASE ReadProfiles
  BY <1>1, <1>10 DEF ReadProfiles
<1>11. ASSUME NEW u \in UUIDs, UpdateAutoconnect(u)
       PROVE Effect
  <2> USE <1>11
  <2>1. UNCHANGED <<active, up, checkpoint, used, accepted>> /\ accepted /\ u \in todo
    BY DEF UpdateAutoconnect, nextUpdates, AcceptedInv, Selecting
  <2>2. CASE store' = store
    BY <1>1, <2>1, <2>2 DEF network
  <2>3. CASE store' # store
    <3>1. /\ u \in DOMAIN store
          /\ store' = [store EXCEPT ![u] = rebuildOwnedSettings(@, @.role = role)]
      BY <2>3 DEF UpdateAutoconnect
    <3>2. store[u].owned
      BY <2>1, <3>1 DEF MemoryInv, ListsInv
    <3>3. (store[u].role = role) \in BOOLEAN
      OBVIOUS
    <3>4. Updates(u)
      BY <2>1, <3>1, <3>2, <3>3 DEF Updates
    <3> QED BY <3>4 DEF Effect
  <2> QED BY <2>2, <2>3
<1>12. CASE ModeSelected
  BY <1>1, <1>12 DEF ModeSelected
<1>13. CASE DeleteSuperseded
  <2>1. PICK gone \in SUBSET supersededProfiles(store, role, ssid, cand) : Delete(gone)
    BY <1>13 DEF DeleteSuperseded
  <2>2. \A u \in gone \cap DOMAIN store : store[u].owned
    BY DEF supersededProfiles
  <2>3. UNCHANGED <<checkpoint, used, accepted>>
    BY <1>13 DEF DeleteSuperseded
  <2> QED BY <1>0, <2>1, <2>2, <2>3, DeleteShrinks DEF Effect
<1>14. CASE CommitCheckpoint
  <2>1. UNCHANGED <<store, active, up, used, accepted>> /\ checkpoint' \subseteq checkpoint
    BY <1>14 DEF CommitCheckpoint
  <2> QED BY <1>0, <2>1, RestShrinks DEF StoreInv, Effect
<1>15. CASE ExitCaptive
  <2>1. UNCHANGED <<checkpoint, used, accepted>>
    BY <1>15 DEF ExitCaptive
  <2>2. CASE UNCHANGED <<store, active, up>>
    BY <1>1, <2>1, <2>2 DEF network
  <2>3. CASE Delete({session})
    <3>1. \A u \in {session} \cap DOMAIN store : store[u].owned
      BY DEF MemoryInv, SessionInv
    <3> QED BY <1>0, <2>1, <2>3, <3>1, DeleteShrinks DEF Effect
  <2> QED BY <1>15, <2>2, <2>3 DEF ExitCaptive, Leave
<1>16. CASE RollbackCheckpoint
  <2>1. UNCHANGED <<used, accepted>>
    BY <1>16 DEF RollbackCheckpoint
  <2>2. CASE UNCHANGED <<store, active, up, checkpoint>>
    BY <1>1, <2>1, <2>2 DEF network
  <2>3. CASE RestoreSnapshot
    BY <2>1, <2>3 DEF Restores, Effect
  <2> QED BY <1>16, <2>2, <2>3 DEF RollbackCheckpoint
<1>17. CASE RemoveRejected
  <2>1. UNCHANGED <<checkpoint, used, accepted>>
    BY <1>17 DEF RemoveRejected
  <2>2. CASE UNCHANGED <<store, active, up>>
    BY <1>1, <2>1, <2>2 DEF network
  <2>3. CASE Delete({cand})
    <3>1. \A u \in {cand} \cap DOMAIN store : store[u].owned
      BY <1>17 DEF RemoveRejected, MemoryInv, CandidateInv
    <3> QED BY <1>0, <2>1, <2>3, <3>1, DeleteShrinks DEF Effect
  <2> QED BY <1>17, <2>2, <2>3 DEF RemoveRejected
<1>18. CASE RestorePrevious
  <2>1. /\ active' # None => active' \in DOMAIN store
        /\ UNCHANGED <<store, used, checkpoint, accepted>>
    BY <1>18 DEF RestorePrevious, Activate, StoreInv
  <2>2. up' \in BOOLEAN /\ (up' => active' # None)
    BY <1>18, UpKeeps DEF RestorePrevious, Activate
  <2> QED BY <1>0, <2>1, <2>2, RestShrinks DEF Effect
<1>19. CASE ConfirmPrevious
  BY <1>1, <1>19 DEF ConfirmPrevious
<1> QED
  BY <1>2, <1>3, <1>4, <1>5, <1>6, <1>7, <1>8, <1>9, <1>10, <1>11, <1>12, <1>13,
     <1>14, <1>15, <1>16, <1>17, <1>18, <1>19 DEF Run

LEMMA OtherEffect ==
    ASSUME Inv, Captive \/ NetworkManager \/ Restart
    PROVE Effect
<1> USE DEF Inv
<1>0. used \subseteq UUIDs /\ accepted \in BOOLEAN
  BY DEF ProcessInv
<1>1. ASSUME UNCHANGED <<network, used, accepted>>
      PROVE Effect
  BY <1>0, <1>1, RestShrinks DEF StoreInv, network, Effect
<1>2. ASSUME UNCHANGED <<checkpoint, used, accepted>>, Leave
      PROVE Effect
  <2>1. CASE UNCHANGED <<store, active, up>>
    BY <1>1, <1>2, <2>1 DEF network
  <2>2. CASE Delete({session})
    <3>1. \A u \in {session} \cap DOMAIN store : store[u].owned
      BY DEF MemoryInv, SessionInv
    <3> QED BY <1>0, <1>2, <2>2, <3>1, DeleteShrinks DEF Effect
  <2> QED BY <1>2, <2>1, <2>2 DEF Leave
<1>3. ASSUME UNCHANGED <<checkpoint, used, accepted>>, NEW gone, Delete(gone),
             \A u \in gone \cap DOMAIN store : store[u].owned
      PROVE Effect
  BY <1>0, <1>3, DeleteShrinks DEF Effect
<1>4. CASE LeaveProvisioning
  BY <1>2, <1>4 DEF LeaveProvisioning, progress
<1>5. CASE EnterCompletes
  <2>1. UNCHANGED <<checkpoint, used, accepted>>
    BY <1>5 DEF EnterCompletes, progress
  <2>2. CASE Delete(supersededProfiles(store, "provisioning", "", session))
    BY <1>3, <2>1, <2>2 DEF supersededProfiles
  <2>3. CASE UNCHANGED <<store, active, up>>
    BY <1>1, <2>1, <2>3 DEF network
  <2> QED BY <1>2, <1>5, <2>1, <2>2, <2>3 DEF EnterCompletes
<1>6. ASSUME NEW u \in UUIDs, EnterProvisioning(u)
      PROVE Effect
  <2> USE <1>6
  <2>1. /\ provisioningProfile \in StoredProfiles /\ provisioningProfile.owned
        /\ ~provisioningProfile.autoconnect
    BY CreatedProfiles
  <2>2. /\ store' = With(store, u, provisioningProfile)
        /\ u \in UUIDs \ used /\ used' = used \cup {u}
        /\ UNCHANGED <<checkpoint, accepted>>
        /\ Activate(u) \/ UNCHANGED <<active, up>>
    BY DEF EnterProvisioning, progress
  <2>3. /\ DOMAIN store' = DOMAIN store \cup {u}
        /\ store'[u] = provisioningProfile
        /\ \A v \in DOMAIN store \ {u} : store'[v] = store[v]
    BY <2>2 DEF With
  <2>4. active' # None => active' \in DOMAIN store'
    BY <2>2, <2>3 DEF Activate, StoreInv
  <2>5. up' \in BOOLEAN /\ (up' => active' # None)
    BY <2>2, UpKeeps DEF Activate
  <2>6. Grows(u, provisioningProfile)
    BY <2>1, <2>2, <2>3, <2>4, <2>5 DEF Grows
  <2> QED BY <2>1, <2>6 DEF Effect
<1>7. CASE ActivationEnds
  <2>1. /\ active' # None => active' \in DOMAIN store
        /\ UNCHANGED <<store, used, checkpoint, accepted>>
    BY <1>7 DEF ActivationEnds, progress, StoreInv
  <2>2. up' \in BOOLEAN /\ (up' => active' # None)
    <3>1. CASE up' = TRUE /\ UNCHANGED active
      BY <1>7, <3>1 DEF ActivationEnds
    <3>2. CASE active' = None /\ UNCHANGED up
      BY <1>7, <3>2 DEF ActivationEnds, StoreInv
    <3> QED BY <1>7, <3>1, <3>2 DEF ActivationEnds
  <2> QED BY <1>0, <2>1, <2>2, RestShrinks DEF Effect
<1>8. CASE LinkLost
  <2>1. /\ active' = None /\ up' = FALSE
        /\ UNCHANGED <<store, used, checkpoint, accepted>>
    BY <1>8 DEF LinkLost, progress
  <2> QED BY <1>0, <2>1, RestShrinks DEF Effect
<1>9. CASE CheckpointExpires
  BY <1>9 DEF CheckpointExpires, Restores, Effect, progress
<1>10. ASSUME NEW u \in UUIDs, Autoconnect(u)
       PROVE Effect
  <2>1. /\ active' \in DOMAIN store /\ up' = FALSE
        /\ UNCHANGED <<store, used, checkpoint, accepted>>
    BY <1>10 DEF Autoconnect, Activate, progress
  <2> QED BY <1>0, <2>1, RestShrinks DEF Effect
<1>11. CASE Crash
  BY <1>1, <1>11 DEF Crash, Die
<1>12. CASE PowerCut
  <2> DEFINE temporary == {u \in DOMAIN store : store[u].role = "provisioning"}
  <2>1. /\ store' = Without(store, temporary)
        /\ active' = None /\ up' = FALSE /\ checkpoint' = {}
        /\ UNCHANGED <<used, accepted>>
    BY <1>12 DEF PowerCut, Die
  <2>2. \A u \in temporary : store[u].owned
    BY DEF StoreInv
  <2> HIDE DEF temporary
  <2>3. /\ DOMAIN store' = DOMAIN store \ temporary
        /\ \A u \in DOMAIN store \ temporary : store'[u] = store[u]
    BY <2>1, WithoutPoints
  <2>4. Shrinks
    BY <1>0, <2>1, <2>2, <2>3 DEF Shrinks
  <2> QED BY <2>4 DEF Effect
<1>13. CASE Start
  BY <1>1, <1>13 DEF Start, progress
<1>14. CASE RecoverProvisioning
  <2>1. PICK gone \in SUBSET supersededProfiles(store, "provisioning", "", None) :
           Delete(gone)
    BY <1>14 DEF RecoverProvisioning
  <2>2. \A u \in gone \cap DOMAIN store : store[u].owned
    BY DEF supersededProfiles
  <2>3. UNCHANGED <<checkpoint, used, accepted>>
    BY <1>14 DEF RecoverProvisioning, progress
  <2> QED BY <1>3, <2>1, <2>2, <2>3
<1>15. CASE ListPending
  BY <1>1, <1>15 DEF ListPending, progress
<1>16. CASE DeletePending
  <2>1. PICK gone \in SUBSET listed : Delete(gone)
    BY <1>16 DEF DeletePending
  <2>2. \A u \in gone \cap DOMAIN store : store[u].owned
    BY DEF MemoryInv, ListsInv
  <2>3. UNCHANGED <<checkpoint, used, accepted>>
    BY <1>16 DEF DeletePending, progress
  <2> QED BY <1>3, <2>1, <2>2, <2>3
<1>17. CASE Stop
  BY <1>1, <1>17 DEF Stop, progress
<1>18. CASE Exit
  BY <1>2, <1>18 DEF Exit, progress
<1> QED
  BY <1>4, <1>5, <1>6, <1>7, <1>8, <1>9, <1>10, <1>11, <1>12, <1>13, <1>14, <1>15,
     <1>16, <1>17, <1>18 DEF Captive, NetworkManager, Restart

\* The store's half of the induction.
LEMMA StoreStep ==
    ASSUME Inv, [Next]_vars
    PROVE StoreInv' /\ SnapshotInv' /\ Evolves
<1>1. CASE UNCHANGED vars
  <2>1. UNCHANGED <<network, used, accepted>>
    BY <1>1 DEF vars, progress
  <2>2. Shrinks
    BY <2>1, RestShrinks DEF Inv, StoreInv, ProcessInv, network
  <2> QED BY <2>2, EffectInv DEF Effect, Inv
<1>2. CASE Next
  BY <1>2, RunEffect, OtherEffect, EffectInv DEF Inv, Next
<1> QED BY <1>1, <1>2

-----------------------------------------------------------------------------
(* What the process remembers. *)

\* Listings only get profiles that are stored and owned; a session and a candidate
\* are kept, dropped or drawn; a saved candidate is a stored one.
ListsStep ==
    \A u \in todo' \cup listed' :
        u \in todo \cup listed \/ (u \in DOMAIN store /\ store[u].owned)
SessionStep ==
    \/ session' = session
    \/ session' = None
    \/ /\ session' \in used' \ used /\ checkpoint' = checkpoint
       /\ store'[session'].owned /\ store'[session'].role = "provisioning"
CandidateStep ==
    \/ cand' = cand /\ kind' = kind /\ (pc = "idle" => pc' = "idle")
    \/ cand' = None
    \/ /\ cand' \in used' \ used /\ checkpoint' = checkpoint
       /\ cand' \in DOMAIN store' =>
             store'[cand'].owned /\ store'[cand'].role = role'
    \/ /\ cand' \in DOMAIN store /\ store[cand'].owned /\ store[cand'].role = role'
       /\ UNCHANGED <<store, checkpoint>>
MemoryStep == ListsStep /\ SessionStep /\ CandidateStep

LEMMA MemoryKept ==
    ASSUME Inv, StoreInv', SnapshotInv', Evolves, MemoryStep
    PROVE MemoryInv'
<1> USE DEF Inv, MemoryInv, MemoryStep
<1>1. ListsInv'
  <2> SUFFICES ASSUME NEW u \in todo' \cup listed', u \in DOMAIN store'
               PROVE store'[u].owned
    BY DEF ListsInv
  <2>1. CASE u \in DOMAIN store
    BY <2>1 DEF ListsStep, ListsInv, Evolves
  <2>2. CASE u \notin DOMAIN store
    BY <2>2 DEF Evolves, SnapshotInv
  <2> QED BY <2>1, <2>2
<1>2. None \notin DOMAIN store' /\ \A c \in checkpoint' : c.uuid # None
  BY NoneAssumption DEF StoreInv, SnapshotInv
<1>3. SessionInv'
  <2>1. CASE session' = session
    <3>1. session # None => session \in used'
      BY DEF SessionInv, Evolves
    <3>2. ASSUME session \in DOMAIN store'
          PROVE store'[session].owned /\ store'[session].role = "provisioning"
      <4>1. session \in used
        BY <1>2, <3>2 DEF SessionInv
      <4>2. CASE session \in DOMAIN store
        BY <3>2, <4>2 DEF SessionInv, Evolves
      <4>3. CASE session \notin DOMAIN store
        BY <3>2, <4>1, <4>3 DEF SessionInv, Evolves
      <4> QED BY <4>2, <4>3
    <3>3. \A c \in checkpoint' : c.uuid = session =>
             c.profile.owned /\ c.profile.role = "provisioning"
      BY DEF SessionInv, Evolves
    <3> QED BY <2>1, <3>1, <3>2, <3>3 DEF SessionInv
  <2>2. CASE session' = None
    BY <1>2, <2>2 DEF SessionInv
  <2>3. CASE /\ session' \in used' \ used /\ checkpoint' = checkpoint
             /\ store'[session'].owned /\ store'[session'].role = "provisioning"
    <3>1. \A c \in checkpoint' : c.uuid # session'
      BY <2>3 DEF SnapshotInv
    <3> QED BY <2>3, <3>1 DEF SessionInv
  <2> QED BY <2>1, <2>2, <2>3 DEF SessionStep
<1>4. CandidateInv'
  <2>1. CASE cand' = cand /\ kind' = kind /\ (pc = "idle" => pc' = "idle")
    <3>1. cand # None => cand \in used'
      BY DEF CandidateInv, Evolves
    <3>2. role' = role
      BY <2>1 DEF role
    <3>3. ASSUME cand \in DOMAIN store', pc' # "idle"
          PROVE store'[cand].owned /\ store'[cand].role = role
      <4>1. cand \in used /\ pc # "idle"
        BY <1>2, <2>1, <3>3 DEF CandidateInv
      <4>2. CASE cand \in DOMAIN store
        BY <3>3, <4>1, <4>2 DEF CandidateInv, Evolves
      <4>3. CASE cand \notin DOMAIN store
        BY <3>3, <4>1, <4>3 DEF CandidateInv, Evolves
      <4> QED BY <4>2, <4>3
    <3>4. pc' # "idle" => \A c \in checkpoint' : c.uuid = cand =>
             c.profile.owned /\ c.profile.role = role
      BY <2>1 DEF CandidateInv, Evolves
    <3> QED BY <2>1, <3>1, <3>2, <3>3, <3>4 DEF CandidateInv
  <2>2. CASE cand' = None
    BY <1>2, <2>2 DEF CandidateInv
  <2>3. CASE /\ cand' \in used' \ used /\ checkpoint' = checkpoint
             /\ cand' \in DOMAIN store' =>
                   store'[cand'].owned /\ store'[cand'].role = role'
    <3>1. \A c \in checkpoint' : c.uuid # cand'
      BY <2>3 DEF SnapshotInv
    <3> QED BY <2>3, <3>1 DEF CandidateInv
  <2>4. CASE /\ cand' \in DOMAIN store /\ store[cand'].owned
             /\ store[cand'].role = role' /\ UNCHANGED <<store, checkpoint>>
    <3>1. cand' \in used'
      BY <2>4 DEF StoreInv
    <3>2. \A c \in checkpoint : c.uuid = cand' =>
             c.profile.owned /\ c.profile.role = role'
      BY <2>4 DEF SnapshotInv
    <3> QED BY <2>4, <3>1, <3>2 DEF CandidateInv
  <2> QED BY <2>1, <2>2, <2>3, <2>4 DEF CandidateStep
<1> QED BY <1>1, <1>3, <1>4

\* Steps that leave the lists, the session and the candidate alone.
LEMMA MemoryUntouched ==
    ASSUME UNCHANGED <<listed, session, cand, kind>>, todo' \subseteq todo,
           pc = "idle" => pc' = "idle"
    PROVE MemoryStep
  BY DEF MemoryStep, ListsStep, SessionStep, CandidateStep

LEMMA RunMemory ==
    ASSUME Inv, Run
    PROVE MemoryStep
<1> USE DEF process, captive, plan, progress, Begin, Finish, Reject
<1>1. ASSUME NEW s \in Entered, AttemptNew(s)
      PROVE MemoryStep
  BY <1>1 DEF AttemptNew, MemoryStep, ListsStep, SessionStep, CandidateStep
<1>2. CASE AttemptStandalone
  BY <1>2 DEF AttemptStandalone, MemoryStep, ListsStep, SessionStep, CandidateStep
<1>3. ASSUME NEW u \in UUIDs, AttemptSaved(u)
      PROVE MemoryStep
  <2>1. UNCHANGED <<todo, listed, session, store, checkpoint>>
    BY <1>3 DEF AttemptSaved, network
  <2>2. /\ cand' \in DOMAIN store /\ store[cand'].owned
        /\ store[cand'].role = "infrastructure" /\ kind' = "saved"
    BY <1>3 DEF AttemptSaved
  <2>3. role' = "infrastructure"
    BY <2>2 DEF role
  <2> QED
    BY <2>1, <2>2, <2>3 DEF MemoryStep, ListsStep, SessionStep, CandidateStep
<1>4. CASE CreateCheckpoint
  BY <1>4, MemoryUntouched DEF CreateCheckpoint
<1>5. ASSUME NEW u \in UUIDs, AddAndActivate(u)
      PROVE MemoryStep
  <2> DEFINE profile == IF kind = "new" THEN infrastructureCandidate(ssid)
                                        ELSE standaloneCandidate(ssid)
  <2>1. /\ UNCHANGED <<todo, listed, session, kind, checkpoint>>
        /\ pc # "idle" /\ kind # "saved"
        /\ u \notin used /\ used' = used \cup {u}
        /\ cand' \in {cand, None, u}
        /\ store' \in {store, With(store, u, profile)}
    BY <1>5 DEF AddAndActivate, AddOrActivateFails
  <2>2. profile.owned /\ profile.role = role /\ role' = role
    BY <2>1 DEF ProcessInv, Inv, role, infrastructureCandidate, standaloneCandidate
  <2> HIDE DEF profile
  <2>3. u \in DOMAIN store' => store'[u] = profile
    BY <2>1 DEF With, Inv, StoreInv
  <2> QED
    BY <2>1, <2>2, <2>3 DEF MemoryStep, ListsStep, SessionStep, CandidateStep
<1>6. CASE ReadProfiles
  <2>1. \A u \in autoconnectUpdates(store, role) : u \in DOMAIN store /\ store[u].owned
    BY DEF autoconnectUpdates, Production
  <2>2. UNCHANGED <<listed, session, cand, kind>> /\ pc # "idle"
    BY <1>6 DEF ReadProfiles
  <2>3. todo' = todo \/ todo' = autoconnectUpdates(store, role)
    BY <1>6 DEF ReadProfiles
  <2> QED
    BY <2>1, <2>2, <2>3 DEF MemoryStep, ListsStep, SessionStep, CandidateStep
<1>7. ASSUME NEW u \in UUIDs, UpdateAutoconnect(u)
      PROVE MemoryStep
  BY <1>7, MemoryUntouched DEF UpdateAutoconnect
<1>8. CASE ExitCaptive
  BY <1>8 DEF ExitCaptive, Leave, MemoryStep, ListsStep, SessionStep, CandidateStep
<1>9. CASE ActivateSaved
  BY <1>9, MemoryUntouched DEF ActivateSaved
<1>10. CASE WaitForActivation
  BY <1>10, MemoryUntouched DEF WaitForActivation
<1>11. CASE Accept
  BY <1>11, MemoryUntouched DEF Accept, AcceptInfrastructure, AcceptStandalone
<1>12. CASE ModeSelected
  BY <1>12, MemoryUntouched DEF ModeSelected
<1>13. CASE DeleteSuperseded
  BY <1>13, MemoryUntouched DEF DeleteSuperseded
<1>14. CASE CommitCheckpoint
  BY <1>14, MemoryUntouched DEF CommitCheckpoint
<1>15. CASE RollbackCheckpoint
  BY <1>15, MemoryUntouched DEF RollbackCheckpoint
<1>16. CASE RemoveRejected
  BY <1>16, MemoryUntouched DEF RemoveRejected
<1>17. CASE RestorePrevious
  BY <1>17, MemoryUntouched DEF RestorePrevious
<1>18. CASE ConfirmPrevious
  BY <1>18, MemoryUntouched DEF ConfirmPrevious
<1> QED
  BY <1>1, <1>2, <1>3, <1>4, <1>5, <1>6, <1>7, <1>8, <1>9, <1>10, <1>11, <1>12, <1>13, <1>14, <1>15, <1>16, <1>17, <1>18 DEF Run

LEMMA OtherMemory ==
    ASSUME Inv, Captive \/ NetworkManager \/ Restart
    PROVE MemoryStep
<1> USE DEF process, captive, plan, progress
<1>1. CASE LeaveProvisioning
  BY <1>1 DEF LeaveProvisioning, Leave, MemoryStep, ListsStep, SessionStep, CandidateStep
<1>2. CASE EnterCompletes
  BY <1>2 DEF EnterCompletes, Leave, MemoryStep, ListsStep, SessionStep, CandidateStep
<1>3. CASE Exit
  BY <1>3 DEF Exit, Leave, MemoryStep, ListsStep, SessionStep, CandidateStep
<1>4. ASSUME NEW u \in UUIDs, EnterProvisioning(u)
      PROVE MemoryStep
  <2>1. /\ UNCHANGED <<todo, listed, cand, kind, pc, checkpoint>>
        /\ u \notin used /\ used' = used \cup {u}
        /\ session' \in {session, u}
        /\ store' = With(store, u, provisioningProfile)
    BY <1>4 DEF EnterProvisioning
  <2>2. store'[u] = provisioningProfile
    BY <2>1 DEF With
  <2>3. store'[u].owned /\ store'[u].role = "provisioning"
    BY <2>2 DEF provisioningProfile
  <2> QED
    BY <2>1, <2>3 DEF MemoryStep, ListsStep, SessionStep, CandidateStep
<1>5. ASSUME NEW u \in UUIDs, Autoconnect(u)
      PROVE MemoryStep
  BY <1>5, MemoryUntouched DEF Autoconnect
<1>6. CASE Crash
  BY <1>6 DEF Crash, Die, MemoryStep, ListsStep, SessionStep, CandidateStep
<1>7. CASE PowerCut
  BY <1>7 DEF PowerCut, Die, MemoryStep, ListsStep, SessionStep, CandidateStep
<1>8. CASE ListPending
  <2>1. \A u \in pendingProfiles(store) : u \in DOMAIN store /\ store[u].owned
    BY DEF pendingProfiles
  <2>2. /\ UNCHANGED <<todo, session, cand, kind, pc>>
        /\ listed' = listed \/ listed' = pendingProfiles(store)
    BY <1>8 DEF ListPending
  <2> QED
    BY <2>1, <2>2 DEF MemoryStep, ListsStep, SessionStep, CandidateStep
<1>9. CASE DeletePending
  BY <1>9 DEF DeletePending, MemoryStep, ListsStep, SessionStep, CandidateStep
<1>10. CASE ActivationEnds
  BY <1>10, MemoryUntouched DEF ActivationEnds
<1>11. CASE LinkLost
  BY <1>11, MemoryUntouched DEF LinkLost
<1>12. CASE CheckpointExpires
  BY <1>12, MemoryUntouched DEF CheckpointExpires
<1>13. CASE Start
  BY <1>13, MemoryUntouched DEF Start
<1>14. CASE RecoverProvisioning
  BY <1>14, MemoryUntouched DEF RecoverProvisioning
<1>15. CASE Stop
  BY <1>15, MemoryUntouched DEF Stop
<1> QED
  BY <1>1, <1>2, <1>3, <1>4, <1>5, <1>6, <1>7, <1>8, <1>9, <1>10, <1>11, <1>12, <1>13, <1>14, <1>15
     DEF Captive, NetworkManager, Restart

-----------------------------------------------------------------------------
(* The types of the process. *)

LEMMA RunProcess ==
    ASSUME Inv, Run
    PROVE ProcessInv'
<1> USE DEF Inv, process, captive, plan, progress, Finish, Reject, Steps, Waited,
            Failures
<1>1. ASSUME NEW k, NEW s \in SSIDs \cup {StandaloneSSID}, Begin(k, s),
             cand' \in UUIDs \cup {None}, k = "saved" => cand' # None
      PROVE ProcessInv'
  <2>1. active \in UUIDs \cup {None}
    BY DEF StoreInv
  <2>2. kind' \in {"new", "saved", "standalone"}
    BY <1>1, InputsAssumption DEF Begin
  <2>3. attempts' \in 0..MaxAttempts
    BY <1>1, InputsAssumption DEF Begin, ProcessInv
  <2> QED BY <1>1, <2>1, <2>2, <2>3 DEF Begin, ProcessInv
<1>2. ASSUME NEW s \in Entered, AttemptNew(s)
      PROVE ProcessInv'
  BY <1>1, <1>2, InputsAssumption DEF AttemptNew
<1>3. CASE AttemptStandalone
  BY <1>1, <1>3 DEF AttemptStandalone
<1>4. ASSUME NEW u \in UUIDs, AttemptSaved(u)
      PROVE ProcessInv'
  <2>1. store[u].ssid \in SSIDs \cup {StandaloneSSID}
    BY <1>4 DEF AttemptSaved, StoreInv, StoredProfiles
  <2> QED BY <1>1, <1>4, <2>1, NoneAssumption DEF AttemptSaved
<1>5. ASSUME NEW u \in UUIDs, AddAndActivate(u)
      PROVE ProcessInv'
  BY <1>5, NoneAssumption DEF AddAndActivate, AddOrActivateFails, ProcessInv
<1>6. CASE Accept
  <2>1. /\ pc = "accept" /\ pc' \in {"read", "rollback"}
        /\ cause' \in {cause, "connection_failed", "connectivity_unavailable"}
        /\ validated' = validated \/ validated' = validated \cup {cand}
    BY <1>6 DEF Accept, AcceptInfrastructure, AcceptStandalone
  <2>2. UNCHANGED <<process, captive, plan, cand, todo, used, outcome, attempts>>
    BY <1>6 DEF Accept
  <2>3. accepted' \in BOOLEAN
    BY <1>6 DEF Accept, AcceptInfrastructure, AcceptStandalone, ProcessInv
  <2> QED BY <2>1, <2>2, <2>3 DEF ProcessInv
<1>7. CASE ReadProfiles
  <2>1. autoconnectUpdates(store, role) \subseteq UUIDs
    BY DEF autoconnectUpdates, StoreInv
  <2> QED BY <1>7, <2>1 DEF ReadProfiles, ProcessInv
<1>8. ASSUME NEW u \in UUIDs, UpdateAutoconnect(u)
      PROVE ProcessInv'
  BY <1>8 DEF UpdateAutoconnect, ProcessInv
<1>9. CASE ExitCaptive
  BY <1>9 DEF ExitCaptive, Leave, ProcessInv
<1>10. CASE CreateCheckpoint
  <2>1. /\ pc = "checkpoint" /\ pc' \in {"activate", "idle"}
        /\ cause' \in {cause, "none"} /\ outcome' \in {outcome, "connection_failed"}
    BY <1>10 DEF CreateCheckpoint
  <2>2. UNCHANGED <<process, captive, plan, cand, todo, validated, used, attempts>>
    BY <1>10 DEF CreateCheckpoint
  <2>3. accepted' \in BOOLEAN
    BY <1>10 DEF CreateCheckpoint, ProcessInv
  <2> QED BY <2>1, <2>2, <2>3 DEF ProcessInv
<1>11. CASE ActivateSaved
  BY <1>11 DEF ActivateSaved, ProcessInv
<1>12. CASE WaitForActivation
  BY <1>12 DEF WaitForActivation, ProcessInv
<1>13. CASE ModeSelected
  BY <1>13 DEF ModeSelected, ProcessInv
<1>14. CASE DeleteSuperseded
  BY <1>14 DEF DeleteSuperseded, ProcessInv
<1>15. CASE CommitCheckpoint
  BY <1>15 DEF CommitCheckpoint, ProcessInv
<1>16. CASE RollbackCheckpoint
  BY <1>16 DEF RollbackCheckpoint, ProcessInv
<1>17. CASE RemoveRejected
  BY <1>17 DEF RemoveRejected, ProcessInv
<1>18. CASE RestorePrevious
  BY <1>18 DEF RestorePrevious, ProcessInv
<1>19. CASE ConfirmPrevious
  BY <1>19 DEF ConfirmPrevious, ProcessInv
<1> QED
  BY <1>2, <1>3, <1>4, <1>5, <1>6, <1>7, <1>8, <1>9, <1>10, <1>11, <1>12, <1>13, <1>14, <1>15, <1>16, <1>17, <1>18, <1>19 DEF Run

LEMMA OtherProcess ==
    ASSUME Inv, Captive \/ NetworkManager \/ Restart
    PROVE ProcessInv'
<1> USE DEF Inv, process, captive, plan, progress, Lives
<1>1. CASE LeaveProvisioning
  BY <1>1 DEF LeaveProvisioning, Leave, ProcessInv
<1>2. CASE EnterCompletes
  <2>1. session' \in {session, None}
    BY <1>2 DEF EnterCompletes, Leave
  <2>2. UNCHANGED <<process, plan, progress, used, attempts>>
    BY <1>2 DEF EnterCompletes
  <2>3. entering' \in BOOLEAN
    BY <1>2 DEF EnterCompletes
  <2> QED BY <2>1, <2>2, <2>3 DEF ProcessInv
<1>3. CASE Exit
  BY <1>3 DEF Exit, Leave, ProcessInv
<1>4. CASE ActivationEnds
  BY <1>4 DEF ActivationEnds, ProcessInv
<1>5. CASE LinkLost
  BY <1>5 DEF LinkLost, ProcessInv
<1>6. CASE CheckpointExpires
  BY <1>6 DEF CheckpointExpires, ProcessInv
<1>7. CASE Crash
  BY <1>7 DEF Crash, Die, Steps, Waited, ProcessInv
<1>8. CASE PowerCut
  BY <1>8 DEF PowerCut, Die, Steps, Waited, ProcessInv
<1>9. CASE Start
  BY <1>9 DEF Start, ProcessInv
<1>10. CASE RecoverProvisioning
  <2>1. life' \in Lives
    BY <1>10 DEF RecoverProvisioning
  <2>2. UNCHANGED <<listed, swept, captive, plan, progress, used, attempts>>
    BY <1>10 DEF RecoverProvisioning
  <2> QED BY <2>1, <2>2 DEF ProcessInv
<1>11. CASE DeletePending
  BY <1>11 DEF DeletePending, ProcessInv
<1>12. CASE Stop
  BY <1>12 DEF Stop, ProcessInv
<1>13. ASSUME NEW u \in UUIDs, EnterProvisioning(u)
       PROVE ProcessInv'
  <2>1. session' \in {session, u} /\ entering' \in {entering, TRUE}
    BY <1>13 DEF EnterProvisioning
  <2>2. UNCHANGED <<process, plan, progress, attempts>> /\ used' = used \cup {u}
    BY <1>13 DEF EnterProvisioning
  <2>3. /\ session' \in UUIDs \cup {None} /\ entering' \in BOOLEAN
        /\ used' \subseteq UUIDs
    BY <1>13, <2>1, <2>2 DEF ProcessInv
  <2> QED BY <2>2, <2>3 DEF ProcessInv
<1>14. ASSUME NEW u \in UUIDs, Autoconnect(u)
       PROVE ProcessInv'
  BY <1>14 DEF Autoconnect, ProcessInv
<1>15. CASE ListPending
  <2>1. pendingProfiles(store) \subseteq UUIDs
    BY DEF pendingProfiles, StoreInv
  <2> QED BY <1>15, <2>1 DEF ListPending, ProcessInv
<1> QED
  BY <1>1, <1>2, <1>3, <1>4, <1>5, <1>6, <1>7, <1>8, <1>9, <1>10, <1>11, <1>12, <1>13, <1>14, <1>15
     DEF Captive, NetworkManager, Restart

-----------------------------------------------------------------------------
(* Selection. *)

\* Fewer profiles leave fewer to update and fewer to delete.
LEMMA FewerSelected ==
    ASSUME NEW r, NEW name, NEW keep,
           DOMAIN store' \subseteq DOMAIN store,
           \A u \in DOMAIN store' : store'[u] = store[u]
    PROVE /\ autoconnectUpdates(store', r) \subseteq autoconnectUpdates(store, r)
          /\ supersededProfiles(store', r, name, keep)
                \subseteq supersededProfiles(store, r, name, keep)
  BY DEF autoconnectUpdates, supersededProfiles

\* The candidate's role is a production mode.
LEMMA RoleIsProduction == role \in {"infrastructure", "standalone"}
  BY DEF role

\* Steps of the rest of the system, which the running transition sees only in the
\* store and the checkpoint.
NoMoreToSelect ==
    /\ autoconnectUpdates(store', role) \subseteq autoconnectUpdates(store, role)
    /\ supersededProfiles(store', role, ssid, cand)
          \subseteq supersededProfiles(store, role, ssid, cand)
CandidateStays ==
    /\ swept => swept'
    /\ pc \in Selecting /\ cand \in DOMAIN store => cand \in DOMAIN store' \/ swept'

LEMMA SelectionKept ==
    ASSUME Inv, UNCHANGED <<plan, progress>>, checkpoint' \subseteq checkpoint,
           checkpoint' # {} \/ pc = "leave" => NoMoreToSelect,
           CandidateStays
    PROVE AcceptedInv' /\ SelectionInv'
<1> USE DEF Inv
<1>1. role' = role /\ UNCHANGED <<pc, cand, ssid, todo, accepted, validated>>
  BY DEF role, plan, progress
<1>2. AcceptedInv'
  BY <1>1 DEF AcceptedInv, CandidateStays
<1>3. SelectionInv'
  BY <1>1 DEF SelectionInv, NoMoreToSelect
<1> QED BY <1>2, <1>3

LEMMA OtherSelection ==
    ASSUME Inv, Captive \/ NetworkManager \/ Restart
    PROVE AcceptedInv' /\ SelectionInv'
<1> USE DEF Inv
<1>0. used \subseteq UUIDs
  BY DEF ProcessInv
<1>1. ASSUME UNCHANGED <<store, plan, progress, swept>>, checkpoint' \subseteq checkpoint
      PROVE AcceptedInv' /\ SelectionInv'
  BY <1>1, SelectionKept DEF NoMoreToSelect, CandidateStays
<1>2. ASSUME UNCHANGED <<checkpoint, used, plan, progress>>, NEW gone, Delete(gone),
             \A u \in gone \cap DOMAIN store : store[u].owned,
             CandidateStays
      PROVE AcceptedInv' /\ SelectionInv'
  <2>1. UNCHANGED <<checkpoint, used, accepted>>
    BY <1>2 DEF progress
  <2>2. Shrinks
    BY <1>0, <1>2, <2>1, DeleteShrinks
  <2>3. NoMoreToSelect
    BY <2>2, FewerSelected DEF Shrinks, NoMoreToSelect
  <2> QED BY <1>2, <2>3, SelectionKept
<1>3. ASSUME UNCHANGED <<checkpoint, used, plan, progress, swept>>, NEW gone,
             Delete(gone),
             \A u \in gone \cap DOMAIN store :
                store[u].owned /\ store[u].role = "provisioning"
      PROVE AcceptedInv' /\ SelectionInv'
  <2>1. pc \in Selecting /\ cand \in DOMAIN store => cand \notin gone
    BY <1>3, RoleIsProduction DEF Selecting, MemoryInv, CandidateInv
  <2>2. DOMAIN store' = DOMAIN store \ gone
    BY <1>3 DEF Delete, Without
  <2>3. CandidateStays
    BY <1>3, <2>1, <2>2 DEF CandidateStays
  <2> QED BY <1>2, <1>3, <2>3
<1>4. ASSUME UNCHANGED <<checkpoint, used, plan, progress, swept>>, Leave
      PROVE AcceptedInv' /\ SelectionInv'
  <2>1. CASE Delete({session})
    <3>1. \A u \in {session} \cap DOMAIN store :
             store[u].owned /\ store[u].role = "provisioning"
      BY DEF MemoryInv, SessionInv
    <3> QED BY <1>3, <1>4, <2>1, <3>1
  <2>2. CASE UNCHANGED store
    BY <1>1, <1>4, <2>2
  <2> QED BY <1>4, <2>1, <2>2 DEF Leave
<1>5. CASE LeaveProvisioning
  BY <1>4, <1>5 DEF LeaveProvisioning, process
<1>6. CASE EnterCompletes
  <2>1. UNCHANGED <<checkpoint, used, plan, progress, swept>>
    BY <1>6 DEF EnterCompletes, process
  <2>2. CASE Delete(supersededProfiles(store, "provisioning", "", session))
    BY <1>3, <2>1, <2>2 DEF supersededProfiles, matches
  <2>3. CASE UNCHANGED <<store, active, up, session>>
    BY <1>1, <2>1, <2>3
  <2> QED BY <1>4, <1>6, <2>1, <2>2, <2>3 DEF EnterCompletes
<1>7. ASSUME NEW u \in UUIDs, EnterProvisioning(u)
      PROVE AcceptedInv' /\ SelectionInv'
  <2>1. /\ store' = With(store, u, provisioningProfile) /\ u \notin used
        /\ UNCHANGED <<checkpoint, plan, progress, swept>>
    BY <1>7 DEF EnterProvisioning, process
  <2>2. /\ DOMAIN store' = DOMAIN store \cup {u}
        /\ store'[u] = provisioningProfile
        /\ \A v \in DOMAIN store : store'[v] = store[v]
    BY <2>1 DEF With, StoreInv
  <2>3. store'[u].role = "provisioning"
    BY <2>2 DEF provisioningProfile
  <2>4. NoMoreToSelect
    BY <2>2, <2>3, RoleIsProduction
       DEF NoMoreToSelect, autoconnectUpdates, supersededProfiles, Production, matches
  <2>5. CandidateStays
    BY <2>1, <2>2 DEF CandidateStays
  <2> QED BY <2>1, <2>4, <2>5, SelectionKept
<1>8. CASE CheckpointExpires
  <2>1. PICK c \in checkpoint : store' = With(store, c.uuid, c.profile) /\ checkpoint' = {}
    BY <1>8 DEF CheckpointExpires, RestoreSnapshot
  <2>2. pc # "leave"
    BY <2>1 DEF SelectionInv
  <2>3. UNCHANGED <<plan, progress, swept>>
    BY <1>8 DEF CheckpointExpires, process
  <2>4. CandidateStays
    BY <2>1, <2>3 DEF CandidateStays, With
  <2> QED BY <2>1, <2>2, <2>3, <2>4, SelectionKept
<1>9. CASE ActivationEnds
  BY <1>1, <1>9 DEF ActivationEnds, process
<1>10. CASE LinkLost
  BY <1>1, <1>10 DEF LinkLost, process
<1>11. ASSUME NEW u \in UUIDs, Autoconnect(u)
       PROVE AcceptedInv' /\ SelectionInv'
  BY <1>1, <1>11 DEF Autoconnect, process
<1>12. CASE Crash \/ PowerCut
  BY <1>12 DEF Crash, PowerCut, Die, AcceptedInv, SelectionInv, Selecting
<1>13. CASE Start
  BY <1>1, <1>13 DEF Start, network
<1>14. CASE RecoverProvisioning
  <2>1. PICK gone \in SUBSET supersededProfiles(store, "provisioning", "", None) :
           Delete(gone)
    BY <1>14 DEF RecoverProvisioning
  <2>2. \A u \in gone \cap DOMAIN store :
           store[u].owned /\ store[u].role = "provisioning"
    BY DEF supersededProfiles, matches
  <2>3. UNCHANGED <<checkpoint, used, plan, progress, swept>>
    BY <1>14 DEF RecoverProvisioning
  <2> QED BY <1>3, <2>1, <2>2, <2>3
<1>15. CASE ListPending
  BY <1>1, <1>15 DEF ListPending, network
<1>16. CASE DeletePending
  <2>1. PICK gone \in SUBSET listed :
           /\ Delete(gone)
           /\ swept' = (swept \/ \E u \in gone \cap DOMAIN store :
                           ~store[u].pending \/ (pc # "idle" /\ u = cand))
    BY <1>16 DEF DeletePending
  <2>2. \A u \in gone \cap DOMAIN store : store[u].owned
    BY DEF MemoryInv, ListsInv
  <2>3. UNCHANGED <<checkpoint, used, plan, progress>>
    BY <1>16 DEF DeletePending
  <2>4. DOMAIN store' = DOMAIN store \ gone
    BY <2>1 DEF Delete, Without
  <2>5. CandidateStays
    <3>1. swept => swept'
      BY <2>1
    <3>2. ASSUME pc \in Selecting, cand \in DOMAIN store, cand \in gone
          PROVE swept'
      BY <2>1, <3>2 DEF Selecting
    <3> QED BY <2>4, <3>1, <3>2 DEF CandidateStays
  <2> QED BY <1>2, <2>1, <2>2, <2>3, <2>5
<1>17. CASE Stop
  BY <1>1, <1>17 DEF Stop, network
<1>18. CASE Exit
  BY <1>4, <1>18 DEF Exit
<1> QED
  BY <1>5, <1>6, <1>7, <1>8, <1>9, <1>10, <1>11, <1>12, <1>13, <1>14, <1>15, <1>16,
     <1>17, <1>18 DEF Captive, NetworkManager, Restart

LEMMA RunSelection ==
    ASSUME Inv, Run
    PROVE AcceptedInv' /\ SelectionInv'
<1> USE DEF Inv
<1>1. ASSUME pc' \notin Selecting
      PROVE AcceptedInv' /\ SelectionInv'
  BY <1>1 DEF AcceptedInv, SelectionInv, Selecting
<1>2. ASSUME NEW s \in Entered, AttemptNew(s)
      PROVE AcceptedInv' /\ SelectionInv'
  BY <1>1, <1>2 DEF AttemptNew, Begin, Selecting
<1>3. ASSUME NEW u \in UUIDs, AttemptSaved(u)
      PROVE AcceptedInv' /\ SelectionInv'
  BY <1>1, <1>3 DEF AttemptSaved, Begin, Selecting
<1>4. ASSUME NEW u \in UUIDs, AddAndActivate(u)
      PROVE AcceptedInv' /\ SelectionInv'
  BY <1>1, <1>4 DEF AddAndActivate, Reject, Selecting
<1>5. CASE Accept
  <2>1. CASE pc' = "rollback"
    BY <1>1, <2>1 DEF Selecting
  <2>2. CASE pc' # "rollback"
    <3>1. /\ pc' = "read" /\ active = cand /\ accepted' = TRUE
          /\ validated' = validated \cup {cand} /\ pc = "accept"
      BY <1>5, <2>2 DEF Accept, AcceptInfrastructure, AcceptStandalone, Reject
    <3>2. cand # None
      BY <3>1 DEF ProcessInv, Waited
    <3>3. cand \in DOMAIN store /\ store' = store /\ cand' = cand
      BY <1>5, <3>1, <3>2 DEF StoreInv, Accept, network
    <3> QED BY <3>1, <3>3 DEF AcceptedInv, SelectionInv
  <2> QED BY <2>1, <2>2
<1>6. CASE ReadProfiles
  <2>1. CASE pc' = "rollback"
    BY <1>1, <2>1 DEF Selecting
  <2>2. CASE pc' # "rollback"
    <3>1. /\ pc = "read" /\ pc' = "select" /\ todo' = autoconnectUpdates(store, role)
          /\ UNCHANGED <<store, swept, kind, cand, accepted, validated>>
      BY <1>6, <2>2 DEF ReadProfiles, Reject, network, process, plan
    <3>2. role' = role
      BY <3>1 DEF role
    <3> QED BY <3>1, <3>2 DEF AcceptedInv, SelectionInv, Selecting
  <2> QED BY <2>1, <2>2
<1>7. ASSUME NEW u \in UUIDs, UpdateAutoconnect(u)
      PROVE AcceptedInv' /\ SelectionInv'
  <2>1. CASE pc' = "rollback"
    BY <1>1, <2>1 DEF Selecting
  <2>2. CASE pc' # "rollback"
    <3>1. /\ pc = "select" /\ pc' = "select" /\ todo' = todo \ {u}
          /\ UNCHANGED <<checkpoint, swept, kind, cand, accepted, validated>>
      BY <1>7, <2>2 DEF UpdateAutoconnect, Reject, process, plan
    <3>2. store' = IF u \in DOMAIN store
                     THEN [store EXCEPT ![u] =
                              rebuildOwnedSettings(@, @.role = role)]
                     ELSE store
      BY <1>7, <2>2 DEF UpdateAutoconnect, Reject
    <3>3. role' = role
      BY <3>1 DEF role
    <3>4. DOMAIN store' = DOMAIN store
      BY <3>2
    <3>5. \A v \in DOMAIN store \ {u} : store'[v] = store[v]
      BY <3>2
    <3>6. u \in DOMAIN store => store'[u].autoconnect = (store'[u].role = role)
      <4> SUFFICES ASSUME u \in DOMAIN store
                   PROVE store'[u].autoconnect = (store'[u].role = role)
        OBVIOUS
      <4> DEFINE rebuilt == rebuildOwnedSettings(store[u], store[u].role = role)
      <4>1. store'[u] = rebuilt
        BY <3>2
      <4>2. store[u] \in StoredProfiles /\ (store[u].role = role) \in BOOLEAN
        BY DEF StoreInv
      <4>3. rebuilt.role = store[u].role /\ rebuilt.autoconnect = (store[u].role = role)
        BY <4>2, Rebuilt
      <4> QED BY <4>1, <4>3
    <3>7. autoconnectUpdates(store', role) \subseteq autoconnectUpdates(store, role) \ {u}
      BY <3>4, <3>5, <3>6 DEF autoconnectUpdates
    <3> QED BY <3>1, <3>3, <3>4, <3>7 DEF AcceptedInv, SelectionInv, Selecting
  <2> QED BY <2>1, <2>2
<1>8. CASE ModeSelected
  <2>1. /\ pc = "select" /\ pc' = "supersede" /\ todo = {}
        /\ UNCHANGED <<network, swept, kind, cand, accepted, validated>>
    BY <1>8 DEF ModeSelected, process, plan
  <2>2. role' = role
    BY <2>1 DEF role
  <2> QED BY <2>1, <2>2 DEF AcceptedInv, SelectionInv, Selecting, network
<1>9. CASE DeleteSuperseded
  <2>1. CASE pc' = "rollback"
    BY <1>1, <2>1 DEF Selecting
  <2>2. CASE pc' # "rollback"
    <3> DEFINE superseded == supersededProfiles(store, role, ssid, cand)
    <3>1. /\ pc = "supersede" /\ pc' = "commit" /\ Delete(superseded)
          /\ UNCHANGED <<checkpoint, swept, kind, ssid, cand, accepted, validated>>
      BY <1>9, <2>2 DEF DeleteSuperseded, Reject, process, plan
    <3>2. role' = role
      BY <3>1 DEF role
    <3> HIDE DEF superseded
    <3>3. store' = Without(store, superseded)
      BY <3>1 DEF Delete
    <3>4. /\ DOMAIN store' = DOMAIN store \ superseded
          /\ \A u \in DOMAIN store' : store'[u] = store[u]
      BY <3>3 DEF Without
    <3>5. cand \notin superseded
      BY DEF superseded, supersededProfiles
    <3>6. supersededProfiles(store', role, ssid, cand) = {}
      <4>1. supersededProfiles(store', role, ssid, cand) \subseteq superseded
        BY <3>4, FewerSelected DEF superseded
      <4> QED BY <3>4, <4>1 DEF supersededProfiles
    <3>7. autoconnectUpdates(store', role) \subseteq autoconnectUpdates(store, role)
      BY <3>4, FewerSelected
    <3> QED BY <3>1, <3>2, <3>4, <3>5, <3>6, <3>7 DEF AcceptedInv, SelectionInv, Selecting
  <2> QED BY <2>1, <2>2
<1>10. CASE CommitCheckpoint
  <2>1. CASE pc' = "rollback"
    BY <1>1, <2>1 DEF Selecting
  <2>2. CASE pc' # "rollback"
    <3>1. /\ pc = "commit" /\ pc' = "leave" /\ checkpoint # {} /\ checkpoint' = {}
          /\ UNCHANGED <<store, swept, kind, ssid, cand, accepted, validated>>
      BY <1>10, <2>2 DEF CommitCheckpoint, Reject, process, plan
    <3>2. role' = role
      BY <3>1 DEF role
    <3> QED BY <3>1, <3>2 DEF AcceptedInv, SelectionInv, Selecting
  <2> QED BY <2>1, <2>2
<1>11. CASE CreateCheckpoint
  BY <1>1, <1>11 DEF CreateCheckpoint, Finish, Reject, Selecting
<1>12. CASE ActivateSaved
  BY <1>1, <1>12 DEF ActivateSaved, Finish, Reject, Selecting
<1>13. CASE WaitForActivation
  BY <1>1, <1>13 DEF WaitForActivation, Finish, Reject, Selecting
<1>14. CASE RollbackCheckpoint
  BY <1>1, <1>14 DEF RollbackCheckpoint, Finish, Reject, Selecting
<1>15. CASE RemoveRejected
  BY <1>1, <1>15 DEF RemoveRejected, Finish, Reject, Selecting
<1>16. CASE RestorePrevious
  BY <1>1, <1>16 DEF RestorePrevious, Finish, Reject, Selecting
<1>17. CASE ConfirmPrevious
  BY <1>1, <1>17 DEF ConfirmPrevious, Finish, Reject, Selecting
<1>18. CASE ExitCaptive
  BY <1>1, <1>18 DEF ExitCaptive, Finish, Reject, Selecting
<1>19. CASE AttemptStandalone
  BY <1>1, <1>19 DEF AttemptStandalone, Begin, Finish, Reject, Selecting
<1> QED
  BY <1>2, <1>3, <1>4, <1>5, <1>6, <1>7, <1>8, <1>9, <1>10, <1>11, <1>12, <1>13, <1>14, <1>15, <1>16, <1>17, <1>18, <1>19 DEF Run

-----------------------------------------------------------------------------
(* The invariant. *)

LEMMA InitInv == Init => Inv
<1> SUFFICES ASSUME Init
             PROVE Inv
  OBVIOUS
<1> USE DEF Init
<1>1. StoreInv
  <2>1. /\ DOMAIN store \subseteq UUIDs
        /\ \A u \in DOMAIN store :
              /\ store[u] \in StoredProfiles
              /\ store[u].pending => ~store[u].autoconnect
              /\ store[u].role = "provisioning" => store[u].owned
    BY StoresAssumption
  <2>2. /\ used = DOMAIN store /\ active \in DOMAIN store /\ up = TRUE
    OBVIOUS
  <2>3. active # None
    BY <2>1, <2>2, NoneAssumption
  <2>4. up \in BOOLEAN
    BY <2>2
  <2>5. DOMAIN store \subseteq UUIDs \cap used
    BY <2>1, <2>2
  <2> HIDE DEF Init
  <2>6. PendingIsInert
    BY <2>1 DEF PendingIsInert
  <2>7. /\ active # None => active \in DOMAIN store
        /\ up => active # None
    BY <2>2, <2>3
  <2>8. /\ \A u \in DOMAIN store : store[u] \in StoredProfiles
        /\ \A u \in DOMAIN store : store[u].role = "provisioning" => store[u].owned
    BY <2>1
  <2> QED BY <2>4, <2>5, <2>6, <2>7, <2>8 DEF StoreInv
<1>2. SnapshotInv
  BY DEF SnapshotInv
<1>3. ListsInv /\ CandidateInv
  BY <1>1, NoneAssumption DEF ListsInv, CandidateInv, StoreInv
<1>4. SessionInv
  BY <1>1, NoneAssumption DEF SessionInv, StoreInv
<1>5. AcceptedInv /\ SelectionInv
  BY DEF AcceptedInv, SelectionInv, Selecting
<1>6. ProcessInv
  <2>1. 0 \in 0..MaxAttempts
    BY InputsAssumption
  <2>2. DOMAIN store \subseteq UUIDs
    BY <1>1 DEF StoreInv
  <2> QED BY <2>1, <2>2 DEF ProcessInv, Lives, Steps, Waited
<1> QED BY <1>1, <1>2, <1>3, <1>4, <1>5, <1>6 DEF Inv, MemoryInv

LEMMA StepInv == Inv /\ [Next]_vars => Inv'
<1> SUFFICES ASSUME Inv, [Next]_vars
             PROVE Inv'
  OBVIOUS
<1>1. StoreInv' /\ SnapshotInv' /\ Evolves
  BY StoreStep
<1>2. CASE Next
  <2>1. MemoryStep
    BY <1>2, RunMemory, OtherMemory DEF Next
  <2>2. MemoryInv'
    BY <1>1, <2>1, MemoryKept
  <2>3. AcceptedInv' /\ SelectionInv'
    BY <1>2, RunSelection, OtherSelection DEF Next
  <2>4. ProcessInv'
    BY <1>2, RunProcess, OtherProcess DEF Next
  <2> QED BY <1>1, <2>2, <2>3, <2>4 DEF Inv
<1>3. CASE UNCHANGED vars
  <2> USE <1>3 DEF vars, network, process, captive, plan, progress
  <2>1. MemoryStep
    BY MemoryUntouched
  <2>2. MemoryInv'
    BY <1>1, <2>1, MemoryKept
  <2>3. AcceptedInv' /\ SelectionInv'
    BY SelectionKept DEF NoMoreToSelect, CandidateStays
  <2>4. ProcessInv'
    BY DEF Inv, ProcessInv
  <2> QED BY <1>1, <2>2, <2>3, <2>4 DEF Inv
<1> QED BY <1>2, <1>3

\* The inductive invariant holds in every reachable state.
THEOREM Invariance == Spec => []Inv
  BY InitInv, StepInv, PTL DEF Spec

\* The types of the model, for any number of transitions, restarts and profiles.
THEOREM TypeCorrect == Spec => []TypeOK
<1>1. Inv => TypeOK
  <2> SUFFICES ASSUME Inv
               PROVE TypeOK
    OBVIOUS
  <2>1. /\ DOMAIN store \subseteq UUIDs
        /\ \A u \in DOMAIN store : store[u] \in StoredProfiles
        /\ active \in UUIDs \cup {None} /\ up \in BOOLEAN
    BY DEF Inv, StoreInv
  <2>2. \A c \in checkpoint : c.uuid \in UUIDs
    BY DEF Inv, SnapshotInv
  <2> QED BY <2>1, <2>2 DEF Inv, ProcessInv, TypeOK
<1> QED BY <1>1, Invariance, PTL

\* An interrupted candidate never starts at boot: whatever adds, updates, restores
\* or snapshots a profile keeps pending profiles out of autoconnect.
THEOREM CandidatesInert == Spec => []PendingIsInert
<1>1. Inv => PendingIsInert
  BY DEF Inv, StoreInv
<1> QED BY <1>1, Invariance, PTL

\* No step of any part of the system modifies or deletes a profile that onboardd
\* does not own; a rollback puts back what is there.
THEOREM ForeignProfiles == Spec => ForeignUntouched
<1>1. Inv /\ [Next]_vars =>
         [\A u \in DOMAIN store : ~store[u].owned =>
             u \in DOMAIN store' /\ store'[u] = store[u]]_vars
  BY StoreStep DEF Evolves
<1> QED BY <1>1, Invariance, PTL DEF Spec, ForeignUntouched

-----------------------------------------------------------------------------
(* What happens to production profiles. *)

\* Only setup access points change.
SparesProduction ==
    \A u \in DOMAIN store : store[u].role # "provisioning" =>
        u \in DOMAIN store' /\ store'[u] = store[u]

\* A production profile is changed by a rollback, by the deletion of a rejected
\* candidate, by startup recovery and by selecting a mode, and by nothing else.
LEMMA RunSpares ==
    ASSUME Inv, Run
    PROVE /\ validated \subseteq validated'
          /\ \/ SparesProduction \/ RestoreSnapshot
             \/ RemoveRejected \/ DeleteSuperseded
             \/ \E u \in UUIDs : UpdateAutoconnect(u)
<1> USE DEF Inv
<1> DEFINE Goal == SparesProduction /\ validated \subseteq validated'
<1>1. ASSUME UNCHANGED <<store, validated>>
      PROVE Goal
  BY <1>1 DEF SparesProduction
<1>2. ASSUME NEW s \in Entered, AttemptNew(s)
      PROVE Goal
  BY <1>1, <1>2 DEF AttemptNew, Begin, network
<1>3. ASSUME NEW u \in UUIDs, AttemptSaved(u)
      PROVE Goal
  BY <1>1, <1>3 DEF AttemptSaved, Begin, network
<1>4. ASSUME NEW u \in UUIDs, AddAndActivate(u)
      PROVE Goal
  <2> DEFINE profile == IF kind = "new" THEN infrastructureCandidate(ssid)
                                        ELSE standaloneCandidate(ssid)
  <2>1. /\ u \notin used /\ UNCHANGED validated
        /\ store' \in {store, With(store, u, profile)}
    BY <1>4 DEF AddAndActivate, AddOrActivateFails
  <2> HIDE DEF profile
  <2> QED BY <2>1 DEF SparesProduction, StoreInv, With
<1>5. CASE ExitCaptive
  <2>1. UNCHANGED validated
    BY <1>5 DEF ExitCaptive
  <2>2. CASE UNCHANGED store
    BY <1>1, <2>1, <2>2
  <2>3. CASE Delete({session})
    BY <2>1, <2>3 DEF Delete, Without, SparesProduction, MemoryInv, SessionInv
  <2> QED BY <1>5, <2>2, <2>3 DEF ExitCaptive, Leave
<1>6. CASE RollbackCheckpoint
  BY <1>1, <1>6 DEF RollbackCheckpoint
<1>7. CASE RemoveRejected \/ DeleteSuperseded \/ \E u \in UUIDs : UpdateAutoconnect(u)
  BY <1>7 DEF RemoveRejected, DeleteSuperseded, UpdateAutoconnect
<1>8. CASE Accept
  <2>1. UNCHANGED store /\ validated \subseteq validated'
    BY <1>8 DEF Accept, AcceptInfrastructure, AcceptStandalone, network
  <2> QED BY <2>1 DEF SparesProduction
<1>9. CASE AttemptStandalone
  BY <1>1, <1>9 DEF AttemptStandalone, Begin, network
<1>10. CASE CreateCheckpoint
  BY <1>1, <1>10 DEF CreateCheckpoint, network
<1>11. CASE ActivateSaved
  BY <1>1, <1>11 DEF ActivateSaved, network
<1>12. CASE WaitForActivation
  BY <1>1, <1>12 DEF WaitForActivation, network
<1>13. CASE ReadProfiles
  BY <1>1, <1>13 DEF ReadProfiles, network
<1>14. CASE ModeSelected
  BY <1>1, <1>14 DEF ModeSelected, network
<1>15. CASE CommitCheckpoint
  BY <1>1, <1>15 DEF CommitCheckpoint, network
<1>16. CASE RestorePrevious
  BY <1>1, <1>16 DEF RestorePrevious, network
<1>17. CASE ConfirmPrevious
  BY <1>1, <1>17 DEF ConfirmPrevious, network
<1> QED
  BY <1>2, <1>3, <1>4, <1>5, <1>6, <1>7, <1>8, <1>9, <1>10, <1>11, <1>12, <1>13, <1>14, <1>15, <1>16, <1>17 DEF Run

LEMMA OtherSpares ==
    ASSUME Inv, Captive \/ NetworkManager \/ Restart
    PROVE /\ validated \subseteq validated'
          /\ SparesProduction \/ RestoreSnapshot \/ DeletePending
<1> USE DEF Inv, progress
<1>0. UNCHANGED validated
  BY DEF Captive, LeaveProvisioning, EnterCompletes, EnterProvisioning,
         NetworkManager, ActivationEnds, LinkLost, CheckpointExpires, Autoconnect,
         Restart, Crash, PowerCut, Die, Start, RecoverProvisioning, ListPending,
         DeletePending, Stop, Exit
<1>1. ASSUME UNCHANGED store
      PROVE SparesProduction
  BY <1>1 DEF SparesProduction
<1>2. ASSUME NEW gone, store' = Without(store, gone),
             \A u \in gone \cap DOMAIN store : store[u].role = "provisioning"
      PROVE SparesProduction
  BY <1>2 DEF SparesProduction, Without
<1>3. ASSUME Leave
      PROVE SparesProduction
  <2>1. CASE UNCHANGED store
    BY <1>1, <2>1
  <2>2. CASE Delete({session})
    <3>1. \A u \in {session} \cap DOMAIN store : store[u].role = "provisioning"
      BY DEF MemoryInv, SessionInv
    <3> QED BY <1>2, <2>2, <3>1 DEF Delete
  <2> QED BY <1>3, <2>1, <2>2 DEF Leave
<1>4. CASE Captive
  <2>1. ASSUME NEW u \in UUIDs, EnterProvisioning(u)
        PROVE SparesProduction
    BY <2>1 DEF EnterProvisioning, With, StoreInv, SparesProduction
  <2>2. CASE EnterCompletes
    <3>1. CASE Delete(supersededProfiles(store, "provisioning", "", session))
      <4>1. PICK gone : gone = supersededProfiles(store, "provisioning", "", session)
        OBVIOUS
      <4>2. \A u \in gone \cap DOMAIN store : store[u].role = "provisioning"
        BY <4>1 DEF supersededProfiles, matches
      <4>3. store' = Without(store, gone)
        BY <3>1, <4>1 DEF Delete
      <4> QED BY <1>0, <1>2, <4>2, <4>3
    <3> QED BY <1>1, <1>3, <2>2, <3>1 DEF EnterCompletes
  <2> QED BY <1>0, <1>3, <1>4, <2>1, <2>2 DEF Captive, LeaveProvisioning
<1>5. CASE NetworkManager
  BY <1>0, <1>1, <1>5
     DEF NetworkManager, ActivationEnds, LinkLost, CheckpointExpires, Autoconnect
<1>6. CASE Restart
  <2>1. CASE PowerCut
    BY <1>0, <1>2, <2>1 DEF PowerCut
  <2>2. CASE RecoverProvisioning
    <3>1. PICK gone \in SUBSET supersededProfiles(store, "provisioning", "", None) :
             Delete(gone)
      BY <2>2 DEF RecoverProvisioning
    <3>2. \A u \in gone \cap DOMAIN store : store[u].role = "provisioning"
      BY DEF supersededProfiles, matches
    <3> QED BY <1>0, <1>2, <3>1, <3>2 DEF Delete
  <2>3. CASE Crash \/ Start \/ ListPending \/ Stop
    BY <1>0, <1>1, <2>3 DEF Crash, Start, ListPending, Stop, network
  <2> QED BY <1>0, <1>3, <1>6, <2>1, <2>2, <2>3 DEF Restart, Exit
<1> QED BY <1>4, <1>5, <1>6

\* A transition that fails without saying "restoration_failed" leaves the device on
\* the connection it had: only restorePreviousConnection and the wait after it
\* return such a failure, and a connection that is up has a stored profile.
THEOREM FailureRestores == Spec => RestorationReported
<1> DEFINE Step == pc \notin {"idle", "checkpoint"} /\ pc' = "idle" /\ life' # "down"
                   /\ outcome' \in {"connection_failed", "connectivity_unavailable"}
                      => active' = prev /\ up' /\ prev \in DOMAIN store'
<1>1. Inv /\ [Next]_vars => [Step]_vars
  <2> SUFFICES ASSUME Inv, Next, pc \notin {"idle", "checkpoint"}, pc' = "idle",
                      life' # "down",
                      outcome' \in {"connection_failed", "connectivity_unavailable"}
               PROVE active' = prev /\ up' /\ prev \in DOMAIN store'
    BY DEF Step
  <2>1. (RestorePrevious \/ ConfirmPrevious) /\ PreviousActive
        /\ UNCHANGED <<store, active, up>>
    <3> USE DEF Begin, Finish, Reject, process, plan, progress
    <3>1. CASE Run
      <4>1. ASSUME NEW s \in Entered
            PROVE ~AttemptNew(s)
        BY DEF AttemptNew
      <4>2. ASSUME NEW u \in UUIDs
            PROVE ~AttemptSaved(u) /\ ~AddAndActivate(u) /\ ~UpdateAutoconnect(u)
        BY DEF AttemptSaved, AddAndActivate, UpdateAutoconnect
      <4>3. ~AttemptStandalone /\ ~CreateCheckpoint /\ ~ActivateSaved
        BY DEF AttemptStandalone, CreateCheckpoint, ActivateSaved
      <4>4. ~WaitForActivation /\ ~Accept /\ ~ReadProfiles /\ ~ModeSelected
        BY DEF WaitForActivation, Accept, AcceptInfrastructure, AcceptStandalone,
               ReadProfiles, ModeSelected
      <4>5. ~DeleteSuperseded /\ ~CommitCheckpoint /\ ~RemoveRejected
        BY DEF DeleteSuperseded, CommitCheckpoint, RemoveRejected
      <4>6. ~ExitCaptive /\ ~RollbackCheckpoint
        BY DEF ExitCaptive, RollbackCheckpoint
      <4>7. CASE RestorePrevious
        BY <4>7 DEF RestorePrevious
      <4>8. CASE ConfirmPrevious
        BY <4>8 DEF ConfirmPrevious, network
      <4> QED BY <3>1, <4>1, <4>2, <4>3, <4>4, <4>5, <4>6, <4>7, <4>8 DEF Run
    <3>2. ~Captive
      BY DEF Captive, LeaveProvisioning, EnterCompletes, EnterProvisioning
    <3>3. ~NetworkManager
      BY DEF NetworkManager, ActivationEnds, LinkLost, CheckpointExpires, Autoconnect
    <3>4. ~Restart
      BY DEF Restart, Crash, PowerCut, Die, Start, RecoverProvisioning, ListPending,
             DeletePending, Stop, Exit
    <3> QED BY <3>1, <3>2, <3>3, <3>4 DEF Next
  <2> QED BY <2>1 DEF PreviousActive, Inv, StoreInv
<1> QED BY <1>1, Invariance, PTL DEF Spec, RestorationReported

\* Until a candidate is accepted, its transition changes no committed production
\* profile: mode selection has not begun, a snapshot still equals its profile, and
\* what else is deleted is the candidate or a setup access point.
THEOREM RejectionIsReversible == Spec => RejectionChangesNothing
<1> DEFINE Step == ~accepted /\ ~swept' =>
          \A u \in DOMAIN store :
              Production(store[u]) /\ ~store[u].pending /\ (u # cand \/ kind = "saved")
                => u \in DOMAIN store' /\ store'[u] = store[u]
<1>1. Inv /\ [Next]_vars => [Step]_vars
  <2> SUFFICES ASSUME Inv, Next, ~accepted, ~swept', NEW u \in DOMAIN store,
                      Production(store[u]), ~store[u].pending,
                      u # cand \/ kind = "saved"
               PROVE u \in DOMAIN store' /\ store'[u] = store[u]
    OBVIOUS
  <2>1. CASE SparesProduction
    BY <2>1 DEF SparesProduction, Production
  <2>2. CASE RestoreSnapshot
    <3>1. PICK c \in checkpoint : store' = With(store, c.uuid, c.profile)
      BY <2>2 DEF RestoreSnapshot
    <3>2. c.uuid = u => c.profile = store[u]
      BY DEF Inv, SnapshotInv
    <3> QED BY <3>1, <3>2 DEF With
  <2>3. CASE RemoveRejected
    BY <2>3 DEF RemoveRejected, removeRejected, Delete, Without
  <2>4. CASE DeleteSuperseded \/ \E v \in UUIDs : UpdateAutoconnect(v)
    BY <2>4 DEF DeleteSuperseded, UpdateAutoconnect, Inv, AcceptedInv, Selecting
  <2>5. CASE DeletePending
    <3>1. PICK gone \in SUBSET listed :
             /\ Delete(gone)
             /\ swept' = (swept \/ \E v \in gone \cap DOMAIN store :
                             ~store[v].pending \/ (pc # "idle" /\ v = cand))
      BY <2>5 DEF DeletePending
    <3>2. u \notin gone
      BY <3>1
    <3> QED BY <3>1, <3>2 DEF Delete, Without
  <2> QED BY <2>1, <2>2, <2>3, <2>4, <2>5, RunSpares, OtherSpares DEF Next
<1> QED BY <1>1, Invariance, PTL DEF Spec, RejectionChangesNothing

\* Selecting a mode keeps the device bootable: the candidate is enabled before
\* anything else is disabled, and starts at boot before anything is deleted, as
\* long as the checkpoint has not taken that back.
LEMMA SelectionStaysBootable ==
    ASSUME Inv, Bootable, ~swept, checkpoint # {} \/ store[cand].autoconnect,
           DeleteSuperseded \/ \E u \in UUIDs : UpdateAutoconnect(u)
    PROVE Bootable'
<1> USE DEF Inv
<1>1. pc \in {"select", "supersede"} /\ UNCHANGED validated
  BY DEF DeleteSuperseded, UpdateAutoconnect
<1>2. cand \in DOMAIN store \cap validated
  BY <1>1 DEF AcceptedInv, Selecting
<1>3. store[cand].owned /\ store[cand].role = role /\ Production(store[cand])
  BY <1>1, <1>2, RoleIsProduction DEF MemoryInv, CandidateInv, Production
<1>4. store[cand].autoconnect \in BOOLEAN
  BY <1>2 DEF StoreInv, StoredProfiles
<1>5. CASE DeleteSuperseded
  <2>1. store[cand].autoconnect
    <3>1. CASE checkpoint # {}
      <4>1. cand \notin autoconnectUpdates(store, role)
        BY <1>5, <3>1 DEF DeleteSuperseded, SelectionInv
      <4> QED BY <1>2, <1>3, <1>4, <4>1 DEF autoconnectUpdates
    <3> QED BY <3>1
  <2>2. PICK gone \in SUBSET supersededProfiles(store, role, ssid, cand) : Delete(gone)
    BY <1>5 DEF DeleteSuperseded
  <2>3. cand \notin gone
    BY DEF supersededProfiles
  <2>4. cand \in DOMAIN store' /\ store'[cand] = store[cand]
    BY <1>2, <2>2, <2>3 DEF Delete, Without
  <2> QED BY <1>1, <1>2, <1>3, <2>1, <2>4 DEF Bootable
<1>6. ASSUME NEW v \in UUIDs, UpdateAutoconnect(v)
      PROVE Bootable'
  <2>1. /\ pc = "select" /\ v \in nextUpdates(store, role, todo)
        /\ \/ store' = store
           \/ /\ v \in DOMAIN store
              /\ store' = [store EXCEPT ![v] = rebuildOwnedSettings(@, @.role = role)]
    BY <1>6 DEF UpdateAutoconnect
  <2>2. CASE store' = store
    BY <1>1, <2>2 DEF Bootable
  <2>3. CASE store' # store
    <3> DEFINE rebuilt == rebuildOwnedSettings(store[v], store[v].role = role)
    <3>1. /\ v \in DOMAIN store /\ DOMAIN store' = DOMAIN store
          /\ store'[v] = rebuilt
          /\ \A u \in DOMAIN store \ {v} : store'[u] = store[u]
      BY <2>1, <2>3
    <3>2. store[v] \in StoredProfiles /\ (store[v].role = role) \in BOOLEAN
      BY <3>1 DEF StoreInv
    <3>3. /\ rebuilt.owned = store[v].owned /\ rebuilt.role = store[v].role
          /\ rebuilt.autoconnect = (store[v].role = role)
      BY <3>2, Rebuilt
    <3> HIDE DEF rebuilt
    <3>4. CASE store[cand].autoconnect
      <4>1. Production(store'[cand]) /\ store'[cand].autoconnect
        BY <1>2, <1>3, <3>1, <3>3, <3>4 DEF Production
      <4> QED BY <1>1, <1>2, <3>1, <4>1 DEF Bootable
    <3>5. CASE ~store[cand].autoconnect
      <4>1. cand \in autoconnectUpdates(store, role)
        BY <1>2, <1>3, <3>5 DEF autoconnectUpdates
      <4>2. cand \in todo
        BY <2>1, <3>5, <4>1 DEF SelectionInv
      <4>3. store[v].role = role
        BY <1>2, <1>3, <2>1, <4>2 DEF nextUpdates
      <4>4. PICK u \in DOMAIN store \cap validated :
               Production(store[u]) /\ store[u].autoconnect
        BY DEF Bootable
      <4>5. Production(store'[u]) /\ store'[u].autoconnect
        BY <3>1, <3>3, <4>3, <4>4 DEF Production
      <4> QED BY <1>1, <3>1, <4>4, <4>5 DEF Bootable
    <3> QED BY <1>4, <3>4, <3>5
  <2> QED BY <2>2, <2>3
<1> QED BY <1>5, <1>6

\* The steps that can take the last production mode away are the four that the
\* property names, on any device and after any history.
THEOREM OnlyRejectionsDisable == Spec => OnlyRejectionDisables
<1> DEFINE Step == Bootable /\ ~Bootable' =>
          \/ pc = "remove"
          \/ swept'
          \/ \E c \in checkpoint \ checkpoint' :
                Production(c.profile) /\ ~c.profile.autoconnect
          \/ checkpoint = {} /\ pc \in {"select", "supersede"}
             /\ ~store[cand].autoconnect
<1>1. Inv /\ [Next]_vars => [Step]_vars
  <2> SUFFICES ASSUME Inv, Next, Bootable, ~Bootable', pc # "remove", ~swept'
               PROVE \/ \E c \in checkpoint \ checkpoint' :
                           Production(c.profile) /\ ~c.profile.autoconnect
                     \/ checkpoint = {} /\ pc \in {"select", "supersede"}
                        /\ ~store[cand].autoconnect
    OBVIOUS
  <2>1. PICK u \in DOMAIN store \cap validated :
           Production(store[u]) /\ store[u].autoconnect
    BY DEF Bootable
  <2>2. validated \subseteq validated'
    BY RunSpares, OtherSpares DEF Next
  <2>3. ~(u \in DOMAIN store' /\ Production(store'[u]) /\ store'[u].autoconnect)
    BY <2>1, <2>2 DEF Bootable
  <2>4. CASE SparesProduction
    BY <2>1, <2>3, <2>4 DEF SparesProduction, Production
  <2>5. CASE RestoreSnapshot
    <3>1. PICK c \in checkpoint :
             store' = With(store, c.uuid, c.profile) /\ checkpoint' = {}
      BY <2>5 DEF RestoreSnapshot
    <3>2. u \in DOMAIN store' /\ (u # c.uuid => store'[u] = store[u])
          /\ (u = c.uuid => store'[u] = c.profile)
      BY <2>1, <3>1 DEF With
    <3>3. u = c.uuid /\ store'[u] = c.profile
      BY <2>1, <2>3, <3>2
    <3>4. Production(c.profile)
      BY <2>1, <3>3 DEF Production, Inv, SnapshotInv
    <3> QED BY <2>3, <3>1, <3>2, <3>3, <3>4
  <2>6. CASE DeletePending
    <3>1. PICK gone \in SUBSET listed :
             /\ Delete(gone)
             /\ swept' = (swept \/ \E v \in gone \cap DOMAIN store :
                             ~store[v].pending \/ (pc # "idle" /\ v = cand))
      BY <2>6 DEF DeletePending
    <3>2. ~store[u].pending
      BY <2>1 DEF Inv, StoreInv, PendingIsInert
    <3>3. u \notin gone
      BY <2>1, <3>1, <3>2
    <3> QED BY <2>1, <2>3, <3>1, <3>3 DEF Delete, Without
  <2>7. CASE DeleteSuperseded \/ \E v \in UUIDs : UpdateAutoconnect(v)
    <3>1. pc \in {"select", "supersede"} /\ ~swept
      BY <2>7 DEF DeleteSuperseded, UpdateAutoconnect, process
    <3> QED BY <2>7, <3>1, SelectionStaysBootable
  <2> QED BY <2>4, <2>5, <2>6, <2>7, RunSpares, OtherSpares DEF Next, RemoveRejected
<1> QED BY <1>1, Invariance, PTL DEF Spec, OnlyRejectionDisables

\* A transition that returns success has a durable mode: only exitCaptive returns
\* it, after a commit that found the checkpoint alive, and from there no expiry can
\* undo the selection and no controller step touches it.
THEOREM SuccessDurable == Spec => SuccessIsDurable
<1> DEFINE Durable ==
          /\ checkpoint' = {}
          /\ cand \in DOMAIN store' /\ ~store'[cand].pending
          /\ supersededProfiles(store', role, ssid, cand) = {}
          /\ \A u \in DOMAIN store' : Production(store'[u]) =>
                store'[u].autoconnect = (store'[u].role = role)
<1>1. Inv /\ [Next]_vars =>
         [outcome' = "succeeded" /\ outcome # "succeeded" => swept \/ Durable]_vars
  <2> SUFFICES ASSUME Inv, Next, outcome' = "succeeded", outcome # "succeeded", ~swept
               PROVE Durable
    OBVIOUS
  <2> USE DEF Inv
  <2>1. ExitCaptive
    <3> USE DEF Begin, Finish, plan, progress
    <3>1. CASE Run
      <4>1. ASSUME NEW s \in Entered
            PROVE ~AttemptNew(s)
        BY DEF AttemptNew
      <4>2. ASSUME NEW u \in UUIDs
            PROVE ~AttemptSaved(u) /\ ~AddAndActivate(u) /\ ~UpdateAutoconnect(u)
        BY DEF AttemptSaved, AddAndActivate, UpdateAutoconnect
      <4>3. ~AttemptStandalone /\ ~CreateCheckpoint /\ ~ActivateSaved
        BY DEF AttemptStandalone, CreateCheckpoint, ActivateSaved
      <4>4. ~WaitForActivation /\ ~Accept /\ ~ReadProfiles /\ ~ModeSelected
        BY DEF WaitForActivation, Accept, ReadProfiles, ModeSelected
      <4>5. ~DeleteSuperseded /\ ~CommitCheckpoint /\ ~RemoveRejected
        BY DEF DeleteSuperseded, CommitCheckpoint, RemoveRejected
      <4>6. ~RollbackCheckpoint /\ ~RestorePrevious /\ ~ConfirmPrevious
        BY DEF RollbackCheckpoint, RestorePrevious, ConfirmPrevious, ProcessInv
      <4> QED BY <3>1, <4>1, <4>2, <4>3, <4>4, <4>5, <4>6 DEF Run
    <3>2. ~Captive
      BY DEF Captive, LeaveProvisioning, EnterCompletes, EnterProvisioning
    <3>3. ~NetworkManager
      BY DEF NetworkManager, ActivationEnds, LinkLost, CheckpointExpires, Autoconnect
    <3>4. ~Restart
      BY DEF Restart, Crash, PowerCut, Die, Start, RecoverProvisioning, ListPending,
             DeletePending, Stop, Exit
    <3> QED BY <3>1, <3>2, <3>3, <3>4 DEF Next
  <2>2. pc = "leave" /\ checkpoint' = {} /\ Leave
    BY <2>1 DEF ExitCaptive, Finish, SelectionInv
  <2>3. cand \in DOMAIN store
    BY <2>2 DEF AcceptedInv, Selecting
  <2>4. store[cand].owned /\ store[cand].role = role /\ Production(store[cand])
    BY <2>2, <2>3, RoleIsProduction DEF MemoryInv, CandidateInv, Production
  <2>5. /\ autoconnectUpdates(store, role) = {}
        /\ supersededProfiles(store, role, ssid, cand) = {}
    BY <2>2 DEF SelectionInv
  <2>6. \A u \in DOMAIN store : Production(store[u]) =>
           store[u].autoconnect = (store[u].role = role)
    BY <2>5 DEF autoconnectUpdates
  <2>7. ~store[cand].pending
    BY <2>3, <2>4, <2>6 DEF StoreInv, PendingIsInert
  <2>8. /\ DOMAIN store' \subseteq DOMAIN store
        /\ \A u \in DOMAIN store' : store'[u] = store[u]
        /\ cand \in DOMAIN store'
    <3>1. CASE UNCHANGED store
      BY <2>3, <3>1
    <3>2. CASE Delete({session})
      <4>1. cand # session
        BY <2>3, <2>4, RoleIsProduction DEF MemoryInv, SessionInv
      <4> QED BY <2>3, <3>2, <4>1 DEF Delete, Without
    <3> QED BY <2>2, <3>1, <3>2 DEF Leave
  <2>9. supersededProfiles(store', role, ssid, cand) = {}
    BY <2>5, <2>8, FewerSelected
  <2> QED BY <2>2, <2>6, <2>7, <2>8, <2>9
<1> QED BY <1>1, Invariance, PTL DEF Spec, SuccessIsDurable
=============================================================================
