------------------------------ MODULE Profiles ------------------------------
(***************************************************************************)
(* The stored connection profiles of NetworkManager as the client sees     *)
(* them, and the selections that internal/networkmanager/transitions.go,   *)
(* client.go and settings.go compute from a listing.  A store is a         *)
(* function from the UUIDs that exist to profile records.                  *)
(***************************************************************************)

\* A profile is owned when it carries onboardd's metadata and is bound to the
\* configured interface: the client checks the two together everywhere.
Profile == [owned : BOOLEAN,
            role : {"infrastructure", "standalone", "provisioning"},
            ssid : STRING,
            autoconnect : BOOLEAN,
            pending : BOOLEAN]

\* The durable modes a device can boot into.
Production(profile) ==
    profile.owned /\ profile.role \in {"infrastructure", "standalone"}

\* BuildInfrastructureSettings for the candidate of Infrastructure.Attempt.
infrastructureCandidate(ssid) ==
    [owned |-> TRUE, role |-> "infrastructure", ssid |-> ssid,
     autoconnect |-> FALSE, pending |-> TRUE]

\* BuildAccessPointSettings for the candidate of Standalone.Attempt; access
\* point settings have no pending mark.
standaloneCandidate(ssid) ==
    [owned |-> TRUE, role |-> "standalone", ssid |-> ssid,
     autoconnect |-> FALSE, pending |-> FALSE]

Without(store, gone) == [u \in DOMAIN store \ gone |-> store[u]]

With(store, u, profile) ==
    [v \in DOMAIN store \cup {u} |-> IF v = u THEN profile ELSE store[v]]

\* autoconnectUpdates: the profiles whose autoconnect flag has to change so
\* that exactly the selected production mode starts at boot.
mutant_autoconnectUpdates(store, selected) == {u \in DOMAIN store :
    /\ Production(store[u])
    /\ store[u].role = selected
    /\ ~store[u].autoconnect}
autoconnectUpdates(store, selected) == {u \in DOMAIN store :
    /\ Production(store[u])
    /\ store[u].autoconnect # (store[u].role = selected)}

\* autoconnectUpdates sorts enabling updates before disabling ones.
mutant_nextUpdates(store, selected, todo) == todo
nextUpdates(store, selected, todo) ==
    LET enabling == {u \in todo \cap DOMAIN store : store[u].role = selected}
    IN  IF enabling # {} THEN enabling ELSE todo

\* rebuildOwnedSettings: an autoconnect update drops the pending mark.
mutant_rebuildOwnedSettings(profile, enabled) ==
    [profile EXCEPT !.autoconnect = enabled]
rebuildOwnedSettings(profile, enabled) ==
    [profile EXCEPT !.autoconnect = enabled, !.pending = FALSE]

\* profileScope.matches: infrastructure profiles compete per SSID, the other
\* roles have one profile each.
matches(profile, role, ssid) ==
    /\ profile.role = role
    /\ role = "infrastructure" => profile.ssid = ssid

mutant_supersededProfiles(store, role, ssid, keep) == {u \in DOMAIN store :
    u # keep /\ matches(store[u], role, ssid)}
supersededProfiles(store, role, ssid, keep) == {u \in DOMAIN store :
    store[u].owned /\ u # keep /\ matches(store[u], role, ssid)}

\* pendingProfiles: what an interrupted infrastructure transition left.
pendingProfiles(store) == {u \in DOMAIN store :
    store[u].owned /\ store[u].pending /\ store[u].role = "infrastructure"}
=============================================================================
