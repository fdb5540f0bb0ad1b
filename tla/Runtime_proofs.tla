---------------------------- MODULE Runtime_proofs ----------------------------
(***************************************************************************)
(* Proofs about Runtime: for every restart budget, every set of reported   *)
(* stages and every configuration, the process exits completely and        *)
(* truthfully and its health is delivered.                                 *)
(***************************************************************************)
EXTENDS Runtime, Configuration_proofs, FiniteSetTheorems, TLAPS

\* Before the listener is bound nothing runs.  While startup goes on, and when
\* it has failed, only the listener does.
Unstarted == {"configure", "validate", "refused", "bind"}
OnlyListener == {"recover", "discover", "commit", "confirm", "hostname", "control",
                 "stop_listener"}
\* All components have been awaited.
Joined == {"stop_operations", "cleanup", "return"} \cup Ended
\* Nothing has failed yet, and only the parent can have cancelled.
Undecided == (Unstarted \cup OnlyListener \cup {"supervise"}) \ {"refused", "stop_listener"}
\* superviseComponents has a first result.
Supervised == {"stopping", "drain"}

Statuses == Terminal \cup {"starting", "reconciling", "ready", "recovering"}

\* The types of all variables but the configuration.
TypeInv ==
    /\ phase \in Phases
    /\ asked \in BOOLEAN /\ ctxDone \in BOOLEAN /\ failed \in BOOLEAN
    /\ comp \in [Components -> {"off", "running", "down", "retrying", "returned"}]
    /\ compErr \subseteq Components /\ collected \subseteq Components
    /\ restarts \in [Restarting -> 0..MaxRestarts]
    /\ publisher \in Hostnames \cup {"none"} /\ hostname \in Hostnames
    /\ group \in BOOLEAN
    /\ socket \in {"absent", "stale", "other", "ours"}
    /\ status \in Statuses
    /\ stage \in Stages
    /\ degraded \subseteq Restarting
    /\ told \in Statuses

\* The channel never holds an old status, and holds one until a notifier runs;
\* whoever waits for a retry is recorded as degraded.
HealthInv ==
    /\ changes \subseteq {status}
    /\ comp["systemd"] = "off" => changes # {}
    /\ StatusDelivered
    /\ status = "ready" => degraded = {}
    /\ \A c \in Restarting : comp[c] = "retrying" => c \in degraded

\* What can run at each phase.
ComponentsInv ==
    /\ \A c \in Components \ Restarting : comp[c] \in {"off", "running", "returned"}
    /\ phase \in Unstarted => \A c \in Components : comp[c] = "off"
    /\ phase \in OnlyListener => \A c \in Components \ {"http"} : comp[c] = "off"
    /\ phase \in Joined => \A c \in Components : comp[c] \in {"off", "returned"}
    /\ \A c \in collected \cup compErr : comp[c] = "returned"
    /\ \A c \in Restarting : comp[c] = "retrying" => restarts[c] < MaxRestarts

\* What is open at each phase, and who closes it.
ResourcesInv ==
    /\ group <=> publisher # "none"
    /\ phase \in Unstarted \cup {"recover", "discover", "return", "done"} =>
          publisher = "none"
    /\ socket = "ours" => comp["control"] = "running"

\* Where the result comes from.
ResultInv ==
    /\ phase \in Undecided => ~failed /\ (ctxDone => asked)
    /\ phase = "stop_listener" => failed
    /\ phase \in Supervised \cup (Joined \ {"refused"}) /\ ~failed => asked
    /\ phase \in Supervised /\ ~failed => compErr \cap collected = {}
    /\ phase \in Joined /\ ~failed => compErr = {}
    /\ phase = "done" => status = IF failed THEN "failed" ELSE "stopped"

\* The inductive invariant.
Inv == TypeInv /\ HealthInv /\ ComponentsInv /\ ResourcesInv /\ ResultInv

-----------------------------------------------------------------------------
\* A process that has just been started satisfies the invariant.
LEMMA InitInv == Init => Inv
<1>0. 0 \in 0..MaxRestarts
  BY RestartsAssumption
<1> SUFFICES ASSUME Init PROVE Inv
  OBVIOUS
<1> USE DEF Init, Unstarted, OnlyListener, Joined, Undecided, Supervised, Ended
<1>1. TypeInv
  <2>2. restarts \in [Restarting -> 0..MaxRestarts]
    BY <1>0
  <2>3. /\ comp \in [Components -> {"off", "running", "down", "retrying", "returned"}]
        /\ status \in Statuses /\ told \in Statuses /\ stage \in Stages
    BY DEF Statuses, Stages
  <2> QED
    BY <2>2, <2>3 DEF TypeInv, Phases, Hostnames
<1>2. HealthInv
  BY DEF HealthInv, StatusDelivered, Components, Restarting
<1>3. ComponentsInv /\ ResourcesInv /\ ResultInv
  BY DEF ComponentsInv, ResourcesInv, ResultInv, Components, Restarting
<1> QED
  BY <1>1, <1>2, <1>3 DEF Inv

\* A step that leaves components and health alone keeps what is said of them.
LEMMA HealthKept ==
    HealthInv /\ UNCHANGED <<components, health, told>> => HealthInv'
  BY DEF HealthInv, StatusDelivered, components, health

LEMMA TypeKept ==
    ASSUME TypeInv, UNCHANGED <<components, health, told>>,
           phase' \in Phases, asked' \in BOOLEAN, ctxDone' \in BOOLEAN,
           failed' \in BOOLEAN, collected' \subseteq Components,
           publisher' \in Hostnames \cup {"none"}, hostname' \in Hostnames,
           group' \in BOOLEAN, socket' \in {"absent", "stale", "other", "ours"}
    PROVE TypeInv'
  BY DEF TypeInv, components, health

\* A retry or a return of one component is well typed.
LEMMA ComponentTypes ==
    ASSUME TypeInv, NEW c \in Restarting, UNCHANGED <<life, restarts, told>>,
           \/ Return(c, TRUE) /\ UNCHANGED health
           \/ /\ comp' = [comp EXCEPT ![c] = "retrying"]
              /\ ComponentRetry(c)
              /\ UNCHANGED compErr
    PROVE TypeInv'
<1>1. c \in Components
  BY DEF Restarting, Components
<1>2. /\ comp' \in [Components -> {"off", "running", "down", "retrying", "returned"}]
      /\ compErr' \subseteq Components
  BY <1>1 DEF TypeInv, Return
<1>3. status' \in Statuses /\ stage' \in Stages /\ degraded' \subseteq Restarting
  BY DEF TypeInv, ComponentRetry, deriveLocked, health, Statuses
<1> QED
  BY <1>2, <1>3 DEF TypeInv, life, configuration, resources, process

\* The steps of the components preserve the invariant.
LEMMA ComponentInv == Inv /\ ComponentStep => Inv'
<1> SUFFICES ASSUME Inv, ComponentStep PROVE Inv'
  OBVIOUS
<1> USE RestartsAssumption, ObservedAssumption
    DEF Inv, Components, Restarting, Unstarted, OnlyListener, Joined, Undecided,
        Supervised, Ended
<1>1. ASSUME NEW s \in Observed, ReconcilerObserves(s) PROVE Inv'
  <2> USE <1>1 DEF ReconcilerObserves, ObserveNetworkState, deriveLocked, publishLocked,
          life, configuration, resources, process, components
  <2>1. TypeInv'
    BY DEF TypeInv, Statuses
  <2>2. HealthInv'
    BY DEF TypeInv, HealthInv, StatusDelivered
  <2>3. ComponentsInv' /\ ResourcesInv' /\ ResultInv'
    BY DEF ComponentsInv, ResourcesInv, ResultInv
  <2> QED BY <2>1, <2>2, <2>3
<1>2. CASE ReconcilerFails
  <2>1. TypeInv'
    BY <1>2, ComponentTypes DEF ReconcilerFails
  <2> USE <1>2 DEF ReconcilerFails, ComponentRetry, Return, deriveLocked, publishLocked,
          life, configuration, resources, process, health
  <2>2. HealthInv'
    BY DEF TypeInv, HealthInv, StatusDelivered
  <2>3. ComponentsInv'
    BY DEF TypeInv, ComponentsInv
  <2>4. ResourcesInv'
    BY DEF TypeInv, ResourcesInv
  <2>5. ResultInv'
    BY DEF TypeInv, ComponentsInv, ResultInv
  <2> QED BY <2>1, <2>2, <2>3, <2>4, <2>5
<1>3. CASE ReconcilerRestarts
  <2> USE <1>3 DEF ReconcilerRestarts, life, configuration, resources, process, health
  <2>0. restarts["reconciler"] + 1 \in 0..MaxRestarts
    BY DEF TypeInv, ComponentsInv
  <2>1. TypeInv'
    BY <2>0 DEF TypeInv
  <2>2. HealthInv'
    BY DEF TypeInv, HealthInv, StatusDelivered
  <2>3. ComponentsInv' /\ ResourcesInv' /\ ResultInv'
    BY DEF TypeInv, ComponentsInv, ResourcesInv, ResultInv
  <2> QED BY <2>1, <2>2, <2>3
<1>4. CASE ListenerDies
  <2> USE <1>4 DEF ListenerDies, life, configuration, resources, process, health
  <2>1. TypeInv'
    BY DEF TypeInv
  <2>2. HealthInv'
    BY DEF TypeInv, HealthInv, StatusDelivered
  <2>3. ComponentsInv' /\ ResourcesInv' /\ ResultInv'
    BY DEF TypeInv, ComponentsInv, ResourcesInv, ResultInv
  <2> QED BY <2>1, <2>2, <2>3
<1>5. CASE ListenerRetries
  <2>1. TypeInv'
    BY <1>5, ComponentTypes DEF ListenerRetries
  <2> USE <1>5 DEF ListenerRetries, ComponentRetry, Return, deriveLocked, publishLocked,
          life, configuration, resources, process, health
  <2>2. HealthInv'
    BY DEF TypeInv, HealthInv, StatusDelivered
  <2>3. ComponentsInv'
    BY DEF TypeInv, ComponentsInv
  <2>4. ResourcesInv'
    BY DEF TypeInv, ResourcesInv
  <2>5. ResultInv'
    <3>1. ASSUME phase \in Joined PROVE FALSE
      BY <3>1 DEF ComponentsInv
    <3>2. compErr' \subseteq compErr \cup {"http"} /\ "http" \notin collected
      BY DEF ComponentsInv
    <3> QED BY <3>1, <3>2 DEF ResultInv
  <2> QED BY <2>1, <2>2, <2>3, <2>4, <2>5
<1>6. CASE ListenerRebinds
  <2> USE <1>6 DEF ListenerRebinds, ComponentRecovered, deriveLocked, publishLocked,
          life, configuration, resources, process, health
  <2>0. restarts["http"] + 1 \in 0..MaxRestarts
    BY DEF TypeInv, ComponentsInv
  <2>1. TypeInv'
    <3>1. comp' \in [Components -> {"off", "running", "down", "retrying", "returned"}]
      BY DEF TypeInv
    <3>2. restarts' \in [Restarting -> 0..MaxRestarts]
      BY <2>0 DEF TypeInv
    <3>3. status' \in Statuses /\ stage' \in Stages /\ degraded' \subseteq Restarting
      BY DEF TypeInv, Statuses
    <3> QED BY <3>1, <3>2, <3>3 DEF TypeInv
  <2>2. HealthInv'
    BY DEF TypeInv, HealthInv, StatusDelivered
  <2>3. ComponentsInv' /\ ResourcesInv' /\ ResultInv'
    BY DEF TypeInv, ComponentsInv, ResourcesInv, ResultInv
  <2> QED BY <2>1, <2>2, <2>3
<1>7. ASSUME NEW c \in Components, ComponentFails(c) PROVE Inv'
  <2> USE <1>7 DEF ComponentFails, closesSocket, Return, configuration, process, health
  <2>1. TypeInv'
    BY DEF TypeInv
  <2>2. HealthInv'
    BY DEF TypeInv, HealthInv, StatusDelivered
  <2>3. ComponentsInv' /\ ResourcesInv' /\ ResultInv'
    BY DEF TypeInv, ComponentsInv, ResourcesInv, ResultInv
  <2> QED BY <2>1, <2>2, <2>3
<1>8. ASSUME NEW c \in Components, ComponentReturns(c) PROVE Inv'
  <2> USE <1>8 DEF ComponentReturns, closesSocket, Return, configuration, process, health
  <2>1. TypeInv'
    BY DEF TypeInv, Statuses, Terminal
  <2>2. HealthInv'
    BY DEF TypeInv, HealthInv, StatusDelivered
  <2>3. ComponentsInv' /\ ResourcesInv' /\ ResultInv'
    BY DEF TypeInv, ComponentsInv, ResourcesInv, ResultInv
  <2> QED BY <2>1, <2>2, <2>3
<1>9. ASSUME NEW s \in changes, Notify(s) PROVE Inv'
  <2> USE <1>9 DEF Notify, life, configuration, resources, process, components
  <2>1. TypeInv'
    BY DEF TypeInv, HealthInv
  <2>2. HealthInv'
    BY DEF TypeInv, HealthInv, StatusDelivered
  <2>3. ComponentsInv' /\ ResourcesInv' /\ ResultInv'
    BY DEF TypeInv, ComponentsInv, ResourcesInv, ResultInv
  <2> QED BY <2>1, <2>2, <2>3
<1> QED
  BY <1>1, <1>2, <1>3, <1>4, <1>5, <1>6, <1>7, <1>8, <1>9 DEF ComponentStep

\* Startup preserves the invariant, wherever it fails.
LEMMA StartupInv ==
    Inv /\ (\/ Load \/ ValidateOptions \/ BindListener \/ RecoverStartup \/ StartDiscovery
            \/ CommitGroup \/ ConfirmHostname \/ CheckHostname \/ StartControl) => Inv'
<1> USE DEF Inv, Components, Restarting, Unstarted, OnlyListener, Joined, Undecided,
        Supervised, Ended, configuration, resources, components, health
<1>1. ASSUME Inv, Load PROVE Inv'
  <2> USE <1>1 DEF Load
  <2>1. TypeInv' /\ HealthInv'
    BY DEF TypeInv, Phases, HealthInv, StatusDelivered
  <2>2. ComponentsInv' /\ ResourcesInv' /\ ResultInv'
    BY DEF TypeInv, ComponentsInv, ResourcesInv, ResultInv
  <2> QED BY <2>1, <2>2
<1>2. ASSUME Inv, ValidateOptions PROVE Inv'
  <2> USE <1>2 DEF ValidateOptions
  <2>1. TypeInv' /\ HealthInv'
    BY DEF TypeInv, Phases, HealthInv, StatusDelivered
  <2>2. ComponentsInv' /\ ResourcesInv' /\ ResultInv'
    BY DEF TypeInv, ComponentsInv, ResourcesInv, ResultInv
  <2> QED BY <2>1, <2>2
<1>3. ASSUME Inv, BindListener PROVE Inv'
  <2> USE <1>3 DEF BindListener, Fail, Start
  <2>1. TypeInv'
    BY DEF TypeInv, Phases
  <2>2. HealthInv'
    BY DEF TypeInv, HealthInv, StatusDelivered
  <2>3. ComponentsInv'
    BY DEF TypeInv, ComponentsInv
  <2>4. ResourcesInv' /\ ResultInv'
    BY DEF TypeInv, ComponentsInv, ResourcesInv, ResultInv
  <2> QED BY <2>1, <2>2, <2>3, <2>4
<1>4. ASSUME Inv, RecoverStartup \/ CheckHostname PROVE Inv'
  <2> USE <1>4 DEF RecoverStartup, CheckHostname, Fail
  <2>0. phase' \in Phases /\ failed' \in {failed, TRUE}
    BY DEF Phases
  <2>1. TypeInv' /\ HealthInv'
    BY <2>0, TypeKept, HealthKept DEF TypeInv, resources
  <2>2. ComponentsInv' /\ ResourcesInv' /\ ResultInv'
    BY DEF ComponentsInv, ResourcesInv, ResultInv
  <2> QED BY <2>1, <2>2
<1>5. ASSUME Inv, StartDiscovery \/ CommitGroup \/ ConfirmHostname PROVE Inv'
  <2> USE <1>5 DEF StartDiscovery, CommitGroup, ConfirmHostname, closed, Fail
  <2>0. TypeInv'
    <3>1. phase' \in Phases /\ failed' \in {failed, TRUE}
      BY DEF Phases
    <3>2. publisher' \in {publisher, hostname, "none"} /\ group' \in {group, TRUE, FALSE}
      OBVIOUS
    <3>3. UNCHANGED <<asked, ctxDone, collected, hostname, socket, components, health, told>>
      OBVIOUS
    <3>4. /\ failed' \in BOOLEAN /\ group' \in BOOLEAN
          /\ publisher' \in Hostnames \cup {"none"}
      BY <3>1, <3>2 DEF TypeInv
    <3> QED BY <3>1, <3>3, <3>4, TypeKept DEF TypeInv
  <2>1. HealthInv'
    BY HealthKept
  <2>2. ComponentsInv' /\ ResultInv'
    BY DEF ComponentsInv, ResultInv
  <2>3. ResourcesInv'
    BY DEF TypeInv, Hostnames, ResourcesInv
  <2> QED BY <2>0, <2>1, <2>2, <2>3
<1>6. ASSUME Inv, StartControl PROVE Inv'
  <2> USE <1>6 DEF StartControl, Start, Fail, bindControl, bindFails
  <2>1. TypeInv'
    <3>1. phase' \in Phases /\ failed' \in BOOLEAN
      BY DEF TypeInv, Phases
    <3>2. socket' \in {"absent", "stale", "other", "ours"}
      BY DEF TypeInv
    <3>3. comp' \in [Components -> {"off", "running", "down", "retrying", "returned"}]
      BY DEF TypeInv
    <3>4. UNCHANGED <<asked, ctxDone, collected, compErr, restarts, publisher, group,
                      hostname, health, told>>
      OBVIOUS
    <3> HIDE <1>6 DEF StartControl, Start, Fail, bindControl, bindFails
    <3>5. TypeInv
      BY <1>6
    <3> QED BY <3>1, <3>2, <3>3, <3>4, <3>5 DEF TypeInv
  <2>2. HealthInv'
    BY DEF TypeInv, ComponentsInv, HealthInv, StatusDelivered
  <2>3. ComponentsInv'
    BY DEF TypeInv, ComponentsInv
  <2>4. ResourcesInv' /\ ResultInv'
    BY DEF TypeInv, ComponentsInv, ResourcesInv, ResultInv
  <2> QED BY <2>1, <2>2, <2>3, <2>4
<1> QED
  BY <1>1, <1>2, <1>3, <1>4, <1>5, <1>6

\* Supervision and the way out preserve the invariant.
LEMMA ExitInv ==
    Inv /\ (\/ StopListener \/ CancelRuntime \/ StopOperations \/ Cleanup \/ ReturnResult
            \/ \E c \in Components : FirstResult(c) \/ Collect(c)) => Inv'
<1> USE DEF Inv, Components, Restarting, Unstarted, OnlyListener, Joined, Undecided,
        Supervised, Ended, configuration, resources, components, health
<1>1. ASSUME Inv, StopListener PROVE Inv'
  <2> USE <1>1 DEF StopListener
  <2>1. TypeInv' /\ HealthInv'
    BY DEF TypeInv, Phases, HealthInv, StatusDelivered
  <2>2. ComponentsInv'
    BY DEF TypeInv, ComponentsInv
  <2>3. ResourcesInv'
    BY DEF TypeInv, ResourcesInv
  <2>4. ResultInv'
    BY DEF TypeInv, ComponentsInv, ResultInv
  <2> QED BY <2>1, <2>2, <2>3, <2>4
<1>2. ASSUME Inv, CancelRuntime PROVE Inv'
  <2> USE <1>2 DEF CancelRuntime
  <2>1. TypeInv' /\ HealthInv'
    BY DEF TypeInv, Phases, HealthInv, StatusDelivered
  <2>2. ComponentsInv'
    BY DEF TypeInv, ComponentsInv
  <2>3. ResourcesInv'
    BY DEF TypeInv, ResourcesInv
  <2>4. ResultInv'
    BY DEF TypeInv, ComponentsInv, ResultInv
  <2> QED BY <2>1, <2>2, <2>3, <2>4
<1>3. ASSUME Inv, StopOperations PROVE Inv'
  <2> USE <1>3 DEF StopOperations
  <2>0. phase' \in Phases
    BY DEF Phases
  <2>1. TypeInv' /\ HealthInv'
    BY <2>0, TypeKept, HealthKept DEF TypeInv, resources
  <2>2. ComponentsInv'
    BY DEF TypeInv, ComponentsInv
  <2>3. ResourcesInv'
    BY DEF TypeInv, ResourcesInv
  <2>4. ResultInv'
    BY DEF TypeInv, ComponentsInv, ResultInv
  <2> QED BY <2>1, <2>2, <2>3, <2>4
<1>4. ASSUME Inv, Cleanup PROVE Inv'
  <2> USE <1>4 DEF Cleanup, closed
  <2>1. TypeInv' /\ HealthInv'
    BY DEF TypeInv, Phases, HealthInv, StatusDelivered
  <2>2. ComponentsInv'
    BY DEF TypeInv, ComponentsInv
  <2>3. ResourcesInv'
    BY DEF TypeInv, ResourcesInv
  <2>4. ResultInv'
    BY DEF TypeInv, ComponentsInv, ResultInv
  <2> QED BY <2>1, <2>2, <2>3, <2>4
<1>5. ASSUME Inv, ReturnResult PROVE Inv'
  <2> USE <1>5 DEF ReturnResult, setTerminal, publishLocked
  <2>0. TypeInv'
    BY DEF TypeInv, Phases, Statuses, Terminal
  <2>1. HealthInv'
    BY DEF TypeInv, Statuses, Terminal, HealthInv, StatusDelivered
  <2>2. ComponentsInv' /\ ResourcesInv'
    BY DEF TypeInv, ComponentsInv, ResourcesInv
  <2>3. ResultInv'
    BY DEF TypeInv, ComponentsInv, ResultInv
  <2> QED BY <2>0, <2>1, <2>2, <2>3
<1>6. ASSUME Inv, NEW c \in Components, FirstResult(c) PROVE Inv'
  <2> USE <1>6 DEF FirstResult, setTerminal, publishLocked
  <2>0. TypeInv'
    BY DEF TypeInv, Phases, Statuses, Terminal
  <2>1. HealthInv'
    BY DEF TypeInv, Statuses, Terminal, HealthInv, StatusDelivered
  <2>2. ComponentsInv' /\ ResourcesInv'
    BY DEF TypeInv, ComponentsInv, ResourcesInv
  <2>3. ~failed' => asked' /\ c \notin compErr
    BY DEF TypeInv, ResultInv
  <2>4. ResultInv'
    BY <2>3 DEF ResultInv
  <2> QED BY <2>0, <2>1, <2>2, <2>4
<1>7. ASSUME Inv, NEW c \in Components, Collect(c) PROVE Inv'
  <2> USE <1>7 DEF Collect, started
  <2>1. TypeInv' /\ HealthInv'
    BY DEF TypeInv, Phases, HealthInv, StatusDelivered
  <2>2. ComponentsInv' /\ ResourcesInv'
    BY DEF TypeInv, ComponentsInv, ResourcesInv
  <2>3. ResultInv'
    BY DEF TypeInv, ComponentsInv, ResultInv
  <2> QED BY <2>1, <2>2, <2>3
<1> QED
  BY <1>1, <1>2, <1>3, <1>4, <1>5, <1>6, <1>7

\* Every step preserves the invariant.
THEOREM Invariance == Spec => []Inv
<1>1. Inv /\ [Next]_vars => Inv'
  <2> SUFFICES ASSUME Inv, [Next]_vars PROVE Inv'
    OBVIOUS
  <2> USE DEF life, configuration, resources, process, components, health
  <2>1. CASE ParentCancels
    BY <2>1 DEF ParentCancels, Inv, TypeInv, HealthInv, StatusDelivered, ComponentsInv,
       ResourcesInv, ResultInv, Ended
  <2>2. CASE HostnameChanges
    BY <2>2 DEF HostnameChanges, Inv, TypeInv, HealthInv, StatusDelivered, ComponentsInv,
       ResourcesInv, ResultInv
  <2>3. CASE UNCHANGED vars
    BY <2>3 DEF vars, Inv, TypeInv, HealthInv, StatusDelivered, ComponentsInv,
       ResourcesInv, ResultInv
  <2> QED
    BY <2>1, <2>2, <2>3, ComponentInv, StartupInv, ExitInv DEF Next, Main
<1> QED
  BY <1>1, InitInv, PTL DEF Spec

-----------------------------------------------------------------------------
(* What the invariant says of the process. *)

\* Health: coalescing in Health.publishLocked loses no update for the notifier.
THEOREM HealthIsDelivered == Spec => []StatusDelivered
<1>1. Inv => StatusDelivered
  BY DEF Inv, HealthInv
<1> QED
  BY <1>1, Invariance, PTL

\* Health: "ready" is never reported while the listener or the controller waits
\* for a retry, whatever the other one reports.
THEOREM ReadyIsTruthful == Spec => []ReadyMeansRunning
<1>1. Inv => ReadyMeansRunning
  BY DEF Inv, HealthInv, ReadyMeansRunning
<1> QED
  BY <1>1, Invariance, PTL

\* runManagedAppliance: whatever startup step or component failed, in whatever
\* order, every goroutine is joined and every resource given back at the end.
THEOREM ExitIsComplete == Spec => []ExitLeavesNothing
<1>1. Inv => ExitLeavesNothing
  BY DEF Inv, TypeInv, ComponentsInv, ResourcesInv, ExitLeavesNothing, Joined, Ended,
     Unstarted, Components, Hostnames
<1> QED
  BY <1>1, Invariance, PTL

\* runManagedAppliance and superviseComponents: the reported result is the
\* result, and a clean one was asked for and hides no component's error.
THEOREM ExitIsTruthful == Spec => []TruthfulExit
<1>1. Inv => TruthfulExit
  BY DEF Inv, TypeInv, ResultInv, TruthfulExit, Joined, Ended
<1> QED
  BY <1>1, Invariance, PTL

-----------------------------------------------------------------------------
(* The configuration. *)

\* What the process goes on with is what loadSetupOptions made of what it was
\* configured with; that is not replaced before it is loaded.
ConfigurationInv ==
    /\ phase = "configure" => raw \in Configurations
    /\ raw \in Configurations \cup {NoConfiguration}
    /\ options # {} => raw \in Configurations /\ options = loadSetupOptions(raw)

LEMMA ConfigurationInvariance == Spec => []ConfigurationInv
<1>1. Init => ConfigurationInv
  BY DEF Init, ConfigurationInv
<1>2. ConfigurationInv /\ [Next]_vars => ConfigurationInv'
  <2> SUFFICES ASSUME ConfigurationInv, [Next]_vars PROVE ConfigurationInv'
    OBVIOUS
  <2> USE DEF ConfigurationInv, configuration, life, process
  <2>1. CASE Load
    BY <2>1 DEF Load
  <2>2. CASE ValidateOptions
    BY <2>2 DEF ValidateOptions
  <2>3. CASE BindListener \/ RecoverStartup \/ CheckHostname \/ StartControl
    BY <2>3 DEF BindListener, RecoverStartup, CheckHostname, StartControl, Fail
  <2>4. CASE StartDiscovery \/ CommitGroup \/ ConfirmHostname
    BY <2>4 DEF StartDiscovery, CommitGroup, ConfirmHostname, Fail
  <2>5. CASE StopListener \/ CancelRuntime \/ StopOperations \/ Cleanup \/ ReturnResult
    BY <2>5 DEF StopListener, CancelRuntime, StopOperations, Cleanup, ReturnResult
  <2>6. ASSUME NEW c \in Components, FirstResult(c) \/ Collect(c)
        PROVE ConfigurationInv'
    BY <2>6 DEF FirstResult, Collect
  <2>7. CASE ParentCancels \/ HostnameChanges
    BY <2>7 DEF ParentCancels, HostnameChanges
  <2>8. CASE ReconcilerFails \/ ReconcilerRestarts \/ ListenerDies \/ ListenerRetries
                \/ ListenerRebinds
    BY <2>8 DEF ReconcilerFails, ReconcilerRestarts, ListenerDies, ListenerRetries,
       ListenerRebinds
  <2>9. ASSUME NEW c \in Components, ComponentFails(c) \/ ComponentReturns(c)
        PROVE ConfigurationInv'
    BY <2>9 DEF ComponentFails, ComponentReturns
  <2>10. ASSUME NEW s, ReconcilerObserves(s) \/ Notify(s)
         PROVE ConfigurationInv'
    BY <2>10 DEF ReconcilerObserves, Notify
  <2>11. CASE UNCHANGED vars
    BY <2>11 DEF vars
  <2> QED
    BY <2>1, <2>2, <2>3, <2>4, <2>5, <2>6, <2>7, <2>8, <2>9, <2>10, <2>11
       DEF Next, Main, ComponentStep
<1> QED
  BY <1>1, <1>2, PTL DEF Spec

\* Every accepted configuration has been validated, before and after rendering.
LEMMA AcceptedConfiguration ==
    ASSUME ConfigurationInv, NEW c \in options
    PROVE \E config : /\ Typed(config) /\ Validate(config)
                      /\ c \in RenderTemplates(config)
                      /\ config.port \in PortsAsked(raw)
<1>1. raw \in RawConfigurations /\ c \in loadSetupOptions(raw)
  BY ConfigurationsAssumption DEF ConfigurationInv
<1>2. PICK config \in Resolve(raw) : c \in RenderTemplates(config)
  BY <1>1 DEF loadSetupOptions
<1> QED
  BY <1>1, <1>2, ResolveTyped, PortKept

\* loadSetupOptions: whatever the file and the command line say, the process
\* only goes on with a configuration that can be served.
THEOREM AcceptedServable == Spec => []AcceptedIsServable
<1>1. ConfigurationInv => AcceptedIsServable
  <2> SUFFICES ASSUME ConfigurationInv, NEW c \in options
      PROVE /\ c.port \in PortsAsked(raw)
            /\ RedirectEnds(c)
            /\ servesPortal(c, authorityPort(setupURL(c)))
            /\ <<c.label, c.url>> \in {<<"empty", "empty">>, <<"good", "good">>}
            /\ c.health \in (IF c.url = "empty" THEN {"empty"} ELSE {"empty", "good"})
            /\ c.infrastructure \/ c.standalone
    BY DEF AcceptedIsServable
  <2>1. PICK config : /\ Typed(config) /\ Validate(config)
                      /\ c \in RenderTemplates(config) /\ config.port \in PortsAsked(raw)
    BY AcceptedConfiguration
  <2>2. /\ c.label \in {"empty", "good", "bad"} /\ validateHandoff(c, TRUE)
        /\ c.port = config.port
        /\ c.infrastructure = config.infrastructure /\ c.standalone = config.standalone
    BY <2>1, RenderKeeps
  <2>3. c.port # CaptivePublicPort
    BY <2>1, <2>2 DEF Validate, validatePortal
  <2>4. RedirectEnds(c) /\ servesPortal(c, authorityPort(setupURL(c)))
    BY <2>3, Zenon DEF RedirectEnds, servesPortal, authorityPort, portalURLFor, setupURL
  <2>5. /\ c.label \in {"empty", "good"} /\ c.url \in {"empty", "good"}
        /\ c.health \in {"empty", "good"}
        /\ (c.label = "empty") = (c.url = "empty")
        /\ c.health # "empty" => c.url # "empty"
    BY <2>2 DEF validateHandoff
  <2>6. c.infrastructure \/ c.standalone
    BY <2>1, <2>2 DEF Validate
  <2>7. c.port \in PortsAsked(raw)
    BY <2>1, <2>2
  <2> QED
    BY <2>4, <2>5, <2>6, <2>7
<1> QED
  BY <1>1, ConfigurationInvariance, PTL

\* validateStandaloneAddress, at the width of IPv4: the device's address is a host
\* address and leaves one for a client, for every address and every prefix.
THEOREM AcceptedAddress ==
    ASSUME Width = 32
    PROVE Spec => []AcceptedAddressUsable
<1>1. ConfigurationInv => AcceptedAddressUsable
  <2> SUFFICES ASSUME ConfigurationInv, NEW c \in options, c.standalone
      PROVE Usable(c.address)
    BY DEF AcceptedAddressUsable
  <2>1. PICK config : Typed(config) /\ Validate(config) /\ c \in RenderTemplates(config)
    BY AcceptedConfiguration
  <2>2. c.address = config.address /\ validateStandaloneAddress(c.address)
    BY <2>1, RenderKeeps DEF Validate
  <2>3. Defaults.address \in Addresses
    <3>1. 1 \in 0..(2^32 - 1) /\ 1 \in 0..32
      BY SMT
    <3>2. Defaults.address = [host |-> 1, bits |-> 1]
      BY DEF Defaults
    <3>3. Addresses = [host : 0..(2^32 - 1), bits : 0..32]
      BY DEF Addresses
    <3>4. ASSUME NEW A, NEW B, 1 \in A, 1 \in B
          PROVE [host |-> 1, bits |-> 1] \in [host : A, bits : B]
      BY <3>4
    <3> QED
      BY <3>1, <3>2, <3>3, <3>4, Zenon
  <2>4. c.address \in Addresses
    BY <2>1, <2>2, <2>3 DEF Typed
  <2> QED
    BY <2>2, <2>4, AddressUsable
<1> QED
  BY <1>1, ConfigurationInvariance, PTL

\* Resolve and RenderTemplates give one configuration or none.
LEMMA OneConfiguration ==
    ASSUME NEW rc, NEW c \in loadSetupOptions(rc), NEW d \in loadSetupOptions(rc)
    PROVE c = d
<1>1. \A x, y \in Resolve(rc) : x = y
  BY Zenon DEF Resolve
<1>2. ASSUME NEW x \in Resolve(rc), c \in RenderTemplates(x), d \in RenderTemplates(x)
      PROVE c = d
  BY <1>2, Zenon DEF RenderTemplates
<1>3. PICK x \in Resolve(rc) : c \in RenderTemplates(x)
  BY DEF loadSetupOptions
<1>4. PICK y \in Resolve(rc) : d \in RenderTemplates(y)
  BY DEF loadSetupOptions
<1> QED
  BY <1>1, <1>2, <1>3, <1>4

\* The type invariant: among the rest, one configuration at most is accepted and
\* one change at most waits in the channel of health changes.
THEOREM TypeCorrect == Spec => []TypeOK
<1>1. ASSUME NEW S, \A x, y \in S : x = y PROVE Cardinality(S) <= 1
  <2>1. CASE S = {}
    BY <2>1, FS_EmptySet
  <2>2. ASSUME NEW x \in S PROVE Cardinality(S) <= 1
    <3>1. S = {x}
      BY <1>1
    <3> QED BY <3>1, FS_Singleton
  <2> QED BY <2>1, <2>2
<1>2. Inv /\ ConfigurationInv => TypeOK
  <2> SUFFICES ASSUME Inv, ConfigurationInv PROVE TypeOK
    OBVIOUS
  <2>1. Cardinality(changes) <= 1
    BY <1>1 DEF Inv, HealthInv
  <2>2. Cardinality(options) <= 1
    <3>1. \A c, d \in options : c = d
      BY OneConfiguration DEF ConfigurationInv
    <3> QED BY <1>1, <3>1
  <2> QED
    BY <2>1, <2>2 DEF Inv, TypeInv, ConfigurationInv, TypeOK, Statuses
<1> QED
  BY <1>2, Invariance, ConfigurationInvariance, PTL
=============================================================================
