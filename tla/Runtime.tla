------------------------------ MODULE Runtime ------------------------------
(***************************************************************************)
(* The lifetime of the appliance process: runAppliance,                    *)
(* runManagedAppliance and superviseComponents of internal/cli/run.go, the *)
(* HTTP listener service of internal/captive/server.go, the Avahi          *)
(* publisher of internal/discovery, the control socket of                  *)
(* internal/recovery/control.go, and the health signal and systemd         *)
(* notifier of internal/observability.                                     *)
(*                                                                         *)
(* The configuration is loaded and validated before anything is touched.   *)
(* Startup acquires resources one after the other and gives them back on   *)
(* an error.  Then four components run until the first returns, the        *)
(* runtime is cancelled, the others are awaited and everything is cleaned  *)
(* up.  All of them write to one health record, which a coalescing channel *)
(* carries to the notifier.                                                *)
(***************************************************************************)
EXTENDS Configuration, FiniteSets

CONSTANTS MaxRestarts,    \* runtimeMaxRestarts, the budget of each component
          Observed,       \* engine stages that are reported to Health
          Configurations  \* files and command lines the process is started with

Settled == {"infrastructure", "standalone", "provisioning"}
Starting == {"booting", "reconciling", "waiting-for-connectivity"}
Stages == Settled \cup Starting \cup {"", "failed", "stopped"}

ASSUME RestartsAssumption == MaxRestarts \in Nat
ASSUME ObservedAssumption == Observed \subseteq Stages
ASSUME ConfigurationsAssumption == Configurations \subseteq RawConfigurations

VARIABLES
    raw,        \* what the process is configured with, until it is resolved
    options,    \* the accepted configuration until startup begins: {} or one
    phase,      \* where runManagedAppliance is
    asked,      \* the parent context is cancelled (a signal)
    ctxDone,    \* runtimeContext is cancelled
    failed,     \* an error has been recorded in the result
    comp,       \* the state of each component
    compErr,    \* components whose run function returned an error
    collected,  \* components whose result superviseComponents has received
    restarts,   \* restarts spent by the listener and by the reconciler
    publisher,  \* the hostname our open Publisher has read, or "none"
    group,      \* Avahi has our entry group
    hostname,   \* Avahi's hostname: the "resolved" one is in the options
    socket,     \* what is at ControlSocketPath
    status,     \* Health.snapshot.Status
    stage,      \* Health.snapshot.Stage
    degraded,   \* Health.degraded
    changes,    \* the channel of health changes: empty or the latest status
    told        \* the last status the notifier sent to systemd

configuration == <<raw, options>>
resources == <<publisher, group, hostname, socket>>
process == <<phase, asked, ctxDone, failed, collected>>
life == <<configuration, resources, process>>
components == <<comp, compErr, restarts>>
health == <<status, stage, degraded, changes>>
vars == <<life, components, health, told>>

Components == {"reconciler", "http", "control", "systemd"}
Restarting == {"reconciler", "http"}
Terminal == {"stopping", "stopped", "failed"}
Phases == {"configure", "validate", "refused", "bind", "recover", "discover", "commit",
           "confirm", "hostname", "control", "supervise", "stopping", "drain",
           "stop_listener", "stop_operations", "cleanup", "return", "done"}
Ended == {"done", "refused"}

Hostnames == {"resolved", "renamed"}
NoConfiguration == [file |-> "none"]

TypeOK ==
    /\ phase \in Phases
    /\ asked \in BOOLEAN /\ ctxDone \in BOOLEAN /\ failed \in BOOLEAN
    /\ comp \in [Components -> {"off", "running", "down", "retrying", "returned"}]
    /\ compErr \subseteq Components /\ collected \subseteq Components
    /\ restarts \in [Restarting -> 0..MaxRestarts]
    /\ raw \in Configurations \cup {NoConfiguration} /\ Cardinality(options) <= 1
    /\ publisher \in Hostnames \cup {"none"} /\ hostname \in Hostnames
    /\ group \in BOOLEAN
    /\ socket \in {"absent", "stale", "other", "ours"}
    /\ status \in Terminal \cup {"starting", "reconciling", "ready", "recovering"}
    /\ stage \in Stages
    /\ degraded \subseteq Restarting
    /\ Cardinality(changes) <= 1
    /\ told \in Terminal \cup {"starting", "reconciling", "ready", "recovering"}

Init ==
    /\ raw \in Configurations /\ options = {}
    /\ phase = "configure" /\ asked = FALSE /\ ctxDone = FALSE /\ failed = FALSE
    /\ comp = [c \in Components |-> "off"] /\ compErr = {} /\ collected = {}
    /\ restarts = [c \in Restarting |-> 0]
    /\ publisher = "none" /\ group = FALSE /\ hostname = "resolved"
    /\ socket \in {"absent", "stale", "other"}
    /\ status = "starting" /\ stage = "" /\ degraded = {} /\ changes = {"starting"}
    /\ told = "starting"

-----------------------------------------------------------------------------
(* Health. *)

\* publishLocked replaces an update nobody has read.  It drains the channel and then
\* fills it, under the lock: a reader that comes between the two finds it empty and
\* waits for the update, as one that comes after them does, so it is one step.
mutant_publishLocked == changes' = IF changes = {} THEN {status'} ELSE changes
publishLocked == changes' = {status'}

\* deriveLocked.  Healthy is status \notin Terminal, Ready is status = "ready".
deriveLocked ==
    /\ status' = IF degraded' # {} THEN "recovering"
                 ELSE IF stage' \in Settled THEN "ready"
                 ELSE IF stage' \in Starting THEN "reconciling"
                 ELSE "starting"
    /\ publishLocked

setTerminal(s) ==
    /\ status' = s
    /\ publishLocked
    /\ UNCHANGED <<stage, degraded>>

mutant_ObserveNetworkState(s) ==
    /\ stage' = s
    /\ degraded' = IF s \in Settled THEN {} ELSE degraded
    /\ deriveLocked
ObserveNetworkState(s) ==
    /\ stage' = s
    /\ degraded' = CASE s \in Settled -> degraded \ {"reconciler"}
                     [] s = "failed" -> degraded \cup {"reconciler"}
                     [] OTHER -> degraded
    /\ deriveLocked

ComponentRetry(c) ==
    /\ degraded' = degraded \cup {c}
    /\ UNCHANGED stage
    /\ deriveLocked

ComponentRecovered(c) ==
    /\ degraded' = degraded \ {c}
    /\ UNCHANGED stage
    /\ deriveLocked

-----------------------------------------------------------------------------
(* The components. *)

Return(c, err) ==
    /\ comp' = [comp EXCEPT ![c] = "returned"]
    /\ compErr' = IF err THEN compErr \cup {c} ELSE compErr

\* The reconciler reports every state it takes from the engine, also one it
\* takes after the cancellation: "stopped" is the last.
ReconcilerObserves(s) ==
    /\ comp["reconciler"] = "running"
    /\ s = "stopped" => ctxDone
    /\ ObserveNetworkState(s)
    /\ UNCHANGED <<life, components, told>>

\* Supervisor.Run: a cancelled run returns nil, a terminal error or one too
\* many is returned, otherwise the controller is run again after a delay.
ReconcilerFails ==
    /\ comp["reconciler"] = "running"
    /\ ~ctxDone
    /\ \/ Return("reconciler", TRUE) /\ UNCHANGED <<restarts, health>>
       \/ /\ restarts["reconciler"] < MaxRestarts
          /\ comp' = [comp EXCEPT !["reconciler"] = "retrying"]
          /\ ComponentRetry("reconciler")
          /\ UNCHANGED <<compErr, restarts>>
    /\ UNCHANGED <<life, told>>

ReconcilerRestarts ==
    /\ comp["reconciler"] = "retrying"
    /\ ~ctxDone
    /\ comp' = [comp EXCEPT !["reconciler"] = "running"]
    /\ restarts' = [restarts EXCEPT !["reconciler"] = @ + 1]
    /\ UNCHANGED <<life, compErr, health, told>>

\* HTTPService.Run.  The listener stops serving by itself ...
ListenerDies ==
    /\ comp["http"] = "running"
    /\ comp' = [comp EXCEPT !["http"] = "down"]
    /\ UNCHANGED <<life, compErr, restarts, health, told>>

\* ... which is noticed and retried within the budget ...
ListenerRetries ==
    /\ comp["http"] = "down"
    /\ ~ctxDone
    /\ IF restarts["http"] >= MaxRestarts
         THEN Return("http", TRUE) /\ UNCHANGED health
         ELSE /\ comp' = [comp EXCEPT !["http"] = "retrying"]
              /\ ComponentRetry("http")
              /\ UNCHANGED compErr
    /\ UNCHANGED <<life, restarts, told>>

\* ... and rebound after a delay, or not.
ListenerRebinds ==
    /\ comp["http"] = "retrying"
    /\ ~ctxDone
    /\ restarts' = [restarts EXCEPT !["http"] = @ + 1]
    /\ \/ /\ comp' = [comp EXCEPT !["http"] = "running"]
          /\ ComponentRecovered("http")
       \/ comp' = [comp EXCEPT !["http"] = "down"] /\ UNCHANGED health
    /\ UNCHANGED <<life, compErr, told>>

\* ControlServer.Run closes the listener and removes the socket; an error of
\* that is dropped.
closesSocket(c) ==
    IF c = "control" THEN socket' \in {"absent", "stale"} ELSE UNCHANGED socket

\* The control listener or a notification fails.
ComponentFails(c) ==
    /\ c \in {"control", "systemd"}
    /\ comp[c] = "running"
    /\ ~ctxDone
    /\ Return(c, TRUE)
    /\ closesSocket(c)
    /\ UNCHANGED <<configuration, publisher, group, hostname, process, restarts, health,
                   told>>

\* After the cancellation every component returns; only the shutdown of a
\* listener that is still serving can fail.
ComponentReturns(c) ==
    /\ comp[c] \in {"running", "down", "retrying"}
    /\ ctxDone
    /\ \E err \in {FALSE} \cup {c = "http" /\ comp[c] = "running"} : Return(c, err)
    /\ told' = IF c = "systemd" THEN "stopping" ELSE told
    /\ closesSocket(c)
    /\ UNCHANGED <<configuration, publisher, group, hostname, process, restarts, health>>

\* The notifier's select also takes a change after the cancellation.
Notify(s) ==
    /\ comp["systemd"] = "running"
    /\ s \in changes
    /\ changes' = {}
    /\ told' = s
    /\ UNCHANGED <<life, components, status, stage, degraded>>

-----------------------------------------------------------------------------
(* runManagedAppliance. *)

Fail(to) == phase' = to /\ failed' = TRUE
Start(cs) == comp' = [c \in Components |-> IF c \in cs THEN "running" ELSE comp[c]]

\* loadSetupOptions, which also fails when Avahi does not answer, or the
\* identity, a password file or the logo cannot be read.
Load ==
    /\ phase = "configure"
    /\ options' \in {loadSetupOptions(raw), {}}
    /\ phase' = IF options' = {} THEN "refused" ELSE "validate"
    /\ UNCHANGED <<raw, resources, asked, ctxDone, failed, collected, components, health,
                   told>>

\* NewNotifier and validateSetupOptions.  Nothing has been started or reported
\* when they fail.
ValidateOptions ==
    /\ phase = "validate"
    /\ phase' \in {"bind", "refused"}
    /\ raw' = NoConfiguration /\ options' = {}
    /\ UNCHANGED <<resources, asked, ctxDone, failed, collected, components, health, told>>

\* NewDNSConfigFile, openClient, buildApplianceComponents and StartHTTPService.
BindListener ==
    /\ phase = "bind"
    /\ \/ phase' = "recover" /\ Start({"http"}) /\ UNCHANGED failed
       \/ Fail("return") /\ UNCHANGED comp
    /\ UNCHANGED <<configuration, resources, asked, ctxDone, collected, compErr, restarts,
                   health, told>>

\* Captive and pending-profile recovery.
RecoverStartup ==
    /\ phase = "recover"
    /\ \/ phase' = "discover" /\ UNCHANGED failed
       \/ Fail("stop_listener")
    /\ UNCHANGED <<configuration, resources, asked, ctxDone, collected, components, health,
                   told>>

\* Publisher.start.  Whatever fails, Start closes the publisher: the group is
\* freed, by the connection that owns it if the call fails.
closed == publisher' = "none" /\ group' = FALSE

\* The hostname is read, the server is running, and the group is created.
StartDiscovery ==
    /\ phase = "discover"
    /\ \/ /\ phase' = "commit" /\ UNCHANGED failed
          /\ publisher' = hostname /\ group' = TRUE
       \/ Fail("stop_listener") /\ closed
    /\ UNCHANGED <<configuration, hostname, socket, asked, ctxDone, collected, components,
                   health, told>>

\* AddHTTPService, Commit and the wait for the group to be established.
CommitGroup ==
    /\ phase = "commit"
    /\ \/ phase' = "confirm" /\ UNCHANGED <<failed, publisher, group>>
       \/ Fail("stop_listener") /\ closed
    /\ UNCHANGED <<configuration, hostname, socket, asked, ctxDone, collected, components,
                   health, told>>

\* The hostname is read again.
ConfirmHostname ==
    /\ phase = "confirm"
    /\ \/ /\ publisher = hostname
          /\ phase' = "hostname" /\ UNCHANGED <<failed, publisher, group>>
       \/ Fail("stop_listener") /\ closed
    /\ UNCHANGED <<configuration, hostname, socket, asked, ctxDone, collected, components,
                   health, told>>

\* runManagedAppliance holds the publisher from here on, and compares its
\* hostname with the one in the options.
CheckHostname ==
    /\ phase = "hostname"
    /\ IF publisher = "resolved" THEN phase' = "control" /\ UNCHANGED failed
                                 ELSE Fail("stop_listener")
    /\ UNCHANGED <<configuration, resources, asked, ctxDone, collected, components, health,
                   told>>

\* Avahi renames the host, after a collision or on request.  Nobody looks again
\* once the appliance runs.
HostnameChanges ==
    /\ phase \in {"validate", "bind", "recover", "discover", "commit", "confirm"}
    /\ hostname' \in Hostnames \ {hostname}
    /\ UNCHANGED <<configuration, publisher, group, socket, process, components, health,
                   told>>

\* StartControlServer: an active listener is never displaced, a socket that
\* refuses connections is replaced.
bindControl ==
    /\ socket # "other"
    /\ socket' = "ours"
bindFails == socket' \in {socket} \cup (IF socket = "other" THEN {} ELSE {"absent"})

\* buildReconciler and StartControlServer, then the components are started; the
\* notifier only under systemd.
StartControl ==
    /\ phase = "control"
    /\ \/ /\ phase' = "supervise"
          /\ bindControl
          /\ \E notifier \in SUBSET {"systemd"} : Start({"control", "reconciler"} \cup notifier)
          /\ UNCHANGED failed
       \/ Fail("stop_listener") /\ bindFails /\ UNCHANGED comp
    /\ UNCHANGED <<configuration, publisher, group, hostname, asked, ctxDone, collected,
                   compErr, restarts, health, told>>

\* stopListener cancels the runtime and waits for the listener.
mutant_StopListener ==
    /\ phase = "stop_listener"
    /\ ctxDone' = TRUE
    /\ phase' = "stop_operations"
    /\ UNCHANGED <<asked, failed, collected, configuration, resources, components, health, told>>
StopListener ==
    /\ phase = "stop_listener"
    /\ ctxDone' = TRUE
    /\ phase' = IF comp["http"] = "returned" THEN "stop_operations" ELSE phase
    /\ UNCHANGED <<asked, failed, collected, configuration, resources, components, health, told>>

\* superviseComponents takes the first result and marks the process stopping.
\* A component that returned nil without a cancellation has failed, too.
mutant_FirstResult(c) ==
    /\ phase = "supervise"
    /\ comp[c] = "returned"
    /\ collected' = {c}
    /\ setTerminal("stopping")
    /\ phase' = "stopping"
    /\ UNCHANGED <<asked, ctxDone, failed, configuration, resources, components, told>>
FirstResult(c) ==
    /\ phase = "supervise"
    /\ comp[c] = "returned"
    /\ collected' = {c}
    /\ failed' = (c \in compErr \/ ~ctxDone)
    /\ setTerminal("stopping")
    /\ phase' = "stopping"
    /\ UNCHANGED <<asked, ctxDone, configuration, resources, components, told>>

mutant_CancelRuntime ==
    /\ phase = "stopping"
    /\ phase' = "drain"
    /\ UNCHANGED <<ctxDone, asked, failed, collected, configuration, resources, components, health,
                   told>>
CancelRuntime ==
    /\ phase = "stopping"
    /\ ctxDone' = TRUE
    /\ phase' = "drain"
    /\ UNCHANGED <<asked, failed, collected, configuration, resources, components, health, told>>

\* The other results are awaited, in whatever order they come.
started == {c \in Components : comp[c] # "off"}
Collect(c) ==
    /\ phase = "drain"
    /\ comp[c] = "returned" /\ c \notin collected
    /\ collected' = collected \cup {c}
    /\ failed' = (failed \/ c \in compErr)
    /\ phase' = IF collected' = started THEN "stop_operations" ELSE phase
    /\ UNCHANGED <<asked, ctxDone, configuration, resources, components, health, told>>

\* Service.Shutdown, which may time out.  Captive and mDNS resources are only
\* cleaned up when startup got as far as publishing.
StopOperations ==
    /\ phase = "stop_operations"
    /\ failed' \in {failed, TRUE}
    /\ phase' = IF publisher # "none" THEN "cleanup" ELSE "return"
    /\ UNCHANGED <<asked, ctxDone, collected, configuration, resources, components, health, told>>

\* stopManagedResources: LeaveProvisioning and Publisher.Close.
Cleanup ==
    /\ phase = "cleanup"
    /\ closed
    /\ failed' \in {failed, TRUE}
    /\ phase' = "return"
    /\ UNCHANGED <<asked, ctxDone, collected, configuration, hostname, socket, components,
                   health, told>>

\* The deferred functions: close the client, then report Failed or Stopped.
ReturnResult ==
    /\ phase = "return"
    /\ failed' \in {failed, TRUE}
    /\ setTerminal(IF failed' THEN "failed" ELSE "stopped")
    /\ ctxDone' = TRUE
    /\ phase' = "done"
    /\ UNCHANGED <<asked, collected, configuration, resources, components, told>>

ParentCancels ==
    /\ ~asked
    /\ phase \notin Ended
    /\ asked' = TRUE /\ ctxDone' = TRUE
    /\ UNCHANGED <<phase, failed, collected, configuration, resources, components, health, told>>

Main ==
    \/ Load \/ ValidateOptions
    \/ BindListener \/ RecoverStartup
    \/ StartDiscovery \/ CommitGroup \/ ConfirmHostname \/ CheckHostname
    \/ StartControl
    \/ StopListener \/ CancelRuntime \/ StopOperations \/ Cleanup \/ ReturnResult
    \/ \E c \in Components : FirstResult(c) \/ Collect(c)

ComponentStep ==
    \/ \E s \in Observed : ReconcilerObserves(s)
    \/ ReconcilerFails \/ ReconcilerRestarts
    \/ ListenerDies \/ ListenerRetries \/ ListenerRebinds
    \/ \E c \in Components : ComponentFails(c) \/ ComponentReturns(c)
    \/ \E s \in changes : Notify(s)

Next == Main \/ ComponentStep \/ ParentCancels \/ HostnameChanges

Spec == Init /\ [][Next]_vars

\* The main goroutine runs, a cancelled component returns within its timeouts,
\* and a listener that has died is noticed and retried.
Fairness ==
    /\ WF_vars(Main)
    /\ \A c \in Components : WF_vars(ComponentReturns(c))
    /\ WF_vars(ListenerRetries) /\ WF_vars(ListenerRebinds)
    /\ WF_vars(ReconcilerRestarts)

FairSpec == Spec /\ Fairness

-----------------------------------------------------------------------------
(* Properties. *)

\* Coalescing loses no update: a running notifier with nothing left to read has
\* told systemd the current status.
StatusDelivered ==
    comp["systemd"] = "running" /\ changes = {} => told = status

\* Readiness is truthful: health does not say "ready" while the listener is
\* waiting to be rebound or the controller to be restarted, whatever the other
\* components report meanwhile.
ReadyMeansRunning ==
    status = "ready" => \A c \in Restarting : comp[c] # "retrying"

\* When the process function returns it has joined the goroutine of every component
\* and closed what it opened, from wherever startup failed: no Avahi entry group
\* is left and nobody answers on the control socket for it.  A setup operation
\* that outlives the timeout of Shutdown is not joined.
ExitLeavesNothing ==
    phase \in Ended =>
        /\ \A c \in Components : comp[c] \in {"off", "returned"}
        /\ publisher = "none" /\ ~group /\ socket # "ours"

\* The last word is true.  No component that is still running overwrites the
\* health of the ended process, which is its result; and a clean stop was asked
\* for and hides no component's error.
TruthfulExit ==
    phase = "done" =>
        /\ status = IF failed THEN "failed" ELSE "stopped"
        /\ ~failed => asked /\ compErr = {}

\* A component that gives up, and a cancellation, end the whole process.
ExitCompletes ==
    (ctxDone \/ \E c \in Components : comp[c] = "returned") ~> phase \in Ended

\* Whatever the file and the command line say, in whatever order they overlay
\* each other, the configuration the process goes on with can be served: the
\* portal is on the very port that was asked for, every captive client is there
\* after one redirect and none is sent round in a circle, the setup link is
\* answered by the portal too, and an application link has a label and a
\* well-formed target once it is rendered.
AcceptedIsServable ==
    \A config \in options :
        /\ config.port \in PortsAsked(raw)
        /\ RedirectEnds(config)
        /\ servesPortal(config, authorityPort(setupURL(config)))
        /\ <<config.label, config.url>> \in {<<"empty", "empty">>, <<"good", "good">>}
        /\ config.health \in (IF config.url = "empty" THEN {"empty"} ELSE {"empty", "good"})
        /\ config.infrastructure \/ config.standalone

\* The bit arithmetic of the address check means what its message says: a
\* standalone address that is accepted is a host of its subnet, neither the
\* network's own address nor the broadcast address, and leaves a host for a
\* client.
AcceptedAddressUsable ==
    \A config \in options : config.standalone => Usable(config.address)
=============================================================================
