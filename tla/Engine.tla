------------------------------- MODULE Engine -------------------------------
(***************************************************************************)
(* The reconciliation engine: internal/appliance/engine.go (Engine,        *)
(* NetworkManagerObserver) over the property signals of                    *)
(* internal/networkmanager/events.go.                                      *)
(*                                                                         *)
(* The network changes at any time and raises a signal; the one exception  *)
(* is a profile that is only updated.  Signals coalesce in a channel that  *)
(* holds one change.  The engine takes a change or an expired grace timer, *)
(* reads the device status and then the profiles in two separate calls,    *)
(* evaluates the snapshot, and sends a state that differs from its last    *)
(* one into a bounded channel.                                             *)
(***************************************************************************)
EXTENDS Naturals, Sequences, Connectivity

CONSTANTS Networks,          \* network situations, see NetworkStates
          Requirement,       \* configured connectivity requirement
          TransitionBuffer,  \* capacity of transitions (32 in the code)
          ErrorBuffer,       \* capacity of errorsOut (8 in the code)
          MaxChanges         \* bound: network changes per behaviour

ASSUME BufferAssumption == TransitionBuffer \in Nat \ {0} /\ ErrorBuffer \in Nat \ {0}
ASSUME MaxChangesAssumption == MaxChanges \in Nat

\* What NetworkManager can report: whether it manages the device, the device
\* condition, the mode of the active profile, how far the link reaches, and
\* the modes that have an autoconnect profile.
NetworkStates ==
    [managed : BOOLEAN,
     condition : {"activated", "connecting", "failed", "disconnected"},
     active : {"none", "infrastructure", "standalone", "provisioning"},
     link : {"none", "local", "full"},
     autoconnect : SUBSET {"infrastructure", "standalone"}]

ASSUME NetworksAssumption == Networks \subseteq NetworkStates

\* No status is being looked at: the zero Status.
Unread == [managed |-> FALSE, condition |-> "disconnected", active |-> "none",
           link |-> "none", autoconnect |-> {}]

VARIABLES
    net,       \* the network as it is
    changes,   \* network changes so far
    signal,    \* a PropertiesChanged signal is on its way
    change,    \* the coalescing changes channel holds an element
    pc,        \* where Engine.run is
    timedOut,  \* argument of the running reconcile, FALSE when none runs
    seen,      \* the device status read by the running snapshot, or Unread
    next,      \* the state to emit
    grace,     \* grace timer: "off", "running", or "expired" and not yet taken
    current,   \* the last state emitted
    queue,     \* the transitions channel
    errs,      \* errors waiting in errorsOut
    ctxDone,   \* the engine's context is cancelled
    earlier    \* ghost: values net.autoconnect had before it changed without a
               \* signal, since the profiles were last read

engineVars == <<net, changes, signal, change, pc, timedOut, seen, next, grace,
                current, queue, errs, ctxDone, earlier>>

State(stage, mode, reason, detail) ==
    [stage |-> stage, mode |-> mode, reason |-> reason, detail |-> detail]

\* The zero State the engine starts from.
Zero == State("", "", "", "")
Booting == State("booting", "none", "starting", "")
Reconciling(mode) == State("reconciling", mode, "inspecting-network", "")
ObservationFailed == State("failed", "none", "observation-failed", "error")
Stopped(mode) == State("stopped", mode, "interrupted", "")

-----------------------------------------------------------------------------
(* evaluate, a pure function of a snapshot. *)

Observation(status) ==
    [activated |-> status.condition = "activated",
     hasLocalAddress |-> status.link # "none",
     internet |-> IF status.link = "full" THEN "full" ELSE "none"]

Waiting(mode, reason, detail) ==
    State("waiting-for-connectivity", mode, reason, detail)
Provisioning(reason, detail) ==
    State("provisioning", "provisioning", reason, detail)

\* A device set up for standalone mode whose access point is not up.
evaluateStandalone(snapshot, late) ==
    IF snapshot.condition = "failed" THEN Provisioning("activation-failed", "")
    ELSE IF late THEN Provisioning("activation-timed-out", "")
    ELSE Waiting("standalone", "waiting-for-activation", "")

\* A device with an active or an eligible infrastructure connection.
mutant_evaluateInfrastructure(snapshot, late) ==
    LET isActive == snapshot.active = "infrastructure"
    IN  IF snapshot.condition = "failed" THEN Provisioning("activation-failed", "")
        ELSE IF isActive /\ Evaluate(Requirement, Observation(snapshot))
          THEN State("infrastructure", "infrastructure", "infrastructure-ready", "")
        ELSE Waiting("infrastructure", "waiting-for-connectivity", "")
evaluateInfrastructure(snapshot, late) ==
    LET isActive == snapshot.active = "infrastructure"
        reason   == EvaluateReason(Requirement, Observation(snapshot))
    IN  IF snapshot.condition = "failed" THEN Provisioning("activation-failed", "")
        ELSE IF isActive /\ Evaluate(Requirement, Observation(snapshot))
          THEN State("infrastructure", "infrastructure", "infrastructure-ready", "")
        ELSE IF late
          THEN IF isActive THEN Provisioning("connectivity-timed-out", reason)
                           ELSE Provisioning("activation-timed-out", "")
        ELSE IF isActive
          THEN Waiting("infrastructure", "waiting-for-connectivity", reason)
          ELSE Waiting("infrastructure", "waiting-for-activation", "")

evaluate(snapshot, late) ==
    IF ~snapshot.managed THEN State("failed", "none", "device-unmanaged", "")
    ELSE IF snapshot.active = "provisioning" THEN Provisioning("provisioning-active", "")
    ELSE IF snapshot.active = "standalone"
      THEN State("standalone", "standalone", "standalone-active", "")
    ELSE IF "standalone" \in snapshot.autoconnect THEN evaluateStandalone(snapshot, late)
    ELSE IF snapshot.active # "infrastructure"
            /\ "infrastructure" \notin snapshot.autoconnect
      THEN Provisioning("no-infrastructure-candidate", "")
    ELSE evaluateInfrastructure(snapshot, late)

-----------------------------------------------------------------------------
EngineInit ==
    /\ net \in Networks
    /\ changes = 0
    /\ signal = FALSE /\ change = FALSE
    /\ pc = "boot" /\ timedOut = FALSE
    /\ seen = Unread
    /\ next = Booting
    /\ grace = "off"
    /\ current = Zero
    /\ queue = << >> /\ errs = 0
    /\ ctxDone = FALSE
    /\ earlier = {}

\* NetworkManager changes state and emits PropertiesChanged.  An update of a
\* stored profile is announced by Settings.Connection.Updated instead, which
\* WatchProperties does not subscribe to.
NetworkChanges(n) ==
    /\ changes < MaxChanges
    /\ n # net
    /\ net' = n
    /\ changes' = changes + 1
    /\ \/ signal' = TRUE /\ UNCHANGED earlier
       \/ /\ n = [net EXCEPT !.autoconnect = n.autoconnect]
          /\ earlier' = earlier \cup {net.autoconnect}
          /\ UNCHANGED signal
    /\ UNCHANGED <<change, pc, timedOut, seen, next, grace, current, queue, errs,
                   ctxDone>>

\* Watch forwards an event; a full channel drops it, the one it holds suffices.
mutant_ForwardChange ==
    /\ signal
    /\ signal' = FALSE
    /\ change' = (change \/ pc = "loop")
    /\ UNCHANGED <<net, changes, pc, timedOut, seen, next, grace, current, queue,
                   errs, ctxDone, earlier>>
ForwardChange ==
    /\ signal
    /\ signal' = FALSE
    /\ change' = TRUE
    /\ UNCHANGED <<net, changes, pc, timedOut, seen, next, grace, current, queue,
                   errs, ctxDone, earlier>>

\* The emit closure: an unchanged state is not sent, a full channel blocks
\* until there is room or the context is done.
emit(then, interrupted) ==
    \/ /\ next = current
       /\ pc' = then
       /\ UNCHANGED <<current, queue>>
    \/ /\ next # current
       /\ Len(queue) < TransitionBuffer
       /\ queue' = Append(queue, next)
       /\ current' = next
       /\ pc' = then
    \/ /\ next # current
       /\ ctxDone
       /\ pc' = interrupted
       /\ UNCHANGED <<current, queue>>

\* The emission of "booting", then of "reconciling", then the first snapshot.
EmitBooting ==
    /\ pc = "boot"
    /\ emit("reconciling", "stopped")
    /\ next' = Reconciling("none")
    /\ UNCHANGED <<net, changes, signal, change, timedOut, seen, grace, errs,
                   ctxDone, earlier>>

EmitReconciling ==
    /\ pc = "reconciling"
    /\ emit("status", "loop")
    /\ UNCHANGED <<net, changes, signal, change, timedOut, seen, next, grace, errs,
                   ctxDone, earlier>>

\* Snapshot, first call: the device status.
ReadStatus ==
    /\ pc = "status"
    /\ seen' = net
    /\ pc' = "profiles"
    /\ UNCHANGED <<net, changes, signal, change, timedOut, next, grace, current,
                   queue, errs, ctxDone, earlier>>

\* reconcile keeps a running timer, and stops it when there is no waiting.
mutant_graceFor(state) ==
    IF state.stage = "waiting-for-connectivity" /\ grace = "off" THEN "running" ELSE grace
graceFor(state) ==
    IF state.stage # "waiting-for-connectivity" THEN "off"
    ELSE IF grace = "off" THEN "running" ELSE grace

\* Snapshot, second call: the profiles.  The active mode is looked up by UUID
\* in this later listing, so it is "none" if the profile has gone meanwhile.
ReadProfiles ==
    /\ pc = "profiles"
    /\ \E mode \in {seen.active} \cup (IF net.active # seen.active THEN {"none"} ELSE {}) :
          LET snapshot == [seen EXCEPT !.active = mode, !.autoconnect = net.autoconnect]
          IN  /\ next' = evaluate(snapshot, timedOut)
              /\ grace' = graceFor(next')
    /\ pc' = "emit"
    /\ timedOut' = FALSE /\ seen' = Unread
    /\ earlier' = {}
    /\ UNCHANGED <<net, changes, signal, change, current, queue, errs, ctxDone>>

\* Either call of Snapshot fails.
SnapshotFails ==
    /\ pc \in {"status", "profiles"}
    /\ IF ctxDone
         THEN pc' = "loop" /\ UNCHANGED <<next, grace>>
         ELSE pc' = "emit" /\ next' = ObservationFailed /\ grace' = "off"
    /\ timedOut' = FALSE /\ seen' = Unread
    /\ UNCHANGED <<net, changes, signal, change, current, queue, errs, ctxDone,
                   earlier>>

Emit ==
    /\ pc = "emit"
    /\ LET then == IF next = ObservationFailed THEN "error" ELSE "loop"
       IN  emit(then, then)
    /\ UNCHANGED <<net, changes, signal, change, timedOut, seen, next, grace, errs,
                   ctxDone, earlier>>

\* Send into errorsOut, blocking while it is full.
PushError ==
    /\ pc = "error"
    /\ \/ errs < ErrorBuffer /\ errs' = errs + 1
       \/ ctxDone /\ UNCHANGED errs
    /\ pc' = "loop"
    /\ UNCHANGED <<net, changes, signal, change, timedOut, seen, next, grace,
                   current, queue, ctxDone, earlier>>

(* The select of the main loop. *)

\* The change must be taken before the snapshot is read, not after it.
TakeChange ==
    /\ pc = "loop" /\ change
    /\ change' = FALSE
    /\ timedOut' = FALSE
    /\ pc' = "status"
    /\ UNCHANGED <<net, changes, signal, seen, next, grace, current, queue, errs,
                   ctxDone, earlier>>

TakeGrace ==
    /\ pc = "loop" /\ grace = "expired"
    /\ grace' = "off"
    /\ timedOut' = TRUE
    /\ pc' = "status"
    /\ UNCHANGED <<net, changes, signal, change, seen, next, current, queue, errs,
                   ctxDone, earlier>>

\* An error of the signal subscription.
TakeWatchError ==
    /\ pc = "loop"
    /\ pc' = "error"
    /\ UNCHANGED <<net, changes, signal, change, timedOut, seen, next, grace,
                   current, queue, errs, ctxDone, earlier>>

\* The final "stopped" transition is sent only if there is room for it.
Stop ==
    /\ pc = "loop" /\ ctxDone
    /\ pc' = "stopped"
    /\ grace' = "off"
    /\ queue' = IF Len(queue) < TransitionBuffer
                  THEN Append(queue, Stopped(current.mode)) ELSE queue
    /\ UNCHANGED <<net, changes, signal, change, timedOut, seen, next, current,
                   errs, ctxDone, earlier>>

\* The grace period ends.
GraceExpires ==
    /\ grace = "running"
    /\ grace' = "expired"
    /\ UNCHANGED <<net, changes, signal, change, pc, timedOut, seen, next, current,
                   queue, errs, ctxDone, earlier>>

EngineStep ==
    \/ EmitBooting \/ EmitReconciling \/ ReadStatus \/ ReadProfiles \/ SnapshotFails
    \/ Emit \/ PushError \/ TakeChange \/ TakeGrace \/ Stop

-----------------------------------------------------------------------------
\* The process is told to stop.
Cancel ==
    /\ ~ctxDone
    /\ ctxDone' = TRUE
    /\ UNCHANGED <<net, changes, signal, change, pc, timedOut, seen, next, grace,
                   current, queue, errs, earlier>>

-----------------------------------------------------------------------------
(* Properties. *)

Stages == {"", "booting", "reconciling", "waiting-for-connectivity",
           "infrastructure", "standalone", "provisioning", "failed", "stopped"}

EngineTypeOK ==
    /\ net \in NetworkStates /\ seen \in NetworkStates
    /\ changes \in 0..MaxChanges
    /\ signal \in BOOLEAN /\ change \in BOOLEAN /\ ctxDone \in BOOLEAN
    /\ timedOut \in BOOLEAN
    /\ pc \in {"boot", "reconciling", "status", "profiles", "emit", "error", "loop",
               "stopped"}
    /\ next.stage \in Stages /\ current.stage \in Stages
    /\ grace \in {"off", "running", "expired"}
    /\ Len(queue) <= TransitionBuffer
    /\ errs \in 0..ErrorBuffer
    /\ earlier \in SUBSET SUBSET {"infrastructure", "standalone"}

\* The network with an autoconnect setting it has, or had before an update that
\* nobody was told of.
Announced == {[net EXCEPT !.autoconnect = a] : a \in {net.autoconnect} \cup earlier}

\* No change is lost to coalescing or to the two-call snapshot: whenever the
\* engine waits with no signal outstanding, the state it last emitted is the
\* evaluation of the network as it is now, up to profile updates without a signal.
ReflectsNetwork ==
    pc = "loop" /\ ~signal /\ ~change /\ ~ctxDone =>
        \/ current = ObservationFailed
        \/ \E n \in Announced, late \in BOOLEAN : current = evaluate(n, late)

\* Waiting is bounded: while the engine waits for connectivity its grace timer
\* is running or has fired, and no timer is left over in any other state.
WaitingIsTimed ==
    pc = "loop" /\ ~ctxDone =>
        (grace # "off" <=> current.stage = "waiting-for-connectivity")

\* Once the network stops changing the engine decides: it does not stay in
\* waiting-for-connectivity for ever, and it does not flap in and out of it.
Decides ==
    <>[](current.stage # "waiting-for-connectivity" \/ pc = "stopped" \/ ctxDone)
=============================================================================
