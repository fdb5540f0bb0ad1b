-------------------------- MODULE Controller_proofs --------------------------
(***************************************************************************)
(* Proofs about Controller and the Engine it extends: for every network,   *)
(* requirement, channel capacity, restart budget and number of changes and *)
(* requests.                                                               *)
(***************************************************************************)
EXTENDS Controller, SequenceTheorems, TLAPS

\* The states that the engine can emit, each field by itself.
Modes == {"", "none", "infrastructure", "standalone", "provisioning"}
Reasons == {"", "starting", "inspecting-network", "observation-failed", "interrupted",
            "device-unmanaged", "provisioning-active", "standalone-active",
            "no-infrastructure-candidate", "activation-failed",
            "activation-timed-out", "connectivity-timed-out",
            "waiting-for-activation", "waiting-for-connectivity",
            "infrastructure-ready"}
Details == {"", "error", "device-not-activated", "no-local-address",
            "internet-not-confirmed", "requirement-satisfied"}
States == [stage : Stages, mode : Modes, reason : Reasons, detail : Details]

EngineTypes ==
    /\ net \in NetworkStates /\ seen \in NetworkStates
    /\ changes \in 0..MaxChanges
    /\ signal \in BOOLEAN /\ change \in BOOLEAN /\ ctxDone \in BOOLEAN
    /\ timedOut \in BOOLEAN
    /\ pc \in {"boot", "reconciling", "status", "profiles", "emit", "error", "loop",
               "stopped"}
    /\ next \in States /\ current \in States
    /\ grace \in {"off", "running", "expired"}
    /\ errs \in 0..ErrorBuffer
    /\ earlier \in SUBSET SUBSET {"infrastructure", "standalone"}

ManagerTypes ==
    /\ entered \in BOOLEAN /\ exited \in BOOLEAN
    /\ former \in {"none", "left", "returned"}

ControlTypes ==
    /\ ctl \in {"start", "select", "calling", "delay", "ended"}
    /\ acted \in {"none", "enter", "leave"}
    /\ doing \in [action : {"none", "enter", "leave"}, recovery : BOOLEAN]
    /\ awaiting \in BOOLEAN /\ pending \in BOOLEAN /\ notify \in BOOLEAN
    /\ ManagerTypes
    /\ restarts \in 0..MaxRestarts
    /\ ctl = "delay" => restarts < MaxRestarts
    /\ requests \in 0..MaxRequests
    /\ stale \in 0..TransitionBuffer

\* The timer fits the state that is emitted or about to be.
TimerInv ==
    /\ pc = "emit" => (grace # "off" <=> next.stage = "waiting-for-connectivity")
    /\ pc \in {"loop", "error"} /\ ~ctxDone =>
          (grace # "off" <=> current.stage = "waiting-for-connectivity")

\* The state is an evaluation of the network as it is, up to profile updates that
\* nobody was told of.
Evaluated(state) ==
    \/ state = ObservationFailed
    \/ \E n \in Announced, late \in BOOLEAN : state = evaluate(n, late)

\* What the engine has read is the network unless a change is on its way.
NetworkInv ==
    ~signal /\ ~change =>
        /\ pc = "profiles" => [seen EXCEPT !.autoconnect = net.autoconnect] = net
        /\ pc = "emit" => Evaluated(next)
        /\ pc \in {"loop", "error"} /\ ~ctxDone => Evaluated(current)

\* The last state in the channel is the engine's; an engine that has emitted
\* nothing has no state yet, and none is left of an engine that was given up.
QueueInv ==
    /\ queue \in Seq(States) /\ Len(queue) <= TransitionBuffer
    /\ pc # "stopped" /\ queue # << >> => queue[Len(queue)] = current
    /\ ctl = "start" /\ pc # "stopped" /\ queue = << >> => current = Zero
    /\ ctl = "delay" => queue = << >> /\ pc = "stopped" /\ current = Zero

\* A request is waiting to be noticed or is being served.
RequestInv ==
    /\ pending /\ ctl = "select" => notify
    /\ pending /\ ctl = "calling" => notify \/ doing.recovery

\* What the controller did last is what the captive manager is in; the setup
\* workflow can only leave.
ActedInv ==
    /\ ctl = "calling" => doing.action \in {"enter", "leave"}
    /\ ctl = "calling" /\ doing.recovery => doing.action = "enter"
    /\ acted = "leave" => ~entered
    /\ ctl \in {"start", "select", "calling"} /\ acted = "enter" =>
          entered \/ exited

\* Once everything emitted has been read, the controller has acted on the last
\* state, or is about to.
DecidedInv ==
    queue = << >> /\ pc # "stopped" =>
        /\ current.stage \in {"infrastructure", "standalone"} =>
              /\ ctl = "select" => acted = "leave" \/ awaiting
              /\ ctl = "calling" => doing.action = "leave" \/ doing.recovery
        /\ current.stage = "provisioning" =>
              /\ ctl = "select" => acted = "enter"
              /\ ctl = "calling" => doing.action = "enter"

\* The inductive invariant.
Inv == /\ EngineTypes /\ ControlTypes /\ TimerInv /\ NetworkInv /\ QueueInv
       /\ RequestInv /\ ActedInv /\ DecidedInv

-----------------------------------------------------------------------------
(* The operators. *)

LEMMA StateTyped ==
    ASSUME NEW stage \in Stages, NEW mode \in Modes, NEW reason \in Reasons,
           NEW detail \in Details
    PROVE State(stage, mode, reason, detail) \in States
  BY DEF State, States

\* A verdict of the connectivity policy has a reason.
LEMMA ReasonTyped ==
    ASSUME NEW observation
    PROVE EvaluateReason(Requirement, observation) \in Details
  BY DEF EvaluateReason, Details

\* evaluate returns a state, whatever the snapshot.
LEMMA EvaluateTyped ==
    ASSUME NEW snapshot, NEW late
    PROVE evaluate(snapshot, late) \in States
<1>0. "provisioning" \in Stages \cap Modes /\ "waiting-for-connectivity" \in Stages
  BY DEF Stages, Modes
<1>1. ASSUME NEW reason \in Reasons, NEW detail \in Details
      PROVE Provisioning(reason, detail) \in States
  BY <1>0, StateTyped DEF Provisioning
<1>2. ASSUME NEW mode \in Modes, NEW reason \in Reasons, NEW detail \in Details
      PROVE Waiting(mode, reason, detail) \in States
  BY <1>0, StateTyped DEF Waiting
<1>3. /\ "activation-failed" \in Reasons /\ "activation-timed-out" \in Reasons
      /\ "waiting-for-activation" \in Reasons /\ "waiting-for-connectivity" \in Reasons
      /\ "connectivity-timed-out" \in Reasons /\ "provisioning-active" \in Reasons
      /\ "no-infrastructure-candidate" \in Reasons /\ "" \in Details
      /\ "standalone" \in Modes /\ "infrastructure" \in Modes
  BY DEF Reasons, Details, Modes
<1>4. evaluateStandalone(snapshot, late) \in States
  BY <1>1, <1>2, <1>3 DEF evaluateStandalone
<1>5. evaluateInfrastructure(snapshot, late) \in States
  <2>1. EvaluateReason(Requirement, Observation(snapshot)) \in Details
    BY ReasonTyped
  <2>2. State("infrastructure", "infrastructure", "infrastructure-ready", "") \in States
    BY DEF State, States, Stages, Modes, Reasons, Details
  <2> QED BY <1>1, <1>2, <1>3, <2>1, <2>2 DEF evaluateInfrastructure
<1>6. /\ State("failed", "none", "device-unmanaged", "") \in States
      /\ State("standalone", "standalone", "standalone-active", "") \in States
  BY DEF State, States, Stages, Modes, Reasons, Details
<1>7. /\ Provisioning("provisioning-active", "") \in States
      /\ Provisioning("no-infrastructure-candidate", "") \in States
  BY <1>1, <1>3
<1> QED BY <1>4, <1>5, <1>6, <1>7 DEF evaluate

\* The states that the engine emits besides.
LEMMA ConstantStates ==
    /\ Zero \in States /\ Booting \in States /\ ObservationFailed \in States
    /\ Reconciling("none") \in States
    /\ Zero.stage = "" /\ Booting.stage = "booting"
    /\ ObservationFailed.stage = "failed"
<1>1. /\ Zero \in States /\ Booting \in States /\ ObservationFailed \in States
      /\ Reconciling("none") \in States
  BY DEF Zero, Booting, ObservationFailed, Reconciling, State, States, Stages, Modes,
         Reasons, Details
<1>2. /\ Zero.stage = "" /\ Booting.stage = "booting"
      /\ ObservationFailed.stage = "failed"
  BY DEF Zero, Booting, ObservationFailed, State
<1> QED BY <1>1, <1>2

LEMMA UnreadTyped == Unread \in NetworkStates
  BY DEF Unread, NetworkStates

LEMMA StoppedTyped ==
    ASSUME current \in States
    PROVE Stopped(current.mode) \in States
<1>1. current.mode \in Modes
  BY DEF States
<1> QED BY <1>1 DEF Stopped, State, States, Stages, Reasons, Details

\* Entering and leaving keep the network typed.
LEMMA NetworkTyped ==
    ASSUME net \in NetworkStates
    PROVE NetworkEntered \in NetworkStates /\ NetworkLeft \in NetworkStates
  BY DEF NetworkEntered, NetworkLeft, NetworkStates

\* Two networks that only differ in what the second listing reads.
LEMMA SnapshotExact ==
    ASSUME NEW m \in NetworkStates, NEW n \in NetworkStates,
           [m EXCEPT !.autoconnect = n.autoconnect] = n
    PROVE /\ m.active = n.active
          /\ [m EXCEPT !.active = m.active, !.autoconnect = n.autoconnect] = n
  BY DEF NetworkStates

\* An update without a signal leaves what was announced before as it was.
LEMMA SilentUpdate ==
    ASSUME Inv, NEW n \in NetworkStates, net' = n,
           n = [net EXCEPT !.autoconnect = n.autoconnect],
           earlier' = earlier \cup {net.autoconnect}
    PROVE Announced \subseteq Announced'
<1> SUFFICES ASSUME NEW a \in {net.autoconnect} \cup earlier
             PROVE [net EXCEPT !.autoconnect = a] \in Announced'
  BY DEF Announced
<1>1. [net EXCEPT !.autoconnect = a] = [net' EXCEPT !.autoconnect = a]
  BY DEF Inv, EngineTypes, NetworkStates
<1>2. a \in earlier'
  OBVIOUS
<1> QED BY <1>1, <1>2 DEF Announced

\* The channel: sending into it, and reading from it.
LEMMA Appended ==
    ASSUME NEW q \in Seq(States), NEW state \in States
    PROVE /\ Append(q, state) \in Seq(States)
          /\ Len(Append(q, state)) = Len(q) + 1
          /\ Append(q, state) # << >>
          /\ Append(q, state)[Len(Append(q, state))] = state
  BY AppendProperties, EmptySeq, LenProperties

LEMMA Taken ==
    ASSUME NEW q \in Seq(States), q # << >>
    PROVE /\ Head(q) \in States /\ Tail(q) \in Seq(States)
          /\ Len(Tail(q)) = Len(q) - 1 /\ Len(q) \in Nat \ {0}
          /\ Tail(q) # << >> => Tail(q)[Len(Tail(q))] = q[Len(q)]
          /\ Tail(q) = << >> => Head(q) = q[Len(q)]
  BY HeadTailProperties, EmptySeq, LenProperties

-----------------------------------------------------------------------------
(* Steps of the engine. *)

\* What the controller has decided.
decisionVars == <<ctl, acted, awaiting, doing>>

\* Steps that send nothing.
LEMMA QueueKept ==
    ASSUME Inv, UNCHANGED <<queue, current, decisionVars>>,
           pc = "stopped" => pc' = "stopped"
    PROVE QueueInv' /\ DecidedInv'
  BY DEF Inv, QueueInv, DecidedInv, decisionVars

\* Steps that send the next state.
LEMMA QueueSent ==
    ASSUME Inv, UNCHANGED decisionVars, pc # "stopped",
           Len(queue) < TransitionBuffer, queue' = Append(queue, next), current' = next
    PROVE QueueInv' /\ DecidedInv'
<1> USE DEF Inv
<1>1. /\ queue' \in Seq(States) /\ Len(queue') = Len(queue) + 1
      /\ queue' # << >> /\ queue'[Len(queue')] = current'
  BY Appended DEF QueueInv, EngineTypes
<1>2. Len(queue) \in Nat
  BY LenProperties DEF QueueInv
<1>3. Len(queue') <= TransitionBuffer
  BY <1>1, <1>2, BufferAssumption
<1> QED BY <1>1, <1>3 DEF QueueInv, DecidedInv, decisionVars

\* The emit closure.
LEMMA EmitInv ==
    ASSUME Inv, NEW then, NEW interrupted, emit(then, interrupted),
           UNCHANGED decisionVars, pc # "stopped"
    PROVE QueueInv' /\ DecidedInv'
  BY QueueKept, QueueSent DEF emit

LEMMA EngineInv ==
    ASSUME Inv, EngineActs
    PROVE EngineTypes' /\ TimerInv' /\ NetworkInv' /\ QueueInv' /\ DecidedInv'
<1> USE DEF Inv
<1>0. UNCHANGED decisionVars
  BY DEF EngineActs, controlVars, decisionVars
<1>1. CASE EmitBooting
  <2> USE <1>1 DEF EmitBooting
  <2>1. EngineTypes'
    BY ConstantStates DEF EngineTypes, emit
  <2>2. TimerInv'
    BY ConstantStates DEF TimerInv, emit
  <2>3. NetworkInv'
    BY DEF NetworkInv, Evaluated, Announced, emit
  <2>4. QueueInv' /\ DecidedInv'
    BY <1>0, EmitInv
  <2> QED BY <2>1, <2>2, <2>3, <2>4
<1>2. CASE EmitReconciling
  <2> USE <1>2 DEF EmitReconciling
  <2>1. EngineTypes'
    BY ConstantStates DEF EngineTypes, emit
  <2>2. TimerInv'
    BY ConstantStates DEF TimerInv, emit
  <2>3. NetworkInv'
    BY DEF NetworkInv, Evaluated, Announced, emit
  <2>4. QueueInv' /\ DecidedInv'
    BY <1>0, EmitInv
  <2> QED BY <2>1, <2>2, <2>3, <2>4
<1>3. CASE ReadStatus
  <2> USE <1>3 DEF ReadStatus
  <2>1. EngineTypes'
    BY ConstantStates DEF EngineTypes
  <2>2. TimerInv'
    BY ConstantStates DEF TimerInv
  <2>3. NetworkInv'
    <3>1. [net EXCEPT !.autoconnect = net.autoconnect] = net
      BY DEF EngineTypes, NetworkStates
    <3> QED BY <3>1 DEF NetworkInv, Evaluated, Announced
  <2>4. QueueInv' /\ DecidedInv'
    BY <1>0, QueueKept
  <2> QED BY <2>1, <2>2, <2>3, <2>4
<1>4. CASE SnapshotFails
  <2> USE <1>4 DEF SnapshotFails
  <2>1. EngineTypes'
    BY ConstantStates, UnreadTyped DEF EngineTypes
  <2>2. TimerInv'
    BY ConstantStates DEF TimerInv
  <2>3. NetworkInv'
    BY DEF NetworkInv, Evaluated, Announced
  <2>4. QueueInv' /\ DecidedInv'
    BY <1>0, QueueKept
  <2> QED BY <2>1, <2>2, <2>3, <2>4
<1>5. CASE Emit
  <2> USE <1>5 DEF Emit
  <2>1. EngineTypes'
    BY ConstantStates DEF EngineTypes, emit
  <2>2. TimerInv'
    BY ConstantStates DEF TimerInv, emit
  <2>3. NetworkInv'
    BY DEF NetworkInv, Evaluated, Announced, emit
  <2>4. QueueInv' /\ DecidedInv'
    BY <1>0, EmitInv
  <2> QED BY <2>1, <2>2, <2>3, <2>4
<1>6. CASE PushError
  <2> USE <1>6 DEF PushError
  <2>1. EngineTypes'
    BY BufferAssumption DEF EngineTypes
  <2>2. TimerInv'
    BY ConstantStates DEF TimerInv
  <2>3. NetworkInv'
    BY DEF NetworkInv, Evaluated, Announced
  <2>4. QueueInv' /\ DecidedInv'
    BY <1>0, QueueKept
  <2> QED BY <2>1, <2>2, <2>3, <2>4
<1>7. CASE TakeChange
  <2> USE <1>7 DEF TakeChange
  <2>1. EngineTypes'
    BY ConstantStates DEF EngineTypes
  <2>2. TimerInv'
    BY ConstantStates DEF TimerInv
  <2>3. NetworkInv'
    BY DEF NetworkInv, Evaluated, Announced
  <2>4. QueueInv' /\ DecidedInv'
    BY <1>0, QueueKept
  <2> QED BY <2>1, <2>2, <2>3, <2>4
<1>8. CASE TakeGrace
  <2> USE <1>8 DEF TakeGrace
  <2>1. EngineTypes'
    BY ConstantStates DEF EngineTypes
  <2>2. TimerInv'
    BY ConstantStates DEF TimerInv
  <2>3. NetworkInv'
    BY DEF NetworkInv, Evaluated, Announced
  <2>4. QueueInv' /\ DecidedInv'
    BY <1>0, QueueKept
  <2> QED BY <2>1, <2>2, <2>3, <2>4
<1>9. CASE TakeWatchError
  <2> USE <1>9 DEF TakeWatchError
  <2>1. EngineTypes'
    BY ConstantStates DEF EngineTypes
  <2>2. TimerInv'
    BY ConstantStates DEF TimerInv
  <2>3. NetworkInv'
    BY DEF NetworkInv, Evaluated, Announced
  <2>4. QueueInv' /\ DecidedInv'
    BY <1>0, QueueKept
  <2> QED BY <2>1, <2>2, <2>3, <2>4
<1>10. CASE GraceExpires
  <2> USE <1>10 DEF GraceExpires
  <2>1. EngineTypes'
    BY ConstantStates DEF EngineTypes
  <2>2. TimerInv'
    BY ConstantStates DEF TimerInv
  <2>3. NetworkInv'
    BY DEF NetworkInv, Evaluated, Announced
  <2>4. QueueInv' /\ DecidedInv'
    BY <1>0, QueueKept
  <2> QED BY <2>1, <2>2, <2>3, <2>4
<1>11. CASE ForwardChange
  <2> USE <1>11 DEF ForwardChange
  <2>1. EngineTypes'
    BY ConstantStates DEF EngineTypes
  <2>2. TimerInv'
    BY ConstantStates DEF TimerInv
  <2>3. NetworkInv'
    BY DEF NetworkInv, Evaluated, Announced
  <2>4. QueueInv' /\ DecidedInv'
    BY <1>0, QueueKept
  <2> QED BY <2>1, <2>2, <2>3, <2>4
<1>12. CASE Cancel
  <2> USE <1>12 DEF Cancel
  <2>1. EngineTypes'
    BY ConstantStates DEF EngineTypes
  <2>2. TimerInv'
    BY ConstantStates DEF TimerInv
  <2>3. NetworkInv'
    BY DEF NetworkInv, Evaluated, Announced
  <2>4. QueueInv' /\ DecidedInv'
    BY <1>0, QueueKept
  <2> QED BY <2>1, <2>2, <2>3, <2>4
<1>13. CASE ReadProfiles
  <2> USE <1>13 DEF ReadProfiles
  <2>1. PICK mode, snapshot :
           /\ mode = seen.active \/ (net.active # seen.active /\ mode = "none")
           /\ snapshot = [seen EXCEPT !.active = mode, !.autoconnect = net.autoconnect]
           /\ next' = evaluate(snapshot, timedOut)
           /\ grace' = graceFor(next')
    OBVIOUS
  <2>2. EngineTypes'
    BY <2>1, EvaluateTyped, UnreadTyped DEF EngineTypes, graceFor
  <2>3. TimerInv'
    BY <2>1 DEF TimerInv, graceFor
  <2>4. NetworkInv'
    <3>1. ~signal /\ ~change => snapshot = net
      BY <2>1, SnapshotExact DEF EngineTypes, NetworkInv
    <3>2. net' \in Announced' /\ net' = net
      <4>1. net' \in NetworkStates
        BY DEF EngineTypes
      <4> QED BY <4>1 DEF Announced, NetworkStates
    <3>3. ~signal' /\ ~change' => Evaluated(next)'
      BY <2>1, <3>1, <3>2 DEF Evaluated, EngineTypes
    <3> QED BY <3>3 DEF NetworkInv
  <2>5. QueueInv' /\ DecidedInv'
    BY <1>0, QueueKept
  <2> QED BY <2>2, <2>3, <2>4, <2>5
<1>14. CASE Stop
  <2> USE <1>14 DEF Stop
  <2>1. EngineTypes'
    BY DEF EngineTypes
  <2>2. TimerInv' /\ NetworkInv'
    BY DEF TimerInv, NetworkInv
  <2>3. queue' \in Seq(States) /\ Len(queue') <= TransitionBuffer
    <3>1. CASE queue' = queue
      BY <3>1 DEF QueueInv
    <3>2. CASE queue' # queue
      <4>1. Len(queue) < TransitionBuffer /\ queue' = Append(queue, Stopped(current.mode))
        BY <3>2
      <4>2. queue' \in Seq(States) /\ Len(queue') = Len(queue) + 1 /\ Len(queue) \in Nat
        BY <4>1, StoppedTyped, Appended, LenProperties DEF QueueInv, EngineTypes
      <4> QED BY <4>1, <4>2, BufferAssumption
    <3> QED BY <3>1, <3>2
  <2>4. QueueInv' /\ DecidedInv'
    BY <1>0, <2>3 DEF QueueInv, DecidedInv, decisionVars
  <2> QED BY <2>1, <2>2, <2>4
<1> QED
  BY <1>1, <1>2, <1>3, <1>4, <1>5, <1>6, <1>7, <1>8, <1>9, <1>10, <1>11, <1>12, <1>13, <1>14
     DEF EngineActs, EngineStep

-----------------------------------------------------------------------------
(* Steps of the controller, of requests and of the setup workflow. *)

\* A change of the network comes with a signal.
Signalled == UNCHANGED <<net, signal>> \/ signal' = TRUE

LEMMA NetworkKept ==
    ASSUME Inv, UNCHANGED <<pc, watchVars>>, Signalled
    PROVE TimerInv' /\ NetworkInv'
<1> USE DEF Inv, watchVars
<1>1. TimerInv'
  BY DEF TimerInv
<1>2. CASE signal' = TRUE
  BY <1>1, <1>2 DEF NetworkInv
<1>3. CASE UNCHANGED <<net, signal>>
  BY <1>1, <1>3 DEF NetworkInv, Evaluated, Announced
<1> QED BY <1>2, <1>3 DEF Signalled

\* What a call of the captive manager does to the network.
LEMMA RemovedTyped ==
    ASSUME Inv
    PROVE Removed \in {"none", "left", "returned"}
  BY DEF Inv, ControlTypes, ManagerTypes, Removed

LEMMA EnterEffect ==
    ASSUME Inv, EnterProvisioning
    PROVE /\ net' \in NetworkStates /\ signal' \in BOOLEAN /\ Signalled
          /\ entered' = TRUE /\ former' \in {"none", "left", "returned"}
<1> USE DEF Inv, EnterProvisioning
<1>1. net' \in NetworkStates
  BY NetworkTyped DEF EngineTypes
<1>2. signal' \in BOOLEAN
  OBVIOUS
<1>3. Signalled
  <2>1. CASE net' = net
    <3>1. signal' = signal
      BY <2>1 DEF EngineTypes
    <3> QED BY <2>1, <3>1 DEF Signalled
  <2>2. CASE net' # net
    BY <2>2 DEF Signalled
  <2> QED BY <2>1, <2>2
<1>4. former' \in {"none", "left", "returned"}
  BY DEF ControlTypes, ManagerTypes
<1> QED BY <1>1, <1>2, <1>3, <1>4

LEMMA LeaveEffect ==
    ASSUME Inv, LeaveProvisioning
    PROVE /\ net' \in NetworkStates /\ signal' \in BOOLEAN /\ Signalled
          /\ entered' = FALSE /\ former' \in {"none", "left", "returned"}
<1> USE DEF Inv, LeaveProvisioning
<1>1. net' \in NetworkStates
  BY NetworkTyped DEF EngineTypes
<1>2. signal' \in BOOLEAN
  OBVIOUS
<1>3. Signalled
  <2>1. CASE net' = net
    <3>1. signal' = signal
      BY <2>1 DEF EngineTypes
    <3> QED BY <2>1, <3>1 DEF Signalled
  <2>2. CASE net' # net
    BY <2>2 DEF Signalled
  <2> QED BY <2>1, <2>2
<1>4. former' \in {"none", "left", "returned"}
  BY RemovedTyped DEF ControlTypes, ManagerTypes
<1> QED BY <1>1, <1>2, <1>3, <1>4

\* A call that fails has signalled what it changed, and is not in the mode.
LEMMA FailureEffect ==
    ASSUME Inv, EnterFails \/ LeaveFails
    PROVE /\ net' \in NetworkStates /\ signal' \in BOOLEAN /\ Signalled
          /\ entered' = FALSE /\ former' \in {"none", "left", "returned"}
<1> USE DEF Inv
<1>1. CASE LeaveFails
  BY <1>1, RemovedTyped DEF LeaveFails, EngineTypes, Signalled
<1>2. CASE EnterFails
  <2> USE <1>2 DEF EnterFails
  <2>1. net' \in NetworkStates
    BY NetworkTyped DEF EngineTypes
  <2>2. signal' \in BOOLEAN
    OBVIOUS
  <2>5. former' \in {"none", "left", "returned"}
    BY RemovedTyped
  <2>3. CASE net' = net
    <3>1. signal' = signal
      BY <2>3 DEF EngineTypes
    <3> QED BY <2>1, <2>2, <2>3, <2>5, <3>1 DEF Signalled
  <2>4. CASE net' # net
    BY <2>1, <2>2, <2>4, <2>5 DEF Signalled
  <2> QED BY <2>3, <2>4
<1> QED BY <1>1, <1>2

\* Controller.Run returns, to end the supervisor or to be restarted.
LEMMA ReturnInv ==
    ASSUME Inv, NEW then \in {"ended", "delay"}, Return(then),
           then = "delay" => restarts < MaxRestarts,
           UNCHANGED <<acted, awaiting, restarts, pending, notify, requests>>,
           net' \in NetworkStates, signal' \in BOOLEAN, ManagerTypes',
           acted = "leave" => ~entered'
    PROVE Inv'
<1> USE DEF Inv, Return, EngineGone
<1>1. EngineTypes'
  <2>1. /\ changes' \in 0..MaxChanges /\ ctxDone' \in BOOLEAN
        /\ change' \in BOOLEAN /\ timedOut' \in BOOLEAN
    BY DEF EngineTypes
  <2>2. errs' \in 0..ErrorBuffer /\ seen' \in NetworkStates
    BY BufferAssumption, UnreadTyped
  <2>3. next' \in States /\ current' \in States
    BY ConstantStates
  <2> QED BY <2>1, <2>2, <2>3 DEF EngineTypes
<1>2. ControlTypes'
  BY BufferAssumption, MaxRestartsAssumption DEF ControlTypes
<1>3. TimerInv' /\ NetworkInv'
  BY DEF TimerInv, NetworkInv
<1>4. QueueInv'
  BY EmptySeq, BufferAssumption DEF QueueInv
<1>5. RequestInv' /\ ActedInv' /\ DecidedInv'
  BY DEF RequestInv, ActedInv, DecidedInv
<1> QED BY <1>1, <1>2, <1>3, <1>4, <1>5

LEMMA ErrorInv ==
    ASSUME Inv, NEW terminal, ReturnError(terminal),
           UNCHANGED <<acted, awaiting, restarts, pending, notify, requests>>,
           net' \in NetworkStates, signal' \in BOOLEAN, ManagerTypes',
           acted = "leave" => ~entered'
    PROVE Inv'
<1> DEFINE then == IF terminal \/ restarts >= MaxRestarts THEN "ended" ELSE "delay"
<1>1. then \in {"ended", "delay"} /\ Return(then)
  BY DEF ReturnError
<1>2. then = "delay" => restarts < MaxRestarts
  BY MaxRestartsAssumption DEF Inv, ControlTypes
<1> HIDE DEF then
<1> QED BY <1>1, <1>2, ReturnInv

\* The controller reads a transition and decides.
LEMMA TakeTransitionInv ==
    ASSUME Inv, TakeTransition
    PROVE Inv'
<1> USE DEF Inv, managerVars
<1> DEFINE state == Head(queue)
<1>1. /\ ctl = "select" /\ queue # << >>
      /\ UNCHANGED <<net, signal, acted, restarts, pending, notify, requests,
                     managerVars>>
  BY DEF TakeTransition
<1>2. /\ state \in States /\ Tail(queue) \in Seq(States)
      /\ Len(Tail(queue)) = Len(queue) - 1 /\ Len(queue) \in Nat \ {0}
      /\ Tail(queue) # << >> => Tail(queue)[Len(Tail(queue))] = queue[Len(queue)]
      /\ Tail(queue) = << >> => state = queue[Len(queue)]
  BY <1>1, Taken DEF QueueInv
<1>3. CASE state.stage = "failed"
  <2>1. ReturnError(state.reason # "observation-failed") /\ UNCHANGED awaiting
    BY <1>3 DEF TakeTransition
  <2>2. /\ net' \in NetworkStates /\ signal' \in BOOLEAN /\ ManagerTypes'
        /\ acted = "leave" => ~entered'
    BY <1>1 DEF EngineTypes, ControlTypes, ManagerTypes, managerVars, ActedInv
  <2> QED BY <1>1, <2>1, <2>2, ErrorInv
<1>4. CASE state.stage = "stopped"
  <2>1. Return("ended") /\ UNCHANGED awaiting
    BY <1>4 DEF TakeTransition
  <2>2. /\ net' \in NetworkStates /\ signal' \in BOOLEAN /\ ManagerTypes'
        /\ acted = "leave" => ~entered'
    BY <1>1 DEF EngineTypes, ControlTypes, ManagerTypes, managerVars, ActedInv
  <2> QED BY <1>1, <2>1, <2>2, ReturnInv
<1>5. CASE state.stage \notin {"failed", "stopped"}
  <2>1. queue' = Tail(queue) /\ UNCHANGED <<changes, pc, errs, watchVars>>
    BY <1>5 DEF TakeTransition
  <2>2. /\ queue' \in Seq(States) /\ Len(queue') <= TransitionBuffer
        /\ pc # "stopped" /\ queue' # << >> => queue'[Len(queue')] = current
        /\ pc # "stopped" /\ queue' = << >> => state = current
    BY <1>1, <1>2, <2>1, BufferAssumption DEF QueueInv
  <2>3. EngineTypes'
    BY <1>1, <2>1 DEF EngineTypes, watchVars
  <2>4. TimerInv' /\ NetworkInv'
    BY <1>1, <2>1, NetworkKept DEF Signalled
  <2>5. /\ stale' = IF stale > 0 THEN stale - 1 ELSE 0
        /\ awaiting' = (awaiting /\ actionFor(state) # "enter")
        /\ decide(state)
    BY <1>5 DEF TakeTransition
  <2>6. /\ actionFor(state) \in {"none", "enter", "leave"}
        /\ state.stage = "provisioning" <=> actionFor(state) = "enter"
        /\ state.stage \in {"infrastructure", "standalone"}
              <=> actionFor(state) = "leave"
    BY DEF actionFor
  <2>7. \/ /\ ctl' = "select" /\ doing' = doing
           /\ \/ actionFor(state) = "none"
              \/ actionFor(state) = acted
              \/ awaiting /\ actionFor(state) = "leave"
        \/ /\ ctl' = "calling" /\ actionFor(state) \in {"enter", "leave"}
           /\ doing' = [action |-> actionFor(state), recovery |-> FALSE]
    BY <2>5, <2>6 DEF decide, Call
  <2> HIDE DEF state
  <2>8. ControlTypes'
    <3>1. awaiting' \in BOOLEAN
      BY <2>5
    <3>2. stale' \in 0..TransitionBuffer
      BY <2>5, BufferAssumption DEF ControlTypes
    <3>3. doing' \in [action : {"none", "enter", "leave"}, recovery : BOOLEAN]
      <4>1. CASE doing' = doing
        BY <4>1 DEF ControlTypes
      <4>2. CASE doing' = [action |-> actionFor(state), recovery |-> FALSE]
        BY <2>6, <4>2
      <4> QED BY <2>7, <4>1, <4>2
    <3> QED BY <1>1, <2>7, <3>1, <3>2, <3>3 DEF ControlTypes, ManagerTypes
  <2>9. QueueInv'
    BY <1>1, <2>1, <2>2, <2>7 DEF QueueInv, watchVars
  <2>10. RequestInv'
    BY <1>1, <2>7 DEF RequestInv
  <2>11. ActedInv'
    BY <1>1, <2>7 DEF ActedInv
  <2>12. DecidedInv'
    <3> SUFFICES ASSUME queue' = << >>, pc' # "stopped"
                 PROVE /\ current'.stage \in {"infrastructure", "standalone"} =>
                            /\ ctl' = "select" => acted' = "leave" \/ awaiting'
                            /\ ctl' = "calling" => doing'.action = "leave" \/ doing'.recovery
                       /\ current'.stage = "provisioning" =>
                            /\ ctl' = "select" => acted' = "enter"
                            /\ ctl' = "calling" => doing'.action = "enter"
      BY DEF DecidedInv
    <3>1. state = current /\ current' = current /\ acted' = acted
      BY <1>1, <2>1, <2>2 DEF watchVars
    <3>2. CASE ctl' = "select"
      BY <2>5, <2>6, <2>7, <3>1, <3>2
    <3>3. CASE ctl' = "calling"
      BY <2>6, <2>7, <3>1, <3>3
    <3> QED BY <3>2, <3>3
  <2> QED BY <2>3, <2>4, <2>8, <2>9, <2>10, <2>11, <2>12
<1> QED BY <1>3, <1>4, <1>5

LEMMA ControllerInv ==
    ASSUME Inv, ControllerStep
    PROVE Inv'
<1> USE DEF Inv, managerVars
\* Steps that leave the engine alone.
<1>1. ASSUME UNCHANGED engineVars
      PROVE EngineTypes' /\ TimerInv' /\ NetworkInv'
  <2>1. EngineTypes'
    BY <1>1 DEF EngineTypes, engineVars
  <2> QED BY <1>1, <2>1, NetworkKept DEF engineVars, watchVars, Signalled
<1>2. CASE StartRun
  <2>1. /\ ctl = "start" /\ ctl' \in {"select", "calling"}
        /\ UNCHANGED <<engineVars, acted, awaiting, restarts, requests, managerVars,
                       stale>>
        /\ \/ ctl' = "calling" /\ doing' = [action |-> "enter", recovery |-> TRUE]
              /\ UNCHANGED <<pending, notify>>
           \/ ctl' = "select" /\ doing' = doing /\ pending' = FALSE /\ notify' \in BOOLEAN
    BY <1>2 DEF StartRun, applyRecovery, Call, Complete, ControlTypes
  <2>2. doing' \in [action : {"none", "enter", "leave"}, recovery : BOOLEAN]
    <3>1. CASE doing' = doing
      BY <3>1 DEF ControlTypes
    <3>2. CASE doing' = [action |-> "enter", recovery |-> TRUE]
      BY <3>2
    <3> QED BY <2>1, <3>1, <3>2
  <2>3. pending' \in BOOLEAN /\ notify' \in BOOLEAN
    BY <2>1 DEF ControlTypes
  <2>4. ControlTypes'
    BY <2>1, <2>2, <2>3 DEF ControlTypes, ManagerTypes
  <2>5. QueueInv' /\ RequestInv' /\ ActedInv'
    BY <2>1 DEF QueueInv, RequestInv, ActedInv, engineVars
  <2>6. DecidedInv'
    BY <2>1, ConstantStates DEF QueueInv, DecidedInv, engineVars
  <2> QED BY <1>1, <2>1, <2>4, <2>5, <2>6
<1>3. CASE StartFails \/ TakeError
  <2>1. /\ ReturnError(FALSE)
        /\ UNCHANGED <<net, signal, acted, awaiting, restarts, pending, notify,
                       requests, managerVars>>
    BY <1>3 DEF StartFails, TakeError
  <2>2. /\ net' \in NetworkStates /\ signal' \in BOOLEAN /\ ManagerTypes'
        /\ acted = "leave" => ~entered'
    BY <2>1 DEF EngineTypes, ControlTypes, ManagerTypes, managerVars, ActedInv
  <2> QED BY <2>1, <2>2, ErrorInv
<1>4. CASE TakeTransition
  BY <1>4, TakeTransitionInv
<1>5. CASE TakeNotification
  <2>1. /\ ctl = "select" /\ ctl' \in {"select", "calling"}
        /\ UNCHANGED <<engineVars, acted, awaiting, restarts, requests, managerVars,
                       stale>>
        /\ \/ ctl' = "calling" /\ doing' = [action |-> "enter", recovery |-> TRUE]
              /\ pending' = pending
           \/ ctl' = "select" /\ doing' = doing /\ pending' = FALSE
        /\ notify' = FALSE
    BY <1>5 DEF TakeNotification, applyRecovery, Call, Complete, ControlTypes
  <2>2. doing' \in [action : {"none", "enter", "leave"}, recovery : BOOLEAN]
    <3>1. CASE doing' = doing
      BY <3>1 DEF ControlTypes
    <3>2. CASE doing' = [action |-> "enter", recovery |-> TRUE]
      BY <3>2
    <3> QED BY <2>1, <3>1, <3>2
  <2>3. pending' \in BOOLEAN /\ notify' \in BOOLEAN
    BY <2>1 DEF ControlTypes
  <2>4. ControlTypes'
    BY <2>1, <2>2, <2>3 DEF ControlTypes, ManagerTypes
  <2>5. QueueInv' /\ RequestInv' /\ ActedInv'
    BY <2>1 DEF QueueInv, RequestInv, ActedInv, engineVars
  <2>6. DecidedInv'
    BY <2>1 DEF DecidedInv, engineVars
  <2> QED BY <1>1, <2>1, <2>4, <2>5, <2>6
<1>6. CASE CallSucceeds
  <2>1. /\ ctl = "calling" /\ ctl' = "select" /\ acted' = doing.action
        /\ doing' = [action |-> "none", recovery |-> FALSE]
        /\ UNCHANGED <<changes, pc, queue, errs, watchVars, restarts, requests>>
    BY <1>6 DEF CallSucceeds
  <2>2. /\ net' \in NetworkStates /\ signal' \in BOOLEAN /\ Signalled
        /\ doing.action = "enter" => entered' = TRUE
        /\ doing.action # "enter" => entered' = FALSE
        /\ former' \in {"none", "left", "returned"}
    BY <1>6, EnterEffect, LeaveEffect DEF CallSucceeds
  <2>3. \/ doing.recovery /\ pending' = FALSE /\ notify' = FALSE /\ awaiting' = TRUE
           /\ stale' = Len(queue)
        \/ ~doing.recovery /\ UNCHANGED <<pending, notify, awaiting, stale>>
    BY <1>6 DEF CallSucceeds, Complete
  <2>4. EngineTypes'
    BY <2>1, <2>2 DEF EngineTypes, watchVars
  <2>5. TimerInv' /\ NetworkInv'
    BY <2>1, <2>2, NetworkKept
  <2>6. ControlTypes'
    <3>1. ManagerTypes' /\ acted' \in {"none", "enter", "leave"}
      BY <1>6, <2>1, <2>2 DEF CallSucceeds, ControlTypes, ManagerTypes
    <3>2. pending' \in BOOLEAN /\ notify' \in BOOLEAN /\ awaiting' \in BOOLEAN
      BY <2>3 DEF ControlTypes
    <3>3. stale' \in 0..TransitionBuffer
      BY <2>3, LenProperties, BufferAssumption DEF ControlTypes, QueueInv
    <3>4. doing' \in [action : {"none", "enter", "leave"}, recovery : BOOLEAN]
      BY <2>1
    <3> QED BY <2>1, <3>1, <3>2, <3>3, <3>4 DEF ControlTypes
  <2>7. QueueInv'
    BY <2>1 DEF QueueInv, watchVars
  <2>8. RequestInv'
    BY <2>1, <2>3 DEF RequestInv
  <2>9. ActedInv'
    BY <2>1, <2>2 DEF ActedInv
  <2>10. DecidedInv'
    BY <2>1, <2>3 DEF DecidedInv, ActedInv, watchVars
  <2> QED BY <2>4, <2>5, <2>6, <2>7, <2>8, <2>9, <2>10
<1>7. CASE CallFails
  <2>1. /\ ctl = "calling"
        /\ UNCHANGED <<acted, awaiting, restarts, pending, notify, requests, exited>>
        /\ EnterFails \/ LeaveFails
    BY <1>7 DEF CallFails
  <2>2. /\ net' \in NetworkStates /\ signal' \in BOOLEAN /\ Signalled
        /\ entered' = FALSE /\ former' \in {"none", "left", "returned"}
    BY <2>1, FailureEffect
  <2>3. ManagerTypes' /\ (acted = "leave" => ~entered')
    BY <2>1, <2>2 DEF ControlTypes, ManagerTypes
  <2>4. CASE ~ctxDone
    <3>1. ReturnError(FALSE)
      BY <1>7, <2>4 DEF CallFails
    <3> QED BY <2>1, <2>2, <2>3, <3>1, ErrorInv
  <2>5. CASE ctxDone
    <3>1. Return("ended")
      BY <1>7, <2>5 DEF CallFails
    <3> QED BY <2>1, <2>2, <2>3, <3>1, ReturnInv
  <2> QED BY <2>4, <2>5
<1>8. CASE ControllerStops
  <2>1. /\ Return("ended")
        /\ UNCHANGED <<net, signal, acted, awaiting, restarts, pending, notify,
                       requests, managerVars>>
    BY <1>8 DEF ControllerStops
  <2>2. /\ net' \in NetworkStates /\ signal' \in BOOLEAN /\ ManagerTypes'
        /\ acted = "leave" => ~entered'
    BY <2>1 DEF EngineTypes, ControlTypes, ManagerTypes, managerVars, ActedInv
  <2> QED BY <2>1, <2>2, ReturnInv
<1>9. CASE Restart
  <2> USE <1>9 DEF Restart
  <2>1. EngineTypes'
    BY ConstantStates DEF EngineTypes
  <2>2. ControlTypes'
    <3>1. restarts' \in 0..MaxRestarts
      BY MaxRestartsAssumption DEF ControlTypes
    <3>2. awaiting' \in BOOLEAN
      OBVIOUS
    <3> QED BY <3>1, <3>2 DEF ControlTypes, ManagerTypes
  <2>3. TimerInv' /\ NetworkInv'
    BY DEF TimerInv, NetworkInv
  <2>4. QueueInv'
    BY DEF QueueInv
  <2>5. RequestInv' /\ ActedInv' /\ DecidedInv'
    BY DEF RequestInv, ActedInv, DecidedInv
  <2> QED BY <2>1, <2>2, <2>3, <2>4, <2>5
<1> QED
  BY <1>2, <1>3, <1>4, <1>5, <1>6, <1>7, <1>8, <1>9 DEF ControllerStep

LEMMA RestInv ==
    ASSUME Inv, \/ CallWorks \/ Request \/ SetupExit \/ SetupRollback
                \/ \E n \in Networks : NetworkMoves(n)
    PROVE Inv'
<1> USE DEF Inv, managerVars
<1>1. CASE Request
  <2>1. /\ UNCHANGED <<engineVars, ctl, acted, awaiting, doing, restarts, managerVars,
                       stale>>
        /\ pending' = TRUE /\ notify' = (notify \/ ~pending)
        /\ requests' = requests + 1 /\ requests < MaxRequests
    BY <1>1 DEF Request
  <2>2. EngineTypes'
    BY <2>1 DEF EngineTypes, engineVars
  <2>3. TimerInv' /\ NetworkInv'
    BY <2>1, NetworkKept DEF engineVars, watchVars, Signalled
  <2>4. ControlTypes'
    <3>1. pending' \in BOOLEAN /\ notify' \in BOOLEAN
      BY <2>1
    <3>2. requests' \in 0..MaxRequests
      BY <2>1, MaxRestartsAssumption DEF ControlTypes
    <3> QED BY <2>1, <3>1, <3>2 DEF ControlTypes, ManagerTypes
  <2>5. RequestInv'
    BY <2>1 DEF RequestInv
  <2>6. QueueInv' /\ ActedInv' /\ DecidedInv'
    BY <2>1 DEF QueueInv, ActedInv, DecidedInv, engineVars
  <2> QED BY <2>2, <2>3, <2>4, <2>5, <2>6
<1>2. CASE SetupExit
  <2>1. /\ UNCHANGED <<net, signal, changes, pc, queue, errs, watchVars, ctl, acted,
                       awaiting, doing, restarts, pending, notify, requests, stale>>
        /\ entered' = FALSE /\ former' = "none" /\ exited' = (exited \/ entered)
    BY <1>2 DEF SetupExit
  <2>2. EngineTypes'
    BY <2>1 DEF EngineTypes, watchVars
  <2>3. TimerInv' /\ NetworkInv'
    BY <2>1, NetworkKept DEF Signalled
  <2>4. ManagerTypes'
    BY <2>1 DEF ManagerTypes
  <2>5. ControlTypes'
    BY <2>1, <2>4 DEF ControlTypes
  <2>6. QueueInv' /\ RequestInv' /\ DecidedInv'
    BY <2>1 DEF QueueInv, RequestInv, DecidedInv, watchVars
  <2>7. ActedInv'
    BY <2>1 DEF ActedInv
  <2> QED BY <2>2, <2>3, <2>5, <2>6, <2>7
\* Steps that change the network and what a rollback can do about it.
<1>3. ASSUME net' \in NetworkStates, changes' \in 0..MaxChanges,
             former' \in {"none", "left", "returned"}, signal' = TRUE,
             UNCHANGED <<pc, queue, errs, watchVars, ctl, acted, awaiting, doing,
                         restarts, pending, notify, requests, entered, exited, stale>>
      PROVE Inv'
  <2>1. EngineTypes'
    BY <1>3 DEF EngineTypes, watchVars
  <2>2. TimerInv' /\ NetworkInv'
    BY <1>3, NetworkKept DEF Signalled
  <2>3. ManagerTypes'
    BY <1>3 DEF ControlTypes, ManagerTypes
  <2>4. ControlTypes' /\ RequestInv' /\ ActedInv'
    BY <1>3, <2>3 DEF ControlTypes, RequestInv, ActedInv
  <2>5. QueueInv' /\ DecidedInv'
    BY <1>3, QueueKept DEF watchVars, decisionVars
  <2> QED BY <2>1, <2>2, <2>4, <2>5
<1>4. CASE SetupRollback
  <2>1. net' \in NetworkStates
    BY <1>4, NetworkTyped DEF SetupRollback, EngineTypes
  <2>2. changes' \in 0..MaxChanges
    BY <1>4, MaxChangesAssumption DEF SetupRollback, EngineTypes
  <2>3. former' \in {"none", "left", "returned"}
    BY <1>4 DEF SetupRollback, ControlTypes, ManagerTypes
  <2> QED BY <1>3, <1>4, <2>1, <2>2, <2>3 DEF SetupRollback
<1>5. CASE CallWorks
  <2>1. net' \in NetworkStates
    BY <1>5, NetworkTyped DEF CallWorks, EngineTypes
  <2>2. changes' \in 0..MaxChanges
    BY <1>5 DEF CallWorks, EngineTypes
  <2>3. former' \in {"none", "left", "returned"}
    BY <1>5, RemovedTyped DEF CallWorks, ControlTypes, ManagerTypes
  <2> QED BY <1>3, <1>5, <2>1, <2>2, <2>3 DEF CallWorks
<1>6. ASSUME NEW n \in Networks, NetworkMoves(n)
      PROVE Inv'
  <2>1. /\ net' = n /\ changes' = changes + 1 /\ changes < MaxChanges
        /\ former' = IF former = "returned" THEN "left" ELSE former
        /\ UNCHANGED <<ctl, acted, awaiting, doing, restarts, pending, notify, requests,
                       entered, exited, stale>>
    BY <1>6 DEF NetworkMoves, NetworkChanges
  <2>2. UNCHANGED <<change, pc, timedOut, seen, next, grace, current, queue, errs,
                    ctxDone>>
    BY <1>6 DEF NetworkMoves, NetworkChanges
  <2>3. net' \in NetworkStates
    BY <2>1, NetworksAssumption
  <2>4. changes' \in 0..MaxChanges
    BY <2>1, MaxChangesAssumption DEF EngineTypes
  <2>5. former' \in {"none", "left", "returned"}
    BY <2>1 DEF ControlTypes, ManagerTypes
  <2>6. CASE signal' = TRUE /\ UNCHANGED earlier
    BY <1>3, <2>1, <2>2, <2>3, <2>4, <2>5, <2>6 DEF watchVars
  <2>7. CASE /\ n = [net EXCEPT !.autoconnect = n.autoconnect]
             /\ earlier' = earlier \cup {net.autoconnect}
             /\ UNCHANGED signal
    <3>1. Announced \subseteq Announced'
      BY <2>1, <2>3, <2>7, SilentUpdate
    <3>2. EngineTypes'
      <4>1. net.autoconnect \in SUBSET {"infrastructure", "standalone"}
        BY DEF EngineTypes, NetworkStates
      <4>2. earlier' \in SUBSET SUBSET {"infrastructure", "standalone"}
        BY <2>7, <4>1 DEF EngineTypes
      <4> QED BY <2>2, <2>3, <2>4, <2>7, <4>2 DEF EngineTypes
    <3>3. TimerInv'
      BY <2>2 DEF TimerInv
    <3>4. NetworkInv'
      <4>1. Evaluated(next) => Evaluated(next)'
        BY <2>2, <3>1 DEF Evaluated
      <4>2. Evaluated(current) => Evaluated(current)'
        BY <2>2, <3>1 DEF Evaluated
      <4>3. [seen EXCEPT !.autoconnect = net.autoconnect] = net
              => [seen' EXCEPT !.autoconnect = net'.autoconnect] = net'
        BY <2>1, <2>2, <2>7 DEF EngineTypes, NetworkStates
      <4> QED BY <2>2, <2>7, <4>1, <4>2, <4>3 DEF NetworkInv
    <3>5. ManagerTypes'
      BY <2>1, <2>5 DEF ControlTypes, ManagerTypes
    <3>6. ControlTypes' /\ RequestInv' /\ ActedInv'
      BY <2>1, <3>5 DEF ControlTypes, RequestInv, ActedInv
    <3>7. QueueInv' /\ DecidedInv'
      BY <2>1, <2>2, QueueKept DEF decisionVars
    <3> QED BY <3>2, <3>3, <3>4, <3>6, <3>7
  <2> QED BY <1>6, <2>6, <2>7 DEF NetworkMoves, NetworkChanges
<1> QED BY <1>1, <1>2, <1>4, <1>5, <1>6

-----------------------------------------------------------------------------
(* The invariant and what follows from it. *)

LEMMA InitInv == Init => Inv
<1> SUFFICES ASSUME Init
             PROVE Inv
  OBVIOUS
<1> USE DEF Init, EngineInit
<1>1. EngineTypes
  <2>1. 0 \in 0..MaxChanges /\ 0 \in 0..ErrorBuffer
    BY MaxChangesAssumption, BufferAssumption
  <2>2. net \in NetworkStates /\ seen \in NetworkStates
    BY NetworksAssumption, UnreadTyped
  <2>3. next \in States /\ current \in States
    BY ConstantStates
  <2> QED BY <2>1, <2>2, <2>3 DEF EngineTypes
<1>2. ControlTypes
  <2>1. /\ 0 \in 0..MaxRestarts /\ 0 \in 0..MaxRequests /\ 0 \in 0..TransitionBuffer
    BY MaxRestartsAssumption, BufferAssumption
  <2> QED BY <2>1 DEF ControlTypes, ManagerTypes
<1>3. TimerInv /\ NetworkInv
  BY DEF TimerInv, NetworkInv
<1>4. QueueInv
  BY EmptySeq, BufferAssumption DEF QueueInv
<1>5. RequestInv /\ ActedInv /\ DecidedInv
  BY DEF RequestInv, ActedInv, DecidedInv
<1> QED BY <1>1, <1>2, <1>3, <1>4, <1>5 DEF Inv

LEMMA StepInv == Inv /\ [Next]_vars => Inv'
<1> SUFFICES ASSUME Inv, [Next]_vars
             PROVE Inv'
  OBVIOUS
<1>1. ASSUME UNCHANGED controlVars
      PROVE ControlTypes' /\ RequestInv' /\ ActedInv'
  BY <1>1 DEF Inv, ControlTypes, ManagerTypes, RequestInv, ActedInv, controlVars,
              managerVars
<1>2. CASE EngineActs
  BY <1>1, <1>2, EngineInv DEF EngineActs, Inv
<1>3. CASE UNCHANGED vars
  <2>1. EngineTypes'
    BY <1>3 DEF Inv, EngineTypes, vars, engineVars
  <2>2. TimerInv' /\ NetworkInv'
    BY <1>3, NetworkKept DEF vars, engineVars, watchVars, Signalled
  <2>3. QueueInv' /\ DecidedInv'
    BY <1>3, QueueKept DEF vars, engineVars, controlVars, decisionVars
  <2> QED BY <1>1, <1>3, <2>1, <2>2, <2>3 DEF vars, Inv
<1> QED BY <1>2, <1>3, ControllerInv, RestInv DEF Next

\* The inductive invariant holds in every reachable state.
THEOREM Invariance == Spec => []Inv
  BY InitInv, StepInv, PTL DEF Spec

\* The types of engine and controller: channels never hold more than they have
\* room for, and the supervisor never spends more restarts than it has.
THEOREM TypeCorrect == Spec => []TypeOK
<1>1. Inv => TypeOK
  <2> SUFFICES ASSUME Inv
               PROVE TypeOK
    OBVIOUS
  <2>1. next.stage \in Stages /\ current.stage \in Stages
    BY DEF Inv, EngineTypes, States
  <2> QED
    BY <2>1
       DEF Inv, EngineTypes, ControlTypes, ManagerTypes, QueueInv, TypeOK, EngineTypeOK
<1> QED BY <1>1, Invariance, PTL

\* While the engine waits for connectivity its grace timer is running or has fired,
\* and no timer of an earlier wait is left over, through every interleaving of
\* changes, expiries, failed snapshots and full channels.
THEOREM WaitingTimed == Spec => []WaitingIsTimed
<1>1. Inv => WaitingIsTimed
  BY DEF Inv, TimerInv, WaitingIsTimed
<1> QED BY <1>1, Invariance, PTL

\* Neither coalescing nor the two reads of a snapshot lose a change: with nothing
\* outstanding, the engine's last state is the evaluation of the network as it is, but
\* for profile updates that NetworkManager does not signal on the properties.
THEOREM NetworkReflected == Spec => []ReflectsNetwork
<1>1. Inv => ReflectsNetwork
  BY DEF Inv, NetworkInv, Evaluated, ReflectsNetwork
<1> QED BY <1>1, Invariance, PTL

\* A manual request that is pending while the controller selects has a notification
\* waiting, whatever calls failed and however often the controller restarted.
THEOREM RequestNotLost == Spec => []NoLostRequest
<1>1. Inv => NoLostRequest
  BY DEF Inv, RequestInv, NoLostRequest
<1> QED BY <1>1, Invariance, PTL

\* Settled in a production mode the setup network is gone, unless a manual recovery
\* asked for it: what was read last is what was acted on.
THEOREM SetupIsGivenUp == Spec => []SetupGivenUp
<1>1. Inv => SetupGivenUp
  BY DEF Inv, DecidedInv, ActedInv, SetupGivenUp, Quiet
<1> QED BY <1>1, Invariance, PTL

\* The settled captive resources match the engine's verdict both ways, as far as it
\* is up to the controller: only a setup workflow that has left provisioning since
\* the controller's last call keeps them from it.
THEOREM ControllerConverges == Spec => []Converges
<1>1. Inv => Converges
  <2> SUFFICES ASSUME Inv
               PROVE Converges
    OBVIOUS
  <2>1. SetupGivenUp
    BY DEF Inv, DecidedInv, ActedInv, SetupGivenUp, Quiet
  <2>2. Quiet /\ current.stage = "provisioning" => entered \/ exited
    BY DEF Inv, DecidedInv, ActedInv, Quiet
  <2> QED BY <2>1, <2>2 DEF Converges
<1> QED BY <1>1, Invariance, PTL

\* A manual request is only acknowledged when the setup network is up, or when the
\* setup workflow has left it since the controller entered it: no failed call, no
\* restart and no other interleaving acknowledges one.
THEOREM AcknowledgedRequests == Spec => RequestHonoured
<1>1. Inv /\ [Next]_vars => [pending /\ ~pending' => entered' \/ exited]_vars
  <2> SUFFICES ASSUME Inv, Next, pending, ~pending'
               PROVE entered' \/ exited
    OBVIOUS
  <2> USE DEF Inv
  <2>1. CASE StartRun \/ TakeNotification
    <3>1. acted = "enter" /\ ctl \in {"start", "select"} /\ UNCHANGED entered
      BY <2>1 DEF StartRun, TakeNotification, applyRecovery, Call, managerVars
    <3> QED BY <3>1 DEF ActedInv
  <2>2. CASE CallSucceeds
    <3>1. doing.recovery /\ ctl = "calling"
      BY <2>2 DEF CallSucceeds
    <3>2. doing.action = "enter"
      BY <3>1 DEF ActedInv
    <3> QED BY <2>2, <3>2 DEF CallSucceeds, EnterProvisioning
  <2>3. UNCHANGED pending \/ StartRun \/ TakeNotification \/ CallSucceeds \/ pending'
    BY DEF Next, ControllerStep, Request, EngineActs, controlVars, SetupExit,
           SetupRollback, CallWorks, NetworkMoves, StartFails, TakeTransition, TakeError,
           CallFails, ControllerStops, Restart
  <2> QED BY <2>1, <2>2, <2>3
<1> QED BY <1>1, Invariance, PTL DEF Spec, RequestHonoured
=============================================================================
