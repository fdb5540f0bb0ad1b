----------------------------- MODULE Controller -----------------------------
(***************************************************************************)
(* The appliance controller and its supervisor                             *)
(* (internal/appliance/controller.go) with the manual recovery requests of *)
(* internal/recovery/control.go, composed with the reconciliation engine.  *)
(*                                                                         *)
(* The controller turns stable engine states into EnterProvisioning and    *)
(* LeaveProvisioning calls of the captive manager, which take a while and  *)
(* change the network the engine observes while they run.  The captive     *)
(* manager is reduced to what module ProvisioningMode promises of it: a    *)
(* call that returns nil has entered or left completely, one that fails    *)
(* leaves the mode off, possibly with the access point still on the air.   *)
(* The setup workflow leaves provisioning through the same manager, behind *)
(* the controller's back, and its rollbacks bring the access point back    *)
(* behind the manager's.                                                   *)
(***************************************************************************)
EXTENDS Engine

CONSTANTS MaxRestarts,   \* RetryConfig.MaxRestarts
          MaxRequests    \* bound: manual recovery requests per behaviour

ASSUME MaxRestartsAssumption == MaxRestarts \in Nat /\ MaxRequests \in Nat

VARIABLES
    ctl,       \* where Controller.Run and Supervisor.Run are
    acted,     \* Controller.Run's current action
    awaiting,  \* awaitingProvisioning
    doing,     \* the call being made: its action and whether it is a recovery
    restarts,  \* restarts spent so far
    pending,   \* Requests.pending
    notify,    \* the notify channel holds an element
    requests,  \* requests made so far
    entered,   \* the captive manager is in provisioning mode
    former,    \* the access point of an earlier session: "none", "left" to a
               \* checkpoint that can restore it, or "returned" to the air
    exited,    \* ghost: the setup workflow has left provisioning since the
               \* controller's last call of the manager
    stale      \* ghost: queued transitions emitted before the last recovery

managerVars == <<entered, former, exited>>
controlVars == <<ctl, acted, awaiting, doing, restarts, pending, notify, requests,
                 managerVars, stale>>
vars == <<engineVars, controlVars>>

watchVars == <<change, timedOut, seen, next, grace, current, ctxDone, earlier>>

Init ==
    /\ EngineInit
    /\ net.active # "provisioning"
    /\ ctl = "start"
    /\ acted = "none" /\ awaiting = FALSE
    /\ doing = [action |-> "none", recovery |-> FALSE]
    /\ restarts = 0
    /\ pending = FALSE /\ notify = FALSE /\ requests = 0
    /\ entered = FALSE /\ former = "none" /\ exited = FALSE
    /\ stale = 0

-----------------------------------------------------------------------------
(* Requests. *)

\* Request: coalesced while one is pending, otherwise it wakes the controller.
\* The control socket goes with the process when the controller has ended.
mutant_Request ==
    /\ requests < MaxRequests /\ ctl # "ended"
    /\ requests' = requests + 1
    /\ pending' = TRUE
    /\ UNCHANGED <<engineVars, ctl, acted, awaiting, doing, restarts, notify,
                   managerVars, stale>>
Request ==
    /\ requests < MaxRequests /\ ctl # "ended"
    /\ requests' = requests + 1
    /\ pending' = TRUE
    /\ notify' = (notify \/ ~pending)
    /\ UNCHANGED <<engineVars, ctl, acted, awaiting, doing, restarts, managerVars,
                   stale>>

\* Complete also drains a notification nobody has read.
Complete == pending' = FALSE /\ notify' = FALSE

-----------------------------------------------------------------------------
(* The captive manager as the controller sees it. *)

\* The access point takes the device over; removing it leaves nothing active.
NetworkEntered == [net EXCEPT !.active = "provisioning", !.condition = "activated",
                              !.link = "local"]
NetworkLeft == IF net.active = "provisioning"
                 THEN [net EXCEPT !.active = "none", !.condition = "disconnected",
                                  !.link = "none"]
                 ELSE net

\* The manager removes its access point; a setup transition may have created a
\* checkpoint that holds it.
Removed ==
    IF former = "none" /\ (entered \/ net.active = "provisioning")
      THEN "left" ELSE former

\* EnterProvisioning has no effect when the manager is active already.  Otherwise
\* it first removes every access point there is, one that has returned too.
EnterProvisioning ==
    /\ entered \/ net.managed
    /\ entered' = TRUE
    /\ net' = IF entered THEN net ELSE NetworkEntered
    /\ former' = IF ~entered /\ former = "returned" THEN "none" ELSE former
    /\ signal' = (signal \/ net' # net)

\* The manager does not know an access point that has returned.
LeaveProvisioning ==
    /\ entered' = FALSE
    /\ net' = IF former = "returned" THEN net ELSE NetworkLeft
    /\ former' = Removed
    /\ signal' = (signal \/ net' # net)

\* A call that fails.  Entering cleans up after itself, which can fail too.
EnterFails ==
    /\ ~entered /\ entered' = FALSE
    /\ net' \in {net, NetworkLeft}
    /\ \/ former # "returned" /\ former' = Removed
       \/ former = "returned" /\ former' = "none"
       \/ former = "returned" /\ net' = net /\ UNCHANGED former
    /\ signal' = (signal \/ net' # net)

LeaveFails ==
    /\ entered' = FALSE
    /\ former' = Removed
    /\ UNCHANGED <<net, signal>>

-----------------------------------------------------------------------------
(* Controller.Run. *)

\* actionFor, without the errors of a failed stage.
mutant_actionFor(state) ==
    CASE state.stage = "provisioning" -> "enter"
      [] state.stage = "standalone" -> "leave"
      [] OTHER -> "none"
actionFor(state) ==
    CASE state.stage = "provisioning" -> "enter"
      [] state.stage \in {"infrastructure", "standalone"} -> "leave"
      [] OTHER -> "none"

\* Controller.Run returns and with it the engine's context ends.
EngineGone ==
    /\ pc' = "stopped" /\ queue' = << >> /\ errs' = 0
    /\ next' = Booting /\ current' = Zero /\ grace' = "off"
    /\ change' = FALSE /\ timedOut' = FALSE /\ seen' = Unread
    /\ earlier' = {}
    /\ UNCHANGED <<changes, ctxDone>>
Return(then) ==
    /\ ctl' = then
    /\ EngineGone
    /\ doing' = [action |-> "none", recovery |-> FALSE]
    /\ stale' = 0

\* A terminal error ends the supervisor, another one costs a restart.
ReturnError(terminal) ==
    Return(IF terminal \/ restarts >= MaxRestarts THEN "ended" ELSE "delay")

Call(action, recovery) ==
    /\ ctl' = "calling"
    /\ doing' = [action |-> action, recovery |-> recovery]

\* applyRecovery up to the call of the manager.
applyRecovery ==
    IF acted = "enter"
      THEN /\ Complete
           /\ ctl' = "select"
           /\ UNCHANGED doing
      ELSE /\ Call("enter", TRUE)
           /\ UNCHANGED <<pending, notify>>

\* Run starts the engine; a request that is already pending is served before
\* the first transition is read.
StartRun ==
    /\ ctl = "start"
    /\ IF pending
         THEN applyRecovery
         ELSE ctl' = "select" /\ UNCHANGED <<doing, pending, notify>>
    /\ UNCHANGED <<engineVars, acted, awaiting, restarts, requests, managerVars, stale>>

\* Source.Run fails: the network cannot be watched.
StartFails ==
    /\ ctl = "start"
    /\ ReturnError(FALSE)
    /\ UNCHANGED <<net, signal, acted, awaiting, restarts,
                   pending, notify, requests, managerVars>>

\* A transition is read and decided on.
decide(state) ==
    IF \/ actionFor(state) = "none"
       \/ actionFor(state) = acted
       \/ awaiting /\ actionFor(state) = "leave"
      THEN ctl' = "select" /\ UNCHANGED doing
      ELSE Call(actionFor(state), FALSE)

TakeTransition ==
    /\ ctl = "select"
    /\ queue # << >>
    /\ LET state == Head(queue) IN
          CASE state.stage = "stopped" ->
                   /\ Return("ended")
                   /\ UNCHANGED awaiting
            [] state.stage = "failed" ->
                   /\ ReturnError(state.reason # "observation-failed")
                   /\ UNCHANGED awaiting
            [] OTHER ->
                   /\ queue' = Tail(queue)
                   /\ stale' = IF stale > 0 THEN stale - 1 ELSE 0
                   /\ awaiting' = (awaiting /\ actionFor(state) # "enter")
                   /\ decide(state)
                   /\ UNCHANGED <<changes, pc, errs, watchVars>>
    /\ UNCHANGED <<net, signal, acted, restarts, pending, notify,
                   requests, managerVars>>

TakeNotification ==
    /\ ctl = "select"
    /\ notify
    /\ IF pending
         THEN /\ \/ acted = "enter" /\ applyRecovery
                 \/ /\ acted # "enter" /\ Call("enter", TRUE)
                    /\ notify' = FALSE /\ UNCHANGED pending
         ELSE notify' = FALSE /\ UNCHANGED <<ctl, doing, pending>>
    /\ UNCHANGED <<engineVars, acted, awaiting, restarts, requests, managerVars, stale>>

TakeError ==
    /\ ctl = "select"
    /\ errs > 0
    /\ ReturnError(FALSE)
    /\ UNCHANGED <<net, signal, acted, awaiting, restarts,
                   pending, notify, requests, managerVars>>

\* The access point goes on or off the air before the call returns.
CallWorks ==
    /\ ctl = "calling"
    /\ IF doing.action = "enter" THEN ~entered /\ net.managed
                               ELSE former # "returned"
    /\ net' = IF doing.action = "enter" THEN NetworkEntered ELSE NetworkLeft
    /\ net' # net
    /\ former' = IF doing.action = "enter" THEN former ELSE Removed
    /\ signal' = TRUE
    /\ UNCHANGED <<changes, pc, queue, errs, watchVars, ctl, acted, awaiting, doing,
                   restarts, pending, notify, requests, entered, exited, stale>>

\* The manager's call returns nil.
CallSucceeds ==
    /\ ctl = "calling"
    /\ ctl' = "select"
    /\ acted' = doing.action
    /\ IF doing.action = "enter" THEN EnterProvisioning ELSE LeaveProvisioning
    /\ exited' = FALSE
    /\ IF doing.recovery
         THEN Complete /\ awaiting' = TRUE /\ stale' = Len(queue)
         ELSE UNCHANGED <<pending, notify, awaiting, stale>>
    /\ doing' = [action |-> "none", recovery |-> FALSE]
    /\ UNCHANGED <<changes, pc, queue, errs, watchVars, restarts, requests>>

\* The manager's call fails or times out; what it left behind it keeps
\* tracking.
mutant_CallFails ==
    /\ ctl = "calling"
    /\ IF doing.action = "enter" THEN EnterFails ELSE LeaveFails
    /\ IF ctxDone THEN Return("ended") ELSE ReturnError(FALSE)
    /\ IF doing.recovery THEN Complete ELSE UNCHANGED <<pending, notify>>
    /\ UNCHANGED <<acted, awaiting, restarts, requests, exited>>
mutant_CallFails_swallowed ==
    /\ ctl = "calling"
    /\ IF doing.action = "enter" THEN EnterFails ELSE LeaveFails
    /\ ctl' = "select" /\ acted' = doing.action
    /\ doing' = [action |-> "none", recovery |-> FALSE]
    /\ UNCHANGED <<changes, pc, queue, errs, watchVars, awaiting, restarts, pending,
                   notify, requests, exited, stale>>
CallFails ==
    /\ ctl = "calling"
    /\ IF doing.action = "enter" THEN EnterFails ELSE LeaveFails
    /\ IF ctxDone THEN Return("ended") ELSE ReturnError(FALSE)
    /\ UNCHANGED <<acted, awaiting, restarts, pending, notify, requests, exited>>

\* The context is done, or the engine has closed its channels.
mutant_ControllerStops ==
    /\ ctl = "delay"
    /\ ctxDone
    /\ Return("ended")
    /\ UNCHANGED <<net, signal, acted, awaiting, restarts, pending, notify, requests,
                   managerVars>>
ControllerStops ==
    /\ ctl \in {"select", "delay"}
    /\ ctxDone
    /\ Return("ended")
    /\ UNCHANGED <<net, signal, acted, awaiting, restarts, pending, notify, requests,
                   managerVars>>

\* After the delay the supervisor runs the controller, and it a new engine.
Restart ==
    /\ ctl = "delay"
    /\ ctl' = "start"
    /\ restarts' = restarts + 1
    /\ acted' = "none" /\ awaiting' = FALSE
    /\ pc' = "boot" /\ signal' = FALSE /\ change' = FALSE
    /\ exited' = FALSE
    /\ UNCHANGED <<net, changes, timedOut, seen, next, grace, current, queue, errs,
                   ctxDone, earlier, doing, pending, notify, requests, entered,
                   former, stale>>

ControllerStep ==
    \/ StartRun \/ StartFails \/ TakeTransition \/ TakeNotification \/ TakeError
    \/ CallSucceeds \/ CallFails \/ ControllerStops \/ Restart

-----------------------------------------------------------------------------
(* The rest of the system. *)

\* NetworkManager changes by itself, losing the setup access point or not, or a
\* setup transition activates its candidate.  Nobody looks any more when the
\* controller has ended.
NetworkMoves(n) ==
    /\ n.active # "provisioning"
    /\ ctl # "ended"
    /\ NetworkChanges(n)
    /\ former' = IF former = "returned" THEN "left" ELSE former
    /\ UNCHANGED <<ctl, acted, awaiting, doing, restarts, pending, notify, requests,
                   entered, exited, stale>>

\* A setup transition is rolled back, by itself or by its checkpoint's timeout, or
\* restorePreviousConnection activates the access point again: the one of the
\* manager's session, or one the manager has removed.
SetupRollback ==
    /\ \/ entered /\ net.active # "provisioning" /\ UNCHANGED former
       \/ former = "left" /\ former' = "returned"
    /\ net.managed /\ ctl # "ended"
    /\ changes < MaxChanges
    /\ changes' = changes + 1
    /\ net' = NetworkEntered
    /\ signal' = TRUE
    /\ UNCHANGED <<pc, queue, errs, watchVars, ctl, acted, awaiting, doing, restarts,
                   pending, notify, requests, entered, exited, stale>>

\* NetworkBackend.exitCaptive after a successful setup transition, whose checkpoint
\* is destroyed.  The mode is off even when LeaveProvisioning fails.
SetupExit ==
    /\ entered \/ former # "none"
    /\ net.active \in {"infrastructure", "standalone"}
    /\ entered' = FALSE
    /\ former' = "none"
    /\ exited' = (exited \/ entered)
    /\ UNCHANGED <<net, signal, changes, pc, queue, errs, watchVars, ctl, acted,
                   awaiting, doing, restarts, pending, notify, requests, stale>>

EngineActs ==
    /\ EngineStep \/ TakeWatchError \/ GraceExpires \/ ForwardChange \/ Cancel
    /\ UNCHANGED controlVars

Next ==
    \/ ControllerStep \/ CallWorks
    \/ Request
    \/ EngineActs
    \/ SetupExit \/ SetupRollback
    \/ \E n \in Networks : NetworkMoves(n)

Spec == Init /\ [][Next]_vars

\* Goroutines and timers make progress; a select that is offered a case over
\* and over takes it.
Fairness ==
    /\ WF_vars(ControllerStep)
    /\ SF_vars(TakeNotification) /\ SF_vars(ControllerStops)
    /\ WF_vars((EngineStep \/ ForwardChange \/ GraceExpires) /\ UNCHANGED controlVars)

FairSpec == Spec /\ Fairness

-----------------------------------------------------------------------------
(* Properties. *)

TypeOK ==
    /\ EngineTypeOK
    /\ ctl \in {"start", "select", "calling", "delay", "ended"}
    /\ acted \in {"none", "enter", "leave"}
    /\ doing \in [action : {"none", "enter", "leave"}, recovery : BOOLEAN]
    /\ awaiting \in BOOLEAN /\ pending \in BOOLEAN /\ notify \in BOOLEAN
    /\ entered \in BOOLEAN /\ exited \in BOOLEAN
    /\ former \in {"none", "left", "returned"}
    /\ restarts \in 0..MaxRestarts
    /\ requests \in 0..MaxRequests
    /\ stale \in 0..TransitionBuffer

\* Everything has settled: nothing is in flight between network and controller.
Quiet ==
    /\ ctl = "select" /\ queue = << >> /\ errs = 0 /\ ~notify
    /\ pc = "loop" /\ ~signal /\ ~change /\ ~ctxDone

\* When everything has settled in a production mode, provisioning mode is off
\* unless a manual recovery asked for it.
SetupGivenUp ==
    Quiet /\ current.stage \in {"infrastructure", "standalone"} => ~entered \/ awaiting

\* When everything has settled the captive manager is where the engine's
\* verdict wants it: in provisioning mode exactly when the engine asks for it,
\* or when a manual recovery asked for it.  Only a setup workflow that has left the
\* mode since the controller last acted makes a difference.
Converges ==
    SetupGivenUp /\ (Quiet /\ current.stage = "provisioning" => entered \/ exited)

\* A pending manual request is never forgotten: while the controller sits in
\* its select a notification is waiting for it.
NoLostRequest == pending /\ ctl = "select" => notify

\* A manual request is completed only when provisioning mode is on, or was left by
\* the setup workflow after the controller had entered it: no failed call, restart or
\* decision of the controller itself ever completes one.
RequestHonoured == [][pending /\ ~pending' => entered' \/ exited]_vars

\* control.go:221: "Complete acknowledges a successful provisioning entry": provisioning
\* mode is on when applyRecovery completes a manual request.
CompleteAcknowledgesEntry == [][pending /\ ~pending' => entered']_vars

\* A manual request is answered unless the process is on its way out.
RequestAnswered == pending ~> ~pending \/ ctl = "ended"

\* The controller of a cancelled process returns.
ControllerReturns == ctxDone ~> ctl = "ended"

\* docs/architecture.md:148: the controller "suppresses any contradicting engine
\* output until the engine catches up" (cf. controller_test.go:96):
\* a production state that was emitted before a manual recovery entered
\* provisioning does not make the controller leave it again.
RecoveryNotUndone ==
    [][ctl = "select" /\ ctl' = "calling" /\ doing'.action = "leave"
          => stale = 0]_vars
=============================================================================
