---------------------------- MODULE SetupService ----------------------------
(***************************************************************************)
(* The browser-visible setup workflow: internal/setupflow/service.go, with *)
(* the HTTP handlers of internal/webui/api.go that call it and the entry   *)
(* checks of the backend calls in internal/setupflow/network.go.           *)
(*                                                                         *)
(* Every HTTP request is a process.  A request that is admitted reserves   *)
(* the one transition slot as a pending operation, whose id is the request *)
(* itself (newOperationID draws 128 random bits: ids never repeat).  The   *)
(* radio work starts in a goroutine of its own only after the accepted     *)
(* response has been flushed.  A critical section of Service.mu is one     *)
(* action; everything between two critical sections may interleave.        *)
(***************************************************************************)
EXTENDS Naturals, Sequences

CONSTANTS Requests,       \* the mutating HTTP requests ever received
          Profiles,       \* UUIDs of saved infrastructure profiles
          NoProfile,      \* the target of a request that names no saved profile
          Capabilities,   \* subset of {"network", "standalone"}
          HistoryLimit    \* operationHistoryLimit (10 in the code)

ASSUME CapabilitiesAssumption ==
    Capabilities \in (SUBSET {"network", "standalone"}) \ {{}}

ASSUME HistoryLimitAssumption == HistoryLimit \in Nat \ {0}

ASSUME NoProfileAssumption == NoProfile \notin Profiles

VARIABLES
    handler,         \* where each HTTP handler is
    target,          \* the saved profile the request is about, or NoProfile
    operations,      \* Service.operations, "absent" when the map has no entry
    actions,         \* the ids queued in Service.actions
    order,           \* Service.order
    isForgetting,    \* Service.isForgetting
    isShuttingDown,  \* Service.isShuttingDown
    ctxDone,         \* Service.ctx is cancelled
    worker,          \* the goroutine of Service.run for each operation
    shutdownDone,    \* Service.shutdownDone is closed
    saved            \* the owned profiles NetworkManager stores

vars == <<handler, target, operations, actions, order, isForgetting,
          isShuttingDown, ctxDone, worker, shutdownDone, saved>>

HandlerStates == {"idle", "resolved", "accepted", "flushed", "rejected",
                  "dropped", "served", "forgetting", "forgot"}
OperationStates == {"absent", "pending", "running", "succeeded", "failed"}
WorkerStates == {"none", "entering", "acting", "recorded", "done"}

TypeOK ==
    /\ handler \in [Requests -> HandlerStates]
    /\ target \in [Requests -> Profiles \cup {NoProfile}]
    /\ operations \in [Requests -> OperationStates]
    /\ actions \in SUBSET Requests
    /\ order \in Seq(Requests)
    /\ isForgetting \in BOOLEAN
    /\ isShuttingDown \in BOOLEAN
    /\ ctxDone \in BOOLEAN
    /\ worker \in [Requests -> WorkerStates]
    /\ shutdownDone \in BOOLEAN
    /\ saved \in SUBSET Profiles

NewService ==
    /\ handler = [r \in Requests |-> "idle"]
    /\ target = [r \in Requests |-> NoProfile]
    /\ operations = [r \in Requests |-> "absent"]
    /\ actions = {}
    /\ order = << >>
    /\ isForgetting = FALSE
    /\ isShuttingDown = FALSE
    /\ ctxDone = FALSE
    /\ worker = [r \in Requests |-> "none"]
    /\ shutdownDone = FALSE
    /\ saved = Profiles

-----------------------------------------------------------------------------
(* Helpers that run with Service.mu held.  A definition named mutant_... is  *)
(* a plausible mistake in the definition that follows it; no specification   *)
(* uses it.                                                                  *)

Active(state) == state \in {"pending", "running"}

mutant_unavailable == FALSE
unavailableLocked == isShuttingDown \/ ctxDone

\* activeOperationLocked only looks at the ids still in the history.
activeOperationLocked == {r \in Requests :
    Active(operations[r]) /\ \E i \in 1..Len(order) : order[i] = r}

\* The loop of trimHistoryLocked removes the i oldest entries of ids: it runs
\* while the history is too long and stops early at an active oldest entry.
mutant_Removes(ids, state, i) ==
    \A j \in 1..i : Len(ids) - j > HistoryLimit /\ ~Active(state[ids[j]])
Removes(ids, state, i) ==
    \A j \in 1..i : Len(ids) - (j - 1) > HistoryLimit /\ ~Active(state[ids[j]])

Removed(ids, state) == CHOOSE n \in 0..Len(ids) :
    /\ Removes(ids, state, n)
    /\ n = Len(ids) \/ ~Removes(ids, state, n + 1)

trimHistoryLocked(ids, state, queued) ==
    LET n    == Removed(ids, state)
        gone == {ids[j] : j \in 1..n}
    IN  /\ order' = SubSeq(ids, n + 1, Len(ids))
        /\ operations' = [r \in Requests |->
                             IF r \in gone THEN "absent" ELSE state[r]]
        /\ actions' = queued \ gone

\* cancelPendingOperationLocked applied to every id of a set.
cancelPendingOperationLocked(ids) ==
    LET cancelled == {r \in ids \cap actions : operations[r] = "pending"}
    IN  /\ operations' = [r \in Requests |->
                             IF r \in cancelled THEN "failed" ELSE operations[r]]
        /\ actions' = actions \ cancelled

mutant_slotFree == activeOperationLocked = {}
slotFree == ~isForgetting /\ activeOperationLocked = {}

mutant_forgetAdmitted == ~unavailableLocked /\ ~isForgetting
forgetAdmitted == ~unavailableLocked /\ slotFree

\* newOperationID may fail to read random bytes; nothing is reserved then.
start(r) ==
    \/ /\ handler' = [handler EXCEPT ![r] = "rejected"]
       /\ UNCHANGED <<operations, actions, order>>
    \/ /\ ~unavailableLocked
       /\ slotFree
       /\ trimHistoryLocked(Append(order, r),
                            [operations EXCEPT ![r] = "pending"],
                            actions \cup {r})
       /\ handler' = [handler EXCEPT ![r] = "accepted"]

-----------------------------------------------------------------------------
(* HTTP handlers. *)

\* postConnection and StartConnection: newly entered credentials.
StartConnection(r) ==
    /\ handler[r] = "idle"
    /\ IF "network" \in Capabilities
         THEN start(r)
         ELSE /\ handler' = [handler EXCEPT ![r] = "rejected"]
              /\ UNCHANGED <<operations, actions, order>>
    /\ UNCHANGED <<target, isForgetting, isShuttingDown, ctxDone, worker,
                   shutdownDone, saved>>

\* postStandalone and StartStandalone.
StartStandalone(r) ==
    /\ handler[r] = "idle"
    /\ IF "standalone" \in Capabilities
         THEN start(r)
         ELSE /\ handler' = [handler EXCEPT ![r] = "rejected"]
              /\ UNCHANGED <<operations, actions, order>>
    /\ UNCHANGED <<target, isForgetting, isShuttingDown, ctxDone, worker,
                   shutdownDone, saved>>

\* StartKnownNetwork first reads the saved networks without Service.mu; the
\* profile can be active or read-only, and the read itself can fail.
ResolveKnownNetwork(r, p) ==
    /\ handler[r] = "idle"
    /\ target' = [target EXCEPT ![r] = p]
    /\ \/ /\ "network" \in Capabilities
          /\ p \in saved
          /\ handler' = [handler EXCEPT ![r] = "resolved"]
       \/ handler' = [handler EXCEPT ![r] = "rejected"]
    /\ UNCHANGED <<operations, actions, order, isForgetting, isShuttingDown,
                   ctxDone, worker, shutdownDone, saved>>

\* The second half of StartKnownNetwork: reserve the slot for what was read.
StartKnownNetwork(r) ==
    /\ handler[r] = "resolved"
    /\ start(r)
    /\ UNCHANGED <<target, isForgetting, isShuttingDown, ctxDone, worker,
                   shutdownDone, saved>>

\* acceptOperation wrote and flushed the 202 response with the operation id.
AcceptOperation(r) ==
    /\ handler[r] = "accepted"
    /\ handler' = [handler EXCEPT ![r] = "flushed"]
    /\ UNCHANGED <<target, operations, actions, order, isForgetting,
                   isShuttingDown, ctxDone, worker, shutdownDone, saved>>

\* acceptOperation failed: startOperation releases the slot.
mutant_CancelPendingOperation(r) ==
    /\ handler[r] = "accepted"
    /\ handler' = [handler EXCEPT ![r] = "dropped"]
    /\ UNCHANGED <<target, operations, actions, order, isForgetting,
                   isShuttingDown, ctxDone, worker, shutdownDone, saved>>
CancelPendingOperation(r) ==
    /\ handler[r] = "accepted"
    /\ handler' = [handler EXCEPT ![r] = "dropped"]
    /\ cancelPendingOperationLocked({r})
    /\ UNCHANGED <<target, order, isForgetting, isShuttingDown, ctxDone,
                   worker, shutdownDone, saved>>

\* BeginOperation, called once the response is flushed.
BeginOperation(r) ==
    /\ handler[r] = "flushed"
    /\ handler' = [handler EXCEPT ![r] = "served"]
    /\ IF r \notin actions \/ operations[r] # "pending"
         THEN UNCHANGED <<operations, actions, worker>>
         ELSE IF unavailableLocked
                THEN /\ cancelPendingOperationLocked({r})
                     /\ UNCHANGED worker
                ELSE /\ operations' = [operations EXCEPT ![r] = "running"]
                     /\ actions' = actions \ {r}
                     /\ worker' = [worker EXCEPT ![r] = "entering"]
    /\ UNCHANGED <<target, order, isForgetting, isShuttingDown, ctxDone,
                   shutdownDone, saved>>

\* deleteKnownNetwork and the first critical section of ForgetKnownNetwork.
ForgetKnownNetwork(r, p) ==
    /\ handler[r] = "idle"
    /\ target' = [target EXCEPT ![r] = p]
    /\ IF "network" \in Capabilities /\ forgetAdmitted
         THEN /\ handler' = [handler EXCEPT ![r] = "forgetting"]
              /\ isForgetting' = TRUE
         ELSE /\ handler' = [handler EXCEPT ![r] = "rejected"]
              /\ UNCHANGED isForgetting
    /\ UNCHANGED <<operations, actions, order, isShuttingDown, ctxDone, worker,
                   shutdownDone, saved>>

\* Backend.ForgetKnownNetwork: the profile is deleted, or the call is refused
\* (unknown, active or read-only profile) or fails.
ForgetBackend(r) ==
    /\ handler[r] = "forgetting"
    /\ handler' = [handler EXCEPT ![r] = "forgot"]
    /\ saved' \in {saved, saved \ {target[r]}}
    /\ UNCHANGED <<target, operations, actions, order, isForgetting,
                   isShuttingDown, ctxDone, worker, shutdownDone>>

\* The deferred function of ForgetKnownNetwork.
ForgetRelease(r) ==
    /\ handler[r] = "forgot"
    /\ handler' = [handler EXCEPT ![r] = "served"]
    /\ isForgetting' = FALSE
    /\ UNCHANGED <<target, operations, actions, order, isShuttingDown, ctxDone,
                   worker, shutdownDone, saved>>

-----------------------------------------------------------------------------
(* The goroutine of one operation. *)

\* Service.run records the outcome under Service.mu.
recordOutcome(r, state) ==
    /\ worker' = [worker EXCEPT ![r] = "recorded"]
    /\ operations' = IF operations[r] = "absent"
                       THEN operations
                       ELSE [operations EXCEPT ![r] = state]

\* The backend's entry checks: Connect and Standalone need a usable previous
\* connection, ConnectKnownNetwork looks its profile up a second time.
BackendEnter(r) ==
    /\ worker[r] = "entering"
    /\ \/ /\ target[r] # NoProfile => target[r] \in saved
          /\ worker' = [worker EXCEPT ![r] = "acting"]
          /\ UNCHANGED operations
       \/ recordOutcome(r, "failed")
    /\ UNCHANGED <<handler, target, actions, order, isForgetting,
                   isShuttingDown, ctxDone, shutdownDone, saved>>

\* The protected transition returns: it succeeded, or failed and rolled back.
BackendReturn(r) ==
    /\ worker[r] = "acting"
    /\ \E state \in {"succeeded", "failed"} : recordOutcome(r, state)
    /\ UNCHANGED <<handler, target, actions, order, isForgetting,
                   isShuttingDown, ctxDone, shutdownDone, saved>>

\* The deferred operationWG.Done, after the lock is released.
WorkerDone(r) ==
    /\ worker[r] = "recorded"
    /\ worker' = [worker EXCEPT ![r] = "done"]
    /\ UNCHANGED <<handler, target, operations, actions, order, isForgetting,
                   isShuttingDown, ctxDone, shutdownDone, saved>>

-----------------------------------------------------------------------------
(* Shutdown. *)

\* The runtime context, parent of Service.ctx, is cancelled before Shutdown
\* is called.
CancelRuntime ==
    /\ ~ctxDone
    /\ ctxDone' = TRUE
    /\ UNCHANGED <<handler, target, operations, actions, order, isForgetting,
                   isShuttingDown, worker, shutdownDone, saved>>

\* The body of shutdownOnce.
mutant_Shutdown ==
    /\ ~isShuttingDown
    /\ isShuttingDown' = TRUE
    /\ operations' = [r \in Requests |->
          IF Active(operations[r]) THEN "failed" ELSE operations[r]]
    /\ actions' = {}
    /\ ctxDone' = TRUE
    /\ UNCHANGED <<handler, target, order, isForgetting, worker, shutdownDone,
                   saved>>
Shutdown ==
    /\ ~isShuttingDown
    /\ isShuttingDown' = TRUE
    /\ cancelPendingOperationLocked(actions)
    /\ ctxDone' = TRUE
    /\ UNCHANGED <<handler, target, order, isForgetting, worker, shutdownDone,
                   saved>>

\* The goroutines that operationWG counts.
mutant_operationWG == {r \in Requests : worker[r] # "none"}
operationWG == {r \in Requests : worker[r] \in {"entering", "acting", "recorded"}}

\* operationWG.Wait returns and shutdownDone is closed.
ShutdownDone ==
    /\ isShuttingDown
    /\ ~shutdownDone
    /\ operationWG = {}
    /\ shutdownDone' = TRUE
    /\ UNCHANGED <<handler, target, operations, actions, order, isForgetting,
                   isShuttingDown, ctxDone, worker, saved>>

-----------------------------------------------------------------------------
Next ==
    \/ \E r \in Requests :
          \/ StartConnection(r) \/ StartStandalone(r) \/ StartKnownNetwork(r)
          \/ \E p \in Profiles : ResolveKnownNetwork(r, p)
          \/ \E p \in Profiles : ForgetKnownNetwork(r, p)
          \/ AcceptOperation(r) \/ CancelPendingOperation(r) \/ BeginOperation(r)
          \/ ForgetBackend(r) \/ ForgetRelease(r)
          \/ BackendEnter(r) \/ BackendReturn(r) \/ WorkerDone(r)
    \/ CancelRuntime
    \/ Shutdown
    \/ ShutdownDone

Spec == NewService /\ [][Next]_vars

\* A started handler or goroutine runs on: every backend call has a deadline,
\* and the response writer returns an error when the client is gone.
Fairness ==
    /\ \A r \in Requests :
          /\ WF_vars(StartKnownNetwork(r))
          /\ WF_vars(AcceptOperation(r) \/ CancelPendingOperation(r))
          /\ WF_vars(BeginOperation(r))
          /\ WF_vars(ForgetBackend(r))
          /\ WF_vars(ForgetRelease(r))
          /\ WF_vars(BackendEnter(r) \/ BackendReturn(r) \/ WorkerDone(r))
    /\ WF_vars(ShutdownDone)

FairSpec == Spec /\ Fairness

-----------------------------------------------------------------------------
(* Properties. *)

\* The request keeps NetworkManager's stored profiles or the radio busy: it
\* holds the slot, its goroutine is in the backend, or it is forgetting.
Holds(r) == \/ Active(operations[r])
            \/ worker[r] \in {"entering", "acting"}
            \/ handler[r] \in {"forgetting", "forgot"}

\* At most one mode change or profile removal is in flight: service.go calls
\* them "single-flight mode changes", and isForgetting excludes both ways.
SingleFlight == \A r, s \in Requests : Holds(r) /\ Holds(s) => r = s

\* Service.order and Service.operations describe the same operations, so
\* latestOperation and activeOperationLocked never dereference a missing
\* entry; an unfinished operation is never trimmed away, and the history never
\* exceeds operationHistoryLimit.
HistoryConsistent ==
    /\ \A r \in Requests :
          operations[r] # "absent" <=> \E i \in 1..Len(order) : order[i] = r
    /\ \A i, j \in 1..Len(order) : order[i] = order[j] => i = j
    /\ Len(order) <= HistoryLimit
    /\ \A r \in Requests : worker[r] \in {"entering", "acting"} =>
                              operations[r] = "running"

\* Once Shutdown has returned nil no operation is running or can still start:
\* BeginOperation's WaitGroup.Add never races the Wait.
QuietAfterShutdown ==
    shutdownDone => operationWG = {} /\ actions = {}

\* A saved profile that a running operation has looked up stays stored until
\* the operation returns: no concurrent request forgets it.
JoinedProfileStays ==
    \A r \in Requests :
        worker[r] = "acting" /\ target[r] # NoProfile => target[r] \in saved

\* An operation that was cancelled or has finished is never started again and
\* never changes its outcome.
FinishedIsFinal ==
    [][\A r \in Requests : operations[r] \in {"succeeded", "failed"} =>
          /\ operations'[r] \in {operations[r], "absent"}
          /\ worker[r] = "none" => worker'[r] = "none"]_vars

\* Every reserved operation finishes: the slot is never leaked.
SlotIsReleased ==
    \A r \in Requests : Active(operations[r]) ~> ~Active(operations[r])

\* Every Shutdown completes.
ShutdownCompletes == isShuttingDown ~> shutdownDone

-----------------------------------------------------------------------------
(* The abstract slot that the service implements. *)

\* The holder of the slot, and the request whose radio work is running, as the
\* abstract specification sees them.
slotHolders == {r \in Requests : Holds(r)}
slotWorking == {r \in Requests : worker[r] \in {"entering", "acting"}}

Slot == INSTANCE TransitionSlot WITH
            holders <- slotHolders,
            working <- slotWorking,
            closed  <- unavailableLocked

\* The service implements the abstract slot.
SlotSpec == Slot!Spec
=============================================================================
