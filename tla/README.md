# onboardd: TLA+ verification

`onboardd` gives a headless Linux device its Wi-Fi. When no usable network is
configured it opens a temporary setup access point with a captive portal; a user
picks a network (or standalone mode) in a browser; the device switches under the
protection of a NetworkManager checkpoint and falls back to the setup network when
the switch fails. It is one process with many goroutines over NetworkManager,
nftables, dnsmasq, Avahi and systemd.

This directory models the parts of it that keep state and checks them with TLC on small
instances. Every safety property that a passing run checks is also proved with TLAPS, for
every value of the constants; liveness stays with TLC. `PROJECT.json` holds
the machine-readable index: components, runs, mutants, the map from definitions to
source lines, findings, hazards and theorems.

## 1. The system

| Component | Source (`src/internal/`) | State | Operations |
|---|---|---|---|
| Setup service | `setupflow/service.go` | `operations`, `actions`, `order`, `isForgetting`, `isShuttingDown`, a WaitGroup | start (three kinds), begin, cancel, forget, run, shutdown |
| Setup API | `webui/api.go` | session and CSRF token, drawn at start | log in, validate, start, answer 202, then begin or cancel; bootstrap, operation and network queries |
| Setup backend | `setupflow/network.go` | none of its own | picks the previous connection, attempts a transition, leaves the captive network; lists, joins and forgets known networks |
| Captive manager | `captive/manager.go`, `provisioning.go`, `redirect.go` | `active`, `session`, `redirectNeedsRemove`; outside the process a DNS fragment, an nft table, an access point profile | recover at startup, enter, leave |
| Protected transitions | `recovery/transitions.go` | a checkpoint in NetworkManager, a candidate profile | attempt new / saved / standalone, roll back, restore |
| NetworkManager client | `networkmanager/*.go` | stored profiles with ownership, role, `pending`, autoconnect | add and activate, select mode, delete, checkpoint, wait, watch |
| Connectivity policy | `connectivity/policy.go` | none | `Evaluate` |
| State engine | `appliance/engine.go`, `types.go` | current state, grace timer, two bounded channels | snapshot, evaluate, emit, wait |
| Controller and supervisor | `appliance/controller.go` | last action, `awaitingProvisioning`, restart count | enter/leave on stable stages, serve manual recovery, restart |
| Recovery requests | `recovery/control.go` | `pending`, a notification channel, a Unix socket | request, complete |
| HTTP listener service | `captive/server.go` | current listener, restart count | bind, serve, rebind, shut down |
| Health and notifier | `observability/health.go`, `notifier.go` | status, stage, degraded set, a channel of one | observe, retry, recovered, terminal, notify |
| Runtime | `cli/run.go` | startup progress, component results | load and validate, start, supervise, cancel, drain, clean up |
| mDNS discovery | `discovery/avahi.go` | Avahi entry group, the hostname it read | publish, confirm the hostname, close |
| Web application | `src/frontend/src` | current view, view revision, CSRF token, last bootstrap | log in, submit, poll an operation, wait for the application |
| Configuration and options | `appconfig`, `cli/setup.go`, `webui/options.go`, `captive/http.go` | none after start | overlay defaults, file and flags, validate, render templates, redirect |
| Static pages, logging, packaging | `webui/handler.go`, `observability/lifecycle.go`, `scripts` | none | serve, log, build |

How they interact. HTTP handlers (one goroutine each) call the setup service, whose
worker goroutine calls the backend, which runs a transition against NetworkManager
and finally calls `LeaveProvisioning` of the captive manager. Independently the
engine watches NetworkManager and sends stable states over a channel to the
controller, which calls `EnterProvisioning` and `LeaveProvisioning` of the *same*
manager. `onboardd recover` reaches the controller through a second channel. The
runtime starts all of this in a fixed order, with the listener already serving while
startup recovery runs, and tears it down when the first component ends. All
components write to one health record.

What is hard here:

* **Interleaving**: concurrent requests around the single slot; a forget during a
  transition; shutdown between "accepted" and "begun"; the setup workflow leaving the
  captive network behind the controller's back; the controller entering and leaving
  it, and startup recovery deleting profiles, under a running transition.
* **Partial failure**: every D-Bus, `nft` and file call can fail, also after having
  had its effect; cleanup must be retryable from any subset.
* **Crash and power loss**: NetworkManager keeps profiles and a running checkpoint
  across a crash of onboardd, and drops the in-memory ones at a power cut.
* **Time**: the checkpoint expires by itself, the grace timer races changes,
  connectivity results are cached.
* **Unreliable clients**: the browser loses requests and answers while the radio
  changes, gives up on mutations the device still executes, and holds old lists.
* **Edges**: ports of 16 bits and the captive port 80, host addresses at the ends of
  a prefix, flags that overlay a validated file.
* **Order**: stale engine output behind a manual recovery; late health reports after
  a terminal status; autoconnect updates that are separate calls.

`PROJECT.json` lists 40 hazards of this kind at their lines, each with the properties
that would catch it, or the reason why none does.

## 2. Modules

| Module | Models | Uses |
|---|---|---|
| `TransitionSlot` | abstract specification: one slot that a request acquires, works under and releases | |
| `SetupService` | setup service, its API handlers and workers | refines `TransitionSlot` |
| `SetupService_proofs` | theorems about it | |
| `ProvisioningMode` | abstract specification: a mode that is entered completely or not at all and leaves no untracked trace | |
| `CaptiveManager` | manager, provisioning session, DNS fragment, nft table, access point | refines `ProvisioningMode` |
| `CaptiveManager_proofs` | theorems about it | |
| `Connectivity` | the policy as operators | |
| `Profiles` | stored profiles and the pure functions on them | |
| `Transition` | transitions, NetworkManager, startup recovery, the captive manager beside them, crash and restart | `Connectivity`, `Profiles` |
| `Transition_proofs` | theorems about it | |
| `Engine` | engine, observer, grace timer, channels | `Connectivity` |
| `Controller` | controller, supervisor, recovery requests, composed with the engine | extends `Engine` |
| `Controller_proofs` | theorems about both | |
| `Configuration` | options from defaults, file and flags; redirects; as operators | |
| `Configuration_proofs` | lemmas about those operators | |
| `Runtime` | process lifetime, listener service, mDNS publisher, control socket, health, notifier | extends `Configuration` |
| `Runtime_proofs` | theorems about it | extends `Configuration_proofs` |
| `Portal` | one browser tab, the API's queries and sessions, known networks | refines `TransitionSlot` |
| `Portal_proofs` | theorems about it | |
| `MC*` | instances for TLC | |

Operators named `mutant_...` stand before the definition they vary. They are not part
of any specification; each is a plausible mistake in the code, and the property listed
with it in `PROJECT.json` fails when the mistake is made.

### SetupService

A request `r` is one HTTP handler; `handler[r]`, `operations[r]` and `worker[r]` follow
its handler goroutine, its entry in `Service.operations` and its worker goroutine.
Every region under `Service.mu` is one action; what happens outside the lock (looking
up a known network, writing the response, the backend call) is a separate action, so
other requests interleave there. `AcceptOperation` may lose the response, in which case
the handler cancels. `operationWG` is derived: the operations whose `Done` is
outstanding. `saved` is the set of stored profiles, only as far as forgetting matters.
A radio transition is abstracted to "succeeds or fails"; `Transition` opens it up.

### CaptiveManager

One action per call to the outside: `nft`, the DNS file, AddConnection2,
ActivateConnection, Delete. Each can fail; AddConnection2 can fail with the profile
added (reply lost), and Delete can fail with the profile deleted. `pc` is the position
in `RecoverStartup`, `EnterProvisioning`, `LeaveProvisioning` and the shared cleanup.
The manager's mutex makes the calls sequential, so one `pc` suffices. `Crash` forgets
the process's variables and keeps `dns`, `table` and `profiles`. NetworkManager completes
an activation however late (`APUp`), loses the access point (`APLost`), or restarts and
forgets in-memory profiles. UUIDs are fresh, and interchangeable (symmetry set).

Not every activation is the manager's. A setup transition that starts on the access point
protects it with a checkpoint (`CreateCheckpoint`), and the manager may leave, enter or
crash while the transition runs: the controller leaves as soon as the candidate is ready.
A rollback, by `rollbackTransition` or by the checkpoint's own timeout (which outlives
the process), adds the profile again if it has gone and activates it;
`restorePreviousConnection` may activate it once more. The ghost `restored` holds the
profiles that came back while the manager had no session that would remove them. They
are the exception in `NothingLeaks`, `ActiveIsComplete` and `RecoveryIsComplete`: what the
manager itself creates is always tracked, what a rollback returns is not, until the next
entry or the next startup removes it.

What the callers of the manager may rely on is `ProvisioningMode`, which knows only the
running call, whether the mode is on, whether anything of it can be noticed (`traces`:
access point, DNS answers, redirect), whether the manager remembers something to
remove (`tracked`: a session or a redirect), and whether an access point is on the air that
a rollback has `returned`. `ModeSpec` is that specification with these five read off the
manager's variables.

### Transition

Each client call of `runTransition`, `rollbackTransition` and
`restorePreviousConnection` is an action that may fail, the loop of autoconnect
updates one action per profile. NetworkManager acts in between: activations end,
links drop, profiles autoconnect, the checkpoint expires and rolls back. A checkpoint
is the device's active connection together with that connection's settings; rollback
reactivates it, and `restorePreviousConnection` then confirms or reactivates the
previous connection, whose failure becomes the public code `restoration_failed`.

Two other parts of the process change profiles meanwhile. Startup recovery
(`life` from `"recover"` to `"delete_failed"`) removes the setup profile of an earlier
process, lists the pending candidates and deletes what it listed, one call each, while
the listener already serves. The captive manager (`session`, `entering`) is entered and
left by the controller; the transition leaves it at its end. `Crash` stops onboardd,
`PowerCut` also drops in-memory profiles and the checkpoint, and a shutdown waits for
the transition. `accepted`, `validated`, `used` and `swept` are ghosts; `swept` records
that startup recovery deleted a profile that no earlier process had left.

### Engine and Controller

A network situation is a record (managed, device condition, mode of the active
profile, reach of the link, modes with an autoconnect profile). A snapshot is two
reads with a possible change between them. Every change raises a PropertiesChanged
signal, except one that only updates profiles: it may raise none, and the ghost `earlier`
remembers what it replaced until the profiles are read again. `queue` and `errs` are the bounded channels
(32 and 8 in the code, 1 or 2 here, so that they do fill up). `Controller` extends
`Engine`, whose channels the controller loop reads. A provisioning call takes a while:
the access point goes on or off the air before it returns (`CallWorks`), and the engine
sees that. The controller relies on the captive manager only for what `CaptiveManager`
is shown to implement, `ProvisioningMode`: a call that returns nil has entered or left
completely, one that fails leaves the mode off, possibly with the access point still on
the air. NetworkManager may also lose the access point by itself. The setup workflow acts beside
the controller: `SetupExit` leaves the mode through the same manager, and `SetupRollback`
brings the access point back, the session's or, when `former` says that a checkpoint still
holds it, one the manager has removed. The ghost `exited` says that the workflow has left
the mode since the controller last called the manager. When `Controller.Run` returns, the
context of its engine ends and nobody reads what it had still to say: the engine is gone
with it. When the controller has ended for good nothing observes the network any more, so
it stops changing. A device state that NetworkManager reports as unknown is treated by
`evaluate` like disconnected and is not a separate situation.

### Configuration and Runtime

A configuration layer maps every key to the set of its values, empty when it is not
given. `Resolve` overlays defaults, file and flags in the code's order and with its
early errors, `RenderTemplates` validates handoff targets once more after rendering.
IPv4 addresses keep their arithmetic with `Width` instead of 32 bits; ports keep
their 16 bits. URLs and labels are kinds (empty, good, bad, template). The checks of
names, passwords, colours and SSIDs concern one field each: they are `Load` failing.

`phase` is the position from loading the options to the deferred result. Startup binds
the listener, recovers, registers with Avahi (create, commit and wait, confirm the
hostname, compare it with the options), takes the control socket and starts the
components; a failure at each step stops what runs by then. Avahi may rename the host
until it is confirmed. `socket` is what is at the control path: nothing, a stale
socket, another process's or ours. Four components (the notifier only under systemd)
run, fail, retry or return; controller and listener have restart budgets. Health is a
status, a stage, a degraded set and a channel of one element; draining and refilling it
is one step, since a reader between the two only finds the channel empty. A setup operation
that outlives the timeout of `Service.Shutdown` is not joined by the process and not part of
`ExitLeavesNothing`; what its rollback may bring back is in `CaptiveManager`.

### Portal

One tab with its view, what it remembers (CSRF token, known networks, whether the
application was ready) and two requests: the foreground one the user waits for, and
the one of `waitForApplication`'s loop, which is stale when the view has changed
(`viewRevision`). A request is sent with the cookie of that moment, served at most
once, and its answer arrives, is lost or comes after the timeout. `StartElsewhere` and
`ForgetElsewhere` are other sessions and also the mutations this page gave up on.
`ForgetKnownNetwork` and `DeleteOwnedInfrastructureProfile` look at the profile in two
calls before a third deletes it. The slot, the history and the handlers' begin-or-cancel
are those of `SetupService`, with only the detail the page can see; that the two agree
is `SlotSpec` in both modules, a refinement of the same `TransitionSlot`. `ended`, `after` and
`raced` are ghosts: which operation had ended when readiness was reported, and whether
NetworkManager activated the profile after the last look.

## 3. Runs

All runs set `CHECK_DEADLOCK FALSE`: the inputs are bounded and the process may end,
so a final state is legitimate. Where something must happen a liveness property says so.

| Run | Bounds | Shows |
|---|---|---|
| `setup` | 3 requests, 2 profiles, history of 2 | single flight, consistent history, quiet shutdown, no profile forgotten under a transition, final outcomes, refinement of `TransitionSlot`; the slot is always released, shutdown completes. Three requests overflow the history, and leave one to forget or to conflict while another runs |
| `captive` | 3 interchangeable UUIDs, one setup transition at a time and its checkpoint; 28 thousand states | nothing leaks, active means complete, DNS before access point, recovery is complete, refinement of `ProvisioningMode`, with rollbacks at any time. Three UUIDs: one kept, one orphaned or brought back, one fresh |
| `transition` | 2 transitions in a row, of any kind, 1 entered network, from a new, a standalone and a network device, with or without the setup network, each with a foreign profile of the same network; 3.6 million states | durability of success, reversibility before acceptance, foreign profiles untouched, candidates inert, no boot without a mode except by rejection, a failed restoration is reported. Two transitions: the second meets what a failed, crashed or expired first one left |
| `controller` | 5 situations (ready, nothing to activate, unmanaged, standalone down, standalone up), 2 changes, 1 restart, 1 request, channels of 1; 6.4 million states | waiting is timed; the engine's last state matches the network; convergence; no request lost, and none acknowledged by a mistake of the controller's own, with the setup workflow leaving and rolling back. Two changes: one between the reads of a snapshot and one after it, or a move to a candidate and the rollback from it |
| `controller_liveness` | 2 situations (ready, and nothing to activate), 1 change, 1 restart, 1 request, channels of 1, the setup workflow as in `controller`; 290 thousand states | the setup network is given up; the engine decides; requests are answered; cancellation ends the controller. A channel of one fills up |
| `runtime` | 1 restart, one stage of each kind; ports 0, 1, 80, 65535 and 65537 from file and flags, every address and prefix of 5 bits, every kind of label, link and health URL | accepted configurations can be served; clean, complete and truthful exits; delivered and truthful health. One restart shows the retry and the exhausted budget; 5 bits hold prefixes on both sides of the code's 30-of-32 limit |
| `portal` | 1 managed profile, 2 operations, history of 1, 1 restart; 317 thousand states | no unconfirmed application link; no profile in use is forgotten; refinement of `TransitionSlot`; outcomes and a ready application are shown. Two operations: the view of the first is stale for the second, and the history of one trims it |

### Disagreements between the code and its documentation

Five runs check a statement of a comment or document, and TLC finds the code doing
something else. All need unusual timing or failures.

| Run | Statement | What happens |
|---|---|---|
| `transition_candidate` | architecture.md: a partially created candidate is removed on failure or next startup | standalone candidates carry no pending marker; after a crash they stay |
| `transition_boot` | `FinalizeTransition`: if an operation fails, some usable production profile remains eligible | rollback deletes the freshly enabled candidate after the other mode was disabled |
| `transition_startup` | `DeletePendingInfrastructureProfiles`: removes only uncommitted profiles created by an interrupted transition | a request served before startup recovery is over has its candidate deleted, also when it was committed after the listing |
| `controller_acknowledge` | `Complete` acknowledges a successful provisioning entry | after the setup workflow has left it, `applyRecovery` still finds `enter` as its last action and completes a request without entering |
| `controller_stale` | contradicting engine output is suppressed until the engine catches up | an old provisioning transition in the queue ends the suppression too early |

`RequestHonoured` and `Converges` say what holds in spite of `controller_acknowledge`:
nothing but the setup workflow leaving the mode since the controller last acted completes a
request with the mode off, or makes a settled controller disagree with the engine. The
second disagreement has the same cause: the controller compares a verdict with its own last
action, so a provisioning stage whose intermediate stages were coalesced away is skipped
and no setup network is opened, although architecture.md says that reconciliation
"otherwise creates the temporary provisioning network" (the exception `exited` in
`Converges`; without it TLC finds the skipped stage).

The models show related behaviour that has no run of its own: a
setup transition that fails after the controller has left the mode is rolled back to an access
point without its DNS fragment and without a session that would remove it, although
`DNSConfigFile` wants the fragment there before any activation (the exceptions in
`DNSPrecedesAP` and `NothingLeaks`; without them TLC finds the rollback); an access
point that NetworkManager loses in provisioning mode is not brought up again, because
`next == current` is skipped there too (`Converges` speaks of the manager's mode, not of
the air); an expired
checkpoint makes `rollbackTransition` return before it removes the candidate; mode
selection also commits a candidate that such a failure left behind; a network state
observed after `Stopping` makes the health status non-terminal until the process ends;
and an operation that was trimmed, cancelled or lost in a restart is polled by its page
until it is reloaded, because a 404 is taken for a device that is out of reach.
`SuccessIsDurable`, `OnlyRejectionDisables` and `RejectionChangesNothing` except the
deletions of `transition_startup`, by the ghost `swept`, and check everything else.

`OnlyRejectionDisables` names four steps that may take away the last production mode that
starts at boot: deleting a rejected candidate; a rollback to settings that were not yet
enabled; the deletions of `transition_startup`; and a mode selection that goes on after
the checkpoint expired between two of its calls, so that NetworkManager took the
candidate's `autoconnect` back while `selectMode` continues to disable the
other mode. The last one came out of the proof: it needs a third transition,
one more than the run's bound, and TLC finds it there.

### Fairness

* `SetupService`: weak fairness on a handler that has begun (net/http finishes or fails
  a write, a forget's D-Bus call returns), on workers (every backend call has a
  timeout), and on the shutdown wait. No fairness on arrivals or on shutdown itself.
* `Engine`, `Controller`: weak fairness on the goroutines, timers and delivery of
  signals. Strong fairness on single cases of a `select`: Go chooses at random among
  the ready cases, so one that is ready infinitely often is taken. The network changes
  finitely often, by bound.
* `Portal`: weak fairness on the page's two timers (`setTimeout` fires), strong fairness
  on serving and answering its queries: the device comes back into reach, so of
  endlessly many requests some are answered. Nothing on the user, on other sessions
  or on operations ending; `LinkAppears` assumes an application that stays ready.
* `Runtime`: weak fairness on the main goroutine, on the return of cancelled components
  (each bounds its shutdown with a timeout) and on the retry waits.

## 4. Proofs

TLAPS checks these for every value of the constants. The assumptions are the named
`ASSUME`s of the modules, which TLC evaluates in the runs: a "none" value outside its
set, natural bounds, positive history limit and channel capacities, inputs that are of
the shape the code reads, and for `Transition` that a device starts with profiles that
some run of onboardd or somebody else can have stored (a pending profile was written
without autoconnect, a setup access point is onboardd's own). All proofs are laid out
alike: an inductive invariant `Inv` as a conjunction of named parts, a theorem
`Invariance` with one step per action, and the listed theorems from it.

**SetupService_proofs** proves the type invariant, `SingleFlight`, `HistoryConsistent`,
`QuietAfterShutdown`, `JoinedProfileStays`, `FinishedIsFinal` and the refinement of
`TransitionSlot`. `SingleFlight` is not inductive: the guard of `start` only looks at
`operations` and `isForgetting`. The inductive invariant `Inv` adds `Sync` (what the
handler, the operation table, the pending actions and the worker of one request may be
at the same time), `Forgetting` (`isForgetting` exactly while some handler is in its
unlocked backend call) and `Closing` (what may still exist after `isShuttingDown`).
There is one step per action; the changes of the history sequence (append, trim) are
lemmas used by `start` and by the outcome of a worker. The refinement maps the holders
and the working request to sets; lemmas say per kind of step that it acquires, works,
releases or stutters.

**CaptiveManager_proofs** proves the type invariant, `NothingLeaks`, `ActiveIsComplete`,
`DNSPrecedesAP`, `RecoveryIsComplete` and the refinement of `ProvisioningMode`. They hold
with rollbacks at any time, and say exactly what a rollback may add. `NothingLeaks`
speaks of the idle manager only; the inductive invariant follows each resource through
every `pc`: `TableInv` (the nft table is tracked, or is about to be installed or
removed), `DNSInv`, `APInv` (the access point that is up or requested, and the one that a
rolled back transition may still activate, is the session's or came back by a rollback,
unless a crash or startup recovery is in between; a UUID about to be activated is in no
checkpoint) and `ActiveInv`. `ImplementsMode` takes every step of the manager to a step
of the abstract mode or to a stutter. It needs the invariant of the state after the step
as well: outside startup recovery a trace is tracked at every `pc`, also halfway through
a call, and an access point that comes up late comes up for an activation that counted as
a trace, or as one that has returned, before.

**Transition_proofs** proves the type invariant, `PendingIsInert`, `ForeignUntouched`,
`RestorationReported`, `RejectionChangesNothing`, `OnlyRejectionDisables` and
`SuccessIsDurable`. None is inductive: a rollback writes back what a checkpoint
recorded, and a deletion what an earlier call listed, so the invariant has to say that
memory agrees with the store. Its parts are `StoreInv`; `SnapshotInv` (a checkpoint's
settings have the owner and the role of the stored profile, and *are* the stored
profile as long as nothing was accepted, or when it is foreign); `MemoryInv` (what
`selectMode`, startup recovery, the captive session and the transition remember are
profiles of onboardd's own, of the right role); `AcceptedInv`; `SelectionInv` (how far
mode selection has come while the checkpoint can still be committed: the profiles with
the wrong flag are on the list, then there are none, then the candidate is the only one
of its network); and `ProcessInv`, the other types. The 33 actions do only five
things to the store (shrink, grow, take a snapshot, restore one, change the flags of one
profile). Lemmas show that each of the five keeps identity and foreign profiles, then
that every action is one of them; the action properties follow from lemmas that say
which actions change a production profile at all.

**Controller_proofs** proves the type invariant of engine and controller,
`WaitingIsTimed`, `ReflectsNetwork`, `NoLostRequest`, `SetupGivenUp`, `Converges` and
`RequestHonoured`, with the setup workflow leaving and rolling back at any time. The
properties speak of a waiting engine and a settled controller. `TimerInv` and
`NetworkInv` carry them through the snapshot's two reads and the emission (what was read
is the network, up to profile updates that nobody was told of, unless a change is on its
way). `QueueInv` says that the last state in the channel is the engine's current one;
`DecidedInv`, that a controller which has read everything has acted on that state, or is
calling, whatever the running call has done to the network by then; `ActedInv`, that what
it did last is what the captive manager is in, or was until the setup workflow left it;
`RequestInv`, that a pending request is notified or being served.

**Runtime_proofs** proves the type invariant, `StatusDelivered`, `ReadyMeansRunning`,
`ExitLeavesNothing`, `TruthfulExit`, `AcceptedIsServable` and `AcceptedAddressUsable`.
The invariant follows the phases: what can run (`ComponentsInv`), what is open and who
closes it (`ResourcesInv`), where the result comes from (`ResultInv`), and that the
channel of one never holds an old status (`HealthInv`); `ConfigurationInv` connects the
accepted options to what was configured. The last two theorems rest on
**Configuration_proofs**, lemmas on what overlaying, validating and rendering return for
any file and flags (`PortKept`: narrowing to 16 bits loses nothing, because the flag was
checked before). `AcceptedAddressUsable` is proved for `Width = 32`, the code's:
the powers of two of the possible prefix lengths are computed one by one, because the laws
of `2^n` for a variable `n` need an induction.

**Portal_proofs** proves the type invariant, `CompletionConfirmed`,
`ForgetSparesActive` and the refinement of `TransitionSlot`. `CompletionConfirmed` relates what the page shows to when an
answer was given; `OperationsInv` (numbers grow, one operation is live, the ended ones
come before it), `AnswerInv` (an answer that says an operation has ended comes from
after its end) and `PageInv` (the page waits for a refresh only when its operation has
ended, and the loop of a left view is not current) say so for every request in flight.
`ForgetInv` follows the two looks and the delete. For the refinement an operation holds
the slot while it is live, and a forget holds it as request 0; a restart releases it.

Only model-checked: the liveness properties `SlotIsReleased`, `ShutdownCompletes`,
`RequestAnswered`, `ControllerReturns`, `Decides`, `ExitCompletes`, `OutcomeShown` and
`LinkAppears` (fairness is out of the prover's reach). The type invariants are in no
run; they are there for the proofs, which need them.

## 5. Not modelled

Conversion, content and I/O without state of their own: D-Bus encoding, NetworkManager
settings dictionaries, dnsmasq and nft text, Wi-Fi scans and their merging, request
decoding, size limits and origin checks, error wording, logging, static pages,
appearance and logo files, the contents of password files, sub-command dispatch, the
client side of `onboardd recover`, packaging. Of the browser: rendering, QR codes,
sorting. The systemd watchdog's timing and a second onboardd process on the same
device (which the unit rules out) are not modelled either.

## 6. Done and open

Done: setup service, captive manager, transitions with startup recovery and the captive
manager beside them, engine, controller, configuration, runtime with discovery and
control socket, portal; proofs of every safety property of the runs. What one module
takes from another is a theorem where an abstract specification is between them:
`Controller` relies on `ProvisioningMode`, which `CaptiveManager` implements; `Portal` and
`SetupService` implement the same `TransitionSlot`, which keeps the transitions of
`Transition` apart.

Open:

1. `Transition` has its own view of the captive manager (a session that is entered or
   left beside a transition); it is written from the same code and not yet related to
   `ProvisioningMode` by a theorem.
2. Stronger statements from the invariants that are already there: which failures of
   `Transition` leave a candidate behind, and that the next startup removes it; that the
   controller's restart budget is only spent on errors.
