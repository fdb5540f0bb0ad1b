------------------------------- MODULE Portal -------------------------------
(***************************************************************************)
(* One browser tab with the setup page (frontend/src/main.ts, api.ts)      *)
(* against the setup API (internal/webui/api.go) and the known-network     *)
(* operations of the backend (internal/setupflow/network.go), while other  *)
(* sessions use the same device.                                           *)
(*                                                                         *)
(* A request can be lost, its answer can be lost, and a mutation the page  *)
(* has given up on after five seconds may still be executed.  A restart of *)
(* the service replaces the session and CSRF tokens and forgets all        *)
(* operations.                                                             *)
(***************************************************************************)
EXTENDS Naturals, FiniteSets

CONSTANTS Managed,      \* saved profiles onboardd owns
          None,         \* no profile, or one that is not in Managed
          HistoryLimit, \* operationHistoryLimit
          MaxOps,       \* bound: operations per behaviour
          MaxRestarts   \* bound: restarts of the service

ASSUME BoundsAssumption == MaxOps \in Nat /\ MaxRestarts \in Nat

VARIABLES
    epoch,     \* incarnation of the service: its sessionToken and csrfToken
    ops,       \* operations by number, in the order they were registered
    target,    \* saved profile the live operation joins, or None
    ended,     \* ghost: the last operation that has ended, 0 for none
    stored,    \* saved profiles
    active,    \* the profile in use, or None
    forget,    \* the ForgetKnownNetwork call in progress
    appReady,  \* what the application's health check would answer
    cookie,    \* session token in the browser's cookie jar, 0 for none
    page,      \* what the tab shows and remembers
    call,      \* its foreground request
    loop       \* the request of waitForApplication's loop

service == <<epoch, ops, target, ended>>
network == <<stored, active>>
device == <<service, network, forget, appReady>>
browser == <<cookie, page, call, loop>>
vars == <<device, browser>>

Ids == 1..MaxOps
Tokens == 0..MaxRestarts + 1
\* "accepted" and "unsent" are pending: the 202 response was flushed, or not.
Live == {"accepted", "unsent", "running"}
Finished == {"succeeded", "failed"}
Known == Live \cup Finished
Views == {"start", "login", "choose", "known", "monitor", "complete", "failed", "error"}

Queries == {"bootstrap", "refresh", "login", "known", "operation"}
Starts == {"start", "connect"}
Mutations == Starts \cup {"forget"}

\* An answer carries what its route returns; the other fields keep defaults.
\* "waiting": not served yet.  "lost": served, but the answer cannot arrive.
Waiting == [code |-> "waiting", op |-> 0, state |-> "none", token |-> 0,
            ready |-> FALSE, after |-> 0, listed |-> {}]
Code(c) == [Waiting EXCEPT !.code = c]
Arrived == {"ok", "auth", "error"}
Answers == [code : {"waiting", "lost"} \cup Arrived, op : 0..MaxOps,
            state : {"none", "live"} \cup Finished, token : Tokens,
            ready : BOOLEAN, after : 0..MaxOps, listed : SUBSET Managed]
NoCall == [kind |-> "none", profile |-> None, csrf |-> 0, cookie |-> 0,
           answer |-> Waiting]
NoLoop == [on |-> FALSE, current |-> FALSE, cookie |-> 0, answer |-> Waiting]
NoForget == [step |-> "idle", profile |-> None, waited |-> FALSE, raced |-> FALSE]
NewPage == [view |-> "start", op |-> 0, csrf |-> 0, ready |-> FALSE, after |-> 0,
            listed |-> {}]

TypeOK ==
    /\ epoch \in Tokens \ {0} /\ cookie \in Tokens
    /\ ops \in [Ids -> {"free", "gone"} \cup Known]
    /\ target \in Managed \cup {None} /\ ended \in 0..MaxOps
    /\ stored \subseteq Managed /\ active \in Managed \cup {None}
    /\ forget \in [step : {"idle", "check", "recheck", "delete"},
                   profile : Managed \cup {None}, waited : BOOLEAN, raced : BOOLEAN]
    /\ appReady \in BOOLEAN
    /\ page \in [view : Views, op : 0..MaxOps, csrf : Tokens, ready : BOOLEAN,
                 after : 0..MaxOps, listed : SUBSET Managed]
    /\ call \in [kind : {"none"} \cup Queries \cup Mutations,
                 profile : Managed \cup {None}, csrf : Tokens, cookie : Tokens,
                 answer : Answers]
    /\ loop \in [on : BOOLEAN, current : BOOLEAN, cookie : Tokens, answer : Answers]
    \* One change at a time; a loop that is current belongs to the view.
    /\ Cardinality({o \in Ids : ops[o] \in Live}) <= 1
    /\ forget.step # "idle" => \A o \in Ids : ops[o] \notin Live
    /\ loop.current => page.view = "complete" /\ ~page.ready

Init ==
    /\ epoch = 1 /\ cookie = 0
    /\ ops = [o \in Ids |-> "free"] /\ target = None /\ ended = 0
    /\ stored = Managed /\ active = None
    /\ forget = NoForget
    /\ appReady \in BOOLEAN
    /\ page = NewPage
    /\ call = [NoCall EXCEPT !.kind = "bootstrap"]
    /\ loop = NoLoop

-----------------------------------------------------------------------------
(* The setup service as the API uses it (module SetupService has the rest). *)

order == {o \in Ids : ops[o] \in Known}
latestOperation ==
    IF order = {} THEN 0 ELSE CHOOSE o \in order : \A p \in order : p <= o
\* The state a snapshot shows to the page.
snapshot(o) == IF o = 0 THEN "none" ELSE IF ops[o] \in Live THEN "live" ELSE ops[o]

\* One transition or one forget at a time.
mutant_slotFree == order \cap {o \in Ids : ops[o] \in Live} = {}
slotFree == order \cap {o \in Ids : ops[o] \in Live} = {} /\ forget.step = "idle"

\* start appends a pending operation and trims the history.
Register(o, profile, state) ==
    /\ ops[o] = "free" /\ \A p \in Ids : p < o => ops[p] # "free"
    /\ ops' = [p \in Ids |->
          IF p = o THEN state
          ELSE IF p \in order /\ Cardinality({q \in order : q > p}) + 1 >= HistoryLimit
                 THEN "gone"
          ELSE ops[p]]
    /\ target' = profile

\* BeginOperation after the response was flushed, else CancelPendingOperation.
BeginOrCancel(o) ==
    /\ ops[o] \in {"accepted", "unsent"}
    /\ IF ops[o] = "accepted"
         THEN ops' = [ops EXCEPT ![o] = "running"] /\ UNCHANGED target
         ELSE ops' = [ops EXCEPT ![o] = "gone"] /\ target' = None
    /\ UNCHANGED <<epoch, ended, network, forget, appReady, browser>>

\* The transition ends (module Transition).
OperationEnds(o) ==
    /\ ops[o] = "running"
    /\ \E state \in Finished :
          /\ ops' = [ops EXCEPT ![o] = state]
          /\ active' \in IF state = "succeeded" THEN {target} ELSE {active, None}
    /\ target' = None /\ ended' = o
    /\ UNCHANGED <<epoch, stored, forget, appReady, browser>>

-----------------------------------------------------------------------------
(* The API's handlers. *)

allowSession(r) == r.cookie = epoch
allowMutation(r) == r.csrf = epoch

\* KnownNetworks: can_connect and can_forget hold for inactive managed profiles.
KnownNetworks == stored \ {active}

\* getSetup: the token, and browserHandoff's view of the application.
getSetup == [Code("ok") EXCEPT !.token = epoch, !.ready = appReady, !.after = ended]

\* postSession, getKnownNetworks, getOperation; a page that loads looks at the
\* operation of getSetup, one that refreshes does not.
Query(kind) ==
    CASE kind = "login" -> [Code("ok") EXCEPT !.token = epoch]
      [] kind = "known" -> [Code("ok") EXCEPT !.listed = KnownNetworks]
      [] kind = "operation" ->
            IF page.op \in order
              THEN [Code("ok") EXCEPT !.op = page.op, !.state = snapshot(page.op)]
              ELSE Code("error")
      [] kind = "refresh" -> getSetup
      [] kind = "bootstrap" ->
            [getSetup EXCEPT !.op = latestOperation, !.state = snapshot(latestOperation)]

Pending(kinds) == call.kind \in kinds /\ call.answer = Waiting
Answer(a) == call' = [call EXCEPT !.answer = a]

ServeQuery ==
    /\ Pending(Queries)
    /\ Answer(IF call.kind = "login" \/ allowSession(call)
                THEN Query(call.kind) ELSE Code("auth"))
    /\ UNCHANGED <<device, cookie, page, loop>>

\* NetworkManager cannot be read, or the mutation is refused.
ServeError ==
    /\ Pending({"bootstrap", "refresh", "known"} \cup Mutations)
    /\ Answer(IF allowSession(call) THEN Code("error") ELSE Code("auth"))
    /\ UNCHANGED <<device, cookie, page, loop>>

ServeLoop ==
    /\ loop.on /\ loop.answer = Waiting
    /\ loop' = [loop EXCEPT !.answer =
                   IF allowSession(loop) THEN getSetup ELSE Code("auth")]
    /\ UNCHANGED <<device, cookie, page, call>>

\* postConnection, postStandalone and postKnownNetwork up to acceptOperation.
ServeStart(o) ==
    /\ Pending(Starts)
    /\ allowSession(call) /\ allowMutation(call)
    /\ call.kind = "connect" => call.profile \in KnownNetworks
    /\ slotFree
    /\ \/ /\ Register(o, call.profile, "accepted")
          /\ Answer([Code("ok") EXCEPT !.op = o, !.state = "live"])
       \/ Register(o, call.profile, "unsent") /\ Answer(Code("lost"))
    /\ UNCHANGED <<epoch, ended, network, forget, appReady, cookie, page, loop>>

\* deleteKnownNetwork, admitted by the service.
ServeForget ==
    /\ Pending({"forget"})
    /\ allowSession(call) /\ allowMutation(call)
    /\ slotFree
    /\ forget' = [NoForget EXCEPT !.step = "check", !.profile = call.profile,
                                  !.waited = TRUE]
    /\ Answer(Code("lost"))
    /\ UNCHANGED <<service, network, appReady, cookie, page, loop>>

\* The handler returns to the page if it still waits.
ForgetReturns(code) ==
    /\ forget' = NoForget
    /\ IF forget.waited THEN Answer(Code(code)) ELSE UNCHANGED call

\* NetworkBackend.ForgetKnownNetwork looks at profile and status, ...
Inactive(p) == p \in stored /\ p # active

ForgetChecks ==
    /\ forget.step = "check"
    /\ \/ /\ Inactive(forget.profile)
          /\ forget' = [forget EXCEPT !.step = "recheck"] /\ UNCHANGED call
       \/ ForgetReturns("error")
    /\ UNCHANGED <<service, network, appReady, cookie, page, loop>>

\* ... DeleteOwnedInfrastructureProfile looks again, ...
mutant_ForgetRechecks ==
    /\ forget.step = "recheck"
    /\ \/ /\ forget.profile \in stored
          /\ forget' = [forget EXCEPT !.step = "delete"] /\ UNCHANGED call
       \/ ForgetReturns("error")
    /\ UNCHANGED <<service, network, appReady, cookie, page, loop>>
ForgetRechecks ==
    /\ forget.step = "recheck"
    /\ \/ /\ Inactive(forget.profile)
          /\ forget' = [forget EXCEPT !.step = "delete"] /\ UNCHANGED call
       \/ ForgetReturns("error")
    /\ UNCHANGED <<service, network, appReady, cookie, page, loop>>

\* ... and deletes it, which would take its connection down.
ForgetDeletes ==
    /\ forget.step = "delete"
    /\ \/ /\ stored' = stored \ {forget.profile}
          /\ active' = IF active = forget.profile THEN None ELSE active
          /\ ForgetReturns("ok") \/ ForgetReturns("error")
       \/ UNCHANGED network /\ ForgetReturns("error")
    /\ UNCHANGED <<service, appReady, cookie, page, loop>>

-----------------------------------------------------------------------------
(* The page.  Its user waits for a foreground request, or reloads. *)

idle == call = NoCall

Request(kind, profile, jar) ==
    [NoCall EXCEPT !.kind = kind, !.profile = profile, !.cookie = jar,
                   !.csrf = IF kind \in Mutations THEN page.csrf ELSE 0]
Send(kind) == call' = Request(kind, None, cookie)

\* frame and showLogin replace the view and increment viewRevision, which makes
\* a request of the application loop stale.
Frame(p) == page' = p /\ loop' = [loop EXCEPT !.current = FALSE]

\* The start() that follows a login replaces all that the page remembers.
showLogin == Frame([NewPage EXCEPT !.view = "login"]) /\ call' = NoCall

\* What api.bootstrap and its callers keep of an answer.
keepSetup(p, a) == [p EXCEPT !.csrf = a.token, !.ready = a.ready, !.after = a.after]

\* refreshHandoff first takes back the application's readiness.
mutant_refreshHandoff(p) == p
refreshHandoff(p) == [p EXCEPT !.ready = FALSE, !.after = 0]

\* One turn of monitorOperation on a snapshot of operation o.
mutant_monitorOperation(p, o, state) ==
    LET q == [p EXCEPT !.op = o, !.listed = {}]
    IN  IF state = "succeeded"
          THEN Frame([refreshHandoff(q) EXCEPT !.view = "monitor"]) /\ Send("refresh")
          ELSE Frame([q EXCEPT !.view = "monitor"]) /\ call' = NoCall
monitorOperation(p, o, state) ==
    LET q == [p EXCEPT !.op = o, !.listed = {}]
    IN  CASE state = "succeeded" ->
                Frame([refreshHandoff(q) EXCEPT !.view = "monitor"]) /\ Send("refresh")
          [] state = "failed" -> Frame([q EXCEPT !.view = "failed"]) /\ call' = NoCall
          [] state = "live" -> Frame([q EXCEPT !.view = "monitor"]) /\ call' = NoCall

showComplete(p) == Frame([p EXCEPT !.view = "complete"]) /\ call' = NoCall

showKnownNetworks ==
    Frame([page EXCEPT !.view = "known", !.op = 0, !.listed = {}]) /\ Send("known")

\* An answer that is an error of any kind leaves the view, with a message in it.
Stay == call' = NoCall /\ UNCHANGED <<page, loop>>

\* What the page does with the answer to its request.
Continue(a) ==
    LET ok == a.code = "ok"
    IN  CASE a.code = "auth" -> showLogin
          [] a.code # "auth" /\ call.kind = "bootstrap" ->
                IF ~ok THEN Frame([page EXCEPT !.view = "error"]) /\ call' = NoCall
                ELSE IF a.op # 0 THEN monitorOperation(keepSetup(page, a), a.op, a.state)
                ELSE Frame([keepSetup(page, a) EXCEPT !.view = "choose"]) /\ call' = NoCall
          [] a.code # "auth" /\ call.kind = "refresh" ->
                showComplete(IF ok THEN keepSetup(page, a) ELSE page)
          [] a.code # "auth" /\ call.kind = "login" ->
                IF ok THEN Frame(NewPage) /\ call' = Request("bootstrap", None, a.token)
                      ELSE Stay
          [] a.code # "auth" /\ call.kind = "known" ->
                page' = [page EXCEPT !.listed = a.listed] /\ call' = NoCall /\ UNCHANGED loop
          [] a.code # "auth" /\ call.kind = "forget" -> IF ok THEN showKnownNetworks ELSE Stay
          [] a.code # "auth" /\ call.kind \in Starts \cup {"operation"} ->
                IF ok THEN monitorOperation(page, a.op, a.state) ELSE Stay

\* An answer arrives; the browser stores the cookie of a login.
Receive ==
    /\ call.kind # "none" /\ call.answer.code \in Arrived
    /\ Continue(call.answer)
    /\ cookie' = IF call.kind = "login" THEN call.answer.token ELSE cookie
    /\ UNCHANGED device

\* A forget at work loses its client.
Abandon == forget' = [forget EXCEPT !.waited = FALSE]

\* The request fails or is aborted after requestTimeoutMilliseconds.
Timeout ==
    /\ call.kind # "none"
    /\ Continue(Code("error"))
    /\ Abandon
    /\ UNCHANGED <<service, network, appReady, cookie>>

\* The user opens or reloads the page: start().
Open ==
    /\ page' = NewPage /\ loop' = NoLoop
    /\ Send("bootstrap")
    /\ Abandon
    /\ UNCHANGED <<service, network, appReady, cookie>>

Login ==
    /\ idle /\ page.view = "login"
    /\ Send("login")
    /\ UNCHANGED <<device, cookie, page, loop>>

ManageKnownNetworks ==
    /\ idle /\ page.view \in {"choose", "known", "complete", "failed"}
    /\ showKnownNetworks
    /\ UNCHANGED <<device, cookie>>

showModeChoice ==
    /\ idle /\ page.view \in {"known", "complete", "failed"}
    /\ Frame([page EXCEPT !.view = "choose", !.op = 0, !.listed = {}])
    /\ UNCHANGED <<device, cookie, call>>

\* The forms of showCredentials and showStandaloneConfirmation.
Submit ==
    /\ idle /\ page.view = "choose"
    /\ Send("start")
    /\ UNCHANGED <<device, cookie, page, loop>>

\* The confirmations for a network of the list, which may be old.
ConfirmKnown(kind, u) ==
    /\ idle /\ page.view = "known" /\ u \in page.listed
    /\ call' = Request(kind, u, cookie)
    /\ UNCHANGED <<device, cookie, page, loop>>

\* monitorOperation asks again every second.
Poll ==
    /\ idle /\ page.view = "monitor"
    /\ Send("operation")
    /\ UNCHANGED <<device, cookie, page, loop>>

\* waitForApplication asks every two seconds until the application is ready.
mutant_WaitForApplication ==
    /\ page.view = "complete" /\ ~page.ready /\ ~loop.on
    /\ loop' = [NoLoop EXCEPT !.on = TRUE, !.cookie = cookie]
    /\ UNCHANGED <<device, cookie, page, call>>
WaitForApplication ==
    /\ page.view = "complete" /\ ~page.ready /\ ~loop.on
    /\ loop' = [NoLoop EXCEPT !.on = TRUE, !.current = TRUE, !.cookie = cookie]
    /\ UNCHANGED <<device, cookie, page, call>>

\* An answer to the loop: of a stale request only the CSRF token is kept.
ReceiveWait ==
    /\ loop.on /\ loop.answer.code \in Arrived
    /\ loop' = NoLoop
    /\ LET ok == loop.answer.code = "ok"
       IN  CASE loop.current /\ ok ->
                   page' = keepSetup(page, loop.answer) /\ UNCHANGED call
             [] loop.current /\ ~ok ->
                   page' = [NewPage EXCEPT !.view = "login"] /\ UNCHANGED call
             [] ~loop.current ->
                   /\ page' = IF ok THEN [page EXCEPT !.csrf = loop.answer.token] ELSE page
                   /\ UNCHANGED call
    /\ UNCHANGED <<device, cookie>>

\* An error or a timeout: the loop goes on.
WaitFails ==
    /\ loop.on
    /\ loop' = NoLoop
    /\ UNCHANGED <<device, cookie, page, call>>

-----------------------------------------------------------------------------
(* The rest of the device. *)

\* Another session starts an operation or forgets a network, with a list of its
\* own; so does a mutation that the page has given up on.
StartElsewhere(o) ==
    /\ slotFree
    /\ \E profile \in KnownNetworks \cup {None}, state \in {"accepted", "unsent"} :
          Register(o, profile, state)
    /\ UNCHANGED <<epoch, ended, network, forget, appReady, browser>>

ForgetElsewhere ==
    /\ slotFree
    /\ \E p \in Managed : forget' = [NoForget EXCEPT !.step = "check", !.profile = p]
    /\ UNCHANGED <<service, network, appReady, browser>>

\* Another tab of the browser logs in.
LoginElsewhere ==
    /\ cookie # epoch
    /\ cookie' = epoch
    /\ UNCHANGED <<device, page, call, loop>>

\* NetworkManager connects, roams or disconnects by itself.
ConnectionChanges ==
    /\ active' \in (stored \cup {None}) \ {active}
    /\ forget' = [forget EXCEPT !.raced =
                     @ \/ (forget.step = "delete" /\ active' = forget.profile)]
    /\ UNCHANGED <<service, stored, appReady, browser>>

ApplicationChanges ==
    /\ appReady' = ~appReady
    /\ UNCHANGED <<service, network, forget, browser>>

\* The service restarts: NewAPI draws new tokens, the operations are gone.
Restart ==
    /\ epoch <= MaxRestarts
    /\ epoch' = epoch + 1
    /\ ops' = [o \in Ids |-> IF ops[o] = "free" THEN "free" ELSE "gone"]
    /\ target' = None
    /\ forget' = NoForget
    /\ UNCHANGED <<ended, network, appReady, browser>>

Handlers ==
    \/ ServeQuery \/ ServeError \/ ServeLoop \/ ServeForget
    \/ \E o \in Ids : ServeStart(o) \/ BeginOrCancel(o) \/ OperationEnds(o)
    \/ ForgetChecks \/ ForgetRechecks \/ ForgetDeletes

Browser ==
    \/ Open \/ Login \/ ManageKnownNetworks \/ showModeChoice \/ Submit
    \/ \E u \in Managed, kind \in {"connect", "forget"} : ConfirmKnown(kind, u)
    \/ Poll \/ Receive \/ Timeout \/ WaitForApplication \/ ReceiveWait \/ WaitFails

Environment ==
    \/ \E o \in Ids : StartElsewhere(o)
    \/ ForgetElsewhere \/ LoginElsewhere
    \/ ConnectionChanges \/ ApplicationChanges \/ Restart

Next == Handlers \/ Browser \/ Environment

Spec == Init /\ [][Next]_vars

\* The page's timers fire and handlers run; the device is not out of reach for
\* ever, so of endlessly many requests some are served and answered.
FairSpec ==
    /\ Spec
    /\ WF_vars(Poll) /\ WF_vars(WaitForApplication)
    /\ SF_vars(ServeQuery) /\ SF_vars(ServeLoop)
    /\ SF_vars(Receive) /\ SF_vars(ReceiveWait)

-----------------------------------------------------------------------------
(* Properties. *)

\* main.ts:640: "The completion view continues polling and must not expose a
\* destination whose health could not be confirmed."  A tab that shows a
\* completed operation links to the application only when it was found ready
\* after that operation had ended: not on the word of an answer from before the
\* radio changed, whichever request brought it and whichever was lost.
CompletionConfirmed ==
    page.view = "complete" /\ page.ready => page.op <= page.after

\* A forget confirmed on a list that is out of date, or executed after its page
\* gave up on it, does not delete the profile the device is using.  What remains
\* is NetworkManager activating it after the client's last look.
ForgetSparesActive ==
    [][\A p \in stored \ stored' : p = active => forget.raced]_vars

\* architecture.md:122: "Operation results remain queryable after a browser
\* disconnect".  A tab that monitors an operation learns of its end, however
\* many requests are lost, while the service remembers it.
OutcomeShown ==
    (page.view = "monitor" /\ ops[page.op] \in Finished)
        ~> (page.view # "monitor" \/ ops[page.op] = "gone")

\* Once the application stays ready, a completed setup gets its link.
LinkAppears ==
    <>[]appReady =>
        ((page.view = "complete") ~> (page.view # "complete" \/ page.ready))

\* Who holds the service's slot, a live operation or 0 for a forget, and whose
\* transition is running.
slotHolders ==
    {o \in Ids : ops[o] \in Live} \cup (IF forget.step # "idle" THEN {0} ELSE {})
slotWorking == {o \in Ids : ops[o] = "running"}

Slot == INSTANCE TransitionSlot WITH
            Requests <- Ids \cup {0},
            holders  <- slotHolders,
            working  <- slotWorking,
            closed   <- FALSE

\* What this module keeps of the setup service implements the slot that module
\* SetupService implements in full: whichever session, abandoned request or
\* restart comes between, an operation and a forget never hold it together.
SlotSpec == Slot!Spec
=============================================================================
