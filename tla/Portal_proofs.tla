---------------------------- MODULE Portal_proofs ----------------------------
(***************************************************************************)
(* Proofs about Portal: for every set of saved profiles, every history     *)
(* limit and any number of operations and restarts, a completed setup      *)
(* links only to an application found ready afterwards, a forget spares    *)
(* the profile in use, and the slot is never shared.                       *)
(***************************************************************************)
EXTENDS Portal, WellFoundedInduction, FiniteSetTheorems, TLAPS

\* What the page, its request and its loop range over.
Pages == [view : Views, op : 0..MaxOps, csrf : Tokens, ready : BOOLEAN,
          after : 0..MaxOps, listed : SUBSET Managed]
Calls == [kind : {"none"} \cup Queries \cup Mutations, profile : Managed \cup {None},
          csrf : Tokens, cookie : Tokens, answer : Answers]
Loops == [on : BOOLEAN, current : BOOLEAN, cookie : Tokens, answer : Answers]

\* TypeOK without its cardinality.
TypeInv ==
    /\ epoch \in Tokens \ {0} /\ cookie \in Tokens
    /\ ops \in [Ids -> {"free", "gone"} \cup Known]
    /\ target \in Managed \cup {None} /\ ended \in 0..MaxOps
    /\ stored \subseteq Managed /\ active \in Managed \cup {None}
    /\ forget \in [step : {"idle", "check", "recheck", "delete"},
                   profile : Managed \cup {None}, waited : BOOLEAN, raced : BOOLEAN]
    /\ appReady \in BOOLEAN
    /\ page \in Pages /\ call \in Calls /\ loop \in Loops

\* Operations are numbered in the order they are registered, one is live at a
\* time, and it has a higher number than every one that has ended.
OperationsInv ==
    /\ \A o, p \in Ids : ops[o] \in Live /\ ops[p] \in Live => o = p
    /\ \A o, p \in Ids : ops[o] = "free" /\ ops[p] # "free" => p < o
    /\ \A o \in Ids : ops[o] = "free" \/ ops[o] \in Live => ended < o
    /\ \A o \in Ids : ops[o] \in Finished => o <= ended

\* A forget excludes operations, and knows its client and the race it may lose.
ForgetInv ==
    /\ forget.step # "idle" => \A o \in Ids : ops[o] \notin Live
    /\ forget.waited => call.kind = "forget" /\ call.answer = Code("lost")
    /\ forget.step = "delete" /\ active = forget.profile => forget.raced

\* An answer to the page's request is one its route gives, and an operation that
\* it says has ended has ended.
AnswerInv ==
    /\ call.answer.state \in Finished => call.answer.op <= ended
    /\ call.answer.op # 0 => call.answer.state # "none"
    /\ call.kind \in Starts \cup {"operation"} /\ call.answer.code = "ok" =>
          call.answer.op # 0

\* The page waits for a refresh only when the operation it monitored has ended;
\* what it then learns of the application is from after that end, whether the
\* refresh or the loop of the completion view brings it.
PageInv ==
    /\ call.kind = "refresh" =>
          /\ page.view = "monitor" /\ ~page.ready /\ page.op <= ended
          /\ call.answer.code = "ok" => page.op <= call.answer.after
    /\ loop.current => page.view = "complete" /\ ~page.ready
    /\ loop.current /\ loop.answer.code = "ok" => page.op <= loop.answer.after
    /\ page.view = "complete" => page.op <= ended
    /\ CompletionConfirmed

\* The inductive invariant.
Inv == TypeInv /\ OperationsInv /\ ForgetInv /\ AnswerInv /\ PageInv

-----------------------------------------------------------------------------
(* The operators the handlers and the page are built from. *)

\* A non-empty set of operation numbers has a latest one.
LEMMA Latest ==
    ASSUME NEW S, S \subseteq Ids, S # {}
    PROVE \E o \in S : \A p \in S : p <= o
<1> DEFINE T == {MaxOps - o : o \in S}
<1>1. T \subseteq Nat /\ T # {}
  <2>1. \A o \in S : o \in Nat /\ MaxOps - o \in Nat
    BY BoundsAssumption DEF Ids
  <2> QED BY <2>1
<1>2. PICK x \in T : \A y \in T : ~(<<y, x>> \in OpToRel(<, Nat))
  <2> HIDE DEF T
  <2> QED BY <1>1, WFMin, NatLessThanWellFounded
<1>3. \A y \in T : ~(y < x)
  BY <1>1, <1>2 DEF OpToRel
<1>4. PICK o \in S : x = MaxOps - o
  OBVIOUS
<1> QED
  <2>1. \A p \in S : MaxOps - p \in T
    OBVIOUS
  <2>2. \A p \in S : ~(MaxOps - p < MaxOps - o)
    BY <1>3, <1>4, <2>1
  <2> HIDE DEF T
  <2> QED BY <2>2, BoundsAssumption DEF Ids

\* What latestOperation returns.
LEMMA LatestOperation ==
    latestOperation \in {0} \cup order
<1>1. order \subseteq Ids
  BY DEF order
<1> QED
  BY <1>1, Latest DEF latestOperation

\* The answers of all routes are answers.
LEMMA WaitingType ==
    /\ Waiting \in Answers /\ Waiting.code = "waiting"
    /\ Waiting.op = 0 /\ Waiting.state = "none"
  BY BoundsAssumption DEF Waiting, Answers, Tokens

LEMMA CodeType ==
    ASSUME NEW c \in {"waiting", "lost"} \cup Arrived
    PROVE /\ Code(c) \in Answers /\ Code(c).code = c
          /\ Code(c).op = 0 /\ Code(c).state = "none"
  BY WaitingType DEF Code, Answers

LEMMA SetupType ==
    ASSUME TypeInv
    PROVE /\ getSetup \in Answers /\ getSetup.code = "ok" /\ getSetup.after = ended
          /\ getSetup.op = 0 /\ getSetup.state = "none"
<1>1. /\ Code("ok") \in Answers /\ Code("ok").code = "ok"
      /\ Code("ok").op = 0 /\ Code("ok").state = "none"
  BY CodeType DEF Arrived
<1>2. epoch \in Tokens /\ appReady \in BOOLEAN /\ ended \in 0..MaxOps
  BY DEF TypeInv, Pages, Calls, Loops
<1> QED
  BY <1>1, <1>2 DEF getSetup, Answers

\* A snapshot of an operation that has ended says so truthfully.
LEMMA SnapshotType ==
    ASSUME TypeInv, OperationsInv, NEW o \in order
    PROVE /\ o \in Ids /\ snapshot(o) \in {"live"} \cup Finished
          /\ snapshot(o) \in Finished => o <= ended
<1>1. o \in Ids /\ o # 0 /\ ops[o] \in Known
  BY BoundsAssumption DEF order, Ids
<1> QED
  BY <1>1 DEF OperationsInv, snapshot, Known, Live, Finished

\* What a query answers: the operation it names, if any, in the state it is in.
LEMMA QueryType ==
    ASSUME TypeInv, OperationsInv, NEW kind \in Queries
    PROVE /\ Query(kind) \in Answers
          /\ Query(kind).state \in Finished => Query(kind).op <= ended
          /\ Query(kind).op # 0 => Query(kind).state # "none"
          /\ kind = "operation" /\ Query(kind).code = "ok" => Query(kind).op # 0
          /\ kind = "refresh" => Query(kind).after = ended
<1>1. CASE kind = "login"
  BY <1>1, CodeType DEF Query, Answers, Arrived, TypeInv, Pages, Calls, Loops, Finished
<1>2. CASE kind = "known"
  BY <1>2, CodeType DEF Query, KnownNetworks, Answers, Arrived, TypeInv, Pages, Calls, Loops, Finished
<1>3. CASE kind = "operation"
  <2>1. CASE page.op \in order
    <3>1. page.op \in 0..MaxOps /\ page.op # 0 /\ snapshot(page.op) \in {"live"} \cup Finished
      BY <2>1, SnapshotType DEF TypeInv, Pages, Calls, Loops, Ids
    <3>2. Query(kind) = [Code("ok") EXCEPT !.op = page.op, !.state = snapshot(page.op)]
      BY <1>3, <2>1 DEF Query
    <3>3. /\ Query(kind) \in Answers
          /\ Query(kind).op = page.op /\ Query(kind).state = snapshot(page.op)
      <4>1. Code("ok") \in Answers
        BY CodeType DEF Arrived
      <4> QED BY <3>1, <3>2, <4>1 DEF Answers
    <3> QED
      BY <1>3, <2>1, <3>1, <3>3, SnapshotType DEF Finished
  <2>2. CASE page.op \notin order
    <3>1. Query(kind) = Code("error")
      BY <1>3, <2>2 DEF Query
    <3> QED
      BY <1>3, <3>1, CodeType DEF Arrived, Finished
  <2> QED BY <2>1, <2>2
<1>4. CASE kind = "refresh"
  <2>1. Query(kind) = getSetup
    BY <1>4 DEF Query
  <2> QED BY <1>4, <2>1, SetupType DEF Finished
<1>5. CASE kind = "bootstrap"
  <2> DEFINE l == latestOperation
  <2>1. Query(kind) = [getSetup EXCEPT !.op = l, !.state = snapshot(l)]
    BY <1>5 DEF Query
  <2>2. CASE l = 0
    <3>1. snapshot(l) = "none"
      BY <2>2 DEF snapshot
    <3> QED
      BY <1>5, <2>1, <2>2, <3>1, SetupType, BoundsAssumption DEF Answers, Finished
  <2>3. CASE l \in order
    <3>1. l \in 0..MaxOps /\ snapshot(l) \in {"live"} \cup Finished
      BY <2>3, SnapshotType DEF Ids
    <3>2. /\ Query(kind) \in Answers
          /\ Query(kind).op = l /\ Query(kind).state = snapshot(l)
      <4> HIDE DEF l
      <4> QED BY <2>1, <3>1, SetupType DEF Answers
    <3> QED
      BY <1>5, <2>3, <3>1, <3>2, SnapshotType DEF Finished
  <2> QED BY <2>2, <2>3, LatestOperation
<1> QED
  BY <1>1, <1>2, <1>3, <1>4, <1>5 DEF Queries

-----------------------------------------------------------------------------
(* Every step preserves the invariant. *)

LEMMA InitInv == Init => Inv
<1> SUFFICES ASSUME Init PROVE Inv
  OBVIOUS
<1>1. Waiting \in Answers /\ Waiting.op = 0 /\ Waiting.state = "none"
  BY WaitingType
<1>2. /\ 0 \in Tokens /\ 1 \in Tokens \ {0} /\ 0 \in 0..MaxOps
      /\ \A o \in Ids : o \in Nat /\ 0 < o
  BY BoundsAssumption DEF Tokens, Ids
<1>3. TypeInv
  <2>1. page \in Pages
    BY <1>2 DEF Init, NewPage, Views, Pages
  <2>2. call \in Calls
    BY <1>1, <1>2 DEF Init, NoCall, Queries, Calls
  <2>3. loop \in Loops
    BY <1>1, <1>2 DEF Init, NoLoop, Loops
  <2>4. forget \in [step : {"idle", "check", "recheck", "delete"},
                    profile : Managed \cup {None}, waited : BOOLEAN, raced : BOOLEAN]
    BY DEF Init, NoForget
  <2> QED
    BY <1>2, <2>1, <2>2, <2>3, <2>4 DEF Init, TypeInv, Pages, Calls, Loops
<1>4. OperationsInv
  BY <1>2 DEF Init, OperationsInv, Live, Finished
<1>5. ForgetInv
  BY DEF Init, ForgetInv, NoForget
<1>6. call.kind = "bootstrap" /\ call.answer = Waiting
  BY DEF Init, NoCall
<1>7. AnswerInv
  BY <1>1, <1>6 DEF AnswerInv, Starts, Finished
<1>8. PageInv
  BY <1>6 DEF Init, PageInv, NewPage, NoLoop, CompletionConfirmed
<1> QED
  BY <1>3, <1>4, <1>5, <1>7, <1>8 DEF Inv

\* start: a new operation gets the next number, and trimming the history removes
\* operations that have ended.
LEMMA RegisterInv ==
    ASSUME TypeInv, OperationsInv, slotFree,
           NEW o \in Ids, NEW profile \in Managed \cup {None},
           NEW state \in {"accepted", "unsent"},
           Register(o, profile, state), ended' = ended
    PROVE /\ ops' \in [Ids -> {"free", "gone"} \cup Known] /\ ops'[o] = state
          /\ target' \in Managed \cup {None}
          /\ OperationsInv'
<1>1. \A p \in Ids : p \in Nat
  BY DEF Ids
<1>2. \A p \in Ids : ops[p] \notin Live
  BY DEF slotFree, order, Known
<1>3. /\ ops'[o] = state
      /\ \A p \in Ids \ {o} : ops'[p] = ops[p] \/ (ops'[p] = "gone" /\ p \in order)
      /\ ops[o] = "free" /\ \A p \in Ids : p < o => ops[p] # "free"
      /\ DOMAIN ops' = Ids /\ ops' = [p \in Ids |-> ops'[p]]
  BY DEF Register
<1>4. \A p \in order : ops[p] # "free" /\ p \in Ids
  BY DEF order, Known, Live, Finished
<1>5. ops' \in [Ids -> {"free", "gone"} \cup Known]
  BY <1>3 DEF TypeInv, Pages, Calls, Loops, Known, Live
<1>6. \A p \in Ids : ops[p] # "free" => p < o
  BY <1>3 DEF OperationsInv
<1>7. OperationsInv'
  <2> USE DEF OperationsInv, Live, Finished
  <2>1. \A p \in Ids : ops'[p] \in Live => p = o
    BY <1>2, <1>3
  <2>2. \A p, q \in Ids : ops'[p] = "free" /\ ops'[q] # "free" => q < p
    BY <1>1, <1>3, <1>4, <1>6
  <2>3. ended < o
    BY <1>3
  <2>4. \A p \in Ids : ops'[p] = "free" \/ ops'[p] \in Live => ended' < p
    BY <1>3, <2>1, <2>3
  <2>5. \A p \in Ids : ops'[p] \in Finished => p <= ended'
    BY <1>3
  <2> QED BY <2>1, <2>2, <2>4, <2>5
<1> QED
  BY <1>3, <1>5, <1>7 DEF Register

\* The handlers preserve the invariant.
LEMMA HandlersInv == Inv /\ Handlers => Inv'
<1> SUFFICES ASSUME Inv, Handlers PROVE Inv'
  OBVIOUS
<1> USE DEF Inv
<1>0. ASSUME NEW c \in {"waiting", "lost"} \cup Arrived
      PROVE /\ Code(c) \in Answers /\ Code(c).code = c
            /\ Code(c).op = 0 /\ Code(c).state = "none"
  BY CodeType
<1>1. CASE ServeQuery
  <2> USE <1>1 DEF ServeQuery, Pending, Answer, device, service, network
  <2>1. PICK a \in Answers :
          /\ call' = [call EXCEPT !.answer = a]
          /\ a.state \in Finished => a.op <= ended
          /\ a.op # 0 => a.state # "none"
          /\ call.kind = "operation" /\ a.code = "ok" => a.op # 0
          /\ call.kind = "refresh" /\ a.code = "ok" => a.after = ended
    <3>1. CASE call.kind = "login" \/ allowSession(call)
      BY <3>1, QueryType
    <3>2. CASE ~(call.kind = "login" \/ allowSession(call))
      BY <3>2, <1>0 DEF Arrived, Finished
    <3> QED BY <3>1, <3>2
  <2>2. TypeInv'
    BY <2>1 DEF TypeInv, Pages, Calls, Loops
  <2>3. OperationsInv'
    BY DEF OperationsInv
  <2>4. ForgetInv'
    BY <2>1 DEF TypeInv, Pages, Calls, Loops, ForgetInv, Queries
  <2>5. AnswerInv'
    BY <2>1 DEF TypeInv, Pages, Calls, Loops, AnswerInv, Queries, Starts
  <2>6. PageInv'
    BY <2>1 DEF TypeInv, Pages, Calls, Loops, PageInv, CompletionConfirmed
  <2> QED BY <2>2, <2>3, <2>4, <2>5, <2>6
<1>2. CASE ServeError
  <2> USE <1>2 DEF ServeError, Pending, Answer, device, service, network
  <2>1. PICK a \in Answers :
          /\ call' = [call EXCEPT !.answer = a]
          /\ a.state = "none" /\ a.op = 0 /\ a.code \in {"error", "auth"}
    BY <1>0 DEF Arrived
  <2>2. TypeInv'
    BY <2>1 DEF TypeInv, Pages, Calls, Loops
  <2>3. OperationsInv'
    BY DEF OperationsInv
  <2>4. ForgetInv'
    <3>1. Waiting # Code("lost")
      BY WaitingType, <1>0
    <3> QED BY <2>1, <3>1 DEF TypeInv, Pages, Calls, Loops, ForgetInv
  <2>5. AnswerInv'
    BY <2>1 DEF TypeInv, Pages, Calls, Loops, AnswerInv, Finished
  <2>6. PageInv'
    BY <2>1 DEF TypeInv, Pages, Calls, Loops, PageInv, CompletionConfirmed
  <2> QED BY <2>2, <2>3, <2>4, <2>5, <2>6
<1>3. CASE ServeLoop
  <2> USE <1>3 DEF ServeLoop, device, service, network
  <2>1. PICK a \in Answers : /\ loop' = [loop EXCEPT !.answer = a]
                             /\ a.code = "ok" => a.after = ended
    <3>1. CASE allowSession(loop)
      BY <3>1, SetupType
    <3>2. CASE ~allowSession(loop)
      BY <3>2, <1>0 DEF Arrived
    <3> QED BY <3>1, <3>2
  <2>2. TypeInv'
    BY <2>1 DEF TypeInv, Pages, Calls, Loops
  <2>3. OperationsInv' /\ ForgetInv' /\ AnswerInv'
    BY DEF OperationsInv, ForgetInv, AnswerInv
  <2>6. PageInv'
    BY <2>1 DEF TypeInv, Pages, Calls, Loops, PageInv, CompletionConfirmed
  <2> QED BY <2>2, <2>3, <2>6
<1>4. CASE ServeForget
  <2> USE <1>4 DEF ServeForget, Pending, Answer, service, network
  <2>1. Code("lost") \in Answers /\ call' = [call EXCEPT !.answer = Code("lost")]
    BY <1>0
  <2>2. /\ forget'.step = "check" /\ forget'.profile = call.profile
        /\ forget' \in [step : {"idle", "check", "recheck", "delete"},
                        profile : Managed \cup {None}, waited : BOOLEAN, raced : BOOLEAN]
    BY DEF NoForget, TypeInv, Pages, Calls, Loops
  <2>3. TypeInv'
    BY <2>1, <2>2 DEF TypeInv, Pages, Calls, Loops
  <2>4. OperationsInv'
    BY DEF OperationsInv
  <2>5. ForgetInv'
    <3>1. \A o \in Ids : ops[o] \notin Live
      BY DEF slotFree, order, Known
    <3> QED BY <2>1, <2>2, <3>1 DEF TypeInv, Pages, Calls, Loops, ForgetInv
  <2>6. AnswerInv' /\ PageInv'
    BY <1>0, <2>1 DEF TypeInv, Pages, Calls, Loops, AnswerInv, PageInv, CompletionConfirmed, Starts, Finished
  <2> QED BY <2>3, <2>4, <2>5, <2>6
<1>5. ASSUME NEW o \in Ids, ServeStart(o) PROVE Inv'
  <2> USE <1>5 DEF ServeStart, Pending, Answer, network
  <2>1. PICK a \in Answers, state \in {"accepted", "unsent"} :
          /\ Register(o, call.profile, state)
          /\ call' = [call EXCEPT !.answer = a]
          /\ a.state \in {"none", "live"}
          /\ a.op # 0 => a.state = "live"
          /\ a.code = "ok" => a.op # 0
    <3>1. o \in 0..MaxOps /\ o # 0
      BY BoundsAssumption DEF Ids
    <3>2. /\ [Code("ok") EXCEPT !.op = o, !.state = "live"] \in Answers
          /\ [Code("ok") EXCEPT !.op = o, !.state = "live"].state = "live"
          /\ [Code("ok") EXCEPT !.op = o, !.state = "live"].op = o
      <4>1. Code("ok") \in Answers
        BY <1>0 DEF Arrived
      <4> QED BY <3>1, <4>1 DEF Answers
    <3>3. /\ Code("lost") \in Answers /\ Code("lost").code = "lost"
          /\ Code("lost").op = 0 /\ Code("lost").state = "none"
      BY <1>0
    <3> QED BY <3>1, <3>2, <3>3
  <2>2. /\ ops' \in [Ids -> {"free", "gone"} \cup Known]
        /\ target' \in Managed \cup {None}
        /\ OperationsInv'
    BY <2>1, RegisterInv DEF TypeInv, Pages, Calls, Loops
  <2>3. TypeInv'
    BY <2>1, <2>2 DEF TypeInv, Pages, Calls, Loops
  <2>4. ForgetInv'
    BY <2>1 DEF TypeInv, Pages, Calls, Loops, ForgetInv, slotFree, Starts
  <2>5. AnswerInv'
    <3>1. call'.answer = a /\ call'.kind = call.kind
      BY <2>1 DEF TypeInv, Pages, Calls, Loops
    <3> QED BY <2>1, <3>1 DEF AnswerInv, Finished
  <2>6. PageInv'
    <3>1. call.kind \in Starts /\ call'.kind = call.kind
      BY <2>1 DEF TypeInv, Pages, Calls, Loops
    <3> QED BY <3>1 DEF PageInv, CompletionConfirmed, Starts
  <2> QED BY <2>2, <2>3, <2>4, <2>5, <2>6
<1>6. ASSUME NEW o \in Ids, BeginOrCancel(o) PROVE Inv'
  <2> USE <1>6 DEF BeginOrCancel, network, browser
  <2>1. TypeInv'
    BY DEF TypeInv, Pages, Calls, Loops, Known, Live
  <2>2. OperationsInv'
    BY DEF TypeInv, Pages, Calls, Loops, OperationsInv, Live, Finished
  <2>3. ForgetInv'
    BY DEF TypeInv, Pages, Calls, Loops, ForgetInv, Live
  <2>4. AnswerInv' /\ PageInv'
    BY DEF AnswerInv, PageInv, CompletionConfirmed
  <2> QED BY <2>1, <2>2, <2>3, <2>4
<1>7. ASSUME NEW o \in Ids, OperationEnds(o) PROVE Inv'
  <2> USE <1>7 DEF OperationEnds, browser
  <2>0. o \in 0..MaxOps /\ ended < o /\ ended \in Nat /\ o \in Nat
    BY BoundsAssumption DEF TypeInv, Pages, Calls, Loops, OperationsInv, Ids, Live
  <2>1. TypeInv'
    BY <2>0 DEF TypeInv, Pages, Calls, Loops, Known
  <2>2. OperationsInv'
    <3>1. \A p \in Ids : p \in Nat
      BY DEF Ids
    <3> QED BY <2>0, <3>1 DEF TypeInv, Pages, Calls, Loops, OperationsInv, Live, Finished
  <2>3. ForgetInv'
    BY DEF TypeInv, Pages, Calls, Loops, ForgetInv, Live
  <2>4. AnswerInv'
    <3>1. call.answer.op \in Nat
      BY BoundsAssumption DEF TypeInv, Pages, Calls, Loops, Answers
    <3> QED BY <2>0, <3>1 DEF AnswerInv
  <2>5. PageInv'
    <3>1. page.op \in Nat
      BY BoundsAssumption DEF TypeInv, Pages, Calls, Loops
    <3> QED BY <2>0, <3>1 DEF PageInv, CompletionConfirmed
  <2> QED BY <2>1, <2>2, <2>3, <2>4, <2>5
<1>8. ASSUME NEW code \in {"ok", "error"}, ForgetReturns(code), forget.step # "idle",
             stored' \subseteq Managed, active' \in Managed \cup {None},
             UNCHANGED <<service, appReady, cookie, page, loop>>
      PROVE Inv'
  <2> USE <1>8 DEF ForgetReturns, Answer, service
  <2>1. forget' = NoForget /\ NoForget.step = "idle" /\ ~NoForget.waited
    BY DEF NoForget
  <2>2. \/ UNCHANGED call
        \/ call' = [call EXCEPT !.answer = Code(code)] /\ call.kind = "forget"
    BY DEF ForgetInv
  <2>3. /\ Code(code) \in Answers /\ Code(code).op = 0 /\ Code(code).state = "none"
    BY <1>0 DEF Arrived
  <2>4. TypeInv'
    <3>1. forget' \in [step : {"idle", "check", "recheck", "delete"},
                       profile : Managed \cup {None}, waited : BOOLEAN, raced : BOOLEAN]
      BY DEF NoForget
    <3> QED BY <2>2, <2>3, <3>1 DEF TypeInv, Pages, Calls, Loops
  <2>5. OperationsInv' /\ ForgetInv'
    BY <2>1 DEF OperationsInv, ForgetInv
  <2>6. AnswerInv'
    BY <2>2, <2>3 DEF TypeInv, Pages, Calls, Loops, AnswerInv, Starts, Finished
  <2>7. PageInv'
    BY <2>2 DEF TypeInv, Pages, Calls, Loops, PageInv, CompletionConfirmed
  <2> QED BY <2>4, <2>5, <2>6, <2>7
<1>9. ASSUME NEW step \in {"recheck", "delete"}, forget' = [forget EXCEPT !.step = step],
             Inactive(forget.profile), forget.step # "idle", UNCHANGED call,
             UNCHANGED <<service, network, appReady, cookie, page, loop>>
      PROVE Inv'
  <2> USE <1>9 DEF service, network
  <2>1. TypeInv'
    BY DEF TypeInv, Pages, Calls, Loops
  <2>2. ForgetInv'
    BY DEF TypeInv, Pages, Calls, Loops, ForgetInv, Inactive
  <2>3. OperationsInv' /\ AnswerInv' /\ PageInv'
    BY DEF OperationsInv, AnswerInv, PageInv, CompletionConfirmed
  <2> QED BY <2>1, <2>2, <2>3
<1>10. CASE ForgetChecks
  BY <1>8, <1>9, <1>10 DEF ForgetChecks, TypeInv, Pages, Calls, Loops, network
<1>11. CASE ForgetRechecks
  BY <1>8, <1>9, <1>11 DEF ForgetRechecks, TypeInv, Pages, Calls, Loops, network
<1>12. CASE ForgetDeletes
  BY <1>8, <1>12 DEF ForgetDeletes, TypeInv, Pages, Calls, Loops, network
<1> QED
  BY <1>1, <1>2, <1>3, <1>4, <1>5, <1>6, <1>7, <1>10, <1>11, <1>12 DEF Handlers

\* The page has no request, or a fresh one.
LEMMA NoCallType ==
    NoCall \in Calls /\ NoCall.kind = "none" /\ NoCall.answer = Waiting
<1>1. 0 \in Tokens
  BY BoundsAssumption DEF Tokens
<1> QED
  BY <1>1, WaitingType DEF NoCall, Calls

LEMMA RequestType ==
    ASSUME TypeInv, NEW kind \in Queries \cup Mutations,
           NEW profile \in Managed \cup {None}, NEW jar \in Tokens
    PROVE /\ Request(kind, profile, jar) \in Calls
          /\ Request(kind, profile, jar).kind = kind
          /\ Request(kind, profile, jar).answer = Waiting
<1>1. 0 \in Tokens /\ page.csrf \in Tokens
  BY BoundsAssumption DEF Tokens, TypeInv, Pages
<1> QED
  BY <1>1, NoCallType DEF Request, Calls

LEMMA FreshAnswer == ASSUME call'.answer = Waiting PROVE AnswerInv'
  BY WaitingType DEF AnswerInv, Finished

\* frame makes the loop's request stale.
LEMMA FrameType ==
    ASSUME TypeInv, NEW p, Frame(p)
    PROVE page' = p /\ loop' \in Loops /\ ~loop'.current
  BY DEF Frame, TypeInv, Loops

LEMMA FreshPage ==
    ASSUME ~loop'.current, call'.kind # "refresh", page'.view # "complete"
    PROVE PageInv'
  BY DEF PageInv, CompletionConfirmed

\* One turn of monitorOperation.
LEMMA MonitorInv ==
    ASSUME TypeInv, NEW p \in Pages, NEW o \in 0..MaxOps,
           NEW state \in {"live"} \cup Finished, state \in Finished => o <= ended,
           monitorOperation(p, o, state), ended' = ended
    PROVE page' \in Pages /\ call' \in Calls /\ loop' \in Loops /\ AnswerInv' /\ PageInv'
<1> DEFINE q == [p EXCEPT !.op = o, !.listed = {}]
<1>0. q \in Pages /\ q.op = o
  BY DEF Pages
<1>1. CASE state = "succeeded"
  <2> DEFINE r == [refreshHandoff(q) EXCEPT !.view = "monitor"]
  <2>1. Frame(r) /\ call' = Request("refresh", None, cookie)
    BY <1>1 DEF monitorOperation, Send
  <2>2. r \in Pages /\ r.view = "monitor" /\ ~r.ready /\ r.op = o
    <3>1. 0 \in 0..MaxOps
      BY BoundsAssumption
    <3> HIDE DEF q
    <3> QED BY <1>0, <3>1 DEF refreshHandoff, Pages, Views
  <2>3. /\ call' \in Calls /\ call'.kind = "refresh" /\ call'.answer = Waiting
    BY <2>1, RequestType DEF TypeInv, Queries
  <2> HIDE DEF r
  <2>4. page' = r /\ loop' \in Loops /\ ~loop'.current
    BY <2>1, FrameType
  <2>5. PageInv'
    BY <1>1, <2>2, <2>3, <2>4, WaitingType DEF PageInv, CompletionConfirmed, Finished
  <2> QED BY <2>2, <2>3, <2>4, <2>5, FreshAnswer
<1>2. ASSUME NEW v \in {"failed", "monitor"}, Frame([q EXCEPT !.view = v]), call' = NoCall
      PROVE page' \in Pages /\ call' \in Calls /\ loop' \in Loops /\ AnswerInv' /\ PageInv'
  <2> DEFINE r == [q EXCEPT !.view = v]
  <2>1. r \in Pages /\ r.view = v
    <3> HIDE DEF q
    <3> QED BY <1>0 DEF Pages, Views
  <2> HIDE DEF r
  <2>2. page' = r /\ loop' \in Loops /\ ~loop'.current
    BY <1>2, FrameType DEF r
  <2> QED
    BY <1>2, <2>1, <2>2, NoCallType, FreshAnswer, FreshPage
<1> QED
  BY <1>1, <1>2 DEF monitorOperation, Finished

LEMMA LoginInv ==
    ASSUME TypeInv, showLogin
    PROVE page' \in Pages /\ call' \in Calls /\ loop' \in Loops /\ AnswerInv' /\ PageInv'
<1> DEFINE r == [NewPage EXCEPT !.view = "login"]
<1>1. r \in Pages /\ r.view = "login"
  <2>1. 0 \in Tokens /\ 0 \in 0..MaxOps
    BY BoundsAssumption DEF Tokens
  <2> QED BY <2>1 DEF NewPage, Pages, Views
<1> HIDE DEF r
<1>2. page' = r /\ loop' \in Loops /\ ~loop'.current /\ call' = NoCall
  BY FrameType DEF showLogin, r
<1> QED
  BY <1>1, <1>2, NoCallType, FreshAnswer, FreshPage

LEMMA KnownInv ==
    ASSUME TypeInv, showKnownNetworks
    PROVE page' \in Pages /\ call' \in Calls /\ loop' \in Loops /\ AnswerInv' /\ PageInv'
<1> DEFINE r == [page EXCEPT !.view = "known", !.op = 0, !.listed = {}]
<1>1. r \in Pages /\ r.view = "known"
  <2>1. 0 \in 0..MaxOps
    BY BoundsAssumption
  <2> QED BY <2>1 DEF TypeInv, Pages, Views
<1> HIDE DEF r
<1>2. page' = r /\ loop' \in Loops /\ ~loop'.current
  BY FrameType DEF showKnownNetworks, r
<1>3. call' \in Calls /\ call'.kind = "known" /\ call'.answer = Waiting
  <2>1. call' = Request("known", None, cookie) /\ cookie \in Tokens
    BY DEF showKnownNetworks, Send, TypeInv
  <2> QED BY <2>1, RequestType DEF Queries
<1> QED
  BY <1>1, <1>2, <1>3, FreshAnswer, FreshPage

\* What the page does with an answer, or with the loss of it.
LEMMA ContinueInv ==
    ASSUME Inv, call.kind # "none", NEW a \in Answers, a.code \in Arrived,
           a = call.answer \/ a = Code("error"), Continue(a), ended' = ended
    PROVE page' \in Pages /\ call' \in Calls /\ loop' \in Loops /\ AnswerInv' /\ PageInv'
<1> USE DEF Inv
<1> DEFINE Goal == /\ page' \in Pages /\ call' \in Calls /\ loop' \in Loops
                   /\ AnswerInv' /\ PageInv'
<1>0. /\ Code("error").code = "error" /\ Code("error").op = 0
      /\ Code("error").state = "none"
  BY CodeType DEF Arrived
<1>1. /\ a.state \in Finished => a.op <= ended
      /\ a.op # 0 => a.state \in {"live"} \cup Finished
      /\ call.kind \in Starts \cup {"operation"} /\ a.code = "ok" => a.op # 0
      /\ call.kind = "refresh" /\ a.code = "ok" => page.op <= a.after
  BY <1>0 DEF AnswerInv, PageInv, Answers, Finished
<1>2. a.op \in 0..MaxOps /\ a.after \in 0..MaxOps /\ a.token \in Tokens
      /\ a.ready \in BOOLEAN /\ a.listed \subseteq Managed
  BY DEF Answers
<1>3. keepSetup(page, a) \in Pages
  BY <1>2 DEF TypeInv, Pages, keepSetup
<1>4. ASSUME NEW p \in Pages, p.view # "complete", Frame(p), call' = NoCall
      PROVE Goal
  BY <1>4, FrameType, NoCallType, FreshAnswer, FreshPage
<1>5. ASSUME Stay PROVE Goal
  <2>1. call' = NoCall /\ page' = page /\ loop' = loop
    BY <1>5 DEF Stay
  <2>2. PageInv'
    BY <2>1, NoCallType DEF PageInv, CompletionConfirmed
  <2> QED BY <2>1, <2>2, NoCallType, FreshAnswer DEF TypeInv
<1>6. CASE a.code = "auth"
  <2>1. showLogin
    BY <1>6 DEF Continue, Starts
  <2> QED BY <2>1, LoginInv
<1>7. CASE a.code # "auth" /\ call.kind = "bootstrap"
  <2>1. CASE a.code # "ok"
    <3> DEFINE r == [page EXCEPT !.view = "error"]
    <3>1. r \in Pages /\ r.view # "complete"
      BY DEF TypeInv, Pages, Views
    <3>2. Frame(r) /\ call' = NoCall
      BY <1>7, <2>1 DEF Continue, Starts
    <3> HIDE DEF r
    <3> QED BY <3>1, <3>2, <1>4
  <2>2. CASE a.code = "ok" /\ a.op # 0
    <3>1. monitorOperation(keepSetup(page, a), a.op, a.state)
      BY <1>7, <2>2 DEF Continue, Starts
    <3> QED BY <2>2, <3>1, <1>1, <1>2, <1>3, MonitorInv
  <2>3. CASE a.code = "ok" /\ a.op = 0
    <3> DEFINE r == [keepSetup(page, a) EXCEPT !.view = "choose"]
    <3>1. r \in Pages /\ r.view # "complete"
      BY <1>3 DEF Pages, Views
    <3>2. Frame(r) /\ call' = NoCall
      BY <1>7, <2>3 DEF Continue, Starts
    <3> HIDE DEF r
    <3> QED BY <3>1, <3>2, <1>4
  <2> QED BY <2>1, <2>2, <2>3
<1>8. CASE a.code # "auth" /\ call.kind = "refresh"
  <2> DEFINE q == IF a.code = "ok" THEN keepSetup(page, a) ELSE page
             r == [q EXCEPT !.view = "complete"]
  <2>1. Frame(r) /\ call' = NoCall
    BY <1>8 DEF Continue, Starts, showComplete
  <2>2. q \in Pages /\ q.op = page.op
    BY <1>3 DEF TypeInv, Pages, keepSetup
  <2>3. q.ready => q.op <= q.after
    BY <1>1, <1>8 DEF TypeInv, Pages, keepSetup, PageInv
  <2>4. r \in Pages /\ r.op = q.op /\ r.ready = q.ready /\ r.after = q.after
    <3> HIDE DEF q
    <3> QED BY <2>2 DEF Pages, Views
  <2>5. page.op <= ended
    BY <1>8 DEF PageInv
  <2> HIDE DEF q, r
  <2>6. page' = r /\ loop' \in Loops /\ ~loop'.current
    BY <2>1, FrameType
  <2>7. PageInv'
    BY <2>1, <2>2, <2>3, <2>4, <2>5, <2>6, NoCallType DEF PageInv, CompletionConfirmed
  <2> QED BY <2>1, <2>4, <2>6, <2>7, NoCallType, FreshAnswer
<1>9. CASE a.code # "auth" /\ call.kind = "login"
  <2>1. CASE a.code = "ok"
    <3>1. Frame(NewPage) /\ call' = Request("bootstrap", None, a.token)
      BY <1>9, <2>1 DEF Continue, Starts
    <3>2. NewPage \in Pages /\ NewPage.view = "start"
      <4>1. 0 \in Tokens /\ 0 \in 0..MaxOps
        BY BoundsAssumption DEF Tokens
      <4> QED BY <4>1 DEF NewPage, Pages, Views
    <3>3. call' \in Calls /\ call'.kind = "bootstrap" /\ call'.answer = Waiting
      BY <3>1, <1>2, RequestType DEF Queries
    <3> QED BY <3>1, <3>2, <3>3, FrameType, FreshAnswer, FreshPage
  <2>2. CASE a.code # "ok"
    BY <1>9, <2>2, <1>5 DEF Continue, Starts
  <2> QED BY <2>1, <2>2
<1>10. CASE a.code # "auth" /\ call.kind = "known"
  <2>1. page' = [page EXCEPT !.listed = a.listed] /\ call' = NoCall /\ loop' = loop
    BY <1>10 DEF Continue, Starts
  <2>2. /\ page' \in Pages /\ page'.view = page.view /\ page'.op = page.op
        /\ page'.ready = page.ready /\ page'.after = page.after
    BY <2>1, <1>2 DEF TypeInv, Pages
  <2>3. PageInv'
    BY <2>1, <2>2, NoCallType DEF PageInv, CompletionConfirmed
  <2> QED BY <2>1, <2>2, <2>3, NoCallType, FreshAnswer DEF TypeInv
<1>11. CASE a.code # "auth" /\ call.kind = "forget"
  <2>1. CASE a.code = "ok"
    BY <1>11, <2>1, KnownInv DEF Continue, Starts
  <2>2. CASE a.code # "ok"
    BY <1>11, <2>2, <1>5 DEF Continue, Starts
  <2> QED BY <2>1, <2>2
<1>12. CASE a.code # "auth" /\ call.kind \in Starts \cup {"operation"}
  <2>1. CASE a.code = "ok"
    <3>1. monitorOperation(page, a.op, a.state)
      BY <1>12, <2>1 DEF Continue, Starts
    <3> QED BY <1>12, <2>1, <3>1, <1>1, <1>2, MonitorInv DEF TypeInv
  <2>2. CASE a.code # "ok"
    BY <1>12, <2>2, <1>5 DEF Continue, Starts
  <2> QED BY <2>1, <2>2
<1> QED
  BY <1>6, <1>7, <1>8, <1>9, <1>10, <1>11, <1>12
     DEF TypeInv, Calls, Queries, Mutations

\* The page's steps preserve the invariant.
LEMMA BrowserInv == Inv /\ Browser => Inv'
<1> SUFFICES ASSUME Inv, Browser PROVE Inv'
  OBVIOUS
<1> USE DEF Inv
\* A forget that has lost its client, or whose client has its answer.
<1>1. ASSUME Abandon, UNCHANGED <<service, network, appReady>>
      PROVE /\ forget' \in [step : {"idle", "check", "recheck", "delete"},
                            profile : Managed \cup {None}, waited : BOOLEAN,
                            raced : BOOLEAN]
            /\ OperationsInv' /\ ForgetInv'
  <2> USE <1>1 DEF Abandon, service, network
  <2>1. /\ forget'.step = forget.step /\ forget'.profile = forget.profile
        /\ ~forget'.waited /\ forget'.raced = forget.raced
        /\ forget' \in [step : {"idle", "check", "recheck", "delete"},
                        profile : Managed \cup {None}, waited : BOOLEAN, raced : BOOLEAN]
    BY DEF TypeInv
  <2> QED BY <2>1 DEF OperationsInv, ForgetInv
<1>2. ASSUME UNCHANGED device, ~forget.waited
      PROVE OperationsInv' /\ ForgetInv'
  BY <1>2 DEF device, service, network, OperationsInv, ForgetInv
<1>3. ASSUME call.kind # "forget" \/ call.answer # Code("lost") PROVE ~forget.waited
  BY <1>3 DEF ForgetInv
<1>4. ASSUME UNCHANGED device, cookie' \in Tokens,
             page' \in Pages, call' \in Calls, loop' \in Loops
      PROVE TypeInv'
  BY <1>4 DEF TypeInv, device, service, network
<1>5. CASE Receive
  <2> USE <1>5 DEF Receive
  <2>1. call.answer \in Answers /\ cookie' \in Tokens
    BY DEF TypeInv, Calls, Answers
  <2>2. ended' = ended
    BY DEF device, service
  <2>3. page' \in Pages /\ call' \in Calls /\ loop' \in Loops /\ AnswerInv' /\ PageInv'
    BY <2>1, <2>2, ContinueInv
  <2>4. call.answer # Code("lost")
    BY CodeType DEF Arrived
  <2> QED BY <1>2, <1>3, <1>4, <2>1, <2>3, <2>4
<1>6. CASE Timeout
  <2> USE <1>6 DEF Timeout
  <2>1. Code("error") \in Answers /\ Code("error").code \in Arrived
    BY CodeType DEF Arrived
  <2>2. ended' = ended
    BY DEF service
  <2>3. page' \in Pages /\ call' \in Calls /\ loop' \in Loops /\ AnswerInv' /\ PageInv'
    BY <2>1, <2>2, ContinueInv
  <2>4. TypeInv'
    BY <1>1, <2>3 DEF TypeInv, service, network
  <2> QED BY <1>1, <2>3, <2>4
<1>7. CASE Open
  <2> USE <1>7 DEF Open
  <2>1. call' \in Calls /\ call'.kind = "bootstrap" /\ call'.answer = Waiting
    <3>1. call' = Request("bootstrap", None, cookie) /\ cookie \in Tokens
      BY DEF Send, TypeInv
    <3> QED BY <3>1, RequestType DEF Queries
  <2>2. page' \in Pages /\ page'.view = "start" /\ loop' \in Loops /\ ~loop'.current
    <3>1. 0 \in Tokens /\ 0 \in 0..MaxOps /\ Waiting \in Answers
      BY BoundsAssumption, WaitingType DEF Tokens
    <3> QED BY <3>1 DEF NewPage, Pages, Views, NoLoop, Loops
  <2>3. TypeInv'
    BY <1>1, <2>1, <2>2 DEF TypeInv, service, network
  <2> QED BY <1>1, <2>1, <2>2, <2>3, FreshAnswer, FreshPage
\* A new request in an unchanged view.
<1>8. ASSUME NEW kind \in (Queries \cup Mutations) \ {"refresh"},
             NEW profile \in Managed \cup {None},
             idle, call' = Request(kind, profile, cookie),
             UNCHANGED <<device, cookie, page, loop>>
      PROVE Inv'
  <2> USE <1>8
  <2>1. call' \in Calls /\ call'.kind = kind /\ call'.answer = Waiting
    BY RequestType DEF TypeInv
  <2>2. TypeInv'
    BY <1>4, <2>1 DEF TypeInv
  <2>3. OperationsInv' /\ ForgetInv'
    BY <1>2, <1>3, NoCallType DEF idle
  <2>4. PageInv'
    BY <2>1 DEF PageInv, CompletionConfirmed, device, service
  <2> QED BY <2>1, <2>2, <2>3, <2>4, FreshAnswer
<1>9. CASE Login
  BY <1>8, <1>9 DEF Login, Send, Queries
<1>10. CASE Submit
  BY <1>8, <1>10 DEF Submit, Send, Mutations, Starts
<1>11. CASE Poll
  BY <1>8, <1>11 DEF Poll, Send, Queries
<1>12. ASSUME NEW u \in Managed, NEW kind \in {"connect", "forget"}, ConfirmKnown(kind, u)
       PROVE Inv'
  BY <1>8, <1>12 DEF ConfirmKnown, Mutations, Starts
<1>13. CASE ManageKnownNetworks
  <2> USE <1>13 DEF ManageKnownNetworks
  <2>1. page' \in Pages /\ call' \in Calls /\ loop' \in Loops /\ AnswerInv' /\ PageInv'
    BY KnownInv
  <2>2. OperationsInv' /\ ForgetInv'
    BY <1>2, <1>3, NoCallType DEF idle
  <2> QED BY <1>4, <2>1, <2>2 DEF TypeInv
<1>14. CASE showModeChoice
  <2> USE <1>14 DEF showModeChoice
  <2> DEFINE r == [page EXCEPT !.view = "choose", !.op = 0, !.listed = {}]
  <2>1. r \in Pages /\ r.view = "choose"
    <3>1. 0 \in 0..MaxOps
      BY BoundsAssumption
    <3> QED BY <3>1 DEF TypeInv, Pages, Views
  <2>2. Frame(r)
    OBVIOUS
  <2> HIDE DEF r
  <2>3. page' = r /\ loop' \in Loops /\ ~loop'.current
    BY <2>2, FrameType
  <2>4. call' = NoCall /\ UNCHANGED <<device, cookie>>
    BY DEF idle
  <2>5. PageInv' /\ AnswerInv'
    BY <2>1, <2>3, <2>4, NoCallType, FreshAnswer, FreshPage
  <2>6. OperationsInv' /\ ForgetInv'
    BY <1>2, <1>3, <2>4, NoCallType DEF idle
  <2>7. TypeInv'
    BY <1>4, <2>1, <2>3, <2>4, NoCallType DEF TypeInv
  <2> QED BY <2>5, <2>6, <2>7
<1>15. CASE WaitForApplication
  <2> USE <1>15 DEF WaitForApplication
  <2>1. loop' \in Loops /\ loop'.current /\ loop'.answer = Waiting
    BY WaitingType DEF NoLoop, Loops, TypeInv
  <2>2. TypeInv'
    BY <1>4, <2>1 DEF TypeInv
  <2>3. OperationsInv' /\ ForgetInv' /\ AnswerInv'
    BY DEF device, service, network, OperationsInv, ForgetInv, AnswerInv
  <2>4. PageInv'
    BY <2>1, WaitingType DEF PageInv, CompletionConfirmed, device, service
  <2> QED BY <2>2, <2>3, <2>4
\* The loop's request has ended and the view stays or changes.
<1>16. NoLoop \in Loops /\ ~NoLoop.current
  <2>1. 0 \in Tokens /\ Waiting \in Answers
    BY BoundsAssumption, WaitingType DEF Tokens
  <2> QED BY <2>1 DEF NoLoop, Loops
<1>17. ASSUME loop' = NoLoop, UNCHANGED <<device, cookie, call>>, page' \in Pages, PageInv'
       PROVE Inv'
  <2>1. TypeInv'
    BY <1>4, <1>16, <1>17 DEF TypeInv
  <2>2. OperationsInv' /\ ForgetInv' /\ AnswerInv'
    BY <1>17 DEF device, service, network, OperationsInv, ForgetInv, AnswerInv
  <2> QED BY <1>17, <2>1, <2>2
<1>18. CASE ReceiveWait
  <2> USE <1>18 DEF ReceiveWait
  <2> DEFINE a == loop.answer
  <2>0. /\ a \in Answers /\ a.op \in 0..MaxOps /\ a.after \in 0..MaxOps
        /\ a.token \in Tokens /\ a.ready \in BOOLEAN
        /\ ended' = ended /\ UNCHANGED <<device, cookie, call>> /\ ~loop'.current
    BY <1>16 DEF TypeInv, Loops, Answers, device, service
  <2>1. CASE loop.current /\ a.code = "ok"
    <3>1. page' = keepSetup(page, a)
      BY <2>1
    <3>2. page' \in Pages /\ page'.after = a.after /\ page'.op = page.op
                          /\ page'.view = page.view
      BY <2>0, <3>1 DEF TypeInv, Pages, keepSetup
    <3>3. PageInv'
      BY <2>0, <2>1, <3>2 DEF PageInv, CompletionConfirmed
    <3> QED BY <1>17, <2>0, <3>2, <3>3
  <2>2. CASE loop.current /\ a.code # "ok"
    <3>1. page' = [NewPage EXCEPT !.view = "login"]
      BY <2>2
    <3>2. page' \in Pages /\ page'.view = "login"
      <4>1. 0 \in Tokens /\ 0 \in 0..MaxOps
        BY BoundsAssumption DEF Tokens
      <4> QED BY <3>1, <4>1 DEF NewPage, Pages, Views
    <3>3. call'.kind # "refresh"
      BY <2>0, <2>2 DEF PageInv
    <3> QED BY <1>17, <2>0, <3>2, <3>3, FreshPage
  <2>3. CASE ~loop.current
    <3>1. /\ page' \in Pages /\ page'.after = page.after /\ page'.op = page.op
          /\ page'.view = page.view /\ page'.ready = page.ready
      BY <2>0, <2>3 DEF TypeInv, Pages
    <3>2. PageInv'
      BY <2>0, <3>1 DEF PageInv, CompletionConfirmed
    <3> QED BY <1>17, <2>0, <3>1, <3>2
  <2> QED BY <2>1, <2>2, <2>3
<1>19. CASE WaitFails
  <2>1. PageInv'
    BY <1>16, <1>19 DEF WaitFails, PageInv, CompletionConfirmed, device, service
  <2> QED BY <1>17, <1>19, <2>1 DEF WaitFails, TypeInv
<1> QED
  BY <1>5, <1>6, <1>7, <1>9, <1>10, <1>11, <1>12, <1>13, <1>14, <1>15, <1>18, <1>19
     DEF Browser

\* The steps of other sessions, NetworkManager, the application and the restart of
\* the service preserve the invariant.
LEMMA EnvironmentInv == Inv /\ Environment => Inv'
<1> SUFFICES ASSUME Inv, Environment PROVE Inv'
  OBVIOUS
<1> USE DEF Inv, network, service, device, browser
<1>1. ASSUME NEW o \in Ids, StartElsewhere(o) PROVE Inv'
  <2> USE <1>1 DEF StartElsewhere
  <2>1. PICK profile \in KnownNetworks \cup {None}, state \in {"accepted", "unsent"} :
          Register(o, profile, state)
    OBVIOUS
  <2>2. profile \in Managed \cup {None}
    BY DEF TypeInv, KnownNetworks
  <2>3. /\ ops' \in [Ids -> {"free", "gone"} \cup Known]
        /\ target' \in Managed \cup {None}
        /\ OperationsInv'
    BY <2>1, <2>2, RegisterInv
  <2>4. TypeInv'
    BY <2>3 DEF TypeInv
  <2>5. ForgetInv'
    BY DEF ForgetInv, slotFree
  <2>6. AnswerInv' /\ PageInv'
    BY DEF AnswerInv, PageInv, CompletionConfirmed
  <2> QED BY <2>3, <2>4, <2>5, <2>6
<1>2. CASE ForgetElsewhere
  <2> USE <1>2 DEF ForgetElsewhere
  <2>1. /\ forget'.step = "check" /\ ~forget'.waited
        /\ forget' \in [step : {"idle", "check", "recheck", "delete"},
                        profile : Managed \cup {None}, waited : BOOLEAN, raced : BOOLEAN]
    BY DEF NoForget
  <2>2. \A o \in Ids : ops[o] \notin Live
    BY DEF slotFree, order, Known
  <2>3. TypeInv'
    BY <2>1 DEF TypeInv
  <2>4. OperationsInv' /\ ForgetInv' /\ AnswerInv' /\ PageInv'
    BY <2>1, <2>2 DEF OperationsInv, ForgetInv, AnswerInv, PageInv, CompletionConfirmed
  <2> QED BY <2>3, <2>4
<1>3. CASE LoginElsewhere
  <2>1. TypeInv'
    BY <1>3 DEF LoginElsewhere, TypeInv
  <2>2. OperationsInv' /\ ForgetInv' /\ AnswerInv' /\ PageInv'
    BY <1>3 DEF LoginElsewhere, OperationsInv, ForgetInv, AnswerInv, PageInv,
       CompletionConfirmed
  <2> QED BY <2>1, <2>2
<1>4. CASE ConnectionChanges
  <2> USE <1>4 DEF ConnectionChanges
  <2>1. /\ forget'.step = forget.step /\ forget'.profile = forget.profile
        /\ forget'.waited = forget.waited
        /\ forget'.raced = (forget.raced
                \/ (forget.step = "delete" /\ active' = forget.profile))
        /\ forget' \in [step : {"idle", "check", "recheck", "delete"},
                        profile : Managed \cup {None}, waited : BOOLEAN, raced : BOOLEAN]
    BY DEF TypeInv
  <2>2. TypeInv'
    BY <2>1 DEF TypeInv
  <2>3. ForgetInv'
    BY <2>1 DEF ForgetInv
  <2>4. OperationsInv' /\ AnswerInv' /\ PageInv'
    BY DEF OperationsInv, AnswerInv, PageInv, CompletionConfirmed
  <2> QED BY <2>2, <2>3, <2>4
<1>5. CASE ApplicationChanges
  <2>1. TypeInv'
    BY <1>5 DEF ApplicationChanges, TypeInv
  <2>2. OperationsInv' /\ ForgetInv' /\ AnswerInv' /\ PageInv'
    BY <1>5 DEF ApplicationChanges, OperationsInv, ForgetInv, AnswerInv, PageInv,
       CompletionConfirmed
  <2> QED BY <2>1, <2>2
<1>6. CASE Restart
  <2> USE <1>6 DEF Restart
  <2>1. epoch' \in Tokens \ {0}
    BY BoundsAssumption DEF TypeInv, Tokens
  <2>2. /\ forget'.step = "idle" /\ ~forget'.waited
        /\ forget' \in [step : {"idle", "check", "recheck", "delete"},
                        profile : Managed \cup {None}, waited : BOOLEAN, raced : BOOLEAN]
    BY DEF NoForget
  <2>3. /\ ops' \in [Ids -> {"free", "gone"} \cup Known]
        /\ \A o \in Ids : /\ ops'[o] = "free" <=> ops[o] = "free"
                          /\ ops'[o] \in {"free", "gone"}
    OBVIOUS
  <2>4. TypeInv'
    BY <2>1, <2>2, <2>3 DEF TypeInv
  <2>5. OperationsInv'
    BY <2>3 DEF OperationsInv, Live, Finished
  <2>6. ForgetInv' /\ AnswerInv' /\ PageInv'
    BY <2>2 DEF ForgetInv, AnswerInv, PageInv, CompletionConfirmed
  <2> QED BY <2>4, <2>5, <2>6
<1> QED
  BY <1>1, <1>2, <1>3, <1>4, <1>5, <1>6 DEF Environment

\* Every step preserves the invariant.
THEOREM Invariance == Spec => []Inv
<1>1. Inv /\ [Next]_vars => Inv'
  <2>1. ASSUME Inv, UNCHANGED vars PROVE Inv'
    BY <2>1 DEF vars, device, service, network, browser, Inv, TypeInv, OperationsInv,
       ForgetInv, AnswerInv, PageInv, CompletionConfirmed
  <2> QED
    BY <2>1, HandlersInv, BrowserInv, EnvironmentInv DEF Next
<1> QED
  BY <1>1, InitInv, PTL DEF Spec

-----------------------------------------------------------------------------
(* What the invariant says of the portal. *)

\* The type invariant: among the rest, one change of the network at a time.
THEOREM TypeCorrect == Spec => []TypeOK
<1>1. Inv => TypeOK
  <2> SUFFICES ASSUME Inv PROVE TypeOK
    OBVIOUS
  <2> DEFINE S == {o \in Ids : ops[o] \in Live}
  <2>1. Cardinality(S) <= 1
    <3>1. CASE S = {}
      BY <3>1, FS_EmptySet
    <3>2. ASSUME NEW o \in S PROVE Cardinality(S) <= 1
      <4>1. S = {o}
        BY DEF Inv, OperationsInv
      <4> HIDE DEF S
      <4> QED BY <4>1, FS_Singleton
    <3> QED BY <3>1, <3>2
  <2> QED
    BY <2>1 DEF Inv, TypeInv, Pages, Calls, Loops, ForgetInv, PageInv, TypeOK
<1> QED
  BY <1>1, Invariance, PTL

\* main.ts, monitorOperation, refreshHandoff and waitForApplication: a completed
\* setup links to the application only when it was found ready after the end of
\* the operation, whichever answers are lost, late or stale.
THEOREM CompletionIsConfirmed == Spec => []CompletionConfirmed
<1>1. Inv => CompletionConfirmed
  BY DEF Inv, PageInv
<1> QED
  BY <1>1, Invariance, PTL

\* ForgetKnownNetwork and DeleteOwnedInfrastructureProfile: a forget deletes the
\* profile in use only when NetworkManager activated it after the last look.
THEOREM ForgetSparesTheActive == Spec => ForgetSparesActive
<1>1. Inv /\ [Next]_vars => [\A p \in stored \ stored' : p = active => forget.raced]_vars
  <2> SUFFICES ASSUME Inv, Next, NEW p \in stored \ stored', p = active
      PROVE forget.raced
    BY DEF vars, device, network
  <2>1. CASE ForgetDeletes
    BY <2>1 DEF ForgetDeletes, Inv, ForgetInv, network
  <2>2. ASSUME ~ForgetDeletes PROVE stored' = stored
    <3> USE DEF device, network, browser
    <3>1. ASSUME Handlers PROVE stored' = stored
      BY <2>2, <3>1 DEF Handlers, ServeQuery, ServeError, ServeLoop, ServeForget, ServeStart,
         BeginOrCancel, OperationEnds, ForgetChecks, ForgetRechecks
    <3>2. ASSUME Browser PROVE stored' = stored
      BY <3>2 DEF Browser, Open, Login, ManageKnownNetworks, showModeChoice, Submit,
         ConfirmKnown, Poll, Receive, Timeout, WaitForApplication, ReceiveWait, WaitFails
    <3>3. ASSUME Environment PROVE stored' = stored
      BY <3>3 DEF Environment, StartElsewhere, ForgetElsewhere, LoginElsewhere,
         ConnectionChanges, ApplicationChanges, Restart
    <3> QED BY <3>1, <3>2, <3>3 DEF Next
  <2> QED BY <2>1, <2>2
<1> QED
  BY <1>1, Invariance, PTL DEF Spec, ForgetSparesActive

-----------------------------------------------------------------------------
(* The part of the setup service that is modelled here implements the slot. *)

SlotStep == [Slot!Next]_<<slotHolders, slotWorking, FALSE>>

LEMMA SlotKept ==
    ASSUME ops' = ops, forget'.step = forget.step
    PROVE SlotStep
<1>1. slotHolders' = slotHolders /\ slotWorking' = slotWorking
  BY DEF slotHolders, slotWorking
<1> QED BY <1>1 DEF SlotStep

\* A free slot has no holder, and one that is held has the one.
LEMMA SlotOfOperation ==
    ASSUME Inv
    PROVE /\ \A o \in Ids : ops[o] \in Live => slotHolders = {o}
          /\ \A o \in Ids : ops[o] = "running" => slotWorking = {o}
          /\ (\A o \in Ids : ops[o] # "running") => slotWorking = {}
<1>1. \A o \in Ids : ops[o] \in Live => slotHolders = {o}
  BY DEF Inv, OperationsInv, ForgetInv, slotHolders
<1>2. \A o \in Ids : ops[o] = "running" => slotWorking = {o}
  BY DEF Inv, OperationsInv, slotWorking, Live
<1>3. (\A o \in Ids : ops[o] # "running") => slotWorking = {}
  BY DEF slotWorking
<1> QED BY <1>1, <1>2, <1>3

LEMMA SlotOfForget ==
    ASSUME Inv, forget.step # "idle"
    PROVE slotHolders = {0} /\ slotWorking = {}
  BY DEF Inv, ForgetInv, slotHolders, slotWorking, Live

LEMMA SlotIsFree ==
    ASSUME slotFree
    PROVE slotHolders = {} /\ slotWorking = {}
<1>1. \A o \in Ids : ops[o] \notin Live
  BY DEF slotFree, order, Known
<1> QED BY <1>1 DEF slotFree, slotHolders, slotWorking, Live

\* An operation or a forget is admitted.
LEMMA Registered ==
    ASSUME Inv, NEW o \in Ids, NEW profile, NEW state \in {"accepted", "unsent"}, slotFree,
           Register(o, profile, state), forget' = forget
    PROVE SlotStep
<1>1. slotHolders = {} /\ slotWorking = {}
  BY SlotIsFree
<1>2. \A p \in Ids : ops[p] \notin Live
  BY DEF slotFree, order, Known
<1>3. /\ ops'[o] = state
      /\ \A p \in Ids \ {o} : ops'[p] \in {"gone", ops[p]}
  BY DEF Register
<1>4. slotHolders' = {o} /\ slotWorking' = {}
  BY <1>2, <1>3 DEF slotFree, slotHolders, slotWorking, Live
<1> QED BY <1>1, <1>4 DEF SlotStep, Slot!Next, Slot!Reserve

LEMMA Admitted ==
    ASSUME slotFree, ops' = ops, forget'.step = "check"
    PROVE SlotStep
<1>1. slotHolders = {} /\ slotWorking = {}
  BY SlotIsFree
<1>2. \A o \in Ids : ops[o] \notin Live
  BY DEF slotFree, order, Known
<1>3. slotHolders' = {0} /\ slotWorking' = {}
  BY <1>2 DEF slotHolders, slotWorking, Live
<1> QED BY <1>1, <1>3 DEF SlotStep, Slot!Next, Slot!Reserve

LEMMA HandlersSlot ==
    ASSUME Inv, Handlers
    PROVE SlotStep
<1>1. CASE ServeQuery \/ ServeError \/ ServeLoop
  BY <1>1, SlotKept DEF ServeQuery, ServeError, ServeLoop, device, service
<1>2. CASE ServeForget
  <2>1. slotFree /\ ops' = ops /\ forget'.step = "check"
    BY <1>2 DEF ServeForget, NoForget, service
  <2> QED BY <2>1, Admitted
<1>3. ASSUME NEW o \in Ids, ServeStart(o)
      PROVE SlotStep
  <2>1. /\ slotFree /\ forget' = forget
        /\ \E state \in {"accepted", "unsent"} : Register(o, call.profile, state)
    BY <1>3 DEF ServeStart
  <2> QED BY <2>1, Registered
<1>4. ASSUME NEW o \in Ids, BeginOrCancel(o)
      PROVE SlotStep
  <2>1. ops[o] \in Live /\ ops[o] # "running" /\ forget' = forget
    BY <1>4 DEF BeginOrCancel, Live
  <2>2. slotHolders = {o} /\ slotWorking = {}
    BY <2>1, SlotOfOperation DEF Inv, OperationsInv, Live
  <2>3. forget.step = "idle" /\ \A p \in Ids \ {o} : ops[p] \notin Live
    BY <2>1 DEF Inv, ForgetInv, OperationsInv
  <2>4. PICK state \in {"running", "gone"} : ops' = [ops EXCEPT ![o] = state]
    BY <1>4 DEF BeginOrCancel
  <2>5. ops'[o] = state /\ \A p \in Ids \ {o} : ops'[p] = ops[p]
    BY <2>4 DEF Inv, TypeInv
  <2>6. CASE state = "running"
    <3>1. slotHolders' = {o} /\ slotWorking' = {o}
      BY <2>1, <2>3, <2>5, <2>6 DEF slotHolders, slotWorking, Live
    <3> QED BY <2>2, <3>1 DEF SlotStep, Slot!Next, Slot!Begin
  <2>7. CASE state = "gone"
    <3>1. slotHolders' = {} /\ slotWorking' = {}
      BY <2>1, <2>3, <2>5, <2>7 DEF slotHolders, slotWorking, Live
    <3> QED BY <2>2, <3>1 DEF SlotStep, Slot!Next, Slot!Release
  <2> QED BY <2>6, <2>7
<1>5. ASSUME NEW o \in Ids, OperationEnds(o)
      PROVE SlotStep
  <2>1. ops[o] = "running" /\ ops[o] \in Live /\ forget' = forget
    BY <1>5 DEF OperationEnds, Live
  <2>2. slotHolders = {o}
    BY <2>1, SlotOfOperation
  <2>3. forget.step = "idle" /\ \A p \in Ids \ {o} : ops[p] \notin Live
    BY <2>1 DEF Inv, ForgetInv, OperationsInv
  <2>4. PICK state \in Finished : ops' = [ops EXCEPT ![o] = state]
    BY <1>5 DEF OperationEnds
  <2>5. ops'[o] = state /\ \A p \in Ids \ {o} : ops'[p] = ops[p]
    BY <2>4 DEF Inv, TypeInv
  <2>6. slotHolders' = {} /\ slotWorking' = {}
    BY <2>1, <2>3, <2>5 DEF slotHolders, slotWorking, Live, Finished
  <2> QED BY <2>2, <2>6 DEF SlotStep, Slot!Next, Slot!Release
<1>6. CASE ForgetChecks \/ ForgetRechecks \/ ForgetDeletes
  <2>1. /\ forget.step # "idle" /\ ops' = ops
        /\ \/ forget' = NoForget
           \/ \E step \in {"recheck", "delete"} : forget' = [forget EXCEPT !.step = step]
    BY <1>6 DEF ForgetChecks, ForgetRechecks, ForgetDeletes, ForgetReturns, service
  <2>2. forget'.step \in {"idle", "recheck", "delete"}
    BY <2>1 DEF NoForget, Inv, TypeInv
  <2>3. slotHolders = {0} /\ slotWorking = {} /\ \A o \in Ids : ops[o] \notin Live
    BY <2>1, SlotOfForget DEF Inv, ForgetInv
  <2>4. /\ slotHolders' = IF forget'.step = "idle" THEN {} ELSE {0}
        /\ slotWorking' = {}
    BY <2>1, <2>3 DEF slotHolders, slotWorking, Live
  <2> QED BY <2>2, <2>3, <2>4 DEF SlotStep, Slot!Next, Slot!Release
<1> QED BY <1>1, <1>2, <1>3, <1>4, <1>5, <1>6 DEF Handlers

LEMMA BrowserSlot ==
    ASSUME Inv, Browser
    PROVE SlotStep
<1>1. ops' = ops
  BY DEF Browser, Open, Login, ManageKnownNetworks, showModeChoice, Submit, ConfirmKnown,
     Poll, Receive, Timeout, WaitForApplication, ReceiveWait, WaitFails, device, service
<1>2. forget' = forget \/ Abandon
  BY DEF Browser, Open, Login, ManageKnownNetworks, showModeChoice, Submit, ConfirmKnown,
     Poll, Receive, Timeout, WaitForApplication, ReceiveWait, WaitFails, device
<1>3. forget'.step = forget.step
  BY <1>2 DEF Abandon, Inv, TypeInv
<1> QED BY <1>1, <1>3, SlotKept

LEMMA EnvironmentSlot ==
    ASSUME Inv, Environment
    PROVE SlotStep
<1>1. ASSUME NEW o \in Ids, StartElsewhere(o)
      PROVE SlotStep
  BY <1>1, Registered DEF StartElsewhere
<1>2. CASE ForgetElsewhere
  <2>1. slotFree /\ ops' = ops /\ forget'.step = "check"
    BY <1>2 DEF ForgetElsewhere, NoForget, service
  <2> QED BY <2>1, Admitted
<1>3. CASE LoginElsewhere \/ ApplicationChanges
  BY <1>3, SlotKept DEF LoginElsewhere, ApplicationChanges, device, service
<1>4. CASE ConnectionChanges
  <2>1. ops' = ops /\ forget'.step = forget.step
    BY <1>4 DEF ConnectionChanges, service, Inv, TypeInv
  <2> QED BY <2>1, SlotKept
<1>5. CASE Restart
  <2>1. \A o \in Ids : ops'[o] \in {"free", "gone"}
    BY <1>5 DEF Restart
  <2>2. slotHolders' = {} /\ slotWorking' = {}
    BY <1>5, <2>1 DEF Restart, NoForget, slotHolders, slotWorking, Live
  <2>3. CASE forget.step # "idle"
    BY <2>2, <2>3, SlotOfForget DEF SlotStep, Slot!Next, Slot!Release
  <2>4. CASE \E o \in Ids : ops[o] \in Live
    BY <2>2, <2>4, SlotOfOperation DEF SlotStep, Slot!Next, Slot!Release
  <2>5. CASE forget.step = "idle" /\ \A o \in Ids : ops[o] \notin Live
    <3>1. slotHolders = {} /\ slotWorking = {}
      BY <2>5 DEF slotHolders, slotWorking, Live
    <3> QED BY <2>2, <3>1 DEF SlotStep
  <2> QED BY <2>3, <2>4, <2>5
<1> QED BY <1>1, <1>2, <1>3, <1>4, <1>5 DEF Environment

\* The service as the page sees it keeps the promise of the abstract slot, which
\* module SetupService implements too: one operation or one forget at a time, through
\* abandoned requests, other sessions and restarts.
THEOREM ImplementsSlot == Spec => SlotSpec
<1>1. Init => Slot!Init
  BY DEF Init, NoForget, Slot!Init, slotHolders, slotWorking, Live
<1>2. Inv /\ [Next]_vars => [Slot!Next]_<<slotHolders, slotWorking, FALSE>>
  <2> SUFFICES ASSUME Inv, [Next]_vars
               PROVE  SlotStep
    BY DEF SlotStep
  <2>1. CASE UNCHANGED vars
    BY <2>1, SlotKept DEF vars, device, service
  <2> QED BY <2>1, HandlersSlot, BrowserSlot, EnvironmentSlot DEF Next
<1>3. QED
  BY <1>1, <1>2, Invariance, PTL DEF Spec, SlotSpec, Slot!Spec
=============================================================================
