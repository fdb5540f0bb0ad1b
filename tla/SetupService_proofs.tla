------------------------- MODULE SetupService_proofs -------------------------
(***************************************************************************)
(* Proofs about SetupService: for every number of HTTP requests and saved  *)
(* profiles and every history limit, the service runs one network change   *)
(* at a time and implements the abstract slot of TransitionSlot.           *)
(***************************************************************************)
EXTENDS SetupService, SequenceTheorems, TLAPS

\* A request's handler, operation, queued action and goroutine agree.
Sync ==
    \A r \in Requests :
        /\ operations[r] = "pending" <=> r \in actions
        /\ operations[r] = "pending" =>
              handler[r] \in {"accepted", "flushed"} /\ worker[r] = "none"
        /\ operations[r] = "running" <=> worker[r] \in {"entering", "acting"}
        /\ worker[r] # "none" => handler[r] = "served"
        /\ handler[r] \in {"idle", "resolved", "rejected", "forgetting", "forgot"} =>
              operations[r] = "absent"

\* isForgetting stands for the one request that is removing a profile.
Forgetting ==
    isForgetting <=> \E r \in Requests : handler[r] \in {"forgetting", "forgot"}

\* Shutdown cancels the context and every pending operation, and is done only
\* after the last goroutine.
Closing ==
    /\ isShuttingDown => ctxDone /\ actions = {}
    /\ shutdownDone => isShuttingDown /\ operationWG = {}

\* The inductive invariant.
Inv ==
    /\ TypeOK /\ Sync /\ HistoryConsistent /\ Forgetting /\ SingleFlight
    /\ Closing /\ JoinedProfileStays

-----------------------------------------------------------------------------
\* NewService satisfies the invariant.
LEMMA InitInv == NewService => Inv
<1> SUFFICES ASSUME NewService PROVE Inv
  OBVIOUS
<1>1. TypeOK
  <2>1. order \in Seq(Requests)
    BY DEF NewService
  <2>2. /\ handler \in [Requests -> HandlerStates]
        /\ target \in [Requests -> Profiles \cup {NoProfile}]
        /\ operations \in [Requests -> OperationStates]
        /\ worker \in [Requests -> WorkerStates]
    BY DEF NewService, HandlerStates, OperationStates, WorkerStates
  <2>3. QED
    BY <2>1, <2>2 DEF NewService, TypeOK
<1>2. Sync
  BY DEF NewService, Sync
<1>3. Forgetting /\ SingleFlight /\ JoinedProfileStays
  BY DEF NewService, Forgetting, SingleFlight, Holds, Active, JoinedProfileStays
<1>4. Closing
  BY DEF NewService, Closing
<1>5. HistoryConsistent
  BY HistoryLimitAssumption DEF NewService, HistoryConsistent
<1>6. QED
  BY <1>1, <1>2, <1>3, <1>4, <1>5 DEF Inv

\* trimHistoryLocked after one reservation: the loop removes at most one entry,
\* the new operation stays, and history and operations still agree.
LEMMA TrimHistory ==
    ASSUME TypeOK, HistoryConsistent, slotFree,
           NEW r \in Requests, operations[r] = "absent", actions = {},
           trimHistoryLocked(Append(order, r), [operations EXCEPT ![r] = "pending"],
                             actions \cup {r})
    PROVE  /\ order' \in Seq(Requests)
           /\ Len(order') <= HistoryLimit
           /\ \A i, j \in 1..Len(order') : order'[i] = order'[j] => i = j
           /\ \A q \in Requests :
                 operations'[q] # "absent" <=> \E i \in 1..Len(order') : order'[i] = q
           /\ operations' \in [Requests -> OperationStates]
           /\ operations'[r] = "pending"
           /\ \A q \in Requests \ {r} :
                 operations'[q] \in {operations[q], "absent"} /\ ~Active(operations[q])
           /\ actions' = {r}
<1> DEFINE ids == Append(order, r)
           st  == [operations EXCEPT ![r] = "pending"]
           n   == Removed(ids, st)
           gone == {ids[j] : j \in 1..n}
<1>1. /\ order \in Seq(Requests) /\ Len(order) \in Nat /\ Len(order) <= HistoryLimit
      /\ HistoryLimit \in Nat /\ HistoryLimit >= 1
  BY HistoryLimitAssumption DEF TypeOK, HistoryConsistent
<1>2. /\ ids \in Seq(Requests) /\ Len(ids) = Len(order) + 1
      /\ \A i \in 1..Len(order) : ids[i] = order[i] /\ order[i] \in Requests
      /\ ids[Len(order) + 1] = r
  BY <1>1
<1>3. \A i \in 1..Len(order) : order[i] # r /\ ~Active(operations[order[i]])
  BY <1>1, <1>2 DEF HistoryConsistent, slotFree, activeOperationLocked
<1>4. \A q \in Requests : ~Active(operations[q])
  BY DEF HistoryConsistent, slotFree, activeOperationLocked, Active
<1>5. /\ Removes(ids, st, 0)
      /\ \A k \in Nat : k >= 2 => ~Removes(ids, st, k)
      /\ Removes(ids, st, 1) <=> Len(ids) > HistoryLimit /\ ~Active(st[ids[1]])
  <2>1. Removes(ids, st, 0)
    BY DEF Removes
  <2>2. ASSUME NEW k \in Nat, k >= 2 PROVE ~Removes(ids, st, k)
    <3>1. 2 \in 1..k /\ ~(Len(ids) - (2 - 1) > HistoryLimit)
      BY <1>1, <1>2, <2>2
    <3>2. QED
      BY <3>1 DEF Removes
  <2>3. Removes(ids, st, 1) <=> Len(ids) > HistoryLimit /\ ~Active(st[ids[1]])
    <3>1. \A j \in 1..1 : j = 1
      OBVIOUS
    <3>2. Len(ids) - (1 - 1) = Len(ids)
      BY <1>1, <1>2
    <3>3. QED
      BY <3>1, <3>2 DEF Removes
  <2>4. QED
    BY <2>1, <2>2, <2>3
<1>6. /\ n \in {0, 1}
      /\ n = 0 => Len(ids) <= HistoryLimit
      /\ n = 1 => Len(ids) > HistoryLimit
  <2>1. \E k \in 0..Len(ids) : Removes(ids, st, k)
                               /\ (k = Len(ids) \/ ~Removes(ids, st, k + 1))
    <3>1. CASE Removes(ids, st, 1)
      <4>1. 1 \in 0..Len(ids) /\ 1 + 1 \in Nat /\ 1 + 1 >= 2
        BY <1>1, <1>2
      <4>2. QED
        BY <1>5, <3>1, <4>1
    <3>2. CASE ~Removes(ids, st, 1)
      <4>1. 0 \in 0..Len(ids) /\ 0 + 1 = 1
        BY <1>1, <1>2
      <4>2. QED
        BY <1>5, <3>2, <4>1
    <3>3. QED
      BY <3>1, <3>2
  <2>2. /\ n \in 0..Len(ids) /\ Removes(ids, st, n)
        /\ n = Len(ids) \/ ~Removes(ids, st, n + 1)
    <3>1. n = CHOOSE k \in 0..Len(ids) :
                  /\ Removes(ids, st, k)
                  /\ k = Len(ids) \/ ~Removes(ids, st, k + 1)
      BY DEF Removed
    <3> HIDE DEF ids, st, n
    <3>2. QED
      BY <2>1, <3>1
  <2>3. n \in {0, 1}
    <3> HIDE DEF ids, st, n
    <3>1. n \in Nat /\ ~(n >= 2)
      BY <1>1, <1>2, <1>5, <2>2
    <3>2. QED
      BY <3>1
  <2>4. ASSUME n = 0 PROVE Len(ids) <= HistoryLimit
    <3>1. ~Removes(ids, st, 1)
      BY <1>1, <1>2, <2>2, <2>4
    <3>2. CASE Len(order) = 0
      BY <1>1, <1>2, <3>2
    <3>3. CASE Len(order) # 0
      <4>1. 1 \in 1..Len(order)
        BY <1>1, <3>3
      <4>2. st[ids[1]] = operations[order[1]]
        BY <1>2, <1>3, <4>1 DEF TypeOK
      <4>3. ~Active(st[ids[1]])
        BY <1>3, <4>1, <4>2
      <4>4. QED
        BY <1>1, <1>2, <1>5, <3>1, <4>3
    <3>4. QED
      BY <3>2, <3>3
  <2>5. QED
    BY <1>5, <2>2, <2>3, <2>4
<1>7. /\ order' = SubSeq(ids, n + 1, Len(ids))
      /\ operations' = [q \in Requests |-> IF q \in gone THEN "absent" ELSE st[q]]
      /\ actions' = {r} \ gone
  BY DEF trimHistoryLocked
<1>8. /\ order' \in Seq(Requests) /\ Len(order') = Len(ids) - n
      /\ \A i \in 1..Len(order') : order'[i] = ids[i + n]
  <2>1. /\ n + 1 \in Int /\ Len(ids) \in Int /\ n + 1 <= Len(ids)
        /\ \A i \in (n + 1)..Len(ids) : ids[i] \in Requests
    <3> HIDE DEF ids, n
    <3> QED
      BY <1>1, <1>2, <1>6
  <2>2. /\ SubSeq(ids, n + 1, Len(ids)) \in Seq(Requests)
        /\ Len(SubSeq(ids, n + 1, Len(ids))) =
              IF n + 1 <= Len(ids) THEN Len(ids) - (n + 1) + 1 ELSE 0
        /\ \A i \in 1..(Len(ids) - (n + 1) + 1) :
              SubSeq(ids, n + 1, Len(ids))[i] = ids[(n + 1) + i - 1]
    <3> HIDE DEF ids, n
    <3> QED
      BY <2>1, SubSeqProperties
  <2>3. Len(ids) - (n + 1) + 1 = Len(ids) - n
    BY <1>1, <1>2, <1>6
  <2>4. ASSUME NEW i \in 1..(Len(ids) - n) PROVE (n + 1) + i - 1 = i + n
    BY <1>1, <1>2, <1>6
  <2>5. QED
    BY <1>7, <2>1, <2>2, <2>3, <2>4
<1>9. Len(order') <= HistoryLimit
  BY <1>1, <1>2, <1>6, <1>8
<1>10. \A i, j \in 1..Len(ids) : ids[i] = ids[j] => i = j
  BY <1>1, <1>2, <1>3 DEF HistoryConsistent
<1>11. \A i, j \in 1..Len(order') : order'[i] = order'[j] => i = j
  <2>1. ASSUME NEW i \in 1..Len(order'), NEW j \in 1..Len(order'), order'[i] = order'[j]
        PROVE i = j
    <3>1. i + n \in 1..Len(ids) /\ j + n \in 1..Len(ids)
      BY <1>1, <1>2, <1>6, <1>8
    <3>2. i + n = j + n
      BY <1>8, <1>10, <2>1, <3>1
    <3>3. QED
      BY <1>6, <3>2
  <2>2. QED
    BY <2>1
<1>12. r \notin gone
  <2>1. CASE n = 0
    BY <2>1
  <2>2. CASE n = 1
    <3>1. 1 \in 1..Len(order) /\ \A j \in 1..n : j = 1
      BY <1>1, <1>2, <1>6, <2>2
    <3>2. QED
      BY <1>2, <1>3, <3>1
  <2>3. QED
    BY <1>6, <2>1, <2>2
<1>13. ASSUME NEW q \in Requests
       PROVE  (\E i \in 1..Len(ids) : ids[i] = q) <=> st[q] # "absent"
  <2>1. CASE q = r
    <3>1. Len(order) + 1 \in 1..Len(ids)
      BY <1>1, <1>2
    <3>2. st[q] = "pending"
      BY <2>1 DEF TypeOK
    <3>3. QED
      BY <1>2, <2>1, <3>1, <3>2
  <2>2. CASE q # r
    <3>1. st[q] = operations[q]
      BY <2>2 DEF TypeOK
    <3>2. (\E i \in 1..Len(ids) : ids[i] = q) <=> \E i \in 1..Len(order) : order[i] = q
      BY <1>1, <1>2, <2>2
    <3>3. QED
      BY <3>1, <3>2 DEF HistoryConsistent
  <2>3. QED
    BY <2>1, <2>2
<1>14. ASSUME NEW q \in Requests
       PROVE  operations'[q] # "absent" <=> \E i \in 1..Len(order') : order'[i] = q
  <2>1. operations'[q] # "absent" <=> q \notin gone /\ \E i \in 1..Len(ids) : ids[i] = q
    BY <1>7, <1>13
  <2>2. CASE n = 0
    <3>1. gone = {}
      <4>1. 1..n = {}
        BY <2>2
      <4>2. QED
        BY <4>1
    <3>2. Len(order') = Len(ids) /\ \A i \in 1..Len(ids) : order'[i] = ids[i]
      <4> HIDE DEF ids, n
      <4>1. Len(order') = Len(ids)
        BY <1>1, <1>2, <1>8, <2>2
      <4>2. \A i \in 1..Len(ids) : i + n = i
        BY <1>1, <1>2, <2>2
      <4>3. QED
        BY <1>8, <4>1, <4>2
    <3>3. QED
      BY <2>1, <3>1, <3>2
  <2>3. CASE n = 1
    <3>1. gone = {ids[1]}
      BY <2>3
    <3>2. ASSUME NEW i \in 1..Len(order'), order'[i] = q
          PROVE  q \notin gone /\ \E k \in 1..Len(ids) : ids[k] = q
      <4>1. i + 1 \in 1..Len(ids) /\ i + 1 # 1 /\ 1 \in 1..Len(ids)
        BY <1>1, <1>2, <1>8, <2>3
      <4>3. ids[i + 1] = q
        BY <1>8, <2>3, <3>2
      <4>2. QED
        BY <1>10, <3>1, <4>1, <4>3
    <3>3. ASSUME NEW k \in 1..Len(ids), ids[k] = q, q \notin gone
          PROVE  \E i \in 1..Len(order') : order'[i] = q
      <4>1. k # 1
        BY <3>1, <3>3
      <4>2. k - 1 \in 1..Len(order') /\ (k - 1) + 1 = k
        BY <1>1, <1>2, <1>8, <2>3, <4>1
      <4>3. order'[k - 1] = q
        BY <1>8, <2>3, <3>3, <4>2
      <4>4. QED
        BY <4>2, <4>3
    <3>4. QED
      BY <2>1, <3>2, <3>3
  <2>4. QED
    BY <1>6, <2>2, <2>3
<1>15. operations' \in [Requests -> OperationStates] /\ operations'[r] = "pending"
  BY <1>7, <1>12 DEF TypeOK, OperationStates
<1>16. \A q \in Requests \ {r} :
          operations'[q] \in {operations[q], "absent"} /\ ~Active(operations[q])
  BY <1>4, <1>7 DEF TypeOK
<1>17. actions' = {r}
  BY <1>7, <1>12
<1>18. QED
  BY <1>8, <1>9, <1>11, <1>14, <1>15, <1>16, <1>17

\* A free slot: no operation is active or queued, no goroutine is in the
\* backend, and nobody is forgetting a profile.
LEMMA FreeSlot ==
    ASSUME Inv, slotFree
    PROVE  /\ \A r \in Requests : ~Holds(r)
           /\ actions = {}
<1>1. \A r \in Requests : ~Active(operations[r])
  BY DEF Inv, HistoryConsistent, slotFree, activeOperationLocked, Active
<1>2. actions = {}
  BY <1>1 DEF Inv, TypeOK, Sync, Active
<1>3. \A r \in Requests : ~Holds(r)
  BY <1>1 DEF Inv, Sync, Forgetting, slotFree, Holds, Active
<1>4. QED
  BY <1>2, <1>3

\* Reserving the slot, or being rejected, preserves the invariant.
LEMMA StartInv ==
    ASSUME Inv, NEW r \in Requests, handler[r] \in {"idle", "resolved"}, start(r),
           UNCHANGED <<target, isForgetting, isShuttingDown, ctxDone, worker,
                       shutdownDone, saved>>
    PROVE  Inv'
<1> USE DEF Inv
<1>1. CASE /\ handler' = [handler EXCEPT ![r] = "rejected"]
           /\ UNCHANGED <<operations, actions, order>>
  <2>1. TypeOK' /\ HistoryConsistent' /\ Closing' /\ JoinedProfileStays'
    BY <1>1 DEF TypeOK, HandlerStates, HistoryConsistent, Closing, operationWG,
       JoinedProfileStays
  <2>2. Sync' /\ Forgetting' /\ SingleFlight'
    BY <1>1 DEF TypeOK, Sync, Forgetting, SingleFlight, Holds
  <2>3. QED
    BY <2>1, <2>2
<1>2. CASE /\ ~unavailableLocked /\ slotFree
           /\ trimHistoryLocked(Append(order, r), [operations EXCEPT ![r] = "pending"],
                                actions \cup {r})
           /\ handler' = [handler EXCEPT ![r] = "accepted"]
  <2>1. operations[r] = "absent" /\ worker[r] = "none"
    BY DEF Sync
  <2>2. actions = {} /\ \A q \in Requests : ~Holds(q)
    BY <1>2, FreeSlot
  <2>3. /\ order' \in Seq(Requests)
        /\ Len(order') <= HistoryLimit
        /\ \A i, j \in 1..Len(order') : order'[i] = order'[j] => i = j
        /\ \A q \in Requests :
              operations'[q] # "absent" <=> \E i \in 1..Len(order') : order'[i] = q
        /\ operations' \in [Requests -> OperationStates]
        /\ operations'[r] = "pending"
        /\ \A q \in Requests \ {r} :
              operations'[q] \in {operations[q], "absent"} /\ ~Active(operations[q])
        /\ actions' = {r}
    BY <1>2, <2>1, <2>2, TrimHistory
  <2>4. TypeOK'
    BY <1>2, <2>3 DEF TypeOK, HandlerStates
  <2>5. Sync'
    BY <1>2, <2>1, <2>2, <2>3 DEF TypeOK, Sync, Active
  <2>6. HistoryConsistent'
    BY <2>2, <2>3 DEF HistoryConsistent, Holds
  <2>7. Forgetting' /\ SingleFlight'
    BY <1>2, <2>1, <2>2, <2>3 DEF TypeOK, Forgetting, SingleFlight, Holds, Active
  <2>8. Closing' /\ JoinedProfileStays'
    BY <1>2 DEF unavailableLocked, Closing, operationWG, JoinedProfileStays
  <2>9. QED
    BY <2>4, <2>5, <2>6, <2>7, <2>8
<1>3. QED
  BY <1>1, <1>2 DEF start

\* cancelPendingOperationLocked of queued operations preserves the invariant.
LEMMA CancelInv ==
    ASSUME Inv, NEW ids \in SUBSET Requests, cancelPendingOperationLocked(ids),
           handler' \in [Requests -> HandlerStates],
           \A r \in Requests : handler'[r] = handler[r] \/
              (/\ handler[r] \in {"accepted", "flushed"}
               /\ handler'[r] \in {"dropped", "served"}
               /\ operations[r] = "pending" => r \in ids),
           isShuttingDown' \in BOOLEAN, ctxDone' \in BOOLEAN,
           isShuttingDown => isShuttingDown',
           isShuttingDown' => ctxDone' /\ (isShuttingDown \/ ids = actions),
           UNCHANGED <<target, order, isForgetting, worker, shutdownDone, saved>>
    PROVE  Inv'
<1> USE DEF Inv
<1>1. /\ actions' = actions \ ids
      /\ operations' = [r \in Requests |->
                          IF r \in ids \cap actions THEN "failed" ELSE operations[r]]
  BY DEF cancelPendingOperationLocked, TypeOK, Sync
<1>2. TypeOK'
  BY <1>1 DEF TypeOK, OperationStates
<1>3. Sync'
  BY <1>1 DEF TypeOK, Sync
<1>4. HistoryConsistent'
  BY <1>1 DEF TypeOK, Sync, HistoryConsistent
<1>5. Forgetting' /\ SingleFlight'
  BY <1>1 DEF TypeOK, Forgetting, SingleFlight, Holds, Active
<1>6. Closing'
  BY <1>1 DEF TypeOK, Closing, operationWG
<1>7. JoinedProfileStays'
  BY DEF JoinedProfileStays
<1>8. QED
  BY <1>2, <1>3, <1>4, <1>5, <1>6, <1>7

\* Recording an outcome preserves the invariant and frees the slot.
LEMMA RecordInv ==
    ASSUME Inv, NEW r \in Requests, worker[r] \in {"entering", "acting"},
           NEW state \in {"succeeded", "failed"}, recordOutcome(r, state),
           UNCHANGED <<handler, target, actions, order, isForgetting, isShuttingDown,
                       ctxDone, shutdownDone, saved>>
    PROVE  Inv'
<1> USE DEF Inv
<1>1. operations[r] = "running"
  BY DEF Sync
<1>2. /\ worker' = [worker EXCEPT ![r] = "recorded"]
      /\ operations' = [operations EXCEPT ![r] = state]
  BY <1>1 DEF recordOutcome
<1>3. TypeOK'
  BY <1>2 DEF TypeOK, WorkerStates, OperationStates
<1>4. Sync'
  BY <1>1, <1>2 DEF TypeOK, Sync
<1>5. HistoryConsistent'
  BY <1>1, <1>2 DEF TypeOK, HistoryConsistent
<1>6. Forgetting' /\ SingleFlight'
  BY <1>2 DEF TypeOK, Forgetting, SingleFlight, Holds, Active
<1>7. Closing' /\ JoinedProfileStays'
  BY <1>2 DEF TypeOK, Closing, operationWG, JoinedProfileStays
<1>8. QED
  BY <1>3, <1>4, <1>5, <1>6, <1>7

-----------------------------------------------------------------------------
\* The HTTP handlers that reserve, release or begin an operation.
LEMMA HandlerInv ==
    ASSUME Inv, NEW r \in Requests,
           \/ StartConnection(r) \/ StartStandalone(r) \/ StartKnownNetwork(r)
           \/ \E p \in Profiles : ResolveKnownNetwork(r, p)
           \/ AcceptOperation(r) \/ CancelPendingOperation(r) \/ BeginOperation(r)
    PROVE  Inv'
<1>1. CASE StartConnection(r) \/ StartStandalone(r)
  <2>1. CASE start(r)
    BY <1>1, <2>1, StartInv DEF StartConnection, StartStandalone
  <2>2. CASE ~start(r)
    <3>1. handler' = [handler EXCEPT ![r] = "rejected"]
          /\ UNCHANGED <<operations, actions, order>>
      BY <1>1, <2>2 DEF StartConnection, StartStandalone
    <3>2. start(r)
      BY <3>1 DEF start
    <3>3. QED
      BY <2>2, <3>2
  <2>3. QED
    BY <2>1, <2>2
<1>2. CASE StartKnownNetwork(r)
  BY <1>2, StartInv DEF StartKnownNetwork
<1>3. ASSUME NEW p \in Profiles, ResolveKnownNetwork(r, p) PROVE Inv'
  <2>1. worker[r] = "none" /\ operations[r] = "absent"
    BY <1>3 DEF Inv, Sync, ResolveKnownNetwork
  <2>2. TypeOK' /\ HistoryConsistent' /\ Closing'
    BY <1>3 DEF Inv, ResolveKnownNetwork, TypeOK, HandlerStates, HistoryConsistent,
       Closing, operationWG
  <2>3. Sync' /\ Forgetting' /\ SingleFlight' /\ JoinedProfileStays'
    BY <1>3, <2>1 DEF Inv, ResolveKnownNetwork, TypeOK, Sync, Forgetting, SingleFlight,
       Holds, JoinedProfileStays
  <2>4. QED
    BY <2>2, <2>3 DEF Inv
<1>4. CASE AcceptOperation(r)
  <2>1. TypeOK' /\ HistoryConsistent' /\ Closing' /\ JoinedProfileStays'
    BY <1>4 DEF Inv, AcceptOperation, TypeOK, HandlerStates, HistoryConsistent,
       Closing, operationWG, JoinedProfileStays
  <2>2. Sync' /\ Forgetting' /\ SingleFlight'
    BY <1>4 DEF Inv, AcceptOperation, TypeOK, Sync, Forgetting, SingleFlight, Holds
  <2>3. QED
    BY <2>1, <2>2 DEF Inv
<1>5. CASE CancelPendingOperation(r)
  <2>1. /\ {r} \in SUBSET Requests /\ handler' \in [Requests -> HandlerStates]
        /\ \A q \in Requests : handler'[q] = handler[q] \/
              (/\ handler[q] \in {"accepted", "flushed"}
               /\ handler'[q] \in {"dropped", "served"}
               /\ operations[q] = "pending" => q \in {r})
    BY <1>5 DEF Inv, TypeOK, HandlerStates, CancelPendingOperation
  <2>2. /\ isShuttingDown' \in BOOLEAN /\ ctxDone' \in BOOLEAN
        /\ isShuttingDown => isShuttingDown'
        /\ isShuttingDown' => ctxDone' /\ (isShuttingDown \/ {r} = actions)
    BY <1>5 DEF Inv, TypeOK, Closing, CancelPendingOperation
  <2>3. QED
    BY <1>5, <2>1, <2>2, CancelInv DEF CancelPendingOperation
<1>6. CASE BeginOperation(r)
  <2> USE <1>6 DEF BeginOperation
  <2>1. CASE r \notin actions \/ operations[r] # "pending"
    <3>1. operations[r] # "pending" /\ worker[r] = "none" /\ handler[r] = "flushed"
      BY <2>1 DEF Inv, Sync
    <3>2. TypeOK' /\ HistoryConsistent' /\ Closing' /\ JoinedProfileStays'
      BY <2>1 DEF Inv, TypeOK, HandlerStates, HistoryConsistent, Closing, operationWG,
         JoinedProfileStays
    <3>3. Sync' /\ Forgetting' /\ SingleFlight'
      BY <2>1, <3>1 DEF Inv, TypeOK, Sync, Forgetting, SingleFlight, Holds
    <3>4. QED
      BY <3>2, <3>3 DEF Inv
  <2>2. CASE ~(r \notin actions \/ operations[r] # "pending") /\ unavailableLocked
    <3>1. /\ {r} \in SUBSET Requests /\ handler' \in [Requests -> HandlerStates]
          /\ \A q \in Requests : handler'[q] = handler[q] \/
                (/\ handler[q] \in {"accepted", "flushed"}
                 /\ handler'[q] \in {"dropped", "served"}
                 /\ operations[q] = "pending" => q \in {r})
      BY DEF Inv, TypeOK, HandlerStates
    <3>2. /\ isShuttingDown' \in BOOLEAN /\ ctxDone' \in BOOLEAN
          /\ isShuttingDown => isShuttingDown'
          /\ isShuttingDown' => ctxDone' /\ (isShuttingDown \/ {r} = actions)
      BY DEF Inv, TypeOK, Closing
    <3>3. QED
      BY <2>2, <3>1, <3>2, CancelInv
  <2>3. CASE ~(r \notin actions \/ operations[r] # "pending") /\ ~unavailableLocked
    <3>1. /\ operations[r] = "pending" /\ worker[r] = "none"
          /\ operations' = [operations EXCEPT ![r] = "running"]
          /\ actions' = actions \ {r}
          /\ worker' = [worker EXCEPT ![r] = "entering"]
      BY <2>3 DEF Inv, Sync
    <3>2. TypeOK' /\ HistoryConsistent'
      BY <3>1 DEF Inv, TypeOK, HandlerStates, OperationStates, WorkerStates,
         HistoryConsistent
    <3>3. Sync'
      BY <3>1 DEF Inv, TypeOK, Sync
    <3>4. Forgetting' /\ SingleFlight'
      BY <3>1 DEF Inv, TypeOK, Forgetting, SingleFlight, Holds, Active
    <3>5. Closing' /\ JoinedProfileStays'
      BY <2>3, <3>1 DEF Inv, TypeOK, unavailableLocked, Closing, JoinedProfileStays
    <3>6. QED
      BY <3>2, <3>3, <3>4, <3>5 DEF Inv
  <2>4. QED
    BY <2>1, <2>2, <2>3
<1>7. QED
  BY <1>1, <1>2, <1>3, <1>4, <1>5, <1>6

\* Forgetting a profile excludes, and is excluded by, every other change.
LEMMA ForgetInv ==
    ASSUME Inv, NEW r \in Requests,
           \/ \E p \in Profiles : ForgetKnownNetwork(r, p)
           \/ ForgetBackend(r) \/ ForgetRelease(r)
    PROVE  Inv'
<1>1. ASSUME NEW p \in Profiles, ForgetKnownNetwork(r, p) PROVE Inv'
  <2>1. worker[r] = "none" /\ operations[r] = "absent"
    BY <1>1 DEF Inv, Sync, ForgetKnownNetwork
  <2>2. TypeOK' /\ HistoryConsistent' /\ Closing'
    BY <1>1 DEF Inv, ForgetKnownNetwork, TypeOK, HandlerStates, HistoryConsistent,
       Closing, operationWG
  <2>3. Sync' /\ JoinedProfileStays'
    BY <1>1, <2>1 DEF Inv, ForgetKnownNetwork, TypeOK, Sync, JoinedProfileStays
  <2>4. Forgetting' /\ SingleFlight'
    <3>1. CASE "network" \in Capabilities /\ forgetAdmitted
      <4>1. \A q \in Requests : ~Holds(q)
        BY <3>1, FreeSlot DEF forgetAdmitted
      <4>2. QED
        BY <1>1, <3>1, <4>1 DEF Inv, ForgetKnownNetwork, TypeOK, Forgetting,
           SingleFlight, Holds
    <3>2. CASE ~("network" \in Capabilities /\ forgetAdmitted)
      BY <1>1, <3>2 DEF Inv, ForgetKnownNetwork, TypeOK, Forgetting, SingleFlight, Holds
    <3>3. QED
      BY <3>1, <3>2
  <2>5. QED
    BY <2>2, <2>3, <2>4 DEF Inv
<1>2. CASE ForgetBackend(r)
  <2>1. Holds(r)
    BY <1>2 DEF ForgetBackend, Holds
  <2>2. \A q \in Requests : worker[q] \notin {"entering", "acting"}
    BY <1>2, <2>1 DEF Inv, ForgetBackend, SingleFlight, Holds, Sync
  <2>3. TypeOK' /\ HistoryConsistent' /\ Closing'
    BY <1>2 DEF Inv, ForgetBackend, TypeOK, HandlerStates, HistoryConsistent, Closing,
       operationWG
  <2>4. Sync' /\ Forgetting' /\ SingleFlight' /\ JoinedProfileStays'
    BY <1>2, <2>2 DEF Inv, ForgetBackend, TypeOK, Sync, Forgetting, SingleFlight, Holds,
       JoinedProfileStays
  <2>5. QED
    BY <2>3, <2>4 DEF Inv
<1>3. CASE ForgetRelease(r)
  <2>1. \A q \in Requests : q # r => handler[q] \notin {"forgetting", "forgot"}
    BY <1>3 DEF Inv, ForgetRelease, SingleFlight, Holds
  <2>2. TypeOK' /\ HistoryConsistent' /\ Closing' /\ JoinedProfileStays'
    BY <1>3 DEF Inv, ForgetRelease, TypeOK, HandlerStates, HistoryConsistent, Closing,
       operationWG, JoinedProfileStays
  <2>3. Sync' /\ Forgetting' /\ SingleFlight'
    BY <1>3, <2>1 DEF Inv, ForgetRelease, TypeOK, Sync, Forgetting, SingleFlight, Holds
  <2>4. QED
    BY <2>2, <2>3 DEF Inv
<1>4. QED
  BY <1>1, <1>2, <1>3

\* The goroutine of an operation preserves the invariant.
LEMMA WorkerInv ==
    ASSUME Inv, NEW r \in Requests, BackendEnter(r) \/ BackendReturn(r) \/ WorkerDone(r)
    PROVE  Inv'
<1>1. CASE BackendEnter(r)
  <2>1. CASE recordOutcome(r, "failed")
    BY <1>1, <2>1, RecordInv DEF BackendEnter
  <2>2. CASE /\ target[r] # NoProfile => target[r] \in saved
             /\ worker' = [worker EXCEPT ![r] = "acting"]
             /\ UNCHANGED operations
    <3>1. TypeOK' /\ HistoryConsistent'
      BY <1>1, <2>2 DEF Inv, BackendEnter, TypeOK, WorkerStates, HistoryConsistent
    <3>2. Sync' /\ Forgetting' /\ SingleFlight'
      BY <1>1, <2>2 DEF Inv, BackendEnter, TypeOK, Sync, Forgetting, SingleFlight, Holds
    <3>3. Closing' /\ JoinedProfileStays'
      BY <1>1, <2>2 DEF Inv, BackendEnter, TypeOK, Closing, operationWG,
         JoinedProfileStays
    <3>4. QED
      BY <3>1, <3>2, <3>3 DEF Inv
  <2>3. QED
    BY <1>1, <2>1, <2>2 DEF BackendEnter
<1>2. CASE BackendReturn(r)
  BY <1>2, RecordInv DEF BackendReturn
<1>3. CASE WorkerDone(r)
  <2>1. TypeOK' /\ HistoryConsistent' /\ JoinedProfileStays' /\ Closing'
    BY <1>3 DEF Inv, WorkerDone, TypeOK, WorkerStates, HistoryConsistent, Closing,
       operationWG, JoinedProfileStays
  <2>2. Sync' /\ Forgetting' /\ SingleFlight'
    BY <1>3 DEF Inv, WorkerDone, TypeOK, Sync, Forgetting, SingleFlight, Holds
  <2>3. QED
    BY <2>1, <2>2 DEF Inv
<1>4. QED
  BY <1>1, <1>2, <1>3

\* Every step of the service preserves the invariant.
LEMMA NextInv == Inv /\ [Next]_vars => Inv'
<1> SUFFICES ASSUME Inv, [Next]_vars PROVE Inv'
  OBVIOUS
<1>1. CASE CancelRuntime
  <2>1. TypeOK' /\ HistoryConsistent' /\ JoinedProfileStays' /\ Closing'
    BY <1>1 DEF Inv, CancelRuntime, TypeOK, HistoryConsistent, Closing, operationWG,
       JoinedProfileStays
  <2>2. Sync' /\ Forgetting' /\ SingleFlight'
    BY <1>1 DEF Inv, CancelRuntime, Sync, Forgetting, SingleFlight, Holds
  <2>3. QED
    BY <2>1, <2>2 DEF Inv
<1>2. CASE Shutdown
  <2>1. actions \in SUBSET Requests /\ handler' \in [Requests -> HandlerStates]
    BY <1>2 DEF Inv, TypeOK, Shutdown
  <2>2. QED
    BY <1>2, <2>1, CancelInv DEF Shutdown
<1>3. CASE ShutdownDone
  <2>1. TypeOK' /\ HistoryConsistent' /\ JoinedProfileStays'
    BY <1>3 DEF Inv, ShutdownDone, TypeOK, HistoryConsistent, JoinedProfileStays
  <2>2. Sync' /\ Forgetting' /\ SingleFlight' /\ Closing'
    BY <1>3 DEF Inv, ShutdownDone, Sync, Forgetting, SingleFlight, Holds, Closing,
       operationWG
  <2>3. QED
    BY <2>1, <2>2 DEF Inv
<1>4. CASE UNCHANGED vars
  BY <1>4 DEF vars, Inv, TypeOK, Sync, HistoryConsistent, Forgetting, SingleFlight,
     Holds, Closing, operationWG, JoinedProfileStays
<1>5. QED
  BY <1>1, <1>2, <1>3, <1>4, HandlerInv, ForgetInv, WorkerInv DEF Next

\* The invariant holds throughout.
THEOREM Invariance == Spec => []Inv
  BY InitInv, NextInv, PTL DEF Spec

-----------------------------------------------------------------------------
\* Type correctness of the setup service.
THEOREM TypeCorrect == Spec => []TypeOK
<1>1. Inv => TypeOK
  BY DEF Inv
<1>2. QED
  BY <1>1, Invariance, PTL

\* Mode changes and profile removals are single-flight, however many requests
\* the HTTP server handles at once.
THEOREM OneAtATime == Spec => []SingleFlight
<1>1. Inv => SingleFlight
  BY DEF Inv
<1>2. QED
  BY <1>1, Invariance, PTL

\* Service.order and Service.operations always agree and stay within
\* operationHistoryLimit, whatever the limit.
THEOREM HistoryAgrees == Spec => []HistoryConsistent
<1>1. Inv => HistoryConsistent
  BY DEF Inv
<1>2. QED
  BY <1>1, Invariance, PTL

\* After a completed Shutdown nothing runs and nothing is queued.
THEOREM ShutdownIsQuiet == Spec => []QuietAfterShutdown
<1>1. Inv => QuietAfterShutdown
  BY DEF Inv, Closing, QuietAfterShutdown
<1>2. QED
  BY <1>1, Invariance, PTL

\* No request forgets the saved profile that a running operation joins.
THEOREM ProfileStays == Spec => []JoinedProfileStays
<1>1. Inv => JoinedProfileStays
  BY DEF Inv
<1>2. QED
  BY <1>1, Invariance, PTL

\* The entries that a reservation trims from the history are finished ones and
\* leave the history for good; nothing else changes in operations.
LEMMA StartOutcome ==
    ASSUME Inv, NEW r \in Requests, handler[r] \in {"idle", "resolved"}, start(r)
    PROVE  \/ UNCHANGED <<operations, actions, order>>
           \/ /\ ~unavailableLocked
              /\ \A q \in Requests : ~Holds(q)
              /\ operations[r] = "absent" /\ operations'[r] = "pending"
              /\ handler' = [handler EXCEPT ![r] = "accepted"]
              /\ \A q \in Requests \ {r} :
                    operations'[q] \in {operations[q], "absent"}
<1>1. CASE /\ ~unavailableLocked /\ slotFree
           /\ trimHistoryLocked(Append(order, r), [operations EXCEPT ![r] = "pending"],
                                actions \cup {r})
           /\ handler' = [handler EXCEPT ![r] = "accepted"]
  <2>1. actions = {} /\ \A q \in Requests : ~Holds(q)
    BY <1>1, FreeSlot
  <2>2. operations[r] = "absent" /\ TypeOK /\ HistoryConsistent
    BY DEF Inv, Sync
  <2>3. /\ operations'[r] = "pending"
        /\ \A q \in Requests \ {r} : operations'[q] \in {operations[q], "absent"}
    BY <1>1, <2>1, <2>2, TrimHistory
  <2>4. QED
    BY <1>1, <2>1, <2>2, <2>3
<1>2. QED
  BY <1>1 DEF start

\* StartConnection, StartStandalone and StartKnownNetwork reserve or reject.
LEMMA StartsOutcome ==
    ASSUME Inv, NEW r \in Requests,
           StartConnection(r) \/ StartStandalone(r) \/ StartKnownNetwork(r)
    PROVE  /\ handler[r] \in {"idle", "resolved"} /\ start(r)
           /\ UNCHANGED <<worker, isForgetting, isShuttingDown, ctxDone>>
<1>1. CASE StartConnection(r) \/ StartStandalone(r)
  BY <1>1 DEF StartConnection, StartStandalone, start
<1>2. CASE StartKnownNetwork(r)
  BY <1>2 DEF StartKnownNetwork
<1>3. QED
  BY <1>1, <1>2

\* A cancelled or finished operation keeps its outcome and is never begun.
THEOREM OutcomesAreFinal == Spec => FinishedIsFinal
<1> DEFINE Kept(q) == operations[q] \in {"succeeded", "failed"} =>
                        /\ operations'[q] \in {operations[q], "absent"}
                        /\ worker[q] = "none" => worker'[q] = "none"
<1>1. Inv /\ [Next]_vars =>
        [\A r \in Requests : operations[r] \in {"succeeded", "failed"} =>
            /\ operations'[r] \in {operations[r], "absent"}
            /\ worker[r] = "none" => worker'[r] = "none"]_vars
  <2> SUFFICES ASSUME Inv, Next, NEW q \in Requests,
                      operations[q] \in {"succeeded", "failed"}
               PROVE  /\ operations'[q] \in {operations[q], "absent"}
                      /\ worker[q] = "none" => worker'[q] = "none"
    BY DEF vars
  <2>1. ASSUME NEW r \in Requests,
               StartConnection(r) \/ StartStandalone(r) \/ StartKnownNetwork(r)
        PROVE  Kept(q)
    <3>1. \/ UNCHANGED <<operations, actions, order>>
          \/ /\ operations[r] = "absent"
             /\ \A x \in Requests \ {r} : operations'[x] \in {operations[x], "absent"}
      BY <2>1, StartsOutcome, StartOutcome
    <3>2. UNCHANGED worker
      BY <2>1, StartsOutcome
    <3>3. QED
      BY <3>1, <3>2
  <2>2. ASSUME NEW r \in Requests, CancelPendingOperation(r) \/ BeginOperation(r)
        PROVE  Kept(q)
    BY <2>2 DEF Inv, TypeOK, Sync, CancelPendingOperation, BeginOperation,
       cancelPendingOperationLocked
  <2>3. ASSUME NEW r \in Requests, BackendEnter(r) \/ BackendReturn(r) \/ WorkerDone(r)
        PROVE  Kept(q)
    BY <2>3 DEF Inv, TypeOK, Sync, BackendEnter, BackendReturn, WorkerDone,
       recordOutcome
  <2>4. ASSUME NEW r \in Requests,
               \/ \E p \in Profiles : ResolveKnownNetwork(r, p)
               \/ \E p \in Profiles : ForgetKnownNetwork(r, p)
               \/ AcceptOperation(r) \/ ForgetBackend(r) \/ ForgetRelease(r)
        PROVE  Kept(q)
    BY <2>4 DEF ResolveKnownNetwork, ForgetKnownNetwork, AcceptOperation,
       ForgetBackend, ForgetRelease
  <2>5. CASE CancelRuntime \/ Shutdown \/ ShutdownDone
    BY <2>5 DEF Inv, TypeOK, CancelRuntime, Shutdown, ShutdownDone,
       cancelPendingOperationLocked
  <2>6. QED
    BY <2>1, <2>2, <2>3, <2>4, <2>5 DEF Next
<1>2. QED
  BY <1>1, Invariance, PTL DEF Spec, FinishedIsFinal

-----------------------------------------------------------------------------
(* The service implements the abstract slot. *)

\* What a step means for the abstract slot, in terms of the three mapped
\* variables.
SlotReserve(r) == ~unavailableLocked /\ slotHolders = {} /\ slotHolders' = {r}
                  /\ UNCHANGED <<slotWorking, unavailableLocked>>
SlotRelease(r) == slotHolders = {r} /\ slotHolders' = {} /\ slotWorking' = {}
                  /\ UNCHANGED unavailableLocked
SlotStutter == UNCHANGED <<slotHolders, slotWorking, unavailableLocked>>

\* The mapped steps are steps of TransitionSlot.
LEMMA SlotSteps ==
    ASSUME \/ \E r \in Requests : SlotReserve(r) \/ SlotRelease(r)
           \/ SlotStutter
    PROVE  [Slot!Next]_<<slotHolders, slotWorking, unavailableLocked>>
<1>1. ASSUME NEW r \in Requests, SlotReserve(r) PROVE Slot!Next
  BY <1>1 DEF SlotReserve, slotWorking, Slot!Next, Slot!Reserve
<1>2. ASSUME NEW r \in Requests, SlotRelease(r) PROVE Slot!Next
  BY <1>2 DEF SlotRelease, slotWorking, Slot!Next, Slot!Release
<1>3. QED
  BY <1>1, <1>2 DEF SlotStutter

\* A step that changes what one holding request does, and nothing of the others,
\* ends the hold of that request.
LEMMA HoldEnds ==
    ASSUME Inv, NEW r \in Requests, Holds(r), ~Holds(r)',
           \A q \in Requests \ {r} : Holds(q)' <=> Holds(q),
           UNCHANGED <<isShuttingDown, ctxDone>>
    PROVE  SlotRelease(r)
<1>1. \A q \in Requests : Holds(q) <=> q = r
  BY DEF Inv, SingleFlight
<1>2. slotHolders = {r}
  BY <1>1 DEF slotHolders
<1>3. \A q \in Requests : ~Holds(q)'
  BY <1>1
<1>4. slotHolders' = {}
  BY <1>3 DEF slotHolders
<1>5. slotWorking' = {}
  BY <1>3 DEF slotWorking, Holds
<1>6. QED
  BY <1>2, <1>4, <1>5 DEF SlotRelease, unavailableLocked

\* A step that changes no request's hold or work is a stutter.
LEMMA HoldsKept ==
    ASSUME \A q \in Requests : Holds(q)' <=> Holds(q),
           \A q \in Requests : worker'[q] \in {"entering", "acting"}
                                  <=> worker[q] \in {"entering", "acting"},
           UNCHANGED unavailableLocked
    PROVE  SlotStutter
<1>1. slotHolders' = slotHolders
  BY DEF slotHolders
<1>2. slotWorking' = slotWorking
  BY DEF slotWorking
<1>3. QED
  BY <1>1, <1>2 DEF SlotStutter

\* The handlers of one request reserve, begin, release or leave the slot alone.
LEMMA HandlerSlot ==
    ASSUME Inv, NEW r \in Requests,
           \/ StartConnection(r) \/ StartStandalone(r) \/ StartKnownNetwork(r)
           \/ \E p \in Profiles : ResolveKnownNetwork(r, p)
           \/ AcceptOperation(r) \/ CancelPendingOperation(r) \/ BeginOperation(r)
    PROVE  [Slot!Next]_<<slotHolders, slotWorking, unavailableLocked>>
<1>1. CASE StartConnection(r) \/ StartStandalone(r) \/ StartKnownNetwork(r)
  <2>1. /\ handler[r] \in {"idle", "resolved"} /\ start(r)
        /\ UNCHANGED <<worker, isForgetting, isShuttingDown, ctxDone>>
    BY <1>1, StartsOutcome
  <2>2. CASE UNCHANGED <<operations, actions, order>>
    <3>1. /\ \A q \in Requests : handler'[q] \in {"forgetting", "forgot"}
                                    <=> handler[q] \in {"forgetting", "forgot"}
      BY <2>1, <2>2 DEF Inv, TypeOK, start
    <3>2. \A q \in Requests : Holds(q)' <=> Holds(q)
      BY <2>1, <2>2, <3>1 DEF Holds
    <3>3. SlotStutter
      BY <2>1, <3>2, HoldsKept DEF unavailableLocked
    <3>4. QED
      BY <3>3, SlotSteps
  <2>3. CASE /\ ~unavailableLocked
             /\ \A q \in Requests : ~Holds(q)
             /\ operations[r] = "absent" /\ operations'[r] = "pending"
             /\ handler' = [handler EXCEPT ![r] = "accepted"]
             /\ \A q \in Requests \ {r} : operations'[q] \in {operations[q], "absent"}
    <3>1. \A q \in Requests : Holds(q)' <=> q = r
      BY <2>1, <2>3 DEF Inv, TypeOK, Holds, Active
    <3>2. slotHolders = {} /\ slotHolders' = {r}
      BY <2>3, <3>1 DEF slotHolders
    <3>3. SlotReserve(r)
      BY <2>1, <2>3, <3>2 DEF SlotReserve, slotWorking, unavailableLocked
    <3>4. QED
      BY <3>3, SlotSteps
  <2>4. QED
    BY <2>1, <2>2, <2>3, StartOutcome
<1>2. ASSUME NEW p \in Profiles, ResolveKnownNetwork(r, p)
      PROVE  [Slot!Next]_<<slotHolders, slotWorking, unavailableLocked>>
  <2>1. \A q \in Requests : Holds(q)' <=> Holds(q)
    BY <1>2 DEF Inv, TypeOK, ResolveKnownNetwork, Holds
  <2>2. SlotStutter
    BY <1>2, <2>1, HoldsKept DEF ResolveKnownNetwork, unavailableLocked
  <2>3. QED
    BY <2>2, SlotSteps
<1>3. CASE AcceptOperation(r)
  <2>1. \A q \in Requests : Holds(q)' <=> Holds(q)
    BY <1>3 DEF Inv, TypeOK, AcceptOperation, Holds
  <2>2. SlotStutter
    BY <1>3, <2>1, HoldsKept DEF AcceptOperation, unavailableLocked
  <2>3. QED
    BY <2>2, SlotSteps
<1>4. ASSUME handler[r] \in {"accepted", "flushed"},
             handler' = [handler EXCEPT ![r] = "dropped"]
                \/ handler' = [handler EXCEPT ![r] = "served"],
             cancelPendingOperationLocked({r}),
             UNCHANGED <<worker, isShuttingDown, ctxDone>>
      PROVE  [Slot!Next]_<<slotHolders, slotWorking, unavailableLocked>>
  <2>1. worker[r] = "none"
    BY <1>4 DEF Inv, Sync
  <2>2. \A q \in Requests \ {r} : Holds(q)' <=> Holds(q)
    BY <1>4 DEF Inv, TypeOK, Holds, cancelPendingOperationLocked
  <2>3. ~Holds(r)'
    BY <1>4, <2>1 DEF Inv, TypeOK, Sync, Holds, Active, cancelPendingOperationLocked
  <2>4. CASE Holds(r)
    <3>1. SlotRelease(r)
      BY <1>4, <2>2, <2>3, <2>4, HoldEnds
    <3>2. QED
      BY <3>1, SlotSteps
  <2>5. CASE ~Holds(r)
    <3>1. \A q \in Requests : Holds(q)' <=> Holds(q)
      BY <2>2, <2>3, <2>5
    <3>2. SlotStutter
      BY <1>4, <3>1, HoldsKept DEF unavailableLocked
    <3>3. QED
      BY <3>2, SlotSteps
  <2>6. QED
    BY <2>4, <2>5
<1>5. CASE CancelPendingOperation(r)
  BY <1>4, <1>5 DEF CancelPendingOperation
<1>6. CASE BeginOperation(r)
  <2> USE <1>6 DEF BeginOperation
  <2>1. CASE r \notin actions \/ operations[r] # "pending"
    <3>1. \A q \in Requests : Holds(q)' <=> Holds(q)
      BY <2>1 DEF Inv, TypeOK, Holds
    <3>2. SlotStutter
      BY <2>1, <3>1, HoldsKept DEF unavailableLocked
    <3>3. QED
      BY <3>2, SlotSteps
  <2>2. CASE ~(r \notin actions \/ operations[r] # "pending") /\ unavailableLocked
    BY <1>4, <2>2
  <2>3. CASE ~(r \notin actions \/ operations[r] # "pending") /\ ~unavailableLocked
    <3>1. /\ operations[r] = "pending" /\ worker[r] = "none"
          /\ operations' = [operations EXCEPT ![r] = "running"]
          /\ worker' = [worker EXCEPT ![r] = "entering"]
          /\ UNCHANGED unavailableLocked
      BY <2>3 DEF Inv, Sync, unavailableLocked
    <3>2. \A q \in Requests : Holds(q) <=> q = r
      BY <3>1 DEF Inv, SingleFlight, Holds, Active
    <3>3. \A q \in Requests : Holds(q)' <=> q = r
      BY <3>1, <3>2 DEF Inv, TypeOK, Holds, Active
    <3>4. slotHolders = {r} /\ slotHolders' = {r}
      BY <3>2, <3>3 DEF slotHolders
    <3>5. \A q \in Requests : worker[q] \notin {"entering", "acting"}
      BY <3>1, <3>2 DEF Holds
    <3>6. slotWorking = {} /\ slotWorking' = {r}
      BY <3>1, <3>5 DEF Inv, TypeOK, slotWorking
    <3>7. QED
      BY <2>3, <3>1, <3>4, <3>6 DEF slotWorking, Slot!Next, Slot!Begin
  <2>4. QED
    BY <2>1, <2>2, <2>3
<1>7. QED
  BY <1>1, <1>2, <1>3, <1>5, <1>6

\* Forgetting reserves the slot and releases it.
LEMMA ForgetSlot ==
    ASSUME Inv, NEW r \in Requests,
           \/ \E p \in Profiles : ForgetKnownNetwork(r, p)
           \/ ForgetBackend(r) \/ ForgetRelease(r)
    PROVE  [Slot!Next]_<<slotHolders, slotWorking, unavailableLocked>>
<1>1. ASSUME NEW p \in Profiles, ForgetKnownNetwork(r, p)
      PROVE  [Slot!Next]_<<slotHolders, slotWorking, unavailableLocked>>
  <2>1. CASE "network" \in Capabilities /\ forgetAdmitted
    <3>1. \A q \in Requests : ~Holds(q)
      BY <2>1, FreeSlot DEF forgetAdmitted
    <3>2. \A q \in Requests : Holds(q)' <=> q = r
      BY <1>1, <2>1, <3>1 DEF Inv, TypeOK, ForgetKnownNetwork, Holds
    <3>3. slotHolders = {} /\ slotHolders' = {r}
      BY <3>1, <3>2 DEF slotHolders
    <3>4. SlotReserve(r)
      BY <1>1, <2>1, <3>3 DEF SlotReserve, ForgetKnownNetwork, forgetAdmitted,
         slotWorking, unavailableLocked
    <3>5. QED
      BY <3>4, SlotSteps
  <2>2. CASE ~("network" \in Capabilities /\ forgetAdmitted)
    <3>1. \A q \in Requests : Holds(q)' <=> Holds(q)
      BY <1>1, <2>2 DEF Inv, TypeOK, ForgetKnownNetwork, Holds
    <3>2. SlotStutter
      BY <1>1, <3>1, HoldsKept DEF ForgetKnownNetwork, unavailableLocked
    <3>3. QED
      BY <3>2, SlotSteps
  <2>3. QED
    BY <2>1, <2>2
<1>2. CASE ForgetBackend(r)
  <2>1. \A q \in Requests : Holds(q)' <=> Holds(q)
    BY <1>2 DEF Inv, TypeOK, ForgetBackend, Holds
  <2>2. SlotStutter
    BY <1>2, <2>1, HoldsKept DEF ForgetBackend, unavailableLocked
  <2>3. QED
    BY <2>2, SlotSteps
<1>3. CASE ForgetRelease(r)
  <2>1. Holds(r) /\ operations[r] = "absent" /\ worker[r] = "none"
    BY <1>3 DEF Inv, Sync, ForgetRelease, Holds
  <2>2. ~Holds(r)' /\ \A q \in Requests \ {r} : Holds(q)' <=> Holds(q)
    BY <1>3, <2>1 DEF Inv, TypeOK, ForgetRelease, Holds, Active
  <2>3. SlotRelease(r)
    BY <1>3, <2>1, <2>2, HoldEnds DEF ForgetRelease
  <2>4. QED
    BY <2>3, SlotSteps
<1>4. QED
  BY <1>1, <1>2, <1>3

\* The goroutine of an operation releases the slot when it records the outcome.
LEMMA WorkerSlot ==
    ASSUME Inv, NEW r \in Requests, BackendEnter(r) \/ BackendReturn(r) \/ WorkerDone(r)
    PROVE  [Slot!Next]_<<slotHolders, slotWorking, unavailableLocked>>
<1>1. ASSUME worker[r] \in {"entering", "acting"}, NEW state \in {"succeeded", "failed"},
             recordOutcome(r, state), UNCHANGED <<handler, isShuttingDown, ctxDone>>
      PROVE  [Slot!Next]_<<slotHolders, slotWorking, unavailableLocked>>
  <2>1. operations[r] = "running" /\ handler[r] = "served" /\ Holds(r)
    BY <1>1 DEF Inv, Sync, Holds
  <2>2. /\ worker' = [worker EXCEPT ![r] = "recorded"]
        /\ operations' = [operations EXCEPT ![r] = state]
    BY <1>1, <2>1 DEF recordOutcome
  <2>3. ~Holds(r)' /\ \A q \in Requests \ {r} : Holds(q)' <=> Holds(q)
    BY <1>1, <2>1, <2>2 DEF Inv, TypeOK, Holds, Active
  <2>4. SlotRelease(r)
    BY <1>1, <2>1, <2>3, HoldEnds
  <2>5. QED
    BY <2>4, SlotSteps
<1>2. CASE BackendReturn(r)
  BY <1>1, <1>2 DEF BackendReturn
<1>3. CASE BackendEnter(r)
  <2>1. CASE recordOutcome(r, "failed")
    BY <1>1, <1>3, <2>1 DEF BackendEnter
  <2>2. CASE worker' = [worker EXCEPT ![r] = "acting"] /\ UNCHANGED operations
    <3>1. /\ \A q \in Requests : Holds(q)' <=> Holds(q)
          /\ \A q \in Requests : worker'[q] \in {"entering", "acting"}
                                    <=> worker[q] \in {"entering", "acting"}
      BY <1>3, <2>2 DEF Inv, TypeOK, BackendEnter, Holds
    <3>2. SlotStutter
      BY <1>3, <3>1, HoldsKept DEF BackendEnter, unavailableLocked
    <3>3. QED
      BY <3>2, SlotSteps
  <2>3. QED
    BY <1>3, <2>1, <2>2 DEF BackendEnter
<1>4. CASE WorkerDone(r)
  <2>1. /\ \A q \in Requests : Holds(q)' <=> Holds(q)
        /\ \A q \in Requests : worker'[q] \in {"entering", "acting"}
                                  <=> worker[q] \in {"entering", "acting"}
    BY <1>4 DEF Inv, TypeOK, WorkerDone, Holds
  <2>2. SlotStutter
    BY <1>4, <2>1, HoldsKept DEF WorkerDone, unavailableLocked
  <2>3. QED
    BY <2>2, SlotSteps
<1>5. QED
  BY <1>2, <1>3, <1>4

\* Cancelling the runtime context or shutting down closes the slot; a Shutdown
\* that follows the cancellation only releases a reservation not yet begun.
LEMMA ShutdownSlot ==
    ASSUME Inv, CancelRuntime \/ Shutdown \/ ShutdownDone
    PROVE  [Slot!Next]_<<slotHolders, slotWorking, unavailableLocked>>
<1>1. CASE CancelRuntime
  <2>1. ~unavailableLocked /\ unavailableLocked'
    BY <1>1 DEF Inv, Closing, CancelRuntime, unavailableLocked
  <2>2. slotHolders' = slotHolders /\ slotWorking' = slotWorking
    BY <1>1 DEF CancelRuntime, slotHolders, slotWorking, Holds
  <2>3. QED
    BY <2>1, <2>2 DEF slotWorking, Slot!Next, Slot!Close
<1>2. CASE Shutdown
  <2>1. /\ slotWorking' = slotWorking
        /\ \A q \in Requests : handler'[q] = handler[q] /\ worker'[q] = worker[q]
        /\ operations' = [q \in Requests |->
                            IF q \in actions THEN "failed" ELSE operations[q]]
    BY <1>2 DEF Inv, TypeOK, Sync, Shutdown, cancelPendingOperationLocked, slotWorking
  <2>2. CASE actions = {}
    <3>1. \A q \in Requests : Holds(q)' <=> Holds(q)
      BY <2>1, <2>2 DEF Inv, TypeOK, Holds
    <3>2. slotHolders' = slotHolders
      BY <3>1 DEF slotHolders
    <3>3. CASE unavailableLocked
      BY <1>2, <2>1, <3>2, <3>3 DEF Shutdown, unavailableLocked
    <3>4. CASE ~unavailableLocked
      BY <1>2, <2>1, <3>2, <3>4 DEF Shutdown, unavailableLocked, slotWorking,
         Slot!Next, Slot!Close
    <3>5. QED
      BY <3>3, <3>4
  <2>3. ASSUME NEW r \in actions
        PROVE  [Slot!Next]_<<slotHolders, slotWorking, unavailableLocked>>
    <3>1. /\ r \in Requests /\ operations[r] = "pending" /\ worker[r] = "none"
          /\ handler[r] \in {"accepted", "flushed"}
      BY <2>3 DEF Inv, TypeOK, Sync
    <3>2. \A q \in Requests : Holds(q) <=> q = r
      BY <3>1 DEF Inv, SingleFlight, Holds, Active
    <3>3. \A q \in Requests : ~Holds(q)'
      BY <2>1, <2>3, <3>1, <3>2 DEF Holds, Active
    <3>4. slotHolders = {r} /\ slotHolders' = {}
      BY <3>1, <3>2, <3>3 DEF slotHolders
    <3>5. slotWorking = {}
      BY <3>1, <3>2 DEF slotWorking, Holds
    <3>6. CASE unavailableLocked
      BY <1>2, <2>1, <3>1, <3>4, <3>5, <3>6 DEF Shutdown, unavailableLocked,
         slotWorking, Slot!Next, Slot!Release
    <3>7. CASE ~unavailableLocked
      BY <1>2, <2>1, <3>4, <3>5, <3>7 DEF Shutdown, unavailableLocked, slotWorking,
         Slot!Next, Slot!Close
    <3>8. QED
      BY <3>6, <3>7
  <2>4. QED
    BY <2>2, <2>3
<1>3. CASE ShutdownDone
  <2>1. SlotStutter
    BY <1>3 DEF ShutdownDone, SlotStutter, slotHolders, slotWorking, Holds,
       unavailableLocked
  <2>2. QED
    BY <2>1, SlotSteps
<1>4. QED
  BY <1>1, <1>2, <1>3

\* The setup service implements TransitionSlot: seen through slotHolders,
\* slotWorking and unavailableLocked every behaviour of the service is one of the
\* exclusive slot.
THEOREM ImplementsSlot == Spec => SlotSpec
<1>1. NewService => Slot!Init
  BY DEF NewService, Slot!Init, slotHolders, slotWorking, Holds, Active,
     unavailableLocked
<1>2. Inv /\ [Next]_vars =>
        [Slot!Next]_<<slotHolders, slotWorking, unavailableLocked>>
  <2> SUFFICES ASSUME Inv, [Next]_vars
               PROVE  [Slot!Next]_<<slotHolders, slotWorking, unavailableLocked>>
    OBVIOUS
  <2>1. CASE UNCHANGED vars
    BY <2>1 DEF vars, slotHolders, slotWorking, Holds, unavailableLocked
  <2>2. CASE Next
    BY <2>2, HandlerSlot, ForgetSlot, WorkerSlot, ShutdownSlot DEF Next
  <2>3. QED
    BY <2>1, <2>2
<1>3. QED
  BY <1>1, <1>2, Invariance, PTL DEF Spec, SlotSpec, Slot!Spec
==============================================================================
