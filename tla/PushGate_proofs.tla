--------------------------- MODULE PushGate_proofs ---------------------------
(***************************************************************************)
(* Proofs about PushGate, for every set of attempts, pushes and reviewers' *)
(* calls, every behaviour of the hook and every choice of failing steps.   *)
(***************************************************************************)
EXTENDS PushGate, TLAPS

-----------------------------------------------------------------------------
(* Records: what the operators on push records return *)

LEMMA NewActionType == NewAction \in PushRecord
  BY DEF NewAction, PushRecord

\* A verdict leaves a push record behind, with one verdict standing.
LEMMA DecidedType ==
  ASSUME NEW record \in PushRecord, NEW verb \in Verbs,
         NEW reviewer \in Reviews \union {System}
  PROVE  Decided(record, verb, reviewer) \in PushRecord
  BY DEF Decided, PushRecord, Verbs

LEMMA AdoptedType ==
  ASSUME NEW record \in PushRecord
  PROVE  Adopted(record) \in PushRecord
  BY DEF Adopted, PushRecord

LEMMA ErroredType ==
  ASSUME NEW record \in PushRecord
  PROVE  Errored(record) \in PushRecord
  BY DEF Errored, PushRecord

LEMMA AtCheckoutType ==
  ASSUME NEW record \in PushRecord, NEW exists \in BOOLEAN
  PROVE  AtCheckout(record, exists) \in PushRecord
  BY DEF AtCheckout, PushRecord

LEMMA BlockedType ==
  ASSUME NEW record \in PushRecord
  PROVE  Blocked(record) \in PushRecord
  BY DEF Blocked, PushRecord

LEMMA HookDecidedType ==
  ASSUME NEW record \in PushRecord, NEW hook
  PROVE  HookDecided(record, hook) \in PushRecord
  BY DEF HookDecided, PushRecord

LEMMA AfterChainIsStep ==
  ASSUME NEW t \in Attempts
  PROVE  AfterChain(t) \in {"clearBareClone", "audit"}
  BY DEF AfterChain

\* The chain goes on with a processor.
LEMMA NextProcessorIsProcessor ==
  ASSUME NEW p \in LocalProcessors
  PROVE  NextProcessor[p] \in Processors
  BY DEF LocalProcessors, Processors, NextProcessor, EarlyChecks, CheckoutReaders

\* Execute is left, and a failing step recorded, inside the typed state.
LEMMA FailAtType ==
  ASSUME TypeOK, NEW t \in Attempts, NEW next \in Running, FailAt(t, next)
  PROVE  /\ action' \in [Attempts -> PushRecord]
         /\ pc' \in [Attempts -> {"idle"} \union Running \union Ended]
  BY ErroredType DEF FailAt, TypeOK

-----------------------------------------------------------------------------
(* Type correctness *)

LEMMA ChainType ==
  ASSUME TypeOK, NEW t \in Attempts, Chain(t)
  PROVE  TypeOK'
<1> USE DEF storeVars, localVars, envVars, Goto, TypeOK
<1>1. CASE ProcessorPasses(t)
  <2>1. NextProcessor[pc[t]] \in Running
    BY <1>1, NextProcessorIsProcessor DEF ProcessorPasses, Running
  <2>. QED  BY <1>1, <2>1 DEF ProcessorPasses
<1>2. CASE ProcessorFails(t)
  BY <1>2, FailAtType, AfterChainIsStep DEF ProcessorFails, Running, AfterChainSteps
<1>3. CASE ParsePushUnnamed(t)
  BY <1>3 DEF ParsePushUnnamed, Ended
<1>4. CASE PullRemote(t)
  <2>1. AtCheckout(action[t], checkouts[target[t]] # Missing) \in PushRecord
    BY AtCheckoutType
  <2>. QED  BY <1>4, <2>1 DEF PullRemote, Running, InClone, AfterChainSteps
<1>5. CASE CloneStarts(t)
  BY <1>5 DEF CloneStarts, Running, InClone
<1>6. CASE CloneRefused(t)
  BY <1>6, FailAtType DEF CloneRefused, Running, InClone
<1>7. CASE CloneSucceeds(t)
  BY <1>7 DEF CloneSucceeds, Running, Processors, LocalProcessors, CheckoutReaders
<1>8. CASE CloneFails(t)
  BY <1>8, FailAtType DEF CloneFails, Running, InClone
<1>9. CASE DiscardClone(t)
  BY <1>9 DEF DiscardClone, Running, AfterChainSteps
<1>10. CASE AdoptAuthorised(t)
  <2>1. pushes[target[t]] \in PushRecord
    BY <1>10 DEF AdoptAuthorised, IsAuthorised
  <2>. QED
    BY <1>10, <2>1, AdoptedType, AfterChainIsStep
       DEF AdoptAuthorised, Running, AfterChainSteps
<1>11. CASE NotAuthorised(t)
  BY <1>11 DEF NotAuthorised, Running, Processors
<1>12. CASE GateReadFails(t)
  BY <1>12, FailAtType, AfterChainIsStep DEF GateReadFails, Running, AfterChainSteps
<1>13. CASE HookRuns(t)
  <2>1. action' \in [Attempts -> PushRecord]
    BY <1>13, HookDecidedType DEF HookRuns
  <2>. QED  BY <1>13, <2>1 DEF HookRuns, Running, Processors, LocalProcessors, CheckoutReaders
<1>14. CASE HookFails(t)
  BY <1>14, FailAtType, AfterChainIsStep DEF HookFails, Running, AfterChainSteps
<1>15. CASE BlockForAuth(t)
  <2>1. action' \in [Attempts -> PushRecord]
    BY <1>15, BlockedType DEF BlockForAuth
  <2>. QED  BY <1>15, <2>1, AfterChainIsStep DEF BlockForAuth, Running, AfterChainSteps
<1>. QED
  BY <1>1, <1>2, <1>3, <1>4, <1>5, <1>6, <1>7, <1>8, <1>9, <1>10, <1>11, <1>12,
     <1>13, <1>14, <1>15 DEF Chain

LEMMA StoreVerdictType ==
  ASSUME TypeOK, NEW p \in Ids, NEW record \in PushRecord, NEW verb \in Verbs,
         NEW reviewer \in Reviews \union {System},
         StoreVerdict(p, record, verb, reviewer)
  PROVE  /\ pushes' \in [Ids -> PushRecord \union {NoPush}]
         /\ granted' \subseteq Ids
<1>1. Decided(record, verb, reviewer) \in PushRecord
  BY DecidedType
<1>. QED  BY <1>1 DEF StoreVerdict, TypeOK

LEMMA WrapupType ==
  ASSUME TypeOK, NEW t \in Attempts, Wrapup(t)
  PROVE  TypeOK'
<1> USE DEF storeVars, localVars, envVars, Goto, TypeOK
<1>1. CASE ClearBareClone(t)
  BY <1>1 DEF ClearBareClone, Running, AfterChainSteps
<1>2. CASE ClearBareCloneFails(t)
  BY <1>2, FailAtType DEF ClearBareCloneFails, Running, AfterChainSteps
<1>3. CASE Audit(t)
  BY <1>3 DEF Audit, Running, AfterChainSteps
<1>4. CASE AutoVerdictReads(t)
  <2>1. pushes[target[t]] \in PushRecord
    BY <1>4 DEF AutoVerdictReads
  <2>. QED  BY <1>4, <2>1 DEF AutoVerdictReads, Running, AfterChainSteps
<1>5. CASE AutoVerdictWrites(t)
  <2>1. /\ pushes' \in [Ids -> PushRecord \union {NoPush}]
        /\ granted' \subseteq Ids
    BY <1>5, StoreVerdictType DEF AutoVerdictWrites, Verbs
  <2>. QED  BY <1>5, <2>1 DEF AutoVerdictWrites, Running, AfterChainSteps
<1>6. CASE AutoVerdictFails(t)
  BY <1>6 DEF AutoVerdictFails, Running, AfterChainSteps
<1>7. CASE Reply(t)
  BY <1>7, NewActionType DEF Reply, Ended
<1>. QED
  BY <1>1, <1>2, <1>3, <1>4, <1>5, <1>6, <1>7 DEF Wrapup

LEMMA ReviewType ==
  ASSUME TypeOK, NEW r \in Reviews, ReviewReads(r) \/ ReviewWrites(r) \/ ReviewFails(r)
  PROVE  TypeOK'
<1> USE DEF storeVars, localVars, TypeOK
<1>1. CASE ReviewReads(r)
  <2>1. pushes[reviews[r].push] \in PushRecord
    BY <1>1 DEF ReviewReads
  <2>. QED  BY <1>1, <2>1 DEF ReviewReads
<1>2. CASE ReviewWrites(r)
  <2>1. /\ pushes' \in [Ids -> PushRecord \union {NoPush}]
        /\ granted' \subseteq Ids
    BY <1>2, StoreVerdictType DEF ReviewWrites
  <2>. QED  BY <1>2, <2>1, NewActionType DEF ReviewWrites, Done
<1>3. CASE ReviewFails(r)
  BY <1>3, NewActionType DEF ReviewFails, Done
<1>. QED  BY <1>1, <1>2, <1>3

\* Every state of the gate is well typed; in particular a verdict is never
\* written from a record that was not there (requirePush).
THEOREM TypeCorrect == Spec => []TypeOK
<1>1. Init => TypeOK
  <2> SUFFICES ASSUME Init PROVE TypeOK
    OBVIOUS
  <2>1. reviews \in [Reviews -> [state : {"idle", "read", "done"}, verb : Verbs,
                                 push : Ids, seen : PushRecord]]
    BY NewActionType DEF Init, IdleReview, Verbs
  <2>. QED  BY <2>1, NewActionType, ConstantsAssumption DEF Init, TypeOK
<1>2. TypeOK /\ [Next]_vars => TypeOK'
  <2> SUFFICES ASSUME TypeOK, [Next]_vars PROVE TypeOK'
    OBVIOUS
  <2>1. ASSUME NEW t \in Attempts, Arrive(t) PROVE TypeOK'
    BY <2>1 DEF Arrive, Goto, TypeOK, storeVars, localVars, envVars,
       Running, Processors, LocalProcessors, EarlyChecks
  <2>2. ASSUME NEW t \in Attempts, Chain(t) PROVE TypeOK'
    BY <2>2, ChainType
  <2>3. ASSUME NEW t \in Attempts, Wrapup(t) PROVE TypeOK'
    BY <2>3, WrapupType
  <2>4. ASSUME NEW r \in Reviews, ReviewReads(r) \/ ReviewWrites(r) \/ ReviewFails(r)
        PROVE TypeOK'
    BY <2>4, ReviewType
  <2>5. CASE Crash
    BY <2>5, NewActionType, ConstantsAssumption DEF Crash, TypeOK, storeVars, Ended, Done
  <2>6. CASE UNCHANGED vars
    BY <2>6 DEF vars, TypeOK
  <2>. QED  BY <2>1, <2>2, <2>3, <2>4, <2>5, <2>6 DEF Next
<1>. QED  BY <1>1, <1>2, PTL DEF Spec

-----------------------------------------------------------------------------
(* What the record operators change, and what they keep *)

LEMMA ErroredFields ==
  ASSUME NEW record \in PushRecord
  PROVE  /\ Errored(record).error
         /\ Errored(record).allowPush = record.allowPush
         /\ Errored(record).authorised = record.authorised
         /\ Errored(record).canceled = record.canceled
         /\ Errored(record).rejected = record.rejected
         /\ Errored(record).proxyGitPath = record.proxyGitPath
         /\ Errored(record).attestation = record.attestation
  BY DEF Errored, PushRecord

LEMMA AtCheckoutFields ==
  ASSUME NEW record \in PushRecord, NEW exists \in BOOLEAN
  PROVE  /\ AtCheckout(record, exists).error = exists
         /\ AtCheckout(record, exists).proxyGitPath
         /\ AtCheckout(record, exists).allowPush = record.allowPush
         /\ AtCheckout(record, exists).authorised = record.authorised
         /\ AtCheckout(record, exists).canceled = record.canceled
         /\ AtCheckout(record, exists).rejected = record.rejected
         /\ AtCheckout(record, exists).attestation = record.attestation
  BY DEF AtCheckout, PushRecord

LEMMA BlockedFields ==
  ASSUME NEW record \in PushRecord
  PROVE  /\ Blocked(record).blocked
         /\ Blocked(record).allowPush = record.allowPush
         /\ Blocked(record).authorised = record.authorised
         /\ Blocked(record).canceled = record.canceled
         /\ Blocked(record).rejected = record.rejected
         /\ Blocked(record).proxyGitPath = record.proxyGitPath
         /\ Blocked(record).attestation = record.attestation
  BY DEF Blocked, PushRecord

LEMMA HookDecidedFields ==
  ASSUME NEW record \in PushRecord, NEW hook
  PROVE  /\ HookDecided(record, hook).allowPush = record.allowPush
         /\ HookDecided(record, hook).authorised = record.authorised
         /\ HookDecided(record, hook).canceled = record.canceled
         /\ HookDecided(record, hook).rejected = record.rejected
         /\ HookDecided(record, hook).proxyGitPath = record.proxyGitPath
         /\ HookDecided(record, hook).attestation = record.attestation
  BY DEF HookDecided, PushRecord

LEMMA AdoptedFields ==
  ASSUME NEW record \in PushRecord
  PROVE  /\ Adopted(record).allowPush
         /\ ~Adopted(record).blocked
         /\ Adopted(record).authorised = record.authorised
         /\ Adopted(record).canceled = record.canceled
         /\ Adopted(record).rejected = record.rejected
         /\ Adopted(record).proxyGitPath = record.proxyGitPath
         /\ Adopted(record).attestation = record.attestation
  BY DEF Adopted, PushRecord

LEMMA DecidedFields ==
  ASSUME NEW record \in PushRecord, NEW verb \in Verbs, NEW reviewer
  PROVE  /\ Decided(record, verb, reviewer).authorised <=> verb = "authorise"
         /\ Decided(record, verb, reviewer).rejected <=> verb = "reject"
         /\ Decided(record, verb, reviewer).canceled <=> verb = "cancel"
         /\ Decided(record, verb, reviewer).allowPush = record.allowPush
         /\ Decided(record, verb, reviewer).proxyGitPath = record.proxyGitPath
         /\ Decided(record, verb, reviewer).attestation =
               IF verb = "authorise" THEN reviewer ELSE record.attestation
  BY DEF Decided, PushRecord

LEMMA NewActionFields ==
  /\ ~NewAction.error /\ ~NewAction.blocked /\ ~NewAction.allowPush
  /\ ~NewAction.authorised /\ ~NewAction.canceled /\ ~NewAction.rejected
  /\ ~NewAction.proxyGitPath /\ NewAction.attestation = Nobody
  BY DEF NewAction

-----------------------------------------------------------------------------
(* Only approved pushes are forwarded *)

\* A step of one attempt that leaves the store alone keeps GateInv when the
\* record it leaves the attempt with respects it.
LEMMA GateStep ==
  ASSUME TypeOK, GateInv, NEW t \in Attempts, NEW record \in PushRecord, NEW next,
         UNCHANGED <<pushes, granted, target>>,
         action' = [action EXCEPT ![t] = record],
         pc' = [pc EXCEPT ![t] = next],
         record.authorised \/ record.allowPush \/ next = "forwarded"
            => target[t] \in granted,
         next \in {"discardClone"} \union AfterChainSteps
            => record.error \/ record.blocked \/ record.allowPush
  PROVE  GateInv'
<1>1. \A p \in Ids : IsAuthorised(p)' <=> IsAuthorised(p)
  BY DEF IsAuthorised
<1>2. \A a \in Attempts : a # t => action'[a] = action[a] /\ pc'[a] = pc[a]
  BY DEF TypeOK
<1>3. action'[t] = record /\ pc'[t] = next
  BY DEF TypeOK
<1>. QED  BY <1>1, <1>2, <1>3 DEF GateInv, NoUnreviewedForward

LEMMA ChainGate ==
  ASSUME TypeOK, GateInv, NEW t \in Attempts, Chain(t)
  PROVE  GateInv'
<1> USE DEF storeVars, localVars, envVars, Goto
<1>0. /\ action[t] \in PushRecord
      /\ action[t].authorised \/ action[t].allowPush => target[t] \in granted
  BY DEF TypeOK, GateInv
<1>a. action = [action EXCEPT ![t] = action[t]]
  BY DEF TypeOK
<1>b. Errored(action[t]) \in PushRecord
  BY <1>0, ErroredType
<1>c. ASSUME NEW next \in AfterChainSteps \union {"discardClone"}, FailAt(t, next),
             UNCHANGED <<storeVars, localVars>>
      PROVE  GateInv'
  <2>1. next # "forwarded"
    BY DEF AfterChainSteps
  <2>. QED  BY <1>0, <1>b, <1>c, <2>1, GateStep, ErroredFields DEF FailAt
<1>d. AfterChain(t) \in AfterChainSteps
  BY AfterChainIsStep DEF AfterChainSteps
<1>e. ASSUME NEW next, next \notin AfterChainSteps, next # "discardClone",
             next # "forwarded", UNCHANGED <<storeVars, localVars, action>>, Goto(t, next)
      PROVE  GateInv'
  BY <1>0, <1>a, <1>e, GateStep
<1>1. CASE ProcessorPasses(t)
  <2>1. NextProcessor[pc[t]] \in Processors
    BY <1>1, NextProcessorIsProcessor DEF ProcessorPasses
  <2>2. /\ NextProcessor[pc[t]] \notin AfterChainSteps
        /\ NextProcessor[pc[t]] # "discardClone"
        /\ NextProcessor[pc[t]] # "forwarded"
    BY <2>1 DEF Processors, LocalProcessors, EarlyChecks, CheckoutReaders, AfterChainSteps
  <2>. QED  BY <1>1, <1>e, <2>2 DEF ProcessorPasses
<1>2. CASE ProcessorFails(t)
  BY <1>2, <1>c, <1>d DEF ProcessorFails
<1>3. CASE ParsePushUnnamed(t)
  BY <1>3, <1>e DEF ParsePushUnnamed, AfterChainSteps
<1>4. CASE PullRemote(t)
  <2> DEFINE exists == checkouts[target[t]] # Missing
  <2>1. exists \in BOOLEAN
    OBVIOUS
  <2>2. AtCheckout(action[t], exists) \in PushRecord
    BY <1>0, <2>1, AtCheckoutType
  <2>3. /\ AtCheckout(action[t], exists).error = exists
        /\ AtCheckout(action[t], exists).allowPush = action[t].allowPush
        /\ AtCheckout(action[t], exists).authorised = action[t].authorised
    BY <1>0, <2>1, AtCheckoutFields
  <2>4. action' = [action EXCEPT ![t] = AtCheckout(action[t], exists)]
    BY <1>4 DEF PullRemote
  <2>5. CASE exists
    <3>1. pc' = [pc EXCEPT ![t] = "audit"]
      BY <1>4, <2>5 DEF PullRemote
    <3>2. AtCheckout(action[t], exists).error
      BY <2>3, <2>5
    <3>3. UNCHANGED <<pushes, granted, target>>
      BY <1>4 DEF PullRemote
    <3> HIDE DEF exists
    <3>. QED  BY <1>0, <2>2, <2>3, <2>4, <3>1, <3>2, <3>3, GateStep
  <2>6. CASE ~exists
    <3>1. pc' = [pc EXCEPT ![t] = "clone"]
      BY <1>4, <2>6 DEF PullRemote
    <3> HIDE DEF exists
    <3>. QED
      BY <1>0, <1>4, <2>2, <2>3, <2>4, <3>1, GateStep DEF PullRemote, AfterChainSteps
  <2>. QED  BY <2>5, <2>6
<1>5. CASE CloneStarts(t)
  BY <1>5, <1>e DEF CloneStarts, AfterChainSteps
<1>6. CASE CloneRefused(t)
  BY <1>6, <1>c DEF CloneRefused
<1>7. CASE CloneSucceeds(t)
  BY <1>0, <1>a, <1>7, GateStep DEF CloneSucceeds, AfterChainSteps
<1>8. CASE CloneFails(t)
  BY <1>8, <1>c DEF CloneFails
<1>9. CASE DiscardClone(t)
  <2>1. action[t].error \/ action[t].blocked \/ action[t].allowPush
    BY <1>9 DEF DiscardClone, GateInv
  <2>. QED  BY <1>0, <1>a, <1>9, <2>1, GateStep DEF DiscardClone
<1>10. CASE AdoptAuthorised(t)
  <2>1. /\ pushes[target[t]] \in PushRecord
        /\ target[t] \in granted
    BY <1>10 DEF AdoptAuthorised, IsAuthorised, TypeOK, GateInv
  <2>2. AfterChain(t) # "forwarded"
    BY AfterChainIsStep
  <2>. QED
    BY <1>10, <2>1, <2>2, AdoptedType, AdoptedFields, GateStep DEF AdoptAuthorised
<1>11. CASE NotAuthorised(t)
  BY <1>11, <1>e DEF NotAuthorised, AfterChainSteps
<1>12. CASE GateReadFails(t)
  BY <1>12, <1>c, <1>d DEF GateReadFails
<1>13. CASE HookRuns(t)
  <2>1. PICK hook : action' = [action EXCEPT ![t] = HookDecided(action[t], hook)]
    BY <1>13 DEF HookRuns
  <2> DEFINE decided == HookDecided(action[t], hook)
  <2>2. decided \in PushRecord
    BY <1>0, HookDecidedType
  <2>3. decided.allowPush = action[t].allowPush /\ decided.authorised = action[t].authorised
    BY <1>0, HookDecidedFields
  <2> HIDE DEF decided
  <2>4. action' = [action EXCEPT ![t] = decided]
    BY <2>1 DEF decided
  <2>. QED
    BY <1>0, <1>13, <2>2, <2>3, <2>4, GateStep DEF HookRuns, AfterChainSteps
<1>14. CASE HookFails(t)
  BY <1>14, <1>c, <1>d DEF HookFails
<1>15. CASE BlockForAuth(t)
  <2>2. AfterChain(t) # "forwarded"
    BY AfterChainIsStep
  <2>. QED
    BY <1>0, <1>15, <2>2, BlockedType, BlockedFields, GateStep DEF BlockForAuth
<1>. QED
  BY <1>1, <1>2, <1>3, <1>4, <1>5, <1>6, <1>7, <1>8, <1>9, <1>10, <1>11, <1>12,
     <1>13, <1>14, <1>15 DEF Chain

\* A verdict of the store keeps GateInv when it decides a record of its push:
\* only "authorise" authorises, and it grants.
LEMMA VerdictGate ==
  ASSUME TypeOK, GateInv, NEW p \in Ids, NEW record \in PushRecord, NEW verb \in Verbs,
         NEW reviewer \in Reviews \union {System},
         StoreVerdict(p, record, verb, reviewer)
  PROVE  /\ \A q \in Ids : IsAuthorised(q)' => q \in granted'
         /\ granted \subseteq granted'
<1>1. Decided(record, verb, reviewer).authorised <=> verb = "authorise"
  BY DecidedFields
<1>2. pushes'[p] = Decided(record, verb, reviewer)
      /\ \A q \in Ids : q # p => pushes'[q] = pushes[q]
  BY DEF StoreVerdict, TypeOK
<1>3. granted \subseteq granted' /\ (verb = "authorise" => p \in granted')
  BY DEF StoreVerdict
<1>. QED  BY <1>1, <1>2, <1>3 DEF IsAuthorised, GateInv

LEMMA WrapupGate ==
  ASSUME TypeOK, GateInv, NEW t \in Attempts, Wrapup(t)
  PROVE  GateInv'
<1> USE DEF storeVars, localVars, envVars, Goto
<1>0. /\ action[t] \in PushRecord
      /\ target[t] \in Ids
      /\ action[t].authorised \/ action[t].allowPush => target[t] \in granted
  BY DEF TypeOK, GateInv
<1>a. action = [action EXCEPT ![t] = action[t]]
  BY DEF TypeOK
<1>b. pc[t] \in AfterChainSteps
  BY DEF Wrapup, ClearBareClone, ClearBareCloneFails, Audit, AutoVerdictReads,
     AutoVerdictWrites, AutoVerdictFails, Reply, AfterChainSteps
<1>c. action[t].error \/ action[t].blocked \/ action[t].allowPush
  BY <1>b DEF GateInv
<1>1. CASE ClearBareClone(t)
  BY <1>0, <1>a, <1>c, <1>1, GateStep DEF ClearBareClone
<1>2. CASE ClearBareCloneFails(t)
  <2>1. Errored(action[t]) \in PushRecord
    BY <1>0, ErroredType
  <2>. QED
    BY <1>0, <1>2, <2>1, ErroredFields, GateStep DEF ClearBareCloneFails, FailAt
<1>3. CASE Audit(t)
  <2>1. PICK next \in {"autoVerdict", "reply"} : pc' = [pc EXCEPT ![t] = next]
    BY <1>3 DEF Audit
  <2>2. UNCHANGED <<granted, action, target>>
    BY <1>3 DEF Audit
  <2>3. \A q \in Ids : IsAuthorised(q)' => q \in granted
    BY <1>0, <1>3 DEF Audit, IsAuthorised, TypeOK, GateInv
  <2>. QED
    BY <1>b, <2>1, <2>2, <2>3 DEF GateInv, NoUnreviewedForward, AfterChainSteps, TypeOK
<1>4. CASE AutoVerdictReads(t)
  BY <1>0, <1>a, <1>c, <1>4, GateStep DEF AutoVerdictReads
<1>5. CASE AutoVerdictWrites(t)
  <2>1. \A q \in Ids : IsAuthorised(q)' => q \in granted'
    BY <1>0, <1>5, VerdictGate DEF AutoVerdictWrites, TypeOK, Verbs
  <2>2. granted \subseteq granted'
    BY <1>5 DEF AutoVerdictWrites, StoreVerdict
  <2>3. UNCHANGED <<action, target>> /\ pc' = [pc EXCEPT ![t] = "reply"]
    BY <1>5 DEF AutoVerdictWrites
  <2>. QED
    BY <1>c, <2>1, <2>2, <2>3 DEF GateInv, NoUnreviewedForward, TypeOK
<1>6. CASE AutoVerdictFails(t)
  BY <1>0, <1>a, <1>c, <1>6, GateStep DEF AutoVerdictFails
<1>7. CASE Reply(t)
  <2>1. /\ ~NewAction.authorised /\ ~NewAction.allowPush /\ NewAction \in PushRecord
    BY NewActionFields, NewActionType
  <2>2. PICK next \in {"denied", "forwarded"} :
           /\ pc' = [pc EXCEPT ![t] = next]
           /\ next = "forwarded" => ~action[t].error /\ ~action[t].blocked
    BY <1>7 DEF Reply
  <2>3. next = "forwarded" => target[t] \in granted
    BY <1>0, <1>c, <2>2
  <2>4. next \notin {"discardClone"} \union AfterChainSteps
    BY DEF AfterChainSteps
  <2>5. action' = [action EXCEPT ![t] = NewAction] /\ UNCHANGED <<pushes, granted, target>>
    BY <1>7 DEF Reply
  <2> HIDE DEF NewAction
  <2>. QED  BY <2>1, <2>2, <2>3, <2>4, <2>5, GateStep
<1>. QED
  BY <1>1, <1>2, <1>3, <1>4, <1>5, <1>6, <1>7 DEF Wrapup

LEMMA ReviewGate ==
  ASSUME TypeOK, GateInv, NEW r \in Reviews,
         ReviewReads(r) \/ ReviewWrites(r) \/ ReviewFails(r)
  PROVE  GateInv'
<1> USE DEF storeVars, localVars
<1>1. UNCHANGED <<pc, action, target>>
  BY DEF ReviewReads, ReviewWrites, ReviewFails
<1>2. CASE ReviewReads(r) \/ ReviewFails(r)
  <2>1. UNCHANGED <<pushes, granted>>
    BY <1>2 DEF ReviewReads, ReviewFails
  <2>. QED  BY <1>1, <2>1 DEF GateInv, NoUnreviewedForward, IsAuthorised
<1>3. CASE ReviewWrites(r)
  <2>1. /\ \A q \in Ids : IsAuthorised(q)' => q \in granted'
        /\ granted \subseteq granted'
    BY <1>3, VerdictGate DEF ReviewWrites, TypeOK
  <2>. QED  BY <1>1, <2>1 DEF GateInv, NoUnreviewedForward, TypeOK
<1>. QED  BY <1>2, <1>3

LEMMA GateInvariant == Spec => []GateInv
<1>1. Init => GateInv
  BY NewActionFields DEF Init, GateInv, NoUnreviewedForward, IsAuthorised,
     AfterChainSteps
<1>2. TypeOK /\ GateInv /\ [Next]_vars => GateInv'
  <2> SUFFICES ASSUME TypeOK, GateInv, [Next]_vars PROVE GateInv'
    OBVIOUS
  <2>1. ASSUME NEW t \in Attempts, Arrive(t) PROVE GateInv'
    <3>1. /\ action = [action EXCEPT ![t] = action[t]]
          /\ action[t] \in PushRecord
          /\ action[t].authorised \/ action[t].allowPush => target[t] \in granted
      BY DEF TypeOK, GateInv
    <3>. QED
      BY <2>1, <3>1, GateStep DEF Arrive, Goto, storeVars, localVars, AfterChainSteps
  <2>2. ASSUME NEW t \in Attempts, Chain(t) PROVE GateInv'
    BY <2>2, ChainGate
  <2>3. ASSUME NEW t \in Attempts, Wrapup(t) PROVE GateInv'
    BY <2>3, WrapupGate
  <2>4. ASSUME NEW r \in Reviews, ReviewReads(r) \/ ReviewWrites(r) \/ ReviewFails(r)
        PROVE GateInv'
    BY <2>4, ReviewGate
  <2>5. CASE Crash
    <3>1. UNCHANGED <<pushes, granted, target>> /\ action' = [t \in Attempts |-> NewAction]
      BY <2>5 DEF Crash, storeVars
    <3>2. \A t \in Attempts : pc'[t] \in {"idle", "lost"} \union Ended
      BY <2>5 DEF Crash, TypeOK
    <3>3. \A t \in Attempts : pc'[t] = "forwarded" => pc[t] = "forwarded"
      BY <2>5 DEF Crash
    <3>4. \A t \in Attempts : pc'[t] \notin {"discardClone"} \union AfterChainSteps
      BY <3>2 DEF Ended, AfterChainSteps
    <3>5. ~NewAction.authorised /\ ~NewAction.allowPush
      BY NewActionFields
    <3> HIDE DEF NewAction
    <3>. QED
      BY <3>1, <3>3, <3>4, <3>5 DEF GateInv, NoUnreviewedForward, IsAuthorised
  <2>6. CASE UNCHANGED vars
    BY <2>6 DEF vars, GateInv, NoUnreviewedForward, IsAuthorised
  <2>. QED  BY <2>1, <2>2, <2>3, <2>4, <2>5, <2>6 DEF Next
<1>. QED  BY <1>1, <1>2, TypeCorrect, PTL DEF Spec

\* No push reaches the upstream that was not authorised, by a reviewer or for
\* the hook's approval, whatever fails and however the steps interleave.
THEOREM OnlyReviewedForwarded == Spec => []NoUnreviewedForward
<1>1. GateInv => NoUnreviewedForward
  BY DEF GateInv
<1>. QED  BY <1>1, GateInvariant, PTL

-----------------------------------------------------------------------------
(* The records are sound *)

LEMMA NewActionSound ==
  Sound(NewAction) /\ ~NewAction.rejected /\ ~NewAction.canceled
  BY DEF Sound, OneVerdict, Attested, NewAction

\* What an attempt does to its own record keeps it sound.
LEMMA AttemptKeepsSound ==
  ASSUME NEW record \in PushRecord, NEW result \in PushRecord, Sound(record),
         result.authorised = record.authorised, result.canceled = record.canceled,
         result.rejected = record.rejected, result.allowPush = record.allowPush,
         result.attestation = record.attestation
  PROVE  Sound(result)
  BY DEF Sound, OneVerdict, Attested

\* Letting an authorised push through keeps its record sound, and unrefused.
LEMMA AdoptedSound ==
  ASSUME NEW record \in PushRecord, Sound(record), record.authorised
  PROVE  Sound(Adopted(record)) /\ ~Adopted(record).rejected /\ ~Adopted(record).canceled
<1> DEFINE result == Adopted(record)
<1>1. /\ result.authorised = record.authorised /\ result.rejected = record.rejected
      /\ result.canceled = record.canceled
      /\ result.attestation = record.attestation
  BY AdoptedFields
<1> HIDE DEF result
<1>2. Sound(result) /\ ~result.rejected /\ ~result.canceled
  BY <1>1 DEF Sound, OneVerdict, Attested
<1>. QED  BY <1>2 DEF result

\* A verdict, whatever record it was reached on, leaves exactly one standing, and
\* whoever authorises is named.
LEMMA DecidedSound ==
  ASSUME NEW record \in PushRecord, Sound(record), NEW verb \in Verbs,
         NEW reviewer \in Reviews \union {System}
  PROVE  Sound(Decided(record, verb, reviewer))
<1> DEFINE result == Decided(record, verb, reviewer)
<1>1. /\ result.authorised <=> verb = "authorise"
      /\ result.rejected <=> verb = "reject"
      /\ result.canceled <=> verb = "cancel"
      /\ result.allowPush = record.allowPush
      /\ result.attestation = IF verb = "authorise" THEN reviewer ELSE record.attestation
  BY DecidedFields
<1>2. reviewer # Nobody
  BY ConstantsAssumption
<1> HIDE DEF result
<1>3. Sound(result)
  BY <1>1, <1>2 DEF Sound, OneVerdict, Attested
<1>. QED  BY <1>3 DEF result

\* A step of one attempt that leaves the store and the reviewers alone keeps
\* RecordInv when it leaves the attempt with a sound record.
LEMMA RecordStep ==
  ASSUME TypeOK, RecordInv, NEW t \in Attempts, NEW record,
         UNCHANGED <<pushes, seen, reviews>>,
         action' = [action EXCEPT ![t] = record],
         Sound(record), ~record.rejected, ~record.canceled
  PROVE  RecordInv'
<1>1. action'[t] = record /\ \A a \in Attempts : a # t => action'[a] = action[a]
  BY DEF TypeOK
<1>. QED  BY <1>1 DEF RecordInv

LEMMA ChainRecords ==
  ASSUME TypeOK, RecordInv, NEW t \in Attempts, Chain(t)
  PROVE  RecordInv'
<1> USE DEF storeVars, localVars, envVars
<1>0. /\ action[t] \in PushRecord
      /\ Sound(action[t]) /\ ~action[t].rejected /\ ~action[t].canceled
  BY DEF TypeOK, RecordInv
<1>a. ASSUME UNCHANGED <<pushes, seen, reviews, action>> PROVE RecordInv'
  BY <1>a DEF RecordInv
<1>b. Sound(Errored(action[t])) /\ ~Errored(action[t]).rejected /\ ~Errored(action[t]).canceled
  BY <1>0, ErroredType, ErroredFields, AttemptKeepsSound
<1>c. ASSUME NEW next, FailAt(t, next), UNCHANGED <<pushes, seen, reviews>> PROVE RecordInv'
  BY <1>b, <1>c, RecordStep DEF FailAt
<1>1. CASE \/ ProcessorPasses(t) \/ ParsePushUnnamed(t) \/ CloneStarts(t)
           \/ CloneSucceeds(t) \/ DiscardClone(t) \/ NotAuthorised(t)
  BY <1>1, <1>a DEF ProcessorPasses, ParsePushUnnamed, CloneStarts, CloneSucceeds,
     DiscardClone, NotAuthorised
<1>2. CASE \/ ProcessorFails(t) \/ CloneRefused(t) \/ CloneFails(t)
           \/ GateReadFails(t) \/ HookFails(t)
  BY <1>2, <1>c DEF ProcessorFails, CloneRefused, CloneFails, GateReadFails, HookFails
<1>3. CASE PullRemote(t)
  <2> DEFINE record == AtCheckout(action[t], checkouts[target[t]] # Missing)
  <2>1. Sound(record) /\ ~record.rejected /\ ~record.canceled
    BY <1>0, AtCheckoutType, AtCheckoutFields, AttemptKeepsSound
  <2>2. action' = [action EXCEPT ![t] = record]
    BY <1>3 DEF PullRemote
  <2> HIDE DEF record
  <2>. QED  BY <1>3, <2>1, <2>2, RecordStep DEF PullRemote
<1>4. CASE AdoptAuthorised(t)
  <2>1. /\ pushes[target[t]] \in PushRecord /\ pushes[target[t]].authorised
        /\ Sound(pushes[target[t]])
    BY <1>4 DEF AdoptAuthorised, IsAuthorised, TypeOK, RecordInv
  <2>. QED  BY <1>4, <2>1, AdoptedSound, RecordStep DEF AdoptAuthorised
<1>5. CASE HookRuns(t)
  <2>1. PICK hook : action' = [action EXCEPT ![t] = HookDecided(action[t], hook)]
    BY <1>5 DEF HookRuns
  <2> DEFINE record == HookDecided(action[t], hook)
  <2>2. Sound(record) /\ ~record.rejected /\ ~record.canceled
    BY <1>0, HookDecidedType, HookDecidedFields, AttemptKeepsSound
  <2>3. action' = [action EXCEPT ![t] = record]
    BY <2>1
  <2> HIDE DEF record
  <2>. QED  BY <1>5, <2>2, <2>3, RecordStep DEF HookRuns
<1>6. CASE BlockForAuth(t)
  <2> DEFINE record == Blocked(action[t])
  <2>1. Sound(record) /\ ~record.rejected /\ ~record.canceled
    BY <1>0, BlockedType, BlockedFields, AttemptKeepsSound
  <2>2. action' = [action EXCEPT ![t] = record]
    BY <1>6 DEF BlockForAuth
  <2> HIDE DEF record
  <2>. QED  BY <1>6, <2>1, <2>2, RecordStep DEF BlockForAuth
<1>. QED  BY <1>1, <1>2, <1>3, <1>4, <1>5, <1>6 DEF Chain

LEMMA VerdictRecords ==
  ASSUME TypeOK, RecordInv, NEW p \in Ids, NEW record \in PushRecord, Sound(record),
         NEW verb \in Verbs, NEW reviewer \in Reviews \union {System},
         StoreVerdict(p, record, verb, reviewer)
  PROVE  \A q \in Ids : pushes'[q] # NoPush => Sound(pushes'[q])
<1>1. Sound(Decided(record, verb, reviewer))
  BY DecidedSound
<1>2. /\ pushes'[p] = Decided(record, verb, reviewer)
      /\ \A q \in Ids : q # p => pushes'[q] = pushes[q]
  BY DEF StoreVerdict, TypeOK
<1>. QED  BY <1>1, <1>2 DEF RecordInv

LEMMA WrapupRecords ==
  ASSUME TypeOK, RecordInv, NEW t \in Attempts, Wrapup(t)
  PROVE  RecordInv'
<1> USE DEF storeVars, localVars, envVars
<1>0. /\ action[t] \in PushRecord /\ target[t] \in Ids
      /\ Sound(action[t]) /\ ~action[t].rejected /\ ~action[t].canceled
  BY DEF TypeOK, RecordInv
<1>1. CASE ClearBareClone(t) \/ AutoVerdictFails(t)
  BY <1>1 DEF ClearBareClone, AutoVerdictFails, RecordInv
<1>2. CASE ClearBareCloneFails(t)
  <2>1. /\ Sound(Errored(action[t]))
        /\ ~Errored(action[t]).rejected /\ ~Errored(action[t]).canceled
    BY <1>0, ErroredType, ErroredFields, AttemptKeepsSound
  <2>. QED  BY <1>2, <2>1, RecordStep DEF ClearBareCloneFails, FailAt
<1>3. CASE Audit(t)
  <2>1. \A q \in Ids : pushes'[q] # NoPush => Sound(pushes'[q])
    BY <1>0, <1>3 DEF Audit, TypeOK, RecordInv
  <2>. QED  BY <1>3, <2>1 DEF Audit, RecordInv
<1>4. CASE AutoVerdictReads(t)
  <2>1. Sound(pushes[target[t]])
    BY <1>0, <1>4 DEF AutoVerdictReads, RecordInv
  <2>2. \A a \in Attempts : Sound(seen'[a])
    BY <1>4, <2>1 DEF AutoVerdictReads, TypeOK, RecordInv
  <2>. QED  BY <1>4, <2>2 DEF AutoVerdictReads, RecordInv
<1>5. CASE AutoVerdictWrites(t)
  <2>1. \A q \in Ids : pushes'[q] # NoPush => Sound(pushes'[q])
    BY <1>0, <1>5, VerdictRecords DEF AutoVerdictWrites, TypeOK, RecordInv, Verbs
  <2>. QED  BY <1>5, <2>1 DEF AutoVerdictWrites, RecordInv
<1>6. CASE Reply(t)
  <2>1. /\ action' = [action EXCEPT ![t] = NewAction]
        /\ seen' = [seen EXCEPT ![t] = NewAction]
        /\ UNCHANGED <<pushes, reviews>>
    BY <1>6 DEF Reply
  <2>2. Sound(NewAction) /\ ~NewAction.rejected /\ ~NewAction.canceled
    BY NewActionSound
  <2> HIDE DEF NewAction
  <2>. QED  BY <2>1, <2>2 DEF RecordInv, TypeOK
<1>. QED  BY <1>1, <1>2, <1>3, <1>4, <1>5, <1>6 DEF Wrapup

LEMMA ReviewRecords ==
  ASSUME TypeOK, RecordInv, NEW r \in Reviews,
         ReviewReads(r) \/ ReviewWrites(r) \/ ReviewFails(r)
  PROVE  RecordInv'
<1> USE DEF storeVars, localVars
<1>1. UNCHANGED <<action, seen>>
  BY DEF ReviewReads, ReviewWrites, ReviewFails
<1>2. Sound(NewAction)
  BY NewActionSound
<1>3. CASE ReviewReads(r)
  <2>1. /\ reviews'[r].seen = pushes[reviews[r].push]
        /\ \A q \in Reviews : q # r => reviews'[q] = reviews[q]
    BY <1>3 DEF ReviewReads, TypeOK
  <2>2. Sound(pushes[reviews[r].push])
    BY <1>3 DEF ReviewReads, RecordInv, TypeOK
  <2>. QED  BY <1>1, <1>3, <2>1, <2>2 DEF ReviewReads, RecordInv
<1>4. CASE ReviewWrites(r) \/ ReviewFails(r)
  <2>1. /\ reviews'[r].seen = NewAction
        /\ \A q \in Reviews : q # r => reviews'[q] = reviews[q]
    BY <1>4 DEF ReviewWrites, ReviewFails, Done, TypeOK
  <2>2. \A q \in Ids : pushes'[q] # NoPush => Sound(pushes'[q])
    BY <1>4, VerdictRecords DEF ReviewWrites, ReviewFails, TypeOK, RecordInv
  <2> HIDE DEF NewAction
  <2>. QED  BY <1>1, <1>2, <2>1, <2>2 DEF RecordInv
<1>. QED  BY <1>3, <1>4

LEMMA RecordsInvariant == Spec => []RecordInv
<1>1. Init => RecordInv
  BY NewActionSound DEF Init, RecordInv, IdleReview
<1>2. TypeOK /\ RecordInv /\ [Next]_vars => RecordInv'
  <2> SUFFICES ASSUME TypeOK, RecordInv, [Next]_vars PROVE RecordInv'
    OBVIOUS
  <2>1. ASSUME NEW t \in Attempts, Arrive(t) PROVE RecordInv'
    BY <2>1 DEF Arrive, storeVars, localVars, envVars, RecordInv
  <2>2. ASSUME NEW t \in Attempts, Chain(t) PROVE RecordInv'
    BY <2>2, ChainRecords
  <2>3. ASSUME NEW t \in Attempts, Wrapup(t) PROVE RecordInv'
    BY <2>3, WrapupRecords
  <2>4. ASSUME NEW r \in Reviews, ReviewReads(r) \/ ReviewWrites(r) \/ ReviewFails(r)
        PROVE RecordInv'
    BY <2>4, ReviewRecords
  <2>5. CASE Crash
    <3>1. \A r \in Reviews : reviews'[r].seen \in {NewAction, reviews[r].seen}
      BY <2>5 DEF Crash, Done
    <3>2. /\ \A t \in Attempts : action'[t] = NewAction /\ seen'[t] = NewAction
          /\ UNCHANGED pushes
      BY <2>5 DEF Crash, storeVars
    <3>3. Sound(NewAction) /\ ~NewAction.rejected /\ ~NewAction.canceled
      BY NewActionSound
    <3> HIDE DEF NewAction
    <3>. QED  BY <3>1, <3>2, <3>3 DEF RecordInv
  <2>6. CASE UNCHANGED vars
    BY <2>6 DEF vars, RecordInv
  <2>. QED  BY <2>1, <2>2, <2>3, <2>4, <2>5, <2>6 DEF Next
<1>. QED  BY <1>1, <1>2, TypeCorrect, PTL DEF Spec

\* No interleaving of verdicts, stale write-backs, audits and crashes leaves two
\* verdicts standing on one stored push.
THEOREM OneVerdictStands == Spec => []AtMostOneVerdict
<1>1. RecordInv => AtMostOneVerdict
  BY DEF RecordInv, AtMostOneVerdict, Records, Sound
<1>. QED  BY <1>1, RecordsInvariant, PTL

\* The audit trail of a push that is authorised, or was let through, names who
\* authorised it.
THEOREM AuditTrailIsAttested == Spec => []AuthorisedIsAttested
<1>1. RecordInv => AuthorisedIsAttested
  BY DEF RecordInv, AuthorisedIsAttested, Records, Sound
<1>. QED  BY <1>1, RecordsInvariant, PTL

-----------------------------------------------------------------------------
(* Checkouts have owners *)

\* A step of one attempt that touches neither records nor reviewers keeps OwnerInv
\* when it leaves the attempt with a path, and checkouts to attempts that hold them.
LEMMA OwnerStep ==
  ASSUME TypeOK, OwnerInv, NEW t \in Attempts, NEW record, NEW next,
         UNCHANGED <<pushes, target, seen, reviews, crashes>>,
         action' = [action EXCEPT ![t] = record],
         pc' = [pc EXCEPT ![t] = next],
         cleanupClone \ {t} \subseteq cleanupClone',
         next \in InCheckout => t \in cleanupClone',
         next \in Running \ (EarlyChecks \union {"pullRemote"}) => HasPath(record),
         next # "autoWrite",
         NEW folder, checkouts' = [checkouts EXCEPT ![target[t]] = folder],
         \/ folder = Missing
         \/ folder = t /\ next \in HoldsCheckout
         \/ folder = checkouts[target[t]] /\ folder # t
  PROVE  OwnerInv'
<1>1. \A a \in Attempts : a # t => action'[a] = action[a] /\ pc'[a] = pc[a]
  BY DEF TypeOK
<1>2. action'[t] = record /\ pc'[t] = next
  BY DEF TypeOK
<1>3. ASSUME NEW a \in Attempts
      PROVE  /\ pc'[a] \in InCheckout => a \in cleanupClone'
             /\ pc'[a] \in Running \ (EarlyChecks \union {"pullRemote"}) => HasPath(action'[a])
             /\ pc'[a] = "autoWrite" => HasPath(seen'[a])
  BY <1>1, <1>2 DEF OwnerInv
<1>4. ASSUME crashes' = 0, NEW p \in Ids, checkouts'[p] # Missing
      PROVE  target'[checkouts'[p]] = p /\ pc'[checkouts'[p]] \in HoldsCheckout
  <2>1. CASE p = target[t] /\ folder = t
    BY <1>2, <1>4, <2>1, ConstantsAssumption DEF TypeOK
  <2>2. CASE ~(p = target[t] /\ folder = t)
    <3>1. checkouts'[p] = checkouts[p] /\ checkouts[p] # Missing
      BY <1>4, <2>2 DEF TypeOK
    <3>2. /\ checkouts[p] \in Attempts /\ target[checkouts[p]] = p
          /\ pc[checkouts[p]] \in HoldsCheckout
      BY <1>4, <3>1 DEF OwnerInv, TypeOK
    <3>3. checkouts[p] # t
      BY <1>4, <2>2, <3>1, <3>2 DEF TypeOK
    <3>. QED  BY <1>1, <3>1, <3>2, <3>3
  <2>. QED  BY <2>1, <2>2
<1>. QED  BY <1>3, <1>4 DEF OwnerInv

\* A step that leaves the folders alone: what the attempt held, it still holds.
LEMMA OwnerStays ==
  ASSUME TypeOK, OwnerInv, NEW t \in Attempts, NEW record, NEW next,
         UNCHANGED <<pushes, target, seen, reviews, crashes, cleanupClone, checkouts>>,
         action' = [action EXCEPT ![t] = record],
         pc' = [pc EXCEPT ![t] = next],
         next \in InCheckout => t \in cleanupClone,
         next \in Running \ (EarlyChecks \union {"pullRemote"}) => HasPath(record),
         next # "autoWrite",
         pc[t] \in HoldsCheckout => next \in HoldsCheckout
  PROVE  OwnerInv'
<1>1. \A a \in Attempts : a # t => action'[a] = action[a] /\ pc'[a] = pc[a]
  BY DEF TypeOK
<1>2. action'[t] = record /\ pc'[t] = next
  BY DEF TypeOK
<1>3. ASSUME NEW a \in Attempts
      PROVE  /\ pc'[a] \in InCheckout => a \in cleanupClone'
             /\ pc'[a] \in Running \ (EarlyChecks \union {"pullRemote"}) => HasPath(action'[a])
             /\ pc'[a] = "autoWrite" => HasPath(seen'[a])
  BY <1>1, <1>2 DEF OwnerInv
<1>4. ASSUME crashes' = 0, NEW p \in Ids, checkouts'[p] # Missing
      PROVE  target'[checkouts'[p]] = p /\ pc'[checkouts'[p]] \in HoldsCheckout
  BY <1>1, <1>2, <1>4 DEF OwnerInv, TypeOK
<1>. QED  BY <1>3, <1>4 DEF OwnerInv

\* Where the chain is left after a clone of its own, it cleans up.
LEMMA ChainOwner ==
  ASSUME CleansUp, TypeOK, OwnerInv, NEW t \in Attempts, Chain(t)
  PROVE  OwnerInv'
<1> USE DEF storeVars, localVars, envVars, Goto
<1> DEFINE Past == Running \ (EarlyChecks \union {"pullRemote"})
<1>0. /\ action[t] \in PushRecord /\ target[t] \in Ids
      /\ action = [action EXCEPT ![t] = action[t]]
  BY DEF TypeOK
<1>a. /\ pc[t] \in InCheckout => t \in cleanupClone
      /\ pc[t] \in Past => HasPath(action[t])
  BY DEF OwnerInv
<1>b. InCheckout \subseteq Past \intersect HoldsCheckout
      /\ {"cloning", "discardClone"} \subseteq Past \intersect HoldsCheckout
      /\ "clearBareClone" \in HoldsCheckout /\ {"clone", "audit"} \subseteq Past
      /\ EarlyChecks \intersect HoldsCheckout = {} /\ {"clone", "audit", "pullRemote"} \intersect HoldsCheckout = {}
      /\ {"clone", "audit", "clearBareClone", "cloning", "discardClone", "autoWrite", "pullRemote",
          "denied"} \intersect InCheckout = {}
      /\ EarlyChecks \intersect InCheckout = {} /\ "denied" \notin Running
      /\ EarlyChecks \intersect {"autoWrite", "audit", "clearBareClone"} = {}
      /\ LocalProcessors \subseteq EarlyChecks \union InCheckout
      /\ {"preReceive", "getDiff", "checkIfWaitingAuth", "blockForAuth", "writePack"} \subseteq InCheckout
  BY DEF InCheckout, HoldsCheckout, CheckoutReaders, Running, Processors, LocalProcessors,
     EarlyChecks, InClone, AfterChainSteps
<1>c. Errored(action[t]) \in PushRecord /\ (HasPath(Errored(action[t])) <=> HasPath(action[t]))
  BY <1>0, ErroredType, ErroredFields DEF HasPath
<1>d. pc[t] \in InCheckout => AfterChain(t) = "clearBareClone"
  BY <1>a DEF AfterChain
<1>e. ASSUME pc[t] \in InCheckout, FailAt(t, AfterChain(t)),
             UNCHANGED <<storeVars, checkouts, localVars, envVars>>
      PROVE  OwnerInv'
  BY <1>a, <1>b, <1>c, <1>d, <1>e, OwnerStays DEF FailAt
<1>f. ASSUME NEW record, HasPath(record), action' = [action EXCEPT ![t] = record],
             NEW next \in InCheckout, Goto(t, next), pc[t] \in InCheckout,
             UNCHANGED <<storeVars, checkouts, localVars, envVars>>
      PROVE  OwnerInv'
  BY <1>a, <1>b, <1>f, OwnerStays
<1>1. CASE ProcessorPasses(t)
  <2>1. CASE pc[t] \in EarlyChecks
    <3>1. NextProcessor[pc[t]] \in EarlyChecks \union {"pullRemote"}
      BY <2>1 DEF EarlyChecks, NextProcessor
    <3>. QED  BY <1>0, <1>1, <1>b, <2>1, <3>1, OwnerStays DEF ProcessorPasses
  <2>2. CASE pc[t] \notin EarlyChecks
    <3>1. pc[t] \in InCheckout
      BY <1>1, <1>b, <2>2 DEF ProcessorPasses
    <3>2. NextProcessor[pc[t]] \in InCheckout
      BY <1>1, <2>2 DEF ProcessorPasses, LocalProcessors, NextProcessor, CheckoutReaders, InCheckout
    <3>. QED  BY <1>0, <1>1, <1>a, <1>b, <1>f, <3>1, <3>2 DEF ProcessorPasses
  <2>. QED  BY <2>1, <2>2
<1>2. CASE ProcessorFails(t)
  <2>1. pc[t] \in InCheckout
    BY <1>2, <1>b DEF ProcessorFails, CleansUp, CheckoutReaders, EarlyChecks
  <2>. QED  BY <1>2, <1>e, <2>1 DEF ProcessorFails
<1>3. CASE ParsePushUnnamed(t)
  BY <1>3 DEF ParsePushUnnamed, CleansUp, EarlyChecks
<1>4. CASE PullRemote(t)
  <2> DEFINE exists == checkouts[target[t]] # Missing
             next == IF exists THEN "audit" ELSE "clone"
             record == AtCheckout(action[t], exists)
  <2>1. HasPath(record)
    BY <1>0, AtCheckoutFields DEF HasPath
  <2>2. action' = [action EXCEPT ![t] = record] /\ pc' = [pc EXCEPT ![t] = next]
        /\ UNCHANGED <<storeVars, checkouts, localVars, envVars>> /\ pc[t] = "pullRemote"
    BY <1>4 DEF PullRemote
  <2>3. next \in {"audit", "clone"}
    OBVIOUS
  <2> HIDE DEF record, next
  <2>. QED  BY <1>b, <2>1, <2>2, <2>3, OwnerStays
<1>5. CASE CloneStarts(t)
  BY <1>5, <1>0, <1>a, <1>b, OwnerStep DEF CloneStarts
<1>6. CASE CloneRefused(t)
  BY <1>6, <1>a, <1>b, <1>c, OwnerStays DEF CloneRefused, FailAt
<1>7. CASE CloneSucceeds(t)
  <2> DEFINE folder == IF checkouts[target[t]] = Missing THEN t ELSE checkouts[target[t]]
  <2>1. checkouts' = [checkouts EXCEPT ![target[t]] = folder]
    BY <1>7 DEF CloneSucceeds
  <2>2. folder = t \/ (folder = checkouts[target[t]] /\ folder # t)
    OBVIOUS
  <2>3. /\ cleanupClone' = cleanupClone \union {t} /\ pc' = [pc EXCEPT ![t] = "writePack"]
        /\ UNCHANGED <<pushes, target, seen, reviews, crashes, action>> /\ pc[t] = "cloning"
    BY <1>7 DEF CloneSucceeds
  <2> HIDE DEF folder
  <2>. QED  BY <1>0, <1>a, <1>b, <2>1, <2>2, <2>3, OwnerStep
<1>8. CASE CloneFails(t)
  BY <1>8, <1>a, <1>b, <1>c, OwnerStays DEF CloneFails, FailAt
<1>9. CASE DiscardClone(t)
  BY <1>9, <1>0, <1>a, <1>b, OwnerStep DEF DiscardClone, CleansUp
<1>10. CASE AdoptAuthorised(t)
  <2>1. pushes[target[t]] \in PushRecord /\ HasPath(pushes[target[t]])
    BY <1>0, <1>10 DEF AdoptAuthorised, IsAuthorised, TypeOK, OwnerInv
  <2>2. HasPath(Adopted(pushes[target[t]]))
    BY <2>1, AdoptedFields DEF HasPath
  <2>. QED  BY <1>10, <1>b, <1>d, <2>2, OwnerStays DEF AdoptAuthorised
<1>11. CASE NotAuthorised(t)
  BY <1>11, <1>0, <1>a, <1>b, <1>f DEF NotAuthorised
<1>12. CASE GateReadFails(t)
  BY <1>12, <1>b, <1>e DEF GateReadFails
<1>13. CASE HookRuns(t)
  <2>1. PICK hook : action' = [action EXCEPT ![t] = HookDecided(action[t], hook)]
    BY <1>13 DEF HookRuns
  <2>2. HasPath(HookDecided(action[t], hook))
    BY <1>0, <1>13, <1>a, <1>b, HookDecidedFields DEF HookRuns, HasPath
  <2>. QED  BY <1>13, <1>b, <1>f, <2>1, <2>2 DEF HookRuns
<1>14. CASE HookFails(t)
  BY <1>14, <1>b, <1>e DEF HookFails
<1>15. CASE BlockForAuth(t)
  <2>1. HasPath(Blocked(action[t]))
    BY <1>0, <1>15, <1>a, <1>b, BlockedFields DEF BlockForAuth, HasPath
  <2>. QED  BY <1>15, <1>b, <1>d, <2>1, OwnerStays DEF BlockForAuth
<1>. QED
  BY <1>1, <1>2, <1>3, <1>4, <1>5, <1>6, <1>7, <1>8, <1>9, <1>10, <1>11, <1>12,
     <1>13, <1>14, <1>15 DEF Chain

\* A verdict keeps the path of the record it was reached on.
LEMMA VerdictOwner ==
  ASSUME TypeOK, OwnerInv, NEW p \in Ids, NEW record \in PushRecord, HasPath(record),
         NEW verb \in Verbs, NEW reviewer, StoreVerdict(p, record, verb, reviewer)
  PROVE  \A q \in Ids : pushes'[q] # NoPush => HasPath(pushes'[q])
<1>1. HasPath(Decided(record, verb, reviewer))
  BY DecidedFields DEF HasPath
<1>2. /\ pushes'[p] = Decided(record, verb, reviewer)
      /\ \A q \in Ids : q # p => pushes'[q] = pushes[q]
  BY DEF StoreVerdict, TypeOK
<1>. QED  BY <1>1, <1>2 DEF OwnerInv

\* A step after the chain that holds no checkout and writes records with a path.
LEMMA OwnerRecords ==
  ASSUME TypeOK, OwnerInv, NEW t \in Attempts, NEW next,
         UNCHANGED <<target, action, checkouts, cleanupClone, reviews, crashes>>,
         pc' = [pc EXCEPT ![t] = next], pc[t] \in AfterChainSteps \ {"clearBareClone"},
         next \in AfterChainSteps,
         \A q \in Ids : pushes'[q] # NoPush => HasPath(pushes'[q]),
         \A a \in Attempts : pc'[a] = "autoWrite" => HasPath(seen'[a])
  PROVE  OwnerInv'
<1>1. \A a \in Attempts : a # t => pc'[a] = pc[a]
  BY DEF TypeOK
<1>2. pc'[t] = next
  BY DEF TypeOK
<1>3. HasPath(action[t]) /\ next \notin InCheckout /\ pc[t] \notin HoldsCheckout
  BY DEF OwnerInv, Running, AfterChainSteps, EarlyChecks, InCheckout, HoldsCheckout, CheckoutReaders
<1>4. ASSUME crashes' = 0, NEW p \in Ids, checkouts'[p] # Missing
      PROVE  target'[checkouts'[p]] = p /\ pc'[checkouts'[p]] \in HoldsCheckout
  BY <1>1, <1>3, <1>4 DEF OwnerInv, TypeOK
<1>. QED  BY <1>1, <1>2, <1>3, <1>4 DEF OwnerInv

LEMMA WrapupOwner ==
  ASSUME CleansUp, TypeOK, OwnerInv, NEW t \in Attempts, Wrapup(t)
  PROVE  OwnerInv'
<1> USE DEF storeVars, localVars, envVars, Goto
<1>0. /\ action[t] \in PushRecord /\ seen[t] \in PushRecord /\ target[t] \in Ids
      /\ action = [action EXCEPT ![t] = action[t]]
  BY DEF TypeOK
<1>a. pc[t] \in AfterChainSteps
  BY DEF Wrapup, ClearBareClone, ClearBareCloneFails, Audit, AutoVerdictReads,
     AutoVerdictWrites, AutoVerdictFails, Reply, AfterChainSteps
<1>b. HasPath(action[t])
  BY <1>a DEF OwnerInv, Running, AfterChainSteps, EarlyChecks
<1>1. CASE ClearBareClone(t)
  BY <1>1, <1>0, <1>b, OwnerStep DEF ClearBareClone, InCheckout, CheckoutReaders
<1>2. CASE ClearBareCloneFails(t)
  BY <1>2, <1>b DEF ClearBareCloneFails, CleansUp, HasPath
<1>3. CASE Audit(t)
  <2>1. \A q \in Ids : pushes'[q] # NoPush => HasPath(pushes'[q])
    BY <1>0, <1>3, <1>b DEF Audit, TypeOK, OwnerInv
  <2>2. PICK next \in {"autoVerdict", "reply"} : pc' = [pc EXCEPT ![t] = next]
    BY <1>3 DEF Audit
  <2>3. \A a \in Attempts : pc'[a] = "autoWrite" => HasPath(seen'[a])
    BY <1>3, <2>2 DEF Audit, OwnerInv, TypeOK
  <2>. QED  BY <1>3, <2>1, <2>2, <2>3, OwnerRecords DEF Audit, AfterChainSteps
<1>4. CASE AutoVerdictReads(t)
  <2>1. HasPath(pushes[target[t]])
    BY <1>0, <1>4 DEF AutoVerdictReads, OwnerInv
  <2>2. \A a \in Attempts : pc'[a] = "autoWrite" => HasPath(seen'[a])
    BY <1>4, <2>1 DEF AutoVerdictReads, OwnerInv, TypeOK
  <2>3. \A q \in Ids : pushes'[q] # NoPush => HasPath(pushes'[q])
    BY <1>4 DEF AutoVerdictReads, OwnerInv
  <2>. QED  BY <1>4, <2>2, <2>3, OwnerRecords DEF AutoVerdictReads, AfterChainSteps
<1>5. CASE AutoVerdictWrites(t)
  <2>1. \A q \in Ids : pushes'[q] # NoPush => HasPath(pushes'[q])
    BY <1>0, <1>5, VerdictOwner DEF AutoVerdictWrites, OwnerInv, Verbs
  <2>2. \A a \in Attempts : pc'[a] = "autoWrite" => HasPath(seen'[a])
    BY <1>5 DEF AutoVerdictWrites, OwnerInv, TypeOK
  <2>. QED  BY <1>5, <2>1, <2>2, OwnerRecords DEF AutoVerdictWrites, AfterChainSteps
<1>6. CASE AutoVerdictFails(t)
  <2>1. pc[t] # "clearBareClone" /\ pc' = [pc EXCEPT ![t] = "reply"]
        /\ UNCHANGED <<pushes, seen, target, action, checkouts, cleanupClone, reviews, crashes>>
    BY <1>6 DEF AutoVerdictFails
  <2>2. /\ \A q \in Ids : pushes'[q] # NoPush => HasPath(pushes'[q])
        /\ \A a \in Attempts : pc'[a] = "autoWrite" => HasPath(seen'[a])
    BY <2>1 DEF OwnerInv, TypeOK
  <2>. QED  BY <1>a, <2>1, <2>2, OwnerRecords DEF AfterChainSteps
<1>7. CASE Reply(t)
  <2>1. PICK next \in {"denied", "forwarded"} : pc' = [pc EXCEPT ![t] = next]
    BY <1>7 DEF Reply
  <2>2. /\ UNCHANGED <<pushes, target, checkouts, reviews, crashes>> /\ pc[t] = "reply"
        /\ action' = [action EXCEPT ![t] = NewAction]
        /\ seen' = [seen EXCEPT ![t] = NewAction]
        /\ cleanupClone' = cleanupClone \ {t}
    BY <1>7 DEF Reply
  <2>3. next \notin Running \union InCheckout /\ pc[t] \notin HoldsCheckout /\ next # "autoWrite"
    BY <2>2 DEF Running, Processors, LocalProcessors, EarlyChecks, CheckoutReaders, InClone,
       AfterChainSteps, InCheckout, HoldsCheckout
  <2>4. /\ pc'[t] = next
        /\ \A a \in Attempts : a # t => pc'[a] = pc[a] /\ action'[a] = action[a] /\ seen'[a] = seen[a]
    BY <2>1, <2>2 DEF TypeOK
  <2>5. ASSUME crashes' = 0, NEW p \in Ids, checkouts'[p] # Missing
        PROVE  target'[checkouts'[p]] = p /\ pc'[checkouts'[p]] \in HoldsCheckout
    BY <2>2, <2>3, <2>4, <2>5 DEF OwnerInv, TypeOK
  <2>6. ASSUME NEW a \in Attempts
        PROVE  /\ pc'[a] \in InCheckout => a \in cleanupClone'
               /\ pc'[a] \in Running \ (EarlyChecks \union {"pullRemote"}) => HasPath(action'[a])
               /\ pc'[a] = "autoWrite" => HasPath(seen'[a])
    BY <2>2, <2>3, <2>4 DEF OwnerInv
  <2>. QED  BY <2>2, <2>5, <2>6 DEF OwnerInv
<1>. QED
  BY <1>1, <1>2, <1>3, <1>4, <1>5, <1>6, <1>7 DEF Wrapup

LEMMA ReviewOwner ==
  ASSUME TypeOK, OwnerInv, NEW r \in Reviews,
         ReviewReads(r) \/ ReviewWrites(r) \/ ReviewFails(r)
  PROVE  OwnerInv'
<1> USE DEF storeVars, localVars
<1>1. UNCHANGED <<pc, action, seen, target, cleanupClone, checkouts, crashes>>
  BY DEF ReviewReads, ReviewWrites, ReviewFails
<1>2. \A q \in Ids : pushes'[q] # NoPush => HasPath(pushes'[q])
  <2>1. CASE ReviewWrites(r)
    BY <2>1, VerdictOwner DEF ReviewWrites, OwnerInv, TypeOK
  <2>. QED  BY <2>1 DEF ReviewReads, ReviewFails, OwnerInv
<1>3. \A q \in Reviews : reviews'[q].state = "read" => HasPath(reviews'[q].seen)
  <2>1. CASE ReviewReads(r)
    <3>1. HasPath(pushes[reviews[r].push])
      BY <2>1 DEF ReviewReads, OwnerInv, TypeOK
    <3>. QED  BY <2>1, <3>1 DEF ReviewReads, OwnerInv, TypeOK
  <2>2. CASE ReviewWrites(r) \/ ReviewFails(r)
    BY <2>2 DEF ReviewWrites, ReviewFails, Done, OwnerInv, TypeOK
  <2>. QED  BY <2>1, <2>2
<1>. QED  BY <1>1, <1>2, <1>3 DEF OwnerInv

\* A checkout that exists is a running attempt's to remove, as long as removing
\* works, no attempt is recorded before it has the checkout's path, and the process
\* does not crash: whatever else fails, and whoever discards whose clone.
THEOREM CheckoutsAreOwned ==
  ASSUME CleansUp
  PROVE  Spec => [](crashes = 0 => FolderHasAnOwner)
<1>1. Init => OwnerInv
  <2> SUFFICES ASSUME Init PROVE OwnerInv
    OBVIOUS
  <2>1. "idle" \notin InCheckout \union Running
    BY DEF InCheckout, Running, Processors, LocalProcessors, EarlyChecks, CheckoutReaders,
       InClone, AfterChainSteps
  <2>. QED  BY <2>1 DEF Init, OwnerInv, IdleReview
<1>2. TypeOK /\ OwnerInv /\ [Next]_vars => OwnerInv'
  <2> SUFFICES ASSUME TypeOK, OwnerInv, [Next]_vars PROVE OwnerInv'
    OBVIOUS
  <2>1. ASSUME NEW t \in Attempts, Arrive(t) PROVE OwnerInv'
    <3>1. action = [action EXCEPT ![t] = action[t]]
      BY DEF TypeOK
    <3>. QED
      BY <2>1, <3>1, OwnerStays DEF Arrive, Goto, storeVars, localVars, envVars, EarlyChecks,
         InCheckout, CheckoutReaders, HoldsCheckout
  <2>2. ASSUME NEW t \in Attempts, Chain(t) PROVE OwnerInv'
    BY <2>2, ChainOwner
  <2>3. ASSUME NEW t \in Attempts, Wrapup(t) PROVE OwnerInv'
    BY <2>3, WrapupOwner
  <2>4. ASSUME NEW r \in Reviews, ReviewReads(r) \/ ReviewWrites(r) \/ ReviewFails(r)
        PROVE OwnerInv'
    BY <2>4, ReviewOwner
  <2>5. CASE Crash
    <3>1. \A t \in Attempts : pc'[t] \notin Running
      BY <2>5 DEF Crash, Running, Processors, LocalProcessors, EarlyChecks, CheckoutReaders,
         InClone, AfterChainSteps
    <3>2. InCheckout \union {"autoWrite"} \subseteq Running
      BY DEF InCheckout, Running, Processors, LocalProcessors, CheckoutReaders, AfterChainSteps
    <3>3. \A r \in Reviews : reviews'[r].state # "read"
      BY <2>5 DEF Crash, Done, TypeOK
    <3>4. UNCHANGED pushes /\ crashes' # 0
      BY <2>5 DEF Crash, storeVars, TypeOK
    <3>. QED  BY <3>1, <3>2, <3>3, <3>4 DEF OwnerInv
  <2>6. CASE UNCHANGED vars
    BY <2>6 DEF vars, OwnerInv
  <2>. QED  BY <2>1, <2>2, <2>3, <2>4, <2>5, <2>6 DEF Next
<1>3. TypeOK /\ OwnerInv => (crashes = 0 => FolderHasAnOwner)
  BY DEF OwnerInv, FolderHasAnOwner, TypeOK
<1>. QED  BY <1>1, <1>2, <1>3, TypeCorrect, PTL DEF Spec

-----------------------------------------------------------------------------
(* The ledger: every step of a processor, a verdict, a crash or an audit is a   *)
(* step of the review ledger, or leaves it as it was                            *)

\* The ledger the gate implements, under the names of the refinement mapping.
released == {<<t, target[t]>> : t \in {a \in Attempts : pc[a] = "forwarded"}}

-----------------------------------------------------------------------------
(* A verdict in progress is a verdict on a recorded push *)

\* No step takes a push out of the store (DeletePush has no caller but tests).
LEMMA StaysKnown ==
  ASSUME TypeOK, [Next]_vars, NEW p \in Ids, pushes[p] # NoPush
  PROVE  pushes'[p] # NoPush
<1>1. ASSUME NEW q \in Ids, NEW record \in PushRecord,
             pushes' = [pushes EXCEPT ![q] = record]
      PROVE  pushes'[p] # NoPush
  BY <1>1, ConstantsAssumption DEF TypeOK
<1>2. ASSUME NEW q \in Ids, NEW record \in PushRecord, NEW verb \in Verbs,
             NEW reviewer \in Reviews \union {System},
             StoreVerdict(q, record, verb, reviewer)
      PROVE  pushes'[p] # NoPush
  <2>1. Decided(record, verb, reviewer) \in PushRecord
    BY DecidedType
  <2>. QED  BY <1>1, <1>2, <2>1 DEF StoreVerdict
<1>3. ASSUME NEW t \in Attempts, Wrapup(t) PROVE pushes'[p] # NoPush
  <2>1. /\ target[t] \in Ids /\ action[t] \in PushRecord /\ seen[t] \in PushRecord
    BY DEF TypeOK
  <2>2. CASE Audit(t)
    BY <1>1, <2>1, <2>2 DEF Audit
  <2>3. CASE AutoVerdictWrites(t)
    BY <1>2, <2>1, <2>3 DEF AutoVerdictWrites, Verbs
  <2>. QED
    BY <1>3, <2>2, <2>3 DEF Wrapup, ClearBareClone, ClearBareCloneFails,
       AutoVerdictReads, AutoVerdictFails, Reply, storeVars
<1>4. ASSUME NEW t \in Attempts, Arrive(t) \/ Chain(t) PROVE UNCHANGED pushes
  BY <1>4 DEF Arrive, Chain, ProcessorPasses, ProcessorFails, ParsePushUnnamed,
     PullRemote, CloneStarts, CloneRefused, CloneSucceeds, CloneFails, DiscardClone,
     AdoptAuthorised, NotAuthorised, GateReadFails, HookRuns, HookFails,
     BlockForAuth, storeVars
<1>5. ASSUME NEW r \in Reviews, ReviewReads(r) \/ ReviewWrites(r) \/ ReviewFails(r)
      PROVE  pushes'[p] # NoPush
  BY <1>2, <1>5 DEF ReviewReads, ReviewWrites, ReviewFails, storeVars, TypeOK
<1>. QED  BY <1>3, <1>4, <1>5 DEF Next, Crash, vars, storeVars

LEMMA KnownInvariant == Spec => []KnownInv
<1>1. Init => KnownInv
  BY DEF Init, KnownInv, IdleReview
<1>2. TypeOK /\ KnownInv /\ [Next]_vars => KnownInv'
  <2> SUFFICES ASSUME TypeOK, KnownInv, [Next]_vars PROVE KnownInv'
    OBVIOUS
  <2>1. \A p \in Ids : pushes[p] # NoPush => pushes'[p] # NoPush
    BY StaysKnown
  <2>2. UNCHANGED target
    BY DEF Next, Arrive, Chain, Wrapup, ProcessorPasses, ProcessorFails,
       ParsePushUnnamed, PullRemote, CloneStarts, CloneRefused, CloneSucceeds,
       CloneFails, DiscardClone, AdoptAuthorised, NotAuthorised, GateReadFails,
       HookRuns, HookFails, BlockForAuth, ClearBareClone, ClearBareCloneFails, Audit,
       AutoVerdictReads, AutoVerdictWrites, AutoVerdictFails, Reply, ReviewReads,
       ReviewWrites, ReviewFails, Crash, vars, localVars
  <2>3. \A t \in Attempts : pc'[t] = "autoWrite" =>
           pc[t] = "autoWrite" \/ pushes[target[t]] # NoPush
    <3>1. ASSUME NEW t \in Attempts, Wrapup(t) \/ Arrive(t) \/ Chain(t)
          PROVE  \A a \in Attempts : pc'[a] = "autoWrite" =>
                    pc[a] = "autoWrite" \/ pushes[target[a]] # NoPush
      <4>1. AfterChain(t) # "autoWrite"
        BY AfterChainIsStep
      <4>2. pc[t] \in LocalProcessors => NextProcessor[pc[t]] # "autoWrite"
        BY NextProcessorIsProcessor
           DEF Processors, LocalProcessors, EarlyChecks, CheckoutReaders
      <4>. QED
        BY <3>1, <4>1, <4>2 DEF TypeOK, Goto, FailAt, Arrive, Chain, Wrapup,
           ProcessorPasses, ProcessorFails, ParsePushUnnamed, PullRemote, CloneStarts,
           CloneRefused, CloneSucceeds, CloneFails, DiscardClone, AdoptAuthorised,
           NotAuthorised, GateReadFails, HookRuns, HookFails, BlockForAuth,
           ClearBareClone, ClearBareCloneFails, Audit, AutoVerdictReads,
           AutoVerdictWrites, AutoVerdictFails, Reply
    <3>2. ASSUME NEW r \in Reviews, ReviewReads(r) \/ ReviewWrites(r) \/ ReviewFails(r)
          PROVE  UNCHANGED pc
      BY <3>2 DEF ReviewReads, ReviewWrites, ReviewFails
    <3>3. CASE Crash
      BY <3>3 DEF Crash
    <3>. QED  BY <3>1, <3>2, <3>3 DEF Next, vars
  <2>4. \A r \in Reviews :
           /\ reviews'[r].push = reviews[r].push
           /\ reviews'[r].state = "read" =>
                 reviews[r].state = "read" \/ pushes[reviews[r].push] # NoPush
    <3>1. ASSUME NEW t \in Attempts, Wrapup(t) \/ Arrive(t) \/ Chain(t)
          PROVE  UNCHANGED reviews
      BY <3>1 DEF Arrive, Chain, Wrapup, ProcessorPasses, ProcessorFails,
         ParsePushUnnamed, PullRemote, CloneStarts, CloneRefused, CloneSucceeds,
         CloneFails, DiscardClone, AdoptAuthorised, NotAuthorised, GateReadFails,
         HookRuns, HookFails, BlockForAuth, ClearBareClone, ClearBareCloneFails, Audit,
         AutoVerdictReads, AutoVerdictWrites, AutoVerdictFails, Reply, envVars
    <3>2. ASSUME NEW q \in Reviews, ReviewReads(q) \/ ReviewWrites(q) \/ ReviewFails(q),
                 NEW r \in Reviews
          PROVE  /\ reviews'[r].push = reviews[r].push
                 /\ reviews'[r].state = "read" =>
                       reviews[r].state = "read" \/ pushes[reviews[r].push] # NoPush
      BY <3>2 DEF ReviewReads, ReviewWrites, ReviewFails, Done, TypeOK
    <3>3. CASE Crash
      BY <3>3 DEF Crash, Done
    <3>. QED  BY <3>1, <3>2, <3>3 DEF Next, vars
  <2>. QED
    BY <2>1, <2>2, <2>3, <2>4 DEF KnownInv, TypeOK
<1>. QED  BY <1>1, <1>2, TypeCorrect, PTL DEF Spec

-----------------------------------------------------------------------------
(* Steps of the ledger *)

verdict == [p \in Ids |-> Verdict(p)]

\* A write of one record changes the standing of that push only.
LEMMA WriteChangesOne ==
  ASSUME TypeOK, NEW p \in Ids, NEW record, pushes' = [pushes EXCEPT ![p] = record]
  PROVE  verdict' = [verdict EXCEPT ![p] = Verdict(p)']
<1>1. \A q \in Ids : q # p => pushes'[q] = pushes[q]
  BY DEF TypeOK
<1>2. \A q \in Ids : q # p => Verdict(q)' = Verdict(q)
  BY <1>1 DEF Verdict
<1>. QED  BY <1>2 DEF verdict

LEMMA QuietLedger ==
  ASSUME UNCHANGED <<pushes, granted>>, UNCHANGED released
  PROVE  UNCHANGED <<verdict, granted, released>>
  BY DEF verdict, Verdict

\* A step that neither starts nor ends an attempt as forwarded releases nothing.
LEMMA NothingReleased ==
  ASSUME TypeOK, NEW t \in Attempts, NEW next, UNCHANGED target,
         pc' = [pc EXCEPT ![t] = next], pc[t] # "forwarded", next # "forwarded"
  PROVE  UNCHANGED released
<1>1. \A a \in Attempts : pc'[a] = "forwarded" <=> pc[a] = "forwarded"
  BY DEF TypeOK
<1>. QED  BY <1>1 DEF released

\* The verdict write of Authorise, Reject and Cancel grants or refuses.
LEMMA VerdictStep ==
  ASSUME TypeOK, NEW p \in Ids, NEW record \in PushRecord, NEW verb \in Verbs,
         NEW reviewer \in Reviews \union {System},
         pushes[p] # NoPush, StoreVerdict(p, record, verb, reviewer), UNCHANGED released
  PROVE  Ledger!LedgerNext
<1> DEFINE written == Decided(record, verb, reviewer)
<1>1. /\ written \in PushRecord
      /\ written.authorised <=> verb = "authorise"
      /\ written.rejected <=> verb = "reject"
      /\ written.canceled <=> verb = "cancel"
  BY DecidedType, DecidedFields
<1>2. pushes' = [pushes EXCEPT ![p] = written]
  BY DEF StoreVerdict
<1> HIDE DEF written
<1>3. verdict' = [verdict EXCEPT ![p] = Verdict(p)']
  BY <1>2, WriteChangesOne
<1>4. pushes'[p] = written /\ pushes'[p] # NoPush
  BY <1>1, <1>2, ConstantsAssumption DEF TypeOK
<1>5. verdict[p] # "none"
  BY DEF verdict, Verdict, Standing
<1>6. CASE verb = "authorise"
  <2>1. Verdict(p)' = "authorised"
    BY <1>1, <1>4, <1>6 DEF Verdict, Standing
  <2>2. granted' = granted \union {p}
    BY <1>6 DEF StoreVerdict
  <2>3. Ledger!Grant(p)
    BY <1>3, <1>5, <2>1, <2>2 DEF Ledger!Grant, verdict, released
  <2>. QED  BY <2>3 DEF Ledger!LedgerNext
<1>7. CASE verb # "authorise"
  <2>1. Verdict(p)' \in {"rejected", "canceled"}
    BY <1>1, <1>4, <1>7 DEF Verdict, Standing, Verbs
  <2>2. granted' = granted
    BY <1>7 DEF StoreVerdict
  <2>3. Ledger!Refuse(p)
    BY <1>3, <1>5, <2>1, <2>2 DEF Ledger!Refuse, verdict, released
  <2>. QED  BY <2>3 DEF Ledger!LedgerNext
<1>. QED  BY <1>6, <1>7

\* An attempt's audit holds its push, or restates the authorisation it adopted.
LEMMA AuditStep ==
  ASSUME TypeOK, GateInv, RecordInv, NEW t \in Attempts, Audit(t), UNCHANGED released
  PROVE  Ledger!LedgerNext \/ UNCHANGED <<verdict, granted, released>>
<1>1. /\ target[t] \in Ids /\ action[t] \in PushRecord
      /\ ~action[t].rejected /\ ~action[t].canceled
      /\ action[t].authorised => target[t] \in granted
      /\ UNCHANGED granted
  BY DEF TypeOK, RecordInv, GateInv, Audit
<1>2. CASE UNCHANGED pushes
  BY <1>1, <1>2, QuietLedger
<1>3. CASE pushes' = [pushes EXCEPT ![target[t]] = action[t]]
  <2>1. PICK p \in Ids : p = target[t]
    BY <1>1
  <2>2. verdict' = [verdict EXCEPT ![p] = Verdict(p)']
    BY <1>3, <2>1, WriteChangesOne
  <2>3. pushes'[p] = action[t] /\ pushes'[p] # NoPush
    BY <1>1, <1>3, <2>1, ConstantsAssumption DEF TypeOK
  <2>4. CASE action[t].authorised
    <3>1. Verdict(p)' = "authorised"
      BY <2>3, <2>4 DEF Verdict, Standing
    <3>2. Ledger!Restate(p)
      BY <1>1, <2>1, <2>2, <2>4, <3>1 DEF Ledger!Restate, verdict, released
    <3>. QED  BY <3>2 DEF Ledger!LedgerNext
  <2>5. CASE ~action[t].authorised
    <3>1. Verdict(p)' = "held"
      BY <1>1, <2>3, <2>5 DEF Verdict, Standing
    <3>2. Ledger!Hold(p)
      BY <1>1, <2>2, <3>1 DEF Ledger!Hold, verdict, released
    <3>. QED  BY <3>2 DEF Ledger!LedgerNext
  <2>. QED  BY <2>4, <2>5
<1>. QED  BY <1>2, <1>3 DEF Audit

\* An answer either releases the attempt's push, which was granted, or nothing.
LEMMA ReplyStep ==
  ASSUME TypeOK, GateInv, NEW t \in Attempts, Reply(t)
  PROVE  Ledger!LedgerNext \/ UNCHANGED <<verdict, granted, released>>
<1>1. /\ UNCHANGED <<pushes, granted, target>> /\ pc[t] = "reply"
      /\ target[t] \in Ids
  BY DEF Reply, storeVars, TypeOK
<1>2. CASE action[t].error \/ action[t].blocked
  <2>1. pc' = [pc EXCEPT ![t] = "denied"]
    BY <1>2 DEF Reply, Goto
  <2>. QED  BY <1>1, <2>1, NothingReleased, QuietLedger
<1>3. CASE ~(action[t].error \/ action[t].blocked)
  <2>1. pc' = [pc EXCEPT ![t] = "forwarded"]
    BY <1>3 DEF Reply, Goto
  <2>2. PICK p \in granted : p = target[t]
    BY <1>1, <1>3 DEF GateInv, AfterChainSteps
  <2>3. \A a \in Attempts : pc'[a] = "forwarded" <=> (pc[a] = "forwarded" \/ a = t)
    BY <2>1 DEF TypeOK
  <2>4. released' = released \union {<<t, p>>}
    BY <1>1, <2>2, <2>3 DEF released
  <2>5. UNCHANGED <<verdict, granted>>
    BY <1>1 DEF verdict, Verdict
  <2>6. Ledger!Release(t, p)
    BY <2>4, <2>5 DEF Ledger!Release, verdict, released
  <2>. QED  BY <1>1, <2>2, <2>6 DEF Ledger!LedgerNext
<1>. QED  BY <1>2, <1>3

-----------------------------------------------------------------------------
(* The refinement *)

\* A step of an attempt that ends it or moves it on without being forwarded.
LEMMA ChainReleasesNothing ==
  ASSUME TypeOK, NEW t \in Attempts, Arrive(t) \/ Chain(t)
  PROVE  UNCHANGED <<pushes, granted>> /\ UNCHANGED released
<1>1. AfterChain(t) # "forwarded"
  BY AfterChainIsStep
<1>2. pc[t] \in LocalProcessors => NextProcessor[pc[t]] # "forwarded"
  BY NextProcessorIsProcessor DEF Processors, LocalProcessors, EarlyChecks, CheckoutReaders
<1>3. pc[t] # "forwarded"
  BY DEF Arrive, Chain, ProcessorPasses, ProcessorFails, ParsePushUnnamed, PullRemote,
     CloneStarts, CloneRefused, CloneSucceeds, CloneFails, DiscardClone,
     AdoptAuthorised, NotAuthorised, GateReadFails, HookRuns, HookFails, BlockForAuth,
     LocalProcessors, EarlyChecks, CheckoutReaders
<1>4. PICK next : pc' = [pc EXCEPT ![t] = next] /\ next # "forwarded"
  BY <1>1, <1>2 DEF Arrive, Chain, ProcessorPasses, ProcessorFails, ParsePushUnnamed,
     PullRemote, CloneStarts, CloneRefused, CloneSucceeds, CloneFails, DiscardClone,
     AdoptAuthorised, NotAuthorised, GateReadFails, HookRuns, HookFails, BlockForAuth,
     Goto, FailAt
<1>5. UNCHANGED <<pushes, granted, target>>
  BY DEF Arrive, Chain, ProcessorPasses, ProcessorFails, ParsePushUnnamed, PullRemote,
     CloneStarts, CloneRefused, CloneSucceeds, CloneFails, DiscardClone,
     AdoptAuthorised, NotAuthorised, GateReadFails, HookRuns, HookFails, BlockForAuth,
     storeVars, localVars
<1>. QED  BY <1>3, <1>4, <1>5, NothingReleased

LEMMA LedgerStep ==
  ASSUME TypeOK, GateInv, RecordInv, KnownInv, [Next]_vars
  PROVE  Ledger!LedgerNext \/ UNCHANGED <<verdict, granted, released>>
<1>1. ASSUME NEW t \in Attempts, Arrive(t) \/ Chain(t)
      PROVE  UNCHANGED <<verdict, granted, released>>
  BY <1>1, ChainReleasesNothing, QuietLedger
<1>2. ASSUME NEW t \in Attempts, Wrapup(t)
      PROVE  Ledger!LedgerNext \/ UNCHANGED <<verdict, granted, released>>
  <2>1. CASE Reply(t)
    BY <2>1, ReplyStep
  <2>2. CASE ~Reply(t)
    <3>1. UNCHANGED target
      BY <1>2, <2>2 DEF Wrapup, ClearBareClone, ClearBareCloneFails, Audit,
         AutoVerdictReads, AutoVerdictWrites, AutoVerdictFails, localVars
    <3>2. PICK next \in AfterChainSteps : pc' = [pc EXCEPT ![t] = next]
      BY <1>2, <2>2 DEF Wrapup, ClearBareClone, ClearBareCloneFails, Audit,
         AutoVerdictReads, AutoVerdictWrites, AutoVerdictFails, Goto, FailAt,
         AfterChainSteps
    <3>3. pc[t] # "forwarded" /\ next # "forwarded"
      BY <1>2, <3>2 DEF Wrapup, ClearBareClone, ClearBareCloneFails, Audit,
         AutoVerdictReads, AutoVerdictWrites, AutoVerdictFails, Reply, AfterChainSteps
    <3>4. UNCHANGED released
      BY <3>1, <3>2, <3>3, NothingReleased
    <3>5. CASE Audit(t)
      BY <3>4, <3>5, AuditStep
    <3>6. CASE AutoVerdictWrites(t)
      <4>1. target[t] \in Ids /\ seen[t] \in PushRecord /\ pushes[target[t]] # NoPush
        BY <3>6 DEF AutoVerdictWrites, TypeOK, KnownInv
      <4>. QED  BY <3>4, <3>6, <4>1, VerdictStep DEF AutoVerdictWrites, Verbs
    <3>7. CASE \/ ClearBareClone(t) \/ ClearBareCloneFails(t)
               \/ AutoVerdictReads(t) \/ AutoVerdictFails(t)
      <4>1. UNCHANGED <<pushes, granted>>
        BY <3>7 DEF ClearBareClone, ClearBareCloneFails, AutoVerdictReads,
           AutoVerdictFails, storeVars
      <4>. QED  BY <3>4, <4>1, QuietLedger
    <3>. QED  BY <1>2, <2>2, <3>5, <3>6, <3>7 DEF Wrapup
  <2>. QED  BY <2>1, <2>2
<1>3. ASSUME NEW r \in Reviews, ReviewReads(r) \/ ReviewWrites(r) \/ ReviewFails(r)
      PROVE  Ledger!LedgerNext \/ UNCHANGED <<verdict, granted, released>>
  <2>1. UNCHANGED released
    BY <1>3 DEF ReviewReads, ReviewWrites, ReviewFails, localVars, released
  <2>2. CASE ReviewWrites(r)
    <3>1. /\ reviews[r].push \in Ids /\ reviews[r].seen \in PushRecord
          /\ reviews[r].verb \in Verbs /\ pushes[reviews[r].push] # NoPush
      BY <2>2 DEF ReviewWrites, TypeOK, KnownInv
    <3>. QED  BY <2>1, <2>2, <3>1, VerdictStep DEF ReviewWrites
  <2>3. CASE ReviewReads(r) \/ ReviewFails(r)
    <3>1. UNCHANGED <<pushes, granted>>
      BY <2>3 DEF ReviewReads, ReviewFails, storeVars
    <3>. QED  BY <2>1, <3>1, QuietLedger
  <2>. QED  BY <1>3, <2>2, <2>3
<1>4. CASE Crash
  <2>1. \A a \in Attempts : pc'[a] = "forwarded" <=> pc[a] = "forwarded"
    BY <1>4 DEF Crash, TypeOK, Running, Processors, LocalProcessors, EarlyChecks,
       CheckoutReaders, InClone, AfterChainSteps
  <2>2. UNCHANGED <<pushes, granted, target>>
    BY <1>4 DEF Crash, storeVars
  <2>3. UNCHANGED released
    BY <2>1, <2>2 DEF released
  <2>. QED  BY <2>2, <2>3, QuietLedger
<1>5. CASE UNCHANGED vars
  <2>1. UNCHANGED released /\ UNCHANGED <<pushes, granted>>
    BY <1>5 DEF vars, released
  <2>. QED  BY <2>1, QuietLedger
<1>. QED  BY <1>1, <1>2, <1>3, <1>4, <1>5 DEF Next

\* The gate implements the ledger: a verdict is given only on a recorded push, an
\* audit can restate an authorisation only if it was granted once, and what is
\* released was granted, for any number of attempts, pushes and reviewers.
THEOREM GateImplementsLedger == Spec => ImplementsLedger
<1>1. Init => Ledger!LedgerInit
  <2> SUFFICES ASSUME Init PROVE Ledger!LedgerInit
    OBVIOUS
  <2>1. \A p \in Ids : Verdict(p) = "none"
    BY DEF Init, Verdict
  <2>2. released = {}
    BY DEF Init, released
  <2>. QED  BY <2>1, <2>2 DEF Init, Ledger!LedgerInit, released
<1>2. TypeOK /\ GateInv /\ RecordInv /\ KnownInv /\ [Next]_vars
         => [Ledger!LedgerNext]_(Ledger!ledgerVars)
  BY LedgerStep DEF Ledger!ledgerVars, verdict, released
<1>. QED
  BY <1>1, <1>2, TypeCorrect, GateInvariant, RecordsInvariant, KnownInvariant, PTL
     DEF Spec, ImplementsLedger, Ledger!LedgerSpec
=============================================================================
