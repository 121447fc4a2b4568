------------------------------ MODULE PushGate ------------------------------
(***************************************************************************)
(* The push gate: attempts to push run the processor chain of              *)
(* internal/chain concurrently, one goroutine each, against one store of   *)
(* push records and one directory of checkouts; reviewers decide the       *)
(* recorded pushes through the management API at the same time; the        *)
(* process may crash and restart.                                          *)
(*                                                                         *)
(* One action is one access to state another goroutine can see (a store    *)
(* call, a file system call), or one processor that touches only the       *)
(* attempt's own Action.  A call of the store that reads a record and then *)
(* writes it back (Authorise, Reject, Cancel) is two actions.              *)
(***************************************************************************)
EXTENDS Integers, FiniteSets

CONSTANTS
    Attempts,     \* attempts to push, each made once; a retry is another one
    Ids,          \* push identifiers, "<from>__<to>"
    Reviews,      \* reviewers' calls, each made once
    System,       \* the synthetic reviewer of automated decisions
    Nobody,       \* the attestation of a record nobody authorised
    NoPush,       \* the store has no record
    Missing,      \* the checkout folder does not exist
    HookResults,  \* what the pre-receive hook may do in this deployment
    Failing,      \* the steps that may fail in this instance
    MaxCrashes    \* bound on crashes of the process

\* Processors ahead of the clone: they read the request and the access lists.
EarlyChecks ==
    {"parsePush", "checkEmptyBranch", "checkRepoInAuthorisedList",
     "checkCommitMessages", "checkAuthorEmails", "checkUserPushPermission"}

\* Processors that run git in the checkout, and so fail when it is gone.
\* gitleaks is disabled by default, and then passes without looking.
CheckoutReaders == {"writePack", "checkHiddenCommits", "getDiff"}

LocalProcessors == EarlyChecks \union CheckoutReaders \union {"gitleaks", "scanDiff"}

Processors == LocalProcessors \union
    {"pullRemote", "checkIfWaitingAuth", "preReceive", "blockForAuth"}

\* The order of pushChain; the actions of the other processors name their
\* successor themselves.
NextProcessor ==
    [parsePush                 |-> "checkEmptyBranch",
     checkEmptyBranch          |-> "checkRepoInAuthorisedList",
     checkRepoInAuthorisedList |-> "checkCommitMessages",
     checkCommitMessages       |-> "checkAuthorEmails",
     checkAuthorEmails         |-> "checkUserPushPermission",
     checkUserPushPermission   |-> "pullRemote",
     writePack                 |-> "checkHiddenCommits",
     checkHiddenCommits        |-> "checkIfWaitingAuth",
     getDiff                   |-> "gitleaks",
     gitleaks                  |-> "scanDiff",
     scanDiff                  |-> "blockForAuth"]

\* Where an attempt stands inside Execute, or how its request ended.
InClone == {"clone", "cloning", "discardClone"}
AfterChainSteps == {"clearBareClone", "audit", "autoVerdict", "autoWrite", "reply"}
Running == Processors \union InClone \union AfterChainSteps
Ended == {"forwarded", "denied", "lost"}

Hooks == {"absent", "approve", "reject", "manual", "broken"}
Verbs == {"authorise", "reject", "cancel"}

\* Processors, and the calls that can fail beside them: RemoveAll, WriteAudit,
\* and the store calls behind an automated or a reviewer's verdict.
Fallible == Processors \union {"removeAll", "audit", "autoVerdict", "review"}

PushRecord ==
    [error : BOOLEAN, blocked : BOOLEAN, allowPush : BOOLEAN,
     authorised : BOOLEAN, canceled : BOOLEAN, rejected : BOOLEAN,
     autoApproved : BOOLEAN, autoRejected : BOOLEAN,
     proxyGitPath : BOOLEAN,   \* the path is set
     attestation : Reviews \union {System, Nobody}]

ASSUME ConstantsAssumption ==
    /\ NoPush \notin PushRecord
    /\ Missing \notin Attempts
    /\ Nobody \notin Reviews \union {System}
    /\ HookResults \subseteq Hooks
    /\ Failing \subseteq Fallible
    /\ MaxCrashes \in Nat

VARIABLES
    pushes,        \* the pushes table
    checkouts,     \* .remote/<id>: Missing, or the attempt whose clone is in it
    pc,            \* where each attempt stands
    target,        \* the push each attempt is for
    action,        \* the attempt's Action: the record it will audit
    cleanupClone,  \* the attempts whose clone succeeded
    seen,          \* the record an automated verdict has read
    reviews,       \* reviewers' calls
    granted,       \* history: the pushes that were authorised at some time
    crashes        \* number of crashes so far

vars == <<pushes, checkouts, pc, target, action, cleanupClone, seen, reviews,
          granted, crashes>>

storeVars == <<pushes, granted>>
localVars == <<target, cleanupClone, seen>>
envVars == <<reviews, crashes>>

NewAction ==
    [error |-> FALSE, blocked |-> FALSE, allowPush |-> FALSE,
     authorised |-> FALSE, canceled |-> FALSE, rejected |-> FALSE,
     autoApproved |-> FALSE, autoRejected |-> FALSE,
     proxyGitPath |-> FALSE, attestation |-> Nobody]

IdleReview(p) == [state |-> "idle", verb |-> "cancel", push |-> p, seen |-> NewAction]

\* A call that returned, or was lost, keeps nothing of the record it read.
Done(review) == [state |-> "done", verb |-> review.verb, push |-> review.push,
                 seen |-> NewAction]

TypeOK ==
    /\ pushes \in [Ids -> PushRecord \union {NoPush}]
    /\ checkouts \in [Ids -> Attempts \union {Missing}]
    /\ pc \in [Attempts -> {"idle"} \union Running \union Ended]
    /\ target \in [Attempts -> Ids]
    /\ action \in [Attempts -> PushRecord]
    /\ cleanupClone \subseteq Attempts
    /\ seen \in [Attempts -> PushRecord]
    /\ reviews \in [Reviews -> [state : {"idle", "read", "done"}, verb : Verbs,
                                push : Ids, seen : PushRecord]]
    /\ granted \subseteq Ids
    /\ crashes \in 0..MaxCrashes

Init ==
    /\ pushes = [p \in Ids |-> NoPush]
    /\ checkouts = [p \in Ids |-> Missing]
    /\ pc = [t \in Attempts |-> "idle"]
    /\ target \in [Attempts -> Ids]
    /\ action = [t \in Attempts |-> NewAction]
    /\ cleanupClone = {}
    /\ seen = [t \in Attempts |-> NewAction]
    /\ reviews \in [Reviews -> {IdleReview(p) : p \in Ids}]
    /\ granted = {}
    /\ crashes = 0

-----------------------------------------------------------------------------
(* Operators shared by the actions *)

\* Mutant: a chain that is left early does not clean up.
AfterWholeChain(t) ==
    IF t \in cleanupClone /\ pc[t] = "blockForAuth" THEN "clearBareClone" ELSE "audit"

\* Execute leaves the chain: clean up only after a clone of its own.
AfterChain(t) == IF t \in cleanupClone THEN "clearBareClone" ELSE "audit"

\* What a step leaves in the Action's record: an error, the checkout's path, a
\* block for review, the hook's verdict.
Errored(record) == [record EXCEPT !.error = TRUE]
AtCheckout(record, exists) == [record EXCEPT !.proxyGitPath = TRUE, !.error = exists]
Blocked(record) == [record EXCEPT !.blocked = TRUE]
HookDecided(record, hook) ==
    [record EXCEPT !.autoApproved = (hook = "approve"), !.autoRejected = (hook = "reject")]

\* A failing processor adds an errored step, or returns an error: either way
\* the Action is errored and the chain stops.
FailAt(t, next) ==
    /\ action' = [action EXCEPT ![t] = Errored(@)]
    /\ pc' = [pc EXCEPT ![t] = next]

Goto(t, next) == pc' = [pc EXCEPT ![t] = next]

\* go-git refuses to clone over a repository; an attempt that failed to clone
\* has left none behind, only the folder.
HoldsRepository(p) ==
    checkouts[p] \in Attempts /\ pc[checkouts[p]] # "discardClone"

\* Mutant: any recorded push is let through.
IsRecorded(p) == pushes[p] # NoPush

IsAuthorised(p) == pushes[p] # NoPush /\ pushes[p].authorised

\* Mutants: earlier verdicts are left standing; the reviewer is not recorded.
DecidedOnTop(record, verb, reviewer) ==
    [record EXCEPT
        !.authorised  = @ \/ verb = "authorise",
        !.rejected    = @ \/ verb = "reject",
        !.canceled    = @ \/ verb = "cancel",
        !.attestation = IF verb = "authorise" THEN reviewer ELSE @]
DecidedAnonymously(record, verb, reviewer) ==
    [record EXCEPT
        !.authorised = (verb = "authorise"),
        !.rejected   = (verb = "reject"),
        !.canceled   = (verb = "cancel")]

\* The record a verdict writes back, from the record it read.
Decided(record, verb, reviewer) ==
    [record EXCEPT
        !.authorised  = (verb = "authorise"),
        !.rejected    = (verb = "reject"),
        !.canceled    = (verb = "cancel"),
        !.attestation = IF verb = "authorise" THEN reviewer ELSE @]

\* Mutant: SetAllowPush forgets to clear the block.
AdoptedStillBlocked(record) == [record EXCEPT !.allowPush = TRUE]

\* checkIfWaitingAuth replaces the Action's record by the stored one.
Adopted(record) == [record EXCEPT !.allowPush = TRUE, !.blocked = FALSE]

\* The verdict write of Authorise, Reject and Cancel.
StoreVerdict(p, record, verb, reviewer) ==
    /\ pushes' = [pushes EXCEPT ![p] = Decided(record, verb, reviewer)]
    /\ granted' = IF verb = "authorise" THEN granted \union {p} ELSE granted

-----------------------------------------------------------------------------
(* The chain *)

\* A request arrives: parseAction makes a fresh Action and picks pushChain.
Arrive(t) ==
    /\ pc[t] = "idle"
    /\ Goto(t, "parsePush")
    /\ UNCHANGED <<storeVars, checkouts, action, localVars, envVars>>

\* parseAction's store call fails, and the Action has no id to be audited under; or
\* the body does not even name a ref update, and the Action keeps its timestamp
\* for an id, under which no later attempt reads the record.
ParsePushUnnamed(t) ==
    /\ pc[t] = "parsePush"
    /\ "parsePush" \in Failing
    /\ Goto(t, "denied")
    /\ UNCHANGED <<storeVars, checkouts, action, localVars, envVars>>

ProcessorPasses(t) ==
    /\ pc[t] \in LocalProcessors
    /\ pc[t] \in CheckoutReaders => checkouts[target[t]] # Missing
    /\ Goto(t, NextProcessor[pc[t]])
    /\ UNCHANGED <<storeVars, checkouts, action, localVars, envVars>>

ProcessorFails(t) ==
    /\ pc[t] \in LocalProcessors
    /\ \/ pc[t] \in Failing
       \/ /\ pc[t] \in CheckoutReaders \union {"gitleaks"}
          /\ checkouts[target[t]] # t
    /\ FailAt(t, AfterChain(t))
    /\ UNCHANGED <<storeVars, checkouts, localVars, envVars>>

\* pullRemote, up to its os.Stat: an existing folder is left alone.
PullRemote(t) ==
    /\ pc[t] = "pullRemote"
    /\ LET exists == checkouts[target[t]] # Missing IN
       /\ action' = [action EXCEPT ![t] = AtCheckout(@, exists)]
       /\ Goto(t, IF exists THEN "audit" ELSE "clone")
    /\ UNCHANGED <<storeVars, checkouts, localVars, envVars>>

\* MkdirAll, which does not mind an existing folder, and the clone's first write.
CloneStarts(t) ==
    /\ pc[t] = "clone"
    /\ ~HoldsRepository(target[t])
    /\ checkouts' = [checkouts EXCEPT ![target[t]] = t]
    /\ Goto(t, "cloning")
    /\ UNCHANGED <<storeVars, action, localVars, envVars>>

CloneRefused(t) ==
    /\ pc[t] = "clone"
    /\ HoldsRepository(target[t])
    /\ FailAt(t, "discardClone")
    /\ UNCHANGED <<storeVars, checkouts, localVars, envVars>>

\* Mutant: a successful clone is not marked for cleanup.
CloneSucceedsUnmarked(t) ==
    /\ pc[t] = "cloning"
    /\ checkouts' = [checkouts EXCEPT ![target[t]] = IF @ = Missing THEN t ELSE @]
    /\ Goto(t, "writePack")
    /\ UNCHANGED <<storeVars, action, localVars, envVars>>

\* A clone whose folder was removed meanwhile creates it again as it writes on.
CloneSucceeds(t) ==
    /\ pc[t] = "cloning"
    /\ checkouts' = [checkouts EXCEPT ![target[t]] = IF @ = Missing THEN t ELSE @]
    /\ cleanupClone' = cleanupClone \union {t}
    /\ Goto(t, "writePack")
    /\ UNCHANGED <<storeVars, action, target, seen, envVars>>

CloneFails(t) ==
    /\ pc[t] = "cloning"
    /\ "pullRemote" \in Failing \/ checkouts[target[t]] # t
    /\ FailAt(t, "discardClone")
    /\ UNCHANGED <<storeVars, checkouts, localVars, envVars>>

\* The RemoveAll after a failed clone; its own failure is ignored.
DiscardClone(t) ==
    /\ pc[t] = "discardClone"
    /\ \/ checkouts' = [checkouts EXCEPT ![target[t]] = Missing]
       \/ "removeAll" \in Failing /\ UNCHANGED checkouts
    /\ Goto(t, "audit")
    /\ UNCHANGED <<storeVars, action, localVars, envVars>>

\* checkIfWaitingAuth finds an authorised record and lets the push through.
AdoptAuthorised(t) ==
    /\ pc[t] = "checkIfWaitingAuth"
    /\ IsAuthorised(target[t])
    /\ action' = [action EXCEPT ![t] = Adopted(pushes[target[t]])]
    /\ Goto(t, AfterChain(t))
    /\ UNCHANGED <<storeVars, checkouts, localVars, envVars>>

NotAuthorised(t) ==
    /\ pc[t] = "checkIfWaitingAuth"
    /\ ~IsAuthorised(target[t])
    /\ Goto(t, "preReceive")
    /\ UNCHANGED <<storeVars, checkouts, action, localVars, envVars>>

GateReadFails(t) ==
    /\ pc[t] = "checkIfWaitingAuth"
    /\ "checkIfWaitingAuth" \in Failing
    /\ FailAt(t, AfterChain(t))
    /\ UNCHANGED <<storeVars, checkouts, localVars, envVars>>

HookRuns(t) ==
    /\ pc[t] = "preReceive"
    /\ \E hook \in HookResults \ {"broken"} :
          /\ hook # "absent" => checkouts[target[t]] # Missing
          /\ action' = [action EXCEPT ![t] = HookDecided(@, hook)]
    /\ Goto(t, "getDiff")
    /\ UNCHANGED <<storeVars, checkouts, localVars, envVars>>

\* An unexpected exit status, or no checkout to run the hook in.
HookFails(t) ==
    /\ pc[t] = "preReceive"
    /\ \/ "broken" \in HookResults
       \/ HookResults # {"absent"} /\ checkouts[target[t]] # t
    /\ FailAt(t, AfterChain(t))
    /\ UNCHANGED <<storeVars, checkouts, localVars, envVars>>

\* Mutant: the terminal gate does not block.
BlockForAuthPasses(t) ==
    /\ pc[t] = "blockForAuth"
    /\ Goto(t, AfterChain(t))
    /\ UNCHANGED <<storeVars, checkouts, action, localVars, envVars>>

BlockForAuth(t) ==
    /\ pc[t] = "blockForAuth"
    /\ action' = [action EXCEPT ![t] = Blocked(@)]
    /\ Goto(t, AfterChain(t))
    /\ UNCHANGED <<storeVars, checkouts, localVars, envVars>>

-----------------------------------------------------------------------------
(* After the chain *)

ClearBareClone(t) ==
    /\ pc[t] = "clearBareClone"
    /\ action[t].proxyGitPath
    /\ checkouts' = [checkouts EXCEPT ![target[t]] = Missing]
    /\ Goto(t, "audit")
    /\ UNCHANGED <<storeVars, action, localVars, envVars>>

\* RemoveAll failed, or the Action's record carries no path to remove.
ClearBareCloneFails(t) ==
    /\ pc[t] = "clearBareClone"
    /\ "removeAll" \in Failing \/ ~action[t].proxyGitPath
    /\ FailAt(t, "audit")
    /\ UNCHANGED <<storeVars, checkouts, localVars, envVars>>

\* WriteAudit upserts the whole record; its failure is only logged.
Audit(t) ==
    /\ pc[t] = "audit"
    /\ \/ pushes' = [pushes EXCEPT ![target[t]] = action[t]]
       \/ "audit" \in Failing /\ UNCHANGED pushes
    /\ Goto(t, IF action[t].autoApproved \/ action[t].autoRejected
               THEN "autoVerdict" ELSE "reply")
    /\ UNCHANGED <<granted, checkouts, action, localVars, envVars>>

\* Mutant: the store call does not check that the push exists.
AutoVerdictReadsBlindly(t) ==
    /\ pc[t] = "autoVerdict"
    /\ seen' = [seen EXCEPT ![t] = pushes[target[t]]]
    /\ Goto(t, "autoWrite")
    /\ UNCHANGED <<storeVars, checkouts, action, target, cleanupClone, envVars>>

\* attemptAutoApproval and attemptAutoRejection: the store call's GetPush ...
AutoVerdictReads(t) ==
    /\ pc[t] = "autoVerdict"
    /\ pushes[target[t]] # NoPush
    /\ seen' = [seen EXCEPT ![t] = pushes[target[t]]]
    /\ Goto(t, "autoWrite")
    /\ UNCHANGED <<storeVars, checkouts, action, target, cleanupClone, envVars>>

\* ... and its WriteAudit.
AutoVerdictWrites(t) ==
    /\ pc[t] = "autoWrite"
    /\ StoreVerdict(target[t], seen[t],
                    IF action[t].autoApproved THEN "authorise" ELSE "reject", System)
    /\ Goto(t, "reply")
    /\ UNCHANGED <<checkouts, action, localVars, envVars>>

\* Mutant: an automated verdict waits for its push to be recorded.
AutoVerdictWaits(t) ==
    /\ pc[t] \in {"autoVerdict", "autoWrite"} /\ "autoVerdict" \in Failing
    /\ Goto(t, "reply")
    /\ UNCHANGED <<storeVars, checkouts, action, localVars, envVars>>

\* No such push, or a failed store call: logged, not propagated.
AutoVerdictFails(t) ==
    /\ \/ pc[t] = "autoVerdict" /\ pushes[target[t]] = NoPush
       \/ pc[t] \in {"autoVerdict", "autoWrite"} /\ "autoVerdict" \in Failing
    /\ Goto(t, "reply")
    /\ UNCHANGED <<storeVars, checkouts, action, localVars, envVars>>

\* The transport (HTTP ServeHTTP, SSH handlePush) forwards the pack upstream or
\* answers with the reason.
Reply(t) ==
    /\ pc[t] = "reply"
    /\ Goto(t, IF action[t].error \/ action[t].blocked THEN "denied" ELSE "forwarded")
    /\ action' = [action EXCEPT ![t] = NewAction]
    /\ seen' = [seen EXCEPT ![t] = NewAction]
    /\ cleanupClone' = cleanupClone \ {t}
    /\ UNCHANGED <<storeVars, checkouts, target, envVars>>

-----------------------------------------------------------------------------
(* Reviewers, and the process *)

\* A reviewer's call reaches store.Authorise, Reject or Cancel: its GetPush ...
ReviewReads(r) ==
    /\ reviews[r].state = "idle"
    /\ pushes[reviews[r].push] # NoPush
    /\ \E verb \in Verbs :
          reviews' = [reviews EXCEPT ![r] =
                         [state |-> "read", verb |-> verb, push |-> @.push,
                          seen |-> pushes[@.push]]]
    /\ UNCHANGED <<storeVars, checkouts, pc, action, localVars, crashes>>

\* ... and its WriteAudit.
ReviewWrites(r) ==
    /\ reviews[r].state = "read"
    /\ StoreVerdict(reviews[r].push, reviews[r].seen, reviews[r].verb, r)
    /\ reviews' = [reviews EXCEPT ![r] = Done(@)]
    /\ UNCHANGED <<checkouts, pc, action, localVars, crashes>>

ReviewFails(r) ==
    /\ reviews[r].state = "read"
    /\ "review" \in Failing
    /\ reviews' = [reviews EXCEPT ![r] = Done(@)]
    /\ UNCHANGED <<storeVars, checkouts, pc, action, localVars, crashes>>

\* The process dies and is started again: the store and .remote survive, every
\* request and every call in progress is lost, and nothing is cleaned up.
Crash ==
    /\ crashes < MaxCrashes
    /\ crashes' = crashes + 1
    /\ pc' = [t \in Attempts |-> IF pc[t] \in Running THEN "lost" ELSE pc[t]]
    /\ action' = [t \in Attempts |-> NewAction]
    /\ seen' = [t \in Attempts |-> NewAction]
    /\ cleanupClone' = {}
    /\ reviews' = [r \in Reviews |->
                      IF reviews[r].state = "read"
                      THEN Done(reviews[r])
                      ELSE reviews[r]]
    /\ UNCHANGED <<storeVars, checkouts, target>>

-----------------------------------------------------------------------------
(* The specification *)

Chain(t) ==
    \/ ProcessorPasses(t) \/ ProcessorFails(t) \/ ParsePushUnnamed(t)
    \/ PullRemote(t) \/ CloneStarts(t) \/ CloneRefused(t)
    \/ CloneSucceeds(t) \/ CloneFails(t) \/ DiscardClone(t)
    \/ AdoptAuthorised(t) \/ NotAuthorised(t) \/ GateReadFails(t)
    \/ HookRuns(t) \/ HookFails(t) \/ BlockForAuth(t)

Wrapup(t) ==
    \/ ClearBareClone(t) \/ ClearBareCloneFails(t) \/ Audit(t)
    \/ AutoVerdictReads(t) \/ AutoVerdictWrites(t) \/ AutoVerdictFails(t)
    \/ Reply(t)

Next ==
    \/ \E t \in Attempts : Arrive(t) \/ Chain(t) \/ Wrapup(t)
    \/ \E r \in Reviews : ReviewReads(r) \/ ReviewWrites(r) \/ ReviewFails(r)
    \/ Crash

Spec == Init /\ [][Next]_vars

\* A goroutine that can take a step takes one: requests and reviewers may stop
\* coming, but what runs inside Execute is sequential code that never waits.
Fairness == \A t \in Attempts : WF_vars(Chain(t) \/ Wrapup(t))

FairSpec == Spec /\ Fairness

-----------------------------------------------------------------------------
(* Safety *)

\* Only what was approved reaches the upstream: an attempt is forwarded only if
\* its push was authorised before, by a reviewer or by the hook, however
\* verdicts, audits and crashes interleave (the gate of checkIfWaitingAuth).
NoUnreviewedForward ==
    \A t \in Attempts : pc[t] = "forwarded" => target[t] \in granted

Records == {pushes[p] : p \in Ids} \ {NoPush}

OneVerdict(record) ==
    /\ ~(record.authorised /\ record.canceled)
    /\ ~(record.authorised /\ record.rejected)
    /\ ~(record.canceled /\ record.rejected)

Attested(record) ==
    record.authorised \/ record.allowPush => record.attestation # Nobody

\* A stored push is at most one of authorised, canceled and rejected, although
\* Authorise, Reject and Cancel read and write in two steps, stale records are
\* written back and audits overwrite whole records.
AtMostOneVerdict == \A record \in Records : OneVerdict(record)

\* The audit trail names who authorised a push that is authorised, and a push
\* that was ever let through, also after a later verdict or a retry's audit.
AuthorisedIsAttested == \A record \in Records : Attested(record)

\* Steps during which an attempt answers for the checkout of its push.
HoldsCheckout ==
    {"cloning", "discardClone", "clearBareClone", "checkIfWaitingAuth",
     "preReceive", "gitleaks", "scanDiff", "blockForAuth"} \union CheckoutReaders

\* A checkout that exists is some running attempt's to remove, so that a push
\* nobody is processing can be retried (clearBareClone, pullRemote's RemoveAll).
FolderHasAnOwner ==
    \A p \in Ids : checkouts[p] # Missing =>
        \E t \in Attempts : target[t] = p /\ pc[t] \in HoldsCheckout

\* The processors that inspect a checkout inspect the attempt's own: no other
\* attempt removed it or put another clone in its place.
CheckoutIntact ==
    \A t \in Attempts : pc[t] \in CheckoutReaders => checkouts[target[t]] = t

\* An authorisation ends only by a later verdict, not by a retry's audit.
AuthorisationOutlivesRetries ==
    [][\A p \in Ids : \A t \in Attempts :
          Audit(t) /\ target[t] = p /\ IsAuthorised(p)
             => pushes'[p].authorised]_vars

-----------------------------------------------------------------------------
(* Inductive strengthenings, for the proofs *)

\* Why only authorised pushes are forwarded: an authorisation is found in the
\* store, or carried by an attempt, only after it was granted, and an attempt
\* that left the chain without one is errored or blocked.
GateInv ==
    /\ \A p \in Ids : IsAuthorised(p) => p \in granted
    /\ \A t \in Attempts :
          /\ action[t].authorised => target[t] \in granted
          /\ action[t].allowPush => target[t] \in granted
          /\ pc[t] \in {"discardClone"} \union AfterChainSteps =>
                action[t].error \/ action[t].blocked \/ action[t].allowPush
    /\ NoUnreviewedForward

\* Why the records in the store are sound: so is every record on its way there,
\* and what an attempt carries was never refused.
Sound(record) == OneVerdict(record) /\ Attested(record)

RecordInv ==
    /\ \A p \in Ids : pushes[p] # NoPush => Sound(pushes[p])
    /\ \A t \in Attempts :
          /\ Sound(action[t]) /\ Sound(seen[t])
          /\ ~action[t].rejected /\ ~action[t].canceled
    /\ \A r \in Reviews : Sound(reviews[r].seen)

\* A verdict that was read is a verdict on a push that stays recorded.
KnownInv ==
    /\ \A t \in Attempts : pc[t] = "autoWrite" => pushes[target[t]] # NoPush
    /\ \A r \in Reviews :
          reviews[r].state = "read" => pushes[reviews[r].push] # NoPush

\* The deployments of which the next one speaks: RemoveAll does its work, and an
\* Action gets the checkout's path before it can fail and be recorded without.
CleansUp == "removeAll" \notin Failing /\ EarlyChecks \intersect Failing = {}

\* The processors that run between an attempt's own clone and its removal.
InCheckout ==
    CheckoutReaders \union {"checkIfWaitingAuth", "preReceive", "gitleaks", "scanDiff",
                            "blockForAuth"}

HasPath(record) == record.proxyGitPath

\* Why a checkout has an owner, until a crash: who cloned knows it, and every
\* record that may be adopted on the way to the removal has the checkout's path,
\* those of verdicts in progress included.
OwnerInv ==
    /\ \A t \in Attempts :
          /\ pc[t] \in InCheckout => t \in cleanupClone
          /\ pc[t] \in Running \ (EarlyChecks \union {"pullRemote"}) => HasPath(action[t])
          /\ pc[t] = "autoWrite" => HasPath(seen[t])
    /\ \A p \in Ids : pushes[p] # NoPush => HasPath(pushes[p])
    /\ \A r \in Reviews : reviews[r].state = "read" => HasPath(reviews[r].seen)
    /\ crashes = 0 => \A p \in Ids :
          checkouts[p] # Missing =>
             target[checkouts[p]] = p /\ pc[checkouts[p]] \in HoldsCheckout

-----------------------------------------------------------------------------
(* The abstract specification *)

\* The verdict that stands on a record, and on a push.
Standing(record) ==
    IF record.authorised THEN "authorised"
    ELSE IF record.rejected THEN "rejected"
    ELSE IF record.canceled THEN "canceled"
    ELSE "held"

Verdict(p) == IF pushes[p] = NoPush THEN "none" ELSE Standing(pushes[p])

Ledger == INSTANCE ReviewLedger WITH
    verdict  <- [p \in Ids |-> Verdict(p)],
    granted  <- granted,
    released <- {<<t, target[t]>> : t \in {a \in Attempts : pc[a] = "forwarded"}}

\* The gate keeps the ledger's promises: a verdict is recorded only for a known
\* push, a lost authorisation can only be restated if it was once granted, and
\* a release follows a grant.
ImplementsLedger == Ledger!LedgerSpec

-----------------------------------------------------------------------------
(* Liveness *)

\* Every request that arrived is answered, whatever failed on the way.
EveryAttemptIsAnswered ==
    \A t \in Attempts : pc[t] \in Running ~> pc[t] \in Ended

\* A checkout is removed again, so that its push can be retried.
CheckoutsAreReclaimed ==
    \A p \in Ids : checkouts[p] # Missing ~> checkouts[p] = Missing

\* A retry that adopts a clean authorised record ends up forwarded.
CleanRetryIsForwarded ==
    \A t \in Attempts :
        (/\ pc[t] = "checkIfWaitingAuth"
         /\ IsAuthorised(target[t])
         /\ ~pushes[target[t]].error)
        ~> (\/ pc[t] = "forwarded"
            \/ ~IsAuthorised(target[t]))
=============================================================================
