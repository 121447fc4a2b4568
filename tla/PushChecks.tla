----------------------------- MODULE PushChecks -----------------------------
(***************************************************************************)
(* What the processors of the push chain read off one push                 *)
(* (internal/chain): the commits of its pack, their messages, authors and  *)
(* committer, the checkout they are written into, the range they belong    *)
(* to, and the diff that is scanned and shown to a reviewer.               *)
(*                                                                         *)
(* The checkout is a shallow clone: it has the commit at the tip of every  *)
(* upstream branch and nothing before it, while the client made its pack   *)
(* for what it knew of the upstream, which may have moved on since.  Each  *)
(* processor is a step; waiting for a verdict, the hook, several attempts  *)
(* at one push, and stores, clones and commands that fail are PushGate's.  *)
(***************************************************************************)
EXTENDS DiffScan

CONSTANTS
    Pushes,          \* the pushes that may arrive, see PushType
    Branches,        \* of the upstream
    MaxCommit,       \* commits are 1..MaxCommit, parents before children
    MessageRules,    \* [blocked : messages, valid : BOOLEAN]: do its patterns compile
    EmailRules,      \* [blocked : e-mails, valid : BOOLEAN]
    DiffRulesCompile,   \* do the patterns and providers of the diff's rules
    PrivateOrganizations,
    Gitleaks,        \* its settings: among "disabled", "enabled", "unreadable"
    Users            \* the stored users' names by e-mail: [emails -> SUBSET names]

Commits == 1..MaxCommit
Zero == 0          \* emptyCommitHash
EmptyTree == -1    \* emptyTreeHash

Keys == {"tree", "parent", "author", "committer", "other"}

\* A commit object: its header lines, whether its persons' lines can be parsed,
\* and how the pack holds it, as a whole or as a delta of another object.
CommitType ==
    [header : Seq(Keys), persons : BOOLEAN, message : STRING,
     author : STRING, committer : STRING, form : {"commit", "ofs_delta", "ref_delta"}]

NoRepo == [listed |-> FALSE, canPush |-> {}, canAuthorise |-> {}]

\* A repository's record: whether there is one, and its lists by right.
RepoType ==
    {r \in [listed : BOOLEAN, canPush : SUBSET STRING, canAuthorise : SUBSET STRING] :
        r.listed \/ r = NoRepo}

\* A push: git's history with the objects in it, the upstream's branches as the
\* client knew them, the ref update, the commits of the pack in its order, whether
\* git can complete the pack, and what the push changes from any diff base.
PushType ==
    [parents : [Commits -> Seq(Commits)], commit : [Commits -> CommitType],
     heads : [Branches -> Commits \union {Zero}], old : Commits \union {Zero},
     new : Commits, repo : RepoType, pack : Seq(Commits), unpacks : BOOLEAN,
     organization : STRING, changes : Seq(Changes)]

\* git numbers no commits: here a commit's parents come before it.
ASSUME PushesAssumption ==
    /\ MaxCommit \in Nat
    /\ Pushes \subseteq PushType
    /\ \A p \in Pushes, c \in Commits : \A q \in ToSet(p.parents[c]) : q < c

Stages == {"parsePush", "checkEmptyBranch", "checkRepo", "checkCommitMessages",
           "checkAuthorEmails", "checkUserPushPermission", "pullRemote", "writePack",
           "checkHiddenCommits", "getDiff", "gitleaks", "scanDiff", "held", "refused"}

VARIABLES
    push,         \* the push
    heads,        \* the upstream's branches now
    repo,         \* the repository's record: its lists by right, or NoRepo
    stage,        \* the processor that runs next
    commitData,   \* the commits parsePush could read, in the pack's order
    commitFrom,   \* the action's range starts after this commit
    checkout,     \* the tips in the shallow clone
    newIdxFiles,  \* the commits of the packs writePack added
    diffBase,     \* what getDiff compared commitTo with
    violations    \* what scanDiff reported

vars == <<push, heads, repo, stage, commitData, commitFrom, checkout,
          newIdxFiles, diffBase, violations>>

world == <<push, heads, repo>>

\* What the processors leave in the action, the checkout and the diff's report.
results == <<commitData, commitFrom, checkout, newIdxFiles, diffBase, violations>>

-----------------------------------------------------------------------------
(* Histories *)

\* Every commit's ancestors and itself, in a history given by its parents; a
\* commit without parents in it is where a shallow history ends.
Ancestors(parents) ==
    LET reach[c \in Commits] ==
        {c} \union UNION {reach[p] : p \in ToSet(parents[c])}
    IN reach

Introduced(parents, after, to) ==
    LET reach == Ancestors(parents)
    IN reach[to] \ (IF after = Zero THEN {} ELSE reach[after])

\* The upstream's commits, when the checkout was cloned.
Upstream == UNION {Ancestors(push.parents)[c] : c \in checkout}

\* The commits that the upstream would get with this push.
New == Ancestors(push.parents)[push.new] \ Upstream

TypeOK ==
    /\ heads \in [Branches -> Commits \union {Zero}]
    /\ repo \in RepoType
    /\ stage \in Stages
    /\ commitData \in Seq(Commits)
    /\ commitFrom \in Commits \union {Zero}
    /\ checkout \subseteq Commits /\ newIdxFiles \subseteq Commits
    /\ diffBase \in Commits \union {Zero, EmptyTree}
    /\ \A v \in violations : v.rule \in Rules

Init ==
    /\ push \in Pushes
    /\ heads = push.heads
    /\ repo = push.repo
    /\ stage = "parsePush"
    /\ commitData = <<>> /\ commitFrom = Zero
    /\ checkout = {} /\ newIdxFiles = {}
    /\ diffBase = Zero /\ violations = {}

\* A processor's step errors, and the chain ends.
Refuse ==
    /\ stage' = "refused"
    /\ UNCHANGED <<world, results>>

\* A processor that only reads passes the push on.
Pass(next) ==
    /\ stage' = next
    /\ UNCHANGED <<world, results>>

-----------------------------------------------------------------------------
(* The pack's commits *)

Occurrences(header, key) == Cardinality({i \in DOMAIN header : header[i] = key})

\* getParsedData: one tree, one author, one committer, and persons that parse.
Readable(c) ==
    /\ push.commit[c].persons
    /\ \A key \in {"tree", "author", "committer"} :
          Occurrences(push.commit[c].header, key) = 1

\* getCommitData reads the objects that are commits as they stand in the pack. What it
\* has read after each object:
CommitsRead ==
    LET read[n \in 0..Len(push.pack)] ==
          IF n = 0 THEN <<>>
          ELSE LET c == push.pack[n]
               IN IF push.commit[c].form = "commit" THEN Append(read[n - 1], c) ELSE read[n - 1]
    IN read

getCommitData == CommitsRead[Len(push.pack)]

\* The first of a commit's parents.
Parent(c) == IF push.parents[c] = <<>> THEN Zero ELSE Head(push.parents[c])

\* Mutant: the range begins before the first commit of the pack.
RangeStartOfFirst(data) ==
    IF push.old = Zero /\ data # <<>> THEN Parent(Head(data)) ELSE push.old

\* A new branch's range begins before the last commit of the pack.
RangeStart(data) ==
    IF push.old = Zero /\ data # <<>> THEN Parent(Last(data)) ELSE push.old

ParsePush ==
    /\ stage = "parsePush"
    /\ IF \A c \in ToSet(getCommitData) : Readable(c)
       THEN /\ commitData' = getCommitData
            /\ commitFrom' = RangeStart(getCommitData)
            /\ stage' = "checkEmptyBranch"
            /\ UNCHANGED <<world, checkout, newIdxFiles, diffBase, violations>>
       ELSE Refuse

CheckEmptyBranch ==
    /\ stage = "checkEmptyBranch"
    /\ IF commitData # <<>> THEN Pass("checkRepo") ELSE Refuse

CheckRepoInAuthorisedList ==
    /\ stage = "checkRepo"
    /\ IF repo.listed THEN Pass("checkCommitMessages") ELSE Refuse

\* A blank message is never allowed; a pattern that does not compile blocks all.
isMessageAllowed(message) ==
    message # "" /\ MessageRules.valid /\ message \notin MessageRules.blocked

CheckCommitMessages ==
    /\ stage = "checkCommitMessages"
    /\ IF \A c \in ToSet(commitData) : isMessageAllowed(push.commit[c].message)
       THEN Pass("checkAuthorEmails") ELSE Refuse

\* Of a domain that is allowed, with a local part that is not blocked.
isEmailAllowed(email) == email # "" /\ email \notin EmailRules.blocked

CheckAuthorEmails ==
    /\ stage = "checkAuthorEmails"
    /\ IF EmailRules.valid /\ \A c \in ToSet(commitData) : isEmailAllowed(push.commit[c].author)
       THEN Pass("checkUserPushPermission") ELSE Refuse

\* The committer of the pack's last commit stands for the pusher.
UserEmail == push.commit[Last(commitData)].committer

isUserPushAllowed(username) ==
    repo.listed /\ username \in repo.canPush \union repo.canAuthorise

CheckUserPushPermission ==
    /\ stage = "checkUserPushPermission"
    /\ IF /\ UserEmail \in DOMAIN Users
          /\ \E u \in Users[UserEmail] : Users[UserEmail] = {u} /\ isUserPushAllowed(u)
       THEN Pass("pullRemote") ELSE Refuse

-----------------------------------------------------------------------------
(* The checkout *)

\* A clone of depth one: the tips of the upstream's branches.
PullRemote ==
    /\ stage = "pullRemote"
    /\ checkout' = {heads[b] : b \in Branches} \ {Zero}
    /\ stage' = "writePack"
    /\ UNCHANGED <<world, commitData, commitFrom, newIdxFiles, diffBase, violations>>

\* The exit status of receive-pack is ignored: a pack that git cannot complete
\* adds no index file.
WritePack ==
    /\ stage = "writePack"
    /\ newIdxFiles' = IF push.unpacks THEN ToSet(push.pack) ELSE {}
    /\ stage' = "checkHiddenCommits"
    /\ UNCHANGED <<world, commitData, commitFrom, checkout, diffBase, violations>>

Objects == checkout \union newIdxFiles

\* The checkout's history, which ends at the tips that were cloned.
Shallow == [c \in Commits |-> IF c \in checkout THEN <<>> ELSE push.parents[c]]

\* git rev-list needs every commit it walks over.
RevList == Introduced(Shallow, commitFrom, push.new)
RevListFails == ~(RevList \union ({commitFrom} \ {Zero}) \subseteq Objects)

\* Mutant: commits outside the range are logged only.
CheckHiddenCommitsLeniently ==
    /\ stage = "checkHiddenCommits"
    /\ IF ~RevListFails THEN Pass("getDiff") ELSE Refuse

CheckHiddenCommits ==
    /\ stage = "checkHiddenCommits"
    /\ IF ~RevListFails /\ newIdxFiles \subseteq RevList THEN Pass("getDiff") ELSE Refuse

-----------------------------------------------------------------------------
(* The diff *)

DiffBase ==
    IF commitFrom # Zero THEN commitFrom
    ELSE IF Parent(Head(commitData)) # Zero THEN Parent(Last(commitData))
    ELSE EmptyTree

GetDiff ==
    /\ stage = "getDiff"
    /\ IF DiffBase \in Objects \union {EmptyTree}
       THEN /\ diffBase' = DiffBase
            /\ stage' = "gitleaks"
            /\ UNCHANGED <<world, commitData, commitFrom, checkout, newIdxFiles, violations>>
       ELSE Refuse

\* What gitleaks itself finds is any of its exit codes.
RunGitleaks ==
    /\ stage = "gitleaks"
    /\ \/ "disabled" \in Gitleaks /\ Pass("scanDiff")
       \/ "unreadable" \in Gitleaks /\ Refuse
       \/ "enabled" \in Gitleaks /\ \E code \in {0, 1, 99} : IF code = 0 THEN Pass("scanDiff") ELSE Refuse

ScanDiff ==
    /\ stage = "scanDiff"
    /\ violations' = IF DiffRulesCompile
                     THEN scanDiffViolations(GitDiff(push.changes),
                              diffMatchers(push.organization \in PrivateOrganizations))
                     ELSE {}
    /\ stage' = IF DiffRulesCompile /\ violations' = {} THEN "held" ELSE "refused"
    /\ UNCHANGED <<world, commitData, commitFrom, checkout, newIdxFiles, diffBase>>

-----------------------------------------------------------------------------
(* The world around the chain *)

\* Another push reaches the upstream before the checkout is cloned.
UpstreamMoves(b, c) ==
    /\ stage = "pullRemote"
    /\ heads = push.heads /\ heads[b] # c
    /\ heads' = [heads EXCEPT ![b] = c]
    /\ UNCHANGED <<push, repo, stage, results>>

\* An administrator deletes the repository's record, which two processors read.
RepoDeleted ==
    /\ repo.listed
    /\ stage \in {"checkRepo", "checkUserPushPermission"}
    /\ repo' = NoRepo
    /\ UNCHANGED <<push, heads, stage, results>>

Next ==
    \/ ParsePush \/ CheckEmptyBranch \/ CheckRepoInAuthorisedList \/ CheckCommitMessages
    \/ CheckAuthorEmails \/ CheckUserPushPermission \/ PullRemote \/ WritePack
    \/ CheckHiddenCommits \/ GetDiff \/ RunGitleaks \/ ScanDiff
    \/ \E b \in Branches, c \in Commits : UpstreamMoves(b, c)
    \/ RepoDeleted

Spec == Init /\ [][Next]_vars

-----------------------------------------------------------------------------
(* Properties *)

Whole == \A c \in ToSet(push.pack) : push.commit[c].form = "commit"

\* Of a push that is held for review, every commit that the upstream would get
\* has been examined: its message and its author's address are allowed, in
\* whichever order the pack has the commits and however the upstream moved since
\* the client made it, whether or not git could complete the pack; provided git sent
\* every commit as a whole.
HeldPushWasExamined ==
    stage = "held" /\ Whole =>
        /\ New \subseteq ToSet(commitData)
        /\ \A c \in New :
              /\ isMessageAllowed(push.commit[c].message)
              /\ isEmailAllowed(push.commit[c].author)

\* The diff a reviewer is shown starts at a commit the upstream has, or at
\* nothing: no commit of the push is on its other side.
ReviewStartsAtUpstream ==
    stage = "held" => diffBase \in Upstream \union {EmptyTree}

Rulings == diffMatchers(push.organization \in PrivateOrganizations)

\* The added lines that match a rule, by rule, path and number.
Offences ==
    UNION {{<<r, l.file, l.line>> :
               r \in {q \in Rulings : \E k \in DOMAIN l.text : q \in Hits[l.text[k]]}} :
           l \in AddedLines(push.changes)}

\* scanDiff reports exactly the added lines that match a rule, under the path and
\* the number they have in the new version, whatever the lines look like; and it
\* lets no such line through to review.
ScanFindsAddedLines ==
    /\ stage = "held" => Offences = {}
    /\ violations # {} =>
          Offences = UNION {{<<v.rule, v.file, n>> : n \in v.lines} : v \in violations}

\* A push with nothing in it that a rule forbids, by a committer who may push.
Clean ==
    /\ \A c \in ToSet(push.pack) :
          /\ push.commit[c].form = "commit" /\ Readable(c)
          /\ isMessageAllowed(push.commit[c].message)
          /\ isEmailAllowed(push.commit[c].author)
          /\ push.commit[c].committer \in DOMAIN Users
          /\ \E u \in repo.canPush \union repo.canAuthorise :
                Users[push.commit[c].committer] = {u}
    /\ EmailRules.valid /\ DiffRulesCompile
    /\ Offences = {}

\* A push of new commits that grew on the tips of upstream branches which have not
\* moved since, as git packs them: complete, children before parents.
FromTips ==
    LET reach == Ancestors(push.parents)
        tips == {heads[b] : b \in Branches} \ {Zero}
        packed == ToSet(push.pack)
    IN /\ heads = push.heads
       /\ push.unpacks
       /\ packed # {}
       /\ packed = reach[push.new] \ UNION {reach[t] : t \in tips}
       /\ \A c \in packed : ToSet(push.parents[c]) \subseteq packed \union tips
       /\ \A i, j \in DOMAIN push.pack :
             push.pack[j] \in ToSet(push.parents[push.pack[i]]) => i < j
       /\ IF push.old = Zero THEN Parent(Last(push.pack)) \in tips
          ELSE push.old \in tips /\ push.old \in reach[push.new]

\* An ordinary push is not refused, by any processor but gitleaks: clean commits,
\* to a branch they start from or a new one, from tips the shallow checkout has.
\* (It does not hold for commits that start below a tip, which the checkout lacks,
\* nor for two or more that start from nothing, for which getDiff has no base.)
OrdinaryPushIsHeld ==
    [][Clean /\ FromTips /\ stage # "gitleaks" => stage' # "refused"]_vars
=============================================================================
