----------------------------- MODULE SshGateway -----------------------------
(***************************************************************************)
(* git over SSH (internal/proxy/ssh): connections authenticated by key,    *)
(* session channels on them with one goroutine each, the forwarded agent   *)
(* that all sessions of a connection share, the upstream git command a     *)
(* session runs, and the goroutines that relay its streams.                *)
(*                                                                         *)
(* The processor chain is a choice of approving or denying; PushGate       *)
(* models what it does.  The client and the upstream's git are external:   *)
(* they send, finish and vanish when they like.                            *)
(***************************************************************************)
EXTENDS Integers

CONSTANTS
    Sessions,    \* session channels, each opened at most once
    Conns,       \* connections
    ConnOf,      \* the connection each session is opened on
    OpOf,        \* the git command of each session
    Failing      \* what may fail in this instance

Fallible == {"key", "command", "agent", "dial", "advertisement", "upstream", "window"}

ASSUME SshAssumption ==
    /\ ConnOf \in [Sessions -> Conns]
    /\ OpOf \in [Sessions -> {"receive-pack", "upload-pack"}]
    /\ Failing \subseteq Fallible

\* What a client has sent on a push, and what of it was buffered.  More than
\* maxPackBytes is cut off, and is then no better than a pack sent in part.
Sent == {"nothing", "part", "oversize", "whole"}
Packs == {"nothing", "part", "whole"}

\* A session goroutine: handleSession, handleExec, Handle, handlePush and
\* handlePull, and the way out of them.
PushSteps == {"dialPush", "advertisement", "relayCaps", "readPack", "execute", "forward"}
PullSteps == {"authorise", "dialPull"}
Handling ==
    PushSteps \union PullSteps \union
    {"exec", "execAgain", "handle", "relay", "wait", "return", "report"}
Steps == {"unopened", "requests", "ended"} \union Handling

Unreported == -1    \* no exit status was sent
Unfinished == -2    \* the upstream's command still runs
Statuses == {0, 1}

VARIABLES
    conn,        \* each connection: "new", "open", "refused" or "closed"
    forwarding,  \* the connections whose connState has agentForwarding set
    asked,       \* the sessions that asked for agent forwarding themselves
    pc,          \* where each session goroutine stands
    request,     \* its GitRequest: AgentForwarding, and whether OpenAgent is set
    agents,      \* the sessions that hold a channel to the client's agent
    client,      \* the client's end: "open", "eof" or "gone"
    sent,        \* what the client sent for a push
    pack,        \* what was buffered, and given to the chain
    approved,    \* the sessions whose request the chain approved
    upstream,    \* the upstream's command: state, stdin and exit status
    relays,      \* the relaying goroutines that run, <<session, stream>>
    status,      \* the exit status a handler is about to report
    answer       \* what the client was told: a reason, and an exit status

vars == <<conn, forwarding, asked, pc, request, agents, client,
          sent, pack, approved, upstream, relays, status, answer>>

connVars == <<conn, forwarding, asked>>
requestVars == <<request, agents>>
clientVars == <<client, sent>>
chainVars == <<pack, approved>>
farVars == <<upstream, relays>>

GitRequest == [forwarding : BOOLEAN, openAgent : BOOLEAN]
RemoteSession ==
    [state : {"none", "running", "blocked", "exited", "released"},
     stdin : Packs, closed : BOOLEAN, status : Statuses \union {Unfinished}]
Answer == [reason : BOOLEAN, exit : Statuses \union {Unreported}]

NoUpstream == [state |-> "none", stdin |-> "nothing", closed |-> FALSE, status |-> Unfinished]

TypeOK ==
    /\ conn \in [Conns -> {"new", "open", "refused", "closed"}]
    /\ forwarding \subseteq Conns /\ asked \subseteq Sessions
    /\ pc \in [Sessions -> Steps]
    /\ request \in [Sessions -> GitRequest]
    /\ agents \subseteq Sessions
    /\ client \in [Sessions -> {"open", "eof", "gone"}]
    /\ sent \in [Sessions -> Sent]
    /\ pack \in [Sessions -> Packs]
    /\ approved \subseteq Sessions
    /\ upstream \in [Sessions -> RemoteSession]
    /\ relays \subseteq Sessions \X {"stdin", "stderr"}
    /\ status \in [Sessions -> Statuses]
    /\ answer \in [Sessions -> Answer]

Init ==
    /\ conn = [c \in Conns |-> "new"]
    /\ forwarding = {} /\ asked = {}
    /\ pc = [s \in Sessions |-> "unopened"]
    /\ request = [s \in Sessions |-> [forwarding |-> FALSE, openAgent |-> FALSE]]
    /\ agents = {}
    /\ client = [s \in Sessions |-> "open"]
    /\ sent = [s \in Sessions |-> "nothing"]
    /\ pack = [s \in Sessions |-> "nothing"]
    /\ approved = {}
    /\ upstream = [s \in Sessions |-> NoUpstream]
    /\ relays = {}
    /\ status = [s \in Sessions |-> 1]
    /\ answer = [s \in Sessions |-> [reason |-> FALSE, exit |-> Unreported]]

Goto(s, step) == pc' = [pc EXCEPT ![s] = step]

\* writeClientError; what is written to a client that is gone is lost.
Told(s) == [answer EXCEPT ![s].reason = client[s] # "gone"]

\* A handler returns a status, after telling the client why or without a word.
FailWith(s, next) ==
    /\ answer' = Told(s)
    /\ status' = [status EXCEPT ![s] = 1]
    /\ Goto(s, next)

ReturnStatus(s, code) ==
    /\ status' = [status EXCEPT ![s] = code]
    /\ Goto(s, "return")
    /\ UNCHANGED answer

-----------------------------------------------------------------------------
(* Connections *)

\* handleConn after the handshake: the key names a user, or is refused.
Accept(c) ==
    /\ conn[c] = "new"
    /\ \/ conn' = [conn EXCEPT ![c] = "open"]
       \/ "key" \in Failing /\ conn' = [conn EXCEPT ![c] = "refused"]
    /\ UNCHANGED <<forwarding, asked, pc, requestVars, clientVars,
                   chainVars, farVars, status, answer>>

\* The client drops the connection, with every session on it.
Disconnect(c) ==
    /\ conn[c] = "open"
    /\ conn' = [conn EXCEPT ![c] = "closed"]
    /\ client' = [s \in Sessions |-> IF ConnOf[s] = c THEN "gone" ELSE client[s]]
    /\ UNCHANGED <<forwarding, asked, pc, requestVars, sent,
                   chainVars, farVars, status, answer>>

OpenSession(s) ==
    /\ pc[s] = "unopened" /\ conn[ConnOf[s]] = "open"
    /\ Goto(s, "requests")
    /\ UNCHANGED <<connVars, requestVars, clientVars, chainVars, farVars, status, answer>>

-----------------------------------------------------------------------------
(* handleSession and handleExec *)

\* An auth-agent-req: the flag is the connection's, not the session's.
AskForwarding(s) ==
    /\ pc[s] = "requests" /\ client[s] # "gone" /\ s \notin asked
    /\ forwarding' = forwarding \union {ConnOf[s]}
    /\ asked' = asked \union {s}
    /\ UNCHANGED <<conn, pc, requestVars, clientVars, chainVars,
                   farVars, status, answer>>

Exec(s) ==
    /\ pc[s] = "requests" /\ client[s] # "gone"
    /\ Goto(s, "exec")
    /\ UNCHANGED <<connVars, requestVars, clientVars, chainVars, farVars, status, answer>>

\* A payload that does not parse, an unsupported command or a bad path.
ExecRefused(s) ==
    /\ pc[s] = "requests" /\ client[s] # "gone"
    /\ "command" \in Failing
    /\ FailWith(s, "report")
    /\ UNCHANGED <<connVars, requestVars, clientVars, chainVars, farVars>>

\* The requests end without an exec: the goroutine returns.
Abandoned(s) ==
    /\ pc[s] = "requests" /\ client[s] = "gone"
    /\ Goto(s, "ended")
    /\ UNCHANGED <<connVars, requestVars, clientVars, chainVars, farVars, status, answer>>

\* Mutant: the flag is taken down by the session that uses it.
ReadForwardingOnce(s) ==
    /\ pc[s] = "exec"
    /\ request' = [request EXCEPT ![s].forwarding = ConnOf[s] \in forwarding]
    /\ forwarding' = forwarding \ {ConnOf[s]}
    /\ Goto(s, "execAgain")
    /\ UNCHANGED <<conn, asked, agents, clientVars, chainVars,
                   farVars, status, answer>>

\* handleExec reads cs.agentForwarding twice, without a lock: once for the
\* request's flag ...
ReadForwarding(s) ==
    /\ pc[s] = "exec"
    /\ request' = [request EXCEPT ![s].forwarding = ConnOf[s] \in forwarding]
    /\ Goto(s, "execAgain")
    /\ UNCHANGED <<connVars, agents, clientVars, chainVars, farVars, status, answer>>

\* ... and once to decide whether there is an agent to open.
ReadForwardingAgain(s) ==
    /\ pc[s] = "execAgain"
    /\ request' = [request EXCEPT ![s].openAgent = ConnOf[s] \in forwarding]
    /\ Goto(s, "handle")
    /\ UNCHANGED <<connVars, agents, clientVars, chainVars, farVars, status, answer>>

-----------------------------------------------------------------------------
(* Handle *)

NeedsAgent(s) ==
    /\ pc[s] = "handle"
    /\ ~request[s].forwarding \/ ~request[s].openAgent
    /\ FailWith(s, "report")
    /\ UNCHANGED <<connVars, requestVars, clientVars, chainVars, farVars>>

OpenAgent(s) ==
    /\ pc[s] = "handle"
    /\ request[s].forwarding /\ request[s].openAgent
    /\ conn[ConnOf[s]] = "open"
    /\ agents' = agents \union {s}
    /\ Goto(s, IF OpOf[s] = "receive-pack" THEN "dialPush" ELSE "authorise")
    /\ UNCHANGED <<connVars, request, clientVars, chainVars, farVars, status, answer>>

OpenAgentFails(s) ==
    /\ pc[s] = "handle"
    /\ request[s].forwarding /\ request[s].openAgent
    /\ conn[ConnOf[s]] # "open" \/ "agent" \in Failing
    /\ FailWith(s, "report")
    /\ UNCHANGED <<connVars, requestVars, clientVars, chainVars, farVars>>

\* upstream.Run: a command runs on the upstream, or nothing is left of it.
Dial(s) ==
    /\ pc[s] \in {"dialPush", "dialPull"}
    /\ upstream' = [upstream EXCEPT ![s].state = "running"]
    /\ relays' = IF OpOf[s] = "receive-pack" THEN relays
                 ELSE relays \union ({s} \X {"stdin", "stderr"})
    /\ Goto(s, IF OpOf[s] = "receive-pack" THEN "advertisement" ELSE "relay")
    /\ UNCHANGED <<connVars, requestVars, clientVars, chainVars, status, answer>>

DialFails(s) ==
    /\ pc[s] \in {"dialPush", "dialPull"}
    /\ conn[ConnOf[s]] # "open" \/ "dial" \in Failing
    /\ FailWith(s, "return")
    /\ UNCHANGED <<connVars, requestVars, clientVars, chainVars, farVars>>

-----------------------------------------------------------------------------
(* handlePush *)

Advertised(s) ==
    /\ pc[s] = "advertisement"
    /\ upstream[s].state = "running"
    /\ Goto(s, "relayCaps")
    /\ UNCHANGED <<connVars, requestVars, clientVars, chainVars, farVars, status, answer>>

\* The upstream ends before its flush packet, or sends no pkt-lines.
NotAdvertised(s) ==
    /\ pc[s] = "advertisement"
    /\ upstream[s].state = "exited" \/ "advertisement" \in Failing
    /\ FailWith(s, "return")
    /\ UNCHANGED <<connVars, requestVars, clientVars, chainVars, farVars>>

RelayCaps(s) ==
    /\ pc[s] = "relayCaps"
    /\ IF client[s] = "gone" THEN ReturnStatus(s, 1)
       ELSE Goto(s, "readPack") /\ UNCHANGED <<status, answer>>
    /\ UNCHANGED <<connVars, requestVars, clientVars, chainVars, farVars>>

\* The client sends its commands and pack, finishes its side, or is gone with
\* part of it sent.
ClientSends(s) ==
    /\ pc[s] = "readPack" /\ client[s] = "open" /\ sent[s] = "nothing"
    /\ \E what \in Sent \ {"nothing"} : sent' = [sent EXCEPT ![s] = what]
    /\ UNCHANGED <<connVars, pc, requestVars, client, chainVars, farVars, status, answer>>

ClientFinishes(s) ==
    /\ pc[s] # "unopened" /\ client[s] = "open"
    /\ client' = [client EXCEPT ![s] = "eof"]
    /\ UNCHANGED <<connVars, pc, requestVars, sent, chainVars, farVars, status, answer>>

ClientCloses(s) ==
    /\ pc[s] # "unopened" /\ client[s] # "gone"
    /\ client' = [client EXCEPT ![s] = "gone"]
    /\ UNCHANGED <<connVars, pc, requestVars, sent, chainVars, farVars, status, answer>>

\* Mutant: the pack is passed on to the upstream as it is read.
ReadPackThrough(s) ==
    /\ pc[s] = "readPack"
    /\ client[s] # "open" \/ sent[s] = "oversize"
    /\ pack' = [pack EXCEPT ![s] = IF sent[s] = "oversize" THEN "part" ELSE sent[s]]
    /\ upstream' = [upstream EXCEPT ![s].stdin = pack'[s]]
    /\ IF sent[s] = "nothing" THEN ReturnStatus(s, 0)
       ELSE Goto(s, "execute") /\ UNCHANGED <<status, answer>>
    /\ UNCHANGED <<connVars, requestVars, clientVars, approved, relays>>

\* ReadAll up to the client's EOF, or to the limit.
ReadPack(s) ==
    /\ pc[s] = "readPack"
    /\ client[s] # "open" \/ sent[s] = "oversize"
    /\ pack' = [pack EXCEPT ![s] = IF sent[s] = "oversize" THEN "part" ELSE sent[s]]
    /\ IF sent[s] = "nothing" THEN ReturnStatus(s, 0)
       ELSE Goto(s, "execute") /\ UNCHANGED <<status, answer>>
    /\ UNCHANGED <<connVars, requestVars, clientVars, approved, farVars>>

\* The chain approves a pull of a known repository, or a pack it could parse
\* and unpack whole.
Approve(s) ==
    /\ pc[s] \in {"execute", "authorise"}
    /\ pc[s] = "execute" => pack[s] = "whole"
    /\ approved' = approved \union {s}
    /\ Goto(s, IF pc[s] = "execute" THEN "forward" ELSE "dialPull")
    /\ UNCHANGED <<connVars, requestVars, clientVars, pack, farVars, status, answer>>

Deny(s) ==
    /\ pc[s] \in {"execute", "authorise"}
    /\ FailWith(s, "return")
    /\ UNCHANGED <<connVars, requestVars, clientVars, chainVars, farVars>>

\* The pack is written to the upstream and its stdin closed.
Forward(s) ==
    /\ pc[s] = "forward"
    /\ upstream[s].state = "running"
    /\ upstream' = [upstream EXCEPT ![s].stdin = pack[s], ![s].closed = TRUE]
    /\ relays' = relays \union {<<s, "stderr">>}
    /\ Goto(s, "relay")
    /\ UNCHANGED <<connVars, requestVars, clientVars, chainVars, status, answer>>

ForwardFails(s) ==
    /\ pc[s] = "forward"
    /\ upstream[s].state = "exited"
    /\ ReturnStatus(s, 1)
    /\ UNCHANGED <<connVars, requestVars, clientVars, chainVars, farVars>>

-----------------------------------------------------------------------------
(* Relaying, and the way out *)

\* io.Copy of the upstream's output ends with it, or when the client is gone.
RelayOutput(s) ==
    /\ pc[s] = "relay"
    /\ upstream[s].state = "exited" \/ client[s] = "gone"
    /\ Goto(s, "wait")
    /\ UNCHANGED <<connVars, requestVars, clientVars, chainVars, farVars, status, answer>>

\* Mutant: a command that ended without a status counts as done.
WaitIgnoringErrors(s) ==
    /\ pc[s] = "wait"
    /\ upstream[s].state = "exited"
    /\ ReturnStatus(s, 0)
    /\ UNCHANGED <<connVars, requestVars, clientVars, chainVars, farVars>>

\* Mutant: the status is taken before the command has one.
DoNotWait(s) ==
    /\ pc[s] = "wait"
    /\ ReturnStatus(s, upstream[s].status)
    /\ UNCHANGED <<connVars, requestVars, clientVars, chainVars, farVars>>

Wait(s) ==
    /\ pc[s] = "wait"
    /\ upstream[s].state = "exited"
    /\ ReturnStatus(s, upstream[s].status)
    /\ UNCHANGED <<connVars, requestVars, clientVars, chainVars, farVars>>

\* Mutant: the upstream's session is left to the connection.
ReturnUnreleased(s) ==
    /\ pc[s] = "return"
    /\ agents' = agents \ {s}
    /\ Goto(s, "report")
    /\ UNCHANGED <<connVars, request, clientVars, chainVars, farVars, status, answer>>

\* The deferred calls of Handle and of the operation's handler.
Return(s) ==
    /\ pc[s] = "return"
    /\ upstream' = [upstream EXCEPT ![s].state = IF @ = "none" THEN @ ELSE "released"]
    /\ agents' = agents \ {s}
    /\ Goto(s, "report")
    /\ UNCHANGED <<connVars, request, clientVars, chainVars, relays, status, answer>>

\* sendExitStatus, and the channel's close.
Report(s) ==
    /\ pc[s] = "report"
    /\ answer' = [answer EXCEPT ![s].exit = IF client[s] = "gone" THEN @ ELSE status[s]]
    /\ Goto(s, "ended")
    /\ UNCHANGED <<connVars, requestVars, clientVars, chainVars, farVars, status>>

\* Mutant: the upstream's stdin stays open.
RelayInputEndsQuietly(s) ==
    /\ <<s, "stdin">> \in relays
    /\ client[s] # "open" \/ upstream[s].state \in {"exited", "released"}
    /\ relays' = relays \ {<<s, "stdin">>}
    /\ UNCHANGED <<connVars, pc, requestVars, clientVars, chainVars, upstream, status, answer>>

\* The goroutine that feeds a pull's requests to the upstream closes its stdin
\* when the client's side ends, or a write to the upstream fails.
RelayInputEnds(s) ==
    /\ <<s, "stdin">> \in relays
    /\ client[s] # "open" \/ upstream[s].state \in {"exited", "released"}
    /\ upstream' = [upstream EXCEPT ![s].closed = TRUE]
    /\ relays' = relays \ {<<s, "stdin">>}
    /\ UNCHANGED <<connVars, pc, requestVars, clientVars, chainVars, status, answer>>

RelayErrorsEnds(s) ==
    /\ <<s, "stderr">> \in relays
    /\ upstream[s].state \in {"exited", "released"} \/ client[s] = "gone"
    /\ relays' = relays \ {<<s, "stderr">>}
    /\ UNCHANGED <<connVars, pc, requestVars, clientVars, chainVars, upstream, status, answer>>

\* The upstream's git ends when its input does, or has served a pull, with a
\* status of its own; a push that did not arrive whole it refuses.
UpstreamExits(s) ==
    /\ upstream[s].state = "running"
    /\ upstream[s].closed \/ OpOf[s] = "upload-pack"
    /\ \E code \in Statuses :
          /\ OpOf[s] = "receive-pack" /\ upstream[s].stdin # "whole" => code = 1
          /\ upstream' = [upstream EXCEPT ![s].state = "exited", ![s].status = code]
    /\ UNCHANGED <<connVars, pc, requestVars, clientVars, chainVars, relays, status, answer>>

\* It has more to say than the channel's window holds, and nobody reads any more.
UpstreamBlocks(s) ==
    /\ "window" \in Failing
    /\ upstream[s].state = "running" /\ pc[s] = "wait"
    /\ upstream' = [upstream EXCEPT ![s].state = "blocked"]
    /\ UNCHANGED <<connVars, pc, requestVars, clientVars, chainVars, relays, status, answer>>

\* Its connection breaks, or it dies: Wait then reports 1.
UpstreamDies(s) ==
    /\ "upstream" \in Failing
    /\ upstream[s].state \in {"running", "blocked"}
    /\ upstream' = [upstream EXCEPT ![s].state = "exited", ![s].status = 1]
    /\ UNCHANGED <<connVars, pc, requestVars, clientVars, chainVars, relays, status, answer>>

-----------------------------------------------------------------------------
(* The specification *)

Handler(s) ==
    \/ ReadForwarding(s) \/ ReadForwardingAgain(s)
    \/ NeedsAgent(s) \/ OpenAgent(s) \/ OpenAgentFails(s)
    \/ Dial(s) \/ DialFails(s)
    \/ Advertised(s) \/ NotAdvertised(s) \/ RelayCaps(s) \/ ReadPack(s)
    \/ Approve(s) \/ Deny(s) \/ Forward(s) \/ ForwardFails(s)
    \/ RelayOutput(s) \/ Wait(s) \/ Return(s) \/ Report(s)

Relay(s) == RelayInputEnds(s) \/ RelayErrorsEnds(s)

Client(s) ==
    \/ AskForwarding(s) \/ Exec(s) \/ ExecRefused(s)
    \/ ClientSends(s) \/ ClientFinishes(s) \/ ClientCloses(s)

Next ==
    \/ \E c \in Conns : Accept(c) \/ Disconnect(c)
    \/ \E s \in Sessions :
          \/ OpenSession(s) \/ Abandoned(s) \/ Client(s)
          \/ Handler(s) \/ Relay(s)
          \/ UpstreamExits(s) \/ UpstreamBlocks(s) \/ UpstreamDies(s)

Spec == Init /\ [][Next]_vars

\* The goroutines run; an upstream that was reached answers, and its git ends when
\* its input does.  The client owes nothing, so a copy from it that waits for
\* bytes, or to it, may wait for ever.
Fairness ==
    \A s \in Sessions :
        /\ WF_vars(Handler(s))
        /\ WF_vars(client[s] # "open" /\ RelayInputEnds(s))
        /\ WF_vars(upstream[s].state \in {"exited", "released"} /\ RelayErrorsEnds(s))
        /\ WF_vars(upstream[s].closed /\ UpstreamExits(s))

FairSpec == Spec /\ Fairness

-----------------------------------------------------------------------------
(* Properties *)

\* The upstream receives nothing of a push but the very bytes the chain has
\* approved, whatever the client sends, cuts short or drops (handlePush buffers
\* "before anything reaches the upstream").
UpstreamGetsInspectedPack ==
    \A s \in Sessions :
        OpOf[s] = "receive-pack" /\ upstream[s].stdin # "nothing"
            => s \in approved /\ upstream[s].stdin = pack[s]

Done(s) ==
    \/ OpOf[s] = "receive-pack" /\ sent[s] = "nothing"
    \/ /\ s \in approved
       /\ upstream[s].status = 0
       /\ OpOf[s] = "receive-pack" => upstream[s].stdin = "whole"

\* A client told exit status 0 had nothing to push, or its whole request was
\* approved, delivered, and done by the upstream: no error path ends in 0.
ZeroMeansDone == \A s \in Sessions : answer[s].exit = 0 => Done(s)

\* A session that asked for agent forwarding before its exec is not refused for
\* want of it, whatever the other sessions of the connection do to the flag.
AskedForwardingIsHonoured ==
    \A s \in Sessions :
        pc[s] = "handle" /\ s \in asked
            => request[s].forwarding /\ request[s].openAgent

\* A session that reports has given back the client's agent and the upstream's
\* session, on every path (the deferred closes of Handle and its handlers).
NothingHeldAtTheEnd ==
    \A s \in Sessions :
        pc[s] \in {"report", "ended"}
            => s \notin agents /\ upstream[s].state \in {"none", "released"}

\* A session whose client has finished or vanished ends, and so do the
\* goroutines that relayed for it.  One way to stay for ever is left, and only to
\* a session whose client vanished while the upstream had more to send than a
\* window: the copying stops, Wait does not return, and the deferred Close that
\* would end the upstream comes after it.
FinishedSessionsEnd ==
    \A s \in Sessions :
        (pc[s] \in Handling /\ client[s] # "open")
            ~> \/ pc[s] = "ended" /\ relays \intersect ({s} \X {"stdin", "stderr"}) = {}
               \/ pc[s] = "wait" /\ client[s] = "gone" /\ upstream[s].state = "blocked"

-----------------------------------------------------------------------------
(* Inductive strengthenings, for the proofs *)

Early == {"unopened", "requests", "exec", "execAgain", "handle"}
Undialled == Early \union {"dialPush", "authorise", "dialPull"}
Leaving == {"return", "report", "ended"}

\* A session walks the steps of its own operation, and has no upstream before it
\* dials.
StepInv ==
    \A s \in Sessions :
        /\ pc[s] \in PushSteps => OpOf[s] = "receive-pack"
        /\ pc[s] \in PullSteps => OpOf[s] = "upload-pack"
        /\ pc[s] \in Undialled => upstream[s].state = "none"

\* Why a status that is waited for is one: the upstream has it when it has ended.
ExitInv ==
    \A s \in Sessions :
        /\ upstream[s].state \in {"none", "running", "blocked"} => upstream[s].status = Unfinished
        /\ upstream[s].state = "exited" => upstream[s].status \in Statuses

\* Why the upstream gets the inspected pack: nothing is written to it before the
\* pack is forwarded, and nothing is forwarded or relayed unapproved.
PackInv ==
    /\ \A s \in Sessions :
          /\ pc[s] \in Early \union PushSteps => upstream[s].stdin = "nothing"
          /\ pc[s] \in {"forward", "dialPull", "relay", "wait"} => s \in approved
    /\ UpstreamGetsInspectedPack

\* Why 0 means done: the one status that is not 1 is the upstream's, taken when it
\* has ended, and that of an empty push.
StatusInv ==
    /\ \A s \in Sessions :
          /\ OpOf[s] = "receive-pack" /\ upstream[s].status = 0 => upstream[s].stdin = "whole"
          /\ pc[s] \notin Leaving => status[s] = 1
          /\ pc[s] \in Leaving /\ status[s] = 0 => Done(s)
          /\ answer[s].exit = 0 => pc[s] = "ended" /\ status[s] = 0
    /\ ZeroMeansDone

\* Why nothing is held at the end: nothing is held before Handle, and the only
\* way from there to the report is through the deferred calls.
HeldInv ==
    /\ \A s \in Sessions : pc[s] \in Early => s \notin agents
    /\ NothingHeldAtTheEnd

\* Why forwarding is honoured: the flag, once up, stays up.
ForwardingInv ==
    /\ \A s \in Sessions :
          /\ s \in asked => ConnOf[s] \in forwarding
          /\ pc[s] = "execAgain" /\ s \in asked => request[s].forwarding
    /\ AskedForwardingIsHonoured
=============================================================================
