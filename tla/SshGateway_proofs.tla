-------------------------- MODULE SshGateway_proofs --------------------------
(***************************************************************************)
(* Proofs about SshGateway, for every set of sessions and connections, and *)
(* every choice of what fails.                                             *)
(***************************************************************************)
EXTENDS SshGateway, TLAPS

\* What the network and the upstream do to a session, beside its handler.
Around(s) ==
    \/ OpenSession(s) \/ Abandoned(s) \/ Client(s)
    \/ Relay(s) \/ UpstreamExits(s) \/ UpstreamBlocks(s) \/ UpstreamDies(s)

LEMMA NextCases ==
  ASSUME Next
  PROVE  \/ \E c \in Conns : Accept(c) \/ Disconnect(c)
         \/ \E s \in Sessions : Around(s) \/ Handler(s)
  BY DEF Next, Around

\* The few steps that touch the upstream's session.
LEMMA UpstreamChanges ==
  ASSUME [Next]_vars
  PROVE  \/ UNCHANGED upstream
         \/ \E s \in Sessions :
              \/ Dial(s) \/ Forward(s) \/ Return(s) \/ RelayInputEnds(s)
              \/ UpstreamExits(s) \/ UpstreamBlocks(s) \/ UpstreamDies(s)
<1> USE DEF vars, connVars, requestVars, clientVars, chainVars, farVars
<1>1. CASE UNCHANGED vars
  BY <1>1
<1>2. ASSUME NEW c \in Conns, Accept(c) \/ Disconnect(c)  PROVE UNCHANGED upstream
  BY <1>2 DEF Accept, Disconnect
<1>3. ASSUME NEW s \in Sessions,
             OpenSession(s) \/ Abandoned(s) \/ Client(s) \/ RelayErrorsEnds(s)
      PROVE  UNCHANGED upstream
  BY <1>3 DEF OpenSession, Abandoned, Client, AskForwarding, Exec, ExecRefused, ClientSends,
              ClientFinishes, ClientCloses, RelayErrorsEnds
<1>4. ASSUME NEW s \in Sessions, Handler(s)
      PROVE  UNCHANGED upstream \/ Dial(s) \/ Forward(s) \/ Return(s)
  BY <1>4 DEF Handler, ReadForwarding, ReadForwardingAgain, NeedsAgent, OpenAgent,
              OpenAgentFails, DialFails, Advertised, NotAdvertised, RelayCaps, ReadPack,
              Approve, Deny, ForwardFails, RelayOutput, Wait, Report
<1>. QED
  BY <1>1, <1>2, <1>3, <1>4 DEF Next, Relay

-----------------------------------------------------------------------------
(* Type correctness *)

\* What a step leaves of a request, of the upstream's session and of an answer.
LEMMA RequestUpdates ==
  ASSUME NEW r \in GitRequest
  PROVE  /\ \A x \in BOOLEAN : [r EXCEPT !.forwarding = x] \in GitRequest
         /\ \A x \in BOOLEAN : [r EXCEPT !.openAgent = x] \in GitRequest
  BY DEF GitRequest

LEMMA RemoteUpdates ==
  ASSUME NEW r \in RemoteSession
  PROVE  /\ [r EXCEPT !.state = "running"] \in RemoteSession
         /\ [r EXCEPT !.state = "blocked"] \in RemoteSession
         /\ [r EXCEPT !.state = "released"] \in RemoteSession
         /\ [r EXCEPT !.closed = TRUE] \in RemoteSession
         /\ \A p \in Packs : [r EXCEPT !.stdin = p, !.closed = TRUE] \in RemoteSession
         /\ \A code \in Statuses :
               [r EXCEPT !.state = "exited", !.status = code] \in RemoteSession
  BY DEF RemoteSession

LEMMA AnswerUpdates ==
  ASSUME NEW a \in Answer
  PROVE  /\ \A x \in BOOLEAN : [a EXCEPT !.reason = x] \in Answer
         /\ \A code \in Statuses : [a EXCEPT !.exit = code] \in Answer
         /\ [a EXCEPT !.exit = a.exit] \in Answer
  BY DEF Answer

\* A handler that fails, or takes its status, stays inside the typed state.
LEMMA FailWithType ==
  ASSUME TypeOK, NEW s \in Sessions, NEW next \in Steps, FailWith(s, next)
  PROVE  /\ answer' \in [Sessions -> Answer]
         /\ status' \in [Sessions -> Statuses]
         /\ pc' \in [Sessions -> Steps]
<1>1. answer[s] \in Answer /\ (client[s] # "gone") \in BOOLEAN
  BY DEF TypeOK
<1>2. [answer[s] EXCEPT !.reason = client[s] # "gone"] \in Answer
  BY <1>1, AnswerUpdates
<1>. QED
  BY <1>2 DEF FailWith, Told, Goto, TypeOK, Statuses

LEMMA ReturnStatusType ==
  ASSUME TypeOK, NEW s \in Sessions, NEW code \in Statuses, ReturnStatus(s, code)
  PROVE  /\ answer' \in [Sessions -> Answer]
         /\ status' \in [Sessions -> Statuses]
         /\ pc' \in [Sessions -> Steps]
  BY DEF ReturnStatus, Goto, TypeOK, Steps, Handling

LEMMA StepsKnown ==
  /\ Handling \subseteq Steps
  /\ {"requests", "ended", "exec", "execAgain", "handle", "dialPush", "advertisement",
      "relayCaps", "readPack", "execute", "forward", "authorise", "dialPull", "relay",
      "wait", "return", "report"} \subseteq Steps
  BY DEF Steps, Handling, PushSteps, PullSteps

LEMMA ConnectionType ==
  ASSUME TypeOK, NEW c \in Conns, Accept(c) \/ Disconnect(c)
  PROVE  TypeOK'
  BY DEF TypeOK, Accept, Disconnect, connVars, requestVars, clientVars, chainVars, farVars

LEMMA AroundType ==
  ASSUME TypeOK, NEW s \in Sessions, Around(s)
  PROVE  TypeOK'
<1> USE StepsKnown DEF TypeOK, connVars, requestVars, clientVars, chainVars, farVars, Goto
<1>1. CASE OpenSession(s)  BY <1>1 DEF OpenSession
<1>2. CASE Abandoned(s)  BY <1>2 DEF Abandoned
<1>3. CASE AskForwarding(s)  BY <1>3, SshAssumption DEF AskForwarding
<1>4. CASE Exec(s)  BY <1>4 DEF Exec
<1>5. CASE ExecRefused(s)  BY <1>5, FailWithType DEF ExecRefused
<1>6. CASE ClientSends(s)  BY <1>6 DEF ClientSends
<1>7. CASE ClientFinishes(s)  BY <1>7 DEF ClientFinishes
<1>8. CASE ClientCloses(s)  BY <1>8 DEF ClientCloses
<1>9. CASE RelayInputEnds(s)
  <2>1. [upstream[s] EXCEPT !.closed = TRUE] \in RemoteSession  BY RemoteUpdates
  <2>. QED  BY <1>9, <2>1 DEF RelayInputEnds
<1>10. CASE RelayErrorsEnds(s)  BY <1>10 DEF RelayErrorsEnds
<1>11. CASE UpstreamExits(s)
  <2>1. \A code \in Statuses :
           [upstream[s] EXCEPT !.state = "exited", !.status = code] \in RemoteSession
    BY RemoteUpdates
  <2>. QED  BY <1>11, <2>1 DEF UpstreamExits
<1>12. CASE UpstreamBlocks(s)
  <2>1. [upstream[s] EXCEPT !.state = "blocked"] \in RemoteSession  BY RemoteUpdates
  <2>. QED  BY <1>12, <2>1 DEF UpstreamBlocks
<1>13. CASE UpstreamDies(s)
  <2>1. [upstream[s] EXCEPT !.state = "exited", !.status = 1] \in RemoteSession
    BY RemoteUpdates DEF Statuses
  <2>. QED  BY <1>13, <2>1 DEF UpstreamDies
<1>. QED
  BY <1>1, <1>2, <1>3, <1>4, <1>5, <1>6, <1>7, <1>8, <1>9, <1>10, <1>11, <1>12, <1>13
  DEF Around, Client, Relay

LEMMA HandlerType ==
  ASSUME TypeOK, ExitInv, NEW s \in Sessions, Handler(s)
  PROVE  TypeOK'
<1> USE StepsKnown DEF TypeOK, connVars, requestVars, clientVars, chainVars, farVars, Goto
<1>1. CASE ReadForwarding(s)
  <2>0. request[s] \in GitRequest /\ (ConnOf[s] \in forwarding) \in BOOLEAN
    OBVIOUS
  <2>1. [request[s] EXCEPT !.forwarding = ConnOf[s] \in forwarding] \in GitRequest
    BY <2>0, RequestUpdates
  <2>. QED  BY <1>1, <2>1 DEF ReadForwarding
<1>2. CASE ReadForwardingAgain(s)
  <2>0. request[s] \in GitRequest /\ (ConnOf[s] \in forwarding) \in BOOLEAN
    OBVIOUS
  <2>1. [request[s] EXCEPT !.openAgent = ConnOf[s] \in forwarding] \in GitRequest
    BY <2>0, RequestUpdates
  <2>. QED  BY <1>2, <2>1 DEF ReadForwardingAgain
<1>3. CASE NeedsAgent(s)  BY <1>3, FailWithType DEF NeedsAgent
<1>4. CASE OpenAgent(s)  BY <1>4 DEF OpenAgent
<1>5. CASE OpenAgentFails(s)  BY <1>5, FailWithType DEF OpenAgentFails
<1>6. CASE Dial(s)
  <2>1. [upstream[s] EXCEPT !.state = "running"] \in RemoteSession  BY RemoteUpdates
  <2>. QED  BY <1>6, <2>1 DEF Dial
<1>7. CASE DialFails(s)  BY <1>7, FailWithType DEF DialFails
<1>8. CASE Advertised(s)  BY <1>8 DEF Advertised
<1>9. CASE NotAdvertised(s)  BY <1>9, FailWithType DEF NotAdvertised
<1>10. CASE RelayCaps(s)  BY <1>10, ReturnStatusType DEF RelayCaps, Statuses
<1>11. CASE ReadPack(s)
  <2>1. (IF sent[s] = "oversize" THEN "part" ELSE sent[s]) \in Packs
    BY DEF Sent, Packs
  <2>2. pack' \in [Sessions -> Packs]
    BY <1>11, <2>1 DEF ReadPack
  <2>3. /\ answer' \in [Sessions -> Answer]
        /\ status' \in [Sessions -> Statuses]
        /\ pc' \in [Sessions -> Steps]
    BY <1>11, ReturnStatusType DEF ReadPack, Statuses
  <2>. QED  BY <1>11, <2>2, <2>3 DEF ReadPack
<1>12. CASE Approve(s)  BY <1>12 DEF Approve
<1>13. CASE Deny(s)  BY <1>13, FailWithType DEF Deny
<1>14. CASE Forward(s)
  <2>1. [upstream[s] EXCEPT !.stdin = pack[s], !.closed = TRUE] \in RemoteSession
    BY RemoteUpdates
  <2>. QED  BY <1>14, <2>1 DEF Forward
<1>15. CASE ForwardFails(s)  BY <1>15, ReturnStatusType DEF ForwardFails, Statuses
<1>16. CASE RelayOutput(s)  BY <1>16 DEF RelayOutput
<1>17. CASE Wait(s)
  <2>1. upstream[s].status \in Statuses  BY <1>17 DEF Wait, ExitInv
  <2>. QED  BY <1>17, <2>1, ReturnStatusType DEF Wait
<1>18. CASE Return(s)
  <2>1. [upstream[s] EXCEPT !.state = IF @ = "none" THEN @ ELSE "released"] \in RemoteSession
    <3>1. CASE upstream[s].state = "none"
      BY <3>1, [upstream[s] EXCEPT !.state = upstream[s].state] = upstream[s] DEF RemoteSession
    <3>2. CASE upstream[s].state # "none"  BY <3>2, RemoteUpdates
    <3>. QED  BY <3>1, <3>2
  <2>. QED  BY <1>18, <2>1 DEF Return
<1>19. CASE Report(s)
  <2>1. [answer[s] EXCEPT !.exit = IF client[s] = "gone" THEN @ ELSE status[s]] \in Answer
    BY AnswerUpdates DEF Answer
  <2>. QED  BY <1>19, <2>1 DEF Report
<1>. QED
  BY <1>1, <1>2, <1>3, <1>4, <1>5, <1>6, <1>7, <1>8, <1>9, <1>10, <1>11, <1>12, <1>13,
     <1>14, <1>15, <1>16, <1>17, <1>18, <1>19 DEF Handler

-----------------------------------------------------------------------------
(* What the upstream's status says *)

LEMMA ExitPreserved ==
  ASSUME TypeOK, StepInv, ExitInv, [Next]_vars
  PROVE  ExitInv'
<1> USE DEF TypeOK, ExitInv, RemoteSession, Statuses, Unfinished
<1>1. CASE UNCHANGED upstream
  BY <1>1
<1>2. ASSUME NEW s \in Sessions, Dial(s)  PROVE ExitInv'
  BY <1>2 DEF Dial, StepInv, Undialled
<1>3. ASSUME NEW s \in Sessions, Forward(s)  PROVE ExitInv'
  BY <1>3 DEF Forward
<1>4. ASSUME NEW s \in Sessions, Return(s)  PROVE ExitInv'
  BY <1>4 DEF Return
<1>5. ASSUME NEW s \in Sessions, RelayInputEnds(s)  PROVE ExitInv'
  BY <1>5 DEF RelayInputEnds
<1>6. ASSUME NEW s \in Sessions, UpstreamExits(s)  PROVE ExitInv'
  BY <1>6 DEF UpstreamExits
<1>7. ASSUME NEW s \in Sessions, UpstreamBlocks(s)  PROVE ExitInv'
  BY <1>7 DEF UpstreamBlocks
<1>8. ASSUME NEW s \in Sessions, UpstreamDies(s)  PROVE ExitInv'
  BY <1>8 DEF UpstreamDies
<1>. QED
  BY <1>1, <1>2, <1>3, <1>4, <1>5, <1>6, <1>7, <1>8, UpstreamChanges

-----------------------------------------------------------------------------
(* The steps of a session *)

LEMMA StepPreserved ==
  ASSUME TypeOK, StepInv, [Next]_vars
  PROVE  StepInv'
<1> USE SshAssumption
    DEF TypeOK, StepInv, RemoteSession, Undialled, Early, PushSteps, PullSteps, Goto,
        FailWith, ReturnStatus, vars, connVars, requestVars, clientVars, chainVars, farVars
<1>1. CASE UNCHANGED vars
  BY <1>1
<1>2. ASSUME NEW c \in Conns, Accept(c) \/ Disconnect(c)  PROVE StepInv'
  BY <1>2 DEF Accept, Disconnect
<1>3. ASSUME NEW s \in Sessions, OpenSession(s) \/ Abandoned(s) \/ Client(s)  PROVE StepInv'
  BY <1>3 DEF OpenSession, Abandoned, Client, AskForwarding, Exec, ExecRefused, ClientSends,
              ClientFinishes, ClientCloses
<1>4. ASSUME NEW s \in Sessions,
             ReadForwarding(s) \/ ReadForwardingAgain(s) \/ NeedsAgent(s) \/ OpenAgent(s)
                \/ OpenAgentFails(s)
      PROVE  StepInv'
  BY <1>4 DEF ReadForwarding, ReadForwardingAgain, NeedsAgent, OpenAgent, OpenAgentFails
<1>5. ASSUME NEW s \in Sessions, Dial(s) \/ DialFails(s)  PROVE StepInv'
  BY <1>5 DEF Dial, DialFails
<1>6. ASSUME NEW s \in Sessions,
             Advertised(s) \/ NotAdvertised(s) \/ RelayCaps(s) \/ ReadPack(s)
      PROVE  StepInv'
  BY <1>6 DEF Advertised, NotAdvertised, RelayCaps, ReadPack
<1>7. ASSUME NEW s \in Sessions, Approve(s) \/ Deny(s)  PROVE StepInv'
  BY <1>7 DEF Approve, Deny
<1>8. ASSUME NEW s \in Sessions, Forward(s) \/ ForwardFails(s)  PROVE StepInv'
  BY <1>8 DEF Forward, ForwardFails
<1>9. ASSUME NEW s \in Sessions, RelayOutput(s) \/ Wait(s) \/ Return(s) \/ Report(s)
      PROVE  StepInv'
  BY <1>9 DEF RelayOutput, Wait, Return, Report
<1>10. ASSUME NEW s \in Sessions, Relay(s)  PROVE StepInv'
  <2>1. UNCHANGED pc /\ \A r \in Sessions : upstream'[r].state = upstream[r].state
    BY <1>10 DEF Relay, RelayInputEnds, RelayErrorsEnds
  <2>. QED  BY <2>1
<1>11. ASSUME NEW s \in Sessions, UpstreamExits(s) \/ UpstreamBlocks(s) \/ UpstreamDies(s)
       PROVE  StepInv'
  <2>1. /\ upstream[s].state # "none"
        /\ \A r \in Sessions : upstream'[r].state # "none" => r = s \/ upstream[r].state # "none"
        /\ UNCHANGED pc
    BY <1>11 DEF UpstreamExits, UpstreamBlocks, UpstreamDies
  <2>. QED  BY <2>1
<1>. QED
  BY <1>1, <1>2, <1>3, <1>4, <1>5, <1>6, <1>7, <1>8, <1>9, <1>10, <1>11 DEF Next, Handler

-----------------------------------------------------------------------------
(* What the upstream gets *)

LEMMA PackPreserved ==
  ASSUME TypeOK, StepInv, PackInv, [Next]_vars
  PROVE  PackInv'
<1> USE SshAssumption
    DEF TypeOK, StepInv, PackInv, UpstreamGetsInspectedPack, RemoteSession, Early, PushSteps,
        PullSteps, Goto, FailWith, ReturnStatus, vars, connVars, requestVars, clientVars,
        chainVars, farVars
<1>1. CASE UNCHANGED vars
  BY <1>1
<1>2. ASSUME NEW c \in Conns, Accept(c) \/ Disconnect(c)  PROVE PackInv'
  BY <1>2 DEF Accept, Disconnect
<1>3. ASSUME NEW s \in Sessions, OpenSession(s) \/ Abandoned(s) \/ Client(s)  PROVE PackInv'
  BY <1>3 DEF OpenSession, Abandoned, Client, AskForwarding, Exec, ExecRefused, ClientSends,
              ClientFinishes, ClientCloses
<1>4. ASSUME NEW s \in Sessions,
             ReadForwarding(s) \/ ReadForwardingAgain(s) \/ NeedsAgent(s) \/ OpenAgent(s)
                \/ OpenAgentFails(s)
      PROVE  PackInv'
  BY <1>4 DEF ReadForwarding, ReadForwardingAgain, NeedsAgent, OpenAgent, OpenAgentFails
<1>5. ASSUME NEW s \in Sessions, Dial(s) \/ DialFails(s)  PROVE PackInv'
  BY <1>5 DEF Dial, DialFails
<1>6. ASSUME NEW s \in Sessions,
             Advertised(s) \/ NotAdvertised(s) \/ RelayCaps(s) \/ ReadPack(s)
      PROVE  PackInv'
  BY <1>6 DEF Advertised, NotAdvertised, RelayCaps, ReadPack
<1>7. ASSUME NEW s \in Sessions, Approve(s) \/ Deny(s)  PROVE PackInv'
  BY <1>7 DEF Approve, Deny
<1>8. ASSUME NEW s \in Sessions, Forward(s) \/ ForwardFails(s)  PROVE PackInv'
  BY <1>8 DEF Forward, ForwardFails
<1>9. ASSUME NEW s \in Sessions, RelayOutput(s)  PROVE PackInv'
  BY <1>9 DEF RelayOutput
<1>10. ASSUME NEW s \in Sessions, Wait(s) \/ Report(s)  PROVE PackInv'
  BY <1>10 DEF Wait, Report
<1>11. ASSUME NEW s \in Sessions, Return(s)  PROVE PackInv'
  <2>1. \A r \in Sessions : upstream'[r].stdin = upstream[r].stdin
    BY <1>11 DEF Return
  <2>2. UNCHANGED <<pack, approved>> /\ pc' = [pc EXCEPT ![s] = "report"]
    BY <1>11 DEF Return
  <2>. QED  BY <2>1, <2>2
<1>12. ASSUME NEW s \in Sessions,
              Relay(s) \/ UpstreamExits(s) \/ UpstreamBlocks(s) \/ UpstreamDies(s)
       PROVE  PackInv'
  <2>1. UNCHANGED <<pc, pack, approved>>
    BY <1>12 DEF Relay, RelayInputEnds, RelayErrorsEnds, UpstreamExits, UpstreamBlocks,
                 UpstreamDies
  <2>2. CASE Relay(s)
    <3>1. \A r \in Sessions : upstream'[r].stdin = upstream[r].stdin
      BY <2>2 DEF Relay, RelayInputEnds, RelayErrorsEnds
    <3>. QED  BY <2>1, <3>1
  <2>3. CASE UpstreamExits(s)
    <3>1. \A r \in Sessions : upstream'[r].stdin = upstream[r].stdin
      BY <2>3 DEF UpstreamExits
    <3>. QED  BY <2>1, <3>1
  <2>4. CASE UpstreamBlocks(s) \/ UpstreamDies(s)
    <3>1. \A r \in Sessions : upstream'[r].stdin = upstream[r].stdin
      BY <2>4 DEF UpstreamBlocks, UpstreamDies
    <3>. QED  BY <2>1, <3>1
  <2>. QED  BY <1>12, <2>2, <2>3, <2>4
<1>. QED
  BY <1>1, <1>2, <1>3, <1>4, <1>5, <1>6, <1>7, <1>8, <1>9, <1>10, <1>11, <1>12
  DEF Next, Handler

-----------------------------------------------------------------------------
(* What a session holds *)

LEMMA HeldPreserved ==
  ASSUME TypeOK, StepInv, HeldInv, [Next]_vars
  PROVE  HeldInv'
<1> USE DEF TypeOK, StepInv, HeldInv, NothingHeldAtTheEnd, RemoteSession, Early, Undialled,
        PushSteps, PullSteps, Goto, FailWith, ReturnStatus, vars, connVars, requestVars,
        clientVars, chainVars, farVars
<1>1. CASE UNCHANGED vars
  BY <1>1
<1>2. ASSUME NEW c \in Conns, Accept(c) \/ Disconnect(c)  PROVE HeldInv'
  BY <1>2 DEF Accept, Disconnect
<1>3. ASSUME NEW s \in Sessions, OpenSession(s) \/ Abandoned(s) \/ Client(s)  PROVE HeldInv'
  BY <1>3 DEF OpenSession, Abandoned, Client, AskForwarding, Exec, ExecRefused, ClientSends,
              ClientFinishes, ClientCloses
<1>4. ASSUME NEW s \in Sessions,
             ReadForwarding(s) \/ ReadForwardingAgain(s) \/ NeedsAgent(s) \/ OpenAgent(s)
                \/ OpenAgentFails(s)
      PROVE  HeldInv'
  BY <1>4 DEF ReadForwarding, ReadForwardingAgain, NeedsAgent, OpenAgent, OpenAgentFails
<1>5. ASSUME NEW s \in Sessions, Dial(s) \/ DialFails(s)  PROVE HeldInv'
  BY <1>5 DEF Dial, DialFails
<1>6. ASSUME NEW s \in Sessions,
             Advertised(s) \/ NotAdvertised(s) \/ RelayCaps(s) \/ ReadPack(s)
      PROVE  HeldInv'
  BY <1>6 DEF Advertised, NotAdvertised, RelayCaps, ReadPack
<1>7. ASSUME NEW s \in Sessions, Approve(s) \/ Deny(s)  PROVE HeldInv'
  BY <1>7 DEF Approve, Deny
<1>8. ASSUME NEW s \in Sessions, Forward(s) \/ ForwardFails(s)  PROVE HeldInv'
  BY <1>8 DEF Forward, ForwardFails
<1>9. ASSUME NEW s \in Sessions, RelayOutput(s) \/ Wait(s) \/ Return(s) \/ Report(s)
      PROVE  HeldInv'
  BY <1>9 DEF RelayOutput, Wait, Return, Report
<1>10. ASSUME NEW s \in Sessions, Relay(s)  PROVE HeldInv'
  <2>1. UNCHANGED <<pc, agents>> /\ \A r \in Sessions : upstream'[r].state = upstream[r].state
    BY <1>10 DEF Relay, RelayInputEnds, RelayErrorsEnds
  <2>. QED  BY <2>1
<1>11. ASSUME NEW s \in Sessions, UpstreamExits(s) \/ UpstreamBlocks(s) \/ UpstreamDies(s)
       PROVE  HeldInv'
  <2>1. /\ upstream[s].state \notin {"none", "released"}
        /\ \A r \in Sessions : r = s \/ upstream'[r].state = upstream[r].state
        /\ UNCHANGED <<pc, agents>>
    BY <1>11 DEF UpstreamExits, UpstreamBlocks, UpstreamDies
  <2>. QED  BY <2>1
<1>. QED
  BY <1>1, <1>2, <1>3, <1>4, <1>5, <1>6, <1>7, <1>8, <1>9, <1>10, <1>11 DEF Next, Handler

-----------------------------------------------------------------------------
(* Whose forwarding is honoured *)

LEMMA ForwardingPreserved ==
  ASSUME TypeOK, ForwardingInv, [Next]_vars
  PROVE  ForwardingInv'
<1> USE SshAssumption
    DEF TypeOK, ForwardingInv, AskedForwardingIsHonoured, GitRequest, Goto, FailWith,
        ReturnStatus, vars, connVars, requestVars, clientVars, chainVars, farVars
<1>1. CASE UNCHANGED vars
  BY <1>1
<1>2. ASSUME NEW c \in Conns, Accept(c) \/ Disconnect(c)  PROVE ForwardingInv'
  BY <1>2 DEF Accept, Disconnect
<1>3. ASSUME NEW s \in Sessions, AskForwarding(s)  PROVE ForwardingInv'
  BY <1>3 DEF AskForwarding
<1>4. ASSUME NEW s \in Sessions, ReadForwarding(s)  PROVE ForwardingInv'
  BY <1>4 DEF ReadForwarding
<1>5. ASSUME NEW s \in Sessions, ReadForwardingAgain(s)  PROVE ForwardingInv'
  BY <1>5 DEF ReadForwardingAgain
<1>6. ASSUME NEW s \in Sessions,
             /\ UNCHANGED <<forwarding, asked, request>>
             /\ \/ UNCHANGED pc
                \/ \E step \in Steps \ {"execAgain", "handle"} : Goto(s, step)
      PROVE  ForwardingInv'
  BY <1>6
<1>7. ASSUME NEW s \in Sessions, Handler(s), ~ReadForwarding(s), ~ReadForwardingAgain(s)
      PROVE  /\ UNCHANGED <<forwarding, asked, request>>
             /\ \E step \in Steps \ {"execAgain", "handle"} : Goto(s, step)
  <2> USE <1>7, StepsKnown
  <2>1. CASE NeedsAgent(s) \/ OpenAgent(s) \/ OpenAgentFails(s)
    BY <2>1 DEF NeedsAgent, OpenAgent, OpenAgentFails
  <2>2. CASE Dial(s) \/ DialFails(s)
    BY <2>2 DEF Dial, DialFails
  <2>3. CASE Advertised(s) \/ NotAdvertised(s) \/ RelayCaps(s) \/ ReadPack(s)
    BY <2>3 DEF Advertised, NotAdvertised, RelayCaps, ReadPack
  <2>4. CASE Approve(s) \/ Deny(s) \/ Forward(s) \/ ForwardFails(s)
    BY <2>4 DEF Approve, Deny, Forward, ForwardFails
  <2>5. CASE RelayOutput(s) \/ Wait(s) \/ Return(s) \/ Report(s)
    BY <2>5 DEF RelayOutput, Wait, Return, Report
  <2>. QED  BY <2>1, <2>2, <2>3, <2>4, <2>5 DEF Handler
<1>8. ASSUME NEW s \in Sessions, Around(s), ~AskForwarding(s)
      PROVE  /\ UNCHANGED <<forwarding, asked, request>>
             /\ \/ UNCHANGED pc
                \/ \E step \in Steps \ {"execAgain", "handle"} : Goto(s, step)
  <2> USE <1>8, StepsKnown
  <2>1. CASE OpenSession(s) \/ Abandoned(s) \/ Exec(s) \/ ExecRefused(s)
    BY <2>1 DEF OpenSession, Abandoned, Exec, ExecRefused
  <2>2. CASE ClientSends(s) \/ ClientFinishes(s) \/ ClientCloses(s)
    BY <2>2 DEF ClientSends, ClientFinishes, ClientCloses
  <2>3. CASE Relay(s) \/ UpstreamExits(s) \/ UpstreamBlocks(s) \/ UpstreamDies(s)
    BY <2>3 DEF Relay, RelayInputEnds, RelayErrorsEnds, UpstreamExits, UpstreamBlocks,
                UpstreamDies
  <2>. QED  BY <2>1, <2>2, <2>3 DEF Around, Client
<1>. QED
  BY <1>1, <1>2, <1>3, <1>4, <1>5, <1>6, <1>7, <1>8, NextCases

-----------------------------------------------------------------------------
(* What an exit status of 0 says *)

\* A request that is done stays done: nothing is taken back from it.
LEMMA DoneStays ==
  ASSUME TypeOK, StepInv, ExitInv, PackInv, StatusInv, [Next]_vars,
         NEW s \in Sessions, pc[s] \in Leaving, Done(s)
  PROVE  Done(s)'
<1> USE DEF Done, TypeOK, RemoteSession, Statuses, Unfinished, Leaving
<1>1. sent'[s] = sent[s]
  BY DEF Next, Accept, Disconnect, OpenSession, Abandoned, Client, AskForwarding, Exec,
         ExecRefused, ClientSends, ClientFinishes, ClientCloses, Handler, ReadForwarding,
         ReadForwardingAgain, NeedsAgent, OpenAgent, OpenAgentFails, Dial, DialFails,
         Advertised, NotAdvertised, RelayCaps, ReadPack, Approve, Deny, Forward, ForwardFails,
         RelayOutput, Wait, Return, Report, Relay, RelayInputEnds, RelayErrorsEnds,
         UpstreamExits, UpstreamBlocks, UpstreamDies, vars, clientVars
<1>2. s \in approved => s \in approved'
  BY DEF Next, Accept, Disconnect, OpenSession, Abandoned, Client, AskForwarding, Exec,
         ExecRefused, ClientSends, ClientFinishes, ClientCloses, Handler, ReadForwarding,
         ReadForwardingAgain, NeedsAgent, OpenAgent, OpenAgentFails, Dial, DialFails,
         Advertised, NotAdvertised, RelayCaps, ReadPack, Approve, Deny, Forward, ForwardFails,
         RelayOutput, Wait, Return, Report, Relay, RelayInputEnds, RelayErrorsEnds,
         UpstreamExits, UpstreamBlocks, UpstreamDies, vars, chainVars
<1>3. ASSUME upstream[s].status = 0
      PROVE  upstream'[s].status = 0 /\ upstream'[s].stdin = upstream[s].stdin
  <2>1. upstream[s].state \notin {"none", "running", "blocked"}
    BY <1>3 DEF ExitInv
  <2>2. ASSUME NEW r \in Sessions, Dial(r)  PROVE UNCHANGED upstream[s]
    BY <2>1, <2>2 DEF Dial, StepInv, Undialled
  <2>3. ASSUME NEW r \in Sessions, Forward(r)  PROVE UNCHANGED upstream[s]
    BY <2>1, <2>3 DEF Forward
  <2>4. ASSUME NEW r \in Sessions, Return(r)
        PROVE  /\ upstream'[s].status = upstream[s].status
               /\ upstream'[s].stdin = upstream[s].stdin
    BY <2>4 DEF Return
  <2>5. ASSUME NEW r \in Sessions, RelayInputEnds(r)
        PROVE  /\ upstream'[s].status = upstream[s].status
               /\ upstream'[s].stdin = upstream[s].stdin
    BY <2>5 DEF RelayInputEnds
  <2>6. ASSUME NEW r \in Sessions, UpstreamExits(r) \/ UpstreamBlocks(r) \/ UpstreamDies(r)
        PROVE  UNCHANGED upstream[s]
    BY <2>1, <2>6 DEF UpstreamExits, UpstreamBlocks, UpstreamDies
  <2>. QED  BY <1>3, <2>2, <2>3, <2>4, <2>5, <2>6, UpstreamChanges
<1>. QED  BY <1>1, <1>2, <1>3

\* How a session gets to a status and reports it: it stays among the steps that
\* have none, or leaves them with 1 or with a status it has waited for, or is done
\* with nothing to push; and what it reports is the status it left with.
Reporting(s) ==
    \/ /\ pc'[s] = pc[s] \/ {pc[s], pc'[s]} \intersect Leaving = {}
       /\ status'[s] = status[s] /\ answer'[s].exit = answer[s].exit
    \/ /\ pc[s] \notin Leaving /\ pc'[s] \in Leaving
       /\ answer'[s].exit = answer[s].exit
       /\ status'[s] = 0 => Done(s)'
    \/ /\ pc[s] = "return" /\ pc'[s] = "report"
       /\ status'[s] = status[s] /\ answer'[s].exit = answer[s].exit
    \/ /\ pc[s] = "report" /\ pc'[s] = "ended"
       /\ status'[s] = status[s] /\ answer'[s].exit \in {answer[s].exit, status[s]}

LEMMA ReportingSteps ==
  ASSUME TypeOK, StepInv, ExitInv, PackInv, StatusInv, [Next]_vars, NEW s \in Sessions
  PROVE  Reporting(s)
<1> USE StepsKnown
    DEF TypeOK, Reporting, Leaving, Answer, Goto, FailWith, ReturnStatus, Told, vars, connVars,
        requestVars, clientVars, chainVars, farVars
<1>1. CASE UNCHANGED vars
  BY <1>1
<1>2. ASSUME NEW c \in Conns, Accept(c) \/ Disconnect(c)  PROVE Reporting(s)
  BY <1>2 DEF Accept, Disconnect
<1>3. ASSUME NEW r \in Sessions, OpenSession(r) \/ Client(r)  PROVE Reporting(s)
  BY <1>3 DEF OpenSession, Client, AskForwarding, Exec, ExecRefused, ClientSends,
              ClientFinishes, ClientCloses
<1>4. ASSUME NEW r \in Sessions, Abandoned(r)  PROVE Reporting(s)
  BY <1>4 DEF Abandoned, StatusInv
<1>5. ASSUME NEW r \in Sessions,
             Relay(r) \/ UpstreamExits(r) \/ UpstreamBlocks(r) \/ UpstreamDies(r)
      PROVE  Reporting(s)
  BY <1>5 DEF Relay, RelayInputEnds, RelayErrorsEnds, UpstreamExits, UpstreamBlocks,
              UpstreamDies
<1>6. ASSUME NEW r \in Sessions,
             ReadForwarding(r) \/ ReadForwardingAgain(r) \/ NeedsAgent(r) \/ OpenAgent(r)
                \/ OpenAgentFails(r) \/ Dial(r) \/ DialFails(r)
      PROVE  Reporting(s)
  BY <1>6 DEF ReadForwarding, ReadForwardingAgain, NeedsAgent, OpenAgent, OpenAgentFails,
              Dial, DialFails
<1>7. ASSUME NEW r \in Sessions,
             Advertised(r) \/ NotAdvertised(r) \/ RelayCaps(r) \/ Approve(r) \/ Deny(r)
                \/ Forward(r) \/ ForwardFails(r) \/ RelayOutput(r)
      PROVE  Reporting(s)
  BY <1>7 DEF Advertised, NotAdvertised, RelayCaps, Approve, Deny, Forward, ForwardFails,
              RelayOutput
<1>8. ASSUME NEW r \in Sessions, ReadPack(r)  PROVE Reporting(s)
  <2>1. CASE r # s
    BY <1>8, <2>1 DEF ReadPack
  <2>2. CASE r = s /\ sent[s] # "nothing"
    BY <1>8, <2>2 DEF ReadPack
  <2>3. CASE r = s /\ sent[s] = "nothing"
    <3>1. Done(s)'
      BY <1>8, <2>3 DEF ReadPack, Done, StepInv, PushSteps
    <3>. QED  BY <1>8, <2>3, <3>1 DEF ReadPack
  <2>. QED  BY <2>1, <2>2, <2>3
<1>9. ASSUME NEW r \in Sessions, Wait(r)  PROVE Reporting(s)
  <2>1. CASE r # s
    BY <1>9, <2>1 DEF Wait
  <2>2. CASE r = s
    <3>1. upstream[s].status = 0 => Done(s)'
      BY <1>9, <2>2 DEF Wait, Done, StatusInv, PackInv
    <3>. QED  BY <1>9, <2>2, <3>1 DEF Wait
  <2>. QED  BY <2>1, <2>2
<1>10. ASSUME NEW r \in Sessions, Return(r) \/ Report(r)  PROVE Reporting(s)
  BY <1>10 DEF Return, Report
<1>. QED
  BY <1>1, <1>2, <1>3, <1>4, <1>5, <1>6, <1>7, <1>8, <1>9, <1>10 DEF Next, Handler

LEMMA StatusPreserved ==
  ASSUME TypeOK, StepInv, ExitInv, PackInv, StatusInv, [Next]_vars
  PROVE  StatusInv'
<1> SUFFICES ASSUME NEW s \in Sessions
             PROVE  /\ OpOf[s] = "receive-pack" /\ upstream'[s].status = 0
                          => upstream'[s].stdin = "whole"
                    /\ pc'[s] \notin Leaving => status'[s] = 1
                    /\ pc'[s] \in Leaving /\ status'[s] = 0 => Done(s)'
                    /\ answer'[s].exit = 0 => pc'[s] = "ended" /\ status'[s] = 0
  BY DEF StatusInv, ZeroMeansDone, Leaving
<1>1. OpOf[s] = "receive-pack" /\ upstream'[s].status = 0 => upstream'[s].stdin = "whole"
  <2> USE DEF TypeOK, RemoteSession, StatusInv, Statuses, Unfinished
  <2>1. CASE UNCHANGED upstream
    BY <2>1
  <2>2. ASSUME NEW r \in Sessions, Forward(r)
        PROVE  OpOf[s] = "receive-pack" /\ upstream'[s].status = 0
                  => upstream'[s].stdin = "whole"
    BY <2>2 DEF Forward, ExitInv
  <2>3. ASSUME NEW r \in Sessions,
               Dial(r) \/ Return(r) \/ RelayInputEnds(r) \/ UpstreamBlocks(r)
                  \/ UpstreamDies(r)
        PROVE  OpOf[s] = "receive-pack" /\ upstream'[s].status = 0
                  => upstream'[s].stdin = "whole"
    <3> DEFINE Same == /\ upstream'[s].stdin = upstream[s].stdin
                       /\ upstream'[s].status \in {upstream[s].status, 1}
    <3>1. CASE Dial(r)  BY <3>1 DEF Dial
    <3>2. CASE Return(r)
      <4>1. Same  BY <3>2 DEF Return
      <4>. QED  BY <4>1
    <3>3. CASE RelayInputEnds(r)
      <4>1. Same  BY <3>3 DEF RelayInputEnds
      <4>. QED  BY <4>1
    <3>4. CASE UpstreamBlocks(r)  BY <3>4 DEF UpstreamBlocks
    <3>5. CASE UpstreamDies(r)
      <4>1. Same  BY <3>5 DEF UpstreamDies
      <4>. QED  BY <4>1
    <3>. QED  BY <2>3, <3>1, <3>2, <3>3, <3>4, <3>5
  <2>4. ASSUME NEW r \in Sessions, UpstreamExits(r)
        PROVE  OpOf[s] = "receive-pack" /\ upstream'[s].status = 0
                  => upstream'[s].stdin = "whole"
    <3>1. upstream'[s].stdin = upstream[s].stdin
      BY <2>4 DEF UpstreamExits
    <3>2. upstream'[s].status = upstream[s].status
             \/ (OpOf[s] = "receive-pack" /\ upstream[s].stdin # "whole"
                    => upstream'[s].status = 1)
      BY <2>4 DEF UpstreamExits
    <3>. QED  BY <3>1, <3>2
  <2>. QED  BY <2>1, <2>2, <2>3, <2>4, UpstreamChanges
<1>2. Reporting(s)
  BY ReportingSteps
<1>3. pc'[s] \notin Leaving => status'[s] = 1
  BY <1>2 DEF Reporting, StatusInv, Leaving
<1>4. pc'[s] \in Leaving /\ status'[s] = 0 => Done(s)'
  BY <1>2, DoneStays DEF Reporting, StatusInv, Leaving
<1>5. answer'[s].exit = 0 => pc'[s] = "ended" /\ status'[s] = 0
  BY <1>2 DEF Reporting, StatusInv, Leaving
<1>. QED
  BY <1>1, <1>3, <1>4, <1>5

-----------------------------------------------------------------------------
(* The theorems *)

\* The inductive invariant: what a session has been through (StepInv), what the
\* upstream's status says (ExitInv), and the reasons of each property.
SessionInv ==
    /\ TypeOK /\ StepInv /\ ExitInv
    /\ PackInv /\ StatusInv /\ HeldInv /\ ForwardingInv

LEMMA SessionInvInit ==
  ASSUME Init
  PROVE  SessionInv
<1> USE SshAssumption
    DEF Init, NoUpstream, Unfinished, Unreported, Statuses, GitRequest, RemoteSession, Answer,
        Sent, Packs, Early, Undialled, Leaving, PushSteps, PullSteps
<1>1. TypeOK
  BY DEF TypeOK, Steps
<1>2. StepInv /\ ExitInv
  BY DEF StepInv, ExitInv
<1>3. PackInv
  BY DEF PackInv, UpstreamGetsInspectedPack
<1>4. StatusInv
  BY DEF StatusInv, ZeroMeansDone
<1>5. HeldInv /\ ForwardingInv
  BY DEF HeldInv, ForwardingInv, NothingHeldAtTheEnd, AskedForwardingIsHonoured
<1>. QED
  BY <1>1, <1>2, <1>3, <1>4, <1>5 DEF SessionInv

LEMMA SessionInvPreserved ==
  ASSUME SessionInv, [Next]_vars
  PROVE  SessionInv'
<1> USE DEF SessionInv
<1>1. TypeOK'
  <2>1. CASE UNCHANGED vars
    BY <2>1 DEF TypeOK, vars
  <2>2. CASE Next
    BY <2>2, NextCases, ConnectionType, AroundType, HandlerType
  <2>. QED  BY <2>1, <2>2
<1>2. StepInv' /\ ExitInv' /\ PackInv' /\ HeldInv'
  BY StepPreserved, ExitPreserved, PackPreserved, HeldPreserved
<1>3. StatusInv' /\ ForwardingInv'
  BY StatusPreserved, ForwardingPreserved
<1>. QED
  BY <1>1, <1>2, <1>3

LEMMA SessionInvHolds == Spec => []SessionInv
<1>. QED
  BY SessionInvInit, SessionInvPreserved, PTL DEF Spec

\* Every reachable state of the SSH gateway is typed; in particular a handler that
\* reports a status has one, since it waits for the upstream's.
THEOREM SshTypeCorrect == Spec => []TypeOK
<1>1. SessionInv => TypeOK
  BY DEF SessionInv
<1>. QED
  BY <1>1, SessionInvHolds, PTL

\* With any number of sessions and connections, and whatever fails, an upstream gets
\* nothing of a push but the bytes the chain approved.
THEOREM OnlyInspectedPacksReachUpstream == Spec => []UpstreamGetsInspectedPack
<1>1. SessionInv => UpstreamGetsInspectedPack
  BY DEF SessionInv, PackInv
<1>. QED
  BY <1>1, SessionInvHolds, PTL

\* No client is told exit status 0 for a request that was not approved, delivered
\* and done, unless it had nothing to push.
THEOREM ZeroIsNeverAnError == Spec => []ZeroMeansDone
<1>1. SessionInv => ZeroMeansDone
  BY DEF SessionInv, StatusInv
<1>. QED
  BY <1>1, SessionInvHolds, PTL

\* On every path out of a session, the agent and the upstream's session are given
\* back before the client is told the outcome.
THEOREM SessionsReleaseWhatTheyHold == Spec => []NothingHeldAtTheEnd
<1>1. SessionInv => NothingHeldAtTheEnd
  BY DEF SessionInv, HeldInv
<1>. QED
  BY <1>1, SessionInvHolds, PTL

\* The unlocked flag that the sessions of a connection share never costs a session
\* the forwarding it asked for.
THEOREM ForwardingIsHonoured == Spec => []AskedForwardingIsHonoured
<1>1. SessionInv => AskedForwardingIsHonoured
  BY DEF SessionInv, ForwardingInv
<1>. QED
  BY <1>1, SessionInvHolds, PTL
=============================================================================
