-------------------------- MODULE IsolationProofs ---------------------------
(***************************************************************************)
(* What is proved of the isolation experiments for every number of chains  *)
(* and of calls: which server a client can have met, and what its log then *)
(* says, whichever servers die, are not stopped, or are left behind.       *)
(***************************************************************************)
EXTENDS Isolation, TLAPS

Active == {"server", "wait", "control", "schannel", "handshake", "stop"}
InRow == Active \ {"server"}
AfterReady == {"control", "schannel", "handshake", "stop"}
Alive == {"starting", "listening"}
States == {"none", "starting", "listening", "dead"}

-----------------------------------------------------------------------------
(* Where the script is, and which call is which script's. *)

Places ==
    /\ pc \in Resting \cup Active
    /\ call \in 0 .. MaxCalls /\ at \in Chains
    /\ kind \in [Calls -> Scripts \cup {"none"}]
    /\ \A i \in Calls : i <= call => kind[i] # "none"
    /\ \A i \in Calls : i > call => kind[i] = "none"
    /\ pc \in Active => call \in Calls
    /\ pc = "control" => kind[call] = "isolation"

ForeignType == foreign \in BOOLEAN

\* A row that was judged, and one whose server never came up.
Results == {"none", "ok", "fail"}
Judged == [chain : Chains, up : {TRUE},
           result : [control : Results, schannel : Results],
           met : [control : Meeting, schannel : Meeting],
           kept : BOOLEAN, log : Seq(Clients)]
NotUp == [chain : Chains, up : {FALSE}]

Lengths ==
    /\ summary \in Seq(Judged \cup NotUp)
    /\ Len(summary) \in 0 .. NChains /\ Len(printed) \in {0, NChains}
    /\ pc \in Active => /\ Len(summary) <= at - 1
                        /\ Script = "isolation" => Len(summary) = at - 1

-----------------------------------------------------------------------------
(* Who has a port. *)

\* Chains the call has not come to have no server.
Unstarted(id) ==
    \/ id[1] > call
    \/ id[1] = call /\ id[2] > at
    \/ id = Own /\ pc = "server"

Servers ==
    /\ servers \in [Ids -> States]
    /\ \A id \in Ids : Unstarted(id) => servers[id] = "none"

\* A container is started where no other has the port.
ContainerIsAlone ==
    pc \in InRow /\ Script = "isolation" =>
        \A id \in Ids : kind[id[1]] = "isolation" /\ servers[id] \in Alive =>
            id = Own

\* trace-rerun.sh has killed its server of the chain before.
TraceServerIsLast ==
    pc \in Active /\ Script = "trace" =>
        \A id \in Ids : id[1] = call /\ servers[id] \in Alive => id = Own

\* The clients of run-isolation.sh come after the container is ready.
ContainerIsReady ==
    pc \in AfterReady /\ Script = "isolation" => servers[Own] \in {"listening", "dead"}

Ports == Servers /\ ContainerIsAlone /\ TraceServerIsLast /\ ContainerIsReady

-----------------------------------------------------------------------------
(* Whom a server has had to do with. *)

\* A trace server waits for its one client, is at it, or has shown it.
Singles == {<<>>, <<"schannel">>, <<"transport">>}

Logs ==
    /\ queue \in [Ids -> Seq(Clients)] /\ log \in [Ids -> Seq(Clients)]
    /\ \A id \in Ids : servers[id] = "none" => log[id] = <<>> /\ queue[id] = <<>>
    /\ \A id \in Ids : kind[id[1]] = "trace" =>
           \/ log[id] = <<>> /\ queue[id] \in Singles
           \/ queue[id] = <<>> /\ log[id] \in Singles

Meetings ==
    /\ met \in [control : Meeting, schannel : Meeting]
    /\ result \in [control : Results, schannel : Results]
    /\ \A client \in DOMAIN met :
           met[client].peer = Nobody => met[client].state # "listening"
    /\ PeerIsNotEarlierChain

\* The clients of run-isolation.sh that met the container of their chain are in
\* its log or its queue, one after the other, until it is gone; and the last has
\* no other before it, when it passed.
Came(client) == IF met[client].peer = Own THEN <<client>> ELSE <<>>

Lined ==
    /\ servers[Own] = "dead" => log[Own] = <<>>
    /\ servers[Own] # "dead" =>
           log[Own] \o queue[Own] = Came("control") \o Came("schannel")

Witnessed ==
    pc \in Active /\ Script = "isolation" =>
        /\ Lined
        /\ pc \in {"server", "wait", "control"} => met = NoClients
        /\ pc = "schannel" => met.schannel = NoClients.schannel
        /\ pc = "stop" /\ result.schannel = "ok" =>
               met.schannel.peer = Own /\ Len(queue[Own]) <= 1

IInv ==
    /\ Places /\ ForeignType /\ Lengths
    /\ Ports /\ Logs /\ Meetings /\ Witnessed /\ LogIsOfRow

-----------------------------------------------------------------------------
\* The constants.
LEMMA Constants ==
    /\ NChains \in Nat /\ NChains >= 1 /\ MaxCalls \in Nat
    /\ \A c \in Chains : c \in Nat /\ 1 <= c /\ c <= NChains
    /\ \A c \in Calls : c \in Nat /\ 1 <= c /\ c <= MaxCalls
    /\ 1 \in Chains /\ 0 \notin Calls
BY IsolationAssumption DEF Chains, Calls

\* Servers of the scripts are pairs, and neither nobody nor transport.py's.
LEMMA IdFacts ==
    /\ \A id \in Ids : id = <<id[1], id[2]>> /\ id[1] \in Calls /\ id[2] \in Chains
    /\ \A i \in Calls, c \in Chains :
           <<i, c>> \in Ids /\ <<i, c>>[1] = i /\ <<i, c>>[2] = c
    /\ Nobody \notin Ids /\ Foreign \notin Ids /\ Nobody # Foreign
BY Constants DEF Ids, Nobody, Foreign

\* The script is at rest before the first call.
LEMMA PlacesInit == Init => Places
BY Constants DEF Init, Places, Resting, Active

\* The next chain is one of the script's, or the call is done.
LEMMA NextChainFacts ==
    ASSUME NEW rows, at \in Chains, NextChain(rows)
    PROVE  /\ at' \in Chains
           /\ \/ pc' = "server" /\ at' = at + 1 /\ at < NChains
              \/ pc' = "done" /\ at' = at /\ at = NChains
BY Constants DEF NextChain, Chains

\* Every step leaves the loop in range.
LEMMA PlacesStep == Places /\ [Next]_vars => Places'
<1> SUFFICES ASSUME Places, [Next]_vars PROVE Places'
    OBVIOUS
<1> USE Constants DEF Places, Active, Resting, loop, Scripts
<1>1. ASSUME NEW script \in Scripts, Start(script)
      PROVE  Places'
    <2>1. call + 1 \in Calls /\ call' = call + 1 /\ call \in Nat
        BY <1>1 DEF Start, Calls
    <2>2. /\ kind' \in [Calls -> Scripts \cup {"none"}]
          /\ \A i \in Calls : kind'[i] = IF i = call + 1 THEN script ELSE kind[i]
        BY <1>1, <2>1 DEF Start
    <2> QED
        BY <1>1, <2>1, <2>2 DEF Start
<1>2. CASE StartContainer
    BY <1>2 DEF StartContainer
<1>3. CASE StartTraceServer
    BY <1>3 DEF StartTraceServer
<1>4. CASE ContainerReady
    BY <1>4 DEF ContainerReady, Script
<1>5. ASSUME NEW rows, pc \in Active, Continue(rows) PROVE Places'
    <2>1. UNCHANGED <<call, kind>> /\ NextChain(rows)
        BY <1>5 DEF Continue
    <2>2. at' \in Chains /\ pc' \in {"server", "done"}
        BY <2>1, NextChainFacts
    <2> QED
        BY <1>5, <2>1, <2>2
<1>6. CASE ContainerNotReady
    BY <1>5, <1>6 DEF ContainerNotReady
<1>7. CASE TraceProbed
    BY <1>7 DEF TraceProbed
<1>8. CASE Control \/ Schannel \/ SchannelEnds
    BY <1>8 DEF Control, Schannel, SchannelEnds
<1>9. CASE StopContainer
    BY <1>5, <1>9 DEF StopContainer
<1>10. CASE StopTraceServer
    BY <1>5, <1>10 DEF StopTraceServer
<1>11. CASE Killed
    BY <1>11 DEF Killed
<1>12. ASSUME NEW id \in Ids, Bind(id) \/ Exit(id) \/ Prints(id) PROVE Places'
    BY <1>12 DEF Bind, Exit, Prints
<1>13. CASE Transport
    BY <1>13 DEF Transport
<1>14. CASE UNCHANGED vars
    BY <1>14 DEF vars
<1> QED
    BY <1>1, <1>2, <1>3, <1>4, <1>6, <1>7, <1>8, <1>9, <1>10, <1>11, <1>12,
       <1>13, <1>14
       DEF Next, Step

\* transport.py has no server at first.
LEMMA ForeignInit == Init => ForeignType
BY DEF Init, ForeignType

\* Only transport.py starts and stops its server.
LEMMA ForeignStep == ForeignType /\ [Next]_vars => ForeignType'
<1> SUFFICES ASSUME ForeignType, [Next]_vars PROVE ForeignType'
    OBVIOUS
<1>1. CASE Transport
    BY <1>1 DEF Transport, ForeignType
<1>2. CASE ~Transport
    <2>1. foreign' = foreign
        BY <1>2
           DEF Next, Step, Start, StartContainer, StartTraceServer, ContainerReady,
               ContainerNotReady, TraceProbed, Control, Schannel, SchannelEnds,
               StopContainer, StopTraceServer, Killed, Bind, Exit, Prints, Continue,
               vars, hosts
    <2> QED
        BY <2>1 DEF ForeignType
<1> QED
    BY <1>1, <1>2

-----------------------------------------------------------------------------
(* The rows: one for every chain run-isolation.sh has been through. *)

\* A row after the others.
LEMMA AppendFacts ==
    ASSUME NEW S, NEW s \in Seq(S), NEW e \in S
    PROVE  /\ Append(s, e) \in Seq(S) /\ Len(Append(s, e)) = Len(s) + 1
           /\ \A i \in 1 .. Len(s) + 1 :
                  Append(s, e)[i] = IF i <= Len(s) THEN s[i] ELSE e
OBVIOUS

\* There are no rows before the first call.
LEMMA LengthsInit == Init => Lengths
<1> SUFFICES ASSUME Init PROVE Lengths
    OBVIOUS
<1>1. /\ pc = "idle" /\ summary = <<>> /\ printed = <<>>
    BY DEF Init
<1>2. summary \in Seq(Judged \cup NotUp) /\ Len(summary) = 0 /\ Len(printed) = 0
    BY <1>1
<1> QED
    BY <1>1, <1>2, Constants DEF Lengths, Active

\* The next chain, with one row more or, of trace-rerun.sh, none.
LEMMA ContinueLengths ==
    ASSUME Places, Lengths, pc \in Active, NEW rows \in Seq(Judged \cup NotUp),
           Len(rows) <= at, Script = "isolation" => Len(rows) = at, Continue(rows)
    PROVE  Lengths'
<1>1. /\ summary' = rows /\ UNCHANGED <<call, kind>> /\ at \in Chains /\ at \in Nat
      /\ at <= NChains /\ NChains \in Nat /\ Script' = Script /\ Len(rows) \in Nat
    BY Constants DEF Continue, Places, Script
<1>2. \/ pc' = "server" /\ at' = at + 1 /\ printed' = printed /\ at < NChains
      \/ /\ pc' = "done" /\ at' = at /\ at = NChains
         /\ printed' = IF Script = "isolation" THEN rows ELSE printed
    BY <1>1 DEF Continue, NextChain
<1>3. Len(summary') \in 0 .. NChains
    BY <1>1
<1>4. Len(printed') \in {0, NChains}
    BY <1>1, <1>2 DEF Lengths
<1>5. pc' \in Active => /\ Len(summary') <= at' - 1
                        /\ Script' = "isolation" => Len(summary') = at' - 1
    BY <1>1, <1>2 DEF Active
<1> QED
    BY <1>1, <1>3, <1>4, <1>5 DEF Lengths

\* A running script is at a chain of a call, which can have a server.
LEMMA OwnIsServer == Places /\ pc \in Active => Own \in Ids
BY IdFacts DEF Places, Own

\* Every step keeps the rows in number and kind.
LEMMA LengthsStep ==
    Places /\ Lengths /\ Logs /\ Meetings /\ [Next]_vars => Lengths'
<1> SUFFICES ASSUME Places, Lengths, Logs, Meetings, [Next]_vars PROVE Lengths'
    OBVIOUS
<1>1. ASSUME NEW script \in Scripts, Start(script)
      PROVE  Lengths'
    <2>1. /\ summary' = <<>> /\ printed' = <<>> /\ at' = 1
        BY <1>1 DEF Start
    <2>2. /\ summary' \in Seq(Judged \cup NotUp) /\ Len(summary') = 0
          /\ Len(printed') = 0
        BY <2>1
    <2> QED
        BY <2>1, <2>2, Constants DEF Lengths
<1>2. CASE StartContainer
    BY <1>2 DEF StartContainer, Lengths, output, loop, Script, Active
<1>3. CASE StartTraceServer
    BY <1>3 DEF StartTraceServer, Lengths, output, loop, Script, Active
<1>4. CASE ContainerReady
    BY <1>4 DEF ContainerReady, Lengths, output, loop, Script, Active
<1>5. ASSUME NEW row \in Judged \cup NotUp, pc \in Active,
             Continue(Append(summary, row)), Script = "isolation"
      PROVE  Lengths'
    <2>1. /\ Append(summary, row) \in Seq(Judged \cup NotUp)
          /\ Len(Append(summary, row)) = Len(summary) + 1
        BY <1>5, AppendFacts DEF Lengths
    <2>2. Len(summary) = at - 1 /\ at \in Nat
        BY <1>5, Constants DEF Lengths, Places
    <2>3. Len(Append(summary, row)) = at /\ at <= at
        BY <2>1, <2>2
    <2> QED
        BY <1>5, <2>1, <2>3, ContinueLengths
<1>6. CASE ContainerNotReady
    <2>1. [chain |-> at, up |-> FALSE] \in NotUp
        BY DEF NotUp, Places
    <2> QED
        BY <1>5, <1>6, <2>1 DEF ContainerNotReady, FailedRow, Active
<1>7. CASE TraceProbed
    BY <1>7 DEF TraceProbed, Lengths, output, loop, Script, Active
<1>8. CASE Control \/ Schannel \/ SchannelEnds
    BY <1>8 DEF Control, Schannel, SchannelEnds, Lengths, output, loop, Script, Active
<1>9. CASE StopContainer
    <2>1. [chain |-> at, up |-> TRUE, result |-> result, met |-> met,
           kept |-> servers[Own] = "listening", log |-> log[Own]] \in Judged
        BY <1>9, OwnIsServer
           DEF Judged, Places, Logs, Meetings, StopContainer, Active
    <2> QED
        BY <1>5, <1>9, <2>1 DEF StopContainer, Active
<1>10. CASE StopTraceServer
    <2>1. pc \in Active /\ Script # "isolation" /\ Continue(summary)
        BY <1>10 DEF StopTraceServer, Active
    <2>2. /\ summary \in Seq(Judged \cup NotUp) /\ Len(summary) <= at - 1
          /\ at \in Nat /\ Len(summary) \in Nat
        BY <2>1, Constants DEF Lengths, Places
    <2> QED
        BY <2>1, <2>2, ContinueLengths
<1>11. CASE Killed
    BY <1>11 DEF Killed, Lengths, output, loop, Active
<1>12. ASSUME NEW id \in Ids, Bind(id) \/ Exit(id) \/ Prints(id) PROVE Lengths'
    BY <1>12 DEF Bind, Exit, Prints, Lengths, output, loop, Script
<1>13. CASE Transport
    BY <1>13 DEF Transport, Lengths, output, loop, Script
<1>14. CASE UNCHANGED vars
    BY <1>14 DEF vars, Lengths, output, loop, Script
<1> QED
    BY <1>1, <1>2, <1>3, <1>4, <1>6, <1>7, <1>8, <1>9, <1>10, <1>11, <1>12,
       <1>13, <1>14
       DEF Next, Step

-----------------------------------------------------------------------------
(* Ports. *)

\* No server was started before the first call.
LEMMA PortsInit == Init => Ports
BY DEF Init, Ports, Servers, ContainerIsAlone, TraceServerIsLast,
       ContainerIsReady, States, Active, InRow, AfterReady

\* A server ends or is not stopped; the script and the other servers stay.
LEMMA FewerServers ==
    ASSUME Places, Ports, UNCHANGED <<pc, call, at, kind>>,
           servers' \in [Ids -> States],
           \A id \in Ids : \/ servers'[id] = servers[id]
                           \/ servers[id] \in Alive /\ servers'[id] = "dead"
    PROVE  Ports'
<1> USE DEF Ports, Alive, Own, Script
<1>1. Servers'
    BY DEF Servers, Unstarted
<1>2. ContainerIsAlone' /\ TraceServerIsLast'
    BY DEF ContainerIsAlone, TraceServerIsLast
<1>3. ContainerIsReady'
    BY OwnIsServer DEF ContainerIsReady, AfterReady, Active
<1> QED
    BY <1>1, <1>2, <1>3

\* The next chain of the same call, its server not yet started.
LEMMA NextChainPorts ==
    ASSUME Places, Ports, pc \in InRow, NEW rows, NextChain(rows),
           UNCHANGED <<call, kind>>,
           servers' \in [Ids -> States],
           \A id \in Ids \ {Own} : servers'[id] = servers[id],
           Script = "trace" => servers'[Own] = "dead"
    PROVE  Ports'
<1>1. /\ call \in Calls /\ call \in Nat /\ at \in Nat /\ at' \in Nat
      /\ Own \in Ids /\ pc \in Active
      /\ \/ pc' = "server" /\ at' = at + 1
         \/ pc' = "done" /\ at' = at
    BY NextChainFacts, OwnIsServer, Constants
       DEF Places, InRow, Chains
<1>2. \A id \in Ids : id[1] \in Nat /\ id[2] \in Nat
                      /\ (id = Own <=> id[1] = call /\ id[2] = at)
    BY IdFacts, Constants DEF Own
<1>3. ASSUME NEW id \in Ids, Unstarted(id)' PROVE servers'[id] = "none"
    <2>1. Unstarted(id) /\ id # Own
        BY <1>1, <1>2, <1>3 DEF Unstarted, Own
    <2> QED
        BY <2>1 DEF Ports, Servers
<1>4. ContainerIsAlone' /\ ContainerIsReady'
    BY <1>1 DEF ContainerIsAlone, ContainerIsReady, InRow, Active, AfterReady
<1>5. ASSUME pc' \in Active, Script' = "trace", NEW id \in Ids, id[1] = call',
             servers'[id] \in Alive
      PROVE  FALSE
    <2>1. Script = "trace"
        BY <1>5 DEF Script
    <2>2. CASE id = Own
        BY <1>5, <2>1, <2>2 DEF Alive
    <2>3. CASE id # Own
        BY <1>1, <1>5, <2>1, <2>3 DEF Ports, TraceServerIsLast
    <2> QED
        BY <2>2, <2>3
<1>6. TraceServerIsLast'
    BY <1>5 DEF TraceServerIsLast
<1> QED
    BY <1>3, <1>4, <1>6 DEF Ports, Servers

\* Every step keeps the ports to the servers that may have them.
LEMMA PortsStep == Places /\ Ports /\ [Next]_vars => Ports'
<1> SUFFICES ASSUME Places, Ports, [Next]_vars PROVE Ports'
    OBVIOUS
<1> USE DEF loop, hosts, Own, Script
<1>0. /\ servers \in [Ids -> States]
      /\ pc \in Active => Own \in Ids
    BY OwnIsServer DEF Ports, Servers
<1>1. ASSUME NEW script \in Scripts, Start(script)
      PROVE  Ports'
    <2>1. /\ pc' = "server" /\ call' = call + 1 /\ at' = 1 /\ servers' = servers
          /\ call \in Nat /\ call + 1 \in Calls
        <3>1. call \in 0 .. MaxCalls /\ MaxCalls \in Nat
            BY Constants DEF Places
        <3>2. call < MaxCalls
            BY <1>1 DEF Start
        <3>3. call \in Nat /\ call + 1 \in Calls
            BY <3>1, <3>2 DEF Calls
        <3> QED
            BY <1>1, <3>3 DEF Start
    <2>2. ASSUME NEW id \in Ids, id[1] >= call + 1 PROVE servers'[id] = "none"
        <3>1. id[1] > call
            BY <2>1, <2>2, IdFacts, Constants
        <3> QED
            BY <2>1, <3>1 DEF Ports, Servers, Unstarted
    <2>3. \A id \in Ids : Unstarted(id)' => id[1] >= call + 1
        BY <2>1, IdFacts, Constants DEF Unstarted
    <2>4. TraceServerIsLast'
        BY <2>1, <2>2, IdFacts, Constants DEF TraceServerIsLast, Alive
    <2>5. ContainerIsAlone' /\ ContainerIsReady'
        BY <2>1 DEF ContainerIsAlone, ContainerIsReady, InRow, AfterReady
    <2> QED
        BY <1>0, <2>1, <2>2, <2>3, <2>4, <2>5 DEF Ports, Servers
<1>2. CASE StartContainer /\ pc' = "wait"
    <2>1. /\ pc = "server" /\ Script = "isolation" /\ OnPort("isolation") = {}
          /\ servers' = [servers EXCEPT ![Own] = "starting"]
          /\ UNCHANGED <<call, at, kind>> /\ pc' = "wait"
        BY <1>2 DEF StartContainer
    <2>2. Own \in Ids
        BY <1>0, <2>1 DEF Active
    <2>3. /\ servers' \in [Ids -> States] /\ servers'[Own] = "starting"
          /\ \A id \in Ids \ {Own} : servers'[id] = servers[id]
        BY <1>0, <2>1, <2>2 DEF States
    <2>4. Servers'
        <3>1. \A id \in Ids : Unstarted(id)' => Unstarted(id) /\ id # Own
            BY <1>0, <2>1, IdFacts, Constants DEF Unstarted, Places
        <3> QED
            BY <2>3, <3>1 DEF Ports, Servers
    <2>5. \A id \in Ids : kind[id[1]] = "isolation" => servers[id] \notin Alive
        BY <2>1 DEF OnPort, HoldsPort, Alive
    <2>6. ContainerIsAlone'
        BY <2>1, <2>3, <2>5 DEF ContainerIsAlone
    <2>7. TraceServerIsLast' /\ ContainerIsReady'
        BY <2>1 DEF TraceServerIsLast, ContainerIsReady, AfterReady
    <2> QED
        BY <2>4, <2>6, <2>7 DEF Ports
<1>3. CASE StartTraceServer
    <2>1. /\ pc = "server" /\ Script = "trace"
          /\ servers' = [servers EXCEPT ![Own] = "starting"]
          /\ UNCHANGED <<call, at, kind>> /\ pc' = "wait"
        BY <1>3 DEF StartTraceServer
    <2>2. Own \in Ids
        BY <1>0, <2>1 DEF Active
    <2>3. /\ servers' \in [Ids -> States] /\ servers'[Own] = "starting"
          /\ \A id \in Ids \ {Own} : servers'[id] = servers[id]
        BY <1>0, <2>1, <2>2 DEF States
    <2>4. Servers'
        <3>1. \A id \in Ids : Unstarted(id)' => Unstarted(id) /\ id # Own
            BY <1>0, <2>1, IdFacts, Constants DEF Unstarted, Places
        <3> QED
            BY <2>3, <3>1 DEF Ports, Servers
    <2>5. TraceServerIsLast'
        BY <2>1, <2>3 DEF Ports, TraceServerIsLast, Active
    <2>6. ContainerIsAlone' /\ ContainerIsReady'
        BY <2>1 DEF ContainerIsAlone, ContainerIsReady, AfterReady
    <2> QED
        BY <2>4, <2>5, <2>6 DEF Ports
\* Among the rows of a chain, and out of them.
<1>4. ASSUME UNCHANGED <<call, at, kind, servers>>,
             \/ pc \in InRow /\ pc' \in InRow
             \/ pc' \in Resting
             \/ pc' = pc,
             pc' \in AfterReady /\ Script = "isolation" =>
                 pc \in AfterReady \/ servers[Own] = "listening"
      PROVE  Ports'
    <2>1. Servers'
        BY <1>4 DEF Ports, Servers, Unstarted, InRow, Active, Resting
    <2>2. ContainerIsAlone' /\ TraceServerIsLast'
        BY <1>4 DEF Ports, ContainerIsAlone, TraceServerIsLast, InRow, Active, Resting
    <2>3. ContainerIsReady'
        BY <1>4 DEF Ports, ContainerIsReady
    <2> QED
        BY <2>1, <2>2, <2>3 DEF Ports
<1>5. CASE ContainerReady
    BY <1>4, <1>5 DEF ContainerReady, Ready, InRow, Active
<1>6. CASE TraceProbed
    BY <1>4, <1>6 DEF TraceProbed, InRow, Active
<1>7. CASE Control \/ Schannel \/ SchannelEnds
    BY <1>4, <1>7 DEF Control, Schannel, SchannelEnds, InRow, Active, AfterReady
<1>8. CASE Killed \/ (StartContainer /\ pc' # "wait")
    BY <1>4, <1>8 DEF Killed, StartContainer, Resting, AfterReady
<1>9. CASE Transport \/ (\E id \in Ids : Prints(id)) \/ UNCHANGED vars
    BY <1>4, <1>9 DEF Transport, Prints, vars, AfterReady
<1>10. CASE ContainerNotReady \/ StopContainer
    <2>0. PICK state \in {"dead", servers[Own]} :
              servers' = [servers EXCEPT ![Own] = state]
        <3>1. DockerStop /\ pc \in Active
            BY <1>10 DEF ContainerNotReady, StopContainer, Active
        <3>2. CASE Ends(Own)
            BY <3>2 DEF Ends
        <3>3. CASE Stays
            <4>1. servers' = [servers EXCEPT ![Own] = servers[Own]]
                BY <1>0, <3>1, <3>3 DEF Stays
            <4> QED
                BY <4>1
        <3> QED
            BY <3>1, <3>2, <3>3 DEF DockerStop
    <2>1. PICK rows :
              /\ NextChain(rows) /\ pc \in InRow /\ Script = "isolation"
              /\ UNCHANGED <<call, kind>>
        BY <1>10
           DEF ContainerNotReady, StopContainer, Continue, InRow, Active
    <2>2. Own \in Ids
        BY <1>0, <2>1 DEF InRow
    <2>3. /\ servers' \in [Ids -> States]
          /\ \A id \in Ids \ {Own} : servers'[id] = servers[id]
        BY <1>0, <2>0, <2>2 DEF States
    <2> QED
        BY <2>1, <2>3, NextChainPorts
<1>11. CASE StopTraceServer
    <2>1. /\ servers' = [servers EXCEPT ![Own] = "dead"] /\ NextChain(summary)
          /\ pc \in InRow /\ UNCHANGED <<call, kind>>
        BY <1>11 DEF StopTraceServer, KillAndWait, Ends, Continue, InRow, Active
    <2>2. Own \in Ids
        BY <1>0, <2>1 DEF InRow
    <2>3. /\ servers' \in [Ids -> States] /\ servers'[Own] = "dead"
          /\ \A id \in Ids \ {Own} : servers'[id] = servers[id]
        BY <1>0, <2>1, <2>2 DEF States
    <2> QED
        BY <2>1, <2>3, NextChainPorts
<1>12. ASSUME NEW id \in Ids, Exit(id) PROVE Ports'
    <2>1. /\ UNCHANGED <<pc, call, at, kind>> /\ servers' \in [Ids -> States]
          /\ \A i \in Ids : \/ servers'[i] = servers[i]
                            \/ servers[i] \in Alive /\ servers'[i] = "dead"
        BY <1>0, <1>12 DEF Exit, Ends, Alive, States
    <2> QED
        BY <2>1, FewerServers
<1>13. ASSUME NEW id \in Ids, Bind(id) PROVE Ports'
    <2>1. /\ UNCHANGED <<pc, call, at, kind>> /\ servers' \in [Ids -> States]
          /\ servers[id] = "starting" /\ servers'[id] \in {"listening", "dead"}
          /\ \A i \in Ids \ {id} : servers'[i] = servers[i]
        BY <1>0, <1>13 DEF Bind, States
    <2>2. Servers'
        BY <2>1 DEF Ports, Servers, Unstarted
    <2>3. ContainerIsAlone' /\ TraceServerIsLast'
        BY <2>1 DEF Ports, ContainerIsAlone, TraceServerIsLast, Alive
    <2>4. ContainerIsReady'
        BY <1>0, <2>1 DEF Ports, ContainerIsReady, AfterReady, Active
    <2> QED
        BY <2>2, <2>3, <2>4 DEF Ports
<1> QED
    BY <1>1, <1>2, <1>3, <1>5, <1>6, <1>7, <1>8, <1>9, <1>10, <1>11, <1>12, <1>13
       DEF Next, Step

-----------------------------------------------------------------------------
(* Logs. *)

\* A client that comes after others.
LEMMA AppendRight ==
    ASSUME NEW s \in Seq(Clients), NEW t \in Seq(Clients), NEW c \in Clients
    PROVE  s \o Append(t, c) = Append(s \o t, c)
OBVIOUS

\* The first that waits becomes the last that was printed.
LEMMA MoveHead ==
    ASSUME NEW s \in Seq(Clients), NEW t \in Seq(Clients), t # <<>>
    PROVE  /\ Append(s, Head(t)) \o Tail(t) = s \o t
           /\ Len(Tail(t)) = Len(t) - 1 /\ Len(t) >= 1
           /\ Tail(t) \in Seq(Clients) /\ Append(s, Head(t)) \in Seq(Clients)
OBVIOUS

\* What comes first of two is a prefix of both.
LEMMA PrefixOfJoin ==
    ASSUME NEW s \in Seq(Clients), NEW t \in Seq(Clients)
    PROVE  IsPrefix(s, s \o t)
BY DEF IsPrefix

\* A client is taken by a server that is listening, of trace-rerun.sh by one
\* that has taken none.
LEMMA JoinedFacts ==
    ASSUME Logs, NEW id \in Ids, NEW client \in Clients
    PROVE  /\ Joined(id, client) \in [Ids -> Seq(Clients)]
           /\ \A i \in Ids \ {id} : Joined(id, client)[i] = queue[i]
           /\ Joined(id, client)[id] # queue[id] =>
                  /\ servers[id] = "listening" /\ ~Taken(id)
                  /\ Joined(id, client)[id] = Append(queue[id], client)
           /\ servers[id] = "listening" /\ kind[id[1]] = "isolation" =>
                  Joined(id, client)[id] = Append(queue[id], client)
<1>1. queue \in [Ids -> Seq(Clients)] /\ Append(queue[id], client) \in Seq(Clients)
    BY DEF Logs
<1> QED
    BY <1>1 DEF Joined, Taken

\* Who has the port of a script is its server, or transport.py's.
LEMMA OnPortFacts ==
    ASSUME NEW script \in Scripts, NEW peer \in OnPort(script)
    PROVE  \/ peer = Foreign /\ script = "trace"
           \/ /\ peer \in Ids /\ kind[peer[1]] = script /\ servers[peer] \in Alive
              /\ script = "trace" => servers[peer] = "listening"
BY DEF OnPort, HoldsPort, Alive, Scripts

\* No step takes back that a server was started.
LEMMA OnceStarted ==
    ASSUME Places, Ports, [Next]_vars, NEW id \in Ids, servers'[id] = "none"
    PROVE  servers[id] = "none"
<1> USE DEF hosts
<1>1. /\ servers \in [Ids -> States]
      /\ pc \in Active => Own \in Ids
    BY OwnIsServer DEF Ports, Servers
<1>2. ASSUME NEW i \in Ids, NEW state,
             servers' = [servers EXCEPT ![i] = state],
             state # "none" \/ state = servers[i]
      PROVE  servers[id] = "none"
    BY <1>1, <1>2
<1>3. CASE servers' = servers
    BY <1>3
<1>4. CASE StartContainer \/ StartTraceServer
    BY <1>1, <1>2, <1>3, <1>4 DEF StartContainer, StartTraceServer, Active
<1>5. CASE ContainerNotReady \/ StopContainer
    BY <1>1, <1>2, <1>3, <1>5
       DEF ContainerNotReady, StopContainer, DockerStop, Ends, Stays, Active
<1>6. CASE StopTraceServer
    BY <1>1, <1>2, <1>6 DEF StopTraceServer, KillAndWait, Ends, Active
<1>7. ASSUME NEW i \in Ids, Bind(i) PROVE servers[id] = "none"
    <2>1. \/ servers' = [servers EXCEPT ![i] = "dead"]
          \/ servers' = [servers EXCEPT ![i] = "listening"]
        BY <1>7 DEF Bind
    <2> QED
        BY <1>2, <2>1
<1>8. ASSUME NEW i \in Ids, Exit(i) PROVE servers[id] = "none"
    BY <1>1, <1>2, <1>8 DEF Exit, Ends
<1> QED
    BY <1>3, <1>4, <1>5, <1>6, <1>7, <1>8
       DEF Next, Step, Start, ContainerReady, TraceProbed, Control, Schannel,
           SchannelEnds, Killed, Prints, Transport, vars

\* A client has come, a server is gone, or has printed its line.
Joins(id, client) ==
    /\ queue' = Joined(id, client) /\ UNCHANGED <<log, kind, servers>>
    /\ kind[id[1]] = "trace" => client # "control"

\* Queues and logs change in these ways, of the servers of one script by its own
\* clients and, of a trace server, by transport.py's.
LEMMA LinesChange ==
    ASSUME Places, [Next]_vars
    PROVE  \/ lines' = lines
           \/ \E id \in Ids, client \in {"control", "schannel", "transport"} :
                  Joins(id, client)
           \/ \E id \in Ids : (Ends(id) \/ Prints(id)) /\ kind' = kind
<1> USE DEF lines, hosts, loop
<1>1. ASSUME NEW client \in {"control", "schannel"}, pc \in Active, Reach(client),
             client = "control" => Script = "isolation",
             UNCHANGED <<log, kind, servers>>
      PROVE  \/ lines' = lines
             \/ \E id \in Ids : Joins(id, client)
    <2>1. Script \in Scripts
        BY <1>1 DEF Places, Script
    <2> QED
        BY <1>1, <2>1, OnPortFacts, IdFacts DEF Reach, Joins
<1>2. CASE Control
    BY <1>1, <1>2 DEF Control, Active, Places, Script
<1>3. CASE Schannel
    BY <1>1, <1>3 DEF Schannel, Active, Places, Script
<1>4. CASE Transport
    BY <1>4, OnPortFacts DEF Transport, Joins, Scripts
<1>5. CASE ContainerNotReady \/ StopContainer \/ StopTraceServer
    BY <1>5, OwnIsServer
       DEF ContainerNotReady, StopContainer, StopTraceServer, DockerStop,
           KillAndWait, Stays, Continue, Active
<1>6. ASSUME NEW id \in Ids, Exit(id) \/ Prints(id)
      PROVE  (Ends(id) \/ Prints(id)) /\ kind' = kind
    BY <1>6 DEF Exit, Prints
<1>7. CASE /\ ~Control /\ ~Schannel /\ ~Transport
           /\ ~(ContainerNotReady \/ StopContainer \/ StopTraceServer)
           /\ ~\E id \in Ids : Exit(id) \/ Prints(id)
    BY <1>7
       DEF Next, Step, Start, StartContainer, StartTraceServer, ContainerReady,
           TraceProbed, ProbeBySs, SchannelEnds, Killed, Bind, vars
<1> QED
    BY <1>2, <1>3, <1>4, <1>5, <1>6, <1>7

\* No one had come before the first call.
LEMMA LogsInit == Init => Logs
<1> SUFFICES ASSUME Init PROVE Logs
    OBVIOUS
<1>1. <<>> \in Seq(Clients)
    OBVIOUS
<1> QED
    BY <1>1 DEF Init, Logs, Singles

\* A call that starts is of a script whose servers have served no one.
LEMMA KindsStay ==
    ASSUME Places, [Next]_vars, NEW i \in Calls, kind'[i] # kind[i]
    PROVE  i > call
<1>1. CASE kind' = kind
    BY <1>1
<1>2. ASSUME NEW script \in Scripts, Start(script) PROVE i > call
    BY <1>2, Constants DEF Start, Places
<1> QED
    BY <1>1, <1>2
       DEF Next, Step, StartContainer, StartTraceServer, ContainerReady,
           ContainerNotReady, TraceProbed, Control, Schannel, SchannelEnds,
           StopContainer, StopTraceServer, Killed, Bind, Exit, Prints, Transport,
           Continue, vars, loop

\* Every step keeps the logs to the clients that can have come.
LEMMA LogsStep == Places /\ Ports /\ Logs /\ [Next]_vars => Logs'
<1> SUFFICES ASSUME Places, Ports, Logs, [Next]_vars PROVE Logs'
    OBVIOUS
<1> USE DEF Singles
<1>0. /\ queue \in [Ids -> Seq(Clients)] /\ log \in [Ids -> Seq(Clients)]
      /\ \A id \in Ids : servers[id] = "none" => log[id] = <<>> /\ queue[id] = <<>>
    BY DEF Logs
<1>1. CASE lines' = lines
    <2>1. ASSUME NEW id \in Ids, kind'[id[1]] # kind[id[1]]
          PROVE  log[id] = <<>> /\ queue[id] = <<>>
        <3>1. Unstarted(id)
            BY <2>1, KindsStay, IdFacts DEF Unstarted
        <3> QED
            BY <3>1 DEF Ports, Servers, Logs
    <2> QED
        BY <1>1, <2>1, OnceStarted DEF Logs, lines
<1>2. ASSUME NEW id \in Ids, NEW client \in {"control", "schannel", "transport"},
             Joins(id, client)
      PROVE  Logs'
    <2>1. client \in Clients
        BY DEF Clients
    <2>2. /\ queue' \in [Ids -> Seq(Clients)] /\ log' = log /\ kind' = kind
          /\ servers' = servers
          /\ \A i \in Ids \ {id} : queue'[i] = queue[i]
          /\ queue'[id] # queue[id] =>
                 /\ servers[id] = "listening" /\ ~Taken(id)
                 /\ queue'[id] = Append(queue[id], client)
        BY <1>2, <2>1, JoinedFacts DEF Joins
    <2>3. \A i \in Ids : servers'[i] = "none" => log'[i] = <<>> /\ queue'[i] = <<>>
        BY <1>0, <2>2
    <2>4. ASSUME NEW i \in Ids, kind'[i[1]] = "trace"
          PROVE  \/ log'[i] = <<>> /\ queue'[i] \in Singles
                 \/ queue'[i] = <<>> /\ log'[i] \in Singles
        <3>1. CASE queue'[i] = queue[i]
            BY <2>2, <2>4, <3>1 DEF Logs
        <3>2. CASE queue'[i] # queue[i]
            <4>1. i = id /\ ~Taken(id) /\ queue'[id] = Append(queue[id], client)
                BY <2>2, <3>2
            <4>2. kind[id[1]] = "trace" /\ client # "control"
                BY <1>2, <2>2, <2>4, <4>1 DEF Joins
            <4>3. log[id] = <<>> /\ queue[id] = <<>>
                BY <4>1, <4>2 DEF Taken
            <4>4. queue'[id] = <<client>>
                BY <4>1, <4>3
            <4> QED
                BY <2>2, <4>1, <4>2, <4>3, <4>4
        <3> QED
            BY <3>1, <3>2
    <2> QED
        BY <1>0, <2>2, <2>3, <2>4 DEF Logs
<1>3. ASSUME NEW id \in Ids, Ends(id), kind' = kind PROVE Logs'
    <2>1. <<>> \in Seq(Clients)
        OBVIOUS
    <2>2. /\ queue' \in [Ids -> Seq(Clients)] /\ log' \in [Ids -> Seq(Clients)]
          /\ queue'[id] = <<>> /\ log'[id] \in {log[id], <<>>}
          /\ \A i \in Ids \ {id} : queue'[i] = queue[i] /\ log'[i] = log[i]
        BY <1>0, <1>3, <2>1 DEF Ends
    <2>3. \A i \in Ids : servers'[i] = "none" => log'[i] = <<>> /\ queue'[i] = <<>>
        BY <1>0, <2>2, OnceStarted
    <2>4. ASSUME NEW i \in Ids, kind'[i[1]] = "trace"
          PROVE  \/ log'[i] = <<>> /\ queue'[i] \in Singles
                 \/ queue'[i] = <<>> /\ log'[i] \in Singles
        BY <1>3, <2>2, <2>4 DEF Logs
    <2> QED
        BY <2>2, <2>3, <2>4 DEF Logs
<1>4. ASSUME NEW id \in Ids, Prints(id), kind' = kind PROVE Logs'
    <2>1. /\ queue[id] # <<>> /\ queue[id] \in Seq(Clients)
          /\ log[id] \in Seq(Clients) /\ servers[id] = "listening"
          /\ servers' = servers
        BY <1>0, <1>4 DEF Prints
    <2>2. Tail(queue[id]) \in Seq(Clients)
          /\ Append(log[id], Head(queue[id])) \in Seq(Clients)
        BY <2>1, MoveHead
    <2>3. /\ queue' \in [Ids -> Seq(Clients)] /\ log' \in [Ids -> Seq(Clients)]
          /\ queue'[id] = Tail(queue[id])
          /\ log'[id] = Append(log[id], Head(queue[id]))
          /\ \A i \in Ids \ {id} : queue'[i] = queue[i] /\ log'[i] = log[i]
        BY <1>0, <1>4, <2>2 DEF Prints
    <2>4. \A i \in Ids : servers'[i] = "none" => log'[i] = <<>> /\ queue'[i] = <<>>
        BY <1>0, <2>1, <2>3
    <2>5. ASSUME kind[id[1]] = "trace"
          PROVE  queue'[id] = <<>> /\ log'[id] \in Singles
        <3>1. log[id] = <<>> /\ queue[id] \in {<<"schannel">>, <<"transport">>}
            BY <2>1, <2>5 DEF Logs
        <3>2. ASSUME NEW x, queue[id] = <<x>>
              PROVE  queue'[id] = <<>> /\ log'[id] = <<x>>
            <4>1. Head(<<x>>) = x /\ Tail(<<x>>) = <<>> /\ Append(<<>>, x) = <<x>>
                OBVIOUS
            <4> QED
                BY <2>3, <3>1, <3>2, <4>1
        <3> QED
            BY <3>1, <3>2
    <2>6. ASSUME NEW i \in Ids, kind'[i[1]] = "trace"
          PROVE  \/ log'[i] = <<>> /\ queue'[i] \in Singles
                 \/ queue'[i] = <<>> /\ log'[i] \in Singles
        BY <1>4, <2>3, <2>5, <2>6 DEF Logs
    <2> QED
        BY <2>3, <2>4, <2>6 DEF Logs
<1> QED
    BY <1>1, <1>2, <1>3, <1>4, LinesChange

-----------------------------------------------------------------------------
(* Whom a client meets. *)

\* The state a client finds its peer in.
LEMMA StateOfType ==
    ASSUME ForeignType, Ports, NEW peer \in Peers
    PROVE  /\ StateOf(peer) \in States
           /\ peer \in Ids => StateOf(peer) = servers[peer]
BY IdFacts DEF ForeignType, Ports, Servers, Peers, StateOf, States

\* A client meets the server of its chain; one of trace-rerun.sh perhaps that
\* of transport.py, or of a call that was killed.
LEMMA PeerFacts ==
    ASSUME Places, Ports, pc \in InRow, NEW peer \in OnPort(Script)
    PROVE  /\ peer \in Peers /\ peer # Nobody
           /\ peer # Own => Script = "trace" /\ (peer = Foreign \/ peer[1] < call)
<1>1. Script \in Scripts /\ pc \in Active /\ call \in Nat
    BY Constants DEF Places, Script, InRow, Active
<1>2. CASE peer = Foreign /\ Script = "trace"
    BY <1>2, IdFacts DEF Peers
<1>3. CASE /\ peer \in Ids /\ kind[peer[1]] = Script /\ servers[peer] \in Alive
    <2>1. peer[1] \in Nat /\ peer[1] \in Calls
        BY <1>3, IdFacts, Constants
    <2>2. peer[1] <= call
        BY <1>1, <1>3, <2>1 DEF Ports, Servers, Unstarted, Alive
    <2>3. CASE Script = "isolation"
        BY <1>3, <2>3, IdFacts DEF Ports, ContainerIsAlone, Peers
    <2>4. CASE Script = "trace"
        <3>1. peer[1] = call => peer = Own
            BY <1>1, <1>3, <2>4 DEF Ports, TraceServerIsLast
        <3> QED
            BY <1>1, <1>3, <2>1, <2>2, <2>4, <3>1, IdFacts DEF Peers
    <2> QED
        BY <1>1, <2>3, <2>4 DEF Scripts
<1> QED
    BY <1>1, <1>2, <1>3, OnPortFacts

\* What a client leaves behind when it has reached whoever has the port.
LEMMA ReachFacts ==
    ASSUME Places, ForeignType, Ports, Meetings, pc \in InRow,
           NEW client \in {"control", "schannel"}, Reach(client)
    PROVE  /\ met'[client].peer \in Peers
           /\ met'[client].state \in {"taken", StateOf(met'[client].peer)}
           /\ met' = [control |-> IF client = "control" THEN met'[client]
                                                        ELSE met.control,
                      schannel |-> IF client = "schannel" THEN met'[client]
                                                          ELSE met.schannel]
           /\ met'[client] \in Meeting
           /\ met'[client].peer \notin {Own, Nobody} =>
                  /\ Script = "trace"
                  /\ met'[client].peer = Foreign \/ met'[client].peer[1] < call
           /\ met'[client].peer = Nobody \/ met'[client].peer \in OnPort(Script)
           /\ met'[client].peer = Nobody => met'[client].state # "listening"
           /\ queue' = IF met'[client].peer \in Ids
                       THEN Joined(met'[client].peer, client) ELSE queue
<1>0. PICK peer \in IF OnPort(Script) = {} THEN {Nobody} ELSE OnPort(Script) :
          /\ met' = [met EXCEPT ![client] =
                        [peer |-> peer,
                         state |-> IF peer \in Ids /\ Taken(peer) THEN "taken"
                                   ELSE StateOf(peer)]]
          /\ queue' = IF peer \in Ids THEN Joined(peer, client) ELSE queue
    BY DEF Reach
<1> DEFINE state == IF peer \in Ids /\ Taken(peer) THEN "taken" ELSE StateOf(peer)
<1>1. /\ met' = [met EXCEPT ![client] = [peer |-> peer, state |-> state]]
      /\ queue' = IF peer \in Ids THEN Joined(peer, client) ELSE queue
      /\ state \in {"taken", StateOf(peer)}
    BY <1>0
<1> HIDE DEF state
<1>2. /\ peer \in Peers
      /\ peer \notin {Own, Nobody} =>
             Script = "trace" /\ (peer = Foreign \/ peer[1] < call)
    BY <1>0, PeerFacts DEF Peers
<1>3. met = [control |-> met.control, schannel |-> met.schannel]
    BY DEF Meetings
<1>4. met' = [control |-> IF client = "control"
                          THEN [peer |-> peer, state |-> state]
                          ELSE met.control,
              schannel |-> IF client = "schannel"
                           THEN [peer |-> peer, state |-> state]
                           ELSE met.schannel]
    BY <1>1, <1>3
<1>5. met'[client] = [peer |-> peer, state |-> state]
    BY <1>4
<1>6. met'[client].peer = peer /\ met'[client].state = state
    BY <1>5
<1>7. met'[client] \in Meeting
    BY <1>1, <1>2, <1>5, StateOfType DEF Meeting, States
<1>8. peer = Nobody => state # "listening"
    BY <1>1, IdFacts DEF StateOf
<1> QED
    BY <1>0, <1>1, <1>2, <1>4, <1>5, <1>6, <1>7, <1>8

\* Before its clients have run, a chain has met no one.
LEMMA NoClientsFacts ==
    ASSUME met' = NoClients, result' = NoResult
    PROVE  Meetings'
<1>1. /\ met'["control"].peer = Nobody /\ met'["schannel"].peer = Nobody
      /\ met'["control"].state = "none" /\ met'["schannel"].state = "none"
      /\ DOMAIN met' = {"control", "schannel"}
    BY DEF NoClients
<1>2. PeerIsNotEarlierChain'
    BY <1>1 DEF PeerIsNotEarlierChain
<1>3. met' \in [control : Meeting, schannel : Meeting]
    BY DEF NoClients, Meeting, Peers
<1>4. result' \in [control : Results, schannel : Results]
    BY DEF NoResult, Results
<1> QED
    BY <1>1, <1>2, <1>3, <1>4 DEF Meetings

\* No one was met before the first call.
LEMMA MeetingsInit == Init => Meetings
<1> SUFFICES ASSUME Init PROVE Meetings
    OBVIOUS
<1>1. /\ met["control"].peer = Nobody /\ met["schannel"].peer = Nobody
      /\ met["control"].state = "none" /\ met["schannel"].state = "none"
      /\ DOMAIN met = {"control", "schannel"}
    BY DEF Init, NoClients
<1>2. PeerIsNotEarlierChain
    BY <1>1 DEF PeerIsNotEarlierChain
<1>3. met \in [control : Meeting, schannel : Meeting]
    BY DEF Init, NoClients, Meeting, Peers
<1>4. result \in [control : Results, schannel : Results]
    BY DEF Init, NoResult, Results
<1> QED
    BY <1>1, <1>2, <1>3, <1>4 DEF Meetings

\* Every step keeps the clients to the servers they may meet.
LEMMA MeetingsStep ==
    Places /\ ForeignType /\ Ports /\ Meetings /\ [Next]_vars => Meetings'
<1> SUFFICES ASSUME Places, ForeignType, Ports, Meetings, [Next]_vars
             PROVE  Meetings'
    OBVIOUS
<1> USE DEF loop
<1>1. ASSUME UNCHANGED <<met, result, call, at, kind>> PROVE Meetings'
    BY <1>1 DEF Meetings, PeerIsNotEarlierChain, Own, Script
\* A client has reached someone.
<1>2. ASSUME NEW client \in {"control", "schannel"}, Reach(client), pc \in InRow,
             UNCHANGED <<call, at, kind>>,
             result' \in [control : Results, schannel : Results]
      PROVE  Meetings'
    <2>1. /\ met' = [control |-> IF client = "control" THEN met'[client]
                                                       ELSE met.control,
                     schannel |-> IF client = "schannel" THEN met'[client]
                                                         ELSE met.schannel]
          /\ met'[client] \in Meeting
          /\ met'[client].peer \notin {Own, Nobody} =>
                 /\ Script = "trace"
                 /\ met'[client].peer = Foreign \/ met'[client].peer[1] < call
          /\ met'[client].peer = Nobody => met'[client].state # "listening"
        BY <1>2, ReachFacts
    <2>2. met' \in [control : Meeting, schannel : Meeting]
        BY <1>2, <2>1 DEF Meetings
    <2>3. /\ DOMAIN met' = {"control", "schannel"}
          /\ DOMAIN met = {"control", "schannel"}
          /\ \A c \in {"control", "schannel"} : c # client => met'[c] = met[c]
        BY <1>2, <2>1 DEF Meetings
    <2>4. PeerIsNotEarlierChain'
        BY <1>2, <2>1, <2>3 DEF Meetings, PeerIsNotEarlierChain, Own, Script
    <2>5. \A c \in DOMAIN met' : met'[c].peer = Nobody => met'[c].state # "listening"
        BY <2>1, <2>3 DEF Meetings
    <2> QED
        BY <1>2, <2>2, <2>4, <2>5 DEF Meetings
<1>3. ASSUME NEW c \in {"control", "schannel"}, NEW r \in {"ok", "fail"},
             result' = [result EXCEPT ![c] = r]
      PROVE  result' \in [control : Results, schannel : Results]
    BY <1>3 DEF Meetings, Results
<1>4. CASE Control
    BY <1>2, <1>3, <1>4 DEF Control, InRow, Active
<1>5. CASE Schannel
    BY <1>2, <1>5 DEF Schannel, InRow, Active, Meetings
<1>6. CASE SchannelEnds
    <2>1. result' \in [control : Results, schannel : Results]
        BY <1>3, <1>6 DEF SchannelEnds
    <2> QED
        BY <1>6, <2>1
           DEF SchannelEnds, Meetings, PeerIsNotEarlierChain, Own, Script
<1>7. CASE ContainerNotReady \/ StopContainer \/ StopTraceServer
    BY <1>7, NoClientsFacts
       DEF ContainerNotReady, StopContainer, StopTraceServer, Continue
<1>8. ASSUME NEW script \in Scripts, Start(script) PROVE Meetings'
    BY <1>8, NoClientsFacts DEF Start
<1> QED
    BY <1>1, <1>4, <1>5, <1>6, <1>7, <1>8
       DEF Next, Step, StartContainer, StartTraceServer, ContainerReady, TraceProbed,
           Killed, Bind, Exit, Prints, Transport, vars, clients

-----------------------------------------------------------------------------
(* What the log of a container then says. *)

\* No client has run before the first call.
LEMMA WitnessedInit == Init => Witnessed
BY DEF Init, Witnessed, Active

\* A client of run-isolation.sh that reaches someone reaches the container of its
\* chain, which takes it, as the last that came.
LEMMA ReachLined ==
    ASSUME Places, ForeignType, Ports, Logs, Meetings, Lined, Script = "isolation",
           pc \in {"control", "schannel"}, UNCHANGED <<call, at, log, servers>>,
           NEW client \in {"control", "schannel"}, Reach(client),
           met[client].peer # Own,
           client = "control" => met.schannel.peer # Own
    PROVE  Lined'
<1>1. /\ pc \in InRow /\ pc \in AfterReady /\ pc \in Active
      /\ Own \in Ids /\ Own' = Own /\ kind[Own[1]] = "isolation"
    BY OwnIsServer DEF InRow, Active, AfterReady, Own, Script
<1>2. /\ met' = [control |-> IF client = "control" THEN met'[client]
                                                   ELSE met.control,
                 schannel |-> IF client = "schannel" THEN met'[client]
                                                     ELSE met.schannel]
      /\ met'[client].peer \notin {Own, Nobody} => Script = "trace"
      /\ met'[client].peer = Nobody \/ met'[client].peer \in OnPort(Script)
      /\ queue' = IF met'[client].peer \in Ids
                  THEN Joined(met'[client].peer, client) ELSE queue
    BY <1>1, ReachFacts
<1>3. servers[Own] \in {"listening", "dead"}
    BY <1>1 DEF Ports, ContainerIsReady
<1>4. /\ log[Own] \in Seq(Clients) /\ queue[Own] \in Seq(Clients)
      /\ client \in Clients
    BY <1>1 DEF Logs, Clients
<1>5. CASE met'[client].peer # Own
    <2>1. queue' = queue
        BY <1>2, <1>5, IdFacts
    <2>2. Came("control")' = Came("control") /\ Came("schannel")' = Came("schannel")
        BY <1>1, <1>2, <1>5 DEF Came, Meetings
    <2> QED
        BY <1>1, <2>1, <2>2 DEF Lined
<1>6. CASE met'[client].peer = Own
    <2>1. servers[Own] = "listening"
        BY <1>1, <1>2, <1>3, <1>6, OnPortFacts, IdFacts DEF Scripts, Alive
    <2>2. queue'[Own] = Append(queue[Own], client)
        BY <1>1, <1>2, <1>4, <1>6, <2>1, JoinedFacts
    <2>3. log[Own] \o queue'[Own] = Append(log[Own] \o queue[Own], client)
        BY <1>4, <2>2, AppendRight
    <2>4. log[Own] \o queue[Own] = Came("control") \o Came("schannel")
        BY <2>1 DEF Lined
    <2>5. CASE client = "control"
        <3>1. /\ Came("control") = <<>> /\ Came("schannel") = <<>>
              /\ Came("control")' = <<"control">> /\ Came("schannel")' = <<>>
            BY <1>1, <1>2, <1>6, <2>5 DEF Came
        <3>2. Append(<<>> \o <<>>, "control") = <<"control">> \o <<>>
            OBVIOUS
        <3> QED
            BY <1>1, <2>1, <2>3, <2>4, <2>5, <3>1, <3>2 DEF Lined
    <2>6. CASE client = "schannel"
        <3>1. /\ Came("schannel") = <<>> /\ Came("control") \in {<<>>, <<"control">>}
              /\ Came("control")' = Came("control")
              /\ Came("schannel")' = <<"schannel">>
            BY <1>1, <1>2, <1>6, <2>6 DEF Came
        <3>2. Append(Came("control") \o <<>>, "schannel")
                  = Came("control") \o <<"schannel">>
            BY <3>1
        <3> QED
            BY <1>1, <2>1, <2>3, <2>4, <2>6, <3>1, <3>2 DEF Lined
    <2> QED
        BY <2>5, <2>6
<1> QED
    BY <1>5, <1>6

\* A container prints the line of the client it is at, or is gone.
LEMMA ServerLined ==
    ASSUME Ports, Logs, Lined, Own \in Ids, kind[Own[1]] = "isolation",
           UNCHANGED <<call, at, met>>, NEW id \in Ids, Ends(id) \/ Prints(id)
    PROVE  Lined' /\ (Len(queue[Own]) <= 1 => Len(queue'[Own]) <= 1)
<1>1. /\ Own' = Own /\ servers \in [Ids -> States]
      /\ Came("control")' = Came("control") /\ Came("schannel")' = Came("schannel")
      /\ queue[Own] \in Seq(Clients) /\ log[Own] \in Seq(Clients)
      /\ queue \in [Ids -> Seq(Clients)] /\ log \in [Ids -> Seq(Clients)]
    BY DEF Own, Came, Logs, Ports, Servers
<1>2. CASE id # Own
    <2>1. /\ queue'[Own] = queue[Own] /\ log'[Own] = log[Own]
          /\ (servers'[Own] = "dead") = (servers[Own] = "dead")
        BY <1>1, <1>2 DEF Ends, Prints
    <2> QED
        BY <1>1, <2>1 DEF Lined
<1>3. CASE id = Own /\ Ends(id)
    <2>1. queue'[Own] = <<>> /\ log'[Own] = <<>>
        BY <1>1, <1>3 DEF Ends
    <2>2. servers'[Own] = "dead"
        BY <1>1, <1>3 DEF Ends
    <2>3. Len(queue'[Own]) = 0
        BY <2>1
    <2> QED
        BY <1>1, <2>1, <2>2, <2>3 DEF Lined
<1>4. CASE id = Own /\ Prints(id)
    <2>1. /\ queue[Own] # <<>> /\ queue'[Own] = Tail(queue[Own])
          /\ log'[Own] = Append(log[Own], Head(queue[Own]))
          /\ servers[Own] = "listening" /\ servers' = servers
        BY <1>1, <1>4 DEF Prints
    <2>2. /\ log'[Own] \o queue'[Own] = log[Own] \o queue[Own]
          /\ Len(queue'[Own]) = Len(queue[Own]) - 1 /\ Len(queue[Own]) \in Nat
        BY <1>1, <2>1, MoveHead
    <2>3. Lined'
        BY <1>1, <2>1, <2>2 DEF Lined
    <2>4. Len(queue[Own]) <= 1 => Len(queue'[Own]) <= 1
        BY <2>2
    <2> QED
        BY <2>3, <2>4
<1> QED
    BY <1>2, <1>3, <1>4

\* Every step keeps the clients that came where they can be found.
LEMMA WitnessedStep ==
    /\ Places /\ ForeignType /\ Ports /\ Logs /\ Meetings /\ Witnessed
    /\ [Next]_vars
    => Witnessed'
<1> SUFFICES ASSUME Places, ForeignType, Ports, Logs, Meetings, Witnessed,
                    [Next]_vars, pc' \in Active, Script' = "isolation"
             PROVE  Witnessed'
    BY DEF Witnessed
<1> USE DEF loop, clients, hosts, lines
<1>0. Places' /\ Ports' /\ Logs'
    BY PlacesStep, PortsStep, LogsStep
\* At the start of a chain its container has not been started.
<1>1. ASSUME met' = NoClients, pc' = "server" PROVE Witnessed'
    <2>1. Own' \in Ids
        BY <1>0, OwnIsServer, IdFacts DEF Places, Own
    <2>2. servers'[Own'] = "none"
        BY <1>0, <1>1, <2>1 DEF Ports, Servers, Unstarted
    <2>3. log'[Own'] = <<>> /\ queue'[Own'] = <<>>
        BY <1>0, <2>1, <2>2 DEF Logs
    <2>4. Own' # Nobody
        BY <2>1, IdFacts
    <2>5. Came("control")' = <<>> /\ Came("schannel")' = <<>>
        BY <1>1, <2>4 DEF Came, NoClients
    <2>6. Lined'
        BY <2>2, <2>3, <2>5 DEF Lined
    <2> QED
        BY <1>1, <2>6 DEF Witnessed, NoClients
\* The script goes on; the lines are as they were.
<1>2. ASSUME UNCHANGED <<met, result, call, at, kind, lines>>,
             pc \in Active =>
                 (servers'[Own] = "dead") = (servers[Own] = "dead"),
             \/ pc' = pc
             \/ pc' \in {"wait", "control"} /\ pc \in {"server", "wait"}
      PROVE  Witnessed'
    <2>1. pc \in Active /\ Script = "isolation" /\ Own' = Own
        BY <1>2 DEF Active, Script, Own
    <2>2. Lined'
        BY <1>2, <2>1 DEF Witnessed, Lined, Came
    <2> QED
        BY <1>2, <2>1, <2>2 DEF Witnessed
<1>3. CASE Control
    <2>1. /\ pc = "control" /\ pc' = "schannel" /\ Reach("control")
          /\ UNCHANGED <<call, at, kind, log, servers>> /\ Script = "isolation"
          /\ Own \in Ids /\ Lined /\ met = NoClients
        BY <1>3, OwnIsServer DEF Control, Script, Witnessed, Active
    <2>2. met.control.peer # Own /\ met.schannel.peer # Own
        BY <2>1, IdFacts DEF NoClients
    <2>3. Lined'
        BY <2>1, <2>2, ReachLined
    <2>4. met'.schannel = NoClients.schannel
        BY <2>1, ReachFacts DEF InRow, Active, NoClients
    <2> QED
        BY <2>1, <2>3, <2>4 DEF Witnessed
<1>4. CASE Schannel
    <2>1. /\ pc = "schannel" /\ pc' = "handshake" /\ Reach("schannel")
          /\ UNCHANGED <<call, at, kind, log, servers>> /\ Script = "isolation"
          /\ Own \in Ids /\ Lined /\ met.schannel = NoClients.schannel
        BY <1>4, OwnIsServer DEF Schannel, Script, Witnessed, Active
    <2>2. met.schannel.peer # Own
        BY <2>1, IdFacts DEF NoClients
    <2>3. Lined'
        BY <2>1, <2>2, ReachLined
    <2> QED
        BY <2>1, <2>3 DEF Witnessed
<1>5. CASE SchannelEnds
    <2>1. /\ pc = "handshake" /\ pc' = "stop"
          /\ UNCHANGED <<call, at, kind, log, queue, servers, met>>
          /\ Script = "isolation" /\ Own \in Ids /\ Lined
        BY <1>5, OwnIsServer DEF SchannelEnds, Script, Witnessed, Active
    <2>2. Lined'
        BY <2>1 DEF Lined, Own, Came
    <2>3. result'.schannel = "ok" =>
              InTurn(met.schannel.peer) /\ met.schannel.state = "listening"
        <3>1. PICK r \in {"ok", "fail"} :
                  /\ r = "ok" => /\ met.schannel.state = "listening"
                                 /\ InTurn(met.schannel.peer)
                  /\ result' = [result EXCEPT !.schannel = r]
            BY <1>5 DEF SchannelEnds
        <3>2. result'.schannel = r
            BY <3>1 DEF Meetings
        <3> QED
            BY <3>1, <3>2
    <2>4. met.schannel.state = "listening" => met.schannel.peer = Own
        BY <2>1 DEF Meetings, PeerIsNotEarlierChain
    <2> QED
        BY <2>1, <2>2, <2>3, <2>4 DEF Witnessed, InTurn, Own
<1>6. CASE ContainerNotReady \/ StopContainer \/ StopTraceServer
    <2>1. met' = NoClients /\ pc' \in {"server", "done"}
        BY <1>6
           DEF ContainerNotReady, StopContainer, StopTraceServer, Continue, NextChain
    <2> QED
        BY <1>1, <2>1 DEF Active
<1>7. ASSUME NEW script \in Scripts, Start(script) PROVE Witnessed'
    BY <1>1, <1>7 DEF Start
<1>8. CASE StartContainer
    <2>1. pc = "server" /\ pc' = "wait" /\ Own \in Ids
        BY <1>8, OwnIsServer DEF StartContainer, Active
    <2>2. servers[Own] = "none" /\ servers'[Own] = "starting"
        BY <1>8, <2>1 DEF StartContainer, Ports, Servers, Unstarted, Active
    <2> QED
        BY <1>2, <1>8, <2>1, <2>2 DEF StartContainer
<1>9. CASE StartTraceServer \/ TraceProbed
    BY <1>9 DEF StartTraceServer, TraceProbed, Script
<1>10. CASE ContainerReady \/ UNCHANGED vars
    BY <1>2, <1>10 DEF ContainerReady, vars
<1>11. CASE Killed
    BY <1>11 DEF Killed, Resting, Active
<1>12. ASSUME NEW id \in Ids, Bind(id) PROVE Witnessed'
    <2>1. Script = "isolation" /\ pc \in Active
        BY <1>12 DEF Bind, Script
    <2>2. (servers'[Own] = "dead") = (servers[Own] = "dead")
        BY <1>12, <2>1, OwnIsServer DEF Bind, Own, Script, Ports, Servers
    <2> QED
        BY <1>2, <1>12, <2>2 DEF Bind
<1>13. ASSUME NEW id \in Ids, Exit(id) \/ Prints(id) PROVE Witnessed'
    <2>1. /\ UNCHANGED <<pc, call, at, kind, met, result>>
          /\ Ends(id) \/ Prints(id)
        BY <1>13 DEF Exit, Prints
    <2>2. /\ Script = "isolation" /\ pc \in Active /\ Own \in Ids /\ Own' = Own
          /\ kind[Own[1]] = "isolation" /\ Lined
        BY <2>1, OwnIsServer DEF Script, Own, Witnessed
    <2>3. Lined' /\ (Len(queue[Own]) <= 1 => Len(queue'[Own]) <= 1)
        BY <2>1, <2>2, ServerLined
    <2> QED
        BY <2>1, <2>2, <2>3 DEF Witnessed
<1>14. CASE Transport
    <2>1. /\ UNCHANGED <<pc, call, at, kind, met, result, log, servers>>
          /\ Script = "isolation" /\ pc \in Active /\ Own \in Ids
        BY <1>14, OwnIsServer DEF Transport, Script
    <2>2. \/ queue' = queue
          \/ \E id \in OnPort("trace") \ {Foreign} : queue' = Joined(id, "transport")
        BY <1>14 DEF Transport
    <2>3. queue'[Own] = queue[Own]
        <3>1. CASE queue' = queue
            BY <3>1
        <3>2. ASSUME NEW id \in OnPort("trace") \ {Foreign},
                     queue' = Joined(id, "transport")
              PROVE  queue'[Own] = queue[Own]
            <4>1. id \in Ids /\ kind[id[1]] = "trace"
                BY <3>2, OnPortFacts DEF Scripts
            <4>2. id # Own
                BY <2>1, <4>1 DEF Own, Script
            <4>3. "transport" \in Clients
                BY DEF Clients
            <4> QED
                BY <2>1, <3>2, <4>1, <4>2, <4>3, JoinedFacts
        <3> QED
            BY <2>2, <3>1, <3>2
    <2>4. Lined' /\ Own' = Own
        BY <2>1, <2>3 DEF Witnessed, Lined, Came, Own
    <2> QED
        BY <2>1, <2>3, <2>4 DEF Witnessed
<1> QED
    BY <1>3, <1>4, <1>5, <1>6, <1>7, <1>8, <1>9, <1>10, <1>11, <1>12, <1>13, <1>14
       DEF Next, Step

-----------------------------------------------------------------------------
(* The rows that were written. *)

\* There is no row to say anything at first.
LEMMA LogIsOfRowInit == Init => LogIsOfRow
<1> SUFFICES ASSUME Init PROVE LogIsOfRow
    OBVIOUS
<1>1. summary = <<>>
    BY DEF Init
<1>2. Len(summary) = 0
    BY <1>1
<1> QED
    BY <1>2 DEF LogIsOfRow

\* The log of a row is of the clients that met its container.
LEMMA StoppedRow ==
    ASSUME Places, Ports, Logs, Witnessed, StopContainer,
           NEW row, row.up, row.met = met, row.result = result, row.chain = at,
           row.log = log[Own], row.kept = (servers[Own] = "listening")
    PROVE  /\ IsPrefix(row.log, Callers(row))
           /\ (/\ row.kept /\ row.result.schannel = "ok"
               /\ row.met.control.peer = <<call, row.chain>>)
                  => row.log # <<>>
<1>1. /\ pc = "stop" /\ pc \in Active /\ Script = "isolation" /\ Own \in Ids
      /\ Own = <<call, at>> /\ Lined
      /\ log[Own] \in Seq(Clients) /\ queue[Own] \in Seq(Clients)
    BY OwnIsServer DEF StopContainer, Active, Own, Witnessed, Logs
<1>2. Callers(row) = Came("control") \o Came("schannel")
    BY <1>1 DEF Callers, Came
<1>3. /\ Came("control") \in {<<>>, <<"control">>}
      /\ Came("schannel") \in {<<>>, <<"schannel">>}
    BY DEF Came
<1>4. Callers(row) \in Seq(Clients)
    <2>1. /\ Came("control") \in Seq(Clients) /\ Came("schannel") \in Seq(Clients)
        <3>1. /\ <<>> \in Seq(Clients) /\ <<"control">> \in Seq(Clients)
              /\ <<"schannel">> \in Seq(Clients)
            BY DEF Clients
        <3> QED
            BY <1>3, <3>1
    <2> QED
        BY <1>2, <2>1
<1>5. IsPrefix(row.log, Callers(row))
    <2>1. CASE servers[Own] = "dead"
        <3>1. <<>> \in Seq(Clients) /\ <<>> \o Callers(row) = Callers(row)
            BY <1>4
        <3> QED
            BY <1>1, <1>4, <2>1, <3>1, PrefixOfJoin DEF Lined
    <2>2. CASE servers[Own] # "dead"
        BY <1>1, <1>2, <2>2, PrefixOfJoin DEF Lined
    <2> QED
        BY <2>1, <2>2
<1>6. ASSUME row.kept, result.schannel = "ok", met.control.peer = Own
      PROVE  row.log # <<>>
    <2>1. log[Own] \o queue[Own] = Came("control") \o Came("schannel")
        BY <1>1, <1>6 DEF Lined
    <2>2. Came("control") = <<"control">>
        BY <1>6 DEF Came
    <2>3. met.schannel.peer = Own /\ Len(queue[Own]) <= 1
        BY <1>1, <1>6 DEF Witnessed
    <2>4. Len(log[Own] \o queue[Own]) = 2
        BY <2>1, <2>2, <2>3 DEF Came
    <2>5. Len(log[Own] \o queue[Own]) = Len(log[Own]) + Len(queue[Own])
        BY <1>1
    <2>6. Len(log[Own]) # 0
        <3>1. Len(log[Own]) \in Nat /\ Len(queue[Own]) \in Nat
            BY <1>1
        <3>2. \A m, n \in Nat : m + n = 2 /\ n <= 1 => m # 0
            OBVIOUS
        <3>3. Len(log[Own]) + Len(queue[Own]) = 2
            BY <2>4, <2>5
        <3> QED
            BY ONLY <2>3, <3>1, <3>2, <3>3
    <2> QED
        BY <2>6
<1> QED
    BY <1>1, <1>5, <1>6

\* Every step keeps the rows to what the logs say.
LEMMA LogIsOfRowStep ==
    /\ Places /\ Ports /\ Lengths /\ Logs /\ Meetings /\ Witnessed /\ LogIsOfRow
    /\ [Next]_vars
    => LogIsOfRow'
<1> SUFFICES ASSUME Places, Ports, Lengths, Logs, Meetings, Witnessed, LogIsOfRow,
                    [Next]_vars
             PROVE  LogIsOfRow'
    OBVIOUS
<1> DEFINE Fits(row) ==
        row.up => /\ IsPrefix(row.log, Callers(row))
                  /\ (/\ row.kept /\ row.result.schannel = "ok"
                      /\ row.met.control.peer = <<call, row.chain>>)
                         => row.log # <<>>
<1>1. \A i \in 1 .. Len(summary) : Fits(summary[i])
    BY DEF LogIsOfRow
<1>2. ASSUME UNCHANGED <<summary, call>> PROVE LogIsOfRow'
    BY <1>2 DEF LogIsOfRow, Callers
<1>3. ASSUME NEW row \in Judged \cup NotUp, Fits(row),
             summary' = Append(summary, row), call' = call
      PROVE  LogIsOfRow'
    <2>1. /\ Len(summary') = Len(summary) + 1 /\ Len(summary) \in Nat
          /\ \A i \in 1 .. Len(summary) + 1 :
                 summary'[i] = IF i <= Len(summary) THEN summary[i] ELSE row
        BY <1>3, AppendFacts DEF Lengths
    <2>2. ASSUME NEW i \in 1 .. Len(summary') PROVE Fits(summary'[i])
        <3>1. CASE i <= Len(summary)
            <4>1. i \in 1 .. Len(summary) /\ summary'[i] = summary[i]
                BY <2>1, <2>2, <3>1
            <4> QED
                BY <1>1, <4>1
        <3>2. CASE ~(i <= Len(summary))
            <4>1. summary'[i] = row
                BY <2>1, <2>2, <3>2
            <4> QED
                BY <1>3, <4>1
        <3> QED
            BY <3>1, <3>2
    <2> QED
        BY <1>3, <2>2 DEF LogIsOfRow, Callers
<1>4. CASE StopContainer
    <2> DEFINE row == [chain |-> at, up |-> TRUE, result |-> result, met |-> met,
                       kept |-> servers[Own] = "listening", log |-> log[Own]]
    <2>1. row \in Judged
        BY <1>4, OwnIsServer
           DEF Judged, Places, Logs, Meetings, StopContainer, Active
    <2>2. Fits(row)
        BY <1>4, StoppedRow
    <2> QED
        BY <1>3, <1>4, <2>1, <2>2 DEF StopContainer, Continue
<1>5. CASE ContainerNotReady
    <2> DEFINE row == [chain |-> at, up |-> FALSE]
    <2>1. row \in NotUp
        BY DEF NotUp, Places
    <2>2. Fits(row)
        OBVIOUS
    <2>3. summary' = Append(summary, row) /\ call' = call
        BY <1>5 DEF ContainerNotReady, Continue, FailedRow
    <2> HIDE DEF row
    <2> QED
        BY <1>3, <2>1, <2>2, <2>3
<1>6. ASSUME NEW script \in Scripts, Start(script) PROVE LogIsOfRow'
    <2>1. summary' = <<>>
        BY <1>6 DEF Start
    <2>2. Len(summary') = 0
        BY <2>1
    <2> QED
        BY <2>2 DEF LogIsOfRow
<1>7. CASE StopTraceServer
    BY <1>2, <1>7 DEF StopTraceServer, Continue
<1> QED
    BY <1>2, <1>4, <1>5, <1>6, <1>7
       DEF Next, Step, StartContainer, StartTraceServer, ContainerReady, TraceProbed,
           Control, Schannel, SchannelEnds, Killed, Bind, Exit, Prints, Transport, vars,
           loop, output

-----------------------------------------------------------------------------
(* Progress: what there is to CallsEnd without fairness. *)

\* The steps that may still come for a chain.
StepsLeft ==
    [server |-> 6, wait |-> 5, control |-> 4, schannel |-> 3, handshake |-> 2,
     stop |-> 1]

\* The call is over, or on a later chain, or nearer to its next.
Advances ==
    \/ pc' \in Resting
    \/ at' > at
    \/ at' = at /\ StepsLeft[pc'] < StepsLeft[pc]

Progress ==
    /\ Step \/ Killed => Advances
    /\ pc \notin Resting => Advances \/ UNCHANGED <<pc, at>>

\* No step of a script leaves it where it was or takes it back.
LEMMA ProgressStep == Places /\ [Next]_vars => Progress
<1> SUFFICES ASSUME Places, [Next]_vars PROVE Progress
    OBVIOUS
<1>1. at \in Chains /\ at \in Nat /\ at + 1 > at
    BY Constants DEF Places
<1>2. ASSUME NEW rows, NextChain(rows) PROVE Advances
    <2>1. \/ pc' = "server" /\ at' = at + 1
          \/ pc' = "done"
        BY <1>1, <1>2, NextChainFacts
    <2> QED
        BY <1>1, <2>1 DEF Advances, Resting
<1>3. CASE ContainerNotReady \/ StopContainer \/ StopTraceServer
    BY <1>2, <1>3
       DEF ContainerNotReady, StopContainer, StopTraceServer, Continue, Progress
<1>4. CASE \/ StartContainer \/ StartTraceServer \/ ContainerReady \/ TraceProbed
           \/ Control \/ Schannel \/ SchannelEnds
    <2>1. at' = at
        BY <1>4
           DEF StartContainer, StartTraceServer, ContainerReady, TraceProbed,
               Control, Schannel, SchannelEnds, loop
    <2>2. \/ pc = "server" /\ pc' \in {"wait", "failed"}
          \/ pc = "wait" /\ pc' \in {"control", "schannel"}
          \/ pc = "control" /\ pc' = "schannel"
          \/ pc = "schannel" /\ pc' = "handshake"
          \/ pc = "handshake" /\ pc' = "stop"
        BY <1>4
           DEF StartContainer, StartTraceServer, ContainerReady, TraceProbed,
               Control, Schannel, SchannelEnds
    <2> QED
        BY <1>1, <2>1, <2>2 DEF Advances, Progress, StepsLeft, Resting
<1>5. CASE Killed
    BY <1>5 DEF Killed, Resting, Advances, Progress
<1>6. CASE /\ ~(Step \/ Killed)
           /\ \/ \E script \in Scripts : Start(script)
              \/ \E id \in Ids : Bind(id) \/ Exit(id) \/ Prints(id)
              \/ Transport \/ UNCHANGED vars
    BY <1>6 DEF Start, Bind, Exit, Prints, Transport, vars, loop, Progress
<1> QED
    BY <1>3, <1>4, <1>5, <1>6 DEF Next, Step

-----------------------------------------------------------------------------
(* The theorems. *)

\* The invariant holds of every reachable state.
THEOREM Invariance == Spec => []IInv
<1>1. Init => IInv
    BY PlacesInit, ForeignInit, LengthsInit, PortsInit, LogsInit, MeetingsInit,
       WitnessedInit, LogIsOfRowInit
       DEF IInv
<1>2. IInv /\ [Next]_vars => IInv'
    BY PlacesStep, ForeignStep, LengthsStep, PortsStep, LogsStep, MeetingsStep,
       WitnessedStep, LogIsOfRowStep
       DEF IInv
<1> QED
    BY <1>1, <1>2, PTL DEF Spec

\* run-isolation.sh never writes more rows than it has chains, and the rest of
\* the state stays what the two scripts can make of it.
THEOREM TypeCorrect == Spec => []TypeOK
<1>1. IInv => TypeOK
    BY DEF IInv, Places, ForeignType, Lengths, Ports, Servers, Logs, Meetings,
           TypeOK, Active, States
<1> QED
    BY <1>1, Invariance, PTL

\* However many calls were killed and left their containers or s_servers, and
\* whatever transport.py does with its port, no client is judged by a server of
\* an earlier chain of its call, and one of run-isolation.sh by its own alone.
THEOREM PeersAreNotEarlier == Spec => []PeerIsNotEarlierChain
<1>1. IInv => PeerIsNotEarlierChain
    BY DEF IInv, Meetings
<1> QED
    BY <1>1, Invariance, PTL

\* The trace trace-rerun.sh reads is of one ClientHello (-naccept 1), never of
\* the script's own wait for the port.
THEOREM TracesAreOfOneClient == Spec => []TraceIsOfOneClient
<1>1. IInv => TraceIsOfOneClient
    BY DEF IInv, Logs, Singles, TraceIsOfOneClient
<1> QED
    BY <1>1, Invariance, PTL

\* What docker logs gives for a row is of the row's own clients, in the order
\* they came: a line on schannel comes after the control's, and where schannel
\* passed the control's is there. It may lack the later lines, of a schannel
\* that failed too.
THEOREM LogsAreOfRows == Spec => []LogIsOfRow
<1>1. IInv => LogIsOfRow
    BY DEF IInv
<1> QED
    BY <1>1, Invariance, PTL

\* Every step of the two scripts, a kill included, ends the call or brings it
\* nearer to its end, and no server and no run of transport.py sets it back: a
\* call has at most six steps a chain. What CallsEnd needs beyond this is that
\* commands end, and powershell when nobody listens.
THEOREM CallsAdvance == Spec => [][Progress]_vars
<1>1. IInv /\ [Next]_vars => Progress
    BY ProgressStep DEF IInv
<1> QED
    BY <1>1, Invariance, PTL DEF Spec
=============================================================================
