----------------------------- MODULE Isolation ------------------------------
(***************************************************************************)
(* isolation/run-isolation.sh and isolation/trace-rerun.sh: the schannel   *)
(* client once more, against a server of another make (bctls in a          *)
(* container, with an openssl client as control before it), and against an *)
(* s_server that prints a trace.  Both take chain after chain: start the   *)
(* server, wait for it, run the clients, keep the server's own words, stop *)
(* it.  They differ in how they know the server is up, and in who may have *)
(* the port.                                                               *)
(*                                                                         *)
(* One call at a time; it may be killed at any step and leave its server.  *)
(* phase3/transport.py, which may run meanwhile, uses the port of          *)
(* trace-rerun.sh.                                                         *)
(***************************************************************************)
EXTENDS Naturals, SequencesExt

CONSTANTS
    NChains,     \* chains of a call
    MaxCalls     \* bound: calls of the scripts

ASSUME IsolationAssumption == NChains \in Nat \ {0} /\ MaxCalls \in Nat

Chains == 1 .. NChains
Calls == 1 .. MaxCalls
Ids == Calls \X Chains
Scripts == {"isolation", "trace"}

\* Whom a client can meet, besides a server of these scripts.
Nobody == <<0, 0>>
Foreign == <<0, 1>>    \* a server of transport.py
Peers == Ids \cup {Nobody, Foreign}

VARIABLES
    pc,        \* where the script is
    call, at,  \* the call, and the chain of its loop
    kind,      \* kind[i]: the script of call i
    servers,   \* every server
    foreign,   \* transport.py has a server on 14435
    queue,     \* the clients a server has not had its last word on
    log,       \* its words on the others: docker logs, openssl-trace.txt
    met,       \* whom each client of this chain met, and in which state
    result,    \* the clients' exit codes
    summary,   \* of run-isolation.sh: in memory until the end
    printed    \* the output of the call

loop == <<call, at, kind>>
lines == <<queue, log>>
hosts == <<servers, foreign, lines>>
clients == <<met, result>>
output == <<summary, printed>>
vars == <<pc, loop, hosts, clients, output>>

Resting == {"idle", "done", "failed", "killed"}
Own == <<call, at>>
Script == kind[call]

\* docker publishes the port when the container starts; s_server binds later.
HoldsPort(id) ==
    servers[id] \in IF kind[id[1]] = "isolation"
                    THEN {"starting", "listening"} ELSE {"listening"}
OnPort(script) ==
    {id \in Ids : kind[id[1]] = script /\ HoldsPort(id)}
        \cup (IF script = "trace" /\ foreign THEN {Foreign} ELSE {})

StateOf(peer) == CASE peer = Nobody  -> "none"
                   [] peer = Foreign -> IF foreign THEN "listening" ELSE "dead"
                   [] OTHER          -> servers[peer]

\* -naccept 1: a trace server takes the first that comes, and no other.
Taken(id) ==
    kind[id[1]] = "trace" /\ (log[id] # <<>> \/ queue[id] # <<>>)

\* The client is now in the hands of the server, if that takes it.
Joined(id, client) ==
    IF servers[id] = "listening" /\ ~Taken(id)
    THEN [queue EXCEPT ![id] = Append(@, client)] ELSE queue

\* A server is gone: its connections are, and of a container (--rm) its log.
Ends(id) ==
    /\ servers' = [servers EXCEPT ![id] = "dead"]
    /\ queue' = [queue EXCEPT ![id] = <<>>]
    /\ log' = IF kind[id[1]] = "isolation" THEN [log EXCEPT ![id] = <<>>] ELSE log
Stays == UNCHANGED <<servers, lines>>

NoClients == [control |-> [peer |-> Nobody, state |-> "none"],
              schannel |-> [peer |-> Nobody, state |-> "none"]]
NoResult == [control |-> "none", schannel |-> "none"]

Init ==
    /\ pc = "idle" /\ call = 0 /\ at = 1
    /\ kind = [i \in Calls |-> "none"]
    /\ servers = [id \in Ids |-> "none"] /\ foreign = FALSE
    /\ queue = [id \in Ids |-> <<>>] /\ log = [id \in Ids |-> <<>>]
    /\ met = NoClients /\ result = NoResult
    /\ summary = <<>> /\ printed = <<>>
-----------------------------------------------------------------------------
(* The loop. *)

Start(script) ==
    /\ pc \in Resting /\ call < MaxCalls
    /\ pc' = "server" /\ call' = call + 1 /\ at' = 1
    /\ kind' = [kind EXCEPT ![call + 1] = script]
    /\ met' = NoClients /\ result' = NoResult
    /\ summary' = <<>> /\ printed' = <<>>
    /\ UNCHANGED hosts

ChainsOverrun(rows) ==    \* slip: off by one
    /\ at' = at + 1 /\ pc' = IF at <= NChains THEN "server" ELSE "done"
    /\ printed' = IF Script = "isolation" /\ at > NChains THEN rows ELSE printed

\* The next chain, or the end, where run-isolation.sh prints its rows.
NextChain(rows) ==
    IF at < NChains
    THEN at' = at + 1 /\ pc' = "server" /\ UNCHANGED printed
    ELSE /\ pc' = "done" /\ UNCHANGED at
         /\ printed' = IF Script = "isolation" THEN rows ELSE printed

Continue(rows) ==
    /\ summary' = rows
    /\ NextChain(rows)
    /\ met' = NoClients /\ result' = NoResult
    /\ UNCHANGED <<call, kind, foreign>>

\* set -e: docker run fails where another container has the port.
StartContainer ==
    /\ pc = "server" /\ Script = "isolation"
    /\ \/ /\ OnPort("isolation") = {}
          /\ servers' = [servers EXCEPT ![Own] = "starting"]
          /\ pc' = "wait"
       \/ pc' = "failed" /\ UNCHANGED servers
    /\ UNCHANGED <<loop, foreign, lines, clients, output>>

StartTraceServer ==
    /\ pc = "server" /\ Script = "trace"
    /\ servers' = [servers EXCEPT ![Own] = "starting"]
    /\ pc' = "wait"
    /\ UNCHANGED <<loop, foreign, lines, clients, output>>

\* run-isolation.sh looks for "listening" in the container's log.
ReadyAtRun == servers[Own] # "dead"    \* slip: docker run has returned
Ready == servers[Own] = "listening"
ContainerReady ==
    /\ pc = "wait" /\ Script = "isolation" /\ Ready
    /\ pc' = "control"
    /\ UNCHANGED <<loop, hosts, clients, output>>

\* docker stop || true: it may fail, or the container be gone.
DockerStop == Ends(Own) \/ Stays

FailedRow == Append(summary, [chain |-> at, up |-> FALSE])
ContainerNotReady ==
    /\ pc = "wait" /\ Script = "isolation" /\ servers[Own] # "listening"
    /\ DockerStop
    /\ Continue(FailedRow)

\* trace-rerun.sh asks ss whether anyone listens, and goes on in any case.
ProbeByConnect ==    \* slip: a connection, which is the one of -naccept 1
    queue' = Joined(Own, "probe")
ProbeBySs == UNCHANGED queue
TraceProbed ==
    /\ pc = "wait" /\ Script = "trace"
    /\ ProbeBySs
    /\ pc' = "schannel"
    /\ UNCHANGED <<loop, servers, foreign, log, clients, output>>
-----------------------------------------------------------------------------
(* The clients. *)

\* A client reaches who has the port, and may find its one accept gone.
Reach(client) ==
    \E peer \in IF OnPort(Script) = {} THEN {Nobody} ELSE OnPort(Script) :
        /\ met' = [met EXCEPT ![client] =
                      [peer |-> peer,
                       state |-> IF peer \in Ids /\ Taken(peer) THEN "taken"
                                 ELSE StateOf(peer)]]
        /\ queue' = IF peer \in Ids THEN Joined(peer, client) ELSE queue

\* timeout 20.  Its result does not gate the schannel test.
Control ==
    /\ pc = "control"
    /\ Reach("control")
    /\ \E r \in {"ok", "fail"} :
           /\ met'.control.state = "listening" \/ r = "fail"
           /\ result' = [result EXCEPT !.control = r]
    /\ pc' = "schannel"
    /\ UNCHANGED <<loop, servers, foreign, log, output>>

Schannel ==
    /\ pc = "schannel"
    /\ Reach("schannel")
    /\ pc' = "handshake"
    /\ UNCHANGED <<loop, servers, foreign, log, result, output>>

\* A server is at one client at a time: at this one, or done with it.
InTurn(peer) == peer \in Ids => Len(queue[peer]) <= 1

\* powershell has no timeout: it ends when its peer answers or is gone. It may
\* do so before the server's line on it is written.
SchannelEnds ==
    /\ pc = "handshake"
    /\ \E r \in {"ok", "fail"} :
           /\ r = "ok" => /\ met.schannel.state = "listening"
                          /\ InTurn(met.schannel.peer)
           /\ result' = [result EXCEPT !.schannel = r]
    /\ pc' = "stop"
    /\ UNCHANGED <<loop, hosts, met, output>>

\* docker logs || true, when both clients have ended, before docker stop.
StopContainer ==
    /\ pc = "stop" /\ Script = "isolation"
    /\ DockerStop
    /\ Continue(Append(summary,
           [chain |-> at, up |-> TRUE, result |-> result, met |-> met,
            kept |-> servers[Own] = "listening", log |-> log[Own]]))

\* kill || true; wait || true.
LeaveServer == Stays    \* slip: -naccept 1 will end it
KillAndWait == Ends(Own)
StopTraceServer ==
    /\ pc = "stop" /\ Script = "trace"
    /\ KillAndWait
    /\ Continue(summary)

Killed ==
    /\ pc \notin Resting
    /\ pc' = "killed"
    /\ UNCHANGED <<loop, hosts, clients, output>>
-----------------------------------------------------------------------------
(* The servers. *)

Bind(id) ==
    /\ servers[id] = "starting"
    /\ servers' = [servers EXCEPT ![id] =
           IF kind[id[1]] = "trace" /\ OnPort("trace") # {}
           THEN "dead" ELSE "listening"]
    /\ UNCHANGED <<pc, loop, foreign, lines, clients, output>>

\* A crash; of s_server also the end of -naccept 1, and of its stdin.
Exit(id) ==
    /\ servers[id] \in {"starting", "listening"}
    /\ Ends(id)
    /\ UNCHANGED <<pc, loop, foreign, clients, output>>

\* s_server reads the 300 seconds of sleep to their end, client or not.
StdinNeverEnds(id) == FALSE    \* slip: < <(sleep infinity)
StdinEnds(id) == kind[id[1]] = "trace"
TraceServerEnds(id) == StdinEnds(id) /\ Exit(id)

\* Server.java serves one connection after the other, and prints its line when
\* startHandshake has returned or thrown; s_server prints what it reads.
Prints(id) ==
    /\ servers[id] = "listening" /\ queue[id] # <<>>
    /\ log' = [log EXCEPT ![id] = Append(@, Head(queue[id]))]
    /\ queue' = [queue EXCEPT ![id] = Tail(@)]
    /\ UNCHANGED <<pc, loop, servers, foreign, clients, output>>

\* transport.py starts and stops its server, and its client finds the port.
Transport ==
    /\ \/ /\ foreign \/ OnPort("trace") = {}
          /\ foreign' = ~foreign
          /\ UNCHANGED queue
       \/ /\ \E id \in OnPort("trace") \ {Foreign} :
                 queue' = Joined(id, "transport")
          /\ UNCHANGED foreign
    /\ UNCHANGED <<pc, loop, servers, log, clients, output>>
-----------------------------------------------------------------------------
Step ==
    \/ StartContainer \/ StartTraceServer
    \/ ContainerReady \/ ContainerNotReady \/ TraceProbed
    \/ Control \/ Schannel \/ SchannelEnds
    \/ StopContainer \/ StopTraceServer

Next ==
    \/ \E script \in Scripts : Start(script)
    \/ Step \/ Killed
    \/ \E id \in Ids : Bind(id) \/ Exit(id) \/ Prints(id)
    \/ Transport

\* A command of the script ends, but for powershell talking to a server that
\* is up.
Fairness ==
    /\ WF_vars(Step /\ pc # "handshake")
    /\ WF_vars(SchannelEnds /\ StateOf(met.schannel.peer) # "listening")
    /\ \A id \in Ids : WF_vars(TraceServerEnds(id))

Spec == Init /\ [][Next]_vars /\ Fairness
-----------------------------------------------------------------------------
Meeting == [peer : Peers,
            state : {"none", "starting", "listening", "taken", "dead"}]
Clients == {"control", "schannel", "transport", "probe"}

TypeOK ==
    /\ pc \in Resting \cup {"server", "wait", "control", "schannel", "handshake",
                           "stop"}
    /\ call \in 0 .. MaxCalls /\ at \in Chains
    /\ kind \in [Calls -> Scripts \cup {"none"}]
    /\ servers \in [Ids -> {"none", "starting", "listening", "dead"}]
    /\ foreign \in BOOLEAN
    /\ queue \in [Ids -> Seq(Clients)] /\ log \in [Ids -> Seq(Clients)]
    /\ met \in [control : Meeting, schannel : Meeting]
    /\ Len(summary) \in 0 .. NChains /\ Len(printed) \in {0, NChains}

\* schannel is judged by a server of its own chain: with run-isolation.sh by no
\* other, whatever containers killed calls have left; with trace-rerun.sh the
\* port may also be transport.py's, or a killed call's, but never of an earlier
\* chain of this call.
PeerIsNotEarlierChain ==
    \A client \in DOMAIN met :
        LET peer == met[client].peer
        IN peer \notin {Own, Nobody} =>
               Script = "trace" /\ (peer = Foreign \/ peer[1] < call)

\* openssl-trace.txt shows the ClientHello of one client: schannel, or one of
\* transport.py that took the single accept of the server; never that of the
\* script itself, which only waits for the port.
TraceIsOfOneClient ==
    \A id \in Ids : kind[id[1]] = "trace" =>
        log[id] \in {<<>>, <<"schannel">>, <<"transport">>}

\* The clients of a row that met its server, as they came.
Callers(row) ==
    LET Came(client) == IF row.met[client].peer = <<call, row.chain>>
                        THEN <<client>> ELSE <<>>
    IN Came("control") \o Came("schannel")

\* A line of a row's server log names an address, no client. Yet it can be
\* attributed: the lines are of the row's own clients, in the order these came,
\* and at most the later ones are missing (the line is written when the client
\* may have ended already, and docker logs does not wait for it). So a line on
\* schannel follows the control's, and where schannel passed the control's is
\* there. Nothing says a schannel that failed has its line.
LogIsOfRow ==
    \A i \in 1 .. Len(summary) :
        LET row == summary[i]
        IN row.up =>
               /\ IsPrefix(row.log, Callers(row))
               /\ (/\ row.kept /\ row.result.schannel = "ok"
                   /\ row.met.control.peer = <<call, row.chain>>)
                      => row.log # <<>>

\* A call comes to an end unless powershell hangs on a container, which lives
\* until it is stopped, or on a server of transport.py; never on an s_server of
\* these scripts, whose stdin ends.
CallsEnd ==
    [](pc \notin Resting =>
         <>(\/ pc \in Resting
            \/ /\ pc = "handshake"
               /\ \/ met.schannel.peer = Foreign
                  \/ Script = "isolation" /\ met.schannel.peer = Own))
=============================================================================
