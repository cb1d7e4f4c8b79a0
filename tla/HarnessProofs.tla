--------------------------- MODULE HarnessProofs ---------------------------
(***************************************************************************)
(* What is proved of the harness for every number of chains, clients and   *)
(* runs, in layers: each invariant is inductive relative to the ones       *)
(* before it.                                                              *)
(***************************************************************************)
EXTENDS Harness, TLAPS

\* Process ids are pairs of a run and a chain, and NoProc is none of them.
LEMMA RunsFacts ==
    /\ NoProc \notin ProcIds
    /\ \A p \in ProcIds : p = <<p[1], p[2]>> /\ p[1] \in Runs /\ p[2] \in Chains
    /\ \A r \in Runs, c \in Chains : <<r, c>> \in ProcIds /\ <<r, c>>[1] = r
BY SizeAssumption DEF ProcIds, NoProc, Runs, Chains

-----------------------------------------------------------------------------
(* Types, and where the loops are at each step of main(). *)

AtHead == pc \in {"bundle", "serve", "probe"}
AtClient == pc \in {"runner", "collect"}
AtTail == pc \in {"stop", "wait"}
AtWrites == pc \in {"openjson", "json", "openmatrix", "matrix", "done"}

LoopsOK ==
    /\ Surveying => run \in Runs
    /\ AtHead => chain \in Chains /\ client = 1
    /\ AtClient => chain \in Chains /\ client \in Clients
    /\ AtTail => chain \in Chains /\ client = NClients + 1
    /\ AtWrites => chain = NChains + 1 /\ client = 1

\* A server handle is the one of the current chain wherever it is used.
HandleOK ==
    /\ proc = NoProc \/ proc \in {run} \X Chains
    /\ pc = "serve" => proc = NoProc
    /\ pc \in {"probe", "wait"} => proc = <<run, chain>>
    /\ pc \in {"runner", "collect", "stop"} => proc \in {NoProc, <<run, chain>>}

ControlOK ==
    /\ pc \in Resting \cup Active
    /\ run \in 0 .. MaxRuns
    /\ chain \in 1 .. NChains + 1
    /\ client \in 1 .. NClients + 1
    /\ server \in ServerArgs
    /\ proc \in ProcIds \cup {NoProc}

Control == ControlOK /\ LoopsOK /\ HandleOK

\* The loops and the handle are in range before the first run.
LEMMA ControlInit == Init => Control
BY SizeAssumption
   DEF NoProc, Init, Control, ControlOK, LoopsOK, HandleOK, Surveying, Active,
       Resting, ServerArgs, NoServerArg, AtHead, AtClient, AtTail, AtWrites

\* Every step of the harness or of a server keeps loops and handle in
\* range for where main() is.
LEMMA ControlStep == Control /\ [Next]_vars => Control'
<1> SUFFICES ASSUME Control, [Next]_vars PROVE Control'
    OBVIOUS
<1> USE SizeAssumption, RunsFacts
    DEF Control, ControlOK, LoopsOK, HandleOK, Surveying, Active, Resting,
        AtHead, AtClient, AtTail, AtWrites, ServerArgs, NoServerArg,
        Runs, Chains, Clients, loop, handle, tally, servers
<1>1. CASE Start
    BY <1>1 DEF Start
<1>2. CASE Bundle
    BY <1>2 DEF Bundle, ResetServer
<1>3. CASE NoServer
    BY <1>3 DEF NoServer
<1>4. CASE SpawnServer
    BY <1>4 DEF SpawnServer
<1>5. CASE ProbeHit
    BY <1>5 DEF ProbeHit
<1>6. CASE ProbeTimeout
    BY <1>6 DEF ProbeTimeout
<1>7. CASE CollectCell
    BY <1>7 DEF CollectCell, NextRunner
<1>8. CASE NoServerToStop
    BY <1>8 DEF NoServerToStop, NextChain
<1>9. CASE StopServer
    BY <1>9 DEF StopServer
<1>10. CASE Reaped
    BY <1>10 DEF Reaped, NextChain
<1>11. CASE WaitTimesOut
    BY <1>11 DEF WaitTimesOut, Die
<1>12. CASE OpenResults
    BY <1>12 DEF OpenResults
<1>13. CASE WriteResults
    BY <1>13 DEF WriteResults
<1>14. CASE OpenMatrix
    BY <1>14 DEF OpenMatrix
<1>15. CASE WriteMatrix
    BY <1>15 DEF WriteMatrix
<1>16. CASE RunnerReturns
    BY <1>16 DEF RunnerReturns
<1>17. CASE RunnerFails
    BY <1>17 DEF RunnerFails, NextRunner
<1>18. CASE UnparsableOutput
    BY <1>18 DEF UnparsableOutput, Die
<1>19. CASE Abort
    BY <1>19 DEF Abort, Die
<1>20. CASE \E p \in ProcIds : Bind(p) \/ ServerDies(p)
    BY <1>20 DEF Bind, ServerDies
<1>21. CASE UNCHANGED vars
    BY <1>21 DEF vars
<1> QED
    BY <1>1, <1>2, <1>3, <1>4, <1>5, <1>6, <1>7, <1>8, <1>9, <1>10, <1>11,
       <1>12, <1>13, <1>14, <1>15, <1>16, <1>17, <1>18, <1>19, <1>20, <1>21
       DEF Next, HarnessStep

-----------------------------------------------------------------------------
(* The servers: whatever can still listen is either the one this chain      *)
(* started or was abandoned by an earlier run.                              *)

ServersType ==
    /\ procs \in [ProcIds -> ProcStates]
    /\ orphans \subseteq ProcIds

Alive(p) == procs[p] \in {"starting", "listening"}

\* Between two chains, and after the loop, the handle is of a dead server.
OldHandleIsDead ==
    pc = "bundle" \/ AtWrites \/ pc \in Resting =>
        proc = NoProc \/ procs[proc] = "dead"

AliveIsKnown == \A p \in ProcIds : Alive(p) => p = proc \/ p \in orphans

OrphansAreOld ==
    \A p \in orphans : p[1] <= run /\ (Surveying => p[1] < run)

Servers == ServersType /\ OldHandleIsDead /\ AliveIsKnown /\ OrphansAreOld

\* Before the first run there is no server.
LEMMA ServersInit == Init => Servers
BY SizeAssumption
   DEF Init, Servers, ServersType, OldHandleIsDead, AliveIsKnown, Alive,
       OrphansAreOld, ProcStates

\* terminate() changes the state of one process and leaves it unable to bind.
LEMMA TerminatedProcs ==
    ASSUME ServersType, NEW q \in ProcIds
    PROVE  /\ Terminated(q) \in [ProcIds -> ProcStates]
           /\ \A p \in ProcIds \ {q} : Terminated(q)[p] = procs[p]
           /\ Terminated(q)[q] \notin {"starting", "listening"}
BY DEF ServersType, Terminated, ProcStates

\* Every step keeps each living server either in the handle or among the
\* orphans of earlier runs.
LEMMA ServersStep ==
    Control /\ Control' /\ Servers /\ [Next]_vars => Servers'
<1> SUFFICES ASSUME Control, Control', Servers, [Next]_vars PROVE Servers'
    OBVIOUS
<1> USE SizeAssumption, RunsFacts, TerminatedProcs
    DEF Control, ControlOK, LoopsOK, HandleOK, Surveying, Active, Resting,
        AtHead, AtClient, AtTail, AtWrites, Runs, Chains,
        loop, handle, tally, servers,
        Servers, ServersType, OldHandleIsDead, AliveIsKnown, Alive,
        OrphansAreOld, ProcStates
<1>1. CASE Start
    BY <1>1 DEF Start
<1>2. CASE Bundle
    BY <1>2 DEF Bundle, ResetServer
<1>3. CASE NoServer
    BY <1>3 DEF NoServer
<1>4. CASE SpawnServer
    BY <1>4 DEF SpawnServer
<1>5. CASE ProbeHit
    BY <1>5 DEF ProbeHit
<1>6. CASE ProbeTimeout
    BY <1>6 DEF ProbeTimeout
<1>7. CASE CollectCell
    BY <1>7 DEF CollectCell, NextRunner
<1>8. CASE NoServerToStop
    BY <1>8 DEF NoServerToStop, NextChain
<1>9. CASE StopServer
    BY <1>9 DEF StopServer
<1>10. CASE Reaped
    BY <1>10 DEF Reaped, NextChain
<1>11. CASE WaitTimesOut
    BY <1>11 DEF WaitTimesOut, Die
<1>12. CASE OpenResults
    BY <1>12 DEF OpenResults
<1>13. CASE WriteResults
    BY <1>13 DEF WriteResults
<1>14. CASE OpenMatrix
    BY <1>14 DEF OpenMatrix
<1>15. CASE WriteMatrix
    BY <1>15 DEF WriteMatrix
<1>16. CASE RunnerReturns
    BY <1>16 DEF RunnerReturns
<1>17. CASE RunnerFails
    BY <1>17 DEF RunnerFails, NextRunner
<1>18. CASE UnparsableOutput
    BY <1>18 DEF UnparsableOutput, Die
<1>19. CASE Abort
    BY <1>19 DEF Abort, Die
<1>20. CASE \E p \in ProcIds : Bind(p) \/ ServerDies(p)
    BY <1>20 DEF Bind, ServerDies
<1>21. CASE UNCHANGED vars
    BY <1>21 DEF vars
<1> QED
    BY <1>1, <1>2, <1>3, <1>4, <1>5, <1>6, <1>7, <1>8, <1>9, <1>10, <1>11,
       <1>12, <1>13, <1>14, <1>15, <1>16, <1>17, <1>18, <1>19, <1>20, <1>21
       DEF Next, HarnessStep

-----------------------------------------------------------------------------
(* The accounts: cells and failures partition the pairs the loops passed.   *)

AccountsType ==
    /\ out \in Reports
    /\ cells \subseteq Cell
    /\ failures \subseteq Pairs
    /\ warned \subseteq Chains
    /\ bundleKeys \subseteq Servable

\* What a runner that returns reports: nothing where there is no handshake
\* test, and else a verdict on whom it reached; an ok only with its output.
LEMMA ReportFacts ==
    ASSUME RunnerReturns
    PROVE  /\ out' \in Reports
           /\ out'.by \in {NoProc} \cup Listening
           /\ out'.hs = "skip" <=> (server = NoServerArg \/ client \notin TlsClients)
           /\ \E written \in Redirected(Tested) :
                  /\ LeavesEvidence(written)
                  /\ out'.hs = "ok" => "hs" \in written
<1>1. PICK written \in Redirected(Tested) :
          Report(written) /\ LeavesEvidence(written)
    BY DEF RunnerReturns
<1>2. Listening \subseteq ProcIds
    BY DEF Listening
<1>3. CASE server = NoServerArg \/ client \notin TlsClients
    <2>1. out' = NoReport
        BY <1>1, <1>3 DEF Report, Tested
    <2> QED
        BY <1>1, <1>3, <2>1 DEF NoReport, Reports, Statuses
<1>4. CASE ~(server = NoServerArg \/ client \notin TlsClients)
    <2>1. Tested # {"off"}
        BY <1>4 DEF Tested, EvFiles
    <2>2. CASE "hs" \notin written
        <3>1. out' = [hs |-> "fail", by |-> NoProc]
            BY <1>1, <2>1, <2>2 DEF Report, FailWithoutOutput
        <3> QED
            BY <1>1, <1>4, <3>1 DEF Reports, Statuses
    <2>3. CASE "hs" \in written
        <3>1. PICK hs \in {"ok", "fail"}, by \in Reached :
                  out' = [hs |-> hs, by |-> by]
            BY <1>1, <1>4, <2>1, <2>3 DEF Report, HandshakeOutcomes
        <3> QED
            BY <1>1, <1>2, <1>4, <2>3, <3>1 DEF Reports, Statuses, Reached
    <2> QED
        BY <2>2, <2>3
<1> QED
    BY <1>3, <1>4

\* The tallies and bundles start with the types of TypeOK.
LEMMA AccountsTypeInit == Init => AccountsType
BY DEF Init, AccountsType, NoReport, Reports, Statuses

\* Every step keeps the types of the tallies and bundles.
LEMMA AccountsTypeStep ==
    Control /\ AccountsType /\ [Next]_vars => AccountsType'
<1> SUFFICES ASSUME Control, AccountsType, [Next]_vars PROVE AccountsType'
    OBVIOUS
<1> USE SubsetAssumption
    DEF Control, ControlOK, LoopsOK, AtHead, AtClient, AtTail, Pairs, loop,
        handle, tally, servers, files, published, AccountsType, Reports,
        NoReport, Statuses, Cell
<1>1. CASE Start
    BY <1>1 DEF Start
<1>2. CASE Bundle
    BY <1>2 DEF Bundle, ResetServer
<1>3. CASE NoServer
    BY <1>3 DEF NoServer
<1>4. CASE SpawnServer
    BY <1>4 DEF SpawnServer
<1>5. CASE ProbeHit
    BY <1>5 DEF ProbeHit
<1>6. CASE ProbeTimeout
    BY <1>6 DEF ProbeTimeout
<1>7. CASE CollectCell
    BY <1>7 DEF CollectCell, NextRunner
<1>8. CASE NoServerToStop
    BY <1>8 DEF NoServerToStop, NextChain
<1>9. CASE StopServer
    BY <1>9 DEF StopServer
<1>10. CASE Reaped
    BY <1>10 DEF Reaped, NextChain
<1>11. CASE WaitTimesOut
    BY <1>11 DEF WaitTimesOut, Die
<1>12. CASE OpenResults
    BY <1>12 DEF OpenResults
<1>13. CASE WriteResults
    BY <1>13 DEF WriteResults
<1>14. CASE OpenMatrix
    BY <1>14 DEF OpenMatrix
<1>15. CASE WriteMatrix
    BY <1>15 DEF WriteMatrix
<1>16. CASE RunnerReturns
    BY <1>16, ReportFacts DEF RunnerReturns
<1>17. CASE RunnerFails
    BY <1>17 DEF RunnerFails, NextRunner
<1>18. CASE UnparsableOutput
    BY <1>18 DEF UnparsableOutput, Die
<1>19. CASE Abort
    BY <1>19 DEF Abort, Die
<1>20. CASE \E p \in ProcIds : Bind(p) \/ ServerDies(p)
    BY <1>20 DEF Bind, ServerDies
<1>21. CASE UNCHANGED vars
    BY <1>21 DEF vars
<1> QED
    BY <1>1, <1>2, <1>3, <1>4, <1>5, <1>6, <1>7, <1>8, <1>9, <1>10, <1>11,
       <1>12, <1>13, <1>14, <1>15, <1>16, <1>17, <1>18, <1>19, <1>20, <1>21
       DEF Next, HarnessStep

\* At the first pair nothing has been surveyed.
LEMMA SurveyedAtStart == chain = 1 /\ client = 1 => Surveyed = {}
BY SizeAssumption DEF Surveyed, Pairs, Chains, Clients

\* The inner loop adds the pair it was at.
LEMMA SurveyedNextRunner ==
    ASSUME chain \in Chains, client \in Clients, chain' = chain,
           client' = client + 1
    PROVE  /\ Surveyed' = Surveyed \cup {<<chain, client>>}
           /\ <<chain, client>> \notin Surveyed
BY SizeAssumption DEF Surveyed, Pairs, Chains, Clients

\* The outer loop goes on when the inner one has passed every client.
LEMMA SurveyedNextChain ==
    ASSUME chain \in Chains, client = NClients + 1, chain' = chain + 1,
           client' = 1
    PROVE  Surveyed' = Surveyed
BY SizeAssumption DEF Surveyed, Pairs, Chains, Clients

\* Nothing is surveyed and nothing tallied at first.
LEMMA AccountsInit == Init => EveryPairAccounted
BY DEF Init, EveryPairAccounted, Surveying, Active

\* Each pair the loops pass gets one cell or one failure: harness.py:121-135.
LEMMA AccountsStep ==
    /\ Control /\ AccountsType /\ EveryPairAccounted
    /\ Control' /\ [Next]_vars
    => EveryPairAccounted'
<1> SUFFICES ASSUME Control, AccountsType, EveryPairAccounted, Control',
                    [Next]_vars
             PROVE  EveryPairAccounted'
    OBVIOUS
<1> DEFINE Here == <<chain, client>>
<1>1. ASSUME Surveying' => Surveying, cells' = cells, failures' = failures,
             Surveyed' = Surveyed
      PROVE  EveryPairAccounted'
    BY <1>1 DEF EveryPairAccounted, PairsOf, PairOf
<1>2. ASSUME pc = "collect", CollectCell
      PROVE  EveryPairAccounted'
    <2>1. /\ Surveyed' = Surveyed \cup {Here}
          /\ Here \notin Surveyed
        BY <1>2, SurveyedNextRunner
           DEF CollectCell, NextRunner, Control, LoopsOK, AtClient
    <2>2. /\ PairsOf(cells) \cap failures = {}
          /\ PairsOf(cells) \cup failures = Surveyed
          /\ \A c, d \in cells : PairOf(c) = PairOf(d) => c = d
        BY <1>2 DEF EveryPairAccounted, Surveying, Active
    <2> DEFINE c0 == [chain |-> chain, client |-> client, hs |-> out.hs,
                      by |-> out.by]
    <2>3. cells' = cells \cup {c0} /\ failures' = failures /\ PairOf(c0) = Here
        BY <1>2 DEF CollectCell, PairOf
    <2>4. PairsOf(cells') = PairsOf(cells) \cup {Here}
        BY <2>3 DEF PairsOf
    <2>5. \A c \in cells : PairOf(c) # Here
        BY <2>1, <2>2 DEF PairsOf
    <2>6. \A c, d \in cells' : PairOf(c) = PairOf(d) => c = d
        BY <2>2, <2>3, <2>5
    <2> HIDE DEF c0
    <2> QED
        BY <2>1, <2>2, <2>3, <2>4, <2>6 DEF EveryPairAccounted, PairsOf, PairOf
<1>3. ASSUME pc = "runner", RunnerFails
      PROVE  EveryPairAccounted'
    <2>1. /\ Surveyed' = Surveyed \cup {Here}
          /\ Here \notin Surveyed
        BY <1>3, SurveyedNextRunner
           DEF RunnerFails, NextRunner, Control, LoopsOK, AtClient
    <2>2. cells' = cells /\ failures' = failures \cup {Here}
        BY <1>3 DEF RunnerFails
    <2> QED
        BY <1>3, <2>1, <2>2
           DEF EveryPairAccounted, PairsOf, PairOf, Surveying, Active
<1>4. CASE NoServerToStop \/ Reaped
    <2>1. Surveyed' = Surveyed
        BY <1>4, SurveyedNextChain
           DEF NoServerToStop, Reaped, NextChain, Control, LoopsOK, AtTail
    <2> QED
        BY <1>1, <1>4, <2>1
           DEF NoServerToStop, Reaped, tally, Surveying, Active
<1>5. CASE Start
    <2>1. Surveyed' = {}
        BY <1>5, SizeAssumption DEF Start, Surveyed, Pairs, Chains, Clients
    <2> QED
        BY <1>5, <2>1 DEF Start, EveryPairAccounted, PairsOf
<1>6. CASE WaitTimesOut \/ UnparsableOutput \/ Abort
    BY <1>6 DEF WaitTimesOut, UnparsableOutput, Abort, Die,
                EveryPairAccounted, Surveying, Active
<1>7. CASE \/ NoServer \/ SpawnServer \/ ProbeHit \/ ProbeTimeout
          \/ Bundle \/ RunnerReturns \/ StopServer
    <2>1. chain' = chain /\ client' = client /\ cells' = cells
          /\ failures' = failures /\ Surveying
        BY <1>7 DEF Bundle, NoServer, SpawnServer, ProbeHit, ProbeTimeout,
                    RunnerReturns, StopServer, loop, handle, tally, servers,
                    Surveying, Active
    <2> QED
        BY <1>1, <2>1 DEF Surveyed
<1>8. CASE OpenResults \/ WriteResults \/ OpenMatrix \/ WriteMatrix
    <2>1. chain' = chain /\ client' = client /\ cells' = cells
          /\ failures' = failures /\ Surveying
        BY <1>8 DEF OpenResults, WriteResults, OpenMatrix, WriteMatrix,
                    loop, handle, tally, servers, Surveying, Active
    <2> QED
        BY <1>1, <2>1 DEF Surveyed
<1>9. CASE UNCHANGED vars \/ \E p \in ProcIds : Bind(p) \/ ServerDies(p)
    <2>1. chain' = chain /\ client' = client /\ cells' = cells
          /\ failures' = failures /\ pc' = pc
        BY <1>9 DEF vars, Bind, ServerDies, loop, handle, tally, servers
    <2> QED
        BY <1>1, <2>1 DEF Surveyed, Surveying
<1> QED
    BY <1>2, <1>3, <1>4, <1>5, <1>6, <1>7, <1>8, <1>9
       DEF Next, HarnessStep, CollectCell, RunnerFails

-----------------------------------------------------------------------------
(* Whom a handshake was with. *)

OwnOrOrphan(by, c) ==
    by \in {NoProc, <<run, c>>} \/ (by \in orphans /\ by[1] < run)

ReportIsOwnOrOrphan == pc = "collect" => OwnOrOrphan(out.by, chain)

Peers == ForeignServerIsOrphan /\ ReportIsOwnOrOrphan

\* There are no cells and no report at first.
LEMMA PeersInit == Init => Peers
BY DEF Init, Peers, ForeignServerIsOrphan, ReportIsOwnOrOrphan

\* A runner's report names the server of this chain, nobody, or an orphan.
LEMMA ReportFromReached ==
    ASSUME Control, Servers, RunnerReturns PROVE OwnOrOrphan(out'.by, chain)
<1>1. out'.by = NoProc \/ out'.by \in Listening
    BY ReportFacts
<1>2. proc \in {NoProc, <<run, chain>>} /\ Surveying
    BY DEF RunnerReturns, Control, HandleOK, Surveying, Active
<1>3. \A p \in Listening : p = proc \/ (p \in orphans /\ p[1] < run)
    BY <1>2 DEF Servers, AliveIsKnown, Alive, OrphansAreOld, Listening
<1> QED
    BY <1>1, <1>2, <1>3 DEF OwnOrOrphan

\* Every step keeps the server behind each cell and behind the pending report
\* this chain's own or an orphan.
LEMMA PeersStep ==
    Control /\ Servers /\ AccountsType /\ Peers /\ [Next]_vars => Peers'
<1> SUFFICES ASSUME Control, Servers, AccountsType, Peers, [Next]_vars
             PROVE  Peers'
    OBVIOUS
<1> USE DEF Peers, ForeignServerIsOrphan, ReportIsOwnOrOrphan, OwnOrOrphan,
        loop, handle, tally, servers
<1>1. CASE Start
    BY <1>1 DEF Start
<1>2. CASE Bundle
    BY <1>2 DEF Bundle, ResetServer
<1>3. CASE NoServer
    BY <1>3 DEF NoServer
<1>4. CASE SpawnServer
    BY <1>4 DEF SpawnServer
<1>5. CASE ProbeHit
    BY <1>5 DEF ProbeHit
<1>6. CASE ProbeTimeout
    BY <1>6 DEF ProbeTimeout
<1>7. CASE CollectCell
    BY <1>7 DEF CollectCell, NextRunner
<1>8. CASE NoServerToStop
    BY <1>8 DEF NoServerToStop, NextChain
<1>9. CASE StopServer
    BY <1>9 DEF StopServer
<1>10. CASE Reaped
    BY <1>10 DEF Reaped, NextChain
<1>11. CASE WaitTimesOut
    BY <1>11 DEF WaitTimesOut, Die
<1>12. CASE OpenResults
    BY <1>12 DEF OpenResults
<1>13. CASE WriteResults
    BY <1>13 DEF WriteResults
<1>14. CASE OpenMatrix
    BY <1>14 DEF OpenMatrix
<1>15. CASE WriteMatrix
    BY <1>15 DEF WriteMatrix
<1>16. CASE RunnerReturns
    BY <1>16, ReportFromReached DEF RunnerReturns
<1>17. CASE RunnerFails
    BY <1>17 DEF RunnerFails, NextRunner
<1>18. CASE UnparsableOutput
    BY <1>18 DEF UnparsableOutput, Die
<1>19. CASE Abort
    BY <1>19 DEF Abort, Die
<1>20. CASE \E p \in ProcIds : Bind(p) \/ ServerDies(p)
    BY <1>20 DEF Bind, ServerDies
<1>21. CASE UNCHANGED vars
    BY <1>21 DEF vars
<1> QED
    BY <1>1, <1>2, <1>3, <1>4, <1>5, <1>6, <1>7, <1>8, <1>9, <1>10, <1>11,
       <1>12, <1>13, <1>14, <1>15, <1>16, <1>17, <1>18, <1>19, <1>20, <1>21
       DEF Next, HarnessStep

-----------------------------------------------------------------------------
(* Why a handshake was skipped. *)

ChainTested(c) == c \in bundleKeys \ warned

\* The server argument tells the chains that are tested from the others.
ServerArgOK ==
    /\ pc \in {"serve", "probe"} => server = NoServerArg
    /\ pc = "probe" => chain \in bundleKeys
    /\ AtClient => (server # NoServerArg <=> ChainTested(chain))

ReportExplained ==
    pc = "collect" =>
        IF out.hs = "skip" THEN ~ChainTested(chain) \/ client \notin TlsClients
                           ELSE ChainTested(chain)

\* Bundles and warnings are made before the chain's first cell.
WarnedOK == Surveying => \A w \in warned : w <= chain /\ (AtHead => w < chain)

Skips == SkipIsExplained /\ ServerArgOK /\ ReportExplained /\ WarnedOK

\* There are no cells to explain at first.
LEMMA SkipsInit == Init => Skips
BY DEF Init, Skips, SkipIsExplained, ServerArgOK, ReportExplained, WarnedOK,
       AtClient, Surveying, Active

\* At the head of an iteration all cells are of earlier chains.
LEMMA CellsBeforeHead ==
    ASSUME Control, AccountsType, EveryPairAccounted, AtHead, NEW c \in cells
    PROVE  c.chain < chain
<1>1. PairOf(c) \in Surveyed
    BY DEF EveryPairAccounted, PairsOf, Surveying, AtHead, Active
<1> QED
    BY <1>1, SizeAssumption
       DEF Surveyed, PairOf, Control, LoopsOK, AtHead, AccountsType, Cell,
           Chains, Clients

\* Every step keeps a reason beside each skipped handshake.
LEMMA SkipsStep ==
    /\ Control /\ AccountsType /\ EveryPairAccounted /\ Skips
    /\ Control' /\ [Next]_vars
    => Skips'
<1> SUFFICES ASSUME Control, AccountsType, EveryPairAccounted, Skips,
                    Control', [Next]_vars
             PROVE  Skips'
    OBVIOUS
<1> USE CellsBeforeHead, SizeAssumption
    DEF Skips, SkipIsExplained, ServerArgOK, ReportExplained, WarnedOK,
        ChainTested, Control, ControlOK, LoopsOK, AccountsType, Cell, Surveying,
        Active, Resting, AtHead, AtClient, AtTail, AtWrites, Chains,
        ServerArgs, NoServerArg, loop, handle, tally, servers, files, published
<1>1. CASE Start
    BY <1>1 DEF Start
<1>2. CASE Bundle
    BY <1>2 DEF Bundle, ResetServer
<1>3. CASE NoServer
    BY <1>3 DEF NoServer
<1>4. CASE SpawnServer
    BY <1>4 DEF SpawnServer
<1>5. CASE ProbeHit
    BY <1>5 DEF ProbeHit
<1>6. CASE ProbeTimeout
    BY <1>6 DEF ProbeTimeout
<1>7. CASE CollectCell
    BY <1>7 DEF CollectCell, NextRunner
<1>8. CASE NoServerToStop
    BY <1>8 DEF NoServerToStop, NextChain
<1>9. CASE StopServer
    BY <1>9 DEF StopServer
<1>10. CASE Reaped
    BY <1>10 DEF Reaped, NextChain
<1>11. CASE WaitTimesOut
    BY <1>11 DEF WaitTimesOut, Die
<1>12. CASE OpenResults
    BY <1>12 DEF OpenResults
<1>13. CASE WriteResults
    BY <1>13 DEF WriteResults
<1>14. CASE OpenMatrix
    BY <1>14 DEF OpenMatrix
<1>15. CASE WriteMatrix
    BY <1>15 DEF WriteMatrix
<1>16. CASE RunnerReturns
    BY <1>16, ReportFacts DEF RunnerReturns
<1>17. CASE RunnerFails
    BY <1>17 DEF RunnerFails, NextRunner
<1>18. CASE UnparsableOutput
    BY <1>18 DEF UnparsableOutput, Die
<1>19. CASE Abort
    BY <1>19 DEF Abort, Die
<1>20. CASE \E p \in ProcIds : Bind(p) \/ ServerDies(p)
    BY <1>20 DEF Bind, ServerDies
<1>21. CASE UNCHANGED vars
    BY <1>21 DEF vars
<1> QED
    BY <1>1, <1>2, <1>3, <1>4, <1>5, <1>6, <1>7, <1>8, <1>9, <1>10, <1>11,
       <1>12, <1>13, <1>14, <1>15, <1>16, <1>17, <1>18, <1>19, <1>20, <1>21
       DEF Next, HarnessStep

-----------------------------------------------------------------------------
(* The evidence behind the cells. *)

EvidenceType ==
    /\ ev \in [Pairs -> Evidence]
    /\ missed \subseteq Pairs \X EvFiles

\* The published files, of which more below.
FilesType ==
    /\ results.run \in 0 .. run /\ results.whole \in BOOLEAN
    /\ results.data \subseteq Cell
    /\ matrix.run \in 0 .. run /\ matrix.whole \in BOOLEAN

OkHasEvidence ==
    pc = "collect" /\ out.hs = "ok" => ev[<<chain, client>>].hs = run

EvidenceInv ==
    EvidenceType /\ CellsHaveCleanEvidence /\ OksHaveEvidence /\ OkHasEvidence

\* There are no cells that need evidence at first.
LEMMA EvidenceInit == Init => EvidenceInv
BY SizeAssumption
   DEF Init, EvidenceInv, EvidenceType, Evidence, NoEvidence, EvFiles, WholeFile,
       CellsHaveCleanEvidence, OksHaveEvidence, OkHasEvidence

\* The pair the inner loop is at has no cell yet: what is written to its
\* evidence disturbs no cell.
LEMMA HereIsOpen ==
    ASSUME Control, AccountsType, EveryPairAccounted, AtClient
    PROVE  /\ <<chain, client>> \in Pairs
           /\ \A c \in cells :
                  PairOf(c) \in Pairs /\ PairOf(c) # <<chain, client>>
<1>1. <<chain, client>> \in Pairs /\ <<chain, client>> \notin Surveyed
    BY SizeAssumption
       DEF Control, LoopsOK, AtClient, Pairs, Surveyed, Chains, Clients
<1>2. \A c \in cells : PairOf(c) \in Surveyed
    BY DEF EveryPairAccounted, PairsOf, Surveying, AtClient, Active
<1> QED
    BY <1>1, <1>2 DEF Surveyed

\* What a runner leaves is in the directory of the pair the loop is at, and of
\* this run where it says it rewrote handshake.txt.
LEMMA LeavesFacts ==
    ASSUME EvidenceType, run \in 0 .. MaxRuns, <<chain, client>> \in Pairs,
           NEW written \in SUBSET EvFiles, LeavesEvidence(written)
    PROVE  /\ ev' \in [Pairs -> Evidence]
           /\ \A p \in Pairs \ {<<chain, client>>} : ev'[p] = ev[p]
           /\ ev'[<<chain, client>>].hs \in {ev[<<chain, client>>].hs, run}
           /\ "hs" \in written => ev'[<<chain, client>>].hs = run
<1> DEFINE Here == <<chain, client>>
<1>1. PICK raw \in SUBSET written :
          ev' = [ev EXCEPT ![Here] = Rewritten(@, written, raw)]
    BY DEF LeavesEvidence, Echoed
<1>2. Rewritten(ev[Here], written, raw) \in Evidence
    BY SizeAssumption DEF EvidenceType, Rewritten, Evidence
<1>3. /\ Rewritten(ev[Here], written, raw).hs \in {ev[Here].hs, run}
      /\ "hs" \in written => Rewritten(ev[Here], written, raw).hs = run
    BY DEF Rewritten
<1> QED
    BY <1>1, <1>2, <1>3 DEF EvidenceType

\* What run.sh rewrites is evidence.
LEMMA WrittenIsEvidence ==
    ASSUME NEW tests \in {{}, {"off"}, Tested}, NEW written \in Redirected(tests)
    PROVE  written \in SUBSET EvFiles
BY DEF Redirected, Tested, EvFiles

\* redact_tree changes which files of this pair name the path.
LEMMA RedactedFacts ==
    ASSUME EvidenceType, <<chain, client>> \in Pairs, NEW raw \in SUBSET EvFiles
    PROVE  /\ Redacted(raw) \in [Pairs -> Evidence]
           /\ \A p \in Pairs \ {<<chain, client>>} : Redacted(raw)[p] = ev[p]
           /\ Redacted(raw)[<<chain, client>>].hs = ev[<<chain, client>>].hs
           /\ Redacted(raw)[<<chain, client>>].raw = raw
BY DEF EvidenceType, Evidence, Redacted

\* What redact_tree passes over is among the files that named the path.
LEMMA UnreadFacts ==
    ASSUME EvidenceType, <<chain, client>> \in Pairs
    PROVE  /\ Unreadable \subseteq SUBSET EvFiles
           /\ SUBSET ev[<<chain, client>>].raw \subseteq SUBSET EvFiles
BY DEF EvidenceType, Evidence, Unreadable, MayRefuse

\* A step that writes only in the directory of the pair the loop is at, and
\* only with this run's number, keeps the evidence of the cells there are.
LEMMA OthersKept ==
    ASSUME Control, AccountsType, EveryPairAccounted, FilesType, EvidenceInv,
           AtClient, run' = run, cells' \subseteq cells, results' = results,
           ev' \in [Pairs -> Evidence],
           \A p \in Pairs \ {<<chain, client>>} : ev'[p] = ev[p],
           ev'[<<chain, client>>].hs \in {ev[<<chain, client>>].hs, run}
    PROVE  /\ OksHaveEvidence'
           /\ missed' = missed => CellsHaveCleanEvidence'
<1>1. \A c \in cells' : c \in cells /\ ev'[PairOf(c)] = ev[PairOf(c)]
    BY HereIsOpen
<1>2. \A c \in cells' : c.hs = "ok" => ev'[PairOf(c)].hs = run
    BY <1>1 DEF EvidenceInv, OksHaveEvidence
<1>3. ASSUME NEW c \in results.data, c.hs = "ok"
      PROVE  ev'[PairOf(c)].hs \in results.run .. run
    <2>1. PairOf(c) \in Pairs
        BY DEF FilesType, Cell, PairOf, Pairs
    <2>2. ev[PairOf(c)].hs \in results.run .. run
        BY <1>3 DEF EvidenceInv, OksHaveEvidence
    <2>3. ev'[PairOf(c)].hs \in {ev[PairOf(c)].hs, run}
        BY <2>1
    <2>4. run \in results.run .. run
        BY SizeAssumption DEF FilesType, Control, ControlOK
    <2> QED
        BY <2>2, <2>3, <2>4
<1>4. OksHaveEvidence'
    BY <1>2, <1>3 DEF OksHaveEvidence, PairOf
<1>5. ASSUME missed' = missed PROVE CellsHaveCleanEvidence'
    BY <1>1, <1>5 DEF EvidenceInv, CellsHaveCleanEvidence, PairOf
<1> QED
    BY <1>4, <1>5

\* Every step keeps the evidence behind each cell redacted, or passed over, and
\* the output of each ok of the run that reports it.
LEMMA EvidenceStep ==
    /\ Control /\ AccountsType /\ EveryPairAccounted /\ FilesType /\ EvidenceInv
    /\ [Next]_vars
    => EvidenceInv'
<1> SUFFICES ASSUME Control, AccountsType, EveryPairAccounted, FilesType,
                    EvidenceInv, [Next]_vars
             PROVE  EvidenceInv'
    OBVIOUS
<1> DEFINE Here == <<chain, client>>
<1>0. /\ run \in 0 .. MaxRuns
      /\ EvidenceType
      /\ results.run \in 0 .. run
    BY DEF Control, ControlOK, EvidenceInv, FilesType
<1>1. ASSUME ev' = ev, missed' = missed \/ missed' = {},
             run' = run, cells' = cells \/ cells' = {},
             missed' = missed \/ cells' = {},
             results' = results, pc' # "collect" \/ UNCHANGED <<pc, out, chain, client>>
      PROVE  EvidenceInv'
    BY <1>1
       DEF EvidenceInv, EvidenceType, CellsHaveCleanEvidence, OksHaveEvidence,
           OkHasEvidence, PairOf
<1>2. CASE Start
    <2>1. /\ ev' = ev /\ run' = run + 1 /\ cells' = {} /\ missed' = {}
          /\ results' = results /\ pc' = "bundle"
        BY <1>2 DEF Start, files, published
    <2>2. ASSUME NEW c \in results.data, c.hs = "ok"
          PROVE  ev[PairOf(c)].hs \in results.run .. run + 1
        <3>1. ev[PairOf(c)].hs \in results.run .. run
            BY <2>2 DEF EvidenceInv, OksHaveEvidence
        <3> QED
            BY <1>0, <3>1, SizeAssumption
    <2>3. OksHaveEvidence'
        BY <2>1, <2>2 DEF OksHaveEvidence, PairOf
    <2> QED
        BY <1>0, <2>1, <2>3
           DEF EvidenceInv, EvidenceType, CellsHaveCleanEvidence, OkHasEvidence
<1>3. CASE RunnerReturns
    <2>1. /\ pc = "runner" /\ AtClient /\ Here \in Pairs
          /\ cells' = cells /\ run' = run /\ results' = results
          /\ missed' = missed /\ chain' = chain /\ client' = client
        BY <1>3, HereIsOpen DEF RunnerReturns, AtClient, loop, published
    <2>2. PICK written \in Redirected(Tested) :
              LeavesEvidence(written) /\ (out'.hs = "ok" => "hs" \in written)
        BY <1>3, ReportFacts
    <2>3. written \in SUBSET EvFiles
        BY WrittenIsEvidence
    <2>4. /\ ev' \in [Pairs -> Evidence]
          /\ \A p \in Pairs \ {Here} : ev'[p] = ev[p]
          /\ ev'[Here].hs \in {ev[Here].hs, run}
          /\ "hs" \in written => ev'[Here].hs = run
        BY <1>0, <2>1, <2>2, <2>3, LeavesFacts
    <2>5. OksHaveEvidence' /\ CellsHaveCleanEvidence'
        BY <2>1, <2>4, OthersKept
    <2>6. OkHasEvidence'
        BY <2>1, <2>2, <2>4 DEF OkHasEvidence
    <2> QED
        BY <1>0, <2>1, <2>4, <2>5, <2>6 DEF EvidenceInv, EvidenceType
<1>4. CASE RunnerFails
    <2>1. /\ pc = "runner" /\ AtClient /\ Here \in Pairs
          /\ cells' = cells /\ run' = run /\ results' = results
          /\ missed' = missed /\ pc' # "collect"
        BY <1>4, HereIsOpen DEF RunnerFails, NextRunner, AtClient, published
    <2>2. PICK tests \in {{}, {"off"}, Tested} :
              \E w \in Redirected(tests) : LeavesEvidence(w)
        BY <1>4 DEF RunnerFails, LeavesPart
    <2> PICK written \in Redirected(tests) : LeavesEvidence(written)
        BY <2>2
    <2>3. written \in SUBSET EvFiles
        BY WrittenIsEvidence
    <2>4. /\ ev' \in [Pairs -> Evidence]
          /\ \A p \in Pairs \ {Here} : ev'[p] = ev[p]
          /\ ev'[Here].hs \in {ev[Here].hs, run}
        BY <1>0, <2>1, <2>2, <2>3, LeavesFacts
    <2>5. OksHaveEvidence' /\ CellsHaveCleanEvidence'
        BY <2>1, <2>4, OthersKept
    <2> QED
        BY <1>0, <2>1, <2>4, <2>5 DEF EvidenceInv, EvidenceType, OkHasEvidence
<1>5. CASE CollectCell
    <2>1. /\ pc = "collect" /\ AtClient /\ Here \in Pairs
          /\ run' = run /\ results' = results /\ pc' # "collect"
        BY <1>5, HereIsOpen DEF CollectCell, NextRunner, AtClient, published
    <2>2. \A c \in cells : PairOf(c) \in Pairs \ {Here}
        BY <2>1, HereIsOpen
    <2>3. PICK unread \in Unreadable :
              ev' = Redacted(unread) /\ missed' = missed \cup ({Here} \X unread)
        BY <1>5 DEF CollectCell
    <2>4. unread \in SUBSET EvFiles
        BY <1>0, <2>1, UnreadFacts
    <2>5. /\ ev' \in [Pairs -> Evidence]
          /\ \A p \in Pairs \ {Here} : ev'[p] = ev[p]
          /\ ev'[Here].hs = ev[Here].hs /\ ev'[Here].raw = unread
        BY <1>0, <2>1, <2>3, <2>4, RedactedFacts
    <2>6. missed' \subseteq Pairs \X EvFiles
        BY <1>0, <2>1, <2>3, <2>4 DEF EvidenceType
    <2>7. \A c \in cells' : c \in cells \/ (PairOf(c) = Here /\ c.hs = out.hs)
        BY <1>5 DEF CollectCell, PairOf
    <2>8. CellsHaveCleanEvidence'
        <3>1. ASSUME NEW c \in cells
              PROVE  {PairOf(c)} \X ev'[PairOf(c)].raw \subseteq missed'
            BY <2>2, <2>3, <2>5 DEF EvidenceInv, CellsHaveCleanEvidence
        <3>2. {Here} \X ev'[Here].raw \subseteq missed'
            BY <2>3, <2>5
        <3> QED
            BY <2>7, <3>1, <3>2 DEF CellsHaveCleanEvidence, PairOf
    <2>9. OksHaveEvidence'
        <3>1. \A c \in cells : c.hs = "ok" => ev'[PairOf(c)].hs = run
            BY <2>2, <2>5 DEF EvidenceInv, OksHaveEvidence
        <3>2. out.hs = "ok" => ev'[Here].hs = run
            BY <2>1, <2>5 DEF EvidenceInv, OkHasEvidence
        <3>3. \A c \in cells' : c.hs = "ok" => ev'[PairOf(c)].hs = run
            BY <2>7, <3>1, <3>2
        <3>4. ASSUME NEW c \in results.data, c.hs = "ok"
              PROVE  ev'[PairOf(c)].hs \in results.run .. run
            <4>1. PairOf(c) \in Pairs
                BY DEF FilesType, Cell, PairOf, Pairs
            <4>2. ev'[PairOf(c)].hs = ev[PairOf(c)].hs
                BY <2>5, <4>1
            <4> QED
                BY <3>4, <4>2 DEF EvidenceInv, OksHaveEvidence
        <3> QED
            BY <2>1, <3>3, <3>4 DEF OksHaveEvidence, PairOf
    <2> QED
        BY <2>1, <2>5, <2>6, <2>8, <2>9 DEF EvidenceInv, EvidenceType, OkHasEvidence
<1>6. ASSUME Die, published' = published, AtClient,
             ev' \in [Pairs -> Evidence],
             \A p \in Pairs \ {Here} : ev'[p] = ev[p],
             ev'[Here].hs \in {ev[Here].hs, run}
      PROVE  EvidenceInv'
    <2>1. /\ cells' = {} /\ missed' = {} /\ run' = run /\ pc' = "aborted"
          /\ results' = results
        BY <1>6 DEF Die, published
    <2>2. OksHaveEvidence'
        BY <1>6, <2>1, OthersKept
    <2> QED
        BY <1>6, <2>1, <2>2
           DEF EvidenceInv, EvidenceType, CellsHaveCleanEvidence, OkHasEvidence
<1>7. CASE UnparsableOutput
    <2>1. AtClient /\ Here \in Pairs /\ Die /\ published' = published
        BY <1>7, HereIsOpen DEF UnparsableOutput, AtClient
    <2>2. PICK unread \in Unreadable : ev' = Redacted(unread)
        BY <1>7 DEF UnparsableOutput
    <2>3. unread \in SUBSET EvFiles
        BY <1>0, <2>1, <2>2, UnreadFacts
    <2>4. /\ ev' \in [Pairs -> Evidence]
          /\ \A p \in Pairs \ {Here} : ev'[p] = ev[p]
          /\ ev'[Here].hs = ev[Here].hs
        BY <1>0, <2>1, <2>2, <2>3, RedactedFacts
    <2> QED
        BY <1>6, <2>1, <2>4
<1>8. CASE Abort /\ pc = "runner"
    <2>1. AtClient /\ Here \in Pairs /\ Die /\ published' = published
        BY <1>8, HereIsOpen DEF Abort, AtClient
    <2>2. PICK tests \in {{}, {"off"}, Tested} :
              \E w \in Redirected(tests) : LeavesEvidence(w)
        BY <1>8 DEF Abort, Interrupted, LeavesPart
    <2> PICK written \in Redirected(tests) : LeavesEvidence(written)
        BY <2>2
    <2>3. written \in SUBSET EvFiles
        BY WrittenIsEvidence
    <2>4. /\ ev' \in [Pairs -> Evidence]
          /\ \A p \in Pairs \ {Here} : ev'[p] = ev[p]
          /\ ev'[Here].hs \in {ev[Here].hs, run}
        BY <1>0, <2>1, <2>2, <2>3, LeavesFacts
    <2> QED
        BY <1>6, <2>1, <2>4
<1>9. CASE Abort /\ pc = "collect"
    <2>1. AtClient /\ Here \in Pairs /\ Die /\ published' = published
        BY <1>9, HereIsOpen DEF Abort, AtClient
    <2>2. PICK raw \in SUBSET ev[Here].raw : ev' = Redacted(raw)
        BY <1>9 DEF Abort, Interrupted
    <2>3. raw \in SUBSET EvFiles
        BY <1>0, <2>1, <2>2, UnreadFacts
    <2>4. /\ ev' \in [Pairs -> Evidence]
          /\ \A p \in Pairs \ {Here} : ev'[p] = ev[p]
          /\ ev'[Here].hs = ev[Here].hs
        BY <1>0, <2>1, <2>2, <2>3, RedactedFacts
    <2> QED
        BY <1>6, <2>1, <2>4
<1>10. CASE (Abort /\ pc \notin {"runner", "collect"}) \/ WaitTimesOut
    BY <1>1, <1>10 DEF Abort, Interrupted, WaitTimesOut, Die, files, published
<1>11. CASE OpenResults
    <2>1. /\ ev' = ev /\ cells' = cells /\ missed' = missed /\ run' = run
          /\ results'.data = {} /\ pc' # "collect"
        BY <1>11 DEF OpenResults, TornFile, loop, tally
    <2> QED
        BY <2>1
           DEF EvidenceInv, EvidenceType, CellsHaveCleanEvidence,
               OksHaveEvidence, OkHasEvidence, PairOf
<1>12. CASE WriteResults
    <2>1. /\ ev' = ev /\ cells' = cells /\ missed' = missed /\ run' = run
          /\ results'.data = cells /\ results'.run = run /\ pc' # "collect"
        BY <1>12 DEF WriteResults, WholeFile, loop, tally
    <2>2. run \in run .. run
        BY <1>0, SizeAssumption
    <2>3. OksHaveEvidence'
        BY <2>1, <2>2 DEF EvidenceInv, OksHaveEvidence, PairOf
    <2> QED
        BY <2>1, <2>3
           DEF EvidenceInv, EvidenceType, CellsHaveCleanEvidence, OkHasEvidence,
               PairOf
<1>13. CASE \/ Bundle \/ NoServer \/ SpawnServer \/ ProbeHit \/ ProbeTimeout
            \/ NoServerToStop \/ StopServer \/ Reaped
    BY <1>1, <1>13
       DEF Bundle, NoServer, SpawnServer, ProbeHit, ProbeTimeout,
           NoServerToStop, StopServer, Reaped, NextChain, loop, handle, tally,
           servers, files, published
<1>14. CASE OpenMatrix \/ WriteMatrix
    BY <1>1, <1>14 DEF OpenMatrix, WriteMatrix, loop, tally
<1>15. CASE UNCHANGED vars \/ \E p \in ProcIds : Bind(p) \/ ServerDies(p)
    BY <1>1, <1>15 DEF vars, Bind, ServerDies, loop, handle, tally, files, published
<1> QED
    BY <1>2, <1>3, <1>4, <1>5, <1>7, <1>8, <1>9, <1>10, <1>11, <1>12, <1>13,
       <1>14, <1>15
       DEF Next, HarnessStep

-----------------------------------------------------------------------------
(* The two published files. *)

\* main() rewrites nothing before its loops are over.
FilesOfThisRun ==
    /\ Surveying /\ pc \notin {"json", "openmatrix", "matrix", "done"} =>
           results.run < run
    /\ pc \in {"json", "openmatrix"} => matrix.run < run
    /\ pc = "json" => results = TornFile(run)
    /\ pc \in {"openmatrix", "matrix", "done"} =>
           results = WholeFile(run, cells)

Files == FilesType /\ FilesOfThisRun /\ MatrixFollowsResults

\* The two files of the checkout agree.
LEMMA FilesInit == Init => Files
BY SizeAssumption
   DEF Init, Files, FilesType, FilesOfThisRun, MatrixFollowsResults,
       WholeFile, Surveying, Active

\* Every step keeps the matrix behind the results.
LEMMA FilesStep ==
    /\ Control /\ AccountsType /\ Files /\ [Next]_vars
    => Files'
<1> SUFFICES ASSUME Control, AccountsType, Files, [Next]_vars PROVE Files'
    OBVIOUS
<1> USE SizeAssumption
    DEF Files, FilesType, FilesOfThisRun, MatrixFollowsResults, TornFile,
        WholeFile, AccountsType, Control, ControlOK, LoopsOK, AtWrites,
        Surveying, Active, Resting, Runs, loop, handle, tally, servers,
        files, published
<1>1. CASE Start
    BY <1>1 DEF Start
<1>2. CASE Bundle
    BY <1>2 DEF Bundle, ResetServer
<1>3. CASE NoServer
    BY <1>3 DEF NoServer
<1>4. CASE SpawnServer
    BY <1>4 DEF SpawnServer
<1>5. CASE ProbeHit
    BY <1>5 DEF ProbeHit
<1>6. CASE ProbeTimeout
    BY <1>6 DEF ProbeTimeout
<1>7. CASE CollectCell
    BY <1>7 DEF CollectCell, NextRunner
<1>8. CASE NoServerToStop
    BY <1>8 DEF NoServerToStop, NextChain
<1>9. CASE StopServer
    BY <1>9 DEF StopServer
<1>10. CASE Reaped
    BY <1>10 DEF Reaped, NextChain
<1>11. CASE WaitTimesOut
    BY <1>11 DEF WaitTimesOut, Die
<1>12. CASE OpenResults
    BY <1>12 DEF OpenResults
<1>13. CASE WriteResults
    BY <1>13 DEF WriteResults
<1>14. CASE OpenMatrix
    BY <1>14 DEF OpenMatrix
<1>15. CASE WriteMatrix
    BY <1>15 DEF WriteMatrix
<1>16. CASE RunnerReturns
    BY <1>16 DEF RunnerReturns
<1>17. CASE RunnerFails
    BY <1>17 DEF RunnerFails, NextRunner
<1>18. CASE UnparsableOutput
    BY <1>18 DEF UnparsableOutput, Die
<1>19. CASE Abort
    BY <1>19 DEF Abort, Die
<1>20. CASE \E p \in ProcIds : Bind(p) \/ ServerDies(p)
    BY <1>20 DEF Bind, ServerDies
<1>21. CASE UNCHANGED vars
    BY <1>21 DEF vars
<1> QED
    BY <1>1, <1>2, <1>3, <1>4, <1>5, <1>6, <1>7, <1>8, <1>9, <1>10, <1>11,
       <1>12, <1>13, <1>14, <1>15, <1>16, <1>17, <1>18, <1>19, <1>20, <1>21
       DEF Next, HarnessStep

-----------------------------------------------------------------------------
(* Progress: what there is to HangsOnlyInRunner without fairness. *)

\* The steps of main() that may still come for a client, or after the clients.
StepsLeft ==
    [bundle |-> 11, serve |-> 10, probe |-> 9, runner |-> 8, collect |-> 7,
     stop |-> 6, wait |-> 5, openjson |-> 4, json |-> 3, openmatrix |-> 2,
     matrix |-> 1]

\* The run is over, or on a later chain, or on a later client of this one, or
\* nearer to its next.
Advances ==
    \/ pc' \in Resting
    \/ chain' > chain
    \/ chain' = chain /\ client' > client
    \/ chain' = chain /\ client' = client /\ StepsLeft[pc'] < StepsLeft[pc]

Progress ==
    /\ \/ HarnessStep \/ RunnerReturns \/ RunnerFails
       \/ UnparsableOutput \/ Abort => Advances
    /\ pc \in Active => Advances \/ UNCHANGED <<pc, chain, client>>

\* No step of the harness leaves it where it was or takes it back.
LEMMA ProgressStep == Control /\ [Next]_vars => Progress
<1> SUFFICES ASSUME Control, [Next]_vars PROVE Progress
    OBVIOUS
<1>1. /\ chain \in Nat /\ chain + 1 > chain
      /\ client \in Nat /\ client + 1 > client
    BY SizeAssumption DEF Control, ControlOK
<1>2. CASE \/ NoServerToStop \/ Reaped
    BY <1>1, <1>2 DEF NoServerToStop, Reaped, NextChain, Advances, Progress
<1>3. CASE \/ CollectCell \/ RunnerFails
    BY <1>1, <1>3 DEF CollectCell, RunnerFails, NextRunner, Advances, Progress
<1>4. CASE \/ Bundle \/ NoServer \/ SpawnServer \/ ProbeHit \/ ProbeTimeout
           \/ RunnerReturns \/ StopServer
    <2>1. chain' = chain /\ client' = client
        BY <1>4
           DEF Bundle, NoServer, SpawnServer, ProbeHit, ProbeTimeout, RunnerReturns,
               StopServer, loop
    <2>2. \/ pc = "bundle" /\ pc' = "serve"
          \/ pc = "serve" /\ pc' \in {"runner", "probe"}
          \/ pc = "probe" /\ pc' = "runner"
          \/ pc = "runner" /\ pc' = "collect"
          \/ pc = "stop" /\ pc' = "wait"
        BY <1>4
           DEF Bundle, NoServer, SpawnServer, ProbeHit, ProbeTimeout, RunnerReturns,
               StopServer
    <2> QED
        BY <1>1, <2>1, <2>2 DEF Advances, Progress, StepsLeft
<1>5. CASE OpenResults \/ WriteResults \/ OpenMatrix
    BY <1>1, <1>5
       DEF OpenResults, WriteResults, OpenMatrix, loop, Advances, Progress, StepsLeft
<1>6. CASE WriteMatrix \/ UnparsableOutput \/ WaitTimesOut \/ Abort
    BY <1>6
       DEF WriteMatrix, UnparsableOutput, WaitTimesOut, Abort, Die, Resting, Advances,
           Progress
<1>7. CASE /\ ~(\/ HarnessStep \/ RunnerReturns \/ RunnerFails
                \/ UnparsableOutput \/ Abort)
           /\ \/ Start
              \/ \E p \in ProcIds : Bind(p) \/ ServerDies(p)
              \/ UNCHANGED vars
    BY <1>7 DEF Start, Resting, Active, Bind, ServerDies, vars, loop, Progress
<1> QED
    BY <1>2, <1>3, <1>4, <1>5, <1>6, <1>7 DEF Next, HarnessStep

-----------------------------------------------------------------------------
(* The inductive invariant, and the properties it implies. *)

IInv ==
    /\ Control
    /\ Servers
    /\ AccountsType /\ EveryPairAccounted
    /\ Peers
    /\ Skips
    /\ EvidenceInv
    /\ Files

\* The layers hold at first.
LEMMA IInvInit == Init => IInv
BY ControlInit, ServersInit, AccountsTypeInit, AccountsInit, PeersInit,
   SkipsInit, EvidenceInit, FilesInit DEF IInv

\* Each layer is preserved, given those before it.
LEMMA IInvStep == IInv /\ [Next]_vars => IInv'
BY ControlStep, ServersStep, AccountsTypeStep, AccountsStep, PeersStep,
   SkipsStep, EvidenceStep, FilesStep DEF IInv, Files

\* IInv holds in every reachable state of the harness.
THEOREM Invariance == Spec => []IInv
BY IInvInit, IInvStep, PTL DEF Spec

\* Every variable of the harness keeps its type, for any number of chains,
\* clients and runs.
THEOREM TypeCorrect == Spec => []TypeOK
<1>1. IInv => TypeOK
    BY DEF IInv, TypeOK, Control, ControlOK, Servers, ServersType,
           AccountsType, EvidenceInv, EvidenceType, Files, FilesType
<1> QED
    BY <1>1, Invariance, PTL

\* A handshake is with the server the run started for the chain, with nobody,
\* or with a server that an earlier run abandoned (harness.py:103-115, 137-139).
THEOREM PeersAreOwnOrOrphans == Spec => []ForeignServerIsOrphan
<1>1. IInv => ForeignServerIsOrphan
    BY DEF IInv, Peers
<1> QED
    BY <1>1, Invariance, PTL

\* No server this run started can accept connections once its chain is over.
THEOREM ServersEndWithTheirChain == Spec => []OneServerPerChain
<1>1. IInv => OneServerPerChain
    BY DEF IInv, Servers, AliveIsKnown, Alive, OrphansAreOld,
           OneServerPerChain, Listening
<1> QED
    BY <1>1, Invariance, PTL

\* The nested loops lose no pair and count none twice (harness.py:97-135).
THEOREM PairsAreAccounted == Spec => []EveryPairAccounted
<1>1. IInv => EveryPairAccounted
    BY DEF IInv
<1> QED
    BY <1>1, Invariance, PTL

\* A skipped handshake has a reason the run knows (harness.py:100-115).
THEOREM SkipsAreExplained == Spec => []SkipIsExplained
<1>1. IInv => SkipIsExplained
    BY DEF IInv, Skips
<1> QED
    BY <1>1, Invariance, PTL

\* Evidence behind a cell that still names the path is a file redact_tree could
\* not read (harness.py:76-79), whatever was left in the directory before.
THEOREM CollectedEvidenceIsClean == Spec => []CellsHaveCleanEvidence
<1>1. IInv => CellsHaveCleanEvidence
    BY DEF IInv, EvidenceInv
<1> QED
    BY <1>1, Invariance, PTL

\* An ok has its own handshake.txt, in this run and once it is published, until
\* a later run writes over it (harness.py:121-141).
THEOREM OksAreEvidenced == Spec => []OksHaveEvidence
<1>1. IInv => OksHaveEvidence
    BY DEF IInv, EvidenceInv
<1> QED
    BY <1>1, Invariance, PTL

\* A crash between or during the two writes leaves a matrix that is older than
\* the results, never one of other results (harness.py:141-142).
THEOREM MatrixIsNeverAhead == Spec => []MatrixFollowsResults
<1>1. IInv => MatrixFollowsResults
    BY DEF IInv, Files
<1> QED
    BY <1>1, Invariance, PTL
-----------------------------------------------------------------------------
(* The harness implements the survey. *)

\* Before its first survey the harness has settled and published nothing.
LEMMA SurveyInit == Init => S!Init
<1> SUFFICES ASSUME Init PROVE S!Init
    OBVIOUS
<1>1. [p \in Pairs |-> Verdict(p)] = S!AllTodo
    BY DEF Init, Verdict, PairsOf, S!AllTodo
<1>2. PublishedPairs = S!Whole({}) /\ MarkedPairs = S!Whole({})
    BY DEF Init, PublishedPairs, MarkedPairs, WholeFile, MatrixOf, PairsOf,
           S!Whole
<1> QED
    BY <1>1, <1>2 DEF S!Init, Init, Active

\* The matrix of the cells has a mark exactly where there is a cell.
LEMMA MarksOfCells ==
    ASSUME AccountsType
    PROVE  {p \in DOMAIN MatrixOf(cells) : MatrixOf(cells)[p] # "n/a"}
               = PairsOf(cells)
<1> DEFINE D == Chains \X {c.client : c \in cells}
<1>1. /\ DOMAIN MatrixOf(cells) = D
      /\ \A p \in D : MatrixOf(cells)[p] = MarkOf(cells, p)
    BY DEF MatrixOf
<1>2. PairsOf(cells) \subseteq D
    BY DEF PairsOf, PairOf, AccountsType, Cell
<1>3. ASSUME NEW p \in PairsOf(cells) PROVE MarkOf(cells, p) # "n/a"
    <2>1. (CHOOSE c \in cells : PairOf(c) = p) \in cells
        BY DEF PairsOf
    <2> QED
        BY <2>1 DEF MarkOf, AccountsType, Cell, Statuses
<1>4. ASSUME NEW p, p \notin PairsOf(cells) PROVE MarkOf(cells, p) = "n/a"
    BY <1>4 DEF MarkOf
<1> QED
    BY <1>1, <1>2, <1>3, <1>4

\* Once the loops are over every pair is settled.
LEMMA SettledAtWrites ==
    ASSUME Control, AccountsType, EveryPairAccounted, AtWrites
    PROVE  /\ S!Settled
           /\ S!CellPairs = PairsOf(cells)
<1>1. Surveyed = Pairs
    BY SizeAssumption
       DEF Control, LoopsOK, AtWrites, Surveyed, Pairs, Chains, Clients
<1>2. PairsOf(cells) \cup failures = Pairs
    BY <1>1 DEF EveryPairAccounted, Surveying, AtWrites, Active
<1> QED
    BY <1>2 DEF S!Settled, S!CellPairs, Verdict

\* Every step of the harness is a step of the survey or changes nothing in it.
LEMMA SurveyStep == IInv /\ [Next]_vars => [S!Next]_S!vars
<1> SUFFICES ASSUME IInv, [Next]_vars PROVE [S!Next]_S!vars
    OBVIOUS
<1> USE DEF IInv
<1> DEFINE Here == <<chain, client>>
           V == [p \in Pairs |-> Verdict(p)]
<1>1. ASSUME pc' \in Active <=> pc \in Active, cells' = cells,
             failures' = failures, results' = results, matrix' = matrix
      PROVE  UNCHANGED S!vars
    BY <1>1 DEF S!vars, Verdict, PublishedPairs, MarkedPairs, PairsOf, PairOf
<1>2. CASE Start
    <2>1. V' = S!AllTodo
        BY <1>2 DEF Start, Verdict, PairsOf, S!AllTodo
    <2>2. UNCHANGED <<PublishedPairs, MarkedPairs>>
        BY <1>2
           DEF Start, files, published, PublishedPairs, MarkedPairs, PairsOf,
               PairOf
    <2>3. pc \notin Active /\ pc' \in Active
        BY <1>2 DEF Start, Resting, Active
    <2> QED
        BY <2>1, <2>2, <2>3 DEF S!Next, S!Begin
<1>3. CASE CollectCell \/ RunnerFails
    <2>1. Here \in Pairs /\ Here \notin PairsOf(cells) /\ Here \notin failures
        BY <1>3, SizeAssumption
           DEF CollectCell, RunnerFails, EveryPairAccounted, Surveying, Active,
               Surveyed, Pairs, Control, LoopsOK, AtClient, Chains, Clients
    <2>2. \/ /\ PairsOf(cells') = PairsOf(cells) \cup {Here}
             /\ failures' = failures
          \/ cells' = cells /\ failures' = failures \cup {Here}
        <3>1. CASE CollectCell
            <4> DEFINE c0 == [chain |-> chain, client |-> client,
                              hs |-> out.hs, by |-> out.by]
            <4>1. cells' = cells \cup {c0} /\ PairOf(c0) = Here
                BY <3>1 DEF CollectCell, PairOf
            <4> HIDE DEF c0
            <4> QED
                BY <3>1, <4>1 DEF CollectCell, PairsOf
        <3>2. CASE RunnerFails
            BY <3>2 DEF RunnerFails
        <3> QED
            BY <1>3, <3>1, <3>2
    <2>3. \E v \in {"cell", "failed"} : V' = [V EXCEPT ![Here] = v]
        BY <2>1, <2>2 DEF Verdict, PairsOf, PairOf
    <2>4. UNCHANGED <<PublishedPairs, MarkedPairs>>
        BY <1>3 DEF CollectCell, RunnerFails, published, PublishedPairs,
                    MarkedPairs, PairsOf, PairOf
    <2>5. pc \in Active /\ pc' \in Active
        BY <1>3 DEF CollectCell, RunnerFails, NextRunner, Active
    <2>6. V[Here] = "todo"
        BY <2>1 DEF Verdict
    <2> QED
        BY <2>1, <2>3, <2>4, <2>5, <2>6 DEF S!Next, S!Settle
<1>4. CASE WaitTimesOut \/ UnparsableOutput \/ Abort
    <2>1. pc \in Active /\ pc' \notin Active
        BY <1>4 DEF WaitTimesOut, UnparsableOutput, Abort, Die, Active
    <2>2. V' = S!AllTodo
        BY <1>4 DEF WaitTimesOut, UnparsableOutput, Abort, Die, Verdict,
                    PairsOf, S!AllTodo
    <2>3. UNCHANGED <<PublishedPairs, MarkedPairs>>
        BY <1>4
           DEF WaitTimesOut, UnparsableOutput, Abort, Die, files, published,
               PublishedPairs, MarkedPairs, PairsOf, PairOf
    <2> QED
        BY <2>1, <2>2, <2>3 DEF S!Next, S!Abandon
<1>5. CASE OpenResults \/ WriteResults
    <2>1. S!Settled /\ S!CellPairs = PairsOf(cells)
        BY <1>5, SettledAtWrites DEF OpenResults, WriteResults, AtWrites
    <2>2. UNCHANGED <<V, MarkedPairs>>
        BY <1>5
           DEF OpenResults, WriteResults, loop, handle, tally, servers,
               MarkedPairs, Verdict, PairsOf, PairOf
    <2>3. pc \in Active /\ pc' \in Active
        BY <1>5 DEF OpenResults, WriteResults, Active
    <2>4. PublishedPairs' \in {S!Torn, S!Whole(PairsOf(cells))}
        <3>1. \/ results'.whole = FALSE /\ results'.data = {}
              \/ results'.whole = TRUE /\ results'.data = cells
            BY <1>5 DEF OpenResults, WriteResults, TornFile, WholeFile
        <3> QED
            BY <3>1 DEF PublishedPairs, PairsOf, PairOf, S!Torn, S!Whole
    <2> QED
        BY <2>1, <2>2, <2>3, <2>4 DEF S!Next, S!RewriteResults
<1>6. CASE OpenMatrix \/ WriteMatrix
    <2>1. S!Settled /\ S!CellPairs = PairsOf(cells)
        BY <1>6, SettledAtWrites DEF OpenMatrix, WriteMatrix, AtWrites
    <2>2. UNCHANGED <<V, PublishedPairs>>
        BY <1>6
           DEF OpenMatrix, WriteMatrix, loop, handle, tally, servers,
               PublishedPairs, Verdict, PairsOf, PairOf
    <2>3. PublishedPairs = S!Whole(PairsOf(cells))
        <3>1. results.whole = TRUE /\ results.data = cells
            BY <1>6
               DEF OpenMatrix, WriteMatrix, Files, FilesOfThisRun, WholeFile
        <3> QED
            BY <3>1 DEF PublishedPairs, PairsOf, PairOf, S!Whole
    <2>4. pc \in Active
        BY <1>6 DEF OpenMatrix, WriteMatrix, Active
    <2>5. CASE OpenMatrix
        <3>1. MarkedPairs' = S!Torn /\ pc' \in Active
            BY <2>5 DEF OpenMatrix, TornFile, MarkedPairs, S!Torn, Active
        <3> QED
            BY <2>1, <2>2, <2>3, <2>4, <3>1 DEF S!Next, S!RewriteMatrix
    <2>6. CASE WriteMatrix
        <3>1. MarkedPairs' = S!Whole(PairsOf(cells)) /\ pc' \notin Active
            BY <2>6, MarksOfCells
               DEF WriteMatrix, WholeFile, MarkedPairs, S!Whole, Active
        <3>2. S!Whole(PairsOf(cells)) # S!Torn
            BY DEF S!Whole, S!Torn
        <3> QED
            BY <2>1, <2>2, <2>3, <2>4, <3>1, <3>2 DEF S!Next, S!RewriteMatrix
    <2> QED
        BY <1>6, <2>5, <2>6
<1>7. CASE \/ Bundle \/ NoServer \/ SpawnServer \/ ProbeHit \/ ProbeTimeout
          \/ RunnerReturns \/ NoServerToStop \/ StopServer \/ Reaped
    BY <1>1, <1>7
       DEF Bundle, NoServer, SpawnServer, ProbeHit, ProbeTimeout,
           RunnerReturns, NoServerToStop, StopServer, Reaped, NextChain,
           Active, loop, handle, tally, servers, files, published
<1>8. CASE UNCHANGED vars \/ \E p \in ProcIds : Bind(p) \/ ServerDies(p)
    BY <1>1, <1>8
       DEF vars, Bind, ServerDies, loop, handle, tally, servers, files,
           published
<1> QED
    BY <1>2, <1>3, <1>4, <1>5, <1>6, <1>7, <1>8 DEF Next, HarnessStep

\* Seen without servers, ports and processes, a run of the harness settles each
\* pair once and publishes only complete surveys, the matrix after the results.
THEOREM HarnessIsASurvey == Spec => ImplementsSurvey
BY SurveyInit, SurveyStep, Invariance, PTL
   DEF Spec, ImplementsSurvey, S!Spec

\* Every step of the harness and of a runner, an abort included, ends the run or
\* brings it nearer to its end, and no server sets it back. What
\* HangsOnlyInRunner needs beyond this is that a harness which can take a step
\* takes one.
THEOREM RunsAdvance == Spec => [][Progress]_vars
<1>1. IInv /\ [Next]_vars => Progress
    BY ProgressStep DEF IInv
<1> QED
    BY <1>1, Invariance, PTL DEF Spec
=============================================================================
