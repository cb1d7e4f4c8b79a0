-------------------------- MODULE TransportProofs ---------------------------
(***************************************************************************)
(* What is proved of the capture sweep for every number of rows and runs   *)
(* and every choice of rows with a key: whatever the server, the client    *)
(* and dumpcap do, and wherever a run ends early.                          *)
(***************************************************************************)
EXTENDS Transport, TLAPS

\* There is a first row, and NRows + 1 is past the last.
LEMMA RowFacts ==
    /\ NRows \in Nat /\ NRows >= 1
    /\ Keyed \subseteq Rows
    /\ \A c \in Keyed : c \in Nat /\ 1 <= c /\ c <= NRows
BY TransportAssumption DEF Rows

\* Process ids are pairs of a run and a row, and NoProc is none of them.
LEMMA ProcIdFacts ==
    /\ NoProc \notin ProcIds
    /\ \A p \in ProcIds : p = <<p[1], p[2]>> /\ p[1] \in Runs /\ p[2] \in Rows
    /\ \A r \in Runs, c \in Rows : <<r, c>> \in ProcIds /\ <<r, c>>[1] = r
BY TransportAssumption DEF ProcIds, NoProc, Runs, Rows

\* The states of capture_one after it has removed old files, and all of it.
Inside == {"spawn", "check"} \cup Trying \cup Finally
InRow == Inside \cup {"unlink"}

-----------------------------------------------------------------------------
(* Where the script is: the row of a capture has a key, and the loop of     *)
(* main() is over exactly when the rows are.                                *)

PlacesType ==
    /\ pc \in Resting \cup Active
    /\ run \in 0 .. MaxRuns /\ row \in 1 .. NRows + 1

Loop ==
    /\ pc \in Active => run \in Runs
    /\ pc = "row" => row \in Rows
    /\ pc \in InRow => row \in Keyed
    /\ pc \in {"write", "fill", "done"} => row = NRows + 1

Places == PlacesType /\ Loop

\* The script is at rest before the first run.
LEMMA PlacesInit == Init => Places
BY TransportAssumption, RowFacts
   DEF Init, Places, PlacesType, Loop, Resting, Active, InRow, Inside, Trying,
       Finally

\* Every step leaves the loop in range for where the script is then.
LEMMA PlacesStep == Places /\ [Next]_vars => Places'
<1> SUFFICES ASSUME Places, [Next]_vars PROVE Places'
    OBVIOUS
<1> USE TransportAssumption, RowFacts
    DEF Places, PlacesType, Loop, Resting, Active, InRow, Inside, Trying,
        Finally, Runs, Rows, script, servers, capture, output
<1>1. CASE Start
    BY <1>1 DEF Start
<1>2. CASE SkipRow
    BY <1>2 DEF SkipRow, NextRow
<1>3. CASE EnterRow
    BY <1>3 DEF EnterRow
<1>4. CASE OpenJson \/ WriteJson
    BY <1>4 DEF OpenJson, WriteJson
<1>5. CASE Unlink
    BY <1>5 DEF Unlink, UnlinkStale
<1>6. CASE SpawnServer
    BY <1>6 DEF SpawnServer
<1>7. CASE ProbeHit
    BY <1>7 DEF ProbeHit
<1>8. CASE ProbeTimeout
    BY <1>8 DEF ProbeTimeout, ThroughFinally
<1>9. CASE SpawnDumpcap
    BY <1>9 DEF SpawnDumpcap
<1>10. CASE Connect
    BY <1>10 DEF Connect
<1>11. CASE ClientReturns
    BY <1>11 DEF ClientReturns
<1>12. CASE ClientTimesOut
    BY <1>12 DEF ClientTimesOut
<1>13. CASE Settle
    BY <1>13 DEF Settle
<1>14. CASE Raise
    BY <1>14 DEF Raise
<1>15. CASE StopDumpcap
    BY <1>15 DEF StopDumpcap
<1>16. CASE DumpcapReaped
    BY <1>16 DEF DumpcapReaped
<1>17. CASE StopServer
    BY <1>17 DEF StopServer, ThenWait
<1>18. CASE ServerReaped /\ ~raising
    BY <1>18 DEF ServerReaped
<1>19. CASE Check
    BY <1>19 DEF Check, NextRow
<1>20. CASE Gone
    BY <1>20 DEF Gone
<1>21. CASE \E p \in ProcIds : Bind(p) \/ ServerDies(p)
    BY <1>21 DEF Bind, ServerDies
<1>22. CASE DumpcapLive \/ DumpcapDies
    BY <1>22 DEF DumpcapLive, DumpcapDies
<1>23. CASE UNCHANGED vars
    BY <1>23 DEF vars
<1> QED
    BY <1>1, <1>2, <1>3, <1>4, <1>5, <1>6, <1>7, <1>8, <1>9, <1>10, <1>11,
       <1>12, <1>13, <1>14, <1>15, <1>16, <1>17, <1>18, <1>19, <1>20, <1>21,
       <1>22, <1>23
       DEF Next, ScriptStep, Killed, DumpcapWaitTimesOut, ServerWaitTimesOut,
           ServerReaped

\* What capture_one is about to raise or to return.
VerdictType ==
    raising \in BOOLEAN /\ error \in {"none", "server did not start"}

\* Nothing is raised or returned at first.
LEMMA VerdictInit == Init => VerdictType
BY DEF Init, VerdictType

\* An exception is on its way or not, and there is one error to return.
LEMMA VerdictStep == VerdictType /\ [Next]_vars => VerdictType'
<1> SUFFICES ASSUME VerdictType, [Next]_vars PROVE VerdictType'
    OBVIOUS
<1> USE DEF VerdictType, script, servers, capture, output
<1>1. CASE \/ Start \/ SkipRow \/ EnterRow \/ OpenJson \/ WriteJson
          \/ Unlink \/ SpawnServer \/ ProbeHit \/ SpawnDumpcap \/ Connect
          \/ ClientReturns \/ Settle \/ StopDumpcap \/ DumpcapReaped
          \/ StopServer \/ Check
    BY <1>1, Zenon
       DEF Start, SkipRow, EnterRow, OpenJson, WriteJson, Unlink,
           SpawnServer, ProbeHit, SpawnDumpcap, Connect, ClientReturns, Settle, StopDumpcap,
           DumpcapReaped, StopServer, Check
<1>2. CASE ProbeTimeout \/ ClientTimesOut \/ Raise \/ Gone
    BY <1>2 DEF ProbeTimeout, ClientTimesOut, Raise, Gone
<1>3. CASE ServerReaped /\ ~raising
    BY <1>3, Zenon DEF ServerReaped
<1>4. CASE \/ \E p \in ProcIds : Bind(p) \/ ServerDies(p)
          \/ DumpcapLive \/ DumpcapDies \/ UNCHANGED vars
    BY <1>4, Zenon DEF Bind, ServerDies, DumpcapLive, DumpcapDies, vars
<1> QED
    BY <1>1, <1>2, <1>3, <1>4
       DEF Next, ScriptStep, Killed, DumpcapWaitTimesOut, ServerWaitTimesOut,
           ServerReaped

-----------------------------------------------------------------------------
(* The servers: one that may still listen is the server of the row that is  *)
(* being captured, or was left by a run that ended early.                   *)

ServersType == procs \in [ProcIds -> ProcStates] /\ orphans \subseteq ProcIds

Alive(p) == procs[p] \in {"starting", "listening", "closing"}

AliveIsKnown ==
    \A p \in ProcIds :
        Alive(p) => p \in orphans \/ (p = Own /\ pc \in Trying \cup Finally)

OrphansAreOld ==
    \A p \in orphans : p[1] <= run /\ (pc # "aborted" => p[1] < run)

Servers == ServersType /\ AliveIsKnown /\ OrphansAreOld

\* Before the first run there is no server.
LEMMA ServersInit == Init => Servers
BY DEF Init, Servers, ServersType, AliveIsKnown, Alive, OrphansAreOld,
       ProcStates

\* terminate() changes the state of one process.
LEMMA TerminatedProcs ==
    ASSUME ServersType, NEW q \in ProcIds
    PROVE  /\ Terminated(q) \in [ProcIds -> ProcStates]
           /\ \A p \in ProcIds \ {q} : Terminated(q)[p] = procs[p]
           /\ Terminated(q)[q] # "listening"
BY DEF ServersType, Terminated, ProcStates

\* In a row, its server is one of the processes.
LEMMA OwnIsProc == Places /\ pc \in InRow => Own \in ProcIds
BY ProcIdFacts, RowFacts
   DEF Places, Loop, InRow, Inside, Own, Active, Trying, Finally

\* A run that ends abandons the server it has, and no other can be alive.
LEMMA GoneAbandons == Places /\ Servers /\ pc \in Active /\ Gone => Servers'
<1> SUFFICES ASSUME Places, Servers, pc \in Active, Gone PROVE Servers'
    OBVIOUS
<1>1. /\ pc' = "aborted" /\ run' = run /\ procs' = procs
      /\ orphans' = orphans \cup {p \in ProcIds : p = Own /\ procs[p] # "none"}
    BY DEF Gone
<1>2. ServersType'
    BY <1>1 DEF Servers, ServersType
<1>3. AliveIsKnown'
    BY <1>1 DEF Servers, AliveIsKnown, Alive
<1>4. OrphansAreOld'
    <2>1. run \in Runs /\ Own[1] = run
        BY DEF Places, Loop, Own
    <2>2. \A p \in orphans' : p \in orphans \/ p[1] = run
        BY <1>1, <2>1
    <2> QED
        BY <1>1, <2>1, <2>2 DEF Servers, OrphansAreOld, Runs
<1> QED
    BY <1>2, <1>3, <1>4 DEF Servers

\* Every step keeps each living server with its row or among the orphans.
LEMMA ServersStep == Places /\ Servers /\ [Next]_vars => Servers'
<1> SUFFICES ASSUME Places, Servers, [Next]_vars PROVE Servers'
    OBVIOUS
<1> USE ProcIdFacts, RowFacts
    DEF Places, PlacesType, Loop, Resting, Active, InRow, Inside, Trying,
        Finally, Runs, Rows, Own, script, servers, capture, output,
        Servers, ServersType, AliveIsKnown, Alive, OrphansAreOld, ProcStates
<1>1. CASE Start
    BY <1>1 DEF Start
<1>2. CASE SkipRow
    BY <1>2 DEF SkipRow, NextRow
<1>3. CASE EnterRow
    BY <1>3 DEF EnterRow
<1>4. CASE OpenJson \/ WriteJson
    BY <1>4 DEF OpenJson, WriteJson
<1>5. CASE Unlink
    BY <1>5 DEF Unlink
<1>6. CASE SpawnServer
    BY <1>6, OwnIsProc DEF SpawnServer
<1>7. CASE ProbeHit
    BY <1>7 DEF ProbeHit
<1>8. CASE ProbeTimeout
    BY <1>8 DEF ProbeTimeout, ThroughFinally
<1>9. CASE SpawnDumpcap
    BY <1>9 DEF SpawnDumpcap
<1>10. CASE Connect
    BY <1>10 DEF Connect
<1>11. CASE ClientReturns
    BY <1>11 DEF ClientReturns
<1>12. CASE ClientTimesOut
    BY <1>12 DEF ClientTimesOut
<1>13. CASE Settle
    BY <1>13 DEF Settle
<1>14. CASE Raise
    BY <1>14 DEF Raise
<1>15. CASE StopDumpcap
    BY <1>15 DEF StopDumpcap
<1>16. CASE DumpcapReaped
    BY <1>16 DEF DumpcapReaped
<1>17. CASE StopServer
    BY <1>17, OwnIsProc, TerminatedProcs DEF StopServer, ThenWait
<1>18. CASE ServerReaped /\ ~raising
    BY <1>18, OwnIsProc DEF ServerReaped
<1>19. CASE Check
    BY <1>19 DEF Check, NextRow
<1>20. CASE pc \in Active /\ Gone
    BY <1>20, GoneAbandons
<1>21. CASE \E p \in ProcIds : Bind(p) \/ ServerDies(p)
    BY <1>21 DEF Bind, ServerDies
<1>22. CASE DumpcapLive \/ DumpcapDies
    BY <1>22 DEF DumpcapLive, DumpcapDies
<1>23. CASE UNCHANGED vars
    BY <1>23 DEF vars
<1> QED
    BY <1>1, <1>2, <1>3, <1>4, <1>5, <1>6, <1>7, <1>8, <1>9, <1>10, <1>11,
       <1>12, <1>13, <1>14, <1>15, <1>16, <1>17, <1>18, <1>19, <1>20, <1>21,
       <1>22, <1>23
       DEF Next, ScriptStep, Killed, DumpcapWaitTimesOut, ServerWaitTimesOut,
           ServerReaped

-----------------------------------------------------------------------------
(* The capture: the two files of a row are old at most until they are       *)
(* removed, and its dumpcap is gone before its server is stopped.           *)

CaptureType ==
    /\ cap \in {"none", "starting", "live", "closing", "dead"}
    /\ pcap \in FileStates /\ keylog \in FileStates

OldIsRemoved == pc \in Inside => pcap # "old" /\ keylog # "old"

DumpcapIsOver ==
    /\ pc \in {"unlink", "spawn", "probe", "dumpcap"} => cap = "none"
    /\ pc \in {"row", "stopserver", "waitserver", "check", "write", "fill",
                "done"}
           => cap \in {"none", "dead"}

Capture == CaptureType /\ OldIsRemoved /\ DumpcapIsOver

\* There is no capture at first.
LEMMA CaptureInit == Init => Capture
BY DEF Init, Capture, CaptureType, OldIsRemoved, DumpcapIsOver, FileStates,
       Inside, Trying, Finally

\* Every step keeps the files of a capture its own, and its dumpcap in it.
LEMMA CaptureStep == Capture /\ [Next]_vars => Capture'
<1> SUFFICES ASSUME Capture, [Next]_vars PROVE Capture'
    OBVIOUS
<1> USE DEF Resting, Active, Inside, Trying, Finally, script, servers, capture,
            output, Capture, CaptureType, OldIsRemoved, DumpcapIsOver,
            FileStates
<1>1. CASE Start
    BY <1>1 DEF Start
<1>2. CASE SkipRow
    BY <1>2 DEF SkipRow, NextRow
<1>3. CASE EnterRow
    BY <1>3 DEF EnterRow
<1>4. CASE OpenJson \/ WriteJson
    BY <1>4 DEF OpenJson, WriteJson
<1>5. CASE Unlink
    BY <1>5 DEF Unlink, UnlinkStale
<1>6. CASE SpawnServer
    BY <1>6 DEF SpawnServer
<1>7. CASE ProbeHit
    BY <1>7 DEF ProbeHit
<1>8. CASE ProbeTimeout
    BY <1>8 DEF ProbeTimeout, ThroughFinally
<1>9. CASE SpawnDumpcap
    BY <1>9 DEF SpawnDumpcap
<1>10. CASE Connect
    BY <1>10 DEF Connect
<1>11. CASE ClientReturns
    BY <1>11 DEF ClientReturns
<1>12. CASE ClientTimesOut
    BY <1>12 DEF ClientTimesOut
<1>13. CASE Settle
    BY <1>13 DEF Settle
<1>14. CASE Raise
    BY <1>14 DEF Raise
<1>15. CASE StopDumpcap
    BY <1>15 DEF StopDumpcap
<1>16. CASE DumpcapReaped
    BY <1>16 DEF DumpcapReaped
<1>17. CASE StopServer
    BY <1>17 DEF StopServer, ThenWait
<1>18. CASE ServerReaped /\ ~raising
    BY <1>18 DEF ServerReaped
<1>19. CASE Check
    BY <1>19 DEF Check, NextRow
<1>20. CASE pc \in Active /\ Gone
    BY <1>20 DEF Gone
<1>21. CASE \E p \in ProcIds : Bind(p) \/ ServerDies(p)
    BY <1>21 DEF Bind, ServerDies
<1>22. CASE DumpcapLive \/ DumpcapDies
    BY <1>22 DEF DumpcapLive, DumpcapDies
<1>23. CASE UNCHANGED vars
    BY <1>23 DEF vars
<1> QED
    BY <1>1, <1>2, <1>3, <1>4, <1>5, <1>6, <1>7, <1>8, <1>9, <1>10, <1>11,
       <1>12, <1>13, <1>14, <1>15, <1>16, <1>17, <1>18, <1>19, <1>20, <1>21,
       <1>22, <1>23
       DEF Next, ScriptStep, Killed, DumpcapWaitTimesOut, ServerWaitTimesOut,
           ServerReaped

-----------------------------------------------------------------------------
(* The handshake: a client meets the server of its row, nobody, or a server *)
(* an earlier run has left.                                                 *)

PeerOK(r, peer) ==
    \/ peer \in {NoProc, <<run, r>>}
    \/ peer \in orphans /\ peer[1] < run

Handshakes ==
    /\ shake \in Shakes
    /\ pc \in InRow => PeerOK(row, shake.peer)

\* Before the first run nobody has met anybody.
LEMMA HandshakesInit == Init => Handshakes
BY DEF Init, Handshakes, Shakes, NoShake, InRow, Inside,
       Trying, Finally

\* Who listens while a row is captured may be met by its client.
LEMMA ListenersAreOK ==
    ASSUME Servers, pc \in Active, NEW p \in Listening
    PROVE  p \in ProcIds /\ PeerOK(row, p)
BY DEF Servers, AliveIsKnown, Alive, OrphansAreOld, Listening, PeerOK, Own,
       Active, Trying, Finally

\* Every step keeps the peer of the handshake one of those.
LEMMA HandshakesStep ==
    Places /\ Servers /\ Handshakes /\ [Next]_vars => Handshakes'
<1> SUFFICES ASSUME Places, Servers, Handshakes, [Next]_vars
             PROVE  Handshakes'
    OBVIOUS
<1> USE DEF Resting, Active, InRow, Inside, Trying, Finally, script, servers,
            capture, output, Handshakes, Shakes, NoShake, PeerOK
<1>1. CASE Start
    BY <1>1 DEF Start
<1>2. CASE SkipRow
    BY <1>2 DEF SkipRow, NextRow
<1>3. CASE EnterRow
    BY <1>3 DEF EnterRow
<1>4. CASE OpenJson \/ WriteJson
    BY <1>4 DEF OpenJson, WriteJson
<1>5. CASE Unlink
    BY <1>5 DEF Unlink, UnlinkStale
<1>6. CASE SpawnServer
    BY <1>6 DEF SpawnServer
<1>7. CASE ProbeHit
    BY <1>7 DEF ProbeHit
<1>8. CASE ProbeTimeout
    BY <1>8 DEF ProbeTimeout, ThroughFinally
<1>9. CASE SpawnDumpcap
    BY <1>9 DEF SpawnDumpcap
<1>10. CASE Connect
    <2>1. PICK peer \in IF Listening = {} THEN {NoProc} ELSE Listening :
              shake' = [peer |-> peer, head |-> cap = "live", tail |-> FALSE]
        BY <1>10 DEF Connect
    <2>2. peer \in ProcIds \cup {NoProc} /\ PeerOK(row, peer)
        BY <1>10, <2>1, ListenersAreOK DEF Connect
    <2>3. run' = run /\ row' = row /\ orphans' = orphans
        BY <1>10 DEF Connect
    <2> QED
        BY <2>1, <2>2, <2>3
<1>11. CASE ClientReturns
    BY <1>11 DEF ClientReturns
<1>12. CASE ClientTimesOut
    BY <1>12 DEF ClientTimesOut
<1>13. CASE Settle
    BY <1>13 DEF Settle
<1>14. CASE Raise
    BY <1>14 DEF Raise
<1>15. CASE StopDumpcap
    BY <1>15 DEF StopDumpcap
<1>16. CASE DumpcapReaped
    BY <1>16 DEF DumpcapReaped
<1>17. CASE StopServer
    BY <1>17 DEF StopServer, ThenWait
<1>18. CASE ServerReaped /\ ~raising
    BY <1>18 DEF ServerReaped
<1>19. CASE Check
    BY <1>19 DEF Check, NextRow
<1>20. CASE pc \in Active /\ Gone
    BY <1>20 DEF Gone
<1>21. CASE \E p \in ProcIds : Bind(p) \/ ServerDies(p)
    BY <1>21 DEF Bind, ServerDies
<1>22. CASE DumpcapLive \/ DumpcapDies
    BY <1>22 DEF DumpcapLive, DumpcapDies
<1>23. CASE UNCHANGED vars
    BY <1>23 DEF vars
<1> QED
    BY <1>1, <1>2, <1>3, <1>4, <1>5, <1>6, <1>7, <1>8, <1>9, <1>10, <1>11,
       <1>12, <1>13, <1>14, <1>15, <1>16, <1>17, <1>18, <1>19, <1>20, <1>21,
       <1>22, <1>23
       DEF Next, ScriptStep, Killed, DumpcapWaitTimesOut, ServerWaitTimesOut,
           ServerReaped


-----------------------------------------------------------------------------
(* The results: each row with a key that the loop has passed, once, from    *)
(* its own files and handshake.                                             *)

ResultsType ==
    /\ rows \subseteq RowRecord
    /\ json.run \in 0 .. run /\ json.rows \subseteq RowRecord
    /\ json.whole \in BOOLEAN

RowsOf(rs) == {r.row : r \in rs}
NoRowTwice(rs) == \A q, r \in rs : q.row = r.row => q = r

RowsAccounted ==
    pc \in Active \cup {"done"} =>
        RowsOf(rows) = {c \in Keyed : c < row} /\ NoRowTwice(rows)

Results ==
    /\ ResultsType
    /\ RowsAreFresh /\ PeerIsOwnOrOrphan
    /\ RowsAccounted /\ SweepIsWhole

\* There is no result at first.
LEMMA ResultsInit == Init => Results
BY DEF Init, Results, ResultsType, RowsAreFresh, PeerIsOwnOrOrphan,
       RowsAccounted, SweepIsWhole, Active, Trying, Finally

\* What a finished capture adds to the results.
ThisRow == [row |-> row, error |-> Failed,
            fresh |-> pcap # "old" /\ keylog # "old", shake |-> shake]

\* It is a result, of its own files and handshake, and of a row that has none.
LEMMA ThisRowIsNew ==
    ASSUME Places, Capture, Handshakes, Results, pc = "check"
    PROVE  /\ ThisRow \in RowRecord /\ ThisRow.row = row
           /\ ThisRow.fresh
           /\ PeerOK(row, ThisRow.shake.peer)
           /\ row \in Keyed
           /\ \A r \in rows : r.row \in Rows /\ r.row < row
<1>1. row \in Keyed /\ shake \in Shakes /\ PeerOK(row, shake.peer)
    BY DEF Places, Loop, Handshakes, InRow, Inside
<1>2. ThisRow \in RowRecord
    BY <1>1, RowFacts DEF ThisRow, RowRecord, Failed
<1>3. pcap # "old" /\ keylog # "old"
    BY DEF Capture, OldIsRemoved, Inside
<1>4. RowsOf(rows) = {c \in Keyed : c < row}
    BY DEF Results, RowsAccounted, Active
<1>5. \A r \in rows : r.row \in Rows /\ r.row < row
    BY <1>4, RowFacts DEF RowsOf
<1> QED
    BY <1>1, <1>2, <1>3, <1>5 DEF ThisRow

\* Every step keeps the results those of the rows passed.
LEMMA ResultsStep ==
    /\ Places /\ Servers /\ Capture /\ Handshakes /\ Results
    /\ [Next]_vars
    => Results'
<1> SUFFICES ASSUME Places, Servers, Capture, Handshakes, Results, [Next]_vars
             PROVE  Results'
    OBVIOUS
<1>0. ASSUME rows' = rows \/ rows' = {}, json' = json,
             run' = run \/ (run' = run + 1 /\ rows' = {}),
             orphans \subseteq orphans', pc' = "done" => pc = "done" /\ run' = run,
             \/ pc' \notin Active \cup {"done"}
             \/ row' = 1 /\ rows' = {}
             \/ pc \in Active \cup {"done"} /\ row' = row /\ rows' = rows
      PROVE  Results'
    <2>1. ResultsType'
        BY <1>0, TransportAssumption
           DEF Results, ResultsType, Places, PlacesType
    <2>2. RowsAreFresh' /\ SweepIsWhole'
        BY <1>0 DEF Results, RowsAreFresh, SweepIsWhole
    <2>3. PeerIsOwnOrOrphan'
        BY <1>0 DEF Results, PeerIsOwnOrOrphan
    <2>4. RowsAccounted'
        <3>1. CASE row' = 1 /\ rows' = {}
            <4>1. \A c \in Keyed : ~(c < 1)
                BY RowFacts
            <4>2. {c \in Keyed : c < row'} = {} /\ RowsOf(rows') = {}
                BY <3>1, <4>1 DEF RowsOf
            <4> QED
                BY <3>1, <4>2 DEF RowsAccounted, NoRowTwice
        <3>2. CASE pc \in Active \cup {"done"} /\ row' = row /\ rows' = rows
            BY <3>2 DEF Results, RowsAccounted, RowsOf, NoRowTwice
        <3> QED
            BY <1>0, <3>1, <3>2 DEF RowsAccounted
    <2> QED
        BY <2>1, <2>2, <2>3, <2>4 DEF Results
<1>1. CASE Start
    BY <1>0, <1>1 DEF Start, servers
<1>2. CASE SkipRow
    <2>1. /\ pc \in Active /\ pc' # "done"
          /\ run' = run /\ rows' = rows /\ row' = row + 1
        BY <1>2 DEF SkipRow, NextRow, Active, output
    <2>2. {c \in Keyed : c < row'} = {c \in Keyed : c < row}
        <3>1. row \notin Keyed /\ row \in Nat
            BY <1>2 DEF SkipRow, Places, PlacesType
        <3>2. \A c \in Keyed : c < row' <=> c < row
            BY <2>1, <3>1, RowFacts
        <3> QED
            BY <3>2
    <2>3. RowsAccounted'
        BY <2>1, <2>2 DEF Results, RowsAccounted, RowsOf, NoRowTwice
    <2>4. json' = json /\ orphans' = orphans
        BY <1>2 DEF SkipRow, output, servers
    <2> QED
        BY <2>1, <2>3, <2>4
           DEF Results, ResultsType, RowsAreFresh, PeerIsOwnOrOrphan,
               SweepIsWhole
<1>3. CASE Check
    <2>1. /\ pc = "check" /\ pc \in Active /\ pc' # "done"
          /\ run' = run /\ row' = row + 1
          /\ rows' = rows \cup {ThisRow}
          /\ json' = json /\ orphans' = orphans
        BY <1>3 DEF Check, RowKept, NextRow, ThisRow, Active, servers
    <2> HIDE DEF ThisRow
    <2>2. /\ ThisRow \in RowRecord /\ ThisRow.row = row /\ ThisRow.fresh
          /\ PeerOK(row, ThisRow.shake.peer)
          /\ row \in Keyed
          /\ \A r \in rows : r.row \in Rows /\ r.row < row
        BY <2>1, ThisRowIsNew
    <2>3. ResultsType'
        BY <2>1, <2>2 DEF Results, ResultsType
    <2>4. RowsAreFresh' /\ SweepIsWhole'
        BY <2>1, <2>2 DEF Results, RowsAreFresh, SweepIsWhole
    <2>5. PeerIsOwnOrOrphan'
        BY <2>1, <2>2 DEF Results, PeerIsOwnOrOrphan, PeerOK
    <2>6. {c \in Keyed : c < row'} = {c \in Keyed : c < row} \cup {row}
        <3>1. \A c \in Keyed : c < row' <=> c < row \/ c = row
            BY <2>1, <2>2, RowFacts
        <3> QED
            BY <2>2, <3>1
    <2>7. RowsOf(rows') = RowsOf(rows) \cup {row}
        BY <2>1, <2>2 DEF RowsOf
    <2>8. NoRowTwice(rows')
        <3>1. \A r \in rows : r.row # row
            BY <2>2, RowFacts DEF Rows
        <3> QED
            BY <2>1, <2>2, <3>1 DEF Results, RowsAccounted, NoRowTwice
    <2>9. RowsAccounted'
        BY <2>1, <2>6, <2>7, <2>8 DEF Results, RowsAccounted
    <2> QED
        BY <2>3, <2>4, <2>5, <2>9 DEF Results
<1>4. CASE WriteJson
    <2>1. /\ pc = "fill" /\ pc \in Active /\ pc' = "done"
          /\ run' = run /\ row' = row /\ rows' = rows /\ orphans' = orphans
          /\ json' = [run |-> run, rows |-> rows, whole |-> TRUE]
        BY <1>4 DEF WriteJson, WholeJson, script, servers, Active
    <2>2. RowsOf(rows) = Keyed /\ NoRowTwice(rows)
        <3>1. \A c \in Keyed : c < row
            BY <2>1, RowFacts DEF Places, Loop
        <3>2. {c \in Keyed : c < row} = Keyed
            BY <3>1
        <3> QED
            BY <2>1, <3>2 DEF Results, RowsAccounted
    <2>3. SweepIsWhole'
        BY <2>1, <2>2 DEF SweepIsWhole, RowsOf, NoRowTwice
    <2>4. RowsAccounted'
        BY <2>1 DEF Results, RowsAccounted, RowsOf, NoRowTwice
    <2>5. ResultsType'
        BY <2>1, TransportAssumption
           DEF Results, ResultsType, Places, PlacesType
    <2> QED
        BY <2>1, <2>3, <2>4, <2>5
           DEF Results, RowsAreFresh, PeerIsOwnOrOrphan
<1>8. CASE OpenJson
    <2>1. /\ pc = "write" /\ pc \in Active /\ pc' = "fill"
          /\ run' = run /\ row' = row /\ rows' = rows /\ orphans' = orphans
          /\ json' = [run |-> run, rows |-> {}, whole |-> FALSE]
        BY <1>8 DEF OpenJson, TornJson, script, servers, Active
    <2>2. SweepIsWhole'
        BY <2>1 DEF SweepIsWhole
    <2>3. RowsAccounted'
        BY <2>1 DEF Results, RowsAccounted, RowsOf, NoRowTwice
    <2>4. ResultsType'
        BY <2>1, TransportAssumption
           DEF Results, ResultsType, Places, PlacesType
    <2> QED
        BY <2>1, <2>2, <2>3, <2>4
           DEF Results, RowsAreFresh, PeerIsOwnOrOrphan
<1>5. CASE Gone
    BY <1>0, <1>5 DEF Gone, Active, Trying, Finally
<1>6. CASE \/ EnterRow \/ Unlink \/ SpawnServer \/ ProbeHit \/ ProbeTimeout
          \/ SpawnDumpcap \/ Connect \/ ClientReturns \/ ClientTimesOut
          \/ Settle \/ Raise \/ StopDumpcap \/ DumpcapReaped \/ StopServer
          \/ (ServerReaped /\ ~raising)
    <2>1. /\ pc \in Active /\ run' = run /\ row' = row
          /\ rows' = rows /\ json' = json /\ orphans' = orphans
        BY <1>6, Zenon
           DEF EnterRow, Unlink, SpawnServer, ProbeHit, ProbeTimeout,
               SpawnDumpcap, Connect, ClientReturns, ClientTimesOut, Settle,
               Raise, StopDumpcap, DumpcapReaped, StopServer, ServerReaped,
               Active, Trying, Finally, script, servers, output
    <2>2. pc' # "done"
        BY <1>6
           DEF EnterRow, Unlink, SpawnServer, ProbeHit, ProbeTimeout,
               ThroughFinally, SpawnDumpcap, Connect, ClientReturns,
               ClientTimesOut, Settle, Raise, StopDumpcap, DumpcapReaped,
               StopServer, ThenWait, ServerReaped
    <2> QED
        BY <1>0, <2>1, <2>2
<1>7. CASE \/ \E p \in ProcIds : Bind(p) \/ ServerDies(p)
          \/ DumpcapLive \/ DumpcapDies \/ UNCHANGED vars
    <2>1. /\ pc' = pc /\ run' = run /\ row' = row
          /\ rows' = rows /\ json' = json /\ orphans' = orphans
        BY <1>7, Zenon
           DEF Bind, ServerDies, DumpcapLive, DumpcapDies, vars, script,
               servers, output
    <2> QED
        BY <1>0, <2>1
<1> QED
    BY <1>1, <1>2, <1>3, <1>4, <1>5, <1>6, <1>7, <1>8
       DEF Next, ScriptStep, Killed, DumpcapWaitTimesOut, ServerWaitTimesOut,
           ServerReaped

-----------------------------------------------------------------------------
(* Progress: what there is to SweepEnds without fairness. *)

\* The steps of main() and capture_one that may still come in a row.
StepsLeft ==
    [row |-> 15, unlink |-> 14, spawn |-> 13, probe |-> 12, dumpcap |-> 11,
     connect |-> 10, client |-> 9, settle |-> 8, stopcap |-> 7, waitcap |-> 6,
     stopserver |-> 5, waitserver |-> 4, check |-> 3, write |-> 2, fill |-> 1]

\* The sweep is over, or on a later row, or in this one nearer to its end.
Advances ==
    \/ pc' \in Resting
    \/ row' > row
    \/ row' = row /\ StepsLeft[pc'] < StepsLeft[pc]

Progress ==
    /\ ScriptStep \/ ClientReturns \/ Raise \/ Killed => Advances
    /\ pc \in Active => Advances \/ UNCHANGED <<pc, row>>

\* No step of the script leaves it where it was or takes it back.
LEMMA ProgressStep == Places /\ [Next]_vars => Progress
<1> SUFFICES ASSUME Places, [Next]_vars PROVE Progress
    OBVIOUS
<1>1. row \in Nat /\ row + 1 > row
    BY RowFacts DEF Places, PlacesType
<1>2. CASE \/ SkipRow \/ Check
    BY <1>1, <1>2 DEF SkipRow, Check, NextRow, Advances, Progress
<1>3. CASE EnterRow \/ Unlink \/ SpawnServer \/ ProbeHit \/ ProbeTimeout
           \/ SpawnDumpcap \/ Connect
    <2>1. row' = row
        BY <1>3
           DEF EnterRow, Unlink, SpawnServer, ProbeHit, ProbeTimeout, SpawnDumpcap,
               Connect, script
    <2>2. \/ pc = "row" /\ pc' = "unlink"
          \/ pc = "unlink" /\ pc' = "spawn"
          \/ pc = "spawn" /\ pc' = "probe"
          \/ pc = "probe" /\ pc' \in {"dumpcap", "stopserver"}
          \/ pc = "dumpcap" /\ pc' = "connect"
          \/ pc = "connect" /\ pc' = "client"
        BY <1>3
           DEF EnterRow, Unlink, SpawnServer, ProbeHit, ProbeTimeout, ThroughFinally,
               SpawnDumpcap, Connect
    <2> QED
        BY <1>1, <2>1, <2>2 DEF Advances, Progress, StepsLeft
<1>4. CASE \/ ClientReturns \/ ClientTimesOut \/ Settle \/ Raise
    BY <1>1, <1>4
       DEF ClientReturns, ClientTimesOut, Settle, Raise, Trying, script, Advances,
           Progress, StepsLeft
<1>5. CASE \/ StopDumpcap \/ DumpcapReaped \/ StopServer
           \/ ServerReaped /\ ~raising
    BY <1>1, <1>5
       DEF StopDumpcap, DumpcapReaped, StopServer, ThenWait, ServerReaped, script,
           Advances, Progress, StepsLeft
<1>6. CASE WriteJson \/ Gone
    BY <1>6 DEF WriteJson, Gone, Resting, Advances, Progress
<1>8. CASE OpenJson
    BY <1>1, <1>8 DEF OpenJson, script, Advances, Progress, StepsLeft
<1>7. CASE /\ ~(ScriptStep \/ ClientReturns \/ Raise \/ Killed)
           /\ \/ Start
              \/ \E p \in ProcIds : Bind(p) \/ ServerDies(p)
              \/ DumpcapLive \/ DumpcapDies \/ UNCHANGED vars
    BY <1>7
       DEF Start, Resting, Active, Trying, Finally, Bind, ServerDies, DumpcapLive,
           DumpcapDies, vars, script, Progress
<1> QED
    BY <1>2, <1>3, <1>4, <1>5, <1>6, <1>7, <1>8
       DEF Next, ScriptStep, Killed, DumpcapWaitTimesOut, ServerWaitTimesOut,
           ServerReaped

-----------------------------------------------------------------------------
(* The inductive invariant, and the properties it implies. *)

IInv ==
    /\ Places /\ VerdictType
    /\ Servers
    /\ Capture
    /\ Handshakes
    /\ Results

\* The layers hold at first.
LEMMA IInvInit == Init => IInv
BY PlacesInit, VerdictInit, ServersInit, CaptureInit, HandshakesInit,
   ResultsInit DEF IInv

\* Each layer is preserved, given those before it.
LEMMA IInvStep == IInv /\ [Next]_vars => IInv'
BY PlacesStep, VerdictStep, ServersStep, CaptureStep, HandshakesStep,
   ResultsStep DEF IInv

\* IInv holds in every reachable state of the sweep.
THEOREM Invariance == Spec => []IInv
BY IInvInit, IInvStep, PTL DEF Spec

\* Every variable of the sweep keeps its type, for any number of rows and runs.
THEOREM TypeCorrect == Spec => []TypeOK
<1>1. IInv => TypeOK
    BY DEF IInv, TypeOK, Places, PlacesType, VerdictType, Servers,
           ServersType, Capture, CaptureType, Handshakes, Results, ResultsType
<1> QED
    BY <1>1, Invariance, PTL

\* A row is measured from files its own capture wrote, or is an error: the two
\* unlink calls and the two existence tests of capture_one are enough.
THEOREM MeasuredRowsAreFresh == Spec => []RowsAreFresh
<1>1. IInv => RowsAreFresh
    BY DEF IInv, Results
<1> QED
    BY <1>1, Invariance, PTL

\* The finally of capture_one leaves no server and no dumpcap to the next row.
THEOREM RowsCleanUp == Spec => []NothingLeftBehind
<1>1. ASSUME IInv PROVE NothingLeftBehind
    <2> SUFFICES ASSUME pc \in {"row", "write", "fill", "done"}
                 PROVE  /\ \A p \in ProcIds :
                               p[1] = run => procs[p] \in {"none", "dead"}
                        /\ cap \in {"none", "dead"}
        BY DEF NothingLeftBehind
    <2>1. \A p \in ProcIds : Alive(p) => p[1] # run
        <3>1. \A p \in orphans : p[1] < run /\ p[1] \in Nat /\ run \in Nat
            BY <1>1, ProcIdFacts, TransportAssumption
               DEF IInv, Servers, ServersType, OrphansAreOld, Places,
                   PlacesType, Runs
        <3>2. \A p \in ProcIds : Alive(p) => p \in orphans
            BY <1>1 DEF IInv, Servers, AliveIsKnown, Trying, Finally
        <3> QED
            BY <3>1, <3>2
    <2>2. \A p \in ProcIds : procs[p] \in ProcStates
        BY <1>1 DEF IInv, Servers, ServersType
    <2>3. cap \in {"none", "dead"}
        BY <1>1 DEF IInv, Capture, DumpcapIsOver
    <2> QED
        BY <2>1, <2>2, <2>3 DEF Alive, ProcStates
<1> QED
    BY <1>1, Invariance, PTL

\* A row's handshake is with the server its capture started, with nobody, or
\* with one that an earlier run left when it ended early.
THEOREM PeersAreOwnOrOrphans == Spec => []PeerIsOwnOrOrphan
<1>1. IInv => PeerIsOwnOrOrphan
    BY DEF IInv, Results
<1> QED
    BY <1>1, Invariance, PTL

\* A transport.json whose writing ended has every row with a key, once; a kill
\* before it is opened leaves an earlier one, a kill after that a torn one.
THEOREM SweepsAreWhole == Spec => []SweepIsWhole
<1>1. IInv => SweepIsWhole
    BY DEF IInv, Results
<1> QED
    BY <1>1, Invariance, PTL

\* Every step of the script, an exception and a kill included, ends the sweep or
\* brings it nearer to its end, and no server and no dumpcap sets it back: a sweep
\* of NRows rows has at most 15 steps a row. What SweepEnds needs beyond this is
\* that a script which can take a step takes one.
THEOREM SweepsAdvance == Spec => [][Progress]_vars
<1>1. IInv /\ [Next]_vars => Progress
    BY ProgressStep DEF IInv
<1> QED
    BY <1>1, Invariance, PTL DEF Spec
=============================================================================
