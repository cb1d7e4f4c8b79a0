----------------------------- MODULE Transport -----------------------------
(***************************************************************************)
(* phase3/transport.py: for every chain with a key and every mode, one TLS *)
(* handshake between a fresh s_server and s_client, captured by dumpcap    *)
(* and decrypted with the server's key log.  main() sweeps the rows        *)
(* <<chain, mode>> and writes transport.json at the end; capture_one has a *)
(* try/finally that stops dumpcap, then the server.                        *)
(*                                                                         *)
(* Three processes run beside the script.  It waits for the server by      *)
(* probing the port, for dumpcap and for the tail of the capture by        *)
(* sleeping, and it tells a good capture from a bad one by the existence   *)
(* of two files.                                                           *)
(***************************************************************************)
EXTENDS Naturals

CONSTANTS
    NRows,       \* rows of the sweep, chains and modes in the order of main()
    Keyed,       \* the rows whose bundle has leaf.key
    MaxRuns      \* bound: invocations of the script

ASSUME TransportAssumption ==
    /\ NRows \in Nat \ {0}
    /\ Keyed \subseteq 1 .. NRows
    /\ MaxRuns \in Nat

Rows == 1 .. NRows
Runs == 1 .. MaxRuns
ProcIds == Runs \X Rows    \* the s_server of a row in a run
NoProc == <<0, 0>>

VARIABLES
    pc,        \* where the script is
    run, row,  \* the invocation, and the loops of main()
    raising,   \* an exception is on its way through finally
    error,     \* the "error" capture_one is about to return, or "none"
    procs,     \* every s_server, as in Harness
    orphans,   \* history: servers abandoned by a run that ended early
    cap,       \* this row's dumpcap
    pcap,      \* capture.pcap of this row
    keylog,    \* keys.log of this row
    shake,     \* the handshake: whom with, which ends of it were captured
    rows,      \* the list `results`
    json       \* transport.json, and whether the writing of it has ended

script == <<run, row, raising, error>>
servers == <<procs, orphans>>
capture == <<cap, pcap, keylog>>
output == <<rows, json>>
vars == <<pc, script, servers, capture, shake, output>>

Resting == {"idle", "done", "aborted"}
Trying == {"probe", "dumpcap", "connect", "client", "settle"}
Finally == {"stopcap", "waitcap", "stopserver", "waitserver"}
Active == {"row", "unlink", "spawn", "check", "write", "fill"} \cup Trying \cup Finally

ProcStates == {"none", "starting", "listening", "closing", "dead"}
Holding == {p \in ProcIds : procs[p] \in {"listening", "closing"}}
Listening == {p \in ProcIds : procs[p] = "listening"}
Own == <<run, row>>

FileStates == {"none", "old", "new"}
NoShake == [peer |-> NoProc, head |-> FALSE, tail |-> FALSE]
Shakes == [peer : ProcIds \cup {NoProc}, head : BOOLEAN, tail : BOOLEAN]

\* A member of `results`: what it was measured from, which only the model sees.
RowRecord == [row : Rows, error : BOOLEAN, fresh : BOOLEAN, shake : Shakes]

Init ==
    /\ pc = "idle" /\ run = 0 /\ row = 1
    /\ raising = FALSE /\ error = "none"
    /\ procs = [p \in ProcIds |-> "none"] /\ orphans = {}
    /\ cap = "none" /\ pcap = "none" /\ keylog = "none"
    /\ shake = NoShake
    /\ rows = {}
    /\ json = [run |-> 0, rows |-> {}, whole |-> TRUE]
-----------------------------------------------------------------------------
(* main(). *)

\* A dumpcap that an earlier run left writes to its own file; it is not ours.
Start ==
    /\ pc \in Resting /\ run < MaxRuns
    /\ pc' = "row" /\ run' = run + 1 /\ row' = 1
    /\ cap' = "none" /\ rows' = {}
    /\ UNCHANGED <<raising, error, servers, pcap, keylog, shake, json>>

RowsOverrun ==    \* slip: off by one
    /\ row' = row + 1
    /\ pc' = IF row <= NRows THEN "row" ELSE "write"
NextRow ==
    /\ row' = row + 1
    /\ pc' = IF row < NRows THEN "row" ELSE "write"

SkipRow ==
    /\ pc = "row" /\ row \notin Keyed
    /\ NextRow
    /\ UNCHANGED <<run, raising, error, servers, capture, shake, output>>

\* capture_one is entered: files of an earlier run may be there.
EnterRow ==
    /\ pc = "row" /\ row \in Keyed
    /\ pc' = "unlink"
    /\ pcap' \in {"none", "old"} /\ keylog' \in {"none", "old"}
    /\ cap' = "none" /\ shake' = NoShake /\ error' = "none"
    /\ UNCHANGED <<run, row, raising, servers, output>>

\* write_text opens transport.json, which empties it, then writes the rows; a
\* kill or a full disk in between leaves a part of the text.
TornJson == [run |-> run, rows |-> {}, whole |-> FALSE]
WholeJson == [run |-> run, rows |-> rows, whole |-> TRUE]

OpenJson ==
    /\ pc = "write"
    /\ pc' = "fill"
    /\ json' = TornJson
    /\ UNCHANGED <<script, servers, capture, shake, rows>>

WriteJson ==
    /\ pc = "fill"
    /\ pc' = "done"
    /\ json' = WholeJson
    /\ UNCHANGED <<script, servers, capture, shake, rows>>

\* The script is gone, and with it the handle of the server.
Gone ==
    /\ pc' = "aborted"
    /\ row' = 1
    /\ orphans' = orphans \cup {p \in ProcIds : p = Own /\ procs[p] # "none"}
    /\ raising' = FALSE /\ error' = "none"
    /\ rows' = {}
    /\ UNCHANGED <<run, procs, capture, shake, json>>

Killed == pc \in Active /\ Gone
-----------------------------------------------------------------------------
(* capture_one. *)

KeepStale == UNCHANGED <<pcap, keylog>>    \* slip: the files are not unlinked
UnlinkStale == pcap' = "none" /\ keylog' = "none"
Unlink ==
    /\ pc = "unlink"
    /\ pc' = "spawn"
    /\ UnlinkStale
    /\ UNCHANGED <<script, servers, cap, shake, output>>

SpawnServer ==
    /\ pc = "spawn"
    /\ pc' = "probe"
    /\ procs' = [procs EXCEPT ![Own] = "starting"]
    /\ UNCHANGED <<script, orphans, capture, shake, output>>

ProbeHit ==
    /\ pc = "probe" /\ Holding # {}
    /\ pc' = "dumpcap"
    /\ UNCHANGED <<script, servers, capture, shake, output>>

\* return inside try: finally runs first, and finds no dumpcap.
ReturnAtOnce == "check"    \* slip: the probe stands before the try
ThroughFinally == "stopserver"
ProbeTimeout ==
    /\ pc = "probe"
    /\ pc' = ThroughFinally
    /\ error' = "server did not start"
    /\ UNCHANGED <<run, row, raising, servers, capture, shake, output>>

\* Popen, then 1.2 seconds of sleep.
SpawnDumpcap ==
    /\ pc = "dumpcap"
    /\ pc' = "connect"
    /\ cap' = "starting"
    /\ UNCHANGED <<script, servers, pcap, keylog, shake, output>>

\* s_client connects to whoever listens; dumpcap is live by now, or is not.
Connect ==
    /\ pc = "connect"
    /\ pc' = "client"
    /\ \E peer \in IF Listening = {} THEN {NoProc} ELSE Listening :
           shake' = [peer |-> peer, head |-> cap = "live", tail |-> FALSE]
    /\ UNCHANGED <<script, servers, capture, output>>

\* s_client returns; its exit code is not looked at.
ClientReturns ==
    /\ pc = "client"
    /\ pc' = "settle"
    /\ UNCHANGED <<script, servers, capture, shake, output>>

NoClientTimeout == FALSE /\ UNCHANGED vars    \* slip: run() without timeout
ClientTimesOut ==
    /\ pc = "client"
    /\ pc' = "stopcap" /\ raising' = TRUE
    /\ UNCHANGED <<run, row, error, servers, capture, shake, output>>

\* client.txt, then 0.8 seconds of sleep for the tail of the flight.
Settle ==
    /\ pc = "settle"
    /\ pc' = "stopcap"
    /\ \E tail \in BOOLEAN :
           /\ tail => cap = "live"
           /\ shake' = [shake EXCEPT !.tail = tail]
    /\ UNCHANGED <<script, servers, capture, output>>

\* Any other exception of the try block (^C, a full disk).
Raise ==
    /\ pc \in Trying
    /\ pc' = IF cap = "none" THEN "stopserver" ELSE "stopcap"
    /\ raising' = TRUE
    /\ UNCHANGED <<run, row, error, servers, capture, shake, output>>

StopDumpcap ==
    /\ pc = "stopcap"
    /\ pc' = "waitcap"
    /\ cap' = IF cap = "dead" THEN "dead" ELSE "closing"
    /\ UNCHANGED <<script, servers, pcap, keylog, shake, output>>

DumpcapReaped ==
    /\ pc = "waitcap" /\ cap = "dead"
    /\ pc' = "stopserver"
    /\ UNCHANGED <<script, servers, capture, shake, output>>

\* cap.wait raises inside finally: server.terminate() is never reached.
DumpcapWaitTimesOut == pc = "waitcap" /\ cap # "dead" /\ Gone

Terminated(p) ==
    [procs EXCEPT ![p] = CASE @ = "starting"  -> "dead"
                           [] @ = "listening" -> "closing"
                           [] OTHER           -> @]

SkipWait == "check"    \* slip: terminate() without wait()
ThenWait == "waitserver"
StopServer ==
    /\ pc = "stopserver"
    /\ pc' = ThenWait
    /\ procs' = Terminated(Own)
    /\ UNCHANGED <<script, orphans, capture, shake, output>>

\* End of finally: the exception goes on and ends main(), or the row is judged.
ServerReaped ==
    /\ pc = "waitserver" /\ procs[Own] = "dead"
    /\ IF raising THEN Gone
       ELSE /\ pc' = "check"
            /\ UNCHANGED <<script, servers, capture, shake, output>>

ServerWaitTimesOut == pc = "waitserver" /\ procs[Own] # "dead" /\ Gone

\* The row is an error if the server did not start or a file is missing; else
\* analyze() measures what the files hold.  main() keeps both kinds.
Failed == error # "none" \/ pcap = "none" \/ keylog = "none"
ErrorsDropped == ~Failed    \* slip: `continue` before the append
RowKept == TRUE
Check ==
    /\ pc = "check"
    /\ rows' = IF RowKept
               THEN rows \cup {[row |-> row, error |-> Failed,
                                fresh |-> pcap # "old" /\ keylog # "old",
                                shake |-> shake]}
               ELSE rows
    /\ NextRow
    /\ UNCHANGED <<run, raising, error, servers, capture, shake, json>>
-----------------------------------------------------------------------------
(* The processes beside the script. *)

\* s_server opens its key log, then binds the port if nobody holds it.
Bind(p) ==
    /\ procs[p] = "starting"
    /\ procs' = [procs EXCEPT ![p] = IF Holding = {} THEN "listening"
                                                     ELSE "dead"]
    /\ keylog' = IF p = Own /\ pc \in Trying \cup Finally THEN "new" ELSE keylog
    /\ UNCHANGED <<pc, script, orphans, cap, pcap, shake, output>>

ServerDies(p) ==
    /\ procs[p] \in {"starting", "listening", "closing"}
    /\ procs' = [procs EXCEPT ![p] = "dead"]
    /\ UNCHANGED <<pc, script, orphans, capture, shake, output>>

\* dumpcap opens the interface and its file, or is refused.
DumpcapLive ==
    /\ cap = "starting"
    /\ cap' = "live" /\ pcap' = "new"
    /\ UNCHANGED <<pc, script, servers, keylog, shake, output>>

DumpcapDies ==
    /\ cap \in {"starting", "live", "closing"}
    /\ cap' = "dead"
    /\ UNCHANGED <<pc, script, servers, pcap, keylog, shake, output>>
-----------------------------------------------------------------------------
ScriptStep ==
    \/ SkipRow \/ EnterRow \/ OpenJson \/ WriteJson
    \/ Unlink \/ SpawnServer \/ ProbeHit \/ ProbeTimeout
    \/ SpawnDumpcap \/ Connect \/ ClientTimesOut \/ Settle
    \/ StopDumpcap \/ DumpcapReaped \/ DumpcapWaitTimesOut
    \/ StopServer \/ ServerReaped \/ ServerWaitTimesOut
    \/ Check

Next ==
    \/ Start \/ ScriptStep \/ ClientReturns \/ Raise \/ Killed
    \/ \E p \in ProcIds : Bind(p) \/ ServerDies(p)
    \/ DumpcapLive \/ DumpcapDies

Spec == Init /\ [][Next]_vars

\* The script takes the steps it can take; every wait in it has a time limit.
FairSpec == Spec /\ WF_vars(ScriptStep)
-----------------------------------------------------------------------------
TypeOK ==
    /\ pc \in Resting \cup Active
    /\ run \in 0 .. MaxRuns /\ row \in 1 .. NRows + 1
    /\ raising \in BOOLEAN
    /\ error \in {"none", "server did not start"}
    /\ procs \in [ProcIds -> ProcStates] /\ orphans \subseteq ProcIds
    /\ cap \in {"none", "starting", "live", "closing", "dead"}
    /\ pcap \in FileStates /\ keylog \in FileStates
    /\ shake \in Shakes
    /\ rows \subseteq RowRecord
    /\ json.run \in 0 .. run /\ json.rows \subseteq RowRecord
    /\ json.whole \in BOOLEAN

\* A measured row is measured from files this very capture wrote.
RowsAreFresh == \A r \in rows : ~r.error => r.fresh

\* Between two rows no process of the sweep is left: neither a server that
\* could answer the next row's probe nor a dumpcap that writes to its file.
NothingLeftBehind ==
    pc \in {"row", "write", "fill", "done"} =>
        /\ \A p \in ProcIds : p[1] = run => procs[p] \in {"none", "dead"}
        /\ cap \in {"none", "dead"}

\* A row is measured against its own server, against nobody, or against a
\* server that an earlier, unfinished sweep left on the port.
PeerIsOwnOrOrphan ==
    \A r \in rows :
        \/ r.shake.peer \in {NoProc, <<run, r.row>>}
        \/ r.shake.peer \in orphans /\ r.shake.peer[1] < run

\* A transport.json whose writing ended is of a whole sweep: each row with a
\* key once, the failed ones as errors.  A sweep killed before it writes leaves
\* the file of the one before, and one killed while it writes leaves a torn one;
\* a sweep that ends has put its own there, over whatever it found.
SweepIsWhole ==
    /\ json.whole /\ json.run # 0 =>
           /\ {r.row : r \in json.rows} = Keyed
           /\ \A q, r \in json.rows : q.row = r.row => q = r
    /\ pc = "done" => json.whole /\ json.run = run

\* The sweep ends, whatever the client, the server and dumpcap do.
SweepEnds == (pc \in Active) ~> (pc \in Resting)
=============================================================================
