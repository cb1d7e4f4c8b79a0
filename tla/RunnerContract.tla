--------------------------- MODULE RunnerContract ---------------------------
(***************************************************************************)
(* What the harness may assume of runners/<client>/run.sh: the call ends   *)
(* once, either with one cell that has a status for each test and exit     *)
(* code 0, or with a nonzero exit code and no cell.                        *)
(***************************************************************************)
EXTENDS Cells

VARIABLES
    server,   \* the second argument
    offline,  \* whether the client can verify offline
    tls,      \* whether the client has a handshake test
    exit,     \* "running", "zero" or "nonzero"
    status    \* the status of each test in the cell printed, or NoStatus

vars == <<server, offline, tls, exit, status>>

Tests == {"parse", "verify", "handshake"}
NoStatus == [t \in Tests |-> "none"]

\* The cells a runner may print: every client can parse, a test is skipped where
\* the client or the server argument leaves no choice, and nowhere else.
LegalStatus(s) ==
    /\ s.parse \in {"ok", "fail"}
    /\ s.verify \in IF offline THEN {"ok", "fail"} ELSE {"skip"}
    /\ s.handshake \in HandshakeOutcomes(server, tls)

Init ==
    /\ server \in ServerArgs
    /\ offline \in BOOLEAN /\ tls \in BOOLEAN
    /\ exit = "running"
    /\ status = NoStatus

Report ==
    /\ exit = "running"
    /\ exit' = "zero"
    /\ status' \in [Tests -> Statuses]
    /\ LegalStatus(status')
    /\ UNCHANGED <<server, offline, tls>>

Break ==
    /\ exit = "running"
    /\ exit' = "nonzero"
    /\ UNCHANGED <<server, offline, tls, status>>

Next == Report \/ Break

Spec == Init /\ [][Next]_vars
=============================================================================
