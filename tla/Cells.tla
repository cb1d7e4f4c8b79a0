------------------------------- MODULE Cells -------------------------------
(***************************************************************************)
(* The vocabulary of a matrix cell, shared by the harness and the runners: *)
(* the status of a test and what a client may report for the handshake,    *)
(* given the `server` argument it was invoked with.                        *)
(***************************************************************************)

Statuses == {"ok", "fail", "skip"}

NoServerArg == "-"
ServerArgs == {NoServerArg, "host:port"}

\* What a runner that exits 0 may report for the handshake test: a client with
\* no TLS test (bouncycastle) always skips it, the others skip it exactly when
\* there is no server.
HandshakeOutcomes(server, tls) ==
    IF server = NoServerArg \/ ~tls THEN {"skip"} ELSE {"ok", "fail"}
=============================================================================
