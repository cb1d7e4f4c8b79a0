----------------------------- MODULE MCHarness -----------------------------
EXTENDS Harness

\* Two chains with a key in front of one that never has one would be the
\* catalogue in small; one of each is enough for every branch.
MCServable == {1}
MCAllServable == Chains
MCTlsClients == {1}

\* openssl verify names the certificate it checked, other clients do not; what
\* that client leaves is the evidence that may not open.
MCEchoing == {1}
MCLocked == (Chains \X MCEchoing) \X EvFiles
=============================================================================
