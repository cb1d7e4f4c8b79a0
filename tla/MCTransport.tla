---------------------------- MODULE MCTransport ----------------------------
EXTENDS Transport

\* All rows but the second have a key; a sweep starts with a served row.
MCKeyed == Rows \ {2}
=============================================================================
