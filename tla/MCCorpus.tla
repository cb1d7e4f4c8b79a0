------------------------------ MODULE MCCorpus ------------------------------
EXTENDS Corpus

\* The catalyst chain is minted but not bundled here: its bundle is copied by
\* the same steps as any other.
MCChains == <<"mldsa65">>
=============================================================================
