------------------------------ MODULE Pipeline ------------------------------
(***************************************************************************)
(* From certificates to published figures.  gen/sizes.py walks the DER of  *)
(* the corpus and writes sizes.json and SIZES.md.  The harness copies the  *)
(* corpus into bundles; phase3/compressibility.py compresses their         *)
(* chain.pem and writes compression.json; phase3/transport.py serves their *)
(* certificates, attributes the bytes of each handshake (analyze) and      *)
(* writes transport.json, which phase3/report.py turns into TRANSPORT.md;  *)
(* tools/build-calculator-data.py turns sizes.json and transport.json into *)
(* calculator-data.json.                                                   *)
(*                                                                         *)
(* They are run by hand, in any order, and read whatever the others left:  *)
(* files of before a re-mint, bundles copied by half, rows of failed       *)
(* captures, rows of captures that hold a part of the handshake, files a   *)
(* killed program has torn.  Of each certificate and message the model has *)
(* the lengths.                                                            *)
(***************************************************************************)
EXTENDS Compression

CONSTANTS
    CHAINS,       \* the chains of the sweep, in its order
    Committed,    \* the chains of a checkout, by name
    Variants,     \* the chains a minting can produce, by name
    Control,      \* the chain the growth by SAN is measured on
    Ladder,       \* the chains with leaves of 10, 50 and 150 SANs, of which
    Sans,         \* Sans[c][leaf] are those minted along with the leaf
    MlDsa,        \* the chains whose leaf's fields are compressed alone
    Spread,       \* what the lengths of two of its leaves' signatures differ
                  \* by, and those of their serial numbers
    Averaged,     \* the chains the structural averages are of, in their order
    CvSizes,      \* the lengths of a CertificateVerify, by chain
    Tickets,      \* the total lengths of NewSessionTickets a client may see
    Priced,       \* the chains whose row the calculator's ALGS is made from
    DER,          \* the typed-in sizes in build-calculator-data.py, by chain
    MaxCalls      \* bound: programs run

Names == ToSet(CHAINS)
Parts == {"leaf", "int"}
Rungs == {"leaf-san10", "leaf-san50", "leaf-san150"}
SanCount == [file \in {"leaf"} \cup Rungs |->
    CASE file = "leaf" -> 1 [] file = "leaf-san10" -> 10
      [] file = "leaf-san50" -> 50 [] file = "leaf-san150" -> 150]
Files == (Names \X Parts) \cup (Ladder \X Rungs)

\* A certificate by the lengths of its parts, its key one of the TBS part; TLS
\* cannot carry one of more than 2^24 - 1 bytes, of which one before a signature
\* counts its unused bits.
Below2To24 == 0 .. 256 * 256 * 256 - 2
Certificates ==
    {cert \in [tbs : Below2To24, alg : Below2To24, spki : Below2To24,
               sig : Below2To24] : cert.spki <= cert.tbs}

ASSUME PipelineAssumption ==
    /\ CHAINS \in Seq(Names)
    /\ DOMAIN Variants = Names /\ DOMAIN CvSizes = Names
    /\ \A c \in Names :
           /\ Variants[c] \subseteq [leaf : Certificates, int : Certificates]
           /\ CvSizes[c] \subseteq Nat
    /\ Tickets \subseteq Nat
    /\ DOMAIN Committed = Names /\ \A c \in Names : Committed[c] \in Variants[c]
    /\ DER \in [DOMAIN DER -> Nat] /\ DOMAIN DER \subseteq Names
    /\ Priced \subseteq Names
    /\ Control \in Ladder /\ Ladder \subseteq Names
    /\ \A c \in Ladder :
           /\ DOMAIN Sans[c] = {v.leaf : v \in Variants[c]}
           /\ \A leaf \in DOMAIN Sans[c] : Sans[c][leaf] \in [Rungs -> Certificates]
    /\ MlDsa \subseteq Names
    /\ Averaged \in Seq(Names) /\ Control \in ToSet(Averaged)
    /\ MaxCalls \in Nat

VARIABLES
    calls,        \* programs run so far
    corpus,       \* the certificates, by chain and part
    bundles,      \* results/bundles: the certificates served, and chain.pem
    sizes,        \* gen/sizes.json
    sizesTable,   \* SIZES.md
    compression,  \* phase3/compression.json
    transport,    \* phase3/transport.json
    report,       \* phase3/TRANSPORT.md
    calculator    \* calculator-data.json

certificates == <<corpus, bundles>>
derived == <<report, calculator>>
vars == <<calls, certificates, sizes, sizesTable, compression, transport,
          derived>>

\* A file is whole, or was emptied and not filled.  Only the model knows the
\* certificates a file is of.
Torn == [whole |-> FALSE]
Whole(data, of) == [whole |-> TRUE, data |-> data, of |-> of]
-----------------------------------------------------------------------------
(* DER.  A length below 128 is one byte; above, one byte with the number   *)
(* of bytes that follow, big-endian.                                       *)

Weight == <<1, 256, 256 * 256, 256 * 256 * 256>>
BytesOf(n) == CHOOSE k \in 1 .. 4 : n \div Weight[k] \in 1 .. 255
DerLen(n) ==
    IF n < 128 THEN <<n>>
    ELSE LET k == BytesOf(n)
         IN <<128 + k>> \o [i \in 1 .. k |-> (n \div Weight[k - i + 1]) % 256]

\* What sizes.py makes of the bytes after a tag: the length and where the
\* content begins.
LittleEndian(bytes) ==    \* slip: the byte order
    LET from[i \in 1 .. Len(bytes) + 1] ==
            IF i > Len(bytes) THEN 0 ELSE from[i + 1] * 256 + bytes[i]
    IN from[1]
BigEndian(bytes) ==
    LET upTo[i \in 0 .. Len(bytes)] ==
            IF i = 0 THEN 0 ELSE upTo[i - 1] * 256 + bytes[i]
    IN upTo[Len(bytes)]
ReadLen(bytes) ==
    IF bytes[1] < 128
    THEN [length |-> bytes[1], header |-> 1]
    ELSE LET n == bytes[1] % 128
         IN [length |-> BigEndian(SubSeq(bytes, 2, 1 + n)), header |-> 1 + n]

TlvSize(n) == 1 + Len(DerLen(n)) + n

\* san_list() and leaf_ext(): matrix.test, then alt1.matrix.test and so on, in
\* a list in a string in an extension with its OID.
SanName(i) ==
    IF i = 0 THEN 11 ELSE 15 + (IF i < 10 THEN 1 ELSE IF i < 100 THEN 2 ELSE 3)
SanNames(n) == Total([i \in 1 .. n |-> TlvSize(SanName(i - 1))])
SanExtension(n) == TlvSize(5 + TlvSize(TlvSize(SanNames(n))))

\* A leaf of the ladder has the key of the leaf it is minted after, and its list of
\* names in place of one, which the two headers around the extensions may grow with;
\* a serial number and a P-256 signature are its own.
ASSUME LadderAssumption ==
    /\ Spread \in 0 .. 64
    /\ \A leaf \in DOMAIN Sans[Control] :
           /\ leaf.sig \in 8 .. 72
           /\ \A rung \in Rungs :
                  LET san == Sans[Control][leaf][rung]
                  IN /\ san.spki = leaf.spki /\ san.alg = leaf.alg
                     /\ san.sig \in 8 .. 72
                     /\ san.sig - leaf.sig \in 0 - Spread .. Spread
                     /\ (san.tbs - leaf.tbs)
                            - (SanExtension(SanCount[rung]) - SanExtension(1))
                        \in 0 - Spread .. 4 + Spread

\* A certificate by the lengths of its three elements: the contents of the
\* TBS part, with the key in it, of the algorithm, and of the signature.
Contents(cert) == <<cert.tbs, cert.alg, cert.sig + 1>>
BodySize(cert) == Total([i \in 1 .. 3 |-> TlvSize(Contents(cert)[i])])
TotalSize(cert) == TlvSize(BodySize(cert))

\* der_children: the lengths the walk finds in a body, element by element; it
\* lands on the next tag if it has read the length of the last one right.
Walk(cert) ==
    [i \in 1 .. 3 |-> ReadLen(DerLen(Contents(cert)[i])).length]

NoUnusedBits(walk) == walk[3]    \* slip: the unused-bits byte counted in
SignatureOf(walk) == walk[3] - 1
Measure(cert) ==
    [total |-> TotalSize(cert), spki |-> cert.spki,
     signature |-> SignatureOf(Walk(cert)),
     other |-> TotalSize(cert) - cert.spki - SignatureOf(Walk(cert))]
CertOf(chains, c, part) ==
    IF part \in Parts THEN chains[c][part] ELSE Sans[c][chains[c].leaf][part]
SizesOf(chains) == [f \in Files |-> Measure(CertOf(chains, f[1], f[2]))]

\* SIZES.md: the wire cost of each chain, and the ladders.
Tables(rows) ==
    [wire |-> [c \in Names |->
                  rows[<<c, "int">>].total + rows[<<c, "leaf">>].total],
     ladder |-> [f \in Ladder \X DOMAIN SanCount |-> rows[f].total]]

\* A checkout has its sizes; the other files are made anew.
Init ==
    /\ calls = 0
    /\ corpus = Committed
    /\ bundles = [c \in Names |-> [served |-> Committed[c],
                                  pem |-> Whole(Committed[c], c)]]
    /\ sizes = Whole(SizesOf(corpus), corpus)
    /\ sizesTable = Whole(Tables(SizesOf(corpus)), corpus)
    /\ compression = Torn /\ transport = Torn
    /\ report = Torn /\ calculator = Torn

Call == calls < MaxCalls /\ calls' = calls + 1

\* mint_chain, or catalyst_build.py, as seen from here.
Mint ==
    /\ Call
    /\ \E c \in Names :
           \E v \in Variants[c] : corpus' = [corpus EXCEPT ![c] = v]
    /\ UNCHANGED <<bundles, sizes, sizesTable, compression, transport, derived>>

\* sizes.py writes sizes.json, then SIZES.md; it may be killed in between or in
\* the middle of either.
Sizes ==
    /\ Call
    /\ LET rows == SizesOf(corpus)
       IN \/ sizes' = Torn /\ UNCHANGED sizesTable
          \/ /\ sizes' = Whole(rows, corpus)
             /\ \/ UNCHANGED sizesTable
                \/ sizesTable' \in {Torn, Whole(Tables(rows), corpus)}
    /\ UNCHANGED <<certificates, compression, transport, derived>>
-----------------------------------------------------------------------------
(* harness.py's bundle(), and what compressibility.py makes of chain.pem.  *)

\* leaf.crt, root.crt and int.crt are copied, then chain.pem is written from
\* the source.
LeafOnly(chain) == <<TotalSize(chain.leaf)>>    \* slip: the intermediate left out
Lengths(chain) == <<TotalSize(chain.leaf), TotalSize(chain.int)>>
Bundle ==
    /\ Call
    /\ \E c \in Names :
           \E pem \in {bundles[c].pem, Torn, Whole(corpus[c], c)} :
               bundles' = [bundles EXCEPT ![c] =
                              [served |-> corpus[c], pem |-> pem]]
    /\ UNCHANGED <<corpus, sizes, sizesTable, compression, transport, derived>>

\* An empty chain.pem ends the program before it writes.
Compress ==
    /\ Call
    /\ LET pem == [c \in Names |-> bundles[c].pem]
           row(c) == ChainRow(Lengths(pem[c].data))
       IN IF \A c \in Names : pem[c].whole
          THEN compression' \in
                   {Torn,
                    Whole([chains |-> [c \in Names |-> row(c)],
                           fields |-> [c \in MlDsa |->
                               [spki |-> FieldRow("spki", pem[c].data.leaf.spki),
                                signature |->
                                    FieldRow("signature", pem[c].data.leaf.sig)]]],
                          [c \in Names |-> pem[c].data])}
          ELSE UNCHANGED compression
    /\ UNCHANGED <<certificates, sizes, sizesTable, transport, derived>>
-----------------------------------------------------------------------------
(* transport.py: what analyze() makes of a capture.                        *)

\* The body of a Certificate message, and the constant messages around it.
CertificateSize(chain) ==
    1 + 3 + (3 + TotalSize(chain.leaf) + 2) + (3 + TotalSize(chain.int) + 2)
ServerHello == 1206
EncryptedExtensions == 2
Finished == 48

\* The messages of the server in the order of the handshake.
Handshake(chain, cv, ticket) ==
    <<<<"ServerHello", ServerHello>>,
      <<"EncryptedExtensions", EncryptedExtensions>>,
      <<"Certificate", CertificateSize(chain)>>,
      <<"CertificateVerify", cv>>, <<"Finished", Finished>>,
      <<"NewSessionTicket", ticket>>, <<"NewSessionTicket", ticket>>>>

\* What a capture holds of it, and what tshark finds in that: it may end early; the
\* keys may not be in the key log, and only ServerHello is sent in the clear; it may
\* begin late, when without the hellos nothing is decrypted; it may be empty.
Views == {"all", "head", "undecrypted", "late", "nothing"}
Captured(h, view) ==
    CASE view \in {"all", "undecrypted"} -> h
      [] view = "head"    -> SubSeq(h, 1, 4)
      [] view = "late"    -> SubSeq(h, 4, Len(h))
      [] view = "nothing" -> <<>>
Seen(h, view) ==
    CASE view = "undecrypted"         -> SubSeq(h, 1, 1)
      [] view \in {"late", "nothing"} -> <<>>
      [] OTHER                        -> Captured(h, view)

\* The longest record of a message: with a header of 4 bytes, in pieces of no
\* more than 16384, and 17 bytes more once the records are encrypted.
RecordOf(m) ==
    IF m[1] = "ServerHello" THEN m[2] + 4 ELSE Min({m[2] + 4, 16384}) + 17

NamesIn(msgs) == {msgs[i][1] : i \in DOMAIN msgs}
BytesIn(msgs, name) ==
    Total([i \in 1 .. Len(msgs) |-> IF msgs[i][1] = name THEN msgs[i][2] ELSE 0])

HS_NAMES == <<"ServerHello", "EncryptedExtensions", "Certificate",
              "CertificateVerify", "Finished", "NewSessionTicket">>
SumOf(messages, names) ==
    Total([i \in 1 .. Len(HS_NAMES) |->
              IF HS_NAMES[i] \in names THEN messages[HS_NAMES[i]] ELSE 0])

\* Everything but NewSessionTicket, which the server sends after Finished.
AllMessages(messages) ==    \* slip: the tickets counted in
    SumOf(messages, DOMAIN messages)
Flight(messages) == SumOf(messages, DOMAIN messages \ {"NewSessionTicket"})

\* The messages that were found, and the records of all that was captured.
Analyze(msgs, captured) ==
    LET messages == [n \in NamesIn(msgs) |-> BytesIn(msgs, n)]
    IN [messages |-> messages, flight |-> Flight(messages),
        largest |-> Max({0} \cup {RecordOf(captured[i]) : i \in DOMAIN captured})]

ErrorRow == [error |-> TRUE]
RowOf(h, view) ==
    [error |-> FALSE, data |-> Analyze(Seen(h, view), Captured(h, view))]

\* The rows without compression; a chain without a key has none.  How a row
\* comes about, an error or a part of a handshake, is the module Transport.
Sweep ==
    /\ Call
    /\ \/ transport' = Torn
       \/ \E keyed \in SUBSET Names, ticket \in Tickets :
              \E result \in [keyed -> Views \cup {"error"}],
                 cv \in [keyed -> UNION {CvSizes[c] : c \in keyed}] :
                  /\ \A c \in keyed : cv[c] \in CvSizes[c]
                  /\ transport' = Whole(
                         [c \in keyed |->
                             IF result[c] = "error" THEN ErrorRow
                             ELSE RowOf(Handshake(bundles[c].served, cv[c],
                                                  ticket), result[c])],
                         [c \in Names |-> bundles[c].served])
    /\ UNCHANGED <<certificates, sizes, sizesTable, compression, derived>>
-----------------------------------------------------------------------------
(* report.py. *)

IW == 10
MSS == {1460, 1360}
RECORD_LIMIT == 16384
RoundedDown(bytes, mss) == bytes \div mss    \* slip: // for ceil
Segments(bytes, mss) == (bytes + mss - 1) \div mss

Fits(flight) ==
    CASE \A v \in MSS : Segments(flight, v) <= IW -> "yes"
      [] \A v \in MSS : Segments(flight, v) > IW  -> "no"
      [] OTHER -> "borderline"

Measured(rows) == {c \in DOMAIN rows : ~rows[c].error}
FlightOf(rows, c) == rows[c].data.flight
Has(rows, c, name) ==
    /\ c \in Measured(rows)
    /\ name \in DOMAIN rows[c].data.messages
MessageOf(rows, c, name) == rows[c].data.messages[name]

Fitting(rows) ==
    {c \in Measured(rows) : Segments(FlightOf(rows, c), 1460) <= IW}

\* fitting[-1] after rows.sort, which is stable: of the heaviest that fit, the
\* last of the sweep.
PlaceOf(c) == CHOOSE i \in DOMAIN CHAINS : CHAINS[i] = c
Before(rows, c, d) ==
    \/ FlightOf(rows, c) < FlightOf(rows, d)
    \/ FlightOf(rows, c) = FlightOf(rows, d) /\ PlaceOf(c) <= PlaceOf(d)
Heaviest(rows) ==
    CHOOSE c \in Fitting(rows) : \A d \in Fitting(rows) : Before(rows, d, c)

Biggest(rows) == Max({rows[c].data.largest : c \in Measured(rows)})

Table(rows) ==
    [fits     |-> [c \in Measured(rows) |-> Fits(FlightOf(rows, c))],
     flight   |-> [c \in Measured(rows) |-> FlightOf(rows, c)],
     certificate |-> [c \in {d \in Measured(rows) : Has(rows, d, "Certificate")}
                        |-> MessageOf(rows, c, "Certificate")],
     heaviest |-> Heaviest(rows),
     headroom |-> RECORD_LIMIT - Biggest(rows)]

\* max() of no rows and fitting[-1] of no chain that fits raise, as does a torn
\* transport.json: all before the file is touched.
Report ==
    /\ Call
    /\ IF transport.whole /\ Fitting(transport.data) # {}
       THEN report' \in {Torn, Whole(Table(transport.data), transport.of)}
       ELSE UNCHANGED report
    /\ UNCHANGED <<certificates, sizes, sizesTable, compression, transport,
                   calculator>>
-----------------------------------------------------------------------------
(* build-calculator-data.py, its output redirected into the file.          *)

SameFraming(rows) == TRUE    \* slip: the assertion dropped
FramingIs14(rows) ==
    {MessageOf(rows, c, "Certificate") - DER[c] :
        c \in DOMAIN rows \cap DOMAIN DER} = {14}

FixedSizes(rows) ==
    {FlightOf(rows, c) - MessageOf(rows, c, "Certificate")
       - MessageOf(rows, c, "CertificateVerify") : c \in DOMAIN rows}

ErrorsSkipped(rows) == Measured(rows)    \* slip: error rows passed over
Tmap(rows) == DOMAIN rows

\* What has to be so for the program to reach its print().  tmap holds error
\* rows, too; server_messages of one raises.
Computes ==
    /\ sizes.whole /\ transport.whole
    /\ LET rows == Restrict(transport.data, Tmap(transport.data))
       IN /\ Priced \subseteq DOMAIN rows
          /\ \A c \in DOMAIN rows :
                 /\ Has(rows, c, "Certificate")
                 /\ Has(rows, c, "CertificateVerify")
          /\ FramingIs14(rows)
          /\ Cardinality(FixedSizes(rows)) = 1

\* round() of the mean: a half goes to the even neighbour.
Rounded(sum, n) ==
    LET q == sum \div n  rest == 2 * (sum % n)
    IN IF rest > n \/ (rest = n /\ q % 2 = 1) THEN q + 1 ELSE q

\* What a certificate has besides its key and its signature.
FirstRow(c, kind) == sizes.data[<<c, "int">>]    \* slip: any file of the chain
One(c, kind) == sizes.data[<<c, kind>>]
Structural(kind) ==
    LET of(c) == One(c, kind).total - One(c, kind).spki - One(c, kind).signature
        vals == [i \in 1 .. Len(Averaged) |-> of(Averaged[i])]
    IN [mean |-> Rounded(Total(vals), Len(vals)),
        lo |-> Min(ToSet(vals)), hi |-> Max(ToSet(vals))]

\* Hundredths of a byte for a SAN, from the two ends of the ladder.
PerSan ==
    Rounded(100 * (One(Control, "leaf-san150").total - One(Control, "leaf").total),
            SanCount["leaf-san150"] - SanCount["leaf"])

Output ==
    LET rows == Restrict(transport.data, Tmap(transport.data))
    IN [structural |-> [kind \in Parts |-> Structural(kind)],
        perSan |-> PerSan,
        fixed |-> CHOOSE n \in FixedSizes(rows) : TRUE,
        algorithms |-> [c \in Priced |->
            [spki |-> One(c, "leaf").spki, sig |-> One(c, "leaf").signature,
             cv |-> MessageOf(rows, c, "CertificateVerify")]],
        chains |-> [c \in DOMAIN rows |->
            [certificate |-> MessageOf(rows, c, "Certificate"),
             flight |-> FlightOf(rows, c)]]]

\* The shell empties the file before the program starts.
BuildCalculator ==
    /\ Call
    /\ \/ calculator' = Torn
       \/ Computes /\ calculator' = Whole(Output, sizes.of)
    /\ UNCHANGED <<certificates, sizes, sizesTable, compression, transport,
                   report>>
-----------------------------------------------------------------------------
Next ==
    \/ Mint \/ Bundle
    \/ Sizes \/ Compress \/ Sweep
    \/ Report \/ BuildCalculator

Spec == Init /\ [][Next]_vars
-----------------------------------------------------------------------------
Sized == [total : Nat, spki : Nat, signature : Nat, other : Nat]

TypeOK ==
    /\ calls \in 0 .. MaxCalls
    /\ \A c \in Names : corpus[c] \in Variants[c]
                       /\ bundles[c].served \in Variants[c]
    /\ sizes.whole => sizes.data \in [Files -> Sized]
    /\ transport.whole => DOMAIN transport.data \subseteq Names
    /\ report.whole => report.data.heaviest \in DOMAIN report.data.fits
    /\ calculator.whole => Priced \subseteq DOMAIN calculator.data.chains

\* sizes.py finds the signature of every certificate, whatever form the
\* lengths before it have, and the three parts it reports add up.
SizesAreExact ==
    [][sizes' # sizes /\ sizes'.whole =>
         \A f \in Files :
             LET m == sizes'.data[f] cert == CertOf(corpus, f[1], f[2])
             IN /\ m.signature = cert.sig
                /\ m.total = m.spki + m.signature + m.other]_vars

\* The flight of a whole capture is what the client waits for before it can
\* send Finished: the same, however many session tickets followed, and however
\* long they were.
FlightEndsWithFinished ==
    transport.whole =>
        \A c \in Measured(transport.data) :
            LET m == transport.data[c].data.messages
            IN {"ServerHello", "Finished"} \subseteq DOMAIN m =>
                   FlightOf(transport.data, c) =
                       ServerHello + EncryptedExtensions + Finished
                         + CertificateSize(transport.of[c]) + m["CertificateVerify"]

\* The table of TRANSPORT.md says yes up to 13,600 bytes, no above 14,600, and
\* borderline between; and the heaviest chain that fits, which the text names,
\* is heavier than all that fit and lighter than all that pay a round trip.  The
\* text says that no chain fragments across records, whatever was measured; but
\* when one does, the headroom it prints is negative.
ReportIsRight ==
    report.whole =>
        LET r == report.data
        IN /\ \A c \in DOMAIN r.fits :
                  r.fits[c] = CASE r.flight[c] <= 13600 -> "yes"
                                [] r.flight[c] > 14600  -> "no"
                                [] OTHER                -> "borderline"
           /\ r.flight[r.heaviest] <= 14600
           /\ \A c \in DOMAIN r.flight :
                  r.flight[c] <= r.flight[r.heaviest] \/ r.flight[c] > 14600
           /\ r.headroom >= 0 =>
                  \A c \in DOMAIN r.certificate : r.certificate[c] + 4 <= 16384

\* Three programs measure the same certificates in three ways: openssl and the
\* DER walk (SIZES.md), chain.pem decoded (compression.json), the wire
\* (transport.json).  Where two of them have seen the same chain they agree: on
\* the bytes of the chain, on the key and signature of its leaf, and up to 14
\* bytes of framing on the Certificate message.
WireFiguresAgree ==
    compression.whole => \A c \in Names :
        LET raw == compression.data.chains[c].raw
        IN /\ (sizesTable.whole /\ sizesTable.of[c] = compression.of[c])
                  => sizesTable.data.wire[c] = raw
           /\ (sizes.whole /\ sizes.of[c] = compression.of[c] /\ c \in MlDsa)
                  => LET leaf == sizes.data[<<c, "leaf">>]
                         fields == compression.data.fields[c]
                     IN /\ fields.spki.raw = leaf.spki
                        /\ fields.signature.raw = leaf.signature
           /\ (transport.whole /\ Has(transport.data, c, "Certificate")
               /\ transport.of[c] = compression.of[c])
                  => MessageOf(transport.data, c, "Certificate") = raw + 14

\* cert_bytes = structural + key + signature: the sum the calculator prices
\* certificates by is off by no more than the range it publishes, for every
\* certificate the average is of; and with the growth by SAN, measured on the
\* ends of a ladder whose names get longer, for the leaves of the ladder by no
\* more than that, what their signatures and serial numbers differ by, and in
\* addition a byte below and a name above.
Price(d, kind, m, names) ==
    100 * (d.structural[kind].mean + m.spki + m.signature) + d.perSan * (names - 1)
StructuralPredicts ==
    calculator.whole =>
        LET d == calculator.data
            range(kind) == 100 * (d.structural[kind].hi - d.structural[kind].lo)
            error(c, kind, part, names) ==
                LET m == Measure(CertOf(calculator.of, c, part))
                IN Price(d, kind, m, names) - 100 * m.total
            spread == 200 * Spread
        IN /\ \A kind \in Parts, c \in ToSet(Averaged) :
                  error(c, kind, kind, 1) \in 0 - range(kind) .. range(kind)
           /\ \A rung \in DOMAIN SanCount :
                  error(Control, "leaf", rung, SanCount[rung]) \in
                      0 - range("leaf") - spread - 100 ..
                          range("leaf") + spread + 2200

\* The formula the calculator publishes (a fixed part, 4 bytes and 5 for each
\* certificate, the certificates, the CertificateVerify) gives back the flight
\* it was measured from, for every chain it prices; a re-mint of other sizes or
\* a capture of a part of the handshake makes the program fail instead.
FormulaGivesMeasurement ==
    calculator.whole =>
        LET d == calculator.data
        IN \A c \in Priced \cap DOMAIN DER :
               d.chains[c].flight =
                   d.fixed + 4 + 2 * 5 + DER[c] + d.algorithms[c].cv

\* A chain of transport.json is in the calculator or there is no calculator: no
\* failed capture drops one in silence.
CalculatorLosesNoChain ==
    [][calculator' # calculator /\ calculator'.whole =>
         DOMAIN calculator'.data.chains = DOMAIN transport.data]_vars
=============================================================================
