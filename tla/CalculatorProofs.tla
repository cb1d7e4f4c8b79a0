-------------------------- MODULE CalculatorProofs --------------------------
(***************************************************************************)
(* What is proved of the averages build-calculator-data.py publishes: the  *)
(* structure of a certificate by the mean of several, and the growth by    *)
(* SAN by the two ends of a ladder.                                        *)
(***************************************************************************)
EXTENDS PipelineProofs

-----------------------------------------------------------------------------
(* Means. *)

\* Division with a rest.
LEMMA DivisionFacts ==
    ASSUME NEW s \in Int, NEW n \in Nat, n > 0
    PROVE  /\ s \div n \in Int /\ s % n \in 0 .. n - 1
           /\ s = n * (s \div n) + (s % n)
BY SMT

\* round() of a mean is no further from it than half.
LEMMA RoundedFacts ==
    ASSUME NEW s \in Int
    PROVE  /\ Rounded(s, 149) \in Int
           /\ 2 * (149 * Rounded(s, 149) - s) \in -149 .. 149
BY SMT DEF Rounded

\* And it does not leave a range with whole ends.
LEMMA RoundedBetween ==
    ASSUME NEW s \in Int, NEW n \in Nat, n > 0, NEW lo \in Int, NEW hi \in Int,
           n * lo <= s, s <= n * hi
    PROVE  Rounded(s, n) \in lo .. hi
<1> DEFINE q == s \div n
           r == s % n
<1>1. q \in Int /\ r \in 0 .. n - 1 /\ s = n * q + r
    BY DivisionFacts
<1>2. Rounded(s, n) = IF 2 * r > n \/ (2 * r = n /\ q % 2 = 1) THEN q + 1 ELSE q
    BY DEF Rounded
<1> HIDE DEF q, r
<1>3. lo <= q
    <2>1. n * lo < n * (q + 1)
        BY <1>1, SMT
    <2> QED
        BY <1>1, <2>1, SMT
<1>4. q <= hi
    <2>1. n * q <= n * hi
        BY <1>1, SMT
    <2> QED
        BY <1>1, <2>1, SMT
<1>5. q = hi => r = 0
    BY <1>1, SMT
<1>6. CASE q = hi
    BY <1>1, <1>2, <1>3, <1>4, <1>5, <1>6, SMT
<1>7. CASE q # hi
    BY <1>1, <1>2, <1>3, <1>4, <1>7, SMT
<1> QED
    BY <1>6, <1>7

\* What sum() has after each element, when another function has the same: the
\* first place at which they differ would differ from its predecessor.
LEMMA TotalIs ==
    ASSUME NEW s \in Seq(Nat), NEW g \in [0 .. Len(s) -> Nat], g[0] = 0,
           \A i \in 1 .. Len(s) : g[i] = g[i - 1] + s[i]
    PROVE  Total(s) = g[Len(s)]
<1>1. PICK u \in [0 .. Len(s) -> Nat] :
          /\ u[0] = 0
          /\ \A i \in 1 .. Len(s) : u[i] = u[i - 1] + s[i]
          /\ Total(s) = u[Len(s)]
    BY TotalFacts
<1>2. Len(s) \in Nat
    OBVIOUS
<1> DEFINE Bad == {i \in 0 .. Len(s) : u[i] # g[i]}
<1>3. ASSUME Bad # {} PROVE FALSE
    <2>1. PICK n \in Bad : \A m \in Bad : n <= m
        <3>1. Bad \in SUBSET Nat
            BY <1>2
        <3> HIDE DEF Bad
        <3> QED
            BY <1>3, <3>1, LeastNatural
    <2>2. n \in 0 .. Len(s) /\ u[n] # g[n]
        OBVIOUS
    <2>3. n \in 1 .. Len(s) /\ n - 1 \in 0 .. Len(s) /\ ~(n <= n - 1)
        BY <1>1, <1>2, <2>2
    <2>4. u[n - 1] = g[n - 1]
        BY <2>1, <2>3
    <2>5. u[n] = u[n - 1] + s[n] /\ g[n] = g[n - 1] + s[n]
        BY <1>1, <2>3
    <2> QED
        BY <2>2, <2>4, <2>5
<1> QED
    BY <1>1, <1>2, <1>3

\* A sum of numbers of a range.
LEMMA TotalBetween ==
    ASSUME NEW s \in Seq(Nat), NEW lo \in Nat, NEW hi \in Nat,
           \A i \in 1 .. Len(s) : s[i] \in lo .. hi
    PROVE  Len(s) * lo <= Total(s) /\ Total(s) <= Len(s) * hi
<1>1. PICK u \in [0 .. Len(s) -> Nat] :
          /\ u[0] = 0
          /\ \A i \in 1 .. Len(s) : u[i] = u[i - 1] + s[i]
          /\ Total(s) = u[Len(s)]
    BY TotalFacts
<1>2. Len(s) \in Nat
    OBVIOUS
<1> DEFINE Bounds(i) == i * lo <= u[i] /\ u[i] <= i * hi
           Bad == {i \in 0 .. Len(s) : ~Bounds(i)}
<1>3. ASSUME Bad # {} PROVE FALSE
    <2>1. PICK n \in Bad : \A m \in Bad : n <= m
        <3>1. Bad \in SUBSET Nat
            BY <1>2
        <3> HIDE DEF Bad
        <3> QED
            BY <1>3, <3>1, LeastNatural
    <2>2. n \in 0 .. Len(s) /\ ~Bounds(n)
        OBVIOUS
    <2>3. n # 0
        BY <1>1, <2>2
    <2>4. n \in 1 .. Len(s) /\ n - 1 \in 0 .. Len(s) /\ ~(n <= n - 1)
        BY <1>2, <2>2, <2>3
    <2>5. n - 1 \notin Bad
        BY ONLY <2>1, <2>4
    <2>6. (n - 1) * lo <= u[n - 1] /\ u[n - 1] <= (n - 1) * hi
        BY <2>4, <2>5
    <2>7. u[n] = u[n - 1] + s[n] /\ s[n] \in lo .. hi /\ u[n - 1] \in Nat
        BY <1>1, <2>4
    <2>8. n * lo = (n - 1) * lo + lo /\ n * hi = (n - 1) * hi + hi
        BY <2>4, SMT
    <2>9. /\ n * lo \in Nat /\ n * hi \in Nat
          /\ (n - 1) * lo \in Nat /\ (n - 1) * hi \in Nat
        BY <2>4, SMT
    <2>10. n * lo <= u[n] /\ u[n] <= n * hi
        <3> DEFINE a == n * lo
                   b == n * hi
                   x == (n - 1) * lo
                   y == (n - 1) * hi
        <3>1. /\ a = x + lo /\ b = y + hi /\ x <= u[n - 1] /\ u[n - 1] <= y
              /\ a \in Nat /\ b \in Nat /\ x \in Nat /\ y \in Nat
            BY <2>6, <2>8, <2>9
        <3> HIDE DEF a, b, x, y
        <3>2. a <= u[n] /\ u[n] <= b
            BY <2>7, <3>1
        <3> QED
            BY <3>2 DEF a, b
    <2> QED
        BY <2>2, <2>10
<1>4. Bounds(Len(s))
    <2>1. Len(s) \in 0 .. Len(s)
        BY <1>2
    <2> HIDE DEF Bounds
    <2> QED
        BY <1>3, <2>1
<1> QED
    BY <1>1, <1>4

\* No element of a list of naturals is more than their sum.
LEMMA ElementIsNoMore ==
    ASSUME NEW s \in Seq(Nat), NEW j \in 1 .. Len(s)
    PROVE  s[j] <= Total(s)
<1>1. PICK u \in [0 .. Len(s) -> Nat] :
          /\ u[0] = 0
          /\ \A i \in 1 .. Len(s) : u[i] = u[i - 1] + s[i]
          /\ Total(s) = u[Len(s)]
    BY TotalFacts
<1>2. Len(s) \in Nat /\ j \in Nat /\ \A i \in 1 .. Len(s) : s[i] \in Nat
    OBVIOUS
<1> DEFINE Bad == {i \in j .. Len(s) : ~(s[j] <= u[i])}
<1>3. ASSUME Bad # {} PROVE FALSE
    <2>1. PICK n \in Bad : \A m \in Bad : n <= m
        <3>1. Bad \in SUBSET Nat
            BY <1>2
        <3> HIDE DEF Bad
        <3> QED
            BY <1>3, <3>1, LeastNatural
    <2>2. n \in j .. Len(s) /\ ~(s[j] <= u[n])
        OBVIOUS
    <2>3. n \in 1 .. Len(s) /\ n - 1 \in 0 .. Len(s) /\ ~(n <= n - 1)
        BY <1>2, <2>2
    <2>4. u[n] = u[n - 1] + s[n] /\ u[n - 1] \in Nat /\ s[n] \in Nat
        BY <1>1, <1>2, <2>3
    <2>5. n # j
        BY <2>2, <2>4
    <2>6. n - 1 \in j .. Len(s) /\ n - 1 \notin Bad
        BY <1>2, <2>1, <2>2, <2>3, <2>5
    <2>7. s[j] <= u[n - 1]
        BY <2>6
    <2> QED
        BY <1>2, <2>2, <2>4, <2>7
<1>4. Len(s) \in j .. Len(s)
    BY <1>2
<1> QED
    BY <1>1, <1>3, <1>4

-----------------------------------------------------------------------------
(* Lengths in closed form. *)

\* The bytes in front of a content, but for the tag.
Header(n) ==
    IF n < 128 THEN 1 ELSE IF n < 256 THEN 2 ELSE IF n < 256 * 256 THEN 3
    ELSE IF n < 256 * 256 * 256 THEN 4 ELSE 5

\* The length of an element, for the lengths DerLen writes.
LEMMA TlvFacts ==
    ASSUME NEW n \in Nat, n < 256 * 256 * 256 * 256
    PROVE  TlvSize(n) = 1 + Header(n) + n
<1>1. CASE n < 128
    <2>1. DerLen(n) = <<n>>
        BY <1>1, SMT DEF DerLen
    <2>2. Len(DerLen(n)) = 1
        BY <2>1
    <2> QED
        BY <1>1, <2>2, SMT DEF TlvSize, Header
<1>2. CASE n >= 128
    <2> DEFINE k == BytesOf(n)
               s == [i \in 1 .. k |-> (n \div Weight[k - i + 1]) % 256]
    <2>1. k \in 1 .. 4 /\ n \div Weight[k] \in 1 .. 255
        BY <1>2, BytesOfFacts, SMT
    <2>2. DerLen(n) = <<128 + k>> \o s
        <3>1. ~(n < 128)
            BY <1>2
        <3> QED
            BY <3>1, Zenon DEF DerLen
    <2>3. /\ Weight[1] = 1 /\ Weight[2] = 256 /\ Weight[3] = 256 * 256
          /\ Weight[4] = 256 * 256 * 256
        BY SMT DEF Weight
    <2> HIDE DEF k
    <2>4. 1 + k = Header(n)
        <3>1. CASE k = 1
            <4>1. n \div 1 \in 1 .. 255
                BY <2>1, <2>3, <3>1
            <4> QED
                BY <1>2, <3>1, <4>1, SMT DEF Header
        <3>2. CASE k = 2
            <4>1. n \div 256 \in 1 .. 255
                BY <2>1, <2>3, <3>2
            <4> QED
                BY <1>2, <3>2, <4>1, SMT DEF Header
        <3>3. CASE k = 3
            <4>1. n \div (256 * 256) \in 1 .. 255
                BY <2>1, <2>3, <3>3
            <4> QED
                BY <1>2, <3>3, <4>1, SMT DEF Header
        <3>4. CASE k = 4
            <4>1. n \div (256 * 256 * 256) \in 1 .. 255
                BY <2>1, <2>3, <3>4
            <4> QED
                BY <1>2, <3>4, <4>1, SMT DEF Header
        <3> QED
            BY <2>1, <3>1, <3>2, <3>3, <3>4, SMT
    <2>5. Len(<<128 + k>> \o s) = 1 + k
        <3>1. s = [i \in 1 .. k |-> s[i]]
            OBVIOUS
        <3>2. Len(s) = k /\ s \in Seq({s[i] : i \in 1 .. k})
            <4> HIDE DEF s
            <4> DEFINE S == {s[i] : i \in 1 .. k}
            <4>1. s \in [1 .. k -> S]
                BY <3>1
            <4> HIDE DEF S
            <4>2. s \in Seq(S)
                BY <2>1, <4>1, IsASeq
            <4>3. DOMAIN s = 1 .. k
                BY <3>1
            <4> QED
                BY <2>1, <4>2, <4>3 DEF S
        <3> DEFINE S == {s[i] : i \in 1 .. k} \cup {128 + k}
        <3>3. s \in Seq(S) /\ <<128 + k>> \in Seq(S) /\ Len(<<128 + k>>) = 1
            <4> HIDE DEF s
            <4>1. \A T : s \in Seq(T) => s \in Seq(T \cup {128 + k})
                OBVIOUS
            <4> QED
                BY <3>2, <4>1
        <3> HIDE DEF s, S
        <3> QED
            BY <2>1, <3>2, <3>3
    <2> HIDE DEF s
    <2>6. Len(DerLen(n)) = Header(n)
        BY <2>2, <2>4, <2>5
    <2> QED
        BY <2>6 DEF TlvSize
<1> QED
    BY <1>1, <1>2

\* A content that grows by less than 4,000 bytes has two bytes more in front of it
\* at most, and none less.
LEMMA HeaderGrows ==
    ASSUME NEW n \in Nat, NEW m \in Nat, n <= m, m < n + 4000
    PROVE  Header(n) \in 1 .. 5 /\ Header(m) - Header(n) \in 0 .. 2
BY SMT DEF Header

\* A certificate's length, its elements' headers written out.
BodyIs(tbs, alg, sig) ==
    3 + Header(tbs) + tbs + Header(alg) + alg + Header(sig + 1) + sig + 1

\* TotalSize in closed form.
LEMMA TotalSizeIs ==
    ASSUME NEW cert \in Certificates
    PROVE  /\ cert.tbs \in Nat /\ cert.alg \in Nat /\ cert.sig \in Nat
           /\ BodyIs(cert.tbs, cert.alg, cert.sig) \in Nat
           /\ TotalSize(cert) = 1 + Header(BodyIs(cert.tbs, cert.alg, cert.sig))
                                  + BodyIs(cert.tbs, cert.alg, cert.sig)
<1> DEFINE big == 256 * 256 * 256
           huge == 256 * 256 * 256 * 256
           x == cert.tbs
           y == cert.alg
           z == cert.sig
           tlv == [i \in 1 .. 3 |-> TlvSize(Contents(cert)[i])]
<1>1. x \in 0 .. big - 2 /\ y \in 0 .. big - 2 /\ z \in 0 .. big - 2
    BY DEF Certificates, Below2To24
<1>2. tlv = [i \in 1 .. 3 |-> TlvSize(<<x, y, z + 1>>[i])]
    BY DEF Contents
<1>3. big \in Nat /\ huge \in Nat /\ 3 * big + 18 < huge
    BY SMT
<1> HIDE DEF x, y, z, big
<1>4. /\ x \in Nat /\ y \in Nat /\ z \in Nat /\ z + 1 \in Nat
      /\ x < big /\ y < big /\ z + 1 < big
    BY <1>1, <1>3
<1>5. tlv[1] = TlvSize(x) /\ tlv[2] = TlvSize(y) /\ tlv[3] = TlvSize(z + 1)
    <2>1. \A i \in 1 .. 3 : tlv[i] = TlvSize(<<x, y, z + 1>>[i])
        BY <1>2
    <2> HIDE DEF tlv
    <2> QED
        BY <2>1
<1> HIDE DEF tlv
<1>6. \A n \in Nat : n < big => TlvSize(n) = 1 + Header(n) + n
    <2> SUFFICES ASSUME NEW n \in Nat, n < big PROVE TlvSize(n) = 1 + Header(n) + n
        OBVIOUS
    <2>1. n < 256 * 256 * 256 * 256
        BY <1>3
    <2> QED
        BY <2>1, TlvFacts
<1> HIDE DEF huge
<1>7. \A n \in Nat : Header(n) \in 1 .. 5
    BY DEF Header
<1>8. /\ tlv[1] = 1 + Header(x) + x /\ tlv[2] = 1 + Header(y) + y
      /\ tlv[3] = 1 + Header(z + 1) + (z + 1)
    BY <1>4, <1>5, <1>6
<1>9. tlv[1] \in Nat /\ tlv[2] \in Nat /\ tlv[3] \in Nat
    BY <1>4, <1>7, <1>8
<1>10. tlv \in Seq(Nat) /\ Len(tlv) = 3
    <2>1. \A i \in 1 .. 3 : tlv[i] \in Nat
        BY <1>9
    <2>2. tlv \in [1 .. 3 -> Nat]
        BY <1>2, <2>1
    <2> QED
        BY <2>2, ListOf
<1>11. Total(tlv) = tlv[1] + tlv[2] + tlv[3]
    <2>1. Len(tlv) <= 3
        BY <1>10
    <2>2. Total(tlv) = (IF Len(tlv) >= 1 THEN tlv[1] ELSE 0)
                          + (IF Len(tlv) >= 2 THEN tlv[2] ELSE 0)
                          + (IF Len(tlv) = 3 THEN tlv[3] ELSE 0)
        BY ONLY <1>10, <2>1, TotalOfThree
    <2> QED
        BY ONLY <1>10, <2>2
<1>12. BodySize(cert) = Total(tlv)
    BY DEF BodySize, tlv
<1>13. Header(x) \in 1 .. 5 /\ Header(y) \in 1 .. 5 /\ Header(z + 1) \in 1 .. 5
    BY <1>4, <1>7
<1>14. BodyIs(x, y, z) = BodySize(cert)
    BY ONLY <1>4, <1>8, <1>11, <1>12, <1>13 DEF BodyIs
<1>15. BodyIs(x, y, z) \in Nat /\ BodyIs(x, y, z) < huge
    BY <1>3, <1>4, <1>13 DEF BodyIs
<1>16. TotalSize(cert) = 1 + Header(BodyIs(x, y, z)) + BodyIs(x, y, z)
    <2>1. BodyIs(x, y, z) < 256 * 256 * 256 * 256
        BY <1>15 DEF huge
    <2> QED
        BY <1>14, <1>15, <2>1, TlvFacts DEF TotalSize
<1> QED
    BY <1>4, <1>15, <1>16 DEF x, y, z

-----------------------------------------------------------------------------
(* The ladder. *)

\* The names of a list, added up: the first has 13 bytes with its tag and length,
\* the others 18, 19 from alt10 and 20 from alt100 on.
NamesUpTo(i) ==
    IF i = 0 THEN 0
    ELSE IF i <= 10 THEN 13 + 18 * (i - 1)
    ELSE IF i <= 100 THEN 175 + 19 * (i - 10)
    ELSE 1885 + 20 * (i - 100)

\* SanNames in closed form, for lists longer than those of any ladder.
LEMMA SanNamesFacts ==
    ASSUME NEW n \in Nat, n <= 1000
    PROVE  SanNames(n) = NamesUpTo(n)
<1> DEFINE s == [i \in 1 .. n |-> TlvSize(SanName(i - 1))]
           g == [i \in 0 .. n |-> NamesUpTo(i)]
<1>1. ASSUME NEW i \in 1 .. n
      PROVE  /\ s[i] = IF i = 1 THEN 13 ELSE IF i <= 10 THEN 18
                       ELSE IF i <= 100 THEN 19 ELSE 20
             /\ s[i] \in Nat
    <2> DEFINE l == SanName(i - 1)
    <2>1. l = IF i = 1 THEN 11 ELSE IF i <= 10 THEN 16 ELSE IF i <= 100 THEN 17 ELSE 18
        BY DEF SanName
    <2>2. s[i] = TlvSize(l)
        OBVIOUS
    <2> HIDE DEF l, s
    <2>3. l \in 11 .. 18
        BY <2>1
    <2>4. TlvSize(l) = 1 + Header(l) + l
        BY <2>3, TlvFacts
    <2>5. Header(l) = 1
        BY <2>3 DEF Header
    <2> QED
        BY <2>1, <2>2, <2>3, <2>4, <2>5
<1>2. s \in Seq(Nat) /\ Len(s) = n
    <2>1. s \in [1 .. n -> Nat]
        BY <1>1
    <2> HIDE DEF s
    <2> QED
        BY <2>1, ListOf
<1>3. g \in [0 .. n -> Nat] /\ g[0] = 0
    <2>1. \A i \in 0 .. n : NamesUpTo(i) \in Nat
        BY DEF NamesUpTo
    <2>2. NamesUpTo(0) = 0
        BY DEF NamesUpTo
    <2> QED
        BY <2>1, <2>2
<1>4. ASSUME NEW i \in 1 .. n PROVE g[i] = g[i - 1] + s[i]
    <2>1. g[i] = NamesUpTo(i) /\ g[i - 1] = NamesUpTo(i - 1)
        OBVIOUS
    <2> HIDE DEF s, g
    <2> QED
        BY <1>1, <2>1 DEF NamesUpTo
<1>5. g[n] = NamesUpTo(n)
    OBVIOUS
<1> HIDE DEF g
<1>6. SanNames(n) = Total(s)
    BY DEF SanNames
<1> HIDE DEF s
<1> QED
    BY <1>2, <1>3, <1>4, <1>5, <1>6, TotalIs

\* The extension with one name and with those of the ladder.
LEMMA SanExtensionFacts ==
    /\ SanExtension(1) = 24 /\ SanExtension(10) = 189
    /\ SanExtension(50) = 952 /\ SanExtension(150) = 2902
<1>1. /\ SanNames(1) = 13 /\ SanNames(10) = 175
      /\ SanNames(50) = 935 /\ SanNames(150) = 2885
    BY SanNamesFacts DEF NamesUpTo
<1>2. \A n \in Nat : n < 128 => TlvSize(n) = n + 2
    <2> SUFFICES ASSUME NEW n \in Nat, n < 128 PROVE TlvSize(n) = n + 2
        OBVIOUS
    <2>1. TlvSize(n) = 1 + Header(n) + n
        BY TlvFacts
    <2> QED
        BY <2>1 DEF Header
<1>3. \A n \in 128 .. 255 : TlvSize(n) = n + 3
    <2> SUFFICES ASSUME NEW n \in 128 .. 255 PROVE TlvSize(n) = n + 3
        OBVIOUS
    <2>1. TlvSize(n) = 1 + Header(n) + n
        BY TlvFacts
    <2> QED
        BY <2>1 DEF Header
<1>4. \A n \in Nat : 256 <= n /\ n < 256 * 256 => TlvSize(n) = n + 4
    <2> SUFFICES ASSUME NEW n \in Nat, 256 <= n, n < 256 * 256
                 PROVE  TlvSize(n) = n + 4
        OBVIOUS
    <2>1. TlvSize(n) = 1 + Header(n) + n
        BY TlvFacts
    <2> QED
        BY <2>1 DEF Header
<1>5. SanExtension(1) = 24
    <2>1. TlvSize(13) = 15 /\ TlvSize(15) = 17 /\ TlvSize(22) = 24 /\ 5 + 17 = 22
        BY <1>2
    <2> QED
        BY <1>1, <2>1 DEF SanExtension
<1>6. SanExtension(10) = 189
    <2>1. TlvSize(175) = 178 /\ TlvSize(178) = 181 /\ TlvSize(186) = 189 /\ 5 + 181 = 186
        BY <1>3
    <2> QED
        BY <1>1, <2>1 DEF SanExtension
<1>7. SanExtension(50) = 952
    <2>1. TlvSize(935) = 939 /\ TlvSize(939) = 943 /\ TlvSize(948) = 952 /\ 5 + 943 = 948
        BY <1>4
    <2> QED
        BY <1>1, <2>1 DEF SanExtension
<1>8. SanExtension(150) = 2902
    <2>1. /\ TlvSize(2885) = 2889 /\ TlvSize(2889) = 2893 /\ TlvSize(2898) = 2902
          /\ 5 + 2893 = 2898
        BY <1>4
    <2> QED
        BY <1>1, <2>1 DEF SanExtension
<1> QED
    BY <1>5, <1>6, <1>7, <1>8

\* The number of names of a leaf.
LEMMA CountFacts ==
    /\ DOMAIN SanCount = {"leaf", "leaf-san10", "leaf-san50", "leaf-san150"}
    /\ SanCount["leaf"] = 1 /\ SanCount["leaf-san10"] = 10
    /\ SanCount["leaf-san50"] = 50 /\ SanCount["leaf-san150"] = 150
<1> DEFINE count(file) == CASE file = "leaf" -> 1 [] file = "leaf-san10" -> 10
                            [] file = "leaf-san50" -> 50 [] file = "leaf-san150" -> 150
<1>1. /\ DOMAIN SanCount = {"leaf", "leaf-san10", "leaf-san50", "leaf-san150"}
      /\ \A file \in DOMAIN SanCount : SanCount[file] = count(file)
    BY DEF SanCount, Rungs
<1>2. /\ count("leaf") = 1 /\ count("leaf-san10") = 10
      /\ count("leaf-san50") = 50 /\ count("leaf-san150") = 150
    OBVIOUS
<1> HIDE DEF count
<1> QED
    BY <1>1, <1>2

\* What a certificate has besides its key and its signature.
Other(cert) == TotalSize(cert) - cert.spki - cert.sig

\* A leaf of the ladder has the names of its list more than the leaf it is minted
\* after, up to 8 bytes in headers, and what a serial number differs by.
LEMMA LadderFacts ==
    ASSUME NEW leaf \in DOMAIN Sans[Control], NEW rung \in Rungs
    PROVE  LET san == Sans[Control][leaf][rung]
               names == SanExtension(SanCount[rung]) - 24
           IN /\ names \in Nat
              /\ Other(leaf) \in Int /\ Other(san) \in Int
              /\ Other(san) - Other(leaf) \in names - Spread .. names + Spread + 8
              /\ san.sig - leaf.sig \in -Spread .. Spread
              /\ TotalSize(san) - TotalSize(leaf) =
                     Other(san) - Other(leaf) + san.sig - leaf.sig
<1> DEFINE san == Sans[Control][leaf][rung]
           names == SanExtension(SanCount[rung]) - 24
<1>1. leaf \in Certificates /\ san \in Certificates
    <2>1. Control \in Ladder /\ Control \in Names
        BY PipelineAssumption
    <2>2. DOMAIN Sans[Control] = {v.leaf : v \in Variants[Control]}
        BY <2>1, PipelineAssumption
    <2>3. Sans[Control][leaf] \in [Rungs -> Certificates]
        BY <2>1, PipelineAssumption
    <2>4. PICK v \in Variants[Control] : leaf = v.leaf
        BY <2>2
    <2> QED
        BY <2>1, <2>3, <2>4, ChosenFits
<1>2. names \in {165, 928, 2878}
    <2>1. rung \in {"leaf-san10", "leaf-san50", "leaf-san150"}
        BY DEF Rungs
    <2>2. SanCount[rung] \in {10, 50, 150}
        BY <2>1, CountFacts
    <2> QED
        BY <2>1, <2>2, SanExtensionFacts
<1>3. /\ Spread \in 0 .. 64 /\ leaf.sig \in 8 .. 72 /\ san.sig \in 8 .. 72
      /\ san.spki = leaf.spki /\ san.alg = leaf.alg
      /\ san.sig - leaf.sig \in 0 - Spread .. Spread
      /\ (san.tbs - leaf.tbs) - names \in 0 - Spread .. 4 + Spread
    BY LadderAssumption, SanExtensionFacts
<1> DEFINE b == BodyIs(leaf.tbs, leaf.alg, leaf.sig)
           c == BodyIs(san.tbs, san.alg, san.sig)
<1>4. /\ leaf.tbs \in Nat /\ leaf.alg \in Nat /\ leaf.spki \in Nat /\ leaf.sig \in Nat
      /\ san.tbs \in Nat /\ b \in Nat /\ c \in Nat
      /\ TotalSize(leaf) = 1 + Header(b) + b /\ TotalSize(san) = 1 + Header(c) + c
    <2>1. leaf.tbs \in Nat /\ leaf.alg \in Nat /\ leaf.spki \in Nat /\ leaf.sig \in Nat
        BY <1>1, TotalSizeIs, CertificateFacts
    <2>2. b \in Nat /\ TotalSize(leaf) = 1 + Header(b) + b
        BY <1>1, TotalSizeIs
    <2>3. san.tbs \in Nat /\ c \in Nat /\ TotalSize(san) = 1 + Header(c) + c
        BY <1>1, TotalSizeIs
    <2> QED
        BY <2>1, <2>2, <2>3
<1> HIDE DEF names
<1> DEFINE x == leaf.tbs
           y == san.tbs
           p == leaf.sig
           q == san.sig
           k == leaf.spki
           l == leaf.alg
<1>5. /\ x \in Nat /\ y \in Nat /\ p \in 8 .. 72 /\ q \in 8 .. 72
      /\ Spread \in 0 .. 64 /\ q - p \in -Spread .. Spread
      /\ y - x \in names - Spread .. names + 4 + Spread
    BY <1>2, <1>3, <1>4
<1> HIDE DEF x, y, p, q, k, l
<1>6. x <= y /\ y < x + 4000 /\ names \in Nat
    BY <1>2, <1>5
<1>7. Header(y) - Header(x) \in 0 .. 2 /\ Header(x) \in 1 .. 5
    BY <1>5, <1>6, HeaderGrows
<1>8. Header(p + 1) = 1 /\ Header(q + 1) = 1
    BY <1>5 DEF Header
<1>9. c - b = (Header(y) - Header(x)) + (y - x) + (q - p)
    <2>1. Header(l) \in 1 .. 5 /\ l \in Nat /\ Header(y) \in Int
        BY <1>4 DEF Header, l
    <2>2. b = 3 + Header(x) + x + Header(l) + l + Header(p + 1) + p + 1
        BY DEF BodyIs, x, p, l
    <2>3. c = 3 + Header(y) + y + Header(l) + l + Header(q + 1) + q + 1
        BY <1>3 DEF BodyIs, y, q, l
    <2> HIDE DEF b, c
    <2> QED
        BY ONLY <1>5, <1>7, <1>8, <2>1, <2>2, <2>3
<1> HIDE DEF b, c
<1>10. b \in Nat /\ c \in Nat /\ b <= c /\ c < b + 4000
    BY <1>2, <1>4, <1>5, <1>7, <1>9
<1>11. Header(c) - Header(b) \in 0 .. 2 /\ Header(b) \in 1 .. 5
    BY <1>10, HeaderGrows
<1>12. /\ Other(leaf) = TotalSize(leaf) - k - p
       /\ Other(san) = TotalSize(san) - k - q
    BY <1>3 DEF Other, p, q, k
<1>13. /\ k \in Nat /\ Header(c) \in Int
       /\ TotalSize(leaf) = 1 + Header(b) + b /\ TotalSize(san) = 1 + Header(c) + c
    BY <1>4 DEF Header, k
<1>14. /\ Other(leaf) \in Int /\ Other(san) \in Int
       /\ Other(san) - Other(leaf) = (Header(c) - Header(b)) + (c - b) - (q - p)
    BY <1>5, <1>10, <1>11, <1>12, <1>13
<1>15. Other(san) - Other(leaf) \in names - Spread .. names + Spread + 8
    BY <1>2, <1>5, <1>7, <1>9, <1>11, <1>14
<1>16. TotalSize(san) - TotalSize(leaf) = Other(san) - Other(leaf) + q - p
    BY <1>4, <1>5, <1>10, <1>11, <1>12, <1>13
<1> QED
    BY <1>5, <1>6, <1>14, <1>15, <1>16 DEF names, p, q

-----------------------------------------------------------------------------
(* What build-calculator-data.py makes of sizes.json. *)

\* The certificates of sizes.json the program looks at.
LEMMA OneFacts ==
    ASSUME NEW of, Chosen(of), sizes.data = SizesOf(of), NEW f \in Files
    PROVE  LET cert == CertOf(of, f[1], f[2])
           IN /\ sizes.data[f].total = TotalSize(cert)
              /\ sizes.data[f].total - sizes.data[f].spki - sizes.data[f].signature
                     = Other(cert)
              /\ TotalSize(cert) \in Nat /\ cert.spki \in Nat /\ cert.sig \in Nat
              /\ Other(cert) \in Nat
<1> DEFINE cert == CertOf(of, f[1], f[2])
<1>1. cert \in Certificates
    BY CertOfFacts
<1>2. /\ sizes.data[f].total = TotalSize(cert) /\ sizes.data[f].spki = cert.spki
      /\ sizes.data[f].signature = cert.sig
    BY SizesOfFacts
<1> HIDE DEF cert
<1>3. /\ TotalSize(cert) \in Nat /\ cert.spki \in Nat /\ cert.sig \in Nat
      /\ TotalSize(cert) >= cert.spki + cert.sig
    BY <1>1, CertificateFacts
<1>4. Other(cert) \in Nat
    BY <1>3 DEF Other
<1> QED
    BY <1>2, <1>3, <1>4 DEF Other, cert

\* The mean of the chains is between the least and the greatest of them, and each
\* of them is.
IsAverage(a, of, kind) ==
    /\ a.lo \in Nat /\ a.hi \in Nat /\ a.mean \in a.lo .. a.hi
    /\ \A c \in ToSet(Averaged) : Other(CertOf(of, c, kind)) \in a.lo .. a.hi

\* structural() computes one.
LEMMA StructuralFacts ==
    ASSUME NEW of, Chosen(of), sizes.data = SizesOf(of), NEW kind \in Parts
    PROVE  IsAverage(Structural(kind), of, kind)
<1> DEFINE val(c) == One(c, kind).total - One(c, kind).spki - One(c, kind).signature
           n == Len(Averaged)
           vals == [i \in 1 .. n |-> val(Averaged[i])]
           T == ToSet(vals)
           sum == Total(vals)
<1>1. /\ n \in Nat /\ n > 0
      /\ ToSet(Averaged) = {Averaged[i] : i \in 1 .. n}
      /\ \A i \in 1 .. n : Averaged[i] \in Names
    <2>1. Averaged \in Seq(Names) /\ Control \in ToSet(Averaged)
        BY PipelineAssumption
    <2>2. n \in Nat /\ DOMAIN Averaged = 1 .. n /\ \A i \in 1 .. n : Averaged[i] \in Names
        BY <2>1
    <2>3. ToSet(Averaged) = {Averaged[i] : i \in 1 .. n}
        BY <2>2 DEF ToSet
    <2>4. n # 0
        BY <2>1, <2>2, <2>3
    <2> QED
        BY <2>2, <2>3, <2>4
<1>2. ASSUME NEW c \in Names
      PROVE  val(c) = Other(CertOf(of, c, kind)) /\ val(c) \in Nat
    <2>1. <<c, kind>> \in Files
        BY DEF Files
    <2>2. <<c, kind>>[1] = c /\ <<c, kind>>[2] = kind
        OBVIOUS
    <2> QED
        BY <2>1, <2>2, OneFacts DEF One
<1>3. Structural(kind) = [mean |-> Rounded(sum, Len(vals)), lo |-> Min(T), hi |-> Max(T)]
    BY DEF Structural
<1> HIDE DEF val, n
<1>4. vals \in Seq(Nat) /\ Len(vals) = n /\ T = {vals[i] : i \in 1 .. n}
    <2>1. vals \in [1 .. n -> Nat]
        BY <1>1, <1>2
    <2>2. DOMAIN vals = 1 .. n
        OBVIOUS
    <2> HIDE DEF vals
    <2>3. vals \in Seq(Nat) /\ Len(vals) = n
        BY <1>1, <2>1, ListOf
    <2> QED
        BY <2>2, <2>3 DEF ToSet
<1>5. \A i \in 1 .. n : vals[i] = val(Averaged[i]) /\ vals[i] \in Nat
    BY <1>1, <1>2
<1> HIDE DEF vals, T
<1>6. T \in SUBSET Nat /\ T # {}
    <2>1. 1 \in 1 .. n
        BY <1>1
    <2> QED
        BY <1>4, <1>5, <2>1
<1>7. Min(T) \in T /\ \A y \in T : Min(T) <= y
    <2>1. PICK x \in T : \A y \in T : x <= y
        BY <1>6, LeastNatural
    <2> QED
        BY <2>1, MinFacts
<1>8. Max(T) \in T /\ \A y \in T : y <= Max(T)
    <2>1. \A i \in 1 .. n : vals[i] <= sum
        BY <1>4, ElementIsNoMore
    <2>2. \A x \in T : x <= sum
        BY <1>4, <2>1
    <2>3. sum \in Nat
        BY <1>4, TotalType
    <2> HIDE DEF sum
    <2> QED
        BY <1>6, <2>2, <2>3, MaxFacts
<1>9. Min(T) \in Nat /\ Max(T) \in Nat /\ \A i \in 1 .. n : vals[i] \in Min(T) .. Max(T)
    <2>1. Min(T) \in Nat /\ Max(T) \in Nat
        BY <1>6, <1>7, <1>8
    <2> SUFFICES ASSUME NEW i \in 1 .. n PROVE vals[i] \in Min(T) .. Max(T)
        BY <2>1
    <2>2. vals[i] \in T /\ vals[i] \in Nat
        BY <1>4, <1>5
    <2> QED
        BY <1>7, <1>8, <2>1, <2>2
<1>10. Rounded(sum, n) \in Min(T) .. Max(T)
    <2> DEFINE lo == Min(T)
               hi == Max(T)
    <2>1. n * lo <= sum /\ sum <= n * hi
        <3>1. Len(vals) * lo <= Total(vals) /\ Total(vals) <= Len(vals) * hi
            <4> HIDE DEF lo, hi
            <4>1. lo \in Nat /\ hi \in Nat /\ \A i \in 1 .. Len(vals) : vals[i] \in lo .. hi
                BY <1>4, <1>9 DEF lo, hi
            <4> QED
                BY <1>4, <4>1, TotalBetween
        <3> QED
            BY <1>4, <3>1
    <2>2. sum \in Int /\ lo \in Int /\ hi \in Int
        BY <1>4, <1>9, TotalType
    <2> HIDE DEF sum, lo, hi
    <2>3. Rounded(sum, n) \in lo .. hi
        BY <1>1, <2>1, <2>2, RoundedBetween
    <2> QED
        BY <2>3 DEF lo, hi
<1>11. \A c \in ToSet(Averaged) : Other(CertOf(of, c, kind)) \in Min(T) .. Max(T)
    <2> SUFFICES ASSUME NEW c \in ToSet(Averaged)
                 PROVE  Other(CertOf(of, c, kind)) \in Min(T) .. Max(T)
        OBVIOUS
    <2>1. PICK i \in 1 .. n : c = Averaged[i]
        BY <1>1
    <2>2. c \in Names
        BY <1>1, <2>1
    <2> QED
        BY <1>2, <1>5, <1>9, <2>1, <2>2
<1>12. /\ Structural(kind).mean = Rounded(sum, n)
       /\ Structural(kind).lo = Min(T) /\ Structural(kind).hi = Max(T)
    BY <1>3, <1>4
<1> QED
    BY <1>9, <1>10, <1>11, <1>12 DEF IsAverage

\* The slope of the ladder, in hundredths of a byte, to half of one for a name.
Ends(of) == TotalSize(Sans[Control][of[Control].leaf]["leaf-san150"])
                - TotalSize(of[Control].leaf)
IsSlope(slope, of) ==
    slope \in Int /\ 2 * (149 * slope - 100 * Ends(of)) \in -149 .. 149

\* The program computes one.
LEMMA PerSanFacts ==
    ASSUME NEW of, Chosen(of), sizes.data = SizesOf(of)
    PROVE  IsSlope(PerSan, of)
<1> DEFINE long == <<Control, "leaf-san150">>
           short == <<Control, "leaf">>
<1>1. Control \in Ladder /\ Control \in Names
    BY PipelineAssumption
<1>2. long \in Files /\ short \in Files
    BY <1>1 DEF Files, Rungs, Parts
<1>3. /\ CertOf(of, Control, "leaf") = of[Control].leaf
      /\ CertOf(of, Control, "leaf-san150") =
             Sans[Control][of[Control].leaf]["leaf-san150"]
    BY DEF CertOf, Parts
<1>4. /\ long[1] = Control /\ long[2] = "leaf-san150"
      /\ short[1] = Control /\ short[2] = "leaf"
    OBVIOUS
<1> HIDE DEF long, short
<1>5. sizes.data[long].total - sizes.data[short].total = Ends(of) /\ Ends(of) \in Int
    <2>1. /\ sizes.data[long].total = TotalSize(CertOf(of, long[1], long[2]))
          /\ TotalSize(CertOf(of, long[1], long[2])) \in Nat
        BY <1>2, OneFacts
    <2>2. /\ sizes.data[short].total = TotalSize(CertOf(of, short[1], short[2]))
          /\ TotalSize(CertOf(of, short[1], short[2])) \in Nat
        BY <1>2, OneFacts
    <2> QED
        BY <1>3, <1>4, <2>1, <2>2 DEF Ends
<1>6. SanCount["leaf-san150"] - SanCount["leaf"] = 149
    BY CountFacts
<1>7. /\ One(Control, "leaf-san150").total = sizes.data[long].total
      /\ One(Control, "leaf").total = sizes.data[short].total
    BY DEF One, long, short
<1>8. PerSan = Rounded(100 * Ends(of), 149)
    BY <1>5, <1>6, <1>7 DEF PerSan
<1>9. 100 * Ends(of) \in Int
    BY <1>5
<1> QED
    BY <1>8, <1>9, RoundedFacts DEF IsSlope

-----------------------------------------------------------------------------
(* The errors of a price, in hundredths of a byte. *)

\* Of any certificate: what the mean is off by, and the growth.
LEMMA PriceFacts ==
    ASSUME NEW cert \in Certificates, NEW d, NEW kind, NEW n \in Nat,
           d.structural[kind].mean \in Int, d.perSan \in Int
    PROVE  Price(d, kind, Measure(cert), n) - 100 * Measure(cert).total
               = 100 * (d.structural[kind].mean - Other(cert)) + d.perSan * (n - 1)
<1> DEFINE k == cert.spki
           s == cert.sig
           t == TotalSize(cert)
           mean == d.structural[kind].mean
           growth == d.perSan * (n - 1)
<1>1. /\ Measure(cert).spki = k /\ Measure(cert).signature = s
      /\ Measure(cert).total = t
    BY MeasureFacts
<1>2. k \in Nat /\ s \in Nat /\ t \in Nat
    BY CertificateFacts
<1>3. Other(cert) = t - k - s
    BY DEF Other
<1>4. growth \in Int
    BY SMT
<1>5. Price(d, kind, Measure(cert), n) = 100 * (mean + k + s) + growth
    BY <1>1 DEF Price
<1>6. mean \in Int
    OBVIOUS
<1> HIDE DEF k, s, t, growth, mean
<1>7. 100 * (mean + k + s) + growth - 100 * t = 100 * (mean - (t - k - s)) + growth
    BY <1>2, <1>4, <1>6
<1>8. Price(d, kind, Measure(cert), n) - 100 * Measure(cert).total
          = 100 * (mean - Other(cert)) + growth
    BY ONLY <1>1, <1>2, <1>3, <1>4, <1>5, <1>6, <1>7
<1> QED
    BY <1>8 DEF growth, mean

\* Of a leaf of the ladder: what the mean is off by, and what the growth of its names
\* is from the line through the ends. g is the growth of this leaf, e that of the
\* longest, s what the signature of that one has more.
LEMMA LineFacts ==
    ASSUME NEW n \in {10, 50, 150}, NEW names, NEW g \in Int, NEW e \in Int, NEW s \in Int,
           names = IF n = 10 THEN 165 ELSE IF n = 50 THEN 928 ELSE 2878,
           Spread \in 0 .. 64, s \in -Spread .. Spread,
           g \in names - Spread .. names + Spread + 8,
           e \in 2878 - Spread .. 2878 + Spread + 8,
           n = 150 => g = e,
           NEW slope \in Int, 2 * (149 * slope - 100 * (e + s)) \in -149 .. 149
    PROVE  slope * (n - 1) - 100 * g \in -200 * Spread - 100 .. 200 * Spread + 2200
<1>1. CASE n = 10
    <2>1. 149 * (slope * 9) = 9 * (149 * slope)
        OBVIOUS
    <2> QED
        BY <1>1, <2>1
<1>2. CASE n = 50
    BY <1>2
<1>3. CASE n = 150
    BY <1>3
<1> QED
    BY <1>1, <1>2, <1>3

\* The averages of a calculator that is whole.
AveragesAre(d, of) ==
    /\ Chosen(of)
    /\ \A kind \in Parts : IsAverage(d.structural[kind], of, kind)
    /\ IsSlope(d.perSan, of)

\* They price the certificates they are of.
LEMMA AveragedPriced ==
    ASSUME NEW d, NEW of, AveragesAre(d, of), NEW kind \in Parts,
           NEW c \in ToSet(Averaged)
    PROVE  LET m == Measure(CertOf(of, c, kind))
               range == 100 * (d.structural[kind].hi - d.structural[kind].lo)
           IN Price(d, kind, m, 1) - 100 * m.total \in 0 - range .. range
<1> DEFINE cert == CertOf(of, c, kind)
           m == Measure(cert)
           a == d.structural[kind]
           lo == a.lo
           hi == a.hi
           mean == a.mean
           slope == d.perSan
           o == Other(cert)
<1>1. c \in Names
    <2>1. Averaged \in Seq(Names)
        BY PipelineAssumption
    <2> QED
        BY <2>1 DEF ToSet
<1>2. cert \in Certificates
    <2>1. <<c, kind>> \in Files /\ <<c, kind>>[1] = c /\ <<c, kind>>[2] = kind
        BY <1>1 DEF Files
    <2>2. Chosen(of)
        BY DEF AveragesAre
    <2>3. CertOf(of, <<c, kind>>[1], <<c, kind>>[2]) \in Certificates
        BY ONLY <2>1, <2>2, CertOfFacts
    <2> QED
        BY <2>1, <2>3
<1>3. lo \in Nat /\ hi \in Nat /\ mean \in lo .. hi /\ o \in lo .. hi /\ slope \in Int
    BY DEF AveragesAre, IsAverage, IsSlope
<1>4. mean \in Int /\ 1 \in Nat
    <2> HIDE DEF lo, hi, mean
    <2> QED
        BY <1>3
<1>5. Price(d, kind, m, 1) - 100 * m.total = 100 * (mean - o) + slope * (1 - 1)
    BY ONLY <1>2, <1>3, <1>4, PriceFacts
<1> HIDE DEF cert, a, lo, hi, mean, slope
<1> DEFINE error == Price(d, kind, m, 1) - 100 * m.total
           range == 100 * (hi - lo)
<1> HIDE DEF m, o
<1>7. error \in 0 - range .. range
    BY <1>3, <1>5 DEF error
<1> QED
    BY <1>7 DEF m, cert, hi, lo, a, error

\* And the leaves of the ladder.
LEMMA LadderPriced ==
    ASSUME NEW d, NEW of, AveragesAre(d, of), NEW rung \in DOMAIN SanCount
    PROVE  LET m == Measure(CertOf(of, Control, rung))
               range == 100 * (d.structural["leaf"].hi - d.structural["leaf"].lo)
               spread == 200 * Spread
           IN Price(d, "leaf", m, SanCount[rung]) - 100 * m.total \in
                  0 - range - spread - 100 .. range + spread + 2200
<1> DEFINE leaf == of[Control].leaf
           long == Sans[Control][leaf]["leaf-san150"]
           cert == CertOf(of, Control, rung)
           m == Measure(cert)
           a == d.structural["leaf"]
           lo == a.lo
           hi == a.hi
           mean == a.mean
           slope == d.perSan
           n == SanCount[rung]
<1>1. Control \in Ladder /\ Control \in Names /\ Control \in ToSet(Averaged)
    BY PipelineAssumption
<1>2. leaf \in DOMAIN Sans[Control] /\ leaf \in Certificates
    <2>1. of[Control] \in Variants[Control]
        BY <1>1 DEF AveragesAre, Chosen
    <2>2. DOMAIN Sans[Control] = {v.leaf : v \in Variants[Control]}
        BY <1>1, PipelineAssumption
    <2> QED
        BY <1>1, <2>1, <2>2, ChosenFits
<1>3. \A f \in Rungs : Sans[Control][leaf][f] \in Certificates
    <2>1. Sans[Control][leaf] \in [Rungs -> Certificates]
        BY <1>1, <1>2, PipelineAssumption
    <2> QED
        BY <2>1
<1>4. /\ CertOf(of, Control, "leaf") = leaf
      /\ \A f \in Rungs : CertOf(of, Control, f) = Sans[Control][leaf][f]
    BY DEF CertOf, Parts, Rungs
<1>5. rung = "leaf" \/ rung \in Rungs
    BY CountFacts DEF Rungs
<1>6. cert \in Certificates
    BY <1>2, <1>3, <1>4, <1>5
<1>7. /\ lo \in Nat /\ hi \in Nat /\ mean \in lo .. hi
      /\ Other(leaf) \in lo .. hi
      /\ slope \in Int /\ 2 * (149 * slope - 100 * Ends(of)) \in -149 .. 149
    BY <1>1, <1>4 DEF AveragesAre, IsAverage, IsSlope, Parts
<1>8. Ends(of) = TotalSize(long) - TotalSize(leaf)
    BY DEF Ends
<1>9. n \in Nat
    BY CountFacts
<1>10. mean \in Int
    <2> HIDE DEF lo, hi, mean
    <2> QED
        BY <1>7
<1>11. Price(d, "leaf", m, n) - 100 * m.total
           = 100 * (mean - Other(cert)) + slope * (n - 1)
    BY ONLY <1>6, <1>7, <1>9, <1>10, PriceFacts
<1> HIDE DEF leaf, long, cert, a, lo, hi, mean, slope, n
<1> DEFINE error == Price(d, "leaf", m, n) - 100 * m.total
           range == 100 * (hi - lo)
           spread == 200 * Spread
           o == Other(leaf)
           g == Other(cert) - o
           line == slope * (n - 1) - 100 * g
<1>12. error = 100 * (mean - Other(cert)) + slope * (n - 1)
    BY <1>11
<1>13. Spread \in 0 .. 64
    BY LadderAssumption
<1> HIDE DEF m
<1>14. /\ line \in -200 * Spread - 100 .. 200 * Spread + 2200
       /\ g \in Int
    <2>1. CASE rung = "leaf"
        <3>1. n = 1 /\ cert = leaf /\ o \in Int
            BY <1>4, <1>7, <2>1, CountFacts DEF n, cert
        <3> QED
            BY <1>7, <1>13, <3>1
    <2>2. CASE rung \in Rungs
        <3> DEFINE names == SanExtension(n) - 24
                   e == Other(long) - o
                   s == long.sig - leaf.sig
        <3>1. cert = Sans[Control][leaf][rung]
            BY <1>4, <2>2 DEF cert
        <3>2. /\ g \in names - Spread .. names + Spread + 8
              /\ o \in Int /\ Other(cert) \in Int
            BY <1>2, <2>2, <3>1, LadderFacts DEF n
        <3>3. /\ e \in SanExtension(150) - 24 - Spread .. SanExtension(150) - 24 + Spread + 8
              /\ Other(long) \in Int /\ s \in -Spread .. Spread
              /\ TotalSize(long) - TotalSize(leaf) = Other(long) - o + long.sig - leaf.sig
            <4>1. "leaf-san150" \in Rungs /\ SanCount["leaf-san150"] = 150
                BY CountFacts DEF Rungs
            <4> QED
                BY <1>2, <4>1, LadderFacts DEF long
        <3>4. n \in {10, 50, 150}
              /\ names = IF n = 10 THEN 165 ELSE IF n = 50 THEN 928 ELSE 2878
            BY <2>2, CountFacts, SanExtensionFacts DEF Rungs, n
        <3>5. n = 150 => g = e
            <4>1. n = 150 => rung = "leaf-san150"
                BY <2>2, CountFacts DEF Rungs, n
            <4> QED
                BY <3>1, <4>1 DEF long
        <3>6. Ends(of) = e + s
            <4>1. leaf.sig \in Int /\ long.sig \in Int
                <5>1. long \in Certificates
                    BY <1>3 DEF long, Rungs
                <5> QED
                    BY <1>2, <5>1, CertificateFacts
            <4> QED
                BY <1>8, <3>2, <3>3, <4>1
        <3>7. g \in Int /\ e \in Int /\ s \in Int
            BY <1>13, <3>2, <3>3
        <3>8. e \in 2878 - Spread .. 2878 + Spread + 8
            BY <3>3, SanExtensionFacts
        <3> HIDE DEF g, e, s, names, o
        <3>9. slope * (n - 1) - 100 * g \in -200 * Spread - 100 .. 200 * Spread + 2200
            BY <1>7, <1>13, <3>2, <3>3, <3>4, <3>5, <3>6, <3>7, <3>8, LineFacts
        <3> QED
            BY <3>7, <3>9
    <2> QED
        BY <1>5, <2>1, <2>2
<1>15. /\ o \in Int /\ Other(cert) = o + g /\ slope * (n - 1) \in Int
       /\ mean - o \in lo - hi .. hi - lo
    <2>1. o \in Int /\ Other(cert) \in Int
        BY <1>6, <1>7, CertificateFacts DEF Other
    <2> HIDE DEF o
    <2>2. Other(cert) = o + g
        BY <2>1
    <2>3. slope * (n - 1) \in Int
        BY <1>7, <1>9, SMT
    <2>4. mean - o \in lo - hi .. hi - lo
        BY <1>7, <2>1 DEF o
    <2> QED
        BY <2>1, <2>2, <2>3, <2>4
<1>16. error \in 0 - range - spread - 100 .. range + spread + 2200
    <2> DEFINE growth == slope * (n - 1)
    <2>1. error = 100 * (mean - (o + g)) + growth
        BY <1>12, <1>15
    <2>2. growth - 100 * g \in -200 * Spread - 100 .. 200 * Spread + 2200
        BY <1>14
    <2>3. growth \in Int
        BY <1>15
    <2> HIDE DEF growth, o, g, error
    <2> QED
        BY <1>7, <1>13, <1>14, <1>15, <2>1, <2>2, <2>3
<1> QED
    BY <1>16 DEF m, cert, hi, lo, a, n

-----------------------------------------------------------------------------
(* The invariant and the theorem. *)

\* A calculator-data.json that is whole averages certificates that were minted.
AveragesInv == calculator.whole => AveragesAre(calculator.data, calculator.of)

\* What the program prints has the averages of what sizes.json is of.
LEMMA OutputAverages ==
    ASSUME SizesAre, sizes.whole
    PROVE  AveragesAre(Output, sizes.of)
<1>1. Chosen(sizes.of) /\ sizes.data = SizesOf(sizes.of)
    BY DEF SizesAre
<1>2. /\ \A kind \in Parts : Output.structural[kind] = Structural(kind)
      /\ Output.perSan = PerSan
    BY DEF Output
<1>3. \A kind \in Parts : IsAverage(Structural(kind), sizes.of, kind)
    BY <1>1, StructuralFacts
<1>4. IsSlope(PerSan, sizes.of)
    BY <1>1, PerSanFacts
<1> QED
    BY <1>1, <1>2, <1>3, <1>4 DEF AveragesAre

\* Only build-calculator-data.py writes the file, from a whole sizes.json.
LEMMA AveragesNext == IInv /\ AveragesInv /\ [Next]_vars => AveragesInv'
<1> SUFFICES ASSUME IInv, AveragesInv, [Next]_vars PROVE AveragesInv'
    OBVIOUS
<1>1. CASE BuildCalculator
    <2>1. CASE calculator' = Torn
        BY <2>1, FileFacts DEF AveragesInv
    <2>2. CASE Computes /\ calculator' = Whole(Output, sizes.of)
        <3>1. SizesAre /\ sizes.whole
            BY <2>2 DEF IInv, Computes
        <3>2. AveragesAre(Output, sizes.of)
            BY <3>1, OutputAverages
        <3>3. calculator'.data = Output /\ calculator'.of = sizes.of
            BY <2>2, FileFacts
        <3> QED
            BY <3>2, <3>3 DEF AveragesInv
    <2> QED
        BY <1>1, <2>1, <2>2 DEF BuildCalculator
<1>2. CASE UNCHANGED calculator
    BY <1>2 DEF AveragesInv
<1>3. BuildCalculator \/ UNCHANGED calculator
    BY DEF Next, Mint, Bundle, Sizes, Compress, Sweep, Report, vars, derived
<1> QED
    BY <1>1, <1>2, <1>3

\* Every price it gives is within its range.
LEMMA AveragesPredict == AveragesInv => StructuralPredicts
<1> SUFFICES ASSUME AveragesInv, calculator.whole PROVE StructuralPredicts
    BY DEF StructuralPredicts
<1>1. AveragesAre(calculator.data, calculator.of)
    BY DEF AveragesInv
<1> DEFINE d == calculator.data
           of == calculator.of
           range(kind) == 100 * (d.structural[kind].hi - d.structural[kind].lo)
           error(c, kind, part, names) ==
               LET m == Measure(CertOf(of, c, part))
               IN Price(d, kind, m, names) - 100 * m.total
<1>2. \A kind \in Parts, c \in ToSet(Averaged) :
          error(c, kind, kind, 1) \in 0 - range(kind) .. range(kind)
    BY <1>1, AveragedPriced
<1>3. \A rung \in DOMAIN SanCount :
          error(Control, "leaf", rung, SanCount[rung]) \in
              0 - range("leaf") - 200 * Spread - 100 ..
                  range("leaf") + 200 * Spread + 2200
    BY <1>1, LadderPriced
<1> QED
    BY <1>2, <1>3, Zenon DEF StructuralPredicts

\* The sum of structure, key and signature prices each certificate the averages are
\* of to within the range published with them, and with the growth by SAN each leaf
\* of the ladder to within that range, the signatures and serial numbers, and a
\* name: for certificates of any length, whichever chains are averaged.
THEOREM PricesAreInRange == Spec => []StructuralPredicts
<1>1. Init => AveragesInv
    BY FileFacts DEF Init, AveragesInv
<1>2. IInv /\ AveragesInv /\ [Next]_vars => AveragesInv'
    BY AveragesNext
<1>3. AveragesInv => StructuralPredicts
    BY AveragesPredict
<1> QED
    BY <1>1, <1>2, <1>3, Invariance, PTL DEF Spec
=============================================================================
