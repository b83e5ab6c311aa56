---------------------------- MODULE Report_proofs ---------------------------
(***************************************************************************)
(* Proofs about Report for every set of latencies, of counts, of           *)
(* percentiles and every order of the map.                                 *)
(***************************************************************************)
EXTENDS Report, FiniteSetTheorems, SequenceTheorems, TLAPS

\* What a whole text has: the sizes, the map and the percentiles.
Orders(latMap) == SetToSeqs(DOMAIN latMap)
Size(latMap) == Cardinality(DOMAIN latMap)

\* Of a result no more is needed than that it is one.
LEMMA ResultType ==
    ASSUME NEW r \in Results
    PROVE  /\ r = [mcount |-> r.mcount, latMap |-> r.latMap, percentiles |-> r.percentiles]
           /\ IsFiniteSet(DOMAIN r.latMap) /\ Size(r.latMap) \in Nat
           /\ r.latMap = [b \in DOMAIN r.latMap |-> r.latMap[b]]
           /\ r.percentiles \in [1..NPerc -> Counts]
           /\ NPerc \in Nat \ {0}
<1>1. PICK l \in LatMaps, p \in [1..NPerc -> Counts] :
        r = [mcount |-> Total(l) + NumConn, latMap |-> l, percentiles |-> p]
  BY DEF Results
<1>2. PICK D \in SUBSET Buckets : l \in [D -> Counts]
  BY DEF LatMaps
<1>3. IsFiniteSet(D)
  BY BucketsAssumption, FS_Subset
<1>4. DOMAIN r.latMap = D /\ r.latMap = [b \in DOMAIN r.latMap |-> r.latMap[b]]
  BY <1>1, <1>2
<1> QED
  BY <1>1, <1>3, <1>4, FS_CardinalityType, NPercAssumption DEF Size

\* An order of the map has every key once.
LEMMA OrderType ==
    ASSUME NEW D, IsFiniteSet(D), NEW order \in SetToSeqs(D)
    PROVE  /\ order \in Seq(D) /\ Len(order) = Cardinality(D) /\ Len(order) \in Nat
           /\ \A b \in D : \E i \in 1..Len(order) : order[i] = b
           /\ \A i, j \in 1..Len(order) : order[i] = order[j] => i = j
<1> DEFINE n == Cardinality(D)
<1>1. n \in Nat
  BY FS_CardinalityType
<1>2. order \in [1..n -> D] /\ \A i, j \in 1..n : i # j => order[i] # order[j]
  BY DEF SetToSeqs
<1>3. order \in Injection(1..n, D)
  BY <1>2, Zenon DEF Injection, IsInjective
<1>4. order \in Surjection(1..n, D)
  BY <1>1, <1>3, FS_Injection, FS_Interval
<1>5. order \in Seq(D) /\ Len(order) = n
  BY <1>1, <1>2
<1> QED
  BY <1>1, <1>2, <1>4, <1>5 DEF Surjection

Joins(t, p, q) == t = p \o q
IsOfLen(s, U, n) == s \in Seq(U) /\ Len(s) = n
Holds(t, k, p, n) == \A i \in 1..n : t[k + i] = p[i]

\* A joined sequence has the parts in their places.
LEMMA ConcatParts ==
    ASSUME NEW U, NEW a, NEW b, NEW p, NEW q, NEW t, a \in Nat, b \in Nat,
           IsOfLen(p, U, a), IsOfLen(q, U, b), Joins(t, p, q)
    PROVE  IsOfLen(t, U, a + b) /\ Holds(t, 0, p, a) /\ Holds(t, a, q, b)
<1>1. /\ t \in Seq(U) /\ Len(t) = a + b
      /\ \A i \in 1..(a + b) : t[i] = IF i <= a THEN p[i] ELSE q[i - a]
  BY ConcatProperties DEF Joins, IsOfLen
<1>2. ASSUME NEW i \in 1..b PROVE t[a + i] = q[i]
  <2>1. a + i \in 1..(a + b) /\ ~(a + i <= a) /\ a + i - a = i
    OBVIOUS
  <2> QED
    BY <1>1, <2>1
<1>3. ASSUME NEW i \in 1..a PROVE t[0 + i] = p[i]
  <2>1. 0 + i \in 1..(a + b) /\ 0 + i <= a /\ 0 + i = i
    OBVIOUS
  <2> QED
    BY <1>1, <2>1
<1> QED
  BY <1>1, <1>2, <1>3 DEF IsOfLen, Holds

\* The same of four parts.
LEMMA JoinedParts ==
    ASSUME NEW U, NEW a, NEW b, NEW h, NEW p, NEW g, NEW q, NEW hp, NEW hpg, NEW t,
           a \in Nat, b \in Nat,
           IsOfLen(h, U, 2), IsOfLen(p, U, a), IsOfLen(g, U, 1), IsOfLen(q, U, b),
           Joins(hp, h, p), Joins(hpg, hp, g), Joins(t, hpg, q)
    PROVE  /\ IsOfLen(t, U, 3 + a + b)
           /\ Holds(t, 0, h, 2) /\ Holds(t, 2, p, a)
           /\ Holds(t, 2 + a, g, 1) /\ Holds(t, 3 + a, q, b)
<1>1. IsOfLen(hp, U, 2 + a) /\ Holds(hp, 0, h, 2) /\ Holds(hp, 2, p, a)
  BY 2 \in Nat, ConcatParts
<1>2. IsOfLen(hpg, U, 2 + a + 1) /\ Holds(hpg, 0, hp, 2 + a) /\ Holds(hpg, 2 + a, g, 1)
  BY <1>1, 2 + a \in Nat, 1 \in Nat, ConcatParts
<1>3. 2 + a + 1 = 3 + a /\ 3 + a \in Nat
  OBVIOUS
<1>4. IsOfLen(t, U, 3 + a + b) /\ Holds(t, 0, hpg, 3 + a) /\ Holds(t, 3 + a, q, b)
  BY <1>2, <1>3, ConcatParts
<1>5. Holds(t, 0, h, 2)
  <2> SUFFICES ASSUME NEW i \in 1..2 PROVE t[0 + i] = h[i]
    BY DEF Holds
  <2>1. 0 + i = i /\ i \in 1..(2 + a) /\ i \in 1..(3 + a)
    OBVIOUS
  <2> QED
    BY <1>1, <1>2, <1>4, <2>1 DEF Holds
<1>6. Holds(t, 2, p, a)
  <2> SUFFICES ASSUME NEW i \in 1..a PROVE t[2 + i] = p[i]
    BY DEF Holds
  <2>1. /\ 2 + i \in 1..(2 + a) /\ 2 + i \in 1..(3 + a)
        /\ 0 + (2 + i) = 2 + i
    OBVIOUS
  <2> QED
    BY <1>1, <1>2, <1>4, <2>1 DEF Holds
<1>7. Holds(t, 2 + a, g, 1)
  <2> SUFFICES ASSUME NEW i \in 1..1 PROVE t[2 + a + i] = g[i]
    BY DEF Holds
  <2>1. 2 + a + i \in 1..(3 + a) /\ 0 + (2 + a + i) = 2 + a + i
    OBVIOUS
  <2> QED
    BY <1>2, <1>4, <2>1 DEF Holds
<1> QED
  BY <1>4, <1>5, <1>6, <1>7

\* What a whole text has in which place.
LEMMA SerializedParts ==
    ASSUME NEW r \in Results, NEW order \in Orders(r.latMap),
           NEW m, m = Size(r.latMap), NEW full, full = Serialized(r, order)
    PROVE  /\ \E U : full \in Seq(U)
           /\ Len(full) = 3 + 2 * m + NPerc
           /\ full[1] = r.mcount /\ full[2] = m
           /\ \A i \in 1..m : /\ full[2 * i + 1] = order[i]
                              /\ full[2 * i + 2] = r.latMap[order[i]]
           /\ full[3 + 2 * m] = NPerc
           /\ \A i \in 1..NPerc : full[3 + 2 * m + i] = r.percentiles[i]
<1> DEFINE p == Pairs(r.latMap, order)
           q == r.percentiles
<1>1. m \in Nat /\ NPerc \in Nat \ {0} /\ Len(order) = m
  BY ResultType, OrderType DEF Orders, Size
<1>2. p = [i \in 1..(2 * m) |->
             IF i % 2 = 1 THEN order[(i + 1) \div 2] ELSE r.latMap[order[i \div 2]]]
  BY <1>1 DEF Pairs
<1>3. q \in [1..NPerc -> Counts]
  BY ResultType
<1> DEFINE U == {p[i] : i \in 1..(2 * m)} \cup Counts \cup {r.mcount, m, NPerc}
<1>4. p \in Seq(U) /\ Len(p) = 2 * m
  <2>1. p \in [1..(2 * m) -> U]
    BY <1>2
  <2>2. 2 * m \in Nat
    BY <1>1
  <2> QED
    BY <2>1, <2>2
<1>5. q \in Seq(U) /\ Len(q) = NPerc
  <2>1. q \in [1..NPerc -> U]
    BY <1>3
  <2> QED
    BY <1>1, <2>1
<1>6. \A i \in 1..m : p[2 * i - 1] = order[i] /\ p[2 * i] = r.latMap[order[i]]
  <2> TAKE i \in 1..m
  <2>1. /\ 2 * i - 1 \in 1..(2 * m) /\ (2 * i - 1) % 2 = 1 /\ ((2 * i - 1) + 1) \div 2 = i
        /\ 2 * i \in 1..(2 * m) /\ (2 * i) % 2 = 0 /\ (2 * i) \div 2 = i
    BY <1>1
  <2> HIDE DEF p
  <2> QED
    BY <1>2, <2>1
<1>7. full = <<r.mcount, m>> \o p \o <<NPerc>> \o q
  BY <1>1 DEF Serialized
<1>8. PICK a \in U, b \in U, c \in U : a = r.mcount /\ b = m /\ c = NPerc
  OBVIOUS
<1> HIDE DEF p, q, U
<1>9. /\ full \in Seq(U) /\ Len(full) = 3 + 2 * m + NPerc
      /\ full[1] = r.mcount /\ full[2] = m
      /\ \A i \in 1..(2 * m) : full[2 + i] = p[i]
      /\ full[3 + 2 * m] = NPerc
      /\ \A i \in 1..NPerc : full[3 + 2 * m + i] = q[i]
  <2>1. PICK h, g : /\ h = <<a, b>> /\ IsOfLen(h, U, 2) /\ h[1] = a /\ h[2] = b
                    /\ g = <<c>> /\ IsOfLen(g, U, 1) /\ g[1] = c
    <3>1. IsOfLen(<<a, b>>, U, 2) /\ <<a, b>>[1] = a /\ <<a, b>>[2] = b
      BY DEF IsOfLen
    <3>2. IsOfLen(<<c>>, U, 1) /\ <<c>>[1] = c
      BY DEF IsOfLen
    <3> QED
      BY <3>1, <3>2
  <2>2. PICK hp, hpg : Joins(hp, h, p) /\ Joins(hpg, hp, g)
    BY DEF Joins
  <2>3. Joins(full, hpg, q)
    BY <1>7, <1>8, <2>1, <2>2 DEF Joins
  <2>4. IsOfLen(p, U, 2 * m) /\ IsOfLen(q, U, NPerc) /\ 2 * m \in Nat /\ NPerc \in Nat
    BY <1>1, <1>4, <1>5 DEF IsOfLen
  <2>5. /\ IsOfLen(full, U, 3 + 2 * m + NPerc)
        /\ Holds(full, 0, h, 2) /\ Holds(full, 2, p, 2 * m)
        /\ Holds(full, 2 + 2 * m, g, 1) /\ Holds(full, 3 + 2 * m, q, NPerc)
    BY <2>1, <2>2, <2>3, <2>4, JoinedParts
  <2>6. full[1] = h[1] /\ full[2] = h[2] /\ full[3 + 2 * m] = g[1]
    <3>1. 0 + 1 = 1 /\ 0 + 2 = 2 /\ 2 + 2 * m + 1 = 3 + 2 * m
      BY <1>1
    <3>2. 1 \in 1..2 /\ 2 \in 1..2 /\ 1 \in 1..1
      OBVIOUS
    <3>3. full[0 + 1] = h[1] /\ full[0 + 2] = h[2] /\ full[2 + 2 * m + 1] = g[1]
      BY <2>5, <3>2 DEF Holds
    <3> QED
      BY <3>1, <3>3
  <2> QED
    BY <1>8, <2>1, <2>5, <2>6 DEF IsOfLen, Holds
<1>10. \A i \in 1..m : full[2 * i + 1] = order[i] /\ full[2 * i + 2] = r.latMap[order[i]]
  <2> TAKE i \in 1..m
  <2>1. /\ 2 * i - 1 \in 1..(2 * m) /\ 2 * i \in 1..(2 * m)
        /\ 2 + (2 * i - 1) = 2 * i + 1 /\ 2 + 2 * i = 2 * i + 2
    BY <1>1
  <2> QED
    BY <1>6, <1>9, <2>1
<1> QED
  BY <1>9, <1>10 DEF q

-----------------------------------------------------------------------------
(* What the client receives. *)

\* The numbers of a text, whole or cut.
Numbers(full) == {full[i] : i \in 1..Len(full)} \cup {full[i] \div 10 : i \in 1..Len(full)}

\* A text is a beginning of the one that was sent, and its last number may
\* have lost its last digit.
Begins(t, full) ==
    /\ t \in Seq(Numbers(full))
    /\ Len(t) \in 1..Len(full)
    /\ \A i \in 1..(Len(t) - 1) : t[i] = full[i]
    /\ LET n == Len(t) IN
        t[n] = full[n] \/ (full[n] > 9 /\ t[n] = full[n] \div 10)

LEMMA AllBegins ==
    ASSUME NEW U, NEW full \in Seq(U), Len(full) > 0
    PROVE  Begins(full, full)
<1>1. Len(full) \in Nat /\ full \in [1..Len(full) -> U]
  BY LenProperties
<1>2. full \in [1..Len(full) -> Numbers(full)]
  BY <1>1 DEF Numbers
<1>3. full \in Seq(Numbers(full))
  BY <1>1, <1>2, SeqDef
<1> QED
  BY <1>1, <1>3 DEF Begins

LEMMA PartBegins ==
    ASSUME NEW U, NEW full \in Seq(U), NEW n \in 1..Len(full), NEW t, t = SubSeq(full, 1, n)
    PROVE  Begins(t, full)
<1>1. Len(full) \in Nat
  BY LenProperties
<1>2. \A i \in 1..n : full[i] \in Numbers(full)
  BY <1>1 DEF Numbers
<1>3. /\ t \in Seq(Numbers(full)) /\ Len(t) = IF 1 <= n THEN n - 1 + 1 ELSE 0
      /\ \A i \in 1..(n - 1 + 1) : t[i] = full[1 + i - 1]
  BY <1>1, <1>2, SubSeqProperties
<1>4. Len(t) = n /\ \A i \in 1..n : i \in 1..(n - 1 + 1) /\ 1 + i - 1 = i
  BY <1>1, <1>3
<1>5. \A i \in 1..n : t[i] = full[i]
  BY <1>3, <1>4
<1> QED
  BY <1>1, <1>3, <1>4, <1>5 DEF Begins

LEMMA CutBegins ==
    ASSUME NEW U, NEW full \in Seq(U), NEW n \in 1..Len(full), full[n] > 9,
           NEW t, t = Append(SubSeq(full, 1, n - 1), full[n] \div 10)
    PROVE  Begins(t, full)
<1>1. Len(full) \in Nat
  BY LenProperties
<1>2. \A i \in 1..(n - 1) : full[i] \in Numbers(full)
  BY <1>1 DEF Numbers
<1>3. PICK s : s = SubSeq(full, 1, n - 1)
  OBVIOUS
<1>4. /\ s \in Seq(Numbers(full)) /\ Len(s) = IF 1 <= n - 1 THEN n - 1 - 1 + 1 ELSE 0
      /\ \A i \in 1..(n - 1 - 1 + 1) : s[i] = full[1 + i - 1]
  BY <1>1, <1>2, <1>3, SubSeqProperties
<1>5. Len(s) = n - 1 /\ \A i \in 1..(n - 1) : i \in 1..(n - 1 - 1 + 1) /\ 1 + i - 1 = i
  BY <1>1, <1>4
<1>6. \A i \in 1..(n - 1) : s[i] = full[i]
  BY <1>4, <1>5
<1>7. PICK e \in Numbers(full) : e = full[n] \div 10
  BY DEF Numbers
<1>8. t = Append(s, e)
  BY <1>3, <1>7
<1>9. /\ t \in Seq(Numbers(full)) /\ Len(t) = Len(s) + 1
      /\ \A i \in 1..Len(s) : t[i] = s[i]
      /\ t[Len(s) + 1] = e
  BY <1>4, <1>8, AppendProperties
<1>10. Len(t) = n /\ t[n] = e
  BY <1>1, <1>5, <1>9
<1>11. \A i \in 1..(n - 1) : t[i] = full[i]
  BY <1>5, <1>6, <1>9
<1> QED
  BY <1>1, <1>7, <1>9, <1>10, <1>11 DEF Begins

-----------------------------------------------------------------------------
(* What the client makes of it. *)

LEMMA DroppedParts ==
    ASSUME NEW U, NEW t, NEW k, NEW s, t \in Seq(U), k \in Nat, s = DropFirst(t, k)
    PROVE  /\ s \in Seq(U) /\ Len(t) \in Nat
           /\ k < Len(t) => Len(s) = Len(t) - k
           /\ k >= Len(t) => s = <<>>
           /\ \A i \in 1..(Len(t) - k) : s[i] = t[k + i]
<1>1. Len(t) \in Nat /\ \A i \in 1..Len(t) : t[i] \in U
  BY LenProperties
<1>2. s = SubSeq(t, k + 1, Len(t))
  BY DEF DropFirst
<1>3. \A i \in (k + 1)..Len(t) : t[i] \in U
  BY <1>1
<1>4. /\ s \in Seq(U) /\ Len(s) = IF k + 1 <= Len(t) THEN Len(t) - (k + 1) + 1 ELSE 0
      /\ \A i \in 1..(Len(t) - (k + 1) + 1) : s[i] = t[k + 1 + i - 1]
  BY <1>1, <1>2, <1>3, SubSeqProperties
<1>5. ASSUME k >= Len(t) PROVE s = <<>>
  BY <1>1, <1>2, <1>5, SubSeqEmpty
<1>6. ASSUME NEW i \in 1..(Len(t) - k) PROVE s[i] = t[k + i]
  <2>1. i \in 1..(Len(t) - (k + 1) + 1) /\ k + 1 + i - 1 = k + i
    BY <1>1
  <2> QED
    BY <1>4, <2>1
<1> QED
  BY <1>1, <1>4, <1>5, <1>6

\* A text with the assertion of get_run_stats has all the numbers of the one
\* that was sent.
LEMMA CompleteIsWhole ==
    ASSUME NEW m \in Nat, NEW full, Len(full) = 3 + 2 * m + NPerc,
           full[2] = m, full[3 + 2 * m] = NPerc,
           Begins(text, full), Len(text) >= 2, Complete
    PROVE  Len(text) = Len(full) /\ text[2] = m
<1> DEFINE n == Len(text)
<1>1. NPerc \in Nat \ {0} /\ n \in 1..(3 + 2 * m + NPerc) /\ n >= 2
  BY NPercAssumption DEF Begins
<1>2. text \in Seq(Numbers(full)) /\ \A i \in 1..(n - 1) : text[i] = full[i]
  BY DEF Begins
<1>3. text[n] = full[n] \/ (full[n] > 9 /\ text[n] = full[n] \div 10)
  BY DEF Begins
<1>4. PICK s : s = PercRaw
  OBVIOUS
<1>5. s # <<>> /\ Len(s) = s[1] + 1
  BY <1>4 DEF Complete
<1>6. LatsSize = text[2]
  BY DEF LatsSize
<1> HIDE DEF n
<1>7. text[2] \in Nat
  <2>1. CASE n = 2
    <3>1. text[2] = m \/ (m > 9 /\ text[2] = m \div 10)
      BY <1>3, <2>1
    <3> QED
      BY <3>1
  <2>2. CASE n > 2
    BY <1>1, <1>2, <2>2
  <2> QED
    BY <1>1, <2>1, <2>2
<1>8. s = DropFirst(text, 2 + 2 * text[2]) /\ 2 + 2 * text[2] \in Nat
  BY <1>4, <1>6, <1>7 DEF PercRaw
<1>9. /\ 2 + 2 * text[2] < n => Len(s) = n - (2 + 2 * text[2])
      /\ 2 + 2 * text[2] >= n => s = <<>>
      /\ \A i \in 1..(n - (2 + 2 * text[2])) : s[i] = text[2 + 2 * text[2] + i]
  BY <1>2, <1>8, DroppedParts DEF n
<1>10. n > 2
  BY <1>1, <1>5, <1>7, <1>9
<1>11. text[2] = m
  BY <1>1, <1>2, <1>10
<1>12. n >= 3 + 2 * m
  BY <1>1, <1>5, <1>9, <1>11
<1>13. Len(s) = n - (2 + 2 * m) /\ s[1] = text[3 + 2 * m]
  <2>1. 1 \in 1..(n - (2 + 2 * m)) /\ 2 + 2 * m + 1 = 3 + 2 * m /\ 2 + 2 * m < n
    BY <1>1, <1>12
  <2> QED
    BY <1>9, <1>11, <2>1
<1>14. n # 3 + 2 * m
  <2> SUFFICES ASSUME n = 3 + 2 * m PROVE FALSE
    OBVIOUS
  <2>1. Len(s) = 1 /\ s[1] = text[n]
    BY <1>13
  <2>2. text[n] = NPerc \/ (NPerc > 9 /\ text[n] = NPerc \div 10)
    BY <1>3
  <2> QED
    BY <1>1, <1>5, <2>1, <2>2
<1>15. s[1] = NPerc
  <2>1. 3 + 2 * m \in 1..(n - 1)
    BY <1>1, <1>12, <1>14
  <2> QED
    BY <1>2, <1>13, <2>1
<1>16. n = 3 + 2 * m + NPerc
  BY <1>1, <1>5, <1>13, <1>15
<1> QED
  BY <1>11, <1>16 DEF n


\* A map that was written as pairs is read as the same map.
WrittenAs(raw, l, order, m) ==
    /\ l = [b \in DOMAIN l |-> l[b]]
    /\ \A i \in 1..m : order[i] \in DOMAIN l
    /\ \A b \in DOMAIN l : \E i \in 1..m : order[i] = b
    /\ Len(raw) = 2 * m
    /\ \A i \in 1..m : raw[2 * i - 1] = order[i] /\ raw[2 * i] = l[order[i]]

LEMMA MapIsParsed ==
    ASSUME NEW l, NEW order, NEW m, NEW raw, m \in Nat, WrittenAs(raw, l, order, m)
    PROVE  ParsedMap(raw) = l
<1> DEFINE n == Len(raw) \div 2
           key(i) == raw[2 * i - 1]
           of(b) == CHOOSE i \in 1..n : key(i) = b
<1>1. ParsedMap(raw) = [b \in {key(i) : i \in 1..n} |-> raw[2 * of(b)]]
  BY Zenon DEF ParsedMap
<1>2. n = m
  BY DEF WrittenAs
<1>3. \A i \in 1..m : key(i) = order[i] /\ raw[2 * i] = l[order[i]]
  BY DEF WrittenAs
<1> HIDE DEF n, key
<1>4. {key(i) : i \in 1..n} = DOMAIN l
  <2>1. ASSUME NEW i \in 1..m PROVE key(i) \in DOMAIN l
    BY <1>3 DEF WrittenAs
  <2>2. ASSUME NEW b \in DOMAIN l PROVE \E i \in 1..m : key(i) = b
    BY <1>3 DEF WrittenAs
  <2> QED
    BY <1>2, <2>1, <2>2
<1>5. ASSUME NEW b \in DOMAIN l PROVE raw[2 * of(b)] = l[b]
  <2>1. \E i \in 1..n : key(i) = b
    BY <1>4
  <2>2. of(b) \in 1..n /\ key(of(b)) = b
    BY <2>1
  <2> HIDE DEF of
  <2> QED
    BY <1>2, <1>3, <2>2
<1> HIDE DEF of
<1>6. ParsedMap(raw) = [b \in DOMAIN l |-> l[b]]
  BY <1>1, <1>4, <1>5
<1> QED
  BY <1>6 DEF WrittenAs

\* And a whole text as the result it was made from.
LEMMA WholeIsParsed ==
    ASSUME NEW r \in Results, NEW order \in Orders(r.latMap), text = Serialized(r, order)
    PROVE  [mcount |-> text[1], latMap |-> ParsedMap(LatRaw), percentiles |-> Tail(PercRaw)] = r
<1>1. PICK m : m = Size(r.latMap)
  OBVIOUS
<1>2. /\ \E U : text \in Seq(U)
      /\ Len(text) = 3 + 2 * m + NPerc
      /\ text[1] = r.mcount /\ text[2] = m
      /\ \A i \in 1..m : /\ text[2 * i + 1] = order[i]
                         /\ text[2 * i + 2] = r.latMap[order[i]]
      /\ text[3 + 2 * m] = NPerc
      /\ \A i \in 1..NPerc : text[3 + 2 * m + i] = r.percentiles[i]
  BY <1>1, SerializedParts
<1>3. PICK U : text \in Seq(U)
  BY <1>2
<1>4. /\ m \in Nat /\ NPerc \in Nat \ {0} /\ IsFiniteSet(DOMAIN r.latMap)
      /\ r.latMap = [b \in DOMAIN r.latMap |-> r.latMap[b]]
      /\ r.percentiles \in [1..NPerc -> Counts]
      /\ r = [mcount |-> r.mcount, latMap |-> r.latMap, percentiles |-> r.percentiles]
  BY <1>1, ResultType
<1>5. LatsSize = m
  BY <1>2 DEF LatsSize
<1>6. PICK raw, body : raw = LatRaw /\ body = DropFirst(text, 2)
  OBVIOUS
<1>7. /\ body \in Seq(U) /\ Len(body) = 1 + 2 * m + NPerc
      /\ \A i \in 1..(1 + 2 * m + NPerc) : body[i] = text[2 + i]
  <2>1. 2 \in Nat /\ 2 < Len(text) /\ Len(text) - 2 = 1 + 2 * m + NPerc
    BY <1>2, <1>4
  <2> QED
    BY <1>3, <1>6, <2>1, DroppedParts
<1>8. raw = SubSeq(body, 1, 2 * m)
  BY <1>4, <1>5, <1>6, <1>7 DEF LatRaw, Raw
<1>9. Len(raw) = 2 * m /\ \A i \in 1..(2 * m) : raw[i] = text[2 + i]
  <2>1. 2 * m \in Int /\ 1 \in Int /\ \A i \in 1..(2 * m) : body[i] \in U
    BY <1>4, <1>7
  <2>2. /\ Len(raw) = IF 1 <= 2 * m THEN 2 * m - 1 + 1 ELSE 0
        /\ \A i \in 1..(2 * m - 1 + 1) : raw[i] = body[1 + i - 1]
    BY <1>8, <2>1, SubSeqProperties
  <2>3. \A i \in 1..(2 * m) : /\ i \in 1..(2 * m - 1 + 1) /\ 1 + i - 1 = i
                              /\ i \in 1..(1 + 2 * m + NPerc)
    BY <1>4
  <2> QED
    BY <1>4, <1>7, <2>2, <2>3
<1>10. \A i \in 1..m : raw[2 * i - 1] = order[i] /\ raw[2 * i] = r.latMap[order[i]]
  <2> TAKE i \in 1..m
  <2>1. /\ 2 * i - 1 \in 1..(2 * m) /\ 2 * i \in 1..(2 * m)
        /\ 2 + (2 * i - 1) = 2 * i + 1 /\ 2 + 2 * i = 2 * i + 2
    BY <1>4
  <2> QED
    BY <1>2, <1>9, <2>1
<1>11. ParsedMap(raw) = r.latMap
  <2>1. /\ \A i \in 1..m : order[i] \in DOMAIN r.latMap
        /\ \A b \in DOMAIN r.latMap : \E i \in 1..m : order[i] = b
    BY <1>1, <1>4, OrderType DEF Orders, Size
  <2>2. WrittenAs(raw, r.latMap, order, m)
    BY <1>4, <1>9, <1>10, <2>1 DEF WrittenAs
  <2> QED
    BY <1>4, <2>2, MapIsParsed
<1>12. PICK s : s = PercRaw
  OBVIOUS
<1>13. /\ s \in Seq(U) /\ Len(s) = 1 + NPerc
       /\ \A i \in 1..(1 + NPerc) : s[i] = text[2 + 2 * m + i]
  <2>1. /\ 2 + 2 * m \in Nat /\ 2 + 2 * m < Len(text)
        /\ Len(text) - (2 + 2 * m) = 1 + NPerc
    BY <1>2, <1>4
  <2>2. s = DropFirst(text, 2 + 2 * m)
    BY <1>5, <1>12 DEF PercRaw
  <2> QED
    BY <1>3, <2>1, <2>2, DroppedParts
<1>14. Tail(s) = r.percentiles
  <2>1. s # <<>>
    BY <1>4, <1>13
  <2>2. PICK q : q = Tail(s)
    OBVIOUS
  <2>3. /\ q \in Seq(U) /\ Len(q) = Len(s) - 1
        /\ \A i \in 1..Len(q) : q[i] = s[i + 1]
    BY <1>13, <2>1, <2>2, HeadTailProperties
  <2>4. Len(q) = NPerc
    BY <1>4, <1>13, <2>3
  <2>5. ASSUME NEW i \in 1..NPerc PROVE q[i] = r.percentiles[i]
    <3>1. i + 1 \in 1..(1 + NPerc) /\ 2 + 2 * m + (i + 1) = 3 + 2 * m + i
      BY <1>4
    <3>2. q[i] = text[2 + 2 * m + (i + 1)]
      BY <1>13, <2>3, <2>4, <3>1
    <3> QED
      BY <1>2, <3>1, <3>2
  <2>6. q \in [1..NPerc -> U]
    BY <2>3, <2>4, LenProperties
  <2> QED
    BY <1>4, <2>2, <2>5, <2>6
<1> QED
  BY <1>2, <1>4, <1>6, <1>11, <1>12, <1>14

-----------------------------------------------------------------------------
(* The way of the result. *)

\* On the wire is the whole text, in one of the orders; the client has a
\* beginning of it.
ReportInv ==
    /\ result \in Results
    /\ at = "wire" =>
        \E order \in Orders(result.latMap) : text = Serialized(result, order)
    /\ at = "text" =>
        \E order \in Orders(result.latMap) : Begins(text, Serialized(result, order))
    /\ ParsedIsMeasured

LEMMA InitReport == Init => ReportInv
  BY DEF Init, ReportInv, ParsedIsMeasured, Parsed

\* Whatever part of the text has come, it begins the text that was sent.
LEMMA ReceivedBegins ==
    ASSUME ReportInv, RecvAll \/ RecvPart
    PROVE  \E order \in Orders(result.latMap) : Begins(text', Serialized(result, order))
<1>1. at = "wire" /\ result \in Results
  BY DEF ReportInv, RecvAll, RecvPart
<1>2. PICK order \in Orders(result.latMap) : text = Serialized(result, order)
  BY <1>1 DEF ReportInv
<1>3. PICK m : m = Size(result.latMap)
  OBVIOUS
<1>4. (\E U : text \in Seq(U)) /\ Len(text) = 3 + 2 * m + NPerc
  BY <1>1, <1>2, <1>3, SerializedParts
<1>5. PICK U : text \in Seq(U)
  BY <1>4
<1>6. Len(text) > 0
  <2>1. m \in Nat /\ NPerc \in Nat
    BY <1>1, <1>3, ResultType
  <2> QED
    BY <1>4, <2>1
<1>7. CASE RecvAll
  BY <1>2, <1>5, <1>6, <1>7, AllBegins DEF RecvAll
<1>8. CASE RecvPart
  <2>1. PICK n \in 1..Len(text) :
            \/ n < Len(text) /\ text' = SubSeq(text, 1, n)
            \/ text[n] > 9 /\ text' = Append(SubSeq(text, 1, n - 1), text[n] \div 10)
    BY <1>8 DEF RecvPart
  <2>2. Begins(text', text)
    BY <1>5, <2>1, PartBegins, CutBegins
  <2> QED
    BY <1>2, <2>2
<1> QED
  BY <1>7, <1>8

\* What passes the assertion has as many numbers as the whole text, and, if
\* its last number is whole too, it is the whole text.
LEMMA ParseIsRight ==
    ASSUME ReportInv, at = "text", Len(text) >= 2, Complete
    PROVE  /\ Len(text) = 3 + 2 * Cardinality(DOMAIN result.latMap) + NPerc
           /\ Last(text) = Last(result.percentiles) =>
                [mcount |-> text[1], latMap |-> ParsedMap(LatRaw),
                 percentiles |-> Tail(PercRaw)] = result
<1>1. result \in Results
  BY DEF ReportInv
<1>2. PICK order \in Orders(result.latMap) : Begins(text, Serialized(result, order))
  BY DEF ReportInv
<1>3. PICK m, full : m = Size(result.latMap) /\ full = Serialized(result, order)
  OBVIOUS
<1>4. m \in Nat /\ NPerc \in Nat \ {0} /\ result.percentiles \in [1..NPerc -> Counts]
  BY <1>1, <1>3, ResultType
<1>5. /\ \E U : full \in Seq(U)
      /\ Len(full) = 3 + 2 * m + NPerc
      /\ full[2] = m /\ full[3 + 2 * m] = NPerc
      /\ \A i \in 1..NPerc : full[3 + 2 * m + i] = result.percentiles[i]
  BY <1>1, <1>3, SerializedParts
<1>6. Begins(text, full)
  BY <1>2, <1>3
<1>7. Len(text) = Len(full)
  BY <1>4, <1>5, <1>6, CompleteIsWhole
<1>8. ASSUME Last(text) = Last(result.percentiles) PROVE text = full
  <2>1. Len(result.percentiles) = NPerc
    BY <1>4
  <2>2. text[Len(text)] = result.percentiles[NPerc]
    BY <1>8, <2>1 DEF Last
  <2>3. NPerc \in 1..NPerc /\ Len(text) = 3 + 2 * m + NPerc
    BY <1>4, <1>5, <1>7
  <2>4. text[Len(text)] = full[Len(text)]
    BY <1>5, <2>2, <2>3
  <2>5. text \in Seq(Numbers(full)) /\ \A i \in 1..(Len(text) - 1) : text[i] = full[i]
    BY <1>6 DEF Begins
  <2>6. \A i \in 1..Len(text) : text[i] = full[i]
    BY <1>4, <2>3, <2>4, <2>5
  <2>7. full \in Seq(Numbers(full))
    <3>1. Len(full) > 0
      BY <1>4, <1>5
    <3>2. PICK U : full \in Seq(U)
      BY <1>5
    <3> QED
      BY <3>1, <3>2, AllBegins DEF Begins
  <2> QED
    BY <1>7, <2>5, <2>6, <2>7, SeqEqual
<1>9. ASSUME text = full
      PROVE  [mcount |-> text[1], latMap |-> ParsedMap(LatRaw),
              percentiles |-> Tail(PercRaw)] = result
  BY <1>1, <1>3, <1>9, WholeIsParsed
<1> QED
  BY <1>3, <1>5, <1>7, <1>8, <1>9 DEF Size

LEMMA StepReport == ReportInv /\ [Next]_vars => ReportInv'
<1> SUFFICES ASSUME ReportInv, [Next]_vars PROVE ReportInv'
  OBVIOUS
<1>1. CASE Send
  BY <1>1 DEF Send, ReportInv, ParsedIsMeasured, Parsed, Orders
<1>2. CASE RecvAll \/ RecvPart
  <2>1. at' = "text" /\ result' = result
    BY <1>2 DEF RecvAll, RecvPart
  <2> QED
    BY <1>2, <2>1, ReceivedBegins DEF ReportInv, ParsedIsMeasured, Parsed
<1>3. CASE Parse
  <2>1. CASE Len(text) >= 2 /\ Complete
    <3>1. /\ at = "text" /\ at' = "stats" /\ result' = result /\ text' = text
          /\ stats' = [mcount |-> text[1], latMap |-> ParsedMap(LatRaw),
                       percentiles |-> Tail(PercRaw)]
      BY <1>3, <2>1 DEF Parse
    <3>2. /\ Len(text) = 3 + 2 * Cardinality(DOMAIN result.latMap) + NPerc
          /\ Last(text) = Last(result.percentiles) => stats' = result
      BY <2>1, <3>1, ParseIsRight
    <3>3. ParsedIsMeasured'
      BY <3>1, <3>2 DEF ParsedIsMeasured
    <3> QED
      BY <3>1, <3>3 DEF ReportInv
  <2>2. CASE ~(Len(text) >= 2 /\ Complete)
    BY <1>3, <2>2 DEF Parse, Fail, ReportInv, ParsedIsMeasured, Parsed
  <2> QED
    BY <2>1, <2>2
<1>4. CASE Report
  BY <1>4 DEF Report, Fail, ReportInv, ParsedIsMeasured, Parsed
<1>5. CASE UNCHANGED vars
  BY <1>5 DEF vars, ReportInv, ParsedIsMeasured, Parsed
<1> QED
  BY <1>1, <1>2, <1>3, <1>4, <1>5 DEF Next

\* A result that passes the assertion of get_run_stats (main.py) has all the
\* numbers of the text that serialize_to_str made, and unless the last one was
\* cut it is the result that was measured: for every map of latencies, every
\* order an unordered_map gives it out in, every number of percentiles and
\* every place where recv ends.
THEOREM ParsingIsRight == Spec => []ParsedIsMeasured
<1>1. ReportInv => ParsedIsMeasured
  BY DEF ReportInv
<1> QED
  BY InitReport, StepReport, <1>1, PTL DEF Spec
=============================================================================
