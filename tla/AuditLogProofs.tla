---------------------------- MODULE AuditLogProofs ----------------------------
(***************************************************************************)
(* Proofs about AuditLog, for every cap, seed and batch.                   *)
(***************************************************************************)
EXTENDS AuditLog, LeastNumber, TLAPS

\* The seed fits: five entries against a cap of 100000 in the code.
Fits == Cap \in Nat /\ Seeded \in Seq(Entries) /\ Len(Seeded) <= Cap

\* The newest n elements of s.
LEMMA NewestElements ==
  ASSUME NEW S, NEW n \in Nat, NEW s \in Seq(S)
  PROVE  /\ Newest(n, s) \in Seq(S)
         /\ Len(Newest(n, s)) = IF Len(s) > n THEN n ELSE Len(s)
         /\ \A i \in 1..Len(Newest(n, s)) : Newest(n, s)[i] = s[i]
  BY DEF Newest

\* Two sequences of the same length that agree everywhere are one.
LEMMA SameElements ==
  ASSUME NEW S, NEW s \in Seq(S), NEW t \in Seq(S), Len(s) = Len(t),
         \A i \in 1..Len(s) : s[i] = t[i]
  PROVE  s = t
  OBVIOUS

\* Cutting before a batch is put in front and again after it is the same as
\* cutting once at the end.
LEMMA CutOnce ==
  ASSUME NEW S, NEW n \in Nat, NEW batch \in Seq(S), NEW s \in Seq(S)
  PROVE  Newest(n, batch \o Newest(n, s)) = Newest(n, batch \o s)
<1> DEFINE short == batch \o Newest(n, s)
           long == batch \o s
<1>1. /\ Newest(n, s) \in Seq(S)
      /\ Len(Newest(n, s)) = IF Len(s) > n THEN n ELSE Len(s)
      /\ \A i \in 1..Len(Newest(n, s)) : Newest(n, s)[i] = s[i]
  BY NewestElements
<1>2. /\ short \in Seq(S) /\ Len(short) = Len(batch) + Len(Newest(n, s))
      /\ long \in Seq(S) /\ Len(long) = Len(batch) + Len(s)
      /\ Len(batch) \in Nat /\ Len(s) \in Nat
  BY <1>1
<1>3. \A i \in 1..Len(short) : short[i] = long[i]
  <2> SUFFICES ASSUME NEW i \in 1..Len(short) PROVE short[i] = long[i]
    OBVIOUS
  <2>1. CASE i <= Len(batch)
    BY <2>1, <1>1, <1>2
  <2>2. CASE i > Len(batch)
    <3>1. i - Len(batch) \in 1..Len(Newest(n, s)) /\ i - Len(batch) \in 1..Len(s)
      BY <2>2, <1>1, <1>2
    <3>2. short[i] = Newest(n, s)[i - Len(batch)] /\ long[i] = s[i - Len(batch)]
      BY <2>2, <3>1, <1>1, <1>2
    <3> QED
      BY <3>1, <3>2, <1>1
  <2>3. i \in Nat /\ (i <= Len(batch) \/ i > Len(batch))
    BY <1>2
  <2> QED
    BY <2>1, <2>2, <2>3
<1>s. short \in Seq(S) /\ long \in Seq(S)
  BY <1>2
<1> HIDE DEF short, long
<1>4. /\ Newest(n, short) \in Seq(S) /\ Newest(n, long) \in Seq(S)
      /\ Len(Newest(n, short)) = IF Len(short) > n THEN n ELSE Len(short)
      /\ Len(Newest(n, long)) = IF Len(long) > n THEN n ELSE Len(long)
      /\ \A i \in 1..Len(Newest(n, short)) : Newest(n, short)[i] = short[i]
      /\ \A i \in 1..Len(Newest(n, long)) : Newest(n, long)[i] = long[i]
  BY <1>s, NewestElements
<1>5. Len(Newest(n, short)) = Len(Newest(n, long))
  BY <1>1, <1>2, <1>4
<1>6. Len(Newest(n, short)) <= Len(short)
  BY <1>2, <1>4
<1>7. \A i \in 1..Len(Newest(n, short)) : Newest(n, short)[i] = Newest(n, long)[i]
  BY <1>2, <1>3, <1>4, <1>5, <1>6
<1>8. Newest(n, short) = Newest(n, long)
  BY <1>4, <1>5, <1>7, SameElements
<1> QED
  BY <1>8 DEF short, long

-------------------------------------------------------------------------------
LEMMA InitInv == Fits /\ Init => TypeOK /\ KeepsNewest
  BY DEF Fits, Init, TypeOK, KeepsNewest, Newest

\* Every batch, of whatever length, keeps the types and the newest entries.
LEMMA IngestInv ==
  ASSUME Fits, TypeOK, KeepsNewest, NEW batch \in Seq(Entries), Ingest(batch)
  PROVE  TypeOK' /\ KeepsNewest'
<1>1. batch \o log \in Seq(Entries) /\ batch \o all \in Seq(Entries)
  BY DEF TypeOK
<1>2. TypeOK'
  <2>1. /\ Newest(Cap, batch \o log) \in Seq(Entries)
        /\ Len(Newest(Cap, batch \o log)) = IF Len(batch \o log) > Cap THEN Cap ELSE Len(batch \o log)
    BY <1>1, NewestElements DEF Fits
  <2>2. Len(batch \o log) \in Nat
    BY <1>1
  <2> QED
    BY <1>1, <2>1, <2>2 DEF Ingest, TypeOK, Fits
<1>3. log' = Newest(Cap, batch \o Newest(Cap, all))
  BY DEF Ingest, KeepsNewest
<1>4. log' = Newest(Cap, batch \o all)
  BY <1>3, CutOnce DEF TypeOK, Fits
<1> QED
  BY <1>2, <1>4 DEF Ingest, KeepsNewest

\* The cut after each batch never costs an entry among the Cap newest, nor
\* disturbs their order, for every cap, seed and sequence of batches.
THEOREM LogIsNewest == ASSUME Fits PROVE Spec => [](TypeOK /\ KeepsNewest)
<1>1. Init => TypeOK /\ KeepsNewest
  BY InitInv
<1>2. TypeOK /\ KeepsNewest /\ [Next]_<<log, all>> => (TypeOK /\ KeepsNewest)'
  BY IngestInv DEF Next, TypeOK, KeepsNewest
<1> QED
  BY <1>1, <1>2, PTL DEF Spec

-------------------------------------------------------------------------------
(* The loop that filters, by induction over the entries it has looked at    *)

\* kept[i] is what is left of the first i of the n entries of s.
IsKept(kept, s, K, n) ==
  kept = [i \in 0..n |->
            IF i = 0 THEN <<>>
            ELSE IF s[i] \in K THEN Append(kept[i - 1], s[i]) ELSE kept[i - 1]]

\* A loop over n entries comes to an end: a least number of entries for which
\* it does not could be reached from one less.
LEMMA KeptExists ==
  ASSUME NEW s, NEW K, NEW N \in Nat PROVE \E kept : IsKept(kept, s, K, N)
<1> DEFINE Bad == {n \in Nat : ~\E kept : IsKept(kept, s, K, n)}
<1>1. SUFFICES ASSUME Bad # {} PROVE FALSE
  OBVIOUS
<1>2. PICK n \in Bad : \A m \in Bad : n <= m
  <2>1. Bad \subseteq Nat
    OBVIOUS
  <2> HIDE DEF Bad
  <2> QED
    BY <1>1, <2>1, LeastExists
<1>3. CASE n = 0
  <2>1. IsKept([i \in 0..0 |-> <<>>], s, K, 0)
    BY DEF IsKept
  <2> QED
    BY <1>2, <1>3, <2>1
<1>4. CASE n # 0
  <2>1. n - 1 \in Nat /\ n - 1 \notin Bad /\ n \in Nat
    BY <1>2, <1>4
  <2>2. PICK old : IsKept(old, s, K, n - 1)
    BY <2>1
  <2> DEFINE new == [i \in 0..n |->
                       IF i = 0 THEN <<>>
                       ELSE IF s[i] \in K THEN Append(old[i - 1], s[i]) ELSE old[i - 1]]
  <2>3. ASSUME NEW i \in 0..(n - 1) PROVE new[i] = old[i]
    <3>1. i \in 0..n
      BY <2>1
    <3>2. new[i] = IF i = 0 THEN <<>>
                   ELSE IF s[i] \in K THEN Append(old[i - 1], s[i]) ELSE old[i - 1]
      BY <3>1
    <3> QED
      BY <2>2, <3>2 DEF IsKept
  <2>4. \A i \in 0..n : i # 0 => i - 1 \in 0..(n - 1)
    BY <2>1
  <2>5. IsKept(new, s, K, n)
    BY <2>3, <2>4 DEF IsKept
  <2> QED
    BY <1>2, <2>5
<1> QED
  BY <1>3, <1>4

\* What each turn of the loop does, and where it ends.
LEMMA SelectLoop ==
  ASSUME NEW S, NEW s \in Seq(S), NEW K
  PROVE  \E kept : /\ Select(s, K) = kept[Len(s)]
                   /\ kept[0] = <<>>
                   /\ \A i \in 1..Len(s) :
                        kept[i] = IF s[i] \in K THEN Append(kept[i - 1], s[i]) ELSE kept[i - 1]
<1>1. Len(s) \in Nat
  OBVIOUS
<1>2. PICK kept : /\ IsKept(kept, s, K, Len(s))
                  /\ Select(s, K) = kept[Len(s)]
  <2>1. \E kept : IsKept(kept, s, K, Len(s))
    BY <1>1, KeptExists
  <2> QED
    BY <2>1 DEF Select, IsKept
<1>3. kept[0] = <<>>
  BY <1>1, <1>2 DEF IsKept
<1>4. ASSUME NEW i \in 1..Len(s)
      PROVE  kept[i] = IF s[i] \in K THEN Append(kept[i - 1], s[i]) ELSE kept[i - 1]
  <2>1. i \in 0..Len(s) /\ i # 0
    BY <1>1
  <2>2. \A j \in 0..Len(s) :
          kept[j] = IF j = 0 THEN <<>>
                    ELSE IF s[j] \in K THEN Append(kept[j - 1], s[j]) ELSE kept[j - 1]
    BY <1>2 DEF IsKept
  <2> QED
    BY <2>1, <2>2
<1> QED
  BY <1>2, <1>3, <1>4

\* t begins with s.
Begins(s, t) == Len(s) <= Len(t) /\ \A i \in 1..Len(s) : t[i] = s[i]

\* The loop only ever appends: what it has kept after a turn is the beginning of
\* what it has kept at the end.
LEMMA KeptGrows ==
  ASSUME NEW S, NEW s \in Seq(S), NEW K, NEW kept,
         kept[0] = <<>>,
         \A i \in 1..Len(s) :
           kept[i] = IF s[i] \in K THEN Append(kept[i - 1], s[i]) ELSE kept[i - 1]
  PROVE  \A n \in 0..Len(s) : kept[n] \in Seq(S) /\ Begins(kept[n], kept[Len(s)])
<1>1. Len(s) \in Nat /\ \A i \in 1..Len(s) : s[i] \in S
  OBVIOUS
<1>2. \A n \in 0..Len(s) : kept[n] \in Seq(S)
  <2> DEFINE Bad == {n \in 0..Len(s) : kept[n] \notin Seq(S)}
  <2>1. SUFFICES ASSUME Bad # {} PROVE FALSE
    OBVIOUS
  <2>2. PICK n \in Bad : \A m \in Bad : n <= m
    <3>1. Bad \subseteq Nat
      BY <1>1
    <3> HIDE DEF Bad
    <3> QED
      BY <2>1, <3>1, LeastExists
  <2>3. n \in 0..Len(s) /\ kept[n] \notin Seq(S)
    BY <2>2
  <2>4. n # 0
    <3>1. kept[0] = <<>> /\ <<>> \in Seq(S)
      OBVIOUS
    <3>2. kept[0] \in Seq(S)
      BY <3>1
    <3> HIDE DEF Bad
    <3> QED
      BY <2>3, <3>2
  <2>5. n \in 1..Len(s) /\ n - 1 \in 0..Len(s) /\ ~(n <= n - 1)
    BY <1>1, <2>3, <2>4
  <2>6. n - 1 \notin Bad
    BY <2>2, <2>5
  <2>7. kept[n - 1] \in Seq(S)
    BY <2>5, <2>6
  <2>8. kept[n] = IF s[n] \in K THEN Append(kept[n - 1], s[n]) ELSE kept[n - 1]
    BY <2>5
  <2> QED
    BY <1>1, <2>3, <2>5, <2>7, <2>8
<1>3. ASSUME NEW n \in 0..Len(s) PROVE Begins(kept[n], kept[Len(s)])
  <2> DEFINE Bad == {m \in n..Len(s) : ~Begins(kept[n], kept[m])}
  <2>1. SUFFICES ASSUME Bad # {} PROVE FALSE
    BY <1>1
  <2>2. PICK m \in Bad : \A k \in Bad : m <= k
    <3>1. Bad \subseteq Nat
      BY <1>1
    <3> HIDE DEF Bad
    <3> QED
      BY <2>1, <3>1, LeastExists
  <2>3. kept[n] \in Seq(S)
    BY <1>2
  <2>4. m # n
    BY <2>2, <2>3 DEF Begins
  <2>5. m \in 1..Len(s) /\ m - 1 \in n..Len(s) /\ m - 1 \notin Bad
    BY <1>1, <2>2, <2>4
  <2>6. kept[m - 1] \in Seq(S) /\ Begins(kept[n], kept[m - 1])
    BY <1>1, <1>2, <2>5
  <2>7. Begins(kept[n], kept[m])
    <3>1. CASE kept[m] = kept[m - 1]
      BY <2>6, <3>1
    <3>2. CASE kept[m] = Append(kept[m - 1], s[m]) /\ s[m] \in S
      <4>1. Len(kept[n]) \in Nat
        BY <2>3
      <4>2. /\ Len(kept[m - 1]) \in Nat
            /\ Len(kept[m]) = Len(kept[m - 1]) + 1
            /\ \A i \in 1..Len(kept[m - 1]) : kept[m][i] = kept[m - 1][i]
        BY <2>6, <3>2
      <4> QED
        BY <2>6, <4>1, <4>2 DEF Begins
    <3> QED
      BY <1>1, <2>5, <3>1, <3>2
  <2> QED
    BY <2>2, <2>7
<1> QED
  BY <1>2, <1>3

\* Two passes of the loop are one with both conditions.
LEMMA SelectTwice ==
  ASSUME NEW S, NEW s \in Seq(S), NEW A, NEW B
  PROVE  Select(Select(s, A), B) = Select(s, A \cap B) /\ Select(s, A) \in Seq(S)
<1>1. PICK f : /\ Select(s, A) = f[Len(s)]
               /\ f[0] = <<>>
               /\ \A i \in 1..Len(s) :
                    f[i] = IF s[i] \in A THEN Append(f[i - 1], s[i]) ELSE f[i - 1]
  BY SelectLoop
<1>2. PICK t : t = Select(s, A)
  OBVIOUS
<1>3. \A n \in 0..Len(s) : f[n] \in Seq(S) /\ Begins(f[n], t)
  <2>1. \A n \in 0..Len(s) : f[n] \in Seq(S) /\ Begins(f[n], f[Len(s)])
    BY <1>1, KeptGrows
  <2> QED
    BY <1>1, <1>2, <2>1
<1>4. Len(s) \in Nat /\ Len(s) \in 0..Len(s) /\ t = f[Len(s)]
  BY <1>1, <1>2
<1>5. t \in Seq(S) /\ Len(t) \in Nat
  BY <1>3, <1>4
<1>6. PICK g : /\ Select(t, B) = g[Len(t)]
               /\ g[0] = <<>>
               /\ \A i \in 1..Len(t) :
                    g[i] = IF t[i] \in B THEN Append(g[i - 1], t[i]) ELSE g[i - 1]
  BY <1>5, SelectLoop
<1>7. PICK h : /\ Select(s, A \cap B) = h[Len(s)]
               /\ h[0] = <<>>
               /\ \A i \in 1..Len(s) :
                    h[i] = IF s[i] \in A \cap B THEN Append(h[i - 1], s[i]) ELSE h[i - 1]
  BY SelectLoop
<1>8. \A n \in 0..Len(s) : g[Len(f[n])] = h[n]
  <2> DEFINE Bad == {n \in 0..Len(s) : g[Len(f[n])] # h[n]}
  <2>1. SUFFICES ASSUME Bad # {} PROVE FALSE
    OBVIOUS
  <2>2. PICK n \in Bad : \A m \in Bad : n <= m
    <3>1. Bad \subseteq Nat
      BY <1>4
    <3> HIDE DEF Bad
    <3> QED
      BY <2>1, <3>1, LeastExists
  <2>3. n # 0
    BY <1>1, <1>6, <1>7, <2>2
  <2>4. n \in 1..Len(s) /\ n - 1 \in 0..Len(s) /\ n - 1 \notin Bad
    BY <1>4, <2>2, <2>3
  <2>5. g[Len(f[n - 1])] = h[n - 1]
    BY <2>4
  <2>6. f[n - 1] \in Seq(S) /\ f[n] \in Seq(S) /\ Begins(f[n], t)
    BY <1>3, <2>2, <2>4
  <2>7. CASE s[n] \in A
    <3>1. f[n] = Append(f[n - 1], s[n])
      BY <1>1, <2>4, <2>7
    <3>2. PICK k : k = Len(f[n - 1])
      OBVIOUS
    <3>3. s[n] \in S
      BY <2>4
    <3>4. k \in Nat /\ Len(f[n]) = k + 1 /\ f[n][k + 1] = s[n]
      BY <2>6, <3>1, <3>2, <3>3
    <3>5. k + 1 \in 1..Len(t) /\ t[k + 1] = s[n] /\ (k + 1) - 1 = k
      BY <1>5, <2>6, <3>4 DEF Begins
    <3>6. g[k + 1] = IF s[n] \in B THEN Append(g[k], s[n]) ELSE g[k]
      BY <1>6, <3>5
    <3>7. h[n] = IF s[n] \in B THEN Append(h[n - 1], s[n]) ELSE h[n - 1]
      BY <1>7, <2>4, <2>7
    <3> QED
      BY <2>2, <2>5, <3>2, <3>4, <3>6, <3>7
  <2>8. CASE s[n] \notin A
    <3>1. f[n] = f[n - 1] /\ h[n] = h[n - 1]
      BY <1>1, <1>7, <2>4, <2>8
    <3> QED
      BY <2>2, <2>5, <3>1
  <2> QED
    BY <2>7, <2>8
<1> QED
  BY <1>2, <1>4, <1>5, <1>6, <1>7, <1>8

\* The page and the control plane answer the same query with the same rows in
\* the same order, whatever the rows and the query (logs/page.tsx:29-39,
\* router.go:268-288): three passes, or one with all the chips at once.
THEOREM FiltersAreOne ==
  ASSUME NEW rows \in Seq(Entries), NEW f PROVE Filtered(rows, f) = ListLogs(rows, f)
<1> DEFINE A == ByRule(f.rule)
           B == ByAction(f.action)
           C == ByHost(f.host)
<1>1. Filtered(rows, f) = Select(rows, (A \cap B) \cap C)
  <2>1. {l \in Entries :
           /\ f.rule # NoFilter.rule => \E i \in DOMAIN l.rules : StartsWith(l.rules[i], f.rule)
           /\ f.action # NoFilter.action => l.action = f.action
           /\ f.host # NoFilter.host => l.host = f.host}
        = (A \cap B) \cap C
    BY DEF ByRule, ByAction, ByHost
  <2> QED
    BY <2>1 DEF Filtered
<1>2. ListLogs(rows, f) = Select(Select(Select(rows, A), B), C)
  BY DEF ListLogs
<1> HIDE DEF A, B, C
<1>3. Select(Select(rows, A), B) = Select(rows, A \cap B)
  BY SelectTwice
<1>4. Select(Select(rows, A \cap B), C) = Select(rows, (A \cap B) \cap C)
  BY SelectTwice
<1> QED
  BY <1>1, <1>2, <1>3, <1>4
===============================================================================
