--------------------------- MODULE ParamStoreProofs ---------------------------
(* Proofs about the parameter store, for every number of threads and pages,     *)
(* every page size and layout of the block and any number of operations.        *)
EXTENDS ParamStore, TLAPS

-------------------------------------------------------------------------------
\* Arithmetic of pages

\* Quotient and remainder by the page size, and that they are the only ones.
LEMMA DivMod ==
  ASSUME NEW a \in Nat
  PROVE  a = Page(a) * PageSize + U8(a) /\ Page(a) \in Nat /\ U8(a) \in 0..(PageSize - 1)
  BY StoreAssumption DEF Page, U8

LEMMA DivModUnique ==
  ASSUME NEW q \in Nat, NEW r \in 0..(PageSize - 1)
  PROVE  Page(q * PageSize + r) = q /\ U8(q * PageSize + r) = r
  BY StoreAssumption DEF Page, U8

\* A byte that is small enough is its own remainder.
LEMMA SmallU8 == ASSUME NEW r \in 0..(PageSize - 1) PROVE U8(r) = r /\ Page(r) = 0
  <1>1. 0 * PageSize + r = r
    BY StoreAssumption
  <1> QED BY <1>1, DivModUnique

\* A page starts at a multiple of its size.
LEMMA PageStart == ASSUME NEW q \in Nat PROVE U8(q * PageSize) = 0
  BY StoreAssumption DEF U8

-------------------------------------------------------------------------------
\* SPI_FLASH_BufferWrite

Writes == Seq(Nat \X Nat)

\* The address after the page writes p that begin at a.
End(p, a) == IF Len(p) = 0 THEN a ELSE p[Len(p)][1] + p[Len(p)][2]

\* The page writes p stay in their pages and write the n bytes from a on, in order.
Covers(p, a, n) ==
    /\ \A i \in 1..Len(p) : /\ p[i][1] = IF i = 1 THEN a ELSE p[i - 1][1] + p[i - 1][2]
                            /\ U8(p[i][1]) + p[i][2] <= PageSize
    /\ End(p, a) = a + n

\* One page write.
LEMMA OneCovers ==
  ASSUME NEW a \in Nat, NEW n \in Nat, U8(a) + n <= PageSize
  PROVE  << <<a, n>> >> \in Writes /\ Covers(<< <<a, n>> >>, a, n)
  BY DEF Writes, Covers, End

\* No page write.
LEMMA NoneCovers == ASSUME NEW a \in Nat PROVE << >> \in Writes /\ Covers(<< >>, a, 0)
  BY DEF Writes, Covers, End

\* Whole pages from the start of a page on.
LEMMA PagesCover ==
  ASSUME NEW q \in Nat, NEW k \in Nat
  PROVE  WholePages(q * PageSize, k) \in Writes
         /\ Covers(WholePages(q * PageSize, k), q * PageSize, k * PageSize)
  <1> DEFINE a == q * PageSize
             w == WholePages(a, k)
  <1>0. PageSize \in Nat /\ PageSize > 0 /\ a \in Nat
    BY StoreAssumption
  <1>1. \A i \in 1..k : a + (i - 1) * PageSize \in Nat
    <2> SUFFICES ASSUME NEW i \in 1..k PROVE a + (i - 1) * PageSize \in Nat
      OBVIOUS
    <2>1. i - 1 \in Nat
      OBVIOUS
    <2>2. \A j \in Nat : j * PageSize \in Nat
      BY <1>0
    <2> QED BY <1>0, <2>1, <2>2
  <1> HIDE DEF a
  <1>2. w \in [1..k -> Nat \X Nat]
    BY <1>0, <1>1 DEF WholePages
  <1>3. \A i \in 1..k : w[i] = <<a + (i - 1) * PageSize, PageSize>>
    BY DEF WholePages
  <1> HIDE DEF w
  <1>4. w \in Writes /\ Len(w) = k
    BY <1>2 DEF Writes
  <1>5. \A i \in 1..k : w[i][1] = a + (i - 1) * PageSize /\ w[i][2] = PageSize
    BY <1>3
  <1>6. ASSUME NEW i \in 1..k
        PROVE  /\ w[i][1] = IF i = 1 THEN a ELSE w[i - 1][1] + w[i - 1][2]
               /\ U8(w[i][1]) + w[i][2] <= PageSize
    <2>1. ASSUME i = 1 PROVE w[i][1] = a
      BY <1>0, <1>5, <2>1
    <2>2. ASSUME i # 1 PROVE w[i][1] = w[i - 1][1] + w[i - 1][2]
      <3>1. i - 1 \in 1..k
        BY <2>2
      <3>2. w[i - 1][1] = a + ((i - 1) - 1) * PageSize /\ w[i - 1][2] = PageSize
        BY <1>5, <3>1
      <3>3. \A j \in Int : a + (j - 1) * PageSize + PageSize = a + j * PageSize
        BY <1>0
      <3> QED BY <1>5, <3>2, <3>3
    <2>3. U8(w[i][1]) = 0
      <3>1. \A j \in Nat : q * PageSize + j * PageSize = (q + j) * PageSize
        BY <1>0
      <3>2. i - 1 \in Nat /\ q + (i - 1) \in Nat
        OBVIOUS
      <3>3. w[i][1] = (q + (i - 1)) * PageSize
        BY <1>5, <3>1, <3>2 DEF a
      <3> QED BY <3>2, <3>3, PageStart
    <2>4. w[i][2] = PageSize
      BY <1>5
    <2> QED BY <1>0, <2>1, <2>2, <2>3, <2>4
  <1>7. End(w, a) = a + k * PageSize
    <2>1. CASE k = 0
      BY <1>0, <1>4, <2>1 DEF End
    <2>2. CASE k # 0
      <3>1. w[k][1] = a + (k - 1) * PageSize /\ w[k][2] = PageSize
        BY <1>5, <2>2
      <3>2. a + (k - 1) * PageSize + PageSize = a + k * PageSize
        BY <1>0
      <3> QED BY <1>4, <2>2, <3>1, <3>2 DEF End
    <2> QED BY <2>1, <2>2
  <1> QED BY <1>4, <1>6, <1>7 DEF Covers, w, a

\* Two in a row.
LEMMA TwoInARow == ASSUME NEW x, NEW y PROVE <<x>> \o <<y>> = <<x, y>>
  <1> DEFINE S == {x, y}
             s == <<x>>
             t == <<y>>
             c == s \o t
             u == <<x, y>>
  <1>1. s \in Seq(S) /\ t \in Seq(S)
    OBVIOUS
  <1>2. Len(s) = 1 /\ Len(t) = 1 /\ s[1] = x /\ t[1] = y
    OBVIOUS
  <1>3. u \in Seq(S) /\ Len(u) = 2 /\ u[1] = x /\ u[2] = y
    OBVIOUS
  <1> HIDE DEF s, t, S, u
  <1>4. /\ c \in Seq(S) /\ Len(c) = Len(s) + Len(t)
        /\ \A i \in 1..Len(s) : c[i] = s[i]
        /\ \A i \in 1..Len(t) : c[Len(s) + i] = t[i]
    BY <1>1
  <1> HIDE DEF c
  <1>5. Len(c) = 2 /\ c[1] = x /\ c[2] = y
    BY <1>2, <1>4
  <1>6. \A i \in 1..2 : c[i] = u[i]
    BY <1>3, <1>5
  <1>7. ASSUME NEW a \in Seq(S), NEW b \in Seq(S), Len(a) = Len(b), \A i \in 1..Len(a) : a[i] = b[i]
        PROVE  a = b
    BY <1>7
  <1> QED BY <1>3, <1>4, <1>5, <1>6, <1>7 DEF c, s, t, u

\* Page writes in a row.
LEMMA ConcatCovers ==
  ASSUME NEW p \in Writes, NEW q \in Writes, NEW a \in Nat, NEW m \in Nat, NEW n \in Nat,
         Covers(p, a, m), Covers(q, a + m, n)
  PROVE  p \o q \in Writes /\ Covers(p \o q, a, m + n)
  <1> DEFINE c == p \o q
             lp == Len(p)
             lq == Len(q)
  <1>1. /\ c \in Writes /\ Len(c) = lp + lq /\ lp \in Nat /\ lq \in Nat
        /\ \A i \in 1..lp : c[i] = p[i]
        /\ \A i \in 1..lq : c[lp + i] = q[i]
    BY DEF Writes
  <1>2. /\ \A i \in 1..lp : /\ p[i][1] = IF i = 1 THEN a ELSE p[i - 1][1] + p[i - 1][2]
                            /\ U8(p[i][1]) + p[i][2] <= PageSize
        /\ (IF lp = 0 THEN a ELSE p[lp][1] + p[lp][2]) = a + m
    BY DEF Covers, End
  <1>3. /\ \A i \in 1..lq : /\ q[i][1] = IF i = 1 THEN a + m ELSE q[i - 1][1] + q[i - 1][2]
                            /\ U8(q[i][1]) + q[i][2] <= PageSize
        /\ (IF lq = 0 THEN a + m ELSE q[lq][1] + q[lq][2]) = (a + m) + n
    BY DEF Covers, End
  <1> HIDE DEF c, lp, lq
  <1>4. ASSUME NEW i \in 1..Len(c)
        PROVE  /\ c[i][1] = IF i = 1 THEN a ELSE c[i - 1][1] + c[i - 1][2]
               /\ U8(c[i][1]) + c[i][2] <= PageSize
    <2>1. CASE i <= lp
      <3>1. c[i] = p[i] /\ i \in 1..lp
        BY <1>1, <2>1
      <3>2. i # 1 => c[i - 1] = p[i - 1]
        BY <1>1, <2>1
      <3> QED BY <1>2, <3>1, <3>2
    <2>2. CASE i > lp
      <3> DEFINE j == i - lp
      <3>1. j \in 1..lq /\ i = lp + j
        BY <1>1, <2>2
      <3> HIDE DEF j
      <3>2. c[i] = q[j]
        BY <1>1, <3>1
      <3>3. U8(c[i][1]) + c[i][2] <= PageSize
        BY <1>3, <3>1, <3>2
      <3>4. CASE j # 1
        <4>1. j - 1 \in 1..lq /\ i - 1 = lp + (j - 1) /\ i # 1
          BY <1>1, <3>1, <3>4
        <4>2. c[i - 1] = q[j - 1]
          BY <1>1, <4>1
        <4>3. q[j][1] = q[j - 1][1] + q[j - 1][2]
          BY <1>3, <3>1, <3>4
        <4> QED BY <3>2, <3>3, <4>1, <4>2, <4>3
      <3>5. CASE j = 1
        <4>1. c[i][1] = a + m
          BY <1>3, <3>1, <3>2, <3>5
        <4>2. CASE lp = 0
          BY <1>2, <3>1, <3>3, <3>5, <4>1, <4>2
        <4>3. CASE lp # 0
          <5>1. i # 1 /\ i - 1 = lp /\ lp \in 1..lp
            BY <1>1, <3>1, <3>5, <4>3
          <5>2. c[i - 1] = p[lp]
            BY <1>1, <5>1
          <5> QED BY <1>2, <3>3, <4>1, <4>3, <5>1, <5>2
        <4> QED BY <4>2, <4>3
      <3> QED BY <3>4, <3>5
    <2> QED BY <1>1, <2>1, <2>2
  <1>5. End(c, a) = a + (m + n)
    <2>1. CASE lq # 0
      <3>1. lq \in 1..lq /\ c[lp + lq] = q[lq] /\ lp + lq # 0
        BY <1>1, <2>1
      <3>2. q[lq][1] + q[lq][2] = (a + m) + n
        BY <1>3, <2>1
      <3>3. End(c, a) = c[lp + lq][1] + c[lp + lq][2]
        BY <1>1, <3>1 DEF End
      <3> QED BY <3>1, <3>2, <3>3
    <2>2. CASE lq = 0
      <3>1. n = 0
        BY <1>3, <2>2
      <3>2. Len(c) = lp
        BY <1>1, <2>2
      <3>3. CASE lp = 0
        BY <1>2, <3>1, <3>2, <3>3 DEF End
      <3>4. CASE lp # 0
        <4>1. c[lp] = p[lp]
          BY <1>1, <3>4
        <4> QED BY <1>2, <3>1, <3>2, <3>4, <4>1 DEF End
      <3> QED BY <3>3, <3>4
    <2> QED BY <2>1, <2>2
  <1> QED BY <1>1, <1>4, <1>5 DEF Covers, c

\* BufferWrite with its cases named: the room in the first page, the whole pages, the rest.
LEMMA BufferCovers ==
  ASSUME NEW addr \in Nat, NEW n \in Nat, n \div PageSize < PageSize
  PROVE  BufferWrite(addr, n) \in Writes /\ Covers(BufferWrite(addr, n), addr, n)
  <1> DEFINE Addr  == U8(addr)
             count == U8(PageSize - Addr)
             pages == U8(n \div PageSize)
             rest  == n - count
             over  == U8(rest \div PageSize)
             Good(p) == p \in Writes /\ Covers(p, addr, n)
  <1>0. PageSize \in Nat /\ PageSize > 0 /\ 0 * PageSize = 0
    BY StoreAssumption
  <1>1. addr = Page(addr) * PageSize + Addr /\ Page(addr) \in Nat /\ Addr \in 0..(PageSize - 1)
    BY DivMod
  <1>2. n = Page(n) * PageSize + U8(n) /\ Page(n) \in Nat /\ U8(n) \in 0..(PageSize - 1)
    BY DivMod
  <1>3. pages = Page(n)
    <2>1. Page(n) \in 0..(PageSize - 1)
      BY <1>0, <1>2 DEF Page
    <2> QED BY <2>1, SmallU8 DEF Page
  <1>4. BufferWrite(addr, n) =
          IF Addr = 0
          THEN IF pages = 0
               THEN << <<addr, n>> >>
               ELSE WholePages(addr, pages) \o << <<addr + pages * PageSize, U8(n)>> >>
          ELSE IF pages = 0
               THEN IF U8(n) > count
                    THEN << <<addr, count>>, <<addr + count, U8(U8(n) - count)>> >>
                    ELSE << <<addr, n>> >>
               ELSE << <<addr, count>> >> \o WholePages(addr + count, over) \o
                    (IF U8(rest) # 0 THEN << <<addr + count + over * PageSize, U8(rest)>> >>
                                     ELSE << >>)
    BY DEF BufferWrite
  <1>5. ASSUME Addr # 0
        PROVE  /\ count = PageSize - Addr /\ count \in 1..(PageSize - 1)
               /\ addr + count = (Page(addr) + 1) * PageSize
    <2>1. PageSize - Addr \in 1..(PageSize - 1)
      BY <1>0, <1>1, <1>5
    <2>2. count = PageSize - Addr
      BY <2>1, SmallU8
    <2>3. \A q \in Nat : q * PageSize + PageSize = (q + 1) * PageSize
      BY <1>0
    <2>4. addr + (PageSize - Addr) = Page(addr) * PageSize + PageSize
      BY <1>0, <1>1
    <2> QED BY <1>1, <2>1, <2>2, <2>3, <2>4
  <1>6. pages = 0 => n = U8(n) /\ n < PageSize
    BY <1>0, <1>2, <1>3
  <1> HIDE DEF Addr, count, pages, over, rest
  <1>7. CASE Addr = 0 /\ pages = 0
    <2>1. Good(<< <<addr, n>> >>)
      BY <1>6, <1>7, <1>0, OneCovers DEF Addr
    <2> QED BY <1>4, <1>7, <2>1
  <1>8. CASE Addr = 0 /\ pages # 0
    <2>1. addr = Page(addr) * PageSize
      BY <1>0, <1>1, <1>8
    <2>2. pages \in Nat /\ pages * PageSize \in Nat /\ U8(n) \in Nat /\ n = pages * PageSize + U8(n)
      BY <1>0, <1>2, <1>3
    <2>3. WholePages(addr, pages) \in Writes /\ Covers(WholePages(addr, pages), addr, pages * PageSize)
      BY <1>1, <2>1, <2>2, PagesCover
    <2> DEFINE e == addr + pages * PageSize
    <2>4. e \in Nat /\ U8(e) = 0
      <3>1. e = (Page(addr) + pages) * PageSize
        BY <1>0, <1>1, <2>1, <2>2
      <3>2. Page(addr) + pages \in Nat
        BY <1>1, <2>2
      <3> QED BY <2>2, <3>1, <3>2, PageStart
    <2> HIDE DEF e
    <2>5. U8(e) + U8(n) <= PageSize
      BY <1>0, <1>2, <2>4
    <2>6. << <<e, U8(n)>> >> \in Writes /\ Covers(<< <<e, U8(n)>> >>, e, U8(n))
      BY <2>2, <2>4, <2>5, OneCovers
    <2>7. Good(WholePages(addr, pages) \o << <<e, U8(n)>> >>)
      <3>1. Covers(<< <<e, U8(n)>> >>, addr + pages * PageSize, U8(n))
        BY <2>6 DEF e
      <3> QED BY <2>2, <2>3, <2>6, <3>1, ConcatCovers
    <2> QED BY <1>4, <1>8, <2>7 DEF e
  <1>9. CASE Addr # 0 /\ pages = 0 /\ U8(n) <= count
    <2>1. U8(addr) + n <= PageSize
      BY <1>0, <1>1, <1>5, <1>6, <1>9 DEF Addr
    <2>2. Good(<< <<addr, n>> >>)
      BY <2>1, OneCovers
    <2>3. ~(U8(n) > count)
      BY <1>2, <1>5, <1>9
    <2> QED BY <1>4, <1>9, <2>2, <2>3
  <1>10. CASE Addr # 0 /\ pages = 0 /\ U8(n) > count
    <2>1. count \in Nat /\ n - count \in 0..(PageSize - 1) /\ U8(U8(n) - count) = n - count
      <3>1. U8(n) - count \in 0..(PageSize - 1)
        BY <1>0, <1>2, <1>5, <1>10
      <3>2. U8(U8(n) - count) = U8(n) - count
        BY <3>1, SmallU8
      <3>3. n = U8(n)
        BY <1>6, <1>10
      <3>4. n - count = U8(n) - count
        BY <3>3
      <3> QED BY <1>5, <1>10, <3>1, <3>2, <3>4
    <2> DEFINE e == addr + count
    <2>2. e \in Nat /\ U8(e) = 0
      <3>1. e = (Page(addr) + 1) * PageSize /\ Page(addr) + 1 \in Nat
        BY <1>1, <1>5, <1>10
      <3>2. e \in Nat
        BY <2>1
      <3> HIDE DEF e
      <3> QED BY <3>1, <3>2, PageStart
    <2>3. << <<addr, count>> >> \in Writes /\ Covers(<< <<addr, count>> >>, addr, count)
      <3>1. U8(addr) + count <= PageSize
        BY <1>0, <1>1, <1>5, <1>10 DEF Addr
      <3> QED BY <2>1, <3>1, OneCovers
    <2> HIDE DEF e
    <2>4. << <<e, n - count>> >> \in Writes /\ Covers(<< <<e, n - count>> >>, e, n - count)
      <3>1. U8(e) + (n - count) <= PageSize /\ n - count \in Nat
        BY <1>0, <2>1, <2>2
      <3> QED BY <2>2, <3>1, OneCovers
    <2>5. Good(<< <<addr, count>> >> \o << <<e, n - count>> >>)
      <3>1. Covers(<< <<e, n - count>> >>, addr + count, n - count)
        BY <2>4 DEF e
      <3>2. count + (n - count) = n /\ n - count \in Nat
        BY <2>1
      <3>3. Covers(<< <<addr, count>> >> \o << <<e, n - count>> >>, addr, count + (n - count))
        BY <2>1, <2>3, <2>4, <3>1, <3>2, ConcatCovers
      <3>4. << <<addr, count>> >> \o << <<e, n - count>> >> \in Writes
        BY <2>1, <2>3, <2>4, <3>1, <3>2, ConcatCovers
      <3> QED BY <3>2, <3>3, <3>4
    <2>6. << <<addr, count>> >> \o << <<e, n - count>> >> = << <<addr, count>>, <<e, n - count>> >>
      BY TwoInARow
    <2>7. BufferWrite(addr, n) = << <<addr, count>>, <<e, n - count>> >>
      BY <1>4, <1>10, <2>1 DEF e
    <2> QED BY <2>5, <2>6, <2>7
  <1>11. CASE Addr # 0 /\ pages # 0
    <2>1. count \in Nat /\ rest \in Nat /\ n = count + rest
      <3>1. n >= PageSize
        <4>1. pages >= 1 /\ pages \in Nat
          BY <1>2, <1>3, <1>11
        <4>2. \A k \in Nat : k >= 1 => k * PageSize >= PageSize
          BY <1>0
        <4> QED BY <1>0, <1>2, <1>3, <4>1, <4>2
      <3> QED BY <1>0, <1>5, <1>11, <3>1 DEF rest
    <2>2. rest = Page(rest) * PageSize + U8(rest) /\ Page(rest) \in Nat /\ U8(rest) \in 0..(PageSize - 1)
      BY <2>1, DivMod
    <2>3. over = Page(rest)
      <3>1. Page(rest) <= Page(n)
        <4>1. ASSUME Page(rest) > Page(n) PROVE FALSE
          <5>1. \A j, k \in Nat : k > j => k * PageSize >= j * PageSize + PageSize
            BY <1>0
          <5>2. Page(rest) * PageSize >= Page(n) * PageSize + PageSize
            BY <1>2, <2>2, <4>1, <5>1
          <5>3. Page(rest) * PageSize \in Nat /\ Page(n) * PageSize \in Nat
            BY <1>0, <1>2, <2>2
          <5> HIDE DEF Good
          <5> QED BY <1>0, <1>2, <2>1, <2>2, <5>2, <5>3
        <4> QED BY <1>2, <2>2, <4>1
      <3>2. Page(rest) \in 0..(PageSize - 1)
        BY <1>0, <1>2, <2>2, <3>1 DEF Page
      <3> QED BY <3>2, SmallU8 DEF Page, over
    <2> DEFINE e == addr + count
               f == e + over * PageSize
    <2>4. e = (Page(addr) + 1) * PageSize /\ e \in Nat /\ Page(addr) + 1 \in Nat
      BY <1>1, <1>5, <1>11, <2>1
    <2>5. over \in Nat /\ over * PageSize \in Nat /\ over * PageSize + U8(rest) = rest /\ U8(rest) \in Nat
      BY <1>0, <2>2, <2>3
    <2>6. << <<addr, count>> >> \in Writes /\ Covers(<< <<addr, count>> >>, addr, count)
      <3>1. U8(addr) + count <= PageSize
        BY <1>0, <1>1, <1>5, <1>11 DEF Addr
      <3> QED BY <2>1, <3>1, OneCovers
    <2>7. WholePages(e, over) \in Writes /\ Covers(WholePages(e, over), e, over * PageSize)
      BY <2>4, <2>5, PagesCover
    <2>8. f \in Nat /\ U8(f) = 0
      <3>1. f = (Page(addr) + 1 + over) * PageSize /\ Page(addr) + 1 + over \in Nat
        BY <1>0, <2>4, <2>5
      <3> QED BY <2>4, <2>5, <3>1, PageStart
    <2> DEFINE w == WholePages(e, over)
               h == << <<addr, count>> >>
               l == IF U8(rest) # 0 THEN << <<f, U8(rest)>> >> ELSE << >>
    <2>9. l \in Writes /\ Covers(l, f, U8(rest))
      <3> HIDE DEF f
      <3>1. CASE U8(rest) # 0
        <4>1. U8(f) + U8(rest) <= PageSize
          BY <1>0, <2>2, <2>8
        <4> QED BY <2>5, <2>8, <3>1, <4>1, OneCovers
      <3>2. CASE U8(rest) = 0
        BY <2>8, <3>2, NoneCovers
      <3> QED BY <3>1, <3>2
    <2> HIDE DEF w, h, l
    <2>10. h \o w \in Writes /\ Covers(h \o w, addr, count + over * PageSize)
      <3>1. Covers(w, addr + count, over * PageSize)
        BY <2>7 DEF w
      <3> QED BY <2>1, <2>5, <2>6, <2>7, <3>1, ConcatCovers DEF h, w
    <2> DEFINE hw == h \o w
    <2>11. hw \in Writes /\ Covers(hw, addr, count + over * PageSize)
      BY <2>10
    <2> HIDE DEF hw
    <2>12. Covers(l, addr + (count + over * PageSize), U8(rest))
      <3>1. addr + (count + over * PageSize) = f
        BY <2>1, <2>5
      <3> QED BY <2>9, <3>1
    <2>13. hw \o l \in Writes /\ Covers(hw \o l, addr, (count + over * PageSize) + U8(rest))
      <3>1. count + over * PageSize \in Nat
        BY <2>1, <2>5
      <3> QED BY <2>5, <2>9, <2>11, <2>12, <3>1, ConcatCovers
    <2>14. (count + over * PageSize) + U8(rest) = n
      BY <2>1, <2>5
    <2>15. BufferWrite(addr, n) = hw \o l
      BY <1>4, <1>11 DEF hw, h, w, l
    <2> QED BY <2>13, <2>14, <2>15
  <1>12. U8(n) > count \/ U8(n) <= count \/ Addr = 0
    BY <1>2, <1>5
  <1> QED BY <1>7, <1>8, <1>9, <1>10, <1>11, <1>12

\* For every address and every length whose number of pages fits the unsigned byte that holds
\* it (65535 bytes and less, for pages of 256), SPI_FLASH_BufferWrite writes every byte once,
\* in order, and no page write leaves its page.
THEOREM BufferWriteSplits ==
  ASSUME NEW addr \in Nat, NEW n \in Nat, n \div PageSize < PageSize
  PROVE  Split(addr, n)
  <1> DEFINE p == BufferWrite(addr, n)
  <1>1. p \in Writes /\ Covers(p, addr, n)
    BY BufferCovers
  <1> HIDE DEF p
  <1>2. Len(p) \in Nat
    BY <1>1 DEF Writes
  <1>3. (Len(p) + 1) - 1 = Len(p) /\ (Len(p) + 1 = 1 <=> Len(p) = 0)
    BY <1>2
  <1>4. (IF Len(p) + 1 = 1 THEN addr ELSE p[(Len(p) + 1) - 1][1] + p[(Len(p) + 1) - 1][2]) = addr + n
    BY <1>1, <1>3 DEF Covers, End
  <1>5. \A i \in 1..Len(p) : /\ p[i][1] = IF i = 1 THEN addr ELSE p[i - 1][1] + p[i - 1][2]
                             /\ U8(p[i][1]) + p[i][2] <= PageSize
    BY <1>1 DEF Covers
  <1> QED BY <1>4, <1>5 DEF Split, p

\* Fewer bytes than a page, all in one page, are one page write.
LEMMA OneWrite ==
  ASSUME NEW addr \in Nat, NEW n \in Nat, n < PageSize, U8(addr) + n <= PageSize
  PROVE  BufferWrite(addr, n) = << <<addr, n>> >>
  <1> DEFINE Addr  == U8(addr)
             count == U8(PageSize - Addr)
             pages == U8(n \div PageSize)
  <1>0. PageSize \in Nat /\ PageSize > 0
    BY StoreAssumption
  <1>1. n \in 0..(PageSize - 1) /\ 0 \in 0..(PageSize - 1)
    BY <1>0
  <1>2. U8(n) = n /\ n \div PageSize = 0 /\ U8(0) = 0
    BY <1>1, SmallU8 DEF Page
  <1>3. pages = 0
    BY <1>2
  <1>4. Addr \in 0..(PageSize - 1)
    BY DivMod
  <1>5. ASSUME Addr # 0 PROVE ~(U8(n) > count)
    <2>1. PageSize - Addr \in 0..(PageSize - 1)
      BY <1>0, <1>4, <1>5
    <2>2. count = PageSize - Addr
      BY <2>1, SmallU8
    <2>3. n <= PageSize - Addr
      BY <1>0, <1>4
    <2> HIDE DEF Addr, count
    <2>4. ~(n > count)
      BY <1>0, <1>4, <2>1, <2>2, <2>3
    <2> QED BY <1>2, <2>4
  <1> QED BY <1>3, <1>5 DEF BufferWrite

\* What is left of a save: the flag and the settings, or the settings.
Plan1 == << <<DataAddr, DataLen>> >>
Plan2 == << <<FlagAddr, 1>>, <<DataAddr, DataLen>> >>

\* The settings lie behind each other in one page, and the flag lies outside of them.
LEMMA Layout ==
  /\ PageSize \in Nat /\ PageSize > 3 /\ DataLen \in Nat /\ DataLen >= 1 /\ DataLen < PageSize
  /\ FlagAddr \in Nat /\ DataAddr \in Nat /\ Cells \subseteq Nat
  /\ FlagAddr \in Cells /\ (\A i \in 1..DataLen : DataAddr + i - 1 \in Cells)
  /\ (\A i \in 1..DataLen : FlagAddr # DataAddr + i - 1)
  <1>1. /\ PageSize \in Nat /\ PageSize > 3 /\ DataLen \in Nat /\ DataLen >= 1 /\ DataLen < PageSize
        /\ Pages \in Nat
    BY StoreAssumption, LayoutAssumption
  <1>2. Pages * PageSize - 1 \in Int
    BY <1>1
  <1>3. Cells \subseteq Nat
    BY <1>2 DEF Cells
  <1>4. FlagAddr \in Cells /\ DataAddr \in Cells /\ DataAddr + DataLen - 1 \in Cells
    BY StoreAssumption
  <1>5. \A i \in 1..DataLen : DataAddr + i - 1 \in Cells
    <2> DEFINE top == Pages * PageSize - 1
    <2> HIDE DEF top
    <2>1. Cells = 0..top /\ top \in Int
      BY <1>2 DEF Cells, top
    <2> QED BY <1>1, <1>3, <1>4, <2>1
  <1>6. \A i \in 1..DataLen : FlagAddr # DataAddr + i - 1
    <2>1. FlagAddr \notin DataAddr..(DataAddr + DataLen - 1)
      BY StoreAssumption
    <2>2. FlagAddr \in Nat /\ DataAddr \in Nat
      BY <1>3, <1>4
    <2> QED BY <1>1, <2>1, <2>2
  <1> QED BY <1>1, <1>3, <1>4, <1>5, <1>6

LEMMA PlanFacts ==
  /\ Head(Plan1) = <<DataAddr, DataLen>> /\ Tail(Plan1) = << >> /\ Len(Plan1) = 1
  /\ Head(Plan2) = <<FlagAddr, 1>> /\ Tail(Plan2) = Plan1 /\ Len(Plan2) = 2
  /\ Plan1 # << >> /\ Plan2 # << >> /\ Plan1 # Plan2
  /\ {<< >>, Plan1, Plan2} \subseteq Seq(Cells \X (1..PageSize))
  <1>1. /\ Head(Plan1) = <<DataAddr, DataLen>> /\ Tail(Plan1) = << >> /\ Len(Plan1) = 1
        /\ Head(Plan2) = <<FlagAddr, 1>> /\ Tail(Plan2) = Plan1 /\ Len(Plan2) = 2
    BY DEF Plan1, Plan2
  <1>2. Plan1 # << >> /\ Plan2 # << >> /\ Plan1 # Plan2
    BY DEF Plan1, Plan2
  <1> DEFINE S == Cells \X (1..PageSize)
  <1>3. <<DataAddr, DataLen>> \in S /\ <<FlagAddr, 1>> \in S
    BY Layout, StoreAssumption
  <1> HIDE DEF S
  <1>4. << >> \in Seq(S) /\ Plan1 \in Seq(S) /\ Plan2 \in Seq(S)
    BY <1>3 DEF Plan1, Plan2
  <1> QED BY <1>1, <1>2, <1>4 DEF S

\* device_sys_para_save makes one page write for the flag and one for the settings.
LEMMA SavePlanIs == SavePlan = Plan2
  <1>1. BufferWrite(FlagAddr, 1) = << <<FlagAddr, 1>> >>
    <2>1. U8(FlagAddr) \in 0..(PageSize - 1)
      BY Layout, DivMod
    <2>2. U8(FlagAddr) + 1 <= PageSize
      BY <2>1, Layout
    <2> QED BY <2>2, Layout, OneWrite
  <1>2. BufferWrite(DataAddr, DataLen) = << <<DataAddr, DataLen>> >>
    BY LayoutAssumption, Layout, OneWrite
  <1> QED BY <1>1, <1>2, TwoInARow DEF SavePlan, Plan2

-------------------------------------------------------------------------------
\* The chip

Chips == [sel : {"no", "data", "status", "ignored"}, at : Cells, got : Seq(Bytes),
          wel : BOOLEAN, busy : BOOLEAN]

LEMMA ChipFields ==
  ASSUME NEW c \in Chips, NEW s \in {"no", "data", "status", "ignored"}, NEW a \in Cells,
         NEW g \in Seq(Bytes), NEW b \in BOOLEAN
  PROVE  /\ [c EXCEPT !.sel = s] \in Chips /\ [c EXCEPT !.at = a] \in Chips
         /\ [c EXCEPT !.got = g] \in Chips /\ [c EXCEPT !.wel = b] \in Chips
         /\ [c EXCEPT !.busy = b] \in Chips
  BY DEF Chips

\* A page write changes cells of one page, and only to bytes.
LEMMA ProgrammedType ==
  ASSUME mem \in [Cells -> Bytes], NEW a, NEW bytes \in Seq(Bytes)
  PROVE  Programmed(a, bytes) \in [Cells -> Bytes]
  <1> DEFINE cell(i) == Page(a) * PageSize + ((a + i - 1) % PageSize)
  <1>1. ASSUME NEW c \in Cells, \E i \in DOMAIN bytes : c = cell(i)
        PROVE  bytes[CHOOSE i \in DOMAIN bytes : c = cell(i)] \in Bytes
    <2> HIDE DEF cell
    <2>1. (CHOOSE i \in DOMAIN bytes : c = cell(i)) \in DOMAIN bytes
      BY <1>1
    <2>2. \A i \in DOMAIN bytes : bytes[i] \in Bytes
      OBVIOUS
    <2> QED BY <2>1, <2>2
  <1>2. Programmed(a, bytes) = [c \in Cells |->
            IF \E i \in DOMAIN bytes : c = cell(i)
            THEN bytes[CHOOSE i \in DOMAIN bytes : c = cell(i)]
            ELSE mem[c]]
    BY DEF Programmed
  <1> HIDE DEF cell
  <1> QED BY <1>1, <1>2

LEMMA DeselectedType ==
  ASSUME chip \in Chips
  PROVE  /\ Deselected \in Chips /\ Deselected.sel = "no" /\ Deselected.got = << >>
         /\ Deselected.busy = chip.busy /\ Deselected.at = chip.at
  <1>1. Deselected = [[chip EXCEPT !.sel = "no"] EXCEPT !.got = << >>]
    BY DEF Deselected, Chips
  <1>2. [chip EXCEPT !.sel = "no"] \in Chips
    BY ChipFields DEF Chips
  <1>3. << >> \in Seq(Bytes)
    OBVIOUS
  <1>4. [[chip EXCEPT !.sel = "no"] EXCEPT !.got = << >>] \in Chips
    BY <1>2, <1>3 DEF Chips
  <1> QED BY <1>1, <1>4 DEF Chips

LEMMA ReleaseType ==
  ASSUME mem \in [Cells -> Bytes], prior \in [Cells -> Bytes], chip \in Chips,
         NEW got \in Seq(Bytes), Release(got)
  PROVE  mem' \in [Cells -> Bytes] /\ prior' \in [Cells -> Bytes] /\ chip' \in Chips
  <1>1. CASE chip.sel = "data" /\ got # << >>
    <2>1. /\ mem' = Programmed(chip.at, got) /\ prior' = mem
          /\ chip' = [Deselected EXCEPT !.busy = TRUE, !.wel = FALSE]
      BY <1>1 DEF Release
    <2>2. chip' = [[Deselected EXCEPT !.busy = TRUE] EXCEPT !.wel = FALSE]
      BY <2>1, DeselectedType DEF Chips
    <2>3. chip' \in Chips
      BY <2>2, DeselectedType DEF Chips
    <2> QED BY <2>1, <2>3, ProgrammedType
  <1>2. CASE ~(chip.sel = "data" /\ got # << >>)
    BY <1>2, DeselectedType DEF Release
  <1> QED BY <1>1, <1>2

LEMMA TakenType == ASSUME chip \in Chips, NEW b \in Bytes PROVE Taken(b) \in Chips
  <1>1. chip.got \in Seq(Bytes)
    BY DEF Chips
  <1>2. Append(chip.got, b) \in Seq(Bytes)
    BY <1>1
  <1>3. [chip EXCEPT !.got = Append(@, b)] = [chip EXCEPT !.got = Append(chip.got, b)]
    BY DEF Chips
  <1> DEFINE g == Append(chip.got, b)
  <1> HIDE DEF g
  <1>4. [chip EXCEPT !.got = g] \in Chips
    BY <1>2 DEF Chips, g
  <1> QED BY <1>3, <1>4 DEF Taken, g

-------------------------------------------------------------------------------
\* Type correctness

\* Every thread is at one of two places of its save, and has sent no more than it has.
Planned ==
    \A t \in Threads : /\ todo[t] \in {<< >>, Plan1, Plan2}
                       /\ pc[t] = "changed" => todo[t] = Plan2
                       /\ pc[t] = "bytes" => sent[t] <= Head(todo[t])[2]

TypeInv == TypeOK /\ Planned

LEMMA ByteFacts ==
  /\ Junk \in Bytes /\ Valid \in Bytes /\ Blank \in Bytes /\ Defaults \in [1..DataLen -> Bytes]
  <1>1. (CHOOSE v \in Values : TRUE) \in Bytes
    BY StoreAssumption DEF Bytes
  <1> QED BY <1>1 DEF Bytes, Defaults

\* The page write that a thread is at, and the bytes that it sends.
LEMMA CurrentWrite ==
  ASSUME TypeInv, NEW t \in Threads, pc[t] # "idle"
  PROVE  /\ todo[t] \in {Plan1, Plan2}
         /\ Head(todo[t])[1] \in Cells /\ Head(todo[t])[2] \in 1..PageSize
         /\ \A k \in Nat : k < Head(todo[t])[2] => Source(Head(todo[t])[1] + k) \in Bytes
  <1>1. todo[t] \in {Plan1, Plan2}
    BY DEF TypeInv, Planned, TypeOK
  <1>2. CASE todo[t] = Plan1
    <2>1. Head(todo[t])[1] = DataAddr /\ Head(todo[t])[2] = DataLen
      BY <1>2, PlanFacts
    <2>2. DataAddr \in Cells /\ DataLen \in 1..PageSize
      BY Layout, StoreAssumption
    <2>3. ASSUME NEW k \in Nat, k < DataLen PROVE Source(DataAddr + k) \in Bytes
      <3>1. (DataAddr + k) - DataAddr + 1 \in 1..DataLen
        BY <2>3, Layout
      <3>2. ram[(DataAddr + k) - DataAddr + 1] \in Bytes
        BY <3>1 DEF TypeInv, TypeOK
      <3> QED BY <3>2, ByteFacts DEF Source
    <2> QED BY <1>1, <2>1, <2>2, <2>3
  <1>3. CASE todo[t] = Plan2
    <2>1. Head(todo[t])[1] = FlagAddr /\ Head(todo[t])[2] = 1
      BY <1>3, PlanFacts
    <2>2. FlagAddr \in Cells /\ 1 \in 1..PageSize
      BY Layout
    <2>3. ASSUME NEW k \in Nat, k < 1 PROVE Source(FlagAddr + k) \in Bytes
      <3>1. FlagAddr + k = FlagAddr
        BY <2>3, Layout
      <3> QED BY <3>1, ByteFacts DEF Source
    <2> QED BY <1>1, <2>1, <2>2, <2>3
  <1> QED BY <1>1, <1>2, <1>3

\* What a boot finds.
LEMMA BootType == ASSUME NEW m \in [Cells -> Bytes] PROVE Boot(m) \in [1..DataLen -> Bytes]
  <1>1. [i \in 1..DataLen |-> m[DataAddr + i - 1]] \in [1..DataLen -> Bytes]
    BY Layout
  <1> QED BY <1>1, ByteFacts DEF Boot

LEMMA FreeType == Free \in Chips
  <1>1. 0 \in Cells
    <2> DEFINE top == Pages * PageSize - 1
    <2>1. top \in Int /\ Cells = 0..top
      BY StoreAssumption DEF Cells
    <2> HIDE DEF top
    <2> QED BY <2>1, Layout
  <1> QED BY <1>1 DEF Free, Chips

LEMMA StoreInit == Init => TypeInv
  <1> SUFFICES ASSUME Init PROVE TypeInv
    OBVIOUS
  <1>1. mem \in [Cells -> Bytes] /\ prior \in [Cells -> Bytes]
    BY ByteFacts DEF Init
  <1>2. chip \in Chips /\ ram \in [1..DataLen -> Bytes]
    BY <1>1, FreeType, BootType DEF Init
  <1>3. todo \in [Threads -> Seq(Cells \X (1..PageSize))]
    BY PlanFacts DEF Init
  <1>4. sent \in [Threads -> 0..PageSize]
    BY Layout DEF Init
  <1>5. ops \in 0..MaxOps
    BY StoreAssumption DEF Init
  <1>6. TypeOK
    BY <1>1, <1>2, <1>3, <1>4, <1>5 DEF Init, TypeOK, Chips
  <1> QED BY <1>6 DEF Init, TypeInv, Planned

\* A step of one thread, from what it does to the chip and to its own variables.
LEMMA ThreadType ==
  ASSUME TypeInv, NEW t \in Threads,
         mem' \in [Cells -> Bytes], prior' \in [Cells -> Bytes], chip' \in Chips,
         ram' \in [1..DataLen -> Bytes], ops' \in 0..MaxOps, clash' \in BOOLEAN,
         kept' \in [1..DataLen -> Bytes] \cup {None},
         NEW l \in {"idle", "changed", "enable", "begin", "bytes", "wait", "poll"},
         NEW p \in {<< >>, Plan1, Plan2}, NEW n \in 0..PageSize,
         pc' = [pc EXCEPT ![t] = l], todo' = [todo EXCEPT ![t] = p], sent' = [sent EXCEPT ![t] = n],
         p = << >> <=> l = "idle", l = "changed" => p = Plan2, l = "bytes" => n <= Head(p)[2]
  PROVE  TypeInv'
  <1>1. p \in Seq(Cells \X (1..PageSize))
    BY PlanFacts
  <1>2. /\ pc' \in [Threads -> {"idle", "changed", "enable", "begin", "bytes", "wait", "poll"}]
        /\ todo' \in [Threads -> Seq(Cells \X (1..PageSize))] /\ sent' \in [Threads -> 0..PageSize]
    BY <1>1 DEF TypeInv, TypeOK
  <1>3. ASSUME NEW u \in Threads
        PROVE  /\ todo'[u] \in {<< >>, Plan1, Plan2} /\ (todo'[u] = << >> <=> pc'[u] = "idle")
               /\ pc'[u] = "changed" => todo'[u] = Plan2
               /\ pc'[u] = "bytes" => sent'[u] <= Head(todo'[u])[2]
    <2>1. CASE u = t
      BY <2>1 DEF TypeInv, TypeOK
    <2>2. CASE u # t
      BY <2>2 DEF TypeInv, TypeOK, Planned
    <2> QED BY <2>1, <2>2
  <1>4. TypeOK'
    BY <1>2, <1>3 DEF TypeOK, Chips
  <1> QED BY <1>3, <1>4 DEF TypeInv, Planned

\* The same when the thread keeps its place in one of these variables.
LEMMA Kept ==
  ASSUME TypeInv, NEW t \in Threads
  PROVE  /\ pc = [pc EXCEPT ![t] = pc[t]] /\ todo = [todo EXCEPT ![t] = todo[t]]
         /\ sent = [sent EXCEPT ![t] = sent[t]] /\ sent[t] \in 0..PageSize
         /\ pc[t] \in {"idle", "changed", "enable", "begin", "bytes", "wait", "poll"}
         /\ todo[t] \in {<< >>, Plan1, Plan2}
  BY DEF TypeInv, TypeOK, Planned

LEMMA StepType == ASSUME TypeInv, NEW t \in Threads, Step(t) PROVE TypeInv'
  <1>0. /\ mem \in [Cells -> Bytes] /\ prior \in [Cells -> Bytes] /\ chip \in Chips
        /\ ram \in [1..DataLen -> Bytes] /\ ops \in 0..MaxOps /\ clash \in BOOLEAN
        /\ kept \in [1..DataLen -> Bytes] \cup {None}
    BY DEF TypeInv, TypeOK, Chips
  <1>1. BusStep(t) /\ pc[t] # "idle"
    BY DEF Step, Save, WriteEnable, PageWriteBegin, PageWriteByte, PageWriteEnd, WaitBegin,
           WaitForWriteEnd
  <1>2. ram' = ram /\ ops' = ops /\ clash' \in BOOLEAN
    BY <1>0, <1>1 DEF BusStep
  <1>3. /\ todo[t] \in {Plan1, Plan2} /\ todo[t] # << >>
        /\ Head(todo[t])[1] \in Cells /\ Head(todo[t])[2] \in 1..PageSize
    BY <1>1, CurrentWrite, PlanFacts
  <1>4. chip.got \in Seq(Bytes) /\ Append(chip.got, Junk) \in Seq(Bytes)
    <2>1. chip.got \in Seq(Bytes)
      BY <1>0 DEF Chips
    <2> QED BY <2>1, ByteFacts
  <1>5. CASE WriteEnable(t)
    <2>1. mem' \in [Cells -> Bytes] /\ prior' \in [Cells -> Bytes] /\ chip' \in Chips
      <3>1. CASE chip.sel = "no" /\ ~chip.busy
        <4>1. [chip EXCEPT !.wel = TRUE] \in Chips
          BY <1>0 DEF Chips
        <4> QED BY <1>0, <1>5, <3>1, <4>1 DEF WriteEnable
      <3>2. CASE ~(chip.sel = "no" /\ ~chip.busy)
        BY <1>0, <1>4, <1>5, <3>2, ReleaseType DEF WriteEnable
      <3> QED BY <3>1, <3>2
    <2>2. pc' = [pc EXCEPT ![t] = "begin"] /\ UNCHANGED <<todo, sent, kept>>
      BY <1>5 DEF WriteEnable, Goto
    <2> QED BY <1>0, <1>2, <1>3, <2>1, <2>2, Kept, ThreadType
  <1>6. CASE PageWriteBegin(t)
    <2>1. chip' \in Chips
      <3>1. [chip EXCEPT !.sel = "data", !.at = Head(todo[t])[1]]
              = [[chip EXCEPT !.sel = "data"] EXCEPT !.at = Head(todo[t])[1]]
        BY <1>0 DEF Chips
      <3>2. [chip EXCEPT !.sel = "data"] \in Chips /\ [chip EXCEPT !.sel = "ignored"] \in Chips
        BY <1>0 DEF Chips
      <3>3. [[chip EXCEPT !.sel = "data"] EXCEPT !.at = Head(todo[t])[1]] \in Chips
        BY <1>3, <3>2 DEF Chips
      <3>4. Taken(Junk) \in Chips
        BY <1>0, TakenType, ByteFacts
      <3> QED BY <1>6, <3>1, <3>2, <3>3, <3>4 DEF PageWriteBegin
    <2>2. /\ pc' = [pc EXCEPT ![t] = "bytes"] /\ sent' = [sent EXCEPT ![t] = 0]
          /\ UNCHANGED <<mem, prior, todo, kept>>
      BY <1>6 DEF PageWriteBegin, Goto
    <2>3. 0 \in 0..PageSize /\ 0 <= Head(todo[t])[2]
      BY <1>3, Layout
    <2> QED BY <1>0, <1>2, <1>3, <2>1, <2>2, <2>3, Kept, ThreadType
  <1>7. CASE PageWriteByte(t)
    <2>1. sent[t] \in Nat /\ sent[t] < Head(todo[t])[2] /\ pc[t] = "bytes"
      BY <1>7, Kept DEF PageWriteByte
    <2>2. Source(Head(todo[t])[1] + sent[t]) \in Bytes
      BY <1>1, <2>1, CurrentWrite
    <2>3. chip' \in Chips
      BY <1>0, <1>7, <2>2, TakenType DEF PageWriteByte
    <2>4. sent' = [sent EXCEPT ![t] = sent[t] + 1] /\ UNCHANGED <<mem, prior, pc, todo, kept>>
      BY <1>7 DEF PageWriteByte
    <2>5. sent[t] + 1 \in 0..PageSize /\ sent[t] + 1 <= Head(todo[t])[2]
      BY <1>3, <2>1, Layout
    <2> QED BY <1>0, <1>2, <1>3, <2>1, <2>3, <2>4, <2>5, Kept, ThreadType
  <1>8. CASE PageWriteEnd(t)
    <2>1. mem' \in [Cells -> Bytes] /\ prior' \in [Cells -> Bytes] /\ chip' \in Chips
      BY <1>0, <1>4, <1>8, ReleaseType DEF PageWriteEnd
    <2>2. pc' = [pc EXCEPT ![t] = "wait"] /\ UNCHANGED <<todo, sent, kept>>
      BY <1>8 DEF PageWriteEnd, Goto
    <2> QED BY <1>0, <1>2, <1>3, <2>1, <2>2, Kept, ThreadType
  <1>9. CASE WaitBegin(t)
    <2>1. chip' \in Chips
      <3>1. [chip EXCEPT !.sel = "status"] \in Chips
        BY <1>0 DEF Chips
      <3> QED BY <1>0, <1>9, <3>1, TakenType, ByteFacts DEF WaitBegin
    <2>2. pc' = [pc EXCEPT ![t] = "poll"] /\ UNCHANGED <<mem, prior, todo, sent, kept>>
      BY <1>9 DEF WaitBegin, Goto
    <2> QED BY <1>0, <1>2, <1>3, <2>1, <2>2, Kept, ThreadType
  <1>10. CASE WaitForWriteEnd(t)
    <2>1. mem' \in [Cells -> Bytes] /\ prior' \in [Cells -> Bytes] /\ chip' \in Chips
      BY <1>0, <1>4, <1>10, ReleaseType DEF WaitForWriteEnd
    <2>2. kept' \in [1..DataLen -> Bytes] \cup {None}
      BY <1>0, <1>10 DEF WaitForWriteEnd
    <2>3. /\ pc' = [pc EXCEPT ![t] = IF Len(todo[t]) = 1 THEN "idle" ELSE "enable"]
          /\ todo' = [todo EXCEPT ![t] = Tail(todo[t])] /\ UNCHANGED sent
      BY <1>10 DEF WaitForWriteEnd, Goto
    <2>4. CASE todo[t] = Plan1
      <3>1. pc' = [pc EXCEPT ![t] = "idle"] /\ todo' = [todo EXCEPT ![t] = << >>]
        BY <2>3, <2>4, PlanFacts
      <3> QED BY <1>0, <1>2, <2>1, <2>2, <2>3, <3>1, Kept, ThreadType
    <2>5. CASE todo[t] = Plan2
      <3>1. ~(Len(todo[t]) = 1) /\ Tail(todo[t]) = Plan1 /\ Plan1 # << >>
        BY <2>5, PlanFacts
      <3>2. pc' = [pc EXCEPT ![t] = "enable"] /\ todo' = [todo EXCEPT ![t] = Plan1]
        BY <2>3, <3>1
      <3> QED BY <1>0, <1>2, <2>1, <2>2, <2>3, <3>1, <3>2, Kept, ThreadType
    <2> QED BY <1>3, <2>4, <2>5
  <1>11. CASE Save(t)
    <2>1. pc' = [pc EXCEPT ![t] = "enable"] /\ UNCHANGED <<mem, prior, chip, todo, sent, kept>>
      BY <1>11 DEF Save, Goto
    <2> QED BY <1>0, <1>2, <1>3, <2>1, Kept, ThreadType
  <1> QED BY <1>5, <1>6, <1>7, <1>8, <1>9, <1>10, <1>11 DEF Step

\* A step that leaves the threads where they are.
LEMMA StillType ==
  ASSUME TypeInv, UNCHANGED <<pc, todo, sent>>,
         mem' \in [Cells -> Bytes], prior' \in [Cells -> Bytes], chip' \in Chips,
         ram' \in [1..DataLen -> Bytes], ops' \in 0..MaxOps, clash' \in BOOLEAN,
         kept' \in [1..DataLen -> Bytes] \cup {None}
  PROVE  TypeInv'
  <1>1. TypeOK'
    BY DEF TypeInv, TypeOK, Chips
  <1> QED BY <1>1 DEF TypeInv, Planned

\* What a read of the chip answers.
LEMMA AnswerType ==
  ASSUME mem \in [Cells -> Bytes], NEW r \in Answers(DataAddr, DataLen)
  PROVE  r \in [1..DataLen -> Bytes]
  <1>1. [i \in 1..DataLen |-> mem[DataAddr + i - 1]] \in [1..DataLen -> Bytes]
    BY Layout
  <1> QED BY <1>1 DEF Answers

\* A page that a power cut leaves.
LEMMA CutType ==
  ASSUME mem \in [Cells -> Bytes], prior \in [Cells -> Bytes], NEW m \in CutPages
  PROVE  m \in [Cells -> Bytes]
  <1>1. [c \in Cells |-> IF Page(c) = Page(chip.at) THEN Blank ELSE mem[c]] \in [Cells -> Bytes]
    BY ByteFacts
  <1> QED BY <1>1 DEF CutPages

LEMMA NextType == TypeInv /\ [Next]_vars => TypeInv'
  <1> SUFFICES ASSUME TypeInv, [Next]_vars PROVE TypeInv'
    OBVIOUS
  <1>0. /\ mem \in [Cells -> Bytes] /\ prior \in [Cells -> Bytes] /\ chip \in Chips
        /\ ram \in [1..DataLen -> Bytes] /\ ops \in 0..MaxOps /\ clash \in BOOLEAN
        /\ kept \in [1..DataLen -> Bytes] \cup {None} /\ MaxOps \in Nat
    BY StoreAssumption DEF TypeInv, TypeOK, Chips
  <1>1. CASE WriteCycleEnds
    <2>1. chip' \in Chips
      BY <1>0, <1>1 DEF WriteCycleEnds, Chips
    <2> QED BY <1>0, <1>1, <2>1, StillType DEF WriteCycleEnds
  <1>2. CASE PowerCut
    <2>1. PICK m \in CutPages : /\ mem' = m /\ prior' = m /\ ram' = Boot(m)
                                /\ kept' = IF m[FlagAddr] = Valid /\ kept # None THEN Boot(m) ELSE None
      BY <1>2 DEF PowerCut
    <2>2. m \in [Cells -> Bytes] /\ Boot(m) \in [1..DataLen -> Bytes]
      BY <1>0, CutType, BootType
    <2>3. kept' \in [1..DataLen -> Bytes] \cup {None}
      BY <2>1, <2>2
    <2>4. chip' \in Chips /\ ops' \in 0..MaxOps
      BY <1>0, <1>2, FreeType DEF PowerCut
    <2>5. /\ pc' = [t \in Threads |-> "idle"] /\ todo' = [t \in Threads |-> << >>]
          /\ sent' = [t \in Threads |-> 0] /\ clash' = clash
      BY <1>2 DEF PowerCut
    <2>6. todo' \in [Threads -> Seq(Cells \X (1..PageSize))] /\ sent' \in [Threads -> 0..PageSize]
      BY <2>5, PlanFacts, Layout
    <2>7. TypeOK'
      BY <1>0, <2>1, <2>2, <2>3, <2>4, <2>5, <2>6 DEF TypeOK, Chips
    <2> QED BY <2>5, <2>7 DEF TypeInv, Planned
  <1>3. ASSUME NEW t \in Threads, Load(t) PROVE TypeInv'
    <2>1. chip.got \in Seq(Bytes) /\ Append(chip.got, Junk) \in Seq(Bytes)
      <3>1. chip.got \in Seq(Bytes)
        BY <1>0 DEF Chips
      <3> QED BY <3>1, ByteFacts
    <2>2. mem' \in [Cells -> Bytes] /\ prior' \in [Cells -> Bytes] /\ chip' \in Chips
      BY <1>0, <1>3, <2>1, ReleaseType DEF Load
    <2>3. ram' \in [1..DataLen -> Bytes]
      BY <1>0, <1>3, AnswerType DEF Load
    <2>4. ops' \in 0..MaxOps /\ clash' \in BOOLEAN /\ UNCHANGED <<pc, todo, sent, kept>>
      BY <1>0, <1>3 DEF Load
    <2> QED BY <1>0, <2>2, <2>3, <2>4, StillType
  <1>4. ASSUME NEW t \in Threads, NEW s \in [1..DataLen -> Values], Change(t, s) PROVE TypeInv'
    <2>1. /\ UNCHANGED <<mem, prior, chip, sent, kept>> /\ pc' = [pc EXCEPT ![t] = "changed"]
          /\ todo' = [todo EXCEPT ![t] = Plan2]
      BY <1>4, SavePlanIs DEF Change, Goto
    <2>2. ram' \in [1..DataLen -> Bytes]
      BY <1>4 DEF Change, Bytes
    <2>3. ops' \in 0..MaxOps /\ clash' \in BOOLEAN
      BY <1>0, <1>4 DEF Change
    <2>4. Plan2 # << >> /\ sent' = [sent EXCEPT ![t] = sent[t]] /\ sent[t] \in 0..PageSize
      BY <2>1, PlanFacts, Kept
    <2> QED BY <1>0, <2>1, <2>2, <2>3, <2>4, ThreadType
  <1>5. CASE UNCHANGED vars
    BY <1>0, <1>5, StillType DEF vars
  <1>6. ASSUME NEW i \in Unsaved, NEW v \in Values, Drive(i, v) PROVE TypeInv'
    <2>1. ram' \in [1..DataLen -> Bytes]
      BY <1>0, <1>6 DEF Drive, Bytes
    <2>2. ops' \in 0..MaxOps /\ UNCHANGED <<mem, prior, chip, pc, todo, sent, clash, kept>>
      BY <1>0, <1>6 DEF Drive
    <2> QED BY <1>0, <2>1, <2>2, StillType
  <1> QED BY <1>1, <1>2, <1>3, <1>4, <1>5, <1>6, StepType DEF Next

\* The variables of the store and of the chip keep their types, a thread has page writes
\* left exactly while it saves, and it never sends more bytes than the page write has.
THEOREM StoreTypeCorrect == Spec => []TypeOK
  <1>1. TypeInv => TypeOK
    BY DEF TypeInv
  <1> QED BY <1>1, StoreInit, NextType, PTL DEF Spec

\* SPI_FLASH_BufferWrite splits every buffer, and the page writes that a save has left stay
\* in their pages.
THEOREM StoreWritesAreSplit == Spec => []WritesAreSplit
  <1>1. AllAreSplit
    <2> SUFFICES ASSUME NEW addr \in 0..(2 * PageSize), NEW n \in 0..(3 * PageSize)
                 PROVE  Split(addr, n)
      BY DEF AllAreSplit
    <2>1. PageSize \in Nat /\ PageSize > 3 /\ addr \in Nat /\ n \in Nat
      BY Layout
    <2>2. n \div PageSize <= 3
      BY <2>1
    <2>3. n \div PageSize \in Nat
      BY <2>1
    <2> QED BY <2>1, <2>2, <2>3, BufferWriteSplits
  <1>2. ASSUME TypeInv, NEW t \in Threads, NEW i \in DOMAIN todo[t]
        PROVE  U8(todo[t][i][1]) + todo[t][i][2] <= PageSize
    <2>1. U8(FlagAddr) + 1 <= PageSize /\ U8(DataAddr) + DataLen <= PageSize
      BY Layout, DivMod, LayoutAssumption
    <2>2. CASE todo[t] = << >>
      BY <1>2, <2>2
    <2>3. CASE todo[t] = Plan1
      <3>1. i = 1
        BY <1>2, <2>3 DEF Plan1
      <3> QED BY <2>1, <2>3, <3>1 DEF Plan1
    <2>4. CASE todo[t] = Plan2
      <3>1. i \in {1, 2}
        BY <1>2, <2>4 DEF Plan2
      <3> QED BY <2>1, <2>4, <3>1 DEF Plan2
    <2> QED BY <1>2, <2>2, <2>3, <2>4 DEF TypeInv, Planned
  <1>3. TypeInv => WritesAreSplit
    BY <1>1, <1>2 DEF WritesAreSplit
  <1> QED BY <1>3, StoreInit, NextType, PTL DEF Spec

-------------------------------------------------------------------------------
\* A save that nobody disturbs

\* The settings that a block of cells holds.
BlockOf(m) == [i \in 1..DataLen |-> m[DataAddr + i - 1]]

\* The block m holds the settings of the last completed save.
Holds(m) == kept # None => m[FlagAddr] = Valid /\ Same(BlockOf(m), kept)

\* No save is under way; threads may have changed the settings and not yet begun to save.
Rest ==
    /\ \A t \in Threads : ~Active(t)
    /\ chip.sel = "no" /\ chip.got = << >> /\ ~chip.busy
    /\ Idle /\ Written => Same(Block, ram)
    /\ Holds(mem)

\* The byte at address a changes with a save only.
Fixed(a) == a = FlagAddr \/ a - DataAddr + 1 \notin Unsaved

\* Thread t is before the end of a page write: nothing of it is in the cells, and the chip
\* has taken in the bytes that were sent.
Before(t) ==
    /\ ~chip.busy /\ Holds(mem)
    /\ todo[t] = Plan1 => Written
    /\ pc[t] \in {"enable", "begin"} => chip.sel = "no" /\ chip.got = << >>
    /\ pc[t] = "begin" => chip.wel
    /\ pc[t] = "bytes" =>
        /\ chip.sel = "data" /\ chip.at = Head(todo[t])[1] /\ Len(chip.got) = sent[t]
        /\ \A i \in 1..sent[t] : Fixed(chip.at + i - 1) => chip.got[i] = Source(chip.at + i - 1)

\* Thread t waits for the end of the cycle of a page write.
After(t) ==
    /\ chip.got = << >> /\ chip.sel = IF pc[t] = "wait" THEN "no" ELSE "status"
    /\ chip.at = Head(todo[t])[1] /\ Written
    /\ IF todo[t] = Plan1 THEN Same(Block, ram) ELSE Holds(mem)
    /\ chip.busy => Holds(prior)

Saving(t) ==
    /\ \A u \in Threads \ {t} : ~Active(u)
    /\ \/ pc[t] \in {"enable", "begin", "bytes"} /\ Before(t)
       \/ pc[t] \in {"wait", "poll"} /\ After(t)

\* As long as no save was disturbed, at most one thread saves, and chip and cells are where
\* its place says.
SaveInv == ~clash => Rest \/ \E t \in Threads : Saving(t)

StoreInv == TypeInv /\ SaveInv

\* A page write that stays in its page stores its bytes one behind the other.
LEMMA InPage ==
  ASSUME NEW a \in Nat, NEW n \in Nat, U8(a) + n <= PageSize, NEW i \in 1..n
  PROVE  Page(a) * PageSize + ((a + i - 1) % PageSize) = a + i - 1
  <1>1. /\ a = Page(a) * PageSize + U8(a) /\ Page(a) \in Nat /\ U8(a) \in 0..(PageSize - 1)
        /\ PageSize \in Nat
    BY DivMod, Layout
  <1> DEFINE q == Page(a)
             r == U8(a)
             b == q * PageSize
  <1>2. b \in Nat
    BY <1>1
  <1> HIDE DEF q, r
  <1>3. r + i - 1 \in 0..(PageSize - 1) /\ q \in Nat
    BY <1>1 DEF q, r
  <1>4. U8(q * PageSize + (r + i - 1)) = r + i - 1
    BY <1>3, DivModUnique
  <1>5. a = b + r /\ r \in Nat
    BY <1>1 DEF q, r
  <1> HIDE DEF b
  <1>6. a + i - 1 = b + (r + i - 1)
    BY <1>2, <1>5
  <1>7. (a + i - 1) % PageSize = r + i - 1
    BY <1>4, <1>6 DEF U8, b
  <1> QED BY <1>6, <1>7 DEF b, q

LEMMA ProgrammedCells ==
  ASSUME NEW a \in Nat, NEW bytes \in Seq(Bytes), U8(a) + Len(bytes) <= PageSize,
         NEW c \in Cells
  PROVE  /\ \A i \in 1..Len(bytes) : c = a + i - 1 => Programmed(a, bytes)[c] = bytes[i]
         /\ (\A i \in 1..Len(bytes) : c # a + i - 1) => Programmed(a, bytes)[c] = mem[c]
  <1> DEFINE n == Len(bytes)
             cell(i) == Page(a) * PageSize + ((a + i - 1) % PageSize)
  <1>1. DOMAIN bytes = 1..n /\ n \in Nat
    OBVIOUS
  <1>2. Programmed(a, bytes)[c] = IF \E i \in DOMAIN bytes : c = cell(i)
                                  THEN bytes[CHOOSE i \in DOMAIN bytes : c = cell(i)]
                                  ELSE mem[c]
    BY DEF Programmed
  <1>3. U8(a) + n <= PageSize
    OBVIOUS
  <1> HIDE DEF n
  <1>4. \A i \in 1..n : cell(i) = a + i - 1
    BY <1>1, <1>3, InPage
  <1> HIDE DEF cell
  <1>5. ASSUME NEW i \in 1..n, c = a + i - 1 PROVE Programmed(a, bytes)[c] = bytes[i]
    <2> DEFINE j == CHOOSE k \in DOMAIN bytes : c = cell(k)
    <2>1. c = cell(i) /\ i \in DOMAIN bytes
      BY <1>1, <1>4, <1>5
    <2>2. j \in DOMAIN bytes /\ c = cell(j)
      BY <2>1
    <2> HIDE DEF j
    <2>3. j = i
      BY <1>1, <1>4, <1>5, <2>2
    <2> QED BY <1>2, <2>1, <2>3 DEF j
  <1>6. ASSUME \A i \in 1..n : c # a + i - 1 PROVE Programmed(a, bytes)[c] = mem[c]
    BY <1>1, <1>2, <1>4, <1>6
  <1> QED BY <1>5, <1>6 DEF n

\* The two page writes of a save: the flag leaves the settings alone, and the settings
\* leave the flag alone.
LEMMA FlagWrite ==
  ASSUME mem \in [Cells -> Bytes], NEW g \in Seq(Bytes), Len(g) = 1, g[1] = Valid
  PROVE  /\ Programmed(FlagAddr, g)[FlagAddr] = Valid
         /\ BlockOf(Programmed(FlagAddr, g)) = BlockOf(mem)
  <1>0. U8(FlagAddr) + Len(g) <= PageSize
    BY Layout, DivMod
  <1>1. FlagAddr = FlagAddr + 1 - 1 /\ 1 \in 1..Len(g) /\ FlagAddr \in Cells
    BY Layout
  <1>2. Programmed(FlagAddr, g)[FlagAddr] = g[1]
    BY <1>0, <1>1, Layout, ProgrammedCells
  <1>3. ASSUME NEW i \in 1..DataLen
        PROVE  Programmed(FlagAddr, g)[DataAddr + i - 1] = mem[DataAddr + i - 1]
    <2>1. DataAddr + i - 1 \in Cells /\ DataAddr + i - 1 # FlagAddr
      BY Layout
    <2>2. \A k \in 1..Len(g) : FlagAddr + k - 1 = FlagAddr
      BY Layout
    <2>3. \A k \in 1..Len(g) : DataAddr + i - 1 # FlagAddr + k - 1
      BY <2>1, <2>2
    <2> QED BY <1>0, <2>1, <2>3, Layout, ProgrammedCells
  <1> QED BY <1>2, <1>3 DEF BlockOf

LEMMA DataWrite ==
  ASSUME mem \in [Cells -> Bytes], ram \in [1..DataLen -> Bytes],
         NEW g \in Seq(Bytes), Len(g) = DataLen,
         \A i \in (1..DataLen) \ Unsaved : g[i] = ram[i]
  PROVE  /\ Programmed(DataAddr, g)[FlagAddr] = mem[FlagAddr]
         /\ Same(BlockOf(Programmed(DataAddr, g)), ram)
  <1>0. U8(DataAddr) + Len(g) <= PageSize
    BY LayoutAssumption
  <1>1. Programmed(DataAddr, g)[FlagAddr] = mem[FlagAddr]
    <2>1. \A k \in 1..Len(g) : FlagAddr # DataAddr + k - 1
      BY Layout
    <2> QED BY <1>0, <2>1, Layout, ProgrammedCells
  <1>2. ASSUME NEW i \in (1..DataLen) \ Unsaved
        PROVE  Programmed(DataAddr, g)[DataAddr + i - 1] = ram[i]
    <2>1. DataAddr + i - 1 \in Cells
      BY Layout
    <2> QED BY <1>0, <2>1, Layout, ProgrammedCells
  <1> QED BY <1>1, <1>2 DEF BlockOf, Same

\* Only the thread that saves takes a step when no save is disturbed.
LEMMA OnlyOne ==
  ASSUME TypeInv, SaveInv, NEW t \in Threads, Active(t), ~Disturbs(t), ~clash
  PROVE  Saving(t)
  <1>1. ~Rest
    BY DEF Rest
  <1>2. PICK u \in Threads : Saving(u)
    BY <1>1 DEF SaveInv
  <1>3. u = t
    BY <1>2 DEF Saving
  <1> QED BY <1>2, <1>3


\* Each step of the thread that saves leads to the next place of its save.
LEMMA StepSaves ==
  ASSUME TypeInv, NEW t \in Threads, Saving(t), Step(t)
  PROVE  Rest' \/ Saving(t)'
  <1>0. /\ mem \in [Cells -> Bytes] /\ prior \in [Cells -> Bytes] /\ chip \in Chips
        /\ ram \in [1..DataLen -> Bytes] /\ pc[t] \notin {"idle", "changed"} /\ ram' = ram
        /\ pc \in [Threads -> {"idle", "changed", "enable", "begin", "bytes", "wait", "poll"}]
        /\ todo \in [Threads -> Seq(Cells \X (1..PageSize))]
        /\ sent \in [Threads -> 0..PageSize] /\ sent[t] \in Nat
    <2>1. sent[t] \in 0..PageSize
      BY DEF TypeInv, TypeOK
    <2>2. sent[t] \in Nat
      BY <2>1, Layout
    <2> QED BY <2>2 DEF TypeInv, TypeOK, Chips, Saving, Step, Save, WriteEnable, PageWriteBegin,
               PageWriteByte, PageWriteEnd, WaitBegin, WaitForWriteEnd, BusStep
  <1>1. /\ todo[t] \in {Plan1, Plan2} /\ todo[t] # << >>
        /\ Head(todo[t])[1] \in Cells /\ Head(todo[t])[2] \in 1..PageSize
    BY <1>0, CurrentWrite, PlanFacts
  <1>2. ASSUME NEW l, pc' = [pc EXCEPT ![t] = l]
        PROVE  pc'[t] = l /\ \A u \in Threads \ {t} : ~Active(u)'
    BY <1>0, <1>2 DEF Saving, Active
  <1>3. CASE WriteEnable(t)
    <2>1. pc[t] = "enable" /\ UNCHANGED <<todo, sent, kept>> /\ pc' = [pc EXCEPT ![t] = "begin"]
      BY <1>3 DEF WriteEnable, Goto
    <2>2. Before(t) /\ chip.sel = "no" /\ chip.got = << >> /\ ~chip.busy
      BY <2>1 DEF Saving, Before
    <2>3. chip' = [chip EXCEPT !.wel = TRUE] /\ UNCHANGED <<mem, prior>>
      BY <1>3, <2>2 DEF WriteEnable
    <2>4. chip'.sel = "no" /\ chip'.got = << >> /\ ~chip'.busy /\ chip'.wel
      BY <1>0, <2>2, <2>3 DEF Chips
    <2>5. Before(t)'
      BY <1>2, <2>1, <2>2, <2>3, <2>4 DEF Before, Holds, Written, BlockOf
    <2> QED BY <1>2, <2>1, <2>5 DEF Saving
  <1>4. CASE PageWriteBegin(t)
    <2>1. /\ pc[t] = "begin" /\ UNCHANGED <<mem, prior, todo, kept>> /\ pc' = [pc EXCEPT ![t] = "bytes"]
          /\ sent'[t] = 0
      BY <1>0, <1>4 DEF PageWriteBegin, Goto
    <2>2. Before(t) /\ chip.sel = "no" /\ chip.got = << >> /\ ~chip.busy /\ chip.wel
      BY <2>1 DEF Saving, Before
    <2>3. chip' = [chip EXCEPT !.sel = "data", !.at = Head(todo[t])[1]]
      BY <1>4, <2>2 DEF PageWriteBegin
    <2>4. /\ chip'.sel = "data" /\ chip'.got = << >> /\ chip'.at = Head(todo[t])[1] /\ chip'.busy = chip.busy
      BY <1>0, <2>2, <2>3 DEF Chips
    <2>5. Len(chip'.got) = sent'[t] /\ \A i \in 1..sent'[t] : FALSE
      <3>1. Len(<< >>) = 0 /\ \A i \in 1..0 : FALSE
        OBVIOUS
      <3> QED BY <2>1, <2>4, <3>1
    <2>6. Before(t)'
      <3>1. Holds(mem)' /\ (todo[t] = Plan1 => Written)'
        BY <2>1, <2>2 DEF Before, Holds, Written, BlockOf
      <3>2. (\A i \in 1..sent[t] : Fixed(chip.at + i - 1) => chip.got[i] = Source(chip.at + i - 1))'
        BY <2>5
      <3>3. pc'[t] = "bytes" /\ ~chip'.busy
        BY <1>2, <2>1, <2>2, <2>4
      <3>4. (chip.at = Head(todo[t])[1])'
        BY <2>1, <2>4
      <3> QED BY <2>4, <2>5, <3>1, <3>2, <3>3, <3>4 DEF Before
    <2> QED BY <1>2, <2>1, <2>6 DEF Saving
  <1>5. CASE PageWriteByte(t)
    <2> DEFINE b == Source(Head(todo[t])[1] + sent[t])
    <2>1. /\ pc[t] = "bytes" /\ UNCHANGED <<mem, prior, pc, todo, kept>> /\ sent'[t] = sent[t] + 1
          /\ chip' = Taken(b) /\ sent[t] < Head(todo[t])[2]
      BY <1>0, <1>5 DEF PageWriteByte
    <2>2. /\ Before(t) /\ chip.sel = "data" /\ ~chip.busy /\ chip.at = Head(todo[t])[1]
          /\ Len(chip.got) = sent[t]
          /\ \A i \in 1..sent[t] : Fixed(chip.at + i - 1) => chip.got[i] = Source(chip.at + i - 1)
      BY <2>1 DEF Saving, Before
    <2>3. b \in Bytes
      BY <1>0, <2>1, CurrentWrite
    <2>4. chip.got \in Seq(Bytes) /\ chip.at \in Nat
      BY <1>0, Layout DEF Chips
    <2>5. chip' = [chip EXCEPT !.got = Append(chip.got, b)]
      BY <1>0, <2>1, <2>2 DEF Taken, Chips
    <2>6. /\ chip'.sel = "data" /\ chip'.got = Append(chip.got, b) /\ chip'.at = chip.at
          /\ chip'.busy = chip.busy
      BY <1>0, <2>2, <2>5 DEF Chips
    <2>7. b = Source(chip.at + (sent[t] + 1) - 1)
      <3>1. chip.at + (sent[t] + 1) - 1 = Head(todo[t])[1] + sent[t]
        BY <1>0, <2>2, <2>4
      <3> QED BY <3>1
    <2> HIDE DEF b
    <2>8. Len(chip'.got) = sent'[t]
      BY <2>1, <2>2, <2>3, <2>4, <2>6
    <2>9. ASSUME NEW i \in 1..sent'[t], Fixed(chip.at + i - 1)
          PROVE  chip'.got[i] = Source(chip.at + i - 1)
      <3>1. CASE i = sent[t] + 1
        <4>1. Append(chip.got, b)[Len(chip.got) + 1] = b
          BY <2>3, <2>4
        <4> QED BY <2>2, <2>6, <2>7, <3>1, <4>1
      <3>2. CASE i # sent[t] + 1
        <4>1. i \in 1..sent[t]
          BY <1>0, <2>1, <2>9, <3>2
        <4>2. i \in 1..Len(chip.got)
          BY <2>2, <4>1
        <4>3. Append(chip.got, b)[i] = chip.got[i]
          BY <2>3, <2>4, <4>2
        <4> QED BY <2>2, <2>6, <2>9, <4>1, <4>3
      <3> QED BY <3>1, <3>2
    <2>10. (\A i \in 1..sent[t] : Fixed(chip.at + i - 1) => chip.got[i] = Source(chip.at + i - 1))'
      BY <1>0, <2>6, <2>9 DEF Source, Fixed
    <2>11. Before(t)'
      BY <2>1, <2>2, <2>6, <2>8, <2>10 DEF Before, Holds, Written, BlockOf
    <2> QED BY <2>1, <2>11 DEF Saving, Active
  <1>6. CASE PageWriteEnd(t)
    <2>1. /\ pc[t] = "bytes" /\ UNCHANGED <<todo, kept>> /\ pc' = [pc EXCEPT ![t] = "wait"]
          /\ sent[t] = Head(todo[t])[2] /\ Release(chip.got)
      BY <1>6 DEF PageWriteEnd, Goto
    <2>2. /\ Before(t) /\ chip.sel = "data" /\ ~chip.busy /\ chip.at = Head(todo[t])[1] /\ Holds(mem)
          /\ Len(chip.got) = sent[t]
          /\ \A i \in 1..sent[t] : Fixed(chip.at + i - 1) => chip.got[i] = Source(chip.at + i - 1)
      BY <2>1 DEF Saving, Before
    <2>3. chip.got \in Seq(Bytes)
      BY <1>0 DEF Chips
    <2>4. sent[t] >= 1
      BY <1>1, <2>1
    <2>5. chip.got # << >>
      BY <2>2, <2>4
    <2>6. /\ mem' = Programmed(chip.at, chip.got) /\ prior' = mem
          /\ chip' = [Deselected EXCEPT !.busy = TRUE, !.wel = FALSE]
      BY <2>1, <2>2, <2>5 DEF Release
    <2>7. chip'.sel = "no" /\ chip'.got = << >> /\ chip'.at = chip.at
      BY <1>0, <2>6, DeselectedType DEF Chips
    <2>8. Holds(prior)'
      BY <2>1, <2>2, <2>6 DEF Holds, BlockOf
    <2>9. CASE todo[t] = Plan1
      <3>1. chip.at = DataAddr /\ Len(chip.got) = DataLen /\ Written
        BY <2>1, <2>2, <2>9, PlanFacts DEF Before
      <3>2. ASSUME NEW i \in (1..DataLen) \ Unsaved PROVE chip.got[i] = ram[i]
        <4>1. Source(DataAddr + i - 1) = ram[i] /\ Fixed(DataAddr + i - 1)
          <5>1. DataAddr + i - 1 # FlagAddr /\ (DataAddr + i - 1) - DataAddr + 1 = i
            BY Layout
          <5> QED BY <5>1 DEF Source, Fixed
        <4>2. i \in 1..sent[t]
          BY <2>2, <3>1
        <4> QED BY <2>2, <3>1, <4>1, <4>2
      <3>3. mem'[FlagAddr] = mem[FlagAddr] /\ Same(BlockOf(mem'), ram)
        BY <1>0, <2>3, <2>6, <3>1, <3>2, DataWrite
      <3>4. Written' /\ Same(Block, ram)'
        BY <1>0, <3>1, <3>3 DEF Written, Block, BlockOf, Same
      <3>5. After(t)'
        BY <1>2, <2>1, <2>2, <2>7, <2>8, <2>9, <3>4 DEF After
      <3> QED BY <1>2, <2>1, <3>5 DEF Saving
    <2>10. CASE todo[t] = Plan2
      <3>1. chip.at = FlagAddr /\ Len(chip.got) = 1 /\ sent[t] = 1
        BY <2>1, <2>2, <2>10, PlanFacts DEF Before
      <3>2. chip.got[1] = Valid
        <4>1. FlagAddr + 1 - 1 = FlagAddr /\ 1 \in 1..sent[t]
          BY <3>1, Layout
        <4>2. Fixed(chip.at + 1 - 1) => chip.got[1] = Source(chip.at + 1 - 1)
          BY <2>2, <4>1
        <4> QED BY <3>1, <4>1, <4>2 DEF Source, Fixed
      <3>3. mem'[FlagAddr] = Valid /\ BlockOf(mem') = BlockOf(mem)
        BY <1>0, <2>3, <2>6, <3>1, <3>2, FlagWrite
      <3>4. Written' /\ Holds(mem)'
        BY <2>1, <2>2, <3>3 DEF Written, Holds, BlockOf
      <3>5. ~(todo[t] = Plan1)
        BY <2>10, PlanFacts
      <3>6. After(t)'
        BY <1>2, <2>1, <2>2, <2>7, <2>8, <3>4, <3>5 DEF After
      <3> QED BY <1>2, <2>1, <3>6 DEF Saving
    <2> QED BY <1>1, <2>9, <2>10
  <1>7. CASE WaitBegin(t)
    <2>1. pc[t] = "wait" /\ UNCHANGED <<mem, prior, todo, kept>> /\ pc' = [pc EXCEPT ![t] = "poll"]
      BY <1>7 DEF WaitBegin, Goto
    <2>2. After(t) /\ chip.sel = "no" /\ chip.got = << >>
      BY <2>1 DEF Saving, After
    <2>3. chip' = [chip EXCEPT !.sel = "status"]
      BY <1>7, <2>2 DEF WaitBegin
    <2>4. chip'.sel = "status" /\ chip'.got = << >> /\ chip'.at = chip.at /\ chip'.busy = chip.busy
      BY <1>0, <2>2, <2>3 DEF Chips
    <2>5. After(t)'
      BY <1>0, <1>2, <2>1, <2>2, <2>4 DEF After, Holds, Written, Block, BlockOf, Same
    <2> QED BY <1>2, <2>1, <2>5 DEF Saving
  <1>8. CASE WaitForWriteEnd(t)
    <2>1. /\ pc[t] = "poll" /\ Release(chip.got) /\ StatusReady
          /\ pc' = [pc EXCEPT ![t] = IF Len(todo[t]) = 1 THEN "idle" ELSE "enable"]
          /\ todo' = [todo EXCEPT ![t] = Tail(todo[t])]
          /\ kept' = IF Len(todo[t]) = 1 THEN ram ELSE kept
      BY <1>8 DEF WaitForWriteEnd, Goto
    <2>2. After(t) /\ chip.sel = "status" /\ chip.got = << >> /\ ~chip.busy /\ Written
      BY <2>1 DEF Saving, After, StatusReady
    <2>3. chip' = Deselected /\ UNCHANGED <<mem, prior>>
      BY <2>1, <2>2 DEF Release
    <2>4. chip'.sel = "no" /\ chip'.got = << >> /\ ~chip'.busy
      BY <1>0, <2>2, <2>3, DeselectedType
    <2>5. Written'
      BY <2>2, <2>3 DEF Written
    <2>6. CASE todo[t] = Plan1
      <3>1. pc' = [pc EXCEPT ![t] = "idle"] /\ kept' = ram
        BY <2>1, <2>6, PlanFacts
      <3>2. \A u \in Threads : ~Active(u)'
        BY <1>0, <1>2, <3>1 DEF Active
      <3>3. Same(Block, ram)' /\ Holds(mem)'
        BY <1>0, <2>2, <2>3, <2>5, <2>6, <3>1 DEF After, Block, Holds, BlockOf, Written, Same
      <3> QED BY <2>4, <3>2, <3>3 DEF Rest
    <2>7. CASE todo[t] = Plan2
      <3>1. ~(Len(todo[t]) = 1) /\ Tail(todo[t]) = Plan1 /\ ~(todo[t] = Plan1)
        BY <2>7, PlanFacts
      <3>2. pc' = [pc EXCEPT ![t] = "enable"] /\ todo'[t] = Plan1 /\ kept' = kept
        BY <1>0, <2>1, <3>1
      <3>3. Holds(mem)'
        BY <2>2, <2>3, <3>1, <3>2 DEF After, Holds, BlockOf
      <3>4. Before(t)'
        BY <1>2, <2>4, <2>5, <3>2, <3>3 DEF Before
      <3> QED BY <1>2, <3>2, <3>4 DEF Saving
    <2> QED BY <1>1, <2>6, <2>7
  <1> QED BY <1>0, <1>3, <1>4, <1>5, <1>6, <1>7, <1>8 DEF Step, Save

\* The power monitor changes none of the bytes that a save is about.
LEMMA DriveKeeps ==
  ASSUME TypeInv, NEW i \in Unsaved, NEW v \in Values, Drive(i, v)
  PROVE  /\ \A s : Same(s, ram) => Same(s, ram')
         /\ \A t \in Threads : Before(t) => Before(t)'
  <1>1. /\ UNCHANGED <<mem, prior, chip, pc, todo, sent, clash, kept>>
        /\ ram' = [ram EXCEPT ![i] = v] /\ ram \in [1..DataLen -> Bytes] /\ chip \in Chips
    BY DEF Drive, TypeInv, TypeOK, Chips
  <1>2. \A j \in (1..DataLen) \ Unsaved : ram'[j] = ram[j]
    BY <1>1
  <1>3. ASSUME NEW t \in Threads, pc[t] = "bytes", chip.at = Head(todo[t])[1],
               NEW k \in 1..sent[t], Fixed(chip.at + k - 1)
        PROVE  Source(chip.at + k - 1)' = Source(chip.at + k - 1)
    <2>1. todo[t] \in {Plan1, Plan2} /\ sent[t] <= Head(todo[t])[2] /\ sent[t] \in Nat
      <3>1. sent[t] \in 0..PageSize
        BY DEF TypeInv, TypeOK
      <3>2. sent[t] \in Nat
        BY <3>1, Layout
      <3>3. todo[t] \in {Plan1, Plan2}
        BY <1>3, CurrentWrite
      <3> QED BY <1>3, <3>2, <3>3 DEF TypeInv, Planned
    <2>2. CASE todo[t] = Plan2
      <3>1. chip.at = FlagAddr /\ k <= 1 /\ k >= 1 /\ k \in Int
        BY <1>3, <2>1, <2>2, PlanFacts
      <3>2. chip.at + k - 1 = FlagAddr
        BY <3>1, Layout
      <3> QED BY <1>1, <3>2 DEF Source
    <2>3. CASE todo[t] = Plan1
      <3>1. chip.at = DataAddr /\ k <= DataLen /\ k >= 1 /\ k \in Int
        BY <1>3, <2>1, <2>3, PlanFacts
      <3>2. k \in 1..DataLen /\ chip.at + k - 1 # FlagAddr /\ (chip.at + k - 1) - DataAddr + 1 = k
        BY <3>1, Layout
      <3>3. k \notin Unsaved
        BY <1>3, <3>2 DEF Fixed
      <3> QED BY <1>1, <1>2, <3>2, <3>3 DEF Source
    <2> QED BY <2>1, <2>2, <2>3
  <1>4. ASSUME NEW t \in Threads, Before(t) PROVE Before(t)'
    <2>1. (pc[t] = "bytes" =>
             /\ chip.sel = "data" /\ chip.at = Head(todo[t])[1] /\ Len(chip.got) = sent[t]
             /\ \A k \in 1..sent[t] : Fixed(chip.at + k - 1) => chip.got[k] = Source(chip.at + k - 1))'
      <3> SUFFICES ASSUME pc[t] = "bytes"
                   PROVE  (/\ chip.sel = "data" /\ chip.at = Head(todo[t])[1] /\ Len(chip.got) = sent[t]
                           /\ \A k \in 1..sent[t] : Fixed(chip.at + k - 1) =>
                                 chip.got[k] = Source(chip.at + k - 1))'
        BY <1>1
      <3>1. /\ chip.sel = "data" /\ chip.at = Head(todo[t])[1] /\ Len(chip.got) = sent[t]
            /\ \A k \in 1..sent[t] : Fixed(chip.at + k - 1) => chip.got[k] = Source(chip.at + k - 1)
        BY <1>4 DEF Before
      <3>2. ASSUME NEW k \in 1..sent[t], Fixed(chip.at + k - 1)
            PROVE  chip.got[k] = Source(chip.at + k - 1)'
        BY <1>3, <3>1, <3>2
      <3> QED BY <1>1, <3>1, <3>2 DEF Fixed, Source
    <2> QED BY <1>1, <1>4, <2>1 DEF Before, Holds, Written, BlockOf
  <1> QED BY <1>2, <1>4 DEF Same

\* A power cut leaves a chip at rest whose block, if it is valid, is the settings in use.
LEMMA CutRests == ASSUME TypeInv, PowerCut PROVE Rest'
  <1>1. PICK m \in CutPages : /\ mem' = m /\ ram' = Boot(m)
                              /\ kept' = IF m[FlagAddr] = Valid /\ kept # None THEN Boot(m) ELSE None
    BY DEF PowerCut
  <1>2. (\A t \in Threads : ~Active(t))' /\ (chip.sel = "no" /\ chip.got = << >> /\ ~chip.busy)'
    BY DEF PowerCut, Active, Free
  <1>3. (Written => Same(Block, ram))'
    BY <1>1 DEF Written, Block, Boot, Same
  <1>4. Holds(mem)'
    BY <1>1 DEF Holds, Boot, BlockOf, Same
  <1> QED BY <1>2, <1>3, <1>4 DEF Rest

LEMMA StoreStep == StoreInv /\ [Next]_vars => StoreInv'
  <1> SUFFICES ASSUME StoreInv, [Next]_vars PROVE StoreInv'
    OBVIOUS
  <1>0. TypeInv /\ SaveInv /\ TypeInv'
    BY NextType DEF StoreInv
  <1>1. /\ chip \in Chips /\ clash \in BOOLEAN
        /\ pc \in [Threads -> {"idle", "changed", "enable", "begin", "bytes", "wait", "poll"}]
        /\ todo \in [Threads -> Seq(Cells \X (1..PageSize))]
    BY <1>0 DEF TypeInv, TypeOK, Chips
  <1>2. CASE PowerCut
    BY <1>0, <1>2, CutRests DEF StoreInv, SaveInv
  <1>3. CASE WriteCycleEnds
    <2>1. /\ chip.busy /\ chip' = [chip EXCEPT !.busy = FALSE]
          /\ UNCHANGED <<mem, ram, pc, todo, sent, clash, kept>>
      BY <1>3 DEF WriteCycleEnds
    <2>2. /\ chip'.sel = chip.sel /\ chip'.at = chip.at /\ chip'.got = chip.got /\ ~chip'.busy
      BY <1>1, <2>1 DEF Chips
    <2>3. ASSUME ~clash' PROVE \E t \in Threads : Saving(t)'
      <3>1. PICK t \in Threads : Saving(t)
        BY <1>0, <2>1, <2>3 DEF SaveInv, Rest
      <3>2. pc[t] \in {"wait", "poll"} /\ After(t)
        BY <2>1, <3>1 DEF Saving, Before
      <3>3. After(t)'
        BY <2>1, <2>2, <3>2 DEF After, Written, Block, Holds, BlockOf, Same
      <3> QED BY <2>1, <3>1, <3>2, <3>3 DEF Saving, Active
    <2> QED BY <1>0, <2>3 DEF StoreInv, SaveInv
  <1>4. ASSUME NEW t \in Threads, Step(t) PROVE StoreInv'
    <2>1. clash' = (clash \/ Disturbs(t)) /\ (Active(t) \/ Save(t))
      BY <1>4 DEF Step, WriteEnable, PageWriteBegin, PageWriteByte, PageWriteEnd, WaitBegin,
                  WaitForWriteEnd, BusStep, Save, Active
    <2>2. ASSUME ~clash' PROVE Rest' \/ Saving(t)'
      <3>1. ~clash /\ ~Disturbs(t)
        BY <1>1, <2>1, <2>2
      <3>2. CASE Active(t)
        <4>1. Saving(t)
          BY <1>0, <3>1, <3>2, OnlyOne
        <4> QED BY <1>0, <1>4, <4>1, StepSaves
      <3>3. CASE Save(t)
        <4>1. /\ UNCHANGED <<mem, prior, chip, todo, sent, kept>> /\ pc[t] = "changed"
              /\ pc' = [pc EXCEPT ![t] = "enable"]
          BY <3>3 DEF Save, Goto
        <4>2. todo[t] = Plan2
          BY <1>0, <4>1 DEF TypeInv, Planned
        <4>3. \A u \in Threads : ~Active(u)
          BY <3>1, <4>1 DEF Disturbs, Active
        <4>4. Rest
          BY <1>0, <3>1, <4>3 DEF SaveInv, Saving, Active
        <4>5. pc'[t] = "enable" /\ \A u \in Threads \ {t} : ~Active(u)'
          BY <1>1, <4>1, <4>3 DEF Active
        <4>6. Before(t)'
          BY <4>1, <4>2, <4>4, <4>5, PlanFacts DEF Before, Rest, Holds, BlockOf
        <4> QED BY <4>5, <4>6 DEF Saving
      <3> QED BY <2>1, <3>2, <3>3
    <2> QED BY <1>0, <2>2 DEF StoreInv, SaveInv
  <1>5. ASSUME NEW t \in Threads, ~clash, ~Disturbs(t), pc[t] = "idle" PROVE Rest
    <2>1. \A u \in Threads : ~Active(u)
      BY <1>5 DEF Disturbs, Active
    <2> QED BY <1>0, <1>5, <2>1 DEF SaveInv, Saving, Active
  <1>6. ASSUME NEW t \in Threads, NEW s \in [1..DataLen -> Values], Change(t, s) PROVE StoreInv'
    <2>1. /\ UNCHANGED <<mem, prior, chip, sent, kept>> /\ pc' = [pc EXCEPT ![t] = "changed"]
          /\ clash' = (clash \/ Disturbs(t)) /\ pc[t] = "idle"
      BY <1>6 DEF Change, Goto
    <2>2. ASSUME ~clash' PROVE Rest'
      <3>1. Rest
        BY <1>1, <1>5, <2>1, <2>2
      <3>2. (\A u \in Threads : ~Active(u))' /\ ~Idle'
        BY <1>1, <2>1, <3>1 DEF Rest, Active, Idle
      <3>3. Holds(mem)'
        BY <2>1, <3>1 DEF Rest, Holds, BlockOf
      <3> QED BY <2>1, <3>1, <3>2, <3>3 DEF Rest
    <2> QED BY <1>0, <2>2 DEF StoreInv, SaveInv
  <1>7. ASSUME NEW t \in Threads, Load(t) PROVE StoreInv'
    <2>1. /\ clash' = (clash \/ Disturbs(t)) /\ pc[t] = "idle" /\ UNCHANGED <<pc, kept>>
          /\ Release(Append(chip.got, Junk))
      BY <1>7 DEF Load
    <2>2. ASSUME ~clash' PROVE Rest'
      <3>1. Rest
        BY <1>1, <1>5, <2>1, <2>2
      <3>2. chip' = Deselected /\ mem' = mem
        BY <2>1, <3>1 DEF Release, Rest
      <3>3. chip'.sel = "no" /\ chip'.got = << >> /\ ~chip'.busy
        BY <1>1, <3>1, <3>2, DeselectedType DEF Rest
      <3>4. PICK flag \in Answers(FlagAddr, 1) :
              IF flag[1] = Valid THEN ram' \in Answers(DataAddr, DataLen) ELSE UNCHANGED ram
        BY <1>7 DEF Load
      <3>5. flag[1] = mem[FlagAddr]
        <4>1. flag = [i \in 1..1 |-> mem[FlagAddr + i - 1]]
          BY <3>1, <3>4 DEF Answers, Rest
        <4>2. 1 \in 1..1 /\ FlagAddr + 1 - 1 = FlagAddr
          BY Layout
        <4> QED BY <4>1, <4>2
      <3>6. Written => ram' = Block
        BY <3>1, <3>4, <3>5 DEF Answers, Rest, Written, Block
      <3>7. (Written => Same(Block, ram))'
        BY <3>2, <3>6 DEF Written, Block, Same
      <3>8. (\A u \in Threads : ~Active(u))' /\ Holds(mem)'
        BY <2>1, <3>1, <3>2 DEF Rest, Active, Holds, BlockOf
      <3> QED BY <3>3, <3>7, <3>8 DEF Rest
    <2> QED BY <1>0, <2>2 DEF StoreInv, SaveInv
  <1>8. CASE UNCHANGED vars
    <2>1. SaveInv'
      BY <1>0, <1>8 DEF vars, SaveInv, Rest, Saving, Before, After, Idle, Active, Written, Block,
                        Same, Holds, BlockOf, Source, Fixed
    <2> QED BY <1>0, <2>1 DEF StoreInv
  <1>9. ASSUME NEW i \in Unsaved, NEW v \in Values, Drive(i, v) PROVE StoreInv'
    <2>1. UNCHANGED <<mem, prior, chip, pc, todo, sent, clash, kept>>
      BY <1>9 DEF Drive
    <2>2. /\ Same(Block, ram) => Same(Block, ram)'
          /\ \A t \in Threads : Before(t) => Before(t)'
      BY <1>0, <1>9, <2>1, DriveKeeps DEF Same, Block
    <2>3. ASSUME Rest PROVE Rest'
      BY <2>1, <2>2, <2>3 DEF Rest, Idle, Active, Written, Holds, BlockOf
    <2>4. ASSUME NEW t \in Threads, Saving(t) PROVE Saving(t)'
      <3>1. (\A u \in Threads \ {t} : ~Active(u))'
        BY <2>1, <2>4 DEF Saving, Active
      <3>2. After(t) => After(t)'
        BY <2>1, <2>2 DEF After, Written, Holds, BlockOf
      <3> QED BY <2>1, <2>2, <2>4, <3>1, <3>2 DEF Saving
    <2> QED BY <1>0, <2>1, <2>3, <2>4 DEF StoreInv, SaveInv
  <1> QED BY <1>2, <1>3, <1>4, <1>6, <1>7, <1>8, <1>9 DEF Next

LEMMA StoreStart == Init => StoreInv
  <1> SUFFICES ASSUME Init PROVE StoreInv
    OBVIOUS
  <1>1. Written => Same(Block, ram)
    BY DEF Init, Written, Block, Boot, Same
  <1>2. Rest
    BY <1>1 DEF Init, Rest, Active, Free, Holds
  <1> QED BY <1>2, StoreInit DEF StoreInv, SaveInv

\* When nothing is left to be saved, a valid block holds the mode, ESD and PHT settings in use:
\* every undisturbed save arrives, after any number of changes, loads and power cuts, and
\* whatever the power monitor changes without a save in the middle of it.
THEOREM SavesArrive == Spec => []FlashIsCurrent
  <1>1. StoreInv => FlashIsCurrent
    <2> SUFFICES ASSUME StoreInv, Idle, ~clash, Written PROVE Same(Block, ram)
      BY DEF FlashIsCurrent
    <2>1. Rest
      BY DEF StoreInv, SaveInv, Saving, Idle
    <2> QED BY <2>1 DEF Rest
  <1> QED BY <1>1, StoreStart, StoreStep, PTL DEF Spec

\* An erased page has lost its flag: flag and settings lie in one page.
LEMMA ErasedBoots ==
  ASSUME TypeInv, NEW t \in Threads, pc[t] # "idle", chip.at = Head(todo[t])[1],
         NEW m, m = [c \in Cells |-> IF Page(c) = Page(chip.at) THEN Blank ELSE mem[c]]
  PROVE  Boot(m) = Defaults
  <1>1. chip.at \in {FlagAddr, DataAddr}
    BY CurrentWrite, PlanFacts
  <1>2. Page(FlagAddr) = Page(chip.at)
    BY <1>1, LayoutAssumption
  <1>3. m[FlagAddr] = Blank /\ Blank # Valid
    BY <1>2, Layout, StoreAssumption
  <1> QED BY <1>3 DEF Boot

\* A power cut at any moment of an undisturbed save leaves the mode, ESD and PHT settings of
\* the last completed save, the new ones or the defaults.
THEOREM PowerCutKeepsSettings == Spec => CutKeepsSettings
  <1>1. ASSUME StoreInv, PowerCut, kept # None, ~clash
        PROVE  \E s \in {kept, ram, Defaults} : Same(ram', s)
    <2>1. PICK m \in CutPages : ram' = Boot(m)
      BY <1>1 DEF PowerCut
    <2>2. ASSUME NEW c, Holds(c) PROVE Same(Boot(c), kept)
      BY <1>1, <2>2 DEF Holds, Boot, BlockOf
    <2>3. CASE Rest
      BY <2>1, <2>2, <2>3 DEF Rest, CutPages
    <2>4. ASSUME NEW t \in Threads, Saving(t) PROVE \E s \in {kept, ram, Defaults} : Same(ram', s)
      <3>1. CASE Before(t)
        BY <2>1, <2>2, <3>1 DEF Before, CutPages
      <3>2. CASE After(t) /\ pc[t] # "idle"
        <4>1. Same(Boot(mem), kept) \/ Same(Boot(mem), ram)
          <5>1. CASE todo[t] = Plan1
            BY <3>2, <5>1 DEF After, Boot, Written, Block
          <5>2. CASE todo[t] # Plan1
            BY <2>2, <3>2, <5>2 DEF After
          <5> QED BY <5>1, <5>2
        <4>2. chip.busy => Same(Boot(prior), kept)
          BY <2>2, <3>2 DEF After
        <4>3. ASSUME m = [c \in Cells |-> IF Page(c) = Page(chip.at) THEN Blank ELSE mem[c]]
              PROVE  Boot(m) = Defaults
          BY <1>1, <3>2, <4>3, ErasedBoots DEF StoreInv, After
        <4>4. Same(Defaults, Defaults)
          BY DEF Same
        <4> QED BY <2>1, <4>1, <4>2, <4>3, <4>4 DEF CutPages
      <3> QED BY <2>4, <3>1, <3>2 DEF Saving
    <2> QED BY <1>1, <2>3, <2>4 DEF StoreInv, SaveInv
  <1>2. StoreInv /\ [Next]_vars =>
          [PowerCut /\ kept # None /\ ~clash => \E s \in {kept, ram, Defaults} : Same(ram', s)]_vars
    BY <1>1
  <1> QED BY <1>2, StoreStart, StoreStep, PTL DEF Spec, CutKeepsSettings

===============================================================================
