-------------------------- MODULE CachePageProofs --------------------------
(***************************************************************************)
(* What the pages of CacheManager hold, that none is missing from an idle  *)
(* process and that there are enough of them; the types.                   *)
(***************************************************************************)
EXTENDS CacheProofs

-----------------------------------------------------------------------------
(* Texts.  What the device holds at a slot is the text its owner reads there. *)

\* Slots of different pages are different, and so are those of one page.
LEMMA SlotsApart ==
  ASSUME PageSize \in Nat \ {0}, NEW a \in Nat, NEW b \in Nat,
         NEW x \in 0 .. PageSize - 1, NEW y \in 0 .. PageSize - 1, a * PageSize + x = b * PageSize + y
  PROVE  a = b /\ x = y
<1> DEFINE n == PageSize
<1>1. n \in Nat \ {0} /\ x \in 0 .. n - 1 /\ y \in 0 .. n - 1 /\ n * a + x = n * b + y
  OBVIOUS
<1>2. n * a \in Nat /\ n * b \in Nat /\ n * (a + 1) = n * a + n /\ n * (b + 1) = n * b + n
  BY <1>1
<1>3. \A i, j \in Nat : i <= j => n * i <= n * j
  BY WholePages
<1> HIDE DEF n
<1>4. CASE a < b
  <2>1. n * (a + 1) <= n * b
    BY <1>3, <1>4
  <2>. QED  BY <1>1, <1>2, <2>1
<1>5. CASE b < a
  <2>1. n * (b + 1) <= n * a
    BY <1>3, <1>5
  <2>. QED  BY <1>1, <1>2, <2>1
<1>6. CASE a = b
  BY <1>1, <1>2, <1>6
<1>. QED
  BY <1>4, <1>5, <1>6

\* The page and the offset of the i-th token of a row
PageAt(i) == (i - 1) \div PageSize + 1
Offset(i) == (i - 1) % PageSize

LEMMA PlaceIs ==
  ASSUME PageSize \in Nat \ {0}, NEW i \in Nat \ {0}
  PROVE  /\ PageAt(i) \in Nat \ {0} /\ Offset(i) \in 0 .. PageSize - 1
         /\ i = PageSize * (PageAt(i) - 1) + Offset(i) + 1
         /\ \A w : Slot(w, i) = w[PageAt(i)] * PageSize + Offset(i)
         /\ \A c \in Nat : i <= c => PageAt(i) <= PageCount(c)
         /\ \A c \in Nat : c % PageSize = 0 /\ c < i => c \div PageSize < PageAt(i)
<1> DEFINE n == PageSize
           e == i - 1
           k == e \div n
           x == e % n
<1>1. n \in Nat \ {0} /\ e \in Nat /\ i = e + 1
  OBVIOUS
<1>2. k \in Nat /\ x \in 0 .. n - 1 /\ e = n * k + x
  BY <1>1
<1>3. PageAt(i) = k + 1 /\ Offset(i) = x
  BY DEF PageAt, Offset
<1>4. \A w : Slot(w, i) = w[PageAt(i)] * PageSize + Offset(i)
  BY DEF Slot, PageAt, Offset
<1>5. ASSUME NEW c \in Nat, i <= c PROVE PageAt(i) <= PageCount(c)
  <2>1. k = (c - 1) \div n \/ k < (c - 1) \div n
    <3>1. \A a, b \in Nat : a <= b => a \div n <= b \div n
      BY <1>1, PageCountIs
    <3>2. e <= c - 1 /\ c - 1 \in Nat
      BY <1>1, <1>5
    <3>3. k <= (c - 1) \div n /\ (c - 1) \div n \in Nat
      BY <1>1, <3>1, <3>2
    <3>. QED  BY <1>2, <3>3
  <2>2. PageCount(c) = (c - 1) \div n + 1
    <3>1. c + n - 1 = (c - 1) + n /\ c - 1 \in Nat
      BY <1>1, <1>5
    <3>2. \A b \in Nat : (b + n) \div n = b \div n + 1
      BY <1>1
    <3>. QED  BY <3>1, <3>2 DEF PageCount
  <2>3. (c - 1) \div n \in Nat
    BY <1>1, <1>5
  <2>. QED  BY <1>2, <1>3, <2>1, <2>2, <2>3
<1>6. ASSUME NEW c \in Nat, c % PageSize = 0, c < i PROVE c \div PageSize < PageAt(i)
  <2>1. c <= e /\ \A a, b \in Nat : a <= b => a \div n <= b \div n
    BY <1>1, <1>6, PageCountIs
  <2>2. c \div n <= k /\ c \div n \in Nat
    BY <1>1, <2>1
  <2>. QED  BY <1>2, <1>3, <2>2
<1>7. i = PageSize * (PageAt(i) - 1) + Offset(i) + 1
  <2>1. PageAt(i) - 1 = k
    BY <1>2, <1>3
  <2>. QED  BY <1>1, <1>2, <1>3, <2>1
<1>. QED
  BY <1>2, <1>3, <1>4, <1>5, <1>6, <1>7

\* Where the j-th token of the k-th page of a row is
LEMMA PlaceAt ==
  ASSUME PageSize \in Nat \ {0}, NEW k \in Nat \ {0}, NEW j \in 1 .. PageSize,
         NEW i, i = PageSize * k - PageSize + j
  PROVE  i \in Nat \ {0} /\ PageAt(i) = k /\ Offset(i) = j - 1
<1> DEFINE n == PageSize
<1>1. /\ n \in Nat \ {0} /\ n * k - n = n * (k - 1) /\ n * (k - 1) \in Nat
      /\ j - 1 \in 0 .. n - 1
  OBVIOUS
<1>2. i \in Nat \ {0} /\ i - 1 = n * (k - 1) + (j - 1)
  BY <1>1
<1>3. PageAt(i) \in Nat \ {0} /\ Offset(i) \in 0 .. n - 1 /\ i = n * (PageAt(i) - 1) + Offset(i) + 1
  BY <1>2, PlaceIs
<1> DEFINE a == k - 1
           b == PageAt(i) - 1
           x == j - 1
           y == Offset(i)
<1>4. a \in Nat /\ b \in Nat /\ x \in 0 .. n - 1 /\ y \in 0 .. n - 1 /\ a * n + x = b * n + y
  <2>1. a * n = n * a /\ b * n = n * b
    BY <1>1, <1>3
  <2>. QED  BY <1>1, <1>2, <1>3, <2>1
<1> HIDE DEF a, b, x, y
<1>5. a = b /\ x = y
  BY <1>4, SlotsApart
<1>6. k - 1 = PageAt(i) - 1 /\ j - 1 = Offset(i)
  BY <1>5 DEF a, b, x, y
<1> DEFINE p == PageAt(i)
<1>7. p \in Nat \ {0} /\ k - 1 = p - 1
  BY <1>3, <1>6
<1> HIDE DEF p
<1>8. p = k
  BY <1>7
<1>. QED
  BY <1>2, <1>6, <1>8 DEF p

\* A page of a request's own is in one place of one row, and not cached.
LEMMA OwnAlone ==
  ASSUME NEW f, NEW t, NEW L, NEW w, NEW h, NEW c, Shared(f, t, L, w, h, c),
         NEW r \in L, NEW k \in Len(h[r]) \div PageSize + 1 .. Len(w[r])
  PROVE  /\ w[r][k] \in Pages
         /\ \A p \in DOMAIN t.page : t.page[p] /= w[r][k]
         /\ \A q \in L : \A m \in Len(h[q]) \div PageSize + 1 .. Len(w[q]) : w[q][m] = w[r][k] => q = r /\ m = k
<1>0. /\ PageSize \in Nat \ {0} /\ IsTree(t, Tokens) /\ IsFiniteSet(L)
      /\ Rows(L, w, h, c) /\ PagesHeld(f, t, L, w, h)
  BY DEF Shared
<1> DEFINE x == w[r][k]
           e == Owned(x, L, w, h)
<1>1. \A q \in L : /\ w[q] \in Seq(Pages) /\ Len(w[q]) \in Nat /\ Len(h[q]) \div PageSize \in Nat
                   /\ Len(h[q]) \div PageSize <= Len(w[q])
  <2>1. \A v, g : \A b \in Nat : RowOf(v, g, b) =>
          Len(g) \div PageSize \in Nat /\ Len(g) \div PageSize <= Len(v) /\ Len(v) \in Nat
    BY <1>0, RowIs
  <2>. QED  BY <1>0, <2>1 DEF Rows, RowOf
<1>2. x \in Pages /\ k \in Nat
  <2> DEFINE v == w[r]
             a == Len(h[r]) \div PageSize
  <2>1. v \in Seq(Pages) /\ Len(v) \in Nat /\ a \in Nat /\ k \in a + 1 .. Len(v)
    BY <1>1
  <2> HIDE DEF v, a
  <2>2. v[k] \in Pages /\ k \in Nat
    BY <2>1
  <2>. QED  BY <2>2 DEF v
<1>3. e \in [L -> Int] /\ \A q \in L : e[q] = Count(x, OwnOf(w[q], h[q])) /\ e[q] \in Nat
  BY <1>0, OwnedIs
<1>4. ASSUME NEW q \in L
      PROVE  /\ OwnOf(w[q], h[q]) \in Seq(Pages)
             /\ \A m \in Len(h[q]) \div PageSize + 1 .. Len(w[q]) :
                  /\ m - Len(h[q]) \div PageSize \in DOMAIN OwnOf(w[q], h[q])
                  /\ OwnOf(w[q], h[q])[m - Len(h[q]) \div PageSize] = w[q][m]
  <2> DEFINE v == w[q]
             a == Len(h[q]) \div PageSize
             s == SubSeq(v, a + 1, Len(v))
  <2>1. v \in Seq(Pages) /\ Len(v) \in Nat /\ a \in Nat /\ a <= Len(v)
    BY <1>1
  <2>2. OwnOf(w[q], h[q]) = s
    BY DEF OwnOf
  <2> HIDE DEF v, a
  <2>3. s \in Seq(Pages) /\ DOMAIN s = 1 .. Len(v) - a /\ \A b \in 1 .. Len(v) - a : s[b] = v[a + b]
    BY <2>1
  <2>4. \A m \in a + 1 .. Len(v) : m - a \in 1 .. Len(v) - a /\ a + (m - a) = m
    BY <2>1
  <2> HIDE DEF s
  <2>5. \A m \in a + 1 .. Len(v) : m - a \in DOMAIN s /\ s[m - a] = v[m]
    BY <2>3, <2>4
  <2>. QED  BY <2>2, <2>3, <2>5 DEF v, a
<1>5. Count(x, f) + Cardinality(Holders(t, x)) + Total(e, L) = 1
  BY <1>0, <1>2 DEF PagesHeld, Spread
<1>6. Count(x, f) \in Nat /\ Cardinality(Holders(t, x)) \in Nat /\ IsFiniteSet(Holders(t, x))
  BY <1>0, CountIs, HoldersNat DEF PagesHeld
<1>7. ASSUME NEW q \in L, NEW m \in Len(h[q]) \div PageSize + 1 .. Len(w[q]), w[q][m] = x
      PROVE  e[q] >= 1
  <2> DEFINE s == OwnOf(w[q], h[q])
             I == {i \in DOMAIN s : s[i] = x}
  <2>1. s \in Seq(Pages) /\ m - Len(h[q]) \div PageSize \in I
    BY <1>4, <1>7
  <2>2. IsFiniteSet(I) /\ e[q] = Cardinality(I) /\ e[q] \in Nat
    BY <1>3, <2>1, CountIs DEF Count
  <2> HIDE DEF I, e
  <2>3. Cardinality(I) /= 0
    BY <2>1, <2>2, FS_EmptySet
  <2>. QED  BY <2>2, <2>3
<1>8. e[r] >= 1
  BY <1>7
<1> HIDE DEF e, x
<1>9. ASSUME NEW q \in L PROVE Total(e, L) >= e[q] /\ Total(e, L) \in Int /\ (q /= r => Total(e, L) >= e[q] + e[r])
  <2> DEFINE D == L \ {q}
             d == [y \in D |-> e[y]]
             z == [y \in D |-> IF y = r THEN e[r] ELSE 0]
             o == [y \in D |-> 0]
  <2>1. d \in [D -> Int] /\ z \in [D -> Int] /\ o \in [D -> Int] /\ IsFiniteSet(D) /\ \A y \in D : d[y] = e[y]
    BY <1>0, <1>3, FS_Subset
  <2>2. (\A y \in D : z[y] <= d[y]) /\ (\A y \in D : o[y] <= z[y]) /\ (\A y \in D : o[y] = 0)
    BY <1>3
  <2>3. q /= r => r \in D /\ z[r] = o[r] + e[r] /\ \A y \in D : y /= r => z[y] = o[y]
    BY <1>3
  <2> HIDE DEF d, z, o
  <2>4. Total(e, L) = Total(d, D) + e[q] /\ Total(d, D) \in Int
    <3>1. /\ IsFiniteSet(L) /\ e \in [L -> Int] /\ q \in L /\ d \in [L \ {q} -> Int]
          /\ \A y \in L \ {q} : d[y] = e[y]
      BY <1>0, <1>3, <2>1
    <3>2. Total(e, L) = Total(d, L \ {q}) + e[q] /\ Total(d, L \ {q}) \in Int
      BY ONLY <3>1, TotalDrop
    <3>. QED  BY <3>2
  <2> HIDE DEF D
  <2>5. Total(o, D) = 0 /\ Total(o, D) <= Total(z, D) /\ Total(z, D) <= Total(d, D)
    BY <2>1, <2>2, TotalZero, TotalMono
  <2>6. q /= r => Total(z, D) = Total(o, D) + e[r]
    <3>1. e[r] \in Int
      BY <1>3
    <3>. QED  BY <2>1, <2>3, <3>1, TotalBump
  <2>7. Total(z, D) \in Int /\ e[q] \in Nat /\ e[r] \in Nat
    <3>1. D \in SUBSET D
      OBVIOUS
    <3>. QED  BY <1>3, <2>1, <3>1, TotalRules
  <2>. QED  BY <2>4, <2>5, <2>6, <2>7
<1>10. e[r] = 1 /\ Cardinality(Holders(t, x)) = 0
  <2>1. e[r] \in Nat /\ Total(e, L) >= e[r] /\ Total(e, L) \in Int
    BY <1>3, <1>9
  <2>. QED  BY <1>5, <1>6, <1>8, <2>1
<1>11. \A p \in DOMAIN t.page : t.page[p] /= x
  <2>1. Holders(t, x) = {}
    BY <1>6, <1>10, FS_EmptySet
  <2>. QED  BY <2>1 DEF Holders
<1>12. ASSUME NEW q \in L, NEW m \in Len(h[q]) \div PageSize + 1 .. Len(w[q]), w[q][m] = x
       PROVE  q = r /\ m = k
  <2>1. q = r
    <3>1. q /= r => Total(e, L) >= e[q] + e[r]
      BY <1>9
    <3>2. e[q] >= 1 /\ e[q] \in Nat /\ e[r] \in Nat /\ Total(e, L) \in Int
      BY <1>3, <1>7, <1>9, <1>12
    <3>. QED  BY <1>5, <1>6, <1>8, <3>1, <3>2
  <2> DEFINE s == OwnOf(w[r], h[r])
             a == Len(h[r]) \div PageSize
             I == {i \in DOMAIN s : s[i] = x}
  <2>2. s \in Seq(Pages) /\ m - a \in I /\ k - a \in I
    BY <1>4, <1>12, <2>1 DEF x
  <2>3. IsFiniteSet(I) /\ Cardinality(I) = 1
    <3>1. e[r] = Count(x, s) /\ e[r] = 1
      BY <1>3, <1>10
    <3>2. Count(x, s) = Cardinality(I)
      BY DEF Count
    <3>3. IsFiniteSet(I)
      BY <2>2, CountIs
    <3>. QED  BY <3>1, <3>2, <3>3
  <2>4. a \in Nat /\ m \in Int /\ k \in Int
    <3>1. a \in Nat /\ Len(h[q]) \div PageSize \in Nat /\ Len(w[q]) \in Nat
      BY <1>1
    <3>2. \A b, d \in Nat : \A i \in b + 1 .. d : i \in Int
      OBVIOUS
    <3>3. m \in Int
      BY <3>1, <3>2
    <3>4. k \in Int
      BY <1>2
    <3>. QED  BY ONLY <3>1, <3>3, <3>4
  <2> HIDE DEF I, a
  <2>5. PICK y : I = {y}
    BY <2>3, FS_Singleton
  <2>6. m - a = k - a
    BY <2>2, <2>5
  <2>. QED  BY <2>1, <2>4, <2>6
<1>. QED
  BY <1>2, <1>11, <1>12 DEF x

\* The place of a token beyond the handle is in a page of the request's own.
LEMMA OwnPlace ==
  ASSUME PageSize \in Nat \ {0}, NEW w, NEW h, NEW c \in Nat, RowOf(w, h, c), NEW i \in Len(h) + 1 .. c
  PROVE  /\ i \in Nat \ {0} /\ Len(h) \in Nat
         /\ PageAt(i) \in Len(h) \div PageSize + 1 .. Len(w) /\ PageAt(i) \in Nat \ {0}
         /\ w[PageAt(i)] \in Pages /\ Offset(i) \in 0 .. PageSize - 1
         /\ Slot(w, i) = w[PageAt(i)] * PageSize + Offset(i)
<1>1. Len(h) \in Nat /\ Len(h) % PageSize = 0 /\ Len(h) \div PageSize \in Nat /\ Len(w) = PageCount(c)
      /\ w \in Seq(Pages) /\ Len(w) \in Nat
  BY RowIs DEF RowOf
<1>2. i \in Nat \ {0} /\ i <= c /\ Len(h) < i
  BY <1>1
<1>3. PageAt(i) \in Nat \ {0} /\ PageAt(i) <= Len(w) /\ Len(h) \div PageSize < PageAt(i)
  <2>1. /\ PageAt(i) \in Nat \ {0}
        /\ \A b \in Nat : i <= b => PageAt(i) <= PageCount(b)
        /\ \A b \in Nat : b % PageSize = 0 /\ b < i => b \div PageSize < PageAt(i)
    BY <1>2, PlaceIs
  <2> DEFINE a == Len(h)
  <2>2. a \in Nat /\ a % PageSize = 0 /\ a < i
    BY <1>1, <1>2
  <2> HIDE DEF a
  <2>3. a \div PageSize < PageAt(i)
    BY <2>1, <2>2
  <2>. QED  BY <1>1, <1>2, <2>1, <2>3 DEF a
<1>4. PageAt(i) \in Len(h) \div PageSize + 1 .. Len(w) /\ PageAt(i) \in 1 .. Len(w)
  BY <1>1, <1>3
<1>5. w[PageAt(i)] \in Pages
  BY <1>1, <1>4
<1>. QED
  BY <1>1, <1>2, <1>3, <1>4, <1>5, PlaceIs

\* So that place is nobody else's, and no cached text's.
LEMMA OwnSlots ==
  ASSUME NEW f, NEW t, NEW L, NEW w, NEW h, NEW c, Shared(f, t, L, w, h, c),
         NEW r \in L, NEW i \in Len(h[r]) + 1 .. c[r]
  PROVE  /\ Slot(w[r], i) \in Slots
         /\ \A q \in L : \A j \in Len(h[q]) + 1 .. c[q] : Slot(w[q], j) = Slot(w[r], i) => q = r /\ j = i
         /\ \A p \in DOMAIN t.page : \A j \in 1 .. PageSize : t.page[p] * PageSize + j - 1 /= Slot(w[r], i)
<1>0. /\ PageSize \in Nat \ {0} /\ NumPages \in Nat \ {0} /\ Rows(L, w, h, c) /\ PagesHeld(f, t, L, w, h)
  BY DEF Shared
<1>1. \A q \in L : c[q] \in Nat /\ RowOf(w[q], h[q], c[q])
  BY <1>0 DEF Rows
<1>2. ASSUME NEW q \in L, NEW j \in Len(h[q]) + 1 .. c[q]
      PROVE  /\ PageAt(j) \in Len(h[q]) \div PageSize + 1 .. Len(w[q]) /\ PageAt(j) \in Nat \ {0}
             /\ w[q][PageAt(j)] \in Pages /\ Offset(j) \in 0 .. PageSize - 1
             /\ Slot(w[q], j) = w[q][PageAt(j)] * PageSize + Offset(j)
             /\ j = PageSize * (PageAt(j) - 1) + Offset(j) + 1
  <2>1. \A v, g : \A b \in Nat : RowOf(v, g, b) => \A m \in Len(g) + 1 .. b :
           /\ m \in Nat \ {0}
           /\ PageAt(m) \in Len(g) \div PageSize + 1 .. Len(v) /\ PageAt(m) \in Nat \ {0}
           /\ v[PageAt(m)] \in Pages /\ Offset(m) \in 0 .. PageSize - 1
           /\ Slot(v, m) = v[PageAt(m)] * PageSize + Offset(m)
    BY <1>0, OwnPlace
  <2>2. j \in Nat \ {0}
    BY <1>1, <2>1
  <2>. QED  BY <1>0, <1>1, <2>1, <2>2, PlaceIs
<1> DEFINE k == PageAt(i)
           x == w[r][k]
           o == Offset(i)
<1>3. k \in Len(h[r]) \div PageSize + 1 .. Len(w[r]) /\ x \in Pages /\ o \in 0 .. PageSize - 1
      /\ Slot(w[r], i) = x * PageSize + o /\ i = PageSize * (k - 1) + o + 1
  BY <1>2
<1> HIDE DEF k
<1>4. /\ \A p \in DOMAIN t.page : t.page[p] /= x
      /\ \A q \in L : \A m \in Len(h[q]) \div PageSize + 1 .. Len(w[q]) : w[q][m] = x => q = r /\ m = k
  <2>1. \A n \in Len(h[r]) \div PageSize + 1 .. Len(w[r]) :
          /\ \A p \in DOMAIN t.page : t.page[p] /= w[r][n]
          /\ \A q \in L : \A m \in Len(h[q]) \div PageSize + 1 .. Len(w[q]) : w[q][m] = w[r][n] => q = r /\ m = n
    <3> TAKE n \in Len(h[r]) \div PageSize + 1 .. Len(w[r])
    <3>1. Shared(f, t, L, w, h, c) /\ r \in L /\ n \in Len(h[r]) \div PageSize + 1 .. Len(w[r])
      OBVIOUS
    <3>. QED  BY ONLY <3>1, OwnAlone
  <2>. QED  BY <1>3, <2>1
<1> HIDE DEF x, o
<1>5. \A a, b \in Nat : \A y, z \in 0 .. PageSize - 1 : a * PageSize + y = b * PageSize + z => a = b /\ y = z
  BY <1>0, SlotsApart
<1>6. Slot(w[r], i) \in Slots
  <2>0. NumPages \in Nat /\ PageSize \in Nat /\ \A p \in Pages : p \in Nat /\ p + 1 <= NumPages
    BY <1>0 DEF Pages
  <2>1. x \in Nat /\ x + 1 <= NumPages /\ o \in Nat /\ o < PageSize
    BY <1>0, <1>3, <2>0
  <2>2. PageSize * (x + 1) <= PageSize * NumPages
    BY <1>0, <2>1, WholePages
  <2>3. x * PageSize + o \in Nat /\ x * PageSize + o < PageSize * (x + 1)
    BY <1>0, <2>1
  <2>4. x * PageSize + o <= NumPages * PageSize - 1 /\ x * PageSize + o \in Nat
    <3> DEFINE y == PageSize * NumPages
               z == PageSize * (x + 1)
               e == x * PageSize + o
    <3>1. y \in Nat /\ z \in Nat /\ NumPages * PageSize = y /\ e \in Nat /\ e < z /\ z <= y
      BY <1>0, <2>1, <2>2, <2>3
    <3> HIDE DEF y, z, e
    <3>2. e <= y - 1
      BY <3>1
    <3>. QED  BY <3>1, <3>2 DEF e
  <2>. QED  BY <1>0, <1>3, <2>4 DEF Slots
<1>7. ASSUME NEW q \in L, NEW j \in Len(h[q]) + 1 .. c[q], Slot(w[q], j) = Slot(w[r], i) PROVE q = r /\ j = i
  <2>1. w[q][PageAt(j)] = x /\ Offset(j) = o
    <3>1. w[q][PageAt(j)] \in Nat /\ x \in Nat
      BY <1>2, <1>3 DEF Pages
    <3>2. w[q][PageAt(j)] * PageSize + Offset(j) = x * PageSize + o
      BY <1>2, <1>3, <1>7
    <3> DEFINE a == w[q][PageAt(j)]
               y == Offset(j)
    <3>3. a \in Nat /\ y \in 0 .. PageSize - 1 /\ a * PageSize + y = x * PageSize + o
          /\ x \in Nat /\ o \in 0 .. PageSize - 1
      BY <1>2, <1>3, <3>1, <3>2
    <3> HIDE DEF a, y
    <3>4. a = x /\ y = o
      BY ONLY <1>5, <3>3
    <3>. QED  BY <3>4 DEF a, y
  <2>2. q = r /\ PageAt(j) = k
    BY <1>2, <1>4, <2>1
  <2>. QED  BY <1>2, <1>3, <2>1, <2>2
<1>8. ASSUME NEW p \in DOMAIN t.page, NEW j \in 1 .. PageSize
      PROVE  t.page[p] * PageSize + j - 1 /= Slot(w[r], i)
  <2> DEFINE y == t.page[p]
  <2>1. y \in Nat /\ x \in Nat /\ y /= x
    BY <1>0, <1>3, <1>4 DEF PagesHeld, Pages
  <2> HIDE DEF y
  <2> DEFINE z == j - 1
  <2>2. z \in 0 .. PageSize - 1 /\ y * PageSize + j - 1 = y * PageSize + z
    BY <1>0, <2>1
  <2> HIDE DEF z
  <2>3. y * PageSize + z = x * PageSize + o => y = x
    BY ONLY <1>3, <1>5, <2>1, <2>2
  <2>. QED  BY <1>3, <2>1, <2>2, <2>3 DEF y
<1>. QED
  BY <1>6, <1>7, <1>8

\* The device m has the text of each cached page, and the text s along a row
\* w from the end of the handle h to c.
TreeTrue(t, m) ==
  \A p \in DOMAIN t.page : \A j \in 1 .. PageSize :
    m[t.page[p] * PageSize + j - 1] = SubSeq(p, 1, Len(p) - PageSize + j)
RowTrue(w, h, c, s, m) == \A i \in Len(h) + 1 .. c : m[Slot(w, i)] = SubSeq(s, 1, i)

\* insert_prefix of what a row holds keeps the cache truthful.
LEMMA InsertTrue ==
  ASSUME PageSize \in Nat \ {0}, NEW t, IsTree(t, Tokens), NEW m, TreeTrue(t, m),
         NEW c \in Nat, NEW w, NEW h, RowOf(w, h, c), h = Root \/ h \in DOMAIN t.page,
         NEW key \in Seq(Tokens), Len(key) = c, IsPrefix(h, key),
         NEW text \in Seq(Tokens), IsPrefix(key, text), RowTrue(w, h, c, text, m)
  PROVE  TreeTrue(InsertPrefix(t, key, w).tree, m)
<1> DEFINE path == SubSeq(key, 1, AlignDown(Len(key)))
           known == Matched(t, path)
           done == InsertPrefix(t, key, w).tree
<1>1. AlignDown(c) \in 0 .. c /\ AlignDown(c) % PageSize = 0
  BY AlignIs
<1>2. path \in Seq(Tokens) /\ Len(path) = AlignDown(c) /\ Aligned(path) /\ IsPrefix(path, key)
  BY <1>1, PrefixCut DEF Aligned
<1>3. done = IF known = path THEN Split(t, known) ELSE Inserted(t, path, w)
  BY DEF InsertPrefix
<1> HIDE DEF path, done
<1>4. known = Root \/ known \in DOMAIN t.page
  BY <1>2, MatchedIs
<1>5. w \in Seq(Pages) /\ h \in Seq(Tokens) /\ Len(h) \in Nat /\ Len(h) <= c /\ Aligned(h)
  BY RowIs DEF RowOf
<1>6. CASE known = path
  <2>1. done.page = t.page
    BY <1>3, <1>4, <1>6, SplitIs
  <2>. QED  BY <2>1 DEF TreeTrue, done
<1>7. CASE known /= path
  <2>1. /\ DOMAIN done.page = DOMAIN t.page \union {p \in Seq(Tokens) \ {Root} : Aligned(p) /\ IsPrefix(p, path)}
        /\ \A p \in DOMAIN t.page : done.page[p] = t.page[p]
        /\ \A p \in Seq(Tokens) \ {Root} : p \notin DOMAIN t.page /\ Aligned(p) /\ IsPrefix(p, path) =>
             done.page[p] = w[Len(p) \div PageSize]
    <3> HIDE DEF known
    <3>1. done = Inserted(t, path, w)
      BY <1>3, <1>7
    <3>. QED  BY <1>2, <1>7, <3>1, InsertedIs DEF known
  <2>2. ASSUME NEW p \in DOMAIN done.page, p \notin DOMAIN t.page, NEW j \in 1 .. PageSize
        PROVE  m[done.page[p] * PageSize + j - 1] = SubSeq(p, 1, Len(p) - PageSize + j)
    <3> DEFINE k == Len(p) \div PageSize
               i == PageSize * k - PageSize + j
    <3>1. p \in Seq(Tokens) /\ p /= Root /\ Aligned(p) /\ IsPrefix(p, path) /\ done.page[p] = w[k]
      BY <2>1, <2>2
    <3>2. IsPrefix(p, text) /\ IsPrefix(p, key)
      BY <1>2, <3>1, PrefixOrder
    <3>3. Len(p) \in Nat /\ Len(p) /= 0 /\ Len(p) <= c /\ Len(p) <= Len(text) /\ Len(text) \in Nat
      <4>1. Len(p) <= Len(key) /\ Len(p) <= Len(text)
        BY <3>1, <3>2, PrefixIs
      <4>. QED  BY <3>1, <4>1, EmptySeq, LenProperties DEF Root
    <3>4. k \in Nat /\ Len(p) = PageSize * k
      BY <3>1, <3>3, WholePages DEF Aligned
    <3>5. Len(h) < Len(p)
      <4>1. CASE h = Root
        BY <3>3, <4>1, EmptySeq DEF Root
      <4>2. CASE h \in DOMAIN t.page
        <5>1. ~IsPrefix(p, h)
          BY <2>2, <3>1, <4>2 DEF IsTree
        <5>2. IsPrefix(h, p) \/ IsPrefix(p, h)
          BY <1>5, <3>1, <3>2, PrefixOrder
        <5>3. Len(h) >= Len(p) => h = p
          BY <1>5, <3>1, <5>1, <5>2, PrefixOrder
        <5>. QED  BY <1>5, <2>2, <3>3, <4>2, <5>3
      <4>. QED  BY <4>1, <4>2
    <3>6. Len(h) + PageSize <= Len(p)
      <4> DEFINE b == Len(h) \div PageSize
      <4>1. b \in Nat /\ Len(h) = PageSize * b
        BY <1>5, WholePages DEF Aligned
      <4> HIDE DEF b, k
      <4>2. b < k
        BY <3>4, <3>5, <4>1, WholePages
      <4>3. PageSize * (b + 1) <= PageSize * k
        BY <3>4, <4>1, <4>2, WholePages
      <4>4. PageSize * (b + 1) = PageSize * b + PageSize
        BY <4>1
      <4>. QED  BY <3>4, <4>1, <4>3, <4>4
    <3>7. k \in Nat \ {0}
      BY <3>3, <3>4
    <3> HIDE DEF k
    <3>8. i = Len(p) - PageSize + j /\ i \in Len(h) + 1 .. c /\ i \in 0 .. Len(p) /\ i <= Len(text)
      BY <1>5, <3>3, <3>4, <3>6
    <3>9. i \in Nat \ {0} /\ PageAt(i) = k /\ Offset(i) = j - 1
      BY <3>7, PlaceAt
    <3> HIDE DEF i
    <3>10. Slot(w, i) = w[k] * PageSize + (j - 1)
      BY <3>9, PlaceIs
    <3>11. m[Slot(w, i)] = SubSeq(text, 1, i)
      BY <3>8 DEF RowTrue
    <3>12. SubSeq(p, 1, i) = SubSeq(text, 1, i)
      <4>1. SubSeq(p, 1, i) \in Seq(Tokens) /\ Len(SubSeq(p, 1, i)) = i /\ IsPrefix(SubSeq(p, 1, i), p)
        BY <3>1, <3>8, PrefixCut
      <4>2. IsPrefix(SubSeq(p, 1, i), text)
        BY <3>1, <3>2, <4>1, PrefixOrder
      <4>3. i \in 0 .. Len(text)
        BY <3>3, <3>8
      <4>. QED  BY <4>1, <4>2, <4>3, PrefixCut
    <3>13. w[k] \in Nat
      <4>1. k <= PageCount(c) /\ Len(w) = PageCount(c) /\ Len(w) \in Nat
        <5>1. PageAt(i) <= PageCount(c)
          <6>1. \A b \in Nat : i <= b => PageAt(i) <= PageCount(b)
            BY <3>9, PlaceIs
          <6>2. i <= c
            BY <1>5, <3>8
          <6>. QED  BY <6>1, <6>2
        <5>. QED  BY <3>9, <5>1, RowIs
      <4>2. k \in 1 .. Len(w)
        BY <3>7, <4>1
      <4>3. w[k] \in Pages
        BY <1>5, <4>2
      <4>. QED  BY <4>3 DEF Pages
    <3>14. w[k] * PageSize + (j - 1) = done.page[p] * PageSize + j - 1
      BY <3>1, <3>13 DEF k
    <3>. QED  BY <3>8, <3>10, <3>11, <3>12, <3>14
  <2>3. ASSUME NEW p \in DOMAIN t.page, NEW j \in 1 .. PageSize
        PROVE  m[done.page[p] * PageSize + j - 1] = SubSeq(p, 1, Len(p) - PageSize + j)
    BY <2>1, <2>3 DEF TreeTrue
  <2>. QED  BY <2>2, <2>3 DEF TreeTrue, done
<1>. QED
  BY <1>6, <1>7

\* No row is longer than the cache: its pages as the tree and the row itself
\* have them are all different.
LEMMA RowFits ==
  ASSUME NEW f, NEW t, NEW L, NEW w, NEW h, NEW c, Shared(f, t, L, w, h, c),
         NEW r \in L, h[r] = Root \/ h[r] \in DOMAIN t.page
  PROVE  c[r] <= NumPages * PageSize
<1> DEFINE v == w[r]
           g == h[r]
           a == Len(g) \div PageSize
           n == Len(v)
           cut(k) == SubSeq(g, 1, PageSize * k)
           at == [k \in 1 .. n |-> IF k <= a THEN t.page[cut(k)] ELSE v[k]]
<1>0. /\ PageSize \in Nat \ {0} /\ NumPages \in Nat \ {0} /\ IsTree(t, Tokens)
      /\ Rows(L, w, h, c) /\ PagesHeld(f, t, L, w, h)
  BY DEF Shared
<1>1. c[r] \in Nat /\ RowOf(v, g, c[r]) /\ v \in Seq(Pages) /\ g \in Seq(Tokens) /\ Aligned(g)
  BY <1>0 DEF Rows, RowOf
<1>2. a \in Nat /\ a <= n /\ n = PageCount(c[r]) /\ n \in Nat /\ Len(g) \in Nat
  BY <1>0, <1>1, RowIs
<1>3. \A p, q \in DOMAIN t.page : t.page[p] = t.page[q] => p = q
  BY TreeOnce
<1>4. ASSUME NEW k \in a + 1 .. n PROVE v[k] \in Pages /\ \A p \in DOMAIN t.page : t.page[p] /= v[k]
  BY OwnAlone
<1>5. ASSUME NEW j \in a + 1 .. n, NEW k \in a + 1 .. n, v[j] = v[k] PROVE j = k
  <2>1. \A q \in L : \A m \in Len(h[q]) \div PageSize + 1 .. Len(w[q]) : w[q][m] = w[r][k] => q = r /\ m = k
    BY OwnAlone
  <2>. QED  BY <1>5, <2>1
<1>6. ASSUME NEW k \in 1 .. a PROVE cut(k) \in DOMAIN t.page /\ Len(cut(k)) = PageSize * k
  <2>1. Len(g) = PageSize * a
    BY <1>0, <1>1, <1>2, WholePages DEF Aligned
  <2> HIDE DEF a
  <2>2. k \in Nat \ {0} /\ k <= a
    BY <1>2
  <2>3. PageSize * k \in Nat /\ PageSize * k <= PageSize * a /\ (PageSize * k) % PageSize = 0 /\ PageSize * k /= 0
    <3>1. PageSize * k \in Nat /\ (PageSize * k) % PageSize = 0
      BY <1>0, <2>2, WholePages
    <3>2. PageSize * k <= PageSize * a
      BY <1>0, <1>2, <2>2, WholePages
    <3>3. PageSize * 0 < PageSize * k
      BY <1>0, <2>2, WholePages
    <3>4. PageSize * 0 = 0
      BY <1>0
    <3>. QED  BY <3>1, <3>2, <3>3, <3>4
  <2>4. PageSize * k \in 0 .. Len(g)
    BY <1>2, <2>1, <2>3
  <2>5. cut(k) \in Seq(Tokens) /\ Len(cut(k)) = PageSize * k /\ IsPrefix(cut(k), g) /\ cut(k) /= Root
    BY <1>1, <2>3, <2>4, PrefixCut
  <2> HIDE DEF cut, g
  <2>6. g /= Root
    BY <1>1, <2>5, PrefixOrder
  <2>7. g \in DOMAIN t.page
    BY <2>6 DEF g
  <2>. QED  BY <1>0, <2>3, <2>5, <2>7 DEF IsTree, Aligned
<1> HIDE DEF v, g, a, n, cut
<1>7. at \in [1 .. n -> Pages]
  <2>1. ASSUME NEW k \in 1 .. n PROVE at[k] \in Pages
    <3>1. CASE k <= a
      <4>1. k \in 1 .. a
        BY <1>2, <3>1
      <4>2. t.page[cut(k)] \in Pages
        BY <1>0, <1>6, <4>1 DEF PagesHeld
      <4>. QED  BY <3>1, <4>2
    <3>2. CASE ~(k <= a)
      <4>1. k \in a + 1 .. n
        BY <1>2, <3>2
      <4>. QED  BY <1>4, <3>2, <4>1
    <3>. QED  BY <3>1, <3>2
  <2>. QED  BY <2>1
<1>8. ASSUME NEW j \in 1 .. n, NEW k \in 1 .. n, at[j] = at[k], j < k PROVE FALSE
  <2>1. CASE k <= a
    <3>1. j \in 1 .. a /\ k \in 1 .. a /\ j \in Nat /\ k \in Nat
      BY <1>2, <1>8, <2>1
    <3>2. t.page[cut(j)] = t.page[cut(k)]
      BY <1>8, <2>1, <3>1
    <3>3. cut(j) = cut(k)
      BY <1>3, <1>6, <3>1, <3>2
    <3>4. PageSize * j = PageSize * k
      BY <1>6, <3>1, <3>3
    <3>5. PageSize * j < PageSize * k
      BY <1>0, <1>8, <3>1, WholePages
    <3>. QED  BY <1>0, <3>1, <3>4, <3>5, WholePages
  <2>2. CASE j <= a /\ ~(k <= a)
    <3>1. j \in 1 .. a /\ k \in a + 1 .. n
      BY <1>2, <1>8, <2>2
    <3>. QED  BY <1>4, <1>6, <1>8, <2>2, <3>1
  <2>3. CASE ~(j <= a)
    <3>1. j \in a + 1 .. n /\ k \in a + 1 .. n
      BY <1>2, <1>8, <2>3
    <3>2. j = k
      BY <1>2, <1>5, <1>8, <2>3, <3>1
    <3>. QED  BY <1>8, <3>1, <3>2
  <2>. QED  BY <1>2, <1>8, <2>1, <2>2, <2>3
<1> HIDE DEF at
<1>9. at \in Injection(1 .. n, Pages)
  <2>1. \A j, k \in 1 .. n : at[j] = at[k] => j = k
    BY <1>8
  <2>. QED  BY <1>7, <2>1 DEF Injection, IsInjective
<1>10. IsFiniteSet(Pages) /\ Cardinality(Pages) = NumPages /\ Cardinality(1 .. n) = n
  <2>1. NumPages - 1 \in Int /\ ~(0 > NumPages - 1) /\ (NumPages - 1) - 0 + 1 = NumPages
    BY <1>0
  <2>2. IsFiniteSet(0 .. NumPages - 1) /\ Cardinality(0 .. NumPages - 1) = (NumPages - 1) - 0 + 1
    BY <2>1, FS_Interval
  <2>3. \A a1, b1 \in Int : Cardinality(a1 .. b1) = IF a1 > b1 THEN 0 ELSE b1 - a1 + 1
    BY FS_Interval
  <2>4. Cardinality(1 .. n) = n
    BY <1>2, <2>3
  <2>. QED  BY <2>1, <2>2, <2>4 DEF Pages
<1>11. n <= NumPages
  BY <1>9, <1>10, FS_Injection
<1>12. c[r] <= PageSize * n
  <2> DEFINE b == c[r]
             d == b + PageSize - 1
  <2>0. n = d \div PageSize
    BY <1>2 DEF PageCount
  <2>1. b \in Nat /\ d \in Nat /\ n = d \div PageSize
    <3>1. b \in Nat
      BY <1>1
    <3> HIDE DEF b
    <3>2. d \in Nat
      BY <1>0, <3>1
    <3>. QED  BY <2>0, <3>1, <3>2
  <2> HIDE DEF b
  <2>2. d = PageSize * (d \div PageSize) + (d % PageSize) /\ d % PageSize <= PageSize - 1
    <3>1. AlignDown(d) = PageSize * (d \div PageSize) /\ AlignDown(d) = d - (d % PageSize)
      <4> HIDE DEF d
      <4>. QED  BY <1>0, <2>1, AlignIs DEF AlignDown
    <3>2. d % PageSize \in 0 .. PageSize - 1
      <4> HIDE DEF d
      <4>. QED  BY <1>0, <2>1
    <3> DEFINE m == PageSize * (d \div PageSize)
               o == d % PageSize
    <3>3. m = d - o /\ o \in 0 .. PageSize - 1 /\ d \in Nat
      BY <2>1, <3>1, <3>2
    <3> HIDE DEF m, o, d
    <3>4. d = m + o /\ o <= PageSize - 1
      <4>1. o \in Nat /\ o <= PageSize - 1 /\ m \in Int
        BY <1>0, <3>3
      <4>. QED  BY <3>3, <4>1
    <3>. QED  BY <3>4 DEF m, o
  <2> DEFINE m == PageSize * n
             o == d % PageSize
  <2>3. d = m + o /\ o <= PageSize - 1 /\ m \in Nat /\ o \in Nat
    BY <1>0, <1>2, <2>1, <2>2
  <2>4. d = b + PageSize - 1
    OBVIOUS
  <2> HIDE DEF m, o, d
  <2>5. b <= m
    BY <1>0, <2>1, <2>3, <2>4
  <2>. QED  BY <2>5 DEF b, m
<1>13. PageSize * n <= PageSize * NumPages /\ PageSize * NumPages = NumPages * PageSize
  <2>1. \A i, j \in Nat : i <= j => PageSize * i <= PageSize * j
    BY <1>0, WholePages
  <2>2. PageSize * NumPages = NumPages * PageSize
    BY <1>0
  <2>. QED  BY <1>0, <1>2, <1>11, <2>1, <2>2
<1> DEFINE x == PageSize * n
           y == NumPages * PageSize
           b == c[r]
<1>14. b <= x /\ x <= y /\ b \in Nat /\ x \in Nat /\ y \in Nat
  BY <1>0, <1>1, <1>2, <1>12, <1>13
<1> HIDE DEF x, y, b
<1>15. b <= y
  BY <1>14
<1>. QED
  BY <1>15 DEF b, y

LEMMA AppendCut ==
  ASSUME NEW S, NEW s \in Seq(S), NEW e \in S, NEW i \in 0 .. Len(s)
  PROVE  SubSeq(Append(s, e), 1, i) = SubSeq(s, 1, i)
<1> DEFINE t == Append(s, e)
<1>1. t \in Seq(S) /\ Len(s) \in Nat /\ Len(t) = Len(s) + 1
  OBVIOUS
<1>2. IsPrefix(s, s) /\ IsPrefix(s, t)
  BY <1>1, PrefixOrder, PrefixAppend
<1> HIDE DEF t
<1> DEFINE p == SubSeq(s, 1, i)
<1>3. p \in Seq(S) /\ Len(p) = i /\ IsPrefix(p, s) /\ i \in 0 .. Len(t)
  BY <1>1, PrefixCut
<1> HIDE DEF p
<1>4. IsPrefix(p, t)
  BY <1>1, <1>2, <1>3, PrefixOrder
<1>5. p = SubSeq(t, 1, i)
  BY <1>1, <1>3, <1>4, PrefixCut
<1>. QED
  BY <1>5 DEF p, t

\* What each request computed beyond its handle is at its own slots.
OwnTrue == \A r \in live : RowTrue(row[r], handle[r], cached[r], Text(r), kv)

\* A forward writes to slots of its requests' own, each once.
LEMMA TextsWritten ==
  ASSUME CacheAssumption, CacheInv, PageInv, OwnTrue, TreeTrue(tree, kv), pc = "forward",
         NEW f, NEW u, NEW v, NEW d, d = [r \in Reqs |-> IF r \in InCur THEN device[r] ELSE cached[r]],
         Shared(f, u, live, v, handle, d),
         \A p \in DOMAIN u.page : p \in DOMAIN tree.page /\ u.page[p] = tree.page[p],
         \A r \in live : /\ handle[r] = Root \/ handle[r] \in DOMAIN u.page
                         /\ \A k \in 1 .. Len(row[r]) : v[r][k] = row[r][k]
  PROVE  TreeTrue(u, Written(v)) /\ \A r \in live : RowTrue(v[r], handle[r], d[r], Text(r), Written(v))
<1> DEFINE writes == {x \in InCur \X (1 .. NumPages * PageSize) : cached[x[1]] < x[2] /\ x[2] <= device[x[1]]}
           at(x, slot) == Slot(v[x[1]], x[2]) = slot
           m == Written(v)
<1>0. PageSize \in Nat \ {0} /\ NumPages \in Nat \ {0}
  BY DEF CacheAssumption
<1>1. /\ InCur \subseteq live /\ live \subseteq Reqs /\ cached \in [Reqs -> Nat] /\ device \in [Reqs -> Nat]
      /\ \A r \in live : cached[r] < device[r]
  BY DEF CacheInv, LifeInv, LensInv, Phases, Members, Fields
<1>2. \A r \in live : /\ d[r] = (IF r \in InCur THEN device[r] ELSE cached[r])
                      /\ RowOf(row[r], handle[r], cached[r]) /\ cached[r] \in Nat /\ Len(handle[r]) \in Nat
                      /\ Len(handle[r]) <= cached[r] /\ Len(row[r]) = PageCount(cached[r])
  BY <1>1, RowsAre DEF RowOf
<1>3. ASSUME NEW slot \in Slots
      PROVE  IF \E x \in writes : at(x, slot)
             THEN \E x \in writes : at(x, slot) /\ m[slot] = SubSeq(Text(x[1]), 1, x[2])
             ELSE m[slot] = kv[slot]
  <2>1. m[slot] = IF \E x \in writes : at(x, slot)
                  THEN SubSeq(Text((CHOOSE x \in writes : at(x, slot))[1]), 1, (CHOOSE x \in writes : at(x, slot))[2])
                  ELSE kv[slot]
    BY DEF Written, InCur
  <2> HIDE DEF writes, m, at
  <2>. QED  BY <2>1
<1>4. ASSUME NEW x \in writes PROVE x[1] \in live /\ x[2] \in Len(handle[x[1]]) + 1 .. d[x[1]]
  <2>1. x[1] \in InCur /\ x[2] \in Nat /\ cached[x[1]] < x[2] /\ x[2] <= device[x[1]]
    BY <1>0
  <2>2. d[x[1]] = device[x[1]] /\ cached[x[1]] \in Nat /\ Len(handle[x[1]]) \in Nat /\ device[x[1]] \in Nat
        /\ Len(handle[x[1]]) <= cached[x[1]] /\ x[1] \in live
    BY <1>1, <1>2, <2>1
  <2>3. \A a, b, e, g \in Nat : a <= b /\ b < e /\ e <= g => e \in a + 1 .. g
    OBVIOUS
  <2>. QED  BY <2>1, <2>2, <2>3
<1>5. ASSUME NEW r \in live, NEW i \in Len(handle[r]) + 1 .. d[r]
      PROVE  /\ Slot(v[r], i) \in Slots
             /\ \A q \in live : \A j \in Len(handle[q]) + 1 .. d[q] : Slot(v[q], j) = Slot(v[r], i) => q = r /\ j = i
             /\ \A p \in DOMAIN u.page : \A j \in 1 .. PageSize : u.page[p] * PageSize + j - 1 /= Slot(v[r], i)
  <2> DEFINE h == handle
             L == live
  <2>1. Shared(f, u, L, v, h, d) /\ r \in L /\ i \in Len(h[r]) + 1 .. d[r]
    OBVIOUS
  <2> HIDE DEF h, L
  <2>2. /\ Slot(v[r], i) \in Slots
        /\ \A q \in L : \A j \in Len(h[q]) + 1 .. d[q] : Slot(v[q], j) = Slot(v[r], i) => q = r /\ j = i
        /\ \A p \in DOMAIN u.page : \A j \in 1 .. PageSize : u.page[p] * PageSize + j - 1 /= Slot(v[r], i)
    BY ONLY <2>1, OwnSlots
  <2>. QED  BY <2>2 DEF h, L
<1>6. ASSUME NEW p \in DOMAIN u.page, NEW j \in 1 .. PageSize
      PROVE  m[u.page[p] * PageSize + j - 1] = SubSeq(p, 1, Len(p) - PageSize + j)
  <2> DEFINE slot == u.page[p] * PageSize + j - 1
  <2>1. slot \in Slots
    <3> DEFINE z == u.page[p]
    <3>1. z \in Nat /\ z + 1 <= NumPages /\ j \in Nat /\ j <= PageSize /\ j >= 1
      BY <1>0 DEF Shared, PagesHeld, Pages
    <3> HIDE DEF z
    <3>2. PageSize * (z + 1) <= PageSize * NumPages
      BY <1>0, <3>1, WholePages
    <3>3. z * PageSize \in Nat /\ PageSize * (z + 1) = z * PageSize + PageSize /\ PageSize * NumPages = NumPages * PageSize
      BY <1>0, <3>1
    <3> DEFINE a == z * PageSize
               b == NumPages * PageSize
    <3>4. a \in Nat /\ b \in Int /\ a + PageSize <= b
      BY <1>0, <3>2, <3>3
    <3> HIDE DEF a, b
    <3>5. a + j - 1 \in 0 .. b - 1
      BY <1>0, <3>1, <3>4
    <3>. QED  BY <3>5 DEF a, b, z, Slots
  <2>2. ~\E x \in writes : at(x, slot)
    <3> SUFFICES ASSUME NEW x \in writes, Slot(v[x[1]], x[2]) = slot PROVE FALSE
      OBVIOUS
    <3> HIDE DEF writes, m
    <3>. QED  BY <1>4, <1>5
  <2> HIDE DEF writes, m, at
  <2>3. m[slot] = kv[slot]
    BY <1>3, <2>1, <2>2
  <2>4. p \in DOMAIN tree.page /\ u.page[p] = tree.page[p]
    OBVIOUS
  <2>. QED  BY <2>3, <2>4 DEF TreeTrue
<1>7. ASSUME NEW r \in live, NEW i \in Len(handle[r]) + 1 .. d[r]
      PROVE  m[Slot(v[r], i)] = SubSeq(Text(r), 1, i)
  <2> DEFINE slot == Slot(v[r], i)
  <2>1. slot \in Slots
    BY <1>5
  <2>2. CASE \E x \in writes : at(x, slot)
    <3>1. PICK x \in writes : at(x, slot) /\ m[slot] = SubSeq(Text(x[1]), 1, x[2])
      <4> HIDE DEF writes, m, at, slot
      <4>. QED  BY <1>3, <2>1, <2>2
    <3>2. x[1] = r /\ x[2] = i
      <4>1. Slot(v[x[1]], x[2]) = Slot(v[r], i)
        BY <3>1
      <4> HIDE DEF writes, m, at
      <4>2. x[1] \in live /\ x[2] \in Len(handle[x[1]]) + 1 .. d[x[1]]
        BY <1>4
      <4>3. \A q \in live : \A j \in Len(handle[q]) + 1 .. d[q] : Slot(v[q], j) = Slot(v[r], i) => q = r /\ j = i
        BY <1>5
      <4> DEFINE q == x[1]
                 j == x[2]
      <4>4. q \in live /\ j \in Len(handle[q]) + 1 .. d[q] /\ Slot(v[q], j) = Slot(v[r], i)
        BY <4>1, <4>2
      <4> HIDE DEF q, j
      <4>5. q = r /\ j = i
        BY ONLY <4>3, <4>4
      <4>. QED  BY <4>5 DEF q, j
    <3>. QED  BY <3>1, <3>2
  <2>3. CASE ~\E x \in writes : at(x, slot)
    <3>1. m[slot] = kv[slot]
      <4> HIDE DEF writes, m, at, slot
      <4>. QED  BY <1>3, <2>1, <2>3
    <3>2. i <= cached[r] /\ i \in Nat \ {0}
      <4>1. i \in Nat \ {0} /\ i <= d[r] /\ cached[r] \in Nat /\ device[r] \in Nat
        BY <1>1, <1>2
      <4>2. CASE r \in InCur
        <5>1. SUFFICES ASSUME cached[r] < i PROVE FALSE
          BY <4>1
        <5>2. i <= device[r]
          BY <1>2, <4>1, <4>2
        <5>3. d[r] <= NumPages * PageSize
          <6> DEFINE h == handle
                     L == live
          <6>1. Shared(f, u, L, v, h, d) /\ r \in L /\ (h[r] = Root \/ h[r] \in DOMAIN u.page)
            OBVIOUS
          <6> HIDE DEF h, L
          <6>. QED  BY ONLY <6>1, RowFits
        <5>4. i \in 1 .. NumPages * PageSize
          <6> DEFINE y == NumPages * PageSize
          <6>1. y \in Nat /\ d[r] <= y /\ d[r] \in Nat
            BY <1>0, <1>2, <4>1, <5>3
          <6> HIDE DEF y
          <6>2. i \in 1 .. y
            BY <4>1, <6>1
          <6>. QED  BY <6>2 DEF y
        <5>5. <<r, i>> \in writes
          BY <4>2, <5>1, <5>2, <5>4
        <5>6. at(<<r, i>>, slot)
          OBVIOUS
        <5>. QED  BY <2>3, <5>5, <5>6
      <4>3. CASE r \notin InCur
        BY <1>2, <4>1, <4>3
      <4>. QED  BY <4>2, <4>3
    <3>3. kv[Slot(row[r], i)] = SubSeq(Text(r), 1, i)
      <4>1. i \in Len(handle[r]) + 1 .. cached[r]
        BY <1>2, <3>2
      <4>. QED  BY <4>1 DEF OwnTrue, RowTrue
    <3>4. Slot(v[r], i) = Slot(row[r], i)
      <4>1. PageAt(i) \in 1 .. Len(row[r])
        <5>1. PageAt(i) \in Nat \ {0} /\ PageAt(i) <= PageCount(cached[r])
          BY <1>0, <1>2, <3>2, PlaceIs
        <5>2. PageCount(cached[r]) \in Nat
          BY <1>0, <1>2, PageCountIs
        <5>. QED  BY <1>2, <5>1, <5>2
      <4>2. v[r][PageAt(i)] = row[r][PageAt(i)]
        BY <4>1
      <4>3. \A w : Slot(w, i) = w[PageAt(i)] * PageSize + Offset(i)
        BY <1>0, <3>2, PlaceIs
      <4>. QED  BY <4>2, <4>3
    <3>. QED  BY <3>1, <3>3, <3>4
  <2>. QED  BY <2>2, <2>3
<1>. QED
  BY <1>6, <1>7 DEF TreeTrue, RowTrue

\* The text of request q, as far as it is computed, stays what it is.
Reads(q) == \A i \in 1 .. cached[q] : SubSeq(Text(q)', 1, i) = SubSeq(Text(q), 1, i)

TextInv == OwnTrue /\ CacheTruthful

LEMMA TruthfulIs == CacheTruthful <=> TreeTrue(tree, kv)
BY DEF CacheTruthful, TreeTrue

\* Outside of post-processing normal_loop has no token the host has not seen.
LEMMA UnseenIdle ==
  ASSUME LifeInv, pc /= "post"
  PROVE  /\ Unseen = InLast \ (last.partial \union finished)
         /\ ~Overlap => Unseen = {} /\ InLast = {}
<1>1. Unseen = InLast \ (last.partial \union finished)
  BY DEF Unseen, InLast
<1>2. ~Overlap => InLast = {}
  BY NoBatchIs DEF LifeInv, Phases, InLast
<1>. QED
  BY <1>1, <1>2

LEMMA TextIdle ==
  ASSUME LifeInv, pc /= "post", pc' /= "post", last' = last, finished' = finished, NEW q, ids'[q] = ids[q]
  PROVE  Text(q)' = Text(q)
<1>1. Unseen' = Unseen
  BY DEF Unseen
<1>2. CASE Overlap
  BY <1>1, <1>2 DEF Text, Data
<1>3. CASE ~Overlap
  <2>1. Unseen = {}
    BY <1>3, UnseenIdle
  <2>. QED  BY <1>1, <2>1 DEF Text
<1>. QED
  BY <1>2, <1>3

\* Nothing is computed or written.
LEMMA OwnStays ==
  ASSUME CacheAssumption, CacheInv, PageInv, OwnTrue, kv' = kv,
         \A q \in live' :
           \/ cached'[q] \in Nat /\ Len(handle'[q]) \in Nat /\ cached'[q] <= Len(handle'[q])
           \/ /\ q \in live /\ row'[q] = row[q] /\ cached'[q] = cached[q] /\ Reads(q)
              /\ Len(handle'[q]) \in Nat /\ Len(handle[q]) <= Len(handle'[q])
  PROVE  OwnTrue'
<1> SUFFICES ASSUME NEW q \in live', NEW i \in Len(handle'[q]) + 1 .. cached'[q]
             PROVE  kv'[Slot(row'[q], i)] = SubSeq(Text(q)', 1, i)
  BY DEF OwnTrue, RowTrue
<1>1. CASE cached'[q] \in Nat /\ Len(handle'[q]) \in Nat /\ cached'[q] <= Len(handle'[q])
  BY <1>1
<1>2. CASE /\ q \in live /\ row'[q] = row[q] /\ cached'[q] = cached[q] /\ Reads(q)
           /\ Len(handle'[q]) \in Nat /\ Len(handle[q]) <= Len(handle'[q])
  <2>1. Len(handle[q]) \in Nat /\ cached[q] \in Nat
    BY <1>2, RowsAre, LenProperties DEF RowOf
  <2>2. i \in Len(handle[q]) + 1 .. cached[q] /\ i \in 1 .. cached[q]
    BY <1>2, <2>1
  <2>3. kv[Slot(row[q], i)] = SubSeq(Text(q), 1, i)
    BY <1>2, <2>2 DEF OwnTrue, RowTrue
  <2>4. SubSeq(Text(q)', 1, i) = SubSeq(Text(q), 1, i)
    BY <1>2, <2>2 DEF Reads
  <2>5. kv'[Slot(row'[q], i)] = kv[Slot(row[q], i)]
    BY <1>2 DEF Slot
  <2>. QED  BY <2>3, <2>4, <2>5
<1>. QED
  BY <1>1, <1>2

\* cache_req hands over what the row holds of the text.
LEMMA TreeInserts ==
  ASSUME CacheAssumption, CacheInv, PageInv, TextInv, NEW r \in live,
         NEW text \in Seq(Tokens), IsPrefix(ids[r], text), Lag(r) <= 1 + (Len(text) - Len(ids[r])),
         \A i \in 1 .. cached[r] : SubSeq(Text(r), 1, i) = SubSeq(text, 1, i)
  PROVE  TreeTrue(InsertPrefix(tree, SubSeq(text, 1, cached[r]), row[r]).tree, kv)
<1> DEFINE key == SubSeq(text, 1, cached[r])
           c == cached[r]
           w == row[r]
           h == handle[r]
<1>1. PageSize \in Nat \ {0} /\ IsTree(tree, Tokens) /\ TreeTrue(tree, kv)
  BY RowsAre, TruthfulIs DEF TextInv
<1>2. c \in Nat /\ RowOf(w, h, c) /\ (h = Root \/ h \in DOMAIN tree.page)
  BY RowsAre
<1>3. key \in Seq(Tokens) /\ Len(key) = c /\ IsPrefix(key, text) /\ IsPrefix(h, key)
  BY HandleText
<1>4. RowTrue(w, h, c, text, kv)
  <2> SUFFICES ASSUME NEW i \in Len(h) + 1 .. c PROVE kv[Slot(w, i)] = SubSeq(text, 1, i)
    BY DEF RowTrue
  <2>1. Len(h) \in Nat
    BY <1>2, LenProperties DEF RowOf
  <2>2. i \in 1 .. c
    BY <1>2, <2>1
  <2>. QED  BY <2>2 DEF TextInv, OwnTrue, RowTrue
<1> DEFINE t == tree
           m == kv
<1>5. IsTree(t, Tokens) /\ TreeTrue(t, m) /\ RowTrue(w, h, c, text, m) /\ (h = Root \/ h \in DOMAIN t.page)
      /\ text \in Seq(Tokens)
  BY <1>1, <1>2, <1>4
<1> HIDE DEF key, c, w, h, t, m
<1>6. TreeTrue(InsertPrefix(t, key, w).tree, m)
  BY ONLY <1>1, <1>2, <1>3, <1>5, InsertTrue
<1>. QED
  BY <1>6 DEF key, c, w, t, m

LEMMA TextsRelease ==
  ASSUME CacheAssumption, CacheInv, PageInv, TextInv, NEW r \in live,
         NEW text \in Seq(Tokens), IsPrefix(ids[r], text), Lag(r) <= 1 + (Len(text) - Len(ids[r])),
         \A i \in 1 .. cached[r] : SubSeq(Text(r), 1, i) = SubSeq(text, 1, i),
         Release(r, text), budget' = budget, kv' = kv, \A q \in live \ {r} : Reads(q)
  PROVE  TextInv'
<1> DEFINE done == InsertPrefix(tree, SubSeq(text, 1, cached[r]), row[r])
<1>1. /\ PageSize \in Nat \ {0} /\ IsTree(tree, Tokens) /\ live \subseteq Reqs
      /\ \A q \in live : RowOf(row[q], handle[q], cached[q])
  BY RowsAre
<1>2. /\ live' = live \ {r} /\ Others({r}) /\ tree' = Unlock(done.tree, handle[r])
  BY <1>1, ReleaseIs DEF CacheInv
<1>3. SubSeq(text, 1, cached[r]) \in Seq(Tokens)
  <2>1. \A k : k = SubSeq(text, 1, cached[r]) => k \in Seq(Tokens)
    BY HandleText
  <2>. QED  BY <2>1
<1>4. IsTree(done.tree, Tokens)
  BY <1>1, <1>3, InsertTree
<1>5. TreeTrue(done.tree, kv)
  BY TreeInserts
<1> HIDE DEF done
<1>6. tree'.page = done.tree.page
  BY <1>2, <1>4, LockIs
<1>7. CacheTruthful'
  BY <1>5, <1>6 DEF CacheTruthful, TreeTrue
<1>8. ASSUME NEW q \in live'
      PROVE  /\ q \in live /\ row'[q] = row[q] /\ cached'[q] = cached[q] /\ Reads(q)
             /\ Len(handle'[q]) \in Nat /\ Len(handle[q]) <= Len(handle'[q])
  <2>1. q \in live \ {r} /\ q \in Reqs \ {r}
    BY <1>1, <1>2
  <2>2. row'[q] = row[q] /\ cached'[q] = cached[q] /\ handle'[q] = handle[q]
    BY <1>2, <2>1 DEF Others
  <2>3. Len(handle[q]) \in Nat
    BY <1>1, <2>1, LenProperties DEF RowOf
  <2>. QED  BY <2>1, <2>2, <2>3
<1>9. OwnTrue'
  BY <1>8, OwnStays DEF TextInv
<1>. QED
  BY <1>7, <1>9 DEF TextInv

LEMMA TextsGoesOn ==
  ASSUME CacheAssumption, CacheInv, PageInv, TextInv, NEW r \in live,
         NEW text \in Seq(Tokens), IsPrefix(ids[r], text), Lag(r) <= 1 + (Len(text) - Len(ids[r])),
         \A i \in 1 .. cached[r] : SubSeq(Text(r), 1, i) = SubSeq(text, 1, i),
         CacheReq(r, text, FALSE), live' = live, row' = row, cached' = cached, kv' = kv,
         \A q \in live : Reads(q)
  PROVE  TextInv'
<1> DEFINE key == SubSeq(text, 1, cached[r])
           done == InsertPrefix(tree, key, row[r])
           path == done.path
           given == Unlock(done.tree, handle[r])
<1>1. /\ PageSize \in Nat \ {0} /\ IsTree(tree, Tokens) /\ live \subseteq Reqs
      /\ \A q \in live : RowOf(row[q], handle[q], cached[q]) /\ cached[q] \in Nat
  BY RowsAre
<1>2. tree' = Lock(given, path) /\ handle' = [handle EXCEPT ![r] = path] /\ path = SubSeq(key, 1, AlignDown(Len(key)))
  BY DEF CacheReq, InsertPrefix
<1>3. key \in Seq(Tokens) /\ Len(key) = cached[r]
  BY HandleText
<1>4. TreeTrue(done.tree, kv)
  BY TreeInserts
<1> HIDE DEF key
<1>5. IsTree(done.tree, Tokens) /\ Counted(done.tree, live, handle)
  BY <1>1, <1>3, InsertIs DEF CacheInv, HeldInv
<1>6. AlignDown(Len(key)) \in 0 .. Len(key) /\ Len(path) = AlignDown(Len(key))
      /\ \A k \in Nat : k <= Len(key) /\ k % PageSize = 0 => k <= AlignDown(Len(key))
  <2>1. AlignDown(Len(key)) \in 0 .. Len(key)
        /\ \A k \in Nat : k <= Len(key) /\ k % PageSize = 0 => k <= AlignDown(Len(key))
    BY <1>1, <1>3, AlignIs
  <2>. QED  BY <1>2, <1>3, <2>1, PrefixCut
<1> HIDE DEF done, path
<1>7. given.page = done.tree.page /\ IsTree(given, Tokens)
  <2>1. given.page = done.tree.page
    BY <1>5, LockIs
  <2>2. IsTree(given, Tokens)
    <3> DEFINE t == done.tree
               L == live
               h == handle
    <3>1. IsTree(t, Tokens) /\ Counted(t, L, h) /\ IsFiniteSet(L) /\ r \in L /\ \A q \in L \ {r} : h[q] = h[q]
      BY <1>5, RowsAre
    <3> HIDE DEF t, L, h
    <3>2. IsTree(Unlock(t, h[r]), Tokens)
      BY ONLY <3>1, UnlockCounted
    <3>. QED  BY <3>2 DEF t, h
  <2>. QED  BY <2>1, <2>2
<1> HIDE DEF given
<1>8. tree'.page = done.tree.page
  BY <1>2, <1>7, LockIs
<1>9. CacheTruthful'
  BY <1>4, <1>8 DEF CacheTruthful, TreeTrue
<1>10. handle'[r] = path /\ \A q \in live : q /= r => handle'[q] = handle[q]
  BY <1>1, <1>2 DEF CacheInv, LifeInv, Fields
<1>11. ASSUME NEW q \in live' PROVE Len(handle'[q]) \in Nat /\ Len(handle[q]) <= Len(handle'[q])
  <2>1. q \in live /\ Len(handle[q]) \in Nat /\ Len(handle[q]) % PageSize = 0 /\ Len(handle[q]) <= cached[q]
    BY <1>1, LenProperties DEF RowOf, Aligned
  <2>2. CASE q = r
    <3>1. Len(handle[r]) <= AlignDown(Len(key))
      BY <1>3, <1>6, <2>1, <2>2
    <3>. QED  BY <1>1, <1>3, <1>6, <1>10, <2>2, <3>1
  <2>3. CASE q /= r
    BY <1>10, <2>1, <2>3
  <2>. QED  BY <2>2, <2>3
<1>12. OwnTrue'
  BY <1>11, OwnStays DEF TextInv
<1>. QED
  BY <1>9, <1>12 DEF TextInv

\* Nothing is computed, written or inserted.
LEMMA TextsStay ==
  ASSUME CacheAssumption, CacheInv, PageInv, TextInv, kv' = kv, live' = live,
         \A p \in DOMAIN tree'.page : p \in DOMAIN tree.page /\ tree'.page[p] = tree.page[p],
         \A q \in live : row'[q] = row[q] /\ cached'[q] = cached[q] /\ handle'[q] = handle[q] /\ Reads(q)
  PROVE  TextInv'
<1>1. CacheTruthful'
  BY DEF TextInv, CacheTruthful
<1>2. ASSUME NEW q \in live'
      PROVE  /\ q \in live /\ row'[q] = row[q] /\ cached'[q] = cached[q] /\ Reads(q)
             /\ Len(handle'[q]) \in Nat /\ Len(handle[q]) <= Len(handle'[q])
  <2>1. q \in live /\ handle'[q] = handle[q] /\ Len(handle[q]) \in Nat
    BY RowsAre, LenProperties DEF RowOf
  <2>. QED  BY <2>1
<1>3. OwnTrue'
  BY <1>2, OwnStays DEF TextInv
<1>. QED
  BY <1>1, <1>3 DEF TextInv

LEMMA TextsFailedPrepare == ASSUME CacheAssumption, CacheInv, PageInv, TextInv, FailedPrepare PROVE TextInv'
<1>1. /\ pc = "forward" /\ pc' = "failed" /\ UNCHANGED <<kv, live, ids, cached, row, handle, last, finished>>
      /\ LifeInv /\ IsTree(tree, Tokens)
  BY DEF FailedPrepare, reqVars, batchVars, CacheInv, HeldInv
<1>2. PICK R \in Evictions(Needed) : tree' = Without(tree, R)
  BY DEF FailedPrepare
<1>3. \A p \in DOMAIN tree'.page : p \in DOMAIN tree.page /\ tree'.page[p] = tree.page[p]
  <2>1. R \in SUBSET Nodes(tree) /\ \A n \in R, m \in Nodes(tree) : IsPrefix(n, m) => m \in R
    BY EvictionsIs DEF Unlocked
  <2>. QED  BY <1>1, <1>2, <2>1, WithoutIs
<1>4. \A q \in live : Reads(q)
  <2>1. \A q \in live : Text(q)' = Text(q)
    BY <1>1, TextIdle
  <2>. QED  BY <2>1 DEF Reads
<1>. QED
  BY <1>1, <1>3, <1>4, TextsStay

\* A forward samples, but what it and those before it computed ends earlier.
LEMMA ReadsForward ==
  ASSUME CacheAssumption, CacheInv, pc = "forward", Launches, UNCHANGED <<ids, last, finished>>,
         NEW q \in live, NEW i \in 1 .. device[q]
  PROVE  SubSeq(Text(q)', 1, i) = SubSeq(Text(q), 1, i)
<1>1. /\ LifeInv /\ LensInv /\ q \in Reqs /\ q \notin finished /\ deferred \subseteq InLast
      /\ ids[q] \in Seq(Tokens) /\ device[q] \in Nat /\ device[q] <= Len(ids[q]) + Lag(q)
      /\ IsBatch(cur)
  BY DEF CacheInv, LifeInv, LensInv, Members, Phases, Waiting, Fields, Lists
<1>2. pc' = "post" /\ todo' = IF Overlap THEN last.reqs ELSE cur.reqs
  BY DEF Launches
<1>3. CASE Overlap
  <2>1. Data' = last /\ Data = last
    BY <1>3 DEF Data
  <2>2. Unseen' = InLast \ last.partial
    BY <1>2, <1>3, <2>1 DEF Unseen, InLast
  <2>3. Unseen = InLast \ (last.partial \union finished)
    BY <1>1, UnseenIdle
  <2>4. q \in Unseen' <=> q \in Unseen
    BY <1>1, <2>2, <2>3
  <2>5. Text(q)' = Text(q)
    BY <2>1, <2>4 DEF Text
  <2>. QED  BY <2>5
<1>4. CASE ~Overlap
  <2>1. Unseen = {} /\ InLast = {}
    BY <1>1, <1>4, UnseenIdle
  <2>2. Text(q) = ids[q]
    BY <2>1 DEF Text
  <2>3. Lag(q) = 0
    BY <1>1, <1>4, <2>1 DEF Lag
  <2>4. i \in 0 .. Len(ids[q])
    BY <1>1, <2>3, LenProperties
  <2>5. CASE q \notin Unseen'
    <3>1. Text(q)' = ids[q]
      BY <2>5 DEF Text
    <3>. QED  BY <2>2, <3>1
  <2>6. CASE q \in Unseen'
    <3>1. Unseen' = InCur \ cur'.partial /\ Data' = cur'
      BY <1>2, <1>4 DEF Unseen, Data, InCur
    <3>2. cur'.token[q] \in Tokens
      <4>1. Sampled(cur') /\ cur'.reqs = cur.reqs
        BY <1>1, LaunchedBatch
      <4>. QED  BY <2>6, <3>1, <4>1 DEF Sampled, InCur
    <3>3. Text(q)' = Append(ids[q], cur'.token[q])
      BY <2>6, <3>1 DEF Text
    <3>4. SubSeq(Append(ids[q], cur'.token[q]), 1, i) = SubSeq(ids[q], 1, i)
      <4>1. \A s \in Seq(Tokens) : \A e \in Tokens : \A k \in 0 .. Len(s) : SubSeq(Append(s, e), 1, k) = SubSeq(s, 1, k)
        BY AppendCut
      <4>. QED  BY <1>1, <2>4, <3>2, <4>1
    <3>. QED  BY <2>2, <3>3, <3>4
  <2>. QED  BY <2>5, <2>6
<1>. QED
  BY <1>3, <1>4

\* What a forward computes, it writes; what it evicts is no longer cached.
LEMMA TextsForward == ASSUME CacheAssumption, CacheInv, PageInv, TextInv, Forward PROVE TextInv'
<1>1. /\ pc = "forward" /\ UNCHANGED <<live, ids, handle, last, finished>>
      /\ \/ pc' = "crashed" /\ UNCHANGED <<tree, kv, cached, row>>
         \/ Launches
  BY ForwardIs
<1>2. CASE pc' = "crashed" /\ UNCHANGED <<tree, kv, cached, row>>
  <2>1. LifeInv
    BY DEF CacheInv
  <2>2. \A q \in live : Text(q)' = Text(q)
    BY <1>1, <1>2, <2>1, TextIdle
  <2>3. \A q \in live : Reads(q)
    BY <2>2 DEF Reads
  <2>. QED  BY <1>1, <1>2, <2>3, TextsStay
<1>3. CASE Launches
  <2>1. PICK R \in Evictions(Needed) : Allocate(Needed, R)
    BY <1>3 DEF Launches
  <2>2. /\ tree' = Without(tree, R) /\ row' = NewRows(SubSeq(Gathered(R), 1, Needed))
        /\ free' = SubSeq(Gathered(R), Needed + 1, Len(Gathered(R)))
    BY <2>1 DEF Allocate, Gathered
  <2>3. kv' = Written(row')
    BY <2>1, <2>2 DEF Allocate, Gathered
  <2>4. /\ PageSize \in Nat \ {0} /\ NumPages \in Nat \ {0} /\ IsTree(tree, Tokens) /\ IsFiniteSet(live)
        /\ live \subseteq Reqs /\ TreeTrue(tree, kv) /\ OwnTrue
        /\ cached \in [Reqs -> Nat] /\ device \in [Reqs -> Nat]
    BY RowsAre, TruthfulIs DEF CacheInv, LifeInv, Fields, TextInv, CacheAssumption
  <2> DEFINE d == [r \in Reqs |-> IF r \in InCur THEN device[r] ELSE cached[r]]
  <2>5. cached' = d
    BY <1>3 DEF Launches
  <2>6. /\ IsTree(tree', Tokens)
        /\ \A p \in DOMAIN tree'.page : p \in DOMAIN tree.page /\ tree'.page[p] = tree.page[p]
    <3>1. R \in SUBSET Nodes(tree) /\ \A n \in R, m \in Nodes(tree) : IsPrefix(n, m) => m \in R
      BY EvictionsIs DEF Unlocked
    <3>. QED  BY <2>2, <2>4, <3>1, WithoutIs
  <2>7. \A q \in live : handle[q] = Root \/ handle[q] \in DOMAIN tree'.page
    <3>1. Counted(tree', live', handle')
      BY HeldForward DEF HeldInv
    <3>. QED  BY <1>1, <2>6, <3>1, TreeTexts DEF Counted
  <2>8. \A all, u, v, rest :
          (/\ all = Gathered(R) /\ u = Without(tree, R) /\ v = NewRows(SubSeq(all, 1, Needed))
           /\ rest = SubSeq(all, Needed + 1, Len(all)))
          => Handed(rest, u, v)
    BY <1>1, PagesLaunched
  <2>9. \A v, u, f : v = row' /\ u = tree' /\ f = free' =>
             TreeTrue(u, Written(v)) /\ \A r \in live : RowTrue(v[r], handle[r], d[r], Text(r), Written(v))
    <3> SUFFICES ASSUME NEW v, NEW u, NEW f, v = row', u = tree', f = free'
                 PROVE  TreeTrue(u, Written(v)) /\ \A r \in live : RowTrue(v[r], handle[r], d[r], Text(r), Written(v))
      OBVIOUS
    <3>1. /\ PagesHeld(f, u, live, v, handle)
          /\ \A r \in live : /\ RowOf(v[r], handle[r], IF r \in InCur THEN device[r] ELSE cached[r])
                            /\ \A k \in 1 .. Len(row[r]) : v[r][k] = row[r][k]
      <4>1. Handed(f, u, v)
        BY <2>2, <2>8
      <4>. QED  BY <4>1 DEF Handed
    <3>2. \A r \in live : d[r] \in Nat /\ d[r] = IF r \in InCur THEN device[r] ELSE cached[r]
      BY <2>4
    <3>3. IsTree(u, Tokens) /\ (\A p \in DOMAIN u.page : p \in DOMAIN tree.page /\ u.page[p] = tree.page[p])
          /\ \A r \in live : handle[r] = Root \/ handle[r] \in DOMAIN u.page
      BY <2>6, <2>7
    <3>4. d = [r \in Reqs |-> IF r \in InCur THEN device[r] ELSE cached[r]]
      OBVIOUS
    <3> HIDE DEF d
    <3>5. Shared(f, u, live, v, handle, d)
      BY <2>4, <3>1, <3>2, <3>3 DEF Shared, Rows
    <3>. QED  BY <1>1, <2>4, <3>1, <3>3, <3>4, <3>5, TextsWritten
  <2>10. TreeTrue(tree', kv') /\ \A r \in live : RowTrue(row'[r], handle[r], d[r], Text(r), kv')
    <3> HIDE DEF d
    <3>1. \A v, u, f : v = row' /\ u = tree' /\ f = free' =>
             TreeTrue(u, kv') /\ \A r \in live : RowTrue(v[r], handle[r], d[r], Text(r), kv')
      BY <2>3, <2>9
    <3>. QED  BY <3>1
  <2>11. CacheTruthful'
    BY <2>10 DEF CacheTruthful, TreeTrue
  <2>12. OwnTrue'
    <3> SUFFICES ASSUME NEW q \in live, NEW i \in Len(handle[q]) + 1 .. d[q]
                 PROVE  kv'[Slot(row'[q], i)] = SubSeq(Text(q)', 1, i)
      BY <1>1, <2>5 DEF OwnTrue, RowTrue, Slot
    <3>1. kv'[Slot(row'[q], i)] = SubSeq(Text(q), 1, i)
      BY <2>10 DEF RowTrue
    <3>2. i \in 1 .. device[q]
      <4>1. cached[q] < device[q] /\ cached[q] \in Nat /\ device[q] \in Nat /\ Len(handle[q]) \in Nat
        BY <2>4, RowsAre, LenProperties DEF CacheInv, LensInv, RowOf
      <4>2. d[q] \in Nat /\ d[q] <= device[q]
        BY <2>4, <4>1
      <4> HIDE DEF d
      <4>. QED  BY <4>1, <4>2
    <3>3. SubSeq(Text(q)', 1, i) = SubSeq(Text(q), 1, i)
      BY <1>1, <1>3, <3>2, ReadsForward
    <3>. QED  BY <3>1, <3>3
  <2>. QED  BY <2>11, <2>12 DEF TextInv
<1>. QED
  BY <1>1, <1>2, <1>3

LEMMA TextsHandleAbort ==
  ASSUME CacheAssumption, CacheInv, PageInv, TextInv, NEW r \in Reqs, HandleAbort(r)
  PROVE  TextInv'
<1>1. /\ pc \in {"wait", "recv"} /\ pc' = "recv" /\ UNCHANGED <<kv, last, finished, budget>>
      /\ LifeInv /\ LensInv /\ HeldInv /\ live \subseteq Reqs
  BY DEF HandleAbort, Receiving, adder, CacheInv, LifeInv, Members
<1>2. ASSUME NEW q, ids'[q] = ids[q] PROVE Reads(q)
  BY <1>1, <1>2, TextIdle DEF Reads
<1>3. CASE r \in InLast
  <2>1. UNCHANGED <<tree, live, ids, cached, row, handle>>
    BY <1>3 DEF HandleAbort, Fence, InLast, cacheVars, reqVars
  <2>. QED  BY <1>1, <1>2, <2>1, TextsStay
<1>4. CASE r \notin InLast /\ r \in chunk \union running
  <2>1. Release(r, ids[r]) /\ r \in live
    BY <1>1, <1>4 DEF HandleAbort, Fence, InLast, LifeInv, Members
  <2>2. ids[r] \in Seq(Tokens) /\ Lag(r) <= 1 + (Len(ids[r]) - Len(ids[r]))
    BY <1>1, <1>4, <2>1, AbortText
  <2>3. IsPrefix(ids[r], ids[r])
    BY <2>2, PrefixOrder
  <2>4. Text(r) = ids[r]
    <3>1. r \notin Unseen
      BY <1>1, <1>4, UnseenIdle
    <3>. QED  BY <3>1 DEF Text
  <2>5. Others({r})
    BY <1>1, <2>1, <2>2, ReleaseIs
  <2>6. \A q \in live \ {r} : Reads(q)
    BY <1>1, <1>2, <2>5 DEF Others
  <2>. QED  BY <1>1, <2>1, <2>2, <2>3, <2>4, <2>6, TextsRelease
<1>5. CASE r \notin InLast /\ r \notin chunk \union running
  <2>1. Forget({r}) /\ live' = live /\ tree' = tree
    BY <1>5 DEF HandleAbort, Fence, InLast, cacheVars
  <2>2. r \notin live
    <3>1. cur = NoBatch /\ pc \notin {"admit", "forward", "post", "crashed", "failed"}
      BY <1>1 DEF LifeInv, Phases
    <3>. QED  BY <1>1, <1>5, <3>1 DEF LifeInv, AllKept, Kept, Waiting, Members
  <2>3. Others({r})
    BY <1>1, <2>1, ForgetIs
  <2>4. \A q \in live : ids'[q] = ids[q] /\ row'[q] = row[q] /\ handle'[q] = handle[q] /\ cached'[q] = cached[q]
    BY <1>1, <2>2, <2>3 DEF Others
  <2>. QED  BY <1>1, <1>2, <2>1, <2>4, TextsStay
<1>. QED
  BY <1>3, <1>4, <1>5

LEMMA TextsFreeDeferred == ASSUME CacheAssumption, CacheInv, PageInv, TextInv, FreeDeferred PROVE TextInv'
<1>1. /\ LifeInv /\ LensInv /\ live \subseteq Reqs /\ pc = "post" /\ pc' = "post" /\ todo = <<>> /\ todo' = <<>>
      /\ UNCHANGED <<kv, budget>>
  BY FreeDeferredIs DEF CacheInv, LifeInv, Members
<1>2. PICK r \in deferred : Release(r, ids[r])
  BY <1>1, FreeDeferredIs
<1>3. r \in live
  BY <1>1 DEF LifeInv, Waiting
<1>4. ids[r] \in Seq(Tokens) /\ Lag(r) <= 1 + (Len(ids[r]) - Len(ids[r]))
  BY <1>1, <1>3, AbortText
<1>5. IsPrefix(ids[r], ids[r])
  BY <1>4, PrefixOrder
<1>6. Unseen = {} /\ Unseen' = {}
  <2>1. Range(<<>>) = {}
    BY DEF Range
  <2>. QED  BY <1>1, <2>1 DEF Unseen
<1>7. \A q : Text(q) = ids[q] /\ Text(q)' = ids'[q]
  BY <1>6 DEF Text
<1>8. Others({r})
  BY <1>1, <1>2, <1>3, <1>4, ReleaseIs
<1>9. \A q \in live \ {r} : Reads(q)
  BY <1>1, <1>7, <1>8 DEF Others, Reads
<1>. QED
  BY <1>1, <1>2, <1>3, <1>4, <1>5, <1>7, <1>9, TextsRelease

\* The batch that becomes the last one has sampled; what is computed ends earlier.
LEMMA TextsEndTick == ASSUME CacheAssumption, CacheInv, PageInv, TextInv, EndTick PROVE TextInv'
<1>1. /\ LifeInv /\ LensInv /\ live \subseteq Reqs /\ pc = "post" /\ pc' = "loop" /\ todo = <<>> /\ deferred = {}
      /\ Forget(finished) /\ UNCHANGED <<kv, tree, live, budget>>
      /\ last' = IF Overlap THEN cur ELSE NoBatch
  BY DEF EndTick, cacheVars, adder, CacheInv, LifeInv, Members
<1>2. Others(finished) /\ finished \intersect live = {}
  BY <1>1, ForgetIs DEF LifeInv, Phases
<1>3. \A q \in live : ids'[q] = ids[q] /\ row'[q] = row[q] /\ handle'[q] = handle[q] /\ cached'[q] = cached[q]
  BY <1>1, <1>2 DEF Others
<1>4. ASSUME NEW q \in live, NEW i \in 1 .. cached[q] PROVE SubSeq(Text(q)', 1, i) = SubSeq(Text(q), 1, i)
  <2>1. Text(q) = ids[q]
    <3>1. Range(<<>>) = {}
      BY DEF Range
    <3>2. Unseen = {}
      BY <1>1, <3>1 DEF Unseen
    <3>. QED  BY <3>2 DEF Text
  <2>2. ids[q] \in Seq(Tokens) /\ i \in 0 .. Len(ids[q])
    <3>1. /\ ids[q] \in Seq(Tokens) /\ cached[q] \in Nat /\ device[q] \in Nat
          /\ cached[q] < device[q] /\ device[q] <= Len(ids[q]) + Lag(q)
      BY <1>1 DEF LifeInv, LensInv, Fields
    <3>2. InTodo = {}
      BY <1>1 DEF InTodo, Range
    <3>3. Lag(q) = (IF q \in (InTodo \ Data.partial) \union deferred THEN 1 ELSE 0)
                   + (IF Overlap /\ q \in InCur \ cur.partial THEN 1 ELSE 0)
      BY <1>1, LagPost
    <3>4. Lag(q) \in {0, 1}
      BY <1>1, <3>2, <3>3
    <3>5. Len(ids[q]) \in Nat
      BY <3>1, LenProperties
    <3>. QED  BY <3>1, <3>4, <3>5
  <2>3. CASE q \notin Unseen'
    <3>1. Text(q)' = ids'[q]
      BY <2>3 DEF Text
    <3>. QED  BY <1>3, <2>1, <3>1
  <2>4. CASE q \in Unseen'
    <3>1. Unseen' = Range(last'.reqs) \ (last'.partial \union finished')
      BY <1>1 DEF Unseen
    <3>2. Overlap
      BY <1>1, <2>4, <3>1, NoBatchIs
    <3>3. q \in InCur \ cur.partial /\ Data' = cur
      BY <1>1, <2>4, <3>1, <3>2 DEF InCur, Data
    <3>4. cur.token[q] \in Tokens
      BY <1>1, <3>3 DEF LensInv, Sampled, InCur
    <3>5. Text(q)' = Append(ids[q], cur.token[q])
      BY <1>3, <2>4, <3>3 DEF Text
    <3>6. SubSeq(Append(ids[q], cur.token[q]), 1, i) = SubSeq(ids[q], 1, i)
      <4>1. \A s \in Seq(Tokens) : \A e \in Tokens : \A k \in 0 .. Len(s) : SubSeq(Append(s, e), 1, k) = SubSeq(s, 1, k)
        BY AppendCut
      <4>. QED  BY <2>2, <3>4, <4>1
    <3>. QED  BY <2>1, <3>5, <3>6
  <2>. QED  BY <2>3, <2>4
<1>5. \A q \in live : Reads(q)
  BY <1>4 DEF Reads
<1>. QED
  BY <1>1, <1>3, <1>5, TextsStay

\* What is read of a request no longer changes once it is skipped; what is
\* appended to it, the device has read already.
LEMMA TextsPostProcess == ASSUME CacheAssumption, CacheInv, PageInv, TextInv, PostProcess PROVE TextInv'
<1>0. PICK r, text : r = Head(todo) /\ text = Append(ids[r], Data.token[r])
  OBVIOUS
<1>1. /\ pc = "post" /\ pc' = "post" /\ r \in InTodo /\ r \in Reqs /\ InTodo' = InTodo \ {r}
      /\ UNCHANGED <<kv, budget, cur, last, finished, deferred>>
      /\ \/ r \in Skipped /\ Skips
         \/ r \notin Skipped /\ (Stops(r, text) \/ GoesOn(r, text))
      /\ LifeInv /\ LensInv /\ live \subseteq Reqs /\ ids \in [Reqs -> Seq(Tokens)]
  BY <1>0, PostProcessIs DEF CacheInv, LifeInv, Members, Fields
<1>2. Data' = Data /\ Unseen = InTodo \ Data.partial /\ Unseen' = Unseen \ {r}
  BY <1>1 DEF Data, Unseen, InTodo
<1>3. ASSUME NEW q, q /= r, ids'[q] = ids[q] PROVE Reads(q)
  <2>1. Text(q)' = Text(q)
    BY <1>2, <1>3 DEF Text
  <2>. QED  BY <2>1 DEF Reads
<1>4. CASE r \in Skipped /\ Skips
  <2>1. UNCHANGED <<tree, live, ids, cached, row, handle>>
    BY <1>4 DEF Skips
  <2>2. ASSUME r \in live PROVE Reads(r)
    <3>1. CASE r \in Data.partial
      <4>1. Text(r)' = Text(r)
        BY <1>2, <2>1, <3>1 DEF Text
      <4>. QED  BY <4>1 DEF Reads
    <3>2. CASE r \notin Data.partial
      <4>1. r \in deferred /\ r \notin InCur
        BY <1>1, <1>4, <2>2, <3>2 DEF Skipped, LifeInv, Phases, Waiting
      <4>2. Text(r)' = ids[r]
        BY <1>2, <2>1 DEF Text
      <4>3. Data.token[r] \in Tokens
        BY <1>1, <3>2, DataToken
      <4>4. Text(r) = text
        BY <1>0, <1>1, <1>2, <3>2 DEF Text
      <4>5. ASSUME NEW i \in 1 .. cached[r] PROVE i \in 0 .. Len(ids[r])
        <5>1. /\ cached[r] \in Nat /\ device[r] \in Nat /\ cached[r] < device[r] /\ device[r] <= Len(ids[r]) + Lag(r)
              /\ Len(ids[r]) \in Nat
          BY <1>1, <2>2, LenProperties DEF LifeInv, LensInv, Fields
        <5>2. Lag(r) = (IF r \in (InTodo \ Data.partial) \union deferred THEN 1 ELSE 0)
                       + (IF Overlap /\ r \in InCur \ cur.partial THEN 1 ELSE 0)
          BY <1>1, LagPost
        <5>3. Lag(r) = 1
          BY <4>1, <5>2
        <5>. QED  BY <5>1, <5>3
      <4>6. \A s \in Seq(Tokens) : \A e \in Tokens : \A k \in 0 .. Len(s) : SubSeq(Append(s, e), 1, k) = SubSeq(s, 1, k)
        BY AppendCut
      <4>7. \A i \in 1 .. cached[r] : SubSeq(text, 1, i) = SubSeq(ids[r], 1, i)
        BY <1>0, <1>1, <4>3, <4>5, <4>6
      <4>. QED  BY <4>2, <4>4, <4>7 DEF Reads
    <3>. QED  BY <3>1, <3>2
  <2>3. \A q \in live : Reads(q)
    BY <1>3, <2>1, <2>2
  <2>. QED  BY <1>1, <2>1, <2>3, TextsStay
<1>5. CASE r \notin Skipped
  <2>1. text \in Seq(Tokens) /\ r \in live /\ Lag(r) <= 1 + (Len(text) - Len(ids[r]))
    BY <1>0, <1>1, <1>5, SampledText
  <2>2. IsPrefix(ids[r], text)
    <3>0. \A s \in Seq(Tokens) : IsPrefix(s, s)
      BY PrefixOrder
    <3>1. \A h, s \in Seq(Tokens) : \A e : Append(s, e) \in Seq(Tokens) /\ IsPrefix(h, s) =>
             IsPrefix(s, Append(s, e)) /\ IsPrefix(h, Append(s, e))
      BY PrefixAppend
    <3>. QED  BY <1>0, <1>1, <2>1, <3>0, <3>1
  <2>3. Text(r) = text
    BY <1>0, <1>1, <1>2, <1>5 DEF Text, Skipped
  <2>4. CASE Stops(r, text)
    <3>1. Release(r, text) /\ Others({r})
      BY <1>1, <2>1, <2>4, ReleaseIs DEF Stops
    <3>2. \A q \in live \ {r} : Reads(q)
      BY <1>1, <1>3, <3>1 DEF Others
    <3>. QED  BY <1>1, <2>1, <2>2, <2>3, <3>1, <3>2, TextsRelease
  <2>5. CASE GoesOn(r, text)
    <3>1. live' = live /\ row' = row /\ cached' = cached /\ ids' = [ids EXCEPT ![r] = text]
      BY <2>5 DEF GoesOn
    <3>2. Reads(r)
      <4>1. Text(r)' = text
        BY <1>1, <1>2, <3>1 DEF Text
      <4>. QED  BY <2>3, <4>1 DEF Reads
    <3>3. \A q \in live : Reads(q)
      BY <1>1, <1>3, <3>1, <3>2
    <3>4. CASE Data.prefill
      BY <1>1, <2>1, <2>2, <2>3, <2>5, <3>1, <3>3, <3>4, TextsGoesOn DEF GoesOn
    <3>5. CASE ~Data.prefill
      <4>1. tree' = tree /\ handle' = handle
        BY <2>5, <3>5 DEF GoesOn
      <4>. QED  BY <1>1, <3>1, <3>3, <4>1, TextsStay
    <3>. QED  BY <3>4, <3>5
  <2>. QED  BY <1>1, <1>5, <2>4, <2>5
<1>. QED
  BY <1>1, <1>4, <1>5

LEMMA TextsAdmit == ASSUME CacheAssumption, CacheInv, PageInv, TextInv, Admit PROVE TextInv'
<1>0. PICK r, match : r = First /\ match = MatchReq(First)
  OBVIOUS
<1>1. /\ r \in Reqs /\ r \in Queued /\ r \notin live /\ tree' = Lock(Split(tree, match), match)
      /\ handle' = [handle EXCEPT ![r] = match] /\ live' = live \union {r}
      /\ cached' = [cached EXCEPT ![r] = Len(match)]
      /\ \E w : row' = [row EXCEPT ![r] = w]
  BY <1>0, AdmitIs DEF Added
<1>2. pc = "admit" /\ pc' = "admit" /\ UNCHANGED <<kv, ids, last, finished>>
  BY DEF Admit
<1>3. LifeInv /\ live \subseteq Reqs /\ IsTree(tree, Tokens) /\ cached \in [Reqs -> Nat] /\ DOMAIN handle = Reqs
      /\ DOMAIN row = Reqs
  BY DEF CacheInv, LifeInv, Members, Fields, HeldInv
<1>4. match \in Seq(Tokens) /\ Len(match) \in Nat /\ (match = Root \/ match \in DOMAIN tree.page)
  BY <1>0, <1>1, <1>3, MatchIs DEF CacheInv, LensInv
<1>5. tree'.page = tree.page
  BY <1>1, <1>3, <1>4, SplitTree, SplitIs, LockIs
<1>6. CacheTruthful'
  BY <1>2, <1>5 DEF TextInv, CacheTruthful
<1>7. ASSUME NEW q \in live'
      PROVE  \/ cached'[q] \in Nat /\ Len(handle'[q]) \in Nat /\ cached'[q] <= Len(handle'[q])
             \/ /\ q \in live /\ row'[q] = row[q] /\ cached'[q] = cached[q] /\ Reads(q)
                /\ Len(handle'[q]) \in Nat /\ Len(handle[q]) <= Len(handle'[q])
  <2>1. CASE q = r
    BY <1>1, <1>3, <1>4, <2>1
  <2>2. CASE q /= r
    <3>1. q \in live /\ row'[q] = row[q] /\ cached'[q] = cached[q] /\ handle'[q] = handle[q]
      BY <1>1, <1>3, <2>2
    <3>2. Text(q)' = Text(q)
      BY <1>2, <1>3, TextIdle
    <3>3. Len(handle[q]) \in Nat
      BY <3>1, RowsAre, LenProperties DEF RowOf
    <3>. QED  BY <3>1, <3>2, <3>3 DEF Reads
  <2>. QED  BY <2>1, <2>2
<1>8. OwnTrue'
  BY <1>2, <1>7, OwnStays DEF TextInv
<1>. QED
  BY <1>6, <1>8 DEF TextInv

LEMMA TextsInit == ASSUME Init PROVE TextInv
<1>1. live = {} /\ tree.page = <<>>
  BY DEF Init, EmptyTree
<1>2. DOMAIN tree.page = {}
  BY <1>1
<1>. QED
  BY <1>1, <1>2 DEF TextInv, OwnTrue, CacheTruthful

LEMMA TextsNext == ASSUME CacheAssumption, CacheInv, PageInv, TextInv, [Next]_vars PROVE TextInv'
<1>0. /\ LifeInv /\ IsTree(tree, Tokens)
      /\ ids \in [Reqs -> Seq(Tokens)] /\ cached \in [Reqs -> Nat] /\ live \subseteq arrived /\ live \subseteq Reqs
  BY DEF CacheInv, HeldInv, LifeInv, Fields, Members
<1>1. ASSUME pc /= "post", pc' /= "post", last' = last, finished' = finished, \A q \in live : ids'[q] = ids[q]
      PROVE  \A q \in live : Reads(q)
  <2>1. \A q \in live : Text(q)' = Text(q)
    BY <1>0, <1>1, TextIdle
  <2>. QED  BY <2>1 DEF Reads
<1>2. CASE UNCHANGED vars
  <2>1. UNCHANGED <<pc, kv, tree, live, ids, cached, row, handle, last, cur, todo, finished>>
    BY <1>2 DEF vars, cacheVars, reqVars, batchVars
  <2>2. \A q : Text(q)' = Text(q)
    BY <2>1 DEF Text, Unseen, Data
  <2>3. \A q \in live : Reads(q)
    BY <2>2 DEF Reads
  <2>. QED  BY <2>1, <2>3, TextsStay
<1>3. CASE StartTick \/ EndReceive
  <2>1. UNCHANGED <<kv, tree, live, ids, cached, row, handle, last, finished>> /\ pc /= "post" /\ pc' /= "post"
    BY <1>3 DEF StartTick, EndReceive, cacheVars, reqVars, batchVars
  <2>. QED  BY <1>1, <2>1, TextsStay
<1>4. CASE Continue
  <2>1. /\ UNCHANGED <<pc, kv, tree, live, ids, row, handle, last, finished>> /\ pc = "admit"
        /\ cached' = [cached EXCEPT ![First] = cached[First]]
    BY <1>4 DEF Continue, AddOneReq, cacheVars
  <2>2. \A q \in live : cached'[q] = cached[q]
    BY <1>0, <2>1
  <2>. QED  BY <1>1, <2>1, <2>2, TextsStay
<1>5. ASSUME NEW r \in Reqs, HandleUser(r) PROVE TextInv'
  <2>1. /\ UNCHANGED <<kv, tree, live, cached, row, handle, last, finished>> /\ r \notin arrived
        /\ pc /= "post" /\ pc' /= "post" /\ \E p : ids' = [ids EXCEPT ![r] = p]
    BY <1>5 DEF HandleUser, Receiving, cacheVars, batchVars
  <2>2. \A q \in live : ids'[q] = ids[q]
    BY <1>0, <2>1
  <2>. QED  BY <1>1, <2>1, <2>2, TextsStay
<1>6. CASE CloseBatch
  <2>1. PICK path : /\ tree' = Split(tree, path) /\ (path = Root \/ path \in DOMAIN tree.page)
                    /\ live' = live /\ handle' = handle
    BY <1>6, CloseBatchIs
  <2>2. tree'.page = tree.page
    BY <1>0, <2>1, SplitIs
  <2>3. UNCHANGED <<kv, ids, cached, row, last, finished>> /\ pc = "admit" /\ pc' = "forward"
    BY <1>6 DEF CloseBatch, reqVars
  <2>. QED  BY <1>1, <2>1, <2>2, <2>3, TextsStay
<1>7. ASSUME NEW r \in Reqs, HandleAbort(r) PROVE TextInv'
  BY <1>7, TextsHandleAbort
<1>. QED
  BY <1>2, <1>3, <1>4, <1>5, <1>6, <1>7, TextsAdmit, TextsForward, TextsFailedPrepare, TextsPostProcess,
     TextsFreeDeferred, TextsEndTick DEF Next, Step, Idle

(* CacheTruthful: what the cache would give a new request is the text it asks
   for.  No forward writes to a page that the cache has, whichever way its
   requests came to their rows, and what a request hands over when it is
   cached, in the middle of its prompt or at its end, is what was computed. *)
THEOREM TextsCorrect == Spec => []CacheTruthful
<1>1. Init => CacheInv /\ PageInv /\ TextInv
  BY CacheAssumption, LifeInit, LensInit, HeldInit, PagesInit, TextsInit DEF CacheInv
<1>2. CacheInv /\ PageInv /\ TextInv /\ [Next]_vars => (CacheInv /\ PageInv /\ TextInv)'
  BY CacheAssumption, InvNext, PagesNext, TextsNext
<1>3. CacheInv /\ PageInv /\ TextInv => CacheTruthful
  BY DEF TextInv
<1>. QED
  BY <1>1, <1>2, <1>3, PTL DEF Spec

-----------------------------------------------------------------------------
(* Every page counted                                                      *)

\* A list with each of the pages once has all of them.
LEMMA CountAll ==
  ASSUME NEW S, IsFiniteSet(S), NEW s \in Seq(S), \A x \in S : Count(x, s) = 1
  PROVE  Len(s) = Cardinality(S)
<1> DEFINE D == DOMAIN s
<1>1. D = 1 .. Len(s) /\ Len(s) \in Nat /\ \A i \in D : s[i] \in S
  OBVIOUS
<1>2. \A x \in S : \E i \in D : s[i] = x /\ \A j \in D : s[j] = x => j = i
  <2> TAKE x \in S
  <2> DEFINE At == {i \in D : s[i] = x}
  <2>1. IsFiniteSet(At) /\ Cardinality(At) = 1
    BY CountIs DEF Count
  <2>2. \E i : At = {i}
    BY <2>1, FS_Singleton
  <2>. QED  BY <2>2, SMTT(30)
<1>3. [i \in D |-> s[i]] \in Bijection(D, S)
  <2> DEFINE g == [i \in D |-> s[i]]
  <2>1. g \in [D -> S]
    BY <1>1
  <2>2. \A i, j \in D : g[i] = g[j] => i = j
    BY <1>1, <1>2
  <2>3. \A x \in S : \E i \in D : g[i] = x
    BY <1>2
  <2>. QED  BY <2>1, <2>2, <2>3 DEF Bijection, Injection, Surjection, IsInjective
<1>4. ExistsBijection(D, S)
  BY <1>3 DEF ExistsBijection
<1>5. IsFiniteSet(D) /\ Cardinality(D) = Len(s)
  <2>1. \A a1, b1 \in Int : IsFiniteSet(a1 .. b1) /\ Cardinality(a1 .. b1) = IF a1 > b1 THEN 0 ELSE b1 - a1 + 1
    BY FS_Interval
  <2>. QED  BY <1>1, <2>1
<1>. QED  BY <1>4, <1>5, FS_Bijection

\* Lists that owners hold, as one list
Gathers(all, s, L) ==
  /\ Len(all) = Total([r \in L |-> Len(s[r])], L)
  /\ \A x : Count(x, all) = Total([r \in L |-> Count(x, s[r])], L)

LEMMA ListUnion ==
  ASSUME NEW P, NEW L, IsFiniteSet(L), NEW s \in [L -> Seq(P)]
  PROVE  \E all \in Seq(P) : Gathers(all, s, L)
<1> DEFINE n == [r \in L |-> Len(s[r])]
           c(x) == [r \in L |-> Count(x, s[r])]
           F == {T \in SUBSET L : \E all \in Seq(P) : /\ Len(all) = Total(n, T)
                                                      /\ \A x : Count(x, all) = Total(c(x), T)}
<1>1. n \in [L -> Int] /\ \A r \in L : n[r] = Len(s[r])
  OBVIOUS
<1>2. ASSUME NEW x PROVE c(x) \in [L -> Int] /\ \A r \in L : c(x)[r] = Count(x, s[r])
  <2>1. \A r \in L : Count(x, s[r]) \in Nat
    BY CountIs
  <2>. QED  BY <2>1
<1>3. /\ Total(n, {}) = 0 /\ \A x : Total(c(x), {}) = 0
      /\ \A T \in SUBSET L : Total(n, T) \in Int /\ \A x : Total(c(x), T) \in Int
      /\ \A T \in SUBSET L : \A r \in L \ T :
           /\ Total(n, T \union {r}) = Total(n, T) + n[r]
           /\ \A x : Total(c(x), T \union {r}) = Total(c(x), T) + c(x)[r]
  <2>1. \A f \in [L -> Int] :
          /\ Total(f, {}) = 0 /\ \A T \in SUBSET L : Total(f, T) \in Int
          /\ \A T \in SUBSET L : \A r \in L \ T : Total(f, T \union {r}) = Total(f, T) + f[r]
    BY TotalRules
  <2>2. \A x : c(x) \in [L -> Int]
    BY <1>2
  <2> HIDE DEF n, c
  <2>. QED  BY <1>1, <2>1, <2>2
<1> HIDE DEF n, c
<1>4. {} \in F
  <2>1. <<>> \in Seq(P) /\ Len(<<>>) = 0 /\ \A x : Count(x, <<>>) = 0
    <3>1. \A x : {i \in DOMAIN <<>> : <<>>[i] = x} = {}
      OBVIOUS
    <3>. QED  BY <3>1, FS_EmptySet DEF Count
  <2>. QED  BY <1>3, <2>1
<1>5. ASSUME NEW T \in F, NEW r \in L \ T PROVE T \union {r} \in F
  <2>1. PICK all \in Seq(P) : Len(all) = Total(n, T) /\ \A x : Count(x, all) = Total(c(x), T)
    BY <1>5
  <2>2. s[r] \in Seq(P) /\ all \o s[r] \in Seq(P) /\ Len(all \o s[r]) = Len(all) + Len(s[r])
    OBVIOUS
  <2>3. \A x : Count(x, all \o s[r]) = Count(x, all) + Count(x, s[r])
    BY <2>2, CountConcat
  <2>4. Len(all \o s[r]) = Total(n, T \union {r})
    BY <1>1, <1>3, <2>1, <2>2
  <2>5. ASSUME NEW x PROVE Count(x, all \o s[r]) = Total(c(x), T \union {r})
    <3>1. Total(c(x), T \union {r}) = Total(c(x), T) + c(x)[r]
      BY <1>3
    <3>2. Count(x, all) = Total(c(x), T) /\ Count(x, all \o s[r]) = Count(x, all) + Count(x, s[r])
      BY <2>1, <2>3
    <3>3. c(x)[r] = Count(x, s[r])
      BY <1>2
    <3>. QED  BY <3>1, <3>2, <3>3
  <2>. QED  BY <2>2, <2>4, <2>5
<1>6. F = SUBSET L
  <2>1. F \in SUBSET (SUBSET L)
    OBVIOUS
  <2> HIDE DEF F
  <2>. QED  BY <1>4, <1>5, <2>1, FiniteInduct
<1>7. L \in F
  BY <1>6
<1>. QED  BY <1>7 DEF n, c, Gathers

\* The pages of a tree, as one list
LEMMA TreeList ==
  ASSUME PageSize \in Nat \ {0}, NEW S, NEW t, IsTree(t, S), NEW P,
         \A p, q \in DOMAIN t.page : t.page[p] = t.page[q] => p = q, \A p \in DOMAIN t.page : t.page[p] \in P
  PROVE  \E list \in Seq(P) : /\ PageSize * Len(list) = TotalLength(t, Nodes(t))
                              /\ \A x : Count(x, list) = Cardinality(Holders(t, x))
<1> DEFINE R == Nodes(t)
           list == SetToSeq(PagesOf(t, R))
           u == Without(t, R)
<1>1. Evictable(t, R, P)
  BY DEF Evictable
<1>2. \A x : /\ list \in Seq(P) /\ TotalLength(t, R) = PageSize * Len(list)
             /\ Cardinality(Holders(u, x)) + Count(x, list) = Cardinality(Holders(t, x))
  <2> HIDE DEF R
  <2>. QED  BY <1>1, EvictHolders
<1>3. DOMAIN u.page = {}
  <2>1. \A n \in R, m \in Nodes(t) : IsPrefix(n, m) => m \in R
    OBVIOUS
  <2>2. DOMAIN u.page = {p \in DOMAIN t.page : \E n \in Nodes(t) \ R : IsPrefix(p, n)}
    <3>1. R \in SUBSET Nodes(t)
      OBVIOUS
    <3> HIDE DEF R
    <3>. QED  BY <2>1, <3>1, WithoutIs
  <2>. QED  BY <2>2
<1>4. \A x : Cardinality(Holders(u, x)) = 0
  <2>1. \A x : Holders(u, x) = {}
    BY <1>3 DEF Holders
  <2>. QED  BY <2>1, FS_EmptySet
<1> HIDE DEF list, u
<1>5. list \in Seq(P) /\ TotalLength(t, R) = PageSize * Len(list)
  BY <1>2
<1>6. ASSUME NEW x PROVE Count(x, list) = Cardinality(Holders(t, x))
  <2>1. Cardinality(Holders(u, x)) + Count(x, list) = Cardinality(Holders(t, x))
    BY <1>2
  <2>2. Count(x, list) \in Nat
    BY <1>5, CountIs
  <2>. QED  BY <1>4, <2>1, <2>2
<1>. QED  BY <1>5, <1>6 DEF R

\* The keys of some nodes together
LEMMA LengthNat ==
  ASSUME NEW S, NEW t, IsTree(t, S), NEW P \in SUBSET Nodes(t)
  PROVE  TotalLength(t, P) \in Nat
<1> DEFINE e == [n \in P |-> 0]
           f == [n \in P |-> Lengths(t)[n]]
<1>1. /\ Lengths(t) \in [Nodes(t) -> Int] /\ IsFiniteSet(Nodes(t))
      /\ \A n \in Nodes(t) : Lengths(t)[n] = Length(t, n) /\ Length(t, n) \in Nat
  BY LengthsAre
<1>2. IsFiniteSet(P)
  BY <1>1, FS_Subset
<1>3. e \in [P -> Int] /\ f \in [P -> Int] /\ \A n \in P : e[n] = 0 /\ f[n] = Lengths(t)[n] /\ e[n] <= f[n]
  BY <1>1
<1> HIDE DEF e, f
<1>4. Total(e, P) <= Total(f, P) /\ Total(e, P) = 0
  BY <1>2, <1>3, TotalMono, TotalZero
<1>5. Total(f, P) = Total(Lengths(t), P)
  <2>1. P \in SUBSET P
    OBVIOUS
  <2>. QED  BY <1>1, <1>2, <1>3, <2>1, TotalAgree
<1>6. Total(Lengths(t), P) \in Int
  BY <1>1, TotalRules
<1>. QED  BY <1>4, <1>5, <1>6, LengthTotal

\* Either kind of node counts to one of the two sizes.
LEMMA SizesTogether ==
  ASSUME NEW S, NEW t, IsTree(t, S), Sized(t)
  PROVE  /\ t.evictable \in Nat /\ t.protected \in Nat
         /\ t.evictable + t.protected = TotalLength(t, Nodes(t))
<1> DEFINE A == {n \in Nodes(t) : t.ref[n] = 0}
           B == {n \in Nodes(t) : t.ref[n] > 0}
<1>1. A \in SUBSET Nodes(t) /\ B \in SUBSET Nodes(t) /\ A \intersect B = {}
  OBVIOUS
<1>2. A \union B = Nodes(t)
  BY DEF IsTree
<1>3. /\ Lengths(t) \in [Nodes(t) -> Int] /\ IsFiniteSet(Nodes(t))
      /\ \A n \in Nodes(t) : Lengths(t)[n] = Length(t, n) /\ Length(t, n) \in Nat
  BY LengthsAre
<1>4. t.evictable = TotalLength(t, A) /\ t.protected = TotalLength(t, B)
  BY DEF Sized
<1> HIDE DEF A, B
<1>5. \A P \in SUBSET Nodes(t) : TotalLength(t, P) = Total(Lengths(t), P)
  BY LengthTotal
<1>6. \A P \in SUBSET Nodes(t) : Total(Lengths(t), P) \in Nat
  <2> TAKE P \in SUBSET Nodes(t)
  <2>1. TotalLength(t, P) \in Nat
    BY LengthNat
  <2>. QED  BY <1>5, <2>1
<1>7. Total(Lengths(t), A \union B) = Total(Lengths(t), A) + Total(Lengths(t), B)
  BY <1>1, <1>3, TotalUnion
<1>. QED  BY <1>1, <1>2, <1>4, <1>5, <1>6, <1>7

\* What the rows hold beyond their handles
OwnLens(L, w, h) == [r \in L |-> Len(OwnOf(w[r], h[r]))]

\* Free, cached or a row's: that makes all of them.
LEMMA Conserved ==
  ASSUME CacheAssumption, CacheInv, PageInv, Sized(tree)
  PROVE  /\ OwnLens(live, row, handle) \in [live -> Int] /\ Len(free) \in Nat
         /\ \E n \in Nat : /\ PageSize * n = tree.evictable + tree.protected
                           /\ Len(free) + n + Total(OwnLens(live, row, handle), live) = NumPages
<1> DEFINE s == [r \in live |-> OwnOf(row[r], handle[r])]
<1>1. /\ PageSize \in Nat \ {0} /\ IsTree(tree, Tokens) /\ IsFiniteSet(live)
      /\ Rows(live, row, handle, cached) /\ PagesHeld(free, tree, live, row, handle)
      /\ free \in Seq(Pages) /\ \A p \in DOMAIN tree.page : tree.page[p] \in Pages
  BY RowsAre
<1>2. s \in [live -> Seq(Pages)] /\ \A r \in live : s[r] = OwnOf(row[r], handle[r])
  BY <1>1, OwnOfIs DEF Rows
<1>3. OwnLens(live, row, handle) = [r \in live |-> Len(s[r])] /\ OwnLens(live, row, handle) \in [live -> Int]
  BY <1>2 DEF OwnLens
<1>4. \A x : [r \in live |-> Count(x, s[r])] = Owned(x, live, row, handle)
  BY <1>2 DEF Owned
<1> HIDE DEF s
<1>5. PICK own \in Seq(Pages) : /\ Len(own) = Total(OwnLens(live, row, handle), live)
                                /\ \A x : Count(x, own) = Total(Owned(x, live, row, handle), live)
  <2>1. IsFiniteSet(live) /\ s \in [live -> Seq(Pages)]
    BY <1>1, <1>2
  <2>2. PICK own \in Seq(Pages) : Gathers(own, s, live)
    BY ONLY <2>1, ListUnion
  <2>3. \A x : Count(x, own) = Total(Owned(x, live, row, handle), live)
    <3> TAKE x
    <3>1. Count(x, own) = Total([r \in live |-> Count(x, s[r])], live)
      BY <2>2 DEF Gathers
    <3>. QED  BY <1>4, <3>1
  <2>4. Len(own) = Total(OwnLens(live, row, handle), live)
    BY <1>3, <2>2 DEF Gathers
  <2>. QED  BY <2>3, <2>4
<1>6. PICK list \in Seq(Pages) : /\ PageSize * Len(list) = TotalLength(tree, Nodes(tree))
                                 /\ \A x : Count(x, list) = Cardinality(Holders(tree, x))
  BY <1>1, PagesDistinct, TreeList
<1> DEFINE all == (free \o list) \o own
<1>7. all \in Seq(Pages) /\ Len(all) = Len(free) + Len(list) + Len(own) /\ free \o list \in Seq(Pages)
      /\ Len(free) \in Nat /\ Len(list) \in Nat
  BY <1>1
<1>8. \A x \in Pages : Count(x, all) = 1
  <2> TAKE x \in Pages
  <2>1. Count(x, all) = Count(x, free \o list) + Count(x, own)
    BY <1>7, CountConcat
  <2>2. Count(x, free \o list) = Count(x, free) + Count(x, list)
    BY <1>1, CountConcat
  <2>3. Spread(x, free, tree, live, row, handle) = 1
    BY <1>1 DEF PagesHeld
  <2> HIDE DEF all
  <2>. QED  BY <1>5, <1>6, <2>1, <2>2, <2>3 DEF Spread
<1> HIDE DEF all
<1>9. IsFiniteSet(Pages) /\ Cardinality(Pages) = NumPages
  <2>1. \A a1, b1 \in Int : IsFiniteSet(a1 .. b1) /\ Cardinality(a1 .. b1) = IF a1 > b1 THEN 0 ELSE b1 - a1 + 1
    BY FS_Interval
  <2>2. NumPages \in Nat \ {0}
    BY DEF CacheAssumption
  <2>. QED  BY <2>1, <2>2 DEF Pages
<1>10. Len(all) = NumPages
  BY <1>7, <1>8, <1>9, CountAll
<1>11. tree.evictable + tree.protected = TotalLength(tree, Nodes(tree))
  BY <1>1, SizesTogether
<1>. QED  BY <1>3, <1>5, <1>6, <1>7, <1>10, <1>11

\* What a process with nothing to run finds when it checks
IdleCheck == Len(free) + (tree.evictable + tree.protected) \div PageSize = NumPages

LEMMA IdleIs ==
  ASSUME CacheAssumption, CacheInv, PageInv, Sized(tree), pc = "loop", Nothing
  PROVE  IdleCheck
<1>1. live = {}
  <2>1. /\ live \subseteq Reqs /\ chunk \subseteq live /\ deferred \subseteq InLast
        /\ chunk \subseteq Queued
    BY DEF CacheInv, LifeInv, Members, Waiting
  <2>2. \A r \in live : Kept(r)
    BY DEF CacheInv, LifeInv, AllKept
  <2>3. Queued = {} /\ InLast = {} /\ running = {}
    BY DEF Nothing, Queued, InLast, NoBatch, Range
  <2>. QED  BY <2>1, <2>2, <2>3 DEF Kept
<1>2. /\ OwnLens(live, row, handle) \in [live -> Int] /\ Len(free) \in Nat
      /\ \E n \in Nat : /\ PageSize * n = tree.evictable + tree.protected
                        /\ Len(free) + n + Total(OwnLens(live, row, handle), live) = NumPages
  BY Conserved
<1>3. Total(OwnLens(live, row, handle), live) = 0
  <2>1. IsFiniteSet(live)
    BY <1>1, FS_EmptySet
  <2>. QED  BY <1>1, <1>2, <2>1, TotalRules
<1>4. PICK n \in Nat : PageSize * n = tree.evictable + tree.protected /\ Len(free) + n = NumPages
  BY <1>2, <1>3
<1>5. (PageSize * n) \div PageSize = n
  BY WholePages DEF CacheAssumption
<1>. QED  BY <1>4, <1>5 DEF IdleCheck

(* The integrity check of a process with nothing left to run passes: whatever was
   admitted, evicted, aborted or finished, every page is free or cached again. *)
THEOREM IdleIntact == Spec => [](pc = "loop" /\ Nothing => IdleCheck)
<1>1. Init => CacheInv /\ PageInv
  BY CacheAssumption, LifeInit, LensInit, HeldInit, PagesInit DEF CacheInv
<1>2. CacheInv /\ PageInv /\ [Next]_vars => (CacheInv /\ PageInv)'
  BY CacheAssumption, InvNext, PagesNext
<1>3. SizesExact => Sized(tree)
  BY DEF Sized, SizesExact
<1>4. CacheInv /\ PageInv /\ Sized(tree) => (pc = "loop" /\ Nothing => IdleCheck)
  BY CacheAssumption, IdleIs
<1>. QED
  BY <1>1, <1>2, <1>3, <1>4, SizesCorrect, PTL DEF Spec

-----------------------------------------------------------------------------
(* How far a request may come                                              *)

\* Only the first of the pending requests may be in chunks.
HeadFirst == \A r \in chunk : pending /= <<>> /\ r = Head(pending)

\* A prompt leaves room for an answer.
Prompted == \A r \in Queued : Len(ids[r]) < limit[r]

\* Before its forward a request of the batch may reach its limit less one token;
\* every other one has computed all but one.
Growing(r) == pc /= "post" /\ r \in InCur
Lagged ==
  \A r \in live : /\ cached[r] < limit[r]
                  /\ IF Growing(r) THEN device[r] < limit[r] ELSE device[r] = cached[r] + 1

AheadInv == HeadFirst /\ Prompted /\ Lagged

LEMMA AheadInit == ASSUME Init PROVE AheadInv
BY DEF Init, AheadInv, HeadFirst, Prompted, Lagged, Queued, Range

LEMMA AheadStay ==
  ASSUME AheadInv, pending' = pending, chunk' = chunk, live' \subseteq live,
         \A r \in Queued : ids'[r] = ids[r] /\ limit'[r] = limit[r],
         \A r \in live' : /\ cached'[r] = cached[r] /\ device'[r] = device[r] /\ limit'[r] = limit[r]
                          /\ Growing(r)' <=> Growing(r)
  PROVE  AheadInv'
<1>1. HeadFirst'
  BY DEF AheadInv, HeadFirst
<1>2. Prompted'
  BY DEF AheadInv, Prompted, Queued
<1>3. Lagged'
  BY DEF AheadInv, Lagged
<1>. QED  BY <1>1, <1>2, <1>3 DEF AheadInv

LEMMA AheadStartTick == ASSUME LifeInv, AheadInv, StartTick PROVE AheadInv'
<1>1. cur' = cur /\ InCur = {} /\ InCur' = {}
  BY NoBatchIs DEF LifeInv, Phases, StartTick, batchVars, InCur
<1>2. \A r : ~Growing(r) /\ ~Growing(r)'
  BY <1>1 DEF Growing
<1>. QED  BY <1>2, AheadStay DEF StartTick, reqVars

LEMMA AheadEndReceive == ASSUME LifeInv, AheadInv, EndReceive PROVE AheadInv'
<1>1. cur' = cur /\ InCur = {} /\ InCur' = {}
  BY NoBatchIs DEF LifeInv, Phases, EndReceive, batchVars, InCur
<1>2. \A r : ~Growing(r) /\ ~Growing(r)'
  BY <1>1 DEF Growing
<1>. QED  BY <1>2, AheadStay DEF EndReceive, reqVars

LEMMA AheadFailedPrepare == ASSUME LifeInv, AheadInv, FailedPrepare PROVE AheadInv'
<1>1. \A r : Growing(r) <=> Growing(r)'
  BY DEF Growing, FailedPrepare, batchVars, InCur
<1>. QED  BY <1>1, AheadStay DEF FailedPrepare, reqVars

LEMMA AheadHandleUser ==
  ASSUME CacheAssumption, LifeInv, AheadInv, NEW r \in Reqs, HandleUser(r) PROVE AheadInv'
<1>1. /\ pc \in {"wait", "recv"} /\ pc' = "recv" /\ r \notin arrived /\ pending' = Append(pending, r)
      /\ UNCHANGED <<chunk, live, cached, device, cur>>
      /\ \E p \in Prompts, m \in OutLens : /\ ids' = [ids EXCEPT ![r] = p]
                                           /\ limit' = [limit EXCEPT ![r] = Len(p) + m]
  BY DEF HandleUser, Receiving, batchVars
<1>2. /\ pending \in Seq(Reqs) /\ ids \in [Reqs -> Seq(Tokens)] /\ limit \in [Reqs -> Nat]
      /\ live \subseteq arrived /\ Queued \subseteq arrived /\ arrived \subseteq Reqs
      /\ InCur = {} /\ InCur' = {}
  BY <1>1, NoBatchIs DEF LifeInv, Lists, Fields, Members, Phases, InCur
<1>3. Queued' = Queued \union {r}
  <2>1. IsInjective(pending) /\ r \notin Range(pending)
    BY <1>1, <1>2 DEF LifeInv, Lists, Queued
  <2>. QED  BY <1>1, <1>2, <2>1, AppendOnce DEF Queued
<1>4. \A q \in Reqs \ {r} : ids'[q] = ids[q] /\ limit'[q] = limit[q]
  BY <1>1, <1>2
<1>5. Len(ids'[r]) < limit'[r]
  <2>1. PICK p \in Prompts, m \in OutLens : ids' = [ids EXCEPT ![r] = p] /\ limit' = [limit EXCEPT ![r] = Len(p) + m]
    BY <1>1
  <2>2. Len(p) \in Nat /\ m \in Nat \ {0}
    BY DEF CacheAssumption
  <2>. QED  BY <1>2, <2>1, <2>2
<1>6. HeadFirst'
  <2>1. pending /= <<>> => Head(Append(pending, r)) = Head(pending) /\ Append(pending, r) /= <<>>
    BY <1>2, SMTT(30)
  <2>. QED  BY <1>1, <2>1 DEF AheadInv, HeadFirst
<1>7. Prompted'
  BY <1>2, <1>3, <1>4, <1>5 DEF AheadInv, Prompted
<1>8. Lagged'
  BY <1>1, <1>2, <1>4 DEF AheadInv, Lagged, Growing
<1>. QED  BY <1>6, <1>7, <1>8 DEF AheadInv

\* A release leaves the fields of the others as they are.
LEMMA AheadRelease ==
  ASSUME LifeInv, AheadInv, NEW r \in Reqs, r \notin Queued, NEW text \in Seq(Tokens),
         Release(r, text), budget' = budget, pending' = pending, chunk' = chunk, pc' = pc, cur' = cur
  PROVE  AheadInv'
<1>1. live' = live \ {r} /\ Others({r})
  BY ReleaseIs
<1>2. Queued \subseteq Reqs /\ live \subseteq Reqs
  BY DEF LifeInv, Members
<1>3. \A q : Growing(q)' <=> Growing(q)
  BY DEF Growing, InCur
<1>. QED  BY <1>1, <1>2, <1>3, AheadStay DEF Others

\* An abort is put off, or frees what a request holds, or meets one that holds nothing.
Deferred(r) == deferred' = deferred \union {r} /\ UNCHANGED <<tree, free, live, ids, limit, cached, device, row, handle>>
Freed(r) == r \in live /\ Release(r, ids[r]) /\ Lag(r) <= 1 + (Len(ids[r]) - Len(ids[r])) /\ deferred' = deferred
Forgot(r) == r \notin live /\ Others({r}) /\ UNCHANGED <<tree, free, live, deferred>>

LEMMA AbortCases ==
  ASSUME CacheInv, NEW r \in Reqs, HandleAbort(r)
  PROVE  /\ pc \in {"wait", "recv"} /\ pc' = "recv" /\ cur' = cur /\ budget' = budget /\ InCur = {} /\ InCur' = {}
         /\ chunk' = chunk \ {r} /\ RemovePending(r)
         /\ Deferred(r) \/ Freed(r) \/ Forgot(r)
<1>0. LifeInv /\ LensInv
  BY DEF CacheInv
<1>1. /\ pc \in {"wait", "recv"} /\ pc' = "recv" /\ cur' = cur /\ UNCHANGED <<budget, last>>
      /\ chunk' = chunk \ {r} /\ RemovePending(r)
  BY DEF HandleAbort, Receiving, adder, InLast
<1>2. cur = NoBatch /\ InCur = {} /\ InCur' = {}
  BY <1>0, <1>1, NoBatchIs DEF LifeInv, Phases, InCur
<1>3. CASE r \in InLast
  BY <1>1, <1>2, <1>3 DEF HandleAbort, Fence, InLast, cacheVars, reqVars, Deferred
<1>4. CASE r \notin InLast /\ r \in chunk \union running
  <2>1. Release(r, ids[r]) /\ r \in live /\ deferred' = deferred
    BY <1>0, <1>4 DEF HandleAbort, Fence, InLast, LifeInv, Members
  <2>2. Lag(r) <= 1 + (Len(ids[r]) - Len(ids[r]))
    BY <1>0, <1>1, <1>4, <2>1, AbortText
  <2>. QED  BY <1>1, <1>2, <2>1, <2>2 DEF Freed
<1>5. CASE r \notin InLast /\ r \notin chunk \union running
  <2>1. Forget({r}) /\ UNCHANGED <<tree, free, live, deferred>>
    BY <1>5 DEF HandleAbort, Fence, InLast, cacheVars
  <2>2. r \notin live
    BY <1>0, <1>1, <1>2, <1>5 DEF LifeInv, AllKept, Kept, Waiting
  <2>3. Others({r})
    BY <1>0, <1>1, <2>1, ForgetIs
  <2>. QED  BY <1>1, <1>2, <2>1, <2>2, <2>3 DEF Forgot
<1>. QED  BY <1>3, <1>4, <1>5

LEMMA AheadHandleAbort == ASSUME CacheInv, AheadInv, NEW r \in Reqs, HandleAbort(r) PROVE AheadInv'
<1>0. LifeInv
  BY DEF CacheInv
<1>1. /\ pc' = "recv" /\ cur' = cur /\ budget' = budget /\ InCur = {} /\ InCur' = {}
      /\ chunk' = chunk \ {r} /\ RemovePending(r)
      /\ Deferred(r) \/ Freed(r) \/ Forgot(r)
  BY AbortCases
<1>2. /\ pending \in Seq(Reqs) /\ IsInjective(pending) /\ ids \in [Reqs -> Seq(Tokens)]
      /\ live \subseteq Reqs /\ Queued \subseteq Reqs /\ chunk \subseteq live
  BY <1>0 DEF LifeInv, Lists, Fields, Members
<1>3. \/ live' = live /\ UNCHANGED <<ids, limit, cached, device>>
      \/ live' \subseteq live /\ r \notin live' /\ Others({r})
  BY <1>0, <1>1, <1>2, ReleaseIs DEF Deferred, Freed, Forgot
<1>4. \/ UNCHANGED pending /\ r \notin Queued
      \/ \E i \in DOMAIN pending : pending[i] = r /\ pending' = RemoveAt(pending, i)
  BY <1>1 DEF RemovePending, Queued
<1>5. Queued' = Queued \ {r}
  BY <1>2, <1>4, RemoveAtOnce DEF Queued
<1>6. Prompted'
  <2>1. \A q \in Queued \ {r} : ids'[q] = ids[q] /\ limit'[q] = limit[q]
    BY <1>2, <1>3 DEF Others
  <2>. QED  BY <1>5, <2>1 DEF AheadInv, Prompted
<1>7. Lagged'
  <2>1. \A q \in live' : q \in live /\ cached'[q] = cached[q] /\ limit'[q] = limit[q] /\ device'[q] = device[q]
    BY <1>2, <1>3 DEF Others
  <2>2. \A q : ~Growing(q) /\ ~Growing(q)'
    BY <1>1 DEF Growing
  <2>. QED  BY <2>1, <2>2 DEF AheadInv, Lagged
<1>8. HeadFirst'
  <2> SUFFICES ASSUME NEW q \in chunk \ {r} PROVE pending' /= <<>> /\ q = Head(pending')
    BY <1>1 DEF HeadFirst
  <2>1. pending /= <<>> /\ q = Head(pending) /\ q /= r /\ q = pending[1]
    BY <1>2 DEF AheadInv, HeadFirst
  <2>2. ASSUME NEW i \in DOMAIN pending, pending[i] = r, pending' = RemoveAt(pending, i)
        PROVE  pending' /= <<>> /\ q = Head(pending')
    <3>1. i \in 1 .. Len(pending) /\ i > 1 /\ Len(pending) \in Nat
      BY <1>2, <2>1, <2>2
    <3>2. /\ RemoveAt(pending, i) \in Seq(Reqs) /\ Len(RemoveAt(pending, i)) = Len(pending) - 1
          /\ \A j \in 1 .. Len(pending) - 1 : RemoveAt(pending, i)[j] = IF j < i THEN pending[j] ELSE pending[j + 1]
      BY <1>2, RemoveAtProperties
    <3>3. RemoveAt(pending, i)[1] = pending[1]
      BY <3>1, <3>2
    <3> DEFINE s == RemoveAt(pending, i)
    <3> HIDE DEF s
    <3>4. s /= <<>> /\ Head(s) = s[1]
      BY <3>1, <3>2 DEF s
    <3>. QED  BY <2>1, <2>2, <3>3, <3>4 DEF s
  <2>. QED  BY <1>4, <2>1, <2>2
<1>. QED  BY <1>6, <1>7, <1>8 DEF AheadInv

\* A request that joins the batch
LEMMA AheadAdded ==
  ASSUME LifeInv, AheadInv, pc = "admit", pc' = pc, pending /= <<>>, NEW r \in Reqs, r = First,
         NEW from \in Nat, NEW size \in Nat \ {0},
         NEW part \in BOOLEAN, Added(r, from, size, part), live' = live \union {r},
         from + size <= Len(ids[r]), UNCHANGED <<ids, limit>>
  PROVE  AheadInv'
<1>1. /\ pending \in Seq(Reqs) /\ IsInjective(pending) /\ ids \in [Reqs -> Seq(Tokens)]
      /\ limit \in [Reqs -> Nat] /\ cached \in [Reqs -> Nat] /\ device \in [Reqs -> Nat]
      /\ live \subseteq Reqs /\ Queued \subseteq Reqs /\ cur.reqs \in Seq(Reqs)
  BY DEF LifeInv, Lists, Fields, Members, IsBatch
<1>2. /\ cached' = [cached EXCEPT ![r] = from] /\ device' = [device EXCEPT ![r] = from + size]
      /\ cur'.reqs = Append(cur.reqs, r)
      /\ chunk' = IF part THEN chunk \union {r} ELSE chunk \ {r}
      /\ pending' = IF part THEN pending ELSE Tail(pending)
  BY DEF Added
<1>3. Queued' \subseteq Queued /\ r \in Queued
  BY <1>1, <1>2, TailOnce DEF Queued, First
<1>4. InCur' = InCur \union {r}
  <2> DEFINE s == cur.reqs
             e == Append(s, r)
  <2>1. s \in Seq(Reqs) /\ Len(s) \in Nat /\ DOMAIN s = 1 .. Len(s) /\ DOMAIN e = 1 .. Len(s) + 1
        /\ e[Len(s) + 1] = r /\ \A i \in 1 .. Len(s) : e[i] = s[i]
    <3>1. s \in Seq(Reqs) /\ Len(s) \in Nat /\ DOMAIN s = 1 .. Len(s)
      BY <1>1, LenProperties
    <3> HIDE DEF s
    <3>2. Len(e) = Len(s) + 1 /\ e \in Seq(Reqs)
      BY <3>1, AppendProperties
    <3>3. e[Len(s) + 1] = r /\ \A i \in 1 .. Len(s) : e[i] = s[i]
      BY <3>1, AppendProperties
    <3> HIDE DEF e
    <3>4. DOMAIN e = 1 .. Len(s) + 1
      BY <3>1, <3>2, LenProperties
    <3>. QED  BY <3>1, <3>3, <3>4
  <2>2. cur'.reqs = e
    BY <1>2
  <2> HIDE DEF s, e
  <2>3. \A i \in 1 .. Len(s) + 1 : i \in 1 .. Len(s) \/ i = Len(s) + 1
    BY <2>1
  <2>4. \A i \in 1 .. Len(s) : i \in 1 .. Len(s) + 1
    BY <2>1
  <2>5. Len(s) + 1 \in 1 .. Len(s) + 1
    BY <2>1
  <2>6. Range(e) = Range(s) \union {r}
    BY <2>1, <2>3, <2>4, <2>5 DEF Range
  <2>. QED  BY <2>2, <2>6 DEF InCur, s
<1>5. HeadFirst'
  BY <1>2 DEF AheadInv, HeadFirst, First
<1>6. Prompted'
  BY <1>3 DEF AheadInv, Prompted
<1>7. from < limit[r] /\ from + size < limit[r]
  BY <1>1, <1>3, SMTT(30) DEF AheadInv, Prompted
<1>8. Lagged'
  <2>1. \A q \in live' : q = r \/ (q \in live /\ q /= r)
    OBVIOUS
  <2>2. \A q \in live : q /= r => cached'[q] = cached[q] /\ device'[q] = device[q] /\ (Growing(q)' <=> Growing(q))
    BY <1>1, <1>2, <1>4 DEF Growing
  <2>3. cached'[r] = from /\ device'[r] = from + size /\ Growing(r)'
    BY <1>1, <1>2, <1>4 DEF Growing
  <2>4. \A q \in live : q /= r => /\ cached[q] < limit[q]
                                  /\ IF Growing(q) THEN device[q] < limit[q] ELSE device[q] = cached[q] + 1
    BY DEF AheadInv, Lagged
  <2>. QED  BY <1>7, <2>1, <2>2, <2>3, <2>4 DEF Lagged
<1>. QED  BY <1>5, <1>6, <1>8 DEF AheadInv

LEMMA AheadContinue == ASSUME CacheInv, AheadInv, Continue PROVE AheadInv'
<1>1. PICK size \in 1 .. budget, part \in BOOLEAN :
        /\ Added(First, cached[First], size, part) /\ First \in chunk /\ First \in Reqs
        /\ cached[First] + size <= Len(ids[First])
  BY ContinueIs
<1>2. /\ pc = "admit" /\ pc' = pc /\ pending /= <<>> /\ UNCHANGED <<ids, limit, live>> /\ LifeInv
      /\ budget \in Nat /\ cached[First] \in Nat /\ First \in live
  BY <1>1 DEF Continue, CacheInv, LifeInv, Fields, Members
<1>3. live' = live \union {First} /\ size \in Nat \ {0}
  BY <1>1, <1>2
<1>4. \A r \in Reqs : \A from \in Nat :
        r = First /\ Added(r, from, size, part) /\ live' = live \union {r} /\ from + size <= Len(ids[r]) => AheadInv'
  BY <1>2, <1>3, AheadAdded
<1>. QED  BY <1>1, <1>2, <1>3, <1>4

LEMMA AheadAdmit == ASSUME CacheAssumption, CacheInv, AheadInv, Admit PROVE AheadInv'
<1>1. PICK size \in 1 .. budget, part \in BOOLEAN :
        /\ Added(First, Len(MatchReq(First)), size, part) /\ First \in Reqs /\ First \in Queued
        /\ live' = live \union {First} /\ Len(MatchReq(First)) + size <= Len(ids[First])
  BY AdmitIs
<1>2. /\ pc = "admit" /\ pc' = pc /\ pending /= <<>> /\ UNCHANGED <<ids, limit>> /\ LifeInv /\ budget \in Nat
      /\ IsTree(tree, Tokens) /\ ids[First] /= <<>>
  BY <1>1 DEF Admit, MayTry, CacheInv, LifeInv, Fields, HeldInv, LensInv
<1>3. Len(MatchReq(First)) \in Nat /\ size \in Nat \ {0}
  BY <1>1, <1>2, MatchIs
<1>4. \A r \in Reqs : \A from \in Nat :
        r = First /\ Added(r, from, size, part) /\ live' = live \union {r} /\ from + size <= Len(ids[r]) => AheadInv'
  BY <1>2, <1>3, AheadAdded
<1>. QED  BY <1>1, <1>3, <1>4

LEMMA AheadCloseBatch == ASSUME CacheAssumption, CacheInv, AheadInv, CloseBatch PROVE AheadInv'
<1>1. /\ pc = "admit" /\ pc' = "forward"
      /\ UNCHANGED <<pending, chunk, live, ids, limit, cached, device>>
      /\ \/ cur' = cur
         \/ cur.reqs = <<>> /\ \E order \in SetToSeqs(running) : cur' = [cur EXCEPT !.reqs = order]
  BY DEF CloseBatch, reqVars
<1>2. /\ IsFiniteSet(running) /\ running \subseteq live /\ DOMAIN cur = {"reqs", "prefill", "partial", "token"}
      /\ \A r \in running : device[r] < limit[r]
  <2>1. LifeInv /\ IsFiniteSet(Reqs) /\ running \subseteq live /\ live \subseteq Reqs
    BY DEF CacheInv, LifeInv, Members, CacheAssumption
  <2>. QED  BY <2>1, FS_Subset DEF LifeInv, Lists, IsBatch, AllKept
<1>3. HeadFirst' /\ Prompted'
  BY <1>1 DEF AheadInv, HeadFirst, Prompted, Queued
<1>4. ASSUME NEW r \in live PROVE cached'[r] < limit'[r] /\ IF Growing(r)' THEN device'[r] < limit'[r] ELSE device'[r] = cached'[r] + 1
  <2>1. cached[r] < limit[r] /\ IF Growing(r) THEN device[r] < limit[r] ELSE device[r] = cached[r] + 1
    BY <1>4 DEF AheadInv, Lagged
  <2>2. CASE cur' = cur
    BY <1>1, <2>1, <2>2 DEF Growing, InCur
  <2>3. CASE cur.reqs = <<>> /\ \E order \in SetToSeqs(running) : cur' = [cur EXCEPT !.reqs = order]
    <3>1. InCur' = running
      <4>1. PICK order \in SetToSeqs(running) : cur' = [cur EXCEPT !.reqs = order]
        BY <2>3
      <4>2. Range(order) = running
        BY <1>2, OrderOnce
      <4>3. cur'.reqs = order
        BY <1>2, <4>1
      <4>. QED  BY <4>2, <4>3 DEF InCur
    <3>2. ~Growing(r)
      BY <2>3 DEF Growing, InCur, Range
    <3>3. Growing(r)' <=> r \in running
      BY <1>1, <3>1 DEF Growing
    <3>. QED  BY <1>1, <1>2, <2>1, <3>2, <3>3
  <2>. QED  BY <1>1, <2>2, <2>3
<1>5. Lagged'
  BY <1>1, <1>4 DEF Lagged
<1>. QED  BY <1>3, <1>5 DEF AheadInv

LEMMA AheadForward == ASSUME LifeInv, AheadInv, Forward PROVE AheadInv'
<1>1. /\ pc = "forward" /\ UNCHANGED <<pending, chunk, live, ids, limit>>
      /\ \/ pc' = "crashed" /\ UNCHANGED <<cached, device, cur>>
         \/ Launches
  BY ForwardIs
<1>2. CASE pc' = "crashed" /\ UNCHANGED <<cached, device, cur>>
  <2>1. \A r : Growing(r)' <=> Growing(r)
    BY <1>1, <1>2 DEF Growing, InCur
  <2>. QED  BY <1>1, <1>2, <2>1, AheadStay
<1>3. CASE Launches
  <2>1. /\ pc' = "post" /\ cached' = [r \in Reqs |-> IF r \in InCur THEN device[r] ELSE cached[r]]
        /\ device' = [r \in Reqs |-> IF r \in InCur THEN device[r] + 1 ELSE device[r]] /\ live \subseteq Reqs
    BY <1>3 DEF Launches, LifeInv, Members
  <2>2. HeadFirst' /\ Prompted'
    BY <1>1 DEF AheadInv, HeadFirst, Prompted, Queued
  <2>3. Lagged'
    BY <1>1, <2>1 DEF AheadInv, Lagged, Growing
  <2>. QED  BY <2>2, <2>3 DEF AheadInv
<1>. QED  BY <1>1, <1>2, <1>3

LEMMA AheadPostProcess == ASSUME CacheInv, AheadInv, PostProcess PROVE AheadInv'
<1> DEFINE r == Head(todo)
           text == Append(ids[r], Data.token[r])
<1>0. LifeInv /\ LensInv
  BY DEF CacheInv
<1>1. /\ pc = "post" /\ pc' = pc /\ UNCHANGED <<pending, chunk, budget, cur>> /\ r \in Reqs /\ r \in InTodo
      /\ \/ r \in Skipped /\ Skips
         \/ r \notin Skipped /\ (Stops(r, text) \/ GoesOn(r, text))
  BY <1>0, PostProcessIs
<1>2. r \notin Skipped => r \notin Queued /\ text \in Seq(Tokens)
  <2>1. r \notin Skipped => r \notin Queued /\ r \notin Data.partial
    BY <1>0, <1>1, Processed DEF Skipped
  <2>. QED  BY <1>0, <1>1, <2>1, DataToken
<1>3. \A q : Growing(q)' <=> Growing(q)
  BY <1>1 DEF Growing, InCur
<1>4. ids \in [Reqs -> Seq(Tokens)] /\ Queued \subseteq Reqs
  BY <1>0 DEF LifeInv, Fields, Members
<1> HIDE DEF r, text
<1>5. CASE r \in Skipped /\ Skips
  BY <1>1, <1>3, <1>5, AheadStay DEF Skips
<1>6. CASE r \notin Skipped /\ Stops(r, text)
  <2>1. Release(r, text) /\ r \notin Queued /\ text \in Seq(Tokens)
    BY <1>2, <1>6 DEF Stops
  <2>. QED  BY <1>0, <1>1, <2>1, AheadRelease
<1>7. CASE r \notin Skipped /\ GoesOn(r, text)
  <2>1. UNCHANGED <<live, limit, cached, device>> /\ \A q \in Queued : ids'[q] = ids[q]
    BY <1>2, <1>4, <1>7 DEF GoesOn
  <2>. QED  BY <1>1, <1>3, <2>1, AheadStay
<1>. QED  BY <1>1, <1>5, <1>6, <1>7

LEMMA AheadFreeDeferred == ASSUME CacheInv, AheadInv, FreeDeferred PROVE AheadInv'
<1>0. LifeInv
  BY DEF CacheInv
<1>1. /\ pc' = pc /\ UNCHANGED <<pending, chunk, budget, cur>>
      /\ \E r \in deferred : Release(r, ids[r])
  BY <1>0, FreeDeferredIs
<1>2. PICK r \in deferred : Release(r, ids[r])
  BY <1>1
<1>3. r \in Reqs /\ r \notin Queued /\ ids[r] \in Seq(Tokens)
  BY <1>0 DEF LifeInv, Waiting, Members, Fields
<1>. QED  BY <1>0, <1>1, <1>2, <1>3, AheadRelease

LEMMA AheadEndTick == ASSUME LifeInv, AheadInv, EndTick PROVE AheadInv'
<1>1. /\ pc = "post" /\ pc' = "loop" /\ cur' = NoBatch /\ UNCHANGED <<pending, chunk, live, budget>> /\ Forget(finished)
  BY DEF EndTick, adder
<1>2. Others(finished)
  BY <1>1, ForgetIs
<1>3. finished \intersect live = {} /\ finished \intersect Queued = {} /\ live \subseteq Reqs /\ Queued \subseteq Reqs
  BY DEF LifeInv, Phases, Members
<1>4. \A r : ~Growing(r) /\ ~Growing(r)'
  BY <1>1, NoBatchIs DEF Growing, InCur
<1>. QED  BY <1>1, <1>2, <1>3, <1>4, AheadStay DEF Others

LEMMA AheadNext == ASSUME CacheAssumption, CacheInv, AheadInv, [Next]_vars PROVE AheadInv'
<1>0. LifeInv
  BY DEF CacheInv
<1>1. CASE UNCHANGED vars
  <2>1. UNCHANGED <<pc, pending, chunk, live, ids, limit, cached, device, cur>>
    BY <1>1 DEF vars, reqVars, batchVars
  <2>. QED  BY <2>1, AheadStay DEF Growing, InCur
<1>2. CASE Step
  BY <1>0, <1>2, AheadStartTick, AheadEndReceive, AheadContinue, AheadAdmit, AheadCloseBatch, AheadForward,
     AheadFailedPrepare, AheadPostProcess, AheadFreeDeferred, AheadEndTick DEF Step
<1>3. ASSUME NEW r \in Reqs, HandleUser(r) \/ HandleAbort(r) PROVE AheadInv'
  BY <1>0, <1>3, AheadHandleUser, AheadHandleAbort
<1>. QED  BY <1>1, <1>2, <1>3 DEF Next, Idle

-----------------------------------------------------------------------------
(* Room.  What has been promised to those who hold something fits the pages. *)

\* How many tokens a request may come to cache
Bound(r) == IF r \in deferred THEN cached[r] ELSE limit[r] - 1

\* What it may come to hold beyond its handle, and what it may still draw
Promised == [r \in live |-> Bound(r) - Len(handle[r])]
ToCome   == [r \in live |-> Bound(r) - cached[r]]

Room == tree.protected + Total(Promised, live) <= NumPages

\* Those that reserved_size counts: not a chunk whose turn has not come
CountedIn == {r \in live : r \in InCur \/ r \notin chunk}
Reserved == pc = "admit" => reserved \in Int /\ Total(ToCome, CountedIn) <= reserved

RoomInv == Room /\ Reserved

\* A part of the owners with no more each has no more.
LEMMA TotalShrinks ==
  ASSUME NEW S, IsFiniteSet(S), NEW T \in SUBSET S, NEW e \in [T -> Int], NEW f \in [S -> Int],
         \A x \in T : e[x] <= f[x], \A x \in S \ T : 0 <= f[x]
  PROVE  Total(e, T) <= Total(f, S) /\ Total(e, T) \in Int /\ Total(f, S) \in Int
<1> DEFINE g == [x \in S |-> IF x \in T THEN e[x] ELSE 0]
<1>1. /\ g \in [S -> Int] /\ \A x \in T : g[x] = e[x]
      /\ \A x \in S \ T : g[x] = 0
      /\ \A x \in S : g[x] <= f[x]
  OBVIOUS
<1> HIDE DEF g
<1>2. Total(g, S) = Total(e, T)
  <2>1. IsFiniteSet(T)
    BY FS_Subset
  <2>2. Total(g, S) = Total(g, T)
    BY <1>1, TotalPart
  <2>3. T \in SUBSET T
    OBVIOUS
  <2>. QED  BY <1>1, <2>1, <2>2, <2>3, TotalAgree
<1>3. Total(g, S) <= Total(f, S)
  BY <1>1, TotalMono
<1>4. Total(g, S) \in Int /\ Total(f, S) \in Int
  BY <1>1, TotalRules
<1>. QED  BY <1>2, <1>3, <1>4

LEMMA RoomFacts ==
  ASSUME CacheAssumption, CacheInv, PageInv, Sized(tree), AheadInv
  PROVE  /\ IsFiniteSet(live) /\ live \subseteq Reqs /\ tree.evictable \in Nat /\ tree.protected \in Nat
         /\ IsTree(tree, Tokens)
         /\ Promised \in [live -> Int] /\ ToCome \in [live -> Int]
         /\ \A r \in live : /\ Len(handle[r]) \in Nat /\ cached[r] \in Nat /\ limit[r] \in Nat /\ device[r] \in Nat
                            /\ Len(handle[r]) <= cached[r] /\ cached[r] <= Bound(r) /\ Bound(r) \in Nat
                            /\ Promised[r] = Bound(r) - Len(handle[r]) /\ Promised[r] \in Nat
                            /\ ToCome[r] = Bound(r) - cached[r] /\ ToCome[r] \in Nat
<1>1. /\ IsFiniteSet(live) /\ live \subseteq Reqs /\ IsTree(tree, Tokens)
      /\ \A q \in live : RowOf(row[q], handle[q], cached[q]) /\ cached[q] \in Nat
  BY RowsAre
<1>2. limit \in [Reqs -> Nat] /\ device \in [Reqs -> Nat]
  BY DEF CacheInv, LifeInv, Fields
<1>3. \A r \in live : /\ Len(handle[r]) \in Nat /\ cached[r] \in Nat /\ limit[r] \in Nat /\ device[r] \in Nat
                      /\ Len(handle[r]) <= cached[r] /\ cached[r] < limit[r]
  BY <1>1, <1>2 DEF RowOf, AheadInv, Lagged
<1>4. \A r \in live : cached[r] <= Bound(r) /\ Bound(r) \in Nat
  BY <1>3 DEF Bound
<1>5. tree.evictable \in Nat /\ tree.protected \in Nat
  BY <1>1, SizesTogether
<1>6. \A r \in live : /\ Promised[r] = Bound(r) - Len(handle[r]) /\ Promised[r] \in Nat
                      /\ ToCome[r] = Bound(r) - cached[r] /\ ToCome[r] \in Nat
  BY <1>3, <1>4 DEF Promised, ToCome
<1>7. Promised \in [live -> Int] /\ ToCome \in [live -> Int]
  BY <1>6 DEF Promised, ToCome
<1>. QED  BY <1>1, <1>3, <1>4, <1>5, <1>6, <1>7

\* What may still be drawn is free or can be evicted.
LEMMA RoomLeft ==
  ASSUME CacheAssumption, PageSize = 1, CacheInv, PageInv, Sized(tree), AheadInv
  PROVE  /\ Total(ToCome, live) \in Int /\ Total(Promised, live) \in Int /\ Len(free) \in Nat
         /\ tree.protected + Total(Promised, live) = NumPages - Len(free) - tree.evictable + Total(ToCome, live)
<1> DEFINE own == OwnLens(live, row, handle)
<1>1. /\ IsFiniteSet(live) /\ tree.evictable \in Nat /\ tree.protected \in Nat
      /\ Promised \in [live -> Int] /\ ToCome \in [live -> Int]
      /\ \A r \in live : /\ Len(handle[r]) \in Nat /\ cached[r] \in Nat /\ Bound(r) \in Nat
                         /\ Promised[r] = Bound(r) - Len(handle[r]) /\ ToCome[r] = Bound(r) - cached[r]
  BY RoomFacts
<1>2. own \in [live -> Int] /\ Len(free) \in Nat
  BY Conserved
<1>3. ASSUME NEW r \in live PROVE own[r] = cached[r] - Len(handle[r])
  <2>1. row[r] \in Seq(Pages) /\ Len(row[r]) = PageCount(cached[r]) /\ Len(handle[r]) <= cached[r] /\ cached[r] \in Nat
    BY RowsAre DEF RowOf
  <2>2. PageCount(cached[r]) = cached[r] /\ Len(handle[r]) \div PageSize = Len(handle[r])
    <3>1. \A x \in Nat : x \div 1 = x /\ (x + 1 - 1) \div 1 = x
      OBVIOUS
    <3>. QED  BY <1>1, <2>1, <3>1 DEF PageCount
  <2>3. own[r] = Len(SubSeq(row[r], Len(handle[r]) + 1, cached[r]))
    BY <2>1, <2>2 DEF OwnLens, OwnOf
  <2>. QED  BY <1>1, <2>1, <2>2, <2>3
<1>4. PICK n \in Nat : PageSize * n = tree.evictable + tree.protected /\ Len(free) + n + Total(own, live) = NumPages
  BY Conserved
<1> HIDE DEF own
<1>5. \A r \in live : Promised[r] = ToCome[r] + own[r]
  <2> TAKE r \in live
  <2> DEFINE a == Len(handle[r])
             b == Bound(r)
             c == cached[r]
  <2>1. a \in Nat /\ b \in Nat /\ c \in Nat /\ Promised[r] = b - a /\ ToCome[r] = b - c /\ own[r] = c - a
    BY <1>1, <1>3
  <2> HIDE DEF a, b, c
  <2>. QED  BY <2>1
<1>6. Total(Promised, live) = Total(ToCome, live) + Total(own, live)
  <2> DEFINE L == live
             p == Promised
             c == ToCome
  <2>1. IsFiniteSet(L) /\ p \in [L -> Int] /\ c \in [L -> Int] /\ own \in [L -> Int]
        /\ \A r \in L : p[r] = c[r] + own[r]
    BY <1>1, <1>2, <1>5
  <2> HIDE DEF L, p, c
  <2>2. Total(p, L) = Total(c, L) + Total(own, L)
    BY ONLY <2>1, TotalPlus
  <2>. QED  BY <2>2 DEF L, p, c
<1>7. Total(ToCome, live) \in Int /\ Total(Promised, live) \in Int /\ Total(own, live) \in Int
  BY <1>1, <1>2, TotalRules
<1>8. NumPages \in Nat /\ n = tree.evictable + tree.protected
  <2>1. \A x \in Nat : 1 * x = x
    OBVIOUS
  <2>2. PageSize * n = n
    BY <2>1
  <2>. QED  BY <1>4, <2>2 DEF CacheAssumption
<1> DEFINE a == Total(ToCome, live)
           b == Total(Promised, live)
           o == Total(own, live)
           x == tree.protected
           y == tree.evictable
           z == Len(free)
<1>9. /\ a \in Int /\ b \in Int /\ o \in Int /\ x \in Nat /\ y \in Nat /\ z \in Nat /\ NumPages \in Nat
      /\ b = a + o /\ n = y + x /\ z + n + o = NumPages
  BY <1>1, <1>2, <1>4, <1>6, <1>7, <1>8
<1> HIDE DEF a, b, o, x, y, z
<1>10. x + b = NumPages - z - y + a
  BY <1>9
<1>. QED  BY <1>9, <1>10 DEF a, b, o, x, y, z

\* Insertion locks nothing, and unlocking only takes from what is protected.
LEMMA InsertProtected ==
  ASSUME PageSize \in Nat \ {0}, NEW S, NEW t, IsTree(t, S), NEW text \in Seq(S), NEW pages
  PROVE  InsertPrefix(t, text, pages).tree.protected = t.protected
<1> DEFINE key == SubSeq(text, 1, AlignDown(Len(text)))
           known == Matched(t, key)
<1>1. AlignDown(Len(text)) \in 0 .. Len(text) /\ AlignDown(Len(text)) % PageSize = 0
  BY AlignIs
<1>2. key \in Seq(S) /\ Aligned(key)
  BY <1>1, PrefixCut DEF Aligned
<1>3. known = Root \/ known \in DOMAIN t.page
  BY <1>2, MatchedIs
<1>4. InsertPrefix(t, text, pages).tree = IF known = key THEN Split(t, known) ELSE Inserted(t, key, pages)
  BY DEF InsertPrefix
<1> HIDE DEF key, known
<1>5. CASE known = key
  BY <1>3, <1>4, <1>5, SplitIs
<1>6. CASE known /= key
  <2>1. Inserted(t, key, pages).protected = t.protected
    BY <1>2, <1>6, InsertedIs DEF known
  <2>. QED  BY <1>4, <1>6, <2>1
<1>. QED  BY <1>5, <1>6

LEMMA UnlockShrinks ==
  ASSUME NEW S, NEW t, IsTree(t, S), NEW path, t.protected \in Int
  PROVE  Unlock(t, path).protected \in Int /\ Unlock(t, path).protected <= t.protected
<1> DEFINE P == {n \in Upward(t, path) : t.ref[n] = 1}
<1>1. Unlock(t, path).protected = t.protected - TotalLength(t, P)
  BY LockSizes
<1>2. TotalLength(t, P) \in Nat
  <2>1. P \in SUBSET Nodes(t)
    BY DEF Upward
  <2> HIDE DEF P
  <2>. QED  BY <2>1, LengthNat
<1>. QED  BY <1>1, <1>2

\* As long as nobody is promised more and nothing more is locked, room stays.
LEMMA RoomStays ==
  ASSUME CacheAssumption, CacheInv, PageInv, Sized(tree), AheadInv, Room,
         live' \subseteq live, tree'.protected \in Int, tree'.protected <= tree.protected,
         \A q \in live' : handle'[q] = handle[q] /\ Bound(q)' \in Int /\ Bound(q)' <= Bound(q)
  PROVE  Room'
<1>1. /\ IsFiniteSet(live) /\ tree.protected \in Nat /\ Promised \in [live -> Int]
      /\ \A r \in live : /\ Len(handle[r]) \in Nat /\ Bound(r) \in Nat
                         /\ Promised[r] = Bound(r) - Len(handle[r]) /\ Promised[r] \in Nat
  BY RoomFacts
<1>2. Promised' = [r \in live' |-> Bound(r)' - Len(handle'[r])]
  BY DEF Promised
<1>3. /\ live' \in SUBSET live /\ Promised' \in [live' -> Int]
      /\ \A q \in live' : Promised'[q] <= Promised[q]
      /\ \A q \in live \ live' : 0 <= Promised[q]
  BY <1>1, <1>2
<1>4. Total(Promised', live') <= Total(Promised, live) /\ Total(Promised', live') \in Int /\ Total(Promised, live) \in Int
  <2> DEFINE L == live
             M == live'
             f == Promised
             e == Promised'
  <2>1. /\ IsFiniteSet(L) /\ M \in SUBSET L /\ e \in [M -> Int] /\ f \in [L -> Int]
        /\ \A x \in M : e[x] <= f[x]
        /\ \A x \in L \ M : 0 <= f[x]
    BY <1>1, <1>3
  <2> HIDE DEF L, M, f, e
  <2>2. Total(e, M) <= Total(f, L) /\ Total(e, M) \in Int /\ Total(f, L) \in Int
    BY ONLY <2>1, TotalShrinks
  <2>. QED  BY <2>2 DEF L, M, f, e
<1>5. tree.protected + Total(Promised, live) <= NumPages /\ NumPages \in Nat
  BY DEF Room, CacheAssumption
<1>6. tree'.protected + Total(Promised', live') <= NumPages
  BY <1>1, <1>4, <1>5
<1>. QED  BY <1>6 DEF Room

LEMMA RoomRelease ==
  ASSUME CacheAssumption, CacheInv, PageInv, Sized(tree), AheadInv, Room, NEW r \in live, NEW text \in Seq(Tokens),
         Lag(r) <= 1 + (Len(text) - Len(ids[r])), Release(r, text), budget' = budget,
         deferred \subseteq deferred' \union {r}, deferred' \subseteq deferred
  PROVE  Room'
<1>1. /\ LifeInv /\ LensInv /\ PageSize \in Nat \ {0} /\ live \subseteq Reqs
      /\ IsTree(tree, Tokens) /\ tree.protected \in Int /\ Counted(tree, live, handle)
      /\ \A q \in live : Bound(q) \in Nat
  BY RoomFacts DEF CacheInv, CacheAssumption, HeldInv
<1> DEFINE key == SubSeq(text, 1, cached[r])
           done == InsertPrefix(tree, key, row[r]).tree
<1>2. r \in Reqs
  BY <1>1
<1>3. live' = live \ {r} /\ Others({r}) /\ tree' = Unlock(done, handle[r])
  BY <1>1, <1>2, ReleaseIs
<1>4. key \in Seq(Tokens)
  BY <1>1, CachedText
<1> HIDE DEF key
<1>5. IsTree(done, Tokens) /\ done.protected = tree.protected
  BY <1>1, <1>4, InsertTree, InsertProtected
<1> HIDE DEF done
<1>6. tree'.protected \in Int /\ tree'.protected <= tree.protected
  BY <1>1, <1>3, <1>5, UnlockShrinks
<1>7. ASSUME NEW q \in live' PROVE handle'[q] = handle[q] /\ Bound(q)' \in Int /\ Bound(q)' <= Bound(q)
  <2>1. q \in live /\ q /= r /\ q \in Reqs
    BY <1>1, <1>3
  <2>2. handle'[q] = handle[q] /\ limit'[q] = limit[q] /\ cached'[q] = cached[q]
    BY <1>3, <2>1 DEF Others
  <2>3. q \in deferred <=> q \in deferred'
    BY <2>1
  <2>4. Bound(q)' = Bound(q)
    BY <2>2, <2>3 DEF Bound
  <2>. QED  BY <1>1, <2>1, <2>2, <2>4
<1>8. live' \subseteq live
  BY <1>3
<1>. QED  BY <1>6, <1>7, <1>8, RoomStays

\* A request that goes on locks what it has cached instead of what it had locked.
LEMMA HandleGrows ==
  ASSUME CacheAssumption, CacheInv, PageInv, Sized(tree), NEW r \in live, NEW text \in Seq(Tokens),
         IsPrefix(ids[r], text), Lag(r) <= 1 + (Len(text) - Len(ids[r])), CacheReq(r, text, FALSE), live' = live
  PROVE  \E path \in Seq(Tokens) :
           /\ handle' = [handle EXCEPT ![r] = path] /\ Len(handle[r]) <= Len(path)
           /\ tree'.protected \in Int /\ tree'.protected <= tree.protected + Len(path) - Len(handle[r])
<1> DEFINE w == row[r]
           h == handle[r]
           c == cached[r]
           key == SubSeq(text, 1, c)
           new == InsertPrefix(tree, key, w)
           done == new.tree
           path == new.path
           u == Unlock(done, h)
<1>1. /\ PageSize \in Nat \ {0} /\ IsTree(tree, Tokens) /\ IsFiniteSet(live) /\ live \subseteq Reqs
      /\ \A p \in DOMAIN tree.page : tree.page[p] \in Pages
      /\ RowOf(w, h, c) /\ c \in Nat /\ (h = Root \/ h \in DOMAIN tree.page)
      /\ Counted(tree, live, handle)
  BY RowsAre DEF CacheInv, HeldInv
<1>2. key \in Seq(Tokens) /\ Len(key) = c /\ IsPrefix(h, key) /\ h \in Seq(Tokens) /\ Aligned(h) /\ Len(h) <= c
  BY <1>1, HandleText DEF RowOf
<1>3. tree' = Lock(u, path) /\ handle' = [handle EXCEPT ![r] = path]
  BY DEF CacheReq
<1> HIDE DEF key
<1>4. /\ IsTree(done, Tokens) /\ Counted(done, live, handle) /\ (path = Root \/ path \in Nodes(done))
      /\ done.protected = tree.protected
  BY <1>1, <1>2, InsertIs, InsertProtected
<1>5. path \in Seq(Tokens) /\ Len(path) = AlignDown(c) /\ IsPrefix(path, key)
  <2> DEFINE a == new.cached \div PageSize
             b == AlignDown(c) \div PageSize
  <2>1. \A x, y : x = a /\ y = b => new.path \in Seq(Tokens) /\ Len(new.path) = AlignDown(c) /\ IsPrefix(new.path, key)
    BY <1>1, <1>2, PagesInserted
  <2>. QED  BY <2>1
<1> HIDE DEF new, done, path, w, c
<1>6. IsPrefix(h, path) /\ Len(h) <= Len(path)
  <2>1. Len(h) <= AlignDown(c)
    <3>0. c \in Nat /\ PageSize \in Nat \ {0}
      BY <1>1
    <3>1. \A k \in Nat : k <= c /\ k % PageSize = 0 => k <= AlignDown(c)
      BY ONLY <3>0, AlignIs
    <3>2. Len(h) \in Nat
      BY <1>2, LenProperties
    <3>3. Len(h) % PageSize = 0
      BY <1>2 DEF Aligned
    <3>4. Len(h) <= c
      BY <1>2
    <3>. QED  BY <3>1, <3>2, <3>3, <3>4
  <2>2. IsPrefix(h, path) \/ IsPrefix(path, h)
    BY <1>2, <1>5, PrefixOrder
  <2>3. IsPrefix(path, h) => path = h
    <3>1. Len(path) >= Len(h) /\ Len(path) \in Nat /\ Len(h) \in Nat
      BY <1>2, <1>5, <2>1
    <3>. QED  BY <1>2, <1>5, <3>1, PrefixOrder
  <2>. QED  BY <1>2, <1>5, <2>1, <2>2, <2>3, PrefixOrder
<1>7. h = Root \/ h \in Nodes(done)
  BY <1>4 DEF Counted
<1>8. IsTree(u, Tokens)
  BY <1>1, <1>4, UnlockCounted
<1>9. tree.protected \in Nat
  BY <1>1, SizesTogether
<1>10. Lock(u, path).protected \in Int /\ Lock(u, path).protected <= done.protected + Len(path) - Len(h)
  <2> HIDE DEF h
  <2>1. done.protected \in Int
    BY <1>4, <1>9
  <2>. QED  BY <1>4, <1>6, <1>7, <1>8, <2>1, LockGrows
<1>. QED  BY <1>3, <1>4, <1>5, <1>6, <1>10

LEMMA RoomGoesOn ==
  ASSUME CacheAssumption, CacheInv, PageInv, Sized(tree), AheadInv, Room, NEW r \in live, NEW text \in Seq(Tokens),
         IsPrefix(ids[r], text), Lag(r) <= 1 + (Len(text) - Len(ids[r])), CacheReq(r, text, FALSE),
         UNCHANGED <<live, limit, cached, deferred>>
  PROVE  Room'
<1>1. /\ IsFiniteSet(live) /\ live \subseteq Reqs /\ tree.protected \in Nat /\ Promised \in [live -> Int]
      /\ \A q \in live : /\ Len(handle[q]) \in Nat /\ Bound(q) \in Nat
                         /\ Promised[q] = Bound(q) - Len(handle[q])
  BY RoomFacts
<1>2. PICK path \in Seq(Tokens) :
        /\ handle' = [handle EXCEPT ![r] = path]
        /\ tree'.protected \in Int /\ tree'.protected <= tree.protected + Len(path) - Len(handle[r])
  BY HandleGrows
<1>3. handle'[r] = path /\ Len(path) \in Nat /\ \A q \in live : q /= r => handle'[q] = handle[q]
  BY <1>1, <1>2 DEF CacheInv, LifeInv, Fields
<1>4. \A q \in live : Bound(q)' = Bound(q)
  BY DEF Bound
<1> DEFINE L == live
           e == Promised
           f == [q \in live |-> Bound(q) - Len(handle'[q])]
           d == Len(handle[r]) - Len(path)
<1>5. Promised' = f
  BY <1>4 DEF Promised
<1>6. /\ d \in Int /\ e \in [L -> Int] /\ f \in [L -> Int] /\ r \in L /\ IsFiniteSet(L)
      /\ f[r] = e[r] + d /\ \A q \in L : q /= r => f[q] = e[q]
  BY <1>1, <1>3, SMTT(30)
<1>7. tree.protected + Total(e, L) <= NumPages /\ NumPages \in Nat /\ live' = L
  BY DEF Room, CacheAssumption
<1>8. tree'.protected <= tree.protected - d
  BY <1>1, <1>2, <1>3
<1> HIDE DEF L, e, f, d
<1>9. Total(f, L) = Total(e, L) + d
  BY <1>6, TotalBump, SMTT(30)
<1>10. Total(e, L) \in Int
  BY <1>6, TotalRules
<1> DEFINE x == tree.protected
           y == tree'.protected
           z == Total(e, L)
<1>11. x \in Nat /\ y \in Int /\ z \in Int /\ y <= x - d /\ x + z <= NumPages /\ Total(f, L) = z + d
  BY <1>1, <1>2, <1>7, <1>8, <1>9, <1>10
<1> HIDE DEF x, y, z
<1>12. y + (z + d) <= NumPages
  BY <1>6, <1>7, <1>11
<1>13. tree'.protected + Total(f, L) <= NumPages
  BY <1>11, <1>12 DEF y
<1>. QED  BY <1>5, <1>7, <1>13 DEF Room

LEMMA TakenFrom ==
  ASSUME NEW S, NEW s \in Seq(S)
  PROVE  \A x, y \in Nat : x <= y /\ y <= Len(s) =>
           SubSeq(s, x + 1, y) \in Seq(S) /\ Len(SubSeq(s, x + 1, y)) = y - x
<1> TAKE x, y \in Nat
<1> HAVE x <= y /\ y <= Len(s)
<1>. QED  BY CountCut

\* A batch needs what its requests need, in whichever order they stand in it.
LEMMA NeededTotal ==
  ASSUME CacheAssumption, CacheInv, PageInv, pc = "forward"
  PROVE  /\ [r \in InCur |-> NewPages(r)] \in [InCur -> Int]
         /\ Needed = Total([r \in InCur |-> NewPages(r)], InCur)
<1> DEFINE q == cur.reqs
           n == Len(q)
           s == [i \in 1 .. Needed |-> 0]
           at == [i \in 1 .. n + 1 |-> Before(i)]
           d == [r \in InCur |-> NewPages(r)]
<1>1. Needed \in Nat /\ \A r \in InCur : NewPages(r) \in Nat
  BY NeededIs
<1>2. q \in Seq(Reqs) /\ IsInjective(q) /\ n \in Nat /\ InCur = Range(q)
  BY DEF CacheInv, LifeInv, Lists, IsBatch, InCur
<1>3. /\ Before(1) = 0 /\ Needed = Before(n + 1)
      /\ \A i \in 1 .. n + 1 : Before(i) \in Nat
      /\ \A i \in 1 .. n : Before(i + 1) = Before(i) + NewPages(q[i])
  BY <1>1, <1>2, BeforeIs
<1>4. d \in [InCur -> Int] /\ \A r \in InCur : d[r] = NewPages(r)
  BY <1>1
<1>5. s \in Seq({0}) /\ Len(s) = Needed
  BY <1>1
<1>6. \A i \in 1 .. n : q[i] \in InCur /\ i \in 1 .. n + 1 /\ i + 1 \in 1 .. n + 1
  BY <1>2 DEF Range
<1>7. /\ at \in [1 .. n + 1 -> Nat] /\ \A i \in 1 .. n + 1 : at[i] = Before(i)
  BY <1>3
<1> HIDE DEF s, at, d, q
<1>8. at[1] = 0 /\ at[n + 1] = Len(s)
  <2>1. 1 \in 1 .. n + 1 /\ n + 1 \in 1 .. n + 1
    BY <1>2
  <2>. QED  BY <1>3, <1>5, <1>7, <2>1
<1>9. \A i \in 1 .. n : at[i + 1] = at[i] + NewPages(q[i]) /\ at[i] <= at[i + 1] /\ NewPages(q[i]) \in Nat
  <2> TAKE i \in 1 .. n
  <2>1. at[i] = Before(i) /\ at[i + 1] = Before(i + 1) /\ Before(i + 1) = Before(i) + NewPages(q[i])
        /\ Before(i) \in Nat /\ NewPages(q[i]) \in Nat
    BY <1>1, <1>3, <1>6, <1>7
  <2>. QED  BY <2>1
<1>10. \A i \in 1 .. n + 1 : at[i] <= Len(s)
  <2>1. \A i \in 1 .. n + 1 : at[i] <= at[n + 1]
    BY <1>2, <1>7, <1>9, LastMost
  <2>. QED  BY <1>8, <2>1
<1>11. \A u \in Seq({0}) : Count(0, u) = Len(u)
  <2> TAKE u \in Seq({0})
  <2>1. {i \in DOMAIN u : u[i] = 0} = 1 .. Len(u) /\ Len(u) \in Nat
    OBVIOUS
  <2>2. \A a1, b1 \in Int : Cardinality(a1 .. b1) = IF a1 > b1 THEN 0 ELSE b1 - a1 + 1
    BY FS_Interval
  <2> DEFINE k == Len(u)
  <2>3. 1 \in Int /\ k \in Int /\ (IF 1 > k THEN 0 ELSE k - 1 + 1) = k
    BY <2>1
  <2> HIDE DEF k
  <2>4. Cardinality(1 .. k) = k
    BY <2>2, <2>3
  <2>. QED  BY <2>1, <2>4 DEF Count, k
<1>12. \A i \in 1 .. n : d[q[i]] = Count(0, SubSeq(s, at[i] + 1, at[i + 1]))
  <2> TAKE i \in 1 .. n
  <2>1. at[i] \in Nat /\ at[i + 1] \in Nat /\ at[i] <= at[i + 1] /\ at[i + 1] <= Len(s)
    BY <1>6, <1>7, <1>9, <1>10
  <2>2. /\ SubSeq(s, at[i] + 1, at[i + 1]) \in Seq({0})
        /\ Len(SubSeq(s, at[i] + 1, at[i + 1])) = at[i + 1] - at[i]
    <3> DEFINE a == at[i]
               b == at[i + 1]
    <3> HIDE DEF a, b
    <3>1. \A x, y \in Nat : x <= y /\ y <= Len(s) =>
            SubSeq(s, x + 1, y) \in Seq({0}) /\ Len(SubSeq(s, x + 1, y)) = y - x
      BY <1>5, TakenFrom
    <3>. QED  BY <2>1, <3>1
  <2>3. d[q[i]] = NewPages(q[i]) /\ at[i + 1] = at[i] + NewPages(q[i]) /\ NewPages(q[i]) \in Nat
    BY <1>4, <1>6, <1>9
  <2> DEFINE u == SubSeq(s, at[i] + 1, at[i + 1])
             a == at[i]
             b == at[i + 1]
             m == NewPages(q[i])
  <2>4. u \in Seq({0}) /\ Len(u) = b - a /\ b = a + m /\ a \in Nat /\ b \in Nat /\ m \in Nat /\ d[q[i]] = m
    BY <2>1, <2>2, <2>3
  <2> HIDE DEF u, a, b, m
  <2>5. Count(0, u) = Len(u) /\ Len(u) = m
    BY <1>11, <2>4
  <2>. QED  BY <2>4, <2>5 DEF u
<1>13. Total(d, Range(q)) = Count(0, s)
  <2>1. /\ s \in Seq({0}) /\ q \in Seq(Reqs) /\ IsInjective(q) /\ at \in [1 .. Len(q) + 1 -> Nat]
        /\ at[1] = 0 /\ at[Len(q) + 1] = Len(s) /\ \A i \in 1 .. Len(q) : at[i] <= at[i + 1]
    BY <1>2, <1>5, <1>7, <1>8, <1>9
  <2>2. d \in [Range(q) -> Int] /\ \A i \in 1 .. Len(q) : d[q[i]] = Count(0, SubSeq(s, at[i] + 1, at[i + 1]))
    BY <1>2, <1>4, <1>12
  <2>. QED  BY ONLY <2>1, <2>2, SliceTotal
<1>14. Needed = Total(d, InCur)
  BY <1>2, <1>5, <1>11, <1>13
<1>. QED  BY <1>4, <1>14 DEF d

\* With one token to a page a batch never needs more than is free or can be evicted.
LEMMA RoomForBatch ==
  ASSUME CacheAssumption, PageSize = 1, CacheInv, PageInv, Sized(tree), AheadInv, Room, pc = "forward"
  PROVE  Needed \in Nat /\ Len(free) \in Nat /\ tree.evictable \in Nat /\ Needed <= Len(free) + tree.evictable
<1> DEFINE d == [r \in InCur |-> NewPages(r)]
<1>1. /\ IsFiniteSet(live) /\ tree.evictable \in Nat /\ tree.protected \in Nat /\ ToCome \in [live -> Int]
      /\ \A r \in live : /\ cached[r] \in Nat /\ device[r] \in Nat /\ limit[r] \in Nat
                         /\ ToCome[r] = Bound(r) - cached[r] /\ ToCome[r] \in Nat
  BY RoomFacts
<1>2. /\ Total(ToCome, live) \in Int /\ Total(Promised, live) \in Int /\ Len(free) \in Nat
      /\ tree.protected + Total(Promised, live) = NumPages - Len(free) - tree.evictable + Total(ToCome, live)
  BY RoomLeft
<1>3. Total(ToCome, live) <= Len(free) + tree.evictable
  <2> DEFINE a == Total(ToCome, live)
             b == Total(Promised, live)
             x == tree.protected
             y == tree.evictable
             z == Len(free)
  <2>1. /\ a \in Int /\ b \in Int /\ x \in Nat /\ y \in Nat /\ z \in Nat /\ NumPages \in Nat
        /\ x + b = NumPages - z - y + a /\ x + b <= NumPages
    BY <1>1, <1>2 DEF Room, CacheAssumption
  <2> HIDE DEF a, b, x, y, z
  <2>2. a <= z + y
    BY <2>1
  <2>. QED  BY <2>2 DEF a, y, z
<1>4. InCur \in SUBSET live /\ InCur \intersect deferred = {}
  BY DEF CacheInv, LifeInv, Phases, Waiting
<1>5. d \in [InCur -> Int] /\ Needed = Total(d, InCur)
  BY NeededTotal
<1>6. ASSUME NEW r \in InCur PROVE d[r] <= ToCome[r]
  <2>1. r \in live /\ r \notin deferred /\ Growing(r)
    BY <1>4 DEF Growing
  <2>2. device[r] < limit[r] /\ Bound(r) = limit[r] - 1
    BY <2>1 DEF AheadInv, Lagged, Bound
  <2>3. NewPages(r) \in Nat /\ PageCount(cached[r]) + NewPages(r) = PageCount(device[r])
    BY NeededIs
  <2>4. PageCount(cached[r]) = cached[r] /\ PageCount(device[r]) = device[r]
    <3>1. \A x \in Nat : (x + 1 - 1) \div 1 = x
      OBVIOUS
    <3>. QED  BY <1>1, <2>1, <3>1 DEF PageCount
  <2>5. d[r] = NewPages(r)
    OBVIOUS
  <2> HIDE DEF d
  <2>. QED  BY <1>1, <2>1, <2>2, <2>3, <2>4, <2>5
<1> HIDE DEF d
<1>7. Total(d, InCur) <= Total(ToCome, live)
  <2> DEFINE L == live
             C == InCur
             f == ToCome
  <2>1. /\ IsFiniteSet(L) /\ C \in SUBSET L /\ d \in [C -> Int] /\ f \in [L -> Int]
        /\ \A r \in C : d[r] <= f[r]
        /\ \A r \in L \ C : 0 <= f[r]
    BY <1>1, <1>4, <1>5, <1>6
  <2> HIDE DEF L, C, f
  <2>2. Total(d, C) <= Total(f, L)
    BY ONLY <2>1, TotalShrinks
  <2>. QED  BY <2>2 DEF L, C, f
<1>8. Needed \in Nat
  BY NeededIs
<1>. QED  BY <1>1, <1>2, <1>3, <1>5, <1>7, <1>8

LEMMA ForwardGoes ==
  ASSUME CacheAssumption, PageSize = 1, CacheInv, PageInv, Sized(tree), AheadInv, Room, Forward
  PROVE  Launches
<1>1. pc = "forward"
  BY DEF Forward
<1>2. Needed \in Nat /\ Len(free) \in Nat /\ tree.evictable \in Nat /\ Needed <= Len(free) + tree.evictable
  BY <1>1, RoomForBatch
<1>3. (Needed - Len(free)) * PageSize = Needed - Len(free)
  <2>1. \A x \in Int : x * 1 = x
    OBVIOUS
  <2>. QED  BY <1>2, <2>1
<1>4. Evictions(Needed) /= {}
  <2>1. CASE Needed <= Len(free)
    BY <2>1 DEF Evictions
  <2>2. CASE ~(Needed <= Len(free))
    <3> DEFINE size == Needed - Len(free)
    <3>1. size \in Nat \ {0} /\ size <= tree.evictable
      BY <1>2, <2>2
    <3>2. IsTree(tree, Tokens) /\ IsFiniteSet(live) /\ Counted(tree, live, handle)
      BY RowsAre DEF CacheInv, HeldInv
    <3> HIDE DEF size
    <3>3. Removals(tree, size) /= {}
      BY <3>1, <3>2, RemovalExists
    <3>. QED  BY <1>3, <2>2, <3>3 DEF Evictions, size
  <2>. QED  BY <2>1, <2>2
<1>5. ~((Needed - Len(free)) * PageSize > tree.evictable)
  BY <1>2, <1>3
<1>. QED  BY <1>4, <1>5 DEF Forward, Launches, Sampling, InCur

\* InflightTokens is a sum over the running requests.
LEMMA InflightIs ==
  ASSUME CacheAssumption, LifeInv
  PROVE  /\ IsFiniteSet(Reqs) /\ running \in SUBSET Reqs
         /\ [r \in Reqs |-> RemainLen(r)] \in [Reqs -> Int]
         /\ InflightTokens = Total([r \in Reqs |-> RemainLen(r)], running) + (PageSize - 1) * Cardinality(running)
         /\ PageSize = 1 => InflightTokens = Total([r \in Reqs |-> RemainLen(r)], running)
<1> DEFINE f == [r \in Reqs |-> RemainLen(r)]
           P == running
           Solves(k) == k = [s \in SUBSET P |->
                               IF s = {} THEN 0
                               ELSE RemainLen(CHOOSE x \in s : TRUE) + k[s \ {CHOOSE x \in s : TRUE}]]
           h == CHOOSE k : Solves(k)
<1>1. P \in SUBSET Reqs /\ IsFiniteSet(P) /\ IsFiniteSet(Reqs)
  BY FS_Subset DEF CacheAssumption, LifeInv, Members
<1>2. f \in [Reqs -> Int]
  BY DEF RemainLen, LifeInv, Fields
<1>3. \A k : Solves(k) <=> Unfolds(k, f, P)
  <2> TAKE k
  <2> DEFINE op(s) == IF s = {} THEN 0 ELSE RemainLen(Pick(s)) + k[s \ {Pick(s)}]
             fn(s) == IF s = {} THEN 0 ELSE f[Pick(s)] + k[s \ {Pick(s)}]
  <2>1. \A s \in SUBSET P : s /= {} => RemainLen(Pick(s)) = f[Pick(s)]
    BY <1>1, PickIn
  <2>2. \A s \in SUBSET P : op(s) = fn(s)
    <3> HIDE DEF f, P
    <3>. QED  BY <2>1
  <2>3. Solves(k) <=> k = [s \in SUBSET P |-> op(s)]
    BY DEF Pick
  <2>4. Unfolds(k, f, P) <=> k = [s \in SUBSET P |-> fn(s)]
    <3> HIDE DEF f, P
    <3>. QED  BY DEF Unfolds
  <2>5. [s \in SUBSET P |-> op(s)] = [s \in SUBSET P |-> fn(s)]
    <3> HIDE DEF op, fn, P
    <3>. QED  BY <2>2
  <2>. QED  BY <2>3, <2>4, <2>5
<1>4. \E k : Unfolds(k, f, P)
  <2> HIDE DEF f, P
  <2>. QED  BY <1>1, <1>2, TotalHas
<1>5. MapThenSumSet(RemainLen, running) = h[P]
  BY DEF MapThenSumSet, MapThenFoldSet
<1>6. Solves(h)
  <2> HIDE DEF Solves
  <2>1. \E k : Solves(k)
    BY <1>3, <1>4
  <2>. QED  BY <2>1
<1> HIDE DEF h
<1>7. Unfolds(h, f, P)
  BY <1>3, <1>6
<1>8. Total(f, P) = h[P]
  <2> HIDE DEF f, P
  <2>. QED  BY <1>1, <1>2, <1>7, TotalHas
<1>9. InflightTokens = Total(f, P) + (PageSize - 1) * Cardinality(running)
  BY <1>5, <1>8 DEF InflightTokens
<1>10. PageSize = 1 => (PageSize - 1) * Cardinality(running) = 0
  <2>1. Cardinality(running) \in Nat
    BY <1>1, FS_CardinalityType
  <2>2. \A x \in Nat : (1 - 1) * x = 0
    OBVIOUS
  <2>. QED  BY <2>1, <2>2
<1>11. Total(f, P) \in Int
  <2> HIDE DEF f, P
  <2>. QED  BY <1>1, <1>2, TotalRules
<1>12. PageSize = 1 => InflightTokens = Total(f, P)
  <2> HIDE DEF f, P
  <2>. QED  BY <1>9, <1>10, <1>11
<1>. QED  BY <1>1, <1>2, <1>9, <1>12

\* When admission starts, reserved_size covers what those who hold something may
\* still draw: the running requests; those put off and those at their limit draw
\* no more.
LEMMA ReservedFirst ==
  ASSUME CacheAssumption, PageSize = 1, CacheInv, PageInv, Sized(tree), AheadInv, EndReceive
  PROVE  Reserved'
<1> DEFINE f == [r \in Reqs |-> RemainLen(r)]
           rest == live \ chunk
<1>1. /\ pc = "recv" /\ pc' = "admit" /\ reserved' = InflightTokens
      /\ UNCHANGED <<live, chunk, limit, cached, deferred, cur>>
  BY DEF EndReceive, reqVars, batchVars
<1>2. /\ IsFiniteSet(live) /\ live \subseteq Reqs /\ ToCome \in [live -> Int]
      /\ \A r \in live : /\ cached[r] \in Nat /\ device[r] \in Nat /\ limit[r] \in Nat
                         /\ ToCome[r] = Bound(r) - cached[r]
  BY RoomFacts
<1>3. /\ IsFiniteSet(Reqs) /\ running \in SUBSET Reqs /\ f \in [Reqs -> Int]
      /\ InflightTokens = Total(f, running)
  BY InflightIs DEF CacheInv
<1>4. InCur = {} /\ InCur' = {}
  BY <1>1, NoBatchIs DEF CacheInv, LifeInv, Phases, InCur
<1>5. CountedIn' = rest /\ ToCome' = ToCome
  BY <1>1, <1>4 DEF CountedIn, ToCome, Bound
<1>6. /\ running \subseteq rest /\ rest \subseteq live /\ running \intersect deferred = {}
      /\ \A r \in running : device[r] < limit[r]
  BY DEF CacheInv, LifeInv, Members, Waiting, AllKept
<1>7. \A r \in running : ToCome[r] = f[r]
  <2> TAKE r \in running
  <2>1. r \in live /\ r \notin deferred /\ ~Growing(r) /\ r \in Reqs
    BY <1>2, <1>4, <1>6 DEF Growing
  <2>2. device[r] = cached[r] + 1
    BY <2>1 DEF AheadInv, Lagged
  <2>3. ToCome[r] = limit[r] - 1 - cached[r]
    BY <1>2, <2>1 DEF Bound
  <2>4. f[r] = limit[r] - device[r]
    BY <2>1 DEF RemainLen
  <2> HIDE DEF f
  <2>. QED  BY <1>2, <2>1, <2>2, <2>3, <2>4
<1>8. \A r \in rest \ running : ToCome[r] = 0
  <2> TAKE r \in rest \ running
  <2>1. r \in live /\ r \notin chunk /\ r \notin running /\ ~Growing(r)
    BY <1>4, <1>6 DEF Growing
  <2>2. device[r] = cached[r] + 1 /\ cached[r] < limit[r]
    BY <2>1 DEF AheadInv, Lagged
  <2>3. r \in deferred \/ limit[r] <= device[r]
    BY <1>1, <2>1 DEF CacheInv, LifeInv, AllKept, Kept
  <2>. QED  BY <1>2, <2>1, <2>2, <2>3 DEF Bound
<1>9. Total(ToCome, rest) = Total(f, running) /\ Total(f, running) \in Int
  <2> DEFINE R == running
             e == [r \in rest |-> ToCome[r]]
             g == [r \in rest |-> IF r \in R THEN f[r] ELSE 0]
  <2>1. IsFiniteSet(rest) /\ R \in SUBSET rest /\ rest \in SUBSET live /\ R \in SUBSET Reqs
    BY <1>2, <1>3, <1>6, FS_Subset
  <2>2. /\ e \in [rest -> Int] /\ g \in [rest -> Int]
        /\ \A r \in R : e[r] = g[r] /\ g[r] = f[r]
        /\ \A r \in rest \ R : e[r] = 0
        /\ \A r \in rest : e[r] = ToCome[r]
    BY <1>2, <1>3, <1>6, <1>7, <1>8
  <2> DEFINE c == ToCome
             L == live
  <2>3. c \in [L -> Int] /\ IsFiniteSet(L) /\ rest \in SUBSET L /\ \A r \in rest : e[r] = c[r]
    BY <1>2, <2>1, <2>2
  <2> HIDE DEF rest, e, g, f, R, c, L
  <2>4. Total(e, rest) = Total(g, R)
    BY <2>1, <2>2, TotalPart
  <2>5. Total(c, rest) = Total(e, rest)
    <3>1. rest \in SUBSET rest
      OBVIOUS
    <3>. QED  BY <2>1, <2>2, <2>3, <3>1, TotalAgree
  <2>6. Total(g, R) = Total(f, R) /\ Total(f, R) \in Int
    BY <1>3, <2>1, <2>2, TotalAgree, TotalRules
  <2>. QED  BY <2>4, <2>5, <2>6 DEF c, R
<1> HIDE DEF f, rest
<1>. QED  BY <1>1, <1>3, <1>5, <1>9 DEF Reserved

\* One more owner
LEMMA TotalJoin ==
  ASSUME NEW L, IsFiniteSet(L), NEW r, r \notin L, NEW e \in [L -> Int], NEW f \in [L \union {r} -> Int],
         \A x \in L : f[x] = e[x]
  PROVE  Total(f, L \union {r}) = Total(e, L) + f[r] /\ Total(e, L) \in Int /\ f[r] \in Int
<1> DEFINE S == L \union {r}
<1>1. IsFiniteSet(S) /\ r \in S /\ S \ {r} = L /\ f \in [S -> Int]
  BY FS_AddElement
<1> HIDE DEF S
<1>2. e \in [S \ {r} -> Int] /\ \A x \in S \ {r} : e[x] = f[x]
  BY <1>1
<1>3. Total(f, S) = Total(e, S \ {r}) + f[r] /\ Total(e, S \ {r}) \in Int /\ f[r] \in Int
  BY <1>1, <1>2, TotalDrop
<1>. QED  BY <1>1, <1>3 DEF S

\* The chunk that goes on is counted from now on.
LEMMA ReservedContinue ==
  ASSUME CacheAssumption, CacheInv, PageInv, Sized(tree), AheadInv, Reserved, Continue
  PROVE  Reserved'
<1> DEFINE r == First
           rest == live \ {r}
<1>1. PICK size \in 1 .. budget, part \in BOOLEAN : Added(r, cached[r], size, part) /\ r \in chunk /\ r \in Reqs
  BY ContinueIs
<1>2. /\ pc = "admit" /\ budget > 0 /\ reserved' = reserved + limit[r] - cached[r]
      /\ UNCHANGED <<live, limit, deferred>>
  BY DEF Continue, AddOneReq
<1>3. /\ IsFiniteSet(live) /\ live \subseteq Reqs /\ ToCome \in [live -> Int]
      /\ \A q \in live : /\ cached[q] \in Nat /\ limit[q] \in Nat /\ ToCome[q] = Bound(q) - cached[q]
  BY RoomFacts
<1>4. /\ r \in live /\ chunk = {r} /\ r \notin InCur /\ r \notin deferred /\ r \in Queued
  <2>1. r \in live /\ r \in Queued /\ r \notin deferred
    BY <1>1 DEF CacheInv, LifeInv, Members, Waiting
  <2>2. chunk = {r}
    BY <1>1 DEF AheadInv, HeadFirst, First
  <2>3. cur.partial = {}
    BY <1>2 DEF CacheInv, LifeInv, Phases
  <2>4. r \notin InCur
    BY <2>1, <2>3 DEF CacheInv, LifeInv, Members
  <2>. QED  BY <2>1, <2>2, <2>4
<1>5. cached' = cached /\ chunk' \subseteq {r} /\ r \in InCur'
  <2>1. cached' = [cached EXCEPT ![r] = cached[r]] /\ cur'.reqs = Append(cur.reqs, r)
        /\ chunk' = IF part THEN chunk \union {r} ELSE chunk \ {r}
    BY <1>1 DEF Added
  <2>2. cur.reqs \in Seq(Reqs) /\ cached \in [Reqs -> Nat]
    BY DEF CacheInv, LifeInv, Lists, IsBatch, Fields
  <2>3. Append(cur.reqs, r)[Len(cur.reqs) + 1] = r /\ Len(cur.reqs) + 1 \in DOMAIN Append(cur.reqs, r)
    BY <1>1, <2>2
  <2> HIDE DEF r
  <2>4. r \in Range(Append(cur.reqs, r))
    BY <2>3 DEF Range
  <2>5. cached' = cached
    BY <2>1, <2>2
  <2>. QED  BY <1>4, <2>1, <2>4, <2>5 DEF InCur
<1> HIDE DEF r
<1>6. CountedIn = rest /\ CountedIn' = live
  BY <1>2, <1>4, <1>5 DEF CountedIn
<1>7. ToCome' = ToCome
  BY <1>2, <1>5 DEF ToCome, Bound
<1>8. ToCome[r] = limit[r] - 1 - cached[r] /\ limit[r] \in Nat /\ cached[r] \in Nat
  BY <1>3, <1>4 DEF Bound
<1>9. reserved \in Int /\ Total(ToCome, rest) <= reserved
  BY <1>2, <1>6 DEF Reserved
<1>10. Total(ToCome, live) = Total(ToCome, rest) + ToCome[r] /\ Total(ToCome, rest) \in Int
  <2> DEFINE c == ToCome
             L == live
  <2>1. /\ c \in [L -> Int] /\ IsFiniteSet(L) /\ rest \in SUBSET L /\ r \in L \ rest /\ rest \union {r} = L
    BY <1>3, <1>4
  <2> HIDE DEF c, L, rest
  <2>. QED  BY <2>1, TotalRules DEF c, L
<1> HIDE DEF rest
<1>11. Total(ToCome, live) <= reserved'
  BY <1>2, <1>8, <1>9, <1>10
<1>12. reserved' \in Int
  BY <1>2, <1>8, <1>9
<1>. QED  BY <1>6, <1>7, <1>11, <1>12 DEF Reserved

LEMMA LockSum ==
  ASSUME NEW S, NEW t, IsTree(t, S), NEW path, t.protected \in Int, t.evictable \in Int
  PROVE  /\ Lock(t, path).protected \in Int /\ Lock(t, path).evictable \in Int
         /\ Lock(t, path).evictable + Lock(t, path).protected = t.evictable + t.protected
<1> DEFINE P == {n \in Upward(t, path) : t.ref[n] = 0}
           m == TotalLength(t, P)
<1>1. Lock(t, path).protected = t.protected + m /\ Lock(t, path).evictable = t.evictable - m
  BY LockSizes
<1>2. m \in Nat
  <2>1. P \in SUBSET Nodes(t)
    BY DEF Upward
  <2> HIDE DEF P
  <2>. QED  BY <2>1, LengthNat
<1> HIDE DEF m
<1>. QED  BY <1>1, <1>2

\* Admission looks at what is reserved and at what is left; with one token to a
\* page the two together leave room for the request it takes in.
LEMMA RoomAdmit ==
  ASSUME CacheAssumption, PageSize = 1, CacheInv, PageInv, Sized(tree), AheadInv, RoomInv, Admit
  PROVE  RoomInv'
<1>0. PICK r \in Reqs : r = First
  BY AdmitIs
<1> DEFINE match == MatchReq(First)
           u == Lock(Split(tree, match), match)
           more == limit[r] - 1 - Len(match)
<1>1. /\ r \in Reqs /\ r \in Queued /\ r \notin chunk /\ r \notin live /\ tree' = u
      /\ handle' = [handle EXCEPT ![r] = match] /\ live' = live \union {r}
      /\ \E size \in 1 .. budget, part \in BOOLEAN : Added(r, Len(match), size, part)
  BY <1>0, AdmitIs
<1>2. PICK size \in 1 .. budget, part \in BOOLEAN : Added(r, Len(match), size, part)
  BY <1>1
<1>3. /\ pc = "admit" /\ reserved' = reserved + limit[r] - Len(match) /\ UNCHANGED <<limit, deferred, free>>
      /\ limit[r] - Len(match) + reserved <= u.evictable + Len(free) * PageSize
  BY <1>0 DEF Admit, AddOneReq, Lockable, Fits, AvailableSize
<1>4. /\ IsFiniteSet(live) /\ live \subseteq Reqs /\ tree.evictable \in Nat /\ tree.protected \in Nat
      /\ IsTree(tree, Tokens) /\ Promised \in [live -> Int] /\ ToCome \in [live -> Int]
      /\ \A q \in live : /\ Len(handle[q]) \in Nat /\ cached[q] \in Nat /\ Bound(q) \in Nat
                         /\ Promised[q] = Bound(q) - Len(handle[q]) /\ ToCome[q] = Bound(q) - cached[q]
  BY RoomFacts
<1>5. /\ Len(match) \in Nat /\ limit[r] \in Nat /\ (match = Root \/ match \in DOMAIN tree.page) /\ r \notin deferred
  <2>1. ids[r] /= <<>>
    BY <1>1 DEF CacheInv, LensInv
  <2>2. r \notin deferred /\ limit[r] \in Nat
    BY <1>1 DEF CacheInv, LifeInv, Waiting, Fields
  <2>3. match = MatchReq(r) /\ LifeInv
    BY <1>0 DEF CacheInv
  <2> HIDE DEF match
  <2>. QED  BY <1>4, <2>1, <2>2, <2>3, MatchIs
<1> HIDE DEF match
<1>6. cached' = [cached EXCEPT ![r] = Len(match)] /\ chunk' \subseteq {r} /\ chunk = {} /\ r \in InCur'
  <2>1. cached' = [cached EXCEPT ![r] = Len(match)] /\ cur'.reqs = Append(cur.reqs, r)
        /\ chunk' = IF part THEN chunk \union {r} ELSE chunk \ {r}
    BY <1>2 DEF Added
  <2>2. cur.reqs \in Seq(Reqs)
    BY DEF CacheInv, LifeInv, Lists, IsBatch
  <2>3. Append(cur.reqs, r)[Len(cur.reqs) + 1] = r /\ Len(cur.reqs) + 1 \in DOMAIN Append(cur.reqs, r)
    BY <1>1, <2>2
  <2>4. chunk = {}
    BY <1>0, <1>1 DEF AheadInv, HeadFirst, First
  <2>5. r \in Range(Append(cur.reqs, r))
    BY <2>3 DEF Range
  <2>. QED  BY <2>1, <2>4, <2>5 DEF InCur
<1>7. /\ \A q \in live : q \in Reqs /\ q /= r
      /\ \A q \in live : cached'[q] = cached[q] /\ handle'[q] = handle[q]
      /\ cached'[r] = Len(match) /\ handle'[r] = match
  <2>1. r \in DOMAIN cached /\ r \in DOMAIN handle
    BY DEF CacheInv, LifeInv, Fields
  <2>2. live \subseteq DOMAIN cached /\ live \subseteq DOMAIN handle
    BY <1>4 DEF CacheInv, LifeInv, Fields
  <2>. QED  BY <1>1, <1>4, <1>6, <2>1, <2>2
<1>8. \A q \in live : Bound(q)' = Bound(q)
  BY <1>3, <1>7 DEF Bound
<1>81. Bound(r)' = limit[r] - 1
  BY <1>3, <1>5 DEF Bound
<1>82. /\ Promised' = [q \in live \union {r} |-> Bound(q)' - Len(handle'[q])]
       /\ ToCome' = [q \in live \union {r} |-> Bound(q)' - cached'[q]]
  BY <1>1 DEF Promised, ToCome
<1>83. /\ Promised'[r] = more /\ ToCome'[r] = more /\ more \in Int
  BY <1>5, <1>7, <1>81, <1>82
<1>84. \A q \in live : Promised'[q] = Promised[q] /\ ToCome'[q] = ToCome[q] /\ Promised[q] \in Int /\ ToCome[q] \in Int
  BY <1>4, <1>7, <1>8, <1>82
<1>85. \A q \in live \union {r} : Bound(q)' - Len(handle'[q]) \in Int /\ Bound(q)' - cached'[q] \in Int
  BY <1>4, <1>5, <1>7, <1>8, <1>81, SMTT(30)
<1>9. /\ Promised' \in [live \union {r} -> Int] /\ ToCome' \in [live \union {r} -> Int]
      /\ \A q \in live : Promised'[q] = Promised[q] /\ ToCome'[q] = ToCome[q]
      /\ Promised'[r] = more /\ ToCome'[r] = more /\ more \in Int
  BY <1>82, <1>83, <1>84, <1>85
<1> HIDE DEF more
<1>10. Total(Promised', live \union {r}) = Total(Promised, live) + more
  <2> DEFINE L == live
             e == Promised
             f == Promised'
  <2>1. /\ IsFiniteSet(L) /\ r \notin L /\ e \in [L -> Int] /\ f \in [L \union {r} -> Int]
        /\ \A q \in L : f[q] = e[q]
    BY <1>1, <1>4, <1>9
  <2> HIDE DEF L, e, f
  <2>2. Total(f, L \union {r}) = Total(e, L) + f[r]
    BY ONLY <2>1, TotalJoin
  <2>. QED  BY <1>9, <2>2 DEF L, e, f
<1>11. Total(ToCome', live \union {r}) = Total(ToCome, live) + more
  <2> DEFINE L == live
             e == ToCome
             f == ToCome'
  <2>1. /\ IsFiniteSet(L) /\ r \notin L /\ e \in [L -> Int] /\ f \in [L \union {r} -> Int]
        /\ \A q \in L : f[q] = e[q]
    BY <1>1, <1>4, <1>9
  <2> HIDE DEF L, e, f
  <2>2. Total(f, L \union {r}) = Total(e, L) + f[r]
    BY ONLY <2>1, TotalJoin
  <2>. QED  BY <1>9, <2>2 DEF L, e, f
<1>12. CountedIn = live /\ CountedIn' = live \union {r}
  BY <1>1, <1>6 DEF CountedIn
<1>13. reserved \in Int /\ Total(ToCome, live) <= reserved
  BY <1>3, <1>12 DEF RoomInv, Reserved
<1>14. /\ Total(ToCome, live) \in Int /\ Total(Promised, live) \in Int /\ Len(free) \in Nat
       /\ tree.protected + Total(Promised, live) = NumPages - Len(free) - tree.evictable + Total(ToCome, live)
  BY RoomLeft
<1>15. u.protected \in Int /\ u.evictable \in Int /\ u.evictable + u.protected = tree.evictable + tree.protected
  <2> DEFINE v == Split(tree, match)
  <2>1. v.evictable = tree.evictable /\ v.protected = tree.protected /\ IsTree(v, Tokens)
    BY <1>4, <1>5, SplitIs, SplitTree
  <2> HIDE DEF v
  <2>2. /\ Lock(v, match).protected \in Int /\ Lock(v, match).evictable \in Int
        /\ Lock(v, match).evictable + Lock(v, match).protected = v.evictable + v.protected
    BY <1>4, <2>1, LockSum
  <2>. QED  BY <1>4, <2>1, <2>2 DEF v
<1> HIDE DEF u
<1>16. Len(free) * PageSize = Len(free)
  <2>1. \A x \in Nat : x * 1 = x
    OBVIOUS
  <2>. QED  BY <1>14, <2>1
<1>17. Reserved'
  <2> DEFINE c == Total(ToCome, live)
  <2>1. c \in Int /\ c <= reserved /\ Total(ToCome', live \union {r}) = c + more /\ more = limit[r] - 1 - Len(match)
    BY <1>11, <1>13, <1>14 DEF more
  <2> HIDE DEF c
  <2>2. Total(ToCome', live \union {r}) <= reserved' /\ reserved' \in Int
    BY <1>3, <1>5, <1>13, <2>1
  <2>. QED  BY <1>12, <2>2 DEF Reserved
<1>18. Room'
  <2> DEFINE c == Total(ToCome, live)
             p == Total(Promised, live)
             x == tree.protected
             y == tree.evictable
             z == Len(free)
             l == limit[r]
             m == Len(match)
             uy == u.evictable
             ux == u.protected
  <2>1. /\ c \in Int /\ p \in Int /\ x \in Nat /\ y \in Nat /\ z \in Nat /\ l \in Nat /\ m \in Nat
        /\ uy \in Int /\ ux \in Int /\ reserved \in Int /\ NumPages \in Nat
    BY <1>4, <1>5, <1>13, <1>14, <1>15 DEF CacheAssumption
  <2>2. /\ x + p = NumPages - z - y + c /\ uy + ux = y + x /\ l - m + reserved <= uy + z /\ c <= reserved
    BY <1>3, <1>13, <1>14, <1>15, <1>16
  <2>3. Total(Promised', live \union {r}) = p + (l - 1 - m)
    BY <1>10 DEF more
  <2> HIDE DEF c, p, x, y, z, l, m, uy, ux
  <2>4. ux + (p + (l - 1 - m)) <= NumPages
    BY <2>1, <2>2
  <2>5. tree'.protected = ux
    BY <1>1 DEF ux
  <2>. QED  BY <1>1, <2>3, <2>4, <2>5 DEF Room
<1>. QED  BY <1>17, <1>18 DEF RoomInv

\* Nothing that those who hold something have, or will, changes.
LEMMA RoomSame ==
  ASSUME CacheAssumption, CacheInv, PageInv, Sized(tree), AheadInv, Room,
         live' = live, deferred' = deferred, tree'.protected = tree.protected,
         \A q \in live : handle'[q] = handle[q] /\ cached'[q] = cached[q] /\ limit'[q] = limit[q]
  PROVE  Room'
<1>1. tree.protected \in Nat /\ \A q \in live : Bound(q) \in Nat
  BY RoomFacts
<1>2. \A q \in live : Bound(q)' = Bound(q)
  BY DEF Bound
<1>3. \A q \in live' : handle'[q] = handle[q] /\ Bound(q)' \in Int /\ Bound(q)' <= Bound(q)
  BY <1>1, <1>2
<1>4. live' \subseteq live /\ tree'.protected \in Int /\ tree'.protected <= tree.protected
  BY <1>1
<1>. QED  BY <1>3, <1>4, RoomStays

LEMMA EvictedProtected ==
  ASSUME HeldInv, NEW need, NEW R \in Evictions(need), tree' = Without(tree, R)
  PROVE  tree'.protected = tree.protected
<1>1. /\ R \in SUBSET Nodes(tree) /\ IsTree(tree, Tokens)
      /\ \A n \in R, m \in Nodes(tree) : IsPrefix(n, m) => m \in R
  BY EvictionsIs DEF HeldInv, Unlocked
<1>. QED  BY <1>1, WithoutIs

LEMMA RoomCloseBatch ==
  ASSUME CacheAssumption, CacheInv, PageInv, Sized(tree), AheadInv, Room, CloseBatch
  PROVE  Room'
<1>1. PICK path : /\ tree' = Split(tree, path) /\ (path = Root \/ path \in DOMAIN tree.page)
                  /\ live' = live /\ handle' = handle
  BY CloseBatchIs
<1>2. tree'.protected = tree.protected
  BY <1>1, SplitIs DEF CacheInv, HeldInv
<1>3. UNCHANGED <<deferred, cached, limit>>
  BY DEF CloseBatch, reqVars
<1>. QED  BY <1>1, <1>2, <1>3, RoomSame

\* A forward draws what was promised to the batch.
LEMMA RoomForward ==
  ASSUME CacheAssumption, PageSize = 1, CacheInv, PageInv, Sized(tree), AheadInv, Room, Forward
  PROVE  Room' /\ pc' = "post"
<1>1. Launches
  BY ForwardGoes
<1>2. UNCHANGED <<live, limit, handle, deferred>>
  BY DEF Forward
<1>3. tree'.protected = tree.protected
  <2>1. PICK R \in Evictions(Needed) : tree' = Without(tree, R)
    BY <1>1 DEF Launches, Allocate
  <2>. QED  BY <2>1, EvictedProtected DEF CacheInv
<1>4. tree.protected \in Nat /\ live \subseteq Reqs /\ \A q \in live : Bound(q) \in Nat
  BY RoomFacts
<1>5. ASSUME NEW q \in live PROVE Bound(q)' = Bound(q)
  <2>1. q \in deferred => q \notin InCur
    BY <1>4 DEF CacheInv, LifeInv, Waiting, Forward
  <2>2. q \in deferred => cached'[q] = cached[q]
    BY <1>1, <1>4, <2>1 DEF Launches
  <2>. QED  BY <1>2, <2>2 DEF Bound
<1>6. \A q \in live' : handle'[q] = handle[q] /\ Bound(q)' \in Int /\ Bound(q)' <= Bound(q)
  BY <1>2, <1>4, <1>5
<1>7. live' \subseteq live /\ tree'.protected \in Int /\ tree'.protected <= tree.protected
  BY <1>2, <1>3, <1>4
<1>8. Room'
  BY <1>6, <1>7, RoomStays
<1>. QED  BY <1>1, <1>8 DEF Launches

LEMMA RoomFailedPrepare ==
  ASSUME CacheAssumption, CacheInv, PageInv, Sized(tree), AheadInv, Room, FailedPrepare
  PROVE  Room'
<1>1. PICK R \in Evictions(Needed) : tree' = Without(tree, R)
  BY DEF FailedPrepare
<1>2. tree'.protected = tree.protected
  BY <1>1, EvictedProtected DEF CacheInv
<1>3. UNCHANGED <<live, limit, cached, handle, deferred>>
  BY DEF FailedPrepare, reqVars, batchVars
<1>. QED  BY <1>2, <1>3, RoomSame

\* One that is aborted in flight is promised no more than it has.
LEMMA RoomHandleAbort ==
  ASSUME CacheAssumption, CacheInv, PageInv, Sized(tree), AheadInv, Room, NEW r \in Reqs, HandleAbort(r)
  PROVE  Room'
<1>0. LifeInv /\ LensInv
  BY DEF CacheInv
<1>1. /\ pc \in {"wait", "recv"} /\ budget' = budget
      /\ Deferred(r) \/ Freed(r) \/ Forgot(r)
  BY AbortCases
<1>2. /\ tree.protected \in Nat /\ live \subseteq Reqs
      /\ \A q \in live : Bound(q) \in Nat /\ cached[q] \in Nat /\ cached[q] <= Bound(q)
  BY RoomFacts
<1>3. CASE Deferred(r)
  <2>1. /\ live' = live /\ UNCHANGED <<tree, limit, cached, handle>> /\ deferred' = deferred \union {r}
    BY <1>3 DEF Deferred
  <2>2. \A q \in live : Bound(q)' = Bound(q) \/ Bound(q)' = cached[q]
    BY <2>1 DEF Bound
  <2>3. \A q \in live' : handle'[q] = handle[q] /\ Bound(q)' \in Int /\ Bound(q)' <= Bound(q)
    BY <1>2, <2>1, <2>2
  <2>4. live' \subseteq live /\ tree'.protected \in Int /\ tree'.protected <= tree.protected
    BY <1>2, <2>1
  <2>. QED  BY <2>3, <2>4, RoomStays
<1>4. CASE Freed(r)
  <2>1. ids[r] \in Seq(Tokens)
    BY <1>0 DEF LifeInv, Fields
  <2>2. /\ r \in live /\ Release(r, ids[r]) /\ Lag(r) <= 1 + (Len(ids[r]) - Len(ids[r]))
        /\ deferred \subseteq deferred' \union {r} /\ deferred' \subseteq deferred
    BY <1>4 DEF Freed
  <2>. QED  BY <1>1, <2>1, <2>2, RoomRelease
<1>5. CASE Forgot(r)
  <2>1. /\ UNCHANGED <<tree, live, deferred>> /\ r \notin live /\ Others({r})
    BY <1>5 DEF Forgot
  <2>2. \A q \in live : handle'[q] = handle[q] /\ cached'[q] = cached[q] /\ limit'[q] = limit[q]
    BY <1>2, <2>1 DEF Others
  <2>. QED  BY <2>1, <2>2, RoomSame
<1>. QED  BY <1>1, <1>3, <1>4, <1>5

LEMMA RoomPostProcess ==
  ASSUME CacheAssumption, CacheInv, PageInv, Sized(tree), AheadInv, Room, PostProcess
  PROVE  Room'
<1>0. LifeInv /\ LensInv
  BY DEF CacheInv
<1> DEFINE a == Head(todo)
<1>1. /\ pc = "post" /\ UNCHANGED <<budget, deferred>> /\ a \in Reqs /\ a \in InTodo
      /\ \/ a \in Skipped /\ Skips
         \/ a \notin Skipped /\ (Stops(a, Append(ids[a], Data.token[a])) \/ GoesOn(a, Append(ids[a], Data.token[a])))
  BY <1>0, PostProcessIs
<1>2. PICK r \in Reqs : r = a
  BY <1>1
<1> DEFINE text == Append(ids[r], Data.token[r])
<1>3. /\ r \in InTodo
      /\ \/ r \in Skipped /\ Skips
         \/ r \notin Skipped /\ (Stops(r, text) \/ GoesOn(r, text))
  BY <1>1, <1>2
<1> HIDE DEF a
<1>4. r \notin Skipped => text \in Seq(Tokens) /\ r \in live /\ Lag(r) <= 1 + (Len(text) - Len(ids[r]))
  BY <1>0, <1>1, <1>3, SampledText
<1>5. ids[r] \in Seq(Tokens)
  BY <1>0 DEF LifeInv, Fields
<1>6. r \notin Skipped => IsPrefix(ids[r], text)
  <2>1. IsPrefix(ids[r], ids[r])
    BY <1>5, PrefixOrder
  <2>. QED  BY <1>4, <1>5, <2>1, PrefixAppend
<1> HIDE DEF text
<1>7. CASE r \in Skipped /\ Skips
  <2>1. UNCHANGED <<tree, live, deferred, handle, cached, limit>>
    BY <1>1, <1>7 DEF Skips
  <2>. QED  BY <2>1, RoomSame
<1>8. CASE r \notin Skipped /\ Stops(r, text)
  <2>1. Release(r, text) /\ deferred \subseteq deferred' \union {r} /\ deferred' \subseteq deferred
    BY <1>1, <1>8 DEF Stops
  <2>. QED  BY <1>1, <1>4, <1>8, <2>1, RoomRelease
<1>9. CASE r \notin Skipped /\ GoesOn(r, text)
  <2>1. UNCHANGED <<live, limit, cached, deferred>>
    BY <1>1, <1>9 DEF GoesOn
  <2>2. CASE Data.prefill
    <3>1. CacheReq(r, text, FALSE)
      BY <1>9, <2>2 DEF GoesOn
    <3>. QED  BY <1>4, <1>6, <1>9, <2>1, <3>1, RoomGoesOn
  <2>3. CASE ~Data.prefill
    <3>1. UNCHANGED <<tree, handle>>
      BY <1>9, <2>3 DEF GoesOn
    <3>. QED  BY <2>1, <3>1, RoomSame
  <2>. QED  BY <2>2, <2>3
<1>. QED  BY <1>3, <1>7, <1>8, <1>9

LEMMA RoomFreeDeferred ==
  ASSUME CacheAssumption, CacheInv, PageInv, Sized(tree), AheadInv, Room, FreeDeferred
  PROVE  Room'
<1>0. LifeInv /\ LensInv
  BY DEF CacheInv
<1>1. /\ pc = "post" /\ todo = <<>> /\ budget' = budget
      /\ \E r \in deferred : Release(r, ids[r]) /\ deferred' = deferred \ {r}
  BY <1>0, FreeDeferredIs
<1>2. PICK r \in deferred : Release(r, ids[r]) /\ deferred' = deferred \ {r}
  BY <1>1
<1>3. r \in live
  BY <1>0, <1>1 DEF LifeInv, Waiting
<1>4. ids[r] \in Seq(Tokens) /\ Lag(r) <= 1 + (Len(ids[r]) - Len(ids[r]))
  BY <1>0, <1>1, <1>3, AbortText
<1>5. deferred \subseteq deferred' \union {r} /\ deferred' \subseteq deferred
  BY <1>2
<1>. QED  BY <1>1, <1>2, <1>3, <1>4, <1>5, RoomRelease

LEMMA RoomEndTick ==
  ASSUME CacheAssumption, CacheInv, PageInv, Sized(tree), AheadInv, Room, EndTick
  PROVE  Room'
<1>0. LifeInv
  BY DEF CacheInv
<1>1. /\ UNCHANGED <<tree, live, budget, deferred>> /\ Forget(finished)
  BY DEF EndTick, adder, cacheVars
<1>2. Others(finished)
  BY <1>0, <1>1, ForgetIs
<1>3. finished \intersect live = {} /\ live \subseteq Reqs
  BY <1>0 DEF EndTick, LifeInv, Phases, Members
<1>4. \A q \in live : handle'[q] = handle[q] /\ cached'[q] = cached[q] /\ limit'[q] = limit[q]
  BY <1>2, <1>3 DEF Others
<1>. QED  BY <1>1, <1>4, RoomSame

LEMMA RoomInit == ASSUME CacheAssumption, Init PROVE RoomInv /\ NeverFails
<1>1. /\ live = {} /\ pc = "loop" /\ tree = EmptyTree
  BY DEF Init
<1>2. tree.protected = 0
  BY <1>1 DEF EmptyTree
<1>3. Promised \in [{} -> Int] /\ IsFiniteSet({})
  BY <1>1, FS_EmptySet DEF Promised
<1>4. Total(Promised, {}) = 0
  BY <1>3, TotalRules
<1>5. NumPages \in Nat
  BY DEF CacheAssumption
<1>. QED  BY <1>1, <1>2, <1>4, <1>5 DEF RoomInv, Room, Reserved, NeverFails

\* Steps that leave the room, what they hold and what they may come to hold
LEMMA RoomQuiet ==
  ASSUME CacheAssumption, CacheInv, PageInv, Sized(tree), AheadInv, Room,
         StartTick \/ EndReceive \/ Continue \/ (\E r \in Reqs : HandleUser(r)) \/ UNCHANGED vars
  PROVE  Room'
<1>1. live \subseteq Reqs
  BY RoomFacts
<1>2. CASE StartTick \/ EndReceive \/ UNCHANGED vars
  <2>1. UNCHANGED <<tree, live, deferred, handle, cached, limit>>
    BY <1>2 DEF StartTick, EndReceive, vars, cacheVars, reqVars, batchVars
  <2>. QED  BY <2>1, RoomSame
<1>3. CASE Continue
  <2>1. UNCHANGED <<tree, live, deferred, handle, limit>>
    BY <1>3 DEF Continue, cacheVars
  <2>2. cached' = [cached EXCEPT ![First] = cached[First]]
    BY <1>3 DEF Continue, AddOneReq
  <2>3. cached' = cached
    BY <2>2 DEF CacheInv, LifeInv, Fields
  <2>. QED  BY <2>1, <2>3, RoomSame
<1>4. ASSUME NEW r \in Reqs, HandleUser(r) PROVE Room'
  <2>1. /\ UNCHANGED <<tree, live, deferred, handle, cached>> /\ r \notin arrived
        /\ \E p \in Prompts, m \in OutLens : limit' = [limit EXCEPT ![r] = Len(p) + m]
    BY <1>4 DEF HandleUser, cacheVars, batchVars
  <2>2. r \notin live
    BY <2>1 DEF CacheInv, LifeInv, Members
  <2>3. \A q \in live : limit'[q] = limit[q]
    BY <1>1, <2>1, <2>2 DEF CacheInv, LifeInv, Fields
  <2>. QED  BY <2>1, <2>3, RoomSame
<1>. QED  BY <1>2, <1>3, <1>4

LEMMA RoomNext ==
  ASSUME CacheAssumption, PageSize = 1, CacheInv, PageInv, Sized(tree), AheadInv, RoomInv, NeverFails, [Next]_vars
  PROVE  RoomInv' /\ NeverFails'
<1>0. Room /\ Reserved /\ LifeInv
  BY DEF RoomInv, CacheInv
<1>1. CASE UNCHANGED vars
  <2>1. Room'
    BY <1>0, <1>1, RoomQuiet
  <2>2. UNCHANGED <<pc, live, cached, limit, cur, chunk, deferred, reserved>>
    BY <1>1 DEF vars, reqVars, batchVars, adder
  <2>3. ToCome' = ToCome /\ CountedIn' = CountedIn
    BY <2>2 DEF ToCome, Bound, CountedIn, InCur
  <2>. QED  BY <1>0, <2>1, <2>2, <2>3 DEF RoomInv, Reserved, NeverFails
<1>2. CASE StartTick
  <2>1. pc' /= "crashed" /\ pc' /= "admit"
    <3>1. CASE Nothing
      <4>1. IdleCheck
        BY <1>2, <3>1, IdleIs DEF StartTick
      <4>. QED  BY <1>2, <3>1, <4>1 DEF StartTick, IdleCheck
    <3>2. CASE ~Nothing
      BY <1>2, <3>2 DEF StartTick
    <3>. QED  BY <3>1, <3>2
  <2>. QED  BY <1>0, <1>2, <2>1, RoomQuiet DEF RoomInv, Reserved, NeverFails
<1>3. CASE EndReceive
  <2>1. Reserved'
    BY <1>3, ReservedFirst
  <2>2. Room'
    BY <1>0, <1>3, RoomQuiet
  <2>. QED  BY <1>3, <2>1, <2>2 DEF RoomInv, NeverFails, EndReceive
<1>4. CASE Continue
  <2>1. Reserved'
    BY <1>0, <1>4, ReservedContinue
  <2>2. Room'
    BY <1>0, <1>4, RoomQuiet
  <2>. QED  BY <1>4, <2>1, <2>2 DEF RoomInv, NeverFails, Continue
<1>5. CASE Admit
  <2>1. RoomInv'
    BY <1>5, RoomAdmit
  <2>. QED  BY <1>5, <2>1 DEF NeverFails, Admit
<1>6. CASE CloseBatch
  <2>1. Room'
    BY <1>0, <1>6, RoomCloseBatch
  <2>. QED  BY <1>6, <2>1 DEF RoomInv, Reserved, NeverFails, CloseBatch
<1>7. CASE Forward
  <2>1. Room' /\ pc' = "post"
    BY <1>0, <1>7, RoomForward
  <2>. QED  BY <2>1 DEF RoomInv, Reserved, NeverFails
<1>8. CASE FailedPrepare
  <2>1. Room'
    BY <1>0, <1>8, RoomFailedPrepare
  <2>. QED  BY <1>8, <2>1 DEF RoomInv, Reserved, NeverFails, FailedPrepare
<1>9. CASE PostProcess
  <2>1. Room'
    BY <1>0, <1>9, RoomPostProcess
  <2>. QED  BY <1>9, <2>1 DEF RoomInv, Reserved, NeverFails, PostProcess
<1>10. CASE FreeDeferred
  <2>1. Room'
    BY <1>0, <1>10, RoomFreeDeferred
  <2>. QED  BY <1>10, <2>1 DEF RoomInv, Reserved, NeverFails, FreeDeferred
<1>11. CASE EndTick
  <2>1. Room'
    BY <1>0, <1>11, RoomEndTick
  <2>. QED  BY <1>11, <2>1 DEF RoomInv, Reserved, NeverFails, EndTick
<1>12. ASSUME NEW r \in Reqs, HandleUser(r) PROVE RoomInv' /\ NeverFails'
  <2>1. Room'
    BY <1>0, <1>12, RoomQuiet
  <2>. QED  BY <1>12, <2>1 DEF RoomInv, Reserved, NeverFails, HandleUser, Receiving
<1>13. ASSUME NEW r \in Reqs, HandleAbort(r) PROVE RoomInv' /\ NeverFails'
  <2>1. Room'
    BY <1>0, <1>13, RoomHandleAbort
  <2>. QED  BY <1>13, <2>1 DEF RoomInv, Reserved, NeverFails, HandleAbort, Receiving
<1>14. CASE Idle
  BY <1>1, <1>14 DEF Idle
<1>. QED
  BY <1>1, <1>2, <1>3, <1>4, <1>5, <1>6, <1>7, <1>8, <1>9, <1>10, <1>11, <1>12, <1>13, <1>14 DEF Next, Step

(* With one token to a page, admission never promises pages that a later forward
   cannot get: neither "Cannot evict" nor the integrity check is ever reached. *)
THEOREM NeverFailsCorrect == PageSize = 1 => (Spec => []NeverFails)
<1> SUFFICES ASSUME PageSize = 1 PROVE Spec => []NeverFails
  OBVIOUS
<1> DEFINE Inv == CacheInv /\ PageInv /\ AheadInv /\ RoomInv /\ NeverFails
<1>1. Init => Inv
  BY CacheAssumption, LifeInit, LensInit, HeldInit, PagesInit, AheadInit, RoomInit DEF CacheInv
<1>2. Sized(tree) /\ Inv /\ [Next]_vars => Inv'
  BY CacheAssumption, InvNext, PagesNext, AheadNext, RoomNext
<1>3. SizesExact => Sized(tree)
  BY DEF Sized, SizesExact
<1>4. Inv => NeverFails
  OBVIOUS
<1>. QED
  BY <1>1, <1>2, <1>3, <1>4, SizesCorrect, PTL DEF Spec

-----------------------------------------------------------------------------
(* The types.                                                              *)

\* What the other invariants leave open: the rows and handles of those that are
\* not live, what a slot holds, and the batch that has not been run.
KindsInv ==
  /\ row \in [Reqs -> Seq(Pages)] /\ handle \in [Reqs -> Seq(Tokens)]
  /\ kv \in [Slots -> Seq(Tokens)]
  /\ pc \in {"loop", "wait", "recv", "admit", "forward", "post", "crashed", "failed"}
  /\ reserved \in Nat /\ cur.prefill \in BOOLEAN /\ last.prefill \in BOOLEAN
  /\ pc /= "post" => cur.token = <<>>

LEMMA KindsForget ==
  ASSUME KindsInv, NEW gone, Forget(gone)
  PROVE  row' \in [Reqs -> Seq(Pages)] /\ handle' \in [Reqs -> Seq(Tokens)]
<1>1. /\ row' = [r \in Reqs |-> IF r \in gone THEN <<>> ELSE row[r]]
      /\ handle' = [r \in Reqs |-> IF r \in gone THEN Root ELSE handle[r]]
  BY DEF Forget
<1>2. <<>> \in Seq(Pages) /\ Root \in Seq(Tokens)
  BY EmptySeq, PrefixOrder DEF Root
<1>. QED  BY <1>1, <1>2 DEF KindsInv

LEMMA KindsRelease ==
  ASSUME KindsInv, NEW r, NEW text, Release(r, text)
  PROVE  row' \in [Reqs -> Seq(Pages)] /\ handle' \in [Reqs -> Seq(Tokens)]
<1>1. UNCHANGED <<row, handle>> \/ Forget({r})
  BY DEF Release
<1>2. CASE UNCHANGED <<row, handle>>
  BY <1>2 DEF KindsInv
<1>3. CASE Forget({r})
  BY <1>3, KindsForget
<1>. QED  BY <1>1, <1>2, <1>3

LEMMA KindsAdded ==
  ASSUME LifeInv, KindsInv, NEW r, NEW from, AddOneReq(r, from)
  PROVE  cur'.prefill \in BOOLEAN /\ cur'.token = cur.token
BY DEF AddOneReq, LifeInv, Lists, IsBatch

LEMMA KindsAdmit ==
  ASSUME CacheAssumption, CacheInv, PageInv, AheadInv, KindsInv, PageInv', Admit
  PROVE  KindsInv'
<1>0. LifeInv
  BY DEF CacheInv
<1> DEFINE match == MatchReq(First)
           pages == [i \in 1 .. Len(match) \div PageSize |-> tree.page[SubSeq(match, 1, i * PageSize)]]
<1>1. /\ First \in Reqs /\ First \in Queued /\ handle' = [handle EXCEPT ![First] = match]
      /\ row' = [row EXCEPT ![First] = pages] /\ live' = live \union {First}
  BY AdmitIs
<1> HIDE DEF pages
<1>2. PICK r \in Reqs : r = First
  BY <1>1
<1>3. row'[r] = pages /\ r \in live'
  BY <1>1, <1>2 DEF KindsInv
<1>4. row'[r] \in Seq(Pages)
  BY <1>3 DEF PageInv, RowsInv, RowOf
<1>5. match \in Seq(Tokens) /\ Len(match) \in Nat /\ Len(match) < Len(ids[r]) /\ Len(ids[r]) < limit[r] /\ Len(ids[r]) \in Nat
  <2>1. ids[r] /= <<>> /\ Len(ids[r]) < limit[r]
    BY <1>1, <1>2 DEF CacheInv, LensInv, AheadInv, Prompted
  <2>2. IsTree(tree, Tokens) /\ ids[r] \in Seq(Tokens)
    BY DEF CacheInv, HeldInv, LifeInv, Fields
  <2>3. match = MatchReq(r)
    BY <1>2
  <2> HIDE DEF match
  <2>. QED  BY <1>0, <2>1, <2>2, <2>3, MatchIs
<1> HIDE DEF match
<1>6. row' \in [Reqs -> Seq(Pages)] /\ handle' \in [Reqs -> Seq(Tokens)]
  BY <1>1, <1>2, <1>3, <1>4, <1>5 DEF KindsInv
<1>7. /\ pc = "admit" /\ pc' = pc /\ kv' = kv /\ last' = last /\ AddOneReq(First, Len(match))
      /\ reserved' = reserved + limit[r] - Len(match)
  BY <1>2 DEF Admit, AddOneReq, match
<1>8. cur'.prefill \in BOOLEAN /\ cur'.token = cur.token
  BY <1>0, <1>7, KindsAdded
<1>9. reserved' \in Nat
  <2>1. limit[r] \in Nat /\ reserved \in Nat
    BY <1>0 DEF LifeInv, Fields, KindsInv
  <2>. QED  BY <1>5, <1>7, <2>1
<1>. QED  BY <1>6, <1>7, <1>8, <1>9 DEF KindsInv

LEMMA KindsContinue ==
  ASSUME CacheAssumption, CacheInv, AheadInv, KindsInv, Continue
  PROVE  KindsInv'
<1>0. LifeInv
  BY DEF CacheInv
<1>1. First \in chunk /\ First \in Reqs
  BY ContinueIs
<1>2. PICK r \in Reqs : r = First
  BY <1>1
<1>3. /\ pc = "admit" /\ pc' = pc /\ UNCHANGED <<row, handle, kv, last>> /\ AddOneReq(First, cached[First])
      /\ reserved' = reserved + limit[r] - cached[r]
  BY <1>2 DEF Continue, AddOneReq
<1>4. cur'.prefill \in BOOLEAN /\ cur'.token = cur.token
  BY <1>0, <1>3, KindsAdded
<1>5. reserved' \in Nat
  <2>1. r \in live
    BY <1>0, <1>1, <1>2 DEF LifeInv, Members
  <2>2. limit[r] \in Nat /\ cached[r] \in Nat /\ cached[r] < limit[r] /\ reserved \in Nat
    BY <1>0, <2>1 DEF LifeInv, Fields, AheadInv, Lagged, KindsInv
  <2>. QED  BY <1>3, <2>2
<1>. QED  BY <1>3, <1>4, <1>5 DEF KindsInv

\* What a forward writes is a beginning of the text that the request has.
LEMMA KindsWritten ==
  ASSUME CacheAssumption, CacheInv, KindsInv, pc = "forward", NEW rows
  PROVE  Written(rows) \in [Slots -> Seq(Tokens)]
<1> DEFINE writes == {w \in InCur \X (1 .. NumPages * PageSize) : cached[w[1]] < w[2] /\ w[2] <= device[w[1]]}
           at(w, slot) == Slot(rows[w[1]], w[2]) = slot
<1>0. LifeInv /\ LensInv
  BY DEF CacheInv
<1>1. ASSUME NEW r \in InCur, NEW i \in Nat, i <= device[r] PROVE SubSeq(Text(r), 1, i) \in Seq(Tokens)
  <2>1. /\ r \in live /\ r \in Reqs /\ r \notin deferred /\ ids[r] \in Seq(Tokens) /\ device[r] \in Nat
        /\ device[r] <= Len(ids[r]) + Lag(r)
    BY <1>0 DEF LifeInv, LensInv, Phases, Members, Waiting, Fields
  <2>2. Unseen = InLast \ (last.partial \union finished) /\ (~Overlap => Unseen = {} /\ InLast = {})
    BY <1>0, UnseenIdle
  <2>3. CASE r \in Unseen
    <3>1. Data = last /\ r \in InLast \ last.partial
      BY <2>2, <2>3 DEF Data
    <3>2. Data.token[r] \in Tokens
      BY <1>0, <3>1 DEF LensInv, Sampled, InLast
    <3>3. Text(r) = Append(ids[r], Data.token[r])
      BY <2>3 DEF Text
    <3>4. Lag(r) = 1
      BY <2>3 DEF Lag
    <3>5. Text(r) \in Seq(Tokens) /\ Len(Text(r)) = Len(ids[r]) + 1 /\ Len(ids[r]) \in Nat
      BY <2>1, <3>2, <3>3
    <3>6. i \in 0 .. Len(Text(r))
      BY <1>1, <2>1, <3>4, <3>5
    <3>. QED  BY <3>5, <3>6, PrefixCut
  <2>4. CASE r \notin Unseen
    <3>1. Text(r) = ids[r] /\ Lag(r) = 0
      BY <2>1, <2>4 DEF Text, Lag
    <3>2. Len(ids[r]) \in Nat
      BY <2>1
    <3>3. i \in 0 .. Len(Text(r)) /\ Text(r) \in Seq(Tokens)
      BY <1>1, <2>1, <3>1, <3>2
    <3>. QED  BY <3>3, PrefixCut
  <2>. QED  BY <2>3, <2>4
<1>2. ASSUME NEW w \in writes PROVE SubSeq(Text(w[1]), 1, w[2]) \in Seq(Tokens)
  <2>1. w[1] \in InCur /\ w[2] \in Nat /\ w[2] <= device[w[1]]
    BY DEF CacheAssumption
  <2>. QED  BY <1>1, <2>1
<1>3. Written(rows) = [slot \in Slots |->
                         IF \E w \in writes : at(w, slot)
                         THEN SubSeq(Text((CHOOSE w \in writes : at(w, slot))[1]), 1, (CHOOSE w \in writes : at(w, slot))[2])
                         ELSE kv[slot]]
  BY DEF Written, InCur
<1>4. kv \in [Slots -> Seq(Tokens)]
  BY DEF KindsInv
<1> HIDE DEF writes, at
<1>. QED  BY <1>2, <1>3, <1>4

LEMMA KindsForward ==
  ASSUME CacheAssumption, CacheInv, KindsInv, PageInv', Forward
  PROVE  KindsInv'
<1>0. LifeInv
  BY DEF CacheInv
<1>1. /\ pc = "forward" /\ UNCHANGED <<handle, live, reserved, last>>
      /\ \/ pc' = "crashed" /\ UNCHANGED <<kv, row, cur>>
         \/ Launches
  BY ForwardIs
<1>2. CASE pc' = "crashed" /\ UNCHANGED <<kv, row, cur>>
  BY <1>1, <1>2 DEF KindsInv
<1>3. CASE Launches
  <2>1. PICK R \in Evictions(Needed) : Allocate(Needed, R)
    BY <1>3 DEF Launches
  <2> DEFINE pages == SubSeq(Gathered(R), 1, Needed)
  <2>2. row' = NewRows(pages) /\ kv' = Written(NewRows(pages))
    BY <2>1 DEF Allocate, Gathered
  <2> HIDE DEF pages
  <2>3. kv' \in [Slots -> Seq(Tokens)]
    BY <1>1, <2>2, KindsWritten
  <2>4. row' \in [Reqs -> Seq(Pages)]
    <3>1. \A q \in InCur : row'[q] \in Seq(Pages)
      <4>1. InCur \subseteq live'
        BY <1>0, <1>1 DEF LifeInv, Phases
      <4>. QED  BY <4>1 DEF PageInv, RowsInv, RowOf
    <3>2. \A q \in Reqs \ InCur : row'[q] \in Seq(Pages)
      <4>1. \A q \in Reqs \ InCur : row'[q] = row[q]
        BY <2>2 DEF NewRows, InCur
      <4>. QED  BY <4>1 DEF KindsInv
    <3>3. row' = [q \in Reqs |-> row'[q]]
      BY <2>2 DEF NewRows
    <3>. QED  BY <3>1, <3>2, <3>3
  <2>5. pc' = "post" /\ cur'.prefill = cur.prefill
    BY <1>0, <1>3 DEF Launches, LifeInv, Lists, IsBatch
  <2>. QED  BY <1>1, <2>3, <2>4, <2>5 DEF KindsInv
<1>. QED  BY <1>1, <1>2, <1>3

\* What reserved_size starts from is a length.
LEMMA InflightNat ==
  ASSUME CacheAssumption, LifeInv
  PROVE  InflightTokens \in Nat
<1> DEFINE f == [r \in Reqs |-> RemainLen(r)]
           z == [r \in Reqs |-> 0]
           P == running
           fr == [r \in P |-> f[r]]
           zr == [r \in P |-> 0]
<1>1. /\ IsFiniteSet(Reqs) /\ P \in SUBSET Reqs /\ f \in [Reqs -> Int]
      /\ InflightTokens = Total(f, P) + (PageSize - 1) * Cardinality(P)
  BY InflightIs
<1>2. \A r \in P : f[r] \in Nat
  BY <1>1 DEF LifeInv, AllKept, Fields, RemainLen
<1>3. IsFiniteSet(P) /\ Cardinality(P) \in Nat
  BY <1>1, FS_Subset, FS_CardinalityType
<1>4. (PageSize - 1) * Cardinality(P) \in Nat
  <2>1. \A x, y \in Nat : x * y \in Nat
    OBVIOUS
  <2>2. PageSize - 1 \in Nat
    BY DEF CacheAssumption
  <2> HIDE DEF P
  <2>. QED  BY <1>3, <2>1, <2>2
<1>5. fr \in [P -> Int] /\ zr \in [P -> Int] /\ \A r \in P : zr[r] <= fr[r] /\ fr[r] = f[r] /\ zr[r] = 0
  BY <1>2
<1> HIDE DEF f, z, P, fr, zr
<1>6. Total(zr, P) <= Total(fr, P)
  BY <1>3, <1>5, TotalMono
<1>7. Total(fr, P) = Total(f, P)
  BY <1>1, <1>3, <1>5, TotalAgree
<1>8. Total(zr, P) = 0
  BY <1>3, <1>5, TotalZero
<1>9. Total(f, P) \in Int
  BY <1>1, TotalRules
<1>10. Total(f, P) \in Nat
  BY <1>6, <1>7, <1>8, <1>9
<1>. QED  BY <1>1, <1>4, <1>10

LEMMA KindsPostProcess ==
  ASSUME CacheAssumption, CacheInv, PageInv, Sized(tree), KindsInv, PostProcess
  PROVE  KindsInv'
<1>0. LifeInv /\ LensInv
  BY DEF CacheInv
<1> DEFINE a == Head(todo)
<1>1. /\ pc = "post" /\ pc' = pc /\ UNCHANGED <<kv, reserved, cur, last>> /\ a \in Reqs /\ a \in InTodo
      /\ \/ a \in Skipped /\ Skips
         \/ a \notin Skipped /\ (Stops(a, Append(ids[a], Data.token[a])) \/ GoesOn(a, Append(ids[a], Data.token[a])))
  BY <1>0, PostProcessIs
<1>2. PICK r \in Reqs : r = a
  BY <1>1
<1> DEFINE text == Append(ids[r], Data.token[r])
<1>3. /\ r \in InTodo
      /\ \/ r \in Skipped /\ Skips
         \/ r \notin Skipped /\ (Stops(r, text) \/ GoesOn(r, text))
  BY <1>1, <1>2
<1> HIDE DEF a
<1>4. r \notin Skipped => text \in Seq(Tokens) /\ r \in live /\ Lag(r) <= 1 + (Len(text) - Len(ids[r]))
  BY <1>0, <1>1, <1>3, SampledText
<1>5. ids[r] \in Seq(Tokens)
  BY <1>0 DEF LifeInv, Fields
<1>6. r \notin Skipped => IsPrefix(ids[r], text)
  <2>1. IsPrefix(ids[r], ids[r])
    BY <1>5, PrefixOrder
  <2>. QED  BY <1>4, <1>5, <2>1, PrefixAppend
<1> HIDE DEF text
<1>7. row' \in [Reqs -> Seq(Pages)] /\ handle' \in [Reqs -> Seq(Tokens)]
  <2>1. CASE r \in Skipped /\ Skips
    BY <2>1 DEF Skips, KindsInv
  <2>2. CASE r \notin Skipped /\ Stops(r, text)
    BY <2>2, KindsRelease DEF Stops
  <2>3. CASE r \notin Skipped /\ GoesOn(r, text)
    <3>1. row' = row /\ live' = live
      BY <2>3 DEF GoesOn
    <3>2. CASE Data.prefill
      <4>1. CacheReq(r, text, FALSE)
        BY <2>3, <3>2 DEF GoesOn
      <4>2. \E path \in Seq(Tokens) : handle' = [handle EXCEPT ![r] = path]
        BY <1>4, <1>6, <2>3, <3>1, <4>1, HandleGrows
      <4>. QED  BY <3>1, <4>2 DEF KindsInv
    <3>3. CASE ~Data.prefill
      BY <2>3, <3>1, <3>3 DEF GoesOn, KindsInv
    <3>. QED  BY <3>2, <3>3
  <2>. QED  BY <1>3, <2>1, <2>2, <2>3
<1>. QED  BY <1>1, <1>7 DEF KindsInv

LEMMA KindsHandleAbort ==
  ASSUME CacheInv, KindsInv, NEW r \in Reqs, HandleAbort(r)
  PROVE  KindsInv'
<1>1. /\ pc \in {"wait", "recv"} /\ pc' = "recv" /\ UNCHANGED <<kv, reserved, cur, last>>
      /\ UNCHANGED <<row, handle>> \/ Release(r, ids[r]) \/ Forget({r})
  BY DEF HandleAbort, Receiving, adder, reqVars
<1>2. row' \in [Reqs -> Seq(Pages)] /\ handle' \in [Reqs -> Seq(Tokens)]
  <2>1. CASE UNCHANGED <<row, handle>>
    BY <2>1 DEF KindsInv
  <2>2. CASE Release(r, ids[r])
    BY <2>2, KindsRelease
  <2>3. CASE Forget({r})
    BY <2>3, KindsForget
  <2>. QED  BY <1>1, <2>1, <2>2, <2>3
<1>. QED  BY <1>1, <1>2 DEF KindsInv

LEMMA KindsCloseBatch ==
  ASSUME LifeInv, KindsInv, CloseBatch
  PROVE  KindsInv'
<1>1. /\ pc = "admit" /\ pc' = "forward" /\ UNCHANGED <<kv, reserved, last, row, handle>>
      /\ \/ cur' = cur
         \/ \E order \in SetToSeqs(running) : cur' = [cur EXCEPT !.reqs = order]
  BY DEF CloseBatch, adder, reqVars
<1>2. cur'.prefill = cur.prefill /\ cur'.token = cur.token
  BY <1>1 DEF LifeInv, Lists, IsBatch
<1>. QED  BY <1>1, <1>2 DEF KindsInv

LEMMA KindsNext ==
  ASSUME CacheAssumption, CacheInv, PageInv, AheadInv, Sized(tree), KindsInv, PageInv', [Next]_vars
  PROVE  KindsInv'
<1>0. LifeInv
  BY DEF CacheInv
<1>1. CASE UNCHANGED vars \/ Idle \/ StartTick \/ FailedPrepare \/ \E r \in Reqs : HandleUser(r)
  <2>1. UNCHANGED <<row, handle, kv, reserved, cur, last>>
    BY <1>1 DEF vars, Idle, StartTick, FailedPrepare, HandleUser, adder, reqVars, batchVars
  <2>2. \/ pc' = pc
        \/ pc' \in {"wait", "recv", "crashed", "failed"} /\ pc /= "post"
    <3>1. CASE UNCHANGED vars \/ Idle
      BY <3>1 DEF vars, Idle
    <3>2. CASE StartTick \/ FailedPrepare
      BY <3>2 DEF StartTick, FailedPrepare
    <3>3. CASE \E r \in Reqs : HandleUser(r)
      <4>1. pc \in {"wait", "recv"} /\ pc' = "recv"
        BY <3>3 DEF HandleUser, Receiving
      <4>. QED  BY <4>1
    <3>. QED  BY <1>1, <3>1, <3>2, <3>3
  <2>. QED  BY <2>1, <2>2 DEF KindsInv
<1>2. CASE EndReceive
  <2>1. InflightTokens \in Nat
    BY <1>0, InflightNat
  <2>. QED  BY <1>2, <2>1 DEF KindsInv, EndReceive, reqVars, batchVars
<1>3. CASE Continue
  BY <1>3, KindsContinue
<1>4. CASE Admit
  BY <1>4, KindsAdmit
<1>5. CASE CloseBatch
  BY <1>0, <1>5, KindsCloseBatch
<1>6. CASE Forward
  BY <1>6, KindsForward
<1>7. CASE PostProcess
  BY <1>7, KindsPostProcess
<1>8. CASE FreeDeferred
  <2>1. /\ pc = "post" /\ pc' = pc /\ UNCHANGED <<kv, reserved, cur, last>>
        /\ \E r \in deferred : Release(r, ids[r]) /\ deferred' = deferred \ {r}
    BY <1>0, <1>8, FreeDeferredIs
  <2>2. row' \in [Reqs -> Seq(Pages)] /\ handle' \in [Reqs -> Seq(Tokens)]
    BY <2>1, KindsRelease
  <2>. QED  BY <2>1, <2>2 DEF KindsInv
<1>9. CASE EndTick
  <2>1. /\ pc' = "loop" /\ cur' = NoBatch /\ last' \in {cur, NoBatch} /\ UNCHANGED <<kv, reserved>> /\ Forget(finished)
    BY <1>9 DEF EndTick, adder
  <2>2. row' \in [Reqs -> Seq(Pages)] /\ handle' \in [Reqs -> Seq(Tokens)]
    BY <2>1, KindsForget
  <2>3. NoBatch.prefill = FALSE /\ NoBatch.token = <<>>
    BY DEF NoBatch
  <2>. QED  BY <2>1, <2>2, <2>3 DEF KindsInv
<1>10. ASSUME NEW r \in Reqs, HandleAbort(r) PROVE KindsInv'
  BY <1>10, KindsHandleAbort
<1>. QED
  BY <1>1, <1>2, <1>3, <1>4, <1>5, <1>6, <1>7, <1>8, <1>9, <1>10 DEF Next, Step

LEMMA KindsInit == ASSUME CacheAssumption, Init PROVE KindsInv
<1>1. <<>> \in Seq(Pages) /\ Root \in Seq(Tokens) /\ <<>> \in Seq(Tokens)
  BY EmptySeq, PrefixOrder DEF Root
<1>2. NoBatch.prefill = FALSE /\ NoBatch.token = <<>>
  BY DEF NoBatch
<1>. QED  BY <1>1, <1>2 DEF Init, KindsInv

LEMMA TypesAre ==
  ASSUME CacheAssumption, CacheInv, PageInv, AheadInv, Sized(tree), KindsInv
  PROVE  TypeOK
<1>0. LifeInv /\ LensInv
  BY DEF CacheInv
<1>1. /\ IsTree(tree, Tokens) /\ tree.evictable \in Nat /\ tree.protected \in Nat
  BY RoomFacts
<1>2. /\ DOMAIN tree.page \subseteq Seq(Tokens) \ {Root} /\ Nodes(tree) \subseteq DOMAIN tree.page
      /\ \A n \in Nodes(tree) : tree.ref[n] \in Nat
  BY <1>1 DEF IsTree
<1>3. Range(tree.ref) \subseteq Nat
  BY <1>2 DEF Range, Nodes
<1>4. Range(tree.page) \subseteq Pages /\ free \in Seq(Pages)
  BY DEF PageInv, PagesHeld, Range
<1>5. /\ arrived \subseteq Reqs /\ pending \in Seq(Reqs) /\ chunk \union running \subseteq live /\ live \subseteq Reqs
      /\ ids \in [Reqs -> Seq(Tokens)] /\ limit \in [Reqs -> Nat] /\ cached \in [Reqs -> Nat]
      /\ device \in [Reqs -> Nat] /\ budget \in Nat /\ todo \in Seq(Reqs)
      /\ deferred \subseteq Range(last.reqs) /\ finished \subseteq Reqs
  BY <1>0 DEF LifeInv, Lists, Members, Fields, Waiting, Phases, InLast
<1>6. ASSUME NEW b, b = cur \/ b = last
      PROVE  /\ b.reqs \in Seq(Reqs) /\ b.prefill \in BOOLEAN /\ b.partial \subseteq Range(b.reqs)
             /\ Range(b.token) \subseteq Tokens /\ DOMAIN b.token \subseteq Range(b.reqs) \ b.partial
  <2>1. IsBatch(b) /\ b.prefill \in BOOLEAN
    BY <1>0, <1>6 DEF LifeInv, Lists, KindsInv
  <2>2. Sampled(b) \/ b.token = <<>>
    BY <1>0, <1>6 DEF LensInv, KindsInv
  <2>3. CASE Sampled(b)
    <3>1. DOMAIN b.token = Range(b.reqs) \ b.partial /\ \A x \in DOMAIN b.token : b.token[x] \in Tokens
      BY <2>3 DEF Sampled
    <3>. QED  BY <2>1, <3>1 DEF IsBatch, Range
  <2>4. CASE b.token = <<>>
    <3>1. DOMAIN b.token = {}
      BY <2>4
    <3>. QED  BY <2>1, <3>1 DEF IsBatch, Range
  <2>. QED  BY <2>2, <2>3, <2>4
<1>7. \A b \in {cur, last} :
        /\ b.reqs \in Seq(Reqs) /\ b.prefill \in BOOLEAN /\ b.partial \subseteq Range(b.reqs)
        /\ Range(b.token) \subseteq Tokens /\ DOMAIN b.token \subseteq Range(b.reqs) \ b.partial
  BY <1>6
<1>. QED  BY <1>1, <1>2, <1>3, <1>4, <1>5, <1>7 DEF TypeOK, KindsInv

(* Every variable keeps its type, in either loop: no length, size or budget goes
   below zero, and what is read of a row, a slot or a batch is one. *)
THEOREM TypeCorrect == Spec => []TypeOK
<1> DEFINE Inv == CacheInv /\ PageInv /\ AheadInv /\ KindsInv
<1>1. Init => Inv
  BY CacheAssumption, LifeInit, LensInit, HeldInit, PagesInit, AheadInit, KindsInit DEF CacheInv
<1>2. Sized(tree) /\ Inv /\ [Next]_vars => Inv'
  <2> SUFFICES ASSUME Sized(tree), CacheInv, PageInv, AheadInv, KindsInv, [Next]_vars PROVE Inv'
    OBVIOUS
  <2>1. CacheInv' /\ PageInv' /\ AheadInv'
    BY CacheAssumption, InvNext, PagesNext, AheadNext
  <2>2. KindsInv'
    BY CacheAssumption, <2>1, KindsNext
  <2>. QED  BY <2>1, <2>2
<1>3. SizesExact => Sized(tree)
  BY DEF Sized, SizesExact
<1>4. Sized(tree) /\ Inv => TypeOK
  BY CacheAssumption, TypesAre
<1>. QED
  BY <1>1, <1>2, <1>3, <1>4, SizesCorrect, PTL DEF Spec

=============================================================================
