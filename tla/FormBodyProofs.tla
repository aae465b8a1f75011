--------------------------- MODULE FormBodyProofs ---------------------------
(***************************************************************************)
(* What the decoders of forms and images make of what a client encodes,    *)
(* for texts and images of any length.                                     *)
(***************************************************************************)
EXTENDS FormBody, NumberLemmas, SequenceTheorems, TLAPS

-----------------------------------------------------------------------------
(* FlattenSeq, whose definition is recursive.                              *)

(* The function it defines, up to the n-th part. *)
Flat(s, n, f) == f = [m \in 1 .. n |-> IF m = 1 THEN s[m] ELSE f[m - 1] \o s[m]]

LEMMA FlatExists ==
  ASSUME NEW s, NEW n \in Nat \ {0}
  PROVE  \E f : Flat(s, n, f)
<1> DEFINE T == {m \in Nat \ {0} : ~\E f : Flat(s, m, f)}
<1> SUFFICES ASSUME T # {} PROVE FALSE
  OBVIOUS
<1>1. PICK m \in T : \A l \in T : m <= l
  <2>1. T \subseteq Nat
    OBVIOUS
  <2> HIDE DEF T
  <2> QED BY <2>1, LeastNatural
<1>2. CASE m = 1
  <2>1. Flat(s, 1, [l \in 1 .. 1 |-> s[l]])
    BY DEF Flat
  <2> QED BY <1>2, <2>1
<1>3. CASE m # 1
  <2>1. m - 1 \in Nat \ {0} /\ m - 1 \notin T
    BY <1>1, <1>3
  <2>2. PICK f : Flat(s, m - 1, f)
    BY <2>1
  <2> DEFINE g == [l \in 1 .. m |-> IF l = m THEN f[m - 1] \o s[m] ELSE f[l]]
  <2>3. \A l \in 1 .. m - 1 : f[l] = IF l = 1 THEN s[l] ELSE f[l - 1] \o s[l]
    BY <2>2 DEF Flat
  <2>4. \A l \in 1 .. m : g[l] = IF l = 1 THEN s[l] ELSE g[l - 1] \o s[l]
    BY <1>3, <2>1, <2>3
  <2>5. Flat(s, m, g)
    BY <2>4 DEF Flat
  <2> QED BY <2>5
<1> QED BY <1>2, <1>3

LEMMA FlatIs ==
  ASSUME NEW s, Len(s) \in Nat \ {0}
  PROVE  \E f : /\ FlattenSeq(s) = f[Len(s)]
                /\ \A m \in 1 .. Len(s) : f[m] = IF m = 1 THEN s[m] ELSE f[m - 1] \o s[m]
<1> DEFINE f == CHOOSE g : Flat(s, Len(s), g)
<1>1. Flat(s, Len(s), f)
  BY FlatExists
<1>2. FlattenSeq(s) = f[Len(s)]
  BY DEF FlattenSeq, Flat
<1> HIDE DEF f
<1>3. \A m \in 1 .. Len(s) : f[m] = IF m = 1 THEN s[m] ELSE f[m - 1] \o s[m]
  BY <1>1 DEF Flat
<1> QED BY <1>2, <1>3

(* Where the parts of a sequence of sequences are in its concatenation.    *)
IsLayout(s, off) ==
  /\ off \in [1 .. Len(s) + 1 -> Nat]
  /\ off[1] = 0
  /\ \A k \in 1 .. Len(s) : off[k + 1] = off[k] + Len(s[k])
  /\ Len(FlattenSeq(s)) = off[Len(s) + 1]
  /\ \A k \in 1 .. Len(s) : off[k] + Len(s[k]) <= Len(FlattenSeq(s))
  /\ \A k \in 1 .. Len(s) : \A j \in 1 .. Len(s[k]) : FlattenSeq(s)[off[k] + j] = s[k][j]

LEMMA Concat ==
  ASSUME NEW D, NEW a \in Seq(D), NEW b \in Seq(D)
  PROVE  /\ a \o b \in Seq(D) /\ Len(a) \in Nat /\ Len(b) \in Nat
         /\ Len(a \o b) = Len(a) + Len(b)
         /\ \A k \in 1 .. Len(a) : (a \o b)[k] = a[k]
         /\ \A k \in 1 .. Len(b) : (a \o b)[Len(a) + k] = b[k]
<1>1. Len(a) \in Nat /\ Len(b) \in Nat /\ a \o b \in Seq(D) /\ Len(a \o b) = Len(a) + Len(b)
  BY LenProperties, ConcatProperties
<1>2. \A k \in 1 .. Len(a) : (a \o b)[k] = a[k]
  BY <1>1, ConcatProperties
<1>3. ASSUME NEW k \in 1 .. Len(b) PROVE (a \o b)[Len(a) + k] = b[k]
  <2>1. /\ Len(a) + k \in 1 .. Len(a) + Len(b)
        /\ ~(Len(a) + k <= Len(a)) /\ Len(a) + k - Len(a) = k
    BY <1>1
  <2> QED BY <2>1, ConcatProperties
<1> QED BY <1>1, <1>2, <1>3

LEMMA ConcatChars ==
  ASSUME NEW a \in Seq(Char), NEW b \in Seq(Char)
  PROVE  /\ a \o b \in Seq(Char) /\ Len(a) \in Nat /\ Len(b) \in Nat
         /\ Len(a \o b) = Len(a) + Len(b)
         /\ \A k \in 1 .. Len(a) : (a \o b)[k] = a[k]
         /\ \A k \in 1 .. Len(b) : (a \o b)[Len(a) + k] = b[k]
BY Concat

(* The first m parts are laid out in the prefix f[m] of the concatenation. *)
Laid(D, s, f, off, m) ==
  /\ f[m] \in Seq(D)
  /\ Len(f[m]) = off[m] + Len(s[m])
  /\ \A k \in 1 .. m : off[k] \in Nat /\ off[k] + Len(s[k]) <= Len(f[m])
  /\ \A k \in 1 .. m : \A j \in 1 .. Len(s[k]) : f[m][off[k] + j] = s[k][j]

LEMMA LaidNext ==
  ASSUME NEW D, NEW s, NEW f, NEW off, NEW m \in Nat, m > 1,
         \A k \in 1 .. m : s[k] \in Seq(D),
         Laid(D, s, f, off, m - 1),
         f[m] = f[m - 1] \o s[m], off[m] = Len(f[m - 1])
  PROVE  Laid(D, s, f, off, m)
<1> DEFINE g == f[m - 1]
           h == f[m]
           t == s[m]
<1>1. /\ g \in Seq(D) /\ t \in Seq(D) /\ h = g \o t /\ off[m] = Len(g)
      /\ \A k \in 1 .. m - 1 : off[k] \in Nat /\ off[k] + Len(s[k]) <= Len(g)
      /\ \A k \in 1 .. m - 1 : \A j \in 1 .. Len(s[k]) : g[off[k] + j] = s[k][j]
  BY DEF Laid
<1>2. \A k \in 1 .. m : Len(s[k]) \in Nat
  BY LenProperties
<1> HIDE DEF g, h, t
<1>3. /\ h \in Seq(D) /\ Len(g) \in Nat /\ Len(t) \in Nat /\ Len(h) = Len(g) + Len(t)
      /\ \A k \in 1 .. Len(g) : h[k] = g[k]
      /\ \A k \in 1 .. Len(t) : h[Len(g) + k] = t[k]
  BY <1>1, Concat
<1>4. \A k \in 1 .. m : k \in 1 .. m - 1 \/ k = m
  OBVIOUS
<1>5. ASSUME NEW k \in 1 .. m
      PROVE  /\ off[k] \in Nat /\ off[k] + Len(s[k]) <= Len(h)
             /\ \A j \in 1 .. Len(s[k]) : h[off[k] + j] = s[k][j]
  <2>1. CASE k = m
    <3>1. s[k] = t /\ off[k] = Len(g)
      BY <1>1, <2>1 DEF t
    <3>2. off[k] \in Nat /\ off[k] + Len(s[k]) <= Len(h)
      BY <1>3, <3>1
    <3>3. \A j \in 1 .. Len(s[k]) : h[off[k] + j] = s[k][j]
      BY <1>3, <3>1
    <3> QED BY <3>2, <3>3
  <2>2. CASE k \in 1 .. m - 1
    <3>1. /\ off[k] \in Nat /\ off[k] + Len(s[k]) <= Len(g) /\ Len(s[k]) \in Nat
          /\ \A j \in 1 .. Len(s[k]) : g[off[k] + j] = s[k][j]
      BY <1>1, <1>2, <2>2
    <3>2. \A j \in 1 .. Len(s[k]) : off[k] + j \in 1 .. Len(g)
      <4>1. /\ off[k] \in Nat /\ off[k] + Len(s[k]) <= Len(g)
            /\ Len(s[k]) \in Nat /\ Len(g) \in Nat
        BY <1>3, <3>1
      <4> QED BY <4>1
    <3>3. off[k] \in Nat /\ off[k] + Len(s[k]) <= Len(h)
      BY <1>3, <3>1
    <3>4. \A j \in 1 .. Len(s[k]) : h[off[k] + j] = s[k][j]
      BY <1>3, <3>1, <3>2, Zenon
    <3> QED BY <3>3, <3>4
  <2> QED BY <1>4, <2>1, <2>2
<1>6. h \in Seq(D) /\ Len(h) = off[m] + Len(t)
  BY <1>1, <1>3
<1> QED BY <1>5, <1>6 DEF Laid, h, t

LEMMA AllLaid ==
  ASSUME NEW D, NEW s, NEW f, NEW off, NEW n \in Nat,
         \A k \in 1 .. n : s[k] \in Seq(D) /\ f[k] = IF k = 1 THEN s[k] ELSE f[k - 1] \o s[k],
         \A k \in 1 .. n : off[k] = IF k = 1 THEN 0 ELSE Len(f[k - 1])
  PROVE  \A m \in 1 .. n : Laid(D, s, f, off, m)
<1> DEFINE T == {m \in 1 .. n : ~Laid(D, s, f, off, m)}
<1> SUFFICES ASSUME T # {} PROVE FALSE
  OBVIOUS
<1>1. PICK m \in T : \A l \in T : m <= l
  <2>1. T \subseteq Nat
    OBVIOUS
  <2> HIDE DEF T
  <2> QED BY <2>1, LeastNatural
<1>2. m \in 1 .. n /\ m \in Nat /\ ~Laid(D, s, f, off, m)
  BY <1>1
<1>3. \A k \in 1 .. m : k \in 1 .. n
  BY <1>2
<1>4. CASE m = 1
  <2>1. f[1] = s[1] /\ off[1] = 0 /\ s[1] \in Seq(D) /\ Len(s[1]) \in Nat
    BY <1>2, <1>4, LenProperties
  <2>2. Laid(D, s, f, off, 1)
    BY <2>1 DEF Laid
  <2> QED BY <1>2, <1>4, <2>2
<1>5. CASE m > 1
  <2>1. m - 1 \in 1 .. n /\ m - 1 \notin T
    BY <1>1, <1>2, <1>5
  <2>2. Laid(D, s, f, off, m - 1)
    BY <2>1
  <2> HIDE DEF T
  <2>3. f[m] = f[m - 1] \o s[m] /\ off[m] = Len(f[m - 1])
    <3>1. m # 1
      BY <1>2, <1>5
    <3>2. /\ f[m] = IF m = 1 THEN s[m] ELSE f[m - 1] \o s[m]
          /\ off[m] = IF m = 1 THEN 0 ELSE Len(f[m - 1])
      BY <1>2, Zenon
    <3> QED BY <3>1, <3>2, Zenon
  <2>4. \A k \in 1 .. m : s[k] \in Seq(D)
    BY <1>3
  <2> QED BY <1>2, <1>5, <2>2, <2>3, <2>4, LaidNext
<1> QED BY <1>2, <1>4, <1>5

LEMMA LayoutExists ==
  ASSUME NEW D, NEW s \in Seq(Seq(D))
  PROVE  FlattenSeq(s) \in Seq(D) /\ \E off : IsLayout(s, off)
<1> DEFINE n == Len(s)
<1>1. n \in Nat /\ \A k \in 1 .. n : s[k] \in Seq(D) /\ Len(s[k]) \in Nat
  BY LenProperties
<1>2. CASE n = 0
  <2>1. FlattenSeq(s) = s /\ s = <<>>
    BY <1>2, EmptySeq DEF FlattenSeq
  <2>2. IsLayout(s, [k \in 1 .. 1 |-> 0])
    BY <1>2, <2>1 DEF IsLayout
  <2>3. FlattenSeq(s) \in Seq(D)
    BY <2>1, EmptySeq
  <2> QED BY <2>2, <2>3
<1>3. CASE n # 0
  <2>1. PICK f : /\ FlattenSeq(s) = f[n]
                 /\ \A m \in 1 .. n : f[m] = IF m = 1 THEN s[m] ELSE f[m - 1] \o s[m]
    BY <1>1, <1>3, FlatIs
  <2> DEFINE off == [k \in 1 .. n + 1 |-> IF k = 1 THEN 0 ELSE Len(f[k - 1])]
  <2>2. /\ \A k \in 1 .. n : off[k] = IF k = 1 THEN 0 ELSE Len(f[k - 1])
        /\ off[1] = 0 /\ off[n + 1] = Len(f[n])
    BY <1>1, <1>3
  <2>3. \A k \in 1 .. n : k + 1 \in 1 .. n + 1 /\ k + 1 # 1 /\ (k + 1) - 1 = k
    BY <1>1
  <2>4. \A k \in 1 .. n : off[k + 1] = Len(f[k])
    BY <2>3
  <2>5. DOMAIN off = 1 .. n + 1 /\ off = [k \in 1 .. n + 1 |-> off[k]]
    OBVIOUS
  <2> HIDE DEF off
  <2>6. \A m \in 1 .. n : Laid(D, s, f, off, m)
    BY <1>1, <2>1, <2>2, AllLaid
  <2>7. Laid(D, s, f, off, n)
    BY <1>1, <1>3, <2>6
  <2>8. \A k \in 1 .. n + 1 : k \in 1 .. n \/ k = n + 1
    BY <1>1
  <2>9. Len(f[n]) \in Nat /\ f[n] \in Seq(D)
    BY <2>7, LenProperties DEF Laid
  <2>10. off \in [1 .. n + 1 -> Nat]
    <3>1. \A k \in 1 .. n + 1 : off[k] \in Nat
      BY <2>2, <2>7, <2>8, <2>9 DEF Laid
    <3> QED BY <2>5, <3>1
  <2>11. \A k \in 1 .. n : off[k + 1] = off[k] + Len(s[k])
    BY <2>4, <2>6 DEF Laid
  <2>12. IsLayout(s, off)
    BY <2>1, <2>2, <2>7, <2>10, <2>11 DEF IsLayout, Laid
  <2> QED BY <2>1, <2>9, <2>12
<1> QED BY <1>2, <1>3
-----------------------------------------------------------------------------
(* Where what a client encodes is in the body.                             *)

Offsets(s) == CHOOSE off : IsLayout(s, off)

LEMMA Layout ==
  ASSUME NEW D, NEW s \in Seq(Seq(D))
  PROVE  FlattenSeq(s) \in Seq(D) /\ IsLayout(s, Offsets(s))
BY LayoutExists DEF Offsets

Parts(t) == [k \in DOMAIN t |-> Encoded(t[k])]
Segments(f) ==
  [k \in DOMAIN f |-> (IF k = 1 THEN <<>> ELSE <<Ampersand>>) \o Field(f[k])]

Fields == Seq(Char) \X Seq(Char)

(* The position behind the p-th character of a text, in its encoding, and  *)
(* where the name (1) and the value (2) of the k-th field are in the body. *)
Behind(t, p) == Offsets(Parts(t))[p + 1]
Start(f, k, side) ==
  Offsets(Segments(f))[k] + (IF k = 1 THEN 0 ELSE 1)
    + (IF side = 1 THEN 0 ELSE Len(UrlEncoded(f[k][1])) + 1)
Where(f, k, side, p) == Start(f, k, side) + Behind(f[k][side], p)

LEMMA EncodedIs ==
  ASSUME NEW c \in Char
  PROVE  Encoded(c) \in Seq(Char) /\ Len(Encoded(c)) \in {1, 3}
<1>1. c \div 16 \in 0 .. 15 /\ c % 16 \in 0 .. 15
  BY DEF Char
<1>2. HexDigit(c \div 16) \in Char /\ HexDigit(c % 16) \in Char /\ Percent \in Char
  BY <1>1 DEF HexDigit, Percent, Char
<1>3. /\ <<c>> \in Seq(Char) /\ Len(<<c>>) = 1
      /\ <<Plus>> \in Seq(Char) /\ Len(<<Plus>>) = 1
  BY DEF Plus, Char
<1>4. /\ <<Percent, HexDigit(c \div 16), HexDigit(c % 16)>> \in Seq(Char)
      /\ Len(<<Percent, HexDigit(c \div 16), HexDigit(c % 16)>>) = 3
  BY <1>2
<1> QED BY <1>3, <1>4 DEF Encoded

(* The encoding of a text is that of its characters, one after the other.  *)
LEMMA TextIs ==
  ASSUME NEW t \in Seq(Char)
  PROVE  /\ UrlEncoded(t) \in Seq(Char) /\ Len(t) \in Nat /\ Len(UrlEncoded(t)) \in Nat
         /\ Behind(t, 0) = 0 /\ Behind(t, Len(t)) = Len(UrlEncoded(t))
         /\ \A p \in 0 .. Len(t) : Behind(t, p) \in Nat
         /\ \A p \in 0 .. Len(t) - 1 :
              LET e == Encoded(t[p + 1])
              IN  /\ Behind(t, p + 1) = Behind(t, p) + Len(e)
                  /\ Behind(t, p) + Len(e) <= Len(UrlEncoded(t))
                  /\ \A j \in 1 .. Len(e) : UrlEncoded(t)[Behind(t, p) + j] = e[j]
<1> DEFINE s == Parts(t)
           off == Offsets(s)
           n == Len(t)
<1>1. n \in Nat /\ DOMAIN t = 1 .. n /\ \A k \in 1 .. n : t[k] \in Char
  BY LenProperties
<1>2. s \in Seq(Seq(Char)) /\ Len(s) = n /\ \A k \in 1 .. n : s[k] = Encoded(t[k])
  <2>1. s = [k \in 1 .. n |-> Encoded(t[k])]
    BY <1>1 DEF Parts
  <2>2. s \in [1 .. n -> Seq(Char)]
    BY <1>1, <2>1, EncodedIs
  <2>3. s \in Seq(Seq(Char)) /\ DOMAIN s = 1 .. n
    BY <1>1, <2>2, IsASeq
  <2>4. Len(s) = n
    BY <1>1, <2>3, LenProperties
  <2> QED BY <2>1, <2>3, <2>4
<1>3. UrlEncoded(t) = FlattenSeq(s)
  BY DEF UrlEncoded, Parts
<1> HIDE DEF s
<1>4. FlattenSeq(s) \in Seq(Char) /\ IsLayout(s, off)
  BY <1>2, Layout
<1>5. \A p : Behind(t, p) = off[p + 1]
  BY DEF Behind, s
<1> HIDE DEF off
<1>6. off \in [1 .. n + 1 -> Nat] /\ off[1] = 0 /\ Len(FlattenSeq(s)) = off[n + 1]
  BY <1>2, <1>4 DEF IsLayout
<1>7. \A p \in 0 .. n : p + 1 \in 1 .. n + 1
  BY <1>1
<1>8. \A p \in 0 .. n : Behind(t, p) \in Nat
  BY <1>5, <1>6, <1>7
<1>9. ASSUME NEW p \in 0 .. n - 1
      PROVE  LET e == Encoded(t[p + 1])
             IN  /\ Behind(t, p + 1) = Behind(t, p) + Len(e)
                 /\ Behind(t, p) + Len(e) <= Len(UrlEncoded(t))
                 /\ \A j \in 1 .. Len(e) : UrlEncoded(t)[Behind(t, p) + j] = e[j]
  <2>1. p + 1 \in 1 .. n
    BY <1>1
  <2>2. s[p + 1] = Encoded(t[p + 1])
    BY <1>2, <2>1
  <2>3. /\ off[(p + 1) + 1] = off[p + 1] + Len(s[p + 1])
        /\ off[p + 1] + Len(s[p + 1]) <= Len(FlattenSeq(s))
        /\ \A j \in 1 .. Len(s[p + 1]) : FlattenSeq(s)[off[p + 1] + j] = s[p + 1][j]
    BY <1>2, <1>4, <2>1 DEF IsLayout
  <2> QED BY <1>3, <1>5, <2>2, <2>3
<1>10. Behind(t, 0) = 0 /\ Behind(t, n) = Len(UrlEncoded(t)) /\ Len(UrlEncoded(t)) \in Nat
  BY <1>1, <1>3, <1>5, <1>6
<1> QED BY <1>1, <1>3, <1>4, <1>8, <1>9, <1>10

LEMMA FieldIs ==
  ASSUME NEW h \in Fields
  PROVE  LET a == UrlEncoded(h[1])
             v == UrlEncoded(h[2])
             g == Field(h)
         IN  /\ g \in Seq(Char) /\ Len(a) \in Nat /\ Len(v) \in Nat
             /\ Len(g) = Len(a) + 1 + Len(v)
             /\ \A j \in 1 .. Len(a) : g[j] = a[j]
             /\ g[Len(a) + 1] = Equals
             /\ \A j \in 1 .. Len(v) : g[Len(a) + 1 + j] = v[j]
<1> DEFINE a == UrlEncoded(h[1])
           v == UrlEncoded(h[2])
           e == <<Equals>>
           ae == a \o e
           g == ae \o v
<1>1. a \in Seq(Char) /\ v \in Seq(Char) /\ Len(a) \in Nat /\ Len(v) \in Nat
  BY TextIs DEF Fields
<1>2. e \in Seq(Char) /\ Len(e) = 1 /\ e[1] = Equals
  BY DEF Equals, Char
<1>3. Field(h) = g
  BY DEF Field
<1> HIDE DEF a, v, e
<1>4. /\ ae \in Seq(Char) /\ Len(ae) = Len(a) + 1
      /\ \A j \in 1 .. Len(a) : ae[j] = a[j]
      /\ ae[Len(a) + 1] = Equals
  <2>1. /\ ae \in Seq(Char) /\ Len(ae) = Len(a) + Len(e)
        /\ \A j \in 1 .. Len(a) : ae[j] = a[j]
        /\ \A j \in 1 .. Len(e) : ae[Len(a) + j] = e[j]
    BY <1>1, <1>2, ConcatChars
  <2> HIDE DEF ae
  <2> QED BY <1>2, <2>1
<1> HIDE DEF ae
<1>5. /\ g \in Seq(Char) /\ Len(g) = Len(ae) + Len(v)
      /\ \A j \in 1 .. Len(ae) : g[j] = ae[j]
      /\ \A j \in 1 .. Len(v) : g[Len(ae) + j] = v[j]
  BY <1>1, <1>4, ConcatChars
<1> HIDE DEF g
<1>6. \A j \in 1 .. Len(a) : g[j] = a[j]
  <2>1. \A j \in 1 .. Len(a) : j \in 1 .. Len(ae)
    BY <1>1, <1>4
  <2> QED BY <1>4, <1>5, <2>1
<1>7. g[Len(a) + 1] = Equals
  <2>1. Len(a) + 1 \in 1 .. Len(ae)
    BY <1>1, <1>4
  <2> QED BY <1>4, <1>5, <2>1
<1>8. \A j \in 1 .. Len(v) : g[Len(a) + 1 + j] = v[j]
  BY <1>4, <1>5
<1>9. Len(g) = Len(a) + 1 + Len(v)
  BY <1>1, <1>4, <1>5
<1> QED BY <1>1, <1>3, <1>5, <1>6, <1>7, <1>8, <1>9 DEF a, v

(* The k-th part of a body: an ampersand but in the first one, then a field. *)
LEMMA SegmentIs ==
  ASSUME NEW f \in Seq(Fields), NEW k \in 1 .. Len(f)
  PROVE  LET h == Field(f[k])
             d == IF k = 1 THEN 0 ELSE 1
             g == Segments(f)[k]
         IN  /\ g \in Seq(Char) /\ Len(h) \in Nat /\ Len(g) = d + Len(h)
             /\ k # 1 => g[1] = Ampersand
             /\ \A j \in 1 .. Len(h) : g[d + j] = h[j]
<1> DEFINE h == Field(f[k])
           c == <<Ampersand>>
           g == Segments(f)[k]
<1>1. f[k] \in Fields /\ k \in DOMAIN f
  BY LenProperties
<1>2. h \in Seq(Char) /\ Len(h) \in Nat
  BY <1>1, FieldIs, LenProperties
<1>3. g = (IF k = 1 THEN <<>> ELSE c) \o h
  BY <1>1 DEF Segments
<1>4. c \in Seq(Char) /\ Len(c) = 1 /\ c[1] = Ampersand
  BY DEF Ampersand, Char
<1> HIDE DEF h, c, g
<1>5. CASE k = 1
  <2>1. g = h
    <3>1. g = <<>> \o h
      BY <1>3, <1>5
    <3> QED BY <1>2, <3>1, ConcatEmptySeq
  <2> QED BY <1>2, <1>5, <2>1 DEF g, h
<1>6. CASE k # 1
  <2>1. g = c \o h
    BY <1>3, <1>6
  <2>2. /\ g \in Seq(Char) /\ Len(g) = Len(c) + Len(h)
        /\ \A j \in 1 .. Len(c) : g[j] = c[j]
        /\ \A j \in 1 .. Len(h) : g[Len(c) + j] = h[j]
    BY <1>2, <1>4, <2>1, ConcatChars
  <2>3. g[1] = Ampersand /\ Len(g) = 1 + Len(h) /\ \A j \in 1 .. Len(h) : g[1 + j] = h[j]
    BY <1>4, <2>2
  <2> QED BY <1>2, <1>6, <2>2, <2>3 DEF g, h
<1> QED BY <1>5, <1>6

LEMMA BodyIs ==
  ASSUME NEW f \in Seq(Fields)
  PROVE  /\ Body(f) \in Seq(Char) /\ Len(f) \in Nat
         /\ IsLayout(Segments(f), Offsets(Segments(f)))
         /\ Len(Segments(f)) = Len(f)
         /\ Body(f) = FlattenSeq(Segments(f))
<1>1. Len(f) \in Nat /\ DOMAIN f = 1 .. Len(f)
  BY LenProperties
<1>2. DOMAIN Segments(f) = 1 .. Len(f)
  BY <1>1 DEF Segments
<1>3. \A k \in 1 .. Len(f) : Segments(f)[k] \in Seq(Char)
  BY SegmentIs
<1>4. Segments(f) = [k \in 1 .. Len(f) |-> Segments(f)[k]]
  BY <1>1 DEF Segments
<1>5. Segments(f) \in Seq(Seq(Char))
  <2>1. Segments(f) \in [1 .. Len(f) -> Seq(Char)]
    BY <1>3, <1>4
  <2> QED BY <1>1, <2>1, IsASeq
<1>6. Len(Segments(f)) = Len(f)
  BY <1>1, <1>2, <1>5, LenProperties
<1>7. Body(f) = FlattenSeq(Segments(f))
  BY DEF Body, Segments
<1> QED BY <1>1, <1>5, <1>6, <1>7, Layout

(* What is at each place of a body, and which place is the next one.       *)
LEMMA Reads ==
  ASSUME NEW f \in Seq(Fields), NEW k \in 1 .. Len(f), NEW side \in {1, 2},
         NEW p \in 0 .. Len(f[k][side])
  PROVE  LET t == f[k][side]
             e == Encoded(t[p + 1])
             w == Where(f, k, side, p)
             b == Body(f)
         IN  /\ w \in Nat /\ b \in Seq(Char) /\ Len(b) \in Nat
             /\ p < Len(t) =>
                  /\ Where(f, k, side, p + 1) = w + Len(e) /\ w + Len(e) <= Len(b)
                  /\ \A j \in 1 .. Len(e) : b[w + j] = e[j]
             /\ p = Len(t) /\ side = 1 =>
                  Where(f, k, 2, 0) = w + 1 /\ w + 1 <= Len(b) /\ b[w + 1] = Equals
             /\ p = Len(t) /\ side = 2 =>
                  IF k < Len(f)
                    THEN /\ Where(f, k + 1, 1, 0) = w + 1 /\ w + 1 <= Len(b)
                         /\ b[w + 1] = Ampersand
                    ELSE w = Len(b)
<1> DEFINE b == Body(f)
           off == Offsets(Segments(f))
           n == Len(f)
           d == IF k = 1 THEN 0 ELSE 1
           g == Segments(f)[k]
           h == Field(f[k])
           A == Len(UrlEncoded(f[k][1]))
           V == Len(UrlEncoded(f[k][2]))
           t == f[k][side]
           u == UrlEncoded(t)
           q == Behind(t, p)
           w == Where(f, k, side, p)
           z == IF side = 1 THEN 0 ELSE A + 1
           C == off[k] + d
           B == C + z
<1>1. /\ f[k] \in Fields /\ f[k][1] \in Seq(Char) /\ f[k][2] \in Seq(Char) /\ t \in Seq(Char)
  BY DEF Fields
<1>2. /\ b \in Seq(Char) /\ Len(b) \in Nat /\ n \in Nat
      /\ off \in [1 .. n + 1 -> Nat] /\ Len(b) = off[n + 1]
      /\ \A l \in 1 .. n : off[l + 1] = off[l] + Len(Segments(f)[l])
      /\ \A l \in 1 .. n : \A j \in 1 .. Len(Segments(f)[l]) :
           b[off[l] + j] = Segments(f)[l][j]
  <2>1. /\ b \in Seq(Char) /\ n \in Nat /\ IsLayout(Segments(f), off)
        /\ Len(Segments(f)) = n /\ b = FlattenSeq(Segments(f))
    BY BodyIs
  <2>2. Len(b) \in Nat
    BY <2>1, LenProperties
  <2> HIDE DEF b, off, n
  <2> QED BY <2>1, <2>2 DEF IsLayout
<1>3. /\ Len(h) = A + 1 + V /\ A \in Nat /\ V \in Nat
      /\ \A j \in 1 .. A : h[j] = UrlEncoded(f[k][1])[j]
      /\ h[A + 1] = Equals
      /\ \A j \in 1 .. V : h[A + 1 + j] = UrlEncoded(f[k][2])[j]
  BY <1>1, FieldIs
<1>4. /\ Len(g) = d + Len(h)
      /\ \A j \in 1 .. Len(h) : g[d + j] = h[j]
  BY SegmentIs
<1>5. /\ Len(t) \in Nat /\ q \in Nat /\ Behind(t, 0) = 0 /\ Behind(t, Len(t)) = Len(u)
      /\ Len(u) = IF side = 1 THEN A ELSE V
      /\ \A r \in 0 .. Len(t) : Behind(t, r) \in Nat
  BY <1>1, TextIs
<1>6. /\ k \in 1 .. n /\ k + 1 \in 1 .. n + 1 /\ off[k] \in Nat /\ off[k + 1] \in Nat
      /\ off[k + 1] = off[k] + Len(g) /\ d \in {0, 1} /\ z \in Nat
      /\ \A j \in 1 .. Len(g) : b[off[k] + j] = g[j]
  <2>1. d \in {0, 1} /\ z \in Nat
    BY <1>3
  <2> HIDE DEF d, z, g, b, off, n
  <2>2. k \in 1 .. n /\ k + 1 \in 1 .. n + 1 /\ k \in 1 .. n + 1
    BY <1>2 DEF n
  <2>3. off[k + 1] = off[k] + Len(g) /\ \A j \in 1 .. Len(g) : b[off[k] + j] = g[j]
    BY <1>2, <2>2 DEF g
  <2> QED BY <1>2, <2>1, <2>2, <2>3
<1>7. \A r : Where(f, k, side, r) = off[k] + d + z + Behind(t, r)
  BY DEF Where, Start
<1>8. Where(f, k, 2, 0) = off[k] + d + (A + 1) /\ (k < n => Where(f, k + 1, 1, 0) = off[k + 1] + 1)
  <2>1. Behind(f[k][2], 0) = 0
    BY <1>1, TextIs
  <2>2. Where(f, k, 2, 0) = off[k] + d + (A + 1) + 0
    BY <2>1 DEF Where, Start
  <2>3. ASSUME k < n PROVE Where(f, k + 1, 1, 0) = off[k + 1] + 1
    <3>1. k + 1 \in 1 .. n /\ k + 1 # 1
      BY <1>2, <1>6, <2>3
    <3>2. f[k + 1] \in Fields
      BY <3>1
    <3>3. Behind(f[k + 1][1], 0) = 0
      BY <3>2, TextIs DEF Fields
    <3>4. Where(f, k + 1, 1, 0) = off[k + 1] + 1 + 0 + 0
      BY <3>1, <3>3 DEF Where, Start
    <3> QED BY <1>6, <3>4
  <2> HIDE DEF d, A, off
  <2> QED BY <1>3, <1>6, <2>2, <2>3
<1>9. /\ k + 1 \in 1 .. n => Segments(f)[k + 1][1] = Ampersand /\ Len(Segments(f)[k + 1]) >= 1
  <2> SUFFICES ASSUME k + 1 \in 1 .. n
               PROVE  Segments(f)[k + 1][1] = Ampersand /\ Len(Segments(f)[k + 1]) >= 1
    OBVIOUS
  <2>1. /\ Len(Segments(f)[k + 1]) = 1 + Len(Field(f[k + 1])) /\ Len(Field(f[k + 1])) \in Nat
        /\ Segments(f)[k + 1][1] = Ampersand
    BY <1>6, SegmentIs
  <2> QED BY <2>1
<1>10. /\ p < Len(t) =>
             /\ Behind(t, p + 1) = q + Len(Encoded(t[p + 1])) /\ q + Len(Encoded(t[p + 1])) <= Len(u)
             /\ \A j \in 1 .. Len(Encoded(t[p + 1])) : u[q + j] = Encoded(t[p + 1])[j]
       /\ p < Len(t) => Len(Encoded(t[p + 1])) \in Nat
  <2> SUFFICES ASSUME p < Len(t)
               PROVE  LET e == Encoded(t[p + 1])
                      IN  /\ Behind(t, p + 1) = q + Len(e) /\ q + Len(e) <= Len(u)
                          /\ \A j \in 1 .. Len(e) : u[q + j] = e[j]
                          /\ Len(e) \in Nat
    OBVIOUS
  <2>1. p \in 0 .. Len(t) - 1 /\ p + 1 \in 1 .. Len(t)
    BY <1>5
  <2>2. t[p + 1] \in Char
    BY <1>1, <2>1
  <2>3. Len(Encoded(t[p + 1])) \in Nat
    BY <2>2, EncodedIs
  <2> HIDE DEF t
  <2> QED BY <1>1, <2>1, <2>3, TextIs
<1>11. \A j \in 1 .. Len(u) : h[z + j] = u[j]
  <2>1. CASE side = 1
    BY <1>3, <2>1
  <2>2. CASE side = 2
    BY <1>3, <2>2
  <2> QED BY <2>1, <2>2
<1>12. off[k] + Len(g) <= Len(b) /\ (k + 1 \in 1 .. n => off[k + 1] + 1 <= Len(b))
  <2>1. \A l \in 1 .. n : off[l] + Len(Segments(f)[l]) <= Len(b)
    BY BodyIs DEF IsLayout
  <2> HIDE DEF b, off, n
  <2>2. ASSUME k + 1 \in 1 .. n PROVE off[k + 1] + 1 <= Len(b)
    <3>1. off[k + 1] + Len(Segments(f)[k + 1]) <= Len(b) /\ Len(Segments(f)[k + 1]) >= 1
      BY <1>9, <2>1, <2>2
    <3>2. Len(Segments(f)[k + 1]) \in Nat
      <4>1. Segments(f)[k + 1] \in Seq(Char)
        BY <2>2, SegmentIs DEF n
      <4> QED BY <4>1, LenProperties
    <3>3. Len(b) \in Nat /\ off[k + 1] \in Nat
      BY <1>2, <1>6
    <3> QED BY <3>1, <3>2, <3>3
  <2> QED BY <1>6, <2>1, <2>2
<1>13. b \in Seq(Char) /\ w = off[k] + d + z + q
  BY <1>2, <1>7
<1>14. z + Len(u) <= Len(h) /\ Len(h) \in Nat /\ Len(u) \in Nat
  BY <1>3, <1>5
<1>15. \A j \in 1 .. Len(h) : b[off[k] + d + j] = h[j]
  <2> HIDE DEF b, off, n, d, g, h, A, V, t, u, q, w, z
  <2> TAKE j \in 1 .. Len(h)
  <2>1. d + j \in 1 .. Len(g) /\ g[d + j] = h[j]
    BY <1>4, <1>6, <1>14
  <2>2. b[off[k] + (d + j)] = g[d + j]
    BY <1>6, <2>1
  <2>3. off[k] + (d + j) = off[k] + d + j
    BY <1>6, <1>14
  <2> QED BY <2>1, <2>2, <2>3
<1>16. /\ C \in Nat /\ z \in Nat /\ q \in Nat /\ Len(u) \in Nat /\ Len(h) \in Nat
       /\ A \in Nat /\ V \in Nat /\ Len(b) \in Nat
       /\ Len(h) = (A + 1) + V /\ z + Len(u) <= Len(h)
       /\ C + Len(h) <= Len(b) /\ off[k + 1] = C + Len(h)
       /\ off[k] + d = C
  <2> HIDE DEF b, off, n, d, g, h, A, V, t, u, q, w, z
  <2>1. d \in Nat /\ Len(g) = d + Len(h)
    BY <1>4, <1>6
  <2>2. off[k] \in Nat /\ off[k + 1] = off[k] + Len(g) /\ off[k] + Len(g) <= Len(b)
    BY <1>6, <1>12
  <2>3. C \in Nat /\ off[k] + Len(g) = C + Len(h)
    <3>1. Len(h) \in Nat
      BY <1>14
    <3> QED BY <2>1, <2>2, <3>1
  <2>4. off[k] + d = C
    OBVIOUS
  <2> HIDE DEF C
  <2> QED BY <1>2, <1>3, <1>5, <1>6, <1>14, <2>2, <2>3, <2>4
<1>17. B \in Nat /\ w = B + q /\ w \in Nat /\ B + Len(u) <= Len(b) /\ B = C + z
       /\ \A r : Where(f, k, side, r) = B + Behind(t, r)
  <2>1. /\ w = off[k] + d + z + q
        /\ \A r : Where(f, k, side, r) = off[k] + d + z + Behind(t, r)
    BY <1>7
  <2>2. w = B + q /\ \A r : Where(f, k, side, r) = B + Behind(t, r)
    BY <2>1
  <2>3. B = C + z
    OBVIOUS
  <2> HIDE DEF b, off, n, d, g, h, A, V, t, u, q, w, z, B, C
  <2>4. B \in Nat /\ B + Len(u) <= C + Len(h)
    BY <1>16, <2>3
  <2>5. B + Len(u) <= Len(b)
    BY <1>16, <2>4
  <2>6. w \in Nat
    BY <1>16, <2>2, <2>4
  <2> QED BY <2>2, <2>3, <2>4, <2>5, <2>6
<1>18. \A j \in 1 .. Len(h) : b[C + j] = h[j]
  BY <1>15
<1>19. CASE p < Len(t)
  <2> DEFINE e == Encoded(t[p + 1])
  <2>1. /\ Behind(t, p + 1) = q + Len(e) /\ q + Len(e) <= Len(u) /\ Len(e) \in Nat
        /\ \A j \in 1 .. Len(e) : u[q + j] = e[j]
    BY <1>10, <1>19
  <2>2. p # Len(t)
    BY <1>5, <1>19
  <2> HIDE DEF b, off, n, d, g, h, A, V, t, u, q, w, z, e, B, C
  <2>3. Where(f, k, side, p + 1) = B + (q + Len(e))
    BY <1>17, <2>1
  <2>4. /\ w = B + q /\ B = C + z /\ B + Len(u) <= Len(b) /\ z + Len(u) <= Len(h)
        /\ q + Len(e) <= Len(u)
        /\ B \in Nat /\ C \in Nat /\ z \in Nat /\ q \in Nat /\ Len(e) \in Nat
        /\ Len(u) \in Nat /\ Len(b) \in Nat /\ Len(h) \in Nat
    BY <1>16, <1>17, <2>1
  <2>5. Where(f, k, side, p + 1) = w + Len(e) /\ w + Len(e) <= Len(b)
    BY <2>3, <2>4
  <2>6. ASSUME NEW j \in 1 .. Len(e) PROVE b[w + j] = e[j]
    <3>1. /\ q + j \in 1 .. Len(u) /\ z + (q + j) \in 1 .. Len(h)
          /\ C + (z + (q + j)) = w + j
      BY <2>4
    <3>2. b[C + (z + (q + j))] = h[z + (q + j)]
      BY <1>18, <3>1
    <3>3. h[z + (q + j)] = u[q + j] /\ u[q + j] = e[j]
      BY <1>11, <2>1, <3>1
    <3> QED BY <3>1, <3>2, <3>3
  <2> QED BY <1>13, <1>16, <1>17, <2>2, <2>5, <2>6 DEF b, t, w, e
<1>20. CASE p = Len(t) /\ side = 1
  <2>1. z = 0 /\ q = A
    BY <1>5, <1>20
  <2>2. side # 2 /\ ~(p < Len(t))
    BY <1>5, <1>20
  <2>3. Where(f, k, 2, 0) = C + (A + 1)
    BY <1>8
  <2> HIDE DEF b, off, n, d, g, h, A, V, t, u, q, w, z, B, C
  <2>4. w = C + A /\ A + 1 \in 1 .. Len(h)
    BY <1>16, <1>17, <2>1
  <2>5. C + (A + 1) = w + 1
    BY <1>16, <2>4
  <2>6. b[w + 1] = Equals
    <3>1. b[C + (A + 1)] = h[A + 1]
      BY <1>18, <2>4
    <3> QED BY <1>3, <2>5, <3>1
  <2>7. w + 1 <= Len(b)
    <3>1. C + (A + 1) <= C + Len(h)
      BY <1>16, <2>4
    <3> QED BY <1>16, <1>17, <2>5, <3>1
  <2> QED BY <1>13, <1>16, <1>17, <1>20, <2>2, <2>3, <2>5, <2>6, <2>7 DEF b, t, w
<1>21. CASE p = Len(t) /\ side = 2
  <2>1. z = A + 1 /\ q = V
    BY <1>5, <1>21
  <2>2. side # 1 /\ ~(p < Len(t))
    BY <1>5, <1>21
  <2> HIDE DEF b, off, d, g, h, A, V, t, u, q, w, z, B, C
  <2>3. w = off[k + 1]
    BY <1>16, <1>17, <2>1
  <2>4. ASSUME k < n
        PROVE  /\ Where(f, k + 1, 1, 0) = w + 1 /\ w + 1 <= Len(b)
               /\ b[w + 1] = Ampersand
    <3>1. k + 1 \in 1 .. n
      BY <1>2, <2>4
    <3>2. b[off[k + 1] + 1] = Segments(f)[k + 1][1]
      <4>1. 1 \in 1 .. Len(Segments(f)[k + 1])
        <5>1. Len(Segments(f)[k + 1]) \in Nat
          BY <3>1, SegmentIs, LenProperties
        <5> QED BY <1>9, <3>1, <5>1
      <4> QED BY <1>2, <3>1, <4>1
    <3> QED BY <1>8, <1>9, <1>12, <2>3, <2>4, <3>1, <3>2
  <2>5. ASSUME ~(k < n) PROVE w = Len(b)
    <3>1. k = n
      BY <1>2, <2>5
    <3> QED BY <1>2, <2>3, <3>1
  <2> QED BY <1>13, <1>16, <1>17, <1>21, <2>2, <2>4, <2>5 DEF b, t, w
<1> QED BY <1>5, <1>19, <1>20, <1>21
-----------------------------------------------------------------------------
(* The loop.                                                               *)

(* What the client encoded, and what the fields 1 .. k are in post_.       *)
Sent ==
  /\ form \in Seq(Fields) /\ body = Body(form)
  /\ \A j, k \in 1 .. Len(form) : form[j][1] = form[k][1] => j = k
  /\ \A k \in 1 .. Len(form) : AsLeft(form[k][1]) = form[k][1]
  /\ image # <<>> => image \in Seq(Char) /\ form = <<<<ImgStr, Base64(image)>>>>
Collected(k) ==
  /\ DOMAIN post = {form[j][1] : j \in 1 .. k}
  /\ \A j \in 1 .. k : post[form[j][1]] = AsLeft(form[j][2])

(* The loop is behind the p-th character of the name or the value of the   *)
(* k-th field.                                                             *)
Reading(k, side, p) ==
  /\ i = Where(form, k, side, p) + 1
  /\ cur = SubSeq(AsLeft(form[k][side]), 1, p)
  /\ side = 2 => key = form[k][1]
  /\ Collected(k - 1)

Somewhere ==
  \E k \in 1 .. Len(form), side \in {1, 2} :
    \E p \in 0 .. Len(form[k][side]) : Reading(k, side, p)

(* The invariant: the loop is somewhere in what the client encoded, and    *)
(* has decoded all that is before this place.                              *)
FormInv ==
  /\ Sent
  /\ decoded \in BOOLEAN
  /\ decoded => \A k \in 1 .. Len(form) : Post(form[k][1]) = AsLeft(form[k][2])
  /\ ~decoded /\ form = <<>> => i = 1 /\ cur = <<>> /\ post = <<>>
  /\ ~decoded /\ form # <<>> => Somewhere

(* A text with plus signs for its spaces.                                  *)
LEMMA AsLeftIs ==
  ASSUME NEW t \in Seq(Char)
  PROVE  /\ AsLeft(t) \in Seq(Char) /\ Len(AsLeft(t)) = Len(t) /\ Len(t) \in Nat
         /\ \A p \in 1 .. Len(t) : AsLeft(t)[p] = Left(t[p])
<1>1. Len(t) \in Nat /\ DOMAIN t = 1 .. Len(t) /\ \A p \in 1 .. Len(t) : t[p] \in Char
  BY LenProperties
<1>2. \A p \in 1 .. Len(t) : Left(t[p]) \in Char
  BY <1>1 DEF Left, Plus, Char
<1>3. AsLeft(t) = [p \in 1 .. Len(t) |-> Left(t[p])]
  BY <1>1 DEF AsLeft
<1>4. AsLeft(t) \in [1 .. Len(t) -> Char]
  BY <1>2, <1>3
<1>5. AsLeft(t) \in Seq(Char) /\ DOMAIN AsLeft(t) = 1 .. Len(t)
  BY <1>1, <1>4, IsASeq
<1> QED BY <1>1, <1>3, <1>5, LenProperties

LEMMA NoSpaces ==
  ASSUME NEW t \in Seq(Char), \A p \in DOMAIN t : t[p] # Space
  PROVE  AsLeft(t) = t
<1>1. t = [p \in DOMAIN t |-> t[p]]
  BY LenProperties
<1>2. AsLeft(t) = [p \in DOMAIN t |-> t[p]]
  BY DEF AsLeft, Left
<1> QED BY <1>1, <1>2

LEMMA TextPrefixes ==
  ASSUME NEW t \in Seq(Char)
  PROVE  /\ SubSeq(t, 1, 0) = <<>> /\ SubSeq(t, 1, Len(t)) = t
         /\ \A p \in 0 .. Len(t) - 1 :
              SubSeq(t, 1, p + 1) = Append(SubSeq(t, 1, p), t[p + 1])
<1>1. Len(t) \in Nat
  BY LenProperties
<1>2. SubSeq(t, 1, 0) = <<>>
  BY <1>1, SubSeqEmpty
<1>3. SubSeq(t, 1, Len(t)) = t
  BY SubSeqFull
<1>4. ASSUME NEW p \in 0 .. Len(t) - 1
      PROVE  SubSeq(t, 1, p + 1) = Append(SubSeq(t, 1, p), t[p + 1])
  <2> DEFINE a == SubSeq(t, 1, p)
  <2>1. /\ p \in Nat /\ p <= Len(t) /\ p + 1 \in 1 .. Len(t) /\ t[p + 1] \in Char
    BY <1>1
  <2>2. /\ a \in Seq(Char) /\ Len(a) = p /\ \A j \in 1 .. p : a[j] = t[j]
    BY <1>1, <2>1, SubSeqProperties
  <2>3. /\ SubSeq(t, 1, p + 1) \in Seq(Char) /\ Len(SubSeq(t, 1, p + 1)) = p + 1
        /\ \A j \in 1 .. p + 1 : SubSeq(t, 1, p + 1)[j] = t[j]
    BY <1>1, <2>1, SubSeqProperties
  <2> HIDE DEF a
  <2>4. /\ Append(a, t[p + 1]) \in Seq(Char) /\ Len(Append(a, t[p + 1])) = p + 1
        /\ \A j \in 1 .. p : Append(a, t[p + 1])[j] = a[j]
        /\ Append(a, t[p + 1])[p + 1] = t[p + 1]
    BY <2>1, <2>2, AppendProperties
  <2>5. \A j \in 1 .. p + 1 : j \in 1 .. p \/ j = p + 1
    BY <2>1
  <2>6. \A j \in 1 .. p + 1 : SubSeq(t, 1, p + 1)[j] = Append(a, t[p + 1])[j]
    BY <2>2, <2>3, <2>4, <2>5
  <2> QED BY <2>3, <2>4, <2>6, SeqEqual DEF a
<1> QED BY <1>2, <1>3, <1>4

LEMMA NextPrefix ==
  ASSUME NEW t \in Seq(Char), NEW p \in 0 .. Len(t) - 1
  PROVE  SubSeq(AsLeft(t), 1, p + 1) = Append(SubSeq(AsLeft(t), 1, p), Left(t[p + 1]))
<1>1. /\ AsLeft(t) \in Seq(Char) /\ Len(AsLeft(t)) = Len(t)
      /\ p + 1 \in 1 .. Len(t) => AsLeft(t)[p + 1] = Left(t[p + 1])
  BY AsLeftIs
<1>2. p + 1 \in 1 .. Len(t) /\ p \in 0 .. Len(AsLeft(t)) - 1
  <2>1. Len(t) \in Nat
    BY LenProperties
  <2> QED BY <1>1, <2>1
<1> HIDE DEF AsLeft
<1> QED BY <1>1, <1>2, TextPrefixes

(* convert_from_hex_ is the inverse of the digits.                         *)
LEMMA HexDigits ==
  ASSUME NEW c \in Char
  PROVE  (FromHex(HexDigit(c \div 16)) * 16 + FromHex(HexDigit(c % 16))) % 256 = c
<1>1. \A d \in 0 .. 15 : FromHex(HexDigit(d)) = d
  BY DEF FromHex, HexDigit, Lower, Upper
<1>2. c \div 16 \in 0 .. 15 /\ c % 16 \in 0 .. 15
  BY DEF Char
<1>3. (c \div 16) * 16 + (c % 16) = c /\ c % 256 = c
  BY DEF Char
<1> QED BY <1>1, <1>2, <1>3

(* What the loop can have before it.                                       *)
Plain == Char \ {Equals, Percent, Ampersand}
AtPlain(k, side, p) ==
  /\ p < Len(form[k][side]) /\ Left(form[k][side][p + 1]) \in Plain
  /\ i <= Len(body) /\ body[i] = Left(form[k][side][p + 1])
  /\ Where(form, k, side, p + 1) = i
AtEscape(k, side, p) ==
  LET c == form[k][side][p + 1]
  IN  /\ p < Len(form[k][side]) /\ c \in Char /\ Left(c) = c
      /\ i <= Len(body) /\ body[i] = Percent
      /\ body[i + 1] = HexDigit(c \div 16) /\ body[i + 2] = HexDigit(c % 16)
      /\ Where(form, k, side, p + 1) = i + 2
AtNameEnd(k, side, p) ==
  /\ p = Len(form[k][side]) /\ side = 1
  /\ i <= Len(body) /\ body[i] = Equals
  /\ Where(form, k, 2, 0) = i
AtValueEnd(k, side, p) ==
  /\ p = Len(form[k][side]) /\ side = 2 /\ k < Len(form)
  /\ i <= Len(body) /\ body[i] = Ampersand
  /\ Where(form, k + 1, 1, 0) = i
AtBodyEnd(k, side, p) ==
  p = Len(form[k][side]) /\ side = 2 /\ k = Len(form) /\ i = Len(body) + 1

LEMMA PlainIs ==
  ASSUME NEW c \in AsIs \cup {Space}
  PROVE  Encoded(c) = <<Left(c)>> /\ Left(c) \in Plain
<1>1. CASE c = Space
  <2>1. Space \notin AsIs /\ Plus \in Plain
    BY DEF AsIs, Plain, Upper, Lower, Digits, Space, Plus, Char, Equals, Percent, Ampersand
  <2> QED BY <1>1, <2>1 DEF Encoded, Left
<1>2. CASE c # Space
  <2>1. c \in AsIs /\ Left(c) = c
    BY <1>2 DEF Left
  <2>2. c \in Plain
    BY <2>1 DEF AsIs, Plain, Upper, Lower, Digits, Char, Equals, Percent, Ampersand
  <2> QED BY <2>1, <2>2 DEF Encoded
<1> QED BY <1>1, <1>2

LEMMA Ahead ==
  ASSUME Sent, NEW k \in 1 .. Len(form), NEW side \in {1, 2},
         NEW p \in 0 .. Len(form[k][side]), i = Where(form, k, side, p) + 1
  PROVE  /\ i \in Nat /\ Len(body) \in Nat
         /\ \/ AtPlain(k, side, p) \/ AtEscape(k, side, p)
            \/ AtNameEnd(k, side, p) \/ AtValueEnd(k, side, p) \/ AtBodyEnd(k, side, p)
<1> DEFINE t == form[k][side]
           c == t[p + 1]
           e == Encoded(c)
           w == Where(form, k, side, p)
<1>1. form \in Seq(Fields) /\ body = Body(form) /\ Len(form) \in Nat
  BY LenProperties DEF Sent
<1>2. t \in Seq(Char) /\ Len(t) \in Nat
  <2>1. form[k] \in Fields
    BY <1>1
  <2> QED BY <2>1, LenProperties DEF Fields
<1>3. /\ w \in Nat /\ body \in Seq(Char) /\ Len(body) \in Nat
      /\ p < Len(t) =>
           /\ Where(form, k, side, p + 1) = w + Len(e) /\ w + Len(e) <= Len(body)
           /\ \A j \in 1 .. Len(e) : body[w + j] = e[j]
      /\ p = Len(t) /\ side = 1 =>
           Where(form, k, 2, 0) = w + 1 /\ w + 1 <= Len(body) /\ body[w + 1] = Equals
      /\ p = Len(t) /\ side = 2 =>
           IF k < Len(form)
             THEN /\ Where(form, k + 1, 1, 0) = w + 1 /\ w + 1 <= Len(body)
                  /\ body[w + 1] = Ampersand
             ELSE w = Len(body)
  <2> DEFINE b == Body(form)
  <2>1. /\ w \in Nat /\ b \in Seq(Char) /\ Len(b) \in Nat
        /\ p < Len(t) =>
             /\ Where(form, k, side, p + 1) = w + Len(e) /\ w + Len(e) <= Len(b)
             /\ \A j \in 1 .. Len(e) : b[w + j] = e[j]
        /\ p = Len(t) /\ side = 1 =>
             Where(form, k, 2, 0) = w + 1 /\ w + 1 <= Len(b) /\ b[w + 1] = Equals
        /\ p = Len(t) /\ side = 2 =>
             IF k < Len(form)
               THEN /\ Where(form, k + 1, 1, 0) = w + 1 /\ w + 1 <= Len(b)
                    /\ b[w + 1] = Ampersand
               ELSE w = Len(b)
    BY <1>1, Reads, Zenon
  <2> QED BY <1>1, <2>1, Zenon
<1> HIDE DEF t, w
<1>4. i = w + 1 /\ i \in Nat
  BY <1>3 DEF w
<1>5. CASE p < Len(t)
  <2>1. c \in Char
    <3>1. p + 1 \in 1 .. Len(t)
      BY <1>2, <1>5 DEF t
    <3> QED BY <1>2, <3>1
  <2>2. CASE c \in AsIs \cup {Space}
    <3>1. e = <<Left(c)>> /\ Left(c) \in Plain
      BY <2>1, <2>2, PlainIs
    <3>2. Len(e) = 1 /\ e[1] = Left(c)
      BY <3>1
    <3> HIDE DEF c, e
    <3>3. /\ Where(form, k, side, p + 1) = w + 1 /\ w + 1 <= Len(body)
          /\ body[w + 1] = Left(c)
      BY <1>3, <1>5, <3>2
    <3> QED BY <1>3, <1>4, <1>5, <3>1, <3>3 DEF t, c, AtPlain
  <2>3. CASE c \notin AsIs \cup {Space}
    <3>0. Left(c) = c
      BY <2>3 DEF Left
    <3>1. e = <<Percent, HexDigit(c \div 16), HexDigit(c % 16)>>
      BY <2>3 DEF Encoded
    <3>2. /\ Len(e) = 3 /\ e[1] = Percent
          /\ e[2] = HexDigit(c \div 16) /\ e[3] = HexDigit(c % 16)
          /\ 1 \in 1 .. 3 /\ 2 \in 1 .. 3 /\ 3 \in 1 .. 3
      BY <3>1
    <3> HIDE DEF c, e
    <3>3. /\ Where(form, k, side, p + 1) = w + 3 /\ w + 3 <= Len(body)
          /\ body[w + 1] = Percent
          /\ body[w + 2] = HexDigit(c \div 16) /\ body[w + 3] = HexDigit(c % 16)
      BY <1>3, <1>5, <3>2
    <3>4. w + 3 = i + 2 /\ w + 2 = i + 1 /\ i <= Len(body)
      <4>1. w \in Nat /\ Len(body) \in Nat /\ w + 3 <= Len(body) /\ i = w + 1
        BY <1>3, <1>4, <3>3
      <4> QED BY <4>1
    <3> QED BY <1>3, <1>4, <1>5, <2>1, <3>0, <3>3, <3>4 DEF t, c, AtEscape
  <2> QED BY <2>2, <2>3
<1>6. CASE p = Len(t) /\ side = 1
  BY <1>3, <1>4, <1>6 DEF t, AtNameEnd
<1>7. CASE p = Len(t) /\ side = 2 /\ k < Len(form)
  BY <1>3, <1>4, <1>7 DEF t, AtValueEnd
<1>8. CASE p = Len(t) /\ side = 2 /\ ~(k < Len(form))
  BY <1>1, <1>3, <1>4, <1>8 DEF t, AtBodyEnd
<1>9. p < Len(t) \/ p = Len(t)
  BY <1>2 DEF t
<1> QED BY <1>5, <1>6, <1>7, <1>8, <1>9
(* What the turns of the loop have in common: where it is, and that it is  *)
(* still in the same form and has not stored anything else.                *)
LEMMA AtTurn ==
  ASSUME FormInv, NEW c, Turn(c)
  PROVE  Sent /\ form # <<>> /\ ~decoded /\ Somewhere
<1>1. Sent /\ ~decoded /\ i <= Len(body)
  BY DEF FormInv, Turn
<1>2. ASSUME form = <<>> PROVE FALSE
  <2>1. i = 1 /\ body = Body(<<>>)
    BY <1>1, <1>2 DEF FormInv, Sent
  <2>2. Body(<<>>) = <<>>
    <3>1. [k \in DOMAIN <<>> |-> (IF k = 1 THEN <<>> ELSE <<Ampersand>>) \o Field(<<>>[k])] = <<>>
      OBVIOUS
    <3> QED BY <3>1 DEF Body, FlattenSeq
  <2> QED BY <1>1, <2>1, <2>2
<1> QED BY <1>1, <1>2 DEF FormInv

LEMMA StillSomewhere ==
  ASSUME FormInv, UNCHANGED source, ~decoded, decoded' = decoded,
         NEW k \in 1 .. Len(form), NEW side \in {1, 2},
         NEW p \in 0 .. Len(form[k][side]), form # <<>>,
         i' = Where(form, k, side, p) + 1, cur' = SubSeq(AsLeft(form[k][side]), 1, p),
         side = 2 => key' = form[k][1], Collected(k - 1)'
  PROVE  FormInv'
<1>1. form' = form /\ body' = body /\ image' = image
  BY DEF source
<1>2. Sent'
  BY <1>1 DEF FormInv, Sent
<1>3. Reading(k, side, p)'
  BY <1>1 DEF Reading
<1>4. Somewhere'
  BY <1>1, <1>3 DEF Somewhere
<1> QED BY <1>1, <1>2, <1>4 DEF FormInv

LEMMA SetKeyKeeps == FormInv /\ SetKey => FormInv'
<1> SUFFICES ASSUME FormInv, SetKey PROVE FormInv'
  OBVIOUS
<1>1. Sent /\ form # <<>> /\ ~decoded /\ Somewhere /\ body[i] = Equals /\ i <= Len(body)
  BY AtTurn DEF SetKey, Turn
<1>2. PICK k \in 1 .. Len(form), side \in {1, 2} :
        \E p \in 0 .. Len(form[k][side]) : Reading(k, side, p)
  BY <1>1 DEF Somewhere
<1>3. PICK p \in 0 .. Len(form[k][side]) : Reading(k, side, p)
  BY <1>2
<1>4. i \in Nat /\ AtNameEnd(k, side, p)
  <2>1. Equals \notin Plain /\ Equals # Percent /\ Equals # Ampersand
    BY DEF Equals, Plain, Percent, Ampersand
  <2>2. /\ i \in Nat /\ Len(body) \in Nat
        /\ \/ AtPlain(k, side, p) \/ AtEscape(k, side, p)
           \/ AtNameEnd(k, side, p) \/ AtValueEnd(k, side, p) \/ AtBodyEnd(k, side, p)
    BY <1>1, <1>3, Ahead DEF Reading
  <2> QED BY <1>1, <2>1, <2>2 DEF AtPlain, AtEscape, AtValueEnd, AtBodyEnd
<1>5. form[k][1] \in Seq(Char) /\ form[k][2] \in Seq(Char)
  BY <1>1 DEF Sent, Fields
<1>6. cur = form[k][1]
  <2>1. /\ cur = SubSeq(AsLeft(form[k][1]), 1, Len(form[k][1]))
        /\ AsLeft(form[k][1]) = form[k][1]
    BY <1>1, <1>3, <1>4 DEF Sent, Reading, AtNameEnd
  <2> QED BY <1>5, <2>1, TextPrefixes
<1>7. /\ i' = Where(form, k, 2, 0) + 1 /\ key' = form[k][1]
      /\ cur' = SubSeq(AsLeft(form[k][2]), 1, 0) /\ 0 \in 0 .. Len(form[k][2])
  BY <1>4, <1>5, <1>6, AsLeftIs, TextPrefixes DEF SetKey, AtNameEnd
<1>8. UNCHANGED <<source, post, decoded>>
  BY DEF SetKey
<1>9. Collected(k - 1)'
  BY <1>3, <1>8 DEF Reading, Collected, source
<1> QED BY <1>1, <1>7, <1>8, <1>9, StillSomewhere

LEMMA CopyKeeps == FormInv /\ Copy => FormInv'
<1> SUFFICES ASSUME FormInv, Copy PROVE FormInv'
  OBVIOUS
<1>1. PICK c \in Plain : Turn(c)
  BY DEF Copy, Plain
<1>2. Sent /\ form # <<>> /\ ~decoded /\ Somewhere /\ body[i] = c /\ i <= Len(body)
  BY <1>1, AtTurn DEF Turn
<1>3. PICK k \in 1 .. Len(form), side \in {1, 2} :
        \E p \in 0 .. Len(form[k][side]) : Reading(k, side, p)
  BY <1>2 DEF Somewhere
<1>4. PICK p \in 0 .. Len(form[k][side]) : Reading(k, side, p)
  BY <1>3
<1> DEFINE t == form[k][side]
<1>5. i \in Nat /\ AtPlain(k, side, p)
  <2>1. c # Percent /\ c # Equals /\ c # Ampersand
    BY <1>1 DEF Plain
  <2>2. /\ i \in Nat /\ Len(body) \in Nat
        /\ \/ AtPlain(k, side, p) \/ AtEscape(k, side, p)
           \/ AtNameEnd(k, side, p) \/ AtValueEnd(k, side, p) \/ AtBodyEnd(k, side, p)
    BY <1>2, <1>4, Ahead DEF Reading
  <2> QED BY <1>2, <2>1, <2>2 DEF AtEscape, AtNameEnd, AtValueEnd, AtBodyEnd
<1>6. t \in Seq(Char) /\ Len(t) \in Nat
  BY <1>2, LenProperties DEF Sent, Fields
<1>7. p \in 0 .. Len(t) - 1 /\ p + 1 \in 0 .. Len(t)
  BY <1>5, <1>6 DEF AtPlain
<1>8. cur' = SubSeq(AsLeft(t), 1, p + 1)
  <2>1. cur' = Append(cur, Left(t[p + 1])) /\ cur = SubSeq(AsLeft(t), 1, p)
    BY <1>4, <1>5 DEF Reading, Copy, AtPlain
  <2> QED BY <1>6, <1>7, <2>1, NextPrefix
<1>9. i' = Where(form, k, side, p + 1) + 1
  BY <1>5 DEF Copy, AtPlain
<1>10. UNCHANGED <<source, key, post, decoded>>
  BY DEF Copy
<1>11. Collected(k - 1)' /\ (side = 2 => key' = form[k][1])
  BY <1>4, <1>10 DEF Reading, Collected, source
<1> QED BY <1>2, <1>7, <1>8, <1>9, <1>10, <1>11, StillSomewhere

LEMMA UnescapeKeeps == FormInv /\ Unescape => FormInv'
<1> SUFFICES ASSUME FormInv, Unescape PROVE FormInv'
  OBVIOUS
<1>1. Sent /\ form # <<>> /\ ~decoded /\ Somewhere /\ body[i] = Percent /\ i <= Len(body)
  BY AtTurn DEF Unescape, Turn
<1>2. PICK k \in 1 .. Len(form), side \in {1, 2} :
        \E p \in 0 .. Len(form[k][side]) : Reading(k, side, p)
  BY <1>1 DEF Somewhere
<1>3. PICK p \in 0 .. Len(form[k][side]) : Reading(k, side, p)
  BY <1>2
<1> DEFINE t == form[k][side]
           c == t[p + 1]
<1>4. i \in Nat /\ AtEscape(k, side, p)
  <2>1. Percent \notin Plain /\ Percent # Equals /\ Percent # Ampersand
    BY DEF Equals, Plain, Percent, Ampersand
  <2>2. /\ i \in Nat /\ Len(body) \in Nat
        /\ \/ AtPlain(k, side, p) \/ AtEscape(k, side, p)
           \/ AtNameEnd(k, side, p) \/ AtValueEnd(k, side, p) \/ AtBodyEnd(k, side, p)
    BY <1>1, <1>3, Ahead DEF Reading
  <2> QED BY <1>1, <2>1, <2>2 DEF AtPlain, AtNameEnd, AtValueEnd, AtBodyEnd
<1>5. (FromHex(body[i + 1]) * 16 + FromHex(body[i + 2])) % 256 = c
  BY <1>4, HexDigits DEF AtEscape
<1>6. t \in Seq(Char) /\ Len(t) \in Nat
  BY <1>1, LenProperties DEF Sent, Fields
<1>7. p \in 0 .. Len(t) - 1 /\ p + 1 \in 0 .. Len(t)
  BY <1>4, <1>6 DEF AtEscape
<1>8. cur' = SubSeq(AsLeft(t), 1, p + 1)
  <2>1. cur' = Append(cur, Left(c)) /\ cur = SubSeq(AsLeft(t), 1, p)
    BY <1>3, <1>4, <1>5 DEF Reading, Unescape, AtEscape
  <2> QED BY <1>6, <1>7, <2>1, NextPrefix
<1>9. i' = Where(form, k, side, p + 1) + 1
  BY <1>4 DEF Unescape, AfterEscape, AtEscape
<1>10. UNCHANGED <<source, key, post, decoded>>
  BY DEF Unescape
<1>11. Collected(k - 1)' /\ (side = 2 => key' = form[k][1])
  BY <1>3, <1>10 DEF Reading, Collected, source
<1> QED BY <1>1, <1>7, <1>8, <1>9, <1>10, <1>11, StillSomewhere

(* post_[key] = cur.                                                       *)
LEMMA StoredIs ==
  /\ DOMAIN Stored = {key} \cup DOMAIN post
  /\ Stored[key] = cur
  /\ \A x \in DOMAIN post : x # key => Stored[x] = post[x]
BY DEF Stored

(* A field that is stored is one more than before.                         *)
LEMMA Collects ==
  ASSUME Sent, NEW k \in 1 .. Len(form), Collected(k - 1), UNCHANGED form,
         key = form[k][1], cur = AsLeft(form[k][2]), post' = Stored
  PROVE  Collected(k)'
<1>1. Len(form) \in Nat /\ \A j \in 1 .. k : j \in 1 .. k - 1 \/ j = k
  BY LenProperties DEF Sent
<1>2. /\ DOMAIN post' = {key} \cup DOMAIN post
      /\ post'[key] = cur
      /\ \A x \in DOMAIN post : x # key => post'[x] = post[x]
  BY StoredIs
<1>3. /\ DOMAIN post = {form[j][1] : j \in 1 .. k - 1}
      /\ \A j \in 1 .. k - 1 : post[form[j][1]] = AsLeft(form[j][2])
  BY DEF Collected
<1>4. k \in 1 .. k /\ \A j \in 1 .. k - 1 : j \in 1 .. k
  BY <1>1
<1>5. DOMAIN post' = {form[j][1] : j \in 1 .. k}
  BY <1>1, <1>2, <1>3, <1>4
<1>6. ASSUME NEW j \in 1 .. k - 1 PROVE post'[form[j][1]] = AsLeft(form[j][2])
  <2>1. j \in 1 .. Len(form) /\ j # k
    BY <1>1
  <2>2. form[j][1] # key /\ form[j][1] \in DOMAIN post
    BY <1>3, <2>1 DEF Sent
  <2> QED BY <1>2, <1>3, <2>2
<1>7. post'[form[k][1]] = AsLeft(form[k][2])
  BY <1>2
<1> QED BY <1>1, <1>5, <1>6, <1>7 DEF Collected

LEMMA StoreKeeps == FormInv /\ Store => FormInv'
<1> SUFFICES ASSUME FormInv, Store PROVE FormInv'
  OBVIOUS
<1>1. Sent /\ form # <<>> /\ ~decoded /\ Somewhere /\ body[i] = Ampersand /\ i <= Len(body)
  BY AtTurn DEF Store, Turn
<1>2. PICK k \in 1 .. Len(form), side \in {1, 2} :
        \E p \in 0 .. Len(form[k][side]) : Reading(k, side, p)
  BY <1>1 DEF Somewhere
<1>3. PICK p \in 0 .. Len(form[k][side]) : Reading(k, side, p)
  BY <1>2
<1>4. i \in Nat /\ AtValueEnd(k, side, p)
  <2>1. Ampersand \notin Plain /\ Ampersand # Equals /\ Ampersand # Percent
    BY DEF Equals, Plain, Percent, Ampersand
  <2>2. /\ i \in Nat /\ Len(body) \in Nat
        /\ \/ AtPlain(k, side, p) \/ AtEscape(k, side, p)
           \/ AtNameEnd(k, side, p) \/ AtValueEnd(k, side, p) \/ AtBodyEnd(k, side, p)
    BY <1>1, <1>3, Ahead DEF Reading
  <2> QED BY <1>1, <2>1, <2>2 DEF AtPlain, AtEscape, AtNameEnd, AtBodyEnd
<1>5. /\ Len(form) \in Nat /\ k + 1 \in 1 .. Len(form) /\ (k + 1) - 1 = k
      /\ form[k][2] \in Seq(Char) /\ form[k + 1][1] \in Seq(Char)
  <2>1. Len(form) \in Nat /\ k + 1 \in 1 .. Len(form) /\ (k + 1) - 1 = k
    <3>1. Len(form) \in Nat /\ k < Len(form)
      BY <1>1, <1>4, LenProperties DEF Sent, AtValueEnd
    <3> QED BY <3>1
  <2>2. form[k] \in Fields /\ form[k + 1] \in Fields
    BY <1>1, <2>1 DEF Sent
  <2> QED BY <2>1, <2>2 DEF Fields
<1>6. key = form[k][1] /\ cur = AsLeft(form[k][2]) /\ Collected(k - 1)
  BY <1>3, <1>4, <1>5, AsLeftIs, TextPrefixes DEF Reading, AtValueEnd
<1>7. UNCHANGED <<source, form, key, decoded>> /\ post' = Stored
  BY DEF Store, source
<1>8. Collected((k + 1) - 1)'
  <2>1. Collected(k)'
    BY <1>1, <1>6, <1>7, Collects
  <2> QED BY <1>5, <2>1
<1>9. /\ i' = Where(form, k + 1, 1, 0) + 1
      /\ cur' = SubSeq(AsLeft(form[k + 1][1]), 1, 0) /\ 0 \in 0 .. Len(form[k + 1][1])
  BY <1>4, <1>5, AsLeftIs, TextPrefixes DEF Store, AtValueEnd
<1> QED BY <1>1, <1>5, <1>7, <1>8, <1>9, StillSomewhere

LEMMA StoreLastKeeps == FormInv /\ StoreLast => FormInv'
<1> SUFFICES ASSUME FormInv, StoreLast PROVE FormInv'
  OBVIOUS
<1>1. Sent /\ ~decoded /\ decoded' /\ decoded' \in BOOLEAN /\ i > Len(body)
  BY DEF FormInv, StoreLast
<1>2. form' = form /\ body' = body /\ image' = image
  BY DEF StoreLast, source
<1>3. Sent'
  BY <1>1, <1>2 DEF Sent
<1>4. \A j \in 1 .. Len(form) : Post(form[j][1])' = AsLeft(form[j][2])
  <2>1. CASE form = <<>>
    BY <2>1
  <2>2. CASE form # <<>>
    <3>1. PICK k \in 1 .. Len(form), side \in {1, 2} :
            \E p \in 0 .. Len(form[k][side]) : Reading(k, side, p)
      BY <1>1, <2>2 DEF FormInv, Somewhere
    <3>2. PICK p \in 0 .. Len(form[k][side]) : Reading(k, side, p)
      BY <3>1
    <3>3. AtBodyEnd(k, side, p)
      <4>1. /\ i \in Nat /\ Len(body) \in Nat
            /\ \/ AtPlain(k, side, p) \/ AtEscape(k, side, p)
               \/ AtNameEnd(k, side, p) \/ AtValueEnd(k, side, p) \/ AtBodyEnd(k, side, p)
        BY <1>1, <3>2, Ahead DEF Reading
      <4>2. ~(i <= Len(body))
        BY <1>1, <4>1
      <4> QED BY <4>1, <4>2 DEF AtPlain, AtEscape, AtNameEnd, AtValueEnd
    <3>4. /\ Len(form) \in Nat /\ k = Len(form) /\ form[k][2] \in Seq(Char)
          /\ \A j \in 1 .. Len(form) : j \in 1 .. k - 1 \/ j = k
      BY <1>1, <3>3, LenProperties DEF Sent, Fields, AtBodyEnd
    <3>5. key = form[k][1] /\ cur = AsLeft(form[k][2]) /\ Collected(k - 1)
      BY <3>2, <3>3, <3>4, AsLeftIs, TextPrefixes DEF Reading, AtBodyEnd
    <3>6. key \notin DOMAIN post
      <4>1. ASSUME NEW j \in 1 .. k - 1 PROVE form[j][1] # form[k][1]
        <5>1. j \in 1 .. Len(form) /\ j # k
          BY <3>4
        <5> QED BY <1>1, <5>1 DEF Sent
      <4> QED BY <3>5, <4>1 DEF Collected
    <3>7. CASE cur # <<>>
      <4>1. Collected(k)'
        BY <1>1, <1>2, <3>5, <3>6, <3>7, Collects DEF StoreLast
      <4>2. k \in 1 .. k /\ \A j \in 1 .. Len(form) : j \in 1 .. k
        BY <3>4
      <4> QED BY <1>2, <4>1, <4>2 DEF Collected, Post
    <3>8. CASE cur = <<>>
      <4>1. post' = post
        BY <3>8 DEF StoreLast
      <4>2. \A j \in 1 .. k - 1 : /\ form[j][1] \in DOMAIN post'
                                   /\ post'[form[j][1]] = AsLeft(form[j][2])
        BY <3>5, <4>1 DEF Collected
      <4>3. form[k][1] \notin DOMAIN post' /\ AsLeft(form[k][2]) = <<>>
        BY <3>5, <3>6, <3>8, <4>1
      <4>4. ASSUME NEW j \in 1 .. Len(form) PROVE Post(form[j][1])' = AsLeft(form[j][2])
        <5>1. form' = form
          BY <1>2
        <5>2. CASE j \in 1 .. k - 1
          BY <4>2, <5>1, <5>2 DEF Post
        <5>3. CASE j = k
          BY <4>3, <5>1, <5>3 DEF Post
        <5> QED BY <3>4, <5>2, <5>3
      <4> QED BY <4>4
    <3> QED BY <3>7, <3>8
  <2> QED BY <2>1, <2>2
<1> QED BY <1>1, <1>2, <1>3, <1>4 DEF FormInv
-----------------------------------------------------------------------------
(* Images: base64_decode gives back the bytes.                             *)

(* The k-th byte and the j-th six bits of an image, behind it zeroes.      *)
Byte(s, k) == IF k <= Len(s) THEN s[k] ELSE 0
Six(s, j) ==
  LET k == (3 * j) \div 4 + 1
      two == Byte(s, k) * 256 + Byte(s, k + 1)
  IN CASE j % 4 = 0 -> two \div 1024
       [] j % 4 = 1 -> (two \div 16) % 64
       [] j % 4 = 2 -> (two \div 64) % 64
       [] j % 4 = 3 -> (two \div 256) % 64

LEMMA ByteIs ==
  ASSUME NEW s \in Seq(Char), NEW k \in Nat \ {0}
  PROVE  Byte(s, k) \in 0 .. 255
<1>1. CASE k <= Len(s)
  <2>1. k \in 1 .. Len(s)
    BY <1>1, LenProperties
  <2>2. s[k] \in Char
    BY <2>1
  <2> QED BY <1>1, <2>2 DEF Byte, Char
<1>2. CASE ~(k <= Len(s))
  BY <1>2 DEF Byte
<1> QED BY <1>1, <1>2

(* Four characters stand for three bytes.                                  *)
LEMMA SixIs ==
  ASSUME NEW s \in Seq(Char), NEW u \in Nat
  PROVE  LET x == Byte(s, 3 * u + 1)
             y == Byte(s, 3 * u + 2)
             z == Byte(s, 3 * u + 3)
         IN  /\ x \in 0 .. 255 /\ y \in 0 .. 255 /\ z \in 0 .. 255
             /\ Six(s, 4 * u) = x \div 4
             /\ Six(s, 4 * u + 1) = (x % 4) * 16 + y \div 16
             /\ Six(s, 4 * u + 2) = (y % 16) * 4 + z \div 64
             /\ Six(s, 4 * u + 3) = z % 64
<1> DEFINE x == Byte(s, 3 * u + 1)
           y == Byte(s, 3 * u + 2)
           z == Byte(s, 3 * u + 3)
           w == Byte(s, 3 * u + 4)
<1>1. x \in 0 .. 255 /\ y \in 0 .. 255 /\ z \in 0 .. 255 /\ w \in 0 .. 255
  <2>1. /\ 3 * u + 1 \in Nat \ {0} /\ 3 * u + 2 \in Nat \ {0}
        /\ 3 * u + 3 \in Nat \ {0} /\ 3 * u + 4 \in Nat \ {0}
    OBVIOUS
  <2> QED BY <2>1, ByteIs
<1>2. Six(s, 4 * u) = x \div 4
  <2>1. /\ (4 * u) % 4 = 0 /\ (3 * (4 * u)) \div 4 + 1 = 3 * u + 1
        /\ ((3 * (4 * u)) \div 4 + 1) + 1 = 3 * u + 2
    OBVIOUS
  <2>2. Six(s, 4 * u) = (x * 256 + y) \div 1024
    BY <2>1 DEF Six
  <2> HIDE DEF x, y
  <2>3. (x * 256 + y) \div 1024 = x \div 4
    BY <1>1
  <2> QED BY <2>2, <2>3
<1>3. Six(s, 4 * u + 1) = (x % 4) * 16 + y \div 16
  <2>1. /\ (4 * u + 1) % 4 = 1 /\ (3 * (4 * u + 1)) \div 4 + 1 = 3 * u + 1
        /\ ((3 * (4 * u + 1)) \div 4 + 1) + 1 = 3 * u + 2
    OBVIOUS
  <2>2. Six(s, 4 * u + 1) = ((x * 256 + y) \div 16) % 64
    BY <2>1 DEF Six
  <2> HIDE DEF x, y
  <2>3. (x * 256 + y) \div 16 = x * 16 + y \div 16
    BY <1>1
  <2>4. (x * 16 + y \div 16) % 64 = (x % 4) * 16 + y \div 16
    BY <1>1
  <2> QED BY <2>2, <2>3, <2>4
<1>4. Six(s, 4 * u + 2) = (y % 16) * 4 + z \div 64
  <2>1. /\ (4 * u + 2) % 4 = 2 /\ (3 * (4 * u + 2)) \div 4 + 1 = 3 * u + 2
        /\ ((3 * (4 * u + 2)) \div 4 + 1) + 1 = 3 * u + 3
    OBVIOUS
  <2>2. Six(s, 4 * u + 2) = ((y * 256 + z) \div 64) % 64
    BY <2>1 DEF Six
  <2> HIDE DEF y, z
  <2>3. (y * 256 + z) \div 64 = y * 4 + z \div 64
    BY <1>1
  <2>4. (y * 4 + z \div 64) % 64 = (y % 16) * 4 + z \div 64
    BY <1>1
  <2> QED BY <2>2, <2>3, <2>4
<1>5. Six(s, 4 * u + 3) = z % 64
  <2>1. /\ (4 * u + 3) % 4 = 3 /\ (3 * (4 * u + 3)) \div 4 + 1 = 3 * u + 3
        /\ ((3 * (4 * u + 3)) \div 4 + 1) + 1 = 3 * u + 4
    OBVIOUS
  <2>2. Six(s, 4 * u + 3) = ((z * 256 + w) \div 256) % 64
    BY <2>1 DEF Six
  <2> HIDE DEF z, w
  <2>3. (z * 256 + w) \div 256 = z
    BY <1>1
  <2> QED BY <2>2, <2>3
<1> QED BY <1>1, <1>2, <1>3, <1>4, <1>5

LEMMA SixRange ==
  ASSUME NEW s \in Seq(Char), NEW j \in Nat
  PROVE  Six(s, j) \in 0 .. 63
<1> DEFINE u == j \div 4
           x == Byte(s, 3 * u + 1)
           y == Byte(s, 3 * u + 2)
           z == Byte(s, 3 * u + 3)
<1>1. /\ u \in Nat
      /\ j = 4 * u \/ j = 4 * u + 1 \/ j = 4 * u + 2 \/ j = 4 * u + 3
  OBVIOUS
<1> HIDE DEF u
<1>2. /\ x \in 0 .. 255 /\ y \in 0 .. 255 /\ z \in 0 .. 255
      /\ Six(s, 4 * u) = x \div 4
      /\ Six(s, 4 * u + 1) = (x % 4) * 16 + y \div 16
      /\ Six(s, 4 * u + 2) = (y % 16) * 4 + z \div 64
      /\ Six(s, 4 * u + 3) = z % 64
  BY <1>1, SixIs
<1> HIDE DEF x, y, z
<1>3. /\ x \div 4 \in 0 .. 63 /\ (x % 4) * 16 + y \div 16 \in 0 .. 63
      /\ (y % 16) * 4 + z \div 64 \in 0 .. 63 /\ z % 64 \in 0 .. 63
  <2>0. x \in 0 .. 255 /\ y \in 0 .. 255 /\ z \in 0 .. 255
    BY <1>2
  <2>1. x \div 4 \in 0 .. 63
    BY <2>0
  <2>2. x % 4 \in 0 .. 3 /\ y \div 16 \in 0 .. 15
    BY <2>0
  <2>3. y % 16 \in 0 .. 15 /\ z \div 64 \in 0 .. 3 /\ z % 64 \in 0 .. 63
    BY <2>0
  <2>4. \A a \in 0 .. 3, b \in 0 .. 15 : a * 16 + b \in 0 .. 63 /\ b * 4 + a \in 0 .. 63
    OBVIOUS
  <2>5. (x % 4) * 16 + y \div 16 \in 0 .. 63 /\ (y % 16) * 4 + z \div 64 \in 0 .. 63
    BY <2>2, <2>3, <2>4, Zenon
  <2> QED BY <2>1, <2>3, <2>5, Zenon
<1>4. /\ Six(s, 4 * u) \in 0 .. 63 /\ Six(s, 4 * u + 1) \in 0 .. 63
      /\ Six(s, 4 * u + 2) \in 0 .. 63 /\ Six(s, 4 * u + 3) \in 0 .. 63
  BY <1>2, <1>3, Zenon
<1> QED BY <1>1, <1>4, Zenon

(* The 64 characters differ, and none of them is the padding.              *)
LEMMA ValueIs ==
  /\ \A x \in 0 .. 63 : Value(Base64Chars[x]) = x
  /\ \A x \in 0 .. 63 : Base64Chars[x] \in Char /\ Base64Chars[x] # Equals
  /\ \A x \in 0 .. 63 : Base64Chars[x] # Space
<1>1. \A x, y \in 0 .. 63 : Base64Chars[x] = Base64Chars[y] => x = y
  BY DEF Base64Chars
<1>2. \A x \in 0 .. 63 : Base64Chars[x] \in Char /\ Base64Chars[x] # Equals
  BY DEF Base64Chars, Char, Equals
<1>3. \A x \in 0 .. 63 : Base64Chars[x] > 42
  BY DEF Base64Chars
<1>4. \A x \in 0 .. 63 : Base64Chars[x] # Space
  BY <1>3 DEF Space
<1> QED BY <1>1, <1>2, <1>4 DEF Value

LEMMA Base64Is ==
  ASSUME NEW s \in Seq(Char)
  PROVE  /\ Len(s) \in Nat /\ Base64(s) \in Seq(Char)
         /\ Len(Base64(s)) = 4 * ((Len(s) + 2) \div 3)
         /\ \A j \in 1 .. Len(Base64(s)) :
              /\ 3 * (j - 1) < 4 * Len(s) => Base64(s)[j] = Base64Chars[Six(s, j - 1)]
              /\ ~(3 * (j - 1) < 4 * Len(s)) => Base64(s)[j] = Equals
<1> DEFINE n == Len(s)
           N == 4 * ((n + 2) \div 3)
           b == [j \in 1 .. N |->
                   IF 3 * (j - 1) < 4 * n THEN Base64Chars[Six(s, j - 1)] ELSE Equals]
<1>1. n \in Nat /\ N \in Nat
  BY LenProperties
<1>2. Base64(s) = b
  BY DEF Base64, Six, Byte
<1>3. \A j \in 1 .. N : Base64Chars[Six(s, j - 1)] \in Char /\ Equals \in Char
  <2> TAKE j \in 1 .. N
  <2>1. j - 1 \in Nat
    BY <1>1
  <2>2. Six(s, j - 1) \in 0 .. 63
    BY <2>1, SixRange
  <2>3. Base64Chars[Six(s, j - 1)] \in Char
    BY <2>2, ValueIs, Zenon
  <2>4. Equals \in Char
    BY DEF Equals, Char
  <2> QED BY <2>3, <2>4
<1>4. b \in [1 .. N -> Char]
  BY <1>3
<1> HIDE DEF N
<1>5. b \in Seq(Char) /\ Len(b) = N
  BY <1>1, <1>4, IsASeq, LenProperties
<1> QED BY <1>1, <1>2, <1>5 DEF N

LEMMA Base64HasNoSpace ==
  ASSUME NEW s \in Seq(Char)
  PROVE  AsLeft(Base64(s)) = Base64(s)
<1> DEFINE b == Base64(s)
           n == Len(s)
<1>1. /\ b \in Seq(Char)
      /\ \A j \in 1 .. Len(b) :
           /\ 3 * (j - 1) < 4 * n => b[j] = Base64Chars[Six(s, j - 1)]
           /\ ~(3 * (j - 1) < 4 * n) => b[j] = Equals
  BY Base64Is
<1>2. \A k \in 0 .. 63 : Base64Chars[k] # Space
  BY ValueIs
<1> HIDE DEF b, n
<1>3. ASSUME NEW j \in 1 .. Len(b) PROVE b[j] # Space
  <2>1. j - 1 \in Nat
    BY <1>1, LenProperties
  <2>2. Six(s, j - 1) \in 0 .. 63
    BY <2>1, SixRange
  <2>3. Equals # Space
    BY DEF Equals, Space
  <2>4. b[j] = Base64Chars[Six(s, j - 1)] \/ b[j] = Equals
    BY <1>1
  <2> QED BY <1>2, <2>2, <2>3, <2>4
<1>4. \A j \in DOMAIN b : b[j] # Space
  BY <1>1, <1>3, LenProperties
<1>5. AsLeft(b) = b
  BY <1>1, <1>4, NoSpaces
<1> QED BY <1>5 DEF b

(* The characters before the padding, one for each six bits begun.         *)
LEMMA SignificantIs ==
  ASSUME NEW s \in Seq(Char)
  PROVE  LET S == (4 * Len(s) + 2) \div 3
         IN  /\ S \in Nat /\ Len(Significant(Base64(s))) = S
             /\ \A k \in 1 .. S : /\ Base64(s)[k] = Base64Chars[Six(s, k - 1)]
                                  /\ Value(Base64(s)[k]) = Six(s, k - 1)
<1> DEFINE n == Len(s)
           S == (4 * n + 2) \div 3
           b == Base64(s)
           a == Append(b, Equals)
           I == {j \in 1 .. Len(a) : \A k \in 0 .. 63 : Base64Chars[k] # a[j]}
<1>1. /\ n \in Nat /\ b \in Seq(Char) /\ Len(b) = 4 * ((n + 2) \div 3)
      /\ \A j \in 1 .. Len(b) :
           /\ 3 * (j - 1) < 4 * n => b[j] = Base64Chars[Six(s, j - 1)]
           /\ ~(3 * (j - 1) < 4 * n) => b[j] = Equals
  BY Base64Is
<1>2. /\ S \in Nat /\ Len(b) \in Nat /\ S <= Len(b)
      /\ \A k \in Nat \ {0} : 3 * (k - 1) < 4 * n <=> k <= S
  BY <1>1
<1> HIDE DEF S, b, n
<1>3. /\ Len(a) = Len(b) + 1 /\ a[Len(b) + 1] = Equals
      /\ \A j \in 1 .. Len(b) : a[j] = b[j]
  BY <1>1, AppendProperties DEF Equals, Char
<1>4. \A k \in 1 .. S : /\ b[k] = Base64Chars[Six(s, k - 1)]
                        /\ Six(s, k - 1) \in 0 .. 63
                        /\ a[k] = b[k]
  <2> TAKE k \in 1 .. S
  <2>1. k \in 1 .. Len(b) /\ k \in Nat \ {0} /\ k <= S /\ k - 1 \in Nat
    BY <1>2
  <2>2. b[k] = Base64Chars[Six(s, k - 1)]
    BY <1>1, <1>2, <2>1
  <2> QED BY <1>3, <2>1, <2>2, SixRange
<1>5. a[S + 1] = Equals /\ S + 1 \in 1 .. Len(a)
  <2>1. CASE S + 1 <= Len(b)
    <3>1. S + 1 \in 1 .. Len(b) /\ S + 1 \in Nat \ {0} /\ ~(S + 1 <= S)
      BY <1>2, <2>1
    <3>2. b[S + 1] = Equals
      BY <1>1, <1>2, <3>1
    <3> QED BY <1>2, <1>3, <3>1, <3>2
  <2>2. CASE ~(S + 1 <= Len(b))
    <3>1. S + 1 = Len(b) + 1
      BY <1>2, <2>2
    <3> QED BY <1>2, <1>3, <3>1
  <2> QED BY <2>1, <2>2
<1> HIDE DEF a
<1>6. S + 1 \in I
  BY <1>5, ValueIs
<1>7. \A k \in 1 .. S : k \notin I
  BY <1>4
<1>8. \A j \in I : j \in Nat /\ S + 1 <= j
  <2> TAKE j \in I
  <2>1. j \notin 1 .. S
    BY <1>7
  <2> HIDE DEF I
  <2>2. j \in 1 .. Len(a)
    BY DEF I
  <2>3. j \in Nat \ {0}
    BY <1>2, <1>3, <2>2
  <2> QED BY <1>2, <2>1, <2>3
<1>9. Significant(b) = SubSeq(b, 1, S)
  <2>1. Significant(b) = SubSeq(b, 1, (IF I # {} THEN Min(I) ELSE 0) - 1)
    BY DEF Significant, SelectInSeq, a
  <2> HIDE DEF I
  <2>2. Min(I) = S + 1
    <3>1. \A j \in I : (\A l \in I : j <= l) => j = S + 1
      BY <1>2, <1>6, <1>8
    <3> QED BY <1>6, <1>8, <3>1 DEF Min
  <2>3. (IF I # {} THEN Min(I) ELSE 0) - 1 = S
    BY <1>2, <1>6, <2>2
  <2> QED BY <2>1, <2>3
<1>10. Len(SubSeq(b, 1, S)) = S
  BY <1>1, <1>2, SubSeqProperties
<1>11. \A k \in 1 .. S : Value(b[k]) = Six(s, k - 1)
  BY <1>4, ValueIs
<1> QED BY <1>2, <1>4, <1>9, <1>10, <1>11 DEF S, b, n

(* The bits of a byte, put together again.                                 *)
BitsMeet(x, y, z) ==
  /\ (x \div 4) * 4 + ((x % 4) * 16 + y \div 16) \div 16 = x
  /\ (((x % 4) * 16 + y \div 16) % 16) * 16 + ((y % 16) * 4 + z \div 64) \div 4 = y
  /\ (((y % 16) * 4 + z \div 64) % 4) * 64 + (z % 64) = z

LEMMA BitsOfByte ==
  ASSUME NEW x \in 0 .. 255, NEW y \in 0 .. 255, NEW z \in 0 .. 255
  PROVE  BitsMeet(x, y, z)
<1>1. ((x % 4) * 16 + y \div 16) \div 16 = x % 4
  OBVIOUS
<1>2. ((x % 4) * 16 + y \div 16) % 16 = y \div 16
  OBVIOUS
<1>3. ((y % 16) * 4 + z \div 64) \div 4 = y % 16
  OBVIOUS
<1>4. ((y % 16) * 4 + z \div 64) % 4 = z \div 64
  <2>1. z \div 64 \in 0 .. 3
    OBVIOUS
  <2>2. y % 16 \in 0 .. 15
    OBVIOUS
  <2>3. \A c \in 0 .. 15, d \in 0 .. 3 : (c * 4 + d) % 4 = d
    OBVIOUS
  <2> QED BY <2>1, <2>2, <2>3
<1>5. (x \div 4) * 4 + (x % 4) = x
  OBVIOUS
<1>6. (y \div 16) * 16 + (y % 16) = y
  OBVIOUS
<1>7. (z \div 64) * 64 + (z % 64) = z
  OBVIOUS
<1> QED BY <1>1, <1>2, <1>3, <1>4, <1>5, <1>6, <1>7 DEF BitsMeet

(* The numbers of characters and bytes, and which characters are those of  *)
(* the j-th byte.                                                          *)
LEMMA Lengths ==
  ASSUME NEW n \in Nat, NEW S, S = (4 * n + 2) \div 3
  PROVE  3 * (S \div 4) + (IF S % 4 = 0 THEN 0 ELSE (S % 4) - 1) = n
<1>1. PICK m \in Nat, r \in 0 .. 2 : n = 3 * m + r
  <2>1. n \div 3 \in Nat /\ n % 3 \in 0 .. 2 /\ n = 3 * (n \div 3) + (n % 3)
    OBVIOUS
  <2> QED BY <2>1
<1>2. CASE r = 0
  <2>1. S = 4 * m
    BY <1>1, <1>2
  <2> QED BY <1>1, <1>2, <2>1
<1>3. CASE r = 1
  <2>1. S = 4 * m + 2
    BY <1>1, <1>3
  <2>2. S \div 4 = m /\ S % 4 = 2
    BY <2>1
  <2> QED BY <1>1, <1>3, <2>2
<1>4. CASE r = 2
  <2>1. S = 4 * m + 3
    BY <1>1, <1>4
  <2>2. S \div 4 = m /\ S % 4 = 3
    BY <2>1
  <2> QED BY <1>1, <1>4, <2>2
<1> QED BY <1>1, <1>2, <1>3, <1>4

IsPlace(j, u, r, S) ==
  /\ j = 3 * u + r /\ (4 * (j - 1)) \div 3 + 1 = 4 * u + r
  /\ j % 3 = (IF r = 3 THEN 0 ELSE r)
  /\ 4 * u + r \in 1 .. S /\ (4 * u + r) + 1 \in 1 .. S

LEMMA Places ==
  ASSUME NEW n \in Nat, NEW S, S = (4 * n + 2) \div 3, NEW j \in 1 .. n
  PROVE  \E u \in Nat, r \in 1 .. 3 : IsPlace(j, u, r, S)
<1>1. PICK u \in Nat, q \in 0 .. 2 : j - 1 = 3 * u + q
  <2>1. /\ (j - 1) \div 3 \in Nat /\ (j - 1) % 3 \in 0 .. 2
        /\ j - 1 = 3 * ((j - 1) \div 3) + ((j - 1) % 3)
    OBVIOUS
  <2> QED BY <2>1
<1>2. j = 3 * u + (q + 1) /\ q + 1 \in 1 .. 3
  BY <1>1
<1>3. (4 * (j - 1)) \div 3 + 1 = 4 * u + (q + 1)
  BY <1>1
<1>4. j % 3 = (IF q + 1 = 3 THEN 0 ELSE q + 1)
  BY <1>2
<1>5. 4 * u + (q + 1) \in 1 .. S /\ (4 * u + (q + 1)) + 1 \in 1 .. S
  BY <1>1, <1>2
<1>6. IsPlace(j, u, q + 1, S)
  BY <1>2, <1>3, <1>4, <1>5 DEF IsPlace
<1> QED BY <1>2, <1>6

(* What is encoded is decoded to the same bytes.                           *)
LEMMA Base64Arrives ==
  ASSUME NEW s \in Seq(Char)
  PROVE  Base64Decode(Base64(s)) = s
<1> DEFINE n == Len(s)
           S == (4 * n + 2) \div 3
           b == Base64(s)
           v == [k \in 1 .. Len(Significant(b)) |-> Value(b[k])]
           N == 3 * (Len(v) \div 4) + Leftover(Len(v))
           Bytes(j) ==
             LET k == (4 * (j - 1)) \div 3 + 1
             IN CASE j % 3 = 1 -> v[k] * 4 + v[k + 1] \div 16
                  [] j % 3 = 2 -> (v[k] % 16) * 16 + v[k + 1] \div 4
                  [] j % 3 = 0 -> (v[k] % 4) * 64 + v[k + 1]
<1>1. Base64Decode(b) = [j \in 1 .. N |-> Bytes(j)]
  BY DEF Base64Decode
<1>2. /\ S \in Nat /\ Len(Significant(b)) = S
      /\ \A k \in 1 .. S : Value(b[k]) = Six(s, k - 1)
  BY SignificantIs
<1>3. n \in Nat
  BY LenProperties
<1>4. Len(v) = S /\ \A k \in 1 .. S : v[k] = Six(s, k - 1)
  <2>1. v = [k \in 1 .. S |-> Value(b[k])]
    BY <1>2
  <2> HIDE DEF S, v, b
  <2>2. \A k \in 1 .. S : Value(b[k]) \in Nat
    <3> TAKE k \in 1 .. S
    <3>1. k - 1 \in Nat
      BY <1>2
    <3>2. Six(s, k - 1) \in 0 .. 63
      BY <3>1, SixRange
    <3>3. Value(b[k]) = Six(s, k - 1) /\ 0 .. 63 \subseteq Nat
      BY <1>2
    <3> QED BY <3>2, <3>3
  <2>3. v \in Seq(Nat)
    BY <1>2, <2>1, <2>2, IsASeq
  <2> QED BY <1>2, <2>1, <2>3, LenProperties
<1> HIDE DEF v
<1>5. N = n
  <2>1. N = 3 * (S \div 4) + (IF S % 4 = 0 THEN 0 ELSE (S % 4) - 1)
    BY <1>4 DEF Leftover
  <2> HIDE DEF N, n
  <2> QED BY <1>3, <2>1, Lengths
<1>6. ASSUME NEW j \in 1 .. n PROVE Bytes(j) = s[j]
  <2> PICK u \in Nat, r \in 1 .. 3 : IsPlace(j, u, r, S)
    <3>1. S = (4 * n + 2) \div 3
      OBVIOUS
    <3> HIDE DEF S, n
    <3> QED BY <1>3, <3>1, Places
  <2>1. /\ j = 3 * u + r /\ (4 * (j - 1)) \div 3 + 1 = 4 * u + r
        /\ j % 3 = (IF r = 3 THEN 0 ELSE r)
        /\ 4 * u + r \in 1 .. S /\ (4 * u + r) + 1 \in 1 .. S
    BY DEF IsPlace
  <2> DEFINE k == 4 * u + r
             x == Byte(s, 3 * u + 1)
             y == Byte(s, 3 * u + 2)
             z == Byte(s, 3 * u + 3)
  <2>2. /\ x \in 0 .. 255 /\ y \in 0 .. 255 /\ z \in 0 .. 255
        /\ Six(s, 4 * u) = x \div 4
        /\ Six(s, 4 * u + 1) = (x % 4) * 16 + y \div 16
        /\ Six(s, 4 * u + 2) = (y % 16) * 4 + z \div 64
        /\ Six(s, 4 * u + 3) = z % 64
    BY SixIs
  <2>3. s[j] = Byte(s, j)
    BY <1>3 DEF Byte
  <2>4. /\ v[k] = Six(s, k - 1) /\ v[k + 1] = Six(s, (k + 1) - 1)
        /\ r = 1 \/ r = 2 \/ r = 3
    BY <1>4, <2>1
  <2>5. Bytes(j) = CASE j % 3 = 1 -> v[k] * 4 + v[k + 1] \div 16
                     [] j % 3 = 2 -> (v[k] % 16) * 16 + v[k + 1] \div 4
                     [] j % 3 = 0 -> (v[k] % 4) * 64 + v[k + 1]
    BY <2>1
  <2> HIDE DEF k, x, y, z, S, n, Bytes
  <2>6. BitsMeet(x, y, z)
    BY <2>2, BitsOfByte
  <2>7. CASE r = 1
    <3>1. /\ j % 3 = 1 /\ k - 1 = 4 * u /\ (k + 1) - 1 = 4 * u + 1 /\ s[j] = x
      BY <2>1, <2>3, <2>7 DEF k, x
    <3>2. Bytes(j) = v[k] * 4 + v[k + 1] \div 16
      BY <2>5, <3>1
    <3>3. v[k] = x \div 4 /\ v[k + 1] = (x % 4) * 16 + y \div 16
      BY <2>2, <2>4, <3>1
    <3>4. (x \div 4) * 4 + ((x % 4) * 16 + y \div 16) \div 16 = x
      BY <2>6 DEF BitsMeet
    <3> QED BY <3>1, <3>2, <3>3, <3>4
  <2>8. CASE r = 2
    <3>1. /\ j % 3 = 2 /\ k - 1 = 4 * u + 1 /\ (k + 1) - 1 = 4 * u + 2 /\ s[j] = y
      BY <2>1, <2>3, <2>8 DEF k, y
    <3>2. Bytes(j) = (v[k] % 16) * 16 + v[k + 1] \div 4
      BY <2>5, <3>1
    <3>3. v[k] = (x % 4) * 16 + y \div 16 /\ v[k + 1] = (y % 16) * 4 + z \div 64
      BY <2>2, <2>4, <3>1
    <3>4. (((x % 4) * 16 + y \div 16) % 16) * 16 + ((y % 16) * 4 + z \div 64) \div 4 = y
      BY <2>6 DEF BitsMeet
    <3> QED BY <3>1, <3>2, <3>3, <3>4
  <2>9. CASE r = 3
    <3>1. /\ j % 3 = 0 /\ k - 1 = 4 * u + 2 /\ (k + 1) - 1 = 4 * u + 3 /\ s[j] = z
      BY <2>1, <2>3, <2>9 DEF k, z
    <3>2. Bytes(j) = (v[k] % 4) * 64 + v[k + 1]
      BY <2>5, <3>1
    <3>3. v[k] = (y % 16) * 4 + z \div 64 /\ v[k + 1] = z % 64
      BY <2>2, <2>4, <3>1
    <3>4. (((y % 16) * 4 + z \div 64) % 4) * 64 + (z % 64) = z
      BY <2>6 DEF BitsMeet
    <3> QED BY <3>1, <3>2, <3>3, <3>4
  <2> QED BY <2>4, <2>7, <2>8, <2>9
<1> HIDE DEF Bytes, N
<1>7. [j \in 1 .. N |-> Bytes(j)] = [j \in 1 .. n |-> s[j]]
  BY <1>5, <1>6
<1>8. s = [j \in 1 .. n |-> s[j]]
  BY LenProperties
<1> QED BY <1>1, <1>7, <1>8
-----------------------------------------------------------------------------
LEMMA FormInit == Init => FormInv
<1> SUFFICES ASSUME Init PROVE FormInv
  OBVIOUS
<1>1. /\ body = Body(form) /\ i = 1 /\ cur = <<>> /\ post = <<>> /\ ~decoded
      /\ decoded \in BOOLEAN
  BY DEF Init
<1>2. Sent
  <2>1. CASE image = <<>> /\ form \in Forms
    <3>1. form \in Seq(Fields) /\ DOMAIN form = 1 .. Len(form)
      BY <2>1, FormAssumption, LenProperties DEF Fields
    <3>2. /\ \A j, k \in DOMAIN form : form[j][1] = form[k][1] => j = k
          /\ \A k \in DOMAIN form : \A p \in DOMAIN form[k][1] : form[k][1][p] # Space
      BY <2>1, FormAssumption
    <3>3. \A k \in 1 .. Len(form) : AsLeft(form[k][1]) = form[k][1]
      <4> TAKE k \in 1 .. Len(form)
      <4>1. form[k][1] \in Seq(Char)
        BY <3>1 DEF Fields
      <4> QED BY <3>1, <3>2, <4>1, NoSpaces
    <3> QED BY <1>1, <2>1, <3>1, <3>2, <3>3 DEF Sent
  <2>2. CASE image \in Images /\ form = <<<<ImgStr, Base64(image)>>>>
    <3>1. image \in Seq(Char) /\ Base64(image) \in Seq(Char)
      BY <2>2, FormAssumption, Base64Is
    <3>2. ImgStr \in Seq(Char)
      BY DEF ImgStr, Char
    <3>3. <<ImgStr, Base64(image)>> \in Fields
      BY <3>1, <3>2 DEF Fields
    <3>4. form \in Seq(Fields) /\ Len(form) = 1
      BY <2>2, <3>3
    <3>5. AsLeft(ImgStr) = ImgStr
      <4>1. \A p \in DOMAIN ImgStr : ImgStr[p] # Space
        BY DEF ImgStr, Space
      <4> QED BY <3>2, <4>1, NoSpaces
    <3>6. /\ \A j, k \in 1 .. Len(form) : form[j][1] = form[k][1] => j = k
          /\ \A k \in 1 .. Len(form) : form[k][1] = ImgStr
      BY <2>2, <3>4
    <3> QED BY <1>1, <2>2, <3>1, <3>4, <3>5, <3>6 DEF Sent
  <2> QED BY <2>1, <2>2 DEF Init
<1>3. ASSUME form # <<>> PROVE Somewhere
  <2>1. form \in Seq(Fields) /\ Len(form) \in Nat /\ Len(form) # 0
    BY <1>2, <1>3, EmptySeq, LenProperties DEF Sent
  <2>2. 1 \in 1 .. Len(form) /\ form[1] \in Fields
    BY <2>1
  <2>3. form[1][1] \in Seq(Char) /\ 0 \in 0 .. Len(form[1][1])
    BY <2>2, LenProperties DEF Fields
  <2>4. Where(form, 1, 1, 0) = 0
    <3>1. IsLayout(Segments(form), Offsets(Segments(form)))
      BY <2>1, BodyIs
    <3>2. Offsets(Segments(form))[1] = 0 /\ Behind(form[1][1], 0) = 0
      BY <2>3, <3>1, TextIs DEF IsLayout
    <3> QED BY <3>2 DEF Where, Start
  <2>5. Collected(1 - 1)
    BY <1>1 DEF Collected
  <2>6. Reading(1, 1, 0)
    BY <1>1, <2>3, <2>4, <2>5, AsLeftIs, TextPrefixes DEF Reading
  <2> QED BY <2>2, <2>3, <2>6 DEF Somewhere
<1> QED BY <1>1, <1>2, <1>3 DEF FormInv

(* The invariant of the loop of parse_from_url_encoded_: it is at a        *)
(* character of what the client encoded, and has stored what is before.    *)
THEOREM FormInvariance == Spec => []FormInv
<1>1. FormInv /\ [Next]_vars => FormInv'
  <2> SUFFICES ASSUME FormInv, [Next]_vars PROVE FormInv'
    OBVIOUS
  <2>1. CASE SetKey
    BY <2>1, SetKeyKeeps
  <2>2. CASE Unescape
    BY <2>2, UnescapeKeeps
  <2>3. CASE Store
    BY <2>3, StoreKeeps
  <2>4. CASE Copy
    BY <2>4, CopyKeeps
  <2>5. CASE StoreLast
    BY <2>5, StoreLastKeeps
  <2>6. CASE UNCHANGED vars
    <3>1. /\ form' = form /\ image' = image /\ body' = body /\ i' = i /\ key' = key
          /\ cur' = cur /\ post' = post /\ decoded' = decoded
      BY <2>6 DEF vars, source
    <3>2. Sent' /\ \A x : Post(x)' = Post(x)
      BY <3>1 DEF FormInv, Sent, Post
    <3>3. \A k, side, p : Reading(k, side, p)' <=> Reading(k, side, p)
      BY <3>1 DEF Reading, Collected
    <3>4. Somewhere' <=> Somewhere
      BY <3>1, <3>3 DEF Somewhere
    <3> QED BY <3>1, <3>2, <3>4 DEF FormInv
  <2> QED BY <2>1, <2>2, <2>3, <2>4, <2>5, <2>6 DEF Next
<1> QED BY <1>1, FormInit, PTL DEF Spec

(* Every field of a form arrives as it was before it was encoded, with a   *)
(* plus for each space, and in torch_model::classify every image byte for  *)
(* byte, whatever their length and content.                                *)
THEOREM FormsArrive == Spec => []FormArrives
<1>1. FormInv => FormArrives
  <2> SUFFICES ASSUME FormInv, decoded
               PROVE  /\ \A k \in DOMAIN form : Post(form[k][1]) = AsLeft(form[k][2])
                      /\ image # <<>> => Base64Decode(Post(ImgStr)) = image
    BY DEF FormArrives
  <2>1. /\ Sent /\ DOMAIN form = 1 .. Len(form)
        /\ \A k \in 1 .. Len(form) : Post(form[k][1]) = AsLeft(form[k][2])
    BY LenProperties DEF FormInv, Sent
  <2>2. ASSUME image # <<>> PROVE Base64Decode(Post(ImgStr)) = image
    <3>1. image \in Seq(Char) /\ form = <<<<ImgStr, Base64(image)>>>>
      BY <2>1, <2>2 DEF Sent
    <3>2. Post(ImgStr) = Base64(image)
      <4>1. Post(ImgStr) = AsLeft(Base64(image))
        BY <2>1, <3>1
      <4> QED BY <3>1, <4>1, Base64HasNoSpace
    <3> QED BY <3>1, <3>2, Base64Arrives
  <2> QED BY <2>1, <2>2
<1> QED BY <1>1, FormInvariance, PTL
=============================================================================
