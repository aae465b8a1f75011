--------------------------- MODULE TimerHeapProofs ---------------------------
(***************************************************************************)
(* heap_ and ref_ agree, and the heap is one, through every swap of every  *)
(* sift, for any ids, timeout and clock; so it is the map of deadlines     *)
(* that TimerMap describes.                                                *)
(***************************************************************************)
EXTENDS TimerHeap, NumberLemmas, SequenceTheorems, FiniteSetTheorems, TLAPS

Deleting == op \in {"pop", "rm_timer"}

(* The nodes that stay: a deletion keeps its node at the end until Erase.  *)
Live == IF Deleting THEN Size - 1 ELSE Size

Phase ==
  /\ Deleting => pc \in {"up", "down", "erase"}
  /\ pc = "erase" => Deleting

Inside ==
  /\ pc \in {"up", "down"} => i < Live
  /\ pc = "down" => index <= i /\ n = Live
  /\ Deleting => heap # <<>> /\ called # NoCall /\ At(Size - 1).id = called.id

Par(k) == (k - 1) \div 2
Ordered(k) == At(Par(k)).expires <= At(k).expires

(* Where order may be disturbed: below a node on its way down, above one   *)
(* on its way up, and above a replacement that has not moved yet.          *)
Disturbed(k) ==
  \/ pc = "down" /\ Par(k) = i
  \/ pc = "down" /\ k = i /\ i = index /\ Deleting
  \/ pc = "up" /\ k = i

(* Children of the node that moves are not before its parent, so that they *)
(* may take its place.                                                     *)
Bridged(k) ==
  pc \in {"up", "down"} /\ Par(k) = i /\ i > 0 => At(Par(i)).expires <= At(k).expires

Sorted == steady => \A k \in 1 .. Live - 1 : (Ordered(k) \/ Disturbed(k)) /\ Bridged(k)

(* A new deadline is the last one, as long as the clock was not set back.  *)
Newest == steady => \A k \in 0 .. Size - 1 : At(k).expires <= clock + Timeout

IInv == TypeOK /\ RefOK /\ Phase /\ Inside /\ Sorted /\ Newest

LEMMA ParFacts ==
  ASSUME NEW k \in Nat \ {0}
  PROVE  Par(k) \in Nat /\ Par(k) < k /\ (k = 2 * Par(k) + 1 \/ k = 2 * Par(k) + 2)
BY DEF Par

LEMMA InitInv == Init => IInv
<1> SUFFICES ASSUME Init PROVE IInv
  OBVIOUS
<1>1. TypeOK
  <2>1. <<>> \in Seq(Node) /\ Len(heap) = 0 /\ DOMAIN ref = {}
    BY DEF Init
  <2>2. QED
    BY <2>1, TimerAssumption DEF Init, TypeOK, TimerAssumption
<1>2. Len(heap) = 0 /\ DOMAIN ref = {}
  BY DEF Init
<1>3. RefOK /\ Phase /\ Inside /\ Sorted /\ Newest
  BY <1>2 DEF Init, RefOK, Phase, Inside, Sorted, Newest, Live, Deleting, Size
<1>4. QED
  BY <1>1, <1>3 DEF IInv

(* swap_node_ of two different nodes: what a timer is, and when it runs    *)
(* out, stays; only where it is changes.                                   *)
LEMMA Swap ==
  ASSUME TypeOK, RefOK, NEW j \in 0 .. Size - 1, NEW k \in 0 .. Size - 1, j # k,
         heap' = Swapped(j, k), ref' = SwappedRef(j, k)
  PROVE  /\ heap' \in Seq(Node) /\ Size' = Size
         /\ DOMAIN ref' = DOMAIN ref
         /\ \A id \in DOMAIN ref : /\ ref'[id] \in 0 .. Size - 1
                                   /\ heap'[ref'[id] + 1] = At(ref[id])
         /\ RefOK'
         /\ heap'[j + 1] = At(k) /\ heap'[k + 1] = At(j)
         /\ \A m \in 0 .. Size - 1 : m # j /\ m # k => heap'[m + 1] = At(m)
<1>1. /\ heap \in Seq(Node) /\ Size \in Nat /\ DOMAIN heap = 1 .. Size
      /\ \A m \in 0 .. Size - 1 : m + 1 \in 1 .. Size /\ At(m) \in Node
  BY DEF TypeOK, Size, At
<1>2. /\ \A m \in 0 .. Size - 1 : heap'[m + 1] = IF m = k THEN At(j) ELSE IF m = j THEN At(k) ELSE At(m)
      /\ heap' \in Seq(Node) /\ Len(heap') = Len(heap)
  <2>1. heap' \in [1 .. Size -> Node]
    BY <1>1 DEF Swapped, At, Size
  <2>2. heap' \in Seq(Node) /\ Len(heap') = Size
    BY <1>1, <2>1
  <2>3. QED
    BY <1>1, <2>2 DEF Swapped, At, Size
<1>3. DOMAIN ref' = DOMAIN ref
  BY DEF SwappedRef
<1>4. At(j).id # At(k).id /\ ref[At(j).id] = j /\ ref[At(k).id] = k
  BY DEF RefOK
<1>5. \A id \in DOMAIN ref : ref'[id] = IF id = At(j).id THEN k ELSE IF id = At(k).id THEN j ELSE ref[id]
  BY <1>4 DEF SwappedRef
<1>6. \A id \in DOMAIN ref : ref[id] \in 0 .. Size - 1 /\ At(ref[id]).id = id
  BY DEF TypeOK, RefOK
<1>7. ASSUME NEW id \in DOMAIN ref
      PROVE  ref'[id] \in 0 .. Size - 1 /\ heap'[ref'[id] + 1] = At(ref[id])
  <2>1. id = At(j).id => ref[id] = j
    BY <1>4
  <2>2. id = At(k).id => ref[id] = k
    BY <1>4
  <2>3. id # At(j).id /\ id # At(k).id => ref[id] # j /\ ref[id] # k
    BY <1>6
  <2>4. QED
    BY <1>2, <1>4, <1>5, <1>6, <2>1, <2>2, <2>3
<1>8. ASSUME NEW m \in 0 .. Size - 1
      PROVE  heap'[m + 1].id \in DOMAIN ref /\ ref'[heap'[m + 1].id] = m
  <2>1. At(m).id \in DOMAIN ref /\ ref[At(m).id] = m /\ At(j).id \in DOMAIN ref /\ At(k).id \in DOMAIN ref
    BY DEF RefOK
  <2>2. m # j /\ m # k => At(m).id # At(j).id /\ At(m).id # At(k).id
    BY <1>4, <2>1
  <2>3. QED
    BY <1>2, <1>4, <1>5, <2>1, <2>2
<1>9. RefOK'
  <2>1. \A id \in DOMAIN ref' : heap'[ref'[id] + 1].id = id
    BY <1>3, <1>6, <1>7
  <2>2. \A m \in 0 .. Len(heap') - 1 : heap'[m + 1].id \in DOMAIN ref' /\ ref'[heap'[m + 1].id] = m
    BY <1>2, <1>3, <1>8 DEF Size
  <2>3. QED
    BY <2>1, <2>2 DEF RefOK, At, Size
<1>10. QED
  BY <1>2, <1>3, <1>7, <1>9 DEF Size

(* What is known of the nodes. *)
LEMMA Nodes ==
  ASSUME TypeOK
  PROVE  /\ Size \in Nat /\ (heap # <<>> <=> Size > 0)
         /\ \A k \in 0 .. Size - 1 : /\ At(k) \in Node /\ At(k).id \in Id
                                     /\ At(k).expires \in 0 .. MaxClock + Timeout
<1>1. heap \in Seq(Node) /\ Size \in Nat /\ (heap # <<>> <=> Size > 0)
  BY DEF TypeOK, Size
<1>2. \A k \in 0 .. Size - 1 : At(k) \in Node
  BY <1>1 DEF Size, At
<1>3. QED
  BY <1>1, <1>2 DEF Node

(* One swap keeps everything but the order. *)
LEMMA SwapInv ==
  ASSUME TypeOK, RefOK, Newest, NEW j \in 0 .. Size - 1, NEW k \in 0 .. Size - 1, j # k,
         heap' = Swapped(j, k), ref' = SwappedRef(j, k), UNCHANGED <<clock, steady>>
  PROVE  /\ heap' \in Seq(Node) /\ Size' = Size
         /\ DOMAIN ref' \subseteq Id /\ \A id \in DOMAIN ref' : ref'[id] \in 0 .. Size' - 1
         /\ RefOK' /\ Newest'
<1>1. /\ heap' \in Seq(Node) /\ Size' = Size
      /\ DOMAIN ref' \subseteq Id /\ \A id \in DOMAIN ref' : ref'[id] \in 0 .. Size' - 1
      /\ RefOK'
  BY Swap DEF TypeOK
<1>2. \A m \in 0 .. Size - 1 : \E l \in 0 .. Size - 1 : heap'[m + 1] = At(l)
  BY Swap
<1>3. Newest'
  BY <1>1, <1>2 DEF Newest, At
<1>4. QED
  BY <1>1, <1>3

LEMMA SiftUpInv == IInv /\ SiftUp => IInv'
<1> SUFFICES ASSUME IInv, SiftUp PROVE IInv'
  OBVIOUS
<1> USE DEF IInv
<1>0. /\ i \in Nat /\ i < Live /\ Live <= Size /\ Live \in Nat /\ Size \in Nat
      /\ pc = "up" /\ Parent = Par(i)
  BY Nodes DEF SiftUp, TypeOK, Inside, Live, Parent, Par
<1>1. CASE Sifted /\ (i = 0 \/ Earlier(Par(i), i))
  <2>1. TypeOK' /\ RefOK' /\ Phase' /\ Inside' /\ Newest'
    BY <1>1 DEF SiftUp, Sifted, TypeOK, RefOK, Phase, Inside, Newest, At, Size, Live, Deleting
  <2>2. i # 0 => Ordered(i)
    <3>1. i # 0 => Par(i) \in 0 .. Size - 1 /\ i \in 0 .. Size - 1
      BY <1>0, ParFacts
    <3>2. QED
      BY <1>1, <3>1, Nodes DEF Earlier, Ordered
  <2>3. Live' = Live /\ pc' \notin {"up", "down"} /\ heap' = heap /\ steady' = steady
    BY <1>1 DEF SiftUp, Sifted, Live, Deleting, Size
  <2>4. steady => \A k \in 1 .. Live - 1 : Ordered(k)
    BY <1>0, <2>2 DEF Sorted, Disturbed
  <2>5. Sorted'
    BY <2>3, <2>4 DEF Sorted, Ordered, Bridged, At
  <2>6. QED
    BY <2>1, <2>5
<1>2. CASE i # 0 /\ ~ Earlier(Par(i), i) /\ SwapWith(Par(i)) /\ UNCHANGED <<pc, index, n>>
  <2> DEFINE p == Par(i)
  <2>1. p \in 0 .. Size - 1 /\ i \in 0 .. Size - 1 /\ i # p /\ p < i
    BY <1>0, <1>2, ParFacts
  <2>2. heap' = Swapped(i, p) /\ ref' = SwappedRef(i, p) /\ i' = p
    BY <1>2 DEF SwapWith
  <2>3. UNCHANGED <<clock, steady, op, called, res, pc, index, n>>
    BY <1>2 DEF SiftUp
  <2> HIDE DEF p
  <2>4. /\ heap' \in Seq(Node) /\ Size' = Size /\ RefOK' /\ Newest'
        /\ DOMAIN ref' \subseteq Id /\ \A id \in DOMAIN ref' : ref'[id] \in 0 .. Size' - 1
    BY <2>1, <2>2, <2>3, SwapInv
  <2>5. TypeOK'
    BY <2>1, <2>2, <2>3, <2>4 DEF TypeOK
  <2>6. /\ heap'[i + 1] = At(p) /\ heap'[p + 1] = At(i)
        /\ \A m \in 0 .. Size - 1 : m # i /\ m # p => heap'[m + 1] = At(m)
    BY <2>1, <2>2, Swap
  <2>7. Live' = Live /\ Phase'
    BY <2>3, <2>4 DEF Live, Deleting, Phase
  <2>8. Inside'
    <3>1. Deleting => Size > 0 /\ i < Size - 1 /\ At(Size - 1).id = called.id /\ called # NoCall
      BY <1>0, Nodes DEF Inside, Live
    <3>2. Deleting => heap'[Size - 1 + 1] = At(Size - 1)
      BY <1>0, <2>1, <2>6, <3>1
    <3>3. Size' > 0 => heap' # <<>>
      BY <2>4 DEF Size
    <3>4. QED
      BY <1>0, <2>1, <2>2, <2>3, <2>4, <2>7, <3>1, <3>2, <3>3 DEF Inside, At, Deleting
  <2>9. Sorted'
    <3> SUFFICES ASSUME steady, NEW k \in 1 .. Live - 1
                 PROVE  (Ordered(k) \/ Disturbed(k))' /\ Bridged(k)'
      BY <2>3, <2>7 DEF Sorted
    <3> DEFINE e(m) == At(m).expires
    <3>1. \A m \in 0 .. Size - 1 : e(m) \in Int
      BY Nodes
    <3>2. \A m \in 1 .. Live - 1 : m # i => e(Par(m)) <= e(m)
      BY <1>0 DEF Sorted, Ordered, Disturbed
    <3>3. \A m \in 1 .. Live - 1 : Par(m) = i => e(p) <= e(m)
      BY <1>0, <1>2 DEF Sorted, Bridged, p
    <3>4. e(i) <= e(p)
      BY <1>2, <2>1, <3>1 DEF Earlier, p
    <3>5. \A m \in 0 .. Size - 1 : heap'[m + 1].expires = IF m = i THEN e(p) ELSE IF m = p THEN e(i) ELSE e(m)
      BY <2>1, <2>6
    <3>6. \A m \in 1 .. Live - 1 : /\ m \in 0 .. Size - 1 /\ Par(m) \in 0 .. Size - 1 /\ Par(m) < m
                                   /\ Par(m) > 0 => Par(m) \in 1 .. Live - 1
      BY <1>0, ParFacts
    <3>7. k # p => heap'[Par(k) + 1].expires <= heap'[k + 1].expires
      <4> HIDE DEF e
      <4>1. CASE k = i
        BY <2>1, <3>4, <3>5, <3>6, <4>1 DEF p
      <4>2. CASE k # i /\ k # p /\ Par(k) = p
        BY <2>1, <3>1, <3>2, <3>4, <3>5, <3>6, <4>2
      <4>3. CASE k # i /\ k # p /\ Par(k) = i
        BY <2>1, <3>3, <3>5, <3>6, <4>3
      <4>4. CASE k # i /\ k # p /\ Par(k) # i /\ Par(k) # p
        BY <3>2, <3>5, <3>6, <4>4
      <4>5. QED
        BY <4>1, <4>2, <4>3, <4>4
    <3>8. Par(k) = p /\ p > 0 => heap'[Par(p) + 1].expires <= heap'[k + 1].expires
      <4> HIDE DEF e
      <4>1. SUFFICES ASSUME Par(k) = p, p > 0 PROVE heap'[Par(p) + 1].expires <= heap'[k + 1].expires
        OBVIOUS
      <4>2. p \in 1 .. Live - 1 /\ e(Par(p)) <= e(p)
        BY <2>1, <3>2, <3>6, <4>1
      <4>3. heap'[Par(p) + 1].expires = e(Par(p)) /\ k # p
        BY <2>1, <3>5, <3>6, <4>1, <4>2
      <4>4. CASE k = i
        BY <2>1, <3>5, <4>2, <4>3, <4>4
      <4>5. CASE k # i
        BY <2>1, <3>1, <3>2, <3>5, <3>6, <4>1, <4>2, <4>3, <4>5
      <4>6. QED
        BY <4>4, <4>5
    <3>9. QED
      BY <1>0, <2>2, <2>3, <3>7, <3>8 DEF Ordered, Disturbed, Bridged, At, Par
  <2>10. QED
    BY <2>4, <2>5, <2>7, <2>8, <2>9
<1>3. QED
  BY <1>0, <1>1, <1>2 DEF SiftUp

LEMMA SiftDownInv == IInv /\ SiftDown => IInv'
<1> SUFFICES ASSUME IInv, SiftDown PROVE IInv'
  OBVIOUS
<1> USE DEF IInv
<1>0. /\ i \in Nat /\ i < Live /\ Live <= Size /\ Live \in Nat /\ Size \in Nat
      /\ index \in Nat /\ index <= i /\ n = Live /\ pc = "down"
  BY Nodes DEF SiftDown, TypeOK, Inside, Live
<1> DEFINE e(m) == At(m).expires
           c == Child
<1>1. \A m \in 0 .. Size - 1 : e(m) \in Int
  BY Nodes
<1>2. \A m \in 1 .. Live - 1 : /\ m \in 0 .. Size - 1 /\ Par(m) \in 0 .. Size - 1 /\ Par(m) < m
                               /\ Par(m) > 0 => Par(m) \in 1 .. Live - 1
                               /\ m = 2 * Par(m) + 1 \/ m = 2 * Par(m) + 2
  BY <1>0, ParFacts
<1>3. 2 * i + 1 < n => /\ c \in 1 .. Live - 1 /\ c > i /\ Par(c) = i
                       /\ \A m \in 1 .. Live - 1 : Par(m) = i => e(c) <= e(m)
  <2> SUFFICES ASSUME 2 * i + 1 < n
               PROVE  /\ c \in 1 .. Live - 1 /\ c > i /\ Par(c) = i
                      /\ \A m \in 1 .. Live - 1 : Par(m) = i => e(c) <= e(m)
    OBVIOUS
  <2> HIDE DEF e
  <2>1. c = IF 2 * i + 2 < n /\ e(2 * i + 2) < e(2 * i + 1) THEN 2 * i + 2 ELSE 2 * i + 1
    BY <1>0 DEF Child, Earlier, e
  <2> HIDE DEF c
  <2>2. c \in 1 .. Live - 1 /\ c > i /\ (c = 2 * i + 1 \/ c = 2 * i + 2)
    BY <1>0, <2>1
  <2>3. Par(c) = i
    <3>1. c = 2 * Par(c) + 1 \/ c = 2 * Par(c) + 2
      BY <1>2, <2>2
    <3>2. Par(c) \in Int
      BY <1>2, <2>2
    <3>3. QED
      BY <1>0, <2>2, <3>1, <3>2
  <2>4. ASSUME NEW m \in 1 .. Live - 1, Par(m) = i PROVE e(c) <= e(m)
    <3>1. m = 2 * i + 1 \/ m = 2 * i + 2
      BY <1>2, <2>4
    <3>2. 2 * i + 1 \in 0 .. Size - 1 /\ m \in 0 .. Size - 1 /\ c \in 0 .. Size - 1
      BY <1>0, <1>2, <2>2
    <3>3. e(2 * i + 1) \in Int /\ e(m) \in Int /\ e(c) \in Int /\ m < n
      BY <1>0, <1>1, <3>2
    <3>4. CASE m = 2 * i + 1
      BY <2>1, <3>3, <3>4
    <3>5. CASE m = 2 * i + 2
      BY <2>1, <3>3, <3>5
    <3>6. QED
      BY <3>1, <3>4, <3>5
  <2>5. QED
    BY <2>2, <2>3, <2>4
<1>4. CASE 2 * i + 1 < n /\ ~ Earlier(i, c)
  <2>1. c \in 0 .. Size - 1 /\ i \in 0 .. Size - 1 /\ i # c /\ c < Live
    BY <1>0, <1>3, <1>4
  <2>2. heap' = Swapped(i, c) /\ ref' = SwappedRef(i, c) /\ i' = c
    BY <1>4 DEF SiftDown, SwapWith
  <2>3. UNCHANGED <<clock, steady, op, called, res, pc, index, n>>
    BY <1>4 DEF SiftDown
  <2>c. /\ c \in 1 .. Live - 1 /\ c > i /\ Par(c) = i
        /\ \A m \in 1 .. Live - 1 : Par(m) = i => e(c) <= e(m)
    BY <1>3, <1>4
  <2>e. e(c) <= e(i)
    BY <1>1, <1>4, <2>1 DEF Earlier
  <2> HIDE DEF c
  <2>4. /\ heap' \in Seq(Node) /\ Size' = Size /\ RefOK' /\ Newest'
        /\ DOMAIN ref' \subseteq Id /\ \A id \in DOMAIN ref' : ref'[id] \in 0 .. Size' - 1
    BY <2>1, <2>2, <2>3, SwapInv
  <2>5. TypeOK'
    BY <2>1, <2>2, <2>3, <2>4 DEF TypeOK
  <2>6. /\ heap'[i + 1] = At(c) /\ heap'[c + 1] = At(i)
        /\ \A m \in 0 .. Size - 1 : m # i /\ m # c => heap'[m + 1] = At(m)
    BY <2>1, <2>2, Swap
  <2>7. Live' = Live /\ Phase'
    BY <2>3, <2>4 DEF Live, Deleting, Phase
  <2>8. Inside'
    <3>1. Deleting => /\ Size > 0 /\ i < Size - 1 /\ c < Size - 1
                      /\ At(Size - 1).id = called.id /\ called # NoCall
      BY <1>0, <2>1, Nodes DEF Inside, Live
    <3>2. Deleting => heap'[Size - 1 + 1] = At(Size - 1)
      BY <1>0, <2>1, <2>6, <3>1
    <3>3. Size' > 0 => heap' # <<>>
      BY <2>4 DEF Size
    <3>4. QED
      BY <1>0, <2>1, <2>2, <2>3, <2>4, <2>7, <2>c, <3>1, <3>2, <3>3 DEF Inside, At, Deleting
  <2>9. Sorted'
    <3> SUFFICES ASSUME steady, NEW k \in 1 .. Live - 1
                 PROVE  (Ordered(k) \/ Disturbed(k))' /\ Bridged(k)'
      BY <2>3, <2>7 DEF Sorted
    <3>1. \A m \in 1 .. Live - 1 : m # i /\ Par(m) # i => e(Par(m)) <= e(m)
      BY <1>0 DEF Sorted, Ordered, Disturbed
    <3>2. i > 0 => e(Par(i)) <= e(c)
      BY <1>0, <2>c DEF Sorted, Bridged
    <3>3. \A m \in 0 .. Size - 1 : heap'[m + 1].expires = IF m = i THEN e(c) ELSE IF m = c THEN e(i) ELSE e(m)
      BY <2>1, <2>6
    <3>4. Par(k) # c => heap'[Par(k) + 1].expires <= heap'[k + 1].expires
      <4> HIDE DEF e
      <4>1. CASE k = i
        BY <1>2, <2>1, <2>c, <3>2, <3>3, <4>1
      <4>2. CASE k = c
        BY <1>2, <2>1, <2>c, <2>e, <3>3, <4>2
      <4>3. CASE k # c /\ Par(k) = i
        BY <1>2, <2>1, <2>c, <3>3, <4>3
      <4>4. CASE k # i /\ k # c /\ Par(k) # i /\ Par(k) # c
        BY <1>2, <3>1, <3>3, <4>4
      <4>5. QED
        BY <4>1, <4>2, <4>3, <4>4
    <3>5. Par(k) = c => heap'[Par(c) + 1].expires <= heap'[k + 1].expires
      BY <1>2, <2>1, <2>c, <3>1, <3>3
    <3>6. QED
      BY <1>0, <2>2, <2>3, <3>4, <3>5 DEF Ordered, Disturbed, Bridged, At, Par
  <2>10. QED
    BY <2>4, <2>5, <2>7, <2>8, <2>9
<1>5. CASE ~ (2 * i + 1 < n /\ ~ Earlier(i, c))
  (* The children of i are not before it. *)
  <2>1. \A m \in 1 .. Live - 1 : Par(m) = i => e(i) <= e(m)
    <3> SUFFICES ASSUME NEW m \in 1 .. Live - 1, Par(m) = i PROVE e(i) <= e(m)
      OBVIOUS
    <3>1. 2 * i + 1 < n
      BY <1>0, <1>2
    <3>2. e(i) < e(c) /\ e(c) <= e(m)
      BY <1>3, <1>5, <3>1 DEF Earlier
    <3>3. c \in 0 .. Size - 1 /\ i \in 0 .. Size - 1
      BY <1>0, <1>3, <3>1
    <3> HIDE DEF c, e
    <3>4. QED
      BY <1>1, <1>2, <3>2, <3>3
  <2>2. steady => \A m \in 1 .. Live - 1 : Ordered(m) \/ (m = i /\ i = index /\ Deleting)
    BY <1>0, <2>1 DEF Sorted, Disturbed, Ordered
  <2>3. UNCHANGED <<clock, steady, heap, ref, op, called, res>> /\ Live' = Live
    BY <1>5 DEF SiftDown, Sifted, Live, Size, Deleting
  <2>4. TypeOK' /\ RefOK' /\ Newest' /\ Phase' /\ Inside'
    BY <1>0, <1>5, <2>3 DEF SiftDown, Sifted, TypeOK, RefOK, Newest, Phase, Inside, At, Size, Live, Deleting
  <2>5. Sorted'
    <3>1. CASE op = "adjust" \/ i > index
      <4>1. steady => \A m \in 1 .. Live - 1 : Ordered(m)
        BY <1>0, <2>2, <3>1 DEF Deleting
      <4>2. pc' \notin {"up", "down"}
        BY <1>5, <3>1 DEF SiftDown, Sifted
      <4>3. QED
        BY <2>3, <4>1, <4>2 DEF Sorted, Ordered, Bridged, At
    <3>2. CASE ~ (op = "adjust" \/ i > index)
      <4>1. pc' = "up" /\ UNCHANGED <<index, i>>
        BY <1>5, <3>2 DEF SiftDown
      <4>2. steady => \A m \in 1 .. Live - 1 : (Ordered(m) \/ m = i) /\ Bridged(m)
        BY <2>2 DEF Sorted
      <4>3. QED
        BY <1>0, <2>3, <4>1, <4>2 DEF Sorted, Ordered, Disturbed, Bridged, At
    <3>3. QED
      BY <3>1, <3>2
  <2>6. QED
    BY <2>4, <2>5
<1>6. QED
  BY <1>4, <1>5

(* Between two operations every node is in order. *)
LEMMA Rest ==
  ASSUME IInv, pc \notin {"up", "down"}
  PROVE  steady => \A k \in 1 .. Live - 1 : Ordered(k)
BY DEF IInv, Sorted, Disturbed

(* del_: the node to be dropped goes to the end, the last one to its place. *)
LEMMA DelInv ==
  ASSUME IInv, pc \in {"idle", "tick"}, NEW k \in 0 .. Size - 1, Del(k),
         op' \in {"pop", "rm_timer"}, NEW by \in {"tick", "rm_timer"},
         called' = [by |-> by, id |-> At(k).id], UNCHANGED <<clock, steady, res>>
  PROVE  IInv'
<1> USE DEF IInv
<1>0. /\ Size \in Nat /\ ~ Deleting /\ Live = Size /\ Deleting'
      /\ steady => \A m \in 1 .. Size - 1 : Ordered(m)
  BY Rest, Nodes DEF Phase, Live, Deleting
<1>1. called' \in [by : {"tick", "rm_timer"}, id : Id] /\ called' # NoCall /\ called'.id = At(k).id
  BY Nodes, TimerAssumption DEF TimerAssumption
<1>2. CASE k < Size - 1
  <2> DEFINE z == Size - 1
  <2>1. z \in 0 .. Size - 1 /\ k # z /\ k < z
    BY <1>0, <1>2
  <2>2. /\ heap' = Swapped(k, z) /\ ref' = SwappedRef(k, z)
        /\ pc' = "down" /\ index' = k /\ i' = k /\ n' = z
    BY <1>2 DEF Del, StartDown
  <2>3. /\ heap' \in Seq(Node) /\ Size' = Size /\ RefOK' /\ Newest'
        /\ DOMAIN ref' \subseteq Id /\ \A id \in DOMAIN ref' : ref'[id] \in 0 .. Size' - 1
    BY <2>1, <2>2, SwapInv
  <2>4. /\ heap'[z + 1] = At(k)
        /\ \A m \in 0 .. Size - 1 : m # k /\ m # z => heap'[m + 1] = At(m)
    BY <2>1, <2>2, Swap
  <2>5. TypeOK' /\ Phase'
    BY <1>0, <1>1, <2>1, <2>2, <2>3 DEF TypeOK, Phase, Deleting
  <2>6. Live' = z
    BY <1>0, <2>3 DEF Live
  <2>7. Inside'
    <3>1. heap' # <<>>
      BY <1>0, <1>2, <2>3 DEF Size
    <3>2. Size' - 1 = z
      BY <2>3
    <3>3. At(Size - 1)' = At(k)
      BY <2>3, <2>4 DEF At
    <3>4. QED
      BY <1>1, <2>1, <2>2, <2>6, <3>1, <3>3 DEF Inside
  <2>8. Sorted'
    <3> SUFFICES ASSUME steady, NEW m \in 1 .. z - 1
                 PROVE  (Ordered(m) \/ Disturbed(m))' /\ Bridged(m)'
      BY <2>6 DEF Sorted
    <3>1. /\ \A l \in 1 .. Size - 1 : /\ At(Par(l)).expires <= At(l).expires
                                     /\ Par(l) \in 0 .. Size - 1 /\ Par(l) < l
          /\ \A l \in 0 .. Size - 1 : At(l).expires \in Int
      BY <1>0, Nodes, ParFacts DEF Ordered
    <3>2. m \in 1 .. Size - 1 /\ m # z /\ Par(m) # z
      BY <1>0, <3>1
    <3>3. m # k /\ Par(m) # k => heap'[Par(m) + 1].expires <= heap'[m + 1].expires
      BY <2>4, <3>1, <3>2
    <3>4. Par(m) = k /\ k > 0 => heap'[Par(k) + 1].expires <= heap'[m + 1].expires
      <4> SUFFICES ASSUME Par(m) = k, k > 0 PROVE heap'[Par(k) + 1].expires <= heap'[m + 1].expires
        OBVIOUS
      <4>1. k \in 1 .. Size - 1 /\ m # k
        BY <1>0, <3>1, <3>2
      <4>2. Par(k) \in 0 .. Size - 1 /\ Par(k) # k /\ Par(k) # z
        BY <2>1, <3>1, <4>1
      <4>3. heap'[Par(k) + 1] = At(Par(k)) /\ heap'[m + 1] = At(m)
        BY <2>4, <3>2, <4>1, <4>2
      <4>4. QED
        BY <3>1, <3>2, <4>1, <4>2, <4>3
    <3>5. QED
      BY <1>0, <2>2, <3>3, <3>4 DEF Ordered, Disturbed, Bridged, At, Par
  <2>9. QED
    BY <2>3, <2>5, <2>7, <2>8
<1>3. CASE ~ (k < Size - 1)
  <2>1. k = Size - 1 /\ Size > 0
    BY <1>0, <1>3
  <2>2. pc' = "erase" /\ UNCHANGED <<heap, ref, index, i, n>>
    BY <1>3 DEF Del
  <2>3. Size' = Size /\ Live' = Size - 1 /\ At(Size - 1)' = At(k) /\ heap' # <<>>
    BY <1>0, <2>1, <2>2, Nodes DEF Live, Size, At
  <2>4. TypeOK' /\ RefOK' /\ Newest' /\ Phase' /\ Inside'
    BY <1>0, <1>1, <2>2, <2>3 DEF TypeOK, RefOK, Newest, Phase, Inside, Deleting, At, Size
  <2>5. Sorted'
    BY <1>0, <2>2, <2>3 DEF Sorted, Ordered, Bridged, At
  <2>6. QED
    BY <2>4, <2>5
<1>4. QED
  BY <1>2, <1>3

LEMMA EraseInv == IInv /\ Erase => IInv'
<1> SUFFICES ASSUME IInv, Erase PROVE IInv'
  OBVIOUS
<1> USE DEF IInv
<1>0. /\ Size \in Nat /\ Size > 0 /\ Deleting /\ Live = Size - 1
      /\ steady => \A m \in 1 .. Size - 2 : Ordered(m)
  BY Rest, Nodes DEF Phase, Inside, Live, Erase
<1>1. /\ heap' \in Seq(Node) /\ Len(heap') = Size - 1
      /\ \A m \in 0 .. Size - 2 : heap'[m + 1] = At(m)
  <2>1. heap' = SubSeq(heap, 1, Size - 1) /\ Size - 1 \in 0 .. Len(heap) /\ heap \in Seq(Node)
    BY <1>0 DEF Erase, TypeOK, Size
  <2>2. /\ Len(SubSeq(heap, 1, Size - 1)) = Size - 1
        /\ \A m \in 1 .. Size - 1 : SubSeq(heap, 1, Size - 1)[m] = heap[m]
    BY <1>0, <2>1 DEF Size
  <2>3. SubSeq(heap, 1, Size - 1) \in Seq(Node)
    BY <1>0, <2>1 DEF Size
  <2>4. QED
    BY <1>0, <2>1, <2>2, <2>3 DEF At
<1>2. Size' = Size - 1 /\ ~ Deleting' /\ Live' = Size - 1
  BY <1>1 DEF Size, Live, Deleting, Erase
<1>3. DOMAIN ref' = DOMAIN ref \ {At(Size - 1).id} /\ \A id \in DOMAIN ref' : ref'[id] = ref[id]
  BY DEF Erase
<1>4. ref[At(Size - 1).id] = Size - 1
  BY <1>0 DEF RefOK
<1>5. ASSUME NEW id \in DOMAIN ref' PROVE ref[id] \in 0 .. Size - 2 /\ heap'[ref[id] + 1].id = id
  <2>1. ref[id] \in 0 .. Size - 1 /\ At(ref[id]).id = id /\ id # At(Size - 1).id
    BY <1>3, <1>5 DEF TypeOK, RefOK
  <2>2. ref[id] # Size - 1
    BY <2>1
  <2>3. QED
    BY <1>0, <1>1, <2>1, <2>2
<1>6. ASSUME NEW m \in 0 .. Size - 2
      PROVE  heap'[m + 1].id \in DOMAIN ref' /\ ref'[heap'[m + 1].id] = m
  <2>1. m \in 0 .. Size - 1 /\ heap'[m + 1].id = At(m).id
    BY <1>0, <1>1
  <2>2. At(m).id \in DOMAIN ref /\ ref[At(m).id] = m
    BY <2>1 DEF RefOK
  <2>3. At(m).id # At(Size - 1).id
    BY <1>0, <1>4, <2>2
  <2>4. QED
    BY <1>3, <2>1, <2>2, <2>3
<1>7. RefOK'
  <2>1. \A id \in DOMAIN ref' : heap'[ref'[id] + 1].id = id
    BY <1>3, <1>5
  <2>2. \A m \in 0 .. Size' - 1 : heap'[m + 1].id \in DOMAIN ref' /\ ref'[heap'[m + 1].id] = m
    BY <1>0, <1>2, <1>6
  <2>3. QED
    BY <2>1, <2>2 DEF RefOK, At
<1>8. TypeOK'
  <2>1. \A id \in DOMAIN ref' : ref'[id] \in 0 .. Size' - 1
    BY <1>0, <1>2, <1>3, <1>5
  <2>2. DOMAIN ref' \subseteq Id
    BY <1>3 DEF TypeOK
  <2>3. QED
    BY <1>1, <2>1, <2>2 DEF TypeOK, Erase
<1>9. Newest' /\ Phase' /\ Inside'
  BY <1>0, <1>1, <1>2 DEF Newest, Phase, Inside, At, Erase
<1>10. Sorted'
  <2> SUFFICES ASSUME steady, NEW k \in 1 .. Size - 2 PROVE Ordered(k)' /\ Bridged(k)'
    BY <1>0, <1>2 DEF Sorted, Erase
  <2>1. Par(k) \in 0 .. Size - 2 /\ k \in 0 .. Size - 2
    BY <1>0, ParFacts
  <2>2. QED
    BY <1>0, <1>1, <2>1 DEF Ordered, Bridged, At, Erase
<1>11. QED
  BY <1>7, <1>8, <1>9, <1>10

LEMMA AddNewInv == ASSUME IInv, NEW id \in Id, AddNew(id) PROVE IInv'
<1> USE DEF IInv
<1>0. /\ Size \in Nat /\ ~ Deleting /\ Live = Size /\ pc = "idle"
      /\ steady => \A m \in 1 .. Size - 1 : Ordered(m)
  BY Rest, Nodes DEF Phase, Live, AddNew
<1> DEFINE new == [id |-> id, expires |-> Expires]
<1>1. new \in Node /\ new.id = id /\ new.expires = Expires /\ Expires = clock + Timeout
  BY TimerAssumption DEF TimerAssumption, AddNew, Expires, TypeOK, Node
<1>2. heap' = Append(heap, new)
  BY DEF AddNew
<1> HIDE DEF new
<1>3. /\ heap' \in Seq(Node) /\ Len(heap') = Size + 1 /\ heap'[Size + 1] = new
      /\ \A m \in 0 .. Size - 1 : heap'[m + 1] = At(m)
  <2>1. heap \in Seq(Node)
    BY DEF TypeOK
  <2>2. /\ heap' \in Seq(Node) /\ Len(heap') = Len(heap) + 1 /\ heap'[Len(heap) + 1] = new
        /\ \A m \in 1 .. Len(heap) : heap'[m] = heap[m]
    BY <1>1, <1>2, <2>1, AppendProperties
  <2>3. QED
    BY <1>0, <2>2 DEF At, Size
<1>4. Size' = Size + 1 /\ Live' = Size + 1 /\ ~ Deleting'
  BY <1>3 DEF Size, Live, Deleting, AddNew
<1>5. /\ DOMAIN ref' = DOMAIN ref \cup {id} /\ id \notin DOMAIN ref
      /\ \A t \in DOMAIN ref' : ref'[t] = IF t = id THEN Size ELSE ref[t]
  BY DEF AddNew
<1>6. RefOK'
  <2>1. \A t \in DOMAIN ref' : heap'[ref'[t] + 1].id = t
    <3> SUFFICES ASSUME NEW t \in DOMAIN ref' PROVE heap'[ref'[t] + 1].id = t
      OBVIOUS
    <3>1. t # id => ref[t] \in 0 .. Size - 1 /\ At(ref[t]).id = t
      BY <1>5 DEF TypeOK, RefOK
    <3>2. QED
      BY <1>0, <1>1, <1>3, <1>5, <3>1
  <2>2. \A m \in 0 .. Size' - 1 : heap'[m + 1].id \in DOMAIN ref' /\ ref'[heap'[m + 1].id] = m
    <3> SUFFICES ASSUME NEW m \in 0 .. Size
                 PROVE  heap'[m + 1].id \in DOMAIN ref' /\ ref'[heap'[m + 1].id] = m
      BY <1>0, <1>4
    <3>1. m # Size => m \in 0 .. Size - 1
      BY <1>0
    <3>2. m # Size => At(m).id \in DOMAIN ref /\ ref[At(m).id] = m
      BY <3>1 DEF RefOK
    <3>3. QED
      BY <1>0, <1>1, <1>3, <1>5, <3>1, <3>2
  <2>3. QED
    BY <2>1, <2>2 DEF RefOK, At
<1>7. TypeOK'
  <2>1. \A t \in DOMAIN ref' : ref'[t] \in 0 .. Size' - 1
    BY <1>0, <1>4, <1>5 DEF TypeOK
  <2>2. DOMAIN ref' \subseteq Id
    BY <1>5 DEF TypeOK
  <2>3. QED
    BY <1>0, <1>3, <2>1, <2>2 DEF TypeOK, AddNew
<1>8. Phase' /\ Inside'
  BY <1>0, <1>4 DEF Phase, Inside, AddNew, Deleting
<1>9. Newest'
  <2>1. ASSUME steady, NEW m \in 0 .. Size PROVE heap'[m + 1].expires <= clock + Timeout
    <3>1. CASE m = Size
      BY <1>0, <1>1, <1>3, <3>1, TimerAssumption DEF TimerAssumption, TypeOK
    <3>2. CASE m # Size
      <4>1. m \in 0 .. Size - 1
        BY <1>0, <3>2
      <4>2. At(m).expires <= clock + Timeout
        BY <2>1, <4>1 DEF Newest
      <4>3. QED
        BY <1>3, <4>1, <4>2
    <3>3. QED
      BY <3>1, <3>2
  <2>2. (steady' <=> steady) /\ clock' = clock /\ 0 .. Size' - 1 = 0 .. Size
    BY <1>0, <1>4 DEF AddNew
  <2>3. QED
    BY <2>1, <2>2 DEF Newest, At
<1>10. Sorted'
  <2> SUFFICES ASSUME steady, NEW k \in 1 .. Size PROVE (Ordered(k) \/ Disturbed(k))' /\ Bridged(k)'
    BY <1>0, <1>4 DEF Sorted, AddNew
  <2>1. Par(k) < k /\ Par(k) \in Nat /\ pc' = "up" /\ i' = Size
    BY ParFacts DEF AddNew
  <2>2. k # Size => heap'[Par(k) + 1].expires <= heap'[k + 1].expires
    <3> SUFFICES ASSUME k # Size PROVE heap'[Par(k) + 1].expires <= heap'[k + 1].expires
      OBVIOUS
    <3>1. k \in 1 .. Size - 1 /\ k \in 0 .. Size - 1 /\ Par(k) \in 0 .. Size - 1
      BY <1>0, <2>1
    <3>2. QED
      BY <1>0, <1>3, <3>1 DEF Ordered
  <2>3. QED
    BY <1>0, <2>1, <2>2 DEF Ordered, Disturbed, Bridged, At, Par
<1>11. QED
  BY <1>6, <1>7, <1>8, <1>9, <1>10

LEMMA RenewInv ==
  ASSUME IInv, NEW id \in Id, NEW what \in {"add", "adjust"}, Renew(id, what) PROVE IInv'
<1> USE DEF IInv
<1> DEFINE r == ref[id]
<1>0. /\ Size \in Nat /\ ~ Deleting /\ Live = Size /\ pc = "idle" /\ r \in 0 .. Size - 1
      /\ steady => \A m \in 1 .. Size - 1 : Ordered(m)
  BY Rest, Nodes DEF Phase, Live, Renew, TypeOK
<1>1. Expires \in 0 .. MaxClock + Timeout /\ Expires = clock + Timeout
  BY TimerAssumption DEF TimerAssumption, Renew, Expires, TypeOK
<1>2. heap' = [heap EXCEPT ![r + 1].expires = Expires]
  BY DEF Renew
<1>3. ref' = ref /\ pc' = "down" /\ index' = r /\ i' = r /\ n' = Size /\ op' = what
  BY DEF Renew, StartDown
<1> HIDE DEF r
<1>4. /\ heap' \in Seq(Node) /\ Size' = Size
      /\ \A m \in 0 .. Size - 1 : /\ heap'[m + 1].id = At(m).id
                                  /\ heap'[m + 1].expires = IF m = r THEN Expires ELSE At(m).expires
  <2>1. heap \in [1 .. Size -> Node] /\ r + 1 \in 1 .. Size
    BY <1>0 DEF TypeOK, Size
  <2>2. [At(r) EXCEPT !.expires = Expires] \in Node
    BY <1>0, <1>1, Nodes DEF Node
  <2>3. heap' = [heap EXCEPT ![r + 1] = [At(r) EXCEPT !.expires = Expires]]
    BY <1>2 DEF At
  <2>4. heap' \in [1 .. Size -> Node]
    BY <2>1, <2>2, <2>3
  <2>5. heap' \in Seq(Node) /\ Size' = Size
    BY <1>0, <2>4 DEF Size
  <2>6. \A m \in 0 .. Size - 1 : heap'[m + 1] = IF m = r THEN [At(r) EXCEPT !.expires = Expires] ELSE At(m)
    BY <1>0, <2>1, <2>3 DEF At
  <2>7. \A m \in 0 .. Size - 1 : At(m) \in Node
    BY Nodes
  <2>8. QED
    BY <1>0, <2>5, <2>6, <2>7 DEF Node
<1>5. ~ Deleting' /\ Live' = Size
  BY <1>3, <1>4 DEF Deleting, Live
<1>6. TypeOK' /\ Phase' /\ Inside'
  BY <1>0, <1>3, <1>4, <1>5 DEF TypeOK, Phase, Inside, Renew
<1>7. RefOK'
  BY <1>3, <1>4 DEF TypeOK, RefOK, At
<1>8. Newest'
  <2>1. steady' = steady /\ clock' = clock /\ Size' = Size
    BY <1>4 DEF Renew
  <2>2. ASSUME steady, NEW m \in 0 .. Size - 1 PROVE heap'[m + 1].expires <= Expires
    <3>1. At(m).expires <= clock + Timeout
      BY <2>2 DEF Newest
    <3>2. QED
      BY <1>1, <1>4, <3>1
  <2>3. QED
    BY <1>1, <2>1, <2>2 DEF Newest, At
<1>9. Sorted'
  <2> SUFFICES ASSUME steady, NEW k \in 1 .. Size - 1 PROVE (Ordered(k) \/ Disturbed(k))' /\ Bridged(k)'
    BY <1>0, <1>5 DEF Sorted, Renew
  <2>1. /\ \A l \in 1 .. Size - 1 : /\ At(Par(l)).expires <= At(l).expires
                                   /\ l \in 0 .. Size - 1 /\ Par(l) \in 0 .. Size - 1 /\ Par(l) < l
        /\ \A l \in 0 .. Size - 1 : At(l).expires \in Int /\ At(l).expires <= Expires
    BY <1>0, <1>1, Nodes, ParFacts DEF Ordered, Newest
  <2>2. Par(k) # r => heap'[Par(k) + 1].expires <= heap'[k + 1].expires
    BY <1>4, <2>1
  <2>3. Par(k) = r /\ r > 0 => heap'[Par(r) + 1].expires <= heap'[k + 1].expires
    <3> SUFFICES ASSUME Par(k) = r, r > 0 PROVE heap'[Par(r) + 1].expires <= heap'[k + 1].expires
      OBVIOUS
    <3>1. r \in 1 .. Size - 1 /\ k # r
      BY <1>0, <2>1
    <3>2. Par(r) \in 0 .. Size - 1 /\ Par(r) # r
      BY <2>1, <3>1
    <3>3. /\ heap'[Par(r) + 1].expires = At(Par(r)).expires
          /\ heap'[k + 1].expires = At(k).expires
      BY <1>4, <2>1, <3>1, <3>2
    <3>4. At(Par(r)).expires <= At(r).expires /\ At(r).expires <= At(k).expires
      BY <2>1, <3>1
    <3>5. QED
      BY <2>1, <3>1, <3>2, <3>3, <3>4
  <2>4. QED
    BY <1>3, <2>2, <2>3 DEF Ordered, Disturbed, Bridged, At, Par
<1>10. QED
  BY <1>6, <1>7, <1>8, <1>9

LEMMA NextInv == IInv /\ [Next]_vars => IInv'
<1> SUFFICES ASSUME IInv, [Next]_vars PROVE IInv'
  OBVIOUS
<1> USE DEF IInv
<1>1. CASE Pass
  <2>1. UNCHANGED <<heap, ref, pc, sift, called, res>> /\ Size' = Size /\ Live' = Live
    BY <1>1 DEF Pass, Size, Live, Deleting, sift
  <2>2. clock' \in 0 .. MaxClock /\ steady' \in BOOLEAN /\ (steady' => steady /\ clock' = clock + 1)
    <3>1. CASE clock < MaxClock /\ clock' = clock + 1 /\ UNCHANGED steady
      BY <3>1, TimerAssumption DEF TypeOK, TimerAssumption
    <3>2. CASE clock > 0 /\ clock' = clock - 1 /\ steady' = FALSE
      <4>1. clock' \in 0 .. MaxClock
        BY <3>2, TimerAssumption DEF TypeOK, TimerAssumption
      <4>2. steady' \in BOOLEAN /\ ~ steady'
        BY <3>2
      <4>3. QED
        BY <4>1, <4>2
    <3>3. QED
      BY <1>1, <3>1, <3>2 DEF Pass
  <2>3. TypeOK' /\ RefOK' /\ Phase' /\ Inside'
    BY <2>1, <2>2 DEF TypeOK, RefOK, Phase, Inside, Deleting, At, sift
  <2>4. Sorted'
    BY <2>1, <2>2 DEF Sorted, Ordered, Disturbed, Bridged, Deleting, At, sift
  <2>5. Newest'
    <3> SUFFICES ASSUME steady', NEW k \in 0 .. Size - 1 PROVE At(k).expires <= clock' + Timeout
      BY <2>1 DEF Newest, At
    <3>1. At(k).expires <= clock + Timeout /\ At(k).expires \in Int
      BY <2>2, Nodes DEF Newest
    <3>2. QED
      BY <2>2, <3>1, TimerAssumption DEF TypeOK, TimerAssumption
  <2>6. QED
    BY <2>3, <2>4, <2>5
<1>2. CASE TickFire
  <2>1. pc = "tick" /\ 0 \in 0 .. Size - 1
    BY <1>2, Nodes DEF TickFire, Due
  <2>2. QED
    BY <1>2, <2>1, DelInv DEF TickFire
<1>3. ASSUME NEW id \in Id, RmTimer(id) PROVE IInv'
  <2>1. ref[id] \in 0 .. Size - 1 /\ At(ref[id]).id = id
    BY <1>3 DEF RmTimer, TypeOK, RefOK
  <2>2. QED
    BY <1>3, <2>1, DelInv DEF RmTimer
<1>4. ASSUME NEW id \in Id, AddTimer(id) \/ Adjust(id) PROVE IInv'
  BY <1>4, AddNewInv, RenewInv DEF AddTimer, Adjust
<1>5. CASE Clear
  <2>1. heap' \in Seq(Node) /\ Len(heap') = 0 /\ DOMAIN ref' = {}
    BY <1>5 DEF Clear
  <2>2. pc = "idle" /\ ~ Deleting
    BY <1>5 DEF Clear, Phase
  <2>3. TypeOK'
    BY <1>5, <2>1 DEF Clear, TypeOK, sift, Size
  <2>4. RefOK' /\ Phase' /\ Inside' /\ Sorted' /\ Newest'
    BY <1>5, <2>1, <2>2 DEF Clear, RefOK, Phase, Inside, Sorted, Newest, Live, Deleting, sift, Size
  <2>5. QED
    BY <2>3, <2>4
<1>6. CASE NextTick \/ TickEnd \/ NextRes \/ WaitEnds
  <2>1. UNCHANGED <<clock, steady, heap, ref, op, index, i, n, called>> /\ Size' = Size /\ Live' = Live
    BY <1>6 DEF NextTick, TickEnd, NextRes, WaitEnds, sift, Size, Live, Deleting
  <2>2. pc \in {"idle", "tick", "res", "wait"} /\ pc' \in {"idle", "tick", "res", "wait"}
    BY <1>6 DEF NextTick, TickEnd, NextRes, WaitEnds
  <2>3. res' \in Int
    <3>1. heap # <<>> => At(0).expires \in Int
      BY Nodes
    <3>2. QED
      BY <1>6, <3>1 DEF NextTick, TickEnd, NextRes, WaitEnds, TypeOK
  <2>4. TypeOK' /\ RefOK' /\ Phase' /\ Inside' /\ Newest'
    BY <2>1, <2>2, <2>3 DEF TypeOK, RefOK, Phase, Inside, Newest, Deleting, At
  <2>5. Sorted'
    BY <2>1, <2>2 DEF Sorted, Ordered, Disturbed, Bridged, At
  <2>6. QED
    BY <2>4, <2>5
<1>7. CASE UNCHANGED vars
  BY <1>7 DEF vars, sift, TypeOK, RefOK, Phase, Inside, Sorted, Newest, Ordered, Disturbed, Bridged,
              Live, Deleting, At, Size
<1>8. QED
  BY <1>1, <1>2, <1>3, <1>4, <1>5, <1>6, <1>7, SiftUpInv, SiftDownInv, EraseInv DEF Next, Step

LEMMA Invariance == Spec => []IInv
BY InitInv, NextInv, PTL DEF Spec

(* Type correctness of the timers and of the sift under way.               *)
THEOREM TypeCorrect == Spec => []TypeOK
<1>1. IInv => TypeOK
  BY DEF IInv
<1>2. QED
  BY <1>1, Invariance, PTL

(* ref_ finds the node of every timer and no other, in the middle of every *)
(* sift: no operation acts on the timer of somebody else.                  *)
THEOREM IndexAgrees == Spec => []RefOK
<1>1. IInv => RefOK
  BY DEF IInv
<1>2. QED
  BY <1>1, Invariance, PTL

(* The assertions of swap_node_, sift_up_, sift_down_ and del_ hold, and   *)
(* the node dropped at the end is the one whose callback ran.              *)
THEOREM AssertionsHold == Spec => []SiftInside
<1>1. IInv => SiftInside
  BY Nodes DEF IInv, SiftInside, Phase, Inside, Live, TypeOK
<1>2. QED
  BY <1>1, Invariance, PTL

(* No node is before its parent between two operations while the clock is  *)
(* not set back, although adjust only sifts down.                          *)
THEOREM HeapOrdered == Spec => []HeapOrder
<1>1. ASSUME IInv PROVE HeapOrder
  <2>1. pc \in {"idle", "tick", "res", "wait"} => Live = Size
    BY <1>1 DEF IInv, Phase, Live
  <2>2. QED
    BY <1>1, <2>1, Rest DEF HeapOrder, Ordered, Par
<1>2. IInv => HeapOrder
  BY <1>1
<1>3. QED
  BY <1>2, Invariance, PTL
-----------------------------------------------------------------------------
(* The refinement.                                                         *)

(* The root of a heap in order is the first to expire: of the nodes that   *)
(* expire before it the lowest would have a parent that does so too.       *)
LEMMA RootFirst ==
  ASSUME IInv, steady, pc = "tick", heap # <<>>, NEW k \in 0 .. Size - 1
  PROVE  At(0).expires <= At(k).expires
<1>0. /\ Size \in Nat /\ 0 \in 0 .. Size - 1
      /\ \A m \in 0 .. Size - 1 : At(m).expires \in Int
      /\ \A m \in 1 .. Size - 1 : /\ At(Par(m)).expires <= At(m).expires
                                 /\ Par(m) \in 0 .. Size - 1 /\ Par(m) < m
  <2>1. Live = Size
    BY DEF IInv, Phase, Live
  <2>2. Size \in Nat /\ Size > 0 /\ \A m \in 0 .. Size - 1 : At(m).expires \in Int
    BY Nodes DEF IInv
  <2>3. QED
    BY <2>1, <2>2, Rest, ParFacts DEF Ordered
<1> DEFINE T == {m \in 0 .. Size - 1 : At(m).expires < At(0).expires}
<1>1. SUFFICES ASSUME T # {} PROVE FALSE
  BY <1>0
<1>2. T \subseteq Nat
  BY <1>0
<1>3. PICK m \in T : \A l \in T : m <= l
  BY <1>1, <1>2, LeastNatural
<1>4. m \in 1 .. Size - 1
  BY <1>0
<1>5. Par(m) \in T
  BY <1>0, <1>4
<1>6. QED
  BY <1>0, <1>3, <1>4, <1>5

(* The map of TimerMap, as the last definition of TimerHeap has it.        *)
Deadline == [id \in DOMAIN ref \ Doomed |-> At(ref[id]).expires]

LEMMA InitRefines == Init => Map!Init
<1> SUFFICES ASSUME Init PROVE Map!Init
  OBVIOUS
<1>1. DOMAIN ref \ Doomed = {}
  BY DEF Init, Doomed
<1>2. Deadline = <<>>
  BY <1>1 DEF Deadline
<1>3. QED
  BY <1>2 DEF Init, Map!Init, Deadline

(* A swap moves nodes, and a wait moves nothing.                           *)
LEMMA SameMap ==
  ASSUME DOMAIN ref' = DOMAIN ref, UNCHANGED <<clock, steady, op, called>>,
         \A id \in DOMAIN ref : heap'[ref'[id] + 1].expires = At(ref[id]).expires
  PROVE  UNCHANGED Map!vars
<1>1. Doomed' = Doomed
  BY DEF Doomed
<1>2. Deadline' = Deadline
  BY <1>1 DEF Deadline, At
<1>3. QED
  BY <1>2 DEF Map!vars, Deadline

LEMMA SwapRefines ==
  ASSUME IInv, NEW j \in 0 .. Size - 1, NEW k \in 0 .. Size - 1, j # k,
         heap' = Swapped(j, k), ref' = SwappedRef(j, k), UNCHANGED <<clock, steady, op, called>>
  PROVE  UNCHANGED Map!vars
BY Swap, SameMap DEF IInv

LEMMA SiftRefines == IInv /\ (SiftUp \/ SiftDown) => UNCHANGED Map!vars
<1> SUFFICES ASSUME IInv, SiftUp \/ SiftDown PROVE UNCHANGED Map!vars
  OBVIOUS
<1>0. i \in 0 .. Size - 1 /\ Size \in Nat
  BY Nodes DEF IInv, SiftUp, SiftDown, TypeOK, Inside, Live
<1>s. UNCHANGED <<clock, steady, op, called>>
  BY DEF SiftUp, SiftDown
<1>1. CASE UNCHANGED <<heap, ref>>
  BY <1>s, <1>1, SameMap DEF At
<1>2. CASE SiftUp /\ i # 0 /\ SwapWith(Parent)
  <2>1. Parent = Par(i) /\ i \in Nat \ {0}
    BY <1>0, <1>2 DEF Par, Parent
  <2>2. Parent \in 0 .. Size - 1 /\ i # Parent
    BY <1>0, <2>1, ParFacts
  <2>3. heap' = Swapped(i, Parent) /\ ref' = SwappedRef(i, Parent)
    BY <1>2 DEF SwapWith
  <2>4. QED
    BY <1>0, <1>s, <2>2, <2>3, SwapRefines
<1>3. CASE SiftDown /\ 2 * i + 1 < n /\ SwapWith(Child)
  <2>1. n <= Size /\ n \in Int
    BY <1>0, <1>3 DEF IInv, TypeOK, SiftDown, Inside, Live
  <2>2. Child \in 0 .. Size - 1 /\ i # Child
    BY <1>0, <1>3, <2>1 DEF Child
  <2>3. heap' = Swapped(i, Child) /\ ref' = SwappedRef(i, Child)
    BY <1>3 DEF SwapWith
  <2>4. QED
    BY <1>0, <1>s, <2>2, <2>3, SwapRefines
<1>4. QED
  BY <1>1, <1>2, <1>3 DEF SiftUp, SiftDown, Sifted

LEMMA EraseRefines == IInv /\ Erase => Map!Done
<1> SUFFICES ASSUME IInv, Erase PROVE Map!Done
  OBVIOUS
<1>1. /\ Doomed = {called.id} /\ called.id = At(Size - 1).id
      /\ Doomed' = {} /\ Size \in Nat /\ Size > 0
  BY Nodes DEF IInv, Phase, Inside, Deleting, Doomed, Erase
<1>2. DOMAIN ref' \ Doomed' = DOMAIN ref \ Doomed
  BY <1>1 DEF Erase
<1>3. ASSUME NEW id \in DOMAIN ref \ Doomed PROVE heap'[ref'[id] + 1] = At(ref[id])
  <2>1. ref'[id] = ref[id] /\ ref[id] \in 0 .. Size - 1 /\ At(ref[id]).id = id /\ id # At(Size - 1).id
    BY <1>1, <1>3 DEF IInv, TypeOK, RefOK, Erase
  <2>2. ref[id] + 1 \in 1 .. Size - 1
    BY <1>1, <2>1
  <2>3. \A m \in 1 .. Size - 1 : heap'[m] = heap[m]
    BY <1>1 DEF IInv, TypeOK, Size, Erase
  <2>4. QED
    BY <2>1, <2>2, <2>3 DEF At
<1>4. Deadline' = Deadline
  BY <1>2, <1>3 DEF Deadline, At
<1>5. QED
  BY <1>4 DEF Map!Done, Deadline, Erase

(* del_ takes its timer from the map at once, and swaps the rest.          *)
LEMMA DelRefines ==
  ASSUME IInv, pc \in {"idle", "tick"}, NEW k \in 0 .. Size - 1, Del(k),
         op' \in {"pop", "rm_timer"}, called'.id = At(k).id
  PROVE  /\ Doomed = {} /\ Deadline' = [t \in DOMAIN Deadline \ {At(k).id} |-> Deadline[t]]
<1>1. Doomed = {} /\ Doomed' = {At(k).id} /\ Size \in Nat
  BY Nodes DEF IInv, Phase, Deleting, Doomed
<1>2. DOMAIN ref' = DOMAIN ref /\ \A id \in DOMAIN ref : heap'[ref'[id] + 1] = At(ref[id])
  <2>1. CASE k < Size - 1
    <3>1. /\ heap' = Swapped(k, Size - 1) /\ ref' = SwappedRef(k, Size - 1)
          /\ Size - 1 \in 0 .. Size - 1 /\ k # Size - 1
      BY <1>1, <2>1 DEF Del
    <3>2. QED
      BY <3>1, Swap DEF IInv
  <2>2. CASE ~ (k < Size - 1)
    BY <2>2 DEF Del, At
  <2>3. QED
    BY <2>1, <2>2
<1>3. QED
  BY <1>1, <1>2 DEF Deadline, At

(* tick calls the callback of a timer that is due, and first to expire.    *)
LEMMA TickRefines ==
  IInv /\ TickFire => \E id \in Id : Map!Fire(id)
<1> SUFFICES ASSUME IInv, TickFire PROVE Map!Fire(At(0).id) /\ At(0).id \in Id
  OBVIOUS
<1>1. 0 \in 0 .. Size - 1 /\ At(0).id \in Id /\ pc = "tick" /\ heap # <<>>
  BY Nodes DEF IInv, TickFire, Due
<1>2. called' = [by |-> "tick", id |-> At(0).id] /\ UNCHANGED <<clock, steady>> /\ At(0).expires <= clock
  BY DEF TickFire, Due
<1>3. Doomed = {} /\ Deadline' = [t \in DOMAIN Deadline \ {At(0).id} |-> Deadline[t]]
  <2>1. Del(0) /\ op' = "pop" /\ called'.id = At(0).id
    BY DEF TickFire
  <2>2. QED
    BY <1>1, <2>1, DelRefines
<1>4. At(0).id \in DOMAIN Deadline /\ Deadline[At(0).id] = At(0).expires
  <2>1. At(0).id \in DOMAIN ref /\ ref[At(0).id] = 0
    BY <1>1 DEF IInv, RefOK
  <2>2. QED
    BY <1>3, <2>1 DEF Deadline
<1>5. steady => \A t \in DOMAIN Deadline : At(0).expires <= Deadline[t]
  <2> SUFFICES ASSUME steady, NEW t \in DOMAIN Deadline PROVE At(0).expires <= Deadline[t]
    OBVIOUS
  <2>1. Deadline[t] = At(ref[t]).expires /\ ref[t] \in 0 .. Size - 1
    BY DEF Deadline, IInv, TypeOK
  <2>2. QED
    BY <1>1, <2>1, RootFirst
<1>6. QED
  BY <1>1, <1>2, <1>3, <1>4, <1>5 DEF Map!Fire, Map!Without, Deadline

LEMMA RmRefines ==
  ASSUME IInv, NEW id \in Id, RmTimer(id) PROVE Map!Remove(id)
<1>1. ref[id] \in 0 .. Size - 1 /\ At(ref[id]).id = id /\ pc = "idle" /\ id \in DOMAIN ref
  BY DEF IInv, TypeOK, RefOK, RmTimer
<1>2. called' = [by |-> "rm_timer", id |-> id] /\ UNCHANGED <<clock, steady>>
  BY DEF RmTimer
<1>3. Doomed = {} /\ Deadline' = [t \in DOMAIN Deadline \ {id} |-> Deadline[t]]
  BY <1>1, <1>2, DelRefines DEF RmTimer
<1>4. id \in DOMAIN Deadline
  BY <1>1, <1>3 DEF Deadline
<1>5. QED
  BY <1>2, <1>3, <1>4 DEF Map!Remove, Map!Without, Deadline

(* add_timer and adjust change one deadline.                               *)
LEMMA SetRefines ==
  ASSUME IInv, NEW id \in Id, AddTimer(id) \/ Adjust(id) PROVE Map!Set(id)
<1>1. Doomed = {} /\ Doomed' = {} /\ Size \in Nat /\ UNCHANGED <<clock, steady, called>>
  BY Nodes DEF IInv, Phase, Deleting, Doomed, AddTimer, Adjust, AddNew, Renew
<1>2. /\ DOMAIN ref' = DOMAIN ref \cup {id}
      /\ heap'[ref'[id] + 1].expires = clock + Timeout
      /\ \A t \in DOMAIN ref \ {id} : heap'[ref'[t] + 1].expires = At(ref[t]).expires
  <2>1. \A t \in DOMAIN ref : ref[t] \in 0 .. Size - 1 /\ At(ref[t]).id = t
    BY DEF IInv, TypeOK, RefOK
  <2>2. heap \in Seq(Node) /\ DOMAIN heap = 1 .. Size
    BY DEF IInv, TypeOK, Size
  <2>3. CASE AddNew(id)
    <3>1. /\ DOMAIN ref' = DOMAIN ref \cup {id} /\ ref'[id] = Size
          /\ \A t \in DOMAIN ref \ {id} : ref'[t] = ref[t]
      BY <2>3 DEF AddNew
    <3>2. [id |-> id, expires |-> Expires] \in Node
      BY <2>3, TimerAssumption DEF TimerAssumption, AddNew, Expires, IInv, TypeOK, Node
    <3>3. /\ heap'[Size + 1] = [id |-> id, expires |-> Expires]
          /\ \A m \in 1 .. Size : heap'[m] = heap[m]
      BY <2>2, <2>3, <3>2, AppendProperties DEF AddNew, Size
    <3>4. QED
      BY <1>1, <2>1, <3>1, <3>3 DEF At, Expires
  <2>4. CASE Renew(id, "add") \/ Renew(id, "adjust")
    <3>1. /\ ref' = ref /\ id \in DOMAIN ref
          /\ heap' = [heap EXCEPT ![ref[id] + 1].expires = Expires]
      BY <2>4 DEF Renew
    <3>2. \A t \in DOMAIN ref \ {id} : ref[t] # ref[id]
      BY <2>1, <3>1
    <3>3. heap[ref[id] + 1] \in Node
      BY <1>1, <2>1, <3>1, Nodes DEF IInv, At
    <3>4. /\ heap'[ref[id] + 1].expires = Expires
          /\ \A m \in 1 .. Size : m # ref[id] + 1 => heap'[m] = heap[m]
      BY <1>1, <2>1, <2>2, <3>1, <3>3 DEF Node
    <3>5. ASSUME NEW t \in DOMAIN ref \ {id} PROVE heap'[ref'[t] + 1].expires = At(ref[t]).expires
      <4>1. ref[t] + 1 \in 1 .. Size /\ ref[t] + 1 # ref[id] + 1
        BY <1>1, <2>1, <3>1, <3>2
      <4>2. QED
        BY <3>1, <3>4, <4>1 DEF At
    <3>6. DOMAIN ref' = DOMAIN ref \cup {id} /\ heap'[ref'[id] + 1].expires = clock + Timeout
      BY <3>1, <3>4 DEF Expires
    <3>7. QED
      BY <3>5, <3>6
  <2>5. QED
    BY <2>3, <2>4 DEF AddTimer, Adjust
<1>3. Deadline' = [t \in DOMAIN Deadline \cup {id} |-> IF t = id THEN clock + Timeout ELSE Deadline[t]]
  BY <1>1, <1>2 DEF Deadline, At
<1>4. QED
  BY <1>1, <1>3 DEF Map!Set, Deadline

LEMMA StepRefines == IInv /\ [Next]_vars => [Map!Next]_Map!vars
<1> SUFFICES ASSUME IInv, [Next]_vars PROVE [Map!Next]_Map!vars
  OBVIOUS
<1>1. CASE Pass
  <2>1. UNCHANGED <<heap, ref, op, called>>
    BY <1>1 DEF Pass, sift
  <2>2. Deadline' = Deadline
    BY <2>1 DEF Deadline, Doomed, At
  <2>3. clock' # clock /\ steady' = (steady /\ clock' > clock)
    <3>1. clock \in Int /\ steady \in BOOLEAN
      BY TimerAssumption DEF IInv, TypeOK, TimerAssumption
    <3>2. CASE clock' = clock + 1 /\ steady' = steady
      BY <3>1, <3>2
    <3>3. CASE clock' = clock - 1 /\ steady' = FALSE
      <4>1. clock' # clock /\ ~ (clock' > clock)
        BY <3>1, <3>3
      <4>2. QED
        BY <3>3, <4>1
    <3>4. QED
      BY <1>1, <3>2, <3>3 DEF Pass
  <2>4. QED
    BY <2>1, <2>2, <2>3 DEF Map!Next, Map!Pass, Deadline
<1>2. CASE Clear
  <2>1. DOMAIN ref' \ Doomed' = {}
    BY <1>2 DEF Clear
  <2>2. Deadline' = <<>>
    BY <2>1 DEF Deadline
  <2>3. QED
    BY <1>2, <2>2 DEF Clear, Map!Next, Map!Clear, Deadline
<1>3. CASE NextTick \/ TickEnd \/ NextRes \/ WaitEnds \/ UNCHANGED vars
  BY <1>3, SameMap DEF NextTick, TickEnd, NextRes, WaitEnds, vars, sift, At
<1>4. QED
  BY <1>1, <1>2, <1>3, SiftRefines, EraseRefines, TickRefines, RmRefines, SetRefines
  DEF Next, Step, Map!Next

(* Every step of the heap is a step of the map of deadlines or leaves it   *)
(* unchanged: deadlines are kept, a callback runs once its deadline is     *)
(* over, the earliest first unless the clock was set back, and its timer   *)
(* is gone afterwards.                                                     *)
THEOREM RefinesTimerMap == Spec => ImplementsTimerMap
<1>1. Spec => Map!Init /\ [][Map!Next]_Map!vars
  BY InitRefines, StepRefines, Invariance, PTL DEF Spec
<1>2. QED
  BY <1>1 DEF ImplementsTimerMap, Map!Spec
=============================================================================
